----------------------------- MODULE LocalPush ------------------------------
(***************************************************************************)
(* "balena push <device>": build the images on the device, send it the     *)
(* target state, then tail its logs and, in a live session, watch the      *)
(* files; and "balena device logs <device>", which only tails the logs.    *)
(* Tailing reconnects by itself; the session ends when either of the two   *)
(* ends, or on CTRL-C.  What the session does to the containers meanwhile  *)
(* is in Livepush.                                                         *)
(***************************************************************************)
EXTENDS Naturals

CONSTANTS
    N, Built,   \* the services are 1..N, in this order; those with a build
    maxAttempts \* how often tailing may connect

ASSUME LocalPushAssumption == N \in Nat /\ Built \subseteq 1..N /\ maxAttempts \in Nat \ {0}

Services == 1..N

VARIABLES
    command,    \* "push" or "logs"
    live,       \* a live session is wanted
    detached,   \* --detached
    phase,      \* where deployToDevice, or the command "logs", is
    outcome,    \* how it ended: "sigint", "lost", "refused", "error", "done"
    image,      \* the images built
    target,     \* the device got the new target state
    logs,       \* connectAndDisplayDeviceLogs
    attempt,    \* the attempts of retry
    onInt, onTerm, \* the handlers of SIGINT and SIGTERM of displayDeviceLogs
    gotSignal,  \* and what they set, of this attempt
    init,       \* LivepushManager.init
    next,       \* the service its loop is at
    present,    \* the services of which the device listed a container
    containers, \* the services that have a livepush instance and a watcher
    watching,   \* the watchers that are not closed
    cleaning,   \* the instances that were there when cleanup began
    cleaned,    \* those it cleaned up
    hasty,      \* history: the session ended before init did
    signals     \* history: the signals handled, and what tailing was doing then

opts == <<command, live, detached>>
device == <<image, target>>
tail == <<logs, attempt, onInt, onTerm, gotSignal>>
manager == <<init, next, present, containers>>
closing == <<watching, cleaning, cleaned, hasty>>
vars == <<opts, phase, outcome, device, tail, manager, closing, signals>>

Alive == phase \notin {"ended", "killed"}
Initializing == init \in {"info", "settling", "creating"}
Tailing == logs \in {"connecting", "open", "delay"}

\* awaitInterruptibleTask listens to SIGINT.
Racing == command = "push" /\ phase \in {"building", "session"}
-----------------------------------------------------------------------------
Init ==
    /\ command \in {"push", "logs"}
    /\ live \in BOOLEAN /\ detached \in BOOLEAN
    /\ command = "logs" => ~live /\ ~detached
    /\ phase = "contact" /\ outcome = "none"
    /\ image = [s \in Services |-> "none"] /\ target = FALSE
    /\ logs = "none" /\ attempt = 0 /\ onInt = FALSE /\ onTerm = FALSE /\ gotSignal = FALSE
    /\ init = "none" /\ next = 1 /\ present = {} /\ containers = {}
    /\ watching = {} /\ cleaning = {} /\ cleaned = {} /\ hasty = FALSE
    /\ signals = {}

(* The ping, and the version: an old supervisor means no live session.     *)
Contact ==
    /\ phase = "contact"
    /\ IF command = "logs"
       THEN phase' = "session" /\ logs' = "connecting" /\ attempt' = 1 /\ UNCHANGED live
       ELSE phase' = "preparing" /\ live' \in {FALSE, live} /\ UNCHANGED <<logs, attempt>>
    /\ UNCHANGED <<command, detached, outcome, device, onInt, onTerm, gotSignal, manager, closing, signals>>

(* loadProject, tarDirectory, getDeviceInformation.                        *)
Prepare ==
    /\ phase = "preparing" /\ phase' = "building"
    /\ UNCHANGED <<opts, outcome, device, tail, manager, closing, signals>>

(* Any of these steps fails, or what the builds need besides the images    *)
(* (their tasks, the probes, the tags), with an error expected or not.     *)
StepFails ==
    /\ phase \in {"contact", "preparing", "building", "targeting"}
    /\ phase' = "over" /\ outcome' \in {"refused", "error"}
    /\ command = "logs" => outcome' = "refused"
    /\ UNCHANGED <<opts, device, tail, manager, closing, signals>>

BuildImage(s) ==
    /\ phase = "building" /\ image[s] = "none"
    /\ image' \in {[image EXCEPT ![s] = r] : r \in {"built", "failed"}}
    /\ UNCHANGED <<opts, phase, outcome, target, tail, manager, closing, signals>>

(* All builds come to an end, then inspectBuildResults throws if one failed*)
BuildsEnd ==
    /\ phase = "building" /\ \A s \in Services : image[s] # "none"
    /\ IF \E s \in Services : image[s] = "failed"
       THEN phase' = "over" /\ outcome' = "refused"
       ELSE phase' = "targeting" /\ UNCHANGED outcome
    /\ UNCHANGED <<opts, device, tail, manager, closing, signals>>

(* The new target state takes effect, also if the answer is an error.      *)
TargetAnswerLost ==
    /\ phase = "targeting"
    /\ target' = TRUE
    /\ phase' = "over" /\ outcome' = "error"
    /\ UNCHANGED <<opts, image, tail, manager, closing, signals>>

(* setTargetState, then both promises are made.                            *)
StartSession ==
    /\ phase = "targeting"
    /\ target' = TRUE
    /\ logs' = IF detached THEN "none" ELSE "connecting"
    /\ attempt' = IF detached THEN 0 ELSE 1
    /\ init' = IF live THEN "info" ELSE "none"
    /\ IF detached /\ ~live THEN phase' = "over" /\ outcome' = "done"
                            ELSE phase' = "session" /\ UNCHANGED outcome
    /\ UNCHANGED <<opts, image, onInt, onTerm, gotSignal, next, present, containers, closing, signals>>
-----------------------------------------------------------------------------
EndSessionLeft(o) ==   \* mutant: the watchers are not closed
    IF phase # "session" THEN UNCHANGED <<phase, outcome, closing>>
    ELSE /\ outcome' = o
         /\ IF ~live THEN phase' = "over" /\ UNCHANGED closing
            ELSE /\ phase' = "closing"
                 /\ cleaning' = containers /\ hasty' = Initializing'
                 /\ UNCHANGED <<watching, cleaned>>

(* The first promise that rejects, or CTRL-C, or the last that resolves,   *)
(* ends the session: close() the watchers there are, then cleanup().       *)
EndSession(o) ==
    IF phase # "session" THEN UNCHANGED <<phase, outcome, closing>>
    ELSE /\ outcome' = o
         /\ IF ~live THEN phase' = "over" /\ UNCHANGED closing
            ELSE /\ phase' = "closing"
                 /\ watching' = {} /\ cleaning' = containers
                 /\ hasty' = Initializing'
                 /\ UNCHANGED cleaned

Connect ==
    /\ Alive /\ logs = "connecting"
    /\ logs' = "open" /\ onInt' = TRUE /\ onTerm' = TRUE /\ gotSignal' = FALSE
    /\ UNCHANGED <<opts, phase, outcome, device, attempt, manager, closing, signals>>

(* retry: after a pause, unless it was the last attempt.                   *)
AttemptFails(o) ==
    IF attempt < maxAttempts
    THEN logs' = "delay" /\ UNCHANGED <<phase, outcome, closing>>
    ELSE logs' = "over" /\ EndSession(o)

ConnectFails ==
    /\ Alive /\ logs = "connecting"
    /\ UNCHANGED <<opts, device, attempt, onInt, onTerm, gotSignal, manager, signals>>
    /\ AttemptFails("error")

StreamEndsRetried ==   \* mutant: an attempt that got a signal is retried
    /\ Alive /\ logs = "open"
    /\ onInt' = FALSE /\ onTerm' = FALSE
    /\ UNCHANGED <<opts, device, attempt, gotSignal, manager, signals>>
    /\ AttemptFails(IF gotSignal THEN "sigint" ELSE "lost")

(* The stream ends or fails: displayDeviceLogs never resolves.             *)
StreamEnds ==
    /\ Alive /\ logs = "open"
    /\ onInt' = FALSE /\ onTerm' = FALSE
    /\ UNCHANGED <<opts, device, attempt, gotSignal, manager, signals>>
    /\ IF gotSignal THEN logs' = "over" /\ EndSession("sigint") ELSE AttemptFails("lost")

Retry ==
    /\ Alive /\ logs = "delay"
    /\ logs' = "connecting" /\ attempt' = attempt + 1
    /\ UNCHANGED <<opts, phase, outcome, device, onInt, onTerm, gotSignal, manager, closing, signals>>
-----------------------------------------------------------------------------
(* LivepushManager.init: the device information, then poll the state.      *)
GetDeviceInformation ==
    /\ Alive /\ init = "info"
    /\ init' = "settling"
    /\ UNCHANGED <<opts, phase, outcome, device, tail, next, present, containers, closing, signals>>

StateSettles ==
    /\ Alive /\ init = "settling"
    /\ init' = "creating"
    /\ present' \in SUBSET Services
    /\ UNCHANGED <<opts, phase, outcome, device, tail, next, containers, closing, signals>>

InitFails ==
    /\ Alive /\ Initializing
    /\ UNCHANGED <<opts, device, tail, next, present, containers, signals>>
    /\ init' = "failed" /\ EndSession("error")

(* Its loop: services without a build are passed over; at one without a    *)
(* container the whole init returns.                                       *)
PassOver ==
    /\ Alive /\ init = "creating" /\ next \in Services \ Built
    /\ next' = next + 1
    /\ UNCHANGED <<opts, phase, outcome, device, tail, init, present, containers, closing, signals>>

Watch ==
    /\ Alive /\ init = "creating" /\ next \in Built \cap present
    /\ containers' = containers \cup {next}
    /\ watching' = watching \cup {next}
    /\ next' = next + 1
    /\ UNCHANGED <<opts, phase, outcome, device, tail, init, present, cleaning, cleaned, hasty, signals>>

ReturnsEarly ==   \* mutant: the container of any service is asked for
    /\ Alive /\ init = "creating"
    /\ next \notin Services \/ next \notin present
    /\ init' = "done"
    /\ IF detached THEN EndSession("done") ELSE UNCHANGED <<phase, outcome, closing>>
    /\ UNCHANGED <<opts, device, tail, next, present, containers, signals>>

Returns ==
    /\ Alive /\ init = "creating"
    /\ next \notin Services \/ next \in Built \ present
    /\ init' = "done"
    /\ IF detached THEN EndSession("done") ELSE UNCHANGED <<phase, outcome, closing>>
    /\ UNCHANGED <<opts, device, tail, next, present, containers, signals>>
-----------------------------------------------------------------------------
Cleanup ==
    /\ phase = "closing"
    /\ cleaned' = cleaning /\ phase' = "over"
    /\ UNCHANGED <<opts, outcome, device, tail, manager, watching, cleaning, hasty, signals>>

(* Its error takes the place of the one that ended the session.            *)
CleanupFails ==
    /\ phase = "closing"
    /\ cleaned' \in SUBSET cleaning
    /\ phase' = "over" /\ outcome' = "error"
    /\ UNCHANGED <<opts, device, tail, manager, watching, cleaning, hasty, signals>>

(* handleError: process.exit for CTRL-C and unexpected errors; otherwise   *)
(* the process ends when nothing is open any more.                         *)
Exit ==
    /\ phase = "over"
    /\ \/ outcome \in {"sigint", "error"}
       \/ ~Tailing /\ ~Initializing /\ watching = {}
    /\ phase' = "ended"
    /\ UNCHANGED <<opts, outcome, device, tail, manager, closing, signals>>

InterruptTail ==   \* mutant: in a session, only displayDeviceLogs listens
    /\ Alive
    /\ UNCHANGED <<opts, device, logs, attempt, onTerm, manager>>
    /\ IF phase = "building" \/ onInt
       THEN /\ gotSignal' = (gotSignal \/ onInt) /\ onInt' = FALSE
            /\ signals' = signals \cup {<<"SIGINT", logs>>}
            /\ IF phase = "building" THEN phase' = "over" /\ outcome' = "sigint"
                                     ELSE UNCHANGED <<phase, outcome>>
            /\ UNCHANGED closing
       ELSE phase' = "killed" /\ UNCHANGED <<outcome, gotSignal, onInt, closing, signals>>

(* SIGINT: each handler is called once; without any the process dies.      *)
Interrupt ==
    /\ Alive
    /\ UNCHANGED <<opts, device, logs, attempt, onTerm, manager>>
    /\ IF Racing \/ onInt
       THEN /\ gotSignal' = (gotSignal \/ onInt) /\ onInt' = FALSE
            /\ signals' = signals \cup {<<"SIGINT", logs>>}
            /\ IF phase = "building"
               THEN phase' = "over" /\ outcome' = "sigint" /\ UNCHANGED closing
               ELSE IF Racing THEN EndSession("sigint") ELSE UNCHANGED <<phase, outcome, closing>>
       ELSE phase' = "killed" /\ UNCHANGED <<outcome, gotSignal, onInt, closing, signals>>

Terminate ==
    /\ Alive
    /\ IF onTerm
       THEN /\ gotSignal' = TRUE /\ onTerm' = FALSE
            /\ signals' = signals \cup {<<"SIGTERM", logs>>}
            /\ UNCHANGED phase
       ELSE phase' = "killed" /\ UNCHANGED <<gotSignal, onTerm, signals>>
    /\ UNCHANGED <<opts, outcome, device, logs, attempt, onInt, manager, closing>>

Deploy == Contact \/ Prepare \/ StepFails \/ (\E s \in Services : BuildImage(s)) \/ BuildsEnd
              \/ StartSession \/ TargetAnswerLost
Tail == Connect \/ ConnectFails \/ StreamEnds \/ Retry
Manage == GetDeviceInformation \/ StateSettles \/ InitFails \/ PassOver \/ Watch \/ Returns
Close == Cleanup \/ CleanupFails \/ Exit

Next == Deploy \/ Tail \/ Manage \/ Close \/ Interrupt \/ Terminate

(* The calls of cleanup() are answered or fail.                            *)
Spec == Init /\ [][Next]_vars /\ WF_vars(Close)
-----------------------------------------------------------------------------
TypeOK ==
    /\ command \in {"push", "logs"} /\ live \in BOOLEAN /\ detached \in BOOLEAN
    /\ phase \in {"contact", "preparing", "building", "targeting", "session", "closing",
                  "over", "ended", "killed"}
    /\ outcome \in {"none", "sigint", "lost", "refused", "error", "done"}
    /\ image \in [Services -> {"none", "built", "failed"}] /\ target \in BOOLEAN
    /\ logs \in {"none", "connecting", "open", "delay", "over"} /\ attempt \in 0..maxAttempts
    /\ onInt \in BOOLEAN /\ onTerm \in BOOLEAN /\ gotSignal \in BOOLEAN
    /\ init \in {"none", "info", "settling", "creating", "done", "failed"}
    /\ next \in 1..(N + 1) /\ present \subseteq Services
    /\ containers \subseteq Built /\ watching \subseteq containers
    /\ cleaning \subseteq containers /\ cleaned \subseteq cleaning
    /\ hasty \in BOOLEAN
    /\ signals \subseteq {"SIGINT", "SIGTERM"} \X {"none", "connecting", "open", "delay", "over"}

(* The device gets a new target state only when all of its images were     *)
(* built, and not at all from a push that was interrupted as it built them.*)
TargetIsBuilt ==
    target => (\A s \in Services : image[s] = "built") /\ outcome # "refused"

(* A session that tails the logs never ends as a success: who scripts it   *)
(* sees why it ended.                                                      *)
OnlyDetachedSucceeds == outcome = "done" => command = "push" /\ detached

(* "Don't retry on SIGINT (CTRL-C)": tailing that was connected when a     *)
(* signal was handled does not connect again, also while the session is    *)
(* being cleaned up; tailing that was between two connections may.         *)
SignalStopsTail ==
    [][attempt' # attempt => \A g \in {"SIGINT", "SIGTERM"} : <<g, "open">> \notin signals]_vars

(* What a session leaves.  A process that lingers with watchers open lost  *)
(* the connection before the live session was ready: all other ways out    *)
(* close what they opened.  When the process ends by itself, every livepush*)
(* instance was handed to cleanup(), again unless the session ended before *)
(* they were all there.                                                    *)
LeavingsAreExplained ==
    /\ phase = "over" /\ watching # {} => hasty
    /\ phase = "ended" /\ ~hasty => cleaning = containers

(* When the session is ready, a service whose files are not watched has no *)
(* container, or comes after one with a build that has none.               *)
UnwatchedIsExplained ==
    init = "done" =>
        \A s \in Built \ containers : \E r \in Built \ present : r <= s

(* CTRL-C ends a push, wherever it arrives, and whatever tailing and the   *)
(* watchers are doing.                                                     *)
CtrlCEnds ==
    command = "push" /\ (\E l \in {"none", "connecting", "open", "delay", "over"} :
                            <<"SIGINT", l>> \in signals) ~> ~Alive
=============================================================================
