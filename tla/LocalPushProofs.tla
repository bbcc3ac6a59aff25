-------------------------- MODULE LocalPushProofs ---------------------------
(***************************************************************************)
(* The safety of LocalPush, for any number of services, any of them with a *)
(* build, and any number of attempts.                                      *)
(***************************************************************************)
EXTENDS LocalPush, TLAPS

Early == {"contact", "preparing", "building", "targeting"}
Left == {"closing", "over", "ended"}

(* Before the session nothing of it exists, and no outcome.                *)
EarlyInv ==
    /\ phase \in Early =>
          /\ ~target /\ outcome = "none" /\ init = "none" /\ logs = "none"
          /\ containers = {} /\ ~hasty
    /\ phase = "targeting" => \A s \in Services : image[s] = "built"

(* What the command "logs" and a session without a live part never have.   *)
OptsInv ==
    /\ command = "logs" => ~live /\ ~detached
    /\ phase \in {"preparing", "building", "targeting"} => command = "push"
    /\ ~live => init = "none" /\ containers = {}

(* What is created or left after the session ended.                        *)
LeftInv ==
    /\ phase \in Left /\ (Initializing \/ watching # {}) => hasty
    /\ phase \in Left /\ ~hasty => cleaning = containers

(* The loop of init has a watcher for each service with a build behind it. *)
LoopInv ==
    /\ init \in {"none", "info", "settling"} => next = 1
    /\ init = "creating" => \A s \in Built : s < next => s \in containers

(* Who listens to signals, and what a signal leaves of tailing.            *)
Stopped == logs = "over" \/ (logs = "open" /\ gotSignal)

SignalInv ==
    /\ onInt \/ onTerm => logs = "open"
    /\ logs = "open" => onInt \/ gotSignal
    /\ logs = "delay" => attempt < maxAttempts
    /\ \A g \in {"SIGINT", "SIGTERM"} : <<g, "open">> \in signals => Stopped

IInv ==
    /\ TypeOK /\ EarlyInv /\ OptsInv /\ LeftInv /\ LoopInv /\ SignalInv
    /\ TargetIsBuilt /\ OnlyDetachedSucceeds /\ UnwatchedIsExplained
-----------------------------------------------------------------------------
LEMMA InitHolds == Init => IInv
<1> SUFFICES ASSUME Init PROVE IInv
  OBVIOUS
<1>1. TypeOK
  <2>1. next \in 1..(N + 1) /\ attempt \in 0..maxAttempts
    BY LocalPushAssumption DEF Init
  <2>2. image \in [Services -> {"none", "built", "failed"}]
    BY DEF Init
  <2>3. containers \subseteq Built /\ watching \subseteq containers /\ cleaning \subseteq containers
        /\ cleaned \subseteq cleaning /\ present \subseteq Services
    BY DEF Init
  <2>4. signals \subseteq {"SIGINT", "SIGTERM"} \X {"none", "connecting", "open", "delay", "over"}
    BY DEF Init
  <2> QED BY <2>1, <2>2, <2>3, <2>4 DEF Init, TypeOK
<1>2. EarlyInv /\ OptsInv /\ LeftInv
  BY DEF Init, EarlyInv, OptsInv, LeftInv, Early, Left, Initializing
<1>3. LoopInv /\ SignalInv
  BY DEF Init, LoopInv, SignalInv, Stopped
<1>4. TargetIsBuilt /\ OnlyDetachedSucceeds /\ UnwatchedIsExplained
  BY DEF Init, TargetIsBuilt, OnlyDetachedSucceeds, UnwatchedIsExplained
<1> QED BY <1>1, <1>2, <1>3, <1>4 DEF IInv

(* What EndSession and AttemptFails change keeps its type.                 *)
PhaseTypes ==
    /\ phase \in {"contact", "preparing", "building", "targeting", "session", "closing",
                  "over", "ended", "killed"}
    /\ outcome \in {"none", "sigint", "lost", "refused", "error", "done"}
    /\ watching \subseteq containers /\ cleaning \subseteq containers /\ cleaned \subseteq cleaning
    /\ hasty \in BOOLEAN

LEMMA EndSessionTypes ==
    ASSUME TypeOK, NEW o \in {"sigint", "lost", "error", "done"}, EndSession(o),
           containers' = containers
    PROVE  PhaseTypes'
<1>1. CASE phase = "session" /\ live
  <2>1. hasty' = Initializing'
    BY <1>1 DEF EndSession
  <2>2. hasty' \in BOOLEAN
    BY <2>1 DEF Initializing
  <2> QED BY <1>1, <2>2 DEF EndSession, TypeOK, PhaseTypes
<1>2. CASE ~(phase = "session" /\ live)
  BY <1>2 DEF EndSession, TypeOK, PhaseTypes, closing
<1> QED BY <1>1, <1>2

LEMMA AttemptFailsTypes ==
    ASSUME TypeOK, NEW o \in {"sigint", "lost", "error", "done"}, AttemptFails(o),
           containers' = containers
    PROVE  PhaseTypes' /\ logs' \in {"delay", "over"}
<1>1. CASE attempt < maxAttempts
  BY <1>1 DEF AttemptFails, TypeOK, PhaseTypes, closing
<1>2. CASE ~(attempt < maxAttempts)
  BY <1>2, EndSessionTypes DEF AttemptFails
<1> QED BY <1>1, <1>2

LEMMA TypesFromPhase ==
    ASSUME TypeOK, PhaseTypes', UNCHANGED <<opts, device, attempt, next, present, containers>>,
           logs' \in {logs, "open", "delay", "over"}, init' \in {init, "done", "failed"},
           onInt' \in BOOLEAN, onTerm' \in BOOLEAN, gotSignal' \in BOOLEAN,
           signals' \subseteq signals \cup ({"SIGINT", "SIGTERM"} \X {logs})
    PROVE  TypeOK'
<1>1. signals' \subseteq {"SIGINT", "SIGTERM"} \X {"none", "connecting", "open", "delay", "over"}
  BY DEF TypeOK
<1> QED BY <1>1 DEF TypeOK, PhaseTypes, opts, device, Services
-----------------------------------------------------------------------------
(* The deployment: nothing of the session is there before StartSession.    *)
LEMMA DeployStep == IInv /\ Deploy => IInv'
<1>1. ASSUME IInv, Contact PROVE IInv'
  <2>1. TypeOK'
    <3>1. live' \in BOOLEAN
      BY <1>1 DEF Contact, IInv, TypeOK
    <3>2. phase' \in {"preparing", "session"} /\ logs' \in {logs, "connecting"} /\ attempt' \in {attempt, 1}
      BY <1>1 DEF Contact
    <3>3. attempt' \in 0..maxAttempts
      BY <1>1, <3>2, LocalPushAssumption DEF IInv, TypeOK
    <3>4. UNCHANGED <<command, detached, outcome, device, onInt, onTerm, gotSignal, manager, closing, signals>>
      BY <1>1 DEF Contact
    <3> HIDE DEF Contact
    <3> QED BY <1>1, <3>1, <3>2, <3>3, <3>4 DEF IInv, TypeOK, Services, device, manager,
       closing
  <2>2. EarlyInv' /\ OptsInv'
    BY <1>1 DEF Contact, IInv, TypeOK, EarlyInv, OptsInv, Early, device, manager,
       closing
  <2>3. LeftInv'
    BY <1>1 DEF Contact, IInv, TypeOK, EarlyInv, OptsInv, LeftInv, Early, Left,
       Initializing, device, manager, closing
  <2>4. LoopInv' /\ UnwatchedIsExplained'
    BY <1>1, LocalPushAssumption DEF Contact, IInv, TypeOK, EarlyInv, OptsInv, LoopInv,
       UnwatchedIsExplained, Early, Services, device, manager, closing
  <2>5. SignalInv'
    BY <1>1, LocalPushAssumption DEF Contact, IInv, TypeOK, EarlyInv, SignalInv,
       Stopped, Early, device, manager, closing
  <2>6. TargetIsBuilt' /\ OnlyDetachedSucceeds'
    BY <1>1 DEF Contact, IInv, TypeOK, EarlyInv, OptsInv, TargetIsBuilt,
       OnlyDetachedSucceeds, Early, device, manager, closing
  <2> QED BY <2>1, <2>2, <2>3, <2>4, <2>5, <2>6 DEF IInv
<1>2. ASSUME IInv, Prepare PROVE IInv'
  <2>1. TypeOK'
    BY <1>2, LocalPushAssumption DEF Prepare, IInv, TypeOK, EarlyInv, OptsInv,
       SignalInv, Early, Services, opts, device, tail, manager, closing
  <2>2. EarlyInv' /\ OptsInv'
    BY <1>2 DEF Prepare, IInv, TypeOK, EarlyInv, OptsInv, Early, opts, device, tail,
       manager, closing
  <2>3. LeftInv'
    BY <1>2 DEF Prepare, IInv, TypeOK, EarlyInv, OptsInv, LeftInv, Early, Left,
       Initializing, opts, device, tail, manager, closing
  <2>4. LoopInv' /\ UnwatchedIsExplained'
    BY <1>2, LocalPushAssumption DEF Prepare, IInv, TypeOK, EarlyInv, OptsInv, LoopInv,
       UnwatchedIsExplained, Early, Services, opts, device, tail, manager, closing
  <2>5. SignalInv'
    BY <1>2, LocalPushAssumption DEF Prepare, IInv, TypeOK, EarlyInv, SignalInv,
       Stopped, Early, opts, device, tail, manager, closing
  <2>6. TargetIsBuilt' /\ OnlyDetachedSucceeds'
    BY <1>2 DEF Prepare, IInv, TypeOK, EarlyInv, OptsInv, TargetIsBuilt,
       OnlyDetachedSucceeds, Early, opts, device, tail, manager, closing
  <2> QED BY <2>1, <2>2, <2>3, <2>4, <2>5, <2>6 DEF IInv
<1>3. ASSUME IInv, StepFails PROVE IInv'
  <2>1. TypeOK'
    BY <1>3, LocalPushAssumption DEF StepFails, IInv, TypeOK, EarlyInv, OptsInv,
       SignalInv, Early, Services, opts, device, tail, manager, closing
  <2>2. EarlyInv' /\ OptsInv'
    BY <1>3 DEF StepFails, IInv, TypeOK, EarlyInv, OptsInv, Early, opts, device, tail,
       manager, closing
  <2>3. LeftInv'
    BY <1>3 DEF StepFails, IInv, TypeOK, EarlyInv, OptsInv, LeftInv, Early, Left,
       Initializing, opts, device, tail, manager, closing
  <2>4. LoopInv' /\ UnwatchedIsExplained'
    BY <1>3, LocalPushAssumption DEF StepFails, IInv, TypeOK, EarlyInv, OptsInv,
       LoopInv, UnwatchedIsExplained, Early, Services, opts, device, tail, manager,
       closing
  <2>5. SignalInv'
    BY <1>3, LocalPushAssumption DEF StepFails, IInv, TypeOK, EarlyInv, SignalInv,
       Stopped, Early, opts, device, tail, manager, closing
  <2>6. TargetIsBuilt' /\ OnlyDetachedSucceeds'
    BY <1>3 DEF StepFails, IInv, TypeOK, EarlyInv, OptsInv, TargetIsBuilt,
       OnlyDetachedSucceeds, Early, opts, device, tail, manager, closing
  <2> QED BY <2>1, <2>2, <2>3, <2>4, <2>5, <2>6 DEF IInv
<1>4. ASSUME IInv, \E s \in Services : BuildImage(s) PROVE IInv'
  <2>1. TypeOK'
    BY <1>4, LocalPushAssumption DEF BuildImage, IInv, TypeOK, EarlyInv, OptsInv,
       SignalInv, Early, Services, opts, device, tail, manager, closing
  <2>2. EarlyInv' /\ OptsInv'
    BY <1>4 DEF BuildImage, IInv, TypeOK, EarlyInv, OptsInv, Early, opts, tail, manager,
       closing
  <2>3. LeftInv'
    BY <1>4 DEF BuildImage, IInv, TypeOK, EarlyInv, OptsInv, LeftInv, Early, Left,
       Initializing, opts, tail, manager, closing
  <2>4. LoopInv' /\ UnwatchedIsExplained'
    BY <1>4, LocalPushAssumption DEF BuildImage, IInv, TypeOK, EarlyInv, OptsInv,
       LoopInv, UnwatchedIsExplained, Early, Services, opts, device, tail, manager,
       closing
  <2>5. SignalInv'
    BY <1>4, LocalPushAssumption DEF BuildImage, IInv, TypeOK, EarlyInv, SignalInv,
       Stopped, Early, opts, tail, manager, closing
  <2>6. TargetIsBuilt' /\ OnlyDetachedSucceeds'
    BY <1>4 DEF BuildImage, IInv, TypeOK, EarlyInv, OptsInv, TargetIsBuilt,
       OnlyDetachedSucceeds, Early, opts, tail, manager, closing
  <2> QED BY <2>1, <2>2, <2>3, <2>4, <2>5, <2>6 DEF IInv
<1>5. ASSUME IInv, BuildsEnd PROVE IInv'
  <2>1. TypeOK'
    BY <1>5, LocalPushAssumption DEF BuildsEnd, IInv, TypeOK, EarlyInv, OptsInv,
       SignalInv, Early, Services, opts, device, tail, manager, closing
  <2>2. EarlyInv' /\ OptsInv'
    BY <1>5 DEF BuildsEnd, IInv, TypeOK, EarlyInv, OptsInv, Early, opts, device, tail,
       manager, closing
  <2>3. LeftInv'
    BY <1>5 DEF BuildsEnd, IInv, TypeOK, EarlyInv, OptsInv, LeftInv, Early, Left,
       Initializing, opts, device, tail, manager, closing
  <2>4. LoopInv' /\ UnwatchedIsExplained'
    BY <1>5, LocalPushAssumption DEF BuildsEnd, IInv, TypeOK, EarlyInv, OptsInv,
       LoopInv, UnwatchedIsExplained, Early, Services, opts, device, tail, manager,
       closing
  <2>5. SignalInv'
    BY <1>5, LocalPushAssumption DEF BuildsEnd, IInv, TypeOK, EarlyInv, SignalInv,
       Stopped, Early, opts, device, tail, manager, closing
  <2>6. TargetIsBuilt' /\ OnlyDetachedSucceeds'
    BY <1>5 DEF BuildsEnd, IInv, TypeOK, EarlyInv, OptsInv, TargetIsBuilt,
       OnlyDetachedSucceeds, Early, opts, device, tail, manager, closing
  <2> QED BY <2>1, <2>2, <2>3, <2>4, <2>5, <2>6 DEF IInv
<1>6. ASSUME IInv, StartSession PROVE IInv'
  <2>1. TypeOK'
    BY <1>6, LocalPushAssumption DEF StartSession, IInv, TypeOK, EarlyInv, OptsInv,
       SignalInv, Early, Services, opts, device, closing
  <2>2. EarlyInv' /\ OptsInv'
    BY <1>6 DEF StartSession, IInv, TypeOK, EarlyInv, OptsInv, Early, opts, closing
  <2>3. LeftInv'
    BY <1>6 DEF StartSession, IInv, TypeOK, EarlyInv, OptsInv, LeftInv, Early, Left,
       Initializing, opts, closing
  <2>4. LoopInv' /\ UnwatchedIsExplained'
    BY <1>6, LocalPushAssumption DEF StartSession, IInv, TypeOK, EarlyInv, OptsInv,
       LoopInv, UnwatchedIsExplained, Early, Services, opts, device, closing
  <2>5. SignalInv'
    BY <1>6, LocalPushAssumption DEF StartSession, IInv, TypeOK, EarlyInv, SignalInv,
       Stopped, Early, opts, closing
  <2>6. TargetIsBuilt' /\ OnlyDetachedSucceeds'
    BY <1>6 DEF StartSession, IInv, TypeOK, EarlyInv, OptsInv, TargetIsBuilt,
       OnlyDetachedSucceeds, Early, opts, closing
  <2> QED BY <2>1, <2>2, <2>3, <2>4, <2>5, <2>6 DEF IInv
<1>7. ASSUME IInv, TargetAnswerLost PROVE IInv'
  <2>1. TypeOK'
    BY <1>7, LocalPushAssumption DEF TargetAnswerLost, IInv, TypeOK, EarlyInv, OptsInv,
       SignalInv, Early, Services, opts, device, tail, manager, closing
  <2>2. EarlyInv' /\ OptsInv'
    BY <1>7 DEF TargetAnswerLost, IInv, TypeOK, EarlyInv, OptsInv, Early, opts, tail,
       manager, closing
  <2>3. LeftInv'
    BY <1>7 DEF TargetAnswerLost, IInv, TypeOK, EarlyInv, OptsInv, LeftInv, Early, Left,
       Initializing, opts, tail, manager, closing
  <2>4. LoopInv' /\ UnwatchedIsExplained'
    BY <1>7, LocalPushAssumption DEF TargetAnswerLost, IInv, TypeOK, EarlyInv, OptsInv,
       LoopInv, UnwatchedIsExplained, Early, Services, opts, device, tail, manager,
       closing
  <2>5. SignalInv'
    BY <1>7, LocalPushAssumption DEF TargetAnswerLost, IInv, TypeOK, EarlyInv,
       SignalInv, Stopped, Early, opts, tail, manager, closing
  <2>6. TargetIsBuilt' /\ OnlyDetachedSucceeds'
    BY <1>7 DEF TargetAnswerLost, IInv, TypeOK, EarlyInv, OptsInv, TargetIsBuilt,
       OnlyDetachedSucceeds, Early, opts, tail, manager, closing
  <2> QED BY <2>1, <2>2, <2>3, <2>4, <2>5, <2>6 DEF IInv
<1> QED BY <1>1, <1>2, <1>3, <1>4, <1>5, <1>6, <1>7 DEF Deploy

(* Tailing the logs: connecting, its retries, and how it ends.             *)
LEMMA TailStep == IInv /\ Tail => IInv'
<1>1. ASSUME IInv, Connect PROVE IInv'
  <2>1. TypeOK'
    <3>1. PhaseTypes' /\ logs' = "open"
      BY <1>1 DEF Connect, manager, closing, IInv, TypeOK, PhaseTypes
    <3>2. onInt' \in BOOLEAN /\ onTerm' \in BOOLEAN /\ gotSignal' \in BOOLEAN
      BY <1>1 DEF Connect
    <3>3. UNCHANGED <<opts, device, attempt, next, present, containers>>
      BY <1>1 DEF Connect, manager
    <3>4. init' = init /\ signals' = signals
      BY <1>1 DEF Connect, manager
    <3> QED BY <1>1, <3>1, <3>2, <3>3, <3>4, TypesFromPhase DEF IInv
  <2>2. EarlyInv' /\ OptsInv'
    BY <1>1 DEF Connect, Alive, IInv, TypeOK, EarlyInv, OptsInv, Early, opts, device,
       manager, closing
  <2>3. LeftInv'
    BY <1>1 DEF Connect, Alive, IInv, TypeOK, EarlyInv, OptsInv, LeftInv, Early, Left,
       Initializing, opts, device, manager, closing
  <2>4. LoopInv' /\ UnwatchedIsExplained'
    BY <1>1, LocalPushAssumption DEF Connect, Alive, IInv, TypeOK, EarlyInv, OptsInv,
       LoopInv, UnwatchedIsExplained, Early, Services, opts, device, manager, closing
  <2>5. SignalInv'
    BY <1>1, LocalPushAssumption DEF Connect, Alive, IInv, TypeOK, EarlyInv, SignalInv,
       Stopped, Early, opts, device, manager, closing
  <2>6. TargetIsBuilt' /\ OnlyDetachedSucceeds'
    BY <1>1 DEF Connect, Alive, IInv, TypeOK, EarlyInv, OptsInv, TargetIsBuilt,
       OnlyDetachedSucceeds, Early, opts, device, manager, closing
  <2> QED BY <2>1, <2>2, <2>3, <2>4, <2>5, <2>6 DEF IInv
<1>2. ASSUME IInv, ConnectFails PROVE IInv'
  <2>1. TypeOK'
    <3>1. PhaseTypes' /\ logs' \in {"delay", "over"}
      BY <1>2, AttemptFailsTypes DEF ConnectFails, manager, IInv
    <3> QED BY <1>2, <3>1, TypesFromPhase DEF ConnectFails, manager, IInv, TypeOK
  <2>2. EarlyInv' /\ OptsInv'
    BY <1>2 DEF ConnectFails, AttemptFails, EndSession, Alive, IInv, TypeOK, EarlyInv,
       OptsInv, Early, Initializing, opts, device, manager, closing
  <2>3. LeftInv'
    BY <1>2 DEF ConnectFails, AttemptFails, EndSession, Alive, IInv, TypeOK, EarlyInv,
       OptsInv, LeftInv, Early, Left, Initializing, opts, device, manager, closing
  <2>4. LoopInv' /\ UnwatchedIsExplained'
    BY <1>2, LocalPushAssumption DEF ConnectFails, AttemptFails, EndSession, Alive,
       IInv, TypeOK, EarlyInv, OptsInv, LoopInv, UnwatchedIsExplained, Early,
       Initializing, Services, opts, device, manager, closing
  <2>5. SignalInv'
    BY <1>2, LocalPushAssumption DEF ConnectFails, AttemptFails, EndSession, Alive,
       IInv, TypeOK, EarlyInv, SignalInv, Stopped, Early, opts, device, manager, closing
  <2>6. TargetIsBuilt' /\ OnlyDetachedSucceeds'
    BY <1>2 DEF ConnectFails, AttemptFails, EndSession, Alive, IInv, TypeOK, EarlyInv,
       OptsInv, TargetIsBuilt, OnlyDetachedSucceeds, Early, opts, device, manager,
       closing
  <2> QED BY <2>1, <2>2, <2>3, <2>4, <2>5, <2>6 DEF IInv
<1>3. ASSUME IInv, StreamEnds PROVE IInv'
  <2>1. TypeOK'
    <3>1. PhaseTypes' /\ logs' \in {"delay", "over"}
      BY <1>3, AttemptFailsTypes, EndSessionTypes DEF StreamEnds, manager, IInv
    <3> QED BY <1>3, <3>1, TypesFromPhase DEF StreamEnds, manager, IInv, TypeOK
  <2>2. EarlyInv' /\ OptsInv'
    BY <1>3 DEF StreamEnds, AttemptFails, EndSession, Alive, IInv, TypeOK, EarlyInv,
       OptsInv, Early, Initializing, opts, device, manager, closing
  <2>3. LeftInv'
    BY <1>3 DEF StreamEnds, AttemptFails, EndSession, Alive, IInv, TypeOK, EarlyInv,
       OptsInv, LeftInv, Early, Left, Initializing, opts, device, manager, closing
  <2>4. LoopInv' /\ UnwatchedIsExplained'
    BY <1>3, LocalPushAssumption DEF StreamEnds, AttemptFails, EndSession, Alive, IInv,
       TypeOK, EarlyInv, OptsInv, LoopInv, UnwatchedIsExplained, Early, Initializing,
       Services, opts, device, manager, closing
  <2>5. SignalInv'
    BY <1>3, LocalPushAssumption DEF StreamEnds, AttemptFails, EndSession, Alive, IInv,
       TypeOK, EarlyInv, SignalInv, Stopped, Early, opts, device, manager, closing
  <2>6. TargetIsBuilt' /\ OnlyDetachedSucceeds'
    BY <1>3 DEF StreamEnds, AttemptFails, EndSession, Alive, IInv, TypeOK, EarlyInv,
       OptsInv, TargetIsBuilt, OnlyDetachedSucceeds, Early, opts, device, manager,
       closing
  <2> QED BY <2>1, <2>2, <2>3, <2>4, <2>5, <2>6 DEF IInv
<1>4. ASSUME IInv, Retry PROVE IInv'
  <2>1. TypeOK'
    BY <1>4, LocalPushAssumption DEF Retry, Alive, IInv, TypeOK, EarlyInv, OptsInv,
       SignalInv, Early, Services, opts, device, manager, closing
  <2>2. EarlyInv' /\ OptsInv'
    BY <1>4 DEF Retry, Alive, IInv, TypeOK, EarlyInv, OptsInv, Early, opts, device,
       manager, closing
  <2>3. LeftInv'
    BY <1>4 DEF Retry, Alive, IInv, TypeOK, EarlyInv, OptsInv, LeftInv, Early, Left,
       Initializing, opts, device, manager, closing
  <2>4. LoopInv' /\ UnwatchedIsExplained'
    BY <1>4, LocalPushAssumption DEF Retry, Alive, IInv, TypeOK, EarlyInv, OptsInv,
       LoopInv, UnwatchedIsExplained, Early, Services, opts, device, manager, closing
  <2>5. SignalInv'
    BY <1>4, LocalPushAssumption DEF Retry, Alive, IInv, TypeOK, EarlyInv, SignalInv,
       Stopped, Early, opts, device, manager, closing
  <2>6. TargetIsBuilt' /\ OnlyDetachedSucceeds'
    BY <1>4 DEF Retry, Alive, IInv, TypeOK, EarlyInv, OptsInv, TargetIsBuilt,
       OnlyDetachedSucceeds, Early, opts, device, manager, closing
  <2> QED BY <2>1, <2>2, <2>3, <2>4, <2>5, <2>6 DEF IInv
<1> QED BY <1>1, <1>2, <1>3, <1>4 DEF Tail

(* LivepushManager.init, beside the tailing.                                *)
LEMMA ManageStep == IInv /\ Manage => IInv'
<1>1. ASSUME IInv, GetDeviceInformation PROVE IInv'
  <2>1. TypeOK'
    BY <1>1, LocalPushAssumption DEF GetDeviceInformation, Alive, IInv, TypeOK,
       EarlyInv, OptsInv, SignalInv, Early, Services, opts, device, tail, closing
  <2>2. EarlyInv' /\ OptsInv'
    BY <1>1 DEF GetDeviceInformation, Alive, IInv, TypeOK, EarlyInv, OptsInv, Early,
       opts, device, tail, closing
  <2>3. LeftInv'
    BY <1>1 DEF GetDeviceInformation, Alive, IInv, TypeOK, EarlyInv, OptsInv, LeftInv,
       Early, Left, Initializing, opts, device, tail, closing
  <2>4. LoopInv' /\ UnwatchedIsExplained'
    BY <1>1, LocalPushAssumption DEF GetDeviceInformation, Alive, IInv, TypeOK,
       EarlyInv, OptsInv, LoopInv, UnwatchedIsExplained, Early, Services, opts, device,
       tail, closing
  <2>5. SignalInv'
    BY <1>1, LocalPushAssumption DEF GetDeviceInformation, Alive, IInv, TypeOK,
       EarlyInv, SignalInv, Stopped, Early, opts, device, tail, closing
  <2>6. TargetIsBuilt' /\ OnlyDetachedSucceeds'
    BY <1>1 DEF GetDeviceInformation, Alive, IInv, TypeOK, EarlyInv, OptsInv,
       TargetIsBuilt, OnlyDetachedSucceeds, Early, opts, device, tail, closing
  <2> QED BY <2>1, <2>2, <2>3, <2>4, <2>5, <2>6 DEF IInv
<1>2. ASSUME IInv, StateSettles PROVE IInv'
  <2>1. TypeOK'
    BY <1>2, LocalPushAssumption DEF StateSettles, Alive, IInv, TypeOK, EarlyInv,
       OptsInv, SignalInv, Early, Services, opts, device, tail, closing
  <2>2. EarlyInv' /\ OptsInv'
    BY <1>2 DEF StateSettles, Alive, IInv, TypeOK, EarlyInv, OptsInv, Early, opts,
       device, tail, closing
  <2>3. LeftInv'
    BY <1>2 DEF StateSettles, Alive, IInv, TypeOK, EarlyInv, OptsInv, LeftInv, Early,
       Left, Initializing, opts, device, tail, closing
  <2>4. LoopInv' /\ UnwatchedIsExplained'
    BY <1>2, LocalPushAssumption DEF StateSettles, Alive, IInv, TypeOK, EarlyInv,
       OptsInv, LoopInv, UnwatchedIsExplained, Early, Services, opts, device, tail,
       closing
  <2>5. SignalInv'
    BY <1>2, LocalPushAssumption DEF StateSettles, Alive, IInv, TypeOK, EarlyInv,
       SignalInv, Stopped, Early, opts, device, tail, closing
  <2>6. TargetIsBuilt' /\ OnlyDetachedSucceeds'
    BY <1>2 DEF StateSettles, Alive, IInv, TypeOK, EarlyInv, OptsInv, TargetIsBuilt,
       OnlyDetachedSucceeds, Early, opts, device, tail, closing
  <2> QED BY <2>1, <2>2, <2>3, <2>4, <2>5, <2>6 DEF IInv
<1>3. ASSUME IInv, InitFails PROVE IInv'
  <2>1. TypeOK'
    <3>1. PhaseTypes'
      BY <1>3, EndSessionTypes DEF InitFails, IInv
    <3> QED BY <1>3, <3>1, TypesFromPhase DEF InitFails, tail, IInv, TypeOK
  <2>2. EarlyInv' /\ OptsInv'
    BY <1>3 DEF InitFails, EndSession, Alive, IInv, TypeOK, EarlyInv, OptsInv, Early,
       Initializing, opts, device, tail, closing
  <2>3. LeftInv'
    BY <1>3 DEF InitFails, EndSession, Alive, IInv, TypeOK, EarlyInv, OptsInv, LeftInv,
       Early, Left, Initializing, opts, device, tail, closing
  <2>4. LoopInv' /\ UnwatchedIsExplained'
    BY <1>3, LocalPushAssumption DEF InitFails, EndSession, Alive, IInv, TypeOK,
       EarlyInv, OptsInv, LoopInv, UnwatchedIsExplained, Early, Initializing, Services,
       opts, device, tail, closing
  <2>5. SignalInv'
    BY <1>3, LocalPushAssumption DEF InitFails, EndSession, Alive, IInv, TypeOK,
       EarlyInv, SignalInv, Stopped, Early, opts, device, tail, closing
  <2>6. TargetIsBuilt' /\ OnlyDetachedSucceeds'
    BY <1>3 DEF InitFails, EndSession, Alive, IInv, TypeOK, EarlyInv, OptsInv,
       TargetIsBuilt, OnlyDetachedSucceeds, Early, opts, device, tail, closing
  <2> QED BY <2>1, <2>2, <2>3, <2>4, <2>5, <2>6 DEF IInv
<1>4. ASSUME IInv, PassOver PROVE IInv'
  <2>1. TypeOK'
    BY <1>4, LocalPushAssumption DEF PassOver, Alive, IInv, TypeOK, EarlyInv, OptsInv,
       SignalInv, Early, Services, opts, device, tail, closing
  <2>2. EarlyInv' /\ OptsInv'
    BY <1>4 DEF PassOver, Alive, IInv, TypeOK, EarlyInv, OptsInv, Early, opts, device,
       tail, closing
  <2>3. LeftInv'
    BY <1>4 DEF PassOver, Alive, IInv, TypeOK, EarlyInv, OptsInv, LeftInv, Early, Left,
       Initializing, opts, device, tail, closing
  <2>4. LoopInv' /\ UnwatchedIsExplained'
    BY <1>4, LocalPushAssumption DEF PassOver, Alive, IInv, TypeOK, EarlyInv, OptsInv,
       LoopInv, UnwatchedIsExplained, Early, Services, opts, device, tail, closing
  <2>5. SignalInv'
    BY <1>4, LocalPushAssumption DEF PassOver, Alive, IInv, TypeOK, EarlyInv, SignalInv,
       Stopped, Early, opts, device, tail, closing
  <2>6. TargetIsBuilt' /\ OnlyDetachedSucceeds'
    BY <1>4 DEF PassOver, Alive, IInv, TypeOK, EarlyInv, OptsInv, TargetIsBuilt,
       OnlyDetachedSucceeds, Early, opts, device, tail, closing
  <2> QED BY <2>1, <2>2, <2>3, <2>4, <2>5, <2>6 DEF IInv
<1>5. ASSUME IInv, Watch PROVE IInv'
  <2>1. TypeOK'
    BY <1>5, LocalPushAssumption DEF Watch, Alive, IInv, TypeOK, EarlyInv, OptsInv,
       SignalInv, Early, Services, opts, device, tail, closing
  <2>2. EarlyInv' /\ OptsInv'
    BY <1>5 DEF Watch, Alive, IInv, TypeOK, EarlyInv, OptsInv, Early, opts, device,
       tail, closing
  <2>3. LeftInv'
    BY <1>5 DEF Watch, Alive, IInv, TypeOK, EarlyInv, OptsInv, LeftInv, Early, Left,
       Initializing, opts, device, tail, closing
  <2>4. LoopInv' /\ UnwatchedIsExplained'
    BY <1>5, LocalPushAssumption DEF Watch, Alive, IInv, TypeOK, EarlyInv, OptsInv,
       LoopInv, UnwatchedIsExplained, Early, Services, opts, device, tail, closing
  <2>5. SignalInv'
    BY <1>5, LocalPushAssumption DEF Watch, Alive, IInv, TypeOK, EarlyInv, SignalInv,
       Stopped, Early, opts, device, tail, closing
  <2>6. TargetIsBuilt' /\ OnlyDetachedSucceeds'
    BY <1>5 DEF Watch, Alive, IInv, TypeOK, EarlyInv, OptsInv, TargetIsBuilt,
       OnlyDetachedSucceeds, Early, opts, device, tail, closing
  <2> QED BY <2>1, <2>2, <2>3, <2>4, <2>5, <2>6 DEF IInv
<1>6. ASSUME IInv, Returns PROVE IInv'
  <2>1. TypeOK'
    <3>1. PhaseTypes'
      BY <1>6, EndSessionTypes DEF Returns, IInv, TypeOK, PhaseTypes, closing
    <3> QED BY <1>6, <3>1, TypesFromPhase DEF Returns, tail, IInv, TypeOK
  <2>2. EarlyInv' /\ OptsInv'
    BY <1>6 DEF Returns, EndSession, Alive, IInv, TypeOK, EarlyInv, OptsInv, Early,
       Initializing, opts, device, tail, closing
  <2>3. LeftInv'
    BY <1>6 DEF Returns, EndSession, Alive, IInv, TypeOK, EarlyInv, OptsInv, LeftInv,
       Early, Left, Initializing, opts, device, tail, closing
  <2>4. LoopInv' /\ UnwatchedIsExplained'
    BY <1>6, LocalPushAssumption DEF Returns, EndSession, Alive, IInv, TypeOK, EarlyInv,
       OptsInv, LoopInv, UnwatchedIsExplained, Early, Initializing, Services, opts,
       device, tail, closing
  <2>5. SignalInv'
    BY <1>6, LocalPushAssumption DEF Returns, EndSession, Alive, IInv, TypeOK, EarlyInv,
       SignalInv, Stopped, Early, opts, device, tail, closing
  <2>6. TargetIsBuilt' /\ OnlyDetachedSucceeds'
    BY <1>6 DEF Returns, EndSession, Alive, IInv, TypeOK, EarlyInv, OptsInv,
       TargetIsBuilt, OnlyDetachedSucceeds, Early, opts, device, tail, closing
  <2> QED BY <2>1, <2>2, <2>3, <2>4, <2>5, <2>6 DEF IInv
<1> QED BY <1>1, <1>2, <1>3, <1>4, <1>5, <1>6 DEF Manage

(* close() and cleanup() of the manager, and the end of the process.       *)
LEMMA CloseStep == IInv /\ Close => IInv'
<1>1. ASSUME IInv, Cleanup PROVE IInv'
  <2>1. TypeOK'
    BY <1>1, LocalPushAssumption DEF Cleanup, IInv, TypeOK, EarlyInv, OptsInv,
       SignalInv, Early, Services, opts, device, tail, manager, closing
  <2>2. EarlyInv' /\ OptsInv'
    BY <1>1 DEF Cleanup, IInv, TypeOK, EarlyInv, OptsInv, Early, opts, device, tail,
       manager, closing
  <2>3. LeftInv'
    BY <1>1 DEF Cleanup, IInv, TypeOK, EarlyInv, OptsInv, LeftInv, Early, Left,
       Initializing, opts, device, tail, manager, closing
  <2>4. LoopInv' /\ UnwatchedIsExplained'
    BY <1>1, LocalPushAssumption DEF Cleanup, IInv, TypeOK, EarlyInv, OptsInv, LoopInv,
       UnwatchedIsExplained, Early, Services, opts, device, tail, manager, closing
  <2>5. SignalInv'
    BY <1>1, LocalPushAssumption DEF Cleanup, IInv, TypeOK, EarlyInv, SignalInv,
       Stopped, Early, opts, device, tail, manager, closing
  <2>6. TargetIsBuilt' /\ OnlyDetachedSucceeds'
    BY <1>1 DEF Cleanup, IInv, TypeOK, EarlyInv, OptsInv, TargetIsBuilt,
       OnlyDetachedSucceeds, Early, opts, device, tail, manager, closing
  <2> QED BY <2>1, <2>2, <2>3, <2>4, <2>5, <2>6 DEF IInv
<1>2. ASSUME IInv, CleanupFails PROVE IInv'
  <2>1. TypeOK'
    BY <1>2, LocalPushAssumption DEF CleanupFails, IInv, TypeOK, EarlyInv, OptsInv,
       SignalInv, Early, Services, opts, device, tail, manager, closing
  <2>2. EarlyInv' /\ OptsInv'
    BY <1>2 DEF CleanupFails, IInv, TypeOK, EarlyInv, OptsInv, Early, opts, device,
       tail, manager, closing
  <2>3. LeftInv'
    BY <1>2 DEF CleanupFails, IInv, TypeOK, EarlyInv, OptsInv, LeftInv, Early, Left,
       Initializing, opts, device, tail, manager, closing
  <2>4. LoopInv' /\ UnwatchedIsExplained'
    BY <1>2, LocalPushAssumption DEF CleanupFails, IInv, TypeOK, EarlyInv, OptsInv,
       LoopInv, UnwatchedIsExplained, Early, Services, opts, device, tail, manager,
       closing
  <2>5. SignalInv'
    BY <1>2, LocalPushAssumption DEF CleanupFails, IInv, TypeOK, EarlyInv, SignalInv,
       Stopped, Early, opts, device, tail, manager, closing
  <2>6. TargetIsBuilt' /\ OnlyDetachedSucceeds'
    BY <1>2 DEF CleanupFails, IInv, TypeOK, EarlyInv, OptsInv, TargetIsBuilt,
       OnlyDetachedSucceeds, Early, opts, device, tail, manager, closing
  <2> QED BY <2>1, <2>2, <2>3, <2>4, <2>5, <2>6 DEF IInv
<1>3. ASSUME IInv, Exit PROVE IInv'
  <2>1. TypeOK'
    BY <1>3, LocalPushAssumption DEF Exit, IInv, TypeOK, EarlyInv, OptsInv, SignalInv,
       Early, Services, opts, device, tail, manager, closing
  <2>2. EarlyInv' /\ OptsInv'
    BY <1>3 DEF Exit, IInv, TypeOK, EarlyInv, OptsInv, Early, Initializing, opts,
       device, tail, manager, closing
  <2>3. LeftInv'
    BY <1>3 DEF Exit, IInv, TypeOK, EarlyInv, OptsInv, LeftInv, Early, Left,
       Initializing, opts, device, tail, manager, closing
  <2>4. LoopInv' /\ UnwatchedIsExplained'
    BY <1>3, LocalPushAssumption DEF Exit, IInv, TypeOK, EarlyInv, OptsInv, LoopInv,
       UnwatchedIsExplained, Early, Initializing, Services, opts, device, tail, manager,
       closing
  <2>5. SignalInv'
    BY <1>3, LocalPushAssumption DEF Exit, IInv, TypeOK, EarlyInv, SignalInv, Stopped,
       Early, opts, device, tail, manager, closing
  <2>6. TargetIsBuilt' /\ OnlyDetachedSucceeds'
    BY <1>3 DEF Exit, IInv, TypeOK, EarlyInv, OptsInv, TargetIsBuilt,
       OnlyDetachedSucceeds, Early, opts, device, tail, manager, closing
  <2> QED BY <2>1, <2>2, <2>3, <2>4, <2>5, <2>6 DEF IInv
<1> QED BY <1>1, <1>2, <1>3 DEF Close

(* The signals, whose handlers tailing installs and removes.               *)
LEMMA SignalStep == IInv /\ (Interrupt \/ Terminate) => IInv'
<1>1. ASSUME IInv, Interrupt PROVE IInv'
  <2>1. TypeOK'
    <3>1. PhaseTypes'
      BY <1>1, EndSessionTypes DEF Interrupt, manager, IInv, TypeOK, PhaseTypes, closing
    <3>2. gotSignal' \in BOOLEAN /\ onInt' \in BOOLEAN
      BY <1>1 DEF Interrupt, IInv, TypeOK
    <3>3. signals' \subseteq signals \cup ({"SIGINT", "SIGTERM"} \X {logs})
      BY <1>1 DEF Interrupt
    <3>4. UNCHANGED <<opts, device, attempt, next, present, containers, logs, init, onTerm>>
      BY <1>1 DEF Interrupt, manager
    <3> QED BY <1>1, <3>1, <3>2, <3>3, <3>4, TypesFromPhase DEF IInv, TypeOK
  <2>2. EarlyInv' /\ OptsInv'
    BY <1>1 DEF Interrupt, EndSession, Alive, IInv, TypeOK, EarlyInv, OptsInv, Early,
       Initializing, Racing, opts, device, manager, closing
  <2>3. LeftInv'
    BY <1>1 DEF Interrupt, EndSession, Alive, IInv, TypeOK, EarlyInv, OptsInv, LeftInv,
       Early, Left, Initializing, Racing, opts, device, manager, closing
  <2>4. LoopInv' /\ UnwatchedIsExplained'
    BY <1>1, LocalPushAssumption DEF Interrupt, EndSession, Alive, IInv, TypeOK,
       EarlyInv, OptsInv, LoopInv, UnwatchedIsExplained, Early, Initializing, Services,
       opts, device, manager, closing
  <2>5. SignalInv'
    BY <1>1, LocalPushAssumption DEF Interrupt, EndSession, Alive, IInv, TypeOK,
       EarlyInv, SignalInv, Stopped, Early, Racing, opts, device, manager, closing
  <2>6. TargetIsBuilt' /\ OnlyDetachedSucceeds'
    BY <1>1 DEF Interrupt, EndSession, Alive, IInv, TypeOK, EarlyInv, OptsInv,
       TargetIsBuilt, OnlyDetachedSucceeds, Early, opts, device, manager, closing
  <2> QED BY <2>1, <2>2, <2>3, <2>4, <2>5, <2>6 DEF IInv
<1>2. ASSUME IInv, Terminate PROVE IInv'
  <2>1. TypeOK'
    <3>1. PhaseTypes'
      BY <1>2 DEF Terminate, manager, IInv, TypeOK, PhaseTypes, closing
    <3>2. gotSignal' \in BOOLEAN /\ onTerm' \in BOOLEAN
      BY <1>2 DEF Terminate, IInv, TypeOK
    <3>3. signals' \subseteq signals \cup ({"SIGINT", "SIGTERM"} \X {logs})
      BY <1>2 DEF Terminate
    <3>4. UNCHANGED <<opts, device, attempt, next, present, containers, logs, init, onInt>>
      BY <1>2 DEF Terminate, manager
    <3> QED BY <1>2, <3>1, <3>2, <3>3, <3>4, TypesFromPhase DEF IInv, TypeOK
  <2>2. EarlyInv' /\ OptsInv'
    BY <1>2 DEF Terminate, Alive, IInv, TypeOK, EarlyInv, OptsInv, Early, opts, device,
       manager, closing
  <2>3. LeftInv'
    BY <1>2 DEF Terminate, Alive, IInv, TypeOK, EarlyInv, OptsInv, LeftInv, Early, Left,
       Initializing, opts, device, manager, closing
  <2>4. LoopInv' /\ UnwatchedIsExplained'
    BY <1>2, LocalPushAssumption DEF Terminate, Alive, IInv, TypeOK, EarlyInv, OptsInv,
       LoopInv, UnwatchedIsExplained, Early, Services, opts, device, manager, closing
  <2>5. SignalInv'
    BY <1>2, LocalPushAssumption DEF Terminate, Alive, IInv, TypeOK, EarlyInv,
       SignalInv, Stopped, Early, opts, device, manager, closing
  <2>6. TargetIsBuilt' /\ OnlyDetachedSucceeds'
    BY <1>2 DEF Terminate, Alive, IInv, TypeOK, EarlyInv, OptsInv, TargetIsBuilt,
       OnlyDetachedSucceeds, Early, opts, device, manager, closing
  <2> QED BY <2>1, <2>2, <2>3, <2>4, <2>5, <2>6 DEF IInv
<1> QED BY <1>1, <1>2

(* A step that changes nothing changes no invariant.                       *)
LEMMA StutterStep == IInv /\ UNCHANGED vars => IInv'
<1> SUFFICES ASSUME IInv, UNCHANGED vars PROVE IInv'
  OBVIOUS
<1> USE DEF vars, opts, device, tail, manager, closing
<1>1. TypeOK'
  BY DEF IInv, TypeOK, Services
<1>2. EarlyInv' /\ OptsInv' /\ LeftInv'
  BY DEF IInv, EarlyInv, OptsInv, LeftInv, Early, Left, Initializing
<1>3. LoopInv' /\ SignalInv' /\ UnwatchedIsExplained'
  BY DEF IInv, LoopInv, SignalInv, Stopped, UnwatchedIsExplained
<1>4. TargetIsBuilt' /\ OnlyDetachedSucceeds'
  BY DEF IInv, TargetIsBuilt, OnlyDetachedSucceeds
<1> QED BY <1>1, <1>2, <1>3, <1>4 DEF IInv

LEMMA InvariantHolds == Spec => []IInv
<1>1. IInv /\ [Next]_vars => IInv'
  BY DeployStep, TailStep, ManageStep, CloseStep, SignalStep, StutterStep DEF Next
<1> QED BY InitHolds, <1>1, PTL DEF Spec
-----------------------------------------------------------------------------
(* Every variable keeps its type; tailing connects maxAttempts times.      *)
THEOREM LocalPushTypeCorrect == Spec => []TypeOK
<1>1. IInv => TypeOK
  BY DEF IInv
<1> QED BY InvariantHolds, <1>1, PTL

(* performBuilds inspects all results before the target state is sent.     *)
THEOREM DeviceGetsBuilt == Spec => []TargetIsBuilt
<1>1. IInv => TargetIsBuilt
  BY DEF IInv
<1> QED BY InvariantHolds, <1>1, PTL

(* displayDeviceLogs never resolves.                                       *)
THEOREM TailingNeverSucceeds == Spec => []OnlyDetachedSucceeds
<1>1. IInv => OnlyDetachedSucceeds
  BY DEF IInv
<1> QED BY InvariantHolds, <1>1, PTL

(* close() and cleanup() take all that is there when the session ends.     *)
THEOREM SessionLeavings == Spec => []LeavingsAreExplained
<1>1. IInv => LeavingsAreExplained
  BY DEF IInv, LeftInv, LeavingsAreExplained, Left
<1> QED BY InvariantHolds, <1>1, PTL

(* LivepushManager.init watches services until one has no container.       *)
THEOREM UnwatchedComeAfter == Spec => []UnwatchedIsExplained
<1>1. IInv => UnwatchedIsExplained
  BY DEF IInv
<1> QED BY InvariantHolds, <1>1, PTL

(* Tailing that was connected when a signal came does not connect again.   *)
THEOREM SignalEndsTailing == Spec => SignalStopsTail
<1>1. IInv /\ [Next]_vars =>
        [attempt' # attempt => \A g \in {"SIGINT", "SIGTERM"} : <<g, "open">> \notin signals]_vars
  <2> SUFFICES ASSUME IInv, Next, attempt' # attempt
               PROVE  \A g \in {"SIGINT", "SIGTERM"} : <<g, "open">> \notin signals
    OBVIOUS
  <2>1. Contact \/ StartSession \/ Retry
    BY DEF Next, Deploy, Tail, Manage, Close, Prepare, StepFails, BuildImage, BuildsEnd,
           TargetAnswerLost, Connect, ConnectFails, StreamEnds, GetDeviceInformation,
           StateSettles, InitFails, PassOver, Watch, Returns, Cleanup, CleanupFails, Exit,
           Interrupt, Terminate, tail
  <2>2. logs \in {"none", "delay"}
    BY <2>1 DEF Contact, StartSession, Retry, IInv, EarlyInv, Early
  <2> QED BY <2>2 DEF IInv, SignalInv, Stopped
<1> QED BY InvariantHolds, <1>1, PTL DEF Spec, SignalStopsTail
=============================================================================
