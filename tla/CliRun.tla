------------------------------- MODULE CliRun -------------------------------
(***************************************************************************)
(* One balena process, from app.run to its exit.  The process checks the   *)
(* deprecation policy, runs the prerun hook, executes the plan of its      *)
(* command (module Plans) while the npm registry may still be queried for  *)
(* news, and handles the error that ends it: errors.handleError sets the   *)
(* exit code, and calls process.exit only for an unexpected error, after a *)
(* second at most of reporting.  Otherwise the process lives until nothing *)
(* is pending.                                                             *)
(***************************************************************************)
EXTENDS Plans, FiniteSets

CONSTANTS
    Jobs,       \* the command lines: see IsJob
    Conditions, \* what may be the matter with the machine that runs them
    Kept        \* the changes that a refusal leaves behind: nothing undoes them

(* cmd: the name of the command; plan: its steps; wants: the changes that  *)
(* the command line asks for; asks: those that need the consent of the     *)
(* user; needs: what the class of the command declares (authenticated,     *)
(* root, not offlineCompatible); undo: what is made on the way, and the    *)
(* clean-up due when the command fails, or always; onSignal: the clean-up  *)
(* that a signal handler starts, {} without one.                           *)
IsJob(j) ==
    /\ DOMAIN j = {"cmd", "plan", "wants", "asks", "needs", "undo", "onSignal"}
    /\ Len(j.plan) \in Nat /\ DOMAIN j.plan = 1..Len(j.plan)
    /\ \A i \in DOMAIN j.plan :
        /\ j.plan[i].where \in Wheres
        /\ j.plan[i].fail \subseteq Failures
    /\ j.wants \subseteq Changes(j.plan)
    /\ j.asks \subseteq Changes(j.plan)
    /\ j.needs \subseteq {"login", "online", "root"}
    /\ \A u \in j.undo : DOMAIN u = {"made", "cleaner", "when"} /\ u.when \in {"failure", "always"}

(* A change is asked for at one place of the plan, or also by the handler  *)
(* of signals; only a handler belongs to a try; what is caught without a   *)
(* trace is not an iteration of a loop; and what is wanted, and not hidden,*)
(* is asked for on the normal path.                                        *)
IsWellFormed(j) ==
    LET Normal(i) == j.plan[i].runs = "normally"
    IN  /\ \A i, k \in DOMAIN j.plan :
            i # k => j.plan[i].does \cap j.plan[k].does \subseteq j.onSignal
        /\ j.wants \cap j.onSignal = {}
        /\ \A i \in DOMAIN j.plan :
            /\ Normal(i) => j.plan[i].of = "none"
            /\ "hide" \in j.plan[i].fail => j.plan[i].item = <<>>
        /\ \A e \in j.wants \ HiddenChanges(j.plan) :
            \E i \in DOMAIN j.plan : Normal(i) /\ e \in j.plan[i].does

(* The normal path passes a gate only with the answer it waits for.        *)
IsGate(p, k, where) ==
    /\ p[k].where = where /\ p[k].runs = "normally"
    /\ p[k].does = {} /\ p[k].fail = {"throw"} /\ p[k].item = <<>>
Behind(p, i, where) == p[i].runs = "normally" /\ \E k \in 1..(i - 1) : IsGate(p, k, where)

CloudChanges(p) == UNION {p[i].does : i \in {k \in DOMAIN p : p[k].where = "cloud"}}

(* What needs consent is behind the question.                              *)
AsksFirst(j) ==
    /\ j.asks \cap j.onSignal = {}
    /\ \A i \in DOMAIN j.plan : j.plan[i].does \cap j.asks # {} => Behind(j.plan, i, "consent")

(* A change in the cloud is declared, or behind the check of run().        *)
ChecksAccess(j) ==
    /\ CloudChanges(j.plan) \cap j.onSignal = {}
    /\ \A i \in DOMAIN j.plan : j.plan[i].where = "cloud" /\ j.plan[i].does # {} =>
        /\ "online" \in j.needs \/ Behind(j.plan, i, "mode")
        /\ j.cmd = "login" \/ "login" \in j.needs \/ Behind(j.plan, i, "login")

(* Step c cleans up: where an error may follow what was made, either the   *)
(* try of c is open or none is.                                            *)
IsCleaner(j, u, c) ==
    LET p == j.plan
    IN  /\ p[c].does = {u.cleaner} /\ p[c].item = <<>>
        /\ p[c].runs = IF u.when = "always" THEN "finally" ELSE "catch"
        /\ p[c].of = "trap" => u.cleaner \in j.onSignal
        /\ \A m \in DOMAIN p : u.made \in p[m].does =>
            /\ m < c /\ p[m].runs = "normally"
            /\ \A k \in m..(c - 1) : "throw" \in p[k].fail => p[k].within = {} \/ p[c].of \in p[k].within
            /\ j.onSignal # {} => \E i \in 1..m : "trap" \in p[i].within
        /\ u.when = "failure" => \A k \in DOMAIN p :
            "note" \notin p[k].fail /\ (k > c /\ "throw" \in p[k].fail => p[k].within = {})

(* Where step i refuses, these may have been asked for: what is undone on  *)
(* the way out, what the handler of signals does, what was done for the    *)
(* items of a loop that are behind, and what nothing undoes.               *)
Undone(j, i) ==
    UNION {{u.made, u.cleaner} : u \in
        {u \in j.undo : \E c \in DOMAIN j.plan :
            IsCleaner(j, u, c) /\ (j.plan[c].of \in j.plan[i].within \/ (c < i /\ u.when = "always"))}}

ForEarlierItems(j, i) ==
    LET p == j.plan
    IN  UNION {p[k].does : k \in {k \in 1..(i - 1) :
            p[k].item # <<>> /\ p[i].item # <<>> /\ p[k].item[1] < p[i].item[1]}}

MayRemain(j, i) == j.onSignal \cup Kept \cup Undone(j, i) \cup ForEarlierItems(j, i)

Refuses(step) == step.where \in {"none", "parser"}

(* What refuses is ahead of all other changes, or behind a refusal.        *)
RefusesFirst(j) ==
    \A i \in DOMAIN j.plan : Refuses(j.plan[i]) =>
        \/ Behind(j.plan, i, "none")
        \/ \A k \in 1..i : j.plan[k].does \subseteq MayRemain(j, i)

CleansUp(j) ==
    \A u \in j.undo :
        /\ u.made \notin j.onSignal
        /\ j.onSignal # {} => u.cleaner \in j.onSignal
        /\ u.made \in Changes(j.plan) => \E c \in DOMAIN j.plan : IsCleaner(j, u, c)

ASSUME JobsAssumption == \A j \in Jobs : IsJob(j) /\ IsWellFormed(j)
ASSUME PlansAssumption ==
    \A j \in Jobs :
        /\ \A i \in DOMAIN j.plan : j.plan[i].item \in Seq(Nat)
        /\ AsksFirst(j) /\ ChecksAccess(j) /\ CleansUp(j) /\ RefusesFirst(j)
ASSUME ConditionsAssumption ==
    Conditions \subseteq {"fine", "expired", "logged out", "offline", "not root", "news due"}

VARIABLES
    job,        \* the command line of this process
    condition,  \* what is the matter with the machine
    at,         \* where the process is: "starting", "running", "over", "ended", "killed"
    pc,         \* the step of the plan it is at
    raised,     \* TRUE while an error propagates
    thrownIn,   \* the try blocks in which it was thrown
    dropped,    \* the iterations that a noted or hidden failure ended
    consent,    \* the user agreed
    news,       \* the query of the registry: "none", "pending", "done", "failed"
    code,       \* process.exitCode
    exiting,    \* an unexpected error is reported: process.exit follows
    signalled,  \* gotSignal of the signal handler
    asked,      \* the changes asked for
    flying,     \* those not answered yet
    served,     \* those that took place
    refused     \* those that were answered with an error

vars == <<job, condition, at, pc, raised, thrownIn, dropped, consent, news, code,
          exiting, signalled, asked, flying, served, refused>>

control == <<at, pc, raised, thrownIn, dropped, consent, code, exiting>>
requests == <<asked, flying, served, refused>>

Plan == job.plan
Step == Plan[pc]
Finished == pc > Len(Plan)

AppliesCatchOnly(s, err, in, gone) ==   \* mutant: no finally after an error
    /\ IF err THEN s.runs = "catch" /\ s.of \in in ELSE s.runs # "catch"
    /\ ~ (signalled /\ s.of = "trap")
    /\ \A g \in gone : ~ IsPrefix(g, s.item)

(* A step runs normally, or as a handler of a try block the error was      *)
(* thrown in; the finally of a trapped block is skipped after a signal, as *)
(* is what is left of an iteration that was dropped.                       *)
Applies(s, err, in, gone) ==
    /\ IF err THEN s.runs # "normally" /\ s.of \in in ELSE s.runs # "catch"
    /\ ~ (signalled /\ s.of = "trap")
    /\ \A g \in gone : ~ IsPrefix(g, s.item)

(* The step to go on with: the next one that applies, or the end.          *)
Following(i, err, in, gone) ==
    {k \in (i + 1)..(Len(Plan) + 1) :
        /\ k <= Len(Plan) => Applies(Plan[k], err, in, gone)
        /\ \A l \in (i + 1)..(k - 1) : ~ Applies(Plan[l], err, in, gone)}

Alive == at \in {"starting", "running", "over"}
Running == at = "running"
-----------------------------------------------------------------------------
Init ==
    /\ job \in Jobs
    /\ condition \in Conditions
    /\ at = "starting" /\ pc = 1
    /\ raised = FALSE /\ thrownIn = {} /\ dropped = {}
    /\ consent = FALSE /\ news = "none"
    /\ code = 0 /\ exiting = FALSE /\ signalled = FALSE
    /\ asked = {} /\ flying = {} /\ served = {} /\ refused = {}

RefusedLate ==   \* mutant: the hook does not look for the session
    \/ condition = "expired"
    \/ condition = "not root" /\ "root" \in job.needs
    \/ condition = "offline" /\ "online" \in job.needs

(* The deprecation policy, then the prerun hook, let the command run or    *)
(* throw an error that is always an expected one.                          *)
Refused ==
    \/ condition = "expired"
    \/ condition = "not root" /\ "root" \in job.needs
    \/ condition = "logged out" /\ "login" \in job.needs
    \/ condition = "offline" /\ "online" \in job.needs

Start ==
    /\ at = "starting"
    /\ IF Refused THEN at' = "over" /\ code' = 1
                  ELSE at' = "running" /\ UNCHANGED code
    /\ pc' \in Following(0, FALSE, {}, {})
    /\ news' = IF condition = "news due" THEN "pending" ELSE "none"
    /\ UNCHANGED <<job, condition, raised, thrownIn, dropped, consent, exiting, signalled, requests>>

AskUnawaited ==   \* mutant: a step is not awaited, and the next one asks already
    LET es == UNION {Plan[i].does : i \in DOMAIN Plan \cap {pc, pc + 1}}
    IN  /\ Running /\ ~Finished
        /\ ~ (es \subseteq asked)
        /\ asked' = asked \cup es
        /\ flying' = flying \cup es
        /\ UNCHANGED <<job, condition, control, news, signalled, served, refused>>

(* A step asks for its changes, all at once.                               *)
Ask ==
    /\ Running /\ ~Finished
    /\ ~ (Step.does \subseteq asked)
    /\ asked' = asked \cup Step.does
    /\ flying' = flying \cup Step.does
    /\ UNCHANGED <<job, condition, control, news, signalled, served, refused>>

(* The server, or the file system, answers, whether or not the process is  *)
(* there to hear it.  An error may hide that the change took place.        *)
Land(e) ==
    /\ e \in flying
    /\ flying' = flying \ {e}
    /\ served' = served \cup {e}
    /\ UNCHANGED <<job, condition, control, news, signalled, asked, refused>>

Bounce(e) ==
    /\ e \in flying
    /\ flying' = flying \ {e}
    /\ refused' = refused \cup {e}
    /\ served' \in {served, served \cup {e}}
    /\ UNCHANGED <<job, condition, control, news, signalled, asked>>

(* The current step resolves.                                              *)
Resolvable ==
    IF Step.does = {}
    THEN /\ ~Refuses(Step)
         /\ Step.where = "login" => condition # "logged out"
         /\ Step.where = "mode" => condition # "offline"
    ELSE Step.does \subseteq asked \ (flying \cup refused)

ResolveDeclined ==   \* mutant: the answer "no" does not throw
    /\ Running /\ ~Finished
    /\ Resolvable
    /\ consent' \in {consent, consent \/ Step.where = "consent"}
    /\ pc' \in Following(pc, raised, thrownIn, dropped)
    /\ UNCHANGED <<job, condition, at, raised, thrownIn, dropped, news, code, exiting, signalled, requests>>

Resolve ==
    /\ Running /\ ~Finished
    /\ Resolvable
    /\ consent' = (consent \/ Step.where = "consent")
    /\ pc' \in Following(pc, raised, thrownIn, dropped)
    /\ UNCHANGED <<job, condition, at, raised, thrownIn, dropped, news, code, exiting, signalled, requests>>

(* The current step rejects, as soon as one of its changes is refused.     *)
Rejectable == Step.does = {} \/ Step.does \cap refused # {}

Throw ==
    /\ Running /\ ~Finished /\ Rejectable
    /\ "throw" \in Step.fail
    /\ raised' = TRUE
    /\ thrownIn' = Step.within
    /\ pc' \in Following(pc, TRUE, Step.within, dropped)
    /\ UNCHANGED <<job, condition, at, dropped, consent, news, code, exiting, signalled, requests>>

(* The loop notes the failure, or hides it, and goes on with the next      *)
(* iteration.                                                              *)
Drop ==
    LET gone == dropped \cup ({Step.item} \ {<<>>})
    IN  /\ dropped' = gone
        /\ pc' \in Following(pc, raised, thrownIn, gone)

Note ==
    /\ Running /\ ~Finished /\ Rejectable
    /\ "note" \in Step.fail
    /\ Drop
    /\ code' = 1
    /\ UNCHANGED <<job, condition, at, raised, thrownIn, consent, news, exiting, signalled, requests>>

Hide ==
    /\ Running /\ ~Finished /\ Rejectable
    /\ "hide" \in Step.fail
    /\ Drop
    /\ UNCHANGED <<job, condition, at, raised, thrownIn, consent, news, code, exiting, signalled, requests>>

(* handleError: only the first rejection of Promise.all is handled.        *)
HandleError ==
    /\ code' = 1
    /\ exiting' \in BOOLEAN

Finish ==
    /\ Running /\ Finished
    /\ at' = "over"
    /\ IF raised /\ news # "failed" THEN HandleError ELSE UNCHANGED <<code, exiting>>
    /\ UNCHANGED <<job, condition, pc, raised, thrownIn, dropped, consent, news, signalled, requests>>

(* The registry answers or not; only storing the answer can fail.  The     *)
(* command goes on running while that error is handled.                    *)
NewsStored ==
    /\ Alive /\ news = "pending"
    /\ news' = "done"
    /\ UNCHANGED <<job, condition, control, signalled, requests>>

NewsFails ==
    /\ Alive /\ news = "pending"
    /\ news' = "failed"
    /\ IF at = "over" /\ raised THEN UNCHANGED <<code, exiting>> ELSE HandleError
    /\ UNCHANGED <<job, condition, at, pc, raised, thrownIn, dropped, consent, signalled, requests>>

QuitWhenIdle ==   \* mutant: no process.exit, and pending news keep the process
    /\ at = "over" /\ flying = {} /\ news = "none"
    /\ at' = "ended"
    /\ UNCHANGED <<job, condition, pc, raised, thrownIn, dropped, consent, news, code, exiting, signalled, requests>>

(* process.exit, or nothing is pending any more.                           *)
Quit ==
    /\ \/ exiting /\ at \in {"running", "over"}
       \/ at = "over" /\ flying = {} /\ news # "pending"
    /\ at' = "ended"
    /\ UNCHANGED <<job, condition, pc, raised, thrownIn, dropped, consent, news, code, exiting, signalled, requests>>

(* A signal ends the process, unless a handler is installed: that one      *)
(* starts the clean-up beside whatever the plan is doing, and kills the    *)
(* process when it is done.  A handler whose clean-up fails does nothing.  *)
Trapped ==
    /\ job.onSignal # {}
    /\ ~signalled
    /\ at # "starting"
    /\ \E i \in DOMAIN Plan : i <= pc /\ "trap" \in Plan[i].within

Interrupt ==
    /\ Alive
    /\ IF Trapped
       THEN /\ signalled' = TRUE
            /\ asked' = asked \cup job.onSignal
            /\ flying' = flying \cup job.onSignal
            /\ UNCHANGED at
       ELSE /\ at' = "killed"
            /\ UNCHANGED <<signalled, asked, flying>>
    /\ UNCHANGED <<job, condition, pc, raised, thrownIn, dropped, consent, news, code, exiting, served, refused>>

KilledAfterCleanup ==
    /\ Alive /\ signalled
    /\ job.onSignal \subseteq served \ refused
    /\ at' = "killed"
    /\ UNCHANGED <<job, condition, pc, raised, thrownIn, dropped, consent, news, code, exiting, signalled, requests>>

Answer == \E e \in flying : Land(e) \/ Bounce(e)
Process == \/ Start \/ Ask \/ Resolve \/ Throw \/ Note \/ Hide \/ Finish
           \/ Quit \/ KilledAfterCleanup
News == NewsStored \/ NewsFails

Next == Process \/ News \/ Answer \/ Interrupt

(* Every request, question and clean-up is answered or times out, and the  *)
(* event loop runs what is ready.                                          *)
Fairness == WF_vars(Process) /\ WF_vars(News) /\ WF_vars(Answer)

Spec == Init /\ [][Next]_vars /\ Fairness
-----------------------------------------------------------------------------
TypeOK ==
    /\ IsJob(job) /\ condition \in Conditions
    /\ at \in {"starting", "running", "over", "ended", "killed"}
    /\ pc \in 1..(Len(Plan) + 1)
    /\ thrownIn \subseteq UNION {Plan[i].within : i \in DOMAIN Plan}
    /\ dropped \subseteq {Plan[i].item : i \in DOMAIN Plan}
    /\ raised \in BOOLEAN /\ consent \in BOOLEAN /\ exiting \in BOOLEAN /\ signalled \in BOOLEAN
    /\ news \in {"none", "pending", "done", "failed"}
    /\ code \in {0, 1}
    /\ flying \subseteq asked /\ served \subseteq asked /\ refused \subseteq asked
    /\ flying \cap (served \cup refused) \subseteq job.onSignal
    /\ asked \subseteq Changes(Plan) \cup job.onSignal

Wanted == job.wants \ HiddenChanges(Plan)

(* The exit code 0 means that all that the command line asked for was      *)
(* answered without an error, whatever failed, was noted or dropped on the *)
(* way; but for the changes whose failure the command only prints.         *)
ZeroMeansDone ==
    at = "ended" /\ code = 0 => Wanted \subseteq served \ refused

(* What destroys something is not asked for before the user agreed, unless *)
(* --yes was given.                                                        *)
ConsentFirst == asked \cap job.asks # {} => consent

(* A process without a session, or in offline mode, asks the cloud for no  *)
(* change, whether its class declares what it needs (authenticated,        *)
(* offlineCompatible) or its run() checks it, and wherever that check      *)
(* stands; login is the exception without a session.                       *)
CloudChangesArePermitted ==
    condition = "offline" \/ (condition = "logged out" /\ job.cmd # "login")
        => asked \cap CloudChanges(Plan) = {}

(* A command that refuses its flags, or what it finds, has changed nothing *)
(* that stays: but what it did for the earlier items of a list, and the    *)
(* changes Kept, which nothing undoes.                                     *)
RefusalIsClean ==
    Running /\ ~Finished /\ Refuses(Step) => asked \subseteq MayRemain(job, pc)

(* What was made on the way is cleaned up by the end: always, or when the  *)
(* command failed, unless the error came before the try block, another     *)
(* error (of the registry) ended the process, or a handler failed first.   *)
(* A process with a handler of signals is not killed before it was begun.  *)
LeftBehindIsExplained ==
    \A u \in job.undo :
        /\ at = "ended" /\ u.made \in asked /\ (u.when = "always" \/ code # 0) =>
              u.cleaner \in asked \/ (raised /\ thrownIn = {}) \/ news = "failed"
        /\ at = "killed" /\ u.made \in asked /\ job.onSignal # {} => u.cleaner \in asked

(* The promise of a command line (module Request): it is answered once,    *)
(* eventually, and with "success" only when all is done.                   *)
Verdict == CASE at = "ended"  -> IF code = 0 THEN "success" ELSE "failure"
             [] at = "killed" -> "killed"
             [] OTHER -> "none"

Promise == INSTANCE Request WITH
    Work <- UNION {j.wants : j \in Jobs},
    wanted <- Wanted,
    done <- (served \ refused) \cap Wanted,
    verdict <- Verdict

KeepsPromise == Promise!Spec
=============================================================================
