---------------------------- MODULE CliRunProofs ----------------------------
(***************************************************************************)
(* Proofs about CliRun, for every set of command lines whose plans satisfy *)
(* the assumptions of CliRun, every condition of the machine, and any      *)
(* failures, late answers and signals.  IInv relates the place in the plan *)
(* to the requests and to the exit code, and gives the promise of a        *)
(* command; PathInv, on top of it, says how the process came to its place: *)
(* the gates passed, the error on its way, the clean-up due.               *)
(***************************************************************************)
EXTENDS CliRun, TLAPS

-----------------------------------------------------------------------------
(* The inductive invariant *)

Normal(s) == s.runs = "normally" /\ "hide" \notin s.fail

\* What a step asked for is answered for good.
Settled(s) == s.does \cap Wanted \subseteq served \ (refused \cup flying)

\* As long as nothing was noted or thrown, every normal step behind pc has
\* done its part, and no iteration of a loop was dropped.
EarlierDone ==
    code = 0 /\ ~raised =>
        /\ dropped = {}
        /\ \A i \in 1..(pc - 1) : Normal(Plan[i]) => Settled(Plan[i])

\* Every way out with an error sets the exit code.
CodeInv ==
    /\ code \in {0, 1}
    /\ news = "failed" => code = 1
    /\ exiting => code = 1
    /\ at \in {"over", "ended"} /\ raised => code = 1
    /\ at \in {"over", "ended"} /\ code = 0 => pc > Len(Plan)

\* Requests are answered once, and belong to a step that was reached.
RequestInv ==
    /\ asked = flying \cup served \cup refused
    /\ flying \cap (served \cup refused) \subseteq job.onSignal
    /\ \A e \in asked \ job.onSignal :
        \E i \in DOMAIN Plan : i <= pc /\ e \in Plan[i].does /\ Plan[i].does \subseteq asked

PlaceInv ==
    /\ job \in Jobs
    /\ pc \in 1..(Len(Plan) + 1)
    /\ at \in {"starting", "running", "over", "ended", "killed"}
    /\ at = "starting" => pc = 1 /\ asked = {} /\ ~raised

MarksOK ==
    /\ condition \in Conditions
    /\ thrownIn \subseteq UNION {Plan[i].within : i \in DOMAIN Plan}
    /\ dropped \subseteq {Plan[i].item : i \in DOMAIN Plan}
    /\ raised \in BOOLEAN /\ consent \in BOOLEAN /\ exiting \in BOOLEAN /\ signalled \in BOOLEAN
    /\ news \in {"none", "pending", "done", "failed"}

IInv == MarksOK /\ PlaceInv /\ CodeInv /\ RequestInv /\ EarlierDone

-----------------------------------------------------------------------------
(* The order of the steps *)

\* A normal step always applies while nothing was thrown or dropped.
LEMMA NormalApplies ==
    ASSUME job \in Jobs, NEW k \in DOMAIN Plan, Normal(Plan[k]), NEW in
    PROVE  Applies(Plan[k], FALSE, in, {})
<1>1. Plan[k].runs = "normally" /\ Plan[k].of = "none"
    BY JobsAssumption DEF IsWellFormed, Plan, Normal
<1> QED BY <1>1 DEF Applies

\* The step after i lies behind i.
LEMMA FollowingIsLater ==
    ASSUME job \in Jobs, NEW i \in 0..Len(Plan), NEW err, NEW in, NEW gone,
           NEW p \in Following(i, err, in, gone)
    PROVE  p \in 1..(Len(Plan) + 1) /\ p > i
<1>1. Len(Plan) \in Nat
    BY JobsAssumption DEF IsJob, Plan
<1> QED BY <1>1 DEF Following

\* A process that goes on past a step that has done its part, with nothing
\* dropped and nothing thrown, leaves all normal steps done behind it.
LEMMA DoneBehind ==
    ASSUME job \in Jobs, pc \in 1..Len(Plan), NEW in, dropped = {},
           NEW p \in Following(pc, FALSE, in, {}),
           \A i \in 1..(pc - 1) : Normal(Plan[i]) => Settled(Plan[i]),
           Normal(Step) => Settled(Step),
           NEW k \in 1..(p - 1), Normal(Plan[k])
    PROVE  Settled(Plan[k])
<1>1. Len(Plan) \in Nat /\ DOMAIN Plan = 1..Len(Plan)
    BY JobsAssumption DEF IsJob, Plan
<1>2. /\ p \in (pc + 1)..(Len(Plan) + 1)
      /\ \A l \in (pc + 1)..(p - 1) : ~ Applies(Plan[l], FALSE, in, {})
    BY DEF Following
<1>3. CASE k < pc
    BY <1>1, <1>3
<1>4. CASE k = pc
    BY <1>4 DEF Step
<1>5. CASE k > pc
  <2>1. k \in (pc + 1)..(p - 1) /\ k \in DOMAIN Plan
    BY <1>1, <1>2, <1>5
  <2>2. Applies(Plan[k], FALSE, in, {})
    BY <2>1, NormalApplies
  <2> QED BY <1>2, <2>1, <2>2
<1> QED BY <1>1, <1>2, <1>3, <1>4, <1>5

\* What is wanted is never asked for by the handler of signals.
LEMMA WantedApart ==
    ASSUME job \in Jobs
    PROVE  Wanted \cap job.onSignal = {}
BY JobsAssumption DEF IsWellFormed, Wanted

-----------------------------------------------------------------------------
(* What the invariant says of a process that is over *)

\* The conjuncts of TypeOK are those of MarksOK and the other parts.
LEMMA IInvTypes == IInv => TypeOK
<1> SUFFICES ASSUME IInv PROVE TypeOK
    OBVIOUS
<1>1. IsJob(job) /\ Len(Plan) \in Nat /\ DOMAIN Plan = 1..Len(Plan)
    BY JobsAssumption DEF IInv, PlaceInv, IsJob, Plan
<1>2. asked \subseteq Changes(Plan) \cup job.onSignal
    BY DEF IInv, RequestInv, Changes
<1>3. flying \subseteq asked /\ served \subseteq asked /\ refused \subseteq asked
    BY DEF IInv, RequestInv
<1>4. raised \in BOOLEAN /\ consent \in BOOLEAN /\ exiting \in BOOLEAN /\ signalled \in BOOLEAN
    BY DEF IInv, MarksOK
<1>5. /\ thrownIn \subseteq UNION {Plan[i].within : i \in DOMAIN Plan}
      /\ dropped \subseteq {Plan[i].item : i \in DOMAIN Plan}
    BY DEF IInv, MarksOK
<1>6. condition \in Conditions /\ news \in {"none", "pending", "done", "failed"}
    BY DEF IInv, MarksOK
<1>7. code \in {0, 1} /\ flying \cap (served \cup refused) \subseteq job.onSignal
    BY DEF IInv, CodeInv, RequestInv
<1>8. /\ at \in {"starting", "running", "over", "ended", "killed"}
      /\ pc \in 1..(Len(Plan) + 1)
    BY DEF IInv, PlaceInv
<1> QED BY <1>1, <1>2, <1>3, <1>4, <1>5, <1>6, <1>7, <1>8 DEF TypeOK

\* All that is wanted belongs to normal steps: it is done when they are.
LEMMA IInvDone == IInv => ZeroMeansDone
<1> SUFFICES ASSUME IInv, at = "ended", code = 0, NEW e \in Wanted
             PROVE  e \in served \ refused
    BY DEF ZeroMeansDone
<1>1. job \in Jobs /\ Len(Plan) \in Nat /\ DOMAIN Plan = 1..Len(Plan) /\ IsWellFormed(job)
    BY JobsAssumption DEF IInv, PlaceInv, IsJob, Plan
<1>2. PICK i \in DOMAIN Plan : Plan[i].runs = "normally" /\ e \in Plan[i].does
    BY <1>1 DEF IsWellFormed, Wanted, Plan
<1>3. Normal(Plan[i])
    BY <1>2 DEF Normal, Wanted, HiddenChanges, Plan
<1>4. pc > Len(Plan) /\ ~raised
    BY DEF IInv, CodeInv
<1>5. i \in 1..(pc - 1)
    BY <1>1, <1>4 DEF IInv, PlaceInv
<1>6. Settled(Plan[i])
    BY <1>3, <1>4, <1>5 DEF IInv, EarlierDone
<1> QED BY <1>2, <1>6 DEF Settled

-----------------------------------------------------------------------------
(* The invariant holds at the start, and no step breaks it *)

LEMMA InitHolds == Init => IInv
<1> SUFFICES ASSUME Init PROVE IInv
    OBVIOUS
<1>1. job \in Jobs /\ Len(Plan) \in Nat
    BY JobsAssumption DEF Init, IsJob, Plan
<1>2. PlaceInv /\ CodeInv
    BY <1>1 DEF Init, PlaceInv, CodeInv
<1>3. RequestInv /\ EarlierDone
    BY <1>1 DEF Init, RequestInv, EarlierDone
<1>4. raised \in BOOLEAN /\ consent \in BOOLEAN /\ exiting \in BOOLEAN /\ signalled \in BOOLEAN
    BY DEF Init
<1>5. /\ thrownIn \subseteq UNION {Plan[i].within : i \in DOMAIN Plan}
      /\ dropped \subseteq {Plan[i].item : i \in DOMAIN Plan}
    BY DEF Init
<1>6. MarksOK
    BY <1>4, <1>5 DEF Init, MarksOK
<1> QED BY <1>2, <1>3, <1>6 DEF IInv

\* A step that stays where it is and takes back no answer to what is wanted
\* keeps the steps behind it done.
LEMMA DoneStays ==
    ASSUME EarlierDone, UNCHANGED <<job, pc, raised, dropped>>, code' = 0 => code = 0,
           \A e \in Wanted : e \in served \ (refused \cup flying)
                                => e \in (served \ (refused \cup flying))'
    PROVE  EarlierDone'
<1> SUFFICES ASSUME code' = 0, ~raised'
             PROVE  /\ dropped' = {}
                    /\ \A i \in 1..(pc' - 1) : Normal(Plan'[i]) => Settled(Plan[i])'
    BY DEF EarlierDone, Plan
<1>1. code = 0 /\ ~raised /\ dropped = {} /\ Plan' = Plan /\ Wanted' = Wanted
    BY DEF EarlierDone, Plan, Wanted
<1>2. \A i \in 1..(pc - 1) : Normal(Plan[i]) => Settled(Plan[i])
    BY <1>1 DEF EarlierDone
<1> QED BY <1>1, <1>2 DEF Settled

\* What a step asks for anew, and is wanted, was not asked for before.
LEMMA AskedOnce ==
    ASSUME PlaceInv, RequestInv, ~Finished, ~ (Step.does \subseteq asked),
           NEW e \in Wanted, e \in Step.does
    PROVE  e \notin asked
<1> SUFFICES ASSUME e \in asked PROVE FALSE
    OBVIOUS
<1>1. job \in Jobs /\ Len(Plan) \in Nat /\ DOMAIN Plan = 1..Len(Plan) /\ IsWellFormed(job)
    BY JobsAssumption DEF PlaceInv, IsJob, Plan
<1>2. e \notin job.onSignal
    BY <1>1, WantedApart
<1>3. PICK i \in DOMAIN Plan : i <= pc /\ e \in Plan[i].does /\ Plan[i].does \subseteq asked
    BY <1>2 DEF RequestInv
<1>4. i # pc /\ pc \in DOMAIN Plan
    BY <1>1, <1>3 DEF Step, PlaceInv, Finished
<1>5. Plan[i].does \cap Plan[pc].does \subseteq job.onSignal
    BY <1>1, <1>4 DEF IsWellFormed, Plan
<1> QED BY <1>2, <1>3, <1>5 DEF Step

\* A step of the plan moves on without asking for anything.
LEMMA MovesKeep ==
    ASSUME IInv, Running, ~Finished, NEW err, NEW in, NEW gone,
           pc' \in Following(pc, err, in, gone),
           UNCHANGED <<job, at, asked, flying, served, refused>>
    PROVE  PlaceInv' /\ RequestInv'
<1>1. Len(Plan) \in Nat /\ pc \in 1..Len(Plan) /\ job \in Jobs
    BY JobsAssumption DEF IInv, PlaceInv, IsJob, Plan, Finished
<1>2. PICK p \in Following(pc, err, in, gone) : p = pc'
    OBVIOUS
<1>3. pc' \in 1..(Len(Plan) + 1) /\ pc' > pc
    BY <1>1, <1>2, FollowingIsLater
<1>4. PlaceInv'
    BY <1>1, <1>3 DEF IInv, PlaceInv, Plan, Running
<1>5. \A e \in asked \ job.onSignal :
        \E i \in DOMAIN Plan : i <= pc' /\ e \in Plan[i].does /\ Plan[i].does \subseteq asked
  <2> TAKE e \in asked \ job.onSignal
  <2>1. PICK i \in DOMAIN Plan : i <= pc /\ e \in Plan[i].does /\ Plan[i].does \subseteq asked
    BY DEF IInv, RequestInv
  <2>2. DOMAIN Plan = 1..Len(Plan)
    BY <1>1, JobsAssumption DEF IsJob, Plan
  <2> QED BY <1>1, <1>3, <2>1, <2>2
<1>6. RequestInv'
    BY <1>5 DEF IInv, RequestInv, Plan
<1> QED BY <1>4, <1>6

\* A step that neither ends the process nor moves it, and asks for nothing.
LEMMA StaysKeep ==
    ASSUME IInv, UNCHANGED <<job, pc, raised, requests>>,
           at' \in {"starting", "running", "over", "ended", "killed"},
           at' = "starting" => at = "starting"
    PROVE  PlaceInv' /\ RequestInv'
BY DEF IInv, PlaceInv, RequestInv, Plan, requests

LEMMA StartKeeps == IInv /\ Start => IInv'
<1> SUFFICES ASSUME IInv, Start PROVE IInv'
    OBVIOUS
<1>1. /\ Len(Plan) \in Nat /\ DOMAIN Plan = 1..Len(Plan) /\ job \in Jobs
      /\ asked = {}
    BY JobsAssumption DEF IInv, PlaceInv, IsJob, Plan, Start
<1>0. ~raised /\ ~raised'
    BY DEF IInv, PlaceInv, Start
<1>2. PICK p \in Following(0, FALSE, {}, {}) : p = pc'
    BY DEF Start
<1>3. /\ p \in (0 + 1)..(Len(Plan) + 1)
      /\ \A k \in (0 + 1)..(p - 1) : ~ Applies(Plan[k], FALSE, {}, {})
    BY DEF Following
<1>4. pc' \in 1..(Len(Plan) + 1)
    BY <1>1, <1>2, <1>3
<1>5. \/ code' = code /\ at' = "running"
      \/ code' = 1 /\ at' = "over"
  <2>1. CASE Refused
    BY <2>1 DEF Start
  <2>2. CASE ~Refused
    BY <2>2 DEF Start
  <2> QED BY <2>1, <2>2
<1>6. MarksOK'
    BY DEF Start, IInv, MarksOK, Plan
<1>7. PlaceInv'
    BY <1>1, <1>4, <1>5 DEF Start, IInv, PlaceInv, Plan
<1>8. CodeInv'
  <2>1. news' # "failed"
    BY DEF Start
  <2>2. exiting => code = 1
    BY DEF IInv, CodeInv
  <2>3. /\ code' \in {0, 1}
        /\ at' \in {"over", "ended"} => code' = 1
    BY <1>5 DEF IInv, CodeInv
  <2>4. exiting' => code' = 1
    BY <1>5, <2>2 DEF Start
  <2> QED BY <1>0, <2>1, <2>3, <2>4 DEF CodeInv
<1>9. RequestInv'
    BY <1>1 DEF Start, IInv, RequestInv, Plan, requests
<1>10. ASSUME NEW i \in 1..(pc' - 1), Normal(Plan[i]) PROVE FALSE
  <2>0. pc' = p /\ i \in 1..(pc' - 1)
    BY <1>2, <1>10
  <2>1. i \in DOMAIN Plan /\ i \in (0 + 1)..(p - 1)
    BY <1>1, <1>3, <2>0
  <2>2. Applies(Plan[i], FALSE, {}, {})
    BY <1>1, <1>10, <2>1, NormalApplies
  <2> QED BY <1>3, <2>1, <2>2
<1>11. EarlierDone'
  <2> SUFFICES ASSUME code' = 0, ~raised'
               PROVE  /\ dropped' = {}
                      /\ \A i \in 1..(pc' - 1) : Normal(Plan'[i]) => Settled(Plan[i])'
    BY DEF EarlierDone, Plan
  <2>1. code = 0
    BY <1>5
  <2>2. dropped' = {}
    BY <1>0, <2>1 DEF Start, IInv, EarlierDone
  <2>3. Plan' = Plan
    BY DEF Start, Plan
  <2> QED BY <1>10, <2>2, <2>3
<1> QED BY <1>6, <1>7, <1>8, <1>9, <1>11 DEF IInv

LEMMA AskKeeps == IInv /\ Ask => IInv'
<1> SUFFICES ASSUME IInv, Ask PROVE IInv'
    OBVIOUS
<1> USE DEF control
<1>1. Len(Plan) \in Nat /\ DOMAIN Plan = 1..Len(Plan) /\ job \in Jobs /\ IsWellFormed(job)
    BY JobsAssumption DEF IInv, PlaceInv, IsJob, Plan
<1>2. pc \in DOMAIN Plan
    BY <1>1 DEF Ask, Finished, IInv, PlaceInv
<1>3. MarksOK' /\ CodeInv'
    BY DEF Ask, IInv, MarksOK, CodeInv, Plan
<1>4. PlaceInv'
    BY DEF Ask, IInv, PlaceInv, Plan, Running
<1>5. RequestInv'
  <2>1. asked' = (flying \cup served \cup refused)'
    BY DEF Ask, IInv, RequestInv
  <2>2. ASSUME NEW e \in flying', e \in served \cup refused PROVE e \in job.onSignal
    <3>1. CASE e \in flying
      BY <2>2, <3>1 DEF IInv, RequestInv
    <3>2. CASE e \in Step.does
      <4> SUFFICES ASSUME e \notin job.onSignal PROVE FALSE
        OBVIOUS
      <4>1. PICK i \in DOMAIN Plan : e \in Plan[i].does /\ Plan[i].does \subseteq asked
        BY <2>2 DEF IInv, RequestInv
      <4>2. i # pc
        BY <4>1 DEF Ask, Step
      <4>3. Plan[i].does \cap Plan[pc].does \subseteq job.onSignal
        BY <1>1, <1>2, <4>2 DEF IsWellFormed, Plan
      <4> QED BY <3>2, <4>1, <4>3 DEF Step
    <3> QED BY <3>1, <3>2 DEF Ask
  <2>3. ASSUME NEW e \in asked' \ job.onSignal
        PROVE  \E i \in DOMAIN Plan : i <= pc /\ e \in Plan[i].does /\ Plan[i].does \subseteq asked'
    <3>1. CASE e \in asked
      BY <2>3, <3>1 DEF Ask, IInv, RequestInv
    <3>2. CASE e \in Step.does
      BY <1>1, <1>2, <3>2 DEF Ask, Step
    <3> QED BY <3>1, <3>2 DEF Ask
  <2> QED BY <2>1, <2>2, <2>3 DEF Ask, RequestInv, Plan
<1>6. EarlierDone'
  <2>1. \A e \in Wanted : e \in served \ (refused \cup flying)
                             => e \in (served \ (refused \cup flying))'
    <3> SUFFICES ASSUME NEW e \in Wanted, e \in served, e \in Step.does PROVE FALSE
      BY DEF Ask
    <3>1. e \notin asked
      BY AskedOnce DEF Ask, IInv
    <3> QED BY <3>1 DEF IInv, RequestInv
  <2> QED BY <2>1, DoneStays DEF Ask, IInv
<1> QED BY <1>3, <1>4, <1>5, <1>6 DEF IInv

LEMMA AnswersKeep == ASSUME IInv, NEW e \in flying, Land(e) \/ Bounce(e) PROVE IInv'
<1> USE DEF control
<1>1. /\ flying' = flying \ {e} /\ served \subseteq served' /\ served' \subseteq served \cup {e}
      /\ refused \subseteq refused' /\ refused' \subseteq refused \cup {e}
      /\ e \in served' \cup refused'
      /\ UNCHANGED <<job, condition, at, pc, raised, thrownIn, dropped, consent, code,
                     exiting, news, signalled, asked>>
    BY DEF Land, Bounce
<1>2. MarksOK'
    BY <1>1 DEF IInv, MarksOK, Plan
<1>3. PlaceInv'
    BY <1>1 DEF IInv, PlaceInv, Plan
<1>4. CodeInv'
    BY <1>1 DEF IInv, CodeInv, Plan
<1>5. RequestInv'
    BY <1>1 DEF IInv, RequestInv, Plan
<1>6. EarlierDone'
    BY <1>1, DoneStays DEF IInv
<1> QED BY <1>2, <1>3, <1>4, <1>5, <1>6 DEF IInv

LEMMA ResolveKeeps == IInv /\ Resolve => IInv'
<1> SUFFICES ASSUME IInv, Resolve PROVE IInv'
    OBVIOUS
<1>1. PlaceInv' /\ RequestInv'
    BY MovesKeep DEF Resolve, requests
<1>2. MarksOK'
  <2>1. consent' \in BOOLEAN
    BY DEF Resolve
  <2> QED BY <2>1 DEF Resolve, IInv, MarksOK, Plan
<1>3. CodeInv'
  <2>1. at = "running" /\ at' = "running"
    BY DEF Resolve, Running
  <2> QED BY <2>1 DEF Resolve, IInv, CodeInv
<1>4. EarlierDone'
  <2> SUFFICES ASSUME code' = 0, ~raised' PROVE EarlierDone'
    BY DEF EarlierDone
  <2>1. code = 0 /\ ~raised /\ raised = FALSE
    BY DEF Resolve, IInv, MarksOK
  <2>2. dropped = {} /\ \A i \in 1..(pc - 1) : Normal(Plan[i]) => Settled(Plan[i])
    BY <2>1 DEF IInv, EarlierDone
  <2>3. PICK p, in : p = pc' /\ in = thrownIn /\ p \in Following(pc, FALSE, in, {})
    BY <2>1, <2>2 DEF Resolve
  <2>4. pc \in 1..Len(Plan) /\ job \in Jobs
    BY JobsAssumption DEF Resolve, Finished, IInv, PlaceInv, IsJob, Plan
  <2>5. Normal(Step) => Settled(Step)
    BY DEF Resolve, Resolvable, Settled, IInv, RequestInv
  <2>6. \A k \in 1..(p - 1) : Normal(Plan[k]) => Settled(Plan[k])
    BY <2>2, <2>3, <2>4, <2>5, DoneBehind
  <2>7. /\ dropped' = {} /\ Plan' = Plan
        /\ \A k : Settled(Plan[k])' <=> Settled(Plan[k])
    BY <2>2 DEF Resolve, requests, Settled, Wanted, Plan
  <2> QED BY <2>3, <2>6, <2>7 DEF EarlierDone
<1> QED BY <1>1, <1>2, <1>3, <1>4 DEF IInv

LEMMA ThrowKeeps == IInv /\ Throw => IInv'
<1> SUFFICES ASSUME IInv, Throw PROVE IInv'
    OBVIOUS
<1>1. PlaceInv' /\ RequestInv'
    BY MovesKeep DEF Throw, requests
<1>2. MarksOK'
  <2>1. raised' \in BOOLEAN
    BY DEF Throw
  <2>2. pc \in DOMAIN Plan
    BY JobsAssumption DEF Throw, Finished, IInv, PlaceInv, IsJob, Plan
  <2>3. thrownIn' \subseteq UNION {Plan[i].within : i \in DOMAIN Plan}
    BY <2>2 DEF Throw, Step
  <2> QED BY <2>1, <2>3 DEF Throw, IInv, MarksOK, Plan
<1>3. CodeInv'
  <2>1. at = "running" /\ at' = "running"
    BY DEF Throw, Running
  <2> QED BY <2>1 DEF Throw, IInv, CodeInv
<1>4. EarlierDone'
  <2>1. raised'
    BY DEF Throw
  <2> QED BY <2>1 DEF EarlierDone
<1> QED BY <1>1, <1>2, <1>3, <1>4 DEF IInv

LEMMA NoteKeeps == IInv /\ Note => IInv'
<1> SUFFICES ASSUME IInv, Note PROVE IInv'
    OBVIOUS
<1>1. PlaceInv' /\ RequestInv'
    BY MovesKeep DEF Note, Drop, requests
<1>2. MarksOK'
  <2>1. pc \in DOMAIN Plan
    BY JobsAssumption DEF Note, Finished, IInv, PlaceInv, IsJob, Plan
  <2>2. dropped' \subseteq {Plan[i].item : i \in DOMAIN Plan}
    BY <2>1 DEF Note, Drop, Step, IInv, MarksOK
  <2> QED BY <2>2 DEF Note, IInv, MarksOK, Plan
<1>3. CodeInv'
  <2>1. at = "running" /\ at' = "running" /\ code' = 1
    BY DEF Note, Running
  <2> QED BY <2>1 DEF CodeInv
<1>4. EarlierDone'
  <2>1. code' # 0
    BY DEF Note
  <2> QED BY <2>1 DEF EarlierDone
<1> QED BY <1>1, <1>2, <1>3, <1>4 DEF IInv

\* What is hidden is no normal step, and ends no iteration.
LEMMA HideKeeps == IInv /\ Hide => IInv'
<1> SUFFICES ASSUME IInv, Hide PROVE IInv'
    OBVIOUS
<1>1. PlaceInv' /\ RequestInv'
    BY MovesKeep DEF Hide, Drop, requests
<1>2. pc \in DOMAIN Plan /\ pc \in 1..Len(Plan) /\ job \in Jobs /\ IsWellFormed(job)
    BY JobsAssumption DEF Hide, Finished, IInv, PlaceInv, IsJob, Plan
<1>3. dropped' = dropped
    BY <1>2 DEF Hide, Drop, Step, IsWellFormed, Plan
<1>4. MarksOK'
    BY <1>3 DEF Hide, IInv, MarksOK, Plan
<1>5. CodeInv'
  <2>1. at = "running" /\ at' = "running"
    BY DEF Hide, Running
  <2> QED BY <2>1 DEF Hide, IInv, CodeInv
<1>6. EarlierDone'
  <2> SUFFICES ASSUME code' = 0, ~raised' PROVE EarlierDone'
    BY DEF EarlierDone
  <2>1. code = 0 /\ ~raised /\ raised = FALSE
    BY DEF Hide, IInv, MarksOK
  <2>2. dropped = {} /\ \A i \in 1..(pc - 1) : Normal(Plan[i]) => Settled(Plan[i])
    BY <2>1 DEF IInv, EarlierDone
  <2>3. PICK p, in : p = pc' /\ in = thrownIn /\ p \in Following(pc, FALSE, in, {})
    BY <1>3, <2>1, <2>2 DEF Hide, Drop
  <2>4. Normal(Step) => Settled(Step)
    BY DEF Hide, Normal
  <2>5. \A k \in 1..(p - 1) : Normal(Plan[k]) => Settled(Plan[k])
    BY <1>2, <2>2, <2>3, <2>4, DoneBehind
  <2>6. /\ dropped' = {} /\ Plan' = Plan
        /\ \A k : Settled(Plan[k])' <=> Settled(Plan[k])
    BY <1>3, <2>2 DEF Hide, requests, Settled, Wanted, Plan
  <2> QED BY <2>3, <2>5, <2>6 DEF EarlierDone
<1> QED BY <1>1, <1>4, <1>5, <1>6 DEF IInv

\* handleError, and the steps after which nothing is over by itself.
LEMMA FinishKeeps == IInv /\ Finish => IInv'
<1> SUFFICES ASSUME IInv, Finish PROVE IInv'
    OBVIOUS
<1>1. PlaceInv' /\ RequestInv'
    BY StaysKeep DEF Finish, Running
<1>2. (exiting' \in BOOLEAN) /\ (code' = 1 \/ UNCHANGED <<code, exiting>>)
    BY DEF Finish, HandleError, IInv, MarksOK
<1>3. MarksOK'
    BY <1>2 DEF Finish, IInv, MarksOK, Plan
<1>4. raised => code' = 1
  <2>1. ASSUME raised, news = "failed" PROVE code' = 1
    <3>1. code = 1 /\ code' = code
      BY <2>1 DEF Finish, IInv, CodeInv
    <3> QED BY <3>1
  <2>2. ASSUME raised, news # "failed" PROVE code' = 1
    BY <2>2 DEF Finish, HandleError
  <2> QED BY <2>1, <2>2
<1>5. pc' > Len(Plan')
    BY JobsAssumption DEF Finish, Finished, IInv, PlaceInv, IsJob, Plan
<1>6. exiting' => code' = 1
    BY <1>2 DEF IInv, CodeInv
<1>7. code' \in {0, 1} /\ (news' = "failed" => code' = 1)
    BY <1>2 DEF Finish, IInv, CodeInv
<1>8. CodeInv'
    BY <1>4, <1>5, <1>6, <1>7 DEF Finish, CodeInv
<1>9. EarlierDone'
    BY <1>2, DoneStays DEF Finish, IInv, CodeInv, requests
<1> QED BY <1>1, <1>3, <1>8, <1>9 DEF IInv

LEMMA NewsKeeps == IInv /\ News => IInv'
<1> SUFFICES ASSUME IInv, News PROVE IInv'
    OBVIOUS
<1> USE DEF control
<1>1. UNCHANGED <<job, condition, at, pc, raised, thrownIn, dropped, consent, signalled, requests>>
    BY DEF News, NewsStored, NewsFails
<1>2. PlaceInv' /\ RequestInv'
  <2>1. at' \in {"starting", "running", "over", "ended", "killed"}
    BY <1>1 DEF IInv, PlaceInv
  <2> QED BY <1>1, <2>1, StaysKeep
<1>3. /\ exiting' \in BOOLEAN
      /\ news' \in {"none", "pending", "done", "failed"}
      /\ code' = 1 \/ UNCHANGED <<code, exiting>>
    BY DEF News, NewsStored, NewsFails, HandleError, IInv, MarksOK
<1>4. MarksOK'
    BY <1>1, <1>3 DEF IInv, MarksOK, Plan
<1>5. news' = "failed" => code' = 1
  <2>1. ASSUME NewsFails, at = "over", raised PROVE code' = 1
    <3>1. code = 1 /\ code' = code
      BY <2>1 DEF NewsFails, IInv, CodeInv
    <3> QED BY <3>1
  <2>2. ASSUME NewsFails, ~(at = "over" /\ raised) PROVE code' = 1
    BY <2>2 DEF NewsFails, HandleError
  <2>3. ASSUME NewsStored PROVE news' # "failed"
    BY <2>3 DEF NewsStored
  <2> QED BY <2>1, <2>2, <2>3 DEF News
<1>6. exiting' => code' = 1
    BY <1>3 DEF IInv, CodeInv
<1>7. at' \in {"over", "ended"} /\ raised' => code' = 1
    BY <1>1, <1>3 DEF IInv, CodeInv
<1>8. code' \in {0, 1} /\ (at' \in {"over", "ended"} /\ code' = 0 => pc' > Len(Plan'))
    BY <1>1, <1>3 DEF IInv, CodeInv, Plan
<1>9. CodeInv'
    BY <1>5, <1>6, <1>7, <1>8 DEF CodeInv
<1>10. EarlierDone'
    BY <1>1, <1>3, DoneStays DEF IInv, CodeInv, requests
<1> QED BY <1>2, <1>4, <1>9, <1>10 DEF IInv

\* A process ends by process.exit after an error, or when it is over.
LEMMA QuitKeeps == IInv /\ Quit => IInv'
<1> SUFFICES ASSUME IInv, Quit PROVE IInv'
    OBVIOUS
<1>1. PlaceInv' /\ RequestInv'
    BY StaysKeep DEF Quit
<1>2. MarksOK'
    BY DEF Quit, IInv, MarksOK, Plan
<1>3. code' = 1 \/ at = "over"
    BY DEF Quit, IInv, CodeInv
<1>4. CodeInv'
    BY <1>3 DEF Quit, IInv, CodeInv, Plan
<1>5. EarlierDone'
    BY DoneStays DEF Quit, IInv, requests
<1> QED BY <1>1, <1>2, <1>4, <1>5 DEF IInv

\* The clean-up of the signal handler asks for nothing that is wanted.
LEMMA InterruptKeeps == IInv /\ Interrupt => IInv'
<1> SUFFICES ASSUME IInv, Interrupt PROVE IInv'
    OBVIOUS
<1>1. /\ UNCHANGED <<job, condition, pc, raised, thrownIn, dropped, consent, news, code,
                     exiting, served, refused>>
      /\ signalled' \in BOOLEAN
      /\ \/ at' = at /\ at # "starting"
            /\ asked' = asked \cup job.onSignal /\ flying' = flying \cup job.onSignal
         \/ at' = "killed" /\ UNCHANGED <<asked, flying>>
  <2>1. CASE Trapped
    BY <2>1 DEF Interrupt, Trapped
  <2>2. CASE ~Trapped
    BY <2>2 DEF Interrupt, IInv, MarksOK
  <2> QED BY <2>1, <2>2
<1>2. MarksOK'
    BY <1>1 DEF IInv, MarksOK, Plan
<1>3. PlaceInv'
    BY <1>1 DEF IInv, PlaceInv, Plan
<1>4. CodeInv'
    BY <1>1 DEF IInv, CodeInv, Plan
<1>5. RequestInv'
    BY <1>1 DEF IInv, RequestInv, Plan
<1>6. EarlierDone'
  <2>1. Wanted \cap job.onSignal = {}
    BY WantedApart DEF IInv, PlaceInv
  <2>2. \A e \in Wanted : e \in served \ (refused \cup flying)
                             => e \in (served \ (refused \cup flying))'
    BY <1>1, <2>1
  <2> QED BY <1>1, <2>2, DoneStays DEF IInv
<1> QED BY <1>2, <1>3, <1>4, <1>5, <1>6 DEF IInv

LEMMA KilledKeeps == IInv /\ KilledAfterCleanup => IInv'
<1> SUFFICES ASSUME IInv, KilledAfterCleanup PROVE IInv'
    OBVIOUS
<1>1. PlaceInv' /\ RequestInv'
    BY StaysKeep DEF KilledAfterCleanup
<1>2. MarksOK'
    BY DEF KilledAfterCleanup, IInv, MarksOK, Plan
<1>3. CodeInv'
    BY DEF KilledAfterCleanup, IInv, CodeInv, Plan
<1>4. EarlierDone'
    BY DoneStays DEF KilledAfterCleanup, IInv, requests
<1> QED BY <1>1, <1>2, <1>3, <1>4 DEF IInv

LEMMA StutterKeeps == IInv /\ UNCHANGED vars => IInv'
<1> SUFFICES ASSUME IInv, UNCHANGED vars PROVE IInv'
    OBVIOUS
<1>1. PlaceInv' /\ RequestInv' /\ MarksOK' /\ CodeInv'
    BY DEF vars, IInv, PlaceInv, RequestInv, MarksOK, CodeInv, Plan
<1>2. EarlierDone'
    BY DoneStays DEF vars, IInv
<1> QED BY <1>1, <1>2 DEF IInv

LEMMA StepKeeps == IInv /\ [Next]_vars => IInv'
BY StartKeeps, AskKeeps, ResolveKeeps, ThrowKeeps, NoteKeeps, HideKeeps, FinishKeeps,
   NewsKeeps, QuitKeeps, InterruptKeeps, KilledKeeps, StutterKeeps, AnswersKeep
   DEF Next, Process, Answer

LEMMA InvariantHolds == Spec => []IInv
BY InitHolds, StepKeeps, PTL DEF Spec

-----------------------------------------------------------------------------
(* The theorems *)

\* Every variable keeps its type, in every run of every well formed plan.
THEOREM CommandTypeCorrect == Spec => []TypeOK
BY InvariantHolds, IInvTypes, PTL

\* The exit code 0 means that all that was asked for is done, whatever
\* failed or was dropped on the way (handleError, the
\* loops that note failures, and the finally blocks).
THEOREM ZeroIsDone == Spec => []ZeroMeansDone
BY InvariantHolds, IInvDone, PTL

-----------------------------------------------------------------------------
(* The promise of a command line *)

Done == (served \ refused) \cap Wanted

\* A step that leaves the answers and the verdict alone is invisible.
LEMMA Invisible ==
    ASSUME UNCHANGED <<job, served, refused, Verdict>>
    PROVE  [Promise!Next]_Promise!vars
<1>1. Wanted' = Wanted
    BY DEF Wanted, Plan
<1> QED BY <1>1 DEF Promise!vars

\* The verdict stands once it was given, and before that there is none.
LEMMA NoVerdictYet == Alive => Verdict = "none"
BY DEF Alive, Verdict

\* The end of the process is the report, and a success is a complete one.
LEMMA EndReports ==
    ASSUME ZeroMeansDone', Alive, at' \in {"ended", "killed"},
           UNCHANGED <<job, served, refused>>
    PROVE  Promise!Report
<1>1. Wanted' = Wanted /\ Done' = Done
    BY DEF Wanted, Plan, Done
<1>2. Verdict = "none"
    BY NoVerdictYet
<1>3. Verdict' \in {"success", "failure", "killed"}
    BY DEF Verdict
<1>4. Verdict' = "success" => Wanted \subseteq Done
  <2> SUFFICES ASSUME Verdict' = "success" PROVE Wanted \subseteq Done
    OBVIOUS
  <2>1. at' = "ended" /\ code' = 0
    BY DEF Verdict
  <2> QED BY <1>1, <2>1 DEF ZeroMeansDone, Done
<1> QED BY <1>1, <1>2, <1>3, <1>4 DEF Promise!Report, Done

\* An answer to what is wanted is the only one that is visible.
LEMMA LandDoes ==
    ASSUME IInv, NEW e \in flying, Land(e)
    PROVE  [Promise!Next]_Promise!vars
<1>1. Wanted' = Wanted /\ Verdict' = Verdict
    BY DEF Land, Wanted, Plan, Verdict, control
<1>2. CASE e \in Wanted
  <2>1. e \notin served \cup refused
    BY <1>2, WantedApart DEF IInv, PlaceInv, RequestInv
  <2>2. Done' = Done \cup {e} /\ e \notin Done
    BY <1>1, <1>2, <2>1 DEF Land, Done
  <2> QED BY <1>1, <1>2, <2>2 DEF Promise!Next, Promise!Do, Done
<1>3. CASE e \notin Wanted
  <2>1. Done' = Done
    BY <1>1, <1>3 DEF Land, Done
  <2> QED BY <1>1, <2>1 DEF Promise!vars, Done
<1> QED BY <1>2, <1>3

LEMMA BounceDoesNot ==
    ASSUME IInv, NEW e \in flying, Bounce(e)
    PROVE  [Promise!Next]_Promise!vars
<1>1. Wanted' = Wanted /\ Verdict' = Verdict
    BY DEF Bounce, Wanted, Plan, Verdict, control
<1>2. e \in Wanted => e \notin served
    BY WantedApart DEF IInv, PlaceInv, RequestInv
<1>3. Done' = Done
    BY <1>1, <1>2 DEF Bounce, Done
<1> QED BY <1>1, <1>3 DEF Promise!vars, Done

LEMMA StepPromised == IInv /\ IInv' /\ [Next]_vars => [Promise!Next]_Promise!vars
<1> SUFFICES ASSUME IInv, IInv', [Next]_vars PROVE [Promise!Next]_Promise!vars
    OBVIOUS
<1>1. ZeroMeansDone'
  <2>1. IInv' => ZeroMeansDone'
    BY IInvDone, PTL
  <2> QED BY <2>1
<1>2. ASSUME Start \/ Ask \/ Resolve \/ Throw \/ Note \/ Hide \/ Finish
      PROVE  [Promise!Next]_Promise!vars
  <2>1. UNCHANGED <<job, served, refused>> /\ Alive /\ Alive'
    BY <1>2 DEF Start, Ask, Resolve, Throw, Note, Hide, Finish, Running, Alive, control, requests
  <2>2. Verdict' = Verdict
    BY <2>1 DEF Alive, Verdict
  <2> QED BY <2>1, <2>2, Invisible
<1>3. ASSUME News PROVE [Promise!Next]_Promise!vars
  <2>1. UNCHANGED <<job, served, refused>> /\ Alive /\ Alive'
    BY <1>3 DEF News, NewsStored, NewsFails, Alive, control, requests
  <2>2. Verdict' = Verdict
    BY <2>1 DEF Alive, Verdict
  <2> QED BY <2>1, <2>2, Invisible
<1>4. ASSUME Quit \/ KilledAfterCleanup PROVE [Promise!Next]_Promise!vars
  <2>1. Alive /\ at' \in {"ended", "killed"} /\ UNCHANGED <<job, served, refused>>
    BY <1>4 DEF Quit, KilledAfterCleanup, Alive, requests
  <2> QED BY <1>1, <2>1, EndReports DEF Promise!Next
<1>5. ASSUME Interrupt PROVE [Promise!Next]_Promise!vars
  <2>1. UNCHANGED <<job, served, refused>> /\ Alive
    BY <1>5 DEF Interrupt
  <2>2. CASE Trapped
    <3>1. Verdict' = Verdict
      BY <1>5, <2>2 DEF Interrupt, Verdict
    <3> QED BY <2>1, <3>1, Invisible
  <2>3. CASE ~Trapped
    <3>1. at' = "killed"
      BY <1>5, <2>3 DEF Interrupt
    <3> QED BY <1>1, <2>1, <3>1, EndReports DEF Promise!Next
  <2> QED BY <2>2, <2>3
<1>6. ASSUME Answer PROVE [Promise!Next]_Promise!vars
  BY <1>6, LandDoes, BounceDoesNot DEF Answer
<1>7. ASSUME UNCHANGED vars PROVE [Promise!Next]_Promise!vars
  BY <1>7, Invisible DEF vars, Verdict
<1> QED BY <1>2, <1>3, <1>4, <1>5, <1>6, <1>7 DEF Next, Process

\* The safety of the promise (module Request): a change takes place once,
\* the report is given once, and it is a success only when all is done.
THEOREM CommandKeepsPromise == Spec => Promise!Safe
<1>1. Init => Promise!Init
  <2> SUFFICES ASSUME Init PROVE Promise!Init
    OBVIOUS
  <2>1. Wanted \subseteq UNION {j.wants : j \in Jobs}
    BY DEF Init, Wanted
  <2>2. Done = {} /\ Verdict = "none"
    BY DEF Init, Done, Verdict
  <2> QED BY <2>1, <2>2 DEF Promise!Init, Done
<1> QED BY <1>1, InvariantHolds, StepPromised, PTL DEF Spec, Promise!Safe

-----------------------------------------------------------------------------
(* The inductive invariant of the path: why the process is where it is *)

Gates == {"consent", "mode", "login", "none"}

Passed(where) ==
    CASE where = "consent" -> consent
      [] where = "mode" -> condition # "offline"
      [] where = "login" -> condition # "logged out"
      [] OTHER -> FALSE

\* The normal path is past a gate only with the answer the gate waits for.
GatesPassed ==
    \A k \in DOMAIN Plan, w \in Gates :
        IsGate(Plan, k, w) /\ k < pc /\ ~raised => Passed(w)

\* An error leads to the handlers of its try blocks, and nowhere else; what
\* the prerun hook refuses does not run.
PathFollowed ==
    /\ ~Finished /\ Step.runs = "normally" => ~raised
    /\ ~Finished /\ raised => Step.of \in thrownIn
    /\ at = "running" => ~Refused
    /\ <<>> \notin dropped

\* Only a signal asks for what no step asked for.
AskedBySteps ==
    /\ signalled => /\ job.onSignal \subseteq asked
                    /\ \E i \in DOMAIN Plan : i <= pc /\ "trap" \in Plan[i].within
    /\ \A e \in asked : signalled \/ \E i \in DOMAIN Plan : i <= pc /\ e \in Plan[i].does

\* What ended the process, and what set its exit code.
EndsForAReason ==
    /\ at = "starting" => news = "none" /\ ~exiting /\ code = 0
    /\ exiting /\ at = "running" => news = "failed"
    /\ at \in {"over", "ended"} =>
        pc > Len(Plan) \/ news = "failed" \/ asked \subseteq job.onSignal
    /\ code # 0 =>
        \/ raised \/ news = "failed" \/ (at # "running" /\ asked \subseteq job.onSignal)
        \/ \E k \in DOMAIN Plan : "note" \in Plan[k].fail
    /\ at = "killed" /\ job.onSignal # {} =>
        \/ signalled \/ asked = {}
        \/ \A i \in DOMAIN Plan : i <= pc => "trap" \notin Plan[i].within

\* An error after something was made is on its way to the clean-up, unless
\* it was thrown outside of all try blocks; behind it, the clean-up was begun.
CleanUpDue ==
    \A u \in job.undo, c \in DOMAIN Plan :
        IsCleaner(job, u, c) /\ u.made \in asked =>
            /\ pc <= c /\ raised => thrownIn = {} \/ Plan[c].of \in thrownIn
            /\ pc > c /\ (u.when = "always" \/ raised) =>
                  u.cleaner \in asked \/ (raised /\ thrownIn = {})

PathInv ==
    /\ GatesPassed /\ PathFollowed /\ AskedBySteps /\ EndsForAReason /\ CleanUpDue
    /\ ConsentFirst /\ CloudChangesArePermitted

-----------------------------------------------------------------------------
(* What is not skipped *)

\* What the assumptions say of the job of a process that satisfies IInv.
LEMMA TheJob ==
    ASSUME IInv
    PROVE  /\ job \in Jobs /\ IsJob(job) /\ IsWellFormed(job)
           /\ AsksFirst(job) /\ ChecksAccess(job) /\ CleansUp(job)
           /\ RefusesFirst(job)
           /\ Len(Plan) \in Nat /\ DOMAIN Plan = 1..Len(Plan) /\ pc \in 1..(Len(Plan) + 1)
BY JobsAssumption, PlansAssumption DEF IInv, PlaceInv, IsJob, Plan

\* A step outside of all iterations is not dropped with one of them.
LEMMA NotDropped ==
    ASSUME NEW s, s.item = <<>>, NEW gone, gone \subseteq Seq(Nat), <<>> \notin gone,
           NEW err \in BOOLEAN, NEW in, ~ Applies(s, err, in, gone)
    PROVE  \/ err /\ (s.runs = "normally" \/ s.of \notin in)
           \/ ~err /\ s.runs = "catch"
           \/ signalled /\ s.of = "trap"
<1>1. \A g \in gone : ~ IsPrefix(g, s.item)
  <2> SUFFICES ASSUME NEW g \in gone, IsPrefix(g, <<>>) PROVE FALSE
    OBVIOUS
  <2>1. g \in Seq(Nat) /\ Len(g) <= 0
    BY DEF IsPrefix
  <2>2. g = <<>>
    BY <2>1
  <2> QED BY <2>2
<1> QED BY <1>1 DEF Applies

\* So the normal path does not skip a gate.
LEMMA GateApplies ==
    ASSUME IInv, NEW k \in DOMAIN Plan, NEW w, IsGate(Plan, k, w),
           NEW gone, gone \subseteq Seq(Nat), <<>> \notin gone, NEW in
    PROVE  Applies(Plan[k], FALSE, in, gone)
<1>1. Plan[k].runs = "normally" /\ Plan[k].item = <<>>
    BY DEF IsGate
<1>2. Plan[k].of = "none"
    BY <1>1, TheJob DEF IsWellFormed, Plan
<1> QED BY <1>1, <1>2, NotDropped

\* The step gone on with is the first one that applies.
LEMMA FollowingApplies ==
    ASSUME IInv, NEW i \in 0..Len(Plan), NEW err, NEW in, NEW gone,
           NEW p \in Following(i, err, in, gone)
    PROVE  /\ p \in 1..(Len(Plan) + 1) /\ p > i
           /\ p <= Len(Plan) => Applies(Plan[p], err, in, gone)
           /\ \A k \in DOMAIN Plan : k > i /\ k < p => ~ Applies(Plan[k], err, in, gone)
<1>1. Len(Plan) \in Nat /\ DOMAIN Plan = 1..Len(Plan)
    BY TheJob
<1>2. /\ p \in (i + 1)..(Len(Plan) + 1)
      /\ p <= Len(Plan) => Applies(Plan[p], err, in, gone)
      /\ \A l \in (i + 1)..(p - 1) : ~ Applies(Plan[l], err, in, gone)
    BY DEF Following
<1>3. \A k \in DOMAIN Plan : k > i /\ k < p => k \in (i + 1)..(p - 1)
    BY <1>1, <1>2
<1> QED BY <1>1, <1>2, <1>3

\* The iterations that were dropped are paths of numbers.
LEMMA DroppedPaths ==
    ASSUME IInv
    PROVE  dropped \subseteq Seq(Nat) /\ \A i \in DOMAIN Plan : Plan[i].item \in Seq(Nat)
BY PlansAssumption DEF IInv, PlaceInv, MarksOK, Plan

-----------------------------------------------------------------------------
(* What the two invariants say of a refusal and of an end *)

\* A refusal is ahead of all changes, or behind a gate that nobody passes.
LEMMA PathRefuses == IInv /\ PathInv => RefusalIsClean
<1> SUFFICES ASSUME IInv, PathInv, Running, ~Finished, Refuses(Step), NEW e \in asked
             PROVE  e \in MayRemain(job, pc)
    BY DEF RefusalIsClean
<1>1. pc \in DOMAIN Plan /\ Len(Plan) \in Nat /\ DOMAIN Plan = 1..Len(Plan)
    BY TheJob DEF Finished
<1>2. \/ Behind(Plan, pc, "none")
      \/ \A k \in 1..pc : Plan[k].does \subseteq MayRemain(job, pc)
    BY <1>1, TheJob DEF RefusesFirst, Step, Plan
<1>3. CASE Behind(Plan, pc, "none")
  <2>1. PICK k \in 1..(pc - 1) : IsGate(Plan, k, "none") /\ Step.runs = "normally"
    BY <1>3 DEF Behind, Step
  <2>2. k \in DOMAIN Plan /\ k < pc /\ ~raised
    BY <1>1, <2>1 DEF PathInv, PathFollowed
  <2>3. Passed("none")
    BY <2>1, <2>2 DEF PathInv, GatesPassed, Gates
  <2> QED BY <2>3 DEF Passed
<1>4. CASE \A k \in 1..pc : Plan[k].does \subseteq MayRemain(job, pc)
  <2>1. CASE e \in job.onSignal
    BY <2>1 DEF MayRemain
  <2>2. CASE e \notin job.onSignal
    <3>1. PICK i \in DOMAIN Plan : i <= pc /\ e \in Plan[i].does
      BY <2>2 DEF IInv, RequestInv
    <3>2. i \in 1..pc
      BY <1>1, <3>1
    <3> QED BY <1>4, <3>1, <3>2
  <2> QED BY <2>1, <2>2
<1> QED BY <1>2, <1>3, <1>4

\* What was made is made by a step, ahead of the step that cleans it up.
LEMMA MadeHasCleaner ==
    ASSUME IInv, NEW u \in job.undo, u.made \in asked
    PROVE  /\ ~ (asked \subseteq job.onSignal)
           /\ \E c \in DOMAIN Plan : IsCleaner(job, u, c)
           /\ \E m \in DOMAIN Plan : m <= pc /\ u.made \in Plan[m].does
<1>1. u.made \notin job.onSignal
    BY TheJob DEF CleansUp
<1>2. PICK m \in DOMAIN Plan : m <= pc /\ u.made \in Plan[m].does
    BY <1>1 DEF IInv, RequestInv
<1>3. u.made \in Changes(Plan)
    BY <1>2 DEF Changes
<1>4. \E c \in DOMAIN Plan : IsCleaner(job, u, c)
    BY <1>3, TheJob DEF CleansUp, Plan
<1> QED BY <1>1, <1>2, <1>4

LEMMA PathCleansUp == IInv /\ PathInv => LeftBehindIsExplained
<1> SUFFICES ASSUME IInv, PathInv, NEW u \in job.undo, u.made \in asked
             PROVE  /\ at = "ended" /\ (u.when = "always" \/ code # 0) =>
                          u.cleaner \in asked \/ (raised /\ thrownIn = {}) \/ news = "failed"
                    /\ at = "killed" /\ job.onSignal # {} => u.cleaner \in asked
    BY DEF LeftBehindIsExplained
<1>1. /\ ~ (asked \subseteq job.onSignal)
      /\ \E c \in DOMAIN Plan : IsCleaner(job, u, c)
      /\ \E m \in DOMAIN Plan : m <= pc /\ u.made \in Plan[m].does
    BY MadeHasCleaner
<1>2. PICK c \in DOMAIN Plan : IsCleaner(job, u, c)
    BY <1>1
<1>3. PICK m \in DOMAIN Plan : m <= pc /\ u.made \in Plan[m].does
    BY <1>1
<1>4. Len(Plan) \in Nat /\ DOMAIN Plan = 1..Len(Plan) /\ pc \in 1..(Len(Plan) + 1)
    BY TheJob
<1>5. ASSUME at = "ended", u.when = "always" \/ code # 0, news # "failed"
      PROVE  u.cleaner \in asked \/ (raised /\ thrownIn = {})
  <2>1. pc > Len(Plan)
    BY <1>1, <1>5 DEF PathInv, EndsForAReason
  <2>2. pc > c
    BY <1>4, <2>1
  <2>3. CASE u.when = "always" \/ raised
    BY <1>2, <2>2, <2>3 DEF PathInv, CleanUpDue
  <2>4. CASE u.when # "always" /\ ~raised
    <3>1. u.when = "failure"
      BY <2>4, TheJob DEF IsJob
    <3>2. \E k \in DOMAIN Plan : "note" \in Plan[k].fail
      BY <1>1, <1>5, <2>4 DEF PathInv, EndsForAReason
    <3> QED BY <1>2, <3>1, <3>2 DEF IsCleaner, Plan
  <2> QED BY <2>3, <2>4
<1>6. ASSUME at = "killed", job.onSignal # {} PROVE u.cleaner \in asked
  <2>1. u.cleaner \in job.onSignal
    BY <1>6, TheJob DEF CleansUp
  <2>2. PICK i \in 1..m : "trap" \in Plan[i].within
    BY <1>2, <1>3, <1>6 DEF IsCleaner, Plan
  <2>3. i \in DOMAIN Plan /\ i <= pc
    BY <1>3, <1>4
  <2>4. signalled
    BY <1>1, <1>6, <2>2, <2>3 DEF PathInv, EndsForAReason
  <2> QED BY <2>1, <2>4 DEF PathInv, AskedBySteps
<1> QED BY <1>5, <1>6

-----------------------------------------------------------------------------
(* The moves along the plan keep the invariant of the path *)

\* The process moves on from its step, having asked for nothing.
MovesOn(err, in, gone) ==
    /\ Running /\ ~Finished
    /\ pc' \in Following(pc, err, in, gone)
    /\ raised' = err /\ thrownIn' = in /\ dropped' = gone
    /\ UNCHANGED <<job, condition, at, news, exiting, signalled, asked>>

\* All that is left to say of a move is how its step ended.
LEMMA MovesKeepGates ==
    ASSUME IInv, PathInv, NEW err \in BOOLEAN, NEW in, NEW gone, MovesOn(err, in, gone),
           gone \subseteq Seq(Nat), <<>> \notin gone, ~err => ~raised,
           consent => consent',
           \A w \in Gates : IsGate(Plan, pc, w) /\ ~err => Passed(w)'
    PROVE  GatesPassed'
<1> SUFFICES ASSUME NEW k \in DOMAIN Plan', NEW w \in Gates,
                    IsGate(Plan', k, w), k < pc', ~raised'
             PROVE  Passed(w)'
    BY DEF GatesPassed
<1>1. Plan' = Plan /\ k \in DOMAIN Plan /\ IsGate(Plan, k, w) /\ ~err
    BY DEF MovesOn, Plan
<1>2. pc \in DOMAIN Plan /\ pc \in 0..Len(Plan)
    BY TheJob DEF MovesOn, Finished
<1>3. CASE k < pc
  <2>1. Passed(w)
    BY <1>1, <1>3 DEF PathInv, GatesPassed
  <2> QED BY <2>1 DEF Passed, MovesOn
<1>4. CASE k = pc
    BY <1>1, <1>4
<1>5. CASE k > pc
  <2>1. PICK p \in Following(pc, err, in, gone) : p = pc'
    BY DEF MovesOn
  <2>2. ~ Applies(Plan[k], err, in, gone)
    BY <1>1, <1>2, <1>5, <2>1, FollowingApplies
  <2>3. Applies(Plan[k], FALSE, in, gone)
    BY <1>1, GateApplies
  <2>4. err = FALSE
    BY <1>1
  <2> QED BY <2>2, <2>3, <2>4
<1>6. k \in Nat /\ pc \in Nat
    BY <1>1, <1>2, TheJob
<1> QED BY <1>3, <1>4, <1>5, <1>6

\* The step reached is one for which the error, or its absence, is meant.
LEMMA MovesFollow ==
    ASSUME IInv, PathInv, NEW err \in BOOLEAN, NEW in, NEW gone, MovesOn(err, in, gone),
           <<>> \notin gone
    PROVE  PathFollowed'
<1>1. Plan' = Plan /\ job' = job
    BY DEF MovesOn, Plan
<1>2. pc \in 0..Len(Plan)
    BY TheJob DEF MovesOn, Finished
<1>3. PICK p \in Following(pc, err, in, gone) : p = pc'
    BY DEF MovesOn
<1>4. pc' <= Len(Plan) => Applies(Plan[pc'], err, in, gone)
    BY <1>2, <1>3, FollowingApplies
<1>5. ASSUME ~Finished' PROVE Applies(Plan[pc'], err, in, gone)
  <2>1. pc' \in 1..(Len(Plan) + 1) /\ Len(Plan) \in Nat
    BY <1>2, <1>3, FollowingApplies, TheJob
  <2> QED BY <1>1, <1>4, <1>5, <2>1 DEF Finished
<1>6. ~Finished' /\ Step'.runs = "normally" => ~raised'
    BY <1>1, <1>5 DEF MovesOn, Applies, Step
<1>7. ~Finished' /\ raised' => Step'.of \in thrownIn'
    BY <1>1, <1>5 DEF MovesOn, Applies, Step
<1>8. ~Refused' /\ <<>> \notin dropped'
    BY DEF MovesOn, PathInv, PathFollowed, Refused, Running
<1> QED BY <1>6, <1>7, <1>8 DEF PathFollowed

\* What was asked for stays asked for by a step behind.
LEMMA MovesAskNothing ==
    ASSUME IInv, PathInv, NEW err \in BOOLEAN, NEW in, NEW gone, MovesOn(err, in, gone)
    PROVE  AskedBySteps'
<1>1. Plan' = Plan /\ job' = job /\ asked' = asked /\ signalled' = signalled
    BY DEF MovesOn, Plan
<1>2. pc \in 0..Len(Plan) /\ Len(Plan) \in Nat /\ DOMAIN Plan = 1..Len(Plan)
    BY TheJob DEF MovesOn, Finished
<1>3. PICK p \in Following(pc, err, in, gone) : p = pc'
    BY DEF MovesOn
<1>4. pc' \in 1..(Len(Plan) + 1) /\ pc' > pc
    BY <1>2, <1>3, FollowingApplies
<1>5. \A i \in DOMAIN Plan : i <= pc => i <= pc'
    BY <1>2, <1>4
<1>6. signalled => /\ job.onSignal \subseteq asked
                   /\ \E i \in DOMAIN Plan : i <= pc' /\ "trap" \in Plan[i].within
    BY <1>5 DEF PathInv, AskedBySteps
<1>7. \A e \in asked : signalled \/ \E i \in DOMAIN Plan : i <= pc' /\ e \in Plan[i].does
    BY <1>5 DEF PathInv, AskedBySteps
<1> QED BY <1>1, <1>6, <1>7 DEF AskedBySteps

\* An exit code set on the way is that of an error or of a noted failure.
LEMMA MovesEndNothing ==
    ASSUME IInv, PathInv, NEW err \in BOOLEAN, NEW in, NEW gone, MovesOn(err, in, gone),
           raised => err,
           code' = code \/ \E k \in DOMAIN Plan : "note" \in Plan[k].fail
    PROVE  EndsForAReason'
BY DEF MovesOn, Running, Plan, PathInv, EndsForAReason

\* The clean-up: a move that jumps over it leaves it due to nobody.
LEMMA MovesCleanUp ==
    ASSUME IInv, PathInv, NEW err \in BOOLEAN, NEW in, NEW gone, MovesOn(err, in, gone),
           gone \subseteq Seq(Nat), <<>> \notin gone,
           \/ err = raised /\ in = thrownIn
           \/ err /\ in = Step.within /\ "throw" \in Step.fail,
           Step.does = {} \/ Step.does \cap asked # {}
    PROVE  CleanUpDue'
<1> SUFFICES ASSUME NEW u \in job'.undo, NEW c \in DOMAIN Plan',
                    IsCleaner(job', u, c), u.made \in asked'
             PROVE  /\ pc' <= c /\ raised' => thrownIn' = {} \/ Plan'[c].of \in thrownIn'
                    /\ pc' > c /\ (u.when = "always" \/ raised') =>
                          u.cleaner \in asked' \/ (raised' /\ thrownIn' = {})
    BY DEF CleanUpDue
<1>1. /\ Plan' = Plan /\ job' = job /\ asked' = asked
      /\ raised' = err /\ thrownIn' = in
    BY DEF MovesOn, Plan
<1>2. u \in job.undo /\ c \in DOMAIN Plan /\ IsCleaner(job, u, c) /\ u.made \in asked
    BY <1>1
<1>3. /\ pc \in DOMAIN Plan /\ pc \in 0..Len(Plan)
      /\ Len(Plan) \in Nat /\ DOMAIN Plan = 1..Len(Plan)
    BY TheJob DEF MovesOn, Finished
<1>4. PICK p \in Following(pc, err, in, gone) : p = pc'
    BY DEF MovesOn
<1>5. /\ pc' \in 1..(Len(Plan) + 1) /\ pc' > pc
      /\ \A k \in DOMAIN Plan : k > pc /\ k < pc' => ~ Applies(Plan[k], err, in, gone)
    BY <1>3, <1>4, FollowingApplies
<1>6. PICK m \in DOMAIN Plan : m <= pc /\ u.made \in Plan[m].does
    BY <1>2, MadeHasCleaner
<1>7. /\ Plan[c].does = {u.cleaner} /\ Plan[c].item = <<>>
      /\ Plan[c].runs = IF u.when = "always" THEN "finally" ELSE "catch"
      /\ Plan[c].of = "trap" => u.cleaner \in job.onSignal
    BY <1>2 DEF IsCleaner, Plan
<1>8. u.when \in {"failure", "always"}
    BY <1>2, TheJob DEF IsJob
<1>9. /\ pc <= c /\ raised => thrownIn = {} \/ Plan[c].of \in thrownIn
      /\ pc > c /\ (u.when = "always" \/ raised) =>
            u.cleaner \in asked \/ (raised /\ thrownIn = {})
    BY <1>2 DEF PathInv, CleanUpDue
\* On the way to the clean-up, the error may only come from its own try.
<1>10. CASE pc < c
  <2>1. err => in = {} \/ Plan[c].of \in in
    <3>1. CASE err = raised /\ in = thrownIn
      BY <1>2, <1>3, <1>9, <1>10, <3>1
    <3>2. CASE in = Step.within /\ "throw" \in Step.fail
      <4>1. pc \in m..(c - 1)
        BY <1>2, <1>3, <1>6, <1>10
      <4>2. Plan[pc].within = {} \/ Plan[c].of \in Plan[pc].within
        BY <1>2, <1>6, <3>2, <4>1 DEF IsCleaner, Plan, Step
      <4> QED BY <3>2, <4>2 DEF Step
    <3> QED BY <3>1, <3>2
  <2>2. ASSUME pc' > c, u.when = "always" \/ err, ~(err /\ in = {})
        PROVE  u.cleaner \in asked
    <3>1. ~ Applies(Plan[c], err, in, gone)
      BY <1>2, <1>5, <1>10, <2>2
    <3>2. Plan[c].runs # "normally"
      BY <1>7
    <3>3. ~ (~err /\ Plan[c].runs = "catch")
      BY <1>7, <2>2
    <3>4. signalled /\ Plan[c].of = "trap"
      BY <1>7, <2>1, <2>2, <3>1, <3>2, <3>3, NotDropped
    <3> QED BY <1>7, <3>4 DEF PathInv, AskedBySteps
  <2> QED BY <1>1, <2>1, <2>2
\* The clean-up itself goes on when it was begun.
<1>11. CASE pc = c
  <2>1. u.cleaner \in asked
    BY <1>7, <1>11 DEF Step
  <2> QED BY <1>1, <1>3, <1>5, <1>11, <2>1
\* Behind it, an error cannot come from a step that another one led to.
<1>12. CASE pc > c
  <2>1. ~(pc' <= c)
    BY <1>2, <1>3, <1>5, <1>12
  <2>2. CASE err = raised /\ in = thrownIn
    BY <1>1, <1>9, <1>12, <2>1, <2>2
  <2>3. CASE err /\ in = Step.within /\ "throw" \in Step.fail
    <3>1. CASE u.when = "always"
      <4>1. ~ (raised /\ thrownIn = {})
        BY DEF MovesOn, PathInv, PathFollowed
      <4> QED BY <1>1, <1>9, <1>12, <2>1, <3>1, <4>1
    <3>2. CASE u.when = "failure"
      <4>1. Plan[pc].within = {}
        BY <1>2, <1>3, <1>12, <2>3, <3>2 DEF IsCleaner, Plan, Step
      <4> QED BY <1>1, <2>1, <2>3, <4>1 DEF Step
    <3> QED BY <1>8, <3>1, <3>2
  <2> QED BY <2>2, <2>3
<1> QED BY <1>2, <1>3, <1>10, <1>11, <1>12

-----------------------------------------------------------------------------
(* Every action keeps the invariant of the path *)

\* What a move does to the invariant, but for what its step was.
LEMMA MovesKeepPath ==
    ASSUME IInv, PathInv, NEW err \in BOOLEAN, NEW in, NEW gone, MovesOn(err, in, gone),
           gone \subseteq Seq(Nat), <<>> \notin gone,
           \/ err = raised /\ in = thrownIn
           \/ err /\ in = Step.within /\ "throw" \in Step.fail,
           Step.does = {} \/ Step.does \cap asked # {},
           consent => consent',
           code' = code \/ \E k \in DOMAIN Plan : "note" \in Plan[k].fail,
           \A w \in Gates : IsGate(Plan, pc, w) /\ ~err => Passed(w)'
    PROVE  PathInv'
<1>1. raised \in BOOLEAN
    BY DEF IInv, MarksOK
<1>2. raised => err
    BY <1>1
<1>3. GatesPassed'
    BY <1>2, MovesKeepGates
<1>4. PathFollowed'
    BY MovesFollow
<1>5. AskedBySteps'
    BY MovesAskNothing
<1>6. EndsForAReason'
    BY <1>2, MovesEndNothing
<1>7. CleanUpDue'
    BY MovesCleanUp
<1>8. ConsentFirst'
    BY DEF MovesOn, PathInv, ConsentFirst
<1>9. CloudChangesArePermitted'
    BY DEF MovesOn, PathInv, CloudChangesArePermitted, Plan
<1> QED BY <1>3, <1>4, <1>5, <1>6, <1>7, <1>8, <1>9 DEF PathInv

\* A gate resolves with the answer it waits for.
LEMMA ResolveKeepsPath == IInv /\ PathInv /\ Resolve => PathInv'
<1> SUFFICES ASSUME IInv, PathInv, Resolve PROVE PathInv'
    OBVIOUS
<1>1. MovesOn(raised, thrownIn, dropped) /\ raised \in BOOLEAN
    BY DEF Resolve, MovesOn, requests, IInv, MarksOK
<1>2. dropped \subseteq Seq(Nat) /\ <<>> \notin dropped
    BY DroppedPaths DEF PathInv, PathFollowed
<1>3. Step.does = {} \/ Step.does \cap asked # {}
    BY DEF Resolve, Resolvable
<1>4. /\ consent' = (consent \/ Step.where = "consent")
      /\ condition' = condition /\ code' = code
    BY DEF Resolve
<1>5. ASSUME NEW w \in Gates, IsGate(Plan, pc, w) PROVE Passed(w)'
  <2>1. Step.does = {} /\ Step.where = w
    BY <1>5 DEF IsGate, Step
  <2>2. /\ w # "none"
        /\ w = "login" => condition # "logged out"
        /\ w = "mode" => condition # "offline"
    BY <2>1 DEF Resolve, Resolvable, Refuses
  <2> QED BY <1>4, <2>1, <2>2 DEF Passed, Gates
<1> QED BY <1>1, <1>2, <1>3, <1>4, <1>5, MovesKeepPath

LEMMA ThrowKeepsPath == IInv /\ PathInv /\ Throw => PathInv'
<1> SUFFICES ASSUME IInv, PathInv, Throw PROVE PathInv'
    OBVIOUS
<1>1. PICK err \in BOOLEAN : err
    OBVIOUS
<1>2. MovesOn(err, Step.within, dropped)
    BY <1>1 DEF Throw, MovesOn, requests
<1>3. dropped \subseteq Seq(Nat) /\ <<>> \notin dropped
    BY DroppedPaths DEF PathInv, PathFollowed
<1>4. Step.does = {} \/ Step.does \cap asked # {}
    BY DEF Throw, Rejectable, IInv, RequestInv
<1>5. consent' = consent /\ code' = code /\ "throw" \in Step.fail
    BY DEF Throw
<1> QED BY <1>1, <1>2, <1>3, <1>4, <1>5, MovesKeepPath

\* The failure of a gate is never noted or hidden.
LEMMA DropKeepsPath == IInv /\ PathInv /\ (Note \/ Hide) => PathInv'
<1> SUFFICES ASSUME IInv, PathInv, Note \/ Hide PROVE PathInv'
    OBVIOUS
<1> DEFINE gone == dropped \cup ({Step.item} \ {<<>>})
<1>1. MovesOn(raised, thrownIn, gone) /\ raised \in BOOLEAN
    BY DEF Note, Hide, Drop, MovesOn, requests, IInv, MarksOK
<1>2. pc \in DOMAIN Plan
    BY TheJob DEF Note, Hide, Finished
<1>3. gone \subseteq Seq(Nat) /\ <<>> \notin gone
    BY <1>2, DroppedPaths DEF PathInv, PathFollowed, Step
<1>4. Step.does = {} \/ Step.does \cap asked # {}
    BY DEF Note, Hide, Rejectable, IInv, RequestInv
<1>5. consent' = consent /\ (code' = code \/ \E k \in DOMAIN Plan : "note" \in Plan[k].fail)
    BY <1>2 DEF Note, Hide, Step
<1>6. ASSUME NEW w \in Gates, IsGate(Plan, pc, w) PROVE FALSE
    BY <1>6 DEF IsGate, Note, Hide, Step
<1> HIDE DEF gone
<1> QED BY <1>1, <1>3, <1>4, <1>5, <1>6, MovesKeepPath

LEMMA InitHasPath == Init => PathInv
<1> SUFFICES ASSUME Init PROVE PathInv
    OBVIOUS
<1>1. job \in Jobs /\ Len(Plan) \in Nat /\ DOMAIN Plan = 1..Len(Plan)
    BY JobsAssumption DEF Init, IsJob, Plan
<1>2. GatesPassed
    BY <1>1 DEF Init, GatesPassed
<1>3. PathFollowed /\ AskedBySteps
    BY DEF Init, PathFollowed, AskedBySteps
<1>4. EndsForAReason /\ CleanUpDue
    BY DEF Init, EndsForAReason, CleanUpDue
<1>5. ConsentFirst /\ CloudChangesArePermitted
    BY DEF Init, ConsentFirst, CloudChangesArePermitted
<1> QED BY <1>2, <1>3, <1>4, <1>5 DEF PathInv

\* The hook refuses before anything is asked for, and the first steps skip
\* no gate.
LEMMA StartKeepsPath == IInv /\ PathInv /\ Start => PathInv'
<1> SUFFICES ASSUME IInv, PathInv, Start PROVE PathInv'
    OBVIOUS
<1>1. /\ Plan' = Plan /\ job' = job /\ condition' = condition /\ asked' = asked
      /\ raised' = raised /\ thrownIn' = thrownIn /\ dropped' = dropped
      /\ signalled' = signalled /\ exiting' = exiting
    BY DEF Start, Plan, requests
<1>2. asked = {} /\ raised = FALSE /\ pc = 1
    BY DEF Start, IInv, PlaceInv, MarksOK
<1>3. Len(Plan) \in Nat /\ DOMAIN Plan = 1..Len(Plan) /\ 0 \in 0..Len(Plan)
    BY TheJob
<1>4. PICK p \in Following(0, FALSE, {}, {}) : p = pc'
    BY DEF Start
<1>5. /\ pc' \in 1..(Len(Plan) + 1)
      /\ pc' <= Len(Plan) => Applies(Plan[pc'], FALSE, {}, {})
      /\ \A k \in DOMAIN Plan : k > 0 /\ k < pc' => ~ Applies(Plan[k], FALSE, {}, {})
    BY <1>3, <1>4, FollowingApplies
<1>6. GatesPassed'
  <2> SUFFICES ASSUME NEW k \in DOMAIN Plan, NEW w \in Gates, IsGate(Plan, k, w), k < pc'
               PROVE  FALSE
    BY <1>1 DEF GatesPassed
  <2>1. Applies(Plan[k], FALSE, {}, {})
    BY GateApplies
  <2>2. k > 0 /\ k < pc'
    BY <1>3
  <2>3. ~ Applies(Plan[k], FALSE, {}, {})
    BY <1>5, <2>2
  <2> QED BY <2>1, <2>3
<1>7. \/ at' = "running" /\ ~Refused /\ code' = code
      \/ at' = "over" /\ code' = 1
    BY DEF Start
<1>8. PathFollowed'
    BY <1>1, <1>2, <1>7 DEF PathInv, PathFollowed, Refused
<1>9. AskedBySteps'
  <2>1. ASSUME signalled
        PROVE  job.onSignal = {} /\ \E i \in DOMAIN Plan : i <= pc' /\ "trap" \in Plan[i].within
    <3>1. \A i \in DOMAIN Plan : i <= pc => i <= pc'
      BY <1>2, <1>3, <1>5
    <3> QED BY <1>2, <2>1, <3>1 DEF PathInv, AskedBySteps
  <2> QED BY <1>1, <1>2, <2>1 DEF AskedBySteps
<1>10. EndsForAReason'
  <2>1. code = 0 /\ ~exiting /\ at = "starting"
    BY DEF Start, PathInv, EndsForAReason
  <2> QED BY <1>1, <1>2, <1>7, <2>1 DEF EndsForAReason
<1>11. CleanUpDue' /\ ConsentFirst' /\ CloudChangesArePermitted'
    BY <1>1, <1>2 DEF CleanUpDue, ConsentFirst, CloudChangesArePermitted
<1> QED BY <1>6, <1>8, <1>9, <1>10, <1>11 DEF PathInv

\* The step that asks is on the normal path when what it asks for is guarded,
\* and then the gates behind it were passed.
LEMMA BehindPassed ==
    ASSUME IInv, PathInv, NEW w \in Gates, ~Finished, Behind(Plan, pc, w)
    PROVE  Passed(w)
<1>1. PICK k \in 1..(pc - 1) : IsGate(Plan, k, w)
    BY DEF Behind
<1>2. ~raised
    BY DEF Behind, PathInv, PathFollowed, Step
<1>3. k \in DOMAIN Plan /\ k < pc
    BY TheJob DEF Finished
<1> QED BY <1>1, <1>2, <1>3 DEF PathInv, GatesPassed

LEMMA AskKeepsPath == IInv /\ PathInv /\ Ask => PathInv'
<1> SUFFICES ASSUME IInv, PathInv, Ask PROVE PathInv'
    OBVIOUS
<1>1. /\ UNCHANGED <<job, condition, at, pc, raised, thrownIn, dropped, consent, code,
                     exiting, news, signalled>>
      /\ Plan' = Plan /\ Step' = Step /\ asked' = asked \cup Step.does
    BY DEF Ask, control, Plan, Step
<1>2. pc \in DOMAIN Plan /\ ~Finished /\ at = "running"
    BY TheJob DEF Ask, Finished, Running
<1>3. GatesPassed'
    BY <1>1 DEF PathInv, GatesPassed, Passed
<1>4. PathFollowed'
    BY <1>1 DEF PathInv, PathFollowed, Finished, Refused
<1>5. AskedBySteps'
  <2>1. \A e \in Step.does : \E i \in DOMAIN Plan : i <= pc /\ e \in Plan[i].does
    BY <1>2, TheJob DEF Step
  <2> QED BY <1>1, <2>1 DEF PathInv, AskedBySteps
<1>6. EndsForAReason'
    BY <1>1, <1>2 DEF PathInv, EndsForAReason
<1>7. CleanUpDue'
  <2> SUFFICES ASSUME NEW u \in job.undo, NEW c \in DOMAIN Plan,
                      IsCleaner(job, u, c), u.made \in asked'
               PROVE  /\ pc <= c /\ raised => thrownIn = {} \/ Plan[c].of \in thrownIn
                      /\ pc > c /\ (u.when = "always" \/ raised) =>
                            u.cleaner \in asked' \/ (raised /\ thrownIn = {})
    BY <1>1 DEF CleanUpDue
  <2>1. CASE u.made \in asked
    BY <1>1, <2>1 DEF PathInv, CleanUpDue
  <2>2. CASE u.made \in Step.does
    <3>1. pc < c /\ Step.runs = "normally"
      BY <1>2, <2>2 DEF IsCleaner, Plan, Step
    <3>2. ~raised
      BY <1>2, <3>1 DEF PathInv, PathFollowed
    <3>3. pc \in Nat /\ c \in Nat
      BY <1>2, TheJob
    <3> QED BY <3>1, <3>2, <3>3
  <2> QED BY <1>1, <2>1, <2>2
<1>8. ConsentFirst'
  <2>1. ASSUME Step.does \cap job.asks # {} PROVE consent
    <3>1. Behind(Plan, pc, "consent")
      BY <1>2, <2>1, TheJob DEF AsksFirst, Plan, Step
    <3>2. Passed("consent")
      BY <1>2, <3>1, BehindPassed DEF Gates
    <3> QED BY <3>2 DEF Passed
  <2> QED BY <1>1, <2>1 DEF PathInv, ConsentFirst
<1>9. CloudChangesArePermitted'
  <2>1. ASSUME NEW e \in Step.does, e \in CloudChanges(Plan)
        PROVE  condition # "offline" /\ (condition # "logged out" \/ job.cmd = "login")
    <3>1. PICK i \in DOMAIN Plan : Plan[i].where = "cloud" /\ e \in Plan[i].does
      BY <2>1 DEF CloudChanges
    <3>2. e \notin job.onSignal
      BY <2>1, TheJob DEF ChecksAccess, Plan
    <3>3. i = pc
      BY <1>2, <2>1, <3>1, <3>2, TheJob DEF IsWellFormed, Plan, Step
    <3>4. /\ "online" \in job.needs \/ Behind(Plan, pc, "mode")
          /\ job.cmd = "login" \/ "login" \in job.needs \/ Behind(Plan, pc, "login")
      BY <3>1, <3>3, TheJob DEF ChecksAccess, Plan
    <3>5. ~Refused
      BY <1>2 DEF PathInv, PathFollowed
    <3>6. condition # "offline"
      <4>1. CASE "online" \in job.needs
        BY <3>5, <4>1 DEF Refused
      <4>2. CASE Behind(Plan, pc, "mode")
        <5>1. Passed("mode")
          BY <1>2, <4>2, BehindPassed DEF Gates
        <5> QED BY <5>1 DEF Passed
      <4> QED BY <3>4, <4>1, <4>2
    <3>7. job.cmd = "login" \/ condition # "logged out"
      <4>1. CASE "login" \in job.needs
        BY <3>5, <4>1 DEF Refused
      <4>2. CASE Behind(Plan, pc, "login")
        <5>1. Passed("login")
          BY <1>2, <4>2, BehindPassed DEF Gates
        <5> QED BY <5>1 DEF Passed
      <4> QED BY <3>4, <4>1, <4>2
    <3> QED BY <3>6, <3>7
  <2> QED BY <1>1, <2>1 DEF PathInv, CloudChangesArePermitted
<1> QED BY <1>3, <1>4, <1>5, <1>6, <1>7, <1>8, <1>9 DEF PathInv

\* A step that neither moves the process nor asks for anything has only its
\* reasons to end to account for.
LEMMA StaysKeepPath ==
    ASSUME PathInv, EndsForAReason', at' = "running" => at = "running",
           UNCHANGED <<job, condition, pc, raised, thrownIn, dropped, consent, signalled, asked>>
    PROVE  PathInv'
<1>1. Plan' = Plan /\ Step' = Step
    BY DEF Plan, Step
<1>2. GatesPassed'
    BY <1>1 DEF PathInv, GatesPassed, Passed
<1>3. PathFollowed'
    BY <1>1 DEF PathInv, PathFollowed, Finished, Refused
<1>4. AskedBySteps'
    BY <1>1 DEF PathInv, AskedBySteps
<1>5. CleanUpDue'
    BY <1>1 DEF PathInv, CleanUpDue
<1>6. ConsentFirst' /\ CloudChangesArePermitted'
    BY <1>1 DEF PathInv, ConsentFirst, CloudChangesArePermitted
<1> QED BY <1>2, <1>3, <1>4, <1>5, <1>6 DEF PathInv

LEMMA AnswersKeepPath ==
    ASSUME PathInv, NEW e \in flying, Land(e) \/ Bounce(e) PROVE PathInv'
<1>1. UNCHANGED <<job, condition, at, pc, raised, thrownIn, dropped, consent, code,
                  exiting, news, signalled, asked>>
    BY DEF Land, Bounce, control
<1>2. EndsForAReason'
    BY <1>1 DEF PathInv, EndsForAReason, Plan
<1> QED BY <1>1, <1>2, StaysKeepPath

\* handleError sets the exit code for what was raised, or for the news.
LEMMA FinishKeepsPath == IInv /\ PathInv /\ Finish => PathInv'
<1> SUFFICES ASSUME IInv, PathInv, Finish PROVE PathInv'
    OBVIOUS
<1>1. /\ UNCHANGED <<job, condition, pc, raised, thrownIn, dropped, consent, news, signalled, asked>>
      /\ Plan' = Plan /\ at = "running" /\ at' = "over"
    BY DEF Finish, requests, Running, Plan
<1>2. pc > Len(Plan)
    BY DEF Finish, Finished
<1>3. code' = code \/ raised
    BY DEF Finish
<1>4. EndsForAReason'
    BY <1>1, <1>2, <1>3 DEF PathInv, EndsForAReason
<1> QED BY <1>1, <1>4, StaysKeepPath

LEMMA NewsKeepsPath == IInv /\ PathInv /\ News => PathInv'
<1> SUFFICES ASSUME IInv, PathInv, News PROVE PathInv'
    OBVIOUS
<1>1. /\ UNCHANGED <<job, condition, at, pc, raised, thrownIn, dropped, consent, signalled, asked>>
      /\ Plan' = Plan /\ news = "pending" /\ news' \in {"done", "failed"}
      /\ news' = "failed" \/ UNCHANGED <<code, exiting>>
    BY DEF News, NewsStored, NewsFails, control, requests, Plan
<1>2. EndsForAReason'
    BY <1>1 DEF PathInv, EndsForAReason
<1> QED BY <1>1, <1>2, StaysKeepPath

\* process.exit during the run is that of the news that failed.
LEMMA QuitKeepsPath == IInv /\ PathInv /\ (Quit \/ KilledAfterCleanup) => PathInv'
<1> SUFFICES ASSUME IInv, PathInv, Quit \/ KilledAfterCleanup PROVE PathInv'
    OBVIOUS
<1>1. /\ UNCHANGED <<job, condition, pc, raised, thrownIn, dropped, consent, news, code,
                     exiting, signalled, asked>>
      /\ Plan' = Plan
    BY DEF Quit, KilledAfterCleanup, requests, Plan
<1>2. \/ at' = "ended" /\ (at = "over" \/ (exiting /\ at = "running"))
      \/ at' = "killed" /\ signalled
    BY DEF Quit, KilledAfterCleanup
<1>3. at = "running" \/ at = "over" => code = 0 \/ raised \/ news = "failed"
                \/ (at # "running" /\ asked \subseteq job.onSignal)
                \/ \E k \in DOMAIN Plan : "note" \in Plan[k].fail
    BY DEF PathInv, EndsForAReason
<1>4. EndsForAReason'
    BY <1>1, <1>2, <1>3 DEF PathInv, EndsForAReason
<1>5. at' # "running"
    BY <1>2
<1> QED BY <1>1, <1>4, <1>5, StaysKeepPath

\* The handler of signals asks for the clean-up only: a process without one
\* is killed at once, and has made nothing yet that needs it.
LEMMA InterruptKeepsPath == IInv /\ PathInv /\ Interrupt => PathInv'
<1> SUFFICES ASSUME IInv, PathInv, Interrupt PROVE PathInv'
    OBVIOUS
<1>1. /\ UNCHANGED <<job, condition, pc, raised, thrownIn, dropped, consent, news, code, exiting>>
      /\ Plan' = Plan /\ Step' = Step
    BY DEF Interrupt, Plan, Step
<1>2. CASE ~Trapped
  <2>1. at' = "killed" /\ UNCHANGED <<signalled, asked>>
    BY <1>2 DEF Interrupt
  <2>2. \/ job.onSignal = {} \/ signalled \/ asked = {}
        \/ \A i \in DOMAIN Plan : i <= pc => "trap" \notin Plan[i].within
    BY <1>2 DEF Trapped, IInv, PlaceInv
  <2>3. EndsForAReason'
    <3>1. code # 0 => \/ raised \/ news = "failed" \/ asked \subseteq job.onSignal
                      \/ \E k \in DOMAIN Plan : "note" \in Plan[k].fail
      BY DEF PathInv, EndsForAReason
    <3> QED BY <1>1, <2>1, <2>2, <3>1 DEF EndsForAReason
  <2> QED BY <1>1, <2>1, <2>3, StaysKeepPath
<1>3. CASE Trapped
  <2>1. at' = at /\ signalled' = TRUE /\ asked' = asked \cup job.onSignal
    BY <1>3 DEF Interrupt
  <2>2. GatesPassed'
    BY <1>1 DEF PathInv, GatesPassed, Passed
  <2>3. PathFollowed'
    BY <1>1, <2>1 DEF PathInv, PathFollowed, Finished, Refused
  <2>4. AskedBySteps'
    BY <1>1, <1>3, <2>1 DEF Trapped, PathInv, AskedBySteps
  <2>5. EndsForAReason'
    BY <1>1, <2>1 DEF PathInv, EndsForAReason
  <2>6. \A u \in job.undo : u.made \notin job.onSignal
    BY TheJob DEF CleansUp
  <2>7. CleanUpDue'
    BY <1>1, <2>1, <2>6 DEF PathInv, CleanUpDue
  <2>8. job.asks \cap job.onSignal = {} /\ CloudChanges(Plan) \cap job.onSignal = {}
    BY TheJob DEF AsksFirst, ChecksAccess, Plan
  <2>9. ConsentFirst' /\ CloudChangesArePermitted'
    BY <1>1, <2>1, <2>8 DEF PathInv, ConsentFirst, CloudChangesArePermitted
  <2> QED BY <2>2, <2>3, <2>4, <2>5, <2>7, <2>9 DEF PathInv
<1> QED BY <1>2, <1>3

LEMMA PathStepKeeps == IInv /\ PathInv /\ [Next]_vars => PathInv'
<1> SUFFICES ASSUME IInv, PathInv, [Next]_vars PROVE PathInv'
    OBVIOUS
<1>1. CASE UNCHANGED vars
  <2>1. EndsForAReason'
    BY <1>1 DEF vars, PathInv, EndsForAReason, Plan
  <2> QED BY <1>1, <2>1, StaysKeepPath DEF vars
<1>2. CASE Process
    BY <1>2, StartKeepsPath, AskKeepsPath, ResolveKeepsPath, ThrowKeepsPath, DropKeepsPath,
       FinishKeepsPath, QuitKeepsPath DEF Process
<1>3. CASE News \/ Interrupt
    BY <1>3, NewsKeepsPath, InterruptKeepsPath
<1>4. CASE Answer
    BY <1>4, AnswersKeepPath DEF Answer
<1> QED BY <1>1, <1>2, <1>3, <1>4 DEF Next

LEMMA PathHolds == Spec => [](IInv /\ PathInv)
<1>1. IInv /\ PathInv /\ [Next]_vars => (IInv /\ PathInv)'
    BY StepKeeps, PathStepKeeps
<1> QED BY InitHolds, InitHasPath, <1>1, PTL DEF Spec

\* What destroys something is asked for after the user agreed (confirm, the
\* --yes flag), whatever failed, was answered late or was interrupted.
THEOREM AsksForConsent == Spec => []ConsentFirst
<1>1. PathInv => ConsentFirst
    BY DEF PathInv
<1> QED BY PathHolds, <1>1, PTL

\* Without a session, or in offline mode, nothing in the cloud is changed: by
\* the prerun hook, or by the check of run() ahead of the change.
THEOREM ChangesArePermitted == Spec => []CloudChangesArePermitted
<1>1. PathInv => CloudChangesArePermitted
    BY DEF PathInv
<1> QED BY PathHolds, <1>1, PTL

\* A command that refuses (an ExpectedError of run(), or of the parser of a
\* nested command) leaves nothing behind but what it did for earlier items of
\* a list, what it undoes on the way out, and the changes Kept.
THEOREM RefusesCleanly == Spec => []RefusalIsClean
BY PathHolds, PathRefuses, PTL

\* What was made on the way is cleaned up, by the finally or catch block or by
\* the handler of signals, unless another error ended the process.
THEOREM CleansUpBehind == Spec => []LeftBehindIsExplained
BY PathHolds, PathCleansUp, PTL
=============================================================================
