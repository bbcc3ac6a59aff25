--------------------------- MODULE LivepushProofs ---------------------------
(***************************************************************************)
(* For every composition and any number of concurrent handleFSEvents       *)
(* calls: type correctness of Livepush and every invariant of the session. *)
(*                                                                         *)
(* None is inductive alone.  IInv, that a call in flight belongs to a      *)
(* service, ties the flags of a service to its own calls: the cancellation *)
(* protocol of rebuilds rests on it.  SessionInv adds what the session is  *)
(* going to do about each difference between the disk and the device:      *)
(*   HeldIdsAreUp - a container id that is held names a running container; *)
(*   Cancelling   - rebuilds of a service overlap only after a noted       *)
(*                  "overlap", and a cancelled one has a request behind it; *)
(*   Restoring    - a container that is down is to be started, and an      *)
(*                  instance that lost its container is to be replaced;    *)
(*   Accounts     - each path of each service is pending, on its way to    *)
(*                  the container, in it, or excused by a fault.           *)
(* A quiet service has nothing pending and nothing on its way: what the    *)
(* invariants say of it is what is left.                                   *)
(***************************************************************************)
EXTENDS Livepush, TLAPS

\* A call in flight belongs to the service whose timer started it.
BusyHasService == \A h \in Handlers : pc[h] # "idle" => svc[h] \in Services

Coupling == BusyHasService /\ FlagsHaveRebuild /\ RunningIdIsBuild

IInv == TypeOK /\ Coupling

-----------------------------------------------------------------------------
(* What a step does to the coupling of flags, ids and calls *)

\* A call that is not in a rebuild returns.
LEMMA CallReturns ==
  ASSUME LivepushAssumption, CallTypeOK, Coupling, NEW h \in Handlers,
         pc[h] \notin RebuildPCs,
         pc' = [pc EXCEPT ![h] = "idle"], svc' = [svc EXCEPT ![h] = None],
         UNCHANGED flagVars
  PROVE  Coupling'
<1> USE DEF CallTypeOK, Coupling, BusyHasService, InRebuild, flagVars
<1>1. BusyHasService'
  OBVIOUS
<1>2. FlagsHaveRebuild'
  BY DEF FlagsHaveRebuild
<1>3. RunningIdIsBuild'
  BY DEF RunningIdIsBuild, RebuildPCs, Building
<1> QED BY <1>1, <1>2, <1>3

\* A rebuild returns: its "finally" clears both flags of its service; if it
\* was still building, the running id was deleted.
LEMMA RebuildReturns ==
  ASSUME LivepushAssumption, ManagerTypeOK, CallTypeOK, Coupling, NEW h \in Handlers,
         pc[h] \in RebuildPCs,
         pc' = [pc EXCEPT ![h] = "idle"], svc' = [svc EXCEPT ![h] = None],
         EndRebuild(h),
         \/ rebuildRunningIds' = [rebuildRunningIds EXCEPT ![svc[h]] = None]
         \/ pc[h] # "build" /\ UNCHANGED rebuildRunningIds
  PROVE  Coupling'
<1> USE DEF ManagerTypeOK, CallTypeOK, Coupling, BusyHasService, InRebuild
<1>1. svc[h] \in Services
  BY DEF RebuildPCs, Building, Deploying
<1>2. BusyHasService'
  OBVIOUS
<1>3. FlagsHaveRebuild'
  <2> SUFFICES ASSUME NEW s \in Services, rebuildsRunning'[s] \/ rebuildsCancelled'[s]
               PROVE  \E g \in Handlers : InRebuild(g, s)'
    BY DEF FlagsHaveRebuild
  <2>1. s # svc[h] /\ (rebuildsRunning[s] \/ rebuildsCancelled[s])
    BY <1>1 DEF EndRebuild
  <2>2. PICK g \in Handlers : InRebuild(g, s)
    BY <2>1 DEF FlagsHaveRebuild
  <2>3. g # h
    BY <2>1, <2>2
  <2> QED BY <2>2, <2>3
<1>4. RunningIdIsBuild'
  <2>1. CASE rebuildRunningIds' = [rebuildRunningIds EXCEPT ![svc[h]] = None]
    BY <1>1, <2>1 DEF RunningIdIsBuild
  <2>2. CASE pc[h] # "build" /\ UNCHANGED rebuildRunningIds
    BY <2>2 DEF RunningIdIsBuild
  <2> QED BY <2>1, <2>2
<1> QED BY <1>2, <1>3, <1>4

\* A call goes on without returning and without touching the two flags; a
\* rebuild stays a rebuild, and a build that ends deletes the running id.
LEMMA CallMoves ==
  ASSUME LivepushAssumption, ManagerTypeOK, CallTypeOK, Coupling, NEW h \in Handlers,
         NEW next \in PCs,
         pc[h] # "idle", pc[h] \in RebuildPCs => next \in RebuildPCs,
         pc' = [pc EXCEPT ![h] = next], UNCHANGED svc,
         UNCHANGED <<rebuildsRunning, rebuildsCancelled>>,
         \/ rebuildRunningIds' = [rebuildRunningIds EXCEPT ![svc[h]] = None]
         \/ pc[h] # "build" /\ UNCHANGED rebuildRunningIds
  PROVE  Coupling'
<1> USE DEF ManagerTypeOK, CallTypeOK, Coupling, BusyHasService, InRebuild
<1>1. BusyHasService'
  OBVIOUS
<1>2. FlagsHaveRebuild'
  BY DEF FlagsHaveRebuild
<1>3. RunningIdIsBuild'
  <2>1. CASE rebuildRunningIds' = [rebuildRunningIds EXCEPT ![svc[h]] = None]
    BY <2>1 DEF RunningIdIsBuild
  <2>2. CASE pc[h] # "build" /\ UNCHANGED rebuildRunningIds
    BY <2>2 DEF RunningIdIsBuild
  <2> QED BY <2>1, <2>2
<1> QED BY <1>1, <1>2, <1>3

\* handleServiceRebuild is entered, by a new call or after the wait: its
\* own service has a rebuild from now on.
LEMMA RebuildBegins ==
  ASSUME LivepushAssumption, ManagerTypeOK, CallTypeOK, Coupling, NEW h \in Handlers,
         NEW s \in Services, pc[h] \in {"idle", "wait"},
         pc' = [pc EXCEPT ![h] = "tar"], svc' = [svc EXCEPT ![h] = s],
         pc[h] = "wait" => svc[h] = s,
         rebuildsRunning' = [rebuildsRunning EXCEPT ![s] = TRUE],
         UNCHANGED <<rebuildsCancelled, rebuildRunningIds>>
  PROVE  Coupling'
<1> USE DEF ManagerTypeOK, CallTypeOK, Coupling, BusyHasService, InRebuild
<1>1. BusyHasService'
  OBVIOUS
<1>2. FlagsHaveRebuild'
  BY DEF FlagsHaveRebuild, RebuildPCs, Building, Deploying
<1>3. RunningIdIsBuild'
  BY DEF RunningIdIsBuild
<1> QED BY <1>1, <1>2, <1>3
-----------------------------------------------------------------------------
(* One step per action *)

\* No call starts, moves or returns.
LEMMA CallsStandStill ==
  ASSUME Coupling, UNCHANGED <<pc, svc, flagVars>>
  PROVE  Coupling'
BY DEF Coupling, BusyHasService, FlagsHaveRebuild, RunningIdIsBuild, InRebuild, flagVars

\* The coupling holds before any call starts, and every step keeps it.
LEMMA CouplingInit == LivepushAssumption /\ Init => Coupling
BY DEF Init, Coupling, BusyHasService, FlagsHaveRebuild, RunningIdIsBuild

LEMMA CouplingStep ==
  ASSUME LivepushAssumption, TypeOK, Coupling, [Next]_vars
  PROVE  Coupling'
<1> USE DEF TypeOK, PCs
<1>1. ASSUME NEW s \in Services, NEW p \in Paths, Edit(s, p) PROVE Coupling'
  BY <1>1, CallsStandStill DEF Edit
<1>2. ASSUME InitSettle \/ SupervisorApplied PROVE Coupling'
  BY <1>2, CallsStandStill DEF InitSettle, SupervisorApplied, callVars
<1>3. ASSUME NEW s \in Services,
             \/ InitService(s) \/ SkipLivepush(s) \/ ContainerExits(s)
             \/ SupervisorStarts(s) \/ SupervisorStops(s)
      PROVE  Coupling'
  BY <1>3, CallsStandStill DEF InitService, SkipLivepush, ContainerExits,
     SupervisorStarts, SupervisorStops, callVars
<1>4. ASSUME NEW h \in Handlers, NEW s \in Services, StartRebuild(h, s) PROVE Coupling'
  BY <1>4, RebuildBegins DEF StartRebuild, TakeEvents, BeginRebuild
<1>5. ASSUME NEW h \in Handlers, NEW s \in Services, CancelRebuild(h, s) PROVE Coupling'
  <2>1. /\ pc[h] = "idle" /\ rebuildsRunning[s]
        /\ \E q \in {"wait", "kill"} : pc' = [pc EXCEPT ![h] = q]
        /\ svc' = [svc EXCEPT ![h] = s]
        /\ rebuildsCancelled' = [rebuildsCancelled EXCEPT ![s] = TRUE]
        /\ UNCHANGED <<rebuildsRunning, rebuildRunningIds>>
    BY <1>5 DEF CancelRebuild
  <2>2. BusyHasService' /\ RunningIdIsBuild'
    BY <2>1 DEF Coupling, BusyHasService, RunningIdIsBuild, CallTypeOK
  <2>3. FlagsHaveRebuild'
    BY <2>1 DEF Coupling, FlagsHaveRebuild, InRebuild, CallTypeOK, ManagerTypeOK,
       RebuildPCs, Building, Deploying
  <2> QED BY <2>2, <2>3 DEF Coupling
<1>6. ASSUME NEW h \in Handlers, NEW s \in Services, StartLivepush(h, s) PROVE Coupling'
  <2>1. /\ pc[h] = "idle"
        /\ pc' = [pc EXCEPT ![h] = "livepush"]
        /\ svc' = [svc EXCEPT ![h] = s]
        /\ UNCHANGED flagVars
    BY <1>6 DEF StartLivepush, TakeEvents
  <2> QED
    BY <2>1 DEF Coupling, BusyHasService, FlagsHaveRebuild, RunningIdIsBuild, InRebuild,
       CallTypeOK, flagVars, RebuildPCs, Building, Deploying
<1>7. ASSUME NEW h \in Handlers, LivepushDone(h) \/ LivepushFails(h) PROVE Coupling'
  BY <1>7, CallReturns DEF LivepushDone, LivepushFails, Return, RebuildPCs, Building, Deploying
<1>8. ASSUME NEW h \in Handlers, KillBuild(h) PROVE Coupling'
  <2>1. /\ pc[h] = "kill"
        /\ \E q \in {"wait", "cancelLivepush"} : pc' = [pc EXCEPT ![h] = q]
        /\ UNCHANGED <<svc, flagVars>>
    BY <1>8 DEF KillBuild
  <2> QED BY <2>1, CallMoves DEF flagVars, RebuildPCs, Building, Deploying
<1>9. ASSUME NEW h \in Handlers, CancelLivepush(h) PROVE Coupling'
  <2>1. /\ UNCHANGED flagVars
        /\ pc[h] = "cancelLivepush"
        /\ \A g \in Handlers :
              \/ pc'[g] = pc[g] /\ (pc[g] # "idle" => svc'[g] = svc[g])
              \/ g = h /\ pc'[g] = "wait" /\ svc'[g] = svc[g]
              \/ pc[g] = "livepush" /\ pc'[g] = "idle"
    BY <1>9 DEF CancelLivepush, CallTypeOK
  <2>2. BusyHasService' /\ RunningIdIsBuild'
    BY <2>1 DEF Coupling, BusyHasService, RunningIdIsBuild, CallTypeOK, ManagerTypeOK, flagVars
  <2>3. FlagsHaveRebuild'
    BY <2>1 DEF Coupling, FlagsHaveRebuild, InRebuild, flagVars, RebuildPCs, Building, Deploying
  <2> QED BY <2>2, <2>3 DEF Coupling
<1>10. ASSUME NEW h \in Handlers, WaitOver(h) PROVE Coupling'
  <2>1. svc[h] \in Services
    BY <1>10 DEF WaitOver, Coupling, BusyHasService
  <2>2. svc' = [svc EXCEPT ![h] = svc[h]]
    BY <1>10 DEF WaitOver, CallTypeOK
  <2> QED BY <1>10, <2>1, <2>2, RebuildBegins DEF WaitOver, BeginRebuild
<1>11. ASSUME NEW h \in Handlers, PackContext(h) PROVE Coupling'
  BY <1>11, CallMoves DEF PackContext, flagVars, RebuildPCs, Building
<1>12. ASSUME NEW h \in Handlers, RunBuildStep(h) PROVE Coupling'
  <2>1. svc[h] \in Services
    BY <1>12 DEF RunBuildStep, Coupling, BusyHasService
  <2>2. UNCHANGED <<pc, svc, rebuildsRunning, rebuildsCancelled>>
    BY <1>12 DEF RunBuildStep, callVars
  <2>3. BusyHasService' /\ FlagsHaveRebuild'
    BY <2>2 DEF Coupling, BusyHasService, FlagsHaveRebuild, InRebuild
  <2>4. RunningIdIsBuild'
    BY <1>12, <2>1, <2>2 DEF RunBuildStep, Coupling, RunningIdIsBuild, ManagerTypeOK
  <2> QED BY <2>3, <2>4 DEF Coupling
<1>13. ASSUME NEW h \in Handlers, BuildDone(h) PROVE Coupling'
  <2>1. CASE rebuildsCancelled[svc[h]]
    BY <1>13, <2>1, RebuildReturns DEF BuildDone, BuildEnds, RebuildPCs, Building
  <2>2. CASE ~rebuildsCancelled[svc[h]]
    BY <1>13, <2>2, CallMoves DEF BuildDone, BuildEnds, RebuildPCs, Deploying
  <2> QED BY <2>1, <2>2
<1>14. ASSUME NEW h \in Handlers, BuildFails(h) PROVE Coupling'
  BY <1>14, RebuildReturns DEF BuildFails, BuildEnds, RebuildPCs
<1>15. ASSUME NEW h \in Handlers, RebuildThrows(h), pc[h] \in Deploying,
              UNCHANGED rebuildRunningIds
       PROVE  Coupling'
  BY <1>15, RebuildReturns DEF RebuildThrows, Return, RebuildPCs, Deploying
<1>16. ASSUME NEW h \in Handlers, pc[h] \in Deploying,
              \E q \in Deploying : pc' = [pc EXCEPT ![h] = q],
              UNCHANGED <<svc, flagVars>>
       PROVE  Coupling'
  BY <1>16, CallMoves DEF RebuildPCs, Deploying, flagVars
<1>17. ASSUME NEW h \in Handlers,
              \/ GetContainerId(h) \/ RemoveContainer(h) \/ RemoveFails(h)
              \/ SetTargetState(h) \/ Settle(h) \/ AttachFails(h)
       PROVE  Coupling'
  <2>1. pc[h] \in Deploying
    BY <1>17 DEF GetContainerId, RemoveContainer, RemoveFails, SetTargetState, Settle,
       AttachFails, Deploying
  <2>2. \/ RebuildThrows(h) /\ UNCHANGED rebuildRunningIds
        \/ /\ \E q \in Deploying : pc' = [pc EXCEPT ![h] = q]
           /\ UNCHANGED <<svc, flagVars>>
    BY <1>17 DEF GetContainerId, RemoveContainer, RemoveFails, SetTargetState, Settle,
       AttachFails, Deploying, flagVars
  <2> QED BY <2>1, <2>2, <1>15, <1>16
<1>18. ASSUME NEW h \in Handlers, Attach(h) PROVE Coupling'
  BY <1>18, RebuildReturns DEF Attach, Return, RebuildPCs, Deploying
<1>19. CASE UNCHANGED vars
  BY <1>19, CallsStandStill DEF vars, callVars
<1> QED
  BY <1>1, <1>2, <1>3, <1>4, <1>5, <1>6, <1>7, <1>8, <1>9, <1>10, <1>11, <1>12, <1>13,
     <1>14, <1>17, <1>18, <1>19 DEF Next, Fire, Proceed, Supervisor
-----------------------------------------------------------------------------
(* Types.  The steps of a call that do the same to a variable share a lemma. *)

\* The initial values have their types.
LEMMA TypeInit == Init => TypeOK
BY DEF Init, TypeOK, ManagerTypeOK, CallTypeOK, DeviceTypeOK, PCs, Ctx, Blank, NoContainer

\* The calls left by a removed container, or by a build that ended, are calls.
LEMMA CallsWithoutType ==
  ASSUME CallTypeOK, NEW s \in Services
  PROVE  CallsWithout(s) \in [Handlers -> Ctx]
BY DEF CallTypeOK, CallsWithout, Ctx

LEMMA CallsAfterBuildType ==
  ASSUME CallTypeOK, NEW h \in Handlers
  PROVE  /\ CallsAfterBuild(h) \in [Handlers -> Ctx]
         /\ [CallsAfterBuild(h) EXCEPT ![h] = Blank] \in [Handlers -> Ctx]
         /\ [CallsAfterBuild(h) EXCEPT ![h].context = {}] \in [Handlers -> Ctx]
<1>1. CallsAfterBuild(h) \in [Handlers -> Ctx]
  BY DEF CallTypeOK, CallsAfterBuild, Ctx
<1>2. Blank \in Ctx
  BY DEF Blank, Ctx
<1>3. \A f \in [Handlers -> Ctx] : [f EXCEPT ![h].context = {}] \in [Handlers -> Ctx]
  BY DEF Ctx
<1> QED BY <1>1, <1>2, <1>3

\* A call that returns leaves typed calls.
LEMMA ReturnType ==
  ASSUME CallTypeOK, NEW h \in Handlers, Return(h)
  PROVE  CallTypeOK'
<1>1. Blank \in Ctx
  BY DEF Blank, Ctx
<1> QED BY <1>1 DEF CallTypeOK, Return, PCs

\* A new fault of a known kind keeps the history typed.
LEMMA FaultType ==
  ASSUME DeviceTypeOK, NEW s, NEW kinds \in SUBSET FaultKinds, Fault(s, kinds)
  PROVE  faults' \in [Services -> SUBSET FaultKinds]
BY DEF DeviceTypeOK, Fault

\* A container slot without a container.
LEMMA NoContainerType == NoContainer \in [up : BOOLEAN, fresh : SUBSET Paths, env : BOOLEAN]
BY DEF NoContainer

\* Variables of the manager.
LEMMA ManagerTypeStep ==
  ASSUME TypeOK, [Next]_vars
  PROVE  ManagerTypeOK'
<1> USE DEF TypeOK, CallTypeOK, ManagerTypeOK, managerVars, flagVars, initVars
<1>1. ASSUME NEW s \in Services, NEW p \in Paths, Edit(s, p) PROVE ManagerTypeOK'
  BY <1>1 DEF Edit
<1>2. ASSUME InitSettle \/ SupervisorApplied PROVE ManagerTypeOK'
  BY <1>2 DEF InitSettle, PollStatus, SupervisorApplied
<1>3. ASSUME NEW s \in Services, InitService(s) \/ SkipLivepush(s) \/ SupervisorStarts(s)
      PROVE  ManagerTypeOK'
  BY <1>3 DEF InitService, SkipLivepush, SupervisorStarts
<1>4. ASSUME NEW s \in Services, ContainerExits(s) \/ SupervisorStops(s)
      PROVE  ManagerTypeOK'
  BY <1>4 DEF ContainerExits, SupervisorStops, ContainerGone
<1>5. ASSUME NEW h \in Handlers, NEW s \in Services, Fire(h, s) PROVE ManagerTypeOK'
  BY <1>5 DEF Fire, StartRebuild, CancelRebuild, StartLivepush, TakeEvents, BeginRebuild
<1>6. ASSUME NEW h \in Handlers, LivepushDone(h) \/ LivepushFails(h) \/ KillBuild(h)
                                 \/ CancelLivepush(h) \/ PackContext(h)
      PROVE  ManagerTypeOK'
  BY <1>6 DEF LivepushDone, LivepushFails, KillBuild, CancelLivepush, PackContext
<1>7. ASSUME NEW h \in Handlers, WaitOver(h) \/ RunBuildStep(h) PROVE ManagerTypeOK'
  BY <1>7 DEF WaitOver, BeginRebuild, RunBuildStep
<1>8. ASSUME NEW h \in Handlers, BuildDone(h) \/ BuildFails(h) PROVE ManagerTypeOK'
  <2>1. \/ EndRebuild(h)
        \/ UNCHANGED <<rebuildsRunning, rebuildsCancelled>>
    BY <1>8 DEF BuildDone, BuildFails
  <2> QED BY <1>8, <2>1 DEF BuildDone, BuildFails, BuildEnds, EndRebuild
<1>9. ASSUME NEW h \in Handlers, GetContainerId(h) \/ RemoveFails(h) \/ SetTargetState(h)
                                 \/ AttachFails(h) \/ Attach(h)
      PROVE  ManagerTypeOK'
  <2>1. EndRebuild(h) \/ UNCHANGED <<rebuildsRunning, rebuildsCancelled>>
    BY <1>9 DEF GetContainerId, RemoveFails, SetTargetState, AttachFails, Attach,
       RebuildThrows
  <2>2. /\ UNCHANGED <<updateEventsWaiting, dockerfileCurrent, rebuildRunningIds,
                       lastDeviceStatus, initState, todo>>
        /\ livepush' = livepush \/ livepush' = [livepush EXCEPT ![svc[h]] = "attached"]
    BY <1>9 DEF GetContainerId, RemoveFails, SetTargetState, AttachFails, Attach
  <2> QED BY <2>1, <2>2 DEF EndRebuild
<1>10. ASSUME NEW h \in Handlers, RemoveContainer(h) PROVE ManagerTypeOK'
  BY <1>10 DEF RemoveContainer, ContainerGone
<1>11. ASSUME NEW h \in Handlers, Settle(h) PROVE ManagerTypeOK'
  BY <1>11 DEF Settle, PollStatus, RebuildThrows, EndRebuild
<1>12. CASE UNCHANGED vars
  BY <1>12 DEF vars
<1> QED
  BY <1>1, <1>2, <1>3, <1>4, <1>5, <1>6, <1>7, <1>8, <1>9, <1>10, <1>11, <1>12
     DEF Next, Proceed, Supervisor

\* The calls in flight.
LEMMA CallTypeStep ==
  ASSUME TypeOK, [Next]_vars
  PROVE  CallTypeOK'
<1> USE DEF TypeOK, CallTypeOK, PCs, callVars
<1>1. ASSUME NEW s \in Services, NEW p \in Paths, Edit(s, p) PROVE CallTypeOK'
  <2>1. /\ UNCHANGED <<pc, svc>>
        /\ DOMAIN ctx' = Handlers
        /\ ctx' = [h \in Handlers |-> ctx'[h]]
        /\ \A h \in Handlers : \/ ctx'[h] = [ctx[h] EXCEPT !.context = @ \ {p}]
                               \/ ctx'[h] = ctx[h]
    BY <1>1 DEF Edit
  <2>2. \A h \in Handlers : [ctx[h] EXCEPT !.context = @ \ {p}] \in Ctx
    BY DEF Ctx
  <2> QED BY <2>1, <2>2
<1>2. ASSUME InitSettle \/ SupervisorApplied PROVE CallTypeOK'
  BY <1>2 DEF InitSettle, SupervisorApplied
<1>3. ASSUME NEW s \in Services, InitService(s) \/ SkipLivepush(s) \/ SupervisorStarts(s)
      PROVE  CallTypeOK'
  BY <1>3 DEF InitService, SkipLivepush, SupervisorStarts
<1>4. ASSUME NEW s \in Services, ContainerExits(s) \/ SupervisorStops(s)
      PROVE  CallTypeOK'
  BY <1>4, CallsWithoutType DEF ContainerExits, SupervisorStops
<1>5. ASSUME NEW h \in Handlers, NEW s \in Services, StartRebuild(h, s) \/ StartLivepush(h, s)
      PROVE  CallTypeOK'
  <2>1. [Blank EXCEPT !.context = Paths] \in Ctx
    BY DEF Blank, Ctx
  <2>2. [Blank EXCEPT !.updated = updateEventsWaiting[s],
                      !.live = livepush[s] = "attached"] \in Ctx
    BY DEF Blank, Ctx, ManagerTypeOK
  <2> QED
    BY <1>5, <2>1, <2>2 DEF StartRebuild, StartLivepush, TakeEvents, BeginRebuild,
       RebuildPCs, Building
<1>6. ASSUME NEW h \in Handlers, NEW s \in Services, CancelRebuild(h, s) PROVE CallTypeOK'
  <2>1. [Blank EXCEPT !.victim = rebuildRunningIds[s]] \in Ctx
    BY DEF Blank, Ctx, ManagerTypeOK
  <2>2. \A g \in Handlers : [ctx[g] EXCEPT !.superseded = TRUE] \in Ctx
    BY DEF Ctx
  <2>3. ctx' \in [Handlers -> Ctx]
    BY <1>6, <2>1, <2>2 DEF CancelRebuild
  <2> QED BY <1>6, <2>3 DEF CancelRebuild
<1>7. ASSUME NEW h \in Handlers, LivepushDone(h) \/ LivepushFails(h) \/ Attach(h)
                                 \/ RemoveFails(h) \/ AttachFails(h)
      PROVE  CallTypeOK'
  BY <1>7, ReturnType DEF LivepushDone, LivepushFails, Attach, RemoveFails, AttachFails,
     RebuildThrows
<1>8. ASSUME NEW h \in Handlers, KillBuild(h) PROVE CallTypeOK'
  <2>1. \A g \in Handlers : /\ [ctx[g] EXCEPT !.victim = None] \in Ctx
                            /\ [ctx[g] EXCEPT !.killed = TRUE] \in Ctx
    BY DEF Ctx
  <2>2. ctx' \in [Handlers -> Ctx]
    BY <1>8, <2>1 DEF KillBuild
  <2> QED BY <1>8, <2>2 DEF KillBuild
<1>9. ASSUME NEW h \in Handlers, CancelLivepush(h) PROVE CallTypeOK'
  BY <1>9 DEF CancelLivepush, Blank, Ctx
<1>10. ASSUME NEW h \in Handlers, WaitOver(h) PROVE CallTypeOK'
  BY <1>10 DEF WaitOver, BeginRebuild, RebuildPCs, Building, Ctx
<1>11. ASSUME NEW h \in Handlers, PackContext(h) \/ RunBuildStep(h) PROVE CallTypeOK'
  BY <1>11 DEF PackContext, RunBuildStep, RebuildPCs, Building
<1>12. ASSUME NEW h \in Handlers, BuildDone(h) \/ BuildFails(h) PROVE CallTypeOK'
  <2>1. ctx' \in {[CallsAfterBuild(h) EXCEPT ![h].context = {}],
                 [CallsAfterBuild(h) EXCEPT ![h] = Blank]}
    BY <1>12 DEF BuildDone, BuildFails
  <2>2. ctx' \in [Handlers -> Ctx]
    BY <2>1, CallsAfterBuildType
  <2> QED BY <1>12, <2>2 DEF BuildDone, BuildFails, RebuildPCs, Deploying
<1>13. ASSUME NEW h \in Handlers, GetContainerId(h) \/ SetTargetState(h) \/ Settle(h)
       PROVE  CallTypeOK'
  <2>1. \A b \in BOOLEAN : [ctx EXCEPT ![h].live = b] \in [Handlers -> Ctx]
    BY DEF Ctx
  <2>2. \/ Return(h)
        \/ /\ \E q \in Deploying : pc' = [pc EXCEPT ![h] = q]
           /\ UNCHANGED svc
           /\ \/ UNCHANGED ctx
              \/ \E b \in BOOLEAN : ctx' = [ctx EXCEPT ![h].live = b]
    BY <1>13 DEF GetContainerId, SetTargetState, Settle, RebuildThrows, Deploying
  <2>3. CASE Return(h)
    BY <2>3, ReturnType
  <2>4. CASE ~Return(h)
    <3>1. ctx' \in [Handlers -> Ctx]
      BY <2>1, <2>2, <2>4
    <3> QED BY <2>2, <2>4, <3>1 DEF RebuildPCs
  <2> QED BY <2>3, <2>4
<1>14. ASSUME NEW h \in Handlers, RemoveContainer(h) PROVE CallTypeOK'
  <2>1. ctx' = [g \in Handlers |->
                  IF svc[g] = svc[h] THEN [ctx[g] EXCEPT !.live = FALSE] ELSE ctx[g]]
    BY <1>14 DEF RemoveContainer, CallsWithout
  <2>2. \A g \in Handlers : [ctx[g] EXCEPT !.live = FALSE] \in Ctx
    BY DEF Ctx
  <2> QED BY <1>14, <2>1, <2>2 DEF RemoveContainer, RebuildPCs, Deploying
<1>15. CASE UNCHANGED vars
  BY <1>15 DEF vars
<1> QED
  BY <1>1, <1>2, <1>3, <1>4, <1>5, <1>6, <1>7, <1>8, <1>9, <1>10, <1>11, <1>12, <1>13,
     <1>14, <1>15 DEF Next, Fire, Proceed, Supervisor
\* The device, and the history.
LEMMA DeviceTypeStep ==
  ASSUME TypeOK, [Next]_vars
  PROVE  DeviceTypeOK'
<1> USE DEF TypeOK, DeviceTypeOK, deviceVars
<1>1. ASSUME NEW s \in Services, NEW p \in Paths, Edit(s, p) PROVE DeviceTypeOK'
  <2>1. /\ ctr' = [ctr EXCEPT ![s].fresh = @ \ {p}]
        /\ image' = [image EXCEPT ![s] = @ \ {p}]
        /\ UNCHANGED <<targetEnv, applying>>
    BY <1>1 DEF Edit
  <2>2. faults' \in [Services -> SUBSET FaultKinds]
    BY <1>1, FaultType DEF Edit, FaultKinds
  <2> QED BY <2>1, <2>2
<1>2. ASSUME InitSettle \/ SupervisorApplied PROVE DeviceTypeOK'
  BY <1>2 DEF InitSettle, SupervisorApplied
<1>3. ASSUME NEW s \in Services, InitService(s) \/ SkipLivepush(s) PROVE DeviceTypeOK'
  BY <1>3, FaultType DEF InitService, SkipLivepush, FaultKinds
<1>4. ASSUME NEW s \in Services, SupervisorStarts(s) PROVE DeviceTypeOK'
  BY <1>4 DEF SupervisorStarts, EnvOf
<1>5. ASSUME NEW s \in Services, ContainerExits(s) \/ SupervisorStops(s)
      PROVE  DeviceTypeOK'
  <2>1. faults' \in [Services -> SUBSET FaultKinds]
    BY <1>5, FaultType DEF ContainerExits, SupervisorStops, FaultKinds
  <2>2. ctr' = [ctr EXCEPT ![s] = NoContainer] /\ UNCHANGED <<image, targetEnv, applying>>
    BY <1>5 DEF ContainerExits, SupervisorStops, ContainerGone
  <2> QED BY <2>1, <2>2, NoContainerType
<1>6. ASSUME NEW h \in Handlers, NEW s \in Services, Fire(h, s) PROVE DeviceTypeOK'
  BY <1>6, FaultType DEF Fire, StartRebuild, CancelRebuild, StartLivepush, BeginRebuild, FaultKinds
<1>7. ASSUME NEW h \in Handlers, LivepushDone(h) PROVE DeviceTypeOK'
  <2>1. faults' \in [Services -> SUBSET FaultKinds]
    BY <1>7, FaultType DEF LivepushDone, FaultKinds
  <2>2. ctx[h].updated \subseteq Paths
    BY DEF CallTypeOK, Ctx
  <2>3. /\ ctr' = [ctr EXCEPT ![svc[h]].fresh = @ \cup ctx[h].updated]
        /\ UNCHANGED <<image, targetEnv, applying>>
    BY <1>7 DEF LivepushDone
  <2> QED BY <2>1, <2>2, <2>3
<1>8. ASSUME NEW h \in Handlers, \/ LivepushFails(h) \/ KillBuild(h) \/ CancelLivepush(h)
                                 \/ PackContext(h) \/ RunBuildStep(h) \/ Attach(h)
                                 \/ WaitOver(h)
      PROVE  DeviceTypeOK'
  BY <1>8, FaultType DEF LivepushFails, KillBuild, CancelLivepush, PackContext, RunBuildStep,
     Attach, WaitOver, BeginRebuild, FaultKinds
<1>9. ASSUME NEW h \in Handlers, BuildDone(h) \/ BuildFails(h) PROVE DeviceTypeOK'
  <2>1. ctx[h].context \subseteq Paths
    BY DEF CallTypeOK, Ctx
  <2>2. faults' \in [Services -> SUBSET FaultKinds]
    BY <1>9, FaultType DEF BuildDone, BuildFails, FaultKinds
  <2> QED BY <1>9, <2>1, <2>2 DEF BuildDone, BuildFails
<1>10. ASSUME NEW h \in Handlers, \/ GetContainerId(h) \/ RemoveFails(h) \/ SetTargetState(h)
                                  \/ Settle(h) \/ AttachFails(h) \/ RemoveContainer(h)
       PROVE  DeviceTypeOK'
  <2>1. faults' \in [Services -> SUBSET FaultKinds]
    BY <1>10, FaultType DEF GetContainerId, RemoveFails, SetTargetState, Settle, AttachFails,
       RemoveContainer, RebuildThrows, FaultKinds
  <2>2. UNCHANGED image /\ targetEnv' \in BOOLEAN /\ applying' \in BOOLEAN
    BY <1>10 DEF GetContainerId, RemoveFails, SetTargetState, Settle, AttachFails, RemoveContainer
  <2>3. UNCHANGED ctr \/ ctr' = [ctr EXCEPT ![svc[h]] = NoContainer]
    BY <1>10 DEF GetContainerId, RemoveFails, SetTargetState, Settle, AttachFails,
       RemoveContainer, ContainerGone
  <2> QED BY <2>1, <2>2, <2>3, NoContainerType
<1>11. CASE UNCHANGED vars
  BY <1>11 DEF vars
<1> QED
  BY <1>1, <1>2, <1>3, <1>4, <1>5, <1>6, <1>7, <1>8, <1>9, <1>10, <1>11
     DEF Next, Proceed, Supervisor

-----------------------------------------------------------------------------
(* The theorems *)

\* Type correctness of the live session.
THEOREM LivepushTypeCorrect == Spec => []TypeOK
<1>1. TypeOK /\ [Next]_vars => TypeOK'
  BY ManagerTypeStep, CallTypeStep, DeviceTypeStep DEF TypeOK
<1> QED BY TypeInit, <1>1, PTL DEF Spec

\* The inductive invariant: the maps of the manager are coupled to the calls.
THEOREM LivepushInductive == Spec => []IInv
<1>1. Init => IInv
  BY LivepushAssumption, TypeInit, CouplingInit DEF IInv
<1>2. IInv /\ [Next]_vars => IInv'
  BY LivepushAssumption, ManagerTypeStep, CallTypeStep, DeviceTypeStep, CouplingStep
     DEF IInv, TypeOK
<1> QED BY <1>1, <1>2, PTL DEF Spec

\* A request waiting in the poll of handleServiceRebuild always has a rebuild
\* in progress that will reset the flag it polls.
THEOREM WaitHasRebuild == Spec => []FlagsHaveRebuild
<1>1. IInv => FlagsHaveRebuild
  BY DEF IInv, Coupling
<1> QED BY LivepushInductive, <1>1, PTL

\* The container that cancelRebuild removes is one of a build in progress.
THEOREM CancelAimsAtBuild == Spec => []RunningIdIsBuild
<1>1. IInv => RunningIdIsBuild
  BY DEF IInv, Coupling
<1> QED BY LivepushInductive, <1>1, PTL

-----------------------------------------------------------------------------
(* What a held id, a flag and a fault say of the containers and the calls *)

\* A container id that a call, the livepush instance or the last status holds
\* names the running container: whatever removes it takes it from all of them.
LiveIsUp ==
    \A h \in Handlers, s \in Services : svc[h] = s /\ ctx[h].live => ctr[s].up

AttachedIsUp ==
    \A s \in Services :
        livepush[s] = "attached" \/ lastDeviceStatus[s] = "current" => ctr[s].up

HeldIdsAreUp == LiveIsUp /\ AttachedIsUp

\* Calls of handleFSEvents for a Dockerfile that have still to rebuild.
Waiting == {"kill", "cancelLivepush", "wait"}

\* Two rebuilds of a service run at a time only after an "overlap" was noted.
OneRebuild ==
    \A s \in Services : "overlap" \notin faults[s] =>
        \A g, h \in Handlers : InRebuild(g, s) /\ InRebuild(h, s) => g = h

\* A rebuild is cancelled by a call that is going to rebuild.
CancelHasRequest ==
    \A s \in Services : rebuildsCancelled[s] =>
        \E h \in Handlers : svc[h] = s /\ pc[h] \in Waiting

\* A superseded rebuild is to find its flag, unless an overlapping one reset it.
SupersededIsCancelled ==
    \A h \in Handlers : ctx[h].superseded =>
        /\ svc[h] \in Services
        /\ \/ "overlap" \in faults[svc[h]]
           \/ pc[h] \in Building /\ rebuildsCancelled[svc[h]]

Cancelling == OneRebuild /\ CancelHasRequest /\ SupersededIsCancelled

\* The end of a build takes from the other calls nothing but their victim;
\* its own call returns, or its context has become the image.
LEMMA BuildReturnsCalls ==
  ASSUME CallTypeOK, NEW h \in Handlers, ctx' = [CallsAfterBuild(h) EXCEPT ![h] = Blank]
  PROVE  /\ ctx'[h] = Blank
         /\ \A g \in Handlers \ {h} :
               /\ ctx'[g].live = ctx[g].live /\ ctx'[g].superseded = ctx[g].superseded
               /\ ctx'[g].context = ctx[g].context /\ ctx'[g].updated = ctx[g].updated
<1>1. ctx'[h] = Blank /\ \A g \in Handlers \ {h} : ctx'[g] = CallsAfterBuild(h)[g]
  BY DEF CallsAfterBuild
<1> QED BY <1>1 DEF CallTypeOK, CallsAfterBuild, Ctx

\* The call of a build that deploys stays, without its context.
LEMMA BuildDeploysCalls ==
  ASSUME CallTypeOK, NEW h \in Handlers,
         ctx' = [CallsAfterBuild(h) EXCEPT ![h].context = {}]
  PROVE  \A g \in Handlers :
            /\ ctx'[g].live = ctx[g].live /\ ctx'[g].superseded = ctx[g].superseded
            /\ ctx'[g].updated = ctx[g].updated
            /\ ctx'[g].context = IF g = h THEN {} ELSE ctx[g].context
<1>1. \A g \in Handlers : ctx'[g] = IF g = h THEN [CallsAfterBuild(h)[h] EXCEPT !.context = {}]
                                           ELSE CallsAfterBuild(h)[g]
  BY DEF CallsAfterBuild
<1> QED BY <1>1 DEF CallTypeOK, CallsAfterBuild, Ctx

\* Ids held in a step that removes the container of s are dropped.
LEMMA GoneDropsIds ==
  ASSUME TypeOK, HeldIdsAreUp, NEW s \in Services, ContainerGone(s), ctx' = CallsWithout(s),
         UNCHANGED svc
  PROVE  HeldIdsAreUp'
<1> USE DEF TypeOK, ManagerTypeOK, CallTypeOK, DeviceTypeOK, HeldIdsAreUp, Ctx
<1>1. LiveIsUp'
  BY DEF ContainerGone, CallsWithout, LiveIsUp, NoContainer
<1>2. AttachedIsUp'
  BY DEF ContainerGone, AttachedIsUp, NoContainer
<1> QED BY <1>1, <1>2

\* A call returns, or moves on with the id it has.
LEMMA CallKeepsId ==
  ASSUME TypeOK, HeldIdsAreUp, UNCHANGED <<ctr, livepush, lastDeviceStatus>>,
         \A g \in Handlers : ctx'[g].live => ctx[g].live /\ svc'[g] = svc[g]
  PROVE  HeldIdsAreUp'
BY DEF HeldIdsAreUp, LiveIsUp, AttachedIsUp

\* No step leaves an id that names a container which is gone.
LEMMA HeldIdsStep ==
  ASSUME LivepushAssumption, TypeOK, HeldIdsAreUp, [Next]_vars
  PROVE  HeldIdsAreUp'
<1> USE DEF TypeOK, ManagerTypeOK, CallTypeOK, DeviceTypeOK, Ctx
<1>1. ASSUME NEW s \in Services, NEW p \in Paths, Edit(s, p) PROVE HeldIdsAreUp'
  <2>1. /\ UNCHANGED <<svc, livepush, lastDeviceStatus>>
        /\ \A h \in Handlers : ctx'[h].live = ctx[h].live
        /\ \A t \in Services : ctr'[t].up = ctr[t].up
    BY <1>1 DEF Edit
  <2> QED BY <2>1 DEF HeldIdsAreUp, LiveIsUp, AttachedIsUp
<1>2. CASE InitSettle
  BY <1>2 DEF InitSettle, PollStatus, HeldIdsAreUp, LiveIsUp, AttachedIsUp, managerVars, callVars,
     deviceVars
<1>3. ASSUME NEW s \in Services, InitService(s) PROVE HeldIdsAreUp'
  BY <1>3 DEF InitService, HeldIdsAreUp, LiveIsUp, AttachedIsUp, callVars, deviceVars
<1>4. ASSUME NEW s \in Services, ContainerExits(s) \/ SupervisorStops(s) PROVE HeldIdsAreUp'
  BY <1>4, GoneDropsIds DEF ContainerExits, SupervisorStops
<1>5. ASSUME NEW s \in Services, SupervisorStarts(s) PROVE HeldIdsAreUp'
  BY <1>5 DEF SupervisorStarts, HeldIdsAreUp, LiveIsUp, AttachedIsUp, managerVars, callVars
<1>6. ASSUME NEW h \in Handlers, NEW s \in Services, StartLivepush(h, s) PROVE HeldIdsAreUp'
  <2>1. /\ UNCHANGED <<ctr, livepush, lastDeviceStatus>>
        /\ ctx'[h].live = (livepush[s] = "attached")
        /\ svc'[h] = s
        /\ \A g \in Handlers \ {h} : ctx'[g].live = ctx[g].live /\ svc'[g] = svc[g]
    BY <1>6 DEF StartLivepush, TakeEvents, Blank, deviceVars
  <2> QED BY <2>1 DEF HeldIdsAreUp, LiveIsUp, AttachedIsUp
<1>7. ASSUME NEW h \in Handlers, NEW s \in Services, StartRebuild(h, s) \/ CancelRebuild(h, s)
      PROVE  HeldIdsAreUp'
  <2>1. /\ UNCHANGED <<ctr, livepush, lastDeviceStatus>>
        /\ \A g \in Handlers : ctx'[g].live => ctx[g].live /\ svc'[g] = svc[g]
    <3>1. CASE StartRebuild(h, s)
      BY <3>1 DEF StartRebuild, TakeEvents, Blank, deviceVars
    <3>2. CASE CancelRebuild(h, s)
      BY <3>2 DEF CancelRebuild, Blank, deviceVars
    <3> QED BY <1>7, <3>1, <3>2
  <2> QED BY <2>1, CallKeepsId
<1>8. ASSUME NEW h \in Handlers, LivepushDone(h) PROVE HeldIdsAreUp'
  <2>1. /\ UNCHANGED <<livepush, lastDeviceStatus>>
        /\ \A g \in Handlers : ctx'[g].live => ctx[g].live /\ svc'[g] = svc[g]
        /\ \A t \in Services : ctr'[t].up = ctr[t].up
    BY <1>8 DEF LivepushDone, Return, Blank, managerVars
  <2> QED BY <2>1 DEF HeldIdsAreUp, LiveIsUp, AttachedIsUp
<1>9. ASSUME NEW h \in Handlers, RebuildThrows(h), UNCHANGED <<ctr, livepush, lastDeviceStatus>>
      PROVE  HeldIdsAreUp'
  <2>1. \A g \in Handlers : ctx'[g].live => ctx[g].live /\ svc'[g] = svc[g]
    BY <1>9 DEF RebuildThrows, Return, Blank
  <2> QED BY <1>9, <2>1, CallKeepsId
<1>10. ASSUME NEW h \in Handlers,
              LivepushFails(h) \/ KillBuild(h) \/ CancelLivepush(h) \/ WaitOver(h)
       PROVE  HeldIdsAreUp'
  <2>1. /\ UNCHANGED <<ctr, livepush, lastDeviceStatus>>
        /\ \A g \in Handlers : ctx'[g].live => ctx[g].live /\ svc'[g] = svc[g]
    <3> USE DEF managerVars, deviceVars
    <3>1. CASE LivepushFails(h)
      BY <3>1 DEF LivepushFails, Return, Blank
    <3>2. CASE KillBuild(h)
      <4>1. \/ ctx' = [ctx EXCEPT ![h].victim = None]
            \/ ctx' = [g \in Handlers |->
                         IF g = h THEN [ctx[g] EXCEPT !.victim = None]
                         ELSE IF g = ctx[h].victim THEN [ctx[g] EXCEPT !.killed = TRUE]
                         ELSE ctx[g]]
        BY <3>2 DEF KillBuild
      <4>2. \A g \in Handlers : ctx'[g].live = ctx[g].live
        <5>1. \A g \in Handlers : /\ [ctx[g] EXCEPT !.victim = None].live = ctx[g].live
                                  /\ [ctx[g] EXCEPT !.killed = TRUE].live = ctx[g].live
          OBVIOUS
        <5>2. ctx \in [Handlers -> Ctx]
          OBVIOUS
        <5> HIDE DEF Ctx, TypeOK
        <5>3. CASE ctx' = [ctx EXCEPT ![h].victim = None]
          BY <5>1, <5>2, <5>3
        <5>4. CASE ctx' # [ctx EXCEPT ![h].victim = None]
          BY <4>1, <5>1, <5>4
        <5> QED BY <5>3, <5>4
      <4> QED BY <3>2, <4>2 DEF KillBuild
    <3>3. CASE CancelLivepush(h)
      BY <3>3 DEF CancelLivepush, Blank
    <3>4. CASE WaitOver(h)
      BY <3>4 DEF WaitOver
    <3> QED BY <1>10, <3>1, <3>2, <3>3, <3>4
  <2> QED BY <2>1, CallKeepsId
<1>11. ASSUME NEW h \in Handlers,
              \/ PackContext(h) \/ RunBuildStep(h) \/ BuildDone(h) \/ BuildFails(h)
       PROVE  HeldIdsAreUp'
  <2>1. /\ UNCHANGED <<ctr, livepush, lastDeviceStatus>>
        /\ \A g \in Handlers : ctx'[g].live => ctx[g].live /\ svc'[g] = svc[g]
    <3> USE DEF managerVars, callVars, deviceVars
    <3>1. CASE PackContext(h) \/ RunBuildStep(h)
      BY <3>1 DEF PackContext, RunBuildStep
    <3>2. CASE BuildDone(h) \/ BuildFails(h)
      <4>1. /\ UNCHANGED <<ctr, livepush, lastDeviceStatus>>
            /\ \A g \in Handlers \ {h} : svc'[g] = svc[g]
        BY <3>2 DEF BuildDone, BuildFails, BuildEnds
      <4>2. CASE ctx' = [CallsAfterBuild(h) EXCEPT ![h] = Blank]
        <5>1. ctx'[h] = Blank /\ \A g \in Handlers \ {h} : ctx'[g].live = ctx[g].live
          BY <4>2, BuildReturnsCalls
        <5> QED BY <4>1, <5>1 DEF Blank
      <4>3. CASE ctx' = [CallsAfterBuild(h) EXCEPT ![h].context = {}] /\ UNCHANGED svc
        BY <4>1, <4>3, BuildDeploysCalls
      <4> QED BY <3>2, <4>2, <4>3 DEF BuildDone, BuildFails
    <3> QED BY <1>11, <3>1, <3>2
  <2> QED BY <2>1, CallKeepsId
<1>12. ASSUME NEW h \in Handlers, GetContainerId(h) PROVE HeldIdsAreUp'
  BY <1>12, <1>9 DEF GetContainerId, HeldIdsAreUp, LiveIsUp, AttachedIsUp, managerVars, deviceVars
<1>13. ASSUME NEW h \in Handlers, RemoveContainer(h) PROVE HeldIdsAreUp'
  <2>1. CASE svc[h] \in Services
    BY <1>13, <2>1, GoneDropsIds DEF RemoveContainer
  <2>2. CASE svc[h] \notin Services
    BY <1>13, <2>2 DEF RemoveContainer, ContainerGone, CallsWithout, HeldIdsAreUp, LiveIsUp,
       AttachedIsUp
  <2> QED BY <2>1, <2>2
<1>14. ASSUME NEW h \in Handlers, RemoveFails(h) \/ AttachFails(h) PROVE HeldIdsAreUp'
  BY <1>14, <1>9 DEF RemoveFails, AttachFails, managerVars, deviceVars
<1>15. ASSUME NEW h \in Handlers, SetTargetState(h) PROVE HeldIdsAreUp'
  BY <1>15, <1>9, CallKeepsId DEF SetTargetState, managerVars
<1>16. ASSUME NEW h \in Handlers, Settle(h) PROVE HeldIdsAreUp'
  <2>1. /\ UNCHANGED <<ctr, livepush>>
        /\ \A s \in Services : lastDeviceStatus'[s] = "current" => ctr[s].up
    <3>1. UNCHANGED <<ctr, livepush>> /\ (PollStatus \/ UNCHANGED lastDeviceStatus)
      BY <1>16 DEF Settle, managerVars, deviceVars
    <3> QED BY <3>1 DEF PollStatus, HeldIdsAreUp, AttachedIsUp
  <2>2. \A g \in Handlers : ctx'[g].live => 
           /\ svc'[g] = svc[g]
           /\ ctx[g].live \/ ctr[svc[g]].up
    BY <1>16 DEF Settle, RebuildThrows, Return, Blank
  <2> QED BY <2>1, <2>2 DEF HeldIdsAreUp, LiveIsUp, AttachedIsUp
<1>17. ASSUME NEW h \in Handlers, Attach(h) PROVE HeldIdsAreUp'
  <2>1. /\ UNCHANGED <<ctr, lastDeviceStatus>>
        /\ \A g \in Handlers : ctx'[g].live => ctx[g].live /\ svc'[g] = svc[g]
        /\ \A s \in Services : livepush'[s] # livepush[s] => s = svc[h] /\ ctx[h].live
    BY <1>17 DEF Attach, Return, Blank, deviceVars
  <2> QED BY <2>1 DEF HeldIdsAreUp, LiveIsUp, AttachedIsUp
<1>18. CASE UNCHANGED vars
  BY <1>18 DEF vars, managerVars, callVars, deviceVars, HeldIdsAreUp, LiveIsUp, AttachedIsUp
<1>19. CASE SupervisorApplied \/ \E s \in Services : SkipLivepush(s)
  BY <1>19, CallKeepsId DEF SupervisorApplied, SkipLivepush, managerVars, callVars, deviceVars
<1> QED
  BY <1>1, <1>2, <1>3, <1>4, <1>5, <1>6, <1>7, <1>8, <1>10, <1>11, <1>12, <1>13, <1>14,
     <1>15, <1>16, <1>17, <1>18, <1>19 DEF Next, Fire, Proceed, Supervisor

-----------------------------------------------------------------------------
(* Cancelling a rebuild *)

\* Faults are a history: none is ever taken back.
LEMMA FaultGrows ==
  ASSUME DeviceTypeOK, NEW s, NEW kinds, Fault(s, kinds)
  PROVE  \A t \in Services : faults[t] \subseteq faults'[t]
BY DEF DeviceTypeOK, Fault

\* No step takes a fault back.
LEMMA FaultsGrow ==
  ASSUME TypeOK, [Next]_vars
  PROVE  \A s \in Services : faults[s] \subseteq faults'[s]
<1> USE DEF TypeOK
<1> DEFINE Adds == UNCHANGED faults \/ \E s : \E kinds \in SUBSET FaultKinds : Fault(s, kinds)
<1>1. Adds
  <2>1. ASSUME NEW h \in Handlers, Proceed(h) PROVE Adds
    <3> USE DEF deviceVars, FaultKinds
    <3>1. CASE LivepushDone(h) \/ LivepushFails(h) \/ KillBuild(h) \/ CancelLivepush(h)
      BY <3>1 DEF LivepushDone, LivepushFails, KillBuild, CancelLivepush
    <3>2. CASE WaitOver(h) \/ PackContext(h) \/ BuildDone(h) \/ BuildFails(h)
      BY <3>2 DEF WaitOver, BeginRebuild, PackContext, BuildDone, BuildFails
    <3>3. CASE \/ GetContainerId(h) \/ RemoveContainer(h) \/ RemoveFails(h)
               \/ SetTargetState(h) \/ Settle(h) \/ Attach(h) \/ AttachFails(h)
      BY <3>3 DEF GetContainerId, RemoveContainer, RemoveFails, SetTargetState, Settle,
         Attach, AttachFails, RebuildThrows
    <3> QED BY <2>1, <3>1, <3>2, <3>3 DEF Proceed
  <2>2. ASSUME NEW h \in Handlers, NEW s \in Services, Fire(h, s) PROVE Adds
    BY <2>2 DEF Fire, StartRebuild, CancelRebuild, StartLivepush, BeginRebuild, FaultKinds
  <2>3. ASSUME NEW s \in Services, NEW p \in Paths, Edit(s, p) PROVE Adds
    BY <2>3 DEF Edit, FaultKinds
  <2>4. ASSUME NEW s \in Services, \/ InitService(s) \/ SkipLivepush(s) \/ ContainerExits(s)
                                   \/ SupervisorStarts(s) \/ SupervisorStops(s)
        PROVE  Adds
    BY <2>4 DEF InitService, SkipLivepush, ContainerExits, SupervisorStarts, SupervisorStops,
       FaultKinds
  <2>5. ASSUME InitSettle \/ SupervisorApplied \/ UNCHANGED vars PROVE UNCHANGED faults
    BY <2>5 DEF InitSettle, SupervisorApplied, vars
  <2>6. ASSUME NEW h \in Handlers, RunBuildStep(h) PROVE UNCHANGED faults
    BY <2>6 DEF RunBuildStep
  <2> QED BY <2>1, <2>2, <2>3, <2>4, <2>5, <2>6 DEF Next, Supervisor
<1> QED BY <1>1, FaultGrows

\* Steps that neither start nor cancel a rebuild.
LEMMA CancellingKept ==
  ASSUME CallTypeOK, Cancelling, \A s \in Services : faults[s] \subseteq faults'[s],
         \A g \in Handlers, s \in Services : InRebuild(g, s)' => InRebuild(g, s),
         \A s \in Services : rebuildsCancelled'[s] => rebuildsCancelled[s],
         \A g \in Handlers : pc[g] \in Waiting => pc'[g] \in Waiting /\ svc'[g] = svc[g],
         \A g \in Handlers : ctx'[g].superseded =>
            /\ ctx[g].superseded /\ svc'[g] = svc[g]
            /\ pc[g] \in Building /\ rebuildsCancelled[svc[g]] =>
                  \/ "overlap" \in faults[svc[g]]
                  \/ pc'[g] \in Building /\ rebuildsCancelled'[svc[g]]
  PROVE  Cancelling'
<1>1. OneRebuild'
  BY DEF Cancelling, OneRebuild
<1>2. CancelHasRequest'
  BY DEF Cancelling, CancelHasRequest
<1>3. SupersededIsCancelled'
  BY DEF Cancelling, SupersededIsCancelled
<1> QED BY <1>1, <1>2, <1>3 DEF Cancelling

\* A rebuild that returns resets the flag of its service: another one that
\* was superseded overlapped with it.
LEMMA CancellingEnds ==
  ASSUME LivepushAssumption, TypeOK, Coupling, Cancelling,
         \A s \in Services : faults[s] \subseteq faults'[s],
         NEW h \in Handlers, pc[h] \in RebuildPCs,
         pc' = [pc EXCEPT ![h] = "idle"], svc' = [svc EXCEPT ![h] = None], EndRebuild(h),
         ctx'[h] = Blank,
         \A g \in Handlers \ {h} : ctx'[g].superseded = ctx[g].superseded
  PROVE  Cancelling'
<1> USE DEF TypeOK, CallTypeOK, ManagerTypeOK
<1>1. svc[h] \in Services
  BY DEF Coupling, BusyHasService, RebuildPCs, Building, Deploying
<1>2. \A g \in Handlers, s \in Services : InRebuild(g, s)' => InRebuild(g, s)
  BY DEF InRebuild
<1>3. \A s \in Services : rebuildsCancelled'[s] => rebuildsCancelled[s]
  BY DEF EndRebuild
<1>4. \A g \in Handlers : pc[g] \in Waiting => pc'[g] \in Waiting /\ svc'[g] = svc[g]
  BY DEF Waiting, RebuildPCs, Building, Deploying
<1>5. ASSUME NEW g \in Handlers, ctx'[g].superseded
      PROVE  /\ ctx[g].superseded /\ svc'[g] = svc[g]
             /\ pc[g] \in Building /\ rebuildsCancelled[svc[g]] =>
                   \/ "overlap" \in faults[svc[g]]
                   \/ pc'[g] \in Building /\ rebuildsCancelled'[svc[g]]
  <2>1. g # h
    BY <1>5 DEF Blank
  <2>2. /\ ctx[g].superseded /\ svc'[g] = svc[g] /\ pc'[g] = pc[g]
        /\ svc[g] # svc[h] => rebuildsCancelled'[svc[g]] = rebuildsCancelled[svc[g]]
    BY <1>5, <2>1 DEF EndRebuild, Cancelling, SupersededIsCancelled
  <2>3. svc[g] = svc[h] /\ pc[g] \in Building => "overlap" \in faults[svc[g]]
    BY <1>1, <2>1 DEF Cancelling, OneRebuild, InRebuild, RebuildPCs
  <2> QED BY <2>2, <2>3
<1> QED BY <1>2, <1>3, <1>4, <1>5, CancellingKept

\* A rebuild returns through its "finally", and no other call is touched.
LEMMA CancellingThrows ==
  ASSUME LivepushAssumption, TypeOK, Coupling, Cancelling,
         \A s \in Services : faults[s] \subseteq faults'[s],
         NEW h \in Handlers, pc[h] \in RebuildPCs, Return(h), EndRebuild(h)
  PROVE  Cancelling'
<1>1. ctx'[h] = Blank /\ \A g \in Handlers \ {h} : ctx'[g] = ctx[g]
  BY DEF Return, TypeOK, CallTypeOK
<1> QED BY <1>1, CancellingEnds DEF Return

\* A rebuild begins, by a new call or by one that waited.
LEMMA CancellingBegins ==
  ASSUME TypeOK, Cancelling, NEW h \in Handlers, NEW s \in Services,
         pc[h] \in {"idle", "wait"}, pc[h] = "wait" => svc[h] = s /\ ~rebuildsCancelled[s],
         svc' = [svc EXCEPT ![h] = s], UNCHANGED rebuildsCancelled,
         BeginRebuild(h, s), 
         \A g \in Handlers : ctx'[g].superseded => ctx[g].superseded /\ svc'[g] = svc[g]
  PROVE  Cancelling'
<1> USE DEF TypeOK, CallTypeOK, ManagerTypeOK, DeviceTypeOK
<1>0. \A t \in Services : faults[t] \subseteq faults'[t]
  BY FaultGrows DEF BeginRebuild
<1>1. OneRebuild'
  <2> SUFFICES ASSUME NEW t \in Services, "overlap" \notin faults'[t],
                      NEW f \in Handlers, NEW g \in Handlers,
                      InRebuild(f, t)', InRebuild(g, t)'
               PROVE  f = g
    BY DEF OneRebuild
  <2>1. \A k \in Handlers \ {h} : InRebuild(k, t)' <=> InRebuild(k, t)
    BY DEF BeginRebuild, InRebuild
  <2>2. CASE t = s
    <3>1. \A k \in Handlers \ {h} : ~InRebuild(k, s)
      BY <2>2 DEF BeginRebuild, Fault
    <3> QED BY <2>1, <2>2, <3>1
  <2>3. CASE t # s
    <3>1. ~InRebuild(h, t)'
      BY <2>3 DEF InRebuild
    <3> QED BY <1>0, <2>1, <3>1 DEF Cancelling, OneRebuild
  <2> QED BY <2>2, <2>3
<1>2. CancelHasRequest'
  BY DEF Cancelling, CancelHasRequest, BeginRebuild, Waiting
<1>3. SupersededIsCancelled'
  BY <1>0 DEF Cancelling, SupersededIsCancelled, BeginRebuild, Building
<1> QED BY <1>1, <1>2, <1>3 DEF Cancelling

\* Every step keeps overlapping rebuilds noted, and cancelled ones flagged.
LEMMA CancellingStep ==
  ASSUME LivepushAssumption, TypeOK, Coupling, Cancelling, [Next]_vars
  PROVE  Cancelling'
<1> USE FaultsGrow DEF TypeOK, CallTypeOK, PCs
<1> DEFINE SameSuperseded == \A g \in Handlers : ctx'[g].superseded = ctx[g].superseded
<1>1. ASSUME UNCHANGED <<pc, svc, rebuildsCancelled>>, SameSuperseded PROVE Cancelling'
  BY <1>1, CancellingKept DEF InRebuild
<1>2. ASSUME NEW s \in Services, NEW p \in Paths, Edit(s, p) PROVE Cancelling'
  <2>1. SameSuperseded
    BY <1>2 DEF Edit, Ctx
  <2> QED BY <1>1, <1>2, <2>1 DEF Edit, flagVars
<1>3. ASSUME NEW s \in Services, ContainerExits(s) \/ SupervisorStops(s) PROVE Cancelling'
  <2>1. SameSuperseded
    BY <1>3 DEF ContainerExits, SupervisorStops, CallsWithout, Ctx
  <2> QED BY <1>1, <1>3, <2>1 DEF ContainerExits, SupervisorStops, flagVars
<1>4. ASSUME \/ InitSettle \/ SupervisorApplied \/ UNCHANGED vars
             \/ \E s \in Services : InitService(s) \/ SkipLivepush(s) \/ SupervisorStarts(s)
      PROVE  Cancelling'
  BY <1>1, <1>4 DEF InitSettle, SupervisorApplied, vars, InitService, SkipLivepush,
     SupervisorStarts, callVars, flagVars
<1>5. ASSUME NEW h \in Handlers, NEW s \in Services, StartRebuild(h, s) PROVE Cancelling'
  <2>1. \A g \in Handlers : ctx'[g].superseded => ctx[g].superseded /\ svc'[g] = svc[g]
    BY <1>5 DEF StartRebuild, TakeEvents, Blank
  <2> QED BY <1>5, <2>1, CancellingBegins DEF StartRebuild, TakeEvents
<1>6. ASSUME NEW h \in Handlers, WaitOver(h) PROVE Cancelling'
  <2>1. svc[h] \in Services /\ svc' = [svc EXCEPT ![h] = svc[h]]
    BY <1>6 DEF WaitOver, Coupling, BusyHasService
  <2>2. \A g \in Handlers : ctx'[g].superseded => ctx[g].superseded /\ svc'[g] = svc[g]
    BY <1>6 DEF WaitOver, Ctx
  <2> QED BY <1>6, <2>1, <2>2, CancellingBegins DEF WaitOver
<1>7. ASSUME NEW h \in Handlers, NEW s \in Services, CancelRebuild(h, s) PROVE Cancelling'
  <2>1. OneRebuild'
    <3>1. \A g \in Handlers, t \in Services : InRebuild(g, t)' => InRebuild(g, t)
      BY <1>7 DEF CancelRebuild, InRebuild, RebuildPCs, Building, Deploying
    <3> QED BY <3>1 DEF Cancelling, OneRebuild
  <2>2. CancelHasRequest'
    <3>1. /\ svc'[h] = s /\ pc'[h] \in Waiting
          /\ \A g \in Handlers \ {h} : svc'[g] = svc[g] /\ pc'[g] = pc[g]
          /\ pc[h] \notin Waiting
          /\ \A t \in Services \ {s} : rebuildsCancelled'[t] = rebuildsCancelled[t]
      BY <1>7 DEF CancelRebuild, Waiting, ManagerTypeOK
    <3> QED BY <3>1 DEF Cancelling, CancelHasRequest
  <2>3. SupersededIsCancelled'
    <3> SUFFICES ASSUME NEW g \in Handlers, ctx'[g].superseded
                 PROVE  /\ svc'[g] \in Services
                        /\ \/ "overlap" \in faults'[svc'[g]]
                           \/ pc'[g] \in Building /\ rebuildsCancelled'[svc'[g]]
      BY DEF SupersededIsCancelled
    <3>1. g # h
      BY <1>7 DEF CancelRebuild, Blank
    <3>2. pc'[g] = pc[g] /\ svc'[g] = svc[g] /\ UNCHANGED faults
      BY <1>7, <3>1 DEF CancelRebuild
    <3>3. \A t \in Services : rebuildsCancelled[t] => rebuildsCancelled'[t]
      BY <1>7 DEF CancelRebuild, ManagerTypeOK
    <3>4. CASE svc[g] = s /\ pc[g] \in Building
      BY <1>7, <3>2, <3>4 DEF CancelRebuild, ManagerTypeOK
    <3>5. CASE ~(svc[g] = s /\ pc[g] \in Building)
      <4>1. ctx[g].superseded
        BY <1>7, <3>1, <3>5 DEF CancelRebuild
      <4> QED BY <3>2, <3>3, <4>1 DEF Cancelling, SupersededIsCancelled
    <3> QED BY <3>4, <3>5
  <2> QED BY <2>1, <2>2, <2>3 DEF Cancelling
<1>8. ASSUME NEW h \in Handlers, NEW s \in Services, StartLivepush(h, s) PROVE Cancelling'
  <2>1. /\ pc[h] = "idle" /\ UNCHANGED rebuildsCancelled
        /\ pc' = [pc EXCEPT ![h] = "livepush"] /\ svc' = [svc EXCEPT ![h] = s]
        /\ ~ctx'[h].superseded /\ \A g \in Handlers \ {h} : ctx'[g] = ctx[g]
    BY <1>8 DEF StartLivepush, TakeEvents, flagVars, Blank
  <2> QED BY <2>1, CancellingKept DEF InRebuild, Waiting, RebuildPCs, Building, Deploying
<1>9. ASSUME NEW h \in Handlers, LivepushDone(h) \/ LivepushFails(h) PROVE Cancelling'
  <2>1. /\ pc[h] = "livepush" /\ UNCHANGED rebuildsCancelled
        /\ pc' = [pc EXCEPT ![h] = "idle"] /\ svc' = [svc EXCEPT ![h] = None]
        /\ ~ctx'[h].superseded /\ \A g \in Handlers \ {h} : ctx'[g] = ctx[g]
    BY <1>9 DEF LivepushDone, LivepushFails, Return, flagVars, Blank
  <2> QED BY <2>1, CancellingKept DEF InRebuild, Waiting, RebuildPCs, Building, Deploying
<1>10. ASSUME NEW h \in Handlers, KillBuild(h) PROVE Cancelling'
  <2>1. SameSuperseded
    BY <1>10 DEF KillBuild, Ctx
  <2>2. /\ pc[h] = "kill" /\ UNCHANGED <<svc, rebuildsCancelled>>
        /\ \E q \in {"cancelLivepush", "wait"} : pc' = [pc EXCEPT ![h] = q]
    BY <1>10 DEF KillBuild, flagVars
  <2> QED BY <2>1, <2>2, CancellingKept DEF InRebuild, Waiting, RebuildPCs, Building, Deploying
<1>11. ASSUME NEW h \in Handlers, CancelLivepush(h) PROVE Cancelling'
  <2>1. /\ pc[h] = "cancelLivepush" /\ UNCHANGED rebuildsCancelled
        /\ \A g \in Handlers :
              \/ pc'[g] = pc[g] /\ pc[g] # "idle" /\ svc'[g] = svc[g] /\ ctx'[g] = ctx[g]
              \/ g = h /\ pc'[g] = "wait" /\ svc'[g] = svc[g] /\ ctx'[g] = ctx[g]
              \/ pc[g] \in {"idle", "livepush"} /\ pc'[g] = "idle" /\ ~ctx'[g].superseded
    BY <1>11 DEF CancelLivepush, flagVars, Blank
  <2> QED BY <2>1, CancellingKept DEF InRebuild, Waiting, RebuildPCs, Building, Deploying
<1>12. ASSUME NEW h \in Handlers, PackContext(h) \/ RunBuildStep(h) PROVE Cancelling'
  <2>1. /\ UNCHANGED <<svc, ctx, rebuildsCancelled>>
        /\ \/ UNCHANGED pc
           \/ pc[h] = "tar" /\ pc' = [pc EXCEPT ![h] = "build"]
    BY <1>12 DEF PackContext, RunBuildStep, flagVars, callVars
  <2> QED BY <2>1, CancellingKept DEF InRebuild, Waiting, RebuildPCs, Building, Deploying
<1>13. ASSUME NEW h \in Handlers, BuildDone(h) PROVE Cancelling'
  <2>1. CASE rebuildsCancelled[svc[h]]
    <3>1. ctx'[h] = Blank /\ \A g \in Handlers \ {h} : ctx'[g].superseded = ctx[g].superseded
      BY <1>13, <2>1, BuildReturnsCalls DEF BuildDone
    <3> QED BY <1>13, <2>1, <3>1, CancellingEnds DEF BuildDone, RebuildPCs, Building
  <2>2. CASE ~rebuildsCancelled[svc[h]]
    <3>1. SameSuperseded
      BY <1>13, <2>2, BuildDeploysCalls DEF BuildDone
    <3>2. /\ pc[h] = "build" /\ pc' = [pc EXCEPT ![h] = "getId"]
          /\ UNCHANGED <<svc, rebuildsCancelled>>
      BY <1>13, <2>2 DEF BuildDone
    <3> QED
      BY <2>2, <3>1, <3>2, CancellingKept DEF InRebuild, Waiting, RebuildPCs, Building, Deploying
  <2> QED BY <2>1, <2>2
<1>14. ASSUME NEW h \in Handlers, BuildFails(h) PROVE Cancelling'
  <2>1. ctx'[h] = Blank /\ \A g \in Handlers \ {h} : ctx'[g].superseded = ctx[g].superseded
    BY <1>14, BuildReturnsCalls DEF BuildFails
  <2> QED BY <1>14, <2>1, CancellingEnds DEF BuildFails, RebuildPCs
<1>15. ASSUME NEW h \in Handlers, RebuildThrows(h), pc[h] \in Deploying PROVE Cancelling'
  BY <1>15, CancellingThrows DEF RebuildThrows, RebuildPCs
<1>16. ASSUME NEW h \in Handlers, pc[h] \in Deploying, NEW q \in Deploying,
              pc' = [pc EXCEPT ![h] = q], UNCHANGED <<svc, rebuildsCancelled>>, SameSuperseded
       PROVE  Cancelling'
  BY <1>16, CancellingKept DEF InRebuild, Waiting, RebuildPCs, Building, Deploying
<1>17. ASSUME NEW h \in Handlers, RemoveContainer(h) PROVE Cancelling'
  <2>1. SameSuperseded
    BY <1>17 DEF RemoveContainer, CallsWithout, Ctx
  <2> QED BY <1>16, <1>17, <2>1 DEF RemoveContainer, Deploying, flagVars
<1>18. ASSUME NEW h \in Handlers, GetContainerId(h) \/ SetTargetState(h) \/ Settle(h)
       PROVE  Cancelling'
  <2>1. /\ pc[h] \in Deploying
        /\ \/ RebuildThrows(h)
           \/ /\ \E q \in Deploying : pc' = [pc EXCEPT ![h] = q]
              /\ UNCHANGED <<svc, rebuildsCancelled>>
              /\ UNCHANGED ctx \/ \E b : ctx' = [ctx EXCEPT ![h].live = b]
    BY <1>18 DEF GetContainerId, SetTargetState, Settle, Deploying
  <2>2. \A b : \A g \in Handlers : [ctx EXCEPT ![h].live = b][g].superseded = ctx[g].superseded
    BY DEF Ctx
  <2> QED BY <1>15, <1>16, <2>1, <2>2
<1>19. ASSUME NEW h \in Handlers, RemoveFails(h) \/ AttachFails(h) PROVE Cancelling'
  BY <1>15, <1>19 DEF RemoveFails, AttachFails, Deploying
<1>20. ASSUME NEW h \in Handlers, Attach(h) PROVE Cancelling'
  BY <1>20, CancellingThrows DEF Attach, RebuildPCs, Deploying
<1> QED
  BY <1>2, <1>3, <1>4, <1>5, <1>6, <1>7, <1>8, <1>9, <1>10, <1>11, <1>12, <1>13, <1>14,
     <1>17, <1>18, <1>19, <1>20 DEF Next, Fire, Proceed, Supervisor

-----------------------------------------------------------------------------
(* Containers that are down, and livepush instances that lost theirs *)

\* The device is applying a target state, or a rebuild is going to set one.
ToBeStarted(s) == applying \/ \E h \in Handlers : svc[h] = s /\ pc[h] = "setTarget"

\* A container that is down will be started again, but for failures.
DownIsExplained ==
    \A s \in Services : ~ctr[s].up =>
        ToBeStarted(s) \/ (Failures /\ faults[s] \cap {"rebuildError", "exited"} # {})

\* The variables of --env are lost with the target state that has them.
EnvIsTarget ==
    \A s \in Services : targetEnv /\ ctr[s].up => ctr[s].env = (s \in EnvServices)

\* A rebuild is on its way to a new livepush instance.
Reattaching(h) ==
    pc[h] \in {"setTarget", "settle"} \/ (pc[h] = "attach" /\ ctx[h].live)

\* An instance that holds the id of a container that is gone is replaced.
DetachedIsExplained ==
    ~Failures => \A s \in Services : livepush[s] = "detached" =>
        "replaced" \in faults[s] \/ \E h \in Handlers : svc[h] = s /\ Reattaching(h)

Restoring == DownIsExplained /\ EnvIsTarget /\ DetachedIsExplained

\* Steps that stop no container, and leave the rebuilds that are restoring one.
LEMMA RestoringKept ==
  ASSUME Restoring, \A s \in Services : faults[s] \subseteq faults'[s],
         \A s \in Services : ctr'[s].up = ctr[s].up /\ ctr'[s].env = ctr[s].env,
         UNCHANGED applying, targetEnv' => targetEnv,
         \A s \in Services : livepush'[s] = "detached" => livepush[s] = "detached",
         \A g \in Handlers : Reattaching(g) =>
            /\ svc'[g] = svc[g] /\ pc'[g] = pc[g]
            /\ pc[g] = "attach" => ctx'[g].live = ctx[g].live
  PROVE  Restoring'
<1>1. DownIsExplained'
  <2> SUFFICES ASSUME NEW s \in Services, ~ctr'[s].up
               PROVE  \/ ToBeStarted(s)'
                      \/ Failures /\ faults'[s] \cap {"rebuildError", "exited"} # {}
    BY DEF DownIsExplained
  <2>1. \/ ToBeStarted(s)
        \/ Failures /\ faults[s] \cap {"rebuildError", "exited"} # {}
    BY DEF Restoring, DownIsExplained
  <2> QED BY <2>1 DEF ToBeStarted, Reattaching
<1>2. EnvIsTarget'
  BY DEF Restoring, EnvIsTarget
<1>3. DetachedIsExplained'
  BY DEF Restoring, DetachedIsExplained, Reattaching
<1> QED BY <1>1, <1>2, <1>3 DEF Restoring

\* The container of s is removed, and something is to explain it.
LEMMA RestoringGone ==
  ASSUME TypeOK, Restoring, \A s \in Services : faults[s] \subseteq faults'[s],
         NEW s \in Services, ContainerGone(s), ctx' = CallsWithout(s),
         UNCHANGED <<svc, targetEnv, applying>>,
         \A g \in Handlers : Reattaching(g) => pc'[g] = pc[g],
         \/ \E h \in Handlers : svc[h] = s /\ pc'[h] = "setTarget"
         \/ applying /\ "replaced" \in faults'[s]
         \/ Failures /\ "exited" \in faults'[s]
  PROVE  Restoring'
<1> USE DEF TypeOK, DeviceTypeOK, ManagerTypeOK, CallTypeOK
<1>1. \A t \in Services \ {s} : ctr'[t] = ctr[t] /\ livepush'[t] = livepush[t]
  BY DEF ContainerGone
<1>2. ~ctr'[s].up
  BY DEF ContainerGone, NoContainer
<1>3. \A g \in Handlers : svc[g] # s => ctx'[g] = ctx[g]
  BY DEF CallsWithout
<1>4. DownIsExplained'
  <2> SUFFICES ASSUME NEW t \in Services, ~ctr'[t].up
               PROVE  \/ ToBeStarted(t)'
                      \/ Failures /\ faults'[t] \cap {"rebuildError", "exited"} # {}
    BY DEF DownIsExplained
  <2>1. CASE t = s
    BY <2>1 DEF ToBeStarted
  <2>2. CASE t # s
    <3>1. \/ ToBeStarted(t)
          \/ Failures /\ faults[t] \cap {"rebuildError", "exited"} # {}
      BY <1>1, <2>2 DEF Restoring, DownIsExplained
    <3> QED BY <3>1 DEF ToBeStarted, Reattaching
  <2> QED BY <2>1, <2>2
<1>5. EnvIsTarget'
  BY <1>1, <1>2 DEF Restoring, EnvIsTarget
<1>6. DetachedIsExplained'
  <2> SUFFICES ASSUME ~Failures, NEW t \in Services, livepush'[t] = "detached"
               PROVE  \/ "replaced" \in faults'[t]
                      \/ \E h \in Handlers : svc'[h] = t /\ Reattaching(h)'
    BY DEF DetachedIsExplained
  <2>1. CASE t = s
    BY <2>1 DEF Reattaching
  <2>2. CASE t # s
    <3>1. \/ "replaced" \in faults[t]
          \/ \E h \in Handlers : svc[h] = t /\ Reattaching(h)
      BY <1>1, <2>2 DEF Restoring, DetachedIsExplained
    <3> QED BY <1>3, <2>2, <3>1 DEF Reattaching
  <2> QED BY <2>1, <2>2
<1> QED BY <1>4, <1>5, <1>6 DEF Restoring

\* The rebuild of h throws: it restores nothing any more.
LEMMA RestoringThrows ==
  ASSUME TypeOK, Coupling, Restoring, \A s \in Services : faults[s] \subseteq faults'[s],
         NEW h \in Handlers, RebuildThrows(h), pc[h] \in Deploying,
         \/ ~Reattaching(h) \/ Failures
         \/ pc[h] = "settle" /\ ~applying /\ ~ctr[svc[h]].up,
         UNCHANGED <<ctr, targetEnv, applying, livepush>>
  PROVE  Restoring'
<1> USE DEF TypeOK, DeviceTypeOK, ManagerTypeOK, CallTypeOK
<1>1. svc[h] \in Services
  BY DEF Coupling, BusyHasService, Deploying
<1>2. "rebuildError" \in faults'[svc[h]]
  BY <1>1 DEF RebuildThrows, Fault
<1>3. \A g \in Handlers \ {h} : pc'[g] = pc[g] /\ svc'[g] = svc[g] /\ ctx'[g] = ctx[g]
  BY DEF RebuildThrows, Return
<1>4. DownIsExplained'
  <2> SUFFICES ASSUME NEW t \in Services, ~ctr'[t].up
               PROVE  \/ ToBeStarted(t)'
                      \/ Failures /\ faults'[t] \cap {"rebuildError", "exited"} # {}
    BY DEF DownIsExplained
  <2>1. \/ ToBeStarted(t)
        \/ Failures /\ faults[t] \cap {"rebuildError", "exited"} # {}
    BY DEF Restoring, DownIsExplained
  <2> QED BY <1>2, <1>3, <2>1 DEF ToBeStarted, Reattaching
<1>5. EnvIsTarget'
  BY DEF Restoring, EnvIsTarget
<1>6. DetachedIsExplained'
  <2> SUFFICES ASSUME ~Failures, NEW t \in Services, livepush'[t] = "detached"
               PROVE  \/ "replaced" \in faults'[t]
                      \/ \E g \in Handlers : svc'[g] = t /\ Reattaching(g)'
    BY DEF DetachedIsExplained
  <2>1. \/ "replaced" \in faults[t]
        \/ \E g \in Handlers : svc[g] = t /\ Reattaching(g)
    BY DEF Restoring, DetachedIsExplained
  <2>2. CASE pc[h] = "settle" /\ ~applying /\ ~ctr[svc[h]].up /\ svc[h] = t
    <3>1. PICK g \in Handlers : svc[g] = t /\ pc[g] = "setTarget"
      BY <1>1, <2>2 DEF Restoring, DownIsExplained, ToBeStarted
    <3> QED BY <1>3, <2>2, <3>1 DEF Reattaching
  <2>3. CASE ~(pc[h] = "settle" /\ ~applying /\ ~ctr[svc[h]].up /\ svc[h] = t)
    BY <1>3, <2>1, <2>3 DEF Reattaching
  <2> QED BY <2>2, <2>3
<1> QED BY <1>4, <1>5, <1>6 DEF Restoring

\* Every step keeps a container that is down, and its instance, explained.
LEMMA RestoringStep ==
  ASSUME LivepushAssumption, TypeOK, Coupling, Restoring, [Next]_vars
  PROVE  Restoring'
<1> USE FaultsGrow DEF TypeOK, CallTypeOK, DeviceTypeOK, ManagerTypeOK
<1> DEFINE SameDevice ==
      /\ \A s \in Services : ctr'[s].up = ctr[s].up /\ ctr'[s].env = ctr[s].env
      /\ UNCHANGED <<targetEnv, applying>>
<1>1. ASSUME SameDevice, UNCHANGED livepush,
             \A g \in Handlers : Reattaching(g) =>
                /\ svc'[g] = svc[g] /\ pc'[g] = pc[g]
                /\ pc[g] = "attach" => ctx'[g].live = ctx[g].live
      PROVE  Restoring'
  BY <1>1, RestoringKept
<1>2. ASSUME NEW s \in Services, NEW p \in Paths, Edit(s, p) PROVE Restoring'
  <2>1. SameDevice /\ \A g \in Handlers : ctx'[g].live = ctx[g].live
    BY <1>2 DEF Edit, Ctx
  <2> QED BY <1>1, <1>2, <2>1 DEF Edit
<1>3. ASSUME \/ InitSettle \/ UNCHANGED vars \/ \E s \in Services : SkipLivepush(s)
      PROVE  Restoring'
  BY <1>1, <1>3 DEF InitSettle, vars, SkipLivepush, managerVars, callVars, deviceVars
<1>4. ASSUME NEW s \in Services, InitService(s) PROVE Restoring'
  <2>1. \A t \in Services : livepush'[t] = "detached" => livepush[t] = "detached"
    BY <1>4 DEF InitService
  <2> QED BY <1>4, <2>1, RestoringKept DEF InitService, callVars, deviceVars
<1>5. ASSUME NEW s \in Services, ContainerExits(s) PROVE Restoring'
  <2>1. Failures /\ "exited" \in faults'[s]
    BY <1>5 DEF ContainerExits, Fault
  <2> QED BY <1>5, <2>1, RestoringGone DEF ContainerExits
<1>6. ASSUME NEW s \in Services, SupervisorStops(s) PROVE Restoring'
  <2>1. applying /\ "replaced" \in faults'[s]
    BY <1>6 DEF SupervisorStops, Fault
  <2> QED BY <1>6, <2>1, RestoringGone DEF SupervisorStops
<1>7. ASSUME NEW s \in Services, SupervisorStarts(s) PROVE Restoring'
  <2>1. /\ applying /\ UNCHANGED <<pc, svc, ctx, targetEnv, applying, livepush, faults>>
        /\ ctr'[s].env = EnvOf(s)
        /\ \A t \in Services \ {s} : ctr'[t] = ctr[t]
    BY <1>7 DEF SupervisorStarts, managerVars, callVars
  <2>2. DownIsExplained'
    BY <2>1 DEF DownIsExplained, ToBeStarted
  <2>3. EnvIsTarget'
    BY <2>1 DEF Restoring, EnvIsTarget, EnvOf
  <2>4. DetachedIsExplained'
    BY <2>1 DEF Restoring, DetachedIsExplained, Reattaching
  <2> QED BY <2>2, <2>3, <2>4 DEF Restoring
<1>8. CASE SupervisorApplied
  <2>1. /\ \A s \in Services : ctr[s].up
        /\ UNCHANGED <<ctr, pc, svc, ctx, targetEnv, livepush, faults>>
    BY <1>8 DEF SupervisorApplied, managerVars, callVars
  <2>2. DownIsExplained'
    BY <2>1 DEF DownIsExplained
  <2>3. EnvIsTarget' /\ DetachedIsExplained'
    BY <2>1 DEF Restoring, EnvIsTarget, DetachedIsExplained, Reattaching
  <2> QED BY <2>2, <2>3 DEF Restoring
<1>9. ASSUME NEW h \in Handlers, NEW s \in Services, Fire(h, s) PROVE Restoring'
  <2>1. CASE StartRebuild(h, s)
    BY <1>1, <2>1 DEF StartRebuild, TakeEvents, BeginRebuild, Reattaching, deviceVars
  <2>2. CASE CancelRebuild(h, s)
    BY <1>1, <2>2 DEF CancelRebuild, Reattaching, deviceVars, Building
  <2>3. CASE StartLivepush(h, s)
    BY <1>1, <2>3 DEF StartLivepush, TakeEvents, Reattaching, deviceVars
  <2> QED BY <1>9, <2>1, <2>2, <2>3 DEF Fire
<1>10. ASSUME NEW h \in Handlers, LivepushDone(h) PROVE Restoring'
  <2>1. SameDevice
    BY <1>10 DEF LivepushDone
  <2> QED BY <1>1, <1>10, <2>1 DEF LivepushDone, Return, Reattaching, managerVars
<1>11. ASSUME NEW h \in Handlers, LivepushFails(h) \/ PackContext(h) \/ RunBuildStep(h)
       PROVE  Restoring'
  BY <1>1, <1>11 DEF LivepushFails, Return, PackContext, RunBuildStep, Reattaching,
     managerVars, callVars, deviceVars
<1>12. ASSUME NEW h \in Handlers, KillBuild(h) PROVE Restoring'
  <2>1. \A g \in Handlers :
           ctx'[g] \in {ctx[g], [ctx[g] EXCEPT !.victim = None], [ctx[g] EXCEPT !.killed = TRUE]}
    BY <1>12 DEF KillBuild
  <2>2. \A g \in Handlers : ctx'[g].live = ctx[g].live
    BY <2>1 DEF Ctx
  <2> QED BY <1>1, <1>12, <2>2 DEF KillBuild, Reattaching, managerVars, deviceVars
<1>13. ASSUME NEW h \in Handlers, CancelLivepush(h) PROVE Restoring'
  <2>1. \A g \in Handlers : Reattaching(g) => svc'[g] = svc[g] /\ pc'[g] = pc[g] /\ ctx'[g] = ctx[g]
    BY <1>13 DEF CancelLivepush, Reattaching
  <2> QED BY <1>1, <1>13, <2>1 DEF CancelLivepush, managerVars, deviceVars
<1>14. ASSUME NEW h \in Handlers, WaitOver(h) PROVE Restoring'
  BY <1>1, <1>14 DEF WaitOver, BeginRebuild, Reattaching, managerVars, deviceVars
<1>15. ASSUME NEW h \in Handlers, BuildDone(h) \/ BuildFails(h) PROVE Restoring'
  <2>1. /\ \A g \in Handlers \ {h} : pc'[g] = pc[g] /\ svc'[g] = svc[g]
        /\ pc[h] \in Building
        /\ SameDevice /\ UNCHANGED livepush
    BY <1>15 DEF BuildDone, BuildFails, BuildEnds, Building, managerVars, deviceVars
  <2>2. \/ ctx' = [CallsAfterBuild(h) EXCEPT ![h] = Blank]
        \/ ctx' = [CallsAfterBuild(h) EXCEPT ![h].context = {}]
    BY <1>15 DEF BuildDone, BuildFails
  <2>3. \A g \in Handlers \ {h} : ctx'[g].live = ctx[g].live
    BY <2>2, BuildReturnsCalls, BuildDeploysCalls
  <2> QED BY <1>1, <2>1, <2>3 DEF Reattaching, Building
<1>16. ASSUME NEW h \in Handlers, GetContainerId(h) \/ RemoveFails(h) PROVE Restoring'
  <2>1. /\ UNCHANGED <<ctr, targetEnv, applying, livepush>>
        /\ pc[h] \in {"getId", "remove"}
        /\ RebuildThrows(h) \/ /\ pc' = [pc EXCEPT ![h] = "remove"] /\ UNCHANGED svc
                               /\ ctx' = [ctx EXCEPT ![h].live = TRUE]
    BY <1>16 DEF GetContainerId, RemoveFails, managerVars, deviceVars
  <2>2. CASE RebuildThrows(h)
    BY <2>1, <2>2, RestoringThrows DEF Deploying, Reattaching
  <2>3. CASE ~RebuildThrows(h)
    BY <1>1, <2>1, <2>3 DEF Reattaching
  <2> QED BY <2>2, <2>3
<1>17. ASSUME NEW h \in Handlers, RemoveContainer(h) PROVE Restoring'
  <2>1. svc[h] \in Services /\ pc'[h] = "setTarget"
    BY <1>17 DEF RemoveContainer, Coupling, BusyHasService
  <2> QED BY <1>17, <2>1, RestoringGone DEF RemoveContainer, Reattaching
<1>18. ASSUME NEW h \in Handlers, SetTargetState(h) PROVE Restoring'
  <2>1. CASE RebuildThrows(h) /\ Failures
    <3>1. pc[h] = "setTarget" /\ UNCHANGED <<ctr, livepush>>
      BY <1>18 DEF SetTargetState, managerVars
    <3>2. pc'[h] = "idle"
      BY <2>1 DEF RebuildThrows, Return
    <3>3. UNCHANGED <<targetEnv, applying>>
      BY <1>18, <3>2 DEF SetTargetState
    <3> QED BY <2>1, <3>1, <3>3, RestoringThrows DEF Deploying
  <2>2. CASE ~(RebuildThrows(h) /\ Failures)
    <3>1. /\ ~targetEnv' /\ applying' /\ pc[h] = "setTarget"
          /\ pc' = [pc EXCEPT ![h] = "settle"]
          /\ UNCHANGED <<svc, ctx, faults, ctr, livepush>>
      BY <1>18, <2>2 DEF SetTargetState, managerVars
    <3>2. DownIsExplained' /\ EnvIsTarget'
      BY <3>1 DEF DownIsExplained, ToBeStarted, EnvIsTarget
    <3>3. DetachedIsExplained'
      BY <3>1 DEF Restoring, DetachedIsExplained, Reattaching
    <3> QED BY <3>2, <3>3 DEF Restoring
  <2> QED BY <2>1, <2>2
<1>19. ASSUME NEW h \in Handlers, Settle(h) PROVE Restoring'
  <2>1. pc[h] = "settle" /\ UNCHANGED <<ctr, targetEnv, applying, livepush>>
    BY <1>19 DEF Settle, managerVars, deviceVars
  <2>2. ASSUME RebuildThrows(h), Failures \/ (~applying /\ ~ctr[svc[h]].up)
        PROVE  Restoring'
    BY <1>19, <2>1, <2>2, RestoringThrows DEF Deploying
  <2>3. ASSUME applying \/ ctr[svc[h]].up,
               pc' = [pc EXCEPT ![h] = IF applying THEN "settle" ELSE "attach"],
               ctx' = [ctx EXCEPT ![h].live = ~applying],
               UNCHANGED <<svc, faults>>
        PROVE  Restoring'
    <3>1. /\ \A g \in Handlers \ {h} : pc'[g] = pc[g] /\ ctx'[g] = ctx[g]
          /\ pc'[h] = "settle" \/ (pc'[h] = "attach" /\ ctx'[h].live)
          /\ UNCHANGED <<svc, faults>>
      <4>1. CASE applying
        BY <2>1, <2>3, <4>1
      <4>2. CASE ~applying
        <5>1. /\ ctx' = [ctx EXCEPT ![h].live = ~applying]
              /\ pc' = [pc EXCEPT ![h] = "attach"] /\ UNCHANGED <<svc, faults>>
          BY <2>3, <4>2
        <5>2. ctx'[h].live = ~applying
          BY <5>1 DEF Ctx
        <5>3. ctx'[h].live
          BY <4>2, <5>2, Zenon
        <5> QED BY <5>1, <5>3
      <4> QED BY <4>1, <4>2
    <3>2. DownIsExplained'
      <4>1. \A s \in Services : ToBeStarted(s) => ToBeStarted(s)'
        BY <2>1, <3>1 DEF ToBeStarted
      <4> QED BY <2>1, <3>1, <4>1 DEF Restoring, DownIsExplained
    <3>3. EnvIsTarget' /\ DetachedIsExplained'
      BY <2>1, <3>1 DEF Restoring, EnvIsTarget, DetachedIsExplained, Reattaching
    <3> QED BY <3>2, <3>3 DEF Restoring
  <2>4. CASE Failures /\ RebuildThrows(h)
    BY <2>2, <2>4
  <2>5. CASE ~(Failures /\ RebuildThrows(h))
    BY <1>19, <2>2, <2>3, <2>5 DEF Settle
  <2> QED BY <2>4, <2>5
<1>20. ASSUME NEW h \in Handlers, Attach(h) PROVE Restoring'
  <2>1. /\ pc[h] = "attach" /\ UNCHANGED <<ctr, targetEnv, applying, faults>>
        /\ livepush' = [livepush EXCEPT ![svc[h]] = "attached"]
        /\ \A g \in Handlers \ {h} : pc'[g] = pc[g] /\ svc'[g] = svc[g] /\ ctx'[g] = ctx[g]
    BY <1>20 DEF Attach, Return, deviceVars
  <2>2. DownIsExplained' /\ EnvIsTarget'
    BY <2>1 DEF Restoring, DownIsExplained, ToBeStarted, EnvIsTarget
  <2>3. DetachedIsExplained'
    BY <2>1 DEF Restoring, DetachedIsExplained, Reattaching
  <2> QED BY <2>2, <2>3 DEF Restoring
<1>21. ASSUME NEW h \in Handlers, AttachFails(h) PROVE Restoring'
  BY <1>21, RestoringThrows DEF AttachFails, Deploying, Reattaching, managerVars, deviceVars
<1> QED
  BY <1>2, <1>3, <1>4, <1>5, <1>6, <1>7, <1>8, <1>9, <1>10, <1>11, <1>12, <1>13, <1>14,
     <1>15, <1>16, <1>17, <1>18, <1>19, <1>20, <1>21 DEF Next, Proceed, Supervisor

-----------------------------------------------------------------------------
(* What is to reach a container *)

\* livepush pushes no Dockerfile: a batch that has one asks for a rebuild.
PushLeavesDockerfile ==
    \A h \in Handlers : pc[h] = "livepush" => Dockerfile \notin ctx[h].updated

Packing(h, s) == svc[h] = s /\ pc[h] \in Building
Replacing(h, s) == svc[h] = s /\ pc[h] \in {"getId", "remove"}

\* The Dockerfile gets into a container only by way of the context and the
\* image: a container has it only if the image, and the context, have it.
DockerfileFollows ==
    \A s \in Services : "overlap" \notin faults[s] =>
        /\ Dockerfile \in ctr[s].fresh => Dockerfile \in image[s]
        /\ \A h \in Handlers :
              Packing(h, s) /\ Dockerfile \in image[s] => Dockerfile \in ctx[h].context

\* The causes that excuse an outdated path.
Causes(p) ==
    IF p = Dockerfile THEN {"rebuildError", "overlap", "unwatched", "exited"} ELSE FaultKinds

\* A call that is going to push the path, or to start a rebuild.
CarriesIt(h, s, p) ==
    /\ svc[h] = s
    /\ pc[h] \in Waiting \/ (pc[h] = "livepush" /\ p \in ctx[h].updated)

Pending(s, p) == p \in updateEventsWaiting[s] \/ \E h \in Handlers : CarriesIt(h, s, p)

\* The container of s has the path up to date once the rebuild in progress, and
\* the device, are done with it.
Coming(s, p) ==
    IF \E h \in Handlers : Packing(h, s)
      THEN \A h \in Handlers : Packing(h, s) => p \in ctx[h].context
      ELSE IF ~ctr[s].up \/ \E h \in Handlers : Replacing(h, s)
        THEN p \in image[s]
        ELSE p \in ctr[s].fresh

Accounted(s, p) == faults[s] \cap Causes(p) # {} \/ Pending(s, p) \/ Coming(s, p)

\* No path is outdated, and forgotten, without a cause.
Covered == \A s \in Services, p \in Paths : Accounted(s, p)

Accounts == PushLeavesDockerfile /\ DockerfileFollows /\ Covered

\* Every excuse is a kind of fault; the ones of the Dockerfile excuse any path.
LEMMA CausesOfAll ==
  ASSUME NEW p
  PROVE  {"rebuildError", "overlap", "unwatched", "exited"} \subseteq Causes(p)
BY DEF Causes, FaultKinds

\* What a step leaves as it was for a path of a service.
LEMMA AccountedKept ==
  ASSUME NEW s \in Services, NEW p \in Paths, Accounted(s, p), faults[s] \subseteq faults'[s],
         p \in updateEventsWaiting[s] => p \in updateEventsWaiting'[s],
         ctr'[s].up = ctr[s].up, p \in ctr[s].fresh => p \in ctr'[s].fresh,
         p \in image[s] => p \in image'[s],
         \A h \in Handlers :
            /\ CarriesIt(h, s, p) => CarriesIt(h, s, p)'
            /\ Packing(h, s)' = Packing(h, s)
            /\ Packing(h, s) /\ p \in ctx[h].context => p \in ctx'[h].context
            /\ Replacing(h, s)' = Replacing(h, s)
  PROVE  Accounted(s, p)'
<1>1. CASE faults[s] \cap Causes(p) # {}
  BY <1>1 DEF Accounted, Causes
<1>2. CASE Pending(s, p)
  BY <1>2 DEF Accounted, Pending
<1>3. CASE Coming(s, p)
  BY <1>3 DEF Accounted, Coming
<1> QED BY <1>1, <1>2, <1>3 DEF Accounted

\* A step of the call h does nothing to the calls of other services.
LEMMA AccountedElsewhere ==
  ASSUME NEW s \in Services, NEW p \in Paths, Accounted(s, p), faults[s] \subseteq faults'[s],
         NEW h \in Handlers, svc[h] # s, svc'[h] # s,
         updateEventsWaiting'[s] = updateEventsWaiting[s],
         ctr'[s] = ctr[s], image'[s] = image[s],
         \A g \in Handlers \ {h} : svc[g] = s =>
            /\ pc'[g] = pc[g]
            /\ ctx'[g].updated = ctx[g].updated /\ ctx'[g].context = ctx[g].context,
         \A g \in Handlers \ {h} : svc[g] = s <=> svc'[g] = s
  PROVE  Accounted(s, p)'
<1>1. \A g \in Handlers :
          /\ CarriesIt(g, s, p) => CarriesIt(g, s, p)'
          /\ Packing(g, s)' = Packing(g, s)
          /\ Packing(g, s) /\ p \in ctx[g].context => p \in ctx'[g].context
          /\ Replacing(g, s)' = Replacing(g, s)
  BY DEF CarriesIt, Packing, Replacing
<1> QED BY <1>1, AccountedKept

\* A rebuild that begins packs the whole context.
LEMMA AccountedBegins ==
  ASSUME TypeOK, NEW s \in Services, NEW p \in Paths, NEW h \in Handlers,
         BeginRebuild(h, s), svc' = [svc EXCEPT ![h] = s], ctx'[h].context = Paths
  PROVE  Accounted(s, p)'
<1> USE DEF TypeOK, CallTypeOK, DeviceTypeOK
<1>1. CASE \E g \in Handlers \ {h} : InRebuild(g, s)
  <2>1. "overlap" \in faults'[s] /\ "overlap" \in Causes(p)
    BY <1>1, CausesOfAll DEF BeginRebuild, Fault
  <2> QED BY <2>1 DEF Accounted, Causes
<1>2. CASE ~\E g \in Handlers \ {h} : InRebuild(g, s)
  <2>1. Packing(h, s)'
    BY DEF BeginRebuild, Packing, Building
  <2>2. \A g \in Handlers : Packing(g, s)' => g = h
    BY <1>2 DEF BeginRebuild, Packing, InRebuild, RebuildPCs
  <2> QED BY <2>1, <2>2 DEF Accounted, Coming
<1> QED BY <1>1, <1>2

\* Batches that are pushed have no Dockerfile.
LEMMA PushStep ==
  ASSUME LivepushAssumption, TypeOK, PushLeavesDockerfile, [Next]_vars
  PROVE  PushLeavesDockerfile'
<1> USE DEF TypeOK, CallTypeOK, PushLeavesDockerfile, PCs, RebuildPCs, Building, Deploying
<1>1. ASSUME NEW h \in Handlers, NEW s \in Services, Fire(h, s) PROVE PushLeavesDockerfile'
  <2>1. CASE StartRebuild(h, s)
    BY <2>1 DEF StartRebuild, TakeEvents, BeginRebuild
  <2>2. CASE CancelRebuild(h, s)
    BY <2>2 DEF CancelRebuild, Ctx
  <2>3. CASE StartLivepush(h, s)
    <3>1. ctx'[h].updated = updateEventsWaiting[s] /\ Dockerfile \notin updateEventsWaiting[s]
      BY <2>3 DEF StartLivepush, TakeEvents, Blank
    <3> QED BY <2>3, <3>1 DEF StartLivepush, TakeEvents
  <2> QED BY <1>1, <2>1, <2>2, <2>3 DEF Fire
<1>2. ASSUME \A g \in Handlers : pc'[g] = "livepush" =>
                pc[g] = "livepush" /\ ctx'[g].updated = ctx[g].updated
      PROVE  PushLeavesDockerfile'
  BY <1>2
<1>3. ASSUME NEW s \in Services, NEW p \in Paths, Edit(s, p) PROVE PushLeavesDockerfile'
  BY <1>2, <1>3 DEF Edit, Ctx
<1>4. ASSUME NEW s \in Services, ContainerExits(s) \/ SupervisorStops(s) PROVE PushLeavesDockerfile'
  BY <1>2, <1>4 DEF ContainerExits, SupervisorStops, CallsWithout, Ctx
<1>5. ASSUME \/ InitSettle \/ SupervisorApplied \/ UNCHANGED vars
             \/ \E s \in Services : InitService(s) \/ SkipLivepush(s) \/ SupervisorStarts(s)
      PROVE  PushLeavesDockerfile'
  BY <1>2, <1>5 DEF InitSettle, SupervisorApplied, vars, InitService, SkipLivepush,
     SupervisorStarts, callVars
<1>6. ASSUME NEW h \in Handlers, \/ LivepushDone(h) \/ LivepushFails(h) \/ RemoveFails(h)
                                 \/ Attach(h) \/ AttachFails(h)
      PROVE  PushLeavesDockerfile'
  BY <1>2, <1>6 DEF LivepushDone, LivepushFails, RemoveFails, Attach, AttachFails, RebuildThrows,
     Return
<1>7. ASSUME NEW h \in Handlers, KillBuild(h) PROVE PushLeavesDockerfile'
  <2>1. /\ \A g \in Handlers : pc'[g] = "livepush" => pc[g] = "livepush"
        /\ \A g \in Handlers :
           ctx'[g] \in {ctx[g], [ctx[g] EXCEPT !.victim = None], [ctx[g] EXCEPT !.killed = TRUE]}
    BY <1>7 DEF KillBuild
  <2> QED BY <1>2, <2>1 DEF Ctx
<1>8. ASSUME NEW h \in Handlers, CancelLivepush(h) PROVE PushLeavesDockerfile'
  BY <1>2, <1>8 DEF CancelLivepush
<1>9. ASSUME NEW h \in Handlers, WaitOver(h) \/ PackContext(h) \/ RunBuildStep(h)
      PROVE  PushLeavesDockerfile'
  BY <1>2, <1>9 DEF WaitOver, BeginRebuild, PackContext, RunBuildStep, callVars
<1>10. ASSUME NEW h \in Handlers, BuildDone(h) \/ BuildFails(h) PROVE PushLeavesDockerfile'
  <2>1. \A g \in Handlers \ {h} : pc'[g] = pc[g] /\ ctx'[g].updated = ctx[g].updated
    BY <1>10, BuildReturnsCalls, BuildDeploysCalls DEF BuildDone, BuildFails
  <2>2. pc'[h] # "livepush"
    BY <1>10 DEF BuildDone, BuildFails
  <2> QED BY <1>2, <2>1, <2>2
<1>11. ASSUME NEW h \in Handlers, GetContainerId(h) \/ SetTargetState(h) \/ Settle(h)
       PROVE  PushLeavesDockerfile'
  <2>1. /\ \A g \in Handlers \ {h} : pc'[g] = pc[g] /\ ctx'[g] = ctx[g]
        /\ pc'[h] # "livepush"
    BY <1>11 DEF GetContainerId, SetTargetState, Settle, RebuildThrows, Return
  <2> QED BY <1>2, <2>1
<1>12. ASSUME NEW h \in Handlers, RemoveContainer(h) PROVE PushLeavesDockerfile'
  BY <1>2, <1>12 DEF RemoveContainer, CallsWithout, Ctx
<1> QED
  BY <1>1, <1>3, <1>4, <1>5, <1>6, <1>7, <1>8, <1>9, <1>10, <1>11, <1>12
     DEF Next, Proceed, Supervisor

\* A step that packs nothing and builds nothing keeps the Dockerfile where it is.
LEMMA FollowsKept ==
  ASSUME DockerfileFollows, \A s \in Services : faults[s] \subseteq faults'[s], UNCHANGED image,
         \A s \in Services : Dockerfile \in ctr'[s].fresh => Dockerfile \in ctr[s].fresh,
         \A h \in Handlers, s \in Services :
            Packing(h, s)' => Packing(h, s) /\ ctx'[h].context = ctx[h].context
  PROVE  DockerfileFollows'
BY DEF DockerfileFollows

\* A rebuild that begins has the Dockerfile in its context.
LEMMA FollowsBegins ==
  ASSUME TypeOK, DockerfileFollows, NEW h \in Handlers, NEW t \in Services,
         \A s \in Services : faults[s] \subseteq faults'[s],
         BeginRebuild(h, t), svc' = [svc EXCEPT ![h] = t], ctx'[h].context = Paths,
         \A g \in Handlers \ {h} : ctx'[g] = ctx[g], UNCHANGED <<image, ctr>>
  PROVE  DockerfileFollows'
<1>1. \A g \in Handlers \ {h} : pc'[g] = pc[g] /\ svc'[g] = svc[g]
  BY DEF TypeOK, CallTypeOK, BeginRebuild
<1>2. \A g \in Handlers, s \in Services :
         Packing(g, s)' => g = h \/ (Packing(g, s) /\ ctx'[g].context = ctx[g].context)
  BY <1>1 DEF Packing
<1> QED BY <1>2 DEF DockerfileFollows, Paths

\* No step gets the Dockerfile into a container past the image.
LEMMA FollowsStep ==
  ASSUME LivepushAssumption, TypeOK, Coupling, OneRebuild, PushLeavesDockerfile,
         DockerfileFollows, [Next]_vars
  PROVE  DockerfileFollows'
<1>0. \A s \in Services : faults[s] \subseteq faults'[s]
  BY FaultsGrow
<1> USE <1>0 DEF TypeOK, CallTypeOK, DeviceTypeOK, PCs
<1> DEFINE SameContexts ==
      \A h \in Handlers, s \in Services :
         Packing(h, s)' => Packing(h, s) /\ ctx'[h].context = ctx[h].context
<1>1. ASSUME NEW s \in Services, NEW p \in Paths, Edit(s, p) PROVE DockerfileFollows'
  <2>1. /\ UNCHANGED <<pc, svc>>
        /\ \A t \in Services : ctr'[t].fresh = IF t = s THEN ctr[t].fresh \ {p} ELSE ctr[t].fresh
        /\ \A t \in Services : image'[t] = IF t = s THEN image[t] \ {p} ELSE image[t]
    <3>1. /\ ctr' = [ctr EXCEPT ![s].fresh = @ \ {p}]
          /\ image' = [image EXCEPT ![s] = @ \ {p}]
          /\ UNCHANGED <<pc, svc>>
      BY <1>1 DEF Edit
    <3>2. \A t \in Services : ctr'[t].fresh = IF t = s THEN ctr[t].fresh \ {p} ELSE ctr[t].fresh
      <4>1. \A t \in Services :
               ctr'[t] = IF t = s THEN [ctr[s] EXCEPT !.fresh = @ \ {p}] ELSE ctr[t]
        BY <3>1
      <4>2. [ctr[s] EXCEPT !.fresh = @ \ {p}].fresh = ctr[s].fresh \ {p}
        OBVIOUS
      <4> QED BY <4>1, <4>2
    <3> QED BY <3>1, <3>2
  <2>2. \A h \in Handlers : \/ ctx'[h].context = ctx[h].context
                            \/ svc[h] = s /\ ctx'[h].context = ctx[h].context \ {p}
    <3>1. PICK packed \in SUBSET {h \in Handlers : svc[h] = s /\ pc[h] = "tar"} :
             ctx' = [h \in Handlers |->
                       IF svc[h] = s /\ (pc[h] = "build" \/ h \in packed)
                         THEN [ctx[h] EXCEPT !.context = @ \ {p}]
                         ELSE ctx[h]]
      BY <1>1 DEF Edit
    <3>2. \A h \in Handlers : [ctx[h] EXCEPT !.context = @ \ {p}].context = ctx[h].context \ {p}
      BY DEF Ctx
    <3> QED BY <3>1, <3>2
  <2> SUFFICES ASSUME NEW t \in Services, "overlap" \notin faults'[t]
               PROVE  /\ Dockerfile \in ctr'[t].fresh => Dockerfile \in image'[t]
                      /\ \A h \in Handlers : Packing(h, t)' /\ Dockerfile \in image'[t]
                            => Dockerfile \in ctx'[h].context
    BY DEF DockerfileFollows
  <2>4. /\ Dockerfile \in ctr[t].fresh => Dockerfile \in image[t]
        /\ \A h \in Handlers : Packing(h, t) /\ Dockerfile \in image[t]
                                 => Dockerfile \in ctx[h].context
    BY DEF DockerfileFollows
  <2>5. CASE t # s
    BY <2>1, <2>2, <2>4, <2>5 DEF Packing
  <2>6. CASE t = s
    <3>1. \A h \in Handlers : Packing(h, t)' => Packing(h, t)
      BY <2>1 DEF Packing
    <3>2. \A h \in Handlers : ctx[h].context \ {p} \subseteq ctx'[h].context
      BY <2>2
    <3>3. ctr'[t].fresh = ctr[t].fresh \ {p} /\ image'[t] = image[t] \ {p}
      BY <2>1, <2>6
    <3> QED BY <2>4, <3>1, <3>2, <3>3
  <2> QED BY <2>5, <2>6
<1>2. ASSUME NEW s \in Services, ContainerExits(s) \/ SupervisorStops(s)
      PROVE  DockerfileFollows'
  <2>1. SameContexts
    BY <1>2 DEF ContainerExits, SupervisorStops, CallsWithout, Ctx, Packing
  <2>2. ctr' = [ctr EXCEPT ![s] = NoContainer] /\ UNCHANGED image
    BY <1>2 DEF ContainerExits, SupervisorStops, ContainerGone
  <2>3. \A t \in Services : ctr'[t].fresh \subseteq ctr[t].fresh
    BY <2>2 DEF NoContainer
  <2> QED BY <2>1, <2>2, <2>3, FollowsKept
<1>3. ASSUME InitSettle \/ SupervisorApplied \/ UNCHANGED vars PROVE DockerfileFollows'
  BY <1>3, FollowsKept DEF InitSettle, SupervisorApplied, vars, callVars, deviceVars, Packing
<1>4. ASSUME NEW s \in Services, InitService(s) \/ SkipLivepush(s) PROVE DockerfileFollows'
  BY <1>4, FollowsKept DEF InitService, SkipLivepush, callVars, deviceVars, Packing
<1>5. ASSUME NEW s \in Services, SupervisorStarts(s) PROVE DockerfileFollows'
  <2>1. /\ UNCHANGED <<pc, svc, ctx, image, faults>>
        /\ ctr'[s].fresh = image[s] /\ \A t \in Services \ {s} : ctr'[t] = ctr[t]
    BY <1>5 DEF SupervisorStarts, callVars
  <2> QED BY <2>1 DEF DockerfileFollows, Packing
<1>6. ASSUME NEW h \in Handlers, NEW s \in Services, Fire(h, s) PROVE DockerfileFollows'
  <2>1. CASE StartRebuild(h, s)
    <3>1. ctx'[h].context = Paths /\ \A g \in Handlers \ {h} : ctx'[g] = ctx[g]
      BY <2>1 DEF StartRebuild, TakeEvents, Blank
    <3> QED BY <2>1, <3>1, FollowsBegins DEF StartRebuild, TakeEvents, deviceVars
  <2>2. CASE CancelRebuild(h, s) \/ StartLivepush(h, s)
    <3>1. pc'[h] \notin Building /\ \A g \in Handlers \ {h} : pc'[g] = pc[g] /\ svc'[g] = svc[g]
      BY <2>2 DEF CancelRebuild, StartLivepush, TakeEvents, Building
    <3>2. \A g \in Handlers \ {h} : ctx'[g].context = ctx[g].context
      BY <2>2 DEF CancelRebuild, StartLivepush, TakeEvents, Ctx
    <3> QED
      BY <2>2, <3>1, <3>2, FollowsKept DEF CancelRebuild, StartLivepush, Packing, deviceVars
  <2> QED BY <1>6, <2>1, <2>2 DEF Fire
<1>7. ASSUME NEW h \in Handlers, LivepushDone(h) PROVE DockerfileFollows'
  <2>1. /\ pc'[h] = "idle" /\ UNCHANGED image
        /\ \A g \in Handlers \ {h} : pc'[g] = pc[g] /\ svc'[g] = svc[g] /\ ctx'[g] = ctx[g]
    BY <1>7 DEF LivepushDone, Return
  <2>2. \A s \in Services : Dockerfile \in ctr'[s].fresh => Dockerfile \in ctr[s].fresh
    BY <1>7 DEF LivepushDone, PushLeavesDockerfile
  <2> QED BY <2>1, <2>2, FollowsKept DEF Packing, Building
<1>8. ASSUME NEW h \in Handlers, UNCHANGED <<ctr, image>>,
             \A g \in Handlers \ {h} : /\ pc'[g] = pc[g] /\ svc'[g] = svc[g]
                                       /\ ctx'[g].context = ctx[g].context,
             pc'[h] \notin Building
      PROVE  DockerfileFollows'
  BY <1>8, FollowsKept DEF Packing
<1>9. ASSUME NEW h \in Handlers, \/ LivepushFails(h) \/ RemoveFails(h) \/ GetContainerId(h)
                                 \/ SetTargetState(h) \/ Settle(h) \/ Attach(h) \/ AttachFails(h)
      PROVE  DockerfileFollows'
  <2>1. /\ UNCHANGED <<ctr, image>> /\ pc'[h] \notin Building
        /\ \A g \in Handlers \ {h} : pc'[g] = pc[g] /\ svc'[g] = svc[g] /\ ctx'[g] = ctx[g]
    BY <1>9 DEF LivepushFails, RemoveFails, GetContainerId, SetTargetState, Settle, Attach,
       AttachFails, RebuildThrows, Return, deviceVars, Building
  <2> QED BY <1>8, <2>1
<1>10. ASSUME NEW h \in Handlers, KillBuild(h) PROVE DockerfileFollows'
  <2>1. \A g \in Handlers :
           ctx'[g] \in {ctx[g], [ctx[g] EXCEPT !.victim = None], [ctx[g] EXCEPT !.killed = TRUE]}
    BY <1>10 DEF KillBuild
  <2>2. \A g \in Handlers : ctx'[g].context = ctx[g].context
    BY <2>1 DEF Ctx
  <2> QED BY <1>8, <1>10, <2>2 DEF KillBuild, deviceVars, Building
<1>11. ASSUME NEW h \in Handlers, CancelLivepush(h) PROVE DockerfileFollows'
  <2>1. SameContexts
    BY <1>11 DEF CancelLivepush, Packing, Building
  <2> QED BY <1>11, <2>1, FollowsKept DEF CancelLivepush, deviceVars
<1>12. ASSUME NEW h \in Handlers, WaitOver(h) PROVE DockerfileFollows'
  <2>1. svc[h] \in Services /\ svc' = [svc EXCEPT ![h] = svc[h]]
    BY <1>12 DEF WaitOver, Coupling, BusyHasService
  <2>2. ctx'[h].context = Paths /\ \A g \in Handlers \ {h} : ctx'[g] = ctx[g]
    BY <1>12 DEF WaitOver, Ctx
  <2> QED BY <1>12, <2>1, <2>2, FollowsBegins DEF WaitOver, deviceVars
<1>13. ASSUME NEW h \in Handlers, PackContext(h) \/ RunBuildStep(h) PROVE DockerfileFollows'
  BY <1>13, FollowsKept DEF PackContext, RunBuildStep, Packing, Building, callVars, deviceVars
<1>14. ASSUME NEW h \in Handlers, BuildFails(h) PROVE DockerfileFollows'
  <2>1. \A g \in Handlers \ {h} : ctx'[g].context = ctx[g].context
    BY <1>14, BuildReturnsCalls DEF BuildFails
  <2> QED BY <1>8, <1>14, <2>1 DEF BuildFails, deviceVars, Building
<1>15. ASSUME NEW h \in Handlers, BuildDone(h) PROVE DockerfileFollows'
  <2>1. /\ \A g \in Handlers \ {h} : /\ pc'[g] = pc[g] /\ svc'[g] = svc[g]
                                     /\ ctx'[g].context = ctx[g].context
        /\ pc'[h] \notin Building
    BY <1>15, BuildReturnsCalls, BuildDeploysCalls DEF BuildDone, Building
  <2>2. /\ svc[h] \in Services /\ pc[h] = "build" /\ UNCHANGED <<ctr, faults>>
        /\ image' = [image EXCEPT ![svc[h]] = ctx[h].context]
    BY <1>15 DEF BuildDone, Coupling, BusyHasService
  <2>3. \A g \in Handlers, s \in Services : Packing(g, s)' =>
           Packing(g, s) /\ g # h /\ ctx'[g].context = ctx[g].context
    BY <2>1 DEF Packing
  <2>4. Packing(h, svc[h])
    BY <2>2 DEF Packing, Building
  <2>5. ASSUME NEW g \in Handlers, NEW t \in Services, t = svc[h], Packing(g, t)'
        PROVE  "overlap" \in faults[t]
    <3>1. Packing(g, t) /\ g # h
      BY <2>3, <2>5
    <3>2. InRebuild(g, t) /\ InRebuild(h, t)
      BY <2>4, <2>5, <3>1 DEF InRebuild, Packing, RebuildPCs
    <3> QED BY <3>1, <3>2 DEF OneRebuild
  <2> SUFFICES ASSUME NEW t \in Services, "overlap" \notin faults'[t]
               PROVE  /\ Dockerfile \in ctr'[t].fresh => Dockerfile \in image'[t]
                      /\ \A g \in Handlers : Packing(g, t)' /\ Dockerfile \in image'[t]
                            => Dockerfile \in ctx'[g].context
    BY DEF DockerfileFollows
  <2>6. /\ Dockerfile \in ctr[t].fresh => Dockerfile \in image[t]
        /\ \A g \in Handlers : Packing(g, t) /\ Dockerfile \in image[t]
                                 => Dockerfile \in ctx[g].context
    BY <2>2 DEF DockerfileFollows
  <2>7. CASE t = svc[h]
    <3>1. \A g \in Handlers : ~Packing(g, t)'
      BY <2>2, <2>5, <2>7
    <3> QED BY <2>2, <2>4, <2>6, <2>7, <3>1
  <2>8. CASE t # svc[h]
    BY <2>2, <2>3, <2>6, <2>8
  <2> QED BY <2>7, <2>8
<1>16. ASSUME NEW h \in Handlers, RemoveContainer(h) PROVE DockerfileFollows'
  <2>1. SameContexts
    BY <1>16 DEF RemoveContainer, CallsWithout, Ctx, Packing, Building
  <2>2. ctr' = [ctr EXCEPT ![svc[h]] = NoContainer] /\ UNCHANGED image
    BY <1>16 DEF RemoveContainer, ContainerGone
  <2>3. \A t \in Services : ctr'[t].fresh \subseteq ctr[t].fresh
    BY <2>2 DEF NoContainer
  <2> QED BY <2>1, <2>2, <2>3, FollowsKept
<1> QED
  BY <1>1, <1>2, <1>3, <1>4, <1>5, <1>6, <1>7, <1>9, <1>10, <1>11, <1>12, <1>13, <1>14, <1>15,
     <1>16 DEF Next, Proceed, Supervisor

\* A rebuild that returns with a logged error excuses whatever it left behind.
LEMMA AccountedThrows ==
  ASSUME TypeOK, Coupling, Covered, NEW h \in Handlers, pc[h] \in RebuildPCs,
         RebuildThrows(h), UNCHANGED <<updateEventsWaiting, ctr, image>>
  PROVE  Covered'
<1> USE DEF TypeOK, CallTypeOK, DeviceTypeOK
<1>1. svc[h] \in Services
  BY LivepushAssumption DEF Coupling, BusyHasService, RebuildPCs, Building, Deploying
<1> SUFFICES ASSUME NEW s \in Services, NEW p \in Paths PROVE Accounted(s, p)'
  BY DEF Covered
<1>2. CASE s = svc[h]
  <2>1. "rebuildError" \in faults'[s] /\ "rebuildError" \in Causes(p)
    BY <1>2, CausesOfAll DEF RebuildThrows, Fault
  <2> QED BY <2>1 DEF Accounted, Causes
<1>3. CASE s # svc[h]
  <2>1. /\ \A g \in Handlers \ {h} : pc'[g] = pc[g] /\ svc'[g] = svc[g] /\ ctx'[g] = ctx[g]
        /\ svc'[h] = None
    BY DEF RebuildThrows, Return
  <2>2. faults[s] \subseteq faults'[s]
    BY FaultGrows DEF RebuildThrows
  <2>3. svc'[h] # s /\ Accounted(s, p)
    BY <2>1, LivepushAssumption DEF Covered
  <2>4. \A g \in Handlers \ {h} :
           /\ svc[g] = s <=> svc'[g] = s
           /\ svc[g] = s => /\ pc'[g] = pc[g]
                            /\ ctx'[g].updated = ctx[g].updated
                            /\ ctx'[g].context = ctx[g].context
    BY <2>1
  <2>5. UNCHANGED <<updateEventsWaiting, ctr, image>>
    OBVIOUS
  <2> QED BY <1>3, <2>2, <2>3, <2>4, <2>5, AccountedElsewhere
<1> QED BY <1>2, <1>3

\* Steps that change nothing that the account is about.
LEMMA CoveredKept ==
  ASSUME Covered, \A s \in Services : faults[s] \subseteq faults'[s],
         UNCHANGED <<updateEventsWaiting, image, pc, svc>>,
         \A s \in Services : ctr'[s].up = ctr[s].up /\ ctr'[s].fresh = ctr[s].fresh,
         \A h \in Handlers : ctx'[h].updated = ctx[h].updated /\ ctx'[h].context = ctx[h].context
  PROVE  Covered'
<1> SUFFICES ASSUME NEW s \in Services, NEW p \in Paths PROVE Accounted(s, p)'
  BY DEF Covered
<1>1. \A h \in Handlers :
          /\ CarriesIt(h, s, p) => CarriesIt(h, s, p)'
          /\ Packing(h, s)' = Packing(h, s)
          /\ Packing(h, s) /\ p \in ctx[h].context => p \in ctx'[h].context
          /\ Replacing(h, s)' = Replacing(h, s)
  BY DEF CarriesIt, Packing, Replacing
<1> QED BY <1>1, AccountedKept DEF Covered

\* A call of s goes on: it packs, carries and replaces what it did before.
LEMMA CoveredGoesOn ==
  ASSUME Covered, \A s \in Services : faults[s] \subseteq faults'[s],
         UNCHANGED <<updateEventsWaiting, image, ctr>>,
         \A h \in Handlers :
            \/ /\ pc'[h] = pc[h] /\ svc'[h] = svc[h] /\ ctx'[h].updated = ctx[h].updated
               /\ ctx'[h].context = ctx[h].context
            \/ /\ pc[h] \in Waiting /\ pc'[h] \in Waiting /\ svc'[h] = svc[h]
            \/ /\ pc[h] \in Building /\ pc'[h] \in Building /\ svc'[h] = svc[h]
               /\ ctx'[h].context = ctx[h].context
            \/ /\ pc[h] \in {"getId", "remove"} /\ pc'[h] \in {"getId", "remove"}
               /\ svc'[h] = svc[h]
            \/ /\ pc[h] \in {"setTarget", "settle", "attach"}
               /\ pc'[h] \in {"setTarget", "settle", "attach", "idle"}
  PROVE  Covered'
<1> SUFFICES ASSUME NEW s \in Services, NEW p \in Paths PROVE Accounted(s, p)'
  BY DEF Covered
<1>1. \A h \in Handlers :
          /\ CarriesIt(h, s, p) => CarriesIt(h, s, p)'
          /\ Packing(h, s)' = Packing(h, s)
          /\ Packing(h, s) /\ p \in ctx[h].context => p \in ctx'[h].context
          /\ Replacing(h, s)' = Replacing(h, s)
  BY DEF CarriesIt, Packing, Replacing, Waiting, Building
<1> QED BY <1>1, AccountedKept DEF Covered

\* An edit is queued, or was not watched.
LEMMA EditIsAccounted ==
  ASSUME TypeOK, Covered, NEW t \in Services, NEW q \in Paths, Edit(t, q)
  PROVE  Covered'
<1> USE DEF TypeOK, ManagerTypeOK, CallTypeOK, DeviceTypeOK
<1> SUFFICES ASSUME NEW s \in Services, NEW p \in Paths PROVE Accounted(s, p)'
  BY DEF Covered
<1>1. CASE s = t /\ p = q /\ livepush[t] = "none"
  <2>1. "unwatched" \in faults'[s] /\ "unwatched" \in Causes(p)
    BY <1>1, CausesOfAll DEF Edit, Fault
  <2> QED BY <2>1 DEF Accounted, Causes
<1>2. CASE s = t /\ p = q /\ livepush[t] # "none"
  <2>1. p \in updateEventsWaiting'[s]
    BY <1>2 DEF Edit
  <2> QED BY <2>1 DEF Accounted, Pending
<1>3. CASE s # t \/ p # q
  <2>1. PICK packed \in SUBSET {h \in Handlers : svc[h] = t /\ pc[h] = "tar"} :
           ctx' = [h \in Handlers |->
                     IF svc[h] = t /\ (pc[h] = "build" \/ h \in packed)
                       THEN [ctx[h] EXCEPT !.context = @ \ {q}]
                       ELSE ctx[h]]
    BY DEF Edit
  <2>2. \A h \in Handlers : /\ [ctx[h] EXCEPT !.context = @ \ {q}].context = ctx[h].context \ {q}
                            /\ [ctx[h] EXCEPT !.context = @ \ {q}].updated = ctx[h].updated
    BY DEF Ctx
  <2>3. \A h \in Handlers : /\ ctx'[h].updated = ctx[h].updated
                            /\ svc[h] # t => ctx'[h].context = ctx[h].context
                            /\ ctx[h].context \ {q} \subseteq ctx'[h].context
    BY <2>1, <2>2
  <2>4. UNCHANGED <<pc, svc>> /\ image' = [image EXCEPT ![t] = @ \ {q}]
    BY DEF Edit
  <2>5. \A h \in Handlers :
            /\ CarriesIt(h, s, p) => CarriesIt(h, s, p)'
            /\ Packing(h, s)' = Packing(h, s)
            /\ Packing(h, s) /\ p \in ctx[h].context => p \in ctx'[h].context
            /\ Replacing(h, s)' = Replacing(h, s)
    BY <1>3, <2>3, <2>4 DEF CarriesIt, Packing, Replacing
  <2>6. ctr'[s] = IF s = t THEN [ctr[s] EXCEPT !.fresh = @ \ {q}] ELSE ctr[s]
    <3>1. ctr' = [ctr EXCEPT ![t].fresh = @ \ {q}]
      BY DEF Edit
    <3> QED BY <3>1
  <2>7. ctr'[s].up = ctr[s].up /\ (p \in ctr[s].fresh => p \in ctr'[s].fresh)
    BY <1>3, <2>6
  <2>8. p \in image[s] => p \in image'[s]
    BY <1>3, <2>4
  <2>9. p \in updateEventsWaiting[s] => p \in updateEventsWaiting'[s]
    <3>1. \/ UNCHANGED updateEventsWaiting
          \/ updateEventsWaiting' = [updateEventsWaiting EXCEPT ![t] = @ \cup {q}]
      BY DEF Edit
    <3> QED BY <3>1
  <2>10. faults[s] \subseteq faults'[s]
    BY FaultGrows DEF Edit
  <2> QED BY <2>5, <2>7, <2>8, <2>9, <2>10, AccountedKept DEF Covered
<1> QED BY <1>1, <1>2, <1>3

\* The container of t is gone.
LEMMA GoneIsAccounted ==
  ASSUME TypeOK, Covered, DockerfileFollows, NEW t \in Services,
         ContainerExits(t) \/ SupervisorStops(t)
  PROVE  Covered'
<1> USE DEF TypeOK, ManagerTypeOK, CallTypeOK, DeviceTypeOK
<1> SUFFICES ASSUME NEW s \in Services, NEW p \in Paths PROVE Accounted(s, p)'
  BY DEF Covered
<1>1. /\ UNCHANGED <<updateEventsWaiting, image, pc, svc>>
      /\ ctr' = [ctr EXCEPT ![t] = NoContainer]
      /\ \A h \in Handlers : ctx'[h].updated = ctx[h].updated /\ ctx'[h].context = ctx[h].context
  <2>1. /\ UNCHANGED <<updateEventsWaiting, image, pc, svc>>
        /\ ctr' = [ctr EXCEPT ![t] = NoContainer]
        /\ ctx' = CallsWithout(t)
    BY DEF ContainerExits, SupervisorStops, ContainerGone
  <2> QED BY <2>1 DEF CallsWithout, Ctx
<1>2. \A r \in Services : faults[r] \subseteq faults'[r]
  BY FaultGrows DEF ContainerExits, SupervisorStops
<1>3. \A h \in Handlers : /\ CarriesIt(h, s, p)' = CarriesIt(h, s, p)
                          /\ Packing(h, s)' = Packing(h, s)
                          /\ Replacing(h, s)' = Replacing(h, s)
  BY <1>1 DEF CarriesIt, Packing, Replacing
<1>4. CASE s # t
  BY <1>1, <1>2, <1>3, <1>4, AccountedKept DEF Covered
<1>5. CASE s = t /\ ContainerExits(t)
  <2>1. "exited" \in faults'[s] /\ "exited" \in Causes(p)
    BY <1>5, CausesOfAll DEF ContainerExits, Fault
  <2> QED BY <2>1 DEF Accounted, Causes
<1>6. CASE s = t /\ SupervisorStops(t) /\ p # Dockerfile
  <2>1. "replaced" \in faults'[s] /\ "replaced" \in Causes(p)
    BY <1>6 DEF SupervisorStops, Fault, Causes, FaultKinds
  <2> QED BY <2>1 DEF Accounted, Causes
<1>7. CASE s = t /\ p = Dockerfile
  <2>1. CASE faults[s] \cap Causes(p) # {}
    BY <1>2, <2>1 DEF Accounted, Causes
  <2>2. CASE Pending(s, p)
    BY <1>1, <1>3, <2>2 DEF Accounted, Pending
  <2>3. CASE faults[s] \cap Causes(p) = {} /\ Coming(s, p)
    <3>1. "overlap" \notin faults[s]
      BY <2>3, CausesOfAll
    <3>2. p \in ctr[s].fresh => p \in image[s]
      BY <1>7, <3>1 DEF DockerfileFollows
    <3>3. Coming(s, p)'
      BY <1>1, <1>3, <1>7, <2>3, <3>2 DEF Coming, NoContainer
    <3> QED BY <3>3 DEF Accounted
  <2> QED BY <2>1, <2>2, <2>3 DEF Covered, Accounted
<1> QED BY <1>4, <1>5, <1>6, <1>7

\* The batch of t is taken by a new call, or dropped.
LEMMA FireIsAccounted ==
  ASSUME LivepushAssumption, TypeOK, Covered, NEW t \in Services,
         \/ SkipLivepush(t)
         \/ \E h \in Handlers : Fire(h, t)
  PROVE  Covered'
<1> USE DEF TypeOK, ManagerTypeOK, CallTypeOK, DeviceTypeOK
<1> SUFFICES ASSUME NEW s \in Services, NEW p \in Paths PROVE Accounted(s, p)'
  BY DEF Covered
<1>1. ASSUME SkipLivepush(t) PROVE Accounted(s, p)'
  <2>1. CASE s = t /\ p # Dockerfile
    <3>1. "staleDockerfile" \in faults'[s] /\ "staleDockerfile" \in Causes(p)
      BY <1>1, <2>1 DEF SkipLivepush, Fault, Causes, FaultKinds
    <3> QED BY <3>1 DEF Accounted, Causes
  <2>2. CASE s # t \/ p = Dockerfile
    <3>1. /\ UNCHANGED <<image, ctr, pc, svc, ctx>>
          /\ p \in updateEventsWaiting[s] => p \in updateEventsWaiting'[s]
      BY <1>1, <2>2 DEF SkipLivepush, callVars, deviceVars
    <3>2. faults[s] \subseteq faults'[s]
      BY <1>1, FaultGrows DEF SkipLivepush
    <3> QED BY <3>1, <3>2, AccountedKept DEF Covered, CarriesIt, Packing, Replacing
  <2> QED BY <2>1, <2>2
<1>2. ASSUME NEW h \in Handlers, StartRebuild(h, t) PROVE Accounted(s, p)'
  <2>1. /\ pc[h] = "idle" /\ svc' = [svc EXCEPT ![h] = t] /\ UNCHANGED <<ctr, image>>
        /\ ctx'[h].context = Paths /\ \A g \in Handlers \ {h} : ctx'[g] = ctx[g]
        /\ \A r \in Services \ {t} : updateEventsWaiting'[r] = updateEventsWaiting[r]
        /\ BeginRebuild(h, t)
    BY <1>2 DEF StartRebuild, TakeEvents, Blank, deviceVars
  <2>2. CASE s = t
    BY <2>1, <2>2, AccountedBegins
  <2>3. CASE s # t
    <3>1. faults[s] \subseteq faults'[s]
      BY <2>1, FaultGrows DEF BeginRebuild
    <3>2. \A g \in Handlers :
            /\ CarriesIt(g, s, p) => CarriesIt(g, s, p)'
            /\ Packing(g, s)' = Packing(g, s)
            /\ Packing(g, s) /\ p \in ctx[g].context => p \in ctx'[g].context
            /\ Replacing(g, s)' = Replacing(g, s)
      BY <2>1, <2>3 DEF BeginRebuild, CarriesIt, Packing, Replacing, Waiting, Building
    <3> QED BY <2>1, <2>3, <3>1, <3>2, AccountedKept DEF Covered
  <2> QED BY <2>2, <2>3
<1>3. ASSUME NEW h \in Handlers, CancelRebuild(h, t) PROVE Accounted(s, p)'
  <2>1. /\ pc[h] = "idle" /\ svc' = [svc EXCEPT ![h] = t] /\ UNCHANGED <<ctr, image, faults>>
        /\ pc'[h] \in Waiting /\ \A g \in Handlers \ {h} : pc'[g] = pc[g]
        /\ \A r \in Services \ {t} : updateEventsWaiting'[r] = updateEventsWaiting[r]
    BY <1>3 DEF CancelRebuild, Waiting, deviceVars
  <2>2. \A g \in Handlers \ {h} : /\ ctx'[g].updated = ctx[g].updated
                                  /\ ctx'[g].context = ctx[g].context
    BY <1>3 DEF CancelRebuild, Ctx
  <2>3. CASE s = t
    <3>1. CarriesIt(h, s, p)'
      BY <2>1, <2>3 DEF CarriesIt
    <3> QED BY <3>1 DEF Accounted, Pending
  <2>4. CASE s # t
    <3>1. \A g \in Handlers :
            /\ CarriesIt(g, s, p) => CarriesIt(g, s, p)'
            /\ Packing(g, s)' = Packing(g, s)
            /\ Packing(g, s) /\ p \in ctx[g].context => p \in ctx'[g].context
            /\ Replacing(g, s)' = Replacing(g, s)
      BY <2>1, <2>2, <2>4 DEF CarriesIt, Packing, Replacing, Waiting, Building
    <3> QED BY <2>1, <2>4, <3>1, AccountedKept DEF Covered
  <2> QED BY <2>3, <2>4
<1>4. ASSUME NEW h \in Handlers, StartLivepush(h, t) PROVE Accounted(s, p)'
  <2>1. /\ pc[h] = "idle" /\ svc' = [svc EXCEPT ![h] = t] /\ UNCHANGED <<ctr, image, faults>>
        /\ pc' = [pc EXCEPT ![h] = "livepush"] /\ \A g \in Handlers \ {h} : ctx'[g] = ctx[g]
        /\ \A r \in Services \ {t} : updateEventsWaiting'[r] = updateEventsWaiting[r]
    BY <1>4 DEF StartLivepush, TakeEvents, deviceVars
  <2>2. ctx'[h].updated = updateEventsWaiting[t]
    BY <1>4 DEF StartLivepush, TakeEvents, Blank
  <2>3. \A g \in Handlers :
          /\ CarriesIt(g, s, p) => CarriesIt(g, s, p)'
          /\ Packing(g, s)' = Packing(g, s)
          /\ Packing(g, s) /\ p \in ctx[g].context => p \in ctx'[g].context
          /\ Replacing(g, s)' = Replacing(g, s)
    BY <2>1 DEF CarriesIt, Packing, Replacing, Waiting, Building
  <2>4. CASE s = t /\ p \in updateEventsWaiting[s]
    <3>1. CarriesIt(h, s, p)'
      BY <2>1, <2>2, <2>4 DEF CarriesIt
    <3> QED BY <3>1 DEF Accounted, Pending
  <2>5. CASE ~(s = t /\ p \in updateEventsWaiting[s])
    BY <2>1, <2>3, <2>5, AccountedKept DEF Covered
  <2> QED BY <2>4, <2>5
<1> QED BY <1>1, <1>2, <1>3, <1>4 DEF Fire

\* A push ends.  Its paths are in the container, and in the one that replaces
\* it if there is to be one; or the batch is lost, and that is noted.
LEMMA PushIsAccounted ==
  ASSUME LivepushAssumption, TypeOK, Coupling, LiveIsUp, OneRebuild, PushLeavesDockerfile, Covered,
         NEW h \in Handlers, LivepushDone(h) \/ LivepushFails(h)
  PROVE  Covered'
<1> USE DEF TypeOK, ManagerTypeOK, CallTypeOK, DeviceTypeOK
<1> SUFFICES ASSUME NEW s \in Services, NEW p \in Paths PROVE Accounted(s, p)'
  BY DEF Covered
<1>1. /\ pc[h] = "livepush" /\ svc[h] \in Services
      /\ Return(h) /\ UNCHANGED <<updateEventsWaiting, image>>
  BY DEF LivepushDone, LivepushFails, Coupling, BusyHasService, managerVars, deviceVars
<1>2. \A g \in Handlers \ {h} : pc'[g] = pc[g] /\ svc'[g] = svc[g] /\ ctx'[g] = ctx[g]
  BY <1>1 DEF Return
<1>3. pc'[h] = "idle" /\ svc'[h] = None
  BY <1>1 DEF Return
<1>4. faults[s] \subseteq faults'[s]
  BY FaultGrows DEF LivepushDone, LivepushFails
<1>5. /\ ctr'[s].up = ctr[s].up
      /\ \/ ctr'[s].fresh = ctr[s].fresh
         \/ s = svc[h] /\ LivepushDone(h) /\ ctr'[s].fresh = ctr[s].fresh \cup ctx[h].updated
  <2>1. CASE LivepushDone(h)
    <3>1. ctr' = [ctr EXCEPT ![svc[h]].fresh = @ \cup ctx[h].updated]
      BY <2>1 DEF LivepushDone
    <3>2. ctr'[s] = IF s = svc[h] THEN [ctr[s] EXCEPT !.fresh = @ \cup ctx[h].updated] ELSE ctr[s]
      BY <3>1
    <3> QED BY <2>1, <3>2
  <2>2. CASE LivepushFails(h)
    BY <2>2 DEF LivepushFails, deviceVars
  <2> QED BY <2>1, <2>2
<1>6. ASSUME ~(s = svc[h] /\ p \in ctx[h].updated) PROVE Accounted(s, p)'
  <2>1. \A g \in Handlers :
          /\ CarriesIt(g, s, p) => CarriesIt(g, s, p)'
          /\ Packing(g, s)' = Packing(g, s)
          /\ Packing(g, s) /\ p \in ctx[g].context => p \in ctx'[g].context
          /\ Replacing(g, s)' = Replacing(g, s)
    BY <1>1, <1>2, <1>3, <1>6 DEF CarriesIt, Packing, Replacing, Waiting, Building
  <2> QED BY <1>1, <1>4, <1>5, <2>1, AccountedKept DEF Covered
<1>7. ASSUME s = svc[h], p \in ctx[h].updated PROVE Accounted(s, p)'
  <2>1. p # Dockerfile
    BY <1>1, <1>7 DEF PushLeavesDockerfile
  <2>2. CASE LivepushFails(h)
    <3>1. "pushError" \in faults'[s] /\ "pushError" \in Causes(p)
      BY <1>7, <2>1, <2>2 DEF LivepushFails, Fault, Causes, FaultKinds
    <3> QED BY <3>1 DEF Accounted, Causes
  <2>3. CASE LivepushDone(h) /\ "pushedDuringRebuild" \in faults'[s]
    <3>1. "pushedDuringRebuild" \in Causes(p)
      BY <2>1 DEF Causes, FaultKinds
    <3> QED BY <2>3, <3>1 DEF Accounted, Causes
  <2>4. CASE LivepushDone(h) /\ "pushedDuringRebuild" \notin faults'[s]
    <3>1. ctr[s].up /\ p \in ctr'[s].fresh
      <4>1. ctr[s].up
        BY <1>7, <2>4 DEF LivepushDone, LiveIsUp
      <4>2. ctr' = [ctr EXCEPT ![s].fresh = @ \cup ctx[h].updated]
        BY <1>7, <2>4 DEF LivepushDone
      <4>3. ctr'[s] = [ctr[s] EXCEPT !.fresh = @ \cup ctx[h].updated]
        BY <4>2
      <4> QED BY <1>7, <4>1, <4>3
    <3>2. \A g \in Handlers : InRebuild(g, s) =>
             ctx[h].updated \subseteq IF pc[g] \in Building THEN ctx[g].context ELSE image[s]
      BY <1>7, <2>4 DEF LivepushDone, Fault
    <3>3. \A g \in Handlers : Packing(g, s)' => p \in ctx'[g].context
      BY <1>2, <1>3, <1>7, <3>2 DEF Packing, InRebuild, RebuildPCs, Building
    <3>4. \A g \in Handlers : Replacing(g, s)' => p \in image'[s]
      BY <1>1, <1>2, <1>3, <1>7, <3>2 DEF Replacing, InRebuild, RebuildPCs, Building, Deploying
    <3>5. Coming(s, p)'
      BY <1>5, <3>1, <3>3, <3>4 DEF Coming
    <3> QED BY <3>5 DEF Accounted
  <2> QED BY <2>2, <2>3, <2>4
<1> QED BY <1>6, <1>7


\* The supervisor starts the container of t from its image.
LEMMA StartIsAccounted ==
  ASSUME TypeOK, Covered, NEW t \in Services, SupervisorStarts(t)
  PROVE  Covered'
<1> USE DEF TypeOK, DeviceTypeOK
<1> SUFFICES ASSUME NEW s \in Services, NEW p \in Paths PROVE Accounted(s, p)'
  BY DEF Covered
<1>1. /\ UNCHANGED <<updateEventsWaiting, image, pc, svc, ctx, faults>>
      /\ ~ctr[t].up
      /\ ctr' = [ctr EXCEPT ![t] = [up |-> TRUE, fresh |-> image[t], env |-> EnvOf(t)]]
  BY DEF SupervisorStarts, managerVars, callVars
<1>2. CASE s # t
  BY <1>1, <1>2, AccountedKept DEF Covered, CarriesIt, Packing, Replacing
<1>3. CASE s = t
  <2>1. ctr'[s].up /\ ctr'[s].fresh = image[s]
    BY <1>1, <1>3
  <2>2. CASE faults[s] \cap Causes(p) # {}
    BY <1>1, <2>2 DEF Accounted, Causes
  <2>3. CASE Pending(s, p)
    BY <1>1, <2>3 DEF Accounted, Pending, CarriesIt
  <2>4. CASE Coming(s, p)
    <3>1. Coming(s, p)'
      BY <1>1, <1>3, <2>1, <2>4 DEF Coming, Packing, Replacing
    <3> QED BY <3>1 DEF Accounted
  <2> QED BY <2>2, <2>3, <2>4 DEF Covered, Accounted
<1> QED BY <1>2, <1>3

\* livepush.cancel() loses the batches of running pushes: the call that
\* cancelled them is going to rebuild the service.
LEMMA CancelIsAccounted ==
  ASSUME LivepushAssumption, TypeOK, Covered, NEW h \in Handlers, CancelLivepush(h)
  PROVE  Covered'
<1> USE DEF TypeOK, CallTypeOK, DeviceTypeOK
<1> SUFFICES ASSUME NEW s \in Services, NEW p \in Paths PROVE Accounted(s, p)'
  BY DEF Covered
<1>1. /\ UNCHANGED <<updateEventsWaiting, image, ctr, faults>>
      /\ pc[h] = "cancelLivepush" /\ pc'[h] = "wait" /\ svc'[h] = svc[h]
  BY DEF CancelLivepush, managerVars, deviceVars
<1>2. CASE s = svc[h]
  <2>1. CarriesIt(h, s, p)'
    BY <1>1, <1>2 DEF CarriesIt, Waiting
  <2> QED BY <2>1 DEF Accounted, Pending
<1>3. CASE s # svc[h]
  <2>1. \A g \in Handlers : svc[g] = s => pc'[g] = pc[g]
    BY <1>1, <1>3 DEF CancelLivepush
  <2>2. \A g \in Handlers : svc[g] = s /\ pc[g] # "idle" => svc'[g] = svc[g] /\ ctx'[g] = ctx[g]
    BY <1>3, <2>1 DEF CancelLivepush
  <2>3. \A g \in Handlers : svc'[g] = s => svc[g] = s
    BY LivepushAssumption DEF CancelLivepush
  <2>4. \A g \in Handlers :
          /\ CarriesIt(g, s, p) => CarriesIt(g, s, p)'
          /\ Packing(g, s)' = Packing(g, s)
          /\ Packing(g, s) /\ p \in ctx[g].context => p \in ctx'[g].context
          /\ Replacing(g, s)' = Replacing(g, s)
    BY <2>1, <2>2, <2>3 DEF CarriesIt, Packing, Replacing, Waiting, Building
  <2> QED BY <1>1, <2>4, AccountedKept DEF Covered
<1> QED BY <1>2, <1>3

\* The wait for a cancelled rebuild is over.
LEMMA WaitIsAccounted ==
  ASSUME LivepushAssumption, TypeOK, Coupling, Covered, NEW h \in Handlers, WaitOver(h)
  PROVE  Covered'
<1> USE DEF TypeOK, CallTypeOK, DeviceTypeOK
<1> SUFFICES ASSUME NEW s \in Services, NEW p \in Paths PROVE Accounted(s, p)'
  BY DEF Covered
<1>1. /\ UNCHANGED <<updateEventsWaiting, image, ctr, svc>>
      /\ pc[h] = "wait" /\ BeginRebuild(h, svc[h])
      /\ \A g \in Handlers \ {h} : ctx'[g] = ctx[g]
  BY DEF WaitOver, managerVars, deviceVars
<1>2. svc[h] \in Services
  BY <1>1 DEF Coupling, BusyHasService
<1>3. CASE s = svc[h]
  <2>1. ctx'[h].context = Paths
    BY DEF WaitOver, Ctx
  <2>2. svc' = [svc EXCEPT ![h] = s]
    BY <1>1, <1>3
  <2> QED BY <1>1, <1>3, <2>1, <2>2, AccountedBegins
<1>4. CASE s # svc[h]
  <2>1. \A g \in Handlers \ {h} : pc'[g] = pc[g]
    BY <1>1 DEF BeginRebuild
  <2>2. faults[s] \subseteq faults'[s]
    BY <1>1, FaultGrows DEF BeginRebuild
  <2>3. svc'[h] # s /\ Accounted(s, p)
    BY <1>1, <1>4 DEF Covered
  <2> QED BY <1>1, <1>4, <2>1, <2>2, <2>3, AccountedElsewhere
<1> QED BY <1>3, <1>4

\* A build that is over for h leaves the calls of other services alone.
LEMMA BuildElsewhere ==
  ASSUME LivepushAssumption, TypeOK, NEW s \in Services, NEW p \in Paths, Accounted(s, p),
         NEW h \in Handlers, svc[h] # s, BuildDone(h) \/ BuildFails(h)
  PROVE  Accounted(s, p)'
<1> USE DEF TypeOK, CallTypeOK, DeviceTypeOK
<1>1. /\ UNCHANGED <<updateEventsWaiting, ctr>> /\ image'[s] = image[s]
      /\ \A g \in Handlers \ {h} : pc'[g] = pc[g] /\ svc'[g] = svc[g]
      /\ svc'[h] # s
  BY LivepushAssumption DEF BuildDone, BuildFails, BuildEnds, managerVars, deviceVars
<1>2. \A g \in Handlers \ {h} : /\ ctx'[g].updated = ctx[g].updated
                                /\ ctx'[g].context = ctx[g].context
  <2>1. \/ ctx' = [CallsAfterBuild(h) EXCEPT ![h] = Blank]
        \/ ctx' = [CallsAfterBuild(h) EXCEPT ![h].context = {}]
    BY DEF BuildDone, BuildFails
  <2> QED BY <2>1, BuildReturnsCalls, BuildDeploysCalls
<1>3. faults[s] \subseteq faults'[s]
  BY FaultGrows DEF BuildDone, BuildFails
<1> QED BY <1>1, <1>2, <1>3, AccountedElsewhere

\* A rebuild that returns because it was cancelled leaves the request that
\* cancelled it.
LEMMA CancelledIsAccounted ==
  ASSUME LivepushAssumption, TypeOK, CancelHasRequest, NEW h \in Handlers, NEW s \in Services,
         pc[h] \in Building, rebuildsCancelled[s],
         \A g \in Handlers \ {h} : pc'[g] = pc[g] /\ svc'[g] = svc[g]
  PROVE  \A p \in Paths : Accounted(s, p)'
<1>1. PICK g \in Handlers : svc[g] = s /\ pc[g] \in Waiting
  BY DEF CancelHasRequest
<1>2. g # h
  BY <1>1 DEF Waiting, Building
<1>3. \A p \in Paths : CarriesIt(g, s, p)'
  BY <1>1, <1>2 DEF CarriesIt
<1> QED BY <1>3 DEF Accounted, Pending

\* A build succeeds: what its context held is in the image that the rebuild
\* is going to deploy.
LEMMA BuildIsAccounted ==
  ASSUME LivepushAssumption, TypeOK, Coupling, Cancelling, Covered,
         NEW h \in Handlers, BuildDone(h)
  PROVE  Covered'
<1> USE DEF TypeOK, ManagerTypeOK, CallTypeOK, DeviceTypeOK
<1> SUFFICES ASSUME NEW s \in Services, NEW p \in Paths PROVE Accounted(s, p)'
  BY DEF Covered
<1>1. CASE s # svc[h]
  BY <1>1, BuildElsewhere DEF Covered
<1>2. CASE s = svc[h] /\ rebuildsCancelled[s]
  <2>1. pc[h] \in Building /\ \A g \in Handlers \ {h} : pc'[g] = pc[g] /\ svc'[g] = svc[g]
    BY DEF BuildDone, Building
  <2> QED BY <1>2, <2>1, CancelledIsAccounted DEF Cancelling
<1>3. CASE s = svc[h] /\ ~rebuildsCancelled[s]
  <2>1. /\ UNCHANGED <<updateEventsWaiting, ctr, svc, faults>>
        /\ pc[h] = "build" /\ pc' = [pc EXCEPT ![h] = "getId"]
        /\ image'[s] = ctx[h].context
        /\ ctx' = [CallsAfterBuild(h) EXCEPT ![h].context = {}]
    BY <1>3 DEF BuildDone, BuildEnds, managerVars
  <2>2. \A g \in Handlers : ctx'[g].updated = ctx[g].updated
    BY <2>1, BuildDeploysCalls
  <2>3. CASE faults[s] \cap Causes(p) # {}
    BY <2>1, <2>3 DEF Accounted, Causes
  <2>4. CASE Pending(s, p)
    <3>1. \A g \in Handlers : CarriesIt(g, s, p) => CarriesIt(g, s, p)'
      BY <2>1, <2>2 DEF CarriesIt, Waiting
    <3> QED BY <2>1, <2>4, <3>1 DEF Accounted, Pending
  <2>5. CASE faults[s] \cap Causes(p) = {} /\ Coming(s, p)
    <3>1. "overlap" \notin faults[s]
      BY <2>5, CausesOfAll
    <3>2. \A g \in Handlers : InRebuild(g, s) => g = h
      BY <1>3, <2>1, <3>1 DEF Cancelling, OneRebuild, InRebuild, RebuildPCs, Building
    <3>3. p \in ctx[h].context
      BY <1>3, <2>1, <2>5 DEF Coming, Packing, Building
    <3>4. Replacing(h, s)' /\ \A g \in Handlers : ~Packing(g, s)'
      BY <1>3, <2>1, <3>2 DEF Replacing, Packing, InRebuild, RebuildPCs, Building
    <3>5. Coming(s, p)'
      BY <2>1, <3>3, <3>4 DEF Coming
    <3> QED BY <3>5 DEF Accounted
  <2> QED BY <2>3, <2>4, <2>5 DEF Covered, Accounted
<1> QED BY <1>1, <1>2, <1>3

\* A build fails: that is logged, or the rebuild was cancelled.
LEMMA FailureIsAccounted ==
  ASSUME LivepushAssumption, TypeOK, Coupling, Cancelling, Covered,
         NEW h \in Handlers, BuildFails(h)
  PROVE  Covered'
<1> USE DEF TypeOK, ManagerTypeOK, CallTypeOK, DeviceTypeOK
<1> SUFFICES ASSUME NEW s \in Services, NEW p \in Paths PROVE Accounted(s, p)'
  BY DEF Covered
<1>1. CASE s # svc[h]
  BY <1>1, BuildElsewhere DEF Covered
<1>2. CASE s = svc[h] /\ rebuildsCancelled[s]
  <2>1. pc[h] \in Building /\ \A g \in Handlers \ {h} : pc'[g] = pc[g] /\ svc'[g] = svc[g]
    BY DEF BuildFails
  <2> QED BY <1>2, <2>1, CancelledIsAccounted DEF Cancelling
<1>3. CASE s = svc[h] /\ ~rebuildsCancelled[s]
  <2>1. "rebuildError" \in faults'[s] /\ "rebuildError" \in Causes(p)
    BY <1>3, CausesOfAll DEF BuildFails, Fault
  <2> QED BY <2>1 DEF Accounted, Causes
<1> QED BY <1>1, <1>2, <1>3

\* A rebuild removes the container: the one that replaces it is made from the
\* image that the rebuild built.
LEMMA RemovalIsAccounted ==
  ASSUME LivepushAssumption, TypeOK, Coupling, OneRebuild, Covered,
         NEW h \in Handlers, RemoveContainer(h)
  PROVE  Covered'
<1> USE DEF TypeOK, ManagerTypeOK, CallTypeOK, DeviceTypeOK
<1> SUFFICES ASSUME NEW s \in Services, NEW p \in Paths PROVE Accounted(s, p)'
  BY DEF Covered
<1>1. /\ UNCHANGED <<updateEventsWaiting, image, svc, faults>>
      /\ pc[h] = "remove" /\ pc' = [pc EXCEPT ![h] = "setTarget"]
      /\ ctr' = [ctr EXCEPT ![svc[h]] = NoContainer]
      /\ ctx' = CallsWithout(svc[h])
  BY DEF RemoveContainer, ContainerGone
<1>2. \A g \in Handlers : ctx'[g].updated = ctx[g].updated /\ ctx'[g].context = ctx[g].context
  BY <1>1 DEF CallsWithout, Ctx
<1>3. CASE s # svc[h]
  <2>1. ctr'[s] = ctr[s]
    BY <1>1, <1>3
  <2> QED BY <1>1, <1>2, <1>3, <2>1, AccountedElsewhere DEF Covered
<1>4. CASE s = svc[h]
  <2>1. CASE faults[s] \cap Causes(p) # {}
    BY <1>1, <2>1 DEF Accounted, Causes
  <2>2. CASE Pending(s, p)
    <3>1. \A g \in Handlers : CarriesIt(g, s, p) => CarriesIt(g, s, p)'
      BY <1>1, <1>2 DEF CarriesIt, Waiting
    <3> QED BY <1>1, <2>2, <3>1 DEF Accounted, Pending
  <2>3. CASE faults[s] \cap Causes(p) = {} /\ Coming(s, p)
    <3>1. "overlap" \notin faults[s]
      BY <2>3, CausesOfAll
    <3>2. \A g \in Handlers : InRebuild(g, s) => g = h
      BY <1>1, <1>4, <3>1 DEF OneRebuild, InRebuild, RebuildPCs, Deploying
    <3>3. \A g \in Handlers : ~Packing(g, s) /\ ~Packing(g, s)'
      BY <1>1, <3>2 DEF Packing, InRebuild, RebuildPCs, Building
    <3>4. Replacing(h, s)
      BY <1>1, <1>4 DEF Replacing
    <3>5. p \in image[s]
      BY <2>3, <3>3, <3>4 DEF Coming
    <3>6. ~ctr'[s].up
      BY <1>1, <1>4 DEF NoContainer
    <3>7. Coming(s, p)'
      BY <1>1, <3>3, <3>5, <3>6 DEF Coming
    <3> QED BY <3>7 DEF Accounted
  <2> QED BY <2>1, <2>2, <2>3 DEF Covered, Accounted
<1> QED BY <1>3, <1>4

\* Every step accounts for every path of every service.
LEMMA CoveredStep ==
  ASSUME LivepushAssumption, TypeOK, Coupling, HeldIdsAreUp, Cancelling,
         PushLeavesDockerfile, DockerfileFollows, Covered, [Next]_vars
  PROVE  Covered'
<1>1. CASE \E s \in Services, p \in Paths : Edit(s, p)
  BY <1>1, EditIsAccounted
<1>2. ASSUME NEW s \in Services, \/ SkipLivepush(s) \/ ContainerExits(s) \/ SupervisorStops(s)
                                 \/ SupervisorStarts(s) \/ \E h \in Handlers : Fire(h, s)
      PROVE  Covered'
  BY <1>2, FireIsAccounted, GoneIsAccounted, StartIsAccounted
<1>3. CASE \/ InitSettle \/ SupervisorApplied \/ UNCHANGED vars
           \/ \E s \in Services : InitService(s)
           \/ \E h \in Handlers : RunBuildStep(h)
  <2>1. /\ UNCHANGED <<updateEventsWaiting, image, pc, svc, ctx, ctr, faults>>
    BY <1>3 DEF InitSettle, SupervisorApplied, vars, InitService, RunBuildStep, managerVars,
       callVars, deviceVars
  <2> QED BY <2>1, CoveredKept
<1>4. ASSUME NEW h \in Handlers, \/ LivepushDone(h) \/ LivepushFails(h) \/ CancelLivepush(h)
                                 \/ WaitOver(h)
      PROVE  Covered'
  BY <1>4, PushIsAccounted, CancelIsAccounted, WaitIsAccounted DEF HeldIdsAreUp, Cancelling
<1>5. ASSUME NEW h \in Handlers, BuildDone(h) \/ BuildFails(h) \/ RemoveContainer(h)
      PROVE  Covered'
  BY <1>5, BuildIsAccounted, FailureIsAccounted, RemovalIsAccounted DEF Cancelling
<1>6. ASSUME NEW h \in Handlers, RebuildThrows(h), pc[h] \in Deploying,
             UNCHANGED <<updateEventsWaiting, ctr, image>>
      PROVE  Covered'
  BY <1>6, AccountedThrows DEF RebuildPCs
<1>7. ASSUME NEW h \in Handlers, RemoveFails(h) \/ AttachFails(h) PROVE Covered'
  BY <1>6, <1>7 DEF RemoveFails, AttachFails, Deploying, managerVars, deviceVars
<1>8. ASSUME NEW h \in Handlers, NEW q \in PCs,
             UNCHANGED <<updateEventsWaiting, ctr, image, svc, faults>>,
             pc' = [pc EXCEPT ![h] = q],
             \A g \in Handlers : /\ ctx'[g].updated = ctx[g].updated
                                 /\ ctx'[g].context = ctx[g].context,
             \/ pc[h] \in Waiting /\ q \in Waiting
             \/ pc[h] \in Building /\ q \in Building
             \/ pc[h] \in {"getId", "remove"} /\ q \in {"getId", "remove"}
             \/ /\ pc[h] \in {"setTarget", "settle", "attach"}
                /\ q \in {"setTarget", "settle", "attach"}
      PROVE  Covered'
  BY <1>8, CoveredGoesOn DEF TypeOK, CallTypeOK
<1>9. \A h \in Handlers, b \in BOOLEAN :
         LET f == [ctx EXCEPT ![h].live = b] IN
         \A g \in Handlers : f[g].updated = ctx[g].updated /\ f[g].context = ctx[g].context
  BY DEF TypeOK, CallTypeOK, Ctx
<1>10. ASSUME NEW h \in Handlers, KillBuild(h) PROVE Covered'
  <2>1. \A g \in Handlers : ctx'[g].updated = ctx[g].updated /\ ctx'[g].context = ctx[g].context
    BY <1>10 DEF KillBuild, TypeOK, CallTypeOK, Ctx
  <2>2. \E q \in {"cancelLivepush", "wait"} : pc' = [pc EXCEPT ![h] = q]
    BY <1>10 DEF KillBuild
  <2>3. UNCHANGED <<updateEventsWaiting, ctr, image, svc, faults>> /\ pc[h] = "kill"
    BY <1>10 DEF KillBuild, managerVars, deviceVars
  <2> QED BY <1>8, <2>1, <2>2, <2>3 DEF PCs, Waiting
<1>11. ASSUME NEW h \in Handlers, PackContext(h) PROVE Covered'
  BY <1>8, <1>11 DEF PackContext, managerVars, deviceVars, PCs, RebuildPCs, Building
<1>12. ASSUME NEW h \in Handlers, GetContainerId(h) PROVE Covered'
  <2>1. CASE RebuildThrows(h)
    BY <1>6, <1>12, <2>1 DEF GetContainerId, managerVars, deviceVars, Deploying
  <2>2. CASE ~RebuildThrows(h)
    <3>1. /\ UNCHANGED <<updateEventsWaiting, ctr, image, svc, faults>>
          /\ pc[h] = "getId" /\ pc' = [pc EXCEPT ![h] = "remove"]
          /\ ctx' = [ctx EXCEPT ![h].live = TRUE]
      BY <1>12, <2>2 DEF GetContainerId, managerVars, deviceVars
    <3>2. \A g \in Handlers : ctx'[g].updated = ctx[g].updated /\ ctx'[g].context = ctx[g].context
      BY <3>1, <1>9
    <3> QED BY <1>8, <3>1, <3>2 DEF PCs, RebuildPCs, Deploying
  <2> QED BY <2>1, <2>2
<1>13. ASSUME NEW h \in Handlers, SetTargetState(h) PROVE Covered'
  <2>1. CASE RebuildThrows(h)
    BY <1>6, <1>13, <2>1 DEF SetTargetState, managerVars, Deploying
  <2>2. CASE ~RebuildThrows(h)
    BY <1>8, <1>13, <2>2 DEF SetTargetState, managerVars, PCs, RebuildPCs, Deploying
  <2> QED BY <2>1, <2>2
<1>14. ASSUME NEW h \in Handlers, Settle(h) PROVE Covered'
  <2>1. CASE RebuildThrows(h)
    BY <1>6, <1>14, <2>1 DEF Settle, managerVars, deviceVars, Deploying
  <2>2. CASE ~RebuildThrows(h)
    <3>1. /\ UNCHANGED <<updateEventsWaiting, ctr, image, svc, faults>>
          /\ pc[h] = "settle" /\ \E q \in {"settle", "attach"} : pc' = [pc EXCEPT ![h] = q]
      BY <1>14, <2>2 DEF Settle, managerVars, deviceVars
    <3>2. \E b \in BOOLEAN : ctx' = [ctx EXCEPT ![h].live = b]
      BY <1>14, <2>2 DEF Settle, TypeOK, DeviceTypeOK
    <3>3. \A g \in Handlers : ctx'[g].updated = ctx[g].updated /\ ctx'[g].context = ctx[g].context
      BY <3>2, <1>9
    <3> QED BY <1>8, <3>1, <3>3 DEF PCs, RebuildPCs, Deploying
  <2> QED BY <2>1, <2>2
<1>15. ASSUME NEW h \in Handlers, Attach(h) PROVE Covered'
  <2>1. /\ UNCHANGED <<updateEventsWaiting, image, ctr, faults>>
        /\ pc[h] = "attach" /\ pc'[h] = "idle"
        /\ \A g \in Handlers \ {h} : pc'[g] = pc[g] /\ svc'[g] = svc[g] /\ ctx'[g] = ctx[g]
    BY <1>15 DEF Attach, Return, deviceVars, TypeOK, CallTypeOK
  <2> QED BY <2>1, CoveredGoesOn
<1> QED
  BY <1>1, <1>2, <1>3, <1>4, <1>5, <1>7, <1>10, <1>11, <1>12, <1>13, <1>14, <1>15
     DEF Next, Proceed, Supervisor

-----------------------------------------------------------------------------
(* The invariant of the whole session, and what it says of a quiet service *)

SessionInv == IInv /\ HeldIdsAreUp /\ Cancelling /\ Restoring /\ Accounts

\* No call runs, every image and context holds what is on disk, and the device
\* is about to start the containers.
LEMMA SessionInit == Init => SessionInv
<1> SUFFICES ASSUME Init PROVE SessionInv
  OBVIOUS
<1>1. IInv
  BY LivepushAssumption, TypeInit, CouplingInit DEF IInv
<1>2. HeldIdsAreUp
  BY LivepushAssumption DEF Init, HeldIdsAreUp, LiveIsUp, AttachedIsUp
<1>3. Cancelling
  BY DEF Init, Cancelling, OneRebuild, CancelHasRequest, SupersededIsCancelled, InRebuild,
     RebuildPCs, Building, Deploying, Blank
<1>4. Restoring
  BY DEF Init, Restoring, DownIsExplained, ToBeStarted, EnvIsTarget, DetachedIsExplained,
     NoContainer
<1>5. PushLeavesDockerfile /\ DockerfileFollows
  BY DEF Init, PushLeavesDockerfile, DockerfileFollows, Packing, Building, NoContainer, Paths
<1>6. Covered
  <2> SUFFICES ASSUME NEW s \in Services, NEW p \in Paths PROVE Accounted(s, p)
    BY DEF Covered
  <2>1. Coming(s, p)
    BY DEF Init, Coming, Packing, Building, NoContainer
  <2> QED BY <2>1 DEF Accounted
<1> QED BY <1>1, <1>2, <1>3, <1>4, <1>5, <1>6 DEF SessionInv, Accounts

\* The inductive invariant of the session.
THEOREM SessionInductive == Spec => []SessionInv
<1>1. Init => SessionInv
  BY SessionInit
<1>2. ASSUME SessionInv, [Next]_vars PROVE SessionInv'
  <2>1. TypeOK /\ Coupling /\ HeldIdsAreUp /\ Cancelling /\ Restoring
    BY <1>2 DEF SessionInv, IInv
  <2>2. OneRebuild /\ PushLeavesDockerfile /\ DockerfileFollows /\ Covered
    BY <1>2 DEF SessionInv, Accounts, Cancelling
  <2>3. IInv'
    BY <1>2, <2>1, LivepushAssumption, ManagerTypeStep, CallTypeStep, DeviceTypeStep, CouplingStep
       DEF IInv, TypeOK
  <2>4. HeldIdsAreUp' /\ Cancelling' /\ Restoring'
    BY <1>2, <2>1, LivepushAssumption, HeldIdsStep, CancellingStep, RestoringStep
  <2>5. Accounts'
    BY <1>2, <2>1, <2>2, LivepushAssumption, PushStep, FollowsStep, CoveredStep DEF Accounts
  <2> QED BY <2>3, <2>4, <2>5 DEF SessionInv
<1> QED BY <1>1, <1>2, PTL DEF Spec

\* A quiet service whose container runs but lacks a path on disk, or whose
\* container is down, has met one of the causes that the code does not cover;
\* that holds of the Dockerfile without the causes that only files have.
THEOREM EditsAreNotForgotten == Spec => []LossIsExplained
<1>1. SessionInv => LossIsExplained
  <2> SUFFICES ASSUME SessionInv PROVE LossIsExplained
    OBVIOUS
  <2> SUFFICES ASSUME NEW s \in Services, Quiet(s), NEW p \in Paths, p \notin ctr[s].fresh
               PROVE  faults[s] \cap Causes(p) # {}
    <3>1. \A r \in Services : ctr[r].fresh \subseteq Paths
      BY DEF SessionInv, IInv, TypeOK, DeviceTypeOK
    <3>2. Dockerfile \in Paths /\ \A q \in Paths : Causes(q) \subseteq FaultKinds
      BY DEF Paths, Causes, FaultKinds
    <3> QED BY <3>1, <3>2 DEF LossIsExplained, Causes
  <2>1. Accounted(s, p)
    BY DEF SessionInv, Accounts, Covered
  <2>2. \A h \in Handlers : svc[h] # s
    BY DEF Quiet
  <2>3. ~Pending(s, p)
    BY <2>2 DEF Quiet, Pending, CarriesIt
  <2>4. CASE ctr[s].up
    BY <2>1, <2>2, <2>3, <2>4 DEF Accounted, Coming, Packing, Replacing
  <2>5. CASE ~ctr[s].up
    <3>1. faults[s] \cap {"rebuildError", "exited"} # {}
      BY <2>2, <2>5 DEF SessionInv, Restoring, DownIsExplained, ToBeStarted, Quiet
    <3> QED BY <3>1, CausesOfAll
  <2> QED BY <2>4, <2>5
<1> QED BY SessionInductive, <1>1, PTL

\* Whatever the order in which rebuilds of a service remove its container,
\* and cancel one another, a quiet service is down only after a logged error
\* or because its container ended.
THEOREM RebuildPutsBack == Spec => []ServiceKeepsRunning
<1>1. SessionInv => ServiceKeepsRunning
  BY DEF SessionInv, Restoring, DownIsExplained, ToBeStarted, ServiceKeepsRunning, Quiet
<1> QED BY SessionInductive, <1>1, PTL

\* A rebuild that was cancelled before the check of rebuildsCancelled gets
\* past it only if another rebuild of the service overlapped with it.
THEOREM CancelledStops == Spec => []CancelledGoesOnIfReset
<1>1. SessionInv => CancelledGoesOnIfReset
  BY DEF SessionInv, Cancelling, SupersededIsCancelled, CancelledGoesOnIfReset, Building, Deploying
<1> QED BY SessionInductive, <1>1, PTL

\* On a device that does not fail, a quiet service that is watched runs, and
\* the livepush instance holds the id of the container that runs, unless the
\* supervisor replaced that container.
THEOREM QuietServiceIsAttached ==
  ASSUME ~Failures
  PROVE  Spec => []QuietIsAttached
<1>1. SessionInv => QuietIsAttached
  <2> SUFFICES ASSUME SessionInv, NEW s \in Services, Quiet(s), livepush[s] # "none"
               PROVE  ctr[s].up /\ (livepush[s] = "attached" \/ "replaced" \in faults[s])
    BY DEF QuietIsAttached
  <2>1. ctr[s].up
    BY DEF SessionInv, Restoring, DownIsExplained, ToBeStarted, Quiet
  <2>2. livepush[s] \in {"attached", "detached"}
    BY DEF SessionInv, IInv, TypeOK, ManagerTypeOK
  <2>3. livepush[s] = "detached" => "replaced" \in faults[s]
    BY DEF SessionInv, Restoring, DetachedIsExplained, Quiet
  <2> QED BY <2>1, <2>2, <2>3
<1> QED BY SessionInductive, <1>1, PTL

\* On a device that does not fail, a container goes down because a rebuild of
\* its own service removes it, or because the target state a rebuild has set
\* lost its variables of --env.
THEOREM RebuildSparesOthers ==
  ASSUME ~Failures
  PROVE  Spec => RebuildTakesDownOwn
<1> DEFINE Own == \A s \in Services : ctr[s].up /\ ~ctr'[s].up =>
                    \/ \E h \in Handlers : svc[h] = s /\ pc[h] = "remove" /\ pc'[h] = "setTarget"
                    \/ ctr[s].env /\ ~targetEnv
<1>1. SessionInv /\ [Next]_vars => [Own]_vars
  <2> SUFFICES ASSUME SessionInv, [Next]_vars, NEW s \in Services, ctr[s].up, ~ctr'[s].up
               PROVE  \/ \E h \in Handlers : svc[h] = s /\ pc[h] = "remove" /\ pc'[h] = "setTarget"
                      \/ ctr[s].env /\ ~targetEnv
    OBVIOUS
  <2> USE DEF TypeOK, DeviceTypeOK, CallTypeOK
  <2>1. TypeOK
    BY DEF SessionInv, IInv
  <2>2. ~UNCHANGED ctr
    OBVIOUS
  <2>3. \/ \E t \in Services, p \in Paths : Edit(t, p)
        \/ \E t \in Services : SupervisorStarts(t) \/ SupervisorStops(t)
        \/ \E h \in Handlers : LivepushDone(h) \/ RemoveContainer(h)
    <3> USE <2>2 DEF vars, deviceVars
    <3>1. /\ ~InitSettle /\ ~SupervisorApplied /\ ~UNCHANGED vars
          /\ \A t \in Services : ~InitService(t) /\ ~SkipLivepush(t) /\ ~ContainerExits(t)
      BY DEF InitSettle, SupervisorApplied, InitService, SkipLivepush, ContainerExits
    <3>2. \A h \in Handlers, t \in Services : ~Fire(h, t)
      BY DEF Fire, StartRebuild, CancelRebuild, StartLivepush
    <3>3. \A h \in Handlers :
            /\ ~LivepushFails(h) /\ ~KillBuild(h) /\ ~CancelLivepush(h) /\ ~WaitOver(h)
            /\ ~PackContext(h) /\ ~RunBuildStep(h) /\ ~BuildDone(h) /\ ~BuildFails(h)
      BY DEF LivepushFails, KillBuild, CancelLivepush, WaitOver, PackContext, RunBuildStep,
         BuildDone, BuildFails
    <3>4. \A h \in Handlers :
            /\ ~GetContainerId(h) /\ ~RemoveFails(h) /\ ~SetTargetState(h)
            /\ ~Settle(h) /\ ~Attach(h) /\ ~AttachFails(h)
      BY DEF GetContainerId, RemoveFails, SetTargetState, Settle, Attach, AttachFails
    <3> QED BY <3>1, <3>2, <3>3, <3>4 DEF Next, Supervisor, Proceed
  <2>4. ~\E t \in Services, p \in Paths : Edit(t, p)
    BY <2>1 DEF Edit
  <2>5. ASSUME NEW h \in Handlers, LivepushDone(h) PROVE FALSE
    <3>1. ctr' = [ctr EXCEPT ![svc[h]].fresh = @ \cup ctx[h].updated]
      BY <2>5 DEF LivepushDone
    <3>2. ctr'[s].up = ctr[s].up
      BY <2>1, <3>1
    <3> QED BY <3>2
  <2>6. ~\E t \in Services : SupervisorStarts(t)
    BY <2>1 DEF SupervisorStarts
  <2>7. ASSUME NEW h \in Handlers, RemoveContainer(h)
        PROVE  svc[h] = s /\ pc[h] = "remove" /\ pc'[h] = "setTarget"
    BY <2>1, <2>7 DEF RemoveContainer, ContainerGone
  <2>8. ASSUME NEW t \in Services, SupervisorStops(t) PROVE ctr[s].env /\ ~targetEnv
    <3>1. t = s
      BY <2>1, <2>8 DEF SupervisorStops, ContainerGone
    <3>2. ctr[s].env # (targetEnv /\ s \in EnvServices)
      BY <2>8, <3>1 DEF SupervisorStops, EnvOf
    <3>3. targetEnv => ctr[s].env = (s \in EnvServices)
      BY DEF SessionInv, Restoring, EnvIsTarget
    <3>4. ctr[s].env \in BOOLEAN
      BY <2>1
    <3> QED BY <3>2, <3>3, <3>4
  <2> QED BY <2>3, <2>4, <2>5, <2>6, <2>7, <2>8
<1> QED BY SessionInductive, <1>1, PTL DEF Spec, RebuildTakesDownOwn
=============================================================================
