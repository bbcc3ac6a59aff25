------------------------------ MODULE Livepush ------------------------------
(***************************************************************************)
(* The live session of "balena push <device>": class LivepushManager of    *)
(* src/utils/device/live.ts, with the parts of deploy.ts it calls.         *)
(*                                                                         *)
(* Every debounced batch of filesystem events starts one asynchronous      *)
(* call of handleFSEvents.  Calls are not serialised: they interleave at   *)
(* every await, and share the manager's maps (updateEventsWaiting,         *)
(* rebuildsRunning, rebuildRunningIds, rebuildsCancelled, containers,      *)
(* lastDeviceStatus) and the device.  Code between two awaits is one step. *)
(*                                                                         *)
(* Data is reduced to what decides whether the device is up to date: a     *)
(* build context, an image or a container is the set of paths whose        *)
(* content it holds as it is on disk NOW, so an edit takes the path out of *)
(* all of them.  A container id is a flag: does the holder's id still name *)
(* the running container.                                                  *)
(***************************************************************************)
CONSTANTS
    Services,     \* the services of the composition that have a "build" section
    Handlers,     \* handleFSEvents calls that can be in flight (bounds concurrency)
    Files,        \* the paths that the Dockerfile copies into the image
    Dockerfile,   \* the path in dockerfilePaths[service]
    EnvServices,  \* the services that --env gives variables to
    Failures,     \* whether the device, the builder and the network may fail
    None          \* no handler, no service

ASSUME LivepushAssumption ==
    /\ Dockerfile \notin Files
    /\ EnvServices \subseteq Services
    /\ Failures \in BOOLEAN
    /\ None \notin Services \cup Handlers

Paths == Files \cup {Dockerfile}

VARIABLES
    \* LivepushManager
    updateEventsWaiting,  \* service -> paths; the debounce timer runs iff it is not empty
    rebuildsRunning, rebuildsCancelled,   \* service -> BOOLEAN
    rebuildRunningIds,    \* service -> the call whose build step container it names, or None
    livepush,             \* service -> state of containers[service].livepush
    dockerfileCurrent,    \* service -> is the Dockerfile in this.buildTasks the one on disk
    lastDeviceStatus,     \* service -> its container in the last status answer
    initState, todo,      \* progress of init(), services it has still to set up
    \* the calls of handleFSEvents in flight
    pc, svc, ctx,
    \* the device: its containers, the tagged images, the target state
    ctr, image, targetEnv, applying,
    \* history: why an edit of a service may not have reached its container
    faults

managerVars == <<updateEventsWaiting, livepush, dockerfileCurrent>>
flagVars    == <<rebuildsRunning, rebuildsCancelled, rebuildRunningIds>>
initVars    == <<initState, todo>>
callVars    == <<pc, svc, ctx>>
deviceVars  == <<ctr, image, targetEnv, applying>>
vars == <<managerVars, flagVars, lastDeviceStatus, initVars, callVars,
          deviceVars, faults>>

\* handleServiceRebuild after "rebuildsRunning = true", up to its check of
\* rebuildsCancelled, and after the check
Building   == {"tar", "build"}
Deploying  == {"getId", "remove", "setTarget", "settle", "attach"}
RebuildPCs == Building \cup Deploying

PCs == {"idle", "livepush", "kill", "cancelLivepush", "wait"} \cup RebuildPCs

\* The local variables of a call:
\*   updated    - the events it took
\*   context    - up-to-date paths of the tar stream it sent to the builder
\*   live       - its container id names the running container
\*   killed     - the container of its running build step was removed
\*   victim     - the call whose build step it is about to remove
\*   superseded - (history) its rebuild was cancelled before the check
Ctx == [updated : SUBSET Paths, context : SUBSET Paths, live : BOOLEAN,
        killed : BOOLEAN, victim : Handlers \cup {None}, superseded : BOOLEAN]

Blank == [updated |-> {}, context |-> {}, live |-> FALSE,
          killed |-> FALSE, victim |-> None, superseded |-> FALSE]

FaultKinds == {"pushError", "rebuildError", "overlap", "unwatched",
               "pushedDuringRebuild", "staleDockerfile", "exited", "replaced"}

ManagerTypeOK ==
    /\ updateEventsWaiting \in [Services -> SUBSET Paths]
    /\ rebuildsRunning \in [Services -> BOOLEAN]
    /\ rebuildsCancelled \in [Services -> BOOLEAN]
    /\ rebuildRunningIds \in [Services -> Handlers \cup {None}]
    /\ livepush \in [Services -> {"none", "attached", "detached"}]
    /\ dockerfileCurrent \in [Services -> BOOLEAN]
    /\ lastDeviceStatus \in [Services -> {"absent", "current", "gone"}]
    /\ initState \in {"settling", "assigning", "done", "aborted", "failed"}
    /\ todo \subseteq Services

CallTypeOK ==
    /\ pc \in [Handlers -> PCs]
    /\ svc \in [Handlers -> Services \cup {None}]
    /\ ctx \in [Handlers -> Ctx]

DeviceTypeOK ==
    /\ ctr \in [Services -> [up : BOOLEAN, fresh : SUBSET Paths, env : BOOLEAN]]
    /\ image \in [Services -> SUBSET Paths]
    /\ targetEnv \in BOOLEAN
    /\ applying \in BOOLEAN
    /\ faults \in [Services -> SUBSET FaultKinds]

TypeOK == ManagerTypeOK /\ CallTypeOK /\ DeviceTypeOK

NoContainer == [up |-> FALSE, fresh |-> {}, env |-> FALSE]

\* deployToDevice has built every image and set the target state.
Init ==
    /\ updateEventsWaiting = [s \in Services |-> {}]
    /\ rebuildsRunning = [s \in Services |-> FALSE]
    /\ rebuildsCancelled = [s \in Services |-> FALSE]
    /\ rebuildRunningIds = [s \in Services |-> None]
    /\ livepush = [s \in Services |-> "none"]
    /\ dockerfileCurrent = [s \in Services |-> TRUE]
    /\ lastDeviceStatus = [s \in Services |-> "absent"]
    /\ initState = "settling"
    /\ todo = Services
    /\ pc = [h \in Handlers |-> "idle"]
    /\ svc = [h \in Handlers |-> None]
    /\ ctx = [h \in Handlers |-> Blank]
    /\ ctr = [s \in Services |-> NoContainer]
    /\ image = [s \in Services |-> Paths]
    /\ targetEnv = TRUE
    /\ applying = TRUE
    /\ faults = [s \in Services |-> {}]

-----------------------------------------------------------------------------
(* Shared steps *)

InRebuild(h, s) == svc[h] = s /\ pc[h] \in RebuildPCs

Fault(s, kinds) == faults' = [faults EXCEPT ![s] = @ \cup kinds]

\* The status a poll stores: the containers the device lists now.
PollStatus ==
    lastDeviceStatus' = [s \in Services |-> IF ctr[s].up THEN "current" ELSE "absent"]

\* The calls once the container of s is gone: no id held for it is live.
CallsWithout(s) ==
    [h \in Handlers |-> IF svc[h] = s THEN [ctx[h] EXCEPT !.live = FALSE] ELSE ctx[h]]

\* The container of s disappears: ids held for it name nothing any more.
ContainerGone(s) ==
    /\ ctr' = [ctr EXCEPT ![s] = NoContainer]
    /\ livepush' = [livepush EXCEPT ![s] = IF @ = "attached" THEN "detached" ELSE @]
    /\ lastDeviceStatus' = [lastDeviceStatus EXCEPT ![s] =
                               IF @ = "current" THEN "gone" ELSE @]

\* The call returns.
Return(h) ==
    /\ pc' = [pc EXCEPT ![h] = "idle"]
    /\ svc' = [svc EXCEPT ![h] = None]
    /\ ctx' = [ctx EXCEPT ![h] = Blank]

\* Mutant of EndRebuild: rebuildsCancelled stays set.
EndRebuildKeepsCancelled(h) ==
    /\ rebuildsRunning' = [rebuildsRunning EXCEPT ![svc[h]] = FALSE]
    /\ UNCHANGED rebuildsCancelled

\* "finally" of handleServiceRebuild.
EndRebuild(h) ==
    /\ rebuildsRunning' = [rebuildsRunning EXCEPT ![svc[h]] = FALSE]
    /\ rebuildsCancelled' = [rebuildsCancelled EXCEPT ![svc[h]] = FALSE]

\* Mutant of RebuildThrows: the error is swallowed.
RebuildThrowsSilently(h) == Return(h) /\ EndRebuild(h) /\ UNCHANGED faults

\* "catch (e)" of handleServiceRebuild: logged, then "finally".
RebuildThrows(h) ==
    /\ Return(h)
    /\ EndRebuild(h)
    /\ Fault(svc[h], {"rebuildError"})

-----------------------------------------------------------------------------
(* The user and init() *)

\* A path of the context of s changes on disk.  A tar stream being packed
\* holds the old content iff the file was packed already ("packed").  The
\* watcher, once set up, queues the path ("add", "change" and "unlink" alike
\* go to updateEventsWaiting) and restarts the debounce timer.
Edit(s, p) ==
    /\ \E packed \in SUBSET {h \in Handlers : svc[h] = s /\ pc[h] = "tar"} :
          ctx' = [h \in Handlers |->
                    IF svc[h] = s /\ (pc[h] = "build" \/ h \in packed)
                      THEN [ctx[h] EXCEPT !.context = @ \ {p}]
                      ELSE ctx[h]]
    /\ ctr' = [ctr EXCEPT ![s].fresh = @ \ {p}]
    /\ image' = [image EXCEPT ![s] = @ \ {p}]
    /\ dockerfileCurrent' = [dockerfileCurrent EXCEPT ![s] = @ /\ p # Dockerfile]
    /\ IF livepush[s] = "none"
         THEN /\ Fault(s, {"unwatched"})
              /\ UNCHANGED updateEventsWaiting
         ELSE /\ updateEventsWaiting' = [updateEventsWaiting EXCEPT ![s] = @ \cup {p}]
              /\ UNCHANGED faults
    /\ UNCHANGED <<livepush, flagVars, lastDeviceStatus, initVars, pc, svc,
                   targetEnv, applying>>

\* awaitDeviceStateSettle, from init(): one poll.  If it fails, init() rejects.
InitSettle ==
    /\ initState = "settling"
    /\ \/ Failures /\ initState' = "failed" /\ UNCHANGED lastDeviceStatus
       \/ PollStatus /\ initState' = IF applying THEN "settling" ELSE "assigning"
    /\ UNCHANGED <<managerVars, flagVars, todo, callVars, deviceVars, faults>>

\* One iteration of init()'s loop.  A container missing from the last status
\* ends the whole of init() ("return"); a vanished one, or a failure of
\* Livepush.init, makes it reject.
InitService(s) ==
    /\ initState = "assigning"
    /\ s \in todo
    /\ \/ /\ lastDeviceStatus[s] = "absent"
          /\ initState' = "aborted"
          /\ UNCHANGED <<todo, livepush>>
       \/ /\ lastDeviceStatus[s] = "gone" \/ (Failures /\ lastDeviceStatus[s] = "current")
          /\ initState' = "failed"
          /\ UNCHANGED <<todo, livepush>>
       \/ /\ lastDeviceStatus[s] = "current"
          /\ livepush' = [livepush EXCEPT ![s] = "attached"]
          /\ todo' = todo \ {s}
          /\ initState' = IF todo = {s} THEN "done" ELSE "assigning"
    /\ UNCHANGED <<updateEventsWaiting, dockerfileCurrent, flagVars,
                   lastDeviceStatus, callVars, deviceVars, faults>>

-----------------------------------------------------------------------------
(* handleFSEvents, called by the debounce timer of s *)

TakeEvents(h, s, local) ==
    /\ pc[h] = "idle"
    /\ updateEventsWaiting[s] # {}
    /\ updateEventsWaiting' = [updateEventsWaiting EXCEPT ![s] = {}]
    /\ svc' = [svc EXCEPT ![h] = s]
    /\ ctx' = [ctx EXCEPT ![h] = local]

\* handleServiceRebuild sets rebuildsRunning, and rebuildSingleTask starts
\* to pack the context: a file not packed yet is as it is on disk.
BeginRebuild(h, s) ==
    /\ pc' = [pc EXCEPT ![h] = "tar"]
    /\ rebuildsRunning' = [rebuildsRunning EXCEPT ![s] = TRUE]
    /\ Fault(s, IF \E g \in Handlers \ {h} : InRebuild(g, s) THEN {"overlap"} ELSE {})

\* A Dockerfile changed and no rebuild of the service is running.
StartRebuild(h, s) ==
    /\ Dockerfile \in updateEventsWaiting[s]
    /\ ~rebuildsRunning[s]
    /\ TakeEvents(h, s, [Blank EXCEPT !.context = Paths])
    /\ BeginRebuild(h, s)
    /\ UNCHANGED <<livepush, dockerfileCurrent, rebuildsCancelled, rebuildRunningIds,
                   lastDeviceStatus, initVars, deviceVars>>

\* Mutant of CancelRebuild: a request during a rebuild is ignored.
CancelRebuildIgnored(h, s) ==
    /\ Dockerfile \in updateEventsWaiting[s]
    /\ rebuildsRunning[s]
    /\ pc[h] = "idle"
    /\ updateEventsWaiting' = [updateEventsWaiting EXCEPT ![s] = {}]
    /\ UNCHANGED <<livepush, dockerfileCurrent, flagVars, lastDeviceStatus, initVars,
                   callVars, deviceVars, faults>>

\* A Dockerfile changed during a rebuild of the service: cancelRebuild.
CancelRebuild(h, s) ==
    /\ Dockerfile \in updateEventsWaiting[s]
    /\ rebuildsRunning[s]
    /\ pc[h] = "idle"
    /\ updateEventsWaiting' = [updateEventsWaiting EXCEPT ![s] = {}]
    /\ rebuildsCancelled' = [rebuildsCancelled EXCEPT ![s] = TRUE]
    /\ svc' = [svc EXCEPT ![h] = s]
    /\ ctx' = [g \in Handlers |->
                 IF g = h THEN [Blank EXCEPT !.victim = rebuildRunningIds[s]]
                 ELSE IF svc[g] = s /\ pc[g] \in Building
                   THEN [ctx[g] EXCEPT !.superseded = TRUE]
                   ELSE ctx[g]]
    /\ pc' = [pc EXCEPT ![h] = IF rebuildRunningIds[s] = None THEN "wait" ELSE "kill"]
    /\ UNCHANGED <<livepush, dockerfileCurrent, rebuildsRunning, rebuildRunningIds,
                   lastDeviceStatus, initVars, deviceVars, faults>>

\* livepushNeeded: the batch has a path that the Dockerfile copies, in the
\* Dockerfile the livepush instance was made from.
StartLivepush(h, s) ==
    /\ Dockerfile \notin updateEventsWaiting[s]
    /\ TakeEvents(h, s, [Blank EXCEPT !.updated = updateEventsWaiting[s],
                                      !.live = livepush[s] = "attached"])
    /\ pc' = [pc EXCEPT ![h] = "livepush"]
    /\ UNCHANGED <<livepush, dockerfileCurrent, flagVars, lastDeviceStatus,
                   initVars, deviceVars, faults>>

\* ~livepushNeeded: the Dockerfile the instance was made from, no longer the
\* one on disk, does not copy these paths.
SkipLivepush(s) ==
    /\ updateEventsWaiting[s] # {}
    /\ Dockerfile \notin updateEventsWaiting[s]
    /\ ~dockerfileCurrent[s]
    /\ updateEventsWaiting' = [updateEventsWaiting EXCEPT ![s] = {}]
    /\ Fault(s, {"staleDockerfile"})
    /\ UNCHANGED <<livepush, dockerfileCurrent, flagVars, lastDeviceStatus,
                   initVars, callVars, deviceVars>>

\* performLivepush copies the files, as they are on disk, into the container.
LivepushDone(h) ==
    /\ pc[h] = "livepush"
    /\ ctx[h].live
    /\ Return(h)
    /\ ctr' = [ctr EXCEPT ![svc[h]].fresh = @ \cup ctx[h].updated]
    /\ Fault(svc[h],
             IF \E g \in Handlers :
                  /\ InRebuild(g, svc[h])
                  /\ ~(ctx[h].updated \subseteq
                         IF pc[g] \in Building THEN ctx[g].context ELSE image[svc[h]])
               THEN {"pushedDuringRebuild"} ELSE {})
    /\ UNCHANGED <<managerVars, flagVars, lastDeviceStatus, initVars,
                   image, targetEnv, applying>>

\* performLivepush rejects: the error is logged, the batch is dropped.
LivepushFails(h) ==
    /\ pc[h] = "livepush"
    /\ Failures \/ ~ctx[h].live
    /\ Return(h)
    /\ Fault(svc[h], {"pushError"})
    /\ UNCHANGED <<managerVars, flagVars, lastDeviceStatus, initVars, deviceVars>>

-----------------------------------------------------------------------------
(* cancelRebuild and the wait for the cancelled rebuild *)

\* Remove the container of the build step.  It may have ended by itself by
\* now: then remove() rejects, which is ignored, and livepush.cancel() is
\* not called.
KillBuild(h) ==
    /\ pc[h] = "kill"
    /\ \/ /\ ctx[h].victim # None
          /\ ctx' = [g \in Handlers |->
                       IF g = h THEN [ctx[g] EXCEPT !.victim = None]
                       ELSE IF g = ctx[h].victim THEN [ctx[g] EXCEPT !.killed = TRUE]
                       ELSE ctx[g]]
          /\ pc' = [pc EXCEPT ![h] = "cancelLivepush"]
       \/ /\ ctx' = [ctx EXCEPT ![h].victim = None]
          /\ pc' = [pc EXCEPT ![h] = "wait"]
    /\ UNCHANGED <<managerVars, flagVars, lastDeviceStatus, initVars, svc,
                   deviceVars, faults>>

\* livepush.cancel(): running livepushes into the container copy nothing.
CancelLivepush(h) ==
    /\ pc[h] = "cancelLivepush"
    /\ pc' = [g \in Handlers |->
                IF g = h THEN "wait"
                ELSE IF svc[g] = svc[h] /\ pc[g] = "livepush" /\ ctx[g].live THEN "idle"
                ELSE pc[g]]
    /\ svc' = [g \in Handlers |-> IF pc'[g] = "idle" THEN None ELSE svc[g]]
    /\ ctx' = [g \in Handlers |-> IF pc'[g] = "idle" THEN Blank ELSE ctx[g]]
    /\ UNCHANGED <<managerVars, flagVars, lastDeviceStatus, initVars, deviceVars, faults>>

\* "while (rebuildsCancelled) await delay(1000)": a poll that finds the flag
\* reset goes on.  rebuildsRunning is not looked at again.
WaitOver(h) ==
    /\ pc[h] = "wait"
    /\ ~rebuildsCancelled[svc[h]]
    /\ BeginRebuild(h, svc[h])
    /\ ctx' = [ctx EXCEPT ![h].context = Paths]
    /\ UNCHANGED <<managerVars, rebuildsCancelled, rebuildRunningIds, lastDeviceStatus,
                   initVars, svc, deviceVars>>

-----------------------------------------------------------------------------
(* handleServiceRebuild: rebuildSingleTask *)

PackContext(h) ==
    /\ pc[h] = "tar"
    /\ pc' = [pc EXCEPT ![h] = "build"]
    /\ UNCHANGED <<managerVars, flagVars, lastDeviceStatus, initVars, svc, ctx,
                   deviceVars, faults>>

\* The log line "---> Running in <id>".
RunBuildStep(h) ==
    /\ pc[h] = "build"
    /\ ~ctx[h].killed
    /\ rebuildRunningIds' = [rebuildRunningIds EXCEPT ![svc[h]] = h]
    /\ UNCHANGED <<managerVars, rebuildsRunning, rebuildsCancelled, lastDeviceStatus,
                   initVars, callVars, deviceVars, faults>>

\* Mutant of BuildEnds: the running id stays.
BuildEndsKeepsId(h) == UNCHANGED <<rebuildRunningIds, managerVars, lastDeviceStatus, initVars>>

\* "finally" of rebuildSingleTask: the running id of the service is deleted.
\* The step containers of this build are gone for whoever is to remove them.
BuildEnds(h) ==
    /\ rebuildRunningIds' = [rebuildRunningIds EXCEPT ![svc[h]] = None]
    /\ UNCHANGED <<managerVars, lastDeviceStatus, initVars>>

CallsAfterBuild(h) ==
    [g \in Handlers |-> IF ctx[g].victim = h THEN [ctx[g] EXCEPT !.victim = None] ELSE ctx[g]]

\* Mutant of BuildDone: the flag is read before the build instead of after it.
BuildDoneUnchecked(h) ==
    /\ pc[h] = "build"
    /\ ~ctx[h].killed
    /\ image' = [image EXCEPT ![svc[h]] = ctx[h].context]
    /\ BuildEnds(h)
    /\ pc' = [pc EXCEPT ![h] = "getId"]
    /\ ctx' = [CallsAfterBuild(h) EXCEPT ![h].context = {}]
    /\ UNCHANGED <<svc, rebuildsRunning, rebuildsCancelled, ctr, targetEnv, applying, faults>>

\* The build succeeds and tags the image; then the check of rebuildsCancelled.
BuildDone(h) ==
    /\ pc[h] = "build"
    /\ ~ctx[h].killed
    /\ image' = [image EXCEPT ![svc[h]] = ctx[h].context]
    /\ BuildEnds(h)
    /\ IF rebuildsCancelled[svc[h]]
         THEN /\ pc' = [pc EXCEPT ![h] = "idle"]
              /\ svc' = [svc EXCEPT ![h] = None]
              /\ ctx' = [CallsAfterBuild(h) EXCEPT ![h] = Blank]
              /\ EndRebuild(h)
         ELSE /\ pc' = [pc EXCEPT ![h] = "getId"]
              /\ ctx' = [CallsAfterBuild(h) EXCEPT ![h].context = {}]
              /\ UNCHANGED <<svc, rebuildsRunning, rebuildsCancelled>>
    /\ UNCHANGED <<ctr, targetEnv, applying, faults>>

\* The build or its preparation fails.  A BuildError of a cancelled rebuild
\* is expected, any other error is logged.
BuildFails(h) ==
    /\ pc[h] \in Building
    /\ Failures \/ ctx[h].killed
    /\ BuildEnds(h)
    /\ EndRebuild(h)
    /\ pc' = [pc EXCEPT ![h] = "idle"]
    /\ svc' = [svc EXCEPT ![h] = None]
    /\ ctx' = [CallsAfterBuild(h) EXCEPT ![h] = Blank]
    /\ Fault(svc[h], IF rebuildsCancelled[svc[h]] /\ pc[h] = "build" THEN {} ELSE {"rebuildError"})
    /\ UNCHANGED deviceVars

-----------------------------------------------------------------------------
(* handleServiceRebuild: replacing the container *)

\* getContainerId of the service; the supervisor has none to name, or fails.
GetContainerId(h) ==
    /\ pc[h] = "getId"
    /\ \/ /\ ctr[svc[h]].up
          /\ pc' = [pc EXCEPT ![h] = "remove"]
          /\ ctx' = [ctx EXCEPT ![h].live = TRUE]
          /\ UNCHANGED <<svc, rebuildsRunning, rebuildsCancelled, faults>>
       \/ /\ Failures \/ ~ctr[svc[h]].up
          /\ RebuildThrows(h)
    /\ UNCHANGED <<managerVars, rebuildRunningIds, lastDeviceStatus, initVars, deviceVars>>

\* Mutant of RemoveContainer: the container of any service.
RemoveAnyContainer(h) ==
    /\ pc[h] = "remove"
    /\ pc' = [pc EXCEPT ![h] = "setTarget"]
    /\ \E s \in Services : ContainerGone(s) /\ ctx' = CallsWithout(s)
    /\ UNCHANGED <<updateEventsWaiting, dockerfileCurrent, flagVars, initVars, svc,
                   image, targetEnv, applying, faults>>

RemoveContainer(h) ==
    /\ pc[h] = "remove"
    /\ ctx[h].live
    /\ ContainerGone(svc[h])
    /\ ctx' = CallsWithout(svc[h])
    /\ pc' = [pc EXCEPT ![h] = "setTarget"]
    /\ UNCHANGED <<updateEventsWaiting, dockerfileCurrent, flagVars, initVars, svc,
                   image, targetEnv, applying, faults>>

\* The container was removed by someone else meanwhile, or the call fails.
RemoveFails(h) ==
    /\ pc[h] = "remove"
    /\ Failures \/ ~ctx[h].live
    /\ RebuildThrows(h)
    /\ UNCHANGED <<managerVars, rebuildRunningIds, lastDeviceStatus, initVars, deviceVars>>

\* getTargetState, then setTargetState(generateTargetState(..., {})): the
\* services of the composition, without the variables of --env.
SetTargetState(h) ==
    /\ pc[h] = "setTarget"
    /\ \/ /\ targetEnv' = FALSE
          /\ applying' = TRUE
          /\ pc' = [pc EXCEPT ![h] = "settle"]
          /\ UNCHANGED <<svc, ctx, rebuildsRunning, rebuildsCancelled, faults>>
       \/ /\ Failures
          /\ RebuildThrows(h)
          /\ UNCHANGED <<targetEnv, applying>>
    /\ UNCHANGED <<managerVars, rebuildRunningIds, lastDeviceStatus, initVars, ctr, image>>

\* Mutant of Settle: the stored status is not polled again.
SettleCached(h) ==
    /\ pc[h] = "settle"
    /\ lastDeviceStatus[svc[h]] = "current"
    /\ pc' = [pc EXCEPT ![h] = "attach"]
    /\ ctx' = [ctx EXCEPT ![h].live = TRUE]
    /\ UNCHANGED <<managerVars, flagVars, lastDeviceStatus, initVars, svc, deviceVars, faults>>

\* awaitDeviceStateSettle: one poll, which stores nothing if it fails, and
\* after the last one the look-up of the new container in the status it stored.
Settle(h) ==
    /\ pc[h] = "settle"
    /\ \/ Failures /\ RebuildThrows(h) /\ UNCHANGED lastDeviceStatus
       \/ /\ PollStatus
          /\ IF applying \/ ctr[svc[h]].up
               THEN /\ pc' = [pc EXCEPT ![h] = IF applying THEN "settle" ELSE "attach"]
                    /\ ctx' = [ctx EXCEPT ![h].live = ~applying]
                    /\ UNCHANGED <<svc, rebuildsRunning, rebuildsCancelled, faults>>
               ELSE RebuildThrows(h)
    /\ UNCHANGED <<managerVars, rebuildRunningIds, initVars, deviceVars>>

\* Mutant of Attach: the new instance is not stored.
AttachNotStored(h) ==
    /\ pc[h] = "attach"
    /\ ctx[h].live
    /\ Return(h)
    /\ EndRebuild(h)
    /\ UNCHANGED <<managerVars, rebuildRunningIds, lastDeviceStatus, initVars, deviceVars, faults>>

\* Livepush.init on the new container.
Attach(h) ==
    /\ pc[h] = "attach"
    /\ ctx[h].live
    /\ livepush' = [livepush EXCEPT ![svc[h]] = "attached"]
    /\ Return(h)
    /\ EndRebuild(h)
    /\ UNCHANGED <<updateEventsWaiting, dockerfileCurrent, rebuildRunningIds,
                   lastDeviceStatus, initVars, deviceVars, faults>>

AttachFails(h) ==
    /\ pc[h] = "attach"
    /\ Failures \/ ~ctx[h].live
    /\ RebuildThrows(h)
    /\ UNCHANGED <<managerVars, rebuildRunningIds, lastDeviceStatus, initVars, deviceVars>>

-----------------------------------------------------------------------------
(* The device's supervisor (external), as live.ts relies on it: it works    *)
(* towards a target state that was set, and reports "applied" when done.    *)

EnvOf(s) == targetEnv /\ s \in EnvServices

SupervisorStarts(s) ==
    /\ applying
    /\ ~ctr[s].up
    /\ ctr' = [ctr EXCEPT ![s] = [up |-> TRUE, fresh |-> image[s], env |-> EnvOf(s)]]
    /\ UNCHANGED <<managerVars, flagVars, lastDeviceStatus, initVars, callVars,
                   image, targetEnv, applying, faults>>

\* A container whose configuration is not the target's is replaced.
SupervisorStops(s) ==
    /\ applying
    /\ ctr[s].up
    /\ ctr[s].env # EnvOf(s)
    /\ ContainerGone(s)
    /\ ctx' = CallsWithout(s)
    /\ Fault(s, {"replaced"})
    /\ UNCHANGED <<updateEventsWaiting, dockerfileCurrent, flagVars, initVars, pc, svc,
                   image, targetEnv, applying>>

SupervisorApplied ==
    /\ applying
    /\ \A s \in Services : ctr[s].up /\ ctr[s].env = EnvOf(s)
    /\ applying' = FALSE
    /\ UNCHANGED <<managerVars, flagVars, lastDeviceStatus, initVars, callVars,
                   ctr, image, targetEnv, faults>>

\* The main process of a container ends, and its restart policy is "no".
ContainerExits(s) ==
    /\ Failures
    /\ ~applying
    /\ ctr[s].up
    /\ ContainerGone(s)
    /\ ctx' = CallsWithout(s)
    /\ Fault(s, {"exited"})
    /\ UNCHANGED <<updateEventsWaiting, dockerfileCurrent, flagVars, initVars, pc, svc,
                   image, targetEnv, applying>>

-----------------------------------------------------------------------------
Supervisor ==
    \/ SupervisorApplied
    \/ \E s \in Services : SupervisorStarts(s) \/ SupervisorStops(s)

\* handleFSEvents is called for s
Fire(h, s) == StartRebuild(h, s) \/ CancelRebuild(h, s) \/ StartLivepush(h, s)

\* a call of handleFSEvents goes on
Proceed(h) ==
    \/ LivepushDone(h) \/ LivepushFails(h)
    \/ KillBuild(h) \/ CancelLivepush(h) \/ WaitOver(h)
    \/ PackContext(h) \/ BuildDone(h) \/ BuildFails(h)
    \/ GetContainerId(h) \/ RemoveContainer(h) \/ RemoveFails(h)
    \/ SetTargetState(h) \/ Settle(h) \/ Attach(h) \/ AttachFails(h)

Next ==
    \/ \E s \in Services, p \in Paths : Edit(s, p)
    \/ InitSettle
    \/ \E s \in Services : InitService(s) \/ SkipLivepush(s) \/ ContainerExits(s)
    \/ \E h \in Handlers, s \in Services : Fire(h, s)
    \/ \E h \in Handlers : Proceed(h) \/ RunBuildStep(h)
    \/ Supervisor

Spec == Init /\ [][Next]_vars

\* The debounce timer fires, awaits are answered, the device works; nobody
\* has to edit a file or fail.
Fairness ==
    /\ WF_vars(InitSettle)
    /\ \A s \in Services : WF_vars(InitService(s))
    /\ \A s \in Services : WF_vars(\E h \in Handlers : Fire(h, s))
    /\ \A h \in Handlers : WF_vars(Proceed(h))
    /\ WF_vars(Supervisor)

FairSpec == Spec /\ Fairness

-----------------------------------------------------------------------------
(* Properties *)

\* A request that waits for a cancelled rebuild polls a flag that a rebuild
\* in progress is still to reset: rebuildsCancelled and rebuildsRunning are
\* never left set once the last rebuild of the service has returned, whatever
\* the order in which overlapping rebuilds reset them.
FlagsHaveRebuild ==
    \A s \in Services :
        rebuildsRunning[s] \/ rebuildsCancelled[s] => \E h \in Handlers : InRebuild(h, s)

\* cancelRebuild never aims at a build that is over: a running id is that of
\* a build in progress, also when overlapping builds overwrite and delete it.
RunningIdIsBuild ==
    \A s \in Services :
        rebuildRunningIds[s] # None =>
            /\ rebuildRunningIds[s] \in Handlers
            /\ svc[rebuildRunningIds[s]] = s
            /\ pc[rebuildRunningIds[s]] = "build"

\* Nothing is waiting or in progress for s.
Quiet(s) ==
    /\ initState \in {"done", "aborted", "failed"}
    /\ updateEventsWaiting[s] = {}
    /\ \A h \in Handlers : svc[h] # s
    /\ ~applying

\* When the session is quiet, a container that is not up to date with the
\* disk is explained by a cause that the code makes no attempt to cover; for
\* the Dockerfile itself, pushing files during a rebuild is no excuse, for
\* handleServiceRebuild cancels and restarts the rebuild.
LossIsExplained ==
    \A s \in Services : Quiet(s) =>
        /\ ctr[s].fresh # Paths => faults[s] # {}
        /\ Dockerfile \notin ctr[s].fresh =>
              faults[s] \cap {"rebuildError", "overlap", "unwatched", "exited"} # {}

\* Without device failures, however rebuilds overlap, cancel and remove the
\* containers of one another, a quiet service that is watched runs, and the
\* livepush instance holds the id of the container that runs, unless the
\* supervisor replaced it because the target state lost the --env variables.
QuietIsAttached ==
    \A s \in Services : Quiet(s) /\ livepush[s] # "none" =>
        ctr[s].up /\ (livepush[s] = "attached" \/ "replaced" \in faults[s])

\* A rebuild that removed the container puts the service back, unless an
\* error was logged for it or the container ended by itself.
ServiceKeepsRunning ==
    \A s \in Services : Quiet(s) /\ ~ctr[s].up => faults[s] \cap {"rebuildError", "exited"} # {}

\* Rebuilding a service takes down no other service's container, but those
\* that have variables of --env, which the new target state drops.
RebuildTakesDownOwn ==
    [][\A s \in Services : ctr[s].up /\ ~ctr'[s].up =>
          \/ \E h \in Handlers : svc[h] = s /\ pc[h] = "remove" /\ pc'[h] = "setTarget"
          \/ ctr[s].env /\ ~targetEnv]_vars

\* Once edits of Dockerfiles stop, no rebuild request waits forever for the
\* rebuild it cancelled.
RequestsAreServed ==
    <>[](\A s \in Services : Dockerfile \notin updateEventsWaiting[s])
        => <>[](\A h \in Handlers : pc[h] # "wait")

\* Once edits stop, the session becomes quiet: every batch is handled, every
\* rebuild ends and the device settles.
SessionSettles ==
    <>[][\A s \in Services : updateEventsWaiting'[s] \subseteq updateEventsWaiting[s]]_vars
        => <>[](\A s \in Services : updateEventsWaiting[s] = {} /\ \A h \in Handlers : pc[h] = "idle")

\* live.ts:419: "If the build has been cancelled, exit early".  A rebuild that
\* was cancelled before that check goes on to replace the container only if
\* it overlapped with another rebuild of the service, whose exit reset the
\* flag that was set for it.
CancelledGoesOnIfReset ==
    \A h \in Handlers :
        ctx[h].superseded /\ pc[h] \in Deploying => "overlap" \in faults[svc[h]]
=============================================================================
