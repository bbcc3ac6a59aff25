# balena CLI: specifications, model checking and proofs

TLA+ modules for the parts of the balena CLI where processes, callbacks,
signals, files and remote calls interleave. `PROJECT.json` lists the components,
the TLC runs, for each property a mutation of the model that it catches, the
source lines behind each definition, the hazards, and the theorems. Paths below
are relative to the repository's `src/` directory.

```
tlc -workers 2 -config deploy.cfg MCReleaseDeploy     # a run
tlapm LivepushProofs.tla                              # the proofs of a module
```

## 1. Inventory

The CLI is one Node.js process per command. Code between two `await`s runs
alone; concurrency comes from promises that are in flight together, from event
handlers, from signals, and from other processes (the balena API, the builder,
the npm registry, the browser, the Docker engine and the supervisor of a device,
other runs of the CLI) that the code talks to and whose state it caches.

| Component | State | Operations | Hard behaviour | What makes it correct | Modules |
| --- | --- | --- | --- | --- | --- |
| Live push session (`utils/device/live.ts`) | waiting events per service; `rebuildsRunning`, `rebuildsCancelled`, `rebuildRunningIds`; container ids; last device status | debounced batch, livepush, rebuild, cancel and wait, replace container, settle | calls of `handleFSEvents` are not serialised; a rebuild is cancelled by a flag that another call polls each second | an edit reaches its container or its loss has a known cause; no request waits for ever; a rebuild cancels only its own build | Livepush |
| Local push (`utils/device/deploy.ts`, `api.ts`), device logs (`utils/device/logs.ts`, `helpers.ts`) | builds, target state; attempts and signal handlers of the log stream; watchers and live containers | checks, builds, target state, tail, reconnect; `init`, `close`, `cleanup` | tailing and the live session race; signals have two listeners | nothing is left open or behind without a cause; a signal stops tailing; CTRL-C ends the command | LocalPush |
| Release deployment (`deployProject` and below in `utils/compose_ts.ts`, `compose.ts`) | release and image records (API), tags (engine) | create release, tag, authorize, push with retries, save, untag, final save | pushes are parallel and outlive the function when one fails; SIGINT wins a race but stops nothing | `success` means every image is there; a failure is recorded; tags go after the pushes | Release, ReleaseDeploy |
| Remote build (`utils/remote-build.ts`, `commands/push`) | message stream, `releaseId`, `hadError`, cancellation promise | upload, handle messages, cancel on SIGINT, set tags and note | message order, SIGINT in every phase, second errors | an interrupted build is cancelled, a successful one is not; tags and note come with success | RemoteBuild |
| OS image cache (`utils/image-manager.ts`, `utils/os.ts`) | files in the cache directory | look up, download, persist, remove | shared temporary file, rename before flush, death in between | what is cached is a whole image | ImageCache, CachedImages |
| Login server (`auth/server.ts`, `auth/utils.ts`, `commands/login`) | listening server, stored token, events | serve the page, try a token, keep or restore it | concurrent requests, events before there is a listener | the token kept is a valid one; the pages tell the truth; the command ends | LoginServer |
| Tunnel (`utils/tunnel.ts`, `commands/device/tunnel.ts`) | listeners, pairs of sockets | parse mappings, listen, CONNECT, pipe, close | timeouts against late answers, resets without a listener | both sides learn of the end; no tunnel is left over without a cause | Tunnel |
| Deprecation policy (`deprecation.ts`) | a cache file with two dates | read, warn or refuse, query, store | overlapping runs, failed queries, a file that is read as it is written | refuses only what is expired; knows of a release in time | Deprecation, DataDir |
| QEMU emulation (`utils/qemu.ts`) | the emulator on disk, its copies | check, download, copy | existence stands for completeness; overlapping runs; deaths | what a build uses is whole, or there is a cause | Emulator, DataDir |
| Command life cycle (`app.ts`, `errors.ts`, `hooks/prerun.ts`) | exit code, work in flight | refuse, run, note errors, report, exit | `process.exit` with work in flight; a second promise beside the command's; signals | exit code 0 means done; nothing is made without consent or permission; clean-ups run | CliRun, Request, Traits |
| The 88 commands (`commands/**`), with `utils/promote.ts`, `utils/patterns.ts`, `utils/sdk.ts`, `utils/umount.ts`, preload | none of their own | sequences of awaited calls, questions, writes | order of checks and changes; a failure in the middle; loops that go on | as above, for every command | Plans, Lookups, DeviceCommands, FleetCommands, AccountCommands, ImageCommands, LocalCommands |
| Compose parsing, ignore files, line endings, legacy deployment, output, proxies, updates | none | pure functions; one call after the other | corner cases of data | - | not modelled |

How they interact: CliRun is the shell around every command; the plans of
`push`, `deploy`, `login`, `device tunnel`, `device logs` and `os download` there
are the view from outside of what RemoteBuild and LocalPush, ReleaseDeploy,
LoginServer, Tunnel, LocalPush and ImageCache show from inside. LocalPush starts
and ends the session whose work is Livepush. Deprecation and Emulator share the
life of a run, and DataDir composes them; from the view of one run the query of
Deprecation is the second promise of CliRun.

## 2. Modules

**Livepush** is the live session after the first deployment. A call of
`handleFSEvents` is a process `h \in Handlers` whose `pc` names the `await` it
is at; its steps are the code between two awaits. The manager's maps are
variables with the names of the code. The builder, the engine and the supervisor
of the device take steps of their own. A build context, image or container is
the set of paths whose content it holds as it is on disk now: `Edit` takes a
path out of all of them, a livepush or a new container puts it back. A container
id is a flag that says whether it still names the running container. `faults`
is a history variable: the causes known for an edit not to arrive.

**LocalPush** is `deployToDevice` from its first request to the end of the
process, and `device logs`, which is its second half alone. The phases are
those of the function; from "session" on, tailing (`logs`, `attempt`, the two
handlers and `gotSignal`) and `LivepushManager.init` (a loop over the services
that `next` counts) run beside each other, and so do, when one of them has ended
the session, `close()` and `cleanup()`. The options are chosen in `Init`.
`hasty` and `signals` are history.

**Release** is what a user may rely on of a deployment: its status once
settled is final, every image is running or done, and success needs all
images to be done. **ReleaseDeploy** is `deployProject`: every image is a process in
`pushAndUpdateServiceImages`; records of the API and the tags of the engine are
variables; each remote call may fail. It keeps the difference between what the
function has decided (`status`) and what the API holds, and images whose pushes
go on after the function left them. It implements Release with the mapping
in its `Promise` instance.

**RemoteBuild** is `startRemoteBuild` and the rest of `pushToCloud`. The builder
and the API are external; what they send is a queue of messages. The builder may
name the release at any time of the build or never, which `pushToCloud` expects
(`push/index.ts:327-341`); `announced` is history. `opts` is chosen at the start,
so that one run covers all combinations of options.

**ImageCache** has runs of the CLI as processes and the cache directory as
shared state: two paths, and inodes that stay when a path is renamed or
removed. An image is a sequence of blocks, which the write stream writes behind
the source by up to `Buffer` blocks. `overlap` says whether the runs of a
behaviour may overlap in time: some promises hold only if they do not.
**CachedImages** instantiates it under names of its own, so that it can stand beside
DataDir, the other part of the data directory, with which it shares no state.

**LoginServer** has one process per HTTP request, whose steps are the awaits of
`loginIfTokenValid`: read the stored token, store the new one, ask the API,
restore. The command is another process, which opens the browser and may come to
await the outcome after it was emitted. A body that express cannot parse is answered
without a handler. An unhandled rejection ends the process, unless Sentry's
handler only reports it: both are outcomes. Tokens are model values.

**Tunnel** follows a mapping from its parsing (elements are integers, with -1
for NaN, and whether they are digits only) over its listener to the two sockets
of each client. `handler` is the promise of `openPortThroughProxy`; sockets of
either side answer, time out, close and reset in any order. That the code adds
its error handlers to a socket only while its tunnel stands decides where a
reset is an uncaught exception.

**RunLife**, **Deprecation**, **Emulator**, **DataDir**: runs share two things in
the data directory. Deprecation has a calendar and the file with its dates, which
is emptied and then written; Emulator has the path that means "installed", the
inodes behind it, and the folders in build contexts that mean "copied", some of
which (`own`) the project had before any run: it is where `balena.yml` is looked for
(`compose_ts.ts:614-627`). DataDir
joins them: a run is over when both parts are, and the failure of one ends the
other wherever it is.

**Plans** represents the `run()` of a command as a sequence of steps: who answers,
which changes are asked for, what a failure does (propagates, is noted and the
loop goes on, is hidden), and the try blocks around it. **Lookups** holds the
helpers that commands share; **DeviceCommands**, **FleetCommands**,
**AccountCommands**, **ImageCommands** and **LocalCommands** translate each command,
parameterised by its flags and by the facts it branches on. **Traits** is what the
command classes declare. **CliRun** executes one plan in one process: prerun
checks, requests that are answered late or with an error although they took
effect, errors that unwind to `catch` and `finally`, the promise of the
deprecation policy beside the command, signals, and the exit. **Request** is what a
command line promises to who runs it, and CliRun implements it with the mapping
`Promise`.

`...Proofs` modules hold the theorems of section 4; `MC...` modules give constants
their values and add symmetry sets. Definitions that say `mutant` are
deliberate bugs, not part of any specification.

## 3. Runs, bounds and what they show

| Run | Instance | Shows |
| --- | --- | --- |
| `livepush_core` | 1 service, 2 concurrent calls, a copied file and the Dockerfile | `LossIsExplained`: an edit that is missing in a quiet session has one of the known causes, and an edit of the Dockerfile only few of them |
| `livepush_rebuilds` | 1 service, 3 concurrent calls | `FlagsHaveRebuild`, `RunningIdIsBuild`: flags and running id belong to a rebuild in progress; `CancelledGoesOnIfReset`: a cancelled rebuild replaces the container only if another one reset the flag |
| `livepush_failures` | as core, without the file, with failures and fairness | `ServiceKeepsRunning`: a service that stays down had an error logged; `RequestsAreServed`, `SessionSettles`: rebuild requests are served and the session settles once edits stop |
| `livepush_two` | 2 services, 2 calls, `--env` on one | `QuietIsAttached`: the session ends attached to the running containers; `RebuildTakesDownOwn`: a rebuild leaves the other service alone unless the new target state drops its variables |
| `localpush` | 3 services, one without a build, 3 attempts, every option | `LeavingsAreExplained`: watchers and containers that outlive a session are those of an `init` that was still running, or of a failed cleanup; `UnwatchedIsExplained`; `SignalStopsTail`; `CtrlCEnds` |
| `deploy` | 2 images, 3 attempts each, failures, SIGINT, end of the process, fairness | `InterruptSetsFailed`, `EndedRunningIsTagFailure`, `UntagsAfterPush`, refinement of `Release` (`PromiseSpec`), `DeployEnds`, `ImagesGetOutcome` |
| `build` | 2 tags, 2 log lines, every option, failures, SIGINT, fairness | `InterruptCancels`; `ReturnedIsDone` (a push that returns did all it was asked for, but for a note when it does not know its release); `TagsOfSuccess`; `PushEnds` |
| `cache` | 3 runs, image of 2 blocks, 2 blocks of buffer, deaths, fairness | `PartialImageIsExplained`: what is partial in the cache, or in what a run was given, comes from a late death, or from an overlap with a failed run; `ImageRunsEnd`: a run ends, and unless runs overlap its caller hears of every error |
| `login` | 2 requests with valid, invalid or no tokens | `TokenIsSound`: a token that stays stored is valid, or there was an overlap or a failure; `SuccessPageIsTrue`; `OutcomeEndsWait` |
| `tunnel` | 2 mappings, 2 clients | `ClientsLearnTheEnd`: the sides of a tunnel end together, a refused client is told, only an unheard reset crashes; `UnusedTunnelIsLate`: a tunnel nobody uses comes of an answer after the timeout; `AskedGetsOutcome` |
| `datadir` | 2 runs over 4 days, emulator of 2 blocks, 1 context | `RefusalIsDue`; `IgnoranceIsExplained`: who does not know of an old release had no answer from the registry; `ReadyIsExplained`: a build without the whole emulator has a cause, such as a directory `.balena` that the project has itself |
| `commands` | every command at least once, with the flags and facts that decide its way, in each of six conditions of the machine | `ConsentFirst`, `CloudChangesArePermitted`, `RefusalIsClean` (a command that refuses leaves no changes, but those of the earlier items of a list and the few in `Kept`), `LeftBehindIsExplained`, refinement of `Request` with liveness (`KeepsPromise`) |

Why these bounds are enough to be of use. Interference in Livepush is between a
running rebuild, the waiter it wakes and a fresh event, which are three calls; a
file that is copied and the Dockerfile are the two kinds of path the code
tells apart. Livepush has no counters: its state is finite for
given sets, and edits may go on for ever. In ReleaseDeploy a failed push, one
still running and one that succeeded are the cases; two images give all
pairs. Three attempts, of uploads and of connections to the log stream, are a
first, a middle and a last one. Three services in LocalPush let the one without a
build stand between two that are watched. For the cache and the emulator, two
blocks separate "empty", "partial" and "whole"; three runs give the cache a
victim, an interferer and a later reader, and in DataDir two runs are a reader
and a writer of each file. There, an interval of 2 days, an expiry of 1 and the
days 0 to 3 (`LastDay`) have a run that asks, one that does not need to, and one that
refuses; the next version is published on day 1 or never (`Releases`), and no day
ends in the middle of an installation (`Quiet`), which does not read the calendar.
Two requests give the login page each pair of outcomes in each order. Two clients
on two listeners, of which one may be invalid or busy, show that the end of one
tunnel leaves another alone. `MaxLogs` bounds the lines a builder logs. The
command lines of `commands` are listed in MCCliRun: lists of devices and fleets
have two members, of which one has to be looked up.

`CHECK_DEADLOCK FALSE` is set where commands really end; a live session never
stops by itself.

Fairness. Calls that are in flight are answered (weak fairness of the steps
that follow an `await`), timers fire, and the builder and the supervisor work.
Nobody has to edit a file, press CTRL-C, post a token, connect, fail, or die. Most
of the code has no timeouts of its own: it relies on those of the network
libraries, which turn silence into an error, so that every call is answered.
Where it has one (the CONNECT of a tunnel), the timeout is a step. A proxy that
hangs up before it answers settles nothing in the code, and is what
`AskedGetsOutcome` excepts.

### Observations

The properties above hold; where the code does less than its user might
expect, the property names the cause. In the words of the code:

- Live session. Files edited during a rebuild are pushed into the container that
  is about to be removed, and the new one never gets them (`live.ts:350`). Of two
  overlapping rebuilds the first to end resets the other's cancellation, and the
  superseded image is deployed (`live.ts:466`). The first live rebuild drops the
  variables of `--env` (`live.ts:435`). All three are in `LossIsExplained`,
  `CancelledGoesOnIfReset` and `RebuildTakesDownOwn`.
- Local push. `init` returns at the first built service without a container, so the
  services after it are not watched (`live.ts:165-167`). With `--detached` the session
  closes its watchers as soon as `init` returns. Watchers made by `init` after
  `close()` keep the process alive. The first CTRL-C of `device logs` is only
  noted until the stream ends.
- Image cache. Overlapping runs can leave a partial image in the cache though
  nothing was killed: one truncates the temporary file, another renames it
  (`image-manager.ts:202`).
- Remote build. `push --detached --note` whose output is no terminal does not set
  the note (`remote-build.ts:182`), nor does an attached one whose builder never named
  the release, with success either way. `--release-tag` is refused after the build when
  no release id arrived (`push/index.ts:327-341`).
- Login. A token given on the command line that is not valid stays stored; one from
  the page stays when the check itself fails. A login whose page said success fails if
  another request had an error first.
- Tunnel. Bytes in the same chunk as the proxy's answer are dropped
  (`tunnel.ts:118`). A proxy that hangs up before answering leaves the promise
  pending. A client that resets before or after its tunnel stands ends the process.
  Sockets are not destroyed after a rejection, so a late answer makes a tunnel nobody
  uses.
- Data directory. A run killed in the download leaves a file that counts as the
  emulator; an existing `.balena` directory without it is skipped for ever
  (`qemu.ts:38-47`), also one that the project has for its build secrets. Extraction is over before the last block is flushed, and `chmod`
  fails if another run removed the file.
- Commands. `config reconfigure --version` and `device init --provisioning-key-name`
  pass flags that the nested `os configure` refuses. `os configure` reads its
  connection files after it has written the image, `local configure` writes a
  placeholder before its questions. The failures of an OS update, of `local flash`, of
  an unmount on Linux, and of `fleet purge` without an online device do not reach
  the exit code. A lookup that fails for any reason is taken by `join` for a free name
  (`promote.ts:346-362`).
- Refusals after changes. `device start-service` and its like look at one device after
  the other, and what they did to the first stays when they refuse the second.
  `device init` refuses a version, type or key after it has registered the device, and
  removes it again. `config reconfigure` unmounts before it finds no uuid. `push`
  refuses tags after the build. `RefusalIsClean` names what may remain (`MayRemain`).

## 4. Proofs

All proofs hold for any value of the constants, under the `ASSUME`s of their
modules: no sizes, sets or numbers of attempts are fixed. In each module an
inductive invariant (`IInv`, and where a component has two concerns a second one on
top of it) strengthens the properties; one lemma per operation or group of operations
shows that it is preserved. TLC has checked each invariant on the instances of
section 3.

**LivepushProofs.** Types, all six properties of the runs, for any number of
services, overlapping calls and paths. The first invariant (`IInv`) is for the flags:
that a flag is set only while a rebuild of the same service is in progress
needs that calls keep their service until they return, and that the running id is
set and cleared in the same steps in which a call enters and leaves its build. So a
rebuild request can never wait for a flag that nobody is going to reset
(`FlagsHaveRebuild`, `RunningIdIsBuild`). The second one (`SessionInv`) says what is
owed in the middle of a rebuild, and to whom:

- `HeldIdsAreUp`: a call or an instance that holds the id of a live container names
  one that runs;
- `Cancelling`: a service has one rebuild at a time unless an overlap was noted, a
  cancellation has a request that is going to rebuild, and a superseded build is
  still cancelled or was overlapped: hence `CancelledGoesOnIfReset`;
- `Restoring`: for a container that is down, the device is applying a target state,
  or a rebuild is going to set one, or a cause was noted; hence
  `ServiceKeepsRunning`, `QuietIsAttached` and `RebuildTakesDownOwn`;
- `Accounts`: an edited path is in a list of waiting events or with a call, comes with
  the context, the image or the container that is next, or has a cause; hence
  `LossIsExplained`.
  An edit moves between these places in most steps of a rebuild, so `Covered` is
  shown step by step.

`QuietIsAttached` and `RebuildTakesDownOwn` are proved for `~Failures`, the sessions
they are about: a device whose calls fail can leave a service down or detached for
reasons of its own, of which `ServiceKeepsRunning` speaks.

**LocalPushProofs.** Types, `LeavingsAreExplained`, `UnwatchedIsExplained`,
`SignalStopsTail`, and two that no run needs to check: `TargetIsBuilt` (the device is
sent a target only when every service is built) and `OnlyDetachedSucceeds` (tailing
never ends well by itself). The strengthening has what holds before the session
(`EarlyInv`), what its options exclude (`OptsInv`), what was created behind the loop
of `init` (`LoopInv`), and who listens to signals (`SignalInv`).

**ReleaseDeployProofs.** Types, `SuccessHasAllImages`, `InterruptSetsFailed`,
`EndedRunningIsTagFailure`, `UntagsAfterPush` and the refinement `Spec => PromiseSpec`. The strengthening says how
the program counter, the outcomes of the images and the decided status follow from
each other: the function can decide on success only after all its images have been
saved, and no step takes the success of an image back.

**RemoteBuildProofs.** Types, `InterruptCancels`, `ReturnedIsDone`, `TagsOfSuccess`,
`SuccessIsFinal`. That a push reports success of successful builds only cannot
be shown from the state of the process: what it will make of the end of the
stream depends on messages it has not read. `IInv` therefore speaks of the whole
stream (`AttachedInv`): if the builder has named the release, its id was read or is
still in the stream, ahead of each "end" that no error precedes; and ahead of each "end" there is an error or
`isError`, unless the release succeeded. Where the builder named nothing, the note is
missing, and a push with tags fails.
Lemmas about a stream that grows at one end and is read at the other
(`BeforeSent`, `BeforeTaken`, `ExplainedSent`, `ExplainedTaken`) carry it from step
to step.

**LoginServerProofs.** Types, `TokenIsSound`, `SuccessPageIsTrue`. The strengthening
says what a request has found and stored at each await while no other overlapped it.

**TunnelProofs.** Types, `ClientsLearnTheEnd`, `UnusedTunnelIsLate`, and
`FailsEmptyHanded` (a command line that is refused has no listener), from which
states of a client, its handler and its remote socket go together.

**DataDirProofs.** Types, `RefusalIsDue`, `IgnoranceIsExplained`, `DateIsKept`,
`InstallIsExplained`, `ReadyIsExplained`. For the dates: whatever a file or a run
holds is `Sound` (a date is the right one; a query that found none although there was
one got no answer), also when runs overwrite one another. For the emulator: the
last run that opened the file at the path fills it from its beginning (`FileInv`),
and a folder was filled, is being filled, was there before any run, or has another
cause (`FolderInv`).

The second half of the module is about the cache of OS images, a part of the same
data directory: types and `PartialImageIsExplained`, for any number of runs, any
size of the image and of the buffer.
Two runs may write one file under two names, so the invariant follows files and not
paths: whoever opened a file last has filled it from its beginning (`FilledInv`).
`AloneInv` is for behaviours without overlap: a run renames the file that it fills
itself, and what a reader was given is what its writer had written, unless the writer
died between the rename and its last write.

**CliRunProofs.** Types, `ZeroMeansDone`, the safety of `KeepsPromise` (`Spec =>
Promise!Safe`), `ConsentFirst`, `CloudChangesArePermitted`, `RefusalIsClean` and
`LeftBehindIsExplained`, for any set of command lines whose plans satisfy the
assumptions below. `IInv` follows a plan: what stands before the step that is
executed was done, noted or dropped (`EarlierDone`), and exit code 0 excludes the
latter. `PathInv` says why the process is where it is: it is past a question or a
check only with the answer that lets it pass (`GatesPassed`), an error goes to the
handlers of its own try blocks (`PathFollowed`), an end has a reason
(`EndsForAReason`), and an error after something was made is on its way to the
clean-up (`CleanUpDue`).

What is assumed of the plans is where things stand in them (`IsWellFormed`,
`PlansAssumption`): a question or a check of the access ahead of the changes it is
for, refusals ahead of all changes but those that are undone on the way out, that
belong to earlier items of a loop, or that are in `Kept`, and an open try of the clean-up wherever an
error may follow what is to be removed. TLC evaluates these on every command line
of `commands`. A command that asks too late breaks an assumption; an execution that
goes on without waiting for the answer, or that skips a handler, breaks a property.

Only model-checked: liveness (`RequestsAreServed`, `SessionSettles`, `CtrlCEnds`,
`DeployEnds`, `ImagesGetOutcome`, `PushEnds`, `ImageRunsEnd`, `OutcomeEndsWait`,
`AskedGetsOutcome`, and that of `KeepsPromise`), which is out of the prover's
reach. Every invariant and every action property of the runs is proved.

## 5. Not modelled

- Added and deleted files, and the tasks of a changed Dockerfile, in a live
  session: data of the `livepush` library.
- Parsing of compositions, build tasks, image names: strings and YAML. Deltas.
- Ignore files and line endings: pattern matching and byte statistics, pure and
  sequential, covered by the repository's tests.
- Legacy deployment: one upload, one await after the other. The plan of `deploy`
  has the way of releases.
- Preparsing of arguments, deferred messages, error reports, output, proxies,
  the update notifier and fast boot: wording, and caches of other packages.
- What libraries do inside one call: the preloader, etcher, partition
  editing, ssh, Docker builds, the supervisor outside of Livepush.

## 6. Plan

1. *Done.* Livepush, Release, ReleaseDeploy, RemoteBuild, ImageCache, LocalPush,
   LoginServer, Tunnel, Deprecation, Emulator and their composition, CliRun with the
   plans of all commands and Request; proofs of all safety properties.
2. Results still worth proving: that runs whose lifetimes do not overlap leave no
   partial emulator, as `AloneInv` says of images; the safety half of the
   deprecation promise beside a command (`news` in CliRun) against Deprecation.
3. A model still worth having: the composition of LocalPush with Livepush, whose
   session starts and ends there at any moment of a rebuild.
