----------------------------- MODULE RemoteBuild -----------------------------
(***************************************************************************)
(* "balena push <fleet>": startRemoteBuild of src/utils/remote-build.ts    *)
(* and what pushToCloud of src/commands/push/index.ts does with its        *)
(* result.                                                                 *)
(*                                                                         *)
(* The CLI learns of the release, and of the end of the build, from a      *)
(* stream of messages; other clients see the release record of the API.    *)
(* CTRL-C races with all of them: it is handled once, closes the stream    *)
(* and asks the API to cancel the release, if the CLI has heard of it.     *)
(***************************************************************************)
EXTENDS Naturals, Sequences

CONSTANTS
    Tags,       \* the tags that --release-tag may give
    MaxLogs,    \* log lines of the builder (bound)
    Faults      \* whether the network, the builder and the API can fail

ASSUME RemoteBuildAssumption ==
    /\ Faults \in BOOLEAN
    /\ MaxLogs \in Nat

VARIABLES
    opts,         \* the options of the command, and whether stdout is a terminal
    \* the builder (external) and the API
    builder,      \* "receiving", "building" or "ended"
    logs,         \* log lines it has sent
    release,      \* status of the release record
    announced,    \* the builder has sent the id of the release
    tagsSet,      \* tags of the release
    note,         \* the release has the note of --note
    \* the stream, oldest first; it is empty when the request is destroyed
    stream,
    \* the process
    cli,
    listening,    \* the SIGINT handler is installed
    rejected,     \* the stream's first "error" was taken by reject
    releaseId,    \* build.releaseId is set
    hadError,     \* build.hadError
    cancel,       \* the request of cancelBuildIfNecessary
    interrupted,  \* process.exitCode = 130
    tagging       \* tags whose set() is in flight

apiVars == <<builder, logs, release, announced, tagsSet, note>>
buildVars == <<releaseId, hadError>>
vars == <<opts, apiVars, stream, cli, listening, rejected, buildVars, cancel, interrupted, tagging>>

Headless == opts.headless

\* --detached and --release-tag exclude each other.
Options == {o \in [headless : BOOLEAN, tty : BOOLEAN, tags : SUBSET Tags, note : BOOLEAN] :
               o.headless => o.tags = {}}

Messages == {"buildLogId", "log", "isError", "started", "startedUnnamed", "notStarted", "end",
             "httpError", "parseError", "lost"}

Ended == {"returned", "failed", "killed"}

TypeOK ==
    /\ opts \in Options
    /\ builder \in {"receiving", "building", "ended"}
    /\ logs \in 0..MaxLogs
    /\ release \in {"none", "running", "success", "failed", "cancelled"}
    /\ announced \in BOOLEAN
    /\ tagsSet \subseteq opts.tags
    /\ note \in BOOLEAN
    /\ stream \in Seq(Messages)
    /\ cli \in {"preparing", "streaming", "cleaning", "tagging", "noting"} \cup Ended
    /\ listening \in BOOLEAN
    /\ rejected \in BOOLEAN
    /\ releaseId \in BOOLEAN
    /\ hadError \in BOOLEAN
    /\ cancel \in {"none", "sent", "done", "failed"}
    /\ interrupted \in BOOLEAN
    /\ tagging \subseteq opts.tags \ tagsSet

Init ==
    /\ opts \in Options
    /\ builder = "receiving"
    /\ logs = 0
    /\ release = "none"
    /\ announced = FALSE
    /\ tagsSet = {} /\ note = FALSE
    /\ stream = <<>>
    /\ cli = "preparing"
    /\ listening = FALSE
    /\ rejected = FALSE
    /\ releaseId = FALSE /\ hadError = FALSE
    /\ cancel = "none"
    /\ interrupted = FALSE
    /\ tagging = {}

-----------------------------------------------------------------------------
(* The builder (external): it sends log lines, the id of the release it     *)
(* created, an isError message when the build fails, and ends the response. *)
(* Nothing makes it send the id, and pushToCloud expects that it may not.   *)

\* Nothing reaches the CLI any more once it destroyed the request.
Send(messages) == stream' = IF interrupted THEN <<>> ELSE stream \o messages

BuilderAccepts ==
    /\ builder = "receiving"
    /\ cli # "preparing"
    /\ builder' = "building"
    /\ release' = "running"
    /\ \/ ~Headless /\ announced' = FALSE /\ Send(<<>>)
       \/ Headless /\ announced' = TRUE /\ Send(<<"started">>)
       \/ Headless /\ announced' = FALSE /\ Send(<<"startedUnnamed">>)
    /\ UNCHANGED <<logs, tagsSet, note>>

BuilderAnnounces ==
    /\ builder = "building"
    /\ ~Headless /\ ~announced
    /\ announced' = TRUE
    /\ Send(<<"buildLogId">>)
    /\ UNCHANGED <<builder, logs, release, tagsSet, note>>

\* An HTTP error, whose body need not be JSON; or a headless build that is
\* not started.
BuilderRefuses ==
    /\ builder = "receiving"
    /\ cli # "preparing"
    /\ builder' = "ended"
    /\ \/ Send(<<"httpError", "end">>)
       \/ ~Headless /\ Send(<<"httpError", "parseError">>)
       \/ Headless /\ Send(<<"notStarted">>)
    /\ UNCHANGED <<logs, release, announced, tagsSet, note>>

BuilderLogs ==
    /\ builder = "building"
    /\ ~Headless
    /\ logs < MaxLogs
    /\ logs' = logs + 1
    /\ Send(<<"log">>)
    /\ UNCHANGED <<builder, release, announced, tagsSet, note>>

BuilderEnds ==
    /\ builder = "building"
    /\ builder' = "ended"
    /\ \/ /\ release' = IF release = "running" THEN "success" ELSE release
          /\ Send(IF Headless THEN <<>> ELSE <<"end">>)
       \/ /\ release' = IF release = "running" THEN "failed" ELSE release
          /\ Send(IF Headless THEN <<>> ELSE <<"isError", "end">>)
    /\ UNCHANGED <<logs, announced, tagsSet, note>>

Builder ==
    /\ BuilderAccepts \/ BuilderRefuses \/ BuilderAnnounces \/ BuilderLogs \/ BuilderEnds
    /\ UNCHANGED <<cli, listening, rejected, buildVars, cancel, interrupted, tagging>>

\* The connection breaks: what was in flight is lost.
ConnectionBreaks ==
    /\ Faults
    /\ cli = "streaming"
    /\ ~rejected
    /\ stream' = <<"lost">>
    /\ builder' = IF builder = "receiving" THEN "ended" ELSE builder
    /\ UNCHANGED <<logs, release, announced, tagsSet, note, cli, listening, rejected, buildVars, cancel,
                   interrupted, tagging>>

-----------------------------------------------------------------------------
(* startRemoteBuild *)

\* getRemoteBuildStream; then the handler of SIGINT is installed.
OpenStream ==
    /\ cli = "preparing"
    /\ \/ cli' = "streaming" /\ listening' = TRUE
       \/ cli' = "failed" /\ UNCHANGED listening
    /\ UNCHANGED <<apiVars, stream, rejected, buildVars, cancel, interrupted, tagging>>

\* The promise of the stream is settled: the rest of startRemoteBuild waits
\* for the cancellation, if there is one.
Reject ==
    /\ rejected' = TRUE
    /\ cli' = "cleaning"
    /\ listening' = FALSE

\* startRemoteBuild returns build.releaseId: pushToCloud goes on with the
\* tags and the note, if the release is known.
Returns(known) ==
    /\ listening' = FALSE
    /\ rejected' = rejected
    /\ IF known
         THEN cli' = "tagging" /\ tagging' = opts.tags
         ELSE cli' = (IF opts.tags = {} THEN "returned" ELSE "failed") /\ UNCHANGED tagging

StreamEndsUnchecked ==   \* mutant: build.hadError is not looked at
    Returns(releaseId)

\* The "end" of the stream: a failed build rejects.
StreamEnds ==
    IF hadError
      THEN cli' = "failed" /\ listening' = FALSE /\ UNCHANGED <<rejected, tagging>>
      ELSE Returns(releaseId)

Receive ==
    /\ cli \in {"streaming", "cleaning"}
    /\ stream # <<>>
    /\ stream' = Tail(stream)
    /\ LET message == Head(stream) IN
         \/ /\ message = "buildLogId"
            /\ releaseId' = TRUE
            /\ UNCHANGED <<cli, listening, rejected, hadError, tagging>>
         \/ /\ message = "isError"
            /\ hadError' = TRUE
            /\ UNCHANGED <<cli, listening, rejected, releaseId, tagging>>
         \/ /\ message = "log"
            /\ UNCHANGED <<cli, listening, rejected, buildVars, tagging>>
         \* handleHeadlessBuildStream: one message; it sets the id on a terminal
         \* only, and only if the message has one
         \/ /\ message \in {"started", "startedUnnamed", "notStarted"}
            /\ releaseId' = (opts.tty /\ message = "started")
            /\ Returns(releaseId')
            /\ UNCHANGED hadError
         \/ /\ message = "end"
            /\ IF rejected THEN UNCHANGED <<cli, listening, rejected, tagging>> ELSE StreamEnds
            /\ UNCHANGED buildVars
         \* "error" is listened to once: a second one is uncaught
         \/ /\ message \in {"httpError", "parseError", "lost"}
            /\ IF rejected
                 THEN cli' = "killed" /\ UNCHANGED <<listening, rejected>>
                 ELSE Reject
            /\ UNCHANGED <<buildVars, tagging>>
    /\ UNCHANGED <<apiVars, cancel, interrupted>>

InterruptUnawaited ==   \* mutant: the promise of the cancellation is dropped
    /\ listening
    /\ interrupted' = TRUE
    /\ cancel' = IF releaseId THEN "sent" ELSE cancel
    /\ stream' = <<>>
    /\ rejected' = TRUE
    /\ cli' = "failed"
    /\ listening' = FALSE
    /\ UNCHANGED <<apiVars, buildVars, tagging>>

\* SIGINT while the stream is open: cancelBuildIfNecessary, destroy the
\* request and emit the error.
Interrupt ==
    /\ listening
    /\ interrupted' = TRUE
    /\ cancel' = IF releaseId THEN "sent" ELSE cancel
    /\ stream' = <<>>
    /\ Reject
    /\ UNCHANGED <<apiVars, buildVars, tagging>>

\* SIGINT where nothing handles it, or handles it once more.
Kill ==
    /\ ~listening
    /\ cli \notin Ended
    /\ cli' = "killed"
    /\ UNCHANGED <<apiVars, stream, listening, rejected, buildVars, cancel, interrupted, tagging>>

\* The API serves the request: a release that succeeded is left alone.
Cancel ==
    /\ cancel = "sent"
    /\ \/ /\ cancel' = "done"
          /\ release' = IF release = "success" THEN release ELSE "cancelled"
       \/ /\ Faults
          /\ cancel' = "failed"
          /\ UNCHANGED release
    /\ UNCHANGED <<builder, logs, announced, tagsSet, note, stream, cli, listening, rejected,
                   buildVars, interrupted, tagging>>

CleanedOnDone ==   \* mutant: waits for a cancellation that may have failed
    /\ cli = "cleaning"
    /\ cancel \in {"none", "done"}
    /\ cli' = "failed"
    /\ UNCHANGED <<apiVars, stream, listening, rejected, buildVars, cancel, interrupted, tagging>>

\* "finally": await the cancellation; then the error reaches handleError.
Cleaned ==
    /\ cli = "cleaning"
    /\ cancel # "sent"
    /\ cli' = "failed"
    /\ UNCHANGED <<apiVars, stream, listening, rejected, buildVars, cancel, interrupted, tagging>>

-----------------------------------------------------------------------------
(* The rest of pushToCloud *)

\* applyReleaseTagKeysAndValues sets all tags at once; the first call that
\* fails rejects.
SetTag(t) ==
    /\ cli = "tagging"
    /\ t \in tagging
    /\ \/ /\ tagsSet' = tagsSet \cup {t}
          /\ tagging' = tagging \ {t}
          /\ UNCHANGED cli
       \/ /\ Faults
          /\ cli' = "failed"
          /\ UNCHANGED <<tagsSet, tagging>>
    /\ UNCHANGED <<builder, logs, release, announced, note, stream, listening, rejected, buildVars,
                   cancel, interrupted>>

TagsSet ==
    /\ cli = "tagging"
    /\ tagging = {}
    /\ cli' = "noting"
    /\ UNCHANGED <<apiVars, stream, listening, rejected, buildVars, cancel, interrupted, tagging>>

SetNoteWithTags ==   \* mutant: the note is set when there are tags to set
    /\ cli = "noting"
    /\ \/ note' = (opts.note /\ opts.tags # {}) /\ cli' = "returned"
       \/ Faults /\ opts.note /\ cli' = "failed" /\ UNCHANGED note
    /\ UNCHANGED <<builder, logs, release, announced, tagsSet, stream, listening, rejected,
                   buildVars, cancel, interrupted, tagging>>

SetNote ==
    /\ cli = "noting"
    /\ \/ note' = opts.note /\ cli' = "returned"
       \/ Faults /\ opts.note /\ cli' = "failed" /\ UNCHANGED note
    /\ UNCHANGED <<builder, logs, release, announced, tagsSet, stream, listening, rejected,
                   buildVars, cancel, interrupted, tagging>>

-----------------------------------------------------------------------------
Process == OpenStream \/ Receive \/ Cleaned \/ TagsSet \/ SetNote \/ \E t \in Tags : SetTag(t)

Next ==
    /\ Builder \/ ConnectionBreaks \/ Process \/ Interrupt \/ Kill \/ Cancel
    /\ UNCHANGED opts

Spec == Init /\ [][Next]_vars

\* The builder works, requests are answered; nobody has to interrupt.
FairSpec ==
    /\ Spec
    /\ WF_vars((BuilderAccepts \/ BuilderRefuses) /\ Builder /\ UNCHANGED opts)
    /\ WF_vars(BuilderEnds /\ Builder /\ UNCHANGED opts)
    /\ WF_vars(Process /\ UNCHANGED opts)
    /\ WF_vars(Cancel /\ UNCHANGED opts)

-----------------------------------------------------------------------------
(* Properties *)

\* A build that is interrupted after the CLI heard of its release is
\* cancelled by the time the command ends, unless it succeeded before, or
\* the request to cancel it failed.
InterruptCancels ==
    interrupted /\ releaseId /\ cli = "failed" /\ cancel # "failed" =>
        release \in {"cancelled", "success"}

\* A release that other clients have seen as successful is never cancelled.
SuccessIsFinal == [][release = "success" => release' = "success"]_vars

\* A push that waits for its build reports success of successful builds
\* only, with their tags and note set. The note may be missing for one
\* reason: the builder never named the release. Tags are not lost like that:
\* a push that was given some fails then.
ReturnedIsSuccess ==
    ~Headless /\ cli = "returned" =>
        /\ release = "success" /\ tagsSet = opts.tags
        /\ note = opts.note \/ ~announced

\* Tags and notes go to releases that succeeded only.
TagsOfSuccess == ~Headless /\ (tagsSet # {} \/ note) => release = "success"

\* The command ends, also when it is interrupted.
PushEnds == <>(cli \in Ended)

\* The note is set of every build whose release the builder named, but where
\* a headless build has no terminal.
NoteIsSetOnTty ==
    (Headless => opts.tty) /\ cli = "returned" /\ announced => note = opts.note

\* A push that returned did what its command line asked for, as far as the
\* code waits to know it.
ReturnedIsDone == ReturnedIsSuccess /\ NoteIsSetOnTty
=============================================================================
