---------------------------- MODULE ReleaseDeploy ----------------------------
(***************************************************************************)
(* deployProject of src/utils/compose_ts.ts ("balena deploy"): create the  *)
(* release, tag the images, push them and save the outcome of each, untag, *)
(* save the status of the release.                                         *)
(*                                                                         *)
(* Promise.all and Promise.race reject as soon as one promise does, and    *)
(* cancel nothing: what was started goes on beside the rest of the         *)
(* function until the process ends.  So the tag, push and remove calls of  *)
(* the images are actors of their own beside "main".                       *)
(***************************************************************************)
EXTENDS Naturals

CONSTANTS
    Images,            \* the built images, one per service
    MaxPushAttempts,   \* maxAttempts of the retry in pushImage
    ApiFailures        \* whether requests to the API can fail for good

ASSUME DeployAssumption ==
    /\ Images # {}
    /\ MaxPushAttempts \in Nat \ {0}
    /\ ApiFailures \in BOOLEAN

VARIABLES
    main,        \* where deployProject is
    error,       \* an error is on its way to the caller
    status,      \* release.status, in memory
    alive,       \* the process runs
    tagging,     \* images whose tag() is in flight
    tagged,      \* images that have the release's tag in the Docker engine
    removing,    \* images whose remove() is in flight
    task,        \* the interruptible task: "none", "authorizing" or "pushing"
    push,        \* image -> where inspectAndPushImage is
    attempts,    \* image -> push attempts that failed
    outcome,     \* image -> serviceImage.status, in memory
    release,     \* status of the release record of the API
    ended,       \* the release record has an end_timestamp
    image,       \* image -> status of its record of the API
    \* history
    interrupted,   \* SIGINT arrived during the interruptible task
    tagFailed, removeFailed, saveFailed   \* such a call has failed

apiVars     == <<release, ended, image>>
dockerVars  == <<tagging, tagged, removing>>
pushVars    == <<push, attempts, outcome>>
historyVars == <<interrupted, tagFailed, removeFailed, saveFailed>>
vars == <<main, error, status, alive, task, apiVars, dockerVars, pushVars, historyVars>>

Finished == {"returned", "rejected"}

TypeOK ==
    /\ main \in {"creating", "tagging", "task", "untagging", "saving"} \cup Finished
    /\ error \in BOOLEAN
    /\ status \in {"running", "success", "failed"}
    /\ alive \in BOOLEAN
    /\ tagging \subseteq Images
    /\ tagged \subseteq Images
    /\ removing \subseteq Images
    /\ task \in {"none", "authorizing", "pushing"}
    /\ push \in [Images -> {"none", "waiting", "pushing", "saving", "done", "threw"}]
    /\ attempts \in [Images -> 0..MaxPushAttempts]
    /\ outcome \in [Images -> {"running", "success", "failed"}]
    /\ release \in {"none", "running", "success", "failed"}
    /\ ended \in BOOLEAN
    /\ image \in [Images -> {"none", "running", "success", "failed"}]
    /\ interrupted \in BOOLEAN
    /\ tagFailed \in BOOLEAN
    /\ removeFailed \in BOOLEAN
    /\ saveFailed \in BOOLEAN

Init ==
    /\ main = "creating"
    /\ error = FALSE
    /\ status = "running"
    /\ alive = TRUE
    /\ tagging = {} /\ tagged = {} /\ removing = {}
    /\ task = "none"
    /\ push = [i \in Images |-> "none"]
    /\ attempts = [i \in Images |-> 0]
    /\ outcome = [i \in Images |-> "running"]
    /\ release = "none"
    /\ ended = FALSE
    /\ image = [i \in Images |-> "none"]
    /\ interrupted = FALSE
    /\ tagFailed = FALSE /\ removeFailed = FALSE /\ saveFailed = FALSE

-----------------------------------------------------------------------------
(* createRelease and tagServiceImages *)

\* The release record, then the image records side by side: with a failure,
\* any of them may be there.
CreateRelease ==
    /\ alive
    /\ main = "creating"
    /\ \/ /\ release' = "running"
          /\ image' = [i \in Images |-> "running"]
          /\ main' = "tagging"
          /\ tagging' = Images
          /\ UNCHANGED error
       \/ /\ ApiFailures
          /\ \/ UNCHANGED <<release, image>>
             \/ release' = "running" /\ image' \in [Images -> {"none", "running"}]
          /\ main' = "rejected"
          /\ error' = TRUE
          /\ UNCHANGED tagging
    /\ UNCHANGED <<status, alive, task, ended, tagged, removing, pushVars, historyVars>>

Tag(i) ==
    /\ alive
    /\ i \in tagging
    /\ tagging' = tagging \ {i}
    /\ \/ /\ tagged' = tagged \cup {i}
          /\ UNCHANGED tagFailed
       \/ /\ tagFailed' = TRUE
          /\ UNCHANGED tagged
    /\ UNCHANGED <<main, error, status, alive, task, apiVars, removing, pushVars,
                   interrupted, removeFailed, saveFailed>>

TagsAwaitedAll ==   \* mutant: a failed tag() settles nothing
    /\ alive
    /\ main = "tagging"
    /\ tagged = Images
    /\ main' = "task"
    /\ task' = "authorizing"
    /\ UNCHANGED <<error, status, alive, apiVars, dockerVars, pushVars, historyVars>>

\* All tags are set: the interruptible task starts.  One failed: the rest of
\* the outer "try" is skipped, its "finally" saves the release as it is.
TagsAwaited ==
    /\ alive
    /\ main = "tagging"
    /\ \/ /\ tagged = Images
          /\ main' = "task"
          /\ task' = "authorizing"
          /\ UNCHANGED error
       \/ /\ tagFailed
          /\ main' = "saving"
          /\ error' = TRUE
          /\ UNCHANGED task
    /\ UNCHANGED <<status, alive, apiVars, dockerVars, pushVars, historyVars>>

-----------------------------------------------------------------------------
(* The interruptible task: getTokenForPreviousRepos, whose requests fall    *)
(* back to no repositories and no token, then pushAndUpdateServiceImages    *)

Authorized ==
    /\ alive
    /\ task = "authorizing"
    /\ task' = "pushing"
    /\ push' = [i \in Images |-> "waiting"]
    /\ UNCHANGED <<main, error, status, alive, apiVars, dockerVars, attempts, outcome,
                   historyVars>>

\* inspectAndPushImage leaves its "try" with the status of the image, and
\* its "finally" is to save it.
PushEnds(i, result) ==
    /\ push' = [push EXCEPT ![i] = "saving"]
    /\ outcome' = [outcome EXCEPT ![i] = result]

AttemptFailsForever(i) ==   \* mutant: the attempts are not counted
    /\ push' = [push EXCEPT ![i] = "waiting"]
    /\ UNCHANGED <<attempts, outcome>>

\* A failed attempt is retried after a delay, the last one is not.
AttemptFails(i) ==
    /\ attempts' = [attempts EXCEPT ![i] = @ + 1]
    /\ IF attempts[i] + 1 < MaxPushAttempts
         THEN /\ push' = [push EXCEPT ![i] = "waiting"]
              /\ UNCHANGED outcome
         ELSE PushEnds(i, "failed")

\* An attempt looks the image up by its tag, which may be gone by now.
StartAttempt(i) ==
    /\ alive
    /\ push[i] = "waiting"
    /\ IF i \in tagged
         THEN /\ push' = [push EXCEPT ![i] = "pushing"]
              /\ UNCHANGED <<attempts, outcome>>
         ELSE AttemptFails(i)
    /\ UNCHANGED <<main, error, status, alive, task, apiVars, dockerVars, historyVars>>

\* The upload ends well, fails, or ends without a digest (not retried).
PushImage(i) ==
    /\ alive
    /\ push[i] = "pushing"
    /\ \/ PushEnds(i, "success") /\ UNCHANGED attempts
       \/ AttemptFails(i)
       \/ PushEnds(i, "failed") /\ UNCHANGED attempts
    /\ UNCHANGED <<main, error, status, alive, task, apiVars, dockerVars, historyVars>>

\* inspect(), awaited beside the push, fails: the push is not waited for and
\* what it ends with is dropped.
InspectFails(i) ==
    /\ alive
    /\ push[i] \in {"waiting", "pushing"}
    /\ PushEnds(i, "failed")
    /\ UNCHANGED <<main, error, status, alive, task, apiVars, dockerVars, attempts, historyVars>>

\* afterEach: updateImage.
SaveImage(i) ==
    /\ alive
    /\ push[i] = "saving"
    /\ \/ /\ image' = [image EXCEPT ![i] = outcome[i]]
          /\ push' = [push EXCEPT ![i] = IF outcome[i] = "success" THEN "done" ELSE "threw"]
       \/ /\ ApiFailures
          /\ push' = [push EXCEPT ![i] = "threw"]
          /\ UNCHANGED image
    /\ UNCHANGED <<main, error, status, alive, task, release, ended, dockerVars,
                   attempts, outcome, historyVars>>

-----------------------------------------------------------------------------
(* The rest of deployProject *)

\* To the inner "finally": remove() every tag.
LeaveTask(newStatus) ==
    /\ main' = "untagging"
    /\ status' = newStatus
    /\ removing' = Images

PushesSucceedUnsaved ==   \* mutant: afterEach is not awaited
    /\ alive
    /\ main = "task"
    /\ \A i \in Images : push[i] \in {"saving", "done"} /\ outcome[i] = "success"
    /\ LeaveTask("success")
    /\ UNCHANGED <<error, alive, task, apiVars, tagging, tagged, pushVars, historyVars>>

PushesSucceedFirst ==   \* mutant: the first image that is pushed ends the task
    /\ alive
    /\ main = "task"
    /\ \E i \in Images : push[i] = "done"
    /\ LeaveTask("success")
    /\ UNCHANGED <<error, alive, task, apiVars, tagging, tagged, pushVars, historyVars>>

PushesSucceed ==
    /\ alive
    /\ main = "task"
    /\ \A i \in Images : push[i] = "done"
    /\ LeaveTask("success")
    /\ UNCHANGED <<error, alive, task, apiVars, tagging, tagged, pushVars, historyVars>>

PushesFailKeepsStatus ==   \* mutant: the status is not set where an image throws
    /\ alive
    /\ main = "task"
    /\ \E i \in Images : push[i] = "threw"
    /\ LeaveTask(status)
    /\ error' = TRUE
    /\ UNCHANGED <<alive, task, apiVars, tagging, tagged, pushVars, historyVars>>

\* The first image that throws rejects the task.
PushesFail ==
    /\ alive
    /\ main = "task"
    /\ \E i \in Images : push[i] = "threw"
    /\ LeaveTask("failed")
    /\ error' = TRUE
    /\ UNCHANGED <<alive, task, apiVars, tagging, tagged, pushVars, historyVars>>

InterruptKeepsStatus ==   \* mutant: SIGINTError passes by the "catch"
    /\ alive
    /\ main = "task"
    /\ interrupted' = TRUE
    /\ LeaveTask(status)
    /\ error' = TRUE
    /\ UNCHANGED <<alive, task, apiVars, tagging, tagged, pushVars,
                   tagFailed, removeFailed, saveFailed>>

\* SIGINT during the task: awaitInterruptibleTask throws SIGINTError; the
\* task itself goes on.
Interrupt ==
    /\ alive
    /\ main = "task"
    /\ interrupted' = TRUE
    /\ LeaveTask("failed")
    /\ error' = TRUE
    /\ UNCHANGED <<alive, task, apiVars, tagging, tagged, pushVars,
                   tagFailed, removeFailed, saveFailed>>

Untag(i) ==
    /\ alive
    /\ i \in removing
    /\ removing' = removing \ {i}
    /\ \/ /\ tagged' = tagged \ {i}
          /\ UNCHANGED removeFailed
       \/ /\ removeFailed' = TRUE
          /\ UNCHANGED tagged
    /\ UNCHANGED <<main, error, status, alive, task, apiVars, tagging, pushVars,
                   interrupted, tagFailed, saveFailed>>

UntagsAwaited ==
    /\ alive
    /\ main = "untagging"
    /\ removing = {} \/ removeFailed
    /\ main' = "saving"
    /\ error' = (error \/ removeFailed)
    /\ UNCHANGED <<status, alive, task, apiVars, dockerVars, pushVars, historyVars>>

\* The outer "finally": updateRelease with the status and an end_timestamp.
SaveRelease ==
    /\ alive
    /\ main = "saving"
    /\ \/ /\ release' = status
          /\ ended' = TRUE
          /\ main' = IF error THEN "rejected" ELSE "returned"
          /\ UNCHANGED <<error, saveFailed>>
       \/ /\ ApiFailures
          /\ error' = TRUE
          /\ saveFailed' = TRUE
          /\ main' = "rejected"
          /\ UNCHANGED <<release, ended>>
    /\ UNCHANGED <<status, alive, task, image, dockerVars, pushVars,
                   interrupted, tagFailed, removeFailed>>

\* handleError ends the process after an error; SIGINT ends it wherever
\* nothing handles the signal; it may be killed.
ProcessEnds ==
    /\ alive
    /\ alive' = FALSE
    /\ UNCHANGED <<main, error, status, task, apiVars, dockerVars, pushVars, historyVars>>

-----------------------------------------------------------------------------
Main == CreateRelease \/ TagsAwaited \/ PushesSucceed \/ PushesFail \/ UntagsAwaited \/ SaveRelease

ImageCalls(i) ==
    Tag(i) \/ StartAttempt(i) \/ PushImage(i) \/ InspectFails(i) \/ SaveImage(i) \/ Untag(i)

Next ==
    \/ Main
    \/ Authorized
    \/ \E i \in Images : ImageCalls(i)
    \/ Interrupt
    \/ ProcessEnds

Spec == Init /\ [][Next]_vars

\* Every awaited call is answered; no signal has to arrive.
Fairness ==
    /\ WF_vars(Main)
    /\ WF_vars(Authorized)
    /\ \A i \in Images : WF_vars(ImageCalls(i))

FairSpec == Spec /\ Fairness

-----------------------------------------------------------------------------
(* Properties *)

\* The release record never reads "success" while an image of it does not,
\* although the statuses are saved by separate requests of concurrent calls
\* that outlive the function.
SuccessHasAllImages ==
    release = "success" => \A i \in Images : image[i] = "success"

\* A CTRL-C during the push ends in "failed", or, where the process is ended
\* or the save fails before that, in "running".
InterruptSetsFailed ==
    interrupted =>
        /\ release \in {"running", "failed"}
        /\ main \in Finished /\ ~saveFailed => release = "failed"

\* A release that was saved with an end time and still reads "running" is
\* one whose images could not be tagged.
EndedRunningIsTagFailure == ended /\ release = "running" => tagFailed

\* The tag of an image that is being pushed is taken away only in a deploy
\* that failed already.
UntagsAfterPush ==
    [][\A i \in Images : i \in tagged \ tagged' =>
          push[i] \in {"done", "threw"} \/ status = "failed"]_vars

\* deployProject returns or rejects, unless the process is ended.
DeployEnds == <>(main \in Finished \/ ~alive)

\* If the process is not ended, every image that is pushed gets its outcome
\* saved, or an error thrown for it, also after the release was saved.
ImagesGetOutcome ==
    []alive => \A i \in Images : push[i] = "waiting" ~> push[i] \in {"done", "threw"}

\* The statuses other clients see are those of the abstract specification.
Promise == INSTANCE Release WITH Images <- Images, release <- release, image <- image
PromiseSpec == Promise!Spec
=============================================================================
