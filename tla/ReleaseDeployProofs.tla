------------------------- MODULE ReleaseDeployProofs -------------------------
(***************************************************************************)
(* Proofs about ReleaseDeploy, for every set of images, every number of    *)
(* push attempts, with and without failures of the API.                    *)
(***************************************************************************)
EXTENDS ReleaseDeploy, TLAPS

USE DeployAssumption

-----------------------------------------------------------------------------
(* Types, in groups that the actions change together.                      *)

MainType ==
    /\ main \in {"creating", "tagging", "task", "untagging", "saving"} \cup Finished
    /\ error \in BOOLEAN
    /\ status \in {"running", "success", "failed"}
    /\ alive \in BOOLEAN
    /\ task \in {"none", "authorizing", "pushing"}

PushType ==
    /\ push \in [Images -> {"none", "waiting", "pushing", "saving", "done", "threw"}]
    /\ outcome \in [Images -> {"running", "success", "failed"}]

\* An image that is still tried has attempts left; none is before the task
\* pushes.
AttemptType ==
    /\ attempts \in [Images -> 0..MaxPushAttempts]
    /\ \A i \in Images : push[i] \in {"none", "waiting", "pushing"} => attempts[i] < MaxPushAttempts
    /\ task # "pushing" => \A i \in Images : push[i] = "none"
    /\ main \in {"creating", "tagging"} => task = "none"

ApiType ==
    /\ release \in {"none", "running", "success", "failed"}
    /\ ended \in BOOLEAN
    /\ image \in [Images -> {"none", "running", "success", "failed"}]

DockerType ==
    /\ tagging \subseteq Images
    /\ tagged \subseteq Images
    /\ removing \subseteq Images

HistoryType ==
    /\ interrupted \in BOOLEAN
    /\ tagFailed \in BOOLEAN
    /\ removeFailed \in BOOLEAN
    /\ saveFailed \in BOOLEAN

Types == MainType /\ PushType /\ AttemptType /\ ApiType /\ DockerType /\ HistoryType


LEMMA TypesImply == Types => TypeOK
  BY DEF Types, MainType, PushType, AttemptType, ApiType, DockerType, HistoryType, TypeOK

LEMMA TypesInit == Init => Types
<1> SUFFICES ASSUME Init PROVE Types
  OBVIOUS
<1>1. MainType
  BY DEF Init, MainType
<1>2. PushType /\ ApiType
  BY DEF Init, PushType, ApiType
<1>5. AttemptType
  BY DEF Init, AttemptType, DeployAssumption
<1>3. DockerType /\ HistoryType
  BY DEF Init, DockerType, HistoryType
<1>4. QED
  BY <1>1, <1>2, <1>3, <1>5 DEF Types

LEMMA TypesStep == Types /\ [Next]_vars => Types'
<1> USE DEF Types, vars, apiVars, dockerVars, pushVars, historyVars
<1> SUFFICES ASSUME Types, [Next]_vars PROVE Types'
  OBVIOUS
<1>1. CASE CreateRelease
  <2>1. MainType'
    BY <1>1 DEF CreateRelease, MainType, Finished
  <2>2. PushType' /\ AttemptType' /\ HistoryType'
    BY <1>1 DEF CreateRelease, PushType, AttemptType, HistoryType
  <2>3. ApiType'
    BY <1>1 DEF CreateRelease, ApiType
  <2>4. DockerType'
    BY <1>1 DEF CreateRelease, DockerType
  <2>5. QED
    BY <2>1, <2>2, <2>3, <2>4
<1>2. ASSUME NEW i \in Images, Tag(i) PROVE Types'
  <2>1. MainType' /\ PushType' /\ AttemptType' /\ ApiType'
    BY <1>2 DEF Tag, MainType, PushType, AttemptType, ApiType
  <2>2. DockerType'
    BY <1>2 DEF Tag, DockerType
  <2>3. HistoryType'
    BY <1>2 DEF Tag, HistoryType
  <2>4. QED
    BY <2>1, <2>2, <2>3
<1>3. CASE TagsAwaited
  <2>1. MainType' /\ PushType' /\ ApiType'
    BY <1>3 DEF TagsAwaited, MainType, PushType, ApiType
  <2>2. AttemptType'
    BY <1>3 DEF TagsAwaited, AttemptType
  <2>3. DockerType' /\ HistoryType'
    BY <1>3 DEF TagsAwaited, DockerType, HistoryType
  <2>4. QED
    BY <2>1, <2>2, <2>3
<1>4. CASE Authorized
  <2>1. MainType'
    BY <1>4 DEF Authorized, MainType
  <2>4. PushType' /\ ApiType'
    BY <1>4 DEF Authorized, PushType, ApiType
  <2>5. AttemptType'
    BY <1>4 DEF Authorized, AttemptType
  <2>2. DockerType'
    BY <1>4 DEF Authorized, DockerType
  <2>3. HistoryType'
    BY <1>4 DEF Authorized, HistoryType
  <2>6. QED
    BY <2>1, <2>2, <2>3, <2>4, <2>5
<1>5. ASSUME NEW i \in Images, StartAttempt(i) PROVE Types'
  BY <1>5 DEF StartAttempt, AttemptFails, PushEnds, MainType, PushType, AttemptType, ApiType,
              DockerType, HistoryType
<1>6. ASSUME NEW i \in Images, PushImage(i) PROVE Types'
  BY <1>6 DEF PushImage, AttemptFails, PushEnds, MainType, PushType, AttemptType, ApiType,
              DockerType, HistoryType
<1>7. ASSUME NEW i \in Images, InspectFails(i) PROVE Types'
  BY <1>7 DEF InspectFails, PushEnds, MainType, PushType, AttemptType, ApiType, DockerType,
              HistoryType
<1>8. ASSUME NEW i \in Images, SaveImage(i) PROVE Types'
  BY <1>8 DEF SaveImage, MainType, PushType, AttemptType, ApiType, DockerType, HistoryType
<1>9. CASE PushesSucceed
  BY <1>9 DEF PushesSucceed, LeaveTask, MainType, PushType, AttemptType, ApiType, DockerType,
              HistoryType
<1>10. CASE PushesFail
  BY <1>10 DEF PushesFail, LeaveTask, MainType, PushType, AttemptType, ApiType, DockerType,
               HistoryType
<1>11. CASE Interrupt
  BY <1>11 DEF Interrupt, LeaveTask, MainType, PushType, AttemptType, ApiType, DockerType,
               HistoryType
<1>12. ASSUME NEW i \in Images, Untag(i) PROVE Types'
  <2>1. MainType' /\ PushType' /\ AttemptType' /\ ApiType'
    BY <1>12 DEF Untag, MainType, PushType, AttemptType, ApiType
  <2>2. DockerType'
    BY <1>12 DEF Untag, DockerType
  <2>3. HistoryType'
    BY <1>12 DEF Untag, HistoryType
  <2>4. QED
    BY <2>1, <2>2, <2>3
<1>13. CASE UntagsAwaited
  BY <1>13 DEF UntagsAwaited, MainType, PushType, AttemptType, ApiType, DockerType, HistoryType
<1>14. CASE SaveRelease
  <2>1. MainType' /\ HistoryType'
    BY <1>14 DEF SaveRelease, MainType, HistoryType, Finished
  <2>2. PushType' /\ AttemptType' /\ ApiType' /\ DockerType'
    BY <1>14 DEF SaveRelease, MainType, PushType, AttemptType, ApiType, DockerType
  <2>3. QED
    BY <2>1, <2>2
<1>15. CASE ProcessEnds
  <2>1. MainType' /\ PushType' /\ AttemptType' /\ ApiType'
    BY <1>15 DEF ProcessEnds, MainType, PushType, AttemptType, ApiType
  <2>2. DockerType'
    BY <1>15 DEF ProcessEnds, DockerType
  <2>3. HistoryType'
    BY <1>15 DEF ProcessEnds, HistoryType
  <2>4. QED
    BY <2>1, <2>2, <2>3
<1>16. CASE UNCHANGED vars
  BY <1>16 DEF MainType, PushType, AttemptType, ApiType, DockerType, HistoryType
<1>17. QED
  BY <1>1, <1>2, <1>3, <1>4, <1>5, <1>6, <1>7, <1>8, <1>9, <1>10, <1>11, <1>12, <1>13, <1>14,
     <1>15, <1>16 DEF Next, Main, ImageCalls

\* Every variable of a deploy stays within its type, the failed push attempts
\* within maxAttempts.
THEOREM DeployTypeCorrect == Spec => []TypeOK
<1>1. Spec => []Types
  BY TypesInit, TypesStep, PTL DEF Spec
<1>2. QED
  BY <1>1, TypesImply, PTL

-----------------------------------------------------------------------------
(* The records of the API follow the calls.                                *)

\* The release record is written by deployProject only, with a status that
\* stands for the outcomes of all the images.
ReleaseFollows ==
    /\ main = "creating" => release = "none" /\ \A i \in Images : image[i] = "none"
    /\ main = "tagging" => \A i \in Images : image[i] = "running"
    /\ main \in {"tagging", "task", "untagging", "saving"} => release = "running"
    /\ main \in {"creating", "tagging", "task"} => status = "running"
    /\ release = "success" => status = "success"
    /\ status = "success" => \A i \in Images : push[i] = "done"

\* An image record reads "running" until inspectAndPushImage saves it, and
\* "success" when that has ended well.
ImagesFollow ==
    \A i \in Images :
        /\ push[i] = "saving" => outcome[i] \in {"success", "failed"}
        /\ push[i] = "done" => image[i] = "success"
        /\ task # "none" /\ push[i] \in {"none", "waiting", "pushing", "saving"}
             => image[i] = "running"

IInv == Types /\ ReleaseFollows /\ ImagesFollow

LEMMA FollowsInit == Init => ReleaseFollows /\ ImagesFollow
  BY DEF Init, ReleaseFollows, ImagesFollow

LEMMA FollowsStep == IInv /\ [Next]_vars => ReleaseFollows' /\ ImagesFollow'
<1> USE DEF vars, apiVars, dockerVars, pushVars, historyVars
<1> SUFFICES ASSUME IInv, [Next]_vars PROVE ReleaseFollows' /\ ImagesFollow'
  OBVIOUS
<1>t. /\ main \in {"creating", "tagging", "task", "untagging", "saving"} \cup Finished
      /\ push \in [Images -> {"none", "waiting", "pushing", "saving", "done", "threw"}]
      /\ outcome \in [Images -> {"running", "success", "failed"}]
      /\ image \in [Images -> {"none", "running", "success", "failed"}]
      /\ task # "pushing" => \A i \in Images : push[i] = "none"
      /\ main \in {"creating", "tagging"} => task = "none"
  BY DEF IInv, Types, MainType, PushType, AttemptType, ApiType
<1>r. ReleaseFollows /\ ImagesFollow
  BY DEF IInv
<1>1. CASE CreateRelease
  BY <1>1, <1>t, <1>r DEF CreateRelease, ReleaseFollows, ImagesFollow
<1>2. ASSUME NEW i \in Images, Tag(i) PROVE ReleaseFollows' /\ ImagesFollow'
  BY <1>2, <1>r DEF Tag, ReleaseFollows, ImagesFollow
<1>3. CASE TagsAwaited
  BY <1>3, <1>t, <1>r DEF TagsAwaited, ReleaseFollows, ImagesFollow
<1>4. CASE Authorized
  BY <1>4, <1>t, <1>r DEF Authorized, ReleaseFollows, ImagesFollow
<1>5. ASSUME NEW i \in Images, StartAttempt(i) PROVE ReleaseFollows' /\ ImagesFollow'
  BY <1>5, <1>t, <1>r DEF StartAttempt, AttemptFails, PushEnds, ReleaseFollows, ImagesFollow
<1>6. ASSUME NEW i \in Images, PushImage(i) PROVE ReleaseFollows' /\ ImagesFollow'
  BY <1>6, <1>t, <1>r DEF PushImage, AttemptFails, PushEnds, ReleaseFollows, ImagesFollow
<1>7. ASSUME NEW i \in Images, InspectFails(i) PROVE ReleaseFollows' /\ ImagesFollow'
  BY <1>7, <1>t, <1>r DEF InspectFails, PushEnds, ReleaseFollows, ImagesFollow
<1>8. ASSUME NEW i \in Images, SaveImage(i) PROVE ReleaseFollows' /\ ImagesFollow'
  BY <1>8, <1>t, <1>r DEF SaveImage, ReleaseFollows, ImagesFollow
<1>9. CASE PushesSucceed
  BY <1>9, <1>t, <1>r DEF PushesSucceed, LeaveTask, ReleaseFollows, ImagesFollow
<1>10. CASE PushesFail
  BY <1>10, <1>t, <1>r DEF PushesFail, LeaveTask, ReleaseFollows, ImagesFollow
<1>11. CASE Interrupt
  BY <1>11, <1>t, <1>r DEF Interrupt, LeaveTask, ReleaseFollows, ImagesFollow
<1>12. ASSUME NEW i \in Images, Untag(i) PROVE ReleaseFollows' /\ ImagesFollow'
  BY <1>12, <1>r DEF Untag, ReleaseFollows, ImagesFollow
<1>13. CASE UntagsAwaited
  BY <1>13, <1>t, <1>r DEF UntagsAwaited, ReleaseFollows, ImagesFollow
<1>14. CASE SaveRelease
  BY <1>14, <1>t, <1>r DEF SaveRelease, ReleaseFollows, ImagesFollow
<1>15. CASE ProcessEnds
  BY <1>15, <1>r DEF ProcessEnds, ReleaseFollows, ImagesFollow
<1>16. CASE UNCHANGED vars
  BY <1>16, <1>r DEF ReleaseFollows, ImagesFollow
<1>17. QED
  BY <1>1, <1>2, <1>3, <1>4, <1>5, <1>6, <1>7, <1>8, <1>9, <1>10, <1>11, <1>12, <1>13, <1>14,
     <1>15, <1>16 DEF Next, Main, ImageCalls

\* IInv is an invariant of deployProject.
THEOREM DeployInductive == Spec => []IInv
<1>1. Init => IInv
  BY TypesInit, FollowsInit DEF IInv
<1>2. IInv /\ [Next]_vars => IInv'
  BY TypesStep, FollowsStep DEF IInv
<1>3. QED
  BY <1>1, <1>2, PTL DEF Spec

\* A release that reads "success" has every image pushed and saved, for any
\* number of images and whatever calls fail.
THEOREM SuccessIsComplete == Spec => []SuccessHasAllImages
<1>1. IInv => SuccessHasAllImages
  BY DEF IInv, ReleaseFollows, ImagesFollow, SuccessHasAllImages
<1>2. QED
  BY <1>1, DeployInductive, PTL

-----------------------------------------------------------------------------
(* CTRL-C, and the tags.                                                   *)

\* The "catch" has set the status before anything else sees the signal, and
\* only the save of the release ends the function from there.
InterruptFollows ==
    /\ main = "creating" => ~interrupted
    /\ interrupted =>
          /\ status = "failed"
          /\ main \in {"untagging", "saving"} \cup Finished
          /\ main \in {"untagging", "saving"} => release = "running"
          /\ main \in Finished => release = "failed" \/ (saveFailed /\ release = "running")

\* remove() is called when the outcome of the deploy is known.
UntagsFollow ==
    /\ removing # {} => status # "running"
    /\ status # "running" => main \in {"untagging", "saving"} \cup Finished

EndInv == IInv /\ InterruptFollows /\ UntagsFollow

LEMMA EndStep == EndInv /\ [Next]_vars => InterruptFollows' /\ UntagsFollow'
<1> USE DEF vars, apiVars, dockerVars, pushVars, historyVars, Finished
<1> SUFFICES ASSUME EndInv, [Next]_vars PROVE InterruptFollows' /\ UntagsFollow'
  OBVIOUS
<1>r. ReleaseFollows /\ InterruptFollows /\ UntagsFollow
  BY DEF EndInv, IInv
<1>1. CASE CreateRelease
  BY <1>1, <1>r DEF CreateRelease, ReleaseFollows, InterruptFollows, UntagsFollow
<1>2. CASE TagsAwaited
  BY <1>2, <1>r DEF TagsAwaited, ReleaseFollows, InterruptFollows, UntagsFollow
<1>3. CASE PushesSucceed \/ PushesFail \/ Interrupt
  BY <1>3, <1>r DEF PushesSucceed, PushesFail, Interrupt, LeaveTask, ReleaseFollows,
                    InterruptFollows, UntagsFollow
<1>4. CASE UntagsAwaited
  BY <1>4, <1>r DEF UntagsAwaited, InterruptFollows, UntagsFollow
<1>5. CASE SaveRelease
  <2>1. /\ main = "saving" /\ main' \in Finished
        /\ UNCHANGED <<interrupted, status, removing>>
        /\ release' = status \/ (saveFailed' /\ release' = release)
    BY <1>5 DEF SaveRelease
  <2>2. UntagsFollow'
    BY <1>r, <2>1 DEF UntagsFollow
  <2>3. InterruptFollows'
    BY <1>r, <2>1 DEF InterruptFollows
  <2>4. QED
    BY <2>2, <2>3
<1>6. CASE Authorized \/ ProcessEnds \/ UNCHANGED vars
  BY <1>6, <1>r DEF Authorized, ProcessEnds, InterruptFollows, UntagsFollow
<1>7. ASSUME NEW i \in Images, Untag(i) PROVE InterruptFollows' /\ UntagsFollow'
  BY <1>7, <1>r DEF Untag, InterruptFollows, UntagsFollow
<1>8. ASSUME NEW i \in Images,
             Tag(i) \/ StartAttempt(i) \/ PushImage(i) \/ InspectFails(i) \/ SaveImage(i)
      PROVE  InterruptFollows' /\ UntagsFollow'
  BY <1>8, <1>r DEF Tag, StartAttempt, PushImage, InspectFails, SaveImage, InterruptFollows,
                    UntagsFollow
<1>9. QED
  BY <1>1, <1>2, <1>3, <1>4, <1>5, <1>6, <1>7, <1>8 DEF Next, Main, ImageCalls

LEMMA EndInductive == Spec => []EndInv
<1>1. Init => InterruptFollows /\ UntagsFollow
  BY DEF Init, InterruptFollows, UntagsFollow, Finished
<1>2. EndInv /\ [Next]_vars /\ IInv' => EndInv'
  BY EndStep DEF EndInv
<1>3. Init /\ IInv => EndInv
  BY <1>1 DEF EndInv
<1>4. QED
  BY <1>2, <1>3, DeployInductive, PTL DEF Spec

\* A deploy interrupted by CTRL-C is saved as failed, or its save failed.
THEOREM InterruptIsFailure == Spec => []InterruptSetsFailed
<1>1. EndInv => InterruptSetsFailed
  BY DEF EndInv, InterruptFollows, InterruptSetsFailed, Finished
<1>2. QED
  BY <1>1, EndInductive, PTL

\* The release is saved with a status other than "running", unless a tag
\* failed, and that is the last step.
EndedFollows ==
    /\ EndedRunningIsTagFailure
    /\ ended => main \in Finished
    /\ main = "untagging" => status # "running"
    /\ main = "saving" /\ status = "running" => tagFailed

LEMMA EndedStep == EndedFollows /\ [Next]_vars => EndedFollows'
<1> USE DEF vars, apiVars, dockerVars, pushVars, historyVars, EndedFollows,
            EndedRunningIsTagFailure, Finished
<1> SUFFICES ASSUME EndedFollows, [Next]_vars PROVE EndedFollows'
  OBVIOUS
<1>1. CASE CreateRelease
  BY <1>1 DEF CreateRelease
<1>2. ASSUME NEW i \in Images, Tag(i) PROVE EndedFollows'
  BY <1>2 DEF Tag
<1>3. CASE TagsAwaited
  BY <1>3 DEF TagsAwaited
<1>4. CASE Authorized
  BY <1>4 DEF Authorized
<1>5. ASSUME NEW i \in Images, StartAttempt(i) PROVE EndedFollows'
  BY <1>5 DEF StartAttempt, AttemptFails, PushEnds
<1>6. ASSUME NEW i \in Images, PushImage(i) PROVE EndedFollows'
  BY <1>6 DEF PushImage
<1>7. ASSUME NEW i \in Images, InspectFails(i) PROVE EndedFollows'
  BY <1>7 DEF InspectFails
<1>8. ASSUME NEW i \in Images, SaveImage(i) PROVE EndedFollows'
  BY <1>8 DEF SaveImage
<1>9. CASE PushesSucceed
  BY <1>9 DEF PushesSucceed, LeaveTask
<1>10. CASE PushesFail
  BY <1>10 DEF PushesFail, LeaveTask
<1>11. CASE Interrupt
  BY <1>11 DEF Interrupt, LeaveTask
<1>12. ASSUME NEW i \in Images, Untag(i) PROVE EndedFollows'
  BY <1>12 DEF Untag
<1>13. CASE UntagsAwaited
  BY <1>13 DEF UntagsAwaited
<1>14. CASE SaveRelease
  BY <1>14 DEF SaveRelease
<1>15. CASE ProcessEnds
  BY <1>15 DEF ProcessEnds
<1>16. CASE UNCHANGED vars
  BY <1>16
<1>17. QED
  BY <1>1, <1>2, <1>3, <1>4, <1>5, <1>6, <1>7, <1>8, <1>9, <1>10, <1>11, <1>12, <1>13, <1>14,
     <1>15, <1>16 DEF Next, Main, ImageCalls

\* A release that was saved with an end time and still reads "running" is one
\* that could not be tagged: whatever fails later on sets another status.
THEOREM EndedIsSettled == Spec => []EndedRunningIsTagFailure
<1>1. Init => EndedFollows
  BY DEF Init, EndedFollows, EndedRunningIsTagFailure
<1>2. EndedFollows => EndedRunningIsTagFailure
  BY DEF EndedFollows
<1>3. QED
  BY <1>1, <1>2, EndedStep, PTL DEF Spec

LEMMA OnlyUntagUntags ==
  ASSUME EndInv, [Next]_vars, NEW i \in Images, i \in tagged, i \notin tagged'
  PROVE  i \in removing
BY DEF Next, Main, ImageCalls, CreateRelease, Tag, TagsAwaited, Authorized, StartAttempt,
       PushImage, InspectFails, SaveImage, PushesSucceed, PushesFail, Interrupt, LeaveTask,
       Untag, UntagsAwaited, SaveRelease, ProcessEnds, vars, apiVars, dockerVars, pushVars

\* The tags of a deploy are taken away when all its images are pushed, or
\* when it failed.
THEOREM TagsOutlivePushes == Spec => UntagsAfterPush
<1>1. EndInv /\ [Next]_vars =>
        [\A i \in Images : i \in tagged \ tagged' =>
            push[i] \in {"done", "threw"} \/ status = "failed"]_vars
  <2> SUFFICES ASSUME EndInv, [Next]_vars, NEW i \in Images, i \in tagged \ tagged'
               PROVE  push[i] \in {"done", "threw"} \/ status = "failed"
    OBVIOUS
  <2>1. i \in removing
    BY OnlyUntagUntags
  <2>2. status # "running" /\ status \in {"running", "success", "failed"}
    BY <2>1 DEF EndInv, UntagsFollow, IInv, Types, MainType
  <2>3. QED
    BY <2>2 DEF EndInv, IInv, ReleaseFollows
<1>2. QED
  BY <1>1, EndInductive, PTL DEF Spec, UntagsAfterPush

-----------------------------------------------------------------------------
(* Refinement: what deployProject does to the records is what the abstract *)
(* specification Release allows.                                           *)

LEMMA PromiseInit == Init => Promise!Init
  BY DEF Init, Promise!Init

LEMMA PromiseStep == IInv /\ [Next]_vars => [Promise!Next]_(Promise!vars)
<1> USE DEF vars, apiVars, dockerVars, pushVars, historyVars, Promise!vars
<1> SUFFICES ASSUME IInv, [Next]_vars PROVE [Promise!Next]_(Promise!vars)
  OBVIOUS
<1>t. image \in [Images -> {"none", "running", "success", "failed"}]
  BY DEF IInv, Types, ApiType
<1>r. ReleaseFollows /\ ImagesFollow
  BY DEF IInv
<1>p. /\ status \in {"running", "success", "failed"}
      /\ task # "pushing" => \A i \in Images : push[i] = "none"
  BY DEF IInv, Types, MainType, AttemptType
<1>1. CASE CreateRelease
  <2>1. CASE UNCHANGED <<release, image>>
    BY <2>1
  <2>2. CASE release' = "running" /\ image' \in [Images -> {"none", "running"}]
    BY <1>1, <1>r, <2>2 DEF CreateRelease, ReleaseFollows, Promise!Next, Promise!Create
  <2>3. CASE release' = "running" /\ image' = [i \in Images |-> "running"]
    <3>1. image' \in [Images -> {"none", "running"}]
      BY <2>3
    <3>2. QED
      BY <2>2, <2>3, <3>1
  <2>4. QED
    BY <1>1, <2>1, <2>2, <2>3 DEF CreateRelease
<1>2. ASSUME NEW i \in Images, SaveImage(i) PROVE [Promise!Next]_(Promise!vars)
  <2>1. push[i] = "saving" /\ image[i] = "running" /\ outcome[i] \in {"success", "failed"}
    BY <1>2, <1>p, <1>r DEF SaveImage, ImagesFollow
  <2>2. CASE UNCHANGED image
    BY <1>2, <2>2 DEF SaveImage
  <2>3. CASE image' = [image EXCEPT ![i] = outcome[i]]
    <3>1. Promise!ImageOutcome(i)
      BY <1>2, <2>1, <2>3 DEF SaveImage, Promise!ImageOutcome
    <3>2. QED
      BY <3>1 DEF Promise!Next
  <2>4. QED
    BY <1>2, <2>2, <2>3 DEF SaveImage
<1>3. CASE SaveRelease
  <2>1. release = "running"
    BY <1>3, <1>r DEF SaveRelease, ReleaseFollows
  <2>2. CASE UNCHANGED release
    BY <1>3, <2>2 DEF SaveRelease
  <2>3. CASE release' = status /\ status = "success"
    BY <1>3, <1>r, <2>1, <2>3
       DEF SaveRelease, ReleaseFollows, ImagesFollow, Promise!Next, Promise!Succeed
  <2>4. CASE release' = status /\ status = "failed"
    BY <1>3, <2>1, <2>4 DEF SaveRelease, Promise!Next, Promise!Fail
  <2>5. QED
    BY <1>3, <1>p, <2>1, <2>2, <2>3, <2>4 DEF SaveRelease
<1>4. CASE \/ TagsAwaited \/ PushesSucceed \/ PushesFail \/ UntagsAwaited
           \/ Authorized \/ Interrupt \/ ProcessEnds \/ UNCHANGED vars
  BY <1>4 DEF TagsAwaited, PushesSucceed, PushesFail, UntagsAwaited, Authorized, Interrupt,
              ProcessEnds
<1>5. ASSUME NEW i \in Images,
             Tag(i) \/ StartAttempt(i) \/ PushImage(i) \/ InspectFails(i) \/ Untag(i)
      PROVE  [Promise!Next]_(Promise!vars)
  BY <1>5 DEF Tag, StartAttempt, PushImage, InspectFails, Untag
<1>6. QED
  BY <1>1, <1>2, <1>3, <1>4, <1>5 DEF Next, Main, ImageCalls

\* deployProject implements Release: the statuses other clients read go
\* through the transitions of the abstract specification only, whatever
\* order the concurrent requests are served in.
THEOREM DeployKeepsPromise == Spec => PromiseSpec
<1>1. QED
  BY PromiseInit, PromiseStep, DeployInductive, PTL DEF Spec, PromiseSpec, Promise!Spec

=============================================================================
