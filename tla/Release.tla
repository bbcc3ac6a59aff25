------------------------------- MODULE Release -------------------------------
(***************************************************************************)
(* What "balena deploy" promises of a release, as other clients of the     *)
(* balenaCloud API see it: a release that reads "success" has every image  *)
(* pushed and saved as "success"; statuses are final.  A release may stay  *)
(* "running": the command can be killed, or the API be out of reach.       *)
(***************************************************************************)
CONSTANT Images   \* the service images of the release

VARIABLES
    release,   \* status of the release record
    image      \* image -> status of its image record

vars == <<release, image>>

ReleaseStatus == {"none", "running", "success", "failed"}

Init ==
    /\ release = "none"
    /\ image = [i \in Images |-> "none"]

\* The release record and image records are created; some of them may not be.
Create ==
    /\ release = "none"
    /\ release' = "running"
    /\ image' \in [Images -> {"none", "running"}]

\* The outcome of one image, independently of the others and of the release.
ImageOutcome(i) ==
    /\ image[i] = "running"
    /\ \E status \in {"success", "failed"} : image' = [image EXCEPT ![i] = status]
    /\ UNCHANGED release

Succeed ==
    /\ release = "running"
    /\ \A i \in Images : image[i] = "success"
    /\ release' = "success"
    /\ UNCHANGED image

Fail ==
    /\ release = "running"
    /\ release' = "failed"
    /\ UNCHANGED image

Next == Create \/ (\E i \in Images : ImageOutcome(i)) \/ Succeed \/ Fail

Spec == Init /\ [][Next]_vars
=============================================================================
