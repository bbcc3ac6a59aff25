------------------------------ MODULE Request ------------------------------
(***************************************************************************)
(* What a command line promises to who runs it: some of the changes it     *)
(* asks for take place, then it reports, once, and it reports a success    *)
(* only when all of them did.  A request that was sent may still be        *)
(* answered after the report.                                              *)
(***************************************************************************)
CONSTANT Work       \* all that a command line may ask for

VARIABLES
    wanted,     \* what this one asks for
    done,       \* what took place
    verdict     \* "none", "success", "failure", or "killed" by a signal

vars == <<wanted, done, verdict>>

Init == wanted \subseteq Work /\ done = {} /\ verdict = "none"

Do == /\ \E e \in wanted \ done : done' = done \cup {e}
      /\ UNCHANGED <<wanted, verdict>>

Report ==
    /\ verdict = "none"
    /\ verdict' \in {"success", "failure", "killed"}
    /\ verdict' = "success" => wanted \subseteq done
    /\ UNCHANGED <<wanted, done>>

Next == Do \/ Report

Safe == Init /\ [][Next]_vars

Spec == Safe /\ WF_vars(Report)
=============================================================================
