------------------------------ MODULE DataDir -------------------------------
(***************************************************************************)
(* Runs of the CLI that share the data directory: each checks whether it   *)
(* is deprecated and, beside its command, asks for news; a command that    *)
(* builds with emulation installs the emulator.  A run ends when both are  *)
(* over; the failure of one takes the other down wherever it is.           *)
(***************************************************************************)
EXTENDS Deprecation, Emulator

vars == <<life, deprecation, emulator>>

Init == InitDeprecation /\ InitEmulator

(* The command begins unless this version is refused.                      *)
Start(r) ==
    /\ StartRun(r)
    /\ main' \in IF life'[r] = "running" THEN {[main EXCEPT ![r] = s] : s \in {"stat", "ready"}}
                                         ELSE {main}
    /\ UNCHANGED <<path, content, fd, written, folder, binary, copying, history>>

News(r) == (Answered(r) \/ Truncate(r) \/ Store(r)) /\ UNCHANGED emulator

(* process.exit() for the failure of storage.set, and death by a signal.   *)
Exit(r) ==
    /\ StoreFails(r) /\ Abandon(r)
    /\ UNCHANGED <<main, path, content, fd, written, folder, binary, copying, early, own>>

Kill(r) ==
    /\ Alive(r)
    /\ Fail(r)
    /\ UNCHANGED <<deprecation, main, path, content, fd, written, folder, binary, copying, early, own>>

Finish(r) ==
    /\ Alive(r) /\ news[r] = "over" /\ main[r] = "ready" /\ ~Writing(r)
    /\ life' = [life EXCEPT ![r] = "over"]
    /\ UNCHANGED <<deprecation, emulator>>

(* Bound: no day ends in the middle of an installation.                    *)
Quiet == \A r \in Runs : Alive(r) => main[r] = "ready" /\ ~Writing(r)

Next ==
    \/ Tomorrow /\ Quiet /\ UNCHANGED emulator
    \/ \E r \in Runs :
          \/ Start(r) \/ News(r) \/ Exit(r) \/ Kill(r) \/ Finish(r)
          \/ Install(r) /\ UNCHANGED deprecation

Spec == Init /\ [][Next]_vars
-----------------------------------------------------------------------------
(* The types of both parts.                                                *)
TypeOK == DeprecationTypes /\ EmulatorTypes
=============================================================================
