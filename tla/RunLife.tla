------------------------------ MODULE RunLife -------------------------------
(* Runs of the CLI, as the parts of DataDir see them.                      *)

CONSTANT Runs

(* "waiting" to be started, "running", "refused" as deprecated, "over", or *)
(* "dead": by a signal, or an error that ends the process.                 *)
VARIABLE life

Alive(r) == life[r] = "running"
=============================================================================
