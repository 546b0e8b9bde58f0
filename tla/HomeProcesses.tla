--------------------------- MODULE HomeProcesses ----------------------------
(* The processes that work in a home directory, for the modules that share   *)
(* them.                                                                     *)
EXTENDS Naturals

CONSTANTS
  Procs,      \* starts of `knolo-infer serve` on the home
  Nobody      \* no process

ASSUME NobodyAssumption == Nobody \notin Procs
=============================================================================
