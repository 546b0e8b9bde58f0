-------------------------- MODULE MCModelInstall ---------------------------
(***************************************************************************)
(* A small instance of ModelInstall: a model whose row changes once and    *)
(* another one that is pulled and removed beside it. The weight file has   *)
(* two parts, so that a download can stop half way and go on with another  *)
(* revision.                                                               *)
(***************************************************************************)
EXTENDS ModelInstall, TLC

CONSTANTS changing, other

MCIds == {changing, other}
MCRows == (changing :> 2) @@ (other :> 1)
=============================================================================
