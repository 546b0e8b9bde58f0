---------------------------- MODULE MCWorkerSlot ----------------------------
(***************************************************************************)
(* Small instances of WorkerSlot: symmetric threads.                       *)
(***************************************************************************)
EXTENDS WorkerSlot, TLC

Symmetric == Permutations(Threads)
=============================================================================
