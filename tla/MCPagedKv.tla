----------------------------- MODULE MCPagedKv ------------------------------
(* Three pages, three sequences and two-token pages: two sequences exhaust *)
(* the pool, and the third finds victims with and without pages. Layers    *)
(* never interact, so one of them stands for all.                          *)
EXTENDS PagedKv

MCSequences == 1 .. 3
MCLayers == {"l0"}
=============================================================================
