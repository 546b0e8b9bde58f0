---------------------------- MODULE RequestRecord ---------------------------
(***************************************************************************)
(* What the journals and receipts of a home say of each request, without   *)
(* files, writers or recovery: a request is accepted once, ends once, and  *)
(* what is published was completed. A completed request whose receipt      *)
(* cannot be stored becomes a failed one. Nothing is forgotten.            *)
(*                                                                         *)
(* It abstracts crates/infer-engine/src/journal.rs and                     *)
(* crates/infer-serve/src/receipt.rs.                                      *)
(***************************************************************************)
CONSTANTS Ids
VARIABLES record

Init == record = [r \in Ids |-> "none"]

Becomes(r, from, to) ==
  /\ record[r] \in from
  /\ record' = [record EXCEPT ![r] = to]

Accept(r) == Becomes(r, {"none"}, "open")
Complete(r) == Becomes(r, {"open"}, "completed")
Publish(r) == Becomes(r, {"completed"}, "published")
Fail(r) == Becomes(r, {"open", "completed"}, "failed")
Cancel(r) == Becomes(r, {"open", "completed"}, "cancelled")

Next ==
  \E r \in Ids : Accept(r) \/ Complete(r) \/ Publish(r) \/ Fail(r) \/ Cancel(r)

Spec == Init /\ [][Next]_record
=============================================================================
