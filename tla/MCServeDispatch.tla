-------------------------- MODULE MCServeDispatch ---------------------------
(* Small instances of ServeDispatch: a buffered completion of one token, a  *)
(* streamed one of two, and a thread that cancels either of them.           *)
EXTENDS ServeDispatch

MCBudget == [r \in Requests |-> IF r \in Streaming THEN 2 ELSE 1]
=============================================================================
