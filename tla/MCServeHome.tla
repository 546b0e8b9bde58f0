---------------------------- MODULE MCServeHome -----------------------------
(* Small instances of ServeHome: three starts of serve, the first and the    *)
(* last with the same pid, requests of clients and one `run`.                *)
EXTENDS ServeHome, TLC

CONSTANTS c1

MCProcs == 1 .. 3
MCPidOf == <<1, 2, 1>>
MCIds == 1 .. 2
MCRunId == [c \in Runners |-> 2]
=============================================================================
