--------------------------- MODULE MCCpuScheduler ---------------------------
(***************************************************************************)
(* A small instance of CpuScheduler: three admissions, by three requests   *)
(* or by fewer that reuse an id after a reap. One request may be a long    *)
(* prompt of the background class; the other shapes are short, of two      *)
(* classes, and two live requests can be of one shape. The pool holds the  *)
(* worst cases of three short requests, but not of the long one with two   *)
(* others. Pages and chunks have two tokens: prompts need up to three      *)
(* chunks, and the urgent request crosses a page while it decodes.         *)
(***************************************************************************)
EXTENDS CpuScheduler, TLC

CONSTANTS r1, r2, r3

MCRequests == {r1, r2, r3}
MCSequences == 1 .. 3

Long == [prompt |-> 5, max |-> 1, class |-> "background"]
Short == [prompt |-> 3, max |-> 1, class |-> "standard"]
Urgent == [prompt |-> 2, max |-> 2, class |-> "interactive"]

MCShapes == (r1 :> {Long, Short}) @@ (r2 :> {Short}) @@ (r3 :> {Urgent})
=============================================================================
