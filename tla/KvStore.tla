------------------------------ MODULE KvStore -------------------------------
(***************************************************************************)
(* What the KvStore trait of crates/infer-engine/src/traits.rs promises a  *)
(* model that reads and writes through it, without pages: each open        *)
(* sequence has a memory of its own, one vector per layer and token, as    *)
(* the contiguous block of crates/infer-engine/src/kv.rs has. A write goes *)
(* to the open token, a commit opens the next one, and nothing else        *)
(* changes a vector of a sequence that stays open. What a pooled store may *)
(* do beyond that is said here too: an abort may lose the open token, and  *)
(* a write of one sequence may lose whole inactive ones, never a part of   *)
(* one and never an active one.                                            *)
(*                                                                         *)
(* A vector is Zero or the tag <<s, t>> of the token t of the sequence s   *)
(* that wrote it. Refused calls are stutters. The single-block store       *)
(* refuses a ninth sequence (MAX_SEQUENCES); Sequences stands for the ids  *)
(* that find room.                                                         *)
(***************************************************************************)
EXTENDS Integers

CONSTANTS
  Sequences,   \* sequence ids clients may use
  Layers,      \* layers of the KV layout
  Zero,        \* the cleared vector
  MaxLen       \* tokens a sequence may commit

VARIABLES
  open,        \* sequences that have a memory
  active,      \* those of them that may not be evicted
  length,      \* committed tokens of each sequence
  vector       \* vector[s][t][layer]
vars == <<open, active, length, vector>>

Tokens == 0 .. MaxLen

Blank == [t \in Tokens |-> [layer \in Layers |-> Zero]]

Init ==
  /\ open = {}
  /\ active = {}
  /\ length = [s \in Sequences |-> 0]
  /\ vector = [s \in Sequences |-> Blank]

Begin(s) ==
  /\ s \notin open
  /\ open' = open \cup {s}
  /\ active' = active \cup {s}
  /\ UNCHANGED <<length, vector>>

(* The sequences of V end, with all they had, and the rest has the         *)
(* contents given.                                                         *)
Forget(V, contents) ==
  /\ open' = open \ V
  /\ active' = active \ V
  /\ length' = [s \in Sequences |-> IF s \in V THEN 0 ELSE length[s]]
  /\ vector' = [s \in Sequences |-> IF s \in V THEN Blank ELSE contents[s]]

Release(s) == s \in open /\ Forget({s}, vector)

Invalidate == Forget(open, vector)

Deactivate(s) ==
  /\ s \in open
  /\ active' = active \ {s}
  /\ UNCHANGED <<open, length, vector>>

MayEvict(s) == SUBSET (open \ (active \cup {s}))

Written(s, layer) ==
  [vector EXCEPT ![s][length[s]][layer] = <<s, length[s]>>]

Write(s, layer) ==
  /\ s \in open
  /\ \E V \in MayEvict(s) : Forget(V, Written(s, layer))

(* A write that finds no room may still have evicted.                      *)
Refuse(s) ==
  /\ s \in open
  /\ \E V \in MayEvict(s) : Forget(V, vector)

Commit(s) ==
  /\ s \in open
  /\ length[s] < MaxLen
  /\ length' = [length EXCEPT ![s] = length[s] + 1]
  /\ UNCHANGED <<open, active, vector>>

(* The committed tokens survive an abort, the open one need not: the trait *)
(* leaves the open token as it is (a stutter), the pool drops its page.    *)
Abort(s) ==
  /\ s \in open
  /\ vector' = [vector EXCEPT ![s] =
                  [t \in Tokens |-> IF t < length[s] THEN vector[s][t]
                                    ELSE Blank[t]]]
  /\ UNCHANGED <<open, active, length>>

Next ==
  \/ Invalidate
  \/ \E s \in Sequences :
       \/ Begin(s)
       \/ Release(s)
       \/ Deactivate(s)
       \/ Refuse(s)
       \/ Commit(s)
       \/ Abort(s)
       \/ \E layer \in Layers : Write(s, layer)

Spec == Init /\ [][Next]_vars

-----------------------------------------------------------------------------
(* A committed vector stays what it is as long as its sequence stays open: *)
(* no write, abort or eviction, of this sequence or another, alters it.    *)
CommittedStays ==
  [][\A s \in open \cap open' : \A t \in Tokens :
       t < length[s] => vector'[s][t] = vector[s][t]]_vars
=============================================================================
