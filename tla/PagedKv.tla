------------------------------ MODULE PagedKv -------------------------------
(***************************************************************************)
(* The paged key/value store of crates/infer-engine/src/paged.rs under     *)
(* clients that call the KvStore operations in any order: open and release *)
(* sequences, deactivate them (which lets the pool evict them), write the  *)
(* open token layer by layer, commit it or abort it, and invalidate the    *)
(* whole pool. A refused call changes nothing, except that a write that    *)
(* finds no page keeps the evictions it made.                              *)
(*                                                                         *)
(* cells holds what each page contains. A cell is the vector of one layer  *)
(* at one token slot; its value is Zero or the tag <<s, t>> of the token t *)
(* of the sequence s that wrote it. Keys and values go to two slabs with   *)
(* the same offsets, so one cell stands for both.                          *)
(***************************************************************************)
EXTENDS KvPool

CONSTANTS
  Layers,      \* layers of the KV layout
  Zero,        \* the cleared vector
  MaxLen       \* bound on the tokens of a sequence (the u32 length's cap)

ASSUME LengthAssumption == MaxLen \in Nat

VARIABLES kv, cells
vars == <<kv, cells>>

Slots == 0 .. BlockSize - 1

ZeroPage == [l \in Layers |-> [i \in Slots |-> Zero]]

(* Faulty variant: pages are returned without clearing them.               *)
NotCleared(S) == cells

(* free_page clears both slabs of every page it returns to the pool.       *)
Cleared(S) == [p \in Pages |-> IF p \in S THEN ZeroPage ELSE cells[p]]

PagesOf(S) == UNION {Held(kv, t) : t \in S}

Init ==
  /\ kv = KvEmpty
  /\ cells = [p \in Pages |-> ZeroPage]

-----------------------------------------------------------------------------
BeginSequence(s) ==
  /\ s \notin kv.open
  /\ kv' = KvBegin(kv, s)
  /\ UNCHANGED cells

ReleaseSequence(s) ==
  /\ s \in kv.open
  /\ kv' = KvRelease(kv, s)
  /\ cells' = Cleared(Held(kv, s))

Deactivate(s) ==
  /\ s \in kv.open
  /\ kv' = KvDeactivate(kv, s)
  /\ UNCHANGED cells

Write(s, layer) ==
  /\ s \in kv.open
  /\ WriteFits(kv, s)
  /\ WriteInOrder(kv, s)
  /\ kv' = KvWrite(kv, s)
  /\ cells' = [Cleared(PagesOf(IF NeedsPage(kv, s) THEN Victims(kv, s) ELSE {}))
                 EXCEPT ![OpenPage(kv, s)][layer][kv.table[s].len % BlockSize] =
                   <<s, kv.table[s].len>>]

(* The pool is exhausted: the writer gets INSUFFICIENT_MEMORY.             *)
WriteExhausted(s) ==
  /\ s \in kv.open
  /\ ~WriteFits(kv, s)
  /\ kv' = KvWrite(kv, s)
  /\ cells' = Cleared(PagesOf(Victims(kv, s)))

CommitToken(s) ==
  /\ s \in kv.open
  /\ CommitAccepted(kv, s)
  /\ kv.table[s].len < MaxLen
  /\ kv' = KvCommit(kv, s)
  /\ UNCHANGED cells

AbortPending(s) ==
  /\ s \in kv.open
  /\ kv' = KvAbort(kv, s)
  /\ cells' = Cleared({kv.table[s].pending})

Invalidate ==
  /\ kv' = KvInvalidate(kv)
  /\ cells' = [p \in Pages |-> ZeroPage]

Next ==
  \/ Invalidate
  \/ \E s \in Sequences :
       \/ BeginSequence(s)
       \/ ReleaseSequence(s)
       \/ Deactivate(s)
       \/ WriteExhausted(s)
       \/ CommitToken(s)
       \/ AbortPending(s)
       \/ \E layer \in Layers : Write(s, layer)

Spec == Init /\ [][Next]_vars

-----------------------------------------------------------------------------
(* Every variable has its type.                                            *)
TypeOK ==
  /\ KvTypeOK(kv)
  /\ \A s \in Sequences : kv.table[s].len <= MaxLen
  /\ cells \in [Pages -> [Layers -> [Slots ->
                  {Zero} \cup (Sequences \X (0 .. MaxLen))]]]

(* No page is in two places: the free set and the block tables are         *)
(* disjoint, no two sequences share a page, and no table lists a page      *)
(* twice. Eviction, abort and release all move pages between these sets.   *)
NoSharing == KvNoSharing(kv)

(* No page is lost: a page that is not free is in the table of an open     *)
(* sequence, whatever mix of commits, aborts and evictions came before.    *)
NoLeak == KvNoLeak(kv)

(* The table length follows the token count, so a writer of the open token *)
(* never meets the "reserved mid-block" or "must fill the open token"      *)
(* errors of page_for_write.                                               *)
WriterNeverRefused ==
  /\ KvTableMatchesLength(kv)
  /\ \A s \in kv.open : WriteInOrder(kv, s)

(* A page in the free set is clear, so the next owner starts from zeroes.  *)
FreePagesZeroed == \A p \in kv.free : cells[p] = ZeroPage

(* What page_for_read finds for token t is the vector this sequence wrote  *)
(* for t, or zero if that layer was never written: never another           *)
(* sequence's vector and never another token's.                            *)
ReadsOwnTokens ==
  \A s \in kv.open : \A t \in 0 .. kv.table[s].len : \A layer \in Layers :
    LET p == ReadPage(kv, s, t)
    IN  p # NoPage => cells[p][layer][t % BlockSize] \in {Zero, <<s, t>>}

(* An active sequence is never evicted: only its own release or abort (or  *)
(* an invalidate of the whole pool) takes a page out of its table.         *)
ActiveKeepsPages ==
  [][\A s \in kv.open :
       (kv.table[s].active /\ ~(Held(kv, s) \subseteq Held(kv', s))) =>
          ReleaseSequence(s) \/ AbortPending(s) \/ Invalidate]_vars

(* A writer is turned away only when nothing can be evicted: after         *)
(* WriteExhausted every page is held by the writer or by an active         *)
(* sequence.                                                               *)
ExhaustedMeansPinned ==
  [][\A s \in Sequences :
       WriteExhausted(s) =>
         Pages = UNION {Held(kv', t) : t \in {u \in kv'.open :
                                      u = s \/ kv'.table[u].active}}]_vars

-----------------------------------------------------------------------------
(* What a reader would find for token t of s, with no page read as zero.   *)
Vector(s, t, layer) ==
  LET p == ReadPage(kv, s, t)
  IN  IF s \in kv.open /\ p # NoPage THEN cells[p][layer][t % BlockSize]
      ELSE Zero

Tokens == 0 .. MaxLen

Vectors ==
  [s \in Sequences |-> [t \in Tokens |->
     [layer \in Layers |-> Vector(s, t, layer)]]]

Lengths == [s \in Sequences |-> kv.table[s].len]

Actives == {s \in kv.open : kv.table[s].active}

Store == INSTANCE KvStore WITH
  open <- kv.open, active <- Actives, length <- Lengths, vector <- Vectors

(* The pages are invisible: through any interleaving of its clients the    *)
(* paged store is a store in which each sequence has a contiguous memory   *)
(* of its own, loses it only as a whole, by a release, an invalidate or an *)
(* eviction while inactive, and finds every committed vector unchanged     *)
(* until then.                                                             *)
ImplementsKvStore == Store!Spec
=============================================================================
