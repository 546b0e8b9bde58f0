------------------------------- MODULE KvPool -------------------------------
(***************************************************************************)
(* The page pool of crates/infer-engine/src/paged.rs as operators on one   *)
(* value kv, so that the pool itself (PagedKv) and the scheduler that      *)
(* drives it (CpuScheduler) share every transition.                        *)
(*                                                                         *)
(*   kv.free    the BTreeSet of free page ids                              *)
(*   kv.open    the keys of the BTreeMap `sequences`                       *)
(*   kv.table   the SequencePages of each key; NoBlock for an absent key   *)
(*                                                                         *)
(* Page contents are kept apart (PagedKv), because the pool's decisions    *)
(* never look at them.                                                     *)
(***************************************************************************)
EXTENDS Integers, Sequences, FiniteSets, Functions

CONSTANTS
  PageCount,   \* pages allocated when the pool is built
  BlockSize,   \* token slots in a page (layout.block_size)
  Sequences    \* sequence ids clients may use

ASSUME PoolAssumption ==
  /\ PageCount \in Nat \ {0}
  /\ BlockSize \in Nat \ {0}
  /\ Sequences \subseteq Nat

Pages == 0 .. PageCount - 1
NoPage == -1

Record(committed, pending, len, active) ==
  [committed |-> committed, pending |-> pending, len |-> len, active |-> active]

NoBlock == Record(<< >>, NoPage, 0, FALSE)

Block ==
  [committed : Seq(Pages), pending : Pages \cup {NoPage},
   len : Nat, active : BOOLEAN]

KvEmpty ==
  [free |-> Pages, open |-> {}, table |-> [s \in Sequences |-> NoBlock]]

(* Pages in a block table: the committed ones and the reserved one.        *)
Held(kv, s) ==
  Range(kv.table[s].committed) \cup ({kv.table[s].pending} \ {NoPage})

(* Faulty variant: the reserved page is forgotten on release.              *)
DropCommittedOnly(kv, S) ==
  [free  |-> kv.free \cup UNION {Range(kv.table[t].committed) : t \in S},
   open  |-> kv.open \ S,
   table |-> [t \in Sequences |-> IF t \in S THEN NoBlock ELSE kv.table[t]]]

(* release_sequence for every member of S: each page goes back to the pool *)
(* and the entry is removed.                                               *)
Drop(kv, S) ==
  [free  |-> kv.free \cup UNION {Held(kv, t) : t \in S},
   open  |-> kv.open \ S,
   table |-> [t \in Sequences |-> IF t \in S THEN NoBlock ELSE kv.table[t]]]

KvBegin(kv, s) ==
  [free  |-> kv.free,
   open  |-> kv.open \cup {s},
   table |-> [kv.table EXCEPT ![s] = Record(<< >>, NoPage, 0, TRUE)]]

KvRelease(kv, s) == Drop(kv, {s})

(* kv with the entry of the open sequence s replaced and a new free set.   *)
SetBlock(kv, s, b, free) ==
  [free |-> free, open |-> kv.open, table |-> [kv.table EXCEPT ![s] = b]]

KvDeactivate(kv, s) ==
  LET b == kv.table[s]
  IN  SetBlock(kv, s, Record(b.committed, b.pending, b.len, FALSE), kv.free)

(* invalidate releases every sequence and then rebuilds the free set.      *)
KvInvalidate(kv) ==
  [free |-> Pages, open |-> {}, table |-> Drop(kv, kv.open).table]

(* reserve: inactive sequences other than the writer are released in id    *)
(* order until one of them gives a page back.                              *)
(* Faulty variant: active sequences are evicted too.                       *)
EvictableAny(kv, s) == kv.open \ {s}

Evictable(kv, s) == {t \in kv.open \ {s} : ~kv.table[t].active}

(* Faulty variant: the pool gives up after the first victim.               *)
FirstVictim(kv, s) ==
  {t \in Evictable(kv, s) :
     /\ kv.free = {}
     /\ \A u \in Evictable(kv, s) : t <= u}

Victims(kv, s) ==
  {t \in Evictable(kv, s) :
     /\ kv.free = {}
     /\ \A u \in Evictable(kv, s) : u < t => Held(kv, u) = {}}

Evicted(kv, s) == Drop(kv, Victims(kv, s))

Lowest(S) == CHOOSE p \in S : \A q \in S : p <= q

CanReserve(kv, s) == Evicted(kv, s).free # {}

Reserve(kv, s) ==
  LET e == Evicted(kv, s)
      b == e.table[s]
      p == Lowest(e.free)
  IN  SetBlock(e, s, Record(b.committed, p, b.len, b.active), e.free \ {p})

(* Faulty variant: the page of the next token instead of the open one.     *)
PageIndexAhead(kv, s) == (kv.table[s].len + 1) \div BlockSize

(* page_for_write for the open token of s: a page is reserved when the     *)
(* token is the first of a new page and none is reserved yet.              *)
PageIndex(kv, s) == kv.table[s].len \div BlockSize

OnNewPage(kv, s) == PageIndex(kv, s) = Len(kv.table[s].committed)

NeedsPage(kv, s) == OnNewPage(kv, s) /\ kv.table[s].pending = NoPage

OnLastPage(kv, s) ==
  /\ PageIndex(kv, s) + 1 = Len(kv.table[s].committed)
  /\ kv.table[s].pending = NoPage

WriteFits(kv, s) == NeedsPage(kv, s) => CanReserve(kv, s)

WriteInOrder(kv, s) == OnNewPage(kv, s) \/ OnLastPage(kv, s)

(* The pool after a write of the open token. A write that finds no page    *)
(* still leaves the evictions it made on the way.                          *)
KvWrite(kv, s) ==
  IF ~NeedsPage(kv, s) THEN kv
  ELSE IF CanReserve(kv, s) THEN Reserve(kv, s) ELSE Evicted(kv, s)

(* Faulty variant: a write in the middle of a page goes to the first page. *)
OpenPageFirst(kv, s) ==
  IF OnNewPage(kv, s) THEN KvWrite(kv, s).table[s].pending
  ELSE kv.table[s].committed[1]

(* The page a successful write goes to.                                    *)
OpenPage(kv, s) ==
  IF OnNewPage(kv, s) THEN KvWrite(kv, s).table[s].pending
  ELSE kv.table[s].committed[PageIndex(kv, s) + 1]

(* page_for_read of token t; NoPage stands for "kv page is not reserved".  *)
ReadPage(kv, s, t) ==
  LET b == kv.table[s]
      i == t \div BlockSize
  IN  IF i = Len(b.committed) THEN b.pending
      ELSE IF i < Len(b.committed) THEN b.committed[i + 1] ELSE NoPage

(* commit_token: on a page boundary the reserved page joins the table, in  *)
(* the middle of a page there must be none reserved.                       *)
AtBoundary(kv, s) == kv.table[s].len % BlockSize = 0

(* Faulty variant: the reserved page is not required at a boundary.        *)
CommitUnchecked(kv, s) == AtBoundary(kv, s) \/ kv.table[s].pending = NoPage

CommitAccepted(kv, s) == AtBoundary(kv, s) <=> kv.table[s].pending # NoPage

KvCommit(kv, s) ==
  LET b == kv.table[s]
      pages == IF AtBoundary(kv, s) THEN Append(b.committed, b.pending)
               ELSE b.committed
  IN  SetBlock(kv, s, Record(pages, NoPage, b.len + 1, b.active), kv.free)

(* Faulty variant: the aborted page stays in the table.                    *)
KvAbortKeeps(kv, s) ==
  SetBlock(kv, s, kv.table[s],
           kv.free \cup ({kv.table[s].pending} \ {NoPage}))

(* abort_pending: the reserved page, if any, goes back to the pool.        *)
KvAbort(kv, s) ==
  LET b == kv.table[s]
  IN  SetBlock(kv, s, Record(b.committed, NoPage, b.len, b.active),
               kv.free \cup ({b.pending} \ {NoPage}))

-----------------------------------------------------------------------------
(* What a consistent pool looks like.                                      *)
KvTypeOK(kv) ==
  /\ kv = [free |-> kv.free, open |-> kv.open, table |-> kv.table]
  /\ kv.free \subseteq Pages
  /\ kv.open \subseteq Sequences
  /\ kv.table \in [Sequences -> Block]

(* No page is in two places: free and in a table, in two tables, or twice  *)
(* in one table.                                                           *)
KvNoSharing(kv) ==
  /\ \A s \in Sequences : Held(kv, s) \cap kv.free = {}
  /\ \A s, t \in Sequences : s # t => Held(kv, s) \cap Held(kv, t) = {}
  /\ \A s \in Sequences :
       /\ IsInjective(kv.table[s].committed)
       /\ kv.table[s].pending \notin Range(kv.table[s].committed)

(* Every page is free or in the table of an open sequence.                 *)
KvNoLeak(kv) ==
  /\ Pages \subseteq kv.free \cup UNION {Held(kv, s) : s \in kv.open}
  /\ \A s \in Sequences \ kv.open : kv.table[s] = NoBlock

(* A table is exactly as long as its tokens need, and a page is reserved   *)
(* only for the first token of a page.                                     *)
KvTableMatchesLength(kv) ==
  \A s \in kv.open :
    LET b == kv.table[s]
    IN  /\ BlockSize * (Len(b.committed) - 1) < b.len
        /\ b.len <= BlockSize * Len(b.committed)
        /\ b.pending # NoPage => b.len = BlockSize * Len(b.committed)
=============================================================================
