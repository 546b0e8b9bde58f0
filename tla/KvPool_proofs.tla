--------------------------- MODULE KvPool_proofs ----------------------------
(***************************************************************************)
(* What the pool operators preserve, for every page count, block size and  *)
(* set of sequence ids. The lemmas are about one value k and hold wherever *)
(* the operators are used.                                                 *)
(***************************************************************************)
EXTENDS KvPool, SequenceTheorems, WellFoundedInduction, TLAPS

(* A pool whose pages are accounted for exactly once.                      *)
KvConsistent(k) == KvTypeOK(k) /\ KvNoSharing(k) /\ KvNoLeak(k)

(* The empty record holds no page: what begin_sequence inserts.            *)
LEMMA NoBlockHoldsNothing ==
  /\ NoBlock \in Block
  /\ Range(NoBlock.committed) = {}
  /\ NoBlock.pending = NoPage
  /\ IsInjective(NoBlock.committed)
BY DEF NoBlock, Record, Block, NoPage, Range, IsInjective

(* Only pool pages are ever in a block table.                              *)
LEMMA HeldArePages ==
  ASSUME NEW k, KvTypeOK(k), NEW s \in Sequences
  PROVE  /\ k.table[s] \in Block
         /\ Range(k.table[s].committed) \subseteq Pages
         /\ Held(k, s) \subseteq Pages
<1> DEFINE c == k.table[s].committed
<1>1. k.table[s] \in Block
  BY DEF KvTypeOK
<1>2. c \in Seq(Pages) /\ k.table[s].pending \in Pages \cup {NoPage}
  BY <1>1 DEF Block
<1>3. Range(c) \subseteq Pages
  <2>1. DOMAIN c = 1 .. Len(c)
    BY <1>2, LenProperties
  <2>2. \A i \in 1 .. Len(c) : c[i] \in Pages
    BY <1>2, ElementOfSeq
  <2> HIDE DEF c
  <2> QED
    BY <2>1, <2>2 DEF Range
<1> QED
  BY <1>1, <1>2, <1>3 DEF Held

(* The pool starts consistent.                                             *)
LEMMA EmptyConsistent == KvConsistent(KvEmpty)
<1> DEFINE k == KvEmpty
<1>1. KvTypeOK(k)
  BY NoBlockHoldsNothing DEF KvEmpty, KvTypeOK
<1>2. \A s \in Sequences : k.table[s] = NoBlock
  BY DEF KvEmpty
<1>3. \A s \in Sequences : Held(k, s) = {}
  BY <1>2, NoBlockHoldsNothing DEF Held
<1>4. KvNoSharing(k)
  BY <1>2, <1>3, NoBlockHoldsNothing DEF KvNoSharing
<1>5. KvNoLeak(k)
  BY <1>2 DEF KvNoLeak, KvEmpty
<1> QED
  BY <1>1, <1>4, <1>5 DEF KvConsistent

(* release_sequence and eviction keep every page accounted for.            *)
LEMMA DropConsistent ==
  ASSUME NEW k, KvConsistent(k), NEW S \in SUBSET Sequences
  PROVE  KvConsistent(Drop(k, S))
<1> DEFINE d == Drop(k, S)
<1>1. /\ d.free = k.free \cup UNION {Held(k, t) : t \in S}
      /\ d.open = k.open \ S
      /\ \A t \in Sequences :
           d.table[t] = IF t \in S THEN NoBlock ELSE k.table[t]
  BY DEF Drop
<1>2. KvTypeOK(d)
  BY HeldArePages, NoBlockHoldsNothing DEF KvConsistent, KvTypeOK, Drop
<1>3. \A t \in Sequences : Held(d, t) = IF t \in S THEN {} ELSE Held(k, t)
  BY <1>1, NoBlockHoldsNothing DEF Held
<1>4. KvNoSharing(d)
  BY <1>1, <1>3, NoBlockHoldsNothing DEF KvConsistent, KvNoSharing
<1>5. KvNoLeak(d)
  BY <1>1, <1>3 DEF KvConsistent, KvNoLeak, KvTypeOK
<1> QED
  BY <1>2, <1>4, <1>5 DEF KvConsistent

(* begin_sequence inserts an empty table.                                  *)
LEMMA BeginConsistent ==
  ASSUME NEW k, KvConsistent(k), NEW s \in Sequences \ k.open
  PROVE  KvConsistent(KvBegin(k, s))
<1> DEFINE d == KvBegin(k, s)
           b == Record(<< >>, NoPage, 0, TRUE)
<1>1. /\ d.free = k.free
      /\ d.open = k.open \cup {s}
      /\ d.table = [k.table EXCEPT ![s] = b]
      /\ d = [free |-> d.free, open |-> d.open, table |-> d.table]
  BY DEF KvBegin
<1>2. /\ b \in Block
      /\ b.committed = NoBlock.committed
      /\ b.pending = NoBlock.pending
  BY DEF NoBlock, Record, Block, NoPage
<1> HIDE DEF d, b
<1>3. k.table[s] = NoBlock
  BY DEF KvConsistent, KvNoLeak
<1>4. \A t \in Sequences : /\ d.table[t].committed = k.table[t].committed
                           /\ d.table[t].pending = k.table[t].pending
                           /\ t # s => d.table[t] = k.table[t]
  BY <1>1, <1>2, <1>3 DEF KvConsistent, KvTypeOK
<1>5. \A t \in Sequences : Held(d, t) = Held(k, t)
  BY <1>4 DEF Held
<1>6. KvTypeOK(d)
  BY <1>1, <1>2 DEF KvConsistent, KvTypeOK
<1>7. KvNoSharing(d)
  BY <1>1, <1>4, <1>5 DEF KvConsistent, KvNoSharing
<1>8. KvNoLeak(d)
  BY <1>1, <1>4, <1>5 DEF KvConsistent, KvNoLeak, KvTypeOK
<1> QED
  BY <1>6, <1>7, <1>8 DEF KvConsistent, d

(* Pages may move between the table of one open sequence and the free set. *)
LEMMA SetBlockConsistent ==
  ASSUME NEW k, KvConsistent(k), NEW s \in k.open,
         NEW b \in Block, NEW free \in SUBSET Pages,
         IsInjective(b.committed),
         b.pending \notin Range(b.committed),
         NEW H, H = Range(b.committed) \cup ({b.pending} \ {NoPage}),
         H \cup free = Held(k, s) \cup k.free,
         H \cap free = {}
  PROVE  KvConsistent(SetBlock(k, s, b, free))
<1> DEFINE d == SetBlock(k, s, b, free)
<1>1. /\ d.free = free
      /\ d.open = k.open
      /\ d.table = [k.table EXCEPT ![s] = b]
      /\ d = [free |-> d.free, open |-> d.open, table |-> d.table]
  BY DEF SetBlock
<1> HIDE DEF d
<1>2. s \in Sequences
  BY DEF KvConsistent, KvTypeOK
<1>3. d.table[s] = b /\ \A t \in Sequences : t # s => d.table[t] = k.table[t]
  BY <1>1, <1>2 DEF KvConsistent, KvTypeOK
<1>4. Held(d, s) = H /\ \A t \in Sequences : t # s => Held(d, t) = Held(k, t)
  BY <1>3 DEF Held
<1>5. KvTypeOK(d)
  BY <1>1, <1>2 DEF KvConsistent, KvTypeOK
<1>6. KvNoSharing(d)
  <2>1. \A t \in Sequences : Held(d, t) \cap d.free = {}
    BY <1>1, <1>2, <1>4 DEF KvConsistent, KvNoSharing
  <2>2. ASSUME NEW t \in Sequences, NEW u \in Sequences, t # u
        PROVE  Held(d, t) \cap Held(d, u) = {}
    <3>1. \A v \in Sequences :
            v # s => Held(k, v) \cap (Held(k, s) \cup k.free) = {}
      BY <1>2 DEF KvConsistent, KvNoSharing
    <3>2. \A v \in Sequences : v # s => Held(k, v) \cap H = {}
      BY <3>1
    <3> QED
      BY <1>2, <1>4, <2>2, <3>2 DEF KvConsistent, KvNoSharing
  <2>3. \A t \in Sequences : /\ IsInjective(d.table[t].committed)
                             /\ d.table[t].pending \notin
                                  Range(d.table[t].committed)
    BY <1>3 DEF KvConsistent, KvNoSharing
  <2> QED
    BY <2>1, <2>2, <2>3 DEF KvNoSharing
<1>7. KvNoLeak(d)
  <2>1. \A t \in Sequences \ d.open : d.table[t] = NoBlock
    BY <1>1, <1>3 DEF KvConsistent, KvNoLeak
  <2>2. ASSUME NEW p \in Pages, p \notin d.free
        PROVE  \E t \in d.open : p \in Held(d, t)
    <3>1. p \in k.free \/ \E t \in k.open : p \in Held(k, t)
      BY DEF KvConsistent, KvNoLeak
    <3>2. CASE p \in Held(k, s) \cup k.free
      BY <1>1, <1>4, <2>2, <3>2
    <3>3. CASE \E t \in k.open : t # s /\ p \in Held(k, t)
      BY <1>1, <1>4, <3>3 DEF KvConsistent, KvTypeOK
    <3> QED
      BY <3>1, <3>2, <3>3
  <2> QED
    BY <2>1, <2>2 DEF KvNoLeak
<1> QED
  BY <1>5, <1>6, <1>7 DEF KvConsistent, d

(* deactivate moves no page.                                               *)
LEMMA DeactivateConsistent ==
  ASSUME NEW k, KvConsistent(k), NEW s \in k.open
  PROVE  KvConsistent(KvDeactivate(k, s))
<1> DEFINE c == k.table[s]
           b == Record(c.committed, c.pending, c.len, FALSE)
<1>1. s \in Sequences /\ c \in Block /\ k.free \in SUBSET Pages
  BY DEF KvConsistent, KvTypeOK
<1>2. /\ b \in Block
      /\ b.committed = c.committed
      /\ b.pending = c.pending
  BY <1>1 DEF Record, Block
<1>3. /\ IsInjective(c.committed)
      /\ c.pending \notin Range(c.committed)
      /\ Held(k, s) \cap k.free = {}
      /\ Held(k, s) = Range(c.committed) \cup ({c.pending} \ {NoPage})
  BY <1>1 DEF KvConsistent, KvNoSharing, Held
<1>4. KvDeactivate(k, s) = SetBlock(k, s, b, k.free)
  BY DEF KvDeactivate
<1> HIDE DEF b, c
<1> QED
  BY <1>1, <1>2, <1>3, <1>4, SetBlockConsistent

(* abort_pending gives the reserved page back.                             *)
LEMMA AbortConsistent ==
  ASSUME NEW k, KvConsistent(k), NEW s \in k.open
  PROVE  KvConsistent(KvAbort(k, s))
<1> DEFINE c == k.table[s]
           b == Record(c.committed, NoPage, c.len, c.active)
           free == k.free \cup ({c.pending} \ {NoPage})
<1>1. s \in Sequences /\ c \in Block /\ k.free \in SUBSET Pages
  BY DEF KvConsistent, KvTypeOK
<1>2. /\ b \in Block
      /\ b.committed = c.committed
      /\ b.pending = NoPage
  BY <1>1 DEF Record, Block
<1>3. /\ IsInjective(c.committed)
      /\ c.pending \notin Range(c.committed)
      /\ Held(k, s) \cap k.free = {}
      /\ Held(k, s) = Range(c.committed) \cup ({c.pending} \ {NoPage})
  BY <1>1 DEF KvConsistent, KvNoSharing, Held
<1>4. Range(c.committed) \subseteq Pages /\ NoPage \notin Pages
  BY <1>1, HeldArePages DEF KvConsistent, NoPage, Pages
<1>5. c.pending \in Pages \cup {NoPage}
  BY <1>1 DEF Block
<1>6. KvAbort(k, s) = SetBlock(k, s, b, free)
  BY DEF KvAbort
<1> HIDE DEF b, c
<1>7. free \in SUBSET Pages
  BY <1>1, <1>5
<1>8. /\ Range(b.committed) \cup ({b.pending} \ {NoPage}) = Range(c.committed)
      /\ b.pending \notin Range(b.committed)
  BY <1>2, <1>4
<1>9. /\ Range(c.committed) \cup free = Held(k, s) \cup k.free
      /\ Range(c.committed) \cap free = {}
  BY <1>3
<1> HIDE DEF free
<1> QED
  BY <1>1, <1>2, <1>3, <1>6, <1>7, <1>8, <1>9, SetBlockConsistent

(* A page appended to a table that does not list it yet.                   *)
LEMMA AppendPage ==
  ASSUME NEW c \in Seq(Pages), NEW p \in Pages,
         IsInjective(c), p \notin Range(c)
  PROVE  /\ Append(c, p) \in Seq(Pages)
         /\ Len(Append(c, p)) = Len(c) + 1
         /\ IsInjective(Append(c, p))
         /\ Range(Append(c, p)) = Range(c) \cup {p}
<1> DEFINE a == Append(c, p)
<1>1. /\ a \in Seq(Pages)
      /\ Len(a) = Len(c) + 1
      /\ \A i \in 1 .. Len(c) : a[i] = c[i]
      /\ a[Len(c) + 1] = p
  BY AppendProperties
<1>2. /\ DOMAIN a = 1 .. Len(c) + 1
      /\ DOMAIN c = 1 .. Len(c)
      /\ Len(c) \in Nat
  BY <1>1, LenProperties
<1> HIDE DEF a
<1>3. \A i \in 1 .. Len(c) : c[i] # p
  BY <1>2 DEF Range
<1>4. IsInjective(a)
  <2> SUFFICES ASSUME NEW i \in DOMAIN a, NEW j \in DOMAIN a, a[i] = a[j]
               PROVE  i = j
    BY DEF IsInjective
  <2>1. CASE i \in 1 .. Len(c) /\ j \in 1 .. Len(c)
    BY <1>1, <1>2, <2>1 DEF IsInjective
  <2>2. CASE i = Len(c) + 1 \/ j = Len(c) + 1
    BY <1>1, <1>2, <1>3, <2>2
  <2> QED
    BY <1>2, <2>1, <2>2
<1>5. Range(a) = Range(c) \cup {p}
  <2>1. ASSUME NEW x \in Range(a) PROVE x \in Range(c) \cup {p}
    BY <1>1, <1>2 DEF Range
  <2>2. ASSUME NEW x \in Range(c) \cup {p} PROVE x \in Range(a)
    <3>1. CASE x = p
      BY <1>1, <1>2, <3>1 DEF Range
    <3>2. CASE x \in Range(c)
      BY <1>1, <1>2, <3>2 DEF Range
    <3> QED
      BY <3>1, <3>2
  <2> QED
    BY <2>1, <2>2
<1> QED
  BY <1>1, <1>4, <1>5 DEF a

(* commit_token moves the reserved page into the committed part.           *)
LEMMA CommitConsistent ==
  ASSUME NEW k, KvConsistent(k), NEW s \in k.open, CommitAccepted(k, s)
  PROVE  KvConsistent(KvCommit(k, s))
<1> DEFINE c == k.table[s]
           pages == IF AtBoundary(k, s) THEN Append(c.committed, c.pending)
                    ELSE c.committed
           b == Record(pages, NoPage, c.len + 1, c.active)
<1>1. s \in Sequences /\ c \in Block /\ k.free \in SUBSET Pages
  BY DEF KvConsistent, KvTypeOK
<1>2. /\ c.committed \in Seq(Pages)
      /\ c.pending \in Pages \cup {NoPage}
      /\ c.len \in Nat
      /\ c.active \in BOOLEAN
  BY <1>1 DEF Block
<1>3. /\ IsInjective(c.committed)
      /\ c.pending \notin Range(c.committed)
      /\ Held(k, s) \cap k.free = {}
      /\ Held(k, s) = Range(c.committed) \cup ({c.pending} \ {NoPage})
  BY <1>1 DEF KvConsistent, KvNoSharing, Held
<1>4. Range(c.committed) \subseteq Pages /\ NoPage \notin Pages
  BY <1>1, HeldArePages DEF KvConsistent, NoPage, Pages
<1>5. KvCommit(k, s) = SetBlock(k, s, b, k.free)
  BY DEF KvCommit
<1>6. AtBoundary(k, s) <=> c.pending # NoPage
  BY DEF CommitAccepted
<1> HIDE DEF c
<1>7. /\ pages \in Seq(Pages)
      /\ IsInjective(pages)
      /\ Range(pages) = Held(k, s)
  <2>1. CASE AtBoundary(k, s)
    BY <1>2, <1>3, <1>6, <2>1, AppendPage
  <2>2. CASE ~AtBoundary(k, s)
    BY <1>2, <1>3, <1>6, <2>2
  <2> QED
    BY <2>1, <2>2
<1> HIDE DEF pages
<1>8. b \in Block /\ b.committed = pages /\ b.pending = NoPage
  BY <1>2, <1>7 DEF Record, Block
<1> HIDE DEF b
<1>9. Held(k, s) \subseteq Pages
  BY <1>1, HeldArePages DEF KvConsistent
<1>10. /\ Range(b.committed) \cup ({b.pending} \ {NoPage}) = Held(k, s)
       /\ b.pending \notin Range(b.committed)
       /\ IsInjective(b.committed)
  BY <1>4, <1>7, <1>8, <1>9
<1> QED
  BY <1>1, <1>3, <1>5, <1>8, <1>10, SetBlockConsistent

(* A nonempty set of page ids has a lowest one: BTreeSet::pop_first.       *)
LEMMA LowestIsMember ==
  ASSUME NEW S \in SUBSET Pages, S # {}
  PROVE  Lowest(S) \in S
<1> DEFINE R == OpToRel(<, Nat)
<1>1. S \in SUBSET Nat
  BY PoolAssumption DEF Pages
<1>2. IsWellFoundedOn(R, Nat)
  BY NatLessThanWellFounded
<1>3. \A a, b \in Nat : a < b => <<a, b>> \in R
  BY DEF OpToRel
<1> HIDE DEF R
<1>4. PICK p \in S : \A q \in S : ~ (<<q, p>> \in R)
  BY <1>1, <1>2, WFMin
<1>5. \A q \in S : ~ (q < p)
  BY <1>1, <1>3, <1>4, Zenon
<1>6. \A q \in S : p <= q
  BY <1>1, <1>5
<1> QED
  BY <1>6 DEF Lowest

(* reserve: evictions, then the lowest free page becomes the pending page. *)
LEMMA EvictedConsistent ==
  ASSUME NEW k, KvConsistent(k), NEW s \in k.open
  PROVE  /\ KvConsistent(Evicted(k, s))
         /\ s \in Evicted(k, s).open
         /\ Evicted(k, s).table[s] = k.table[s]
<1>1. Victims(k, s) \in SUBSET Sequences /\ s \notin Victims(k, s)
  BY DEF Victims, Evictable, KvConsistent, KvTypeOK
<1>2. s \in Sequences
  BY DEF KvConsistent, KvTypeOK
<1> QED
  BY <1>1, <1>2, DropConsistent DEF Evicted, Drop

LEMMA ReserveConsistent ==
  ASSUME NEW k, KvConsistent(k), NEW s \in k.open,
         k.table[s].pending = NoPage, CanReserve(k, s)
  PROVE  KvConsistent(Reserve(k, s))
<1> DEFINE e == Evicted(k, s)
           c == e.table[s]
           p == Lowest(e.free)
           b == Record(c.committed, p, c.len, c.active)
           H == Held(e, s) \cup {p}
           free == e.free \ {p}
<1>1. KvConsistent(e) /\ s \in e.open /\ c.pending = NoPage
  BY EvictedConsistent
<1>2. Reserve(k, s) = SetBlock(e, s, b, free)
  BY DEF Reserve
<1>3. e.free # {}
  BY DEF CanReserve
<1> HIDE DEF e
<1>4. s \in Sequences /\ c \in Block /\ e.free \in SUBSET Pages
  BY <1>1 DEF KvConsistent, KvTypeOK
<1>5. p \in e.free
  BY <1>3, <1>4, LowestIsMember
<1>6. /\ IsInjective(c.committed)
      /\ Held(e, s) \cap e.free = {}
      /\ Held(e, s) = Range(c.committed)
  BY <1>1, <1>4 DEF KvConsistent, KvNoSharing, Held
<1>7. NoPage \notin Pages
  BY DEF NoPage, Pages
<1> HIDE DEF p, c
<1>8. b \in Block /\ b.committed = c.committed /\ b.pending = p
  BY <1>4, <1>5 DEF Record, Block
<1> HIDE DEF b
<1>9. /\ H = Range(b.committed) \cup ({b.pending} \ {NoPage})
      /\ b.pending \notin Range(b.committed)
      /\ IsInjective(b.committed)
      /\ H \cup free = Held(e, s) \cup e.free
      /\ H \cap free = {}
      /\ free \in SUBSET Pages
  BY <1>4, <1>5, <1>6, <1>7, <1>8
<1> HIDE DEF H, free
<1>10. KvConsistent(SetBlock(e, s, b, free))
  BY <1>1, <1>8, <1>9, SetBlockConsistent
<1> QED
  BY <1>2, <1>10

(* A write of the open token, whether or not it finds a page.              *)
LEMMA WriteConsistent ==
  ASSUME NEW k, KvConsistent(k), NEW s \in k.open
  PROVE  KvConsistent(KvWrite(k, s))
BY EvictedConsistent, ReserveConsistent DEF KvWrite, NeedsPage

(* invalidate: the free set it rebuilds is the one the releases leave.     *)
LEMMA InvalidateConsistent ==
  ASSUME NEW k, KvConsistent(k)
  PROVE  KvInvalidate(k) = KvEmpty
<1>1. k.open \subseteq Sequences
  BY DEF KvConsistent, KvTypeOK
<1>2. \A t \in Sequences : Drop(k, k.open).table[t] = NoBlock
  BY <1>1 DEF KvConsistent, KvNoLeak, Drop
<1>3. Drop(k, k.open).table = [t \in Sequences |-> NoBlock]
  BY <1>2 DEF Drop
<1> QED
  BY <1>3 DEF KvInvalidate, KvEmpty

-----------------------------------------------------------------------------
(* Lengths: what the table of a sequence says about its tokens.             *)

LEMMA Division ==
  ASSUME NEW b \in Nat \ {0}, NEW n \in Nat
  PROVE  /\ n \div b \in Nat /\ n % b \in 0 .. b - 1
         /\ n = b * (n \div b) + (n % b)
BY Z3

LEMMA Times ==
  ASSUME NEW b \in Nat \ {0}, NEW x \in Int, NEW y \in Int
  PROVE  /\ x < y => b * x + b <= b * y
         /\ b * (x + 1) = b * x + b
         /\ b * (x - 1) = b * x - b
<1>1. x < y => b * x + b <= b * y
  BY Z3
<1>2. b * (x + 1) = b * x + b /\ b * (x - 1) = b * x - b
  BY Z3
<1> QED
  BY <1>1, <1>2

(* Where the open token of a block lies.                                    *)
FitsTable(b) ==
  /\ BlockSize * (Len(b.committed) - 1) < b.len
  /\ b.len <= BlockSize * Len(b.committed)
  /\ b.pending # NoPage => b.len = BlockSize * Len(b.committed)

LEMMA MatchesIsFits ==
  ASSUME NEW k
  PROVE  KvTableMatchesLength(k) <=> \A s \in k.open : FitsTable(k.table[s])
BY DEF KvTableMatchesLength, FitsTable

LEMMA FittingBlock ==
  ASSUME NEW b \in Block, FitsTable(b)
  PROVE  /\ \/ b.len \div BlockSize = Len(b.committed)
            \/ (b.len \div BlockSize) + 1 = Len(b.committed) /\ b.pending = NoPage
         /\ b.len \div BlockSize = Len(b.committed) =>
              b.len = BlockSize * Len(b.committed)
         /\ (b.len % BlockSize = 0) <=> (b.len = BlockSize * Len(b.committed))
<1> DEFINE L == Len(b.committed)
           q == b.len \div BlockSize
           r == b.len % BlockSize
<1>1. L \in Nat /\ b.len \in Nat /\ BlockSize \in Nat \ {0}
  BY LenProperties, PoolAssumption DEF Block
<1>2. q \in Nat /\ r \in 0 .. BlockSize - 1 /\ b.len = BlockSize * q + r
  BY <1>1, Division
<1>3. /\ BlockSize * (L - 1) < b.len /\ b.len <= BlockSize * L
      /\ b.pending # NoPage => b.len = BlockSize * L
  BY DEF FitsTable
<1> HIDE DEF L, q, r
<1>4. ~(L < q)
  <2> SUFFICES ASSUME L < q PROVE FALSE
    OBVIOUS
  <2>1. BlockSize * L + BlockSize <= BlockSize * q
    BY <1>1, <1>2, Times
  <2> QED
    BY <1>1, <1>2, <1>3, <2>1
<1>5. q + 1 < L => FALSE
  <2> SUFFICES ASSUME q < L - 1 PROVE FALSE
    BY <1>1, <1>2
  <2>1. BlockSize * q + BlockSize <= BlockSize * (L - 1)
    BY <1>1, <1>2, Times
  <2> QED
    BY <1>1, <1>2, <1>3, <2>1
<1>6. q = L => b.len = BlockSize * L
  BY <1>1, <1>2, <1>3
<1>7. q + 1 = L => b.len = BlockSize * L - BlockSize + r /\ r # 0
  BY <1>1, <1>2, <1>3, Times
<1>8. b.pending # NoPage => q = L
  BY <1>1, <1>2, <1>3, <1>4, <1>5, <1>7
<1>9. r = 0 <=> b.len = BlockSize * L
  BY <1>1, <1>2, <1>4, <1>5, <1>6, <1>7
<1>10. q = L \/ (q + 1 = L /\ b.pending = NoPage)
  <2>1. q = L \/ q + 1 = L
    BY <1>1, <1>2, <1>4, <1>5
  <2> QED
    BY <1>1, <1>2, <1>8, <2>1
<1> QED
  BY <1>6, <1>9, <1>10 DEF L, q, r

LEMMA LengthsOfSetBlock ==
  ASSUME NEW k, KvTypeOK(k), KvTableMatchesLength(k), NEW s \in k.open, NEW b,
         FitsTable(b), NEW free
  PROVE  KvTableMatchesLength(SetBlock(k, s, b, free))
BY MatchesIsFits DEF SetBlock, KvTypeOK, KvTableMatchesLength, FitsTable

LEMMA LengthsOfDrop ==
  ASSUME NEW k, KvTypeOK(k), KvTableMatchesLength(k), NEW S
  PROVE  KvTableMatchesLength(Drop(k, S))
<1>1. \A t \in k.open \ S : t \in Sequences /\ Drop(k, S).table[t] = k.table[t]
  BY DEF Drop, KvTypeOK
<1>2. Drop(k, S).open = k.open \ S
  BY DEF Drop
<1> QED
  BY <1>1, <1>2, MatchesIsFits

LEMMA LengthsOfCommit ==
  ASSUME NEW k, KvTypeOK(k), KvTableMatchesLength(k), NEW s \in k.open,
         CommitAccepted(k, s)
  PROVE  KvTableMatchesLength(KvCommit(k, s))
<1> DEFINE c == k.table[s]
           pages == IF AtBoundary(k, s) THEN Append(c.committed, c.pending)
                    ELSE c.committed
           b == Record(pages, NoPage, c.len + 1, c.active)
<1>1. c \in Block /\ FitsTable(c) /\ BlockSize \in Nat \ {0}
  BY MatchesIsFits, PoolAssumption DEF KvTypeOK
<1>2. AtBoundary(k, s) <=> c.len = BlockSize * Len(c.committed)
  BY <1>1, FittingBlock DEF AtBoundary
<1>3. c.committed \in Seq(Pages) /\ Len(c.committed) \in Nat /\ c.len \in Nat
  BY <1>1, LenProperties DEF Block
<1>4. AtBoundary(k, s) <=> c.pending # NoPage
  BY DEF CommitAccepted
<1>5. KvCommit(k, s) = SetBlock(k, s, b, k.free)
  BY DEF KvCommit
<1>6. /\ BlockSize * (Len(c.committed) - 1) < c.len
      /\ c.len <= BlockSize * Len(c.committed)
      /\ BlockSize * (Len(c.committed) + 1) = BlockSize * Len(c.committed) + BlockSize
  BY <1>1, <1>3, Times DEF FitsTable
<1>7. FitsTable(b)
  <2>1. CASE AtBoundary(k, s)
    <3>1. Len(b.committed) = Len(c.committed) + 1
      BY <1>3, <2>1, AppendProperties DEF Record
    <3>2. Len(b.committed) - 1 = Len(c.committed) /\ b.len = c.len + 1 /\ b.pending = NoPage
      BY <1>3, <3>1 DEF Record
    <3>3. c.len = BlockSize * Len(c.committed)
      BY <1>2, <2>1
    <3> HIDE DEF b, c
    <3> QED
      BY <1>1, <1>3, <1>6, <3>1, <3>2, <3>3 DEF FitsTable
  <2>2. CASE ~AtBoundary(k, s)
    <3>1. b.committed = c.committed /\ b.len = c.len + 1 /\ b.pending = NoPage
      BY <2>2 DEF Record
    <3>2. c.len # BlockSize * Len(c.committed)
      BY <1>2, <2>2
    <3>3. BlockSize * Len(c.committed) \in Int /\ BlockSize * (Len(c.committed) - 1) \in Int
      BY <1>1, <1>3
    <3> HIDE DEF b, c
    <3> QED
      BY <1>3, <1>6, <3>1, <3>2, <3>3 DEF FitsTable
  <2> QED
    BY <2>1, <2>2
<1> HIDE DEF b
<1> QED
  BY <1>5, <1>7, LengthsOfSetBlock

LEMMA LengthsOfWrite ==
  ASSUME NEW k, KvConsistent(k), KvTableMatchesLength(k), NEW s \in k.open
  PROVE  KvTableMatchesLength(KvWrite(k, s))
<1> DEFINE e == Evicted(k, s)
           c == e.table[s]
           p == Lowest(e.free)
           b == Record(c.committed, p, c.len, c.active)
<1>1. KvConsistent(e) /\ s \in e.open /\ c = k.table[s]
  BY EvictedConsistent
<1>2. KvTableMatchesLength(e)
  BY LengthsOfDrop DEF Evicted, KvConsistent
<1>3. CASE NeedsPage(k, s) /\ CanReserve(k, s)
  <2>1. c \in Block /\ FitsTable(c)
    BY <1>1, <1>2, MatchesIsFits DEF KvConsistent, KvTypeOK
  <2>2. c.len = BlockSize * Len(c.committed)
    BY <1>1, <1>3, <2>1, FittingBlock DEF NeedsPage, OnNewPage, PageIndex
  <2>3. FitsTable(b)
    BY <2>1, <2>2 DEF FitsTable, Record
  <2>4. KvWrite(k, s) = SetBlock(e, s, b, e.free \ {p})
    BY <1>3 DEF KvWrite, Reserve
  <2> HIDE DEF b, e
  <2> QED
    BY <1>1, <1>2, <2>3, <2>4, LengthsOfSetBlock DEF KvConsistent
<1>4. CASE ~(NeedsPage(k, s) /\ CanReserve(k, s))
  BY <1>2, <1>4 DEF KvWrite
<1> QED
  BY <1>3, <1>4
=============================================================================
