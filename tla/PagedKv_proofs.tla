--------------------------- MODULE PagedKv_proofs ---------------------------
(***************************************************************************)
(* Theorems about PagedKv for every page count, block size, layer set and  *)
(* set of sequences. The inductive invariant IInv is type correctness, the *)
(* two page-accounting invariants (which need each other: a page may only  *)
(* be handed out because free pages are in no table, and may only be freed *)
(* because it is in no other table) and the zeroing of free pages. Over it *)
(* Contents says what the pages of an open sequence hold. The last part    *)
(* shows that the store implements KvStore: what a reader of (s, t, layer) *)
(* finds is the abstract vector, and each operation changes it as KvStore  *)
(* allows. That a page is in one place makes a write change one vector;    *)
(* that free pages are clear makes a new page show nothing.                *)
(***************************************************************************)
EXTENDS PagedKv, KvPool_proofs

IInv == TypeOK /\ NoSharing /\ NoLeak /\ FreePagesZeroed

LEMMA IInvConsistent ==
  IInv => KvConsistent(kv)
BY DEF IInv, TypeOK, NoSharing, NoLeak, KvConsistent

(* The lengths of the tables after an operation that changes one of them.  *)
LEMMA LenOfSetBlock ==
  ASSUME NEW k, NEW s, NEW b, NEW free, KvTypeOK(k),
         \A t \in Sequences : k.table[t].len <= MaxLen,
         b.len <= MaxLen
  PROVE  \A t \in Sequences : SetBlock(k, s, b, free).table[t].len <= MaxLen
BY DEF SetBlock, KvTypeOK

LEMMA LenOfDrop ==
  ASSUME NEW k, NEW S,
         \A t \in Sequences : k.table[t].len <= MaxLen
  PROVE  \A t \in Sequences : Drop(k, S).table[t].len <= MaxLen
BY LengthAssumption DEF Drop, NoBlock, Record

(* Clearing keeps the shape of the contents.                               *)
LEMMA ClearedTyped ==
  ASSUME NEW S,
         cells \in [Pages -> [Layers -> [Slots ->
                      {Zero} \cup (Sequences \X (0 .. MaxLen))]]]
  PROVE  /\ Cleared(S) \in [Pages -> [Layers -> [Slots ->
                              {Zero} \cup (Sequences \X (0 .. MaxLen))]]]
         /\ \A p \in Pages : p \in S => Cleared(S)[p] = ZeroPage
         /\ \A p \in Pages : p \notin S => Cleared(S)[p] = cells[p]
BY DEF Cleared, ZeroPage

(* Storing one cell keeps the shape of the contents.                       *)
LEMMA StoreTyped ==
  ASSUME NEW A, NEW B, NEW C, NEW T, NEW f \in [A -> [B -> [C -> T]]],
         NEW a, NEW b, NEW c, NEW v \in T
  PROVE  [f EXCEPT ![a][b][c] = v] \in [A -> [B -> [C -> T]]]
<1> DEFINE g == [f EXCEPT ![a][b][c] = v]
<1>1. \A x \in A : g[x] \in [B -> [C -> T]]
  <2> SUFFICES ASSUME NEW x \in A PROVE g[x] \in [B -> [C -> T]]
    OBVIOUS
  <2>1. CASE x # a
    BY <2>1
  <2>2. CASE x = a
    <3>1. g[x] = [f[a] EXCEPT ![b][c] = v]
      BY <2>2
    <3>2. f[a] \in [B -> [C -> T]]
      BY <2>2
    <3>3. \A y \in B : [f[a][y] EXCEPT ![c] = v] \in [C -> T]
      BY <3>2
    <3> QED
      BY <3>1, <3>2, <3>3
  <2> QED
    BY <2>1, <2>2
<1> QED
  BY <1>1

LEMMA InitIInv == Init => IInv
<1> SUFFICES ASSUME Init PROVE IInv
  OBVIOUS
<1>1. KvConsistent(kv)
  BY EmptyConsistent DEF Init
<1>2. \A s \in Sequences : kv.table[s].len <= MaxLen
  BY LengthAssumption DEF Init, KvEmpty, NoBlock, Record
<1>3. cells \in [Pages -> [Layers -> [Slots ->
                   {Zero} \cup (Sequences \X (0 .. MaxLen))]]]
  BY DEF Init, ZeroPage
<1>4. FreePagesZeroed
  BY DEF Init, FreePagesZeroed, KvEmpty
<1> QED
  BY <1>1, <1>2, <1>3, <1>4
  DEF IInv, TypeOK, NoSharing, NoLeak, KvConsistent

(* What has to be shown of a step, beyond the accounting of pages.         *)
LEMMA StepIInv ==
  ASSUME KvConsistent(kv)',
         (\A s \in Sequences : kv.table[s].len <= MaxLen)',
         (cells \in [Pages -> [Layers -> [Slots ->
                       {Zero} \cup (Sequences \X (0 .. MaxLen))]]])',
         \A p \in kv'.free : cells'[p] = ZeroPage
  PROVE  IInv'
BY DEF IInv, TypeOK, NoSharing, NoLeak, KvConsistent, FreePagesZeroed, ZeroPage

LEMMA BeginStep ==
  ASSUME IInv, NEW s \in Sequences, BeginSequence(s)
  PROVE  IInv'
<1>1. KvConsistent(kv) /\ s \in Sequences \ kv.open
  BY IInvConsistent DEF BeginSequence
<1>2. KvConsistent(kv)'
  BY <1>1, BeginConsistent DEF BeginSequence
<1>3. \A t \in Sequences : kv'.table[t].len <= MaxLen
  BY LengthAssumption DEF IInv, TypeOK, KvTypeOK, BeginSequence, KvBegin, Record
<1>4. kv'.free = kv.free /\ cells' = cells
  BY DEF BeginSequence, KvBegin
<1> QED
  BY <1>2, <1>3, <1>4, StepIInv DEF IInv, TypeOK, FreePagesZeroed

LEMMA ReleaseStep ==
  ASSUME IInv, NEW s \in Sequences, ReleaseSequence(s)
  PROVE  IInv'
<1>1. KvConsistent(kv)
  BY IInvConsistent
<1>2. kv' = Drop(kv, {s}) /\ cells' = Cleared(Held(kv, s))
  BY DEF ReleaseSequence, KvRelease
<1>3. KvConsistent(kv)'
  BY <1>1, <1>2, DropConsistent
<1>4. \A t \in Sequences : kv'.table[t].len <= MaxLen
  BY <1>2, LenOfDrop DEF IInv, TypeOK
<1>5. kv'.free = kv.free \cup Held(kv, s) /\ kv'.free \subseteq Pages
  BY <1>2, <1>3 DEF Drop, KvConsistent, KvTypeOK
<1>6. \A p \in kv'.free : cells'[p] = ZeroPage
  BY <1>2, <1>5, ClearedTyped DEF IInv, TypeOK, FreePagesZeroed
<1> QED
  BY <1>2, <1>3, <1>4, <1>6, StepIInv, ClearedTyped DEF IInv, TypeOK

LEMMA DeactivateStep ==
  ASSUME IInv, NEW s \in Sequences, Deactivate(s)
  PROVE  IInv'
<1> DEFINE c == kv.table[s]
           b == Record(c.committed, c.pending, c.len, FALSE)
<1>1. KvConsistent(kv) /\ s \in kv.open /\ kv' = KvDeactivate(kv, s)
  BY IInvConsistent DEF Deactivate
<1>2. KvConsistent(kv)'
  BY <1>1, DeactivateConsistent
<1>3. kv' = SetBlock(kv, s, b, kv.free) /\ cells' = cells
  BY <1>1 DEF KvDeactivate, Deactivate
<1>4. b.len <= MaxLen
  BY DEF IInv, TypeOK, Record
<1>5. \A t \in Sequences : kv'.table[t].len <= MaxLen
  BY <1>3, <1>4, LenOfSetBlock DEF IInv, TypeOK
<1>6. kv'.free = kv.free
  BY <1>3 DEF SetBlock
<1> QED
  BY <1>2, <1>3, <1>5, <1>6, StepIInv DEF IInv, TypeOK, FreePagesZeroed

LEMMA CommitStep ==
  ASSUME IInv, NEW s \in Sequences, CommitToken(s)
  PROVE  IInv'
<1> DEFINE c == kv.table[s]
           pages == IF AtBoundary(kv, s) THEN Append(c.committed, c.pending)
                    ELSE c.committed
           b == Record(pages, NoPage, c.len + 1, c.active)
<1>1. /\ KvConsistent(kv)
      /\ s \in kv.open
      /\ CommitAccepted(kv, s)
      /\ kv' = KvCommit(kv, s)
      /\ cells' = cells
  BY IInvConsistent DEF CommitToken
<1>2. KvConsistent(kv)'
  BY <1>1, CommitConsistent
<1>3. kv' = SetBlock(kv, s, b, kv.free)
  BY <1>1 DEF KvCommit
<1>4. b.len <= MaxLen
  <2>1. c.len \in Nat /\ c.len < MaxLen
    BY DEF CommitToken, IInv, TypeOK, KvTypeOK, Block
  <2> QED
    BY <2>1, LengthAssumption DEF Record
<1>5. \A t \in Sequences : kv'.table[t].len <= MaxLen
  BY <1>3, <1>4, LenOfSetBlock DEF IInv, TypeOK
<1>6. kv'.free = kv.free
  BY <1>3 DEF SetBlock
<1> QED
  BY <1>1, <1>2, <1>5, <1>6, StepIInv DEF IInv, TypeOK, FreePagesZeroed

LEMMA AbortStep ==
  ASSUME IInv, NEW s \in Sequences, AbortPending(s)
  PROVE  IInv'
<1> DEFINE c == kv.table[s]
           b == Record(c.committed, NoPage, c.len, c.active)
           free == kv.free \cup ({c.pending} \ {NoPage})
<1>1. /\ KvConsistent(kv)
      /\ s \in kv.open
      /\ kv' = KvAbort(kv, s)
      /\ cells' = Cleared({c.pending})
  BY IInvConsistent DEF AbortPending
<1>2. KvConsistent(kv)'
  BY <1>1, AbortConsistent
<1>3. kv' = SetBlock(kv, s, b, free)
  BY <1>1 DEF KvAbort
<1>4. b.len <= MaxLen
  BY DEF IInv, TypeOK, Record
<1>5. \A t \in Sequences : kv'.table[t].len <= MaxLen
  BY <1>3, <1>4, LenOfSetBlock DEF IInv, TypeOK
<1>6. kv'.free = free /\ kv'.free \subseteq Pages
  BY <1>2, <1>3 DEF SetBlock, KvConsistent, KvTypeOK
<1>7. \A p \in kv'.free : cells'[p] = ZeroPage
  BY <1>1, <1>6, ClearedTyped DEF IInv, TypeOK, FreePagesZeroed
<1> QED
  BY <1>1, <1>2, <1>5, <1>7, StepIInv, ClearedTyped DEF IInv, TypeOK

LEMMA InvalidateStep ==
  ASSUME IInv, Invalidate
  PROVE  IInv'
<1>1. kv' = KvEmpty /\ cells' = [p \in Pages |-> ZeroPage]
  BY IInvConsistent, InvalidateConsistent DEF Invalidate
<1>2. KvConsistent(kv)'
  BY <1>1, EmptyConsistent
<1>3. \A s \in Sequences : kv'.table[s].len <= MaxLen
  BY <1>1, LengthAssumption DEF KvEmpty, NoBlock, Record
<1>4. cells' \in [Pages -> [Layers -> [Slots ->
                    {Zero} \cup (Sequences \X (0 .. MaxLen))]]]
  BY <1>1 DEF ZeroPage
<1>5. \A p \in kv'.free : cells'[p] = ZeroPage
  BY <1>1, <1>2 DEF KvConsistent, KvTypeOK
<1> QED
  BY <1>2, <1>3, <1>4, <1>5, StepIInv

(* The page a write of the open token goes to is in the writer's table.    *)
LEMMA OpenPageIsHeld ==
  ASSUME KvConsistent(kv), NEW s \in kv.open,
         WriteFits(kv, s), WriteInOrder(kv, s)
  PROVE  OpenPage(kv, s) \in Held(KvWrite(kv, s), s)
<1> DEFINE c == kv.table[s]
           w == KvWrite(kv, s)
<1>1. s \in Sequences /\ c \in Block
  BY DEF KvConsistent, KvTypeOK
<1>2. c.committed \in Seq(Pages) /\ c.len \in Nat
  BY <1>1 DEF Block
<1>3. DOMAIN c.committed = 1 .. Len(c.committed) /\ Len(c.committed) \in Nat
  BY <1>2, LenProperties
<1>4. NoPage \notin Pages
  BY DEF NoPage, Pages
<1>5. CASE OnNewPage(kv, s) /\ NeedsPage(kv, s)
  <2> DEFINE e == Evicted(kv, s)
  <2>1. CanReserve(kv, s) /\ w = Reserve(kv, s)
    BY <1>5 DEF WriteFits, KvWrite
  <2>2. KvConsistent(e) /\ e.table \in [Sequences -> Block]
    BY EvictedConsistent DEF KvConsistent, KvTypeOK
  <2>3. Lowest(e.free) \in Pages
    BY <2>1, <2>2, LowestIsMember DEF CanReserve, KvConsistent, KvTypeOK
  <2>4. w.table[s].pending = Lowest(e.free)
    BY <1>1, <2>1, <2>2 DEF Reserve, SetBlock, Record
  <2>5. OpenPage(kv, s) = w.table[s].pending
    BY <1>5 DEF OpenPage
  <2> QED
    BY <1>4, <2>3, <2>4, <2>5 DEF Held
<1>6. CASE OnNewPage(kv, s) /\ ~NeedsPage(kv, s)
  BY <1>6 DEF OpenPage, KvWrite, NeedsPage, Held
<1>7. CASE ~OnNewPage(kv, s)
  <2>1. OnLastPage(kv, s) /\ w = kv
    BY <1>7 DEF WriteInOrder, KvWrite, NeedsPage
  <2>2. PageIndex(kv, s) \in Nat
    BY <1>2, PoolAssumption DEF PageIndex
  <2>3. PageIndex(kv, s) + 1 \in 1 .. Len(c.committed)
    BY <1>3, <2>1, <2>2 DEF OnLastPage
  <2>4. OpenPage(kv, s) = c.committed[PageIndex(kv, s) + 1]
    BY <1>7 DEF OpenPage
  <2> QED
    BY <1>3, <2>1, <2>3, <2>4 DEF Held, Range
<1> QED
  BY <1>5, <1>6, <1>7

(* What a write leaves in the free set was cleared or free before.         *)
LEMMA WriteFree ==
  ASSUME KvConsistent(kv), NEW s \in kv.open,
         \A t \in Sequences : kv.table[t].len <= MaxLen
  PROVE  /\ NeedsPage(kv, s) =>
              KvWrite(kv, s).free \subseteq
                kv.free \cup PagesOf(Victims(kv, s))
         /\ ~NeedsPage(kv, s) => KvWrite(kv, s).free = kv.free
         /\ \A t \in Sequences : KvWrite(kv, s).table[t].len <= MaxLen
<1> DEFINE e == Evicted(kv, s)
<1>1. KvConsistent(e) /\ s \in e.open
  BY EvictedConsistent
<1>2. e.free = kv.free \cup PagesOf(Victims(kv, s))
  BY DEF Evicted, Drop, PagesOf
<1>3. \A t \in Sequences : e.table[t].len <= MaxLen
  BY LenOfDrop DEF Evicted
<1>4. \A t \in Sequences : Reserve(kv, s).table[t].len <= MaxLen
  <2> DEFINE c == e.table[s]
             p == Lowest(e.free)
             b == Record(c.committed, p, c.len, c.active)
  <2>1. Reserve(kv, s) = SetBlock(e, s, b, e.free \ {p})
    BY DEF Reserve
  <2>2. b.len <= MaxLen
    BY <1>1, <1>3 DEF Record, KvConsistent, KvTypeOK
  <2> QED
    BY <1>1, <1>3, <2>1, <2>2, LenOfSetBlock DEF KvConsistent
<1>5. Reserve(kv, s).free \subseteq e.free
  BY DEF Reserve, SetBlock
<1> QED
  BY <1>2, <1>3, <1>4, <1>5 DEF KvWrite

LEMMA WriteStep ==
  ASSUME IInv, NEW s \in Sequences, NEW layer \in Layers, Write(s, layer)
  PROVE  IInv'
<1> DEFINE S == PagesOf(IF NeedsPage(kv, s) THEN Victims(kv, s) ELSE {})
           o == OpenPage(kv, s)
           i == kv.table[s].len % BlockSize
           tag == <<s, kv.table[s].len>>
<1>1. /\ KvConsistent(kv)
      /\ s \in kv.open
      /\ kv' = KvWrite(kv, s)
      /\ cells' = [Cleared(S) EXCEPT ![o][layer][i] = tag]
  BY IInvConsistent DEF Write
<1>2. KvConsistent(kv)'
  BY <1>1, WriteConsistent
<1>3. \A t \in Sequences : kv'.table[t].len <= MaxLen
  BY <1>1, WriteFree DEF IInv, TypeOK
<1>4. tag \in Sequences \X (0 .. MaxLen)
  BY LengthAssumption DEF IInv, TypeOK, KvTypeOK, Block
<1>5. /\ Cleared(S) \in [Pages -> [Layers -> [Slots ->
                          {Zero} \cup (Sequences \X (0 .. MaxLen))]]]
      /\ \A p \in Pages : p \in S => Cleared(S)[p] = ZeroPage
      /\ \A p \in Pages : p \notin S => Cleared(S)[p] = cells[p]
  BY ClearedTyped DEF IInv, TypeOK
<1>6. o \in Held(kv', s) /\ o \notin kv'.free
  <2>1. o \in Held(kv', s)
    BY <1>1, OpenPageIsHeld DEF Write
  <2> QED
    BY <1>2, <2>1 DEF KvConsistent, KvNoSharing
<1> HIDE DEF o, i, tag
<1>7. cells' \in [Pages -> [Layers -> [Slots ->
                    {Zero} \cup (Sequences \X (0 .. MaxLen))]]]
  BY <1>1, <1>4, <1>5, StoreTyped
<1>8. kv'.free \subseteq kv.free \cup S
  BY <1>1, WriteFree DEF IInv, TypeOK
<1>9. \A p \in kv'.free : cells'[p] = ZeroPage
  <2> SUFFICES ASSUME NEW p \in kv'.free PROVE cells'[p] = ZeroPage
    OBVIOUS
  <2>1. p \in Pages /\ p # o
    BY <1>2, <1>6 DEF KvConsistent, KvTypeOK
  <2>2. cells'[p] = Cleared(S)[p]
    BY <1>1, <1>5, <2>1
  <2> QED
    BY <1>5, <1>8, <2>1, <2>2 DEF IInv, FreePagesZeroed
<1> QED
  BY <1>2, <1>3, <1>7, <1>9, StepIInv

LEMMA ExhaustedStep ==
  ASSUME IInv, NEW s \in Sequences, WriteExhausted(s)
  PROVE  IInv'
<1> DEFINE S == PagesOf(Victims(kv, s))
<1>1. /\ KvConsistent(kv)
      /\ s \in kv.open
      /\ NeedsPage(kv, s)
      /\ kv' = KvWrite(kv, s)
      /\ cells' = Cleared(S)
  BY IInvConsistent DEF WriteExhausted, WriteFits
<1>2. KvConsistent(kv)'
  BY <1>1, WriteConsistent
<1>3. /\ \A t \in Sequences : kv'.table[t].len <= MaxLen
      /\ kv'.free \subseteq kv.free \cup S
  BY <1>1, WriteFree DEF IInv, TypeOK
<1> HIDE DEF S
<1>4. \A p \in kv'.free : cells'[p] = ZeroPage
  BY <1>1, <1>2, <1>3, ClearedTyped
  DEF IInv, TypeOK, FreePagesZeroed, KvConsistent, KvTypeOK
<1> QED
  BY <1>1, <1>2, <1>3, <1>4, StepIInv, ClearedTyped DEF IInv, TypeOK

LEMMA NextIInv == IInv /\ [Next]_vars => IInv'
<1> SUFFICES ASSUME IInv, [Next]_vars PROVE IInv'
  OBVIOUS
<1>1. CASE Invalidate
  BY <1>1, InvalidateStep
<1>2. ASSUME NEW s \in Sequences,
             \/ BeginSequence(s) \/ ReleaseSequence(s) \/ Deactivate(s)
             \/ WriteExhausted(s) \/ CommitToken(s) \/ AbortPending(s)
             \/ \E layer \in Layers : Write(s, layer)
      PROVE  IInv'
  BY <1>2, BeginStep, ReleaseStep, DeactivateStep, ExhaustedStep, CommitStep,
     AbortStep, WriteStep
<1>3. CASE UNCHANGED vars
  BY <1>3 DEF vars, IInv, TypeOK, NoSharing, NoLeak, FreePagesZeroed, ZeroPage
<1> QED
  BY <1>1, <1>2, <1>3 DEF Next

(* The inductive invariant holds throughout.                               *)
THEOREM PoolInvariant == Spec => []IInv
BY InitIInv, NextIInv, PTL DEF Spec

(* Every variable keeps its type, and no length passes its bound.          *)
THEOREM TypeCorrect == Spec => []TypeOK
BY PoolInvariant, PTL DEF IInv

(* A page is never in two places, whatever the clients do.                 *)
THEOREM PagesNeverShared == Spec => []NoSharing
BY PoolInvariant, PTL DEF IInv

(* A page is never lost.                                                   *)
THEOREM PagesNeverLeak == Spec => []NoLeak
BY PoolInvariant, PTL DEF IInv

(* A free page never carries what its last owner wrote.                    *)
THEOREM FreedPagesAreZero == Spec => []FreePagesZeroed
BY PoolInvariant, PTL DEF IInv

-----------------------------------------------------------------------------
LEMMA LengthsStep ==
  ASSUME IInv, KvTableMatchesLength(kv), [Next]_vars
  PROVE  KvTableMatchesLength(kv)'
<1>1. KvConsistent(kv) /\ KvTypeOK(kv)
  BY IInvConsistent DEF KvConsistent
<1>2. CASE UNCHANGED vars
  BY <1>2 DEF vars, KvTableMatchesLength
<1>3. CASE Invalidate
  <2>1. kv' = KvEmpty
    BY <1>1, <1>3, InvalidateConsistent DEF Invalidate
  <2>2. KvTableMatchesLength(KvEmpty)
    BY DEF KvTableMatchesLength, KvEmpty
  <2> QED
    BY <2>1, <2>2
<1>4. ASSUME NEW s \in Sequences, BeginSequence(s) PROVE KvTableMatchesLength(kv')
  <2>1. /\ kv'.open = kv.open \cup {s}
        /\ kv'.table[s] = Record(<< >>, NoPage, 0, TRUE)
        /\ \A t \in kv.open : t # s => kv'.table[t] = kv.table[t]
    BY <1>1, <1>4 DEF BeginSequence, KvBegin, KvTypeOK
  <2>2. FitsTable(Record(<< >>, NoPage, 0, TRUE))
    BY PoolAssumption DEF FitsTable, Record
  <2> QED
    BY <2>1, <2>2, MatchesIsFits
<1>5. ASSUME NEW s \in Sequences, ReleaseSequence(s) PROVE KvTableMatchesLength(kv')
  BY <1>1, <1>5, LengthsOfDrop DEF ReleaseSequence, KvRelease
<1>6. ASSUME NEW s \in Sequences, Deactivate(s) \/ AbortPending(s)
      PROVE  KvTableMatchesLength(kv')
  <2> DEFINE c == kv.table[s]
             b == IF Deactivate(s) THEN Record(c.committed, c.pending, c.len, FALSE)
                  ELSE Record(c.committed, NoPage, c.len, c.active)
  <2>1. PICK free : kv' = SetBlock(kv, s, b, free)
    BY <1>6 DEF Deactivate, AbortPending, KvDeactivate, KvAbort
  <2>2. FitsTable(c) /\ s \in kv.open
    BY <1>6, MatchesIsFits DEF Deactivate, AbortPending
  <2>3. FitsTable(b)
    BY <2>2 DEF FitsTable, Record
  <2> HIDE DEF b
  <2> QED
    BY <1>1, <2>1, <2>2, <2>3, LengthsOfSetBlock
<1>7. ASSUME NEW s \in Sequences, CommitToken(s) PROVE KvTableMatchesLength(kv')
  BY <1>1, <1>7, LengthsOfCommit DEF CommitToken
<1>8. ASSUME NEW s \in Sequences,
             WriteExhausted(s) \/ \E layer \in Layers : Write(s, layer)
      PROVE  KvTableMatchesLength(kv')
  BY <1>1, <1>8, LengthsOfWrite DEF WriteExhausted, Write
<1>9. KvTableMatchesLength(kv)' <=> KvTableMatchesLength(kv')
  BY DEF KvTableMatchesLength
<1> QED
  BY <1>2, <1>3, <1>4, <1>5, <1>6, <1>7, <1>8, <1>9 DEF Next

LEMMA LengthsInvariant == Spec => []KvTableMatchesLength(kv)
<1>1. Init => KvTableMatchesLength(kv)
  BY DEF Init, KvTableMatchesLength, KvEmpty
<1>2. IInv /\ KvTableMatchesLength(kv) /\ [Next]_vars => KvTableMatchesLength(kv)'
  BY LengthsStep
<1> QED
  BY <1>1, <1>2, PoolInvariant, PTL DEF Spec

(* A writer of the open token never meets the errors of page_for_write that *)
(* say the table and the length disagree.                                   *)
THEOREM WritersAreNeverRefused == Spec => []WriterNeverRefused
<1>1. IInv /\ KvTableMatchesLength(kv) => WriterNeverRefused
  <2> SUFFICES ASSUME IInv, KvTableMatchesLength(kv), NEW s \in kv.open
               PROVE  WriteInOrder(kv, s)
    BY DEF WriterNeverRefused
  <2>1. kv.table[s] \in Block /\ FitsTable(kv.table[s])
    BY MatchesIsFits DEF IInv, TypeOK, KvTypeOK
  <2> QED
    BY <2>1, FittingBlock DEF WriteInOrder, OnNewPage, OnLastPage, PageIndex
<1> QED
  BY <1>1, PoolInvariant, LengthsInvariant, PTL

-----------------------------------------------------------------------------
(* Contents: every cell of a page in a table was cleared, or written by the *)
(* table's own sequence for the token that lies there. This needs no length *)
(* and is inductive; what a reader finds follows from it.                   *)

PageAt(k, s, i) ==
  IF i = Len(k.table[s].committed) THEN k.table[s].pending
  ELSE k.table[s].committed[i + 1]

Indices(k, s) == 0 .. Len(k.table[s].committed)

Owned(page, s, i) ==
  \A layer \in Layers : \A j \in Slots :
    page[layer][j] \in {Zero, <<s, i * BlockSize + j>>}

Contents(k, c) ==
  \A s \in k.open : \A i \in Indices(k, s) :
    PageAt(k, s, i) # NoPage => Owned(c[PageAt(k, s, i)], s, i)

LEMMA ZeroIsOwned ==
  ASSUME NEW s, NEW i
  PROVE  Owned(ZeroPage, s, i)
BY DEF Owned, ZeroPage

LEMMA PageAtHeld ==
  ASSUME NEW k, KvTypeOK(k), NEW s \in Sequences, NEW i \in Indices(k, s),
         PageAt(k, s, i) # NoPage
  PROVE  /\ PageAt(k, s, i) \in Held(k, s)
         /\ i # Len(k.table[s].committed) =>
              PageAt(k, s, i) \in Range(k.table[s].committed)
<1> DEFINE c == k.table[s].committed
<1>1. c \in Seq(Pages)
  BY DEF KvTypeOK, Block
<1>2. DOMAIN c = 1 .. Len(c) /\ Len(c) \in Nat
  BY <1>1, LenProperties
<1>3. i # Len(c) => i + 1 \in DOMAIN c
  BY <1>2 DEF Indices
<1> QED
  BY <1>3 DEF PageAt, Held, Range

LEMMA PageAtInjective ==
  ASSUME NEW k, KvConsistent(k), NEW s \in Sequences,
         NEW i \in Indices(k, s), NEW j \in Indices(k, s),
         PageAt(k, s, i) = PageAt(k, s, j), PageAt(k, s, i) # NoPage
  PROVE  i = j
<1> DEFINE c == k.table[s].committed
<1>1. c \in Seq(Pages) /\ KvTypeOK(k)
  BY DEF KvConsistent, KvTypeOK, Block
<1>2. DOMAIN c = 1 .. Len(c) /\ Len(c) \in Nat
  BY <1>1, LenProperties
<1>3. IsInjective(c) /\ k.table[s].pending \notin Range(c)
  BY DEF KvConsistent, KvNoSharing
<1>4. i # Len(c) => i + 1 \in DOMAIN c /\ PageAt(k, s, i) \in Range(c)
  BY <1>1, <1>2, PageAtHeld DEF Indices
<1>5. j # Len(c) => j + 1 \in DOMAIN c /\ PageAt(k, s, j) \in Range(c)
  BY <1>1, <1>2, PageAtHeld DEF Indices
<1>6. CASE i = Len(c) \/ j = Len(c)
  BY <1>3, <1>4, <1>5, <1>6 DEF PageAt
<1>7. CASE i # Len(c) /\ j # Len(c)
  <2>1. c[i + 1] = c[j + 1]
    BY <1>7 DEF PageAt
  <2>2. i + 1 = j + 1
    BY <1>3, <1>4, <1>5, <1>7, <2>1 DEF IsInjective
  <2> QED
    BY <1>2, <2>2 DEF Indices
<1> QED
  BY <1>6, <1>7

(* A pool whose pages are clear, or where they were with what they had.     *)
LEMMA KeepsContents ==
  ASSUME NEW k, NEW c, Contents(k, c), NEW l, NEW d,
         \A s \in l.open : \A i \in Indices(l, s) :
           LET p == PageAt(l, s, i)
           IN  \/ p = NoPage \/ d[p] = ZeroPage
               \/ /\ s \in k.open /\ i \in Indices(k, s)
                  /\ PageAt(k, s, i) = p /\ d[p] = c[p]
  PROVE  Contents(l, d)
BY ZeroIsOwned DEF Contents

LEMMA SameContents ==
  ASSUME NEW k, NEW c, Contents(k, c), NEW l,
         \A s \in l.open : /\ s \in k.open
                           /\ l.table[s].committed = k.table[s].committed
                           /\ l.table[s].pending \in {k.table[s].pending, NoPage}
  PROVE  Contents(l, c)
<1>1. ASSUME NEW s \in l.open, NEW i \in Indices(l, s)
      PROVE  \/ PageAt(l, s, i) = NoPage
             \/ s \in k.open /\ i \in Indices(k, s) /\ PageAt(k, s, i) = PageAt(l, s, i)
  BY DEF Indices, PageAt
<1> QED
  BY <1>1, KeepsContents

(* Clearing the pages of sequences that are dropped.                        *)
LEMMA DropContents ==
  ASSUME IInv, Contents(kv, cells), NEW S \in SUBSET Sequences
  PROVE  Contents(Drop(kv, S), Cleared(PagesOf(S)))
<1> DEFINE l == Drop(kv, S)
           d == Cleared(PagesOf(S))
<1>1. KvConsistent(kv)
  BY IInvConsistent
<1>2. l.open = kv.open \ S /\ \A t \in l.open : t \in Sequences /\ l.table[t] = kv.table[t]
  BY <1>1 DEF Drop, KvConsistent, KvTypeOK
<1>3. \A p \in Pages : p \notin PagesOf(S) => d[p] = cells[p]
  BY DEF Cleared
<1> HIDE DEF l, d
<1>4. ASSUME NEW t \in l.open, NEW i \in Indices(l, t), PageAt(l, t, i) # NoPage
      PROVE  /\ t \in kv.open /\ i \in Indices(kv, t) /\ PageAt(kv, t, i) = PageAt(l, t, i)
             /\ d[PageAt(l, t, i)] = cells[PageAt(l, t, i)]
  <2>1. t \in kv.open /\ i \in Indices(kv, t) /\ PageAt(kv, t, i) = PageAt(l, t, i)
    BY <1>2 DEF Indices, PageAt
  <2>2. PageAt(l, t, i) \in Held(kv, t) /\ PageAt(l, t, i) \in Pages
    BY <1>1, <1>2, <1>4, <2>1, PageAtHeld, HeldArePages DEF KvConsistent
  <2>3. PageAt(l, t, i) \notin PagesOf(S)
    BY <1>1, <1>2, <2>2 DEF PagesOf, KvConsistent, KvNoSharing
  <2> QED
    BY <1>3, <2>1, <2>2, <2>3
<1>5. Contents(l, d)
  BY <1>4, KeepsContents
<1> QED
  BY <1>5 DEF l, d

(* The open token's page has its place in the writer's table.               *)
LEMMA OpenPageAt ==
  ASSUME IInv, NEW s \in kv.open, WriteFits(kv, s), WriteInOrder(kv, s)
  PROVE  LET w == KvWrite(kv, s)
         IN  /\ PageIndex(kv, s) \in Indices(w, s)
             /\ OpenPage(kv, s) = PageAt(w, s, PageIndex(kv, s))
             /\ OpenPage(kv, s) # NoPage
<1> DEFINE w == KvWrite(kv, s)
<1>1. KvConsistent(kv) /\ s \in Sequences /\ kv.table[s] \in Block
  BY IInvConsistent DEF IInv, TypeOK, KvTypeOK
<1>2. KvConsistent(Evicted(kv, s)) /\ Evicted(kv, s).table[s] = kv.table[s]
  BY <1>1, EvictedConsistent
<1>3. w.table[s].committed = kv.table[s].committed
  BY <1>1, <1>2 DEF KvWrite, Reserve, SetBlock, Record, KvConsistent, KvTypeOK
<1>4. /\ PageIndex(kv, s) \in Nat /\ Len(kv.table[s].committed) \in Nat
  BY <1>1, PoolAssumption, LenProperties, Division DEF PageIndex, Block
<1>5. PageIndex(kv, s) \in Indices(w, s)
  BY <1>3, <1>4 DEF WriteInOrder, OnNewPage, OnLastPage, Indices
<1>6. OpenPage(kv, s) = PageAt(w, s, PageIndex(kv, s))
  <2>1. CASE OnNewPage(kv, s)
    BY <1>3, <2>1 DEF OpenPage, PageAt, OnNewPage
  <2>2. CASE ~OnNewPage(kv, s)
    <3>1. w = kv /\ PageIndex(kv, s) # Len(kv.table[s].committed)
      BY <2>2 DEF KvWrite, NeedsPage, OnNewPage
    <3> QED
      BY <2>2, <3>1 DEF OpenPage, PageAt
  <2> QED
    BY <2>1, <2>2
<1>7. OpenPage(kv, s) \in Held(w, s) /\ Held(w, s) \subseteq Pages
  BY <1>1, OpenPageIsHeld, WriteConsistent, HeldArePages DEF KvConsistent
<1> QED
  BY <1>5, <1>6, <1>7 DEF NoPage, Pages

(* The table and the pages after a write, before the cell is stored.        *)
LEMMA ReserveContents ==
  ASSUME IInv, Contents(kv, cells), NEW s \in kv.open, NeedsPage(kv, s), CanReserve(kv, s)
  PROVE  Contents(Reserve(kv, s), Cleared(PagesOf(Victims(kv, s))))
<1> DEFINE e == Evicted(kv, s)
           d == Cleared(PagesOf(Victims(kv, s)))
           p == Lowest(e.free)
           w == Reserve(kv, s)
<1>1. KvConsistent(kv) /\ KvConsistent(e) /\ s \in e.open
  BY IInvConsistent, EvictedConsistent
<1>2. Contents(e, d)
  <2>1. Victims(kv, s) \in SUBSET Sequences
    BY <1>1 DEF Victims, Evictable, KvConsistent, KvTypeOK
  <2> QED
    BY <2>1, DropContents DEF Evicted
<1>3. p \in e.free /\ p \in Pages /\ e.free = kv.free \cup PagesOf(Victims(kv, s))
  <2>1. e.free # {} /\ e.free \in SUBSET Pages
    BY <1>1 DEF CanReserve, KvConsistent, KvTypeOK
  <2>2. e.free = kv.free \cup PagesOf(Victims(kv, s))
    BY DEF Evicted, Drop, PagesOf
  <2> QED
    BY <2>1, <2>2, LowestIsMember
<1>4. d[p] = ZeroPage
  BY <1>3 DEF Cleared, IInv, FreePagesZeroed
<1>5. /\ w.open = e.open
      /\ \A t \in w.open : /\ t # s => w.table[t] = e.table[t]
                           /\ w.table[t].committed = e.table[t].committed
      /\ w.table[s].pending = p
  BY <1>1 DEF Reserve, SetBlock, Record, KvConsistent, KvTypeOK
<1> HIDE DEF e, d, p, w
<1>6. ASSUME NEW t \in w.open, NEW i \in Indices(w, t)
      PROVE  \/ d[PageAt(w, t, i)] = ZeroPage
             \/ t \in e.open /\ i \in Indices(e, t) /\ PageAt(e, t, i) = PageAt(w, t, i)
  <2>1. CASE t = s /\ i = Len(w.table[s].committed)
    BY <1>4, <1>5, <2>1 DEF PageAt
  <2>2. CASE ~(t = s /\ i = Len(w.table[s].committed))
    BY <1>5, <2>2 DEF PageAt, Indices
  <2> QED
    BY <2>1, <2>2
<1>7. Contents(w, d)
  BY <1>2, <1>6, KeepsContents
<1> QED
  BY <1>7 DEF w, d

LEMMA StoreValue ==
  ASSUME NEW A, NEW B, NEW C, NEW T, NEW f \in [A -> [B -> [C -> T]]],
         NEW a, NEW b, NEW c, NEW v,
         NEW x \in A, NEW y \in B, NEW z \in C
  PROVE  [f EXCEPT ![a][b][c] = v][x][y][z] =
           IF x = a /\ y = b /\ z = c THEN v ELSE f[x][y][z]
<1>1. CASE x # a
  BY <1>1
<1>2. CASE x = a
  <2>1. [f EXCEPT ![a][b][c] = v][x] = [f[a] EXCEPT ![b][c] = v]
    BY <1>2
  <2>2. f[a] \in [B -> [C -> T]]
    BY <1>2
  <2>3. [f[a] EXCEPT ![b][c] = v][y] = IF y = b THEN [f[a][b] EXCEPT ![c] = v] ELSE f[a][y]
    BY <2>2
  <2>4. f[a][y] \in [C -> T]
    BY <2>2
  <2> QED
    BY <1>2, <2>1, <2>3, <2>4
<1> QED
  BY <1>1, <1>2

LEMMA WriteContents ==
  ASSUME IInv, Contents(kv, cells), NEW s \in Sequences, NEW layer \in Layers,
         Write(s, layer)
  PROVE  Contents(kv', cells')
<1> DEFINE S == PagesOf(IF NeedsPage(kv, s) THEN Victims(kv, s) ELSE {})
           o == OpenPage(kv, s)
           n == kv.table[s].len
           x == PageIndex(kv, s)
           d == Cleared(S)
<1>1. /\ KvConsistent(kv) /\ s \in kv.open
      /\ WriteFits(kv, s) /\ WriteInOrder(kv, s)
      /\ kv' = KvWrite(kv, s)
      /\ cells' = [d EXCEPT ![o][layer][n % BlockSize] = <<s, n>>]
  BY IInvConsistent DEF Write
<1>2. KvConsistent(kv')
  BY <1>1, WriteConsistent
<1>3. Contents(kv', d)
  <2>1. CASE NeedsPage(kv, s)
    BY <1>1, <2>1, ReserveContents DEF KvWrite, WriteFits
  <2>2. CASE ~NeedsPage(kv, s)
    <3>1. d = cells
      <4>1. S = {}
        BY <2>2 DEF PagesOf
      <4>2. DOMAIN cells = Pages /\ cells = [p \in Pages |-> cells[p]]
        BY DEF IInv, TypeOK
      <4> QED
        BY <4>1, <4>2 DEF Cleared
    <3> QED
      BY <1>1, <2>2, <3>1 DEF KvWrite
  <2> QED
    BY <2>1, <2>2
<1>4. d \in [Pages -> [Layers -> [Slots -> {Zero} \cup (Sequences \X (0 .. MaxLen))]]]
  BY ClearedTyped DEF IInv, TypeOK
<1>5. x \in Indices(kv', s) /\ o = PageAt(kv', s, x) /\ o # NoPage
  BY <1>1, OpenPageAt
<1>6. n \in Nat /\ n = BlockSize * x + (n % BlockSize) /\ x \in Nat
  BY <1>1, PoolAssumption, Division DEF IInv, TypeOK, KvTypeOK, Block, PageIndex
<1> HIDE DEF S, o, n, x, d
<1>7. ASSUME NEW t \in kv'.open, NEW i \in Indices(kv', t), PageAt(kv', t, i) # NoPage,
             NEW l \in Layers, NEW j \in Slots
      PROVE  cells'[PageAt(kv', t, i)][l][j] \in {Zero, <<t, i * BlockSize + j>>}
  <2> DEFINE p == PageAt(kv', t, i)
  <2>1. t \in Sequences /\ p \in Held(kv', t) /\ p \in Pages
    BY <1>2, <1>7, PageAtHeld, HeldArePages DEF KvConsistent, KvTypeOK
  <2>2. d[p][l][j] \in {Zero, <<t, i * BlockSize + j>>}
    BY <1>3, <1>7 DEF Contents, Owned
  <2>3. cells'[p][l][j] =
          IF p = o /\ l = layer /\ j = n % BlockSize THEN <<s, n>> ELSE d[p][l][j]
    <3> HIDE DEF p
    <3> QED
      BY <1>1, <1>4, <2>1, StoreValue
  <2>4. CASE p = o
    <3>1. o \in Held(kv', s)
      BY <1>2, <1>5, PageAtHeld DEF KvConsistent
    <3>2. t = s
      BY <1>2, <2>1, <2>4, <3>1 DEF KvConsistent, KvNoSharing
    <3>3. i = x
      BY <1>2, <1>5, <1>7, <2>4, <3>2, PageAtInjective
    <3>4. j = n % BlockSize => <<s, n>> = <<t, i * BlockSize + j>>
      BY <1>6, <3>2, <3>3, PoolAssumption
    <3> QED
      BY <2>2, <2>3, <3>4
  <2>5. CASE p # o
    BY <2>2, <2>3, <2>5
  <2> QED
    BY <2>4, <2>5
<1> QED
  BY <1>7 DEF Contents, Owned

LEMMA ContentsStep ==
  ASSUME IInv, Contents(kv, cells), [Next]_vars
  PROVE  Contents(kv', cells')
<1>1. KvConsistent(kv) /\ KvTypeOK(kv)
  BY IInvConsistent DEF KvConsistent
<1>2. CASE UNCHANGED vars
  BY <1>2 DEF vars
<1>3. CASE Invalidate
  <2>1. kv' = KvEmpty
    BY <1>1, <1>3, InvalidateConsistent DEF Invalidate
  <2> QED
    BY <2>1 DEF KvEmpty, Contents
<1>4. ASSUME NEW s \in Sequences, BeginSequence(s) PROVE Contents(kv', cells')
  <2>1. /\ kv'.open = kv.open \cup {s} /\ cells' = cells
        /\ kv'.table[s] = Record(<< >>, NoPage, 0, TRUE)
        /\ \A t \in kv.open : t # s => kv'.table[t] = kv.table[t]
    BY <1>1, <1>4 DEF BeginSequence, KvBegin, KvTypeOK
  <2>2. ASSUME NEW t \in kv'.open, NEW i \in Indices(kv', t)
        PROVE  \/ PageAt(kv', t, i) = NoPage
               \/ t \in kv.open /\ i \in Indices(kv, t) /\ PageAt(kv, t, i) = PageAt(kv', t, i)
    BY <2>1 DEF Indices, PageAt, Record
  <2> QED
    BY <2>1, <2>2, KeepsContents
<1>5. ASSUME NEW s \in Sequences, ReleaseSequence(s) PROVE Contents(kv', cells')
  <2>1. PagesOf({s}) = Held(kv, s)
    BY DEF PagesOf
  <2> QED
    BY <1>5, <2>1, DropContents DEF ReleaseSequence, KvRelease
<1>6. ASSUME NEW s \in Sequences, Deactivate(s) PROVE Contents(kv', cells')
  <2>1. /\ kv'.open = kv.open /\ cells' = cells
        /\ \A t \in kv.open : /\ kv'.table[t].committed = kv.table[t].committed
                              /\ kv'.table[t].pending = kv.table[t].pending
    BY <1>1, <1>6 DEF Deactivate, KvDeactivate, SetBlock, Record, KvTypeOK
  <2> QED
    BY <2>1, SameContents
<1>7. ASSUME NEW s \in Sequences, AbortPending(s) PROVE Contents(kv', cells')
  <2> DEFINE q == kv.table[s].pending
  <2>1. /\ kv'.open = kv.open /\ cells' = Cleared({q}) /\ s \in kv.open
        /\ \A t \in kv.open : /\ kv'.table[t].committed = kv.table[t].committed
                              /\ t # s => kv'.table[t] = kv.table[t]
        /\ kv'.table[s].pending = NoPage
    BY <1>1, <1>7 DEF AbortPending, KvAbort, SetBlock, Record, KvTypeOK
  <2>2. \A p \in Pages : cells'[p] = ZeroPage \/ cells'[p] = cells[p]
    BY <2>1 DEF Cleared
  <2> HIDE DEF q
  <2>3. ASSUME NEW t \in kv'.open, NEW i \in Indices(kv', t), PageAt(kv', t, i) # NoPage
        PROVE  /\ t \in kv.open /\ i \in Indices(kv, t) /\ PageAt(kv, t, i) = PageAt(kv', t, i)
               /\ PageAt(kv', t, i) \in Pages
    <3>1. t \in kv.open /\ i \in Indices(kv, t) /\ PageAt(kv, t, i) = PageAt(kv', t, i)
      BY <2>1, <2>3 DEF Indices, PageAt
    <3> QED
      BY <1>1, <2>3, <3>1, PageAtHeld, HeldArePages DEF KvTypeOK
  <2> QED
    BY <2>2, <2>3, KeepsContents
<1>8. ASSUME NEW s \in Sequences, CommitToken(s) PROVE Contents(kv', cells')
  <2> DEFINE c == kv.table[s]
             pages == IF AtBoundary(kv, s) THEN Append(c.committed, c.pending)
                      ELSE c.committed
  <2>1. /\ kv'.open = kv.open /\ cells' = cells /\ s \in kv.open
        /\ \A t \in kv.open : t # s => kv'.table[t] = kv.table[t]
        /\ kv'.table[s].committed = pages
        /\ kv'.table[s].pending = NoPage
    BY <1>1, <1>8 DEF CommitToken, KvCommit, SetBlock, Record, KvTypeOK
  <2>2. c.committed \in Seq(Pages) /\ Len(c.committed) \in Nat
    BY <1>1, LenProperties DEF KvTypeOK, Block
  <2>3. \/ pages = c.committed
        \/ /\ Len(pages) = Len(c.committed) + 1
           /\ \A i \in 1 .. Len(c.committed) : pages[i] = c.committed[i]
           /\ pages[Len(c.committed) + 1] = c.pending
    BY <2>2
  <2> HIDE DEF pages, c
  <2>4. ASSUME NEW t \in kv'.open, NEW i \in Indices(kv', t)
        PROVE  \/ PageAt(kv', t, i) = NoPage
               \/ t \in kv.open /\ i \in Indices(kv, t) /\ PageAt(kv, t, i) = PageAt(kv', t, i)
    <3>1. CASE t # s
      BY <2>1, <3>1 DEF Indices, PageAt
    <3>2. CASE t = s
      <4>0. i \in 0 .. Len(pages) /\ s \in kv.open
        BY <2>1, <3>2 DEF Indices
      <4>1. CASE i = Len(pages)
        BY <2>1, <3>2, <4>1 DEF PageAt
      <4>2. CASE i # Len(pages) /\ pages = c.committed
        BY <2>1, <3>2, <4>0, <4>2 DEF PageAt, Indices, c
      <4>3. CASE /\ i # Len(pages) /\ Len(pages) = Len(c.committed) + 1
                 /\ \A n \in 1 .. Len(c.committed) : pages[n] = c.committed[n]
                 /\ pages[Len(c.committed) + 1] = c.pending
        <5>1. i \in 0 .. Len(c.committed) /\ PageAt(kv', s, i) = pages[i + 1]
          BY <2>1, <2>2, <4>0, <4>3 DEF PageAt
        <5>2. pages[i + 1] = IF i = Len(c.committed) THEN c.pending
                             ELSE c.committed[i + 1]
          <6>1. CASE i = Len(c.committed)
            BY <4>3, <6>1
          <6>2. CASE i # Len(c.committed)
            <7>1. i + 1 \in 1 .. Len(c.committed)
              BY <2>2, <5>1, <6>2
            <7> QED
              BY <4>3, <6>2, <7>1
          <6> QED
            BY <6>1, <6>2
        <5> QED
          BY <3>2, <4>0, <5>1, <5>2 DEF PageAt, Indices, c
      <4> QED
        BY <2>3, <4>1, <4>2, <4>3
    <3> QED
      BY <3>1, <3>2
  <2> QED
    BY <2>1, <2>4, KeepsContents
<1>9. ASSUME NEW s \in Sequences, WriteExhausted(s) PROVE Contents(kv', cells')
  <2>1. Victims(kv, s) \in SUBSET Sequences
    BY <1>1 DEF Victims, Evictable, KvTypeOK
  <2>2. kv' = Drop(kv, Victims(kv, s)) /\ cells' = Cleared(PagesOf(Victims(kv, s)))
    BY <1>9 DEF WriteExhausted, WriteFits, KvWrite, Evicted
  <2> QED
    BY <2>1, <2>2, DropContents
<1> QED
  BY <1>2, <1>3, <1>4, <1>5, <1>6, <1>7, <1>8, <1>9, WriteContents DEF Next

(* A reader of a token finds what its own sequence wrote for that token, or *)
(* zero: never another sequence's vector, whatever was evicted, aborted and *)
(* handed out again (page_for_read).                                        *)
THEOREM ReadersFindTheirOwn == Spec => []ReadsOwnTokens
<1> DEFINE I == Contents(kv, cells)
<1>1. Init => I
  BY DEF Init, Contents, KvEmpty
<1>2. IInv /\ I /\ [Next]_vars => I'
  <2> SUFFICES ASSUME IInv, Contents(kv, cells), [Next]_vars PROVE I'
    OBVIOUS
  <2>1. Contents(kv', cells')
    BY ContentsStep
  <2> QED
    BY <2>1 DEF Contents, Owned, PageAt, Indices
<1>3. IInv /\ KvTableMatchesLength(kv) /\ I => ReadsOwnTokens
  <2> SUFFICES ASSUME IInv, Contents(kv, cells), NEW s \in kv.open,
                      NEW t \in 0 .. kv.table[s].len, NEW layer \in Layers,
                      ReadPage(kv, s, t) # NoPage
               PROVE  cells[ReadPage(kv, s, t)][layer][t % BlockSize] \in {Zero, <<s, t>>}
    BY DEF ReadsOwnTokens
  <2> DEFINE i == t \div BlockSize
             j == t % BlockSize
  <2>1. kv.table[s].len \in Nat /\ Len(kv.table[s].committed) \in Nat
    BY LenProperties DEF IInv, TypeOK, KvTypeOK, Block
  <2>2. /\ t \in Nat /\ i \in Nat /\ j \in Slots
        /\ t = BlockSize * i + j
    <3>1. t \in Nat /\ BlockSize \in Nat \ {0}
      BY <2>1, PoolAssumption
    <3> QED
      BY <3>1, Division DEF Slots
  <2> HIDE DEF j
  <2>3. i \in Indices(kv, s) /\ ReadPage(kv, s, t) = PageAt(kv, s, i)
    BY <2>1, <2>2 DEF ReadPage, Indices, PageAt
  <2>4. cells[PageAt(kv, s, i)][layer][j] \in {Zero, <<s, i * BlockSize + j>>}
    BY <2>2, <2>3 DEF Contents, Owned
  <2>5. i * BlockSize + j = t
    <3> HIDE DEF i
    <3> QED
      BY <2>2, PoolAssumption DEF Slots
  <2> QED
    BY <2>3, <2>4, <2>5 DEF j
<1> QED
  BY <1>1, <1>2, <1>3, PoolInvariant, LengthsInvariant, PTL DEF Spec

-----------------------------------------------------------------------------
(* Which steps take pages away.                                             *)

LEMMA HeldAfterDrop ==
  ASSUME KvTypeOK(kv), NEW S \in SUBSET Sequences, NEW t \in Sequences \ S
  PROVE  Held(Drop(kv, S), t) = Held(kv, t)
BY DEF Drop, Held

LEMMA HeldAfterSet ==
  ASSUME NEW k, KvTypeOK(k), NEW s \in Sequences, NEW b, NEW free,
         NEW t \in Sequences
  PROVE  /\ t # s => Held(SetBlock(k, s, b, free), t) = Held(k, t)
         /\ Held(SetBlock(k, s, b, free), s) = Range(b.committed) \cup ({b.pending} \ {NoPage})
BY DEF SetBlock, Held, KvTypeOK

LEMMA HeldAfterWrite ==
  ASSUME IInv, NEW s \in kv.open, NEW t \in kv.open, t = s \/ kv.table[t].active
  PROVE  Held(kv, t) \subseteq Held(KvWrite(kv, s), t)
<1> DEFINE e == Evicted(kv, s)
           c == e.table[s]
           p == Lowest(e.free)
           b == Record(c.committed, p, c.len, c.active)
<1>1. KvConsistent(kv) /\ KvTypeOK(kv) /\ s \in Sequences /\ t \in Sequences
  BY IInvConsistent DEF KvConsistent, KvTypeOK
<1>2. Victims(kv, s) \in SUBSET Sequences /\ t \notin Victims(kv, s)
  BY <1>1 DEF Victims, Evictable, KvTypeOK
<1>3. Held(e, t) = Held(kv, t)
  BY <1>1, <1>2, HeldAfterDrop DEF Evicted
<1>4. KvTypeOK(e) /\ c = kv.table[s]
  BY <1>1, EvictedConsistent DEF KvConsistent
<1>5. CASE NeedsPage(kv, s) /\ CanReserve(kv, s)
  <2>1. KvWrite(kv, s) = SetBlock(e, s, b, e.free \ {p})
    BY <1>5 DEF KvWrite, Reserve
  <2>2. b.committed = kv.table[s].committed /\ kv.table[s].pending = NoPage
    BY <1>4, <1>5 DEF Record, NeedsPage
  <2> HIDE DEF b, e
  <2>3. CASE t = s
    <3>1. Held(KvWrite(kv, s), s) = Range(b.committed) \cup ({b.pending} \ {NoPage})
      BY <1>1, <1>4, <2>1, HeldAfterSet
    <3>2. Held(kv, s) = Range(b.committed)
      BY <2>2 DEF Held
    <3> QED
      BY <2>3, <3>1, <3>2
  <2>4. CASE t # s
    BY <1>1, <1>3, <1>4, <2>1, <2>4, HeldAfterSet
  <2> QED
    BY <2>3, <2>4
<1>6. CASE ~(NeedsPage(kv, s) /\ CanReserve(kv, s))
  BY <1>3, <1>6 DEF KvWrite
<1> QED
  BY <1>5, <1>6

LEMMA ActiveStep ==
  ASSUME IInv, [Next]_vars, NEW s \in kv.open, kv.table[s].active,
         ~(Held(kv, s) \subseteq Held(kv', s))
  PROVE  ReleaseSequence(s) \/ AbortPending(s) \/ Invalidate
<1>1. KvConsistent(kv) /\ KvTypeOK(kv) /\ s \in Sequences
  BY IInvConsistent DEF KvConsistent, KvTypeOK
<1>2. CASE UNCHANGED vars
  BY <1>2 DEF vars
<1>4. ASSUME NEW t \in Sequences, BeginSequence(t) PROVE FALSE
  <2>1. t # s /\ kv'.table[s] = kv.table[s]
    BY <1>1, <1>4 DEF BeginSequence, KvBegin, KvTypeOK
  <2> QED
    BY <2>1 DEF Held
<1>5. ASSUME NEW t \in Sequences, ReleaseSequence(t), t # s PROVE FALSE
  BY <1>1, <1>5, HeldAfterDrop DEF ReleaseSequence, KvRelease
<1>6. ASSUME NEW t \in Sequences, Deactivate(t) PROVE FALSE
  <2> DEFINE c == kv.table[t]
             b == Record(c.committed, c.pending, c.len, FALSE)
  <2>1. kv' = SetBlock(kv, t, b, kv.free)
    BY <1>6 DEF Deactivate, KvDeactivate
  <2>2. b.committed = c.committed /\ b.pending = c.pending
    BY DEF Record
  <2> HIDE DEF b
  <2>3. Held(kv', t) = Range(b.committed) \cup ({b.pending} \ {NoPage})
    BY <1>1, <2>1, HeldAfterSet
  <2>4. Held(kv', t) = Held(kv, t)
    BY <2>2, <2>3 DEF Held
  <2>5. t # s => Held(kv', s) = Held(kv, s)
    BY <1>1, <2>1, HeldAfterSet
  <2> QED
    BY <2>4, <2>5
<1>7. ASSUME NEW t \in Sequences, AbortPending(t), t # s PROVE FALSE
  <2>1. kv'.table[s] = kv.table[s]
    BY <1>1, <1>7 DEF AbortPending, KvAbort, SetBlock, KvTypeOK
  <2> QED
    BY <2>1 DEF Held
<1>8. ASSUME NEW t \in Sequences, CommitToken(t) PROVE FALSE
  <2> DEFINE c == kv.table[t]
             pages == IF AtBoundary(kv, t) THEN Append(c.committed, c.pending)
                      ELSE c.committed
             b == Record(pages, NoPage, c.len + 1, c.active)
  <2>1. /\ kv' = SetBlock(kv, t, b, kv.free) /\ t \in kv.open
        /\ CommitAccepted(kv, t)
    BY <1>8 DEF CommitToken, KvCommit
  <2>2. /\ c.committed \in Seq(Pages) /\ c.pending \in Pages \cup {NoPage}
        /\ IsInjective(c.committed) /\ c.pending \notin Range(c.committed)
    BY <1>1 DEF KvTypeOK, Block, KvConsistent, KvNoSharing
  <2>3. Range(pages) = Range(c.committed) \cup ({c.pending} \ {NoPage})
    <3>1. CASE AtBoundary(kv, t)
      BY <2>1, <2>2, <3>1, AppendPage DEF CommitAccepted
    <3>2. CASE ~AtBoundary(kv, t)
      BY <2>1, <3>2 DEF CommitAccepted
    <3> QED
      BY <3>1, <3>2
  <2>4. b.committed = pages
    BY DEF Record
  <2> HIDE DEF b, pages
  <2>5. Held(kv', t) = Range(b.committed) \cup ({b.pending} \ {NoPage})
    BY <1>1, <2>1, HeldAfterSet
  <2>6. Held(kv, t) \subseteq Held(kv', t)
    BY <2>3, <2>4, <2>5 DEF Held
  <2>7. t # s => Held(kv', s) = Held(kv, s)
    BY <1>1, <2>1, HeldAfterSet
  <2> QED
    BY <2>6, <2>7
<1>9. ASSUME NEW t \in Sequences,
             WriteExhausted(t) \/ \E layer \in Layers : Write(t, layer)
      PROVE  FALSE
  BY <1>9, HeldAfterWrite DEF WriteExhausted, Write
<1> QED
  BY <1>2, <1>4, <1>5, <1>6, <1>7, <1>8, <1>9 DEF Next

(* An active sequence keeps its pages whatever other clients do, evictions  *)
(* for their writes included (reserve of paged.rs).                         *)
THEOREM ActiveSequencesKeepPages == Spec => ActiveKeepsPages
<1>1. IInv /\ [Next]_vars =>
        [\A s \in kv.open :
           (kv.table[s].active /\ ~(Held(kv, s) \subseteq Held(kv', s))) =>
              ReleaseSequence(s) \/ AbortPending(s) \/ Invalidate]_vars
  BY ActiveStep
<1> QED
  BY <1>1, PoolInvariant, PTL DEF Spec, ActiveKeepsPages

LEMMA FirstWithPages ==
  ASSUME NEW k, KvConsistent(k), NEW s \in k.open, k.free = {},
         NEW t \in Evictable(k, s), Held(k, t) # {}
  PROVE  \E v \in Victims(k, s) : Held(k, v) # {}
<1> DEFINE R == OpToRel(<, Nat)
           S == {u \in Evictable(k, s) : Held(k, u) # {}}
<1>1. S \in SUBSET Nat /\ S # {} /\ Evictable(k, s) \subseteq Nat
  BY PoolAssumption DEF KvConsistent, KvTypeOK, Evictable
<1>2. IsWellFoundedOn(R, Nat)
  BY NatLessThanWellFounded
<1>3. \A a, b \in Nat : a < b => <<a, b>> \in R
  BY DEF OpToRel
<1> HIDE DEF R
<1>4. PICK v \in S : \A u \in S : ~ (<<u, v>> \in R)
  BY <1>1, <1>2, WFMin
<1>5. \A u \in S : ~ (u < v)
  BY <1>1, <1>3, <1>4, Zenon
<1>6. v \in Victims(k, s)
  BY <1>5 DEF Victims
<1> QED
  BY <1>6

LEMMA ExhaustedIsPinned ==
  ASSUME IInv, NEW s \in Sequences, WriteExhausted(s)
  PROVE  Pages = UNION {Held(kv', t) : t \in {u \in kv'.open : u = s \/ kv'.table[u].active}}
<1> DEFINE e == Evicted(kv, s)
<1>1. KvConsistent(kv) /\ KvTypeOK(kv) /\ s \in kv.open /\ KvConsistent(e) /\ KvTypeOK(e)
  BY IInvConsistent, EvictedConsistent DEF WriteExhausted, KvConsistent
<1>2. kv' = e /\ e.free = {}
  BY DEF WriteExhausted, WriteFits, KvWrite, CanReserve
<1>3. /\ e.free = kv.free \cup UNION {Held(kv, t) : t \in Victims(kv, s)}
      /\ e.open = kv.open \ Victims(kv, s)
      /\ \A t \in e.open : e.table[t] = kv.table[t] /\ t \in Sequences
  BY <1>1 DEF Evicted, Drop, KvTypeOK
<1>4. kv.free = {} /\ \A t \in Victims(kv, s) : Held(kv, t) = {}
  BY <1>2, <1>3
<1>5. \A t \in Evictable(kv, s) : Held(kv, t) = {}
  BY <1>1, <1>4, FirstWithPages
<1> HIDE DEF e
<1>6. ASSUME NEW t \in e.open, Held(e, t) # {}
      PROVE  t = s \/ e.table[t].active
  BY <1>3, <1>5, <1>6 DEF Held, Evictable
<1>7. Pages \subseteq UNION {Held(e, t) : t \in e.open}
  BY <1>1, <1>2 DEF KvConsistent, KvNoLeak
<1>8. \A t \in e.open : Held(e, t) \subseteq Pages
  BY <1>1, <1>3, HeldArePages
<1> QED
  BY <1>2, <1>6, <1>7, <1>8

(* A writer is refused only when every page is its own or an active         *)
(* sequence's: reserve has evicted all there was to evict.                  *)
THEOREM RefusalMeansPinned == Spec => ExhaustedMeansPinned
<1>1. IInv /\ [Next]_vars =>
        [\A s \in Sequences :
           WriteExhausted(s) =>
             Pages = UNION {Held(kv', t) : t \in {u \in kv'.open :
                                          u = s \/ kv'.table[u].active}}]_vars
  BY ExhaustedIsPinned
<1> QED
  BY <1>1, PoolInvariant, PTL DEF Spec, ExhaustedMeansPinned
-----------------------------------------------------------------------------
(* The paged store is a store of contiguous memories (KvStore). What a      *)
(* reader would find, for any pool k and contents c, and how it moves.      *)

Seen(k, c, s, t, layer) ==
  IF s \in k.open /\ ReadPage(k, s, t) # NoPage
  THEN c[ReadPage(k, s, t)][layer][t % BlockSize]
  ELSE Zero

(* The page of token t is the one at its place in the table, if there.      *)
LEMMA ReadPageAt ==
  ASSUME NEW k, KvTypeOK(k), NEW s \in Sequences, NEW t \in Nat
  PROVE  /\ t \div BlockSize \in Nat
         /\ t \div BlockSize \in Indices(k, s) =>
              ReadPage(k, s, t) = PageAt(k, s, t \div BlockSize)
         /\ t \div BlockSize \notin Indices(k, s) => ReadPage(k, s, t) = NoPage
<1>1. Len(k.table[s].committed) \in Nat
  BY LenProperties DEF KvTypeOK, Block
<1>2. t \div BlockSize \in Nat
  BY PoolAssumption, Division
<1> DEFINE i == t \div BlockSize
<1>3. ReadPage(k, s, t) = IF i = Len(k.table[s].committed) THEN k.table[s].pending
                          ELSE IF i < Len(k.table[s].committed)
                               THEN k.table[s].committed[i + 1] ELSE NoPage
  BY DEF ReadPage
<1> HIDE DEF i
<1>4. i \in Indices(k, s) <=> i <= Len(k.table[s].committed)
  BY <1>1, <1>2 DEF Indices, i
<1>5. i \in Indices(k, s) => ReadPage(k, s, t) = PageAt(k, s, i)
  BY <1>1, <1>2, <1>3, <1>4 DEF PageAt, i
<1>6. i \notin Indices(k, s) => ReadPage(k, s, t) = NoPage
  BY <1>1, <1>2, <1>3, <1>4 DEF i
<1> QED
  BY <1>2, <1>5, <1>6 DEF i

LEMMA ReadPageHeld ==
  ASSUME NEW k, KvConsistent(k), NEW s \in Sequences, NEW t \in Nat,
         ReadPage(k, s, t) # NoPage
  PROVE  ReadPage(k, s, t) \in Held(k, s) /\ ReadPage(k, s, t) \in Pages
<1>1. KvTypeOK(k)
  BY DEF KvConsistent
<1>2. /\ t \div BlockSize \in Indices(k, s)
      /\ ReadPage(k, s, t) = PageAt(k, s, t \div BlockSize)
  BY <1>1, ReadPageAt
<1> QED
  BY <1>1, <1>2, PageAtHeld, HeldArePages

(* The same table means the same pages.                                     *)
LEMMA ReadPageOfTable ==
  ASSUME NEW k, NEW l, NEW s, NEW t,
         l.table[s].committed = k.table[s].committed,
         l.table[s].pending = k.table[s].pending
  PROVE  ReadPage(l, s, t) = ReadPage(k, s, t)
BY DEF ReadPage

(* Dropped sequences read as zero; the others keep what they had.           *)
LEMMA SeenAfterDrop ==
  ASSUME IInv, NEW S \in SUBSET Sequences,
         NEW s \in Sequences, NEW t \in Tokens, NEW layer \in Layers
  PROVE  Seen(Drop(kv, S), Cleared(PagesOf(S)), s, t, layer) =
           IF s \in S THEN Zero ELSE Seen(kv, cells, s, t, layer)
<1> DEFINE l == Drop(kv, S)
           d == Cleared(PagesOf(S))
<1>1. KvConsistent(kv) /\ t \in Nat
  BY IInvConsistent, LengthAssumption DEF Tokens
<1>2. l.open = kv.open \ S /\ (s \notin S => l.table[s] = kv.table[s])
  BY DEF Drop
<1>3. \A p \in Pages : p \notin PagesOf(S) => d[p] = cells[p]
  BY DEF Cleared
<1> HIDE DEF l, d
<1>4. s \in S \/ s \notin kv.open => Seen(l, d, s, t, layer) = Zero
  BY <1>2 DEF Seen
<1>5. s \notin kv.open => Seen(kv, cells, s, t, layer) = Zero
  BY DEF Seen
<1>6. ASSUME s \notin S, s \in kv.open
      PROVE  Seen(l, d, s, t, layer) = Seen(kv, cells, s, t, layer)
  <2>1. ReadPage(l, s, t) = ReadPage(kv, s, t) /\ s \in l.open
    BY <1>2, <1>6, ReadPageOfTable
  <2>2. ASSUME ReadPage(kv, s, t) # NoPage
        PROVE  d[ReadPage(kv, s, t)] = cells[ReadPage(kv, s, t)]
    <3>1. ReadPage(kv, s, t) \in Held(kv, s) /\ ReadPage(kv, s, t) \in Pages
      BY <1>1, <2>2, ReadPageHeld
    <3>2. ReadPage(kv, s, t) \notin PagesOf(S)
      BY <1>1, <1>6, <3>1 DEF PagesOf, KvConsistent, KvNoSharing
    <3> QED
      BY <1>3, <3>1, <3>2
  <2> QED
    BY <1>6, <2>1, <2>2 DEF Seen
<1>7. Seen(l, d, s, t, layer) = IF s \in S THEN Zero ELSE Seen(kv, cells, s, t, layer)
  BY <1>4, <1>5, <1>6
<1> QED
  BY <1>7 DEF l, d

(* A reserved page is clear, so reserving it shows its owner nothing new.   *)
LEMMA SeenAfterReserve ==
  ASSUME IInv, NEW s \in kv.open, NeedsPage(kv, s), CanReserve(kv, s),
         NEW u \in Sequences, NEW t \in Tokens, NEW layer \in Layers
  PROVE  Seen(Reserve(kv, s), Cleared(PagesOf(Victims(kv, s))), u, t, layer) =
           IF u \in Victims(kv, s) THEN Zero ELSE Seen(kv, cells, u, t, layer)
<1> DEFINE V == Victims(kv, s)
           e == Evicted(kv, s)
           d == Cleared(PagesOf(V))
           p == Lowest(e.free)
           w == Reserve(kv, s)
<1>1. KvConsistent(kv) /\ KvConsistent(e) /\ s \in e.open /\ t \in Nat
  BY IInvConsistent, EvictedConsistent, LengthAssumption DEF Tokens
<1>2. V \in SUBSET Sequences /\ s \notin V /\ s \in Sequences
  BY <1>1 DEF Victims, Evictable, KvConsistent, KvTypeOK
<1>3. Seen(e, d, u, t, layer) = IF u \in V THEN Zero ELSE Seen(kv, cells, u, t, layer)
  BY <1>2, SeenAfterDrop DEF Evicted
<1>4. p \in e.free /\ p \in Pages /\ e.free = kv.free \cup PagesOf(V)
  <2>1. e.free # {} /\ e.free \in SUBSET Pages
    BY <1>1 DEF CanReserve, KvConsistent, KvTypeOK
  <2>2. e.free = kv.free \cup PagesOf(V)
    BY DEF Evicted, Drop, PagesOf
  <2> QED
    BY <2>1, <2>2, LowestIsMember
<1>5. d[p] = ZeroPage
  BY <1>4 DEF Cleared, IInv, FreePagesZeroed
<1>6. e.table[s].pending = NoPage
  BY <1>1, EvictedConsistent DEF NeedsPage
<1>7. /\ w.open = e.open
      /\ \A x \in Sequences : x # s => w.table[x] = e.table[x]
      /\ w.table[s].committed = e.table[s].committed
      /\ w.table[s].pending = p
  BY <1>1, <1>2 DEF Reserve, SetBlock, Record, KvConsistent, KvTypeOK
<1> HIDE DEF e, d, p, w, V
<1>8. Seen(w, d, u, t, layer) = Seen(e, d, u, t, layer)
  <2>1. CASE u # s
    <3>1. ReadPage(w, u, t) = ReadPage(e, u, t)
      BY <1>7, <2>1, ReadPageOfTable
    <3> QED
      BY <1>7, <3>1 DEF Seen
  <2>2. CASE u = s
    <3>1. CASE t \div BlockSize = Len(w.table[s].committed)
      <4>1. ReadPage(w, s, t) = p /\ ReadPage(e, s, t) = NoPage
        BY <1>6, <1>7, <3>1 DEF ReadPage
      <4>2. t % BlockSize \in Slots
        BY <1>1, PoolAssumption, Division DEF Slots
      <4>3. d[p][layer][t % BlockSize] = Zero
        BY <1>5, <4>2 DEF ZeroPage
      <4> QED
        BY <2>2, <4>1, <4>3 DEF Seen
    <3>2. CASE t \div BlockSize # Len(w.table[s].committed)
      <4>1. ReadPage(w, s, t) = ReadPage(e, s, t)
        BY <1>7, <3>2 DEF ReadPage
      <4> QED
        BY <1>7, <2>2, <4>1 DEF Seen
    <3> QED
      BY <3>1, <3>2
  <2> QED
    BY <2>1, <2>2
<1> QED
  BY <1>3, <1>8 DEF V, d, w
Lost(s) == IF NeedsPage(kv, s) THEN Victims(kv, s) ELSE {}

LEMMA LostMayBeEvicted ==
  ASSUME IInv, NEW s \in Sequences
  PROVE  /\ Lost(s) \in SUBSET (kv.open \ (Actives \cup {s}))
         /\ Lost(s) \in SUBSET Sequences
BY DEF Lost, Victims, Evictable, Actives, IInv, TypeOK, KvTypeOK

(* The page and the contents of a write before the vector is stored.        *)
LEMMA SeenBeforeStore ==
  ASSUME IInv, NEW s \in kv.open, WriteFits(kv, s),
         NEW u \in Sequences, NEW t \in Tokens, NEW layer \in Layers
  PROVE  Seen(KvWrite(kv, s), Cleared(PagesOf(Lost(s))), u, t, layer) =
           IF u \in Lost(s) THEN Zero ELSE Seen(kv, cells, u, t, layer)
<1>1. CASE NeedsPage(kv, s)
  BY <1>1, SeenAfterReserve DEF Lost, KvWrite, WriteFits
<1>2. CASE ~NeedsPage(kv, s)
  <2>1. Lost(s) = {} /\ PagesOf({}) = {}
    BY <1>2 DEF Lost, PagesOf
  <2>2. cells = [p \in Pages |-> cells[p]]
    BY DEF IInv, TypeOK
  <2>3. Cleared({}) = cells
    BY <2>2 DEF Cleared
  <2>4. KvWrite(kv, s) = kv
    BY <1>2 DEF KvWrite
  <2> QED
    BY <2>1, <2>3, <2>4
<1> QED
  BY <1>1, <1>2

(* Only the cell of the open token changes: the page it lies on is in no    *)
(* other table and at no other place of this one.                           *)
LEMMA SeenAfterWrite ==
  ASSUME IInv, NEW s \in Sequences, NEW layer \in Layers, Write(s, layer),
         NEW u \in Sequences, NEW t \in Tokens, NEW l \in Layers
  PROVE  Seen(kv', cells', u, t, l) =
           IF u \in Lost(s) THEN Zero
           ELSE IF u = s /\ t = kv.table[s].len /\ l = layer
                THEN <<s, kv.table[s].len>>
                ELSE Seen(kv, cells, u, t, l)
<1> DEFINE o == OpenPage(kv, s)
           n == kv.table[s].len
           x == PageIndex(kv, s)
           d == Cleared(PagesOf(Lost(s)))
           i == t \div BlockSize
           j == t % BlockSize
           p == ReadPage(kv', u, t)
<1>1. /\ KvConsistent(kv) /\ s \in kv.open
      /\ WriteFits(kv, s) /\ WriteInOrder(kv, s)
      /\ kv' = KvWrite(kv, s)
      /\ cells' = [d EXCEPT ![o][layer][n % BlockSize] = <<s, n>>]
  BY IInvConsistent DEF Write, Lost
<1>2. KvConsistent(kv') /\ KvTypeOK(kv')
  BY <1>1, WriteConsistent DEF KvConsistent
<1>3. Seen(kv', d, u, t, l) = IF u \in Lost(s) THEN Zero ELSE Seen(kv, cells, u, t, l)
  BY <1>1, SeenBeforeStore
<1>4. d \in [Pages -> [Layers -> [Slots -> {Zero} \cup (Sequences \X (0 .. MaxLen))]]]
  BY ClearedTyped DEF IInv, TypeOK
<1>5. x \in Indices(kv', s) /\ o = PageAt(kv', s, x) /\ o # NoPage
  BY <1>1, OpenPageAt
<1>6. n \in Nat /\ n = BlockSize * x + (n % BlockSize) /\ x \in Nat
  BY <1>1, PoolAssumption, Division DEF IInv, TypeOK, KvTypeOK, Block, PageIndex
<1>7. t \in Nat /\ t = BlockSize * i + j /\ i \in Nat /\ j \in Slots
  <2>1. t \in Nat /\ BlockSize \in Nat \ {0}
    BY LengthAssumption, PoolAssumption DEF Tokens
  <2> QED
    BY <2>1, Division DEF Slots
<1>8. t = n => i = x /\ j = n % BlockSize
  BY DEF PageIndex
<1>9. s \notin Lost(s)
  BY LostMayBeEvicted
<1>10. s \in kv'.open
  <2>1. CASE NeedsPage(kv, s)
    BY <1>1, <2>1, EvictedConsistent DEF KvWrite, WriteFits, Reserve, SetBlock
  <2> QED
    BY <1>1, <2>1 DEF KvWrite
<1>11. p = IF i \in Indices(kv', u) THEN PageAt(kv', u, i) ELSE NoPage
  BY <1>2, <1>7, ReadPageAt
<1> HIDE DEF o, n, x, d, i, j, p
<1>12. ASSUME p # NoPage, u \in kv'.open
       PROVE  cells'[p][l][j] =
                IF u = s /\ t = n /\ l = layer THEN <<s, n>> ELSE d[p][l][j]
  <2>1. p \in Held(kv', u) /\ p \in Pages
    BY <1>2, <1>7, <1>12, ReadPageHeld DEF p
  <2>2. cells'[p][l][j] =
          IF p = o /\ l = layer /\ j = n % BlockSize THEN <<s, n>> ELSE d[p][l][j]
    BY <1>1, <1>4, <1>7, <2>1, StoreValue
  <2>3. p = o /\ j = n % BlockSize => u = s /\ t = n
    <3> SUFFICES ASSUME p = o, j = n % BlockSize PROVE u = s /\ t = n
      OBVIOUS
    <3>1. o \in Held(kv', s)
      BY <1>2, <1>5, PageAtHeld DEF KvConsistent
    <3>2. u = s
      BY <1>2, <2>1, <3>1 DEF KvConsistent, KvNoSharing
    <3>3. i = x
      BY <1>2, <1>5, <1>11, <1>12, <3>2, PageAtInjective
    <3> QED
      BY <1>6, <1>7, <3>2, <3>3
  <2>4. u = s /\ t = n => p = o /\ j = n % BlockSize
    BY <1>5, <1>8, <1>11
  <2> QED
    BY <2>2, <2>3, <2>4
<1>13. Seen(kv', cells', u, t, l) =
         IF p # NoPage /\ u \in kv'.open THEN cells'[p][l][j] ELSE Zero
  BY DEF Seen, p, j
<1>14. Seen(kv', d, u, t, l) =
         IF p # NoPage /\ u \in kv'.open THEN d[p][l][j] ELSE Zero
  BY DEF Seen, p, j
<1>15. CASE u = s /\ t = n /\ l = layer
  <2>1. p # NoPage /\ u \in kv'.open
    BY <1>5, <1>8, <1>10, <1>11, <1>15
  <2>2. Seen(kv', cells', u, t, l) = <<s, n>>
    BY <1>12, <1>13, <1>15, <2>1
  <2> QED
    BY <1>9, <1>15, <2>2 DEF n
<1>16. CASE ~(u = s /\ t = n /\ l = layer)
  <2>1. Seen(kv', cells', u, t, l) = Seen(kv', d, u, t, l)
    BY <1>12, <1>13, <1>14, <1>16
  <2> QED
    BY <1>3, <1>16, <2>1 DEF n
<1> QED
  BY <1>15, <1>16


(* A commit moves the reserved page into the table, to the place where      *)
(* readers already looked for it.                                           *)
LEMMA SeenAfterCommit ==
  ASSUME IInv, NEW s \in Sequences, CommitToken(s),
         NEW u \in Sequences, NEW t \in Tokens, NEW layer \in Layers
  PROVE  Seen(kv', cells', u, t, layer) = Seen(kv, cells, u, t, layer)
<1> DEFINE c == kv.table[s]
           pages == IF AtBoundary(kv, s) THEN Append(c.committed, c.pending)
                    ELSE c.committed
           i == t \div BlockSize
<1>1. KvConsistent(kv) /\ KvTypeOK(kv) /\ t \in Nat
  BY IInvConsistent, LengthAssumption DEF KvConsistent, Tokens
<1>2. /\ kv'.open = kv.open /\ cells' = cells /\ s \in kv.open
      /\ \A x \in Sequences : x # s => kv'.table[x] = kv.table[x]
      /\ kv'.table[s].committed = pages
      /\ kv'.table[s].pending = NoPage
  BY <1>1 DEF CommitToken, KvCommit, SetBlock, Record, KvTypeOK
<1>3. c.committed \in Seq(Pages) /\ Len(c.committed) \in Nat
  BY <1>1, LenProperties DEF KvTypeOK, Block
<1>4. \/ pages = c.committed /\ c.pending = NoPage
      \/ /\ Len(pages) = Len(c.committed) + 1
         /\ \A n \in 1 .. Len(c.committed) : pages[n] = c.committed[n]
         /\ pages[Len(c.committed) + 1] = c.pending
  <2>1. CommitAccepted(kv, s)
    BY DEF CommitToken
  <2>2. CASE AtBoundary(kv, s)
    BY <1>3, <2>2
  <2>3. CASE ~AtBoundary(kv, s)
    BY <2>1, <2>3 DEF CommitAccepted
  <2> QED
    BY <2>2, <2>3
<1>5. i \in Nat
  BY <1>1, PoolAssumption, Division
<1>6. ReadPage(kv', s, t) = IF i = Len(pages) THEN NoPage
                            ELSE IF i < Len(pages) THEN pages[i + 1] ELSE NoPage
  BY <1>2 DEF ReadPage
<1>7. ReadPage(kv, s, t) = IF i = Len(c.committed) THEN c.pending
                           ELSE IF i < Len(c.committed) THEN c.committed[i + 1] ELSE NoPage
  BY DEF ReadPage
<1> HIDE DEF pages, c, i
<1>8. ReadPage(kv', s, t) = ReadPage(kv, s, t)
  <2>1. CASE pages = c.committed /\ c.pending = NoPage
    BY <1>6, <1>7, <2>1
  <2>2. CASE /\ Len(pages) = Len(c.committed) + 1
             /\ \A n \in 1 .. Len(c.committed) : pages[n] = c.committed[n]
             /\ pages[Len(c.committed) + 1] = c.pending
    <3>1. CASE i < Len(c.committed)
      <4>1. i + 1 \in 1 .. Len(c.committed)
        BY <1>3, <1>5, <3>1
      <4>2. pages[i + 1] = c.committed[i + 1]
        BY <2>2, <4>1
      <4> QED
        BY <1>3, <1>5, <1>6, <1>7, <2>2, <3>1, <4>2
    <3>2. CASE i = Len(c.committed)
      BY <1>3, <1>6, <1>7, <2>2, <3>2
    <3>3. CASE i > Len(c.committed)
      BY <1>3, <1>5, <1>6, <1>7, <2>2, <3>3
    <3> QED
      BY <1>3, <1>5, <3>1, <3>2, <3>3
  <2> QED
    BY <1>4, <2>1, <2>2
<1>9. u # s => ReadPage(kv', u, t) = ReadPage(kv, u, t)
  BY <1>2, ReadPageOfTable
<1> QED
  BY <1>2, <1>8, <1>9 DEF Seen

(* An abort gives the reserved page back. It held the open token and no     *)
(* committed one.                                                           *)
LEMMA SeenAfterAbort ==
  ASSUME IInv, KvTableMatchesLength(kv), NEW s \in Sequences, AbortPending(s),
         kv.table[s].pending # NoPage,
         NEW u \in Sequences, NEW t \in Tokens, NEW layer \in Layers
  PROVE  Seen(kv', cells', u, t, layer) =
           IF u # s \/ t < kv.table[s].len THEN Seen(kv, cells, u, t, layer)
           ELSE Zero
<1> DEFINE c == kv.table[s]
           q == c.pending
           i == t \div BlockSize
           m == Len(c.committed)
<1>1. KvConsistent(kv) /\ KvTypeOK(kv) /\ t \in Nat
  BY IInvConsistent, LengthAssumption DEF KvConsistent, Tokens
<1>2. /\ kv'.open = kv.open /\ s \in kv.open
      /\ cells' = [p \in Pages |-> IF p \in {q} THEN ZeroPage ELSE cells[p]]
      /\ \A x \in Sequences : x # s => kv'.table[x] = kv.table[x]
      /\ kv'.table[s].committed = c.committed
      /\ kv'.table[s].pending = NoPage
  BY <1>1 DEF AbortPending, KvAbort, SetBlock, Record, KvTypeOK, Cleared
<1>3. c.committed \in Seq(Pages) /\ m \in Nat /\ c.len \in Nat
  BY <1>1, LenProperties DEF KvTypeOK, Block
<1>4. c.len = BlockSize * m
  BY <1>2 DEF KvTableMatchesLength
<1>5. i \in Nat /\ t = BlockSize * i + (t % BlockSize) /\ t % BlockSize \in 0 .. BlockSize - 1
  BY <1>1, PoolAssumption, Division
<1> HIDE DEF c, q, i, m
<1>6. t < c.len <=> i < m
  <2>1. i < m => BlockSize * i + BlockSize <= BlockSize * m
    BY <1>3, <1>5, PoolAssumption, Times
  <2>2. m < i => BlockSize * m + BlockSize <= BlockSize * i
    BY <1>3, <1>5, PoolAssumption, Times
  <2>3. BlockSize * i \in Int /\ BlockSize * m \in Int /\ BlockSize \in Nat \ {0}
    BY <1>3, <1>5, PoolAssumption
  <2>4. CASE i < m
    BY <1>4, <1>5, <2>1, <2>3, <2>4
  <2>5. CASE i = m
    <3>1. BlockSize * i = BlockSize * m
      BY <2>5
    <3> QED
      BY <1>4, <1>5, <2>3, <2>5, <3>1
  <2>6. CASE m < i
    BY <1>3, <1>4, <1>5, <2>2, <2>3, <2>6
  <2>7. i \in Nat /\ m \in Nat
    BY <1>3, <1>5
  <2>8. i < m \/ i = m \/ m < i
    BY <2>7
  <2> QED
    BY <2>4, <2>5, <2>6, <2>8
<1>7. ReadPage(kv', s, t) = IF i < m THEN ReadPage(kv, s, t) ELSE NoPage
  <2>1. ReadPage(kv', s, t) = IF i = m THEN NoPage
                              ELSE IF i < m THEN c.committed[i + 1] ELSE NoPage
    BY <1>2 DEF ReadPage, i, m
  <2>2. ReadPage(kv, s, t) = IF i = m THEN q
                             ELSE IF i < m THEN c.committed[i + 1] ELSE NoPage
    BY DEF ReadPage, i, m, q, c
  <2> QED
    BY <1>3, <1>5, <2>1, <2>2
<1>8. u # s => ReadPage(kv', u, t) = ReadPage(kv, u, t)
  BY <1>2, ReadPageOfTable
<1>9. ASSUME ReadPage(kv, u, t) # NoPage, u # s \/ i < m
      PROVE  cells'[ReadPage(kv, u, t)] = cells[ReadPage(kv, u, t)]
  <2>1. ReadPage(kv, u, t) \in Held(kv, u) /\ ReadPage(kv, u, t) \in Pages
    BY <1>1, <1>9, ReadPageHeld
  <2>2. q \in Held(kv, s) /\ q \notin Range(c.committed)
    BY <1>1 DEF Held, KvConsistent, KvNoSharing, q, c
  <2>3. CASE u # s
    BY <1>1, <1>2, <2>1, <2>2, <2>3 DEF KvConsistent, KvNoSharing
  <2>4. CASE u = s
    <3>1. i + 1 \in DOMAIN c.committed /\ ReadPage(kv, s, t) = c.committed[i + 1]
      BY <1>3, <1>5, <1>9, <2>4 DEF ReadPage, i, m, c
    <3>2. ReadPage(kv, s, t) \in Range(c.committed)
      BY <3>1 DEF Range
    <3> QED
      BY <1>2, <2>1, <2>2, <2>4, <3>2
  <2> QED
    BY <2>3, <2>4
<1>10. CASE u # s \/ t < c.len
  <2>1. u # s \/ i < m
    BY <1>6, <1>10
  <2>2. ReadPage(kv', u, t) = ReadPage(kv, u, t)
    BY <1>7, <1>8, <2>1
  <2>3. Seen(kv', cells', u, t, layer) = Seen(kv, cells, u, t, layer)
    BY <1>2, <1>9, <2>1, <2>2 DEF Seen
  <2> QED
    BY <1>10, <2>3 DEF c
<1>11. CASE u = s /\ ~(t < c.len)
  <2>1. ReadPage(kv', u, t) = NoPage
    BY <1>6, <1>7, <1>11
  <2>2. Seen(kv', cells', u, t, layer) = Zero
    BY <2>1 DEF Seen
  <2> QED
    BY <1>11, <2>2 DEF c
<1> QED
  BY <1>10, <1>11

-----------------------------------------------------------------------------
(* The mapped variables, and each step of the pool as a step of KvStore.    *)
LEMMA VectorsAreSeen ==
  /\ Vectors = [s \in Sequences |-> [t \in Tokens |->
                  [layer \in Layers |-> Seen(kv, cells, s, t, layer)]]]
  /\ Vectors' = [s \in Sequences |-> [t \in Tokens |->
                  [layer \in Layers |-> Seen(kv', cells', s, t, layer)]]]
BY DEF Vectors, Vector, Seen

LEMMA VectorsKept ==
  ASSUME \A s \in Sequences : \A t \in Tokens : \A layer \in Layers :
           Seen(kv', cells', s, t, layer) = Seen(kv, cells, s, t, layer)
  PROVE  Vectors' = Vectors
BY VectorsAreSeen

Remaining(V, contents) ==
  [s \in Sequences |-> IF s \in V THEN Store!Blank ELSE contents[s]]

(* What the lost sequences of a step read, and what the rest reads.         *)
LEMMA VectorsAfter ==
  ASSUME NEW V, NEW T, NEW contents \in [Sequences -> [Tokens -> [Layers -> T]]],
         \A s \in Sequences : \A t \in Tokens : \A layer \in Layers :
           Seen(kv', cells', s, t, layer) =
             IF s \in V THEN Zero ELSE contents[s][t][layer]
  PROVE  Vectors' = Remaining(V, contents)
<1> DEFINE row(s) == [t \in Tokens |->
                        [layer \in Layers |-> Seen(kv', cells', s, t, layer)]]
<1>1. ASSUME NEW s \in Sequences PROVE s \in V => row(s) = Store!Blank
  BY DEF Store!Blank, Store!Tokens, Tokens
<1>2. ASSUME NEW s \in Sequences PROVE s \notin V => row(s) = contents[s]
  <2> SUFFICES ASSUME s \notin V PROVE row(s) = contents[s]
    OBVIOUS
  <2>1. contents[s] \in [Tokens -> [Layers -> T]]
    OBVIOUS
  <2>2. \A t \in Tokens : contents[s][t] = [layer \in Layers |-> contents[s][t][layer]]
    BY <2>1
  <2>3. \A t \in Tokens :
          [layer \in Layers |-> Seen(kv', cells', s, t, layer)] = contents[s][t]
    BY <2>2
  <2> QED
    BY <2>1, <2>3
<1>3. Vectors' = [s \in Sequences |-> row(s)]
  BY VectorsAreSeen
<1> HIDE DEF row
<1> QED
  BY <1>1, <1>2, <1>3 DEF Remaining

(* Store!Written has a row for each sequence, and one cell is new.          *)
LEMMA WrittenRows ==
  ASSUME NEW s \in Sequences, NEW layer \in Layers, kv.table[s].len \in Tokens
  PROVE  \E T :
           /\ Store!Written(s, layer) \in [Sequences -> [Tokens -> [Layers -> T]]]
           /\ \A u \in Sequences : \A t \in Tokens : \A l \in Layers :
                Store!Written(s, layer)[u][t][l] =
                  IF u = s /\ t = kv.table[s].len /\ l = layer
                  THEN <<s, kv.table[s].len>> ELSE Seen(kv, cells, u, t, l)
<1> DEFINE n == kv.table[s].len
           T == {Seen(kv, cells, x, t, l) : x \in Sequences, t \in Tokens, l \in Layers}
                  \cup {<<s, n>>}
           w == Store!Written(s, layer)
<1>1. Vectors \in [Sequences -> [Tokens -> [Layers -> T]]]
  BY VectorsAreSeen
<1>2. w = [Vectors EXCEPT ![s][n][layer] = <<s, n>>]
  BY DEF Store!Written, Lengths
<1>3. \A u \in Sequences : \A t \in Tokens : \A l \in Layers :
        Vectors[u][t][l] = Seen(kv, cells, u, t, l)
  BY VectorsAreSeen
<1>4. <<s, n>> \in T
  OBVIOUS
<1> HIDE DEF T, n, w
<1>5. w \in [Sequences -> [Tokens -> [Layers -> T]]]
  BY <1>1, <1>2, <1>4, StoreTyped
<1>6. \A u \in Sequences : \A t \in Tokens : \A l \in Layers :
        w[u][t][l] = IF u = s /\ t = n /\ l = layer THEN <<s, n>>
                     ELSE Seen(kv, cells, u, t, l)
  BY <1>1, <1>2, <1>3, StoreValue
<1> QED
  BY <1>5, <1>6 DEF w, n

LEMMA WriteImplements ==
  ASSUME IInv, NEW s \in Sequences, NEW layer \in Layers, Write(s, layer)
  PROVE  Store!Write(s, layer)
<1> DEFINE V == Lost(s)
<1>1. KvConsistent(kv) /\ s \in kv.open /\ kv.table[s].len \in Tokens
  BY IInvConsistent DEF Write, IInv, TypeOK, KvTypeOK, Block, Tokens
<1>2. V \in Store!MayEvict(s) /\ V \in SUBSET Sequences /\ s \notin V
  BY LostMayBeEvicted DEF Store!MayEvict
<1>3. Vectors' = [u \in Sequences |->
                    IF u \in V THEN Store!Blank ELSE Store!Written(s, layer)[u]]
  <2> DEFINE new == Store!Written(s, layer)
  <2>1. PICK T :
          /\ new \in [Sequences -> [Tokens -> [Layers -> T]]]
          /\ \A u \in Sequences : \A t \in Tokens : \A l \in Layers :
               new[u][t][l] = IF u = s /\ t = kv.table[s].len /\ l = layer
                              THEN <<s, kv.table[s].len>> ELSE Seen(kv, cells, u, t, l)
    BY <1>1, WrittenRows
  <2>2. \A u \in Sequences : \A t \in Tokens : \A l \in Layers :
          Seen(kv', cells', u, t, l) =
            IF u \in V THEN Zero
            ELSE IF u = s /\ t = kv.table[s].len /\ l = layer
                 THEN <<s, kv.table[s].len>> ELSE Seen(kv, cells, u, t, l)
    BY SeenAfterWrite
  <2> HIDE DEF new, V
  <2>3. \A u \in Sequences : \A t \in Tokens : \A l \in Layers :
          Seen(kv', cells', u, t, l) = IF u \in V THEN Zero ELSE new[u][t][l]
    <3> SUFFICES ASSUME NEW u \in Sequences, NEW t \in Tokens, NEW l \in Layers
                 PROVE  Seen(kv', cells', u, t, l) =
                          IF u \in V THEN Zero ELSE new[u][t][l]
      OBVIOUS
    <3>1. new[u][t][l] = IF u = s /\ t = kv.table[s].len /\ l = layer
                         THEN <<s, kv.table[s].len>> ELSE Seen(kv, cells, u, t, l)
      BY <2>1
    <3>2. Seen(kv', cells', u, t, l) =
            IF u \in V THEN Zero
            ELSE IF u = s /\ t = kv.table[s].len /\ l = layer
                 THEN <<s, kv.table[s].len>> ELSE Seen(kv, cells, u, t, l)
      BY <2>2
    <3> QED
      BY <3>1, <3>2
  <2>4. Vectors' = Remaining(V, new)
    <3>1. new \in [Sequences -> [Tokens -> [Layers -> T]]]
      BY <2>1
    <3> QED
      BY <2>3, <3>1, VectorsAfter
  <2> QED
    BY <2>4 DEF new, Remaining
<1>4. /\ kv'.open = kv.open \ V
      /\ \A u \in Sequences : /\ kv'.table[u].len = IF u \in V THEN 0 ELSE kv.table[u].len
                              /\ u \notin V => kv'.table[u].active = kv.table[u].active
  <2>1. kv' = KvWrite(kv, s) /\ WriteFits(kv, s)
    BY DEF Write
  <2>2. CASE NeedsPage(kv, s)
    <3>1. kv' = Reserve(kv, s) /\ V = Victims(kv, s)
      BY <2>1, <2>2 DEF KvWrite, WriteFits, Lost
    <3>2. /\ Evicted(kv, s).open = kv.open \ V
          /\ \A u \in Sequences : Evicted(kv, s).table[u] = IF u \in V THEN NoBlock ELSE kv.table[u]
      BY <3>1 DEF Evicted, Drop
    <3>3. KvTypeOK(Evicted(kv, s)) /\ s \in Sequences
      BY <1>1, EvictedConsistent DEF KvConsistent
    <3> HIDE DEF V
    <3>4. /\ kv'.open = Evicted(kv, s).open
          /\ \A u \in Sequences : /\ kv'.table[u].len = Evicted(kv, s).table[u].len
                                  /\ kv'.table[u].active = Evicted(kv, s).table[u].active
      BY <3>1, <3>3 DEF Reserve, SetBlock, Record, KvTypeOK
    <3>5. NoBlock.len = 0
      BY DEF NoBlock, Record
    <3> QED
      BY <3>2, <3>4, <3>5
  <2>3. CASE ~NeedsPage(kv, s)
    BY <2>1, <2>3 DEF KvWrite, Lost
  <2> QED
    BY <2>2, <2>3
<1> HIDE DEF V
<1>5. Lengths' = [u \in Sequences |-> IF u \in V THEN 0 ELSE Lengths[u]]
  BY <1>4 DEF Lengths
<1>6. Actives' = Actives \ V
  <2>1. kv.open \in SUBSET Sequences
    BY <1>1 DEF KvConsistent, KvTypeOK
  <2> QED
    BY <1>4, <2>1 DEF Actives
<1>7. Store!Forget(V, Store!Written(s, layer))
  BY <1>3, <1>4, <1>5, <1>6 DEF Store!Forget
<1> QED
  BY <1>1, <1>2, <1>7 DEF Store!Write

(* Dropping the sequences of S, with their pages cleared, forgets them.     *)
LEMMA DropForgets ==
  ASSUME IInv, NEW S \in SUBSET Sequences,
         kv' = Drop(kv, S), cells' = Cleared(PagesOf(S))
  PROVE  Store!Forget(S, Vectors)
<1>1. KvConsistent(kv) /\ KvTypeOK(kv)
  BY IInvConsistent DEF KvConsistent
<1>2. Vectors' = Remaining(S, Vectors)
  <2> DEFINE T == {Seen(kv, cells, x, t, l) : x \in Sequences, t \in Tokens, l \in Layers}
  <2>1. Vectors \in [Sequences -> [Tokens -> [Layers -> T]]]
    BY VectorsAreSeen
  <2>2. \A u \in Sequences : \A t \in Tokens : \A l \in Layers :
          Seen(kv', cells', u, t, l) = IF u \in S THEN Zero ELSE Vectors[u][t][l]
    <3> SUFFICES ASSUME NEW u \in Sequences, NEW t \in Tokens, NEW l \in Layers
                 PROVE  Seen(kv', cells', u, t, l) =
                          IF u \in S THEN Zero ELSE Vectors[u][t][l]
      OBVIOUS
    <3>1. Vectors[u][t][l] = Seen(kv, cells, u, t, l)
      BY VectorsAreSeen
    <3>2. Seen(kv', cells', u, t, l) = IF u \in S THEN Zero ELSE Seen(kv, cells, u, t, l)
      BY SeenAfterDrop
    <3> QED
      BY <3>1, <3>2
  <2> HIDE DEF T
  <2> QED
    BY <2>1, <2>2, VectorsAfter
<1>3. /\ kv'.open = kv.open \ S
      /\ \A u \in Sequences : kv'.table[u] = IF u \in S THEN NoBlock ELSE kv.table[u]
  BY DEF Drop
<1>4. NoBlock.len = 0
  BY DEF NoBlock, Record
<1>5. Lengths' = [u \in Sequences |-> IF u \in S THEN 0 ELSE Lengths[u]]
  BY <1>3, <1>4 DEF Lengths
<1>6. Actives' = Actives \ S
  BY <1>1, <1>3 DEF Actives, KvTypeOK
<1> QED
  BY <1>2, <1>3, <1>5, <1>6 DEF Store!Forget, Remaining

LEMMA BeginImplements ==
  ASSUME IInv, NEW s \in Sequences, BeginSequence(s)
  PROVE  Store!Begin(s)
<1>1. KvConsistent(kv) /\ KvTypeOK(kv)
  BY IInvConsistent DEF KvConsistent
<1>2. /\ s \notin kv.open /\ kv'.open = kv.open \cup {s} /\ cells' = cells
      /\ kv'.table[s].committed = << >> /\ kv'.table[s].pending = NoPage
      /\ kv'.table[s].len = 0 /\ kv'.table[s].active = TRUE
      /\ \A u \in Sequences : u # s => kv'.table[u] = kv.table[u]
  BY <1>1 DEF BeginSequence, KvBegin, KvTypeOK, Record
<1>3. kv.table[s].len = 0
  BY <1>1, <1>2 DEF KvConsistent, KvNoLeak, NoBlock, Record
<1>4. ASSUME NEW u \in Sequences, NEW t \in Tokens, NEW layer \in Layers
      PROVE  Seen(kv', cells', u, t, layer) = Seen(kv, cells, u, t, layer)
  <2>1. CASE u = s
    <3>1. ReadPage(kv', s, t) = NoPage
      <4>1. t \in Nat /\ t \div BlockSize \in Nat /\ Len(<< >>) = 0
        BY PoolAssumption, LengthAssumption, Division DEF Tokens
      <4>2. ~(t \div BlockSize < 0)
        BY <4>1
      <4> QED
        BY <1>2, <4>1, <4>2 DEF ReadPage
    <3> QED
      BY <1>2, <2>1, <3>1 DEF Seen
  <2>2. CASE u # s
    BY <1>2, <2>2, ReadPageOfTable DEF Seen
  <2> QED
    BY <2>1, <2>2
<1>5. Vectors' = Vectors
  BY <1>4, VectorsKept
<1>6. Lengths' = Lengths
  BY <1>2, <1>3 DEF Lengths
<1>7. Actives' = Actives \cup {s}
  BY <1>1, <1>2 DEF Actives, KvTypeOK
<1> QED
  BY <1>2, <1>5, <1>6, <1>7 DEF Store!Begin

LEMMA DeactivateImplements ==
  ASSUME IInv, NEW s \in Sequences, Deactivate(s)
  PROVE  Store!Deactivate(s)
<1>1. KvTypeOK(kv)
  BY DEF IInv, TypeOK
<1>2. /\ s \in kv.open /\ kv'.open = kv.open /\ cells' = cells
      /\ \A u \in Sequences : /\ kv'.table[u].committed = kv.table[u].committed
                              /\ kv'.table[u].pending = kv.table[u].pending
                              /\ kv'.table[u].len = kv.table[u].len
                              /\ u # s => kv'.table[u] = kv.table[u]
      /\ kv'.table[s].active = FALSE
  BY <1>1 DEF Deactivate, KvDeactivate, SetBlock, Record, KvTypeOK
<1>3. Vectors' = Vectors
  BY <1>2, ReadPageOfTable, VectorsKept DEF Seen
<1>4. Lengths' = Lengths /\ Actives' = Actives \ {s}
  BY <1>1, <1>2 DEF Lengths, Actives, KvTypeOK
<1> QED
  BY <1>2, <1>3, <1>4 DEF Store!Deactivate

LEMMA CommitImplements ==
  ASSUME IInv, NEW s \in Sequences, CommitToken(s)
  PROVE  Store!Commit(s)
<1>1. KvTypeOK(kv)
  BY DEF IInv, TypeOK
<1>2. /\ s \in kv.open /\ kv'.open = kv.open /\ kv.table[s].len < MaxLen
      /\ \A u \in Sequences : /\ u # s => kv'.table[u] = kv.table[u]
                              /\ kv'.table[u].active = kv.table[u].active
      /\ kv'.table[s].len = kv.table[s].len + 1
  BY <1>1 DEF CommitToken, KvCommit, SetBlock, Record, KvTypeOK
<1>3. Vectors' = Vectors
  BY SeenAfterCommit, VectorsKept
<1>4. Lengths' = [Lengths EXCEPT ![s] = Lengths[s] + 1] /\ Lengths[s] < MaxLen
  BY <1>2 DEF Lengths
<1>5. Actives' = Actives
  BY <1>1, <1>2 DEF Actives, KvTypeOK
<1> QED
  BY <1>2, <1>3, <1>4, <1>5 DEF Store!Commit

(* An abort with nothing reserved does nothing.                             *)
LEMMA AbortImplements ==
  ASSUME IInv, KvTableMatchesLength(kv), NEW s \in Sequences, AbortPending(s)
  PROVE  Store!Abort(s) \/ UNCHANGED Store!vars
<1>1. KvConsistent(kv) /\ KvTypeOK(kv)
  BY IInvConsistent DEF KvConsistent
<1>2. /\ s \in kv.open /\ kv'.open = kv.open
      /\ \A u \in Sequences : /\ kv'.table[u].committed = kv.table[u].committed
                              /\ kv'.table[u].len = kv.table[u].len
                              /\ kv'.table[u].active = kv.table[u].active
                              /\ u # s => kv'.table[u] = kv.table[u]
      /\ kv'.table[s].pending = NoPage
  BY <1>1 DEF AbortPending, KvAbort, SetBlock, Record, KvTypeOK
<1>3. Lengths' = Lengths /\ Actives' = Actives
  BY <1>1, <1>2 DEF Lengths, Actives, KvTypeOK
<1>4. CASE kv.table[s].pending = NoPage
  <2>1. cells' = cells
    <3>1. cells = [p \in Pages |-> cells[p]] /\ NoPage \notin Pages
      BY DEF IInv, TypeOK, NoPage, Pages
    <3> QED
      BY <1>4, <3>1 DEF AbortPending, Cleared
  <2>2. Vectors' = Vectors
    BY <1>2, <1>4, <2>1, ReadPageOfTable, VectorsKept DEF Seen
  <2> QED
    BY <1>2, <1>3, <2>2 DEF Store!vars
<1>5. CASE kv.table[s].pending # NoPage
  <2> DEFINE row == [t \in Tokens |-> IF t < Lengths[s] THEN Vectors[s][t] ELSE Store!Blank[t]]
             T == {Seen(kv, cells, x, t, l) : x \in Sequences, t \in Tokens, l \in Layers}
                    \cup {Zero}
             new == [Vectors EXCEPT ![s] = row]
  <2>1. Vectors \in [Sequences -> [Tokens -> [Layers -> T]]]
    BY VectorsAreSeen
  <2>2. Store!Blank \in [Tokens -> [Layers -> T]]
    BY DEF Store!Blank, Store!Tokens, Tokens
  <2>3. \A t \in Tokens : \A l \in Layers : Store!Blank[t][l] = Zero
    BY DEF Store!Blank, Store!Tokens, Tokens
  <2> HIDE DEF T
  <2>4. row \in [Tokens -> [Layers -> T]]
    BY <2>1, <2>2
  <2>5. new \in [Sequences -> [Tokens -> [Layers -> T]]]
    BY <2>1, <2>4
  <2>6. ASSUME NEW u \in Sequences, NEW t \in Tokens, NEW l \in Layers
        PROVE  Seen(kv', cells', u, t, l) = new[u][t][l]
    <3>1. Vectors[u][t][l] = Seen(kv, cells, u, t, l)
      BY VectorsAreSeen
    <3>2. Seen(kv', cells', u, t, l) =
            IF u # s \/ t < kv.table[s].len THEN Seen(kv, cells, u, t, l) ELSE Zero
      BY <1>5, SeenAfterAbort
    <3>3. Lengths[s] = kv.table[s].len
      BY DEF Lengths
    <3>4. new[u] = IF u = s THEN row ELSE Vectors[u]
      BY <2>1
    <3>5. row[t] = IF t < Lengths[s] THEN Vectors[s][t] ELSE Store!Blank[t]
      OBVIOUS
    <3> HIDE DEF new, row
    <3>6. CASE u = s
      BY <2>3, <3>1, <3>2, <3>3, <3>4, <3>5, <3>6
    <3>7. CASE u # s
      BY <3>1, <3>2, <3>4, <3>7
    <3> QED
      BY <3>6, <3>7
  <2> HIDE DEF new
  <2>7. Vectors' = Remaining({}, new)
    BY <2>5, <2>6, VectorsAfter
  <2>8. Vectors' = new
    BY <2>5, <2>7 DEF Remaining
  <2> QED
    BY <1>2, <1>3, <2>8 DEF Store!Abort, Store!Tokens, Tokens, new
<1> QED
  BY <1>4, <1>5

LEMMA InvalidateImplements ==
  ASSUME IInv, Invalidate
  PROVE  Store!Invalidate
<1>1. KvConsistent(kv) /\ KvTypeOK(kv) /\ kv' = KvEmpty
  BY IInvConsistent, InvalidateConsistent DEF KvConsistent, Invalidate
<1>2. kv'.open = {} /\ \A u \in Sequences : kv'.table[u].len = 0
  BY <1>1 DEF KvEmpty, NoBlock, Record
<1>3. \A u \in Sequences : u \notin kv.open => kv.table[u].len = 0
  BY <1>1 DEF KvConsistent, KvNoLeak, NoBlock, Record
<1>4. Vectors' = Remaining(kv.open, Vectors)
  <2> DEFINE T == {Seen(kv, cells, x, t, l) : x \in Sequences, t \in Tokens, l \in Layers}
  <2>1. Vectors \in [Sequences -> [Tokens -> [Layers -> T]]]
    BY VectorsAreSeen
  <2>2. \A u \in Sequences : \A t \in Tokens : \A l \in Layers :
          Seen(kv', cells', u, t, l) = IF u \in kv.open THEN Zero ELSE Vectors[u][t][l]
    BY <1>2, VectorsAreSeen DEF Seen
  <2> HIDE DEF T
  <2> QED
    BY <2>1, <2>2, VectorsAfter
<1>5. Lengths' = [u \in Sequences |-> IF u \in kv.open THEN 0 ELSE Lengths[u]]
  BY <1>2, <1>3 DEF Lengths
<1>6. Actives' = Actives \ kv.open /\ kv'.open = kv.open \ kv.open
  BY <1>2 DEF Actives
<1> QED
  BY <1>4, <1>5, <1>6 DEF Store!Invalidate, Store!Forget, Remaining

LEMMA RefusalImplements ==
  ASSUME IInv, NEW s \in Sequences, WriteExhausted(s)
  PROVE  Store!Refuse(s)
<1> DEFINE V == Victims(kv, s)
<1>1. V \in Store!MayEvict(s) /\ V \in SUBSET Sequences
  BY DEF Victims, Evictable, Actives, Store!MayEvict, IInv, TypeOK, KvTypeOK
<1>2. kv' = Drop(kv, V) /\ cells' = Cleared(PagesOf(V)) /\ s \in kv.open
  BY DEF WriteExhausted, WriteFits, KvWrite, Evicted
<1>3. Store!Forget(V, Vectors)
  BY <1>1, <1>2, DropForgets
<1> QED
  BY <1>1, <1>2, <1>3 DEF Store!Refuse

LEMMA StepImplements ==
  ASSUME IInv, KvTableMatchesLength(kv), [Next]_vars
  PROVE  [Store!Next]_(Store!vars)
<1>1. CASE UNCHANGED vars
  BY <1>1 DEF vars, Store!vars, Lengths, Actives, Vectors, Vector
<1>2. CASE Invalidate
  BY <1>2, InvalidateImplements DEF Store!Next
<1>3. ASSUME NEW s \in Sequences, BeginSequence(s) PROVE Store!Next
  BY <1>3, BeginImplements DEF Store!Next
<1>4. ASSUME NEW s \in Sequences, ReleaseSequence(s) PROVE Store!Next
  <2>1. PagesOf({s}) = Held(kv, s)
    BY DEF PagesOf
  <2>2. Store!Forget({s}, Vectors) /\ s \in kv.open
    BY <1>4, <2>1, DropForgets DEF ReleaseSequence, KvRelease
  <2> QED
    BY <2>2 DEF Store!Next, Store!Release
<1>5. ASSUME NEW s \in Sequences, Deactivate(s) PROVE Store!Next
  BY <1>5, DeactivateImplements DEF Store!Next
<1>6. ASSUME NEW s \in Sequences, WriteExhausted(s) PROVE Store!Next
  BY <1>6, RefusalImplements DEF Store!Next
<1>7. ASSUME NEW s \in Sequences, CommitToken(s) PROVE Store!Next
  BY <1>7, CommitImplements DEF Store!Next
<1>8. ASSUME NEW s \in Sequences, AbortPending(s) PROVE [Store!Next]_(Store!vars)
  BY <1>8, AbortImplements DEF Store!Next
<1>9. ASSUME NEW s \in Sequences, NEW layer \in Layers, Write(s, layer) PROVE Store!Next
  BY <1>9, WriteImplements DEF Store!Next
<1> QED
  BY <1>1, <1>2, <1>3, <1>4, <1>5, <1>6, <1>7, <1>8, <1>9 DEF Next

LEMMA InitImplements == Init => Store!Init
<1> SUFFICES ASSUME Init PROVE Store!Init
  OBVIOUS
<1>1. kv.open = {} /\ \A s \in Sequences : kv.table[s].len = 0
  BY DEF Init, KvEmpty, NoBlock, Record
<1>2. Lengths = [s \in Sequences |-> 0] /\ Actives = {}
  BY <1>1 DEF Lengths, Actives
<1>3. Vectors = [s \in Sequences |-> Store!Blank]
  BY <1>1, VectorsAreSeen DEF Seen, Store!Blank, Store!Tokens, Tokens
<1> QED
  BY <1>1, <1>2, <1>3 DEF Store!Init

(* The paged store implements the KvStore contract, in which a sequence has *)
(* a memory of its own and no pages: pages, evictions and aborts are never  *)
(* visible to a client, except that an inactive sequence may vanish whole.  *)
THEOREM PagesAreInvisible == Spec => ImplementsKvStore
<1>1. IInv /\ KvTableMatchesLength(kv) /\ [Next]_vars => [Store!Next]_(Store!vars)
  BY StepImplements
<1> QED
  BY <1>1, InitImplements, PoolInvariant, LengthsInvariant, PTL
  DEF Spec, ImplementsKvStore, Store!Spec


(* What the contract promises a reader holds of the pages: a committed      *)
(* vector is the same at every later read, until its sequence is released,  *)
(* invalidated or evicted as a whole.                                       *)
THEOREM CommittedVectorsStay == Spec => Store!CommittedStays
<1> DEFINE Stays == \A s \in kv.open \cap kv'.open : \A t \in Tokens :
                      t < Lengths[s] => Vectors'[s][t] = Vectors[s][t]
<1>1. IInv /\ KvTableMatchesLength(kv) /\ [Next]_vars => [Stays]_(Store!vars)
  <2> SUFFICES ASSUME IInv, KvTableMatchesLength(kv), [Next]_vars,
                      ~ UNCHANGED Store!vars,
                      NEW s \in kv.open \cap kv'.open, NEW t \in Tokens, t < Lengths[s]
               PROVE  Vectors'[s][t] = Vectors[s][t]
    OBVIOUS
  <2>1. s \in Sequences /\ Lengths[s] \in Tokens
    BY DEF IInv, TypeOK, KvTypeOK, Block, Lengths, Tokens
  <2>2. Store!Next
    BY StepImplements
  <2>3. ASSUME NEW V, NEW contents, Store!Forget(V, contents)
        PROVE  Vectors'[s] = contents[s]
    BY <2>1, <2>3 DEF Store!Forget
  <2>4. CASE Store!Invalidate \/ \E u \in Sequences : Store!Release(u) \/ Store!Refuse(u)
    BY <2>3, <2>4 DEF Store!Invalidate, Store!Release, Store!Refuse
  <2>5. CASE \E u \in Sequences : Store!Begin(u) \/ Store!Deactivate(u) \/ Store!Commit(u)
    BY <2>5 DEF Store!Begin, Store!Deactivate, Store!Commit
  <2>6. ASSUME NEW u \in Sequences, Store!Abort(u)
        PROVE  Vectors'[s][t] = Vectors[s][t]
    <3> DEFINE row == [x \in Tokens |-> IF x < Lengths[u] THEN Vectors[u][x]
                                       ELSE Store!Blank[x]]
    <3>1. Vectors' = [Vectors EXCEPT ![u] = row]
      BY <2>6 DEF Store!Abort, Store!Tokens, Tokens
    <3>2. s \in DOMAIN Vectors
      BY <2>1, VectorsAreSeen
    <3>3. row[t] = IF t < Lengths[u] THEN Vectors[u][t] ELSE Store!Blank[t]
      OBVIOUS
    <3> HIDE DEF row
    <3>4. Vectors'[s] = IF s = u THEN row ELSE Vectors[s]
      BY <3>1, <3>2
    <3> QED
      BY <3>3, <3>4
  <2>7. ASSUME NEW u \in Sequences, NEW layer \in Layers, Store!Write(u, layer)
        PROVE  Vectors'[s][t] = Vectors[s][t]
    <3>1. Vectors'[s] = Store!Written(u, layer)[s]
      BY <2>3, <2>7 DEF Store!Write
    <3>2. Lengths[s] # t
      BY LengthAssumption, <2>1 DEF Tokens
    <3>3. Store!Written(u, layer)[s][t] = Vectors[s][t]
      BY <2>1, <3>2, VectorsAreSeen DEF Store!Written
    <3> QED
      BY <3>1, <3>3
  <2> QED
    BY <2>2, <2>4, <2>5, <2>6, <2>7 DEF Store!Next
<1>2. [Stays]_(Store!vars) =>
        [\A s \in kv.open \cap kv.open' : \A t \in Store!Tokens :
           t < Lengths[s] => Vectors'[s][t] = Vectors[s][t]]_(Store!vars)
  BY DEF Store!Tokens, Tokens
<1> QED
  BY <1>1, <1>2, PoolInvariant, LengthsInvariant, PTL DEF Spec, Store!CommittedStays
=============================================================================
