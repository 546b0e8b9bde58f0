------------------------- MODULE CpuScheduler_proofs -------------------------
(***************************************************************************)
(* What the continuous scheduler keeps, for every pool, page size, chunk,   *)
(* context and set of requests: its types, an exact reservation, no request *)
(* that runs out of pages once admitted, no step that meets one of its      *)
(* internal errors, positions that agree with the pool, a bounded lead,     *)
(* that every step is one RequestLifecycle allows, that no step spins, that *)
(* every live request has work left, and an exact account of who is served. *)
(***************************************************************************)
EXTENDS CpuScheduler, KvPool_proofs, FiniteSetTheorems

Waiting(s) == phase[s] \in {"queued", "prefilling"}

(* Numbers are not used again, and ids name exactly the slots that exist.   *)
Numbering ==
  /\ \A s \in Sequences : s > next_sequence => phase[s] = "absent"
  /\ \A r \in Requests : ids[r] # NoSequence => phase[ids[r]] # "absent"
  /\ \A q, r \in Requests : ids[q] = ids[r] /\ ids[r] # NoSequence => q = r
  /\ \A s \in Sequences : phase[s] # "absent" => \E r \in Requests : ids[r] = s

(* What a slot holds before its admission, while it lives and at its end.   *)
Slots ==
  /\ \A s \in Sequences : phase[s] = "absent" =>
       /\ prompt_cursor[s] = 0 /\ output[s] = 0
       /\ finish[s] = "none" /\ s \notin needs_forward
  /\ \A s \in Live :
       /\ order[s] \in UNION Range(Shapes)
       /\ order[s].prompt + order[s].max <= MaxContext
       /\ finish[s] = "none"
  /\ \A s \in Sequences : phase[s] = "done" => finish[s] # "none"
  /\ AdmittedNeverOom
  /\ cancel \subseteq Live

(* How far a live sequence has been served.                                 *)
Progress ==
  \A s \in Live :
    /\ Waiting(s) => /\ prompt_cursor[s] < order[s].prompt
                     /\ output[s] = 0 /\ s \notin needs_forward
    /\ phase[s] = "decoding" => /\ output[s] < order[s].max
                                /\ s \in kv_open
                                /\ s \in needs_forward <=> output[s] > 0

(* The pool is consistent, every open sequence is active, so that nothing   *)
(* is ever evicted, and no page stays reserved between two tokens.          *)
Quiet(k) ==
  /\ KvConsistent(k) /\ KvTableMatchesLength(k)
  /\ \A s \in Sequences : k.table[s].pending = NoPage
  /\ \A s \in k.open : k.table[s].active

PoolOk == Quiet(kv) /\ kv_open = kv.open /\ kv_open \subseteq Live

Reserved ==
  /\ holding_pages = Live
  /\ IsFiniteSet(Claims)
  /\ reserved_pages = Cardinality(Claims)

(* The step in progress: nothing else is accepted until it is over.         *)
Steps ==
  /\ chunk # NoChunk =>
       /\ chunk.sequence \in Runnable /\ Waiting(chunk.sequence)
       /\ chunk.sequence \in kv_open
       /\ chunk.left <= Chunk(chunk.sequence)
       /\ \A t \in Runnable : vtime[chunk.sequence] <= vtime[t]
       /\ batch = {}
  /\ batch \subseteq {s \in Runnable : phase[s] = "decoding"}

IInv ==
  /\ TypeOK
  /\ Numbering
  /\ Slots
  /\ Progress
  /\ PoolOk
  /\ Reserved
  /\ Steps
  /\ PositionsAgree
  /\ WaiterLead

-----------------------------------------------------------------------------
(* Least elements.                                                          *)

LEMMA LeastNat ==
  ASSUME NEW S \in SUBSET Nat, S # {}
  PROVE  \E x \in S : \A y \in S : x <= y
<1> DEFINE R == OpToRel(<, Nat)
<1>1. IsWellFoundedOn(R, Nat)
  BY NatLessThanWellFounded
<1>2. \A a, b \in Nat : a < b => <<a, b>> \in R
  BY DEF OpToRel
<1> HIDE DEF R
<1>3. PICK x \in S : \A y \in S : ~ (<<y, x>> \in R)
  BY <1>1, WFMin
<1>4. \A y \in S : ~ (y < x)
  BY <1>2, <1>3, Zenon
<1> QED
  BY <1>4

(* pick_cancel and the other choices by sequence number find one.           *)
LEMMA LowestSequence ==
  ASSUME NEW S \in SUBSET Sequences, S # {}
  PROVE  Lowest(S) \in S
<1>1. \E p \in S : \A q \in S : p <= q
  BY LeastNat, PoolAssumption
<1> QED
  BY <1>1 DEF Lowest

LEMMA LeastService ==
  ASSUME vtime \in [Sequences -> Nat], NEW S \in SUBSET Sequences, S # {}
  PROVE  \E m \in Nat : /\ \E s \in S : vtime[s] = m
                        /\ \A s \in S : m <= vtime[s]
<1> DEFINE V == {vtime[s] : s \in S}
<1>1. V \in SUBSET Nat /\ V # {}
  OBVIOUS
<1>2. PICK m \in V : \A y \in V : m <= y
  BY <1>1, LeastNat
<1> QED
  BY <1>1, <1>2

(* pick_runnable finds a member none of the others is served before.        *)
LEMMA FirstIsLeast ==
  ASSUME vtime \in [Sequences -> Nat], NEW S \in SUBSET Sequences, S # {}
  PROVE  /\ First(S) \in S
         /\ \A t \in S : vtime[First(S)] <= vtime[t]
<1>1. PICK m \in Nat : (\E s \in S : vtime[s] = m) /\ (\A s \in S : m <= vtime[s])
  BY LeastService
<1> DEFINE T == {s \in S : vtime[s] = m}
<1>2. T \in SUBSET Nat /\ T # {}
  BY <1>1, PoolAssumption
<1>3. PICK s \in T : \A t \in T : s <= t
  BY <1>2, LeastNat
<1>4. \A t \in S : Sooner(s, t)
  BY <1>1, <1>3 DEF Sooner
<1>5. First(S) \in S /\ \A t \in S : Sooner(First(S), t)
  BY <1>3, <1>4 DEF First
<1> QED
  BY <1>5 DEF Sooner

(* The virtual time a new request starts at.                                *)
LEMMA AdmissionIsLeast ==
  ASSUME vtime \in [Sequences -> Nat], NEW S \in SUBSET Sequences
  PROVE  /\ LowestVtime(S) \in Nat
         /\ \A s \in S : LowestVtime(S) <= vtime[s]
         /\ S # {} => \E s \in S : LowestVtime(S) = vtime[s]
<1>1. CASE S = {}
  BY <1>1 DEF LowestVtime
<1>2. CASE S # {}
  <2>1. \E s \in S : \A t \in S : vtime[s] <= vtime[t]
    BY <1>2, LeastService
  <2> DEFINE x == CHOOSE s \in S : \A t \in S : vtime[s] <= vtime[t]
  <2>2. x \in S /\ \A t \in S : vtime[x] <= vtime[t]
    BY <2>1
  <2>3. LowestVtime(S) = vtime[x]
    BY <1>2 DEF LowestVtime
  <2> HIDE DEF x
  <2> QED
    BY <2>2, <2>3
<1> QED
  BY <1>1, <1>2

-----------------------------------------------------------------------------
(* Shapes and service.                                                      *)

(* What a slot's shape is made of, and that its reservation is enough.      *)
LEMMA ShapeFacts ==
  ASSUME NEW shape \in UNION Range(Shapes)
  PROVE  /\ shape.prompt \in Nat \ {0} /\ shape.max \in Nat \ {0}
         /\ shape.class \in DOMAIN Weight
         /\ PageNeed(shape) \in Nat
         /\ shape.prompt + shape.max <= BlockSize * PageNeed(shape)
<1>1. shape \in [prompt : Nat \ {0}, max : Nat \ {0}, class : DOMAIN Weight]
  <2>1. PICK r \in Requests : shape \in Shapes[r]
    BY SchedulerAssumption DEF Range
  <2> QED
    BY <2>1, SchedulerAssumption
<1>2. shape.prompt \in Nat \ {0} /\ shape.max \in Nat \ {0} /\ shape.class \in DOMAIN Weight
  BY <1>1
<1> DEFINE n == shape.prompt + shape.max + BlockSize - 1
           q == n \div BlockSize
           r == n % BlockSize
<1>3. BlockSize \in Nat \ {0} /\ n \in Nat
  BY <1>2, PoolAssumption
<1>4. q \in Nat /\ r \in 0 .. BlockSize - 1 /\ n = BlockSize * q + r
  BY <1>3, Division
<1>5. PageNeed(shape) = q
  BY DEF PageNeed
<1>6. shape.prompt + shape.max = n - BlockSize + 1
  BY <1>2, <1>3
<1> HIDE DEF n, q, r
<1>7. BlockSize * q \in Nat
  BY <1>3, <1>4
<1> QED
  BY <1>2, <1>3, <1>4, <1>5, <1>6, <1>7

LEMMA ShapeOfRequest ==
  ASSUME NEW r \in Requests, NEW shape \in Shapes[r]
  PROVE  shape \in UNION Range(Shapes)
BY SchedulerAssumption DEF Range

(* The cost of a token is a natural number, and service is monotonic in it. *)
LEMMA CostIsNat ==
  ASSUME NEW s, order[s] \in UNION Range(Shapes)
  PROVE  CostPerToken(s) \in Nat
<1> DEFINE w == Weight[order[s].class]
<1>1. order[s].class \in DOMAIN Weight
  BY ShapeFacts
<1>2. w \in Nat \ {0}
  BY <1>1 DEF Weight
<1>3. ClassScale \in Nat
  BY DEF ClassScale
<1> HIDE DEF w
<1>4. ClassScale \div w \in Nat
  BY <1>2, <1>3, Division
<1> QED
  BY <1>4 DEF CostPerToken, w

LEMMA MoreTokensCostMore ==
  ASSUME NEW c \in Nat, NEW m \in Nat, NEW n \in Nat, m <= n
  PROVE  m * c \in Nat /\ n * c \in Nat /\ m * c <= n * c
<1>1. PICK d \in Nat : n = m + d
  BY SMT
<1>2. n * c = m * c + d * c /\ d * c \in Nat /\ m * c \in Nat
  BY <1>1, Z3
<1> QED
  BY <1>2

-----------------------------------------------------------------------------
(* The pool as the scheduler uses it.                                       *)

LEMMA QuietBlock ==
  ASSUME NEW k, Quiet(k), NEW s \in Sequences
  PROVE  /\ k.table[s] \in Block
         /\ Len(k.table[s].committed) \in Nat /\ k.table[s].len \in Nat
         /\ Held(k, s) = Range(k.table[s].committed)
         /\ s \in k.open => FitsTable(k.table[s])
         /\ s \notin k.open => k.table[s] = NoBlock
<1>1. k.table[s] \in Block /\ k.table[s].pending = NoPage
  BY DEF Quiet, KvConsistent, KvTypeOK
<1>2. Held(k, s) = Range(k.table[s].committed)
  BY <1>1 DEF Held
<1>3. Len(k.table[s].committed) \in Nat /\ k.table[s].len \in Nat
  BY <1>1, LenProperties DEF Block
<1> QED
  BY <1>1, <1>2, <1>3, MatchesIsFits DEF Quiet, KvConsistent, KvNoLeak

(* No active sequence is a victim, so a write evicts nothing.               *)
LEMMA NothingEvicted ==
  ASSUME NEW k, Quiet(k), NEW s
  PROVE  Evicted(k, s) = k
<1>1. Victims(k, s) = {}
  BY DEF Victims, Evictable, Quiet
<1>2. k = [free |-> k.free, open |-> k.open, table |-> k.table] /\ k.table \in [Sequences -> Block]
  BY DEF Quiet, KvConsistent, KvTypeOK
<1>3. [t \in Sequences |-> IF t \in {} THEN NoBlock ELSE k.table[t]] = k.table
  BY <1>2
<1>4. Drop(k, {}) = [free |-> k.free, open |-> k.open, table |-> k.table]
  BY <1>3 DEF Drop
<1> QED
  BY <1>1, <1>2, <1>4 DEF Evicted

(* A quiet pool writes and commits a token of s on a page boundary exactly  *)
(* when the token opens a new page.                                         *)
LEMMA BoundaryIsNewPage ==
  ASSUME NEW k, Quiet(k), NEW s \in k.open
  PROVE  /\ NeedsPage(k, s) <=> AtBoundary(k, s)
         /\ NeedsPage(k, s) =>
              k.table[s].len = BlockSize * Len(k.table[s].committed)
<1> DEFINE b == k.table[s]
           L == Len(b.committed)
           q == b.len \div BlockSize
           r == b.len % BlockSize
<1>1. s \in Sequences
  BY DEF Quiet, KvConsistent, KvTypeOK
<1>2. /\ b \in Block /\ FitsTable(b) /\ b.pending = NoPage
      /\ L \in Nat /\ b.len \in Nat /\ BlockSize \in Nat \ {0}
  BY <1>1, QuietBlock, PoolAssumption DEF Quiet
<1>3. /\ q = L \/ q + 1 = L
      /\ q = L => b.len = BlockSize * L
      /\ r = 0 <=> b.len = BlockSize * L
  BY <1>2, FittingBlock
<1>4. q \in Nat /\ r \in 0 .. BlockSize - 1 /\ b.len = BlockSize * q + r
  BY <1>2, Division
<1>5. BlockSize * (q + 1) = BlockSize * q + BlockSize
  BY <1>2, <1>4, Times
<1>6. NeedsPage(k, s) <=> q = L
  BY <1>2 DEF NeedsPage, OnNewPage, PageIndex
<1>7. AtBoundary(k, s) <=> r = 0
  BY DEF AtBoundary
<1> HIDE DEF b, L, q, r
<1>8. q + 1 = L => b.len # BlockSize * L
  BY <1>2, <1>4, <1>5
<1>9. (q = L) <=> (r = 0)
  BY <1>2, <1>3, <1>4, <1>8
<1> QED
  BY <1>3, <1>6, <1>7, <1>9 DEF b, L

(* One forward pass of a sequence whose page can be had.                    *)
LEMMA ForwardQuiet ==
  ASSUME NEW k, Quiet(k), NEW s \in k.open, WriteFits(k, s)
  PROVE  LET f == KvCommit(KvWrite(k, s), s)
         IN  /\ Quiet(f)
             /\ f.open = k.open
             /\ f.table[s].len = k.table[s].len + 1
             /\ \A t \in Sequences \ {s} : f.table[t] = k.table[t]
<1> DEFINE w == KvWrite(k, s)
           f == KvCommit(w, s)
           c == k.table[s]
           p == Lowest(k.free)
           d == Record(c.committed, p, c.len, c.active)
<1>1. /\ s \in Sequences /\ KvConsistent(k) /\ KvTableMatchesLength(k)
      /\ k.open \subseteq Sequences
      /\ k.free \in SUBSET Pages /\ k.table \in [Sequences -> Block]
  BY DEF Quiet, KvConsistent, KvTypeOK
<1>2. Evicted(k, s) = k
  BY NothingEvicted
<1>3. w = IF NeedsPage(k, s) THEN SetBlock(k, s, d, k.free \ {p}) ELSE k
  BY <1>2 DEF KvWrite, Reserve, WriteFits
<1>4. NeedsPage(k, s) => p \in Pages
  <2>1. NeedsPage(k, s) => k.free # {}
    BY <1>2 DEF WriteFits, CanReserve
  <2> QED
    BY <1>1, <2>1, LowestIsMember
<1>5. /\ KvConsistent(w) /\ KvTableMatchesLength(w)
  BY <1>1, WriteConsistent, LengthsOfWrite
<1>6. /\ w.open = k.open
      /\ \A t \in Sequences \ {s} : w.table[t] = k.table[t]
      /\ w.table[s].len = c.len /\ w.table[s].active = c.active
      /\ w.table[s].pending = IF NeedsPage(k, s) THEN p ELSE NoPage
  BY <1>1, <1>3 DEF SetBlock, Record, Quiet
<1>7. CommitAccepted(w, s)
  <2>1. AtBoundary(w, s) <=> AtBoundary(k, s)
    BY <1>6 DEF AtBoundary
  <2>2. w.table[s].pending # NoPage <=> NeedsPage(k, s)
    BY <1>4, <1>6 DEF NoPage, Pages
  <2> QED
    BY <2>1, <2>2, BoundaryIsNewPage DEF CommitAccepted
<1>8. KvConsistent(f) /\ KvTableMatchesLength(f)
  BY <1>5, <1>6, <1>7, CommitConsistent, LengthsOfCommit DEF KvConsistent
<1>9. w.table \in [Sequences -> Block]
  BY <1>5 DEF KvConsistent, KvTypeOK
<1> HIDE DEF w
<1>10. /\ f.open = w.open
       /\ \A t \in Sequences \ {s} : f.table[t] = w.table[t]
       /\ f.table[s].len = w.table[s].len + 1
       /\ f.table[s].pending = NoPage
       /\ f.table[s].active = w.table[s].active
  BY <1>1, <1>9 DEF KvCommit, SetBlock, Record
<1> HIDE DEF f
<1>11. /\ \A t \in Sequences : f.table[t].pending = NoPage
       /\ \A t \in f.open : f.table[t].active
  BY <1>1, <1>6, <1>10 DEF Quiet
<1>12. Quiet(f) /\ f.open = k.open /\ f.table[s].len = k.table[s].len + 1
  BY <1>6, <1>8, <1>10, <1>11 DEF Quiet
<1>13. \A t \in Sequences \ {s} : f.table[t] = k.table[t]
  BY <1>6, <1>10
<1> QED
  BY <1>12, <1>13 DEF w, f

(* The first token of a sequence opens its table.                           *)
LEMMA BeginQuiet ==
  ASSUME NEW k, Quiet(k), NEW s \in Sequences \ k.open
  PROVE  /\ Quiet(KvBegin(k, s))
         /\ KvBegin(k, s).open = k.open \cup {s}
         /\ KvBegin(k, s).table[s].len = 0
         /\ \A t \in Sequences \ {s} : KvBegin(k, s).table[t] = k.table[t]
<1> DEFINE f == KvBegin(k, s)
           b == Record(<< >>, NoPage, 0, TRUE)
<1>1. KvConsistent(f)
  BY BeginConsistent DEF Quiet
<1>2. k.table \in [Sequences -> Block] /\ k.open \subseteq Sequences
  BY DEF Quiet, KvConsistent, KvTypeOK
<1>3. /\ f.open = k.open \cup {s}
      /\ f.table[s] = b
      /\ \A t \in Sequences \ {s} : f.table[t] = k.table[t]
  BY <1>2 DEF KvBegin
<1>4. FitsTable(b) /\ b.len = 0 /\ b.pending = NoPage /\ b.active
  BY PoolAssumption DEF FitsTable, Record
<1> HIDE DEF f, b
<1>5. KvTableMatchesLength(f)
  BY <1>2, <1>3, <1>4, MatchesIsFits DEF Quiet
<1>6. /\ \A t \in Sequences : f.table[t].pending = NoPage
      /\ \A t \in f.open : f.table[t].active
  BY <1>2, <1>3, <1>4 DEF Quiet
<1>7. Quiet(f)
  BY <1>1, <1>5, <1>6 DEF Quiet
<1> QED
  BY <1>3, <1>4, <1>7 DEF f

(* release_kv gives back everything and leaves the other tables alone.      *)
LEMMA RetireQuiet ==
  ASSUME NEW k, Quiet(k), NEW s \in k.open
  PROVE  LET f == KvRelease(KvAbort(k, s), s)
         IN  /\ Quiet(f)
             /\ f.open = k.open \ {s}
             /\ \A t \in Sequences \ {s} : f.table[t] = k.table[t]
<1> DEFINE a == KvAbort(k, s)
           f == Drop(a, {s})
           c == k.table[s]
           b == Record(c.committed, NoPage, c.len, c.active)
<1>1. /\ s \in Sequences /\ KvConsistent(k) /\ KvTableMatchesLength(k)
      /\ k.table \in [Sequences -> Block] /\ k.open \subseteq Sequences
  BY DEF Quiet, KvConsistent, KvTypeOK
<1>2. KvConsistent(a)
  BY <1>1, AbortConsistent
<1>3. KvTableMatchesLength(a)
  <2>1. FitsTable(c)
    BY <1>1, MatchesIsFits
  <2>2. FitsTable(b)
    BY <2>1 DEF FitsTable, Record
  <2>3. a = SetBlock(k, s, b, k.free \cup ({c.pending} \ {NoPage}))
    BY DEF KvAbort
  <2> HIDE DEF a, b
  <2> QED
    BY <1>1, <2>2, <2>3, LengthsOfSetBlock DEF KvConsistent
<1>4. /\ a.open = k.open
      /\ \A t \in Sequences \ {s} : a.table[t] = k.table[t]
  BY <1>1 DEF KvAbort, SetBlock
<1> HIDE DEF a
<1>5. KvConsistent(f) /\ KvTableMatchesLength(f)
  BY <1>1, <1>2, <1>3, DropConsistent, LengthsOfDrop DEF KvConsistent
<1>6. /\ f.open = k.open \ {s}
      /\ \A t \in Sequences \ {s} : f.table[t] = k.table[t]
      /\ f.table[s] = NoBlock
  BY <1>1, <1>4 DEF Drop
<1> HIDE DEF f
<1>7. /\ \A t \in Sequences : f.table[t].pending = NoPage
      /\ \A t \in f.open : f.table[t].active
  BY <1>1, <1>6, NoBlockHoldsNothing DEF Quiet
<1>8. Quiet(f)
  BY <1>5, <1>7 DEF Quiet
<1> QED
  BY <1>6, <1>8 DEF a, f, KvRelease

-----------------------------------------------------------------------------
(* Claims: what the reservation counts.                                     *)

LEMMA ClaimsGrow ==
  ASSUME IsFiniteSet(Claims), NEW s \in Sequences \ Live, NEW n \in Nat,
         Live' = Live \cup {s}, \A t \in Live : order'[t] = order[t],
         PageNeed(order'[s]) = n
  PROVE  IsFiniteSet(Claims') /\ Cardinality(Claims') = Cardinality(Claims) + n
<1> DEFINE C == {s} \X (1 .. n)
<1>1. IsFiniteSet({s}) /\ Cardinality({s}) = 1
  BY FS_Singleton
<1>2. IsFiniteSet(1 .. n) /\ Cardinality(1 .. n) = n
  BY FS_Interval
<1>3. IsFiniteSet(C) /\ Cardinality(C) = n
  <2>1. IsFiniteSet(C) /\ Cardinality(C) = Cardinality({s}) * Cardinality(1 .. n)
    BY <1>1, <1>2, FS_Product
  <2> QED
    BY <1>1, <1>2, <2>1
<1>4. \A t \in Live : ClaimsOf(t)' = ClaimsOf(t)
  BY DEF ClaimsOf, PageNeed
<1>5. ClaimsOf(s)' = C
  BY DEF ClaimsOf, PageNeed
<1>6. Claims' = UNION {ClaimsOf(t)' : t \in Live'}
  BY DEF Claims
<1>7. \A x \in Claims : \E t \in Live : x[1] = t
  BY DEF Claims, ClaimsOf
<1>8. \A x \in C : x[1] = s
  OBVIOUS
<1>9. Claims \cap C = {}
  BY <1>7, <1>8
<1> HIDE DEF C
<1>10. Claims' = Claims \cup C
  BY <1>4, <1>5, <1>6 DEF Claims
<1>11. Cardinality({}) = 0 /\ Cardinality(Claims) \in Nat
  BY FS_EmptySet, FS_CardinalityType
<1>12. /\ IsFiniteSet(Claims \cup C)
       /\ Cardinality(Claims \cup C) =
            Cardinality(Claims) + Cardinality(C) - Cardinality(Claims \cap C)
  BY <1>3, FS_Union
<1>13. Cardinality(Claims \cup C) = Cardinality(Claims) + n
  <2> DEFINE u == Cardinality(Claims \cup C)
             i == Cardinality(Claims \cap C)
             a == Cardinality(Claims)
  <2>1. i = 0
    BY <1>9, <1>11, Zenon
  <2>2. u = a + n - i
    BY <1>3, <1>12, Zenon
  <2>3. a \in Nat
    BY <1>11
  <2> HIDE DEF u, i, a
  <2>4. u = a + n
    BY <2>1, <2>2, <2>3
  <2> QED
    BY <2>4 DEF u, a
<1>14. IsFiniteSet(Claims \cup C)
  BY <1>12
<1> QED
  BY <1>10, <1>13, <1>14, Zenon

LEMMA ClaimsShrink ==
  ASSUME IsFiniteSet(Claims), NEW s \in Live, NEW n \in Nat,
         Live' = Live \ {s}, \A t \in Live' : order'[t] = order[t],
         PageNeed(order[s]) = n
  PROVE  /\ IsFiniteSet(Claims')
         /\ Cardinality(Claims') = Cardinality(Claims) - n
         /\ n <= Cardinality(Claims)
<1> DEFINE C == {s} \X (1 .. n)
<1>1. IsFiniteSet({s}) /\ Cardinality({s}) = 1
  BY FS_Singleton
<1>2. IsFiniteSet(1 .. n) /\ Cardinality(1 .. n) = n
  BY FS_Interval
<1>3. IsFiniteSet(C) /\ Cardinality(C) = n
  <2>1. IsFiniteSet(C) /\ Cardinality(C) = Cardinality({s}) * Cardinality(1 .. n)
    BY <1>1, <1>2, FS_Product
  <2> QED
    BY <1>1, <1>2, <2>1
<1>4. \A t \in Live' : ClaimsOf(t)' = ClaimsOf(t)
  BY DEF ClaimsOf, PageNeed
<1>5. ClaimsOf(s) = C
  BY DEF ClaimsOf
<1>6. Claims' = UNION {ClaimsOf(t)' : t \in Live'}
  BY DEF Claims
<1>7. \A t \in Live' : \A x \in ClaimsOf(t) : x[1] = t
  BY DEF ClaimsOf
<1>8. \A x \in C : x[1] = s
  OBVIOUS
<1> HIDE DEF C
<1>9. Claims = (UNION {ClaimsOf(t) : t \in Live'}) \cup C
  BY <1>5 DEF Claims
<1>10. Claims' = Claims \ C /\ C \subseteq Claims /\ Claims \cap C = C
  BY <1>4, <1>6, <1>7, <1>8, <1>9
<1>11. Cardinality(Claims) \in Nat
  BY FS_CardinalityType
<1>12. n <= Cardinality(Claims)
  BY <1>3, <1>10, FS_Subset
<1>13. /\ IsFiniteSet(Claims \ C)
       /\ Cardinality(Claims \ C) = Cardinality(Claims) - Cardinality(Claims \cap C)
  BY FS_Difference
<1> QED
  BY <1>3, <1>10, <1>11, <1>12, <1>13

LEMMA ClaimsSame ==
  ASSUME Live' = Live, \A t \in Live : order'[t] = order[t]
  PROVE  Claims' = Claims
<1>1. \A t \in Live : ClaimsOf(t)' = ClaimsOf(t)
  BY DEF ClaimsOf, PageNeed
<1>2. Claims' = UNION {ClaimsOf(t)' : t \in Live'}
  BY DEF Claims
<1> QED
  BY <1>1, <1>2 DEF Claims

(* A table is never longer than the claim of its sequence.                  *)
LEMMA TableWithinNeed ==
  ASSUME Quiet(kv), NEW s \in Live, order[s] \in UNION Range(Shapes),
         kv.table[s].len < order[s].prompt + order[s].max
  PROVE  /\ Len(kv.table[s].committed) <= PageNeed(order[s])
         /\ s \in kv.open /\ NeedsPage(kv, s) =>
              Len(kv.table[s].committed) + 1 <= PageNeed(order[s])
<1> DEFINE b == kv.table[s]
           L == Len(b.committed)
           n == PageNeed(order[s])
           m == order[s].prompt + order[s].max
<1>1. /\ n \in Nat /\ m \in Nat /\ m <= BlockSize * n
  BY ShapeFacts
<1>2. /\ L \in Nat /\ b.len \in Nat /\ s \in Sequences
      /\ s \in kv.open => FitsTable(b)
      /\ s \notin kv.open => b = NoBlock
  BY QuietBlock DEF Live
<1>3. BlockSize \in Nat \ {0}
  BY PoolAssumption
<1>4. CASE s \notin kv.open
  <2>1. L = 0
    BY <1>2, <1>4 DEF NoBlock, Record
  <2> QED
    BY <1>1, <1>4, <2>1
<1>5. CASE s \in kv.open
  <2>1. BlockSize * (L - 1) < b.len /\ b.len < m
    BY <1>2, <1>5 DEF FitsTable
  <2>2. ~(n < L - 1)
    <3> SUFFICES ASSUME n < L - 1 PROVE FALSE
      OBVIOUS
    <3>1. n \in Int /\ L - 1 \in Int
      BY <1>1, <1>2
    <3>2. BlockSize * n + BlockSize <= BlockSize * (L - 1)
      BY <1>3, <3>1, Times
    <3>3. BlockSize * n \in Int /\ BlockSize * (L - 1) \in Int
      BY <1>3, <3>1
    <3> HIDE DEF b, L, n, m
    <3> QED
      BY <1>1, <1>2, <1>3, <2>1, <3>2, <3>3
  <2>3. n # L - 1
    BY <1>1, <1>2, <1>3, <2>1
  <2>4. L <= n
    BY <1>1, <1>2, <2>2, <2>3
  <2>5. ASSUME NeedsPage(kv, s) PROVE L # n
    BY <1>1, <1>2, <1>5, <2>1, <2>5, BoundaryIsNewPage
  <2> QED
    BY <1>1, <1>2, <2>4, <2>5
<1> QED
  BY <1>4, <1>5

(* The page of a claim, for the claims that are already in use.             *)
Used == {c \in Claims : c[1] \in kv.open /\ c[2] <= Len(kv.table[c[1]].committed)}

(* The pool never runs dry while a reservation has a claim left: a page for *)
(* the next token of a live sequence can always be had.                     *)
LEMMA RoomForLive ==
  ASSUME Quiet(kv), kv.open \subseteq Live, IsFiniteSet(Claims),
         Cardinality(Claims) <= PageCount,
         \A t \in Live : /\ order[t] \in UNION Range(Shapes)
                         /\ kv.table[t].len < order[t].prompt + order[t].max,
         NEW s \in kv.open
  PROVE  WriteFits(kv, s)
<1> SUFFICES ASSUME NeedsPage(kv, s), kv.free = {}
             PROVE  FALSE
  BY NothingEvicted DEF WriteFits, CanReserve
<1> DEFINE T(t) == kv.table[t].committed
           next == <<s, Len(T(s)) + 1>>
           g == [c \in Used |-> T(c[1])[c[2]]]
<1>1. \A t \in kv.open : /\ t \in Sequences /\ t \in Live
                         /\ T(t) \in Seq(Pages) /\ Len(T(t)) \in Nat
                         /\ DOMAIN T(t) = 1 .. Len(T(t))
                         /\ Held(kv, t) = Range(T(t))
                         /\ Len(T(t)) <= PageNeed(order[t])
                         /\ PageNeed(order[t]) \in Nat
  <2> SUFFICES ASSUME NEW t \in kv.open
               PROVE  /\ t \in Sequences /\ t \in Live
                      /\ T(t) \in Seq(Pages) /\ Len(T(t)) \in Nat
                      /\ DOMAIN T(t) = 1 .. Len(T(t))
                      /\ Held(kv, t) = Range(T(t))
                      /\ Len(T(t)) <= PageNeed(order[t])
                      /\ PageNeed(order[t]) \in Nat
    OBVIOUS
  <2>1. t \in Live /\ t \in Sequences
    BY DEF Live
  <2>2. T(t) \in Seq(Pages) /\ Held(kv, t) = Range(T(t))
    BY <2>1, QuietBlock DEF Block
  <2>3. Len(T(t)) \in Nat /\ DOMAIN T(t) = 1 .. Len(T(t))
    BY <2>2, LenProperties
  <2> QED
    BY <2>1, <2>2, <2>3, TableWithinNeed, ShapeFacts
<1>2. \A t \in kv.open : \A i \in 1 .. PageNeed(order[t]) : <<t, i>> \in Claims
  BY <1>1 DEF Claims, ClaimsOf
<1>3. next \in Claims /\ next \notin Used
  <2>1. Len(T(s)) + 1 \in 1 .. PageNeed(order[s])
    BY <1>1, TableWithinNeed
  <2>2. next \in Claims
    BY <1>2, <2>1
  <2>3. ~(next[2] <= Len(kv.table[next[1]].committed))
    BY <1>1
  <2> QED
    BY <2>2, <2>3 DEF Used
<1>4. \A c \in Used : c[1] \in kv.open /\ c[2] \in 1 .. Len(T(c[1]))
  <2>1. \A c \in Claims : c[2] \in Nat \ {0}
    <3>1. \A t \in Live : PageNeed(order[t]) \in Nat
      BY ShapeFacts
    <3> QED
      BY <3>1 DEF Claims, ClaimsOf
  <2> QED
    BY <1>1, <2>1 DEF Used
<1>5. g \in Surjection(Used, Pages)
  <2>1. \A c \in Used : g[c] \in Pages
    <3> SUFFICES ASSUME NEW c \in Used PROVE T(c[1])[c[2]] \in Pages
      OBVIOUS
    <3>1. c[1] \in kv.open /\ c[2] \in 1 .. Len(T(c[1])) /\ T(c[1]) \in Seq(Pages)
      BY <1>1, <1>4
    <3> QED
      BY <3>1, ElementOfSeq
  <2>2. ASSUME NEW p \in Pages PROVE \E c \in Used : g[c] = p
    <3>1. PICK t \in kv.open : p \in Range(T(t))
      BY <1>1 DEF Quiet, KvConsistent, KvNoLeak
    <3>2. PICK i \in 1 .. Len(T(t)) : T(t)[i] = p
      BY <1>1, <3>1 DEF Range
    <3>3. <<t, i>> \in Used
      <4>1. i \in 1 .. PageNeed(order[t])
        BY <1>1
      <4>2. <<t, i>> \in Claims
        BY <1>2, <4>1
      <4>3. i <= Len(T(t))
        BY <1>1
      <4> QED
        BY <4>2, <4>3 DEF Used
    <3> QED
      BY <3>2, <3>3
  <2>3. g \in [Used -> Pages]
    BY <2>1
  <2> HIDE DEF g
  <2> QED
    BY <2>2, <2>3 DEF Surjection
<1>6. Used \in SUBSET (Claims \ {next})
  BY <1>3 DEF Used
<1>7. IsFiniteSet(Claims \ {next}) /\ Cardinality(Claims \ {next}) = Cardinality(Claims) - 1
  BY <1>3, FS_RemoveElement
<1>8. IsFiniteSet(Used) /\ Cardinality(Used) <= Cardinality(Claims) - 1
  BY <1>6, <1>7, FS_Subset
<1>9. Cardinality(Pages) <= Cardinality(Used)
  BY <1>5, <1>8, FS_Surjection
<1>10. Cardinality(Pages) = PageCount /\ PageCount \in Nat
  BY PoolAssumption, FS_Interval DEF Pages
<1>11. Cardinality(Claims) \in Nat /\ Cardinality(Used) \in Nat
  BY <1>8, FS_CardinalityType
<1> QED
  BY <1>8, <1>9, <1>10, <1>11

(* A sequence's pages are no more than its claim.                           *)
LEMMA HeldWithinNeed ==
  ASSUME Quiet(kv), NEW s \in Sequences, NEW n \in Nat,
         Len(kv.table[s].committed) <= n
  PROVE  Cardinality(Held(kv, s)) <= n
<1> DEFINE c == kv.table[s].committed
<1>1. c \in Seq(Pages) /\ Held(kv, s) = Range(c) /\ Len(c) \in Nat
  BY QuietBlock DEF Block
<1>2. DOMAIN c = 1 .. Len(c)
  BY <1>1, LenProperties
<1>3. c \in [1 .. Len(c) -> Range(c)]
  BY <1>1, <1>2, SeqDef DEF Range
<1> HIDE DEF c
<1>4. c \in Surjection(1 .. Len(c), Range(c))
  BY <1>2, <1>3 DEF Surjection, Range
<1>5. ExistsSurjection(1 .. Len(c), Range(c))
  BY <1>4 DEF ExistsSurjection
<1>6. Cardinality(Range(c)) <= Len(c)
  BY <1>1, <1>5, FS_SurjCardinalityBound
<1>7. Cardinality(Range(c)) \in Nat
  BY <1>1, <1>4, FS_Interval, FS_Surjection, FS_CardinalityType
<1> QED
  BY <1>1, <1>6, <1>7 DEF c

-----------------------------------------------------------------------------
(* What the invariant says of one live sequence.                            *)

LEMMA LiveFacts ==
  ASSUME IInv, NEW s \in Live
  PROVE  /\ s \in Sequences /\ s \in Nat \ {0} /\ s # NoSequence
         /\ order[s] \in UNION Range(Shapes)
         /\ order[s].prompt \in Nat \ {0} /\ order[s].max \in Nat \ {0}
         /\ order[s].prompt + order[s].max <= MaxContext
         /\ PageNeed(order[s]) \in Nat
         /\ CostPerToken(s) \in Nat
         /\ prompt_cursor[s] \in Nat /\ output[s] \in Nat /\ vtime[s] \in Nat
         /\ phase[s] \in {"queued", "prefilling", "decoding"}
<1>1. s \in Sequences /\ phase[s] \in {"queued", "prefilling", "decoding"}
  BY DEF Live
<1>2. order[s] \in UNION Range(Shapes) /\ order[s].prompt + order[s].max <= MaxContext
  BY DEF IInv, Slots
<1>3. prompt_cursor[s] \in Nat /\ output[s] \in Nat /\ vtime[s] \in Nat
  BY <1>1 DEF IInv, TypeOK
<1> QED
  BY <1>1, <1>2, <1>3, ShapeFacts, CostIsNat, SchedulerAssumption DEF NoSequence

(* A chunk is at least one token and ends within the prompt.                *)
LEMMA ChunkFacts ==
  ASSUME IInv, NEW s \in Live, Waiting(s)
  PROVE  /\ Chunk(s) \in 1 .. PrefillChunk
         /\ prompt_cursor[s] + Chunk(s) <= order[s].prompt
         /\ CursorAfter(s) = prompt_cursor[s] + Chunk(s)
         /\ CursorAfter(s) \in Nat /\ CursorAfter(s) <= order[s].prompt
<1>1. prompt_cursor[s] < order[s].prompt
  BY DEF IInv, Progress
<1>2. prompt_cursor[s] \in Nat /\ order[s].prompt \in Nat
  BY LiveFacts
<1>3. PrefillChunk \in Nat \ {0}
  BY SchedulerAssumption
<1> QED
  BY <1>1, <1>2, <1>3 DEF Chunk, CursorAfter

(* Every live sequence has a token left within its claim.                   *)
LEMMA PositionsInside ==
  ASSUME IInv
  PROVE  \A s \in Live : kv.table[s].len < order[s].prompt + order[s].max
<1> SUFFICES ASSUME NEW s \in Live
             PROVE  kv.table[s].len < order[s].prompt + order[s].max
  OBVIOUS
<1>1. /\ order[s].prompt \in Nat \ {0} /\ order[s].max \in Nat \ {0}
      /\ prompt_cursor[s] \in Nat /\ output[s] \in Nat
      /\ phase[s] \in {"queued", "prefilling", "decoding"}
  BY LiveFacts
<1>2. kv.table[s].len =
        IF phase[s] = "decoding"
        THEN order[s].prompt + (IF output[s] = 0 THEN 0 ELSE output[s] - 1)
        ELSE prompt_cursor[s] + (IF chunk.sequence = s THEN Chunk(s) - chunk.left ELSE 0)
  BY DEF IInv, PositionsAgree
<1>3. CASE phase[s] = "decoding"
  <2>1. output[s] < order[s].max
    BY <1>3 DEF IInv, Progress
  <2> QED
    BY <1>1, <1>2, <1>3, <2>1
<1>4. CASE phase[s] # "decoding"
  <2>1. Waiting(s)
    BY <1>1, <1>4 DEF Waiting
  <2>2. Chunk(s) \in Nat /\ prompt_cursor[s] + Chunk(s) <= order[s].prompt
    BY <2>1, ChunkFacts
  <2>3. chunk.left \in Nat
    BY SchedulerAssumption DEF IInv, TypeOK
  <2> QED
    BY <1>1, <1>2, <1>4, <2>2, <2>3
<1> QED
  BY <1>3, <1>4

(* So a page for its next token can always be had.                          *)
LEMMA LiveFits ==
  ASSUME IInv, NEW s \in kv_open
  PROVE  WriteFits(kv, s)
<1>1. Quiet(kv) /\ kv.open \subseteq Live /\ s \in kv.open
  BY DEF IInv, PoolOk
<1>2. IsFiniteSet(Claims) /\ Cardinality(Claims) <= PageCount
  BY PoolAssumption DEF IInv, Reserved, TypeOK
<1>3. \A t \in Live : order[t] \in UNION Range(Shapes)
  BY LiveFacts
<1> QED
  BY <1>1, <1>2, <1>3, PositionsInside, RoomForLive

(* The sequence a step computes for.                                        *)
LEMMA ServingFacts ==
  ASSUME IInv
  PROVE  /\ chunk # NoChunk => /\ chunk.sequence \in Runnable
                               /\ Waiting(chunk.sequence)
                               /\ chunk.sequence \in kv_open
                               /\ batch = {}
         /\ batch # {} => /\ First(batch) \in batch
                          /\ First(batch) \in Runnable
                          /\ phase[First(batch)] = "decoding"
                          /\ First(batch) \in kv_open
                          /\ chunk = NoChunk
<1>1. vtime \in [Sequences -> Nat]
  BY DEF IInv, TypeOK
<1>2. batch \in SUBSET Sequences
  BY DEF IInv, TypeOK
<1>3. batch # {} => First(batch) \in batch
  BY <1>1, <1>2, FirstIsLeast
<1>4. batch \subseteq {s \in Runnable : phase[s] = "decoding"}
  BY DEF IInv, Steps
<1>5. Runnable \subseteq Live
  BY DEF Runnable
<1>6. \A s \in Live : phase[s] = "decoding" => s \in kv_open
  BY DEF IInv, Progress
<1> QED
  BY <1>3, <1>4, <1>5, <1>6 DEF IInv, Steps

LEMMA ChunkSequence ==
  ASSUME IInv, chunk.sequence # NoSequence \/ chunk.left # 0
  PROVE  chunk # NoChunk
BY DEF NoChunk

-----------------------------------------------------------------------------
(* The invariant holds at the start.                                        *)
LEMMA InitIInv == Init => IInv
<1> SUFFICES ASSUME Init PROVE IInv
  OBVIOUS
<1>1. Live = {} /\ Runnable = {} /\ AwaitsPrefill = {}
  BY DEF Init, Live, Runnable, AwaitsPrefill
<1>2. Quiet(kv)
  <2>1. KvConsistent(kv) /\ kv.open = {} /\ \A s \in Sequences : kv.table[s] = NoBlock
    BY EmptyConsistent DEF Init, KvEmpty
  <2> QED
    BY <2>1, NoBlockHoldsNothing DEF Quiet, KvTableMatchesLength
<1>3. PoolOk
  BY <1>1, <1>2 DEF PoolOk, Init, KvEmpty
<1>4. Claims = {}
  BY <1>1 DEF Claims
<1>5. Reserved
  BY <1>1, <1>4, FS_EmptySet DEF Reserved, Init
<1>6. TypeOK
  <2>1. chunk \in [sequence : Sequences \cup {NoSequence}, left : 0 .. PrefillChunk]
    BY SchedulerAssumption DEF Init, NoChunk, NoSequence
  <2>2. KvTypeOK(kv)
    BY <1>2 DEF Quiet, KvConsistent
  <2>3. 0 \in 0 .. PageCount
    BY PoolAssumption
  <2>4. /\ ids \in [Requests -> Sequences \cup {NoSequence}]
        /\ next_sequence \in Sequences \cup {NoSequence}
        /\ reserved_pages \in 0 .. PageCount
    BY <2>3 DEF Init, NoSequence
  <2>5. order \in [Sequences -> (UNION Range(Shapes)) \cup {NoShape}]
    <3> DEFINE A == UNION Range(Shapes)
    <3> HIDE DEF A
    <3>1. order \in [Sequences -> A \cup {NoShape}]
      BY DEF Init
    <3> QED
      BY <3>1 DEF A
  <2>6. /\ phase \in [Sequences -> {"absent", "queued", "prefilling", "decoding", "done"}]
        /\ finish \in [Sequences -> {"none", "stop", "length", "cancelled", "fault", "memory"}]
    BY DEF Init
  <2>7. /\ prompt_cursor \in [Sequences -> Nat]
        /\ output \in [Sequences -> Nat]
        /\ vtime \in [Sequences -> Nat]
    BY DEF Init
  <2>8. /\ cancel \subseteq Sequences /\ holding_pages \subseteq Sequences
        /\ kv_open \subseteq Sequences /\ needs_forward \subseteq Sequences
        /\ batch \subseteq Sequences
    BY DEF Init
  <2> QED
    BY <2>1, <2>2, <2>4, <2>5, <2>6, <2>7, <2>8 DEF TypeOK
<1>7. Numbering
  BY DEF Numbering, Init
<1>8. Slots
  BY <1>1 DEF Slots, AdmittedNeverOom, Init
<1>9. Progress /\ PositionsAgree /\ WaiterLead
  BY <1>1 DEF Progress, PositionsAgree, WaiterLead
<1>10. Steps
  BY DEF Steps, Init
<1> QED
  BY <1>3, <1>5, <1>6, <1>7, <1>8, <1>9, <1>10 DEF IInv

-----------------------------------------------------------------------------
(* Admission and cancellation happen between steps.                         *)

LEMMA SubmitStep ==
  ASSUME IInv, NEW r \in Requests, NEW shape \in Shapes[r], Submit(r, shape)
  PROVE  IInv'
<1> DEFINE s == next_sequence + 1
           n == PageNeed(shape)
           m == LowestVtime(Runnable)
<1>1. /\ TypeOK /\ Numbering /\ Slots /\ Progress /\ PoolOk /\ Reserved
      /\ PositionsAgree /\ WaiterLead
  BY DEF IInv
<1>2. /\ s \in Sequences /\ ids[r] = NoSequence
      /\ chunk = NoChunk /\ batch = {}
      /\ shape.prompt + shape.max <= MaxContext
      /\ reserved_pages + n <= PageCount
  BY DEF Submit, Admissible, BetweenSteps
<1>3. /\ ids' = [ids EXCEPT ![r] = s]
      /\ next_sequence' = s
      /\ reserved_pages' = reserved_pages + n
      /\ holding_pages' = holding_pages \cup {s}
      /\ order' = [order EXCEPT ![s] = shape]
      /\ vtime' = [vtime EXCEPT ![s] = m]
      /\ phase' = [phase EXCEPT ![s] = "queued"]
      /\ UNCHANGED <<finish, cancel, kv_open, kv, prompt_cursor, output,
                     needs_forward, chunk, batch>>
  BY DEF Submit, AdmissionVtime
<1>4. /\ shape \in UNION Range(Shapes) /\ n \in Nat
      /\ shape.prompt \in Nat \ {0} /\ shape.max \in Nat \ {0}
  BY ShapeOfRequest, ShapeFacts
<1>5. Sequences \subseteq Nat \ {0} /\ next_sequence \in Nat /\ s > next_sequence
  BY <1>1, SchedulerAssumption DEF TypeOK, NoSequence
<1>6. phase[s] = "absent" /\ s \notin Live /\ s # NoSequence
  BY <1>1, <1>2, <1>5 DEF Numbering, Live, NoSequence
<1>7. /\ phase \in [Sequences -> {"absent", "queued", "prefilling", "decoding", "done"}]
      /\ order \in [Sequences -> (UNION Range(Shapes)) \cup {NoShape}]
      /\ vtime \in [Sequences -> Nat]
      /\ ids \in [Requests -> Sequences \cup {NoSequence}]
  BY <1>1 DEF TypeOK
<1> HIDE DEF s, n
<1>8. /\ Live' = Live \cup {s}
      /\ \A t \in Sequences \ {s} : phase'[t] = phase[t] /\ order'[t] = order[t] /\ vtime'[t] = vtime[t]
      /\ phase'[s] = "queued" /\ order'[s] = shape /\ vtime'[s] = m
  <2>1. /\ \A t \in Sequences \ {s} : phase'[t] = phase[t] /\ order'[t] = order[t] /\ vtime'[t] = vtime[t]
        /\ phase'[s] = "queued" /\ order'[s] = shape /\ vtime'[s] = m
    BY <1>2, <1>3, <1>7
  <2> QED
    BY <1>2, <2>1 DEF Live
<1>9. Live \subseteq Sequences \ {s} /\ Runnable \subseteq Sequences /\ Runnable \subseteq Live
  BY <1>6 DEF Live, Runnable
<1>10. cancel \subseteq Live /\ Runnable' = Runnable \cup {s}
  BY <1>1, <1>3, <1>6, <1>8 DEF Slots, Runnable
<1>11. /\ m \in Nat /\ \A t \in Runnable : m <= vtime[t]
       /\ Runnable # {} => \E t \in Runnable : m = vtime[t]
  BY <1>7, <1>9, AdmissionIsLeast
<1> HIDE DEF m
<1>12. Reserved' /\ reserved_pages' \in 0 .. PageCount
  <2>1. /\ IsFiniteSet(Claims) /\ reserved_pages = Cardinality(Claims)
        /\ holding_pages = Live /\ reserved_pages \in Nat
    BY <1>1, PoolAssumption DEF Reserved, TypeOK
  <2>2. PageNeed(order'[s]) = n
    BY <1>8 DEF n
  <2>3. \A t \in Live : order'[t] = order[t]
    BY <1>8, <1>9
  <2>4. s \in Sequences \ Live
    BY <1>2, <1>6
  <2>5. IsFiniteSet(Claims') /\ Cardinality(Claims') = Cardinality(Claims) + n
    BY <1>4, <1>8, <2>1, <2>2, <2>3, <2>4, ClaimsGrow
  <2>6. Reserved'
    BY <1>3, <1>8, <2>1, <2>5 DEF Reserved
  <2> QED
    BY <1>2, <1>3, <1>4, <2>1, <2>6, PoolAssumption
<1>13. TypeOK'
  <2>1. /\ ids' \in [Requests -> Sequences \cup {NoSequence}]
        /\ next_sequence' \in Sequences \cup {NoSequence}
        /\ holding_pages' \subseteq Sequences
    BY <1>1, <1>2, <1>3, <1>7 DEF TypeOK
  <2>2. order' \in [Sequences -> (UNION Range(Shapes)) \cup {NoShape}]
    BY <1>3, <1>4, <1>7
  <2>3. phase' \in [Sequences -> {"absent", "queued", "prefilling", "decoding", "done"}]
    BY <1>3, <1>7
  <2>4. vtime' \in [Sequences -> Nat]
    BY <1>3, <1>7, <1>11
  <2> QED
    BY <1>1, <1>3, <1>12, <2>1, <2>2, <2>3, <2>4 DEF TypeOK
<1>14. Numbering'
  <2>1. ids'[r] = s /\ \A q \in Requests \ {r} : ids'[q] = ids[q]
    BY <1>3, <1>7
  <2>2. \A q \in Requests : ids[q] # s
    BY <1>1, <1>6 DEF Numbering
  <2>3. \A t \in Sequences : t > s => phase'[t] = "absent"
    BY <1>1, <1>2, <1>5, <1>8 DEF Numbering
  <2>4. \A q \in Requests : ids'[q] # NoSequence => phase'[ids'[q]] # "absent"
    BY <1>1, <1>7, <1>8, <2>1, <2>2 DEF Numbering
  <2>5. \A p, q \in Requests : ids'[p] = ids'[q] /\ ids'[q] # NoSequence => p = q
    BY <1>1, <2>1, <2>2 DEF Numbering
  <2>6. \A t \in Sequences : phase'[t] # "absent" => \E q \in Requests : ids'[q] = t
    <3> SUFFICES ASSUME NEW t \in Sequences, phase'[t] # "absent"
                 PROVE  \E q \in Requests : ids'[q] = t
      OBVIOUS
    <3>1. CASE t = s
      BY <2>1, <3>1
    <3>2. CASE t # s
      <4>1. PICK q \in Requests : ids[q] = t
        BY <1>1, <1>8, <3>2 DEF Numbering
      <4>2. q # r
        BY <1>2, <1>5, <4>1 DEF NoSequence
      <4> QED
        BY <2>1, <4>1, <4>2
    <3> QED
      BY <3>1, <3>2
  <2> QED
    BY <1>3, <2>3, <2>4, <2>5, <2>6 DEF Numbering
<1>15. prompt_cursor[s] = 0 /\ output[s] = 0 /\ finish[s] = "none" /\ s \notin needs_forward
  BY <1>1, <1>2, <1>6 DEF Slots
<1>16. Slots'
  <2>1. \A t \in Sequences : phase'[t] = "absent" =>
          /\ prompt_cursor'[t] = 0 /\ output'[t] = 0
          /\ finish'[t] = "none" /\ t \notin needs_forward'
    BY <1>1, <1>3, <1>8 DEF Slots
  <2>2. \A t \in Live' : /\ order'[t] \in UNION Range(Shapes)
                         /\ order'[t].prompt + order'[t].max <= MaxContext
                         /\ finish'[t] = "none"
    BY <1>1, <1>2, <1>3, <1>4, <1>8, <1>9, <1>15 DEF Slots
  <2>3. \A t \in Sequences : phase'[t] = "done" => finish'[t] # "none"
    BY <1>1, <1>3, <1>8 DEF Slots
  <2>4. AdmittedNeverOom' /\ cancel' \subseteq Live'
    BY <1>1, <1>3, <1>8 DEF Slots, AdmittedNeverOom
  <2> QED
    BY <2>1, <2>2, <2>3, <2>4 DEF Slots
<1>17. Progress'
  BY <1>1, <1>3, <1>4, <1>8, <1>9, <1>15 DEF Progress, Waiting
<1>18. PoolOk'
  BY <1>1, <1>3, <1>8 DEF PoolOk
<1>19. Steps'
  BY <1>2, <1>3 DEF Steps
<1>20. PositionsAgree'
  <2>1. kv.table[s].len = 0
    <3>1. s \notin kv.open
      BY <1>1, <1>6 DEF PoolOk
    <3>2. kv.table[s] = NoBlock
      BY <1>1, <1>2, <3>1, QuietBlock DEF PoolOk
    <3> QED
      BY <3>2 DEF NoBlock, Record
  <2>2. chunk'.sequence = NoSequence /\ chunk.sequence = NoSequence
    BY <1>2, <1>3 DEF NoChunk
  <2>3. \A t \in Live' : t # NoSequence
    BY <1>5 DEF Live, NoSequence
  <2>4. \A t \in Live : t # NoSequence
    BY <1>5 DEF Live, NoSequence
  <2> QED
    BY <1>1, <1>3, <1>8, <1>9, <1>15, <2>1, <2>2, <2>3, <2>4 DEF PositionsAgree
<1>21. WaiterLead'
  <2>1. \A t \in Live : CostPerToken(t)' = CostPerToken(t)
    BY <1>8, <1>9 DEF CostPerToken
  <2>2. \A t \in Live' : order'[t] \in UNION Range(Shapes)
    BY <1>16 DEF Slots
  <2>3. \A t \in Live' : CostPerToken(t)' \in Nat
    <3> SUFFICES ASSUME NEW t \in Live' PROVE CostPerToken(t)' \in Nat
      OBVIOUS
    <3>1. CASE t \in Live
      BY <2>1, <3>1, LiveFacts
    <3>2. CASE t = s
      <4>1. shape.class \in DOMAIN Weight
        BY <1>4, ShapeFacts
      <4>2. Weight[shape.class] \in Nat \ {0} /\ ClassScale \in Nat
        BY <4>1 DEF Weight, ClassScale
      <4>3. ClassScale \div Weight[shape.class] \in Nat
        BY <4>2, Division
      <4> QED
        BY <1>8, <3>2, <4>3 DEF CostPerToken
    <3> QED
      BY <1>8, <3>1, <3>2
  <2> SUFFICES ASSUME NEW p \in AwaitsPrefill', NEW t \in Runnable'
               PROVE  vtime'[p] <= vtime'[t] + PrefillChunk * CostPerToken(p)'
    BY DEF WaiterLead
  <2>4. p \in Runnable' /\ p \in Live' /\ t \in Live'
    BY DEF AwaitsPrefill, Runnable
  <2> DEFINE c == CostPerToken(p)'
  <2>5. PrefillChunk * c \in Nat /\ c \in Nat
    BY <2>3, <2>4, SchedulerAssumption, MoreTokensCostMore
  <2>6. CASE p = s
    BY <1>8, <1>9, <1>10, <1>11, <2>5, <2>6, <1>7
  <2>7. CASE p # s /\ t # s
    <3>1. p \in AwaitsPrefill /\ t \in Runnable /\ p \in Live
      BY <1>8, <1>10, <2>4, <2>7 DEF AwaitsPrefill, Live, Runnable
    <3> QED
      BY <1>1, <1>8, <1>9, <2>1, <3>1 DEF WaiterLead
  <2>8. CASE p # s /\ t = s
    <3>1. p \in AwaitsPrefill /\ p \in Runnable /\ p \in Live
      BY <1>8, <1>10, <2>4, <2>8 DEF AwaitsPrefill, Live, Runnable
    <3>2. PICK q \in Runnable : m = vtime[q]
      BY <1>11, <3>1
    <3>3. vtime[p] <= vtime[q] + PrefillChunk * CostPerToken(p)
      BY <1>1, <3>1, <3>2 DEF WaiterLead
    <3> QED
      BY <1>8, <1>9, <2>1, <2>8, <3>1, <3>2, <3>3
  <2> QED
    BY <2>6, <2>7, <2>8
<1> QED
  BY <1>12, <1>13, <1>14, <1>16, <1>17, <1>18, <1>19, <1>20, <1>21 DEF IInv

LEMMA CancelStep ==
  ASSUME IInv, NEW r \in Requests, Cancel(r)
  PROVE  IInv'
<1>1. /\ TypeOK /\ Numbering /\ Slots /\ Progress /\ PoolOk /\ Reserved
      /\ PositionsAgree /\ WaiterLead
  BY DEF IInv
<1>2. /\ ids[r] \in Runnable /\ cancel' = cancel \cup {ids[r]}
      /\ chunk = NoChunk /\ batch = {}
      /\ UNCHANGED <<ids, next_sequence, phase, finish, chunk, batch>>
      /\ UNCHANGED <<reserved_pages, holding_pages, kv_open, kv>>
      /\ UNCHANGED <<order, prompt_cursor, output, vtime, needs_forward>>
  BY DEF Cancel, BetweenSteps, pool, service
<1>3. Live' = Live
  BY <1>2 DEF Live
<1>4. Runnable' \subseteq Runnable /\ AwaitsPrefill' \subseteq AwaitsPrefill
  BY <1>2, <1>3 DEF Runnable, AwaitsPrefill
<1>5. ids[r] \in Live /\ ids[r] \in Sequences
  BY <1>2 DEF Runnable, Live
<1>6. TypeOK'
  BY <1>1, <1>2, <1>5 DEF TypeOK
<1>7. Numbering'
  BY <1>1, <1>2 DEF Numbering
<1>8. Slots'
  BY <1>1, <1>2, <1>3, <1>5 DEF Slots, AdmittedNeverOom
<1>9. Progress'
  BY <1>1, <1>2, <1>3 DEF Progress, Waiting
<1>10. PoolOk'
  BY <1>1, <1>2, <1>3 DEF PoolOk
<1>11. Reserved'
  <2>1. Claims' = Claims
    BY <1>2, <1>3, ClaimsSame
  <2> QED
    BY <1>1, <1>2, <1>3, <2>1 DEF Reserved
<1>12. Steps'
  BY <1>2 DEF Steps
<1>13. PositionsAgree'
  BY <1>1, <1>2, <1>3 DEF PositionsAgree, Chunk
<1>14. WaiterLead'
  BY <1>1, <1>2, <1>4 DEF WaiterLead, CostPerToken
<1> QED
  BY <1>6, <1>7, <1>8, <1>9, <1>10, <1>11, <1>12, <1>13, <1>14 DEF IInv

-----------------------------------------------------------------------------
(* retire: one live sequence ends, and the others are left as they are.     *)

Reasons == {"stop", "length", "cancelled", "fault"}

LEMMA RetireFacts ==
  ASSUME IInv, NEW s \in Live, NEW why \in Reasons, Retire(s, why),
         UNCHANGED <<ids, next_sequence, order, prompt_cursor>>
  PROVE  /\ Live' = Live \ {s} /\ Runnable' = Runnable \ {s}
         /\ \A t \in Sequences \ {s} :
              /\ phase'[t] = phase[t] /\ finish'[t] = finish[t]
              /\ kv'.table[t] = kv.table[t]
         /\ phase'[s] = "done" /\ finish'[s] = why
         /\ kv_open' = kv_open \ {s}
         /\ PoolOk' /\ Reserved' /\ Numbering'
         /\ reserved_pages' \in 0 .. PageCount
         /\ phase' \in [Sequences -> {"absent", "queued", "prefilling", "decoding", "done"}]
         /\ finish' \in [Sequences -> {"none", "stop", "length", "cancelled", "fault", "memory"}]
         /\ cancel' \subseteq Live'
         /\ AdmittedNeverOom'
<1> DEFINE n == PageNeed(order[s])
<1>1. /\ TypeOK /\ Numbering /\ Slots /\ PoolOk /\ Reserved
  BY DEF IInv
<1>2. /\ kv' = KvRetired(s) /\ kv_open' = kv_open \ {s}
      /\ reserved_pages' = ReservationWithout(s)
      /\ holding_pages' = holding_pages \ {s}
      /\ phase' = [phase EXCEPT ![s] = "done"]
      /\ finish' = [finish EXCEPT ![s] = why]
      /\ cancel' = cancel \ {s}
  BY DEF Retire
<1>3. s \in Sequences /\ n \in Nat
  BY LiveFacts
<1>4. /\ phase \in [Sequences -> {"absent", "queued", "prefilling", "decoding", "done"}]
      /\ finish \in [Sequences -> {"none", "stop", "length", "cancelled", "fault", "memory"}]
      /\ kv_open \subseteq Sequences /\ reserved_pages \in 0 .. PageCount
  BY <1>1 DEF TypeOK
<1> HIDE DEF n
<1>5. /\ \A t \in Sequences \ {s} : phase'[t] = phase[t] /\ finish'[t] = finish[t]
      /\ phase'[s] = "done" /\ finish'[s] = why
      /\ phase' \in [Sequences -> {"absent", "queued", "prefilling", "decoding", "done"}]
      /\ finish' \in [Sequences -> {"none", "stop", "length", "cancelled", "fault", "memory"}]
  BY <1>2, <1>3, <1>4 DEF Reasons
<1>6. Live' = Live \ {s}
  BY <1>3, <1>5 DEF Live
<1>7. Runnable' = Runnable \ {s} /\ cancel' \subseteq Live'
  BY <1>1, <1>2, <1>6 DEF Runnable, Slots
<1>8. PoolOk' /\ \A t \in Sequences \ {s} : kv'.table[t] = kv.table[t]
  <2>1. CASE s \in kv_open
    <3>1. kv' = KvRelease(KvAbort(kv, s), s)
      BY <1>2, <2>1 DEF KvRetired
    <3>2. /\ Quiet(kv') /\ kv'.open = kv.open \ {s}
          /\ \A t \in Sequences \ {s} : kv'.table[t] = kv.table[t]
      BY <1>1, <2>1, <3>1, RetireQuiet DEF PoolOk
    <3> QED
      BY <1>1, <1>2, <1>6, <3>2 DEF PoolOk
  <2>2. CASE s \notin kv_open
    <3>1. kv' = kv
      BY <1>2, <2>2 DEF KvRetired
    <3> QED
      BY <1>1, <1>2, <1>6, <2>2, <3>1 DEF PoolOk
  <2> QED
    BY <2>1, <2>2
<1>9. Reserved' /\ reserved_pages' \in 0 .. PageCount
  <2>1. /\ IsFiniteSet(Claims) /\ reserved_pages = Cardinality(Claims)
        /\ holding_pages = Live /\ reserved_pages \in Nat
    BY <1>1, <1>4, PoolAssumption DEF Reserved
  <2>2. /\ IsFiniteSet(Claims') /\ Cardinality(Claims') = Cardinality(Claims) - n
        /\ n <= Cardinality(Claims)
    BY <1>3, <1>6, <2>1, ClaimsShrink DEF n
  <2>3. reserved_pages' = reserved_pages - n
    BY <1>2, <2>1 DEF ReservationWithout, n
  <2>4. Reserved'
    BY <1>2, <1>6, <2>1, <2>2, <2>3 DEF Reserved
  <2> QED
    BY <1>3, <1>4, <2>1, <2>2, <2>3, <2>4, PoolAssumption
<1>10. Numbering'
  <2>1. phase[s] # "absent"
    BY DEF Live
  <2>2. \A t \in Sequences : phase'[t] = "absent" <=> phase[t] = "absent"
    BY <1>5, <2>1
  <2>3. \A q \in Requests : ids[q] # NoSequence => ids[q] \in Sequences
    BY <1>1 DEF TypeOK
  <2> QED
    BY <1>1, <2>2, <2>3 DEF Numbering
<1>11. AdmittedNeverOom'
  <2>1. \A t \in Sequences : finish[t] # "memory"
    BY <1>1 DEF Slots, AdmittedNeverOom
  <2>2. why # "memory"
    BY DEF Reasons
  <2> QED
    BY <1>5, <2>1, <2>2 DEF AdmittedNeverOom
<1> QED
  BY <1>2, <1>5, <1>6, <1>7, <1>8, <1>9, <1>10, <1>11

(* What a retirement keeps of the slots, the progress and the lead of the   *)
(* sequences it leaves.                                                     *)
LEMMA RetireOthers ==
  ASSUME IInv, NEW s \in Live, NEW why \in Reasons, Retire(s, why),
         UNCHANGED <<ids, next_sequence, order, prompt_cursor>>,
         \A t \in Sequences \ {s} : /\ output'[t] = output[t] /\ vtime'[t] = vtime[t]
                                    /\ t \in needs_forward' <=> t \in needs_forward
  PROVE  Slots' /\ Progress' /\ WaiterLead'
<1>1. /\ Live' = Live \ {s} /\ Runnable' = Runnable \ {s}
      /\ \A t \in Sequences \ {s} :
           /\ phase'[t] = phase[t] /\ finish'[t] = finish[t]
           /\ kv'.table[t] = kv.table[t]
      /\ phase'[s] = "done" /\ finish'[s] = why
      /\ kv_open' = kv_open \ {s}
      /\ cancel' \subseteq Live' /\ AdmittedNeverOom'
  BY RetireFacts
<1>2. Slots /\ Progress /\ WaiterLead /\ Live \subseteq Sequences /\ Runnable \subseteq Live
  BY DEF IInv, Live, Runnable
<1>3. \A t \in Live' : t \in Live /\ t \in Sequences \ {s}
  BY <1>1, <1>2
<1>4. Slots'
  <2>1. \A t \in Sequences : phase'[t] = "absent" =>
          /\ prompt_cursor'[t] = 0 /\ output'[t] = 0
          /\ finish'[t] = "none" /\ t \notin needs_forward'
    BY <1>1, <1>2 DEF Slots
  <2>2. \A t \in Live' : /\ order'[t] \in UNION Range(Shapes)
                         /\ order'[t].prompt + order'[t].max <= MaxContext
                         /\ finish'[t] = "none"
    BY <1>1, <1>2, <1>3 DEF Slots
  <2>3. \A t \in Sequences : phase'[t] = "done" => finish'[t] # "none"
    BY <1>1, <1>2 DEF Slots, Reasons
  <2> QED
    BY <1>1, <2>1, <2>2, <2>3 DEF Slots
<1>5. Progress'
  BY <1>1, <1>2, <1>3 DEF Progress, Waiting
<1>6. WaiterLead'
  <2>1. \A p \in AwaitsPrefill' : p \in AwaitsPrefill /\ p \in Sequences \ {s}
    BY <1>1, <1>2 DEF AwaitsPrefill
  <2>2. \A t \in Runnable' : t \in Runnable /\ t \in Sequences \ {s}
    BY <1>1, <1>2
  <2> QED
    BY <1>2, <2>1, <2>2 DEF WaiterLead, CostPerToken
<1> QED
  BY <1>4, <1>5, <1>6

LEMMA ServeCancelStep ==
  ASSUME IInv, ServeCancel
  PROVE  IInv'
<1> DEFINE s == Lowest(PendingCancels)
<1>1. /\ chunk = NoChunk /\ batch = {} /\ PendingCancels # {}
      /\ Retire(s, "cancelled")
      /\ UNCHANGED <<ids, next_sequence, chunk, batch>>
      /\ UNCHANGED <<order, prompt_cursor, output, vtime, needs_forward>>
  BY DEF ServeCancel, BetweenSteps, service
<1>2. s \in Live
  <2>1. PendingCancels \in SUBSET Sequences
    BY DEF PendingCancels, Live
  <2>2. s \in PendingCancels
    BY <1>1, <2>1, LowestSequence
  <2> QED
    BY <2>2 DEF PendingCancels
<1> HIDE DEF s
<1>3. "cancelled" \in Reasons
  BY DEF Reasons
<1>4. /\ Slots' /\ Progress' /\ WaiterLead'
  BY <1>1, <1>2, <1>3, RetireOthers
<1>5. /\ PoolOk' /\ Reserved' /\ Numbering'
      /\ reserved_pages' \in 0 .. PageCount
      /\ phase' \in [Sequences -> {"absent", "queued", "prefilling", "decoding", "done"}]
      /\ finish' \in [Sequences -> {"none", "stop", "length", "cancelled", "fault", "memory"}]
      /\ cancel' \subseteq Live' /\ Live' = Live \ {s} /\ kv_open' = kv_open \ {s}
      /\ \A t \in Sequences \ {s} : phase'[t] = phase[t] /\ kv'.table[t] = kv.table[t]
  BY <1>1, <1>2, <1>3, RetireFacts
<1>6. TypeOK'
  <2>1. TypeOK
    BY DEF IInv
  <2>2. holding_pages' \subseteq Sequences /\ kv_open' \subseteq Sequences /\ cancel' \subseteq Sequences
    BY <1>5, <2>1 DEF Reserved, Live, TypeOK
  <2>3. KvTypeOK(kv)'
    BY <1>5 DEF PoolOk, Quiet, KvConsistent
  <2> QED
    BY <1>1, <1>5, <2>1, <2>2, <2>3 DEF TypeOK
<1>7. Steps'
  BY <1>1 DEF Steps
<1>8. PositionsAgree'
  <2>1. \A t \in Live' : t \in Live /\ t \in Sequences \ {s}
    BY <1>5 DEF Live
  <2>2. PositionsAgree
    BY DEF IInv
  <2> QED
    BY <1>1, <1>5, <2>1, <2>2 DEF PositionsAgree, Chunk
<1> QED
  BY <1>4, <1>5, <1>6, <1>7, <1>8 DEF IInv

-----------------------------------------------------------------------------
(* Prefill. The steps up to the last one only touch the pool and the chunk. *)

LEMMA PrefillFrame ==
  ASSUME IInv,
         UNCHANGED <<ids, next_sequence, phase, finish, cancel, reserved_pages,
                     holding_pages, batch>>,
         UNCHANGED <<order, prompt_cursor, output, vtime, needs_forward>>,
         kv_open \subseteq kv_open'
  PROVE  /\ Live' = Live /\ Runnable' = Runnable
         /\ Numbering' /\ Slots' /\ Progress' /\ Reserved' /\ WaiterLead'
         /\ \A s \in Live : Chunk(s)' = Chunk(s)
<1>1. Live' = Live /\ Runnable' = Runnable /\ AwaitsPrefill' = AwaitsPrefill
  BY DEF Live, Runnable, AwaitsPrefill
<1>2. Numbering /\ Slots /\ Progress /\ Reserved /\ WaiterLead
  BY DEF IInv
<1>3. Numbering'
  BY <1>2 DEF Numbering
<1>4. Slots'
  BY <1>1, <1>2 DEF Slots, AdmittedNeverOom
<1>5. Progress'
  BY <1>1, <1>2 DEF Progress, Waiting
<1>6. Reserved'
  BY <1>1, <1>2, ClaimsSame DEF Reserved
<1>7. WaiterLead'
  BY <1>1, <1>2 DEF WaiterLead, CostPerToken
<1> QED
  BY <1>1, <1>3, <1>4, <1>5, <1>6, <1>7 DEF Chunk

LEMMA StartPrefillStep ==
  ASSUME IInv, StartPrefill
  PROVE  IInv'
<1>0. PICK s : s = First(Runnable)
  OBVIOUS
<1>1. /\ chunk = NoChunk /\ batch = {} /\ Runnable # {} /\ phase[s] # "decoding"
      /\ kv' = IF s \in kv_open THEN kv ELSE KvBegin(kv, s)
      /\ kv_open' = kv_open \cup {s}
      /\ chunk' = [sequence |-> s, left |-> Chunk(s)]
      /\ UNCHANGED <<ids, next_sequence, phase, finish, cancel, reserved_pages,
                     holding_pages, batch>>
      /\ UNCHANGED <<order, prompt_cursor, output, vtime, needs_forward>>
  BY <1>0 DEF StartPrefill, BetweenSteps, service
<1>2. s \in Runnable /\ \A t \in Runnable : vtime[s] <= vtime[t]
  <2>1. vtime \in [Sequences -> Nat] /\ Runnable \in SUBSET Sequences
    BY DEF IInv, TypeOK, Runnable, Live
  <2> QED
    BY <1>0, <1>1, <2>1, FirstIsLeast
<1>3. s \in Live /\ s \in Sequences /\ s # NoSequence
  BY <1>2, LiveFacts DEF Runnable
<1>4. Waiting(s)
  BY <1>1, <1>3, LiveFacts DEF Waiting
<1>5. Chunk(s) \in 1 .. PrefillChunk
  BY <1>3, <1>4, ChunkFacts
<1>6. /\ Live' = Live /\ Runnable' = Runnable
      /\ Numbering' /\ Slots' /\ Progress' /\ Reserved' /\ WaiterLead'
      /\ \A t \in Live : Chunk(t)' = Chunk(t)
  BY <1>1, PrefillFrame
<1>7. TypeOK /\ PoolOk /\ PositionsAgree /\ kv_open \subseteq Sequences
  BY DEF IInv, TypeOK
<1>8. /\ Quiet(kv') /\ kv'.open = kv.open \cup {s}
      /\ kv'.table[s].len = kv.table[s].len
      /\ \A t \in Sequences \ {s} : kv'.table[t] = kv.table[t]
  <2>1. CASE s \in kv_open
    BY <1>1, <1>7, <2>1 DEF PoolOk
  <2>2. CASE s \notin kv_open
    <3>1. s \in Sequences \ kv.open /\ kv' = KvBegin(kv, s)
      BY <1>1, <1>3, <1>7, <2>2 DEF PoolOk
    <3>2. kv.table[s].len = 0
      BY <1>7, <3>1, QuietBlock DEF PoolOk, NoBlock, Record
    <3> QED
      BY <1>7, <3>1, <3>2, BeginQuiet DEF PoolOk
  <2> QED
    BY <2>1, <2>2
<1>9. PoolOk'
  BY <1>1, <1>3, <1>6, <1>7, <1>8 DEF PoolOk
<1>10. chunk'.sequence = s /\ chunk'.left = Chunk(s)
  BY <1>1
<1>11. TypeOK'
  <2>1. KvTypeOK(kv)'
    BY <1>8 DEF Quiet, KvConsistent
  <2>2. chunk' \in [sequence : Sequences \cup {NoSequence}, left : 0 .. PrefillChunk]
    BY <1>1, <1>3, <1>5
  <2> QED
    BY <1>1, <1>3, <1>7, <2>1, <2>2 DEF TypeOK
<1>12. Steps'
  <2>1. Chunk(s)' = Chunk(s) /\ Chunk(s) \in Nat
    BY <1>3, <1>5, <1>6
  <2> QED
    BY <1>1, <1>2, <1>4, <1>6, <1>10, <2>1 DEF Steps, Waiting
<1>13. PositionsAgree'
  <2>1. chunk.sequence = NoSequence
    BY <1>1 DEF NoChunk
  <2> SUFFICES ASSUME NEW t \in Live
               PROVE  kv'.table[t].len =
                        IF phase[t] = "decoding"
                        THEN order[t].prompt + (IF output[t] = 0 THEN 0 ELSE output[t] - 1)
                        ELSE prompt_cursor[t] +
                               (IF s = t THEN Chunk(t) - Chunk(s) ELSE 0)
    BY <1>1, <1>6, <1>10 DEF PositionsAgree
  <2>2. t \in Sequences /\ t # NoSequence
    BY LiveFacts
  <2>3. kv'.table[t].len = kv.table[t].len
    BY <1>8, <2>2
  <2>4. Chunk(s) - Chunk(s) = 0
    BY <1>5
  <2> QED
    BY <1>7, <2>1, <2>2, <2>3, <2>4 DEF PositionsAgree
<1> QED
  BY <1>6, <1>9, <1>11, <1>12, <1>13 DEF IInv

LEMMA PrefillTokenStep ==
  ASSUME IInv, PrefillToken
  PROVE  IInv'
<1> DEFINE s == chunk.sequence
<1>1. /\ chunk.left > 0 /\ WriteFits(kv, s) /\ kv' = KvCommit(KvWrite(kv, s), s)
      /\ chunk' = [sequence |-> s, left |-> chunk.left - 1]
      /\ UNCHANGED <<ids, next_sequence, phase, finish, cancel, reserved_pages,
                     holding_pages, batch>>
      /\ UNCHANGED <<order, prompt_cursor, output, vtime, needs_forward>>
      /\ kv_open' = kv_open
  BY DEF PrefillToken, Forward, service
<1>2. TypeOK /\ PoolOk /\ PositionsAgree /\ Steps /\ chunk.left \in 0 .. PrefillChunk
  BY DEF IInv, TypeOK
<1>3. chunk # NoChunk /\ s \in Runnable /\ Waiting(s) /\ s \in kv_open /\ batch = {}
  <2>1. chunk # NoChunk
    BY <1>1 DEF NoChunk
  <2> QED
    BY <2>1, ServingFacts
<1>4. s \in Live /\ s \in Sequences /\ s # NoSequence
  BY <1>3, LiveFacts DEF Runnable
<1>5. /\ Live' = Live /\ Runnable' = Runnable
      /\ Numbering' /\ Slots' /\ Progress' /\ Reserved' /\ WaiterLead'
      /\ \A t \in Live : Chunk(t)' = Chunk(t)
  BY <1>1, PrefillFrame
<1>6. /\ Quiet(kv') /\ kv'.open = kv.open
      /\ kv'.table[s].len = kv.table[s].len + 1
      /\ \A t \in Sequences \ {s} : kv'.table[t] = kv.table[t]
  BY <1>1, <1>2, <1>3, ForwardQuiet DEF PoolOk
<1>7. PoolOk'
  BY <1>1, <1>2, <1>5, <1>6 DEF PoolOk
<1>8. chunk'.sequence = s /\ chunk'.left = chunk.left - 1 /\ chunk.left \in Nat
  BY <1>1, <1>2, SchedulerAssumption
<1>9. TypeOK'
  <2>1. KvTypeOK(kv)'
    BY <1>6 DEF Quiet, KvConsistent
  <2>2. chunk' \in [sequence : Sequences \cup {NoSequence}, left : 0 .. PrefillChunk]
    BY <1>1, <1>2, <1>4, SchedulerAssumption
  <2> QED
    BY <1>1, <1>2, <2>1, <2>2 DEF TypeOK
<1>10. Chunk(s) \in 1 .. PrefillChunk /\ chunk.left <= Chunk(s)
  BY <1>2, <1>3, <1>4, ChunkFacts DEF Steps
<1>11. Steps'
  <2>1. Chunk(s)' = Chunk(s) /\ chunk'.left <= Chunk(s)
    BY <1>4, <1>5, <1>8, <1>10, SchedulerAssumption
  <2> HIDE DEF s
  <2> QED
    BY <1>1, <1>2, <1>3, <1>5, <1>8, <2>1 DEF Steps, Waiting, s
<1>12. PositionsAgree'
  <2> HIDE DEF s
  <2> SUFFICES ASSUME NEW t \in Live
               PROVE  kv'.table[t].len =
                        IF phase[t] = "decoding"
                        THEN order[t].prompt + (IF output[t] = 0 THEN 0 ELSE output[t] - 1)
                        ELSE prompt_cursor[t] +
                               (IF s = t THEN Chunk(t) - (chunk.left - 1) ELSE 0)
    BY <1>1, <1>5, <1>8 DEF PositionsAgree
  <2>1. t \in Sequences /\ prompt_cursor[t] \in Nat
    BY LiveFacts
  <2>2. CASE t = s
    <3>1. phase[s] # "decoding"
      BY <1>3 DEF Waiting
    <3>2. kv.table[s].len = prompt_cursor[s] + (Chunk(s) - chunk.left)
      BY <1>2, <1>4, <3>1 DEF PositionsAgree, s
    <3> QED
      BY <1>6, <1>8, <1>10, <2>1, <2>2, <3>1, <3>2, SchedulerAssumption
  <2>3. CASE t # s
    BY <1>2, <1>6, <2>1, <2>3 DEF PositionsAgree, s
  <2> QED
    BY <2>2, <2>3
<1> QED
  BY <1>5, <1>7, <1>9, <1>11, <1>12 DEF IInv

(* The chunk is counted and the sequence charged for it. It was the least   *)
(* served of all runnable ones, so it leads by no more than this chunk.     *)
LEMMA PrefillEndsStep ==
  ASSUME IInv, PrefillEnds
  PROVE  IInv'
<1> DEFINE s == chunk.sequence
           last == CursorAfter(s) = order[s].prompt
           d == Chunk(s) * CostPerToken(s)
<1>1. /\ chunk # NoChunk /\ chunk.left = 0
      /\ prompt_cursor' = [prompt_cursor EXCEPT ![s] = CursorAfter(s)]
      /\ phase' = [phase EXCEPT ![s] = IF last THEN "decoding" ELSE "prefilling"]
      /\ needs_forward' = IF last THEN needs_forward \ {s} ELSE needs_forward
      /\ vtime' = [vtime EXCEPT ![s] = @ + d]
      /\ chunk' = NoChunk
      /\ UNCHANGED <<ids, next_sequence, finish, cancel, order, output, batch>>
      /\ UNCHANGED <<reserved_pages, holding_pages, kv_open, kv>>
  BY DEF PrefillEnds, ServiceCost, pool
<1>2. TypeOK /\ PoolOk /\ PositionsAgree /\ Steps /\ Numbering /\ Slots /\ Progress
      /\ Reserved /\ WaiterLead
  BY DEF IInv
<1>3. s \in Runnable /\ Waiting(s) /\ s \in kv_open /\ batch = {}
  BY <1>1, ServingFacts
<1>4. s \in Live /\ s \in Sequences /\ s # NoSequence
  BY <1>3, LiveFacts DEF Runnable
<1>5. /\ Chunk(s) \in 1 .. PrefillChunk
      /\ CursorAfter(s) = prompt_cursor[s] + Chunk(s)
      /\ CursorAfter(s) \in Nat /\ CursorAfter(s) <= order[s].prompt
      /\ order[s].prompt \in Nat /\ order[s].max \in Nat \ {0} /\ output[s] = 0
      /\ s \notin needs_forward /\ vtime[s] \in Nat
  BY <1>2, <1>3, <1>4, ChunkFacts, LiveFacts DEF Progress
<1>6. d \in Nat /\ d <= PrefillChunk * CostPerToken(s) /\ PrefillChunk * CostPerToken(s) \in Nat
  <2>1. Chunk(s) \in Nat /\ Chunk(s) <= PrefillChunk /\ PrefillChunk \in Nat
    BY <1>5, SchedulerAssumption
  <2>2. CostPerToken(s) \in Nat
    BY <1>4, LiveFacts
  <2> QED
    BY <2>1, <2>2, MoreTokensCostMore
<1>7. \A t \in Runnable : vtime[s] <= vtime[t]
  BY <1>1, <1>2 DEF Steps
<1>8. /\ phase \in [Sequences -> {"absent", "queued", "prefilling", "decoding", "done"}]
      /\ prompt_cursor \in [Sequences -> Nat] /\ vtime \in [Sequences -> Nat]
  BY <1>2 DEF TypeOK
<1>9. last \in BOOLEAN
  OBVIOUS
<1> HIDE DEF s, last, d
<1>10. /\ \A t \in Sequences \ {s} : /\ phase'[t] = phase[t] /\ vtime'[t] = vtime[t]
                                     /\ prompt_cursor'[t] = prompt_cursor[t]
       /\ phase'[s] = IF last THEN "decoding" ELSE "prefilling"
       /\ vtime'[s] = vtime[s] + d
       /\ prompt_cursor'[s] = CursorAfter(s)
  BY <1>1, <1>4, <1>8
<1>11. Live' = Live /\ Runnable' = Runnable
  <2>1. \A t \in Sequences : t \in Live <=> phase[t] \in {"queued", "prefilling", "decoding"}
    BY DEF Live
  <2>2. \A t \in Sequences : phase[t] \in {"queued", "prefilling", "decoding"}
                             <=> phase'[t] \in {"queued", "prefilling", "decoding"}
    BY <1>4, <1>10, <2>1
  <2>3. Live' = Live
    BY <2>2 DEF Live
  <2> QED
    BY <1>1, <2>3 DEF Runnable
<1>12. Live \subseteq Sequences /\ Runnable \subseteq Live
  BY DEF Live, Runnable
<1>13. TypeOK'
  <2>1. phase' \in [Sequences -> {"absent", "queued", "prefilling", "decoding", "done"}]
    BY <1>1, <1>8
  <2>2. prompt_cursor' \in [Sequences -> Nat]
    BY <1>1, <1>5, <1>8
  <2>5. vtime[s] + d \in Nat
    BY <1>5, <1>6
  <2>6. vtime' \in [Sequences -> Nat]
    BY <1>1, <1>8, <2>5
  <2>3. chunk' \in [sequence : Sequences \cup {NoSequence}, left : 0 .. PrefillChunk]
    BY <1>1, SchedulerAssumption DEF NoChunk
  <2>4. needs_forward' \subseteq Sequences
    BY <1>1, <1>2 DEF TypeOK
  <2> QED
    BY <1>1, <1>2, <2>1, <2>2, <2>3, <2>4, <2>6 DEF TypeOK
<1>14. Numbering'
  <2>1. \A t \in Sequences : phase'[t] = "absent" <=> phase[t] = "absent"
    BY <1>4, <1>10 DEF Live
  <2>2. \A q \in Requests : ids[q] # NoSequence => ids[q] \in Sequences
    BY <1>2 DEF TypeOK
  <2> QED
    BY <1>1, <1>2, <2>1, <2>2 DEF Numbering
<1>15. Slots'
  <2>1. \A t \in Sequences : phase'[t] = "absent" =>
          /\ prompt_cursor'[t] = 0 /\ output'[t] = 0
          /\ finish'[t] = "none" /\ t \notin needs_forward'
    BY <1>1, <1>2, <1>10 DEF Slots
  <2>2. \A t \in Live' : /\ order'[t] \in UNION Range(Shapes)
                         /\ order'[t].prompt + order'[t].max <= MaxContext
                         /\ finish'[t] = "none"
    BY <1>1, <1>2, <1>11 DEF Slots
  <2>3. \A t \in Sequences : phase'[t] = "done" => finish'[t] # "none"
    BY <1>1, <1>2, <1>10 DEF Slots
  <2>4. AdmittedNeverOom' /\ cancel' \subseteq Live'
    BY <1>1, <1>2, <1>11 DEF Slots, AdmittedNeverOom
  <2> QED
    BY <2>1, <2>2, <2>3, <2>4 DEF Slots
<1>16. Progress'
  <2> SUFFICES ASSUME NEW t \in Live
               PROVE  /\ Waiting(t)' => /\ prompt_cursor'[t] < order[t].prompt
                                        /\ output[t] = 0 /\ t \notin needs_forward'
                      /\ phase'[t] = "decoding" => /\ output[t] < order[t].max
                                                   /\ t \in kv_open
                                                   /\ t \in needs_forward' <=> output[t] > 0
    BY <1>1, <1>11 DEF Progress
  <2>1. CASE t = s
    BY <1>1, <1>3, <1>5, <1>10, <2>1 DEF Waiting, last
  <2>2. CASE t # s
    BY <1>1, <1>2, <1>10, <1>12, <2>2 DEF Progress, Waiting
  <2> QED
    BY <2>1, <2>2
<1>17. PoolOk'
  BY <1>1, <1>2, <1>11 DEF PoolOk
<1>18. Reserved'
  BY <1>1, <1>2, <1>11, ClaimsSame DEF Reserved
<1>19. Steps'
  BY <1>1, <1>3 DEF Steps
<1>20. PositionsAgree'
  <2>1. chunk'.sequence = NoSequence
    BY <1>1 DEF NoChunk
  <2> SUFFICES ASSUME NEW t \in Live
               PROVE  kv.table[t].len =
                        IF phase'[t] = "decoding"
                        THEN order[t].prompt + (IF output[t] = 0 THEN 0 ELSE output[t] - 1)
                        ELSE prompt_cursor'[t] + 0
    <3>1. \A t \in Live' : t # NoSequence
      BY <1>11, LiveFacts
    <3> QED
      BY <1>1, <1>11, <2>1, <3>1 DEF PositionsAgree
  <2>2. t \in Sequences /\ prompt_cursor[t] \in Nat
    BY LiveFacts
  <2>3. CASE t = s
    <3>1. kv.table[s].len = prompt_cursor[s] + (Chunk(s) - chunk.left)
      BY <1>2, <1>3, <1>4 DEF PositionsAgree, Waiting, s
    <3>2. kv.table[s].len = CursorAfter(s)
      BY <1>1, <1>5, <2>2, <2>3, <3>1
    <3> QED
      BY <1>5, <1>10, <2>3, <3>2 DEF last
  <2>4. CASE t # s
    BY <1>2, <1>10, <2>2, <2>4 DEF PositionsAgree, s
  <2> QED
    BY <2>3, <2>4
<1>21. WaiterLead'
  <2>1. \A t \in Live : CostPerToken(t)' = CostPerToken(t)
    BY <1>1 DEF CostPerToken
  <2> SUFFICES ASSUME NEW p \in AwaitsPrefill', NEW t \in Runnable'
               PROVE  vtime'[p] <= vtime'[t] + PrefillChunk * CostPerToken(p)'
    BY DEF WaiterLead
  <2>2. p \in Runnable /\ p \in Live /\ p \in Sequences /\ t \in Runnable /\ t \in Live /\ t \in Sequences
    BY <1>11, <1>12 DEF AwaitsPrefill
  <2> DEFINE c == PrefillChunk * CostPerToken(p)
  <2>3. c \in Nat /\ vtime[p] \in Nat /\ vtime[t] \in Nat
    <3>1. CostPerToken(p) \in Nat /\ PrefillChunk \in Nat
      BY <2>2, LiveFacts, SchedulerAssumption
    <3> QED
      BY <1>8, <2>2, <3>1, MoreTokensCostMore
  <2>4. CASE p = s /\ t = s
    BY <1>5, <1>6, <1>10, <2>1, <2>2, <2>3, <2>4
  <2>5. CASE p = s /\ t # s
    BY <1>5, <1>6, <1>7, <1>10, <2>1, <2>2, <2>3, <2>5
  <2>6. CASE p # s
    <3>1. p \in AwaitsPrefill
      BY <1>10, <1>11, <2>2, <2>6 DEF AwaitsPrefill
    <3>2. vtime[p] <= vtime[t] + c
      BY <1>2, <2>2, <3>1 DEF WaiterLead
    <3>3. vtime'[t] \in Nat /\ vtime[t] <= vtime'[t]
      BY <1>5, <1>6, <1>10, <2>2, <2>3
    <3> QED
      BY <1>10, <2>1, <2>2, <2>3, <2>6, <3>2, <3>3
  <2> QED
    BY <2>4, <2>5, <2>6
<1> QED
  BY <1>13, <1>14, <1>15, <1>16, <1>17, <1>18, <1>19, <1>20, <1>21 DEF IInv

-----------------------------------------------------------------------------
(* Decode.                                                                  *)

LEMMA StartDecodeStep ==
  ASSUME IInv, StartDecode
  PROVE  IInv'
<1>1. /\ chunk = NoChunk /\ batch' = DecodeBatch
      /\ UNCHANGED <<ids, next_sequence, phase, finish, cancel, chunk>>
      /\ UNCHANGED <<reserved_pages, holding_pages, kv_open, kv>>
      /\ UNCHANGED <<order, prompt_cursor, output, vtime, needs_forward>>
  BY DEF StartDecode, BetweenSteps, pool, service
<1>2. TypeOK /\ PoolOk /\ PositionsAgree /\ Numbering /\ Slots /\ Progress
      /\ Reserved /\ WaiterLead
  BY DEF IInv
<1>3. Live' = Live /\ Runnable' = Runnable /\ AwaitsPrefill' = AwaitsPrefill
  BY <1>1 DEF Live, Runnable, AwaitsPrefill
<1>4. batch' \subseteq {s \in Runnable : phase[s] = "decoding"} /\ batch' \subseteq Sequences
  BY <1>1 DEF DecodeBatch, Runnable, Live
<1>5. TypeOK'
  BY <1>1, <1>2, <1>4 DEF TypeOK
<1>6. Numbering'
  BY <1>1, <1>2 DEF Numbering
<1>7. Slots'
  BY <1>1, <1>2, <1>3 DEF Slots, AdmittedNeverOom
<1>8. Progress'
  BY <1>1, <1>2, <1>3 DEF Progress, Waiting
<1>9. PoolOk' /\ Reserved'
  BY <1>1, <1>2, <1>3, ClaimsSame DEF PoolOk, Reserved
<1>10. Steps'
  BY <1>1, <1>3, <1>4 DEF Steps
<1>11. PositionsAgree'
  BY <1>1, <1>2, <1>3 DEF PositionsAgree, Chunk
<1>12. WaiterLead'
  BY <1>1, <1>2, <1>3 DEF WaiterLead, CostPerToken
<1> QED
  BY <1>5, <1>6, <1>7, <1>8, <1>9, <1>10, <1>11, <1>12 DEF IInv

(* One more token for one row of the batch.                                 *)
LEMMA SampledFacts ==
  ASSUME IInv, NEW s \in Live, Sampled(s)
  PROVE  /\ output' \in [Sequences -> Nat] /\ vtime' \in [Sequences -> Nat]
         /\ output'[s] = output[s] + 1
         /\ vtime[s] <= vtime'[s]
         /\ batch' = batch \ {s}
         /\ \A t \in Sequences \ {s} : output'[t] = output[t] /\ vtime'[t] = vtime[t]
<1> DEFINE d == ServiceCost(s, 1)
<1>1. /\ output \in [Sequences -> Nat] /\ vtime \in [Sequences -> Nat] /\ s \in Sequences
  BY DEF IInv, TypeOK, Live
<1>2. d \in Nat
  <2>1. CostPerToken(s) \in Nat
    BY LiveFacts
  <2> QED
    BY <2>1 DEF ServiceCost
<1>3. /\ output' = [output EXCEPT ![s] = @ + 1]
      /\ vtime' = [vtime EXCEPT ![s] = @ + d]
      /\ batch' = batch \ {s}
  BY DEF Sampled
<1> HIDE DEF d
<1>4. vtime[s] + d \in Nat /\ vtime[s] <= vtime[s] + d
  BY <1>1, <1>2
<1>5. output' \in [Sequences -> Nat] /\ output'[s] = output[s] + 1
  BY <1>1, <1>3
<1>6. vtime' \in [Sequences -> Nat] /\ vtime'[s] = vtime[s] + d
  BY <1>1, <1>3, <1>4
<1> QED
  BY <1>1, <1>3, <1>4, <1>5, <1>6

LEMMA DecodeRowStep ==
  ASSUME IInv, DecodeRow
  PROVE  IInv'
<1>0. PICK s : s = First(batch)
  OBVIOUS
<1>1. /\ batch # {} /\ RowFits(s) /\ output[s] + 1 # order[s].max
      /\ kv' = ForwardedKv(s) /\ Sampled(s)
      /\ needs_forward' = needs_forward \cup {s}
      /\ UNCHANGED <<ids, next_sequence, phase, finish, cancel, reserved_pages,
                     holding_pages, kv_open, order, prompt_cursor, chunk>>
  BY <1>0 DEF DecodeRow
<1>2. TypeOK /\ PoolOk /\ PositionsAgree /\ Steps /\ Numbering /\ Slots /\ Progress
      /\ Reserved /\ WaiterLead
  BY DEF IInv
<1>3. /\ s \in batch /\ s \in Runnable /\ phase[s] = "decoding" /\ s \in kv_open
      /\ chunk = NoChunk
  BY <1>0, <1>1, ServingFacts
<1>4. s \in Live /\ s \in Sequences
  BY <1>3, LiveFacts DEF Runnable
<1>5. /\ output' \in [Sequences -> Nat] /\ vtime' \in [Sequences -> Nat]
      /\ output'[s] = output[s] + 1 /\ vtime[s] <= vtime'[s]
      /\ batch' = batch \ {s}
      /\ \A t \in Sequences \ {s} : output'[t] = output[t] /\ vtime'[t] = vtime[t]
  BY <1>1, <1>4, SampledFacts
<1>6. /\ output[s] \in Nat /\ order[s].max \in Nat /\ order[s].prompt \in Nat
      /\ output[s] < order[s].max
      /\ s \in needs_forward <=> output[s] > 0
  BY <1>2, <1>3, <1>4, LiveFacts DEF Progress
<1>7. Live' = Live /\ Runnable' = Runnable /\ AwaitsPrefill' = AwaitsPrefill
  BY <1>1 DEF Live, Runnable, AwaitsPrefill
<1>8. Live \subseteq Sequences /\ Runnable \subseteq Live
  BY DEF Live, Runnable
<1>9. /\ Quiet(kv') /\ kv'.open = kv.open
      /\ kv'.table[s].len = kv.table[s].len + (IF s \in needs_forward THEN 1 ELSE 0)
      /\ \A t \in Sequences \ {s} : kv'.table[t] = kv.table[t]
  <2>1. CASE s \in needs_forward
    <3>1. WriteFits(kv, s) /\ kv' = KvCommit(KvWrite(kv, s), s)
      BY <1>1, <2>1 DEF RowFits, ForwardedKv, Forward
    <3> QED
      BY <1>2, <1>3, <2>1, <3>1, ForwardQuiet DEF PoolOk
  <2>2. CASE s \notin needs_forward
    <3>1. kv' = kv
      BY <1>1, <2>2 DEF ForwardedKv
    <3>2. kv.table[s].len \in Nat
      BY <1>2, <1>4, QuietBlock DEF PoolOk
    <3> QED
      BY <1>2, <2>2, <3>1, <3>2 DEF PoolOk
  <2> QED
    BY <2>1, <2>2
<1>10. TypeOK'
  <2>1. KvTypeOK(kv)'
    BY <1>9 DEF Quiet, KvConsistent
  <2>2. needs_forward' \subseteq Sequences /\ batch' \subseteq Sequences
    BY <1>1, <1>2, <1>4, <1>5 DEF TypeOK
  <2> QED
    BY <1>1, <1>2, <1>5, <2>1, <2>2 DEF TypeOK
<1>11. Numbering'
  BY <1>1, <1>2 DEF Numbering
<1>12. Slots'
  <2>1. \A t \in Sequences : phase'[t] = "absent" =>
          /\ prompt_cursor'[t] = 0 /\ output'[t] = 0
          /\ finish'[t] = "none" /\ t \notin needs_forward'
    BY <1>1, <1>2, <1>3, <1>5 DEF Slots
  <2>2. \A t \in Live' : /\ order'[t] \in UNION Range(Shapes)
                         /\ order'[t].prompt + order'[t].max <= MaxContext
                         /\ finish'[t] = "none"
    BY <1>1, <1>2, <1>7 DEF Slots
  <2>3. \A t \in Sequences : phase'[t] = "done" => finish'[t] # "none"
    BY <1>1, <1>2 DEF Slots
  <2>4. AdmittedNeverOom' /\ cancel' \subseteq Live'
    BY <1>1, <1>2, <1>7 DEF Slots, AdmittedNeverOom
  <2> QED
    BY <2>1, <2>2, <2>3, <2>4 DEF Slots
<1>13. Progress'
  <2> SUFFICES ASSUME NEW t \in Live
               PROVE  /\ Waiting(t) => /\ prompt_cursor[t] < order[t].prompt
                                       /\ output'[t] = 0 /\ t \notin needs_forward'
                      /\ phase[t] = "decoding" => /\ output'[t] < order[t].max
                                                  /\ t \in kv_open
                                                  /\ t \in needs_forward' <=> output'[t] > 0
    BY <1>1, <1>7 DEF Progress, Waiting
  <2>1. CASE t = s
    BY <1>1, <1>3, <1>5, <1>6, <2>1 DEF Waiting
  <2>2. CASE t # s
    BY <1>1, <1>2, <1>5, <1>8, <2>2 DEF Progress
  <2> QED
    BY <2>1, <2>2
<1>14. PoolOk'
  BY <1>1, <1>2, <1>7, <1>9 DEF PoolOk
<1>15. Reserved'
  BY <1>1, <1>2, <1>7, ClaimsSame DEF Reserved
<1>16. Steps'
  <2>1. batch' \subseteq {t \in Runnable' : phase'[t] = "decoding"}
    BY <1>1, <1>2, <1>5, <1>7 DEF Steps
  <2> QED
    BY <1>1, <1>3, <2>1 DEF Steps
<1>17. PositionsAgree'
  <2> SUFFICES ASSUME NEW t \in Live
               PROVE  kv'.table[t].len =
                        IF phase[t] = "decoding"
                        THEN order[t].prompt + (IF output'[t] = 0 THEN 0 ELSE output'[t] - 1)
                        ELSE prompt_cursor[t] + (IF chunk.sequence = t THEN Chunk(t) - chunk.left ELSE 0)
    BY <1>1, <1>7 DEF PositionsAgree, Chunk
  <2>1. CASE t = s
    <3>1. kv.table[s].len = order[s].prompt + (IF output[s] = 0 THEN 0 ELSE output[s] - 1)
      BY <1>2, <1>3, <1>4 DEF PositionsAgree
    <3> QED
      BY <1>3, <1>5, <1>6, <1>9, <2>1, <3>1
  <2>2. CASE t # s
    <3>1. t \in Sequences \ {s}
      BY <1>8, <2>2
    <3>2. kv'.table[t] = kv.table[t] /\ output'[t] = output[t]
      BY <1>5, <1>9, <3>1
    <3> QED
      BY <1>2, <3>2 DEF PositionsAgree
  <2> QED
    BY <2>1, <2>2
<1>18. WaiterLead'
  <2> SUFFICES ASSUME NEW p \in AwaitsPrefill, NEW t \in Runnable
               PROVE  vtime'[p] <= vtime'[t] + PrefillChunk * CostPerToken(p)
    BY <1>1, <1>7 DEF WaiterLead, CostPerToken
  <2>1. p \in Live /\ p # s /\ p \in Sequences /\ t \in Sequences
    BY <1>3, <1>8 DEF AwaitsPrefill
  <2>2. vtime[p] <= vtime[t] + PrefillChunk * CostPerToken(p)
    BY <1>2 DEF WaiterLead
  <2>3. PrefillChunk * CostPerToken(p) \in Nat
    <3>1. CostPerToken(p) \in Nat /\ PrefillChunk \in Nat
      BY <2>1, LiveFacts, SchedulerAssumption
    <3> QED
      BY <3>1, MoreTokensCostMore
  <2>4. vtime[t] <= vtime'[t] /\ vtime[t] \in Nat /\ vtime'[t] \in Nat /\ vtime'[p] = vtime[p]
    <3>1. vtime[t] \in Nat /\ vtime'[t] \in Nat
      BY <1>2, <1>5, <2>1 DEF TypeOK
    <3> QED
      BY <1>5, <2>1, <3>1
  <2>5. vtime[p] \in Nat
    BY <1>2, <2>1 DEF TypeOK
  <2> QED
    BY <2>2, <2>3, <2>4, <2>5
<1> QED
  BY <1>10, <1>11, <1>12, <1>13, <1>14, <1>15, <1>16, <1>17, <1>18 DEF IInv

LEMMA DecodeLastRowStep ==
  ASSUME IInv, DecodeLastRow
  PROVE  IInv'
<1>0. PICK s : s = First(batch)
  OBVIOUS
<1>1. /\ batch # {} /\ Sampled(s)
      /\ \E why \in EndReasons(s) : Retire(s, why)
      /\ needs_forward' = needs_forward \ {s}
      /\ UNCHANGED <<ids, next_sequence, order, prompt_cursor, chunk>>
  BY <1>0 DEF DecodeLastRow
<1>2. PICK why \in Reasons : Retire(s, why)
  BY <1>1 DEF EndReasons, Reasons
<1>3. TypeOK /\ PositionsAgree /\ Steps
  BY DEF IInv
<1>4. s \in batch /\ s \in Runnable /\ chunk = NoChunk
  BY <1>0, <1>1, ServingFacts
<1>5. s \in Live /\ s \in Sequences
  BY <1>4, LiveFacts DEF Runnable
<1>6. /\ output' \in [Sequences -> Nat] /\ vtime' \in [Sequences -> Nat]
      /\ batch' = batch \ {s}
      /\ \A t \in Sequences \ {s} : output'[t] = output[t] /\ vtime'[t] = vtime[t]
  BY <1>1, <1>5, SampledFacts
<1>7. /\ PoolOk' /\ Reserved' /\ Numbering'
      /\ reserved_pages' \in 0 .. PageCount
      /\ phase' \in [Sequences -> {"absent", "queued", "prefilling", "decoding", "done"}]
      /\ finish' \in [Sequences -> {"none", "stop", "length", "cancelled", "fault", "memory"}]
      /\ cancel' \subseteq Live' /\ Live' = Live \ {s} /\ kv_open' = kv_open \ {s}
      /\ Runnable' = Runnable \ {s}
      /\ \A t \in Sequences \ {s} : phase'[t] = phase[t] /\ kv'.table[t] = kv.table[t]
  BY <1>1, <1>2, <1>5, RetireFacts
<1>8. Slots' /\ Progress' /\ WaiterLead'
  <2>1. \A t \in Sequences \ {s} : /\ output'[t] = output[t] /\ vtime'[t] = vtime[t]
                                   /\ t \in needs_forward' <=> t \in needs_forward
    BY <1>1, <1>6
  <2> QED
    BY <1>1, <1>2, <1>5, <2>1, RetireOthers
<1>9. TypeOK'
  <2>1. holding_pages' \subseteq Sequences /\ kv_open' \subseteq Sequences /\ cancel' \subseteq Sequences
    BY <1>3, <1>7 DEF Reserved, Live, TypeOK
  <2>2. KvTypeOK(kv)'
    BY <1>7 DEF PoolOk, Quiet, KvConsistent
  <2>3. needs_forward' \subseteq Sequences /\ batch' \subseteq Sequences
    BY <1>1, <1>3, <1>6 DEF TypeOK
  <2> QED
    BY <1>1, <1>3, <1>6, <1>7, <2>1, <2>2, <2>3 DEF TypeOK
<1>10. Steps'
  <2>1. batch \subseteq Sequences
    BY <1>3 DEF TypeOK
  <2>2. batch' \subseteq {t \in Runnable' : phase'[t] = "decoding"}
    BY <1>3, <1>6, <1>7, <2>1 DEF Steps
  <2> QED
    BY <1>1, <1>4, <2>2 DEF Steps
<1>11. PositionsAgree'
  <2>1. \A t \in Live' : t \in Live /\ t \in Sequences \ {s}
    BY <1>7 DEF Live
  <2> QED
    BY <1>1, <1>3, <1>6, <1>7, <2>1 DEF PositionsAgree, Chunk
<1> QED
  BY <1>7, <1>8, <1>9, <1>10, <1>11 DEF IInv

-----------------------------------------------------------------------------
(* A failing token. It is never the pool that fails: a page can be had.     *)
LEMMA StepFailsStep ==
  ASSUME IInv, StepFails
  PROVE  IInv'
<1>0. PICK s : s = Serving
  OBVIOUS
<1>1. /\ batch # {} \/ chunk.left > 0
      /\ Retire(s, IF Fits(s) THEN "fault" ELSE "memory")
      /\ chunk' = NoChunk /\ batch' = {}
      /\ UNCHANGED <<ids, next_sequence>>
      /\ UNCHANGED <<order, prompt_cursor, output, vtime, needs_forward>>
  BY <1>0 DEF StepFails, service
<1>2. TypeOK /\ PositionsAgree
  BY DEF IInv
<1>3. /\ s \in Runnable /\ s \in kv_open
      /\ chunk = NoChunk \/ chunk.sequence = s
  <2>1. CASE batch # {}
    BY <1>0, <2>1, ServingFacts DEF Serving
  <2>2. CASE batch = {}
    <3>1. chunk # NoChunk
      BY <1>1, <2>2 DEF NoChunk
    <3> QED
      BY <1>0, <2>2, <3>1, ServingFacts DEF Serving
  <2> QED
    BY <2>1, <2>2
<1>4. s \in Live /\ s \in Sequences
  BY <1>3, LiveFacts DEF Runnable
<1>5. Fits(s)
  BY <1>3, LiveFits DEF Fits, RowFits
<1>6. Retire(s, "fault") /\ "fault" \in Reasons
  BY <1>1, <1>5 DEF Reasons
<1>7. /\ PoolOk' /\ Reserved' /\ Numbering'
      /\ reserved_pages' \in 0 .. PageCount
      /\ phase' \in [Sequences -> {"absent", "queued", "prefilling", "decoding", "done"}]
      /\ finish' \in [Sequences -> {"none", "stop", "length", "cancelled", "fault", "memory"}]
      /\ cancel' \subseteq Live' /\ Live' = Live \ {s} /\ kv_open' = kv_open \ {s}
      /\ \A t \in Sequences \ {s} : phase'[t] = phase[t] /\ kv'.table[t] = kv.table[t]
  BY <1>1, <1>4, <1>6, RetireFacts
<1>8. Slots' /\ Progress' /\ WaiterLead'
  BY <1>1, <1>4, <1>6, RetireOthers
<1>9. TypeOK'
  <2>1. holding_pages' \subseteq Sequences /\ kv_open' \subseteq Sequences /\ cancel' \subseteq Sequences
    BY <1>2, <1>7 DEF Reserved, Live, TypeOK
  <2>2. KvTypeOK(kv)'
    BY <1>7 DEF PoolOk, Quiet, KvConsistent
  <2>3. chunk' \in [sequence : Sequences \cup {NoSequence}, left : 0 .. PrefillChunk]
    BY <1>1, SchedulerAssumption DEF NoChunk
  <2> QED
    BY <1>1, <1>2, <1>7, <2>1, <2>2, <2>3 DEF TypeOK
<1>10. Steps'
  BY <1>1 DEF Steps
<1>11. PositionsAgree'
  <2>1. \A t \in Live' : t \in Live /\ t \in Sequences \ {s} /\ t # NoSequence
    BY <1>7, LiveFacts DEF Live
  <2>2. \A t \in Live' : chunk.sequence # t /\ chunk'.sequence # t
    BY <1>1, <1>3, <2>1 DEF NoChunk
  <2> QED
    BY <1>1, <1>2, <1>7, <2>1, <2>2 DEF PositionsAgree
<1> QED
  BY <1>7, <1>8, <1>9, <1>10, <1>11 DEF IInv

(* reap: a finished slot is dropped with its id.                            *)
LEMMA ReapStep ==
  ASSUME IInv, NEW r \in Requests, Reap(r)
  PROVE  IInv'
<1>0. PICK s : s = ids[r]
  OBVIOUS
<1>1. /\ chunk = NoChunk /\ batch = {}
      /\ s \in Sequences /\ phase[s] = "done"
      /\ ids' = [ids EXCEPT ![r] = NoSequence]
      /\ phase' = [phase EXCEPT ![s] = "absent"]
      /\ finish' = [finish EXCEPT ![s] = "none"]
      /\ order' = [order EXCEPT ![s] = NoShape]
      /\ prompt_cursor' = [prompt_cursor EXCEPT ![s] = 0]
      /\ output' = [output EXCEPT ![s] = 0]
      /\ vtime' = [vtime EXCEPT ![s] = 0]
      /\ needs_forward' = needs_forward \ {s}
      /\ UNCHANGED <<next_sequence, cancel, chunk, batch>>
      /\ UNCHANGED <<reserved_pages, holding_pages, kv_open, kv>>
  BY <1>0 DEF Reap, BetweenSteps, pool
<1>2. TypeOK /\ PoolOk /\ PositionsAgree /\ Numbering /\ Slots /\ Progress
      /\ Reserved /\ WaiterLead
  BY DEF IInv
<1>3. /\ ids \in [Requests -> Sequences \cup {NoSequence}]
      /\ order \in [Sequences -> (UNION Range(Shapes)) \cup {NoShape}]
      /\ phase \in [Sequences -> {"absent", "queued", "prefilling", "decoding", "done"}]
      /\ finish \in [Sequences -> {"none", "stop", "length", "cancelled", "fault", "memory"}]
      /\ prompt_cursor \in [Sequences -> Nat]
      /\ output \in [Sequences -> Nat] /\ vtime \in [Sequences -> Nat]
  BY <1>2 DEF TypeOK
<1>4. /\ \A t \in Sequences \ {s} :
           /\ phase'[t] = phase[t] /\ finish'[t] = finish[t] /\ order'[t] = order[t]
           /\ prompt_cursor'[t] = prompt_cursor[t]
           /\ output'[t] = output[t] /\ vtime'[t] = vtime[t]
      /\ phase'[s] = "absent" /\ finish'[s] = "none"
      /\ prompt_cursor'[s] = 0 /\ output'[s] = 0
  BY <1>1, <1>3
<1>5. s \notin Live /\ Live \subseteq Sequences /\ Runnable \subseteq Live
  BY <1>1 DEF Live, Runnable
<1>6. Live' = Live /\ Runnable' = Runnable
  <2>1. \A t \in Sequences : phase'[t] \in {"queued", "prefilling", "decoding"}
                             <=> phase[t] \in {"queued", "prefilling", "decoding"}
    BY <1>1, <1>4
  <2>2. Live' = Live
    BY <2>1 DEF Live
  <2> QED
    BY <1>1, <2>2 DEF Runnable
<1>7. \A t \in Live : t \in Sequences \ {s}
  BY <1>5
<1>8. TypeOK'
  <2>1. ids' \in [Requests -> Sequences \cup {NoSequence}]
    BY <1>1, <1>3
  <2>2. order' \in [Sequences -> (UNION Range(Shapes)) \cup {NoShape}]
    BY <1>1, <1>3
  <2>3. /\ phase' \in [Sequences -> {"absent", "queued", "prefilling", "decoding", "done"}]
        /\ finish' \in [Sequences -> {"none", "stop", "length", "cancelled", "fault", "memory"}]
    BY <1>1, <1>3
  <2>4. /\ prompt_cursor' \in [Sequences -> Nat]
        /\ output' \in [Sequences -> Nat] /\ vtime' \in [Sequences -> Nat]
    BY <1>1, <1>3
  <2>5. needs_forward' \subseteq Sequences
    BY <1>1, <1>2 DEF TypeOK
  <2> QED
    BY <1>1, <1>2, <2>1, <2>2, <2>3, <2>4, <2>5 DEF TypeOK
<1>9. Numbering'
  <2>1. ids'[r] = NoSequence /\ \A q \in Requests \ {r} : ids'[q] = ids[q] /\ ids[q] # s
    <3>1. s # NoSequence
      BY <1>1, SchedulerAssumption DEF NoSequence
    <3>2. \A q \in Requests : ids[q] = s => q = r
      BY <1>0, <1>2, <3>1 DEF Numbering
    <3> QED
      BY <1>1, <1>3, <3>2
  <2>2. \A t \in Sequences : t > next_sequence => phase'[t] = "absent"
    BY <1>2, <1>4 DEF Numbering
  <2>3. \A q \in Requests : ids'[q] # NoSequence => phase'[ids'[q]] # "absent"
    <3> SUFFICES ASSUME NEW q \in Requests, ids'[q] # NoSequence
                 PROVE  phase'[ids'[q]] # "absent"
      OBVIOUS
    <3>1. q # r /\ ids'[q] = ids[q] /\ ids[q] \in Sequences \ {s}
      BY <1>3, <2>1
    <3> QED
      BY <1>2, <1>4, <3>1 DEF Numbering
  <2>4. \A p, q \in Requests : ids'[p] = ids'[q] /\ ids'[q] # NoSequence => p = q
    BY <1>2, <2>1 DEF Numbering
  <2>5. \A t \in Sequences : phase'[t] # "absent" => \E q \in Requests : ids'[q] = t
    <3> SUFFICES ASSUME NEW t \in Sequences, phase'[t] # "absent"
                 PROVE  \E q \in Requests : ids'[q] = t
      OBVIOUS
    <3>1. t # s
      BY <1>4
    <3>2. PICK q \in Requests : ids[q] = t
      BY <1>2, <1>4, <3>1 DEF Numbering
    <3> QED
      BY <1>0, <2>1, <3>1, <3>2
  <2> QED
    BY <1>1, <2>2, <2>3, <2>4, <2>5 DEF Numbering
<1>10. Slots'
  <2>1. \A t \in Sequences : phase'[t] = "absent" =>
          /\ prompt_cursor'[t] = 0 /\ output'[t] = 0
          /\ finish'[t] = "none" /\ t \notin needs_forward'
    BY <1>1, <1>2, <1>4 DEF Slots
  <2>2. \A t \in Live' : /\ order'[t] \in UNION Range(Shapes)
                         /\ order'[t].prompt + order'[t].max <= MaxContext
                         /\ finish'[t] = "none"
    BY <1>2, <1>4, <1>6, <1>7 DEF Slots
  <2>3. \A t \in Sequences : phase'[t] = "done" => finish'[t] # "none"
    BY <1>2, <1>4 DEF Slots
  <2>4. AdmittedNeverOom' /\ cancel' \subseteq Live'
    BY <1>1, <1>2, <1>4, <1>6 DEF Slots, AdmittedNeverOom
  <2> QED
    BY <2>1, <2>2, <2>3, <2>4 DEF Slots
<1>11. Progress'
  <2> SUFFICES ASSUME NEW t \in Live
               PROVE  /\ Waiting(t)' => /\ prompt_cursor'[t] < order'[t].prompt
                                        /\ output'[t] = 0 /\ t \notin needs_forward'
                      /\ phase'[t] = "decoding" => /\ output'[t] < order'[t].max
                                                   /\ t \in kv_open'
                                                   /\ t \in needs_forward' <=> output'[t] > 0
    BY <1>6 DEF Progress
  <2> QED
    BY <1>1, <1>2, <1>4, <1>7 DEF Progress, Waiting
<1>12. PoolOk'
  BY <1>1, <1>2, <1>6 DEF PoolOk
<1>13. Reserved'
  <2>1. Claims' = Claims
    BY <1>4, <1>6, <1>7, ClaimsSame
  <2> QED
    BY <1>1, <1>2, <1>6, <2>1 DEF Reserved
<1>14. Steps'
  BY <1>1 DEF Steps
<1>15. PositionsAgree'
  <2>1. \A t \in Live : chunk.sequence # t
    BY <1>1, LiveFacts DEF NoChunk
  <2> QED
    BY <1>1, <1>2, <1>4, <1>6, <1>7, <2>1 DEF PositionsAgree
<1>16. WaiterLead'
  <2>1. \A p \in AwaitsPrefill' : p \in AwaitsPrefill /\ p \in Live
    BY <1>4, <1>5, <1>6, <1>7 DEF AwaitsPrefill
  <2>2. \A p \in Live : CostPerToken(p)' = CostPerToken(p)
    BY <1>4, <1>7 DEF CostPerToken
  <2> SUFFICES ASSUME NEW p \in AwaitsPrefill', NEW t \in Runnable'
               PROVE  vtime'[p] <= vtime'[t] + PrefillChunk * CostPerToken(p)'
    BY DEF WaiterLead
  <2>3. p \in AwaitsPrefill /\ t \in Runnable /\ p \in Sequences \ {s} /\ t \in Sequences \ {s}
    BY <1>5, <1>6, <1>7, <2>1
  <2>4. vtime[p] <= vtime[t] + PrefillChunk * CostPerToken(p)
    BY <1>2, <2>3 DEF WaiterLead
  <2> QED
    BY <1>4, <2>1, <2>2, <2>3, <2>4
<1> QED
  BY <1>8, <1>9, <1>10, <1>11, <1>12, <1>13, <1>14, <1>15, <1>16 DEF IInv

-----------------------------------------------------------------------------
LEMMA NextIInv == IInv /\ [Next]_vars => IInv'
<1> SUFFICES ASSUME IInv, [Next]_vars PROVE IInv'
  OBVIOUS
<1>1. CASE Step
  BY <1>1, ServeCancelStep, StartPrefillStep, PrefillTokenStep, PrefillEndsStep,
     StartDecodeStep, DecodeRowStep, DecodeLastRowStep, StepFailsStep DEF Step
<1>2. ASSUME NEW r \in Requests, Cancel(r) PROVE IInv'
  BY <1>2, CancelStep
<1>3. ASSUME NEW r \in Requests, Reap(r) PROVE IInv'
  BY <1>3, ReapStep
<1>4. ASSUME NEW r \in Requests, NEW shape \in Shapes[r], Submit(r, shape) PROVE IInv'
  BY <1>4, SubmitStep
<1>5. CASE UNCHANGED vars
  <2>1. /\ UNCHANGED <<ids, next_sequence, phase, finish, cancel, chunk, batch>>
        /\ UNCHANGED <<reserved_pages, holding_pages, kv_open, kv>>
        /\ UNCHANGED <<order, prompt_cursor, output, vtime, needs_forward>>
    BY <1>5 DEF vars, pool, service
  <2>2. Live' = Live /\ Runnable' = Runnable /\ AwaitsPrefill' = AwaitsPrefill
    BY <2>1 DEF Live, Runnable, AwaitsPrefill
  <2>3. TypeOK' /\ Numbering'
    BY <2>1 DEF IInv, TypeOK, Numbering
  <2>4. Slots' /\ Progress'
    BY <2>1, <2>2 DEF IInv, Slots, AdmittedNeverOom, Progress, Waiting
  <2>5. PoolOk' /\ Reserved'
    BY <2>1, <2>2, ClaimsSame DEF IInv, PoolOk, Reserved
  <2>6. Steps' /\ PositionsAgree'
    BY <2>1, <2>2 DEF IInv, Steps, PositionsAgree, Chunk, Waiting
  <2>7. WaiterLead'
    BY <2>1, <2>2 DEF IInv, WaiterLead, CostPerToken
  <2> QED
    BY <2>3, <2>4, <2>5, <2>6, <2>7 DEF IInv
<1> QED
  BY <1>1, <1>2, <1>3, <1>4, <1>5 DEF Next

(* The invariant every result about the scheduler rests on.                 *)
THEOREM SchedulerInvariant == Spec => []IInv
<1>1. Init => IInv
  BY InitIInv
<1>2. IInv /\ [Next]_vars => IInv'
  BY NextIInv
<1> QED
  BY <1>1, <1>2, PTL DEF Spec

(* Every variable keeps its type, the page count's bound included.          *)
THEOREM SchedulerTypeCorrect == Spec => []TypeOK
<1>1. IInv => TypeOK
  BY DEF IInv
<1> QED
  BY <1>1, SchedulerInvariant, PTL

(* The reservation is exact and every sequence stays within its share:      *)
(* admission and release_pages are each other's inverse.                    *)
THEOREM ReservationIsExact == Spec => []ReservationExact
<1>1. IInv => ReservationExact
  <2> SUFFICES ASSUME IInv PROVE ReservationExact
    OBVIOUS
  <2>1. holding_pages = Live /\ reserved_pages = Cardinality(Claims)
    BY DEF IInv, Reserved
  <2>2. ASSUME NEW s \in Sequences
        PROVE  Cardinality(Held(kv, s)) <= IF s \in Live THEN PageNeed(order[s]) ELSE 0
    <3>1. Quiet(kv) /\ kv.open \subseteq Live
      BY DEF IInv, PoolOk
    <3>2. CASE s \in Live
      <4>1. order[s] \in UNION Range(Shapes) /\ PageNeed(order[s]) \in Nat
        BY <3>2, LiveFacts
      <4>2. Len(kv.table[s].committed) <= PageNeed(order[s])
        BY <3>1, <3>2, <4>1, PositionsInside, TableWithinNeed
      <4> QED
        BY <3>1, <3>2, <4>1, <4>2, HeldWithinNeed
    <3>3. CASE s \notin Live
      <4>1. kv.table[s] = NoBlock
        BY <3>1, <3>3, QuietBlock
      <4>2. Len(kv.table[s].committed) = 0
        BY <4>1 DEF NoBlock, Record
      <4> QED
        BY <3>1, <3>3, <4>2, HeldWithinNeed
    <3> QED
      BY <3>2, <3>3
  <2> QED
    BY <2>1, <2>2 DEF ReservationExact
<1> QED
  BY <1>1, SchedulerInvariant, PTL

(* An admitted request is never refused a page: if the pool were empty, its *)
(* pages would be the images of fewer claims than the reservation counts.   *)
THEOREM AdmittedIsNeverOom == Spec => []AdmittedNeverOom
<1>1. IInv => AdmittedNeverOom
  BY DEF IInv, Slots
<1> QED
  BY <1>1, SchedulerInvariant, PTL

(* No step of the scheduler meets one of its internal errors.               *)
THEOREM NoStepErrs == Spec => []StepNeverErrs
<1>1. IInv => StepNeverErrs
  <2> SUFFICES ASSUME IInv PROVE StepNeverErrs
    OBVIOUS
  <2>1. ASSUME Runnable # {}, phase[First(Runnable)] = "decoding"
        PROVE  DecodeBatch # {}
    <3>1. vtime \in [Sequences -> Nat] /\ Runnable \in SUBSET Sequences
      BY DEF IInv, TypeOK, Runnable, Live
    <3>2. First(Runnable) \in Runnable /\ \A t \in Runnable : vtime[First(Runnable)] <= vtime[t]
      BY <2>1, <3>1, FirstIsLeast
    <3>3. First(Runnable) \in DecodeBatch
      BY <2>1, <3>2 DEF DecodeBatch, AwaitsPrefill
    <3> QED
      BY <3>3
  <2>2. ASSUME NEW s \in Live
        PROVE  /\ phase[s] \in {"queued", "prefilling"} => prompt_cursor[s] < order[s].prompt
               /\ s \in needs_forward => output[s] > 0 /\ s \in kv_open
               /\ phase[s] = "decoding" /\ s \notin needs_forward => output[s] = 0
               /\ kv.table[s].len <= MaxContext
    <3>1. Progress /\ output[s] \in Nat
      BY LiveFacts DEF IInv
    <3>2. /\ phase[s] \in {"queued", "prefilling"} => prompt_cursor[s] < order[s].prompt
          /\ s \in needs_forward => output[s] > 0 /\ s \in kv_open
          /\ phase[s] = "decoding" /\ s \notin needs_forward => output[s] = 0
      BY <3>1, LiveFacts DEF Progress, Waiting
    <3>3. kv.table[s].len < order[s].prompt + order[s].max
      BY PositionsInside
    <3>4. kv.table[s].len \in Nat
      BY LiveFacts, QuietBlock DEF IInv, PoolOk
    <3>5. kv.table[s].len <= MaxContext
      BY <3>3, <3>4, LiveFacts, SchedulerAssumption
    <3> QED
      BY <3>2, <3>5
  <2>3. ASSUME NEW s \in holding_pages
        PROVE  PageNeed(order[s]) <= reserved_pages
    <3>1. s \in Live /\ IsFiniteSet(Claims) /\ reserved_pages = Cardinality(Claims)
      BY <2>3 DEF IInv, Reserved
    <3>2. PageNeed(order[s]) \in Nat
      BY <3>1, LiveFacts
    <3>3. ClaimsOf(s) \in SUBSET Claims
      BY <3>1 DEF Claims
    <3>4. Cardinality(ClaimsOf(s)) <= Cardinality(Claims)
      BY <3>1, <3>3, FS_Subset
    <3>5. IsFiniteSet({s}) /\ Cardinality({s}) = 1
      BY FS_Singleton
    <3>6. IsFiniteSet(1 .. PageNeed(order[s])) /\ Cardinality(1 .. PageNeed(order[s])) = PageNeed(order[s])
      BY <3>2, FS_Interval
    <3>7. Cardinality(ClaimsOf(s)) = Cardinality({s}) * Cardinality(1 .. PageNeed(order[s]))
      BY <3>5, <3>6, FS_Product DEF ClaimsOf
    <3>8. Cardinality(ClaimsOf(s)) = PageNeed(order[s])
      BY <3>2, <3>5, <3>6, <3>7
    <3> QED
      BY <3>1, <3>4, <3>8
  <2>4. kv_open = kv.open
    BY DEF IInv, PoolOk
  <2> QED
    BY <2>1, <2>2, <2>3, <2>4 DEF StepNeverErrs
<1> QED
  BY <1>1, SchedulerInvariant, PTL

(* The cached length of every live sequence is its position.                *)
THEOREM PositionsAlwaysAgree == Spec => []PositionsAgree
<1>1. IInv => PositionsAgree
  BY DEF IInv
<1> QED
  BY <1>1, SchedulerInvariant, PTL

(* A waiting prefill is ahead of no other sequence by more than one chunk.  *)
THEOREM LeadIsBounded == Spec => []WaiterLead
<1>1. IInv => WaiterLead
  BY DEF IInv
<1> QED
  BY <1>1, SchedulerInvariant, PTL

-----------------------------------------------------------------------------
(* The refinement: every step of the scheduler is one that RequestLifecycle *)
(* allows, or changes nothing a client can see.                             *)

BudgetOf(r) == IF ids[r] = NoSequence THEN 0 ELSE order[ids[r]].max
ProducedOf(r) == IF ids[r] = NoSequence THEN 0 ELSE output[ids[r]]

Stages == [r \in Requests |-> StageOf(r)]
Budgets == [r \in Requests |-> BudgetOf(r)]
Produceds == [r \in Requests |-> ProducedOf(r)]

(* A step that touches one request, or none, leaves what the clients of the *)
(* others see. Its sequence is s.                                           *)
Untouched(q) ==
  /\ StageOf(q)' = StageOf(q)
  /\ BudgetOf(q)' = BudgetOf(q)
  /\ ProducedOf(q)' = ProducedOf(q)

SameSlot(t) ==
  /\ t \in cancel' <=> t \in cancel
  /\ t \in Live' <=> t \in Live
  /\ finish'[t] = finish[t] /\ order'[t] = order[t] /\ output'[t] = output[t]

LEMMA OthersUntouched ==
  ASSUME IInv, NEW s, NEW q \in Requests, ids'[q] = ids[q], ids[q] # s,
         \A t \in Sequences \ {s} : SameSlot(t)
  PROVE  Untouched(q)
<1>1. ids[q] \in Sequences \cup {NoSequence}
  BY DEF IInv, TypeOK
<1>2. CASE ids[q] = NoSequence
  BY <1>2 DEF Untouched, StageOf, BudgetOf, ProducedOf
<1>3. CASE ids[q] # NoSequence
  <2>1. SameSlot(ids[q])
    BY <1>1, <1>3
  <2> QED
    BY <1>3, <2>1 DEF Untouched, StageOf, BudgetOf, ProducedOf, SameSlot
<1> QED
  BY <1>2, <1>3

(* One request of a live sequence, and none but it.                         *)
LEMMA RequestOf ==
  ASSUME IInv, NEW s \in Live
  PROVE  \E r \in Requests :
           /\ ids[r] = s /\ \A q \in Requests \ {r} : ids[q] # s
           /\ StageOf(r) = IF s \in cancel THEN "cancelling" ELSE "active"
           /\ BudgetOf(r) = order[s].max /\ ProducedOf(r) = output[s]
<1>1. s \in Sequences /\ s # NoSequence /\ phase[s] # "absent"
  BY LiveFacts DEF Live
<1>2. PICK r \in Requests : ids[r] = s
  BY <1>1 DEF IInv, Numbering
<1>3. \A q \in Requests \ {r} : ids[q] # s
  BY <1>1, <1>2 DEF IInv, Numbering
<1> QED
  BY <1>1, <1>2, <1>3 DEF StageOf, BudgetOf, ProducedOf

(* What changes at one place of the mapped functions.                       *)
LEMMA ChangedAt ==
  ASSUME NEW r \in Requests, \A q \in Requests \ {r} : Untouched(q)
  PROVE  /\ Stages' = [Stages EXCEPT ![r] = StageOf(r)']
         /\ Budgets' = [Budgets EXCEPT ![r] = BudgetOf(r)']
         /\ Produceds' = [Produceds EXCEPT ![r] = ProducedOf(r)']
<1>1. \A q \in Requests \ {r} : /\ StageOf(q)' = StageOf(q)
                                /\ BudgetOf(q)' = BudgetOf(q)
                                /\ ProducedOf(q)' = ProducedOf(q)
  BY DEF Untouched
<1>2. Stages' = [q \in Requests |-> StageOf(q)']
  BY DEF Stages
<1>3. Budgets' = [q \in Requests |-> BudgetOf(q)']
  BY DEF Budgets
<1>4. Produceds' = [q \in Requests |-> ProducedOf(q)']
  BY DEF Produceds
<1>5. Stages' = [Stages EXCEPT ![r] = StageOf(r)']
  BY <1>1, <1>2 DEF Stages
<1>6. Budgets' = [Budgets EXCEPT ![r] = BudgetOf(r)']
  BY <1>1, <1>3 DEF Budgets
<1>7. Produceds' = [Produceds EXCEPT ![r] = ProducedOf(r)']
  BY <1>1, <1>4 DEF Produceds
<1> QED
  BY <1>5, <1>6, <1>7

LEMMA NothingChanged ==
  ASSUME \A q \in Requests : Untouched(q)
  PROVE  Stages' = Stages /\ Budgets' = Budgets /\ Produceds' = Produceds
<1>1. Stages' = [q \in Requests |-> StageOf(q)']
  BY DEF Stages
<1>2. Budgets' = [q \in Requests |-> BudgetOf(q)']
  BY DEF Budgets
<1>3. Produceds' = [q \in Requests |-> ProducedOf(q)']
  BY DEF Produceds
<1> QED
  BY <1>1, <1>2, <1>3 DEF Untouched, Stages, Budgets, Produceds

(* The abstract steps, said of the one request that moves.                  *)
LEMMA AbstractStep ==
  ASSUME NEW r \in Requests, \A q \in Requests \ {r} : Untouched(q),
         \/ /\ StageOf(r) = "none" /\ StageOf(r)' = "active"
            /\ BudgetOf(r)' \in 1 .. MaxContext /\ ProducedOf(r)' = ProducedOf(r)
         \/ /\ StageOf(r) = "active" /\ ProducedOf(r)' = ProducedOf(r) + 1
            /\ BudgetOf(r)' = BudgetOf(r)
            /\ \/ StageOf(r)' = "active" /\ ProducedOf(r) + 1 < BudgetOf(r)
               \/ StageOf(r)' = "stop" /\ ProducedOf(r) + 1 <= BudgetOf(r)
               \/ StageOf(r)' = "length" /\ ProducedOf(r) + 1 = BudgetOf(r)
         \/ /\ StageOf(r) = "active" /\ StageOf(r)' \in {"error", "cancelling"}
            /\ BudgetOf(r)' = BudgetOf(r) /\ ProducedOf(r)' = ProducedOf(r)
         \/ /\ StageOf(r) = "cancelling" /\ StageOf(r)' = "cancelled"
            /\ BudgetOf(r)' = BudgetOf(r) /\ ProducedOf(r)' = ProducedOf(r)
         \/ /\ StageOf(r) \in {"stop", "length", "cancelled", "error"} /\ StageOf(r)' = "none"
            /\ BudgetOf(r)' = 0 /\ ProducedOf(r)' = 0
  PROVE  Lifecycle!Next
<1>1. /\ Stages' = [Stages EXCEPT ![r] = StageOf(r)']
      /\ Budgets' = [Budgets EXCEPT ![r] = BudgetOf(r)']
      /\ Produceds' = [Produceds EXCEPT ![r] = ProducedOf(r)']
  BY ChangedAt
<1>2. /\ Stages[r] = StageOf(r) /\ Budgets[r] = BudgetOf(r) /\ Produceds[r] = ProducedOf(r)
      /\ StageOf(r)' = StageOf(r) => Stages' = Stages
      /\ BudgetOf(r)' = BudgetOf(r) => Budgets' = Budgets
      /\ ProducedOf(r)' = ProducedOf(r) => Produceds' = Produceds
  BY <1>1 DEF Stages, Budgets, Produceds
<1>3. /\ [q \in Requests |-> StageOf(q)] = Stages
      /\ [q \in Requests |-> IF ids[q] = NoSequence THEN 0 ELSE order[ids[q]].max] = Budgets
      /\ [q \in Requests |-> IF ids[q] = NoSequence THEN 0 ELSE output[ids[q]]] = Produceds
  BY DEF Stages, Budgets, Produceds, BudgetOf, ProducedOf
<1>4. /\ [q \in Requests |-> StageOf(q)]' = Stages'
      /\ [q \in Requests |-> IF ids[q] = NoSequence THEN 0 ELSE order[ids[q]].max]' = Budgets'
      /\ [q \in Requests |-> IF ids[q] = NoSequence THEN 0 ELSE output[ids[q]]]' = Produceds'
  BY DEF Stages, Budgets, Produceds, BudgetOf, ProducedOf
<1>5. CASE /\ StageOf(r) = "none" /\ StageOf(r)' = "active"
           /\ BudgetOf(r)' \in 1 .. MaxContext /\ ProducedOf(r)' = ProducedOf(r)
  <2>1. Lifecycle!Admit(r)
    BY <1>1, <1>2, <1>3, <1>4, <1>5 DEF Lifecycle!Admit
  <2> QED
    BY <2>1 DEF Lifecycle!Next
<1>6. CASE /\ StageOf(r) = "active" /\ ProducedOf(r)' = ProducedOf(r) + 1
           /\ BudgetOf(r)' = BudgetOf(r)
           /\ \/ StageOf(r)' = "active" /\ ProducedOf(r) + 1 < BudgetOf(r)
              \/ StageOf(r)' = "stop" /\ ProducedOf(r) + 1 <= BudgetOf(r)
              \/ StageOf(r)' = "length" /\ ProducedOf(r) + 1 = BudgetOf(r)
  <2>1. Lifecycle!Produce(r)
    BY <1>1, <1>2, <1>3, <1>4, <1>6 DEF Lifecycle!Produce
  <2> QED
    BY <2>1 DEF Lifecycle!Next
<1>7. CASE /\ StageOf(r) = "active" /\ StageOf(r)' \in {"error", "cancelling"}
           /\ BudgetOf(r)' = BudgetOf(r) /\ ProducedOf(r)' = ProducedOf(r)
  <2>1. Lifecycle!Fail(r) \/ Lifecycle!Cancel(r)
    BY <1>1, <1>2, <1>3, <1>4, <1>7 DEF Lifecycle!Fail, Lifecycle!Cancel
  <2> QED
    BY <2>1 DEF Lifecycle!Next
<1>8. CASE /\ StageOf(r) = "cancelling" /\ StageOf(r)' = "cancelled"
           /\ BudgetOf(r)' = BudgetOf(r) /\ ProducedOf(r)' = ProducedOf(r)
  <2>1. Lifecycle!Drop(r)
    BY <1>1, <1>2, <1>3, <1>4, <1>8 DEF Lifecycle!Drop
  <2> QED
    BY <2>1 DEF Lifecycle!Next
<1>9. CASE /\ StageOf(r) \in {"stop", "length", "cancelled", "error"} /\ StageOf(r)' = "none"
           /\ BudgetOf(r)' = 0 /\ ProducedOf(r)' = 0
  <2>1. Lifecycle!Forget(r)
    BY <1>1, <1>2, <1>3, <1>4, <1>9 DEF Lifecycle!Forget, Lifecycle!Ended
  <2> QED
    BY <2>1 DEF Lifecycle!Next
<1> QED
  BY <1>5, <1>6, <1>7, <1>8, <1>9

(* What a retirement shows of the request whose sequence it ends.           *)
LEMMA RetiredStage ==
  ASSUME IInv, NEW s \in Live, NEW why \in Reasons, Retire(s, why),
         UNCHANGED <<ids, next_sequence, order, prompt_cursor>>,
         NEW r \in Requests, ids[r] = s
  PROVE  /\ StageOf(r)' = IF why = "fault" THEN "error" ELSE why
         /\ BudgetOf(r)' = BudgetOf(r) /\ ProducedOf(r)' = output'[s]
         /\ \A t \in Sequences \ {s} :
              /\ t \in cancel' <=> t \in cancel
              /\ t \in Live' <=> t \in Live
              /\ finish'[t] = finish[t] /\ order'[t] = order[t]
<1>1. s \in Sequences /\ s # NoSequence
  BY LiveFacts
<1>2. /\ Live' = Live \ {s} /\ finish'[s] = why
      /\ \A t \in Sequences \ {s} : finish'[t] = finish[t]
  BY RetireFacts
<1>3. cancel' = cancel \ {s}
  BY DEF Retire
<1>4. StageOf(r)' = IF why = "fault" THEN "error" ELSE why
  BY <1>1, <1>2, <1>3 DEF StageOf, Reasons
<1>5. BudgetOf(r)' = BudgetOf(r) /\ ProducedOf(r)' = output'[s]
  BY <1>1 DEF BudgetOf, ProducedOf
<1> QED
  BY <1>2, <1>3, <1>4, <1>5

LEMMA SubmitRefines ==
  ASSUME IInv, NEW r \in Requests, NEW shape \in Shapes[r], Submit(r, shape)
  PROVE  Lifecycle!Next
<1> DEFINE s == next_sequence + 1
<1>1. /\ s \in Sequences /\ ids[r] = NoSequence
      /\ shape.prompt + shape.max <= MaxContext
      /\ ids' = [ids EXCEPT ![r] = s]
      /\ order' = [order EXCEPT ![s] = shape]
      /\ phase' = [phase EXCEPT ![s] = "queued"]
      /\ UNCHANGED <<finish, cancel, output>>
  BY DEF Submit, Admissible
<1>2. /\ ids \in [Requests -> Sequences \cup {NoSequence}]
      /\ order \in [Sequences -> (UNION Range(Shapes)) \cup {NoShape}]
      /\ phase \in [Sequences -> {"absent", "queued", "prefilling", "decoding", "done"}]
      /\ next_sequence \in Nat
  BY SchedulerAssumption DEF IInv, TypeOK, NoSequence
<1>3. s > next_sequence /\ s # NoSequence
  BY <1>2 DEF NoSequence
<1>4. phase[s] = "absent" /\ s \notin Live
  BY <1>1, <1>3 DEF IInv, Numbering, Live
<1>5. s \notin cancel /\ output[s] = 0
  BY <1>1, <1>4 DEF IInv, Slots
<1> HIDE DEF s
<1>6. \A t \in Sequences \ {s} : SameSlot(t)
  <2> SUFFICES ASSUME NEW t \in Sequences \ {s} PROVE SameSlot(t)
    OBVIOUS
  <2>1. phase'[t] = phase[t] /\ order'[t] = order[t]
    BY <1>1, <1>2
  <2> QED
    BY <1>1, <2>1 DEF SameSlot, Live
<1>7. \A q \in Requests \ {r} : Untouched(q)
  <2> SUFFICES ASSUME NEW q \in Requests \ {r} PROVE Untouched(q)
    OBVIOUS
  <2>1. ids'[q] = ids[q]
    BY <1>1, <1>2
  <2>2. ids[q] # s
    BY <1>1, <1>3, <1>4 DEF IInv, Numbering
  <2> QED
    BY <1>6, <2>1, <2>2, OthersUntouched
<1>8. ids'[r] = s /\ s \in Live' /\ order'[s] = shape
  BY <1>1, <1>2 DEF Live
<1>9. StageOf(r) = "none" /\ StageOf(r)' = "active"
  BY <1>1, <1>3, <1>5, <1>8 DEF StageOf
<1>10. ProducedOf(r)' = ProducedOf(r)
  BY <1>1, <1>3, <1>5, <1>8 DEF ProducedOf
<1>11. BudgetOf(r)' \in 1 .. MaxContext
  <2>1. BudgetOf(r)' = shape.max
    BY <1>3, <1>8 DEF BudgetOf
  <2>2. shape.prompt \in Nat \ {0} /\ shape.max \in Nat \ {0}
    BY ShapeOfRequest, ShapeFacts
  <2> QED
    BY <1>1, <2>1, <2>2, SchedulerAssumption
<1> QED
  BY <1>7, <1>9, <1>10, <1>11, AbstractStep

LEMMA CancelRefines ==
  ASSUME IInv, NEW r \in Requests, Cancel(r)
  PROVE  Lifecycle!Next
<1>0. PICK s : s = ids[r]
  OBVIOUS
<1>1. /\ s \in Runnable /\ cancel' = cancel \cup {s}
      /\ UNCHANGED <<ids, phase, finish>>
      /\ UNCHANGED <<order, output>>
  BY <1>0 DEF Cancel, service
<1>2. s \in Live /\ s \notin cancel /\ s # NoSequence
  BY <1>1, LiveFacts DEF Runnable
<1>3. Live' = Live
  BY <1>1 DEF Live
<1>4. \A t \in Sequences \ {s} : SameSlot(t)
  BY <1>1, <1>3 DEF SameSlot
<1>5. \A q \in Requests \ {r} : ids[q] # s
  BY <1>0, <1>2 DEF IInv, Numbering
<1>6. \A q \in Requests \ {r} : Untouched(q)
  BY <1>1, <1>4, <1>5, OthersUntouched
<1>7. StageOf(r) = "active" /\ StageOf(r)' = "cancelling"
  BY <1>0, <1>1, <1>2 DEF StageOf
<1>8. BudgetOf(r)' = BudgetOf(r) /\ ProducedOf(r)' = ProducedOf(r)
  BY <1>1 DEF BudgetOf, ProducedOf
<1> QED
  BY <1>6, <1>7, <1>8, AbstractStep

LEMMA ServeCancelRefines ==
  ASSUME IInv, ServeCancel
  PROVE  Lifecycle!Next
<1>0. PICK s : s = Lowest(PendingCancels)
  OBVIOUS
<1>1. /\ PendingCancels # {} /\ Retire(s, "cancelled")
      /\ UNCHANGED <<ids, next_sequence, order, prompt_cursor>>
      /\ UNCHANGED output
  BY <1>0 DEF ServeCancel, service
<1>2. s \in Live /\ s \in cancel
  <2>1. PendingCancels \in SUBSET Sequences
    BY DEF PendingCancels, Live
  <2>2. s \in PendingCancels
    BY <1>0, <1>1, <2>1, LowestSequence
  <2> QED
    BY <2>2 DEF PendingCancels
<1>3. PICK r \in Requests :
        /\ ids[r] = s /\ \A q \in Requests \ {r} : ids[q] # s
        /\ StageOf(r) = IF s \in cancel THEN "cancelling" ELSE "active"
        /\ BudgetOf(r) = order[s].max /\ ProducedOf(r) = output[s]
  BY <1>2, RequestOf
<1>4. "cancelled" \in Reasons
  BY DEF Reasons
<1>5. /\ StageOf(r)' = "cancelled"
      /\ BudgetOf(r)' = BudgetOf(r) /\ ProducedOf(r)' = output'[s]
      /\ \A t \in Sequences \ {s} :
           /\ t \in cancel' <=> t \in cancel
           /\ t \in Live' <=> t \in Live
           /\ finish'[t] = finish[t] /\ order'[t] = order[t]
  BY <1>1, <1>2, <1>3, <1>4, RetiredStage
<1>6. \A t \in Sequences \ {s} : SameSlot(t)
  BY <1>1, <1>5 DEF SameSlot
<1>7. \A q \in Requests \ {r} : Untouched(q)
  BY <1>1, <1>3, <1>6, OthersUntouched
<1> QED
  BY <1>1, <1>2, <1>3, <1>5, <1>7, AbstractStep

(* Prefill and the choice of a batch show nothing to a client.              *)
LEMMA SilentSteps ==
  ASSUME IInv, StartPrefill \/ PrefillToken \/ PrefillEnds \/ StartDecode
  PROVE  \A q \in Requests : Untouched(q)
<1>1. /\ UNCHANGED <<ids, finish, cancel>>
      /\ UNCHANGED <<order, output>>
  BY DEF StartPrefill, PrefillToken, PrefillEnds, StartDecode, service
<1>2. Live' = Live
  <2>1. CASE StartPrefill \/ PrefillToken \/ StartDecode
    BY <2>1 DEF StartPrefill, PrefillToken, StartDecode, Live
  <2>2. CASE PrefillEnds
    <3>0. PICK s : s = chunk.sequence
      OBVIOUS
    <3>1. PICK p \in {"decoding", "prefilling"} : phase' = [phase EXCEPT ![s] = p]
      BY <2>2, <3>0 DEF PrefillEnds
    <3>2. s \in Live
      BY <2>2, <3>0, ServingFacts DEF PrefillEnds, Runnable
    <3>3. phase \in [Sequences -> {"absent", "queued", "prefilling", "decoding", "done"}]
      BY DEF IInv, TypeOK
    <3>4. \A t \in Sequences : phase'[t] = IF t = s THEN p ELSE phase[t]
      BY <3>1, <3>3
    <3>5. s \in Sequences /\ phase[s] \in {"queued", "prefilling", "decoding"}
      BY <3>2 DEF Live
    <3> QED
      BY <3>4, <3>5 DEF Live
  <2> QED
    BY <2>1, <2>2
<1> QED
  BY <1>1, <1>2 DEF Untouched, StageOf, BudgetOf, ProducedOf

LEMMA DecodeRowRefines ==
  ASSUME IInv, DecodeRow
  PROVE  Lifecycle!Next
<1>0. PICK s : s = First(batch)
  OBVIOUS
<1>1. /\ batch # {} /\ output[s] + 1 # order[s].max /\ Sampled(s)
      /\ UNCHANGED <<ids, phase, finish, cancel, order>>
  BY <1>0 DEF DecodeRow
<1>2. s \in Runnable /\ s \in Live /\ phase[s] = "decoding"
  BY <1>0, <1>1, ServingFacts DEF Runnable
<1>3. PICK r \in Requests :
        /\ ids[r] = s /\ \A q \in Requests \ {r} : ids[q] # s
        /\ StageOf(r) = IF s \in cancel THEN "cancelling" ELSE "active"
        /\ BudgetOf(r) = order[s].max /\ ProducedOf(r) = output[s]
  BY <1>2, RequestOf
<1>4. output'[s] = output[s] + 1 /\ \A t \in Sequences \ {s} : output'[t] = output[t]
  BY <1>1, <1>2, SampledFacts
<1>5. Live' = Live
  BY <1>1 DEF Live
<1>6. \A t \in Sequences \ {s} : SameSlot(t)
  BY <1>1, <1>4, <1>5 DEF SameSlot
<1>7. \A q \in Requests \ {r} : Untouched(q)
  BY <1>1, <1>3, <1>6, OthersUntouched
<1>8. s \notin cancel /\ s # NoSequence
  BY <1>2, LiveFacts DEF Runnable
<1>9. StageOf(r) = "active" /\ StageOf(r)' = "active"
  BY <1>1, <1>3, <1>5, <1>8 DEF StageOf
<1>10. /\ BudgetOf(r)' = BudgetOf(r) /\ ProducedOf(r)' = ProducedOf(r) + 1
  BY <1>1, <1>3, <1>4, <1>8 DEF BudgetOf, ProducedOf
<1>11. ProducedOf(r) + 1 < BudgetOf(r)
  <2>1. output[s] < order[s].max
    BY <1>2 DEF IInv, Progress
  <2>2. output[s] \in Nat /\ order[s].max \in Nat
    BY <1>2, LiveFacts
  <2> QED
    BY <1>1, <1>3, <2>1, <2>2
<1> QED
  BY <1>7, <1>9, <1>10, <1>11, AbstractStep

LEMMA DecodeLastRowRefines ==
  ASSUME IInv, DecodeLastRow
  PROVE  Lifecycle!Next
<1>0. PICK s : s = First(batch)
  OBVIOUS
<1>1. /\ batch # {} /\ Sampled(s)
      /\ \E why \in EndReasons(s) : Retire(s, why)
      /\ UNCHANGED <<ids, next_sequence, order, prompt_cursor>>
  BY <1>0 DEF DecodeLastRow
<1>2. PICK why \in EndReasons(s) : Retire(s, why)
  BY <1>1
<1>3. /\ why \in {"stop", "length"} /\ why \in Reasons
      /\ why = "length" => output[s] + 1 = order[s].max
  BY DEF EndReasons, Reasons
<1>4. s \in Runnable /\ s \in Live /\ phase[s] = "decoding"
  BY <1>0, <1>1, ServingFacts DEF Runnable
<1>5. PICK r \in Requests :
        /\ ids[r] = s /\ \A q \in Requests \ {r} : ids[q] # s
        /\ StageOf(r) = IF s \in cancel THEN "cancelling" ELSE "active"
        /\ BudgetOf(r) = order[s].max /\ ProducedOf(r) = output[s]
  BY <1>4, RequestOf
<1>6. output'[s] = output[s] + 1 /\ \A t \in Sequences \ {s} : output'[t] = output[t]
  BY <1>1, <1>4, SampledFacts
<1>7. /\ StageOf(r)' = why
      /\ BudgetOf(r)' = BudgetOf(r) /\ ProducedOf(r)' = output'[s]
      /\ \A t \in Sequences \ {s} :
           /\ t \in cancel' <=> t \in cancel
           /\ t \in Live' <=> t \in Live
           /\ finish'[t] = finish[t] /\ order'[t] = order[t]
  BY <1>1, <1>2, <1>3, <1>4, <1>5, RetiredStage
<1>8. \A t \in Sequences \ {s} : SameSlot(t)
  BY <1>6, <1>7 DEF SameSlot
<1>9. \A q \in Requests \ {r} : Untouched(q)
  BY <1>1, <1>5, <1>8, OthersUntouched
<1>10. StageOf(r) = "active"
  BY <1>4, <1>5 DEF Runnable
<1>11. ProducedOf(r) + 1 <= BudgetOf(r)
  <2>1. output[s] < order[s].max
    BY <1>4 DEF IInv, Progress
  <2>2. output[s] \in Nat /\ order[s].max \in Nat
    BY <1>4, LiveFacts
  <2> QED
    BY <1>5, <2>1, <2>2
<1> QED
  BY <1>3, <1>5, <1>6, <1>7, <1>9, <1>10, <1>11, AbstractStep

LEMMA StepFailsRefines ==
  ASSUME IInv, StepFails
  PROVE  Lifecycle!Next
<1>0. PICK s : s = Serving
  OBVIOUS
<1>1. /\ batch # {} \/ chunk.left > 0
      /\ Retire(s, IF Fits(s) THEN "fault" ELSE "memory")
      /\ UNCHANGED <<ids, next_sequence, order, prompt_cursor>>
      /\ UNCHANGED output
  BY <1>0 DEF StepFails, service
<1>2. s \in Runnable /\ s \in kv_open
  <2>1. CASE batch # {}
    BY <1>0, <2>1, ServingFacts DEF Serving
  <2>2. CASE batch = {}
    <3>1. chunk # NoChunk
      BY <1>1, <2>2 DEF NoChunk
    <3> QED
      BY <1>0, <2>2, <3>1, ServingFacts DEF Serving
  <2> QED
    BY <2>1, <2>2
<1>3. s \in Live /\ s \notin cancel
  BY <1>2 DEF Runnable
<1>4. Fits(s)
  BY <1>2, LiveFits DEF Fits, RowFits
<1>5. Retire(s, "fault") /\ "fault" \in Reasons
  BY <1>1, <1>4 DEF Reasons
<1>6. PICK r \in Requests :
        /\ ids[r] = s /\ \A q \in Requests \ {r} : ids[q] # s
        /\ StageOf(r) = IF s \in cancel THEN "cancelling" ELSE "active"
        /\ BudgetOf(r) = order[s].max /\ ProducedOf(r) = output[s]
  BY <1>3, RequestOf
<1>7. /\ StageOf(r)' = "error"
      /\ BudgetOf(r)' = BudgetOf(r) /\ ProducedOf(r)' = output'[s]
      /\ \A t \in Sequences \ {s} :
           /\ t \in cancel' <=> t \in cancel
           /\ t \in Live' <=> t \in Live
           /\ finish'[t] = finish[t] /\ order'[t] = order[t]
  BY <1>1, <1>3, <1>5, <1>6, RetiredStage
<1>8. \A t \in Sequences \ {s} : SameSlot(t)
  BY <1>1, <1>7 DEF SameSlot
<1>9. \A q \in Requests \ {r} : Untouched(q)
  BY <1>1, <1>6, <1>8, OthersUntouched
<1> QED
  BY <1>1, <1>3, <1>6, <1>7, <1>9, AbstractStep

LEMMA ReapRefines ==
  ASSUME IInv, NEW r \in Requests, Reap(r)
  PROVE  Lifecycle!Next
<1>0. PICK s : s = ids[r]
  OBVIOUS
<1>1. /\ s \in Sequences /\ phase[s] = "done"
      /\ ids' = [ids EXCEPT ![r] = NoSequence]
      /\ phase' = [phase EXCEPT ![s] = "absent"]
      /\ finish' = [finish EXCEPT ![s] = "none"]
      /\ order' = [order EXCEPT ![s] = NoShape]
      /\ output' = [output EXCEPT ![s] = 0]
      /\ cancel' = cancel
  BY <1>0 DEF Reap
<1>2. /\ ids \in [Requests -> Sequences \cup {NoSequence}]
      /\ order \in [Sequences -> (UNION Range(Shapes)) \cup {NoShape}]
      /\ phase \in [Sequences -> {"absent", "queued", "prefilling", "decoding", "done"}]
      /\ finish \in [Sequences -> {"none", "stop", "length", "cancelled", "fault", "memory"}]
      /\ output \in [Sequences -> Nat]
  BY DEF IInv, TypeOK
<1>3. s # NoSequence /\ s \notin Live
  BY <1>1, SchedulerAssumption DEF NoSequence, Live
<1>4. s \notin cancel /\ finish[s] # "none"
  BY <1>1, <1>3 DEF IInv, Slots
<1>5. \A t \in Sequences \ {s} : SameSlot(t)
  <2> SUFFICES ASSUME NEW t \in Sequences \ {s} PROVE SameSlot(t)
    OBVIOUS
  <2>1. /\ phase'[t] = phase[t] /\ order'[t] = order[t]
        /\ finish'[t] = finish[t] /\ output'[t] = output[t]
    BY <1>1, <1>2
  <2> QED
    BY <1>1, <2>1 DEF SameSlot, Live
<1>6. \A q \in Requests \ {r} : ids'[q] = ids[q] /\ ids[q] # s
  <2>1. \A q \in Requests : ids[q] = s => q = r
    BY <1>0, <1>3 DEF IInv, Numbering
  <2> QED
    BY <1>1, <1>2, <2>1
<1>7. \A q \in Requests \ {r} : Untouched(q)
  BY <1>5, <1>6, OthersUntouched
<1>8. ids'[r] = NoSequence
  BY <1>1, <1>2
<1>9. StageOf(r)' = "none" /\ BudgetOf(r)' = 0 /\ ProducedOf(r)' = 0
  BY <1>8 DEF StageOf, BudgetOf, ProducedOf
<1>10. StageOf(r) \in {"stop", "length", "cancelled", "error"}
  BY <1>0, <1>1, <1>2, <1>3, <1>4 DEF StageOf
<1> QED
  BY <1>7, <1>9, <1>10, AbstractStep

(* The safety of RequestLifecycle: the scheduler's steps are its steps or   *)
(* show nothing. The fairness half of ImplementsFairLifecycle is checked by *)
(* TLC only.                                                                *)
THEOREM ImplementsLifecycle == Spec => Lifecycle!Spec
<1>1. Init => Lifecycle!Init
  <2> SUFFICES ASSUME Init PROVE Lifecycle!Init
    OBVIOUS
  <2>1. \A r \in Requests : ids[r] = NoSequence
    BY DEF Init
  <2> QED
    BY <2>1 DEF Lifecycle!Init, StageOf
<1>2. IInv /\ [Next]_vars => [Lifecycle!Next]_(Lifecycle!vars)
  <2> SUFFICES ASSUME IInv, [Next]_vars
               PROVE  Lifecycle!Next \/ UNCHANGED Lifecycle!vars
    OBVIOUS
  <2>1. ASSUME \A q \in Requests : Untouched(q) PROVE UNCHANGED Lifecycle!vars
    <3>1. Stages' = Stages /\ Budgets' = Budgets /\ Produceds' = Produceds
      BY <2>1, NothingChanged
    <3> QED
      BY <3>1 DEF Lifecycle!vars, Stages, Budgets, Produceds, BudgetOf, ProducedOf
  <2>2. CASE Step
    BY <2>1, <2>2, ServeCancelRefines, SilentSteps, DecodeRowRefines,
       DecodeLastRowRefines, StepFailsRefines DEF Step
  <2>3. ASSUME NEW r \in Requests, Cancel(r) PROVE Lifecycle!Next
    BY <2>3, CancelRefines
  <2>4. ASSUME NEW r \in Requests, Reap(r) PROVE Lifecycle!Next
    BY <2>4, ReapRefines
  <2>5. ASSUME NEW r \in Requests, NEW shape \in Shapes[r], Submit(r, shape)
        PROVE  Lifecycle!Next
    BY <2>5, SubmitRefines
  <2>6. CASE UNCHANGED vars
    <3>1. /\ UNCHANGED <<ids, phase, finish, cancel>>
          /\ UNCHANGED <<order, output>>
      BY <2>6 DEF vars, service
    <3>2. \A q \in Requests : Untouched(q)
      BY <3>1 DEF Untouched, StageOf, BudgetOf, ProducedOf, Live
    <3> QED
      BY <2>1, <3>2
  <2> QED
    BY <2>2, <2>3, <2>4, <2>5, <2>6 DEF Next
<1> QED
  BY <1>1, <1>2, SchedulerInvariant, PTL DEF Spec, Lifecycle!Spec

-----------------------------------------------------------------------------
(* The worker calls step while there is work. Each step does some of it.    *)

(* Tokens a live request has still to be computed: of its prompt those that *)
(* are not cached, and of its budget those that are not sampled.            *)
PromptLeft(s) == IF phase[s] = "decoding" THEN 0 ELSE order[s].prompt - kv.table[s].len
WorkLeft(s) == PromptLeft(s) + (order[s].max - output[s])

(* The same, from what the scheduler keeps in its slots.                    *)
InChunk(s) == IF chunk.sequence = s THEN Chunk(s) - chunk.left ELSE 0
Due(s) ==
  (IF phase[s] = "decoding" THEN 0 ELSE order[s].prompt - prompt_cursor[s] - InChunk(s))
    + (order[s].max - output[s])

WorkKnown == \A s \in Live : WorkLeft(s) = Due(s) /\ WorkLeft(s) \in Nat \ {0}

LEMMA WorkIsDue == IInv => WorkKnown
<1> SUFFICES ASSUME IInv, NEW s \in Live
             PROVE  WorkLeft(s) = Due(s) /\ WorkLeft(s) \in Nat \ {0}
  BY DEF WorkKnown
<1>1. /\ order[s].prompt \in Nat \ {0} /\ order[s].max \in Nat \ {0}
      /\ prompt_cursor[s] \in Nat /\ output[s] \in Nat
      /\ phase[s] \in {"queued", "prefilling", "decoding"}
  BY LiveFacts
<1>2. kv.table[s].len =
        IF phase[s] = "decoding"
        THEN order[s].prompt + (IF output[s] = 0 THEN 0 ELSE output[s] - 1)
        ELSE prompt_cursor[s] + InChunk(s)
  BY DEF IInv, PositionsAgree, InChunk
<1>3. CASE phase[s] = "decoding"
  <2>1. output[s] < order[s].max
    BY <1>3 DEF IInv, Progress
  <2> QED
    BY <1>1, <1>3, <2>1 DEF WorkLeft, PromptLeft, Due
<1>4. CASE phase[s] # "decoding"
  <2>1. Waiting(s)
    BY <1>1, <1>4 DEF Waiting
  <2>2. output[s] = 0
    BY <2>1 DEF IInv, Progress
  <2>3. Chunk(s) \in Nat /\ prompt_cursor[s] + Chunk(s) <= order[s].prompt
    BY <2>1, ChunkFacts
  <2>4. chunk.left \in Nat
    BY SchedulerAssumption DEF IInv, TypeOK
  <2>5. chunk.sequence = s => chunk.left <= Chunk(s)
    BY LiveFacts, ChunkSequence DEF IInv, Steps
  <2>6. InChunk(s) \in 0 .. Chunk(s)
    BY <2>3, <2>4, <2>5 DEF InChunk
  <2> QED
    BY <1>1, <1>2, <1>4, <2>2, <2>3, <2>6 DEF WorkLeft, PromptLeft, Due
<1> QED
  BY <1>3, <1>4

LEMMA WorkIsDueNext == IInv' => WorkKnown'
BY WorkIsDue, PTL

SameWork(s) == s \in Live' /\ WorkLeft(s)' = WorkLeft(s)
Served(s) == s \in Live' => WorkLeft(s)' < WorkLeft(s)

(* What a step does: a token or the end of one request, or the beginning of *)
(* a chunk or a batch that has a token to compute, or the end of a chunk.   *)
Advances ==
  \/ \E s \in Live : Served(s) /\ \A t \in Live \ {s} : SameWork(t)
  \/ /\ \A s \in Live : SameWork(s)
     /\ \/ BetweenSteps /\ (chunk'.left > 0 \/ batch' # {})
        \/ ~BetweenSteps /\ BetweenSteps'

LEMMA RetiringAdvances ==
  ASSUME IInv, NEW s \in Live, NEW why \in Reasons, Retire(s, why),
         UNCHANGED <<ids, next_sequence, order, prompt_cursor>>,
         \A t \in Sequences \ {s} : output'[t] = output[t]
  PROVE  Advances
<1>1. /\ Live' = Live \ {s}
      /\ \A t \in Sequences \ {s} : phase'[t] = phase[t] /\ kv'.table[t] = kv.table[t]
  BY RetireFacts
<1>2. Live \subseteq Sequences
  BY DEF Live
<1>3. \A t \in Live \ {s} : SameWork(t)
  BY <1>1, <1>2 DEF SameWork, WorkLeft, PromptLeft
<1> QED
  BY <1>1, <1>3 DEF Advances, Served

LEMMA StartPrefillAdvances ==
  ASSUME IInv, IInv', StartPrefill
  PROVE  Advances
<1>0. PICK s : s = First(Runnable)
  OBVIOUS
<1>1. /\ chunk = NoChunk /\ batch = {} /\ Runnable # {} /\ phase[s] # "decoding"
      /\ kv_open \subseteq kv_open'
      /\ chunk' = [sequence |-> s, left |-> Chunk(s)]
      /\ UNCHANGED <<ids, next_sequence, phase, finish, cancel, reserved_pages,
                     holding_pages, batch>>
      /\ UNCHANGED <<order, prompt_cursor, output, vtime, needs_forward>>
  BY <1>0 DEF StartPrefill, BetweenSteps, service
<1>2. s \in Runnable
  <2>1. vtime \in [Sequences -> Nat] /\ Runnable \in SUBSET Sequences
    BY DEF IInv, TypeOK, Runnable, Live
  <2> QED
    BY <1>0, <1>1, <2>1, FirstIsLeast
<1>3. s \in Live /\ Waiting(s)
  BY <1>1, <1>2, LiveFacts DEF Runnable, Waiting
<1>4. Chunk(s) \in Nat \ {0}
  BY <1>3, ChunkFacts, SchedulerAssumption
<1>5. Live' = Live /\ \A t \in Live : Chunk(t)' = Chunk(t)
  BY <1>1, PrefillFrame
<1>6. ASSUME NEW t \in Live PROVE SameWork(t)
  <2>1. InChunk(t) = 0
    BY <1>1, LiveFacts DEF InChunk, NoChunk
  <2>2. InChunk(t)' = 0
    BY <1>1, <1>3, <1>4, <1>5 DEF InChunk
  <2> QED
    BY <1>1, <1>5, <2>1, <2>2, WorkIsDue, WorkIsDueNext DEF SameWork, WorkKnown, Due
<1> QED
  BY <1>1, <1>4, <1>6 DEF Advances, BetweenSteps

LEMMA PrefillTokenAdvances ==
  ASSUME IInv, IInv', PrefillToken
  PROVE  Advances
<1>0. PICK s : s = chunk.sequence
  OBVIOUS
<1>1. /\ chunk.left > 0 /\ kv_open \subseteq kv_open'
      /\ chunk' = [sequence |-> s, left |-> chunk.left - 1]
      /\ UNCHANGED <<ids, next_sequence, phase, finish, cancel, reserved_pages,
                     holding_pages, batch>>
      /\ UNCHANGED <<order, prompt_cursor, output, vtime, needs_forward>>
  BY <1>0 DEF PrefillToken, service
<1>2. s \in Live /\ Waiting(s) /\ chunk.left \in Nat
  <2>1. chunk # NoChunk
    BY <1>1 DEF NoChunk
  <2> QED
    BY <1>0, <2>1, ServingFacts, SchedulerAssumption DEF Runnable, IInv, TypeOK
<1>3. Live' = Live /\ \A t \in Live : Chunk(t)' = Chunk(t)
  BY <1>1, PrefillFrame
<1>4. Served(s)
  <2>1. Chunk(s) \in Nat
    BY <1>2, ChunkFacts
  <2>2. InChunk(s)' = InChunk(s) + 1 /\ InChunk(s) \in Int
    BY <1>0, <1>1, <1>2, <1>3, <2>1 DEF InChunk
  <2>3. phase[s] # "decoding" /\ phase'[s] = phase[s]
    BY <1>1, <1>2 DEF Waiting
  <2>4. Due(s)' = Due(s) - 1 /\ Due(s) \in Int
    BY <1>1, <1>2, <2>2, <2>3, LiveFacts DEF Due
  <2> QED
    BY <1>2, <1>3, <2>4, WorkIsDue, WorkIsDueNext DEF Served, WorkKnown
<1>5. ASSUME NEW t \in Live \ {s} PROVE SameWork(t)
  <2>1. InChunk(t)' = InChunk(t)
    BY <1>0, <1>1 DEF InChunk
  <2> QED
    BY <1>1, <1>3, <2>1, WorkIsDue, WorkIsDueNext DEF SameWork, WorkKnown, Due
<1> QED
  BY <1>2, <1>4, <1>5 DEF Advances

LEMMA PrefillEndsAdvances ==
  ASSUME IInv, IInv', PrefillEnds
  PROVE  Advances
<1>0. PICK s : s = chunk.sequence
  OBVIOUS
<1>1. /\ chunk # NoChunk /\ chunk.left = 0 /\ chunk' = NoChunk
      /\ prompt_cursor' = [prompt_cursor EXCEPT ![s] = CursorAfter(s)]
      /\ phase' = [phase EXCEPT ![s] =
           IF CursorAfter(s) = order[s].prompt THEN "decoding" ELSE "prefilling"]
      /\ UNCHANGED <<order, output, batch, cancel>>
  BY <1>0 DEF PrefillEnds
<1>2. s \in Live /\ Waiting(s) /\ batch = {} /\ s \in Sequences /\ s # NoSequence
  BY <1>0, <1>1, ServingFacts, LiveFacts DEF Runnable
<1>3. /\ Chunk(s) \in Nat /\ CursorAfter(s) = prompt_cursor[s] + Chunk(s)
      /\ CursorAfter(s) \in Nat
  BY <1>2, ChunkFacts
<1>4. /\ phase \in [Sequences -> {"absent", "queued", "prefilling", "decoding", "done"}]
      /\ prompt_cursor \in [Sequences -> Nat]
  BY DEF IInv, TypeOK
<1>5. /\ prompt_cursor'[s] = CursorAfter(s)
      /\ phase'[s] = IF CursorAfter(s) = order[s].prompt THEN "decoding" ELSE "prefilling"
      /\ \A t \in Sequences \ {s} : phase'[t] = phase[t] /\ prompt_cursor'[t] = prompt_cursor[t]
  BY <1>1, <1>2, <1>4
<1>6. Live' = Live
  BY <1>2, <1>5 DEF Live, Waiting
<1>7. \A t \in Live : InChunk(t)' = 0
  <2>1. \A t \in Live : t # NoSequence
    BY LiveFacts
  <2>2. chunk'.sequence = NoSequence
    BY <1>1 DEF NoChunk
  <2> QED
    BY <2>1, <2>2 DEF InChunk
<1>8. SameWork(s)
  <2>1. InChunk(s) = Chunk(s)
    BY <1>0, <1>1, <1>3 DEF InChunk
  <2>2. /\ order[s].prompt \in Nat /\ order[s].max \in Nat
        /\ prompt_cursor[s] \in Nat /\ output[s] \in Nat /\ phase[s] # "decoding"
    BY <1>2, LiveFacts DEF Waiting
  <2>3. Due(s) = (order[s].prompt - prompt_cursor[s] - Chunk(s)) + (order[s].max - output[s])
    BY <2>1, <2>2 DEF Due
  <2>4. Due(s)' = (IF CursorAfter(s) = order[s].prompt THEN 0
                   ELSE order[s].prompt - CursorAfter(s)) + (order[s].max - output[s])
    BY <1>1, <1>2, <1>3, <1>5, <1>7, <2>2 DEF Due
  <2>5. Due(s)' = Due(s)
    BY <1>3, <2>2, <2>3, <2>4
  <2> QED
    BY <1>2, <1>6, <2>5, WorkIsDue, WorkIsDueNext DEF SameWork, WorkKnown
<1>9. ASSUME NEW t \in Live \ {s} PROVE SameWork(t)
  <2>1. InChunk(t) = 0 /\ InChunk(t)' = 0
    BY <1>0, <1>7 DEF InChunk
  <2>2. t \in Sequences \ {s}
    BY LiveFacts
  <2>3. Due(t)' = Due(t)
    BY <1>1, <1>5, <2>1, <2>2 DEF Due
  <2> QED
    BY <1>6, <2>3, WorkIsDue, WorkIsDueNext DEF SameWork, WorkKnown
<1> QED
  BY <1>1, <1>2, <1>8, <1>9 DEF Advances, BetweenSteps

LEMMA StartDecodeAdvances ==
  ASSUME IInv, StartDecode
  PROVE  Advances
<1>1. /\ BetweenSteps /\ Runnable # {} /\ phase[First(Runnable)] = "decoding"
      /\ batch' = DecodeBatch
      /\ UNCHANGED <<phase, order, output, kv>>
  BY DEF StartDecode, service, pool
<1>2. vtime \in [Sequences -> Nat] /\ Runnable \in SUBSET Sequences
  BY DEF IInv, TypeOK, Runnable, Live
<1>3. First(Runnable) \in Runnable /\ \A t \in Runnable : vtime[First(Runnable)] <= vtime[t]
  BY <1>1, <1>2, FirstIsLeast
<1>4. First(Runnable) \in DecodeBatch
  BY <1>1, <1>3 DEF DecodeBatch, AwaitsPrefill
<1>5. \A s \in Live : SameWork(s)
  BY <1>1 DEF SameWork, WorkLeft, PromptLeft, Live
<1> QED
  BY <1>1, <1>4, <1>5 DEF Advances

LEMMA DecodeRowAdvances ==
  ASSUME IInv, IInv', DecodeRow
  PROVE  Advances
<1>0. PICK s : s = First(batch)
  OBVIOUS
<1>1. /\ batch # {} /\ Sampled(s)
      /\ UNCHANGED <<phase, order, prompt_cursor, chunk>>
  BY <1>0 DEF DecodeRow
<1>2. s \in Live /\ phase[s] = "decoding" /\ s \in Sequences
  BY <1>0, <1>1, ServingFacts, LiveFacts DEF Runnable
<1>3. output'[s] = output[s] + 1 /\ \A t \in Sequences \ {s} : output'[t] = output[t]
  BY <1>1, <1>2, SampledFacts
<1>4. Live' = Live
  BY <1>1 DEF Live
<1>5. Served(s)
  <2>1. output[s] \in Nat /\ order[s].max \in Nat
    BY <1>2, LiveFacts
  <2>2. Due(s)' = Due(s) - 1 /\ Due(s) \in Int
    BY <1>1, <1>2, <1>3, <2>1 DEF Due
  <2> QED
    BY <1>2, <1>4, <2>2, WorkIsDue, WorkIsDueNext DEF Served, WorkKnown
<1>6. ASSUME NEW t \in Live \ {s} PROVE SameWork(t)
  <2>1. t \in Sequences \ {s}
    BY LiveFacts
  <2>2. Due(t)' = Due(t)
    BY <1>1, <1>3, <2>1 DEF Due, InChunk, Chunk
  <2> QED
    BY <1>4, <2>2, WorkIsDue, WorkIsDueNext DEF SameWork, WorkKnown
<1> QED
  BY <1>2, <1>5, <1>6 DEF Advances

LEMMA StepAdvances ==
  ASSUME IInv, IInv', Step
  PROVE  Advances
<1>1. CASE ServeCancel
  <2>0. PICK s : s = Lowest(PendingCancels)
    OBVIOUS
  <2>1. /\ PendingCancels # {} /\ Retire(s, "cancelled")
        /\ UNCHANGED <<ids, next_sequence, order, prompt_cursor, output>>
    BY <1>1, <2>0 DEF ServeCancel, service
  <2>2. s \in Live
    <3>1. PendingCancels \in SUBSET Sequences /\ PendingCancels \subseteq Live
      BY DEF PendingCancels, Live
    <3> QED
      BY <2>0, <2>1, <3>1, LowestSequence
  <2> QED
    BY <2>1, <2>2, RetiringAdvances DEF Reasons
<1>2. CASE DecodeLastRow
  <2>0. PICK s : s = First(batch)
    OBVIOUS
  <2>1. /\ batch # {} /\ Sampled(s) /\ (\E why \in EndReasons(s) : Retire(s, why))
        /\ UNCHANGED <<ids, next_sequence, order, prompt_cursor>>
    BY <1>2, <2>0 DEF DecodeLastRow
  <2>2. PICK why \in EndReasons(s) : Retire(s, why)
    BY <2>1
  <2>3. s \in Live /\ why \in Reasons
    BY <2>0, <2>1, ServingFacts DEF Runnable, EndReasons, Reasons
  <2>4. \A t \in Sequences \ {s} : output'[t] = output[t]
    BY <2>1, <2>3, SampledFacts
  <2> QED
    BY <2>1, <2>2, <2>3, <2>4, RetiringAdvances
<1>3. CASE StepFails
  <2>0. PICK s : s = Serving
    OBVIOUS
  <2>1. /\ batch # {} \/ chunk.left > 0
        /\ Retire(s, IF Fits(s) THEN "fault" ELSE "memory")
        /\ UNCHANGED <<ids, next_sequence, order, prompt_cursor, output>>
    BY <1>3, <2>0 DEF StepFails, service
  <2>2. s \in Runnable /\ s \in kv_open
    <3>1. batch = {} => chunk # NoChunk
      BY <2>1 DEF NoChunk
    <3> QED
      BY <2>0, <3>1, ServingFacts DEF Serving
  <2>3. Fits(s)
    BY <2>2, LiveFits DEF Fits, RowFits
  <2>4. Retire(s, "fault") /\ "fault" \in Reasons /\ s \in Live
    BY <2>1, <2>2, <2>3 DEF Reasons, Runnable
  <2> QED
    BY <2>1, <2>4, RetiringAdvances
<1> QED
  BY <1>1, <1>2, <1>3, StartPrefillAdvances, PrefillTokenAdvances, PrefillEndsAdvances,
     StartDecodeAdvances, DecodeRowAdvances DEF Step

(* A submit, a cancel or a reap leaves the live requests as they are.       *)
SameService(t) ==
  /\ phase'[t] = phase[t] /\ order'[t] = order[t] /\ vtime'[t] = vtime[t]
  /\ prompt_cursor'[t] = prompt_cursor[t] /\ output'[t] = output[t]
Calls(r) == Cancel(r) \/ Reap(r) \/ \E shape \in Shapes[r] : Submit(r, shape)

LEMMA CallsServeNobody ==
  ASSUME IInv, NEW r \in Requests, Calls(r)
  PROVE  /\ \A t \in Live : SameService(t)
         /\ UNCHANGED <<kv, chunk, batch>>
<1>1. CASE Cancel(r)
  BY <1>1 DEF Cancel, SameService, service, pool
<1>2. CASE Reap(r)
  <2>0. PICK s : s = ids[r]
    OBVIOUS
  <2>1. /\ phase[s] = "done" /\ UNCHANGED <<kv, chunk, batch>>
        /\ phase' = [phase EXCEPT ![s] = "absent"]
        /\ order' = [order EXCEPT ![s] = NoShape]
        /\ prompt_cursor' = [prompt_cursor EXCEPT ![s] = 0]
        /\ output' = [output EXCEPT ![s] = 0]
        /\ vtime' = [vtime EXCEPT ![s] = 0]
    BY <1>2, <2>0 DEF Reap, pool
  <2>2. s \notin Live
    BY <2>1 DEF Live
  <2>3. \A t \in Live : t \in Sequences \ {s}
    BY <2>2 DEF Live
  <2>4. /\ order \in [Sequences -> (UNION Range(Shapes)) \cup {NoShape}]
        /\ phase \in [Sequences -> {"absent", "queued", "prefilling", "decoding", "done"}]
        /\ prompt_cursor \in [Sequences -> Nat]
        /\ output \in [Sequences -> Nat] /\ vtime \in [Sequences -> Nat]
    BY DEF IInv, TypeOK
  <2>5. \A t \in Sequences \ {s} : SameService(t)
    BY <2>1, <2>4 DEF SameService
  <2> QED
    BY <2>1, <2>3, <2>5
<1>3. ASSUME NEW shape \in Shapes[r], Submit(r, shape)
      PROVE  (\A t \in Live : SameService(t)) /\ UNCHANGED <<kv, chunk, batch>>
  <2>0. PICK s : s = next_sequence + 1
    OBVIOUS
  <2>1. /\ s \in Sequences
        /\ order' = [order EXCEPT ![s] = shape]
        /\ vtime' = [vtime EXCEPT ![s] = AdmissionVtime]
        /\ phase' = [phase EXCEPT ![s] = "queued"]
        /\ UNCHANGED <<kv, prompt_cursor, output, chunk, batch>>
    BY <1>3, <2>0 DEF Submit
  <2>2. s > next_sequence
    BY <2>0, SchedulerAssumption DEF IInv, TypeOK, NoSequence
  <2>3. s \notin Live
    BY <2>1, <2>2 DEF IInv, Numbering, Live
  <2>4. \A t \in Live : t \in Sequences \ {s}
    BY <2>3 DEF Live
  <2>5. /\ order \in [Sequences -> (UNION Range(Shapes)) \cup {NoShape}]
        /\ phase \in [Sequences -> {"absent", "queued", "prefilling", "decoding", "done"}]
        /\ vtime \in [Sequences -> Nat]
    BY DEF IInv, TypeOK
  <2>6. \A t \in Sequences \ {s} : SameService(t)
    BY <2>1, <2>5 DEF SameService
  <2> QED
    BY <2>1, <2>4, <2>6
<1> QED
  BY <1>1, <1>2, <1>3 DEF Calls

WorkOnlyShrinks == \A s \in Live : s \in Live' => WorkLeft(s)' <= WorkLeft(s)

LEMMA StepShrinks ==
  ASSUME IInv, IInv', Advances
  PROVE  WorkOnlyShrinks
<1> SUFFICES ASSUME NEW s \in Live, s \in Live' PROVE WorkLeft(s)' <= WorkLeft(s)
  BY DEF WorkOnlyShrinks
<1>1. SameWork(s) \/ Served(s)
  BY DEF Advances
<1>2. WorkLeft(s) \in Nat /\ WorkLeft(s)' \in Nat
  BY WorkIsDue, WorkIsDueNext DEF WorkKnown
<1> QED
  BY <1>1, <1>2 DEF SameWork, Served

LEMMA UnservedKeepsWork ==
  ASSUME IInv, IInv', UNCHANGED kv, \A t \in Live : SameService(t)
  PROVE  WorkOnlyShrinks
<1> SUFFICES ASSUME NEW s \in Live, s \in Live' PROVE WorkLeft(s)' <= WorkLeft(s)
  BY DEF WorkOnlyShrinks
<1>1. WorkLeft(s)' = WorkLeft(s)
  BY DEF SameService, WorkLeft, PromptLeft
<1>2. WorkLeft(s) \in Nat
  BY WorkIsDue DEF WorkKnown
<1> QED
  BY <1>1, <1>2

(* Each step of the scheduler computes a token of one request or ends it, or *)
(* begins a chunk or a batch that has a token to compute, or ends a chunk;   *)
(* and no step or call adds to the tokens a request has left. So a worker    *)
(* that steps while there is work never spins (the loop of worker.rs), and   *)
(* what is admitted is computed in a number of steps known at admission.     *)
EveryStepAdvances == [][(Step => Advances) /\ WorkOnlyShrinks]_vars

THEOREM StepsDoWork == Spec => EveryStepAdvances
<1>1. IInv /\ [Next]_vars => [(Step => Advances) /\ WorkOnlyShrinks]_vars
  <2> SUFFICES ASSUME IInv, Next PROVE (Step => Advances) /\ WorkOnlyShrinks
    OBVIOUS
  <2>1. IInv'
    BY NextIInv
  <2>2. Step => Advances
    BY <2>1, StepAdvances
  <2>3. CASE Step
    BY <2>1, <2>2, <2>3, StepShrinks
  <2>4. ASSUME NEW r \in Requests, Calls(r) PROVE WorkOnlyShrinks
    <3>1. (\A t \in Live : SameService(t)) /\ UNCHANGED kv
      BY <2>4, CallsServeNobody
    <3> QED
      BY <2>1, <3>1, UnservedKeepsWork
  <2> QED
    BY <2>2, <2>3, <2>4 DEF Next, Calls
<1> QED
  BY <1>1, SchedulerInvariant, PTL DEF Spec, EveryStepAdvances

(* What a step waits for is there: each live request has a token left, the  *)
(* token in progress has its page, and a finished request can be reaped, so *)
(* that its id and its slot do not stay taken.                              *)
WorkGoesOn ==
  /\ \A s \in Live : WorkLeft(s) > 0
  /\ ~BetweenSteps => Fits(Serving)
  /\ \A s \in Sequences : phase[s] = "done" =>
       /\ s \notin holding_pages \cup kv_open
       /\ \E r \in Requests : ids[r] = s

THEOREM WorkAlwaysGoesOn == Spec => []WorkGoesOn
<1>1. IInv => WorkGoesOn
  <2> SUFFICES ASSUME IInv PROVE WorkGoesOn
    OBVIOUS
  <2>1. \A s \in Live : WorkLeft(s) > 0
    BY WorkIsDue DEF WorkKnown
  <2>2. ~BetweenSteps => Fits(Serving)
    BY ServingFacts, LiveFits DEF BetweenSteps, Fits, Serving, RowFits
  <2>3. ASSUME NEW s \in Sequences, phase[s] = "done"
        PROVE  s \notin holding_pages \cup kv_open /\ \E r \in Requests : ids[r] = s
    <3>1. s \notin Live
      BY <2>3 DEF Live
    <3> QED
      BY <2>3, <3>1 DEF IInv, Reserved, PoolOk, Numbering
  <2> QED
    BY <2>1, <2>2, <2>3 DEF WorkGoesOn
<1> QED
  BY <1>1, SchedulerInvariant, PTL

-----------------------------------------------------------------------------
(* Who is served, and what it costs.                                        *)

Chosen == batch \cup ({chunk.sequence} \ {NoSequence})
LeastFirst ==
  BetweenSteps /\ ~BetweenSteps' =>
    \A s \in Chosen', p \in Runnable : p \notin Chosen' => vtime[s] <= vtime[p]
Charged ==
  \A s \in Live : s \in Live' =>
    vtime'[s] = vtime[s] + CostPerToken(s) *
      ((prompt_cursor'[s] - prompt_cursor[s]) + (output'[s] - output[s]))

LEMMA CostIsPositive ==
  ASSUME IInv
  PROVE  \A s \in Live : CostPerToken(s) \in Nat \ {0}
<1> SUFFICES ASSUME NEW s \in Live PROVE CostPerToken(s) \in Nat \ {0}
  OBVIOUS
<1>1. order[s].class \in DOMAIN Weight
  BY LiveFacts, ShapeFacts
<1>2. Weight[order[s].class] \in {8, 4, 2, 1}
  BY <1>1 DEF Weight
<1> QED
  BY <1>2 DEF CostPerToken, ClassScale

LEMMA NothingCharged ==
  ASSUME IInv,
         \A t \in Live : /\ vtime'[t] = vtime[t] /\ output'[t] = output[t]
                         /\ prompt_cursor'[t] = prompt_cursor[t]
  PROVE  Charged
<1> SUFFICES ASSUME NEW s \in Live
             PROVE  vtime'[s] = vtime[s] + CostPerToken(s) *
                      ((prompt_cursor'[s] - prompt_cursor[s]) + (output'[s] - output[s]))
  BY DEF Charged
<1>1. (prompt_cursor'[s] - prompt_cursor[s]) + (output'[s] - output[s]) = 0
  BY LiveFacts
<1>2. CostPerToken(s) * 0 = 0
  BY LiveFacts
<1> QED
  BY <1>1, <1>2, LiveFacts

LEMMA ServedIsCharged ==
  ASSUME IInv, NEW s \in Live, NEW n \in Nat,
         vtime'[s] = vtime[s] + ServiceCost(s, n),
         (prompt_cursor'[s] - prompt_cursor[s]) + (output'[s] - output[s]) = n,
         \A t \in Live \ {s} : /\ vtime'[t] = vtime[t] /\ output'[t] = output[t]
                               /\ prompt_cursor'[t] = prompt_cursor[t]
  PROVE  Charged
<1> SUFFICES ASSUME NEW t \in Live
             PROVE  vtime'[t] = vtime[t] + CostPerToken(t) *
                      ((prompt_cursor'[t] - prompt_cursor[t]) + (output'[t] - output[t]))
  BY DEF Charged
<1>1. CASE t = s
  <2>1. PICK c \in Nat : c = CostPerToken(s)
    BY LiveFacts
  <2>2. n * c = c * n
    BY <2>1
  <2> QED
    BY <1>1, <2>1, <2>2 DEF ServiceCost
<1>2. CASE t # s
  <2>1. (prompt_cursor'[t] - prompt_cursor[t]) + (output'[t] - output[t]) = 0
    BY <1>2, LiveFacts
  <2>2. CostPerToken(t) * 0 = 0
    BY LiveFacts
  <2> QED
    BY <1>2, <2>1, <2>2, LiveFacts
<1> QED
  BY <1>1, <1>2

LEMMA StepCharges ==
  ASSUME IInv, Step
  PROVE  Charged
<1>1. CASE UNCHANGED service
  BY <1>1, NothingCharged DEF service
<1>2. CASE PrefillEnds
  <2>0. PICK s : s = chunk.sequence
    OBVIOUS
  <2>1. PICK n : n = Chunk(s)
    OBVIOUS
  <2>2. /\ chunk # NoChunk /\ UNCHANGED output
        /\ prompt_cursor' = [prompt_cursor EXCEPT ![s] = CursorAfter(s)]
        /\ vtime' = [vtime EXCEPT ![s] = @ + ServiceCost(s, n)]
    BY <1>2, <2>0, <2>1 DEF PrefillEnds
  <2>3. s \in Live /\ Waiting(s) /\ s \in Sequences
    BY <2>0, <2>2, ServingFacts, LiveFacts DEF Runnable
  <2>4. n \in Nat /\ CursorAfter(s) = prompt_cursor[s] + n
    BY <2>1, <2>3, ChunkFacts
  <2>5. /\ prompt_cursor \in [Sequences -> Nat] /\ output \in [Sequences -> Nat]
        /\ vtime \in [Sequences -> Nat] /\ Live \subseteq Sequences
    BY DEF IInv, TypeOK, Live
  <2>6. /\ vtime'[s] = vtime[s] + ServiceCost(s, n)
        /\ prompt_cursor'[s] = prompt_cursor[s] + n
        /\ \A t \in Live \ {s} : vtime'[t] = vtime[t] /\ prompt_cursor'[t] = prompt_cursor[t]
    BY <2>2, <2>3, <2>4, <2>5
  <2>7. (prompt_cursor'[s] - prompt_cursor[s]) + (output'[s] - output[s]) = n
    BY <2>2, <2>3, <2>4, <2>5, <2>6
  <2> QED
    BY <2>2, <2>3, <2>4, <2>6, <2>7, ServedIsCharged
<1>3. CASE DecodeRow \/ DecodeLastRow
  <2>0. PICK s : s = First(batch)
    OBVIOUS
  <2>1. batch # {} /\ Sampled(s) /\ UNCHANGED prompt_cursor
    BY <1>3, <2>0 DEF DecodeRow, DecodeLastRow
  <2>2. s \in Live /\ s \in Sequences
    BY <2>0, <2>1, ServingFacts, LiveFacts DEF Runnable
  <2>3. /\ prompt_cursor \in [Sequences -> Nat] /\ output \in [Sequences -> Nat]
        /\ vtime \in [Sequences -> Nat] /\ Live \subseteq Sequences
    BY DEF IInv, TypeOK, Live
  <2>4. vtime' = [vtime EXCEPT ![s] = @ + ServiceCost(s, 1)]
    BY <2>1 DEF Sampled
  <2>5. vtime'[s] = vtime[s] + ServiceCost(s, 1)
    BY <2>2, <2>3, <2>4
  <2>6. /\ output'[s] = output[s] + 1
        /\ \A t \in Sequences \ {s} : output'[t] = output[t] /\ vtime'[t] = vtime[t]
    BY <2>1, <2>2, SampledFacts
  <2>7. (prompt_cursor'[s] - prompt_cursor[s]) + (output'[s] - output[s]) = 1
    BY <2>1, <2>2, <2>3, <2>6
  <2> QED
    BY <2>1, <2>2, <2>3, <2>5, <2>6, <2>7, ServedIsCharged
<1> QED
  BY <1>1, <1>2, <1>3 DEF Step, ServeCancel, StartPrefill, PrefillToken, StartDecode, StepFails

LEMMA StepServesLeast ==
  ASSUME IInv, Step
  PROVE  LeastFirst
<1> SUFFICES ASSUME BetweenSteps, ~BetweenSteps', NEW s \in Chosen',
                    NEW p \in Runnable, p \notin Chosen'
             PROVE  vtime[s] <= vtime[p]
  BY DEF LeastFirst
<1>1. vtime \in [Sequences -> Nat] /\ Runnable \in SUBSET Sequences
  BY DEF IInv, TypeOK, Runnable, Live
<1>2. StartPrefill \/ StartDecode
  BY DEF Step, BetweenSteps, NoChunk, ServeCancel, PrefillToken, PrefillEnds, DecodeRow,
         DecodeLastRow, StepFails
<1>3. CASE StartPrefill
  <2>1. Chosen' = {First(Runnable)} \ {NoSequence} /\ Runnable # {}
    BY <1>3 DEF StartPrefill, Chosen, BetweenSteps
  <2> QED
    BY <1>1, <2>1, FirstIsLeast
<1>4. CASE StartDecode
  <2>1. Chosen' = DecodeBatch
    BY <1>4 DEF StartDecode, Chosen, BetweenSteps, NoChunk
  <2>2. s \in DecodeBatch /\ p \in Runnable \ DecodeBatch
    BY <2>1
  <2>3. \A q \in AwaitsPrefill : vtime[s] <= vtime[q]
    BY <2>2 DEF DecodeBatch
  <2>4. CASE phase[p] = "decoding"
    <3>1. PICK q \in AwaitsPrefill : ~(vtime[p] <= vtime[q])
      BY <2>2, <2>4 DEF DecodeBatch
    <3>2. /\ vtime[p] \in Nat /\ vtime[q] \in Nat /\ vtime[s] \in Nat
      BY <1>1, <2>2 DEF DecodeBatch, AwaitsPrefill
    <3> QED
      BY <2>3, <3>1, <3>2
  <2>5. CASE phase[p] # "decoding"
    BY <2>3, <2>5 DEF AwaitsPrefill, Runnable, Live
  <2> QED
    BY <2>4, <2>5
<1> QED
  BY <1>2, <1>3, <1>4

(* A chunk or a batch goes to the least served: no runnable request is left *)
(* out for one whose virtual time is higher. And virtual time is an account *)
(* of service: each step and call raises it for every live request by the   *)
(* cost of its class for the tokens it got, and by nothing else. A token    *)
(* costs something (CostIsPositive), so a request can be overtaken by those *)
(* that were admitted before or with it only a bounded number of times.     *)
ServiceIsFair == [][LeastFirst /\ Charged]_vars

THEOREM LeastServedFirst == Spec => ServiceIsFair
<1>1. IInv /\ [Next]_vars => [LeastFirst /\ Charged]_vars
  <2> SUFFICES ASSUME IInv, Next PROVE LeastFirst /\ Charged
    OBVIOUS
  <2>1. CASE Step
    BY <2>1, StepServesLeast, StepCharges
  <2>2. ASSUME NEW r \in Requests, Calls(r) PROVE LeastFirst /\ Charged
    <3>1. (\A t \in Live : SameService(t)) /\ UNCHANGED <<chunk, batch>>
      BY <2>2, CallsServeNobody
    <3>2. LeastFirst
      BY <3>1 DEF LeastFirst, BetweenSteps
    <3> QED
      BY <3>1, <3>2, NothingCharged DEF SameService
  <2> QED
    BY <2>1, <2>2 DEF Next, Calls
<1> QED
  BY <1>1, SchedulerInvariant, PTL DEF Spec, ServiceIsFair

=============================================================================
