-------------------------- MODULE ServeHome_proofs --------------------------
(***************************************************************************)
(* Theorems about ServeHome for any processes, runs, requests and lengths  *)
(* of completions, while starts do not overlap and no stray writer is at   *)
(* work (~Overlap, ~Strays).                                               *)
(*                                                                         *)
(* The argument has two halves. The daemon lock's theorems carry over,     *)
(* because every step is a step of the lock or leaves it alone. With one   *)
(* owner, a journal has one writer at a time: a handler of the process     *)
(* that serves, a run while nobody starts, or the recovery while there is  *)
(* neither. So the directory of a request always holds the prefixes of one *)
(* chain, a handler knows that chain, and recovery reads it back.          *)
(*                                                                         *)
(* On that rests the end of what a handler and a recovery begin: the steps *)
(* they have before them are counted, and each of their own lowers the     *)
(* count. With NothingIsLeftOpen that is the safety half of                *)
(* AcceptedIsSealed; the other half is the fairness of the schedulers.     *)
(***************************************************************************)
EXTENDS ServeHome, DaemonLock_proofs, SequenceTheorems, FiniteSetTheorems

(* The files of a journal. The directory of a request whose journal is the *)
(* chain c of events holds one file for each prefix of c. Such a directory *)
(* verifies, reads back as c, and is extended by an append of the chain's   *)
(* own writer to the directory of a longer chain.                          *)
FilesOf(c) == {SubSeq(c, 1, i) : i \in 1 .. Len(c)}
AtEnd(c) == c # <<>> /\ NameOf(c[Len(c)]) \in Terminal

LEMMA PrefixOf ==
  ASSUME NEW S, NEW c \in Seq(S), NEW i \in 1 .. Len(c)
  PROVE  /\ SubSeq(c, 1, i) \in Seq(S)
         /\ Len(SubSeq(c, 1, i)) = i
         /\ \A j \in 1 .. i : SubSeq(c, 1, i)[j] = c[j]
<1>1. \A j \in 1 .. i : c[j] \in S
  BY ElementOfSeq
<1>2. 1 \in Int /\ i \in Int
  OBVIOUS
<1> QED
  BY <1>1, <1>2, SubSeqProperties

(* As many files as events.                                                *)
LEMMA CountOfFiles ==
  ASSUME NEW S, NEW c \in Seq(S)
  PROVE  Cardinality(FilesOf(c)) = Len(c)
<1> DEFINE f == [i \in 1 .. Len(c) |-> SubSeq(c, 1, i)]
<1>1. \A i \in 1 .. Len(c) : Len(f[i]) = i
  BY PrefixOf
<1>2. f \in Bijection(1 .. Len(c), FilesOf(c))
  <2>1. f \in [1 .. Len(c) -> FilesOf(c)]
    BY DEF FilesOf
  <2>2. \A x \in FilesOf(c) : \E i \in 1 .. Len(c) : f[i] = x
    BY DEF FilesOf
  <2> HIDE DEF f
  <2>3. \A i, j \in 1 .. Len(c) : f[i] = f[j] => i = j
    BY <1>1
  <2> QED
    BY <2>1, <2>2, <2>3 DEF Bijection, Injection, Surjection, IsInjective
<1>3. Len(c) \in Nat
  OBVIOUS
<1>4. IsFiniteSet(1 .. Len(c)) /\ Cardinality(1 .. Len(c)) = Len(c)
  BY <1>3, FS_Interval
<1>5. ExistsBijection(1 .. Len(c), FilesOf(c))
  BY <1>2 DEF ExistsBijection
<1> QED
  BY <1>4, <1>5, FS_Bijection

LEMMA WholeChain ==
  ASSUME NEW S, NEW c \in Seq(S), c # <<>>
  PROVE  c \in FilesOf(c) /\ Len(c) \in 1 .. Len(c)
<1>1. Len(c) \in 1 .. Len(c)
  BY EmptySeq
<1>2. SubSeq(c, 1, Len(c)) = c
  BY SubSeqFull
<1> QED
  BY <1>1, <1>2 DEF FilesOf

(* The directory of a chain verifies and reads back as the chain.          *)
LEMMA ChainReadsBack ==
  ASSUME NEW S, NEW c \in Seq(S), c # <<>>
  PROVE  Verifies(FilesOf(c)) /\ ReadChain(FilesOf(c)) = c
<1>1. c \in FilesOf(c) /\ Len(c) = Cardinality(FilesOf(c))
  BY WholeChain, CountOfFiles
<1>2. \A d \in FilesOf(c) : Len(d) <= Len(c) /\ d = SubSeq(c, 1, Len(d))
  BY PrefixOf DEF FilesOf
<1>3. \A d \in FilesOf(c) : Len(d) = Cardinality(FilesOf(c)) => d = c
  BY <1>1, <1>2, SubSeqFull
<1> QED
  BY <1>1, <1>2, <1>3 DEF Verifies, ReadChain

LEMMA FirstFile ==
  ASSUME NEW S, NEW c \in Seq(S), c # <<>>, c[1] = "accepted"
  PROVE  <<"accepted">> \in FilesOf(c)
<1>1. 1 \in 1 .. Len(c)
  BY EmptySeq
<1>2. SubSeq(c, 1, 1) \in Seq(S) /\ Len(SubSeq(c, 1, 1)) = 1 /\ SubSeq(c, 1, 1)[1] = c[1]
  BY <1>1, PrefixOf
<1>3. <<"accepted">> \in Seq({"accepted"}) /\ SubSeq(c, 1, 1) \in Seq({"accepted"})
  BY <1>2
<1>4. SubSeq(c, 1, 1) = <<"accepted">>
  <2> DEFINE x == SubSeq(c, 1, 1)
             y == <<"accepted">>
  <2>1. Len(x) = Len(y) /\ \A i \in 1 .. Len(x) : x[i] = y[i]
    BY <1>2
  <2>2. x \in Seq({"accepted"}) /\ y \in Seq({"accepted"})
    BY <1>3
  <2> HIDE DEF x, y
  <2>3. x = y
    BY <2>1, <2>2, SeqEqual
  <2> QED
    BY <2>3 DEF x, y
<1> QED
  BY <1>1, <1>4 DEF FilesOf

(* What recovery makes of it: the state is that of the last event.         *)
LEMMA StateOfChain ==
  ASSUME NEW S, NEW c \in Seq(S), c # <<>>, c[1] = "accepted"
  PROVE  /\ StartsAccepted(FilesOf(c))
         /\ State(FilesOf(c)) = IF AtEnd(c) THEN NameOf(c[Len(c)]) ELSE "open"
<1>1. StartsAccepted(FilesOf(c)) /\ ReadChain(FilesOf(c)) = c
  BY ChainReadsBack, FirstFile DEF StartsAccepted
<1> QED
  BY <1>1 DEF State, AtEnd, Last

LEMMA StateOfNothing ==
  FilesOf(<<>>) = {} /\ State({}) = "none"
BY EmptySeq DEF FilesOf, State, StartsAccepted, Verifies

(* An append adds one file and replaces none.                              *)
LEMMA AppendAddsFile ==
  ASSUME NEW S, NEW c \in Seq(S), NEW e \in S
  PROVE  Put(FilesOf(c), Append(c, e)) = FilesOf(Append(c, e))
<1> DEFINE a == Append(c, e)
<1>1. a \in Seq(S) /\ Len(a) = Len(c) + 1 /\ \A i \in 1 .. Len(c) : a[i] = c[i]
  OBVIOUS
<1>2. \A i \in 1 .. Len(c) : SubSeq(a, 1, i) = SubSeq(c, 1, i)
  <2> SUFFICES ASSUME NEW i \in 1 .. Len(c) PROVE SubSeq(a, 1, i) = SubSeq(c, 1, i)
    OBVIOUS
  <2>1. i \in 1 .. Len(a)
    BY <1>1
  <2> HIDE DEF a
  <2>2. /\ SubSeq(a, 1, i) \in Seq(S) /\ Len(SubSeq(a, 1, i)) = i
        /\ \A j \in 1 .. i : SubSeq(a, 1, i)[j] = a[j]
    BY <1>1, <2>1, PrefixOf
  <2>3. /\ SubSeq(c, 1, i) \in Seq(S) /\ Len(SubSeq(c, 1, i)) = i
        /\ \A j \in 1 .. i : SubSeq(c, 1, i)[j] = c[j]
    BY PrefixOf
  <2> QED
    BY <1>1, <2>2, <2>3, SeqEqual
<1>3. SubSeq(a, 1, Len(c) + 1) = a
  <2> HIDE DEF a
  <2> QED
    BY <1>1, SubSeqFull
<1>4. FilesOf(a) = FilesOf(c) \cup {a}
  <2> HIDE DEF a
  <2>1. 1 .. Len(a) = (1 .. Len(c)) \cup {Len(c) + 1}
    BY <1>1
  <2> QED
    BY <2>1, <1>2, <1>3 DEF FilesOf
<1>5. \A d \in FilesOf(c) : Len(d) # Len(a)
  BY <1>1, PrefixOf DEF FilesOf
<1> HIDE DEF a
<1>6. Put(FilesOf(c), a) = FilesOf(c) \cup {a}
  BY <1>5 DEF Put, SameFile
<1> QED
  BY <1>4, <1>6 DEF a

-----------------------------------------------------------------------------
(* The invariant.                                                          *)

IsChain(c) ==
  /\ c \in Seq(Events)
  /\ c # <<>> => c[1] = "accepted"
  /\ Len(c) <= MaxTokens + 4
  /\ AtEnd(c) \/ Len(c) <= MaxTokens + 2

Stages == {"closed", "opening", "running", "publishing", "storing", "sealing",
           "cancelling", "ending", "dropping"}
HomeTypes ==
  /\ dirs \subseteq Ids /\ receipts \subseteq Ids /\ lost \subseteq Ids
  /\ files \in [Ids -> SUBSET Seq(Events)]
  /\ who \in [Ids -> Procs \cup Runners \cup {Nobody}]
  /\ stage \in [Ids -> Stages]
  /\ chain \in [Ids -> Seq(Events)]
  /\ rec \in [Procs -> {"list", "visit", "remove", "seal", "error"}]
  /\ todo \in [Procs -> SUBSET Ids]
  /\ found \in [Procs -> Seq(Events)]
  /\ ran \subseteq Runners

(* Who may write: handlers of the process that serves, and runs while no    *)
(* process starts.                                                          *)
Writer(r) ==
  /\ stage[r] = "closed" <=> who[r] = Nobody
  /\ who[r] = Nobody => chain[r] = <<>>
  /\ who[r] \in Procs => pc[who[r]] = "serving" /\ r \notin RunIds
  /\ who[r] \in Runners => r \in RunIds /\ \A p \in Procs : ~Starting(p)

(* What a handler knows of its journal at each stage.                       *)
Handler(r) ==
  who[r] # Nobody =>
    /\ r \in dirs /\ r \notin receipts
    /\ IsChain(chain[r]) /\ files[r] = FilesOf(chain[r])
    /\ stage[r] = "opening" <=> chain[r] = <<>>
    /\ stage[r] = "running" => Len(chain[r]) = 1
    /\ stage[r] \in {"running", "publishing"} => ~AtEnd(chain[r])
    /\ stage[r] = "storing" => AtEnd(chain[r])
    /\ AtEnd(chain[r]) => /\ chain[r][Len(chain[r])] = "completed"
                          /\ Len(chain[r]) <= MaxTokens + 3

(* What is on disk: the one chain of a request that has begun.              *)
OnDisk(r) ==
  /\ \E c \in files[r] \cup {<<>>} : IsChain(c) /\ files[r] = FilesOf(c)
  /\ files[r] # {} => r \in dirs
  /\ r \in receipts => State(files[r]) = "completed"

Requests == \A r \in Ids : Writer(r) /\ Handler(r) /\ OnDisk(r)

(* What a recovery knows of the directory it works on.                      *)
Recovery(p) ==
  /\ rec[p] # "list" => pc[p] = "recover"
  /\ rec[p] = "remove" => files[First(todo[p])] = {}
  /\ rec[p] = "seal" =>
       /\ First(todo[p]) \in dirs
       /\ IsChain(found[p]) /\ found[p] # <<>> /\ ~AtEnd(found[p])
       /\ files[First(todo[p])] = FilesOf(found[p])

(* A journal that stands open has a handler, or is still on the list of the *)
(* process that recovers.                                                   *)
OnList(p) ==
  rec[p] # "list" => \A r \in ServeIds \ lost : Open(files[r]) => r \in todo[p]

Recoveries == \A p \in Procs : Recovery(p) /\ OnList(p)

HomeInv == HomeTypes /\ Requests /\ Recoveries /\ OpenMeansHandled

-----------------------------------------------------------------------------
(* The lock.                                                                *)

LEMMA InitIsLockInit == Init => LockInit
BY DEF Init

LEMMA StepIsLockStep == [Next]_vars => [LockNext]_lockVars
<1> SUFFICES ASSUME [Next]_vars PROVE LockNext \/ UNCHANGED lockVars
  OBVIOUS
<1>1. CASE UNCHANGED vars
  BY <1>1 DEF vars
<1>2. ASSUME NEW p \in Procs, StartStep(p) \/ Step(p) \/ ShutdownStep(p) \/ KillStep(p)
      PROVE  LockNext \/ UNCHANGED lockVars
  BY <1>2
  DEF StartStep, Step, ClaimStep, RecoverStep, ListenStep, GiveUpStep, ReleaseStep,
      ExitStep, ShutdownStep, KillStep, LockNext
<1>3. ASSUME NEW p \in Procs, NEW r \in ServeIds, Request(p, r)
      PROVE  UNCHANGED lockVars
  BY <1>3 DEF Request
<1>4. ASSUME NEW r \in Ids, HandleStep(r) PROVE UNCHANGED lockVars
  BY <1>4 DEF HandleStep
<1>5. ASSUME NEW c \in Runners, Run(c) \/ KillRun(c) PROVE UNCHANGED lockVars
  BY <1>5 DEF Run, KillRun
<1> QED
  BY <1>1, <1>2, <1>3, <1>4, <1>5 DEF Next

(* Every behaviour of the home is one of its lock.                          *)
THEOREM HomeIsLock == Spec => LockSpec
BY InitIsLockInit, StepIsLockStep, PTL DEF Spec, LockSpec

(* The directory on disk names the process that owns the home, whatever     *)
(* recoveries, handlers and runs do besides, if starts do not overlap.      *)
THEOREM HomeOwnerIsOnDisk ==
  ASSUME ~Overlap
  PROVE  Spec => []OwnerOnDisk
BY HomeIsLock, OwnerIsOnDisk, PTL

(* A start is refused only while another process lives.                     *)
THEOREM HomeRefusalMeansLiveOwner ==
  ASSUME ~Overlap, MaxTries > 1
  PROVE  Spec => RefusedOnlyByLive
BY HomeIsLock, RefusalMeansLiveOwner, PTL

-----------------------------------------------------------------------------
(* Chains.                                                                  *)

LEMMA LongerChain ==
  ASSUME NEW c \in Seq(Events), NEW e \in Events
  PROVE  /\ Append(c, e) \in Seq(Events) /\ Append(c, e) # <<>>
         /\ Len(Append(c, e)) = Len(c) + 1
         /\ Append(c, e)[Len(Append(c, e))] = e
         /\ Append(c, e)[1] = IF c = <<>> THEN e ELSE c[1]
         /\ AtEnd(Append(c, e)) <=> NameOf(e) \in Terminal
<1> DEFINE a == Append(c, e)
<1>1. /\ a \in Seq(Events) /\ a # <<>> /\ Len(a) = Len(c) + 1 /\ a[Len(c) + 1] = e
      /\ \A i \in 1 .. Len(c) : a[i] = c[i]
  OBVIOUS
<1>2. c = <<>> => Len(c) = 0
  OBVIOUS
<1>3. c # <<>> => 1 \in 1 .. Len(c)
  BY EmptySeq
<1> HIDE DEF a
<1>4. a[1] = IF c = <<>> THEN e ELSE c[1]
  BY <1>1, <1>2, <1>3
<1>5. AtEnd(a) <=> NameOf(e) \in Terminal
  BY <1>1 DEF AtEnd
<1> QED
  BY <1>1, <1>4, <1>5 DEF a

(* What recovery sees in the directory of a chain.                         *)
LEMMA ChainSeen ==
  ASSUME NEW c, IsChain(c)
  PROVE  /\ Open(FilesOf(c)) <=> c # <<>> /\ ~AtEnd(c)
         /\ Sealed(FilesOf(c)) <=> AtEnd(c)
         /\ FilesOf(c) = {} <=> c = <<>>
         /\ FilesOf(c) \in SUBSET Seq(Events)
         /\ c # <<>> => /\ c \in FilesOf(c)
                        /\ StartsAccepted(FilesOf(c))
                        /\ ReadChain(FilesOf(c)) = c
         /\ State(FilesOf(c)) = IF c = <<>> THEN "none"
                                ELSE IF AtEnd(c) THEN NameOf(c[Len(c)]) ELSE "open"
<1>1. c \in Seq(Events)
  BY DEF IsChain
<1>2. FilesOf(c) \in SUBSET Seq(Events)
  BY <1>1, PrefixOf DEF FilesOf
<1>3. CASE c = <<>>
  BY <1>2, <1>3, StateOfNothing DEF Open, Sealed, AtEnd, Terminal
<1>4. CASE c # <<>>
  <2>1. c[1] = "accepted"
    BY <1>4 DEF IsChain
  <2>2. /\ StartsAccepted(FilesOf(c))
        /\ State(FilesOf(c)) = IF AtEnd(c) THEN NameOf(c[Len(c)]) ELSE "open"
    BY <1>1, <1>4, <2>1, StateOfChain
  <2>3. c \in FilesOf(c) /\ ReadChain(FilesOf(c)) = c
    BY <1>1, <1>4, WholeChain, ChainReadsBack
  <2>4. Open(FilesOf(c)) <=> ~AtEnd(c)
    BY <2>2 DEF Open, AtEnd, Terminal
  <2>5. Sealed(FilesOf(c)) <=> AtEnd(c)
    BY <2>2 DEF Sealed, AtEnd, Terminal
  <2> QED
    BY <1>2, <1>4, <2>2, <2>3, <2>4, <2>5
<1> QED
  BY <1>3, <1>4

-----------------------------------------------------------------------------
(* Who is alone with what.                                                  *)

RequestInv(r) == Writer(r) /\ Handler(r) /\ OnDisk(r)

LEMMA InitHome == Init => HomeInv
<1> SUFFICES ASSUME Init PROVE HomeInv
  OBVIOUS
<1> USE DEF Init, LockInit, JournalInit
<1>1. HomeTypes
  BY DEF HomeTypes, Stages
<1>2. ASSUME NEW r \in Ids PROVE RequestInv(r)
  <2>1. files[r] = {} /\ who[r] = Nobody /\ stage[r] = "closed" /\ r \notin receipts
    OBVIOUS
  <2>2. IsChain(<<>>) /\ FilesOf(<<>>) = {}
    BY StateOfNothing, BoundsAssumption DEF IsChain
  <2>3. Nobody \notin Procs /\ Nobody \notin Runners
    BY NobodyAssumption, RunnersAssumption
  <2> QED
    BY <2>1, <2>2, <2>3 DEF RequestInv, Writer, Handler, OnDisk
<1>3. Recoveries
  BY DEF Recoveries, Recovery, OnList
<1>4. OpenMeansHandled
  BY DEF OpenMeansHandled
<1> QED
  BY <1>1, <1>2, <1>3, <1>4 DEF HomeInv, Requests, RequestInv

(* While a journal has a handler, no process recovers.                      *)
LEMMA HandlerExcludesRecovery ==
  ASSUME OwnerInv, HomeInv, NEW r \in Ids, who[r] # Nobody, NEW p \in Procs
  PROVE  rec[p] = "list" /\ pc[p] # "recover"
<1>1. Writer(r) /\ Recovery(p)
  BY DEF HomeInv, Requests, Recoveries
<1>2. who[r] \in Procs \cup Runners
  BY DEF HomeInv, HomeTypes
<1>3. CASE who[r] \in Procs
  <2>1. pc[who[r]] = "serving"
    BY <1>1, <1>3 DEF Writer
  <2>2. pc[p] # "recover"
    BY <1>3, <2>1 DEF OwnerInv, Ownership, NamedOnDisk, Named, Holding
  <2> QED
    BY <1>1, <2>2 DEF Recovery
<1>4. CASE who[r] \in Runners
  BY <1>1, <1>4 DEF Writer, Starting, Recovery
<1> QED
  BY <1>2, <1>3, <1>4

(* A process that recovers is alone: nobody serves, nobody else recovers,   *)
(* and no journal has a handler.                                            *)
LEMMA RecoveryIsAlone ==
  ASSUME OwnerInv, HomeInv, NEW p \in Procs, pc[p] = "recover"
  PROVE  /\ \A r \in Ids : who[r] = Nobody
         /\ \A q \in Procs : pc[q] # "serving"
         /\ \A q \in Procs \ {p} : rec[q] = "list"
<1>1. \A q \in Procs : pc[q] \in Holding => q = p
  BY DEF OwnerInv, Ownership, NamedOnDisk, Named, Holding
<1>2. \A r \in Ids : who[r] = Nobody
  BY HandlerExcludesRecovery
<1>3. \A q \in Procs \ {p} : rec[q] = "list"
  BY <1>1 DEF HomeInv, Recoveries, Recovery, Holding
<1> QED
  BY <1>1, <1>2, <1>3 DEF Holding

(* What a step does not touch stays right.                                  *)
LEMMA RequestKept ==
  ASSUME NEW r \in Ids, RequestInv(r), pc' = pc,
         files'[r] = files[r], who'[r] = who[r], stage'[r] = stage[r],
         chain'[r] = chain[r], r \in dirs' <=> r \in dirs,
         r \in receipts' <=> r \in receipts
  PROVE  RequestInv(r)'
BY DEF RequestInv, Writer, Handler, OnDisk, Starting

(* A step that touches the journal of r while no process recovers.          *)
LEMMA RequestStep ==
  ASSUME HomeInv, NEW r \in Ids, \A p \in Procs : rec[p] = "list",
         UNCHANGED <<lockVars, recovery, ran>>, HomeTypes', RequestInv(r)',
         \A q \in Ids \ {r} :
           /\ files'[q] = files[q] /\ who'[q] = who[q] /\ stage'[q] = stage[q]
           /\ chain'[q] = chain[q] /\ (q \in dirs' <=> q \in dirs)
           /\ q \in receipts' <=> q \in receipts,
         lost \subseteq lost',
         r \in ServeIds \ lost' => (Open(files[r]) => who[r] # Nobody)'
  PROVE  HomeInv'
<1>1. pc' = pc /\ rec' = rec /\ todo' = todo /\ found' = found
  BY DEF lockVars, recovery
<1>2. Requests'
  <2>1. \A q \in Ids \ {r} : RequestInv(q)
    BY DEF HomeInv, Requests, RequestInv
  <2>2. \A q \in Ids \ {r} : RequestInv(q)'
    BY <1>1, <2>1, RequestKept
  <2> QED
    BY <2>2 DEF Requests, RequestInv
<1>3. Recoveries'
  BY <1>1 DEF Recoveries, Recovery, OnList
<1>4. OpenMeansHandled'
  <2> SUFFICES ASSUME NEW p \in Procs, pc[p] = "serving",
                      NEW q \in ServeIds \ lost', Open(files'[q])
               PROVE  who'[q] # Nobody
    BY <1>1 DEF OpenMeansHandled
  <2>1. CASE q = r
    BY <2>1
  <2>2. CASE q # r
    BY <2>2 DEF HomeInv, OpenMeansHandled, ServeIds
  <2> QED
    BY <2>1, <2>2
<1> QED
  BY <1>2, <1>3, <1>4 DEF HomeInv

(* A step of the handler of r.                                              *)
LEMMA HandlerStep ==
  ASSUME OwnerInv, HomeInv, NEW r \in Ids, who[r] # Nobody,
         UNCHANGED <<lockVars, recovery, ran>>, HomeTypes', RequestInv(r)',
         \A q \in Ids \ {r} :
           /\ files'[q] = files[q] /\ who'[q] = who[q] /\ stage'[q] = stage[q]
           /\ chain'[q] = chain[q] /\ (q \in dirs' <=> q \in dirs)
           /\ q \in receipts' <=> q \in receipts,
         lost \subseteq lost',
         r \in ServeIds \ lost' => (Open(files[r]) => who[r] # Nobody)'
  PROVE  HomeInv'
<1>1. \A p \in Procs : rec[p] = "list"
  BY HandlerExcludesRecovery
<1> QED
  BY <1>1, RequestStep

-----------------------------------------------------------------------------
(* The steps of a handler.                                                  *)

(* A handler that closes leaves what is on disk.                            *)
LEMMA Closing ==
  ASSUME HomeInv, NEW r \in Ids, Closes(r), NEW c, IsChain(c),
         files'[r] = FilesOf(c), files'[r] # {} => r \in dirs',
         r \in receipts' => State(files'[r]) = "completed"
  PROVE  /\ RequestInv(r)' /\ who'[r] = Nobody
         /\ \A q \in Ids \ {r} :
              who'[q] = who[q] /\ stage'[q] = stage[q] /\ chain'[q] = chain[q]
         /\ who' \in [Ids -> Procs \cup Runners \cup {Nobody}]
         /\ stage' \in [Ids -> Stages] /\ chain' \in [Ids -> Seq(Events)]
<1>1. /\ who'[r] = Nobody /\ stage'[r] = "closed" /\ chain'[r] = <<>>
      /\ \A q \in Ids \ {r} :
           who'[q] = who[q] /\ stage'[q] = stage[q] /\ chain'[q] = chain[q]
      /\ who' \in [Ids -> Procs \cup Runners \cup {Nobody}]
      /\ stage' \in [Ids -> Stages] /\ chain' \in [Ids -> Seq(Events)]
  BY DEF Closes, HomeInv, HomeTypes, Stages
<1>2. Nobody \notin Procs /\ Nobody \notin Runners
  BY NobodyAssumption, RunnersAssumption
<1>3. \E d \in files'[r] \cup {<<>>} : IsChain(d) /\ files'[r] = FilesOf(d)
  BY ChainSeen
<1> QED
  BY <1>1, <1>2, <1>3 DEF RequestInv, Writer, Handler, OnDisk

(* A handler that goes on without writing.                                  *)
LEMMA MovingOn ==
  ASSUME HomeInv, NEW r \in Ids, who[r] # Nobody, chain[r] # <<>>,
         NEW to \in Stages \ {"closed", "opening", "running", "storing"},
         to = "publishing" => ~AtEnd(chain[r]),
         To(r, to), pc' = pc, UNCHANGED store
  PROVE  /\ RequestInv(r)' /\ who'[r] # Nobody
         /\ \A q \in Ids \ {r} :
              who'[q] = who[q] /\ stage'[q] = stage[q] /\ chain'[q] = chain[q]
         /\ who' \in [Ids -> Procs \cup Runners \cup {Nobody}]
         /\ stage' \in [Ids -> Stages] /\ chain' \in [Ids -> Seq(Events)]
<1>1. /\ who' = who /\ chain' = chain /\ stage'[r] = to
      /\ \A q \in Ids \ {r} : stage'[q] = stage[q]
      /\ stage' \in [Ids -> Stages]
  BY DEF To, HomeInv, HomeTypes
<1>2. Writer(r) /\ Handler(r) /\ OnDisk(r)
  BY DEF HomeInv, Requests
<1>3. Writer(r)'
  BY <1>1, <1>2 DEF Writer, Starting
<1>4. Handler(r)'
  BY <1>1, <1>2 DEF Handler, store
<1>5. OnDisk(r)'
  BY <1>2 DEF OnDisk, store
<1> QED
  BY <1>1, <1>3, <1>4, <1>5 DEF RequestInv, HomeInv, HomeTypes

(* A write of a handler makes its chain longer.                             *)
LEMMA HandlerWrites ==
  ASSUME HomeInv, NEW r \in Ids, who[r] # Nobody, NEW e \in Events,
         Written(r, chain[r], e),
         chain[r] = <<>> <=> e = "accepted",
         NameOf(e) \in Terminal \/ Len(chain[r]) <= MaxTokens + 1
  PROVE  /\ files'[r] = FilesOf(Append(chain[r], e))
         /\ \A q \in Ids \ {r} : files'[q] = files[q]
         /\ files' \in [Ids -> SUBSET Seq(Events)]
         /\ IsChain(Append(chain[r], e)) /\ lost' = lost
<1> DEFINE a == Append(chain[r], e)
<1>1. /\ chain[r] \in Seq(Events) /\ files[r] = FilesOf(chain[r])
      /\ IsChain(chain[r]) /\ Handler(r)
  BY DEF HomeInv, HomeTypes, Requests, Handler
<1>2. /\ a \in Seq(Events) /\ a # <<>> /\ Len(a) = Len(chain[r]) + 1
      /\ a[1] = IF chain[r] = <<>> THEN e ELSE chain[r][1]
      /\ AtEnd(a) <=> NameOf(e) \in Terminal
  BY <1>1, LongerChain
<1>3. files' = [files EXCEPT ![r] = FilesOf(a)] /\ lost' = lost
  BY <1>1, AppendAddsFile DEF Written
<1> HIDE DEF a
<1>4. IsChain(a)
  <2>1. Len(chain[r]) <= MaxTokens + 3
    BY <1>1, BoundsAssumption DEF IsChain, Handler
  <2>2. a[1] = "accepted"
    BY <1>1, <1>2 DEF IsChain
  <2>3. Len(chain[r]) \in Nat
    BY <1>1
  <2> QED
    BY <1>2, <2>1, <2>2, <2>3, BoundsAssumption DEF IsChain
<1>5. FilesOf(a) \in SUBSET Seq(Events)
  BY <1>4, ChainSeen
<1>6. files \in [Ids -> SUBSET Seq(Events)]
  BY DEF HomeInv, HomeTypes
<1> QED
  BY <1>3, <1>4, <1>5, <1>6 DEF a

(* A write that the handler goes on from.                                   *)
LEMMA Appending ==
  ASSUME HomeInv, NEW r \in Ids, who[r] # Nobody, NEW e \in Events,
         NEW to \in Stages \ {"closed", "opening"},
         Appends(r, e, to), pc' = pc, UNCHANGED <<dirs, receipts>>,
         chain[r] = <<>> <=> e = "accepted",
         NameOf(e) \in Terminal \/ Len(chain[r]) <= MaxTokens + 1,
         to = "running" => chain[r] = <<>>,
         to \in {"running", "publishing"} => NameOf(e) \notin Terminal,
         to = "storing" => e = "completed",
         NameOf(e) \in Terminal =>
           e = "completed" /\ Len(chain[r]) <= MaxTokens + 2
  PROVE  /\ RequestInv(r)' /\ who'[r] # Nobody /\ lost' = lost
         /\ \A q \in Ids \ {r} :
              /\ files'[q] = files[q] /\ who'[q] = who[q]
              /\ stage'[q] = stage[q] /\ chain'[q] = chain[q]
         /\ files' \in [Ids -> SUBSET Seq(Events)]
         /\ who' \in [Ids -> Procs \cup Runners \cup {Nobody}]
         /\ stage' \in [Ids -> Stages] /\ chain' \in [Ids -> Seq(Events)]
<1> DEFINE a == Append(chain[r], e)
<1>1. chain[r] \in Seq(Events) /\ Written(r, chain[r], e)
  BY DEF Appends, HomeInv, HomeTypes
<1>2. /\ files'[r] = FilesOf(a) /\ IsChain(a) /\ lost' = lost
      /\ \A q \in Ids \ {r} : files'[q] = files[q]
      /\ files' \in [Ids -> SUBSET Seq(Events)]
  BY <1>1, HandlerWrites
<1>3. /\ a \in Seq(Events) /\ a # <<>> /\ Len(a) = Len(chain[r]) + 1
      /\ a[Len(a)] = e /\ (AtEnd(a) <=> NameOf(e) \in Terminal)
  BY <1>1, LongerChain
<1>4. /\ who' = who /\ stage'[r] = to /\ chain'[r] = a
      /\ \A q \in Ids \ {r} : stage'[q] = stage[q] /\ chain'[q] = chain[q]
      /\ stage' \in [Ids -> Stages] /\ chain' \in [Ids -> Seq(Events)]
  BY <1>3 DEF Appends, HomeInv, HomeTypes
<1> HIDE DEF a
<1>5. Writer(r) /\ Handler(r) /\ OnDisk(r) /\ r \in dirs
  BY DEF HomeInv, Requests, Handler
<1>6. Writer(r)'
  BY <1>4, <1>5 DEF Writer, Starting
<1>7. Handler(r)'
  <2>1. chain[r] = <<>> => Len(chain[r]) = 0
    OBVIOUS
  <2>2. Len(chain[r]) \in Nat
    BY <1>1
  <2>3. to = "storing" => AtEnd(a)
    BY <1>3 DEF NameOf, Terminal
  <2>4. AtEnd(a) => a[Len(a)] = "completed" /\ Len(a) <= MaxTokens + 3
    BY <1>3, <2>2, BoundsAssumption
  <2>5. to = "running" => Len(a) = 1
    BY <1>3, <2>1
  <2>6. to \in {"running", "publishing"} => ~AtEnd(a)
    BY <1>3
  <2> QED
    BY <1>2, <1>3, <1>4, <1>5, <2>3, <2>4, <2>5, <2>6 DEF Handler
<1>8. OnDisk(r)'
  <2>1. \E c \in files'[r] \cup {<<>>} : IsChain(c) /\ files'[r] = FilesOf(c)
    BY <1>2, ChainSeen
  <2> QED
    BY <2>1, <1>5 DEF OnDisk, Handler
<1> QED
  BY <1>2, <1>4, <1>6, <1>7, <1>8 DEF RequestInv, HomeInv, HomeTypes

(* A write that fails loses the request, unless its directory is gone.      *)
LEMMA NotWriting ==
  ASSUME HomeInv, NEW r \in Ids, who[r] # Nobody, NotWritten(r)
  PROVE  files' = files /\ lost' = lost \cup {r}
BY DEF NotWritten, HomeInv, Requests, Handler

LEMMA HandlerAtWork ==
  ASSUME HomeInv, NEW r \in Ids, stage[r] # "closed"
  PROVE  /\ who[r] # Nobody /\ Handler(r) /\ RequestInv(r)
         /\ chain[r] \in Seq(Events) /\ r \in dirs /\ r \notin receipts
         /\ IsChain(chain[r]) /\ files[r] = FilesOf(chain[r])
BY DEF HomeInv, HomeTypes, Requests, RequestInv, Writer, Handler

LEMMA AcceptStep ==
  ASSUME OwnerInv, HomeInv, NEW r \in Ids, Accept(r), UNCHANGED <<lockVars, ran>>
  PROVE  HomeInv'
<1>1. /\ who[r] # Nobody /\ Handler(r) /\ IsChain(chain[r])
      /\ files[r] = FilesOf(chain[r]) /\ r \in dirs /\ r \notin receipts
  BY HandlerAtWork DEF Accept
<1>2. /\ stage[r] = "opening" /\ chain[r] = <<>> /\ pc' = pc
      /\ UNCHANGED <<receipts, recovery, ran>>
  BY <1>1 DEF Accept, Handler, lockVars
<1>3. HomeTypes
  BY DEF HomeInv
<1>4. CASE Appends(r, "accepted", "running") /\ UNCHANGED dirs
  <2>1. "accepted" \in Events /\ NameOf("accepted") \notin Terminal
    BY DEF Events, NameOf, Terminal
  <2>2. Len(chain[r]) <= MaxTokens + 1
    BY <1>2, BoundsAssumption
  <2>3. "running" \in Stages \ {"closed", "opening"}
    BY DEF Stages
  <2>4. /\ RequestInv(r)' /\ who'[r] # Nobody /\ lost' = lost
        /\ \A q \in Ids \ {r} :
             /\ files'[q] = files[q] /\ who'[q] = who[q]
             /\ stage'[q] = stage[q] /\ chain'[q] = chain[q]
        /\ files' \in [Ids -> SUBSET Seq(Events)]
        /\ who' \in [Ids -> Procs \cup Runners \cup {Nobody}]
        /\ stage' \in [Ids -> Stages] /\ chain' \in [Ids -> Seq(Events)]
    BY <1>1, <1>2, <1>4, <2>1, <2>2, <2>3, Appending
  <2>5. HomeTypes'
    BY <1>2, <1>3, <1>4, <2>4 DEF HomeTypes, recovery
  <2> QED
    BY <1>1, <1>2, <1>4, <2>4, <2>5, HandlerStep
<1>5. CASE /\ NotWritten(r) /\ Closes(r)
           /\ dirs' = IF who[r] \in Procs THEN dirs \ {r} ELSE dirs
  <2>1. files' = files /\ lost' = lost \cup {r}
    BY <1>1, <1>5, NotWriting
  <2>2. files'[r] = {}
    BY <1>1, <1>2, <2>1, StateOfNothing
  <2>3. /\ RequestInv(r)' /\ who'[r] = Nobody
        /\ \A q \in Ids \ {r} :
             who'[q] = who[q] /\ stage'[q] = stage[q] /\ chain'[q] = chain[q]
        /\ who' \in [Ids -> Procs \cup Runners \cup {Nobody}]
        /\ stage' \in [Ids -> Stages] /\ chain' \in [Ids -> Seq(Events)]
    BY <1>1, <1>2, <1>5, <2>1, <2>2, Closing
  <2>4. \A q \in Ids \ {r} : q \in dirs' <=> q \in dirs
    BY <1>5
  <2>5. HomeTypes'
    BY <1>2, <1>3, <1>5, <2>1, <2>3 DEF HomeTypes, recovery
  <2> QED
    BY <1>1, <1>2, <2>1, <2>3, <2>4, <2>5, HandlerStep
<1> QED
  BY <1>4, <1>5 DEF Accept

(* The three ways a step of a handler ends, for the whole home.             *)
LEMMA CloseStep ==
  ASSUME OwnerInv, HomeInv, NEW r \in Ids, who[r] # Nobody, Closes(r),
         UNCHANGED <<lockVars, recovery, ran, dirs>>,
         NEW c, IsChain(c), files'[r] = FilesOf(c),
         \A q \in Ids \ {r} : files'[q] = files[q],
         files' \in [Ids -> SUBSET Seq(Events)],
         receipts' \in {receipts, receipts \cup {r}},
         r \in receipts' => State(files'[r]) = "completed",
         lost' \in {lost, lost \cup {r}},
         r \in ServeIds \ lost' => ~Open(files'[r])
  PROVE  HomeInv'
<1>1. r \in dirs
  BY DEF HomeInv, Requests, Handler
<1>2. /\ RequestInv(r)' /\ who'[r] = Nobody
      /\ \A q \in Ids \ {r} :
           who'[q] = who[q] /\ stage'[q] = stage[q] /\ chain'[q] = chain[q]
      /\ who' \in [Ids -> Procs \cup Runners \cup {Nobody}]
      /\ stage' \in [Ids -> Stages] /\ chain' \in [Ids -> Seq(Events)]
  BY <1>1, Closing
<1>3. HomeTypes'
  BY <1>2 DEF HomeInv, HomeTypes, recovery
<1> QED
  BY <1>2, <1>3, HandlerStep

LEMMA MoveStep ==
  ASSUME OwnerInv, HomeInv, NEW r \in Ids, who[r] # Nobody, chain[r] # <<>>,
         NEW to \in Stages \ {"closed", "opening", "running", "storing"},
         to = "publishing" => ~AtEnd(chain[r]),
         To(r, to), UNCHANGED <<lockVars, recovery, ran, store>>,
         lost' \in {lost, lost \cup {r}}
  PROVE  HomeInv'
<1>1. pc' = pc /\ UNCHANGED store
  BY DEF lockVars
<1>2. /\ RequestInv(r)' /\ who'[r] # Nobody
      /\ \A q \in Ids \ {r} :
           who'[q] = who[q] /\ stage'[q] = stage[q] /\ chain'[q] = chain[q]
      /\ who' \in [Ids -> Procs \cup Runners \cup {Nobody}]
      /\ stage' \in [Ids -> Stages] /\ chain' \in [Ids -> Seq(Events)]
  BY <1>1, MovingOn
<1>3. HomeTypes'
  BY <1>2 DEF HomeInv, HomeTypes, recovery, store
<1> QED
  BY <1>2, <1>3, HandlerStep DEF store

(* A failed attempt: serve tries the next thing, `run` returns.             *)
LEMMA GivesUpStep ==
  ASSUME OwnerInv, HomeInv, NEW r \in Ids, who[r] # Nobody, chain[r] # <<>>,
         NEW to \in Stages \ {"closed", "opening", "running", "storing", "publishing"},
         GivesUp(r, to), UNCHANGED <<lockVars, recovery, ran, store>>,
         lost' \in {lost, lost \cup {r}}
  PROVE  HomeInv'
<1>1. IsChain(chain[r]) /\ files[r] = FilesOf(chain[r]) /\ r \notin receipts /\ Writer(r)
  BY DEF HomeInv, Requests, Handler
<1>2. CASE who[r] \in Runners
  <2>1. r \notin ServeIds
    BY <1>1, <1>2 DEF Writer, ServeIds
  <2>2. files' = files /\ receipts' = receipts /\ dirs' = dirs
    BY DEF store
  <2>3. Closes(r) /\ files \in [Ids -> SUBSET Seq(Events)]
    BY <1>2 DEF GivesUp, HomeInv, HomeTypes
  <2> QED
    BY <1>1, <2>1, <2>2, <2>3, CloseStep
<1>3. CASE who[r] \notin Runners
  BY <1>3, MoveStep DEF GivesUp
<1> QED
  BY <1>2, <1>3

LEMMA AppendStep ==
  ASSUME OwnerInv, HomeInv, NEW r \in Ids, who[r] # Nobody, NEW e \in Events,
         NEW to \in {"publishing", "storing"}, Appends(r, e, to),
         UNCHANGED <<lockVars, recovery, ran, dirs, receipts>>,
         chain[r] # <<>>, e # "accepted",
         NameOf(e) \in Terminal \/ Len(chain[r]) <= MaxTokens + 1,
         to = "publishing" => NameOf(e) \notin Terminal,
         to = "storing" => e = "completed" /\ Len(chain[r]) <= MaxTokens + 2
  PROVE  HomeInv'
<1>1. pc' = pc /\ UNCHANGED <<dirs, receipts>> /\ to \in Stages \ {"closed", "opening"}
  BY DEF lockVars, Stages
<1>2. /\ RequestInv(r)' /\ who'[r] # Nobody /\ lost' = lost
      /\ \A q \in Ids \ {r} :
           /\ files'[q] = files[q] /\ who'[q] = who[q]
           /\ stage'[q] = stage[q] /\ chain'[q] = chain[q]
      /\ files' \in [Ids -> SUBSET Seq(Events)]
      /\ who' \in [Ids -> Procs \cup Runners \cup {Nobody}]
      /\ stage' \in [Ids -> Stages] /\ chain' \in [Ids -> Seq(Events)]
  BY <1>1, Appending
<1>3. HomeTypes'
  BY <1>2 DEF HomeInv, HomeTypes, recovery
<1> QED
  BY <1>2, <1>3, HandlerStep

LEMMA EndsStep ==
  ASSUME OwnerInv, HomeInv, NEW r \in Ids, Ends(r), UNCHANGED <<lockVars, ran>>
  PROVE  HomeInv'
<1>1. /\ who[r] # Nobody /\ Handler(r) /\ IsChain(chain[r])
      /\ files[r] = FilesOf(chain[r]) /\ r \notin receipts /\ Writer(r)
  BY HandlerAtWork DEF Ends, HomeInv, Requests
<1>2. chain[r] # <<>> /\ ~AtEnd(chain[r]) /\ UNCHANGED <<recovery, ran, store>> /\ lost' = lost
  BY <1>1 DEF Ends, Handler
<1>3. CASE \E to \in {"publishing", "sealing", "cancelling", "ending"} : To(r, to)
  BY <1>1, <1>2, <1>3, MoveStep DEF Stages
<1>4. CASE who[r] \in Runners /\ Closes(r)
  <2>1. r \notin ServeIds
    BY <1>1, <1>4 DEF Writer, ServeIds
  <2>2. files' = files /\ receipts' = receipts /\ dirs' = dirs
    BY <1>2 DEF store
  <2>3. files \in [Ids -> SUBSET Seq(Events)]
    BY DEF HomeInv, HomeTypes
  <2> QED
    BY <1>1, <1>2, <1>4, <2>1, <2>2, <2>3, CloseStep
<1> QED
  BY <1>3, <1>4 DEF Ends

LEMMA PublishStep ==
  ASSUME OwnerInv, HomeInv, NEW r \in Ids, Publish(r), UNCHANGED <<lockVars, ran>>
  PROVE  HomeInv'
<1>1. /\ who[r] # Nobody /\ Handler(r) /\ IsChain(chain[r])
  BY HandlerAtWork DEF Publish
<1>2. /\ chain[r] # <<>> /\ Len(chain[r]) <= MaxTokens + 2
      /\ UNCHANGED <<recovery, ran, dirs, receipts>>
  BY <1>1 DEF Publish, Handler, IsChain
<1>3. /\ {"prefill", "token", "completed"} \subseteq Events
      /\ NameOf("completed") \in Terminal
      /\ NameOf("prefill") \notin Terminal /\ NameOf("token") \notin Terminal
  BY DEF Events, NameOf, Terminal
<1>4. ASSUME Len(chain[r]) <= MaxTokens + 1, NEW e \in {"prefill", "token"},
             Appends(r, e, "publishing")
      PROVE  HomeInv'
  BY <1>1, <1>2, <1>3, <1>4, AppendStep
<1>5. CASE Appends(r, "completed", "storing")
  BY <1>1, <1>2, <1>3, <1>5, AppendStep
<1>6. CASE NotWritten(r) /\ GivesUp(r, "sealing")
  <2>1. files' = files /\ lost' = lost \cup {r}
    BY <1>1, <1>6, NotWriting
  <2>2. UNCHANGED <<lockVars, recovery, ran, store>>
    BY <1>2, <2>1 DEF store
  <2> QED
    BY <1>1, <1>2, <1>6, <2>1, <2>2, GivesUpStep DEF Stages
<1> QED
  BY <1>4, <1>5, <1>6 DEF Publish

LEMMA StoreReceiptStep ==
  ASSUME OwnerInv, HomeInv, NEW r \in Ids, StoreReceipt(r), UNCHANGED <<lockVars, ran>>
  PROVE  HomeInv'
<1>1. /\ who[r] # Nobody /\ Handler(r) /\ IsChain(chain[r])
      /\ files[r] = FilesOf(chain[r])
  BY HandlerAtWork DEF StoreReceipt
<1>2. /\ chain[r] # <<>> /\ AtEnd(chain[r])
      /\ UNCHANGED <<recovery, ran, dirs, files>>
  BY <1>1 DEF StoreReceipt, Handler
<1>3. State(files[r]) = "completed" /\ ~Open(files[r])
  <2>1. chain[r][Len(chain[r])] = "completed"
    BY <1>1, <1>2 DEF Handler
  <2>2. State(FilesOf(chain[r])) = NameOf(chain[r][Len(chain[r])])
    BY <1>1, <1>2, ChainSeen
  <2> QED
    BY <1>1, <2>1, <2>2 DEF NameOf, Open
<1>4. CASE receipts' = receipts \cup {r} /\ Closes(r) /\ UNCHANGED lost
  <2>1. files \in [Ids -> SUBSET Seq(Events)]
    BY DEF HomeInv, HomeTypes
  <2> QED
    BY <1>1, <1>2, <1>3, <1>4, <2>1, CloseStep
<1>5. CASE lost' = lost \cup {r} /\ GivesUp(r, "sealing") /\ UNCHANGED receipts
  <2>1. UNCHANGED <<lockVars, recovery, ran, store>>
    BY <1>2, <1>5 DEF store
  <2> QED
    BY <1>1, <1>2, <1>5, <2>1, GivesUpStep DEF Stages
<1> QED
  BY <1>4, <1>5 DEF StoreReceipt

(* An event that ends the chain, and the handle is dropped.                 *)
LEMMA SealWritten ==
  ASSUME OwnerInv, HomeInv, NEW r \in Ids, who[r] # Nobody, chain[r] # <<>>,
         NEW e \in {"failed", "cancelled"}, Written(r, chain[r], e), Closes(r),
         UNCHANGED <<lockVars, recovery, ran, dirs, receipts>>
  PROVE  HomeInv'
<1>1. e \in Events /\ NameOf(e) \in Terminal /\ e # "accepted"
  BY DEF Events, NameOf, Terminal
<1>2. /\ files'[r] = FilesOf(Append(chain[r], e))
      /\ \A q \in Ids \ {r} : files'[q] = files[q]
      /\ files' \in [Ids -> SUBSET Seq(Events)]
      /\ IsChain(Append(chain[r], e)) /\ lost' = lost
  BY <1>1, HandlerWrites
<1>3. r \notin receipts /\ chain[r] \in Seq(Events)
  BY DEF HomeInv, HomeTypes, Requests, Handler
<1>4. ~Open(files'[r])
  <2>1. AtEnd(Append(chain[r], e))
    BY <1>1, <1>3, LongerChain
  <2> QED
    BY <1>2, <2>1, ChainSeen
<1> QED
  BY <1>2, <1>3, <1>4, CloseStep

LEMMA SealAsStep ==
  ASSUME OwnerInv, HomeInv, NEW r \in Ids,
         NEW from \in {"sealing", "cancelling", "ending"},
         NEW events \in SUBSET {"failed", "cancelled"},
         NEW next \in SUBSET {"ending", "dropping"},
         SealAs(r, from, events, next), UNCHANGED <<lockVars, ran>>
  PROVE  HomeInv'
<1>1. who[r] # Nobody /\ Handler(r)
  BY HandlerAtWork DEF SealAs
<1>2. chain[r] # <<>> /\ UNCHANGED <<recovery, ran, dirs, receipts>>
  BY <1>1 DEF SealAs, Handler
<1>3. CASE \E e \in events : Written(r, chain[r], e) /\ Closes(r)
  BY <1>1, <1>2, <1>3, SealWritten
<1>4. CASE NotWritten(r) /\ \E to \in next : GivesUp(r, to)
  <2>1. files' = files /\ lost' = lost \cup {r}
    BY <1>1, <1>4, NotWriting
  <2>2. UNCHANGED <<lockVars, recovery, ran, store>>
    BY <1>2, <2>1 DEF store
  <2> QED
    BY <1>1, <1>2, <1>4, <2>1, <2>2, GivesUpStep DEF Stages
<1> QED
  BY <1>3, <1>4 DEF SealAs

LEMMA DropStep ==
  ASSUME OwnerInv, HomeInv, NEW r \in Ids, Drop(r), UNCHANGED <<lockVars, ran>>
  PROVE  HomeInv'
<1>1. /\ who[r] # Nobody /\ Handler(r) /\ IsChain(chain[r])
      /\ files[r] = FilesOf(chain[r]) /\ r \notin receipts
  BY HandlerAtWork DEF Drop
<1>2. /\ chain[r] # <<>> /\ Closes(r)
      /\ UNCHANGED <<recovery, ran, dirs, receipts>>
  BY <1>1 DEF Drop, Handler
<1>3. CASE Written(r, chain[r], "failed")
  BY <1>1, <1>2, <1>3, SealWritten
<1>4. CASE NotWritten(r)
  <2>1. files' = files /\ lost' = lost \cup {r}
    BY <1>1, <1>4, NotWriting
  <2>2. files \in [Ids -> SUBSET Seq(Events)]
    BY DEF HomeInv, HomeTypes
  <2> QED
    BY <1>1, <1>2, <2>1, <2>2, CloseStep
<1> QED
  BY <1>3, <1>4 DEF Drop

LEMMA HandleKeepsHome ==
  ASSUME OwnerInv, HomeInv, NEW r \in Ids, HandleStep(r)
  PROVE  HomeInv'
<1>1. Handle(r) /\ UNCHANGED <<lockVars, ran>>
  BY DEF HandleStep
<1>2. CASE Accept(r) \/ Ends(r) \/ Publish(r) \/ StoreReceipt(r) \/ Drop(r)
  BY <1>1, <1>2, AcceptStep, EndsStep, PublishStep, StoreReceiptStep, DropStep
<1>3. CASE SealFailed(r) \/ SealCancelled(r) \/ SealEnding(r)
  BY <1>1, <1>3, SealAsStep DEF SealFailed, SealCancelled, SealEnding
<1> QED
  BY <1>1, <1>2, <1>3 DEF Handle

-----------------------------------------------------------------------------
(* Requests and runs begin.                                                 *)

LEMMA CreateStep ==
  ASSUME HomeInv, \A p \in Procs : rec[p] = "list",
         NEW r \in Ids, NEW w \in Procs \cup Runners, CreateJournal(w, r),
         w \in Procs => pc[w] = "serving" /\ r \notin RunIds,
         w \in Runners => r \in RunIds /\ \A p \in Procs : ~Starting(p),
         UNCHANGED lockVars, ran' \subseteq Runners
  PROVE  HomeInv'
<1>1. w # Nobody
  BY NobodyAssumption, RunnersAssumption
<1>2. Writer(r) /\ Handler(r) /\ OnDisk(r)
  BY DEF HomeInv, Requests
<1>3. /\ files[r] = {} /\ who[r] = Nobody /\ chain[r] = <<>> /\ r \notin receipts
  BY <1>2, StateOfNothing DEF CreateJournal, Writer, Handler, OnDisk
<1>4. HomeTypes'
  BY DEF HomeInv, HomeTypes, CreateJournal, Stages, recovery
<1>5. /\ who'[r] = w /\ stage'[r] = "opening" /\ r \in dirs'
      /\ pc' = pc /\ files' = files /\ chain' = chain /\ receipts' = receipts
      /\ lost' = lost /\ rec' = rec /\ todo' = todo /\ found' = found
      /\ \A q \in Ids \ {r} : /\ who'[q] = who[q] /\ stage'[q] = stage[q]
                              /\ q \in dirs' <=> q \in dirs
  BY DEF HomeInv, HomeTypes, CreateJournal, recovery, lockVars
<1>6. IsChain(<<>>) /\ FilesOf(<<>>) = {} /\ ~AtEnd(<<>>)
  BY StateOfNothing, BoundsAssumption DEF IsChain, AtEnd
<1>7. RequestInv(r)'
  <2>1. Writer(r)'
    BY <1>1, <1>5, RunnersAssumption DEF Writer, Starting
  <2>2. Handler(r)'
    BY <1>3, <1>5, <1>6 DEF Handler
  <2>3. OnDisk(r)'
    BY <1>2, <1>5 DEF OnDisk
  <2> QED
    BY <2>1, <2>2, <2>3 DEF RequestInv
<1>8. Requests'
  <2>1. \A q \in Ids \ {r} : RequestInv(q)
    BY DEF HomeInv, Requests, RequestInv
  <2>2. \A q \in Ids \ {r} : RequestInv(q)'
    BY <1>5, <2>1, RequestKept
  <2> QED
    BY <1>7, <2>2 DEF Requests, RequestInv
<1>9. Recoveries'
  BY <1>5 DEF Recoveries, Recovery, OnList
<1>10. OpenMeansHandled'
  BY <1>1, <1>5 DEF HomeInv, OpenMeansHandled, ServeIds
<1> QED
  BY <1>4, <1>8, <1>9, <1>10 DEF HomeInv

LEMMA RequestKeepsHome ==
  ASSUME OwnerInv, HomeInv, NEW p \in Procs, NEW r \in ServeIds, Request(p, r)
  PROVE  HomeInv'
<1>1. \A q \in Procs : rec[q] = "list"
  BY DEF HomeInv, Recoveries, Recovery, OwnerInv, Ownership, NamedOnDisk, Named,
         Holding, Request
<1>2. r \in Ids /\ r \notin RunIds /\ ran \subseteq Runners /\ p \notin Runners
  BY RunnersAssumption DEF ServeIds, HomeInv, HomeTypes
<1> QED
  BY <1>1, <1>2, CreateStep DEF Request

LEMMA RunKeepsHome ==
  ASSUME ~Strays, OwnerInv, HomeInv, NEW c \in Runners, Run(c)
  PROVE  HomeInv'
<1>1. \A q \in Procs : ~Starting(q)
  BY DEF Run
<1>2. \A q \in Procs : rec[q] = "list"
  BY <1>1 DEF HomeInv, Recoveries, Recovery, Starting
<1>3. RunId[c] \in RunIds /\ RunId[c] \in Ids /\ c \notin Procs
  BY IdsAssumption, RunnersAssumption DEF RunIds
<1>4. ran' \subseteq Runners
  BY DEF Run, HomeInv, HomeTypes
<1> QED
  BY <1>1, <1>2, <1>3, <1>4, CreateStep DEF Run

-----------------------------------------------------------------------------
(* Recovery.                                                                *)

LEMMA RecoveryStep ==
  ASSUME OwnerInv, HomeInv, NEW p \in Procs, pc[p] = "recover",
         UNCHANGED <<lockVars, handles, ran>>, HomeTypes',
         \A r \in Ids : OnDisk(r)', Recovery(p)', OnList(p)',
         \A q \in Procs \ {p} : rec'[q] = rec[q]
  PROVE  HomeInv'
<1>1. pc' = pc /\ who' = who /\ stage' = stage /\ chain' = chain
  BY DEF lockVars, handles
<1>2. /\ \A r \in Ids : who[r] = Nobody
      /\ \A q \in Procs : pc[q] # "serving"
      /\ \A q \in Procs \ {p} : rec[q] = "list"
  BY RecoveryIsAlone
<1>3. Requests'
  <2>1. \A r \in Ids : Writer(r)'
    BY <1>1, <1>2 DEF HomeInv, Requests, Writer, Starting
  <2>2. \A r \in Ids : Handler(r)'
    BY <1>1, <1>2 DEF Handler
  <2> QED
    BY <2>1, <2>2 DEF Requests
<1>4. Recoveries'
  <2>1. \A q \in Procs \ {p} : Recovery(q)' /\ OnList(q)'
    BY <1>1, <1>2 DEF Recovery, OnList
  <2> QED
    BY <2>1 DEF Recoveries
<1>5. OpenMeansHandled'
  BY <1>1, <1>2 DEF OpenMeansHandled
<1> QED
  BY <1>3, <1>4, <1>5 DEF HomeInv

LEMMA ListKeepsHome ==
  ASSUME OwnerInv, HomeInv, NEW p \in Procs, pc[p] = "recover", List(p),
         UNCHANGED <<lockVars, ran>>
  PROVE  HomeInv'
<1>1. /\ UNCHANGED <<lockVars, handles, ran, store, lost, found>> /\ pc' = pc
      /\ rec'[p] = "visit" /\ todo'[p] = dirs
      /\ \A q \in Procs \ {p} : rec'[q] = rec[q]
  BY DEF List, Recovering, HomeInv, HomeTypes, lockVars
<1>2. HomeTypes'
  BY DEF List, Recovering, HomeInv, HomeTypes, store, handles
<1>3. \A r \in Ids : OnDisk(r)'
  BY <1>1 DEF HomeInv, Requests, OnDisk, store
<1>4. Recovery(p)'
  BY <1>1 DEF Recovery
<1>5. OnList(p)'
  <2> SUFFICES ASSUME NEW r \in ServeIds \ lost', Open(files'[r])
               PROVE  r \in dirs
    BY <1>1 DEF OnList
  <2>1. files[r] # {}
    BY <1>1, StateOfNothing DEF Open, store
  <2> QED
    BY <2>1 DEF HomeInv, Requests, OnDisk, ServeIds
<1> QED
  BY <1>1, <1>2, <1>3, <1>4, <1>5, RecoveryStep

LEMMA VisitKeepsHome ==
  ASSUME OwnerInv, HomeInv, NEW p \in Procs, pc[p] = "recover", Visit(p),
         UNCHANGED <<lockVars, ran>>
  PROVE  HomeInv'
<1> DEFINE r == First(todo[p])
           F == files[r]
<1>1. /\ UNCHANGED <<lockVars, handles, ran, store, lost>> /\ pc' = pc
      /\ rec[p] = "visit" /\ todo[p] \subseteq Ids
      /\ files' = files /\ dirs' = dirs /\ receipts' = receipts
      /\ \A q \in Procs \ {p} : rec'[q] = rec[q]
  BY DEF Visit, Visits, Recovering, HomeInv, HomeTypes, lockVars, store
<1>2. \A q \in Ids : OnDisk(q)'
  BY <1>1 DEF HomeInv, Requests, OnDisk
<1>3. OnList(p)
  BY DEF HomeInv, Recoveries
<1>4. CASE todo' = todo /\ found' = found
           /\ Recovering(p, "error")
  <2>1. HomeTypes' /\ rec'[p] = "error"
    BY <1>1, <1>4 DEF Recovering, HomeInv, HomeTypes, handles
  <2>2. Recovery(p)' /\ OnList(p)'
    BY <1>1, <1>3, <1>4, <2>1 DEF Recovery, OnList
  <2> QED
    BY <1>1, <1>2, <2>1, <2>2, RecoveryStep
<1>5. CASE todo' = todo /\ found' = found
           /\ Recovering(p, "remove") /\ F = {}
  <2>1. HomeTypes' /\ rec'[p] = "remove"
    BY <1>1, <1>5 DEF Recovering, HomeInv, HomeTypes, handles
  <2>2. Recovery(p)' /\ OnList(p)'
    BY <1>1, <1>3, <1>5, <2>1 DEF Recovery, OnList
  <2> QED
    BY <1>1, <1>2, <2>1, <2>2, RecoveryStep
<1>6. CASE /\ todo' = todo /\ r \in dirs /\ Open(F)
           /\ found' = [found EXCEPT ![p] = ReadChain(F)]
           /\ Recovering(p, "seal")
  <2>1. r \in Ids
    BY <1>6 DEF HomeInv, HomeTypes
  <2>2. PICK c : c \in F \cup {<<>>} /\ IsChain(c) /\ F = FilesOf(c)
    BY <2>1 DEF HomeInv, Requests, OnDisk
  <2>3. c # <<>> /\ ~AtEnd(c) /\ ReadChain(F) = c /\ c \in Seq(Events)
    BY <1>6, <2>2, ChainSeen DEF IsChain
  <2>4. HomeTypes' /\ rec'[p] = "seal" /\ found'[p] = c
    BY <1>1, <1>6, <2>3 DEF Recovering, HomeInv, HomeTypes, handles
  <2>5. Recovery(p)'
    BY <1>1, <1>6, <2>2, <2>3, <2>4 DEF Recovery
  <2>6. OnList(p)'
    BY <1>1, <1>3, <1>6 DEF OnList
  <2> QED
    BY <1>1, <1>2, <2>4, <2>5, <2>6, RecoveryStep
<1>7. CASE /\ todo' = [todo EXCEPT ![p] = @ \ {r}] /\ UNCHANGED <<rec, found>>
           /\ Sealed(F)
  <2>1. /\ HomeTypes' /\ rec'[p] = "visit" /\ todo'[p] = todo[p] \ {r}
        /\ \A q \in Procs \ {p} : rec'[q] = rec[q]
    BY <1>1, <1>7 DEF HomeInv, HomeTypes, handles
  <2>2. ~Open(F)
    BY <1>7 DEF Open, Sealed, Terminal
  <2>3. Recovery(p)' /\ OnList(p)'
    BY <1>1, <1>3, <2>1, <2>2 DEF Recovery, OnList
  <2> QED
    BY <1>1, <1>2, <2>1, <2>3, RecoveryStep
<1> QED
  BY <1>4, <1>5, <1>6, <1>7 DEF Visit, NeedsSeal, Unaccepted

LEMMA RemoveKeepsHome ==
  ASSUME OwnerInv, HomeInv, NEW p \in Procs, pc[p] = "recover", RemoveUnaccepted(p),
         UNCHANGED <<lockVars, ran>>
  PROVE  HomeInv'
<1> DEFINE r == First(todo[p])
<1>1. /\ rec[p] = "remove" /\ files[r] = {} /\ OnList(p)
      /\ files \in [Ids -> SUBSET Seq(Events)]
  BY DEF RemoveUnaccepted, HomeInv, HomeTypes, Recoveries, Recovery
<1>2. /\ UNCHANGED <<lockVars, handles, ran, lost>> /\ pc' = pc
      /\ rec'[p] = "visit" /\ todo'[p] = todo[p] \ {r}
      /\ dirs' = dirs \ {r} /\ receipts' = receipts
      /\ \A q \in Procs \ {p} : rec'[q] = rec[q]
  BY DEF RemoveUnaccepted, Recovering, HomeInv, HomeTypes, lockVars
<1>3. files' = files
  BY <1>1 DEF RemoveUnaccepted
<1>4. HomeTypes'
  BY <1>2, <1>3 DEF RemoveUnaccepted, Recovering, HomeInv, HomeTypes, handles
<1>5. \A q \in Ids : OnDisk(q)'
  BY <1>1, <1>2, <1>3 DEF HomeInv, Requests, OnDisk
<1>6. ~Open(files[r])
  BY <1>1, StateOfNothing DEF Open
<1>7. Recovery(p)' /\ OnList(p)'
  BY <1>1, <1>2, <1>3, <1>6 DEF Recovery, OnList
<1> QED
  BY <1>2, <1>4, <1>5, <1>7, RecoveryStep

LEMMA SealKeepsHome ==
  ASSUME OwnerInv, HomeInv, NEW p \in Procs, pc[p] = "recover", Seal(p),
         UNCHANGED <<lockVars, ran>>
  PROVE  HomeInv'
<1> DEFINE r == First(todo[p])
           c == found[p]
           d == Append(c, "workerLost")
<1>1. /\ rec[p] = "seal" /\ r \in dirs /\ r \in Ids
      /\ IsChain(c) /\ c # <<>> /\ ~AtEnd(c) /\ files[r] = FilesOf(c)
      /\ OnList(p)
  BY DEF Seal, HomeInv, HomeTypes, Recoveries, Recovery
<1>2. /\ UNCHANGED <<lockVars, handles, ran, found>> /\ pc' = pc
      /\ dirs' = dirs /\ receipts' = receipts
  BY DEF Seal, lockVars
<1>3. r \notin receipts
  <2>1. State(files[r]) = "open"
    BY <1>1, ChainSeen
  <2> QED
    BY <1>1, <2>1 DEF HomeInv, Requests, OnDisk
<1>4. CASE /\ Written(r, c, "workerLost") /\ todo' = [todo EXCEPT ![p] = @ \ {r}]
           /\ Recovering(p, "visit")
  <2>1. /\ IsChain(d) /\ AtEnd(d) /\ d \in Seq(Events)
    <3>1. "workerLost" \in Events /\ NameOf("workerLost") \in Terminal
      BY DEF Events, NameOf, Terminal
    <3>2. c \in Seq(Events) /\ c[1] = "accepted" /\ Len(c) <= MaxTokens + 2
      BY <1>1 DEF IsChain
    <3>3. /\ d \in Seq(Events) /\ d # <<>> /\ Len(d) = Len(c) + 1
          /\ d[1] = c[1] /\ AtEnd(d)
      BY <1>1, <3>1, <3>2, LongerChain
    <3> HIDE DEF d
    <3> QED
      BY <3>2, <3>3, BoundsAssumption DEF IsChain
  <2>2. Put(files[r], d) = FilesOf(d)
    <3>1. c \in Seq(Events) /\ "workerLost" \in Events
      BY <1>1 DEF IsChain, Events
    <3> QED
      BY <1>1, <3>1, AppendAddsFile
  <2>3. files \in [Ids -> SUBSET Seq(Events)]
    BY DEF HomeInv, HomeTypes
  <2>4. /\ FilesOf(d) \in SUBSET Seq(Events) /\ ~Open(FilesOf(d))
        /\ d \in FilesOf(d)
    BY <2>1, ChainSeen DEF AtEnd
  <2> HIDE DEF d
  <2>5. files' = [files EXCEPT ![r] = FilesOf(d)] /\ lost' = lost
    BY <1>4, <2>2 DEF Written, d
  <2>6. /\ files'[r] = FilesOf(d) /\ files' \in [Ids -> SUBSET Seq(Events)]
        /\ \A q \in Ids \ {r} : files'[q] = files[q]
    BY <1>1, <2>3, <2>4, <2>5
  <2>7. /\ HomeTypes' /\ rec'[p] = "visit" /\ todo'[p] = todo[p] \ {r}
        /\ \A q \in Procs \ {p} : rec'[q] = rec[q]
    BY <1>2, <1>4, <2>5, <2>6 DEF Recovering, HomeInv, HomeTypes, handles
  <2>8. ASSUME NEW q \in Ids PROVE OnDisk(q)'
    <3>1. CASE q = r
      BY <1>1, <1>2, <1>3, <2>1, <2>4, <2>6, <3>1 DEF OnDisk
    <3>2. CASE q # r
      <4>1. OnDisk(q) /\ files'[q] = files[q]
        BY <2>6, <3>2 DEF HomeInv, Requests
      <4> QED
        BY <1>2, <4>1 DEF OnDisk
    <3> QED
      BY <3>1, <3>2
  <2>9. Recovery(p)'
    BY <1>2, <2>7 DEF Recovery
  <2>10. OnList(p)'
    <3> SUFFICES ASSUME NEW q \in ServeIds \ lost, Open(files'[q])
                 PROVE  q \in todo[p] \ {r}
      BY <2>5, <2>7 DEF OnList
    <3>1. q \in Ids /\ q # r
      BY <2>4, <2>6 DEF ServeIds
    <3>2. files'[q] = files[q]
      BY <2>6, <3>1
    <3>3. Open(files[q])
      BY <3>2
    <3>4. q \in todo[p]
      BY <1>1, <3>3 DEF OnList
    <3> QED
      BY <3>1, <3>4
  <2> QED
    BY <1>2, <2>7, <2>8, <2>9, <2>10, RecoveryStep
<1>5. CASE NotWritten(r) /\ Recovering(p, "error") /\ UNCHANGED todo
  <2>1. files' = files /\ lost' \in {lost, lost \cup {r}}
    BY <1>5 DEF NotWritten
  <2>2. /\ HomeTypes' /\ rec'[p] = "error"
        /\ \A q \in Procs \ {p} : rec'[q] = rec[q]
    BY <1>1, <1>2, <1>5, <2>1 DEF Recovering, HomeInv, HomeTypes, handles
  <2>3. \A q \in Ids : OnDisk(q)'
    BY <1>2, <2>1 DEF HomeInv, Requests, OnDisk
  <2>4. Recovery(p)' /\ OnList(p)'
    BY <1>1, <1>2, <1>5, <2>1, <2>2 DEF Recovery, OnList
  <2> QED
    BY <1>2, <2>2, <2>3, <2>4, RecoveryStep
<1> QED
  BY <1>4, <1>5 DEF Seal

LEMMA RecoverKeepsHome ==
  ASSUME OwnerInv, HomeInv, NEW p \in Procs, RecoverStep(p)
  PROVE  HomeInv'
BY ListKeepsHome, VisitKeepsHome, RemoveKeepsHome, SealKeepsHome
DEF RecoverStep, Recover

-----------------------------------------------------------------------------
(* The steps of the lock, and of processes that end.                        *)

(* A step that writes nothing and after which fewer processes are at work.  *)
LEMMA QuietStep ==
  ASSUME HomeInv, UNCHANGED <<journalVars, ran>>,
         \A r \in Ids : who[r] \in Procs => (pc[who[r]] = "serving")',
         \A r \in Ids : who[r] \in Runners => (\A q \in Procs : ~Starting(q))',
         \A q \in Procs : rec[q] # "list" => pc'[q] = "recover",
         \A q \in Procs : pc'[q] = "serving" => pc[q] = "serving"
  PROVE  HomeInv'
<1>1. /\ who' = who /\ stage' = stage /\ chain' = chain /\ files' = files
      /\ dirs' = dirs /\ receipts' = receipts /\ lost' = lost
      /\ rec' = rec /\ todo' = todo /\ found' = found
  BY DEF journalVars
<1>2. HomeTypes'
  BY <1>1 DEF HomeInv, HomeTypes
<1>3. ASSUME NEW r \in Ids PROVE (Writer(r) /\ Handler(r) /\ OnDisk(r))'
  <2>1. Writer(r) /\ Handler(r) /\ OnDisk(r)
    BY DEF HomeInv, Requests
  <2>2. Writer(r)'
    BY <1>1, <2>1 DEF Writer
  <2> QED
    BY <1>1, <2>1, <2>2 DEF Handler, OnDisk
<1>4. Recoveries'
  BY <1>1 DEF HomeInv, Recoveries, Recovery, OnList
<1>5. OpenMeansHandled'
  BY <1>1 DEF HomeInv, OpenMeansHandled
<1> QED
  BY <1>2, <1>3, <1>4, <1>5 DEF HomeInv, Requests

(* A process whose pc moves, and no other.                                  *)
LEMMA Moved ==
  ASSUME OwnerInv, NEW p \in Procs, NEW to, Goto(p, to)
  PROVE  pc'[p] = to /\ \A q \in Procs \ {p} : pc'[q] = pc[q]
BY DEF Goto, OwnerInv, LockTypeOK

LEMMA ClaimMoves ==
  ASSUME OwnerInv, NEW p \in Procs, Claim(p)
  PROVE  /\ pc[p] \in Claiming
         /\ pc'[p] # "serving"
         /\ \A q \in Procs \ {p} : pc'[q] = pc[q]
<1> USE DEF Leave, Claiming
<1>1. CASE Create(p) \/ Read(p) \/ Probe(p) \/ Bury(p)
  BY <1>1, Moved DEF Create, Read, Probe, Bury
<1>2. CASE Chmod(p) \/ WriteTmp(p) \/ Install(p)
  BY <1>2, Moved DEF Chmod, WriteTmp, Install, Installs
<1>3. CASE Mode(p)
  BY <1>3, Moved DEF Mode
<1>4. CASE Undo(p)
  BY <1>4, Moved DEF Undo, Empty, RemoveDir
<1> QED
  BY <1>1, <1>2, <1>3, <1>4 DEF Claim

LEMMA ClaimKeepsHome ==
  ASSUME OwnerInv, HomeInv, NEW p \in Procs, ClaimStep(p)
  PROVE  HomeInv'
<1>1. /\ pc[p] \in Claiming /\ pc'[p] # "serving"
      /\ \A q \in Procs \ {p} : pc'[q] = pc[q]
  BY ClaimMoves DEF ClaimStep
<1>2. /\ UNCHANGED <<journalVars, ran>> /\ who' = who
  BY DEF ClaimStep, journalVars
<1>3. \A r \in Ids : Writer(r)
  BY DEF HomeInv, Requests
<1>4. \A r \in Ids : who[r] \in Procs => (pc[who[r]] = "serving")'
  BY <1>1, <1>2, <1>3 DEF Writer, Claiming
<1>5. \A r \in Ids : who[r] \notin Runners
  BY <1>1, <1>3 DEF Writer, Starting
<1>6. \A q \in Procs : rec[q] # "list" => pc'[q] = "recover"
  BY <1>1 DEF HomeInv, Recoveries, Recovery, Claiming
<1> QED
  BY <1>1, <1>2, <1>4, <1>5, <1>6, QuietStep

(* While no stray writer is allowed, a start waits for the runs.            *)
LEMMA StartKeepsHome ==
  ASSUME ~Strays, OwnerInv, HomeInv, NEW p \in Procs, StartStep(p)
  PROVE  HomeInv'
<1>1. /\ pc[p] = "idle" /\ pc'[p] = "create"
      /\ \A q \in Procs \ {p} : pc'[q] = pc[q]
  BY Moved DEF StartStep, Start, MayStart
<1>2. UNCHANGED <<journalVars, ran>> /\ who' = who
  BY DEF StartStep, journalVars
<1>3. \A r \in Ids : Writer(r) /\ who[r] \notin Runners
  BY DEF HomeInv, Requests, StartStep, Idle
<1>4. \A r \in Ids : who[r] \in Procs => (pc[who[r]] = "serving")'
  BY <1>1, <1>2, <1>3 DEF Writer
<1>5. \A q \in Procs : rec[q] # "list" => pc'[q] = "recover"
  BY <1>1 DEF HomeInv, Recoveries, Recovery
<1> QED
  BY <1>1, <1>2, <1>3, <1>4, <1>5, QuietStep

(* A process that leaves, without handlers of its own.                      *)
LEMMA LeavingKeepsHome ==
  ASSUME OwnerInv, HomeInv, NEW p \in Procs, Idle(p), NEW to \in Leaving,
         Goto(p, to), pc[p] # "recover", UNCHANGED <<journalVars, ran>>
  PROVE  HomeInv'
<1>1. pc'[p] = to /\ \A q \in Procs \ {p} : pc'[q] = pc[q]
  BY Moved
<1>2. who' = who
  BY DEF journalVars
<1>3. \A r \in Ids : Writer(r) /\ who[r] # p
  BY DEF HomeInv, Requests, Idle
<1>4. \A r \in Ids : who[r] \in Procs => (pc[who[r]] = "serving")'
  BY <1>1, <1>2, <1>3 DEF Writer
<1>5. \A r \in Ids : who[r] \in Runners => (\A q \in Procs : ~Starting(q))'
  BY <1>1, <1>2, <1>3 DEF Writer, Starting, Claiming, Leaving
<1>6. \A q \in Procs : rec[q] # "list" => pc'[q] = "recover"
  BY <1>1 DEF HomeInv, Recoveries, Recovery
<1>7. \A q \in Procs : pc'[q] = "serving" => pc[q] = "serving"
  BY <1>1 DEF Leaving
<1> QED
  BY <1>4, <1>5, <1>6, <1>7, QuietStep

LEMMA ShutdownKeepsHome ==
  ASSUME ~Strays, OwnerInv, HomeInv, NEW p \in Procs, ShutdownStep(p)
  PROVE  HomeInv'
<1>1. Idle(p) /\ Goto(p, "check") /\ pc[p] = "serving"
  BY DEF ShutdownStep, HandlersDone, Shutdown, Moves
<1> QED
  BY <1>1, LeavingKeepsHome DEF ShutdownStep, Leaving

LEMMA ReleaseKeepsHome ==
  ASSUME OwnerInv, HomeInv, NEW p \in Procs, ReleaseStep(p)
  PROVE  HomeInv'
<1>1. /\ pc[p] \in {"check", "wipe", "rmdir"} /\ \E to \in Leaving : Goto(p, to)
  BY DEF ReleaseStep, Release, Check, Moves, Empty, RemoveDir, Leaving
<1>2. Idle(p)
  BY <1>1 DEF Idle, HomeInv, Requests, Writer
<1> QED
  BY <1>1, <1>2, LeavingKeepsHome DEF ReleaseStep

(* A process or a run ends. Its journals stay as they are on disk, and      *)
(* nobody has their handle any more.                                        *)
LEMMA DeathKeepsHome ==
  ASSUME OwnerInv, HomeInv, NEW w \in Procs \cup Runners, Dies(w),
         UNCHANGED <<store, lost, ran>>,
         \A q \in Procs \ {w} : /\ pc'[q] = pc[q] /\ rec'[q] = rec[q]
                                /\ todo'[q] = todo[q] /\ found'[q] = found[q],
         w \in Procs => pc'[w] \in Ended /\ rec'[w] = "list",
         w \in Runners => ~\E r \in ServeIds : who[r] = w,
         rec' \in [Procs -> {"list", "visit", "remove", "seal", "error"}],
         todo' \in [Procs -> SUBSET Ids], found' \in [Procs -> Seq(Events)]
  PROVE  HomeInv'
<1>1. /\ files' = files /\ dirs' = dirs /\ receipts' = receipts /\ lost' = lost
      /\ ran' = ran
  BY DEF store
<1>2. \A r \in Ids :
        IF who[r] = w
        THEN who'[r] = Nobody /\ stage'[r] = "closed" /\ chain'[r] = <<>>
        ELSE who'[r] = who[r] /\ stage'[r] = stage[r] /\ chain'[r] = chain[r]
  BY DEF Dies
<1>3. HomeTypes'
  <2>1. /\ who' \in [Ids -> Procs \cup Runners \cup {Nobody}]
        /\ stage' \in [Ids -> Stages] /\ chain' \in [Ids -> Seq(Events)]
    BY DEF Dies, HomeInv, HomeTypes, Stages
  <2> QED
    BY <1>1, <2>1 DEF HomeInv, HomeTypes
<1>4. Nobody \notin Procs /\ Nobody \notin Runners /\ Procs \cap Runners = {}
  BY NobodyAssumption, RunnersAssumption
<1>5. ASSUME NEW r \in Ids PROVE (Writer(r) /\ Handler(r) /\ OnDisk(r))'
  <2>1. Writer(r) /\ Handler(r) /\ OnDisk(r)
    BY DEF HomeInv, Requests
  <2>2. Writer(r)'
    <3>1. CASE who[r] = w
      BY <1>2, <1>4, <3>1 DEF Writer
    <3>2. CASE who[r] # w
      <4>1. who'[r] = who[r] /\ stage'[r] = stage[r] /\ chain'[r] = chain[r]
        BY <1>2, <3>2
      <4>2. \A q \in Procs : Starting(q)' => Starting(q)
        BY DEF Starting, Claiming, Ended
      <4> QED
        BY <2>1, <3>2, <4>1, <4>2 DEF Writer
    <3> QED
      BY <3>1, <3>2
  <2> QED
    BY <1>1, <1>2, <2>1, <2>2 DEF Handler, OnDisk
<1>6. Recoveries'
  BY <1>1, <1>4 DEF HomeInv, Recoveries, Recovery, OnList
<1>7. OpenMeansHandled'
  <2> SUFFICES ASSUME NEW p \in Procs, pc'[p] = "serving",
                      NEW r \in ServeIds \ lost, Open(files[r])
               PROVE  who'[r] # Nobody
    BY <1>1 DEF OpenMeansHandled
  <2>1. p # w /\ pc[p] = "serving"
    BY DEF Ended
  <2>2. who[r] # Nobody /\ r \in Ids
    BY <2>1 DEF HomeInv, OpenMeansHandled, ServeIds
  <2>3. who[r] = w => w \in Procs /\ pc[w] = "serving"
    BY <2>2 DEF HomeInv, Requests, Writer
  <2>4. who[r] # w
    BY <2>1, <2>3 DEF OwnerInv, Ownership, NamedOnDisk, Named, Holding
  <2> QED
    BY <1>2, <2>2, <2>4
<1> QED
  BY <1>3, <1>5, <1>6, <1>7 DEF HomeInv, Requests

LEMMA ExitKeepsHome ==
  ASSUME OwnerInv, HomeInv, NEW p \in Procs, ExitStep(p)
  PROVE  HomeInv'
<1>1. pc[p] = "exiting" /\ pc'[p] = "gone" /\ \A q \in Procs \ {p} : pc'[q] = pc[q]
  BY Moved DEF ExitStep, Exit, Moves
<1>2. /\ rec' = rec /\ todo' = todo /\ found' = found
      /\ UNCHANGED <<store, lost, ran>> /\ Dies(p)
  BY DEF ExitStep, recovery
<1>3. rec[p] = "list"
  BY <1>1 DEF HomeInv, Recoveries, Recovery
<1>4. /\ rec \in [Procs -> {"list", "visit", "remove", "seal", "error"}]
      /\ todo \in [Procs -> SUBSET Ids] /\ found \in [Procs -> Seq(Events)]
      /\ p \notin Runners
  BY RunnersAssumption DEF HomeInv, HomeTypes
<1> QED
  BY <1>1, <1>2, <1>3, <1>4, DeathKeepsHome DEF Ended

LEMMA Forgotten ==
  ASSUME HomeInv, NEW p \in Procs, Forgets(p)
  PROVE  /\ rec'[p] = "list"
         /\ \A q \in Procs \ {p} :
              rec'[q] = rec[q] /\ todo'[q] = todo[q] /\ found'[q] = found[q]
         /\ rec' \in [Procs -> {"list", "visit", "remove", "seal", "error"}]
         /\ todo' \in [Procs -> SUBSET Ids] /\ found' \in [Procs -> Seq(Events)]
BY DEF Forgets, HomeInv, HomeTypes

LEMMA KillKeepsHome ==
  ASSUME OwnerInv, HomeInv, NEW p \in Procs, KillStep(p)
  PROVE  HomeInv'
<1>1. pc'[p] = "gone" /\ \A q \in Procs \ {p} : pc'[q] = pc[q]
  BY Moved DEF KillStep, Kill, Leave
<1>2. Dies(p) /\ Forgets(p) /\ UNCHANGED <<store, lost, ran>>
  BY DEF KillStep
<1>3. p \notin Runners
  BY RunnersAssumption
<1> QED
  BY <1>1, <1>2, <1>3, Forgotten, DeathKeepsHome DEF Ended

LEMMA KillRunKeepsHome ==
  ASSUME OwnerInv, HomeInv, NEW c \in Runners, KillRun(c)
  PROVE  HomeInv'
<1>1. /\ pc' = pc /\ rec' = rec /\ todo' = todo /\ found' = found
      /\ UNCHANGED <<store, lost, ran>> /\ Dies(c)
  BY DEF KillRun, recovery, lockVars
<1>2. c \notin Procs /\ ~\E r \in ServeIds : who[r] = c
  BY RunnersAssumption DEF HomeInv, Requests, Writer, ServeIds
<1>3. /\ rec \in [Procs -> {"list", "visit", "remove", "seal", "error"}]
      /\ todo \in [Procs -> SUBSET Ids] /\ found \in [Procs -> Seq(Events)]
  BY DEF HomeInv, HomeTypes
<1> QED
  BY <1>1, <1>2, <1>3, DeathKeepsHome

(* The process that has recovered listens: nothing is left on its list.     *)
LEMMA RecoveryEnds ==
  ASSUME OwnerInv, HomeInv, NEW p \in Procs, pc[p] = "recover",
         NEW to, Goto(p, to), to \in Leaving \cup {"serving"}, Forgets(p),
         UNCHANGED <<store, handles, lost, ran>>,
         to = "serving" =>
           \A r \in ServeIds \ lost : ~Open(files[r])
  PROVE  HomeInv'
<1>1. pc'[p] = to /\ \A q \in Procs \ {p} : pc'[q] = pc[q]
  BY Moved
<1>2. /\ files' = files /\ dirs' = dirs /\ receipts' = receipts /\ lost' = lost
      /\ ran' = ran /\ who' = who /\ stage' = stage /\ chain' = chain
  BY DEF store, handles
<1>3. /\ \A r \in Ids : who[r] = Nobody
      /\ \A q \in Procs : pc[q] # "serving"
      /\ \A q \in Procs \ {p} : rec[q] = "list"
  BY RecoveryIsAlone
<1>4. HomeTypes'
  BY <1>2, Forgotten DEF HomeInv, HomeTypes
<1>5. Requests'
  <2>1. Nobody \notin Procs /\ Nobody \notin Runners
    BY NobodyAssumption, RunnersAssumption
  <2> QED
    BY <1>2, <1>3, <2>1 DEF HomeInv, Requests, Writer, Handler, OnDisk
<1>6. Recoveries'
  <2>1. \A q \in Procs : rec'[q] = "list"
    BY <1>3, Forgotten
  <2> QED
    BY <2>1 DEF Recoveries, Recovery, OnList
<1>7. OpenMeansHandled'
  BY <1>1, <1>2, <1>3 DEF OpenMeansHandled, Leaving
<1> QED
  BY <1>4, <1>5, <1>6, <1>7 DEF HomeInv

LEMMA ListenKeepsHome ==
  ASSUME OwnerInv, HomeInv, NEW p \in Procs, ListenStep(p)
  PROVE  HomeInv'
<1>1. pc[p] = "recover" /\ Goto(p, "serving") /\ rec[p] # "list" /\ todo[p] = {}
  BY DEF ListenStep, Recovered, Moves, RecoveryDone
<1>2. \A r \in ServeIds \ lost : ~Open(files[r])
  BY <1>1 DEF HomeInv, Recoveries, OnList
<1> QED
  BY <1>1, <1>2, RecoveryEnds DEF ListenStep

LEMMA GiveUpKeepsHome ==
  ASSUME OwnerInv, HomeInv, NEW p \in Procs, GiveUpStep(p)
  PROVE  HomeInv'
<1>1. pc[p] = "recover" /\ Goto(p, "check")
  BY DEF GiveUpStep, RecoveryFails, Moves
<1> QED
  BY <1>1, RecoveryEnds DEF GiveUpStep, Leaving

-----------------------------------------------------------------------------
(* Every step of the home keeps the invariant.                              *)

LEMMA StepHome ==
  ASSUME ~Strays, OwnerInv, HomeInv, [Next]_vars
  PROVE  HomeInv'
<1>1. CASE UNCHANGED vars
  <2>1. UNCHANGED lockVars /\ UNCHANGED journalVars /\ ran' = ran /\ pc' = pc
    BY <1>1 DEF vars, lockVars
  <2>2. \A r \in Ids : who[r] \in Procs => (pc[who[r]] = "serving")'
    BY <2>1 DEF HomeInv, Requests, Writer, journalVars
  <2>3. \A r \in Ids : who[r] \in Runners => (\A q \in Procs : ~Starting(q))'
    BY <2>1 DEF HomeInv, Requests, Writer, Starting
  <2>4. \A q \in Procs : rec[q] # "list" => pc'[q] = "recover"
    BY <2>1 DEF HomeInv, Recoveries, Recovery
  <2> QED
    BY <2>1, <2>2, <2>3, <2>4, QuietStep
<1>2. ASSUME NEW p \in Procs, StartStep(p) \/ Step(p) \/ ShutdownStep(p) \/ KillStep(p)
      PROVE  HomeInv'
  BY <1>2, StartKeepsHome, ClaimKeepsHome, RecoverKeepsHome, ListenKeepsHome,
     GiveUpKeepsHome, ReleaseKeepsHome, ExitKeepsHome, ShutdownKeepsHome,
     KillKeepsHome
  DEF Step
<1>3. ASSUME NEW p \in Procs, NEW r \in ServeIds, Request(p, r)
      PROVE  HomeInv'
  BY <1>3, RequestKeepsHome
<1>4. ASSUME NEW r \in Ids, HandleStep(r) PROVE HomeInv'
  BY <1>4, HandleKeepsHome
<1>5. ASSUME NEW c \in Runners, Run(c) \/ KillRun(c) PROVE HomeInv'
  BY <1>5, RunKeepsHome, KillRunKeepsHome
<1> QED
  BY <1>1, <1>2, <1>3, <1>4, <1>5 DEF Next

(* What a step may write: nothing, one event of a handler, the receipt of a *)
(* completed chain, or the recovery's event behind an open chain.           *)
NothingWritten == files' = files /\ receipts' = receipts
HandlerWrote(r, e) ==
  /\ who[r] # Nobody /\ Written(r, chain[r], e) /\ receipts' = receipts
  /\ chain[r] = <<>> <=> e = "accepted"
  /\ NameOf(e) \in Terminal \/ Len(chain[r]) <= MaxTokens + 1
  /\ AtEnd(chain[r]) => e \in {"failed", "cancelled"}
ReceiptStored(r) ==
  /\ who[r] # Nobody /\ AtEnd(chain[r])
  /\ files' = files /\ receipts' = receipts \cup {r}
RecoveryWrote(p) ==
  /\ pc[p] = "recover" /\ rec[p] = "seal" /\ receipts' = receipts
  /\ Written(First(todo[p]), found[p], "workerLost")

Effects ==
  \/ NothingWritten
  \/ \E r \in Ids, e \in Events \ {"workerLost"} : HandlerWrote(r, e)
  \/ \E r \in Ids : ReceiptStored(r)
  \/ \E p \in Procs : RecoveryWrote(p)

LEMMA HandlerEffects ==
  ASSUME HomeInv, NEW r \in Ids, Handle(r)
  PROVE  Effects
<1> DEFINE Own == Events \ {"workerLost"}
<1>0. /\ stage[r] # "closed" /\ who[r] # Nobody /\ Handler(r)
      /\ chain[r] \in Seq(Events) /\ r \in dirs
  BY HandlerAtWork
  DEF Handle, Accept, Ends, Publish, StoreReceipt, SealFailed, SealCancelled,
      SealEnding, SealAs, Drop
<1>1. /\ {"accepted", "prefill", "token", "completed", "cancelled", "failed"} \subseteq Own
      /\ NameOf("completed") \in Terminal /\ NameOf("failed") \in Terminal
      /\ NameOf("cancelled") \in Terminal
  BY DEF Events, NameOf, Terminal
<1>2. ASSUME NotWritten(r) PROVE files' = files
  BY <1>2 DEF NotWritten
<1>3. CASE Accept(r)
  <2>1. chain[r] = <<>> /\ ~AtEnd(chain[r]) /\ Len(chain[r]) <= MaxTokens + 1
    BY <1>0, <1>3, BoundsAssumption DEF Accept, Handler, AtEnd
  <2>2. CASE Appends(r, "accepted", "running")
    <3>1. HandlerWrote(r, "accepted")
      BY <1>0, <1>3, <2>1, <2>2 DEF HandlerWrote, Accept, Appends
    <3> QED
      BY <1>1, <3>1 DEF Effects
  <2>3. CASE NotWritten(r)
    BY <1>2, <1>3, <2>3 DEF Accept, Effects, NothingWritten
  <2> QED
    BY <1>3, <2>2, <2>3 DEF Accept
<1>4. CASE Ends(r)
  BY <1>4 DEF Ends, Effects, NothingWritten, store
<1>5. CASE Publish(r)
  <2>1. chain[r] # <<>> /\ ~AtEnd(chain[r]) /\ receipts' = receipts
    BY <1>0, <1>5 DEF Publish, Handler
  <2>2. ASSUME NEW e \in {"prefill", "token"}, Len(chain[r]) <= MaxTokens + 1,
               Appends(r, e, "publishing")
        PROVE  Effects
    <3>1. HandlerWrote(r, e)
      BY <1>0, <2>1, <2>2 DEF HandlerWrote, Appends
    <3> QED
      BY <1>1, <3>1 DEF Effects
  <2>3. CASE Appends(r, "completed", "storing")
    <3>1. HandlerWrote(r, "completed")
      BY <1>0, <1>1, <2>1, <2>3 DEF HandlerWrote, Appends
    <3> QED
      BY <1>1, <3>1 DEF Effects
  <2>4. CASE NotWritten(r)
    BY <1>2, <2>1, <2>4 DEF Effects, NothingWritten
  <2> QED
    BY <1>5, <2>2, <2>3, <2>4 DEF Publish
<1>6. CASE StoreReceipt(r)
  <2>1. AtEnd(chain[r]) /\ files' = files
    BY <1>0, <1>6 DEF StoreReceipt, Handler
  <2> QED
    BY <1>0, <1>6, <2>1 DEF StoreReceipt, Effects, ReceiptStored, NothingWritten
<1>7. ASSUME NEW e \in {"failed", "cancelled"}, Written(r, chain[r], e),
             receipts' = receipts, stage[r] # "opening"
      PROVE  Effects
  <2>1. HandlerWrote(r, e)
    BY <1>0, <1>1, <1>7 DEF HandlerWrote, Handler
  <2> QED
    BY <1>1, <2>1 DEF Effects
<1>8. CASE SealFailed(r) \/ SealCancelled(r) \/ SealEnding(r)
  BY <1>2, <1>7, <1>8
  DEF SealFailed, SealCancelled, SealEnding, SealAs, Effects, NothingWritten
<1>9. CASE Drop(r)
  BY <1>2, <1>7, <1>9 DEF Drop, Effects, NothingWritten
<1> QED
  BY <1>3, <1>4, <1>5, <1>6, <1>8, <1>9 DEF Handle

LEMMA StepEffects ==
  ASSUME HomeInv, [Next]_vars
  PROVE  Effects
<1>1. CASE UNCHANGED vars
  BY <1>1 DEF vars, journalVars, Effects, NothingWritten
<1>2. ASSUME NEW p \in Procs, StartStep(p) \/ ShutdownStep(p) \/ KillStep(p) \/ Step(p),
             ~RecoverStep(p)
      PROVE  Effects
  BY <1>2
  DEF Step, StartStep, ShutdownStep, KillStep, ClaimStep, ListenStep, GiveUpStep,
      ReleaseStep, ExitStep, journalVars, store, Effects, NothingWritten
<1>3. ASSUME NEW p \in Procs, RecoverStep(p) PROVE Effects
  <2>1. CASE List(p) \/ Visit(p)
    BY <2>1 DEF List, Visit, store, Effects, NothingWritten
  <2>2. CASE RemoveUnaccepted(p)
    <3>1. files[First(todo[p])] = {} /\ files \in [Ids -> SUBSET Seq(Events)]
      BY <2>2 DEF RemoveUnaccepted, HomeInv, HomeTypes, Recoveries, Recovery
    <3>2. files' = files
      BY <2>2, <3>1 DEF RemoveUnaccepted
    <3> QED
      BY <2>2, <3>2 DEF RemoveUnaccepted, Effects, NothingWritten
  <2>3. CASE Seal(p)
    BY <1>3, <2>3
    DEF Seal, RecoverStep, NotWritten, Effects, NothingWritten, RecoveryWrote
  <2> QED
    BY <1>3, <2>1, <2>2, <2>3 DEF RecoverStep, Recover
<1>4. ASSUME NEW p \in Procs, NEW r \in ServeIds, Request(p, r) PROVE Effects
  BY <1>4 DEF Request, CreateJournal, Effects, NothingWritten
<1>5. ASSUME NEW r \in Ids, HandleStep(r) PROVE Effects
  BY <1>5, HandlerEffects DEF HandleStep
<1>6. ASSUME NEW c \in Runners, Run(c) \/ KillRun(c) PROVE Effects
  BY <1>6 DEF Run, KillRun, CreateJournal, store, Effects, NothingWritten
<1> QED
  BY <1>1, <1>2, <1>3, <1>4, <1>5, <1>6 DEF Next

-----------------------------------------------------------------------------
(* The theorems.                                                            *)

LEMMA HomeInvariant ==
  ASSUME ~Overlap, ~Strays
  PROVE  Spec => [](OwnerInv /\ HomeInv)
<1>1. Init => OwnerInv /\ HomeInv
  BY InitIsLockInit, InitOwner, InitHome
<1>2. OwnerInv /\ HomeInv /\ [Next]_vars => (OwnerInv /\ HomeInv)'
  BY StepIsLockStep, StepOwner, StepHome
<1> QED
  BY <1>1, <1>2, PTL DEF Spec

(* Every journal that has an event can be read back from `accepted` on,     *)
(* whatever was killed or failed to write where (read_chain never fails on  *)
(* what append_raw, recovery and seal_drop leave).                          *)
THEOREM EveryJournalVerifies ==
  ASSUME ~Overlap, ~Strays
  PROVE  Spec => []JournalsVerify
<1>1. ASSUME HomeInv PROVE JournalsVerify
  <2> SUFFICES ASSUME NEW r \in Ids, files[r] # {} PROVE StartsAccepted(files[r])
    BY DEF JournalsVerify
  <2>1. PICK c : IsChain(c) /\ files[r] = FilesOf(c)
    BY <1>1 DEF HomeInv, Requests, OnDisk
  <2> QED
    BY <2>1, ChainSeen
<1> QED
  BY <1>1, HomeInvariant, PTL

(* While a process serves, a journal that stands open has a handler, or     *)
(* could not be written: recover_open_journals has sealed all the others    *)
(* before the process listens.                                              *)
THEOREM NothingIsLeftOpen ==
  ASSUME ~Overlap, ~Strays
  PROVE  Spec => []OpenMeansHandled
<1>1. HomeInv => OpenMeansHandled
  BY DEF HomeInv
<1> QED
  BY <1>1, HomeInvariant, PTL

(* Every variable of the home has its type.                                 *)
THEOREM HomeTypeCorrect ==
  ASSUME ~Overlap, ~Strays
  PROVE  Spec => []TypeOK
<1>1. ASSUME OwnerInv, HomeInv PROVE TypeOK
  <2>1. LockTypeOK /\ ran \subseteq Runners
    BY <1>1 DEF OwnerInv, HomeInv, HomeTypes
  <2>2. ASSUME NEW r \in Ids, NEW c \in files[r]
        PROVE  c \in Seq(Events) /\ Len(c) \in 1 .. MaxTokens + 4
    <3>1. PICK d : IsChain(d) /\ files[r] = FilesOf(d)
      BY <1>1 DEF HomeInv, Requests, OnDisk
    <3>2. PICK i \in 1 .. Len(d) : c = SubSeq(d, 1, i)
      BY <2>2, <3>1 DEF FilesOf
    <3>3. d \in Seq(Events) /\ Len(d) \in Nat /\ Len(d) <= MaxTokens + 4
      BY <3>1 DEF IsChain
    <3>4. c \in Seq(Events) /\ Len(c) = i
      BY <3>2, <3>3, PrefixOf
    <3> QED
      BY <3>2, <3>3, <3>4, BoundsAssumption
  <2>3. \A r \in Ids : stage[r] = "closed" <=> who[r] = Nobody
    BY <1>1 DEF HomeInv, Requests, Writer
  <2>4. JournalTypeOK
    BY <1>1, <2>2, <2>3 DEF JournalTypeOK, HomeInv, HomeTypes, Stages
  <2> QED
    BY <2>1, <2>4 DEF TypeOK
<1> QED
  BY <1>1, HomeInvariant, PTL

(* Recovery's event goes behind a journal that no process has a handle of:  *)
(* seal_worker_lost never writes where a handler is at work.                *)
THEOREM OnlyTheDeadAreSealed ==
  ASSUME ~Overlap, ~Strays
  PROVE  Spec => RecoverySealsOnlyDead
<1> DEFINE Sealing ==
      \A r \in Ids :
        (\E c \in files'[r] \ files[r] : Last(c) = "workerLost") => who[r] = Nobody
<1>1. ASSUME OwnerInv, HomeInv, [Next]_vars PROVE Sealing
  <2> SUFFICES ASSUME NEW r \in Ids, NEW c \in files'[r] \ files[r],
                      Last(c) = "workerLost"
               PROVE  who[r] = Nobody
    OBVIOUS
  <2>1. CASE NothingWritten \/ \E q \in Ids : ReceiptStored(q)
    BY <2>1 DEF NothingWritten, ReceiptStored
  <2>2. ASSUME NEW q \in Ids, NEW e \in Events \ {"workerLost"}, HandlerWrote(q, e)
        PROVE  FALSE
    <3>1. files' = [files EXCEPT ![q] = Put(@, Append(chain[q], e))]
      BY <2>2 DEF HandlerWrote, Written
    <3>2. chain[q] \in Seq(Events) /\ files \in [Ids -> SUBSET Seq(Events)]
      BY <1>1 DEF HomeInv, HomeTypes
    <3>3. c = Append(chain[q], e)
      BY <3>1, <3>2 DEF Put
    <3>4. Append(chain[q], e)[Len(Append(chain[q], e))] = e
      BY <3>2, LongerChain
    <3> QED
      BY <3>3, <3>4 DEF Last
  <2>3. ASSUME NEW p \in Procs, RecoveryWrote(p) PROVE who[r] = Nobody
    BY <1>1, <2>3, RecoveryIsAlone DEF RecoveryWrote
  <2> QED
    BY <1>1, <2>1, <2>2, <2>3, StepEffects DEF Effects
<1>2. ASSUME OwnerInv, HomeInv, [Next]_vars PROVE [Sealing]_journalVars
  BY <1>1, <1>2
<1> QED
  BY <1>2, HomeInvariant, PTL DEF Spec, RecoverySealsOnlyDead

-----------------------------------------------------------------------------
(* The refinement.                                                          *)

(* The record of a request, from the chain its directory holds.             *)
LEMMA RecordOfChain ==
  ASSUME NEW r \in Ids, NEW c, IsChain(c), files[r] = FilesOf(c)
  PROVE  RecordOf(r) =
           IF c = <<>> THEN "none"
           ELSE IF ~AtEnd(c) THEN "open"
           ELSE IF r \in receipts /\ NameOf(c[Len(c)]) = "completed"
                THEN "published" ELSE NameOf(c[Len(c)])
<1>1. State(files[r]) = IF c = <<>> THEN "none"
                        ELSE IF AtEnd(c) THEN NameOf(c[Len(c)]) ELSE "open"
  BY ChainSeen
<1> QED
  BY <1>1 DEF RecordOf

records == [r \in Ids |-> RecordOf(r)]

(* A step that changes one record.                                          *)
LEMMA OneRecord ==
  ASSUME NEW r \in Ids, \A q \in Ids \ {r} : RecordOf(q)' = RecordOf(q),
         NEW to, RecordOf(r)' = to
  PROVE  records' = [records EXCEPT ![r] = to]
BY DEF records

(* The records change one at a time, as RequestRecord has them change.      *)
Changes(r, from, to) == RecordOf(r) \in from /\ records' = [records EXCEPT ![r] = to]
RecordStep ==
  \/ records' = records
  \/ \E r \in Ids :
       \/ Changes(r, {"none"}, "open")
       \/ Changes(r, {"open"}, "completed")
       \/ Changes(r, {"completed"}, "published")
       \/ Changes(r, {"open", "completed"}, "failed")
       \/ Changes(r, {"open", "completed"}, "cancelled")

LEMMA WriteChangesRecord ==
  ASSUME NEW r \in Ids, NEW c, IsChain(c), files[r] = FilesOf(c),
         r \notin receipts, receipts' = receipts,
         NEW e \in Events, IsChain(Append(c, e)),
         files' = [files EXCEPT ![r] = FilesOf(Append(c, e))],
         files \in [Ids -> SUBSET Seq(Events)],
         AtEnd(c) => NameOf(c[Len(c)]) = "completed",
         c = <<>> <=> e = "accepted",
         AtEnd(c) => e \in {"failed", "cancelled"}
  PROVE  RecordStep
<1> DEFINE a == Append(c, e)
<1>1. c \in Seq(Events)
  BY DEF IsChain
<1>2. a # <<>> /\ a[Len(a)] = e /\ (AtEnd(a) <=> NameOf(e) \in Terminal)
  BY <1>1, LongerChain
<1> HIDE DEF a
<1>3. IsChain(a) /\ files'[r] = FilesOf(a) /\ \A q \in Ids \ {r} : files'[q] = files[q]
  BY DEF a
<1>4. RecordOf(r) = IF c = <<>> THEN "none"
                    ELSE IF ~AtEnd(c) THEN "open" ELSE "completed"
  BY RecordOfChain
<1>5. State(files'[r]) = IF AtEnd(a) THEN NameOf(a[Len(a)]) ELSE "open"
  BY <1>2, <1>3, ChainSeen
<1>6. RecordOf(r)' = IF NameOf(e) \in Terminal THEN NameOf(e) ELSE "open"
  BY <1>2, <1>5 DEF RecordOf
<1>7. \A q \in Ids \ {r} : RecordOf(q)' = RecordOf(q)
  BY <1>3 DEF RecordOf
<1>8. records' = [records EXCEPT ![r] = RecordOf(r)']
  BY <1>7, OneRecord
<1>9. records[r] = RecordOf(r) /\ records = [records EXCEPT ![r] = RecordOf(r)]
  BY DEF records
<1>10. CASE c = <<>>
  BY <1>4, <1>6, <1>8, <1>10 DEF RecordStep, Changes, NameOf, Terminal
<1>11. CASE c # <<>> /\ NameOf(e) \notin Terminal
  <2>1. RecordOf(r)' = RecordOf(r)
    BY <1>4, <1>6, <1>11 DEF NameOf, Terminal
  <2> QED
    BY <1>8, <1>9, <2>1 DEF RecordStep
<1>12. CASE c # <<>> /\ NameOf(e) \in Terminal
  BY <1>4, <1>6, <1>8, <1>12 DEF RecordStep, Changes, NameOf, Terminal, Events
<1> QED
  BY <1>10, <1>11, <1>12

LEMMA StepRecord ==
  ASSUME OwnerInv, HomeInv, [Next]_vars
  PROVE  RecordStep
<1>0. files \in [Ids -> SUBSET Seq(Events)]
  BY DEF HomeInv, HomeTypes
<1>1. CASE NothingWritten
  BY <1>1 DEF NothingWritten, RecordStep, records, RecordOf
<1>2. ASSUME NEW r \in Ids, NEW e \in Events \ {"workerLost"}, HandlerWrote(r, e)
      PROVE  RecordStep
  <2>1. /\ IsChain(chain[r]) /\ files[r] = FilesOf(chain[r]) /\ r \notin receipts
        /\ AtEnd(chain[r]) => chain[r][Len(chain[r])] = "completed"
    BY <1>2 DEF HandlerWrote, HomeInv, Requests, Handler
  <2>2. chain[r] \in Seq(Events)
    BY <2>1 DEF IsChain
  <2>3. IsChain(Append(chain[r], e))
    BY <1>2, HandlerWrites DEF HandlerWrote
  <2>4. files' = [files EXCEPT ![r] = FilesOf(Append(chain[r], e))]
    BY <1>2, <2>1, <2>2, AppendAddsFile DEF HandlerWrote, Written
  <2>5. /\ AtEnd(chain[r]) => NameOf(chain[r][Len(chain[r])]) = "completed"
        /\ chain[r] = <<>> <=> e = "accepted"
        /\ AtEnd(chain[r]) => e \in {"failed", "cancelled"}
        /\ receipts' = receipts
    BY <1>2, <2>1 DEF HandlerWrote, NameOf
  <2> QED
    BY <1>0, <2>1, <2>3, <2>4, <2>5, WriteChangesRecord
<1>3. ASSUME NEW r \in Ids, ReceiptStored(r)
      PROVE  RecordStep
  <2>1. /\ IsChain(chain[r]) /\ files[r] = FilesOf(chain[r]) /\ r \notin receipts
        /\ AtEnd(chain[r]) /\ chain[r][Len(chain[r])] = "completed"
    BY <1>3 DEF ReceiptStored, HomeInv, Requests, Handler
  <2>2. chain[r] # <<>> /\ State(files[r]) = "completed"
    BY <2>1, ChainSeen DEF AtEnd, NameOf
  <2>3. RecordOf(r) = "completed"
    BY <2>1, <2>2 DEF RecordOf
  <2>4. RecordOf(r)' = "published"
    BY <1>3, <2>2 DEF ReceiptStored, RecordOf
  <2>5. \A q \in Ids \ {r} : RecordOf(q)' = RecordOf(q)
    BY <1>3 DEF ReceiptStored, RecordOf
  <2>6. records' = [records EXCEPT ![r] = "published"]
    BY <2>4, <2>5, OneRecord
  <2> QED
    BY <2>3, <2>6 DEF RecordStep, Changes
<1>4. ASSUME NEW p \in Procs, RecoveryWrote(p)
      PROVE  RecordStep
  <2> DEFINE r == First(todo[p])
             c == found[p]
  <2>1. /\ r \in dirs /\ r \in Ids /\ IsChain(c) /\ c # <<>> /\ ~AtEnd(c)
        /\ files[r] = FilesOf(c)
    BY <1>4 DEF RecoveryWrote, HomeInv, HomeTypes, Recoveries, Recovery
  <2>2. "workerLost" \in Events /\ NameOf("workerLost") \in Terminal
        /\ "workerLost" # "accepted"
    BY DEF Events, NameOf, Terminal
  <2>3. c \in Seq(Events)
    BY <2>1 DEF IsChain
  <2>4. r \notin receipts
    <3>1. State(files[r]) = "open"
      BY <2>1, ChainSeen
    <3> QED
      BY <2>1, <3>1 DEF HomeInv, Requests, OnDisk
  <2>5. IsChain(Append(c, "workerLost"))
    <3>1. /\ Append(c, "workerLost") \in Seq(Events) /\ Append(c, "workerLost") # <<>>
          /\ Len(Append(c, "workerLost")) = Len(c) + 1
          /\ Append(c, "workerLost")[1] = c[1] /\ AtEnd(Append(c, "workerLost"))
      BY <2>1, <2>2, <2>3, LongerChain
    <3>2. c[1] = "accepted" /\ Len(c) <= MaxTokens + 2 /\ Len(c) \in Nat
      BY <2>1, <2>3 DEF IsChain
    <3>3. Append(c, "workerLost")[1] = "accepted"
          /\ Len(Append(c, "workerLost")) <= MaxTokens + 4
      BY <3>1, <3>2, BoundsAssumption
    <3> QED
      BY <3>1, <3>3 DEF IsChain
  <2>6. files' = [files EXCEPT ![r] = FilesOf(Append(c, "workerLost"))]
    BY <1>4, <2>1, <2>2, <2>3, AppendAddsFile DEF RecoveryWrote, Written
  <2>7. receipts' = receipts
    BY <1>4 DEF RecoveryWrote
  <2> HIDE DEF r, c
  <2> QED
    BY <1>0, <2>1, <2>2, <2>4, <2>5, <2>6, <2>7, WriteChangesRecord
<1> QED
  BY <1>1, <1>2, <1>3, <1>4, StepEffects DEF Effects

(* The journals and receipts implement the record of each request: a        *)
(* request is accepted once, ends once unless its receipt cannot be stored, *)
(* and what has a receipt was completed and stays so (Journal::append_raw,  *)
(* store_receipt, recover_one).                                             *)
THEOREM ImplementsRecord ==
  ASSUME ~Overlap, ~Strays
  PROVE  Spec => RecordSpec
<1>1. Init => Record!Init
  BY StateOfNothing DEF Init, JournalInit, Record!Init, RecordOf
<1>2. ASSUME OwnerInv, HomeInv, [Next]_vars
      PROVE  [Record!Next]_records
  <2>1. RecordStep
    BY <1>2, StepRecord
  <2>2. ASSUME NEW r \in Ids, NEW from, NEW to, Changes(r, from, to)
        PROVE  Record!Becomes(r, from, to)
    BY <2>2 DEF Changes, Record!Becomes, records
  <2>3. CASE records' # records
    BY <2>1, <2>2, <2>3
    DEF RecordStep, Record!Next, Record!Accept, Record!Complete, Record!Publish,
        Record!Fail, Record!Cancel
  <2> QED
    BY <2>3
<1> QED
  BY <1>1, <1>2, HomeInvariant, PTL DEF Spec, RecordSpec, Record!Spec, records

-----------------------------------------------------------------------------
(* What a handler or a recovery begins it finishes.                         *)

(* Steps the handler of r has before it at most.                            *)
HandleLeft(r) ==
  IF stage[r] = "opening" THEN MaxTokens + 8
  ELSE IF stage[r] = "running" THEN MaxTokens + 7
  ELSE IF stage[r] = "publishing" THEN MaxTokens + 7 - Len(chain[r])
  ELSE IF stage[r] = "storing" THEN 4
  ELSE IF stage[r] \in {"sealing", "cancelling"} THEN 3
  ELSE IF stage[r] = "ending" THEN 2
  ELSE IF stage[r] = "dropping" THEN 1
  ELSE 0

(* A handler that closes its journal leaves it sealed, or has tried to       *)
(* write and failed; a `run` may also return without a seal.                 *)
LeavesSealed(r) == Sealed(files'[r]) \/ r \in lost' \/ who[r] \in Runners

Finishes(r) ==
  /\ HandleLeft(r) \in 1 .. MaxTokens + 8
  /\ HandleLeft(r)' \in Nat /\ HandleLeft(r)' < HandleLeft(r)
  /\ who'[r] = Nobody => LeavesSealed(r)

LEMMA ClosingEnds ==
  ASSUME HomeInv, NEW r \in Ids, Closes(r)
  PROVE  who'[r] = Nobody /\ HandleLeft(r)' = 0
<1>1. stage'[r] = "closed" /\ who'[r] = Nobody
  BY DEF Closes, HomeInv, HomeTypes
<1> QED
  BY <1>1 DEF HandleLeft

LEMMA MovingGoesOn ==
  ASSUME HomeInv, NEW r \in Ids, who[r] # Nobody, NEW to, To(r, to)
  PROVE  who'[r] # Nobody /\ stage'[r] = to /\ chain'[r] = chain[r]
BY DEF To, HomeInv, HomeTypes

LEMMA GivingUpGoesOn ==
  ASSUME HomeInv, NEW r \in Ids, who[r] # Nobody, NEW to, GivesUp(r, to),
         to \in {"sealing", "ending", "dropping"}
  PROVE  /\ HandleLeft(r)' \in {0, IF to = "sealing" THEN 3 ELSE IF to = "ending" THEN 2 ELSE 1}
         /\ who'[r] = Nobody => who[r] \in Runners
<1>1. CASE who[r] \in Runners
  BY <1>1, ClosingEnds DEF GivesUp
<1>2. CASE who[r] \notin Runners
  <2>1. stage'[r] = to /\ who'[r] # Nobody
    BY <1>2, MovingGoesOn DEF GivesUp
  <2> QED
    BY <2>1 DEF HandleLeft
<1> QED
  BY <1>1, <1>2

(* What a seal that is written leaves.                                      *)
LEMMA WrittenSeal ==
  ASSUME HomeInv, NEW r \in Ids, stage[r] \notin {"closed", "opening"},
         NEW e \in {"failed", "cancelled"}, Written(r, chain[r], e)
  PROVE  Sealed(files'[r])
<1>1. who[r] # Nobody /\ chain[r] # <<>> /\ chain[r] \in Seq(Events)
  BY HandlerAtWork DEF Handler
<1>2. e \in Events /\ NameOf(e) \in Terminal /\ e # "accepted"
  BY DEF Events, NameOf, Terminal
<1>3. files'[r] = FilesOf(Append(chain[r], e)) /\ IsChain(Append(chain[r], e))
  BY <1>1, <1>2, HandlerWrites
<1>4. AtEnd(Append(chain[r], e))
  BY <1>1, <1>2, LongerChain
<1> QED
  BY <1>3, <1>4, ChainSeen

LEMMA AcceptFinishes ==
  ASSUME HomeInv, NEW r \in Ids, Accept(r)
  PROVE  Finishes(r)
<1>0. MaxTokens \in Nat /\ who[r] # Nobody /\ stage[r] = "opening"
  BY HandlerAtWork, BoundsAssumption DEF Accept
<1>1. HandleLeft(r) = MaxTokens + 8
  BY <1>0 DEF HandleLeft
<1>2. CASE Appends(r, "accepted", "running")
  <2>1. stage'[r] = "running" /\ who' = who
    BY <1>2 DEF Appends, HomeInv, HomeTypes
  <2>2. HandleLeft(r)' = MaxTokens + 7
    BY <2>1 DEF HandleLeft
  <2> QED
    BY <1>0, <1>1, <2>1, <2>2 DEF Finishes
<1>3. CASE NotWritten(r) /\ Closes(r)
  <2>1. HandleLeft(r)' = 0 /\ r \in lost'
    BY <1>0, <1>3, ClosingEnds, NotWriting
  <2> QED
    BY <1>0, <1>1, <2>1 DEF Finishes, LeavesSealed
<1> QED
  BY <1>2, <1>3 DEF Accept

LEMMA EndsFinishes ==
  ASSUME HomeInv, NEW r \in Ids, Ends(r)
  PROVE  Finishes(r)
<1>0. /\ MaxTokens \in Nat /\ who[r] # Nobody /\ stage[r] = "running"
      /\ Len(chain[r]) = 1
  BY HandlerAtWork, BoundsAssumption DEF Ends, Handler
<1>1. HandleLeft(r) = MaxTokens + 7
  BY <1>0 DEF HandleLeft
<1>2. ASSUME NEW to \in {"publishing", "sealing", "cancelling", "ending"}, To(r, to)
      PROVE  Finishes(r)
  <2>1. stage'[r] = to /\ who'[r] # Nobody /\ chain'[r] = chain[r]
    BY <1>0, <1>2, MovingGoesOn
  <2>2. HandleLeft(r)' \in {MaxTokens + 7 - 1, 3, 2}
    BY <1>0, <2>1 DEF HandleLeft
  <2> QED
    BY <1>0, <1>1, <2>1, <2>2 DEF Finishes
<1>3. CASE who[r] \in Runners /\ Closes(r)
  <2>1. HandleLeft(r)' = 0
    BY <1>3, ClosingEnds
  <2> QED
    BY <1>0, <1>1, <1>3, <2>1 DEF Finishes, LeavesSealed
<1> QED
  BY <1>2, <1>3 DEF Ends

LEMMA PublishFinishes ==
  ASSUME HomeInv, NEW r \in Ids, Publish(r)
  PROVE  Finishes(r)
<1>0. /\ MaxTokens \in Nat /\ who[r] # Nobody /\ stage[r] = "publishing"
      /\ chain[r] \in Seq(Events) /\ chain[r] # <<>>
      /\ IsChain(chain[r]) /\ ~AtEnd(chain[r])
  BY HandlerAtWork, BoundsAssumption DEF Publish, Handler
<1>1. PICK n \in 1 .. MaxTokens + 2 : n = Len(chain[r])
  <2>1. Len(chain[r]) \in Nat /\ Len(chain[r]) # 0
    BY <1>0, EmptySeq
  <2> QED
    BY <1>0, <2>1 DEF IsChain
<1>2. HandleLeft(r) = MaxTokens + 7 - n
  BY <1>0, <1>1 DEF HandleLeft
<1>3. ASSUME NEW e \in Events, n <= MaxTokens + 1, Appends(r, e, "publishing")
      PROVE  Finishes(r)
  <2>1. stage'[r] = "publishing" /\ chain'[r] = Append(chain[r], e) /\ who' = who
    BY <1>3 DEF Appends, HomeInv, HomeTypes
  <2>2. Len(chain'[r]) = n + 1
    BY <1>0, <1>1, <2>1
  <2>3. HandleLeft(r)' = MaxTokens + 7 - (n + 1)
    BY <2>1, <2>2 DEF HandleLeft
  <2> QED
    BY <1>0, <1>2, <1>3, <2>1, <2>3 DEF Finishes
<1>4. CASE Appends(r, "completed", "storing")
  <2>1. stage'[r] = "storing" /\ who' = who
    BY <1>4 DEF Appends, HomeInv, HomeTypes
  <2>2. HandleLeft(r)' = 4
    BY <2>1 DEF HandleLeft
  <2> QED
    BY <1>0, <1>2, <2>1, <2>2 DEF Finishes
<1>5. CASE NotWritten(r) /\ GivesUp(r, "sealing")
  <2>1. HandleLeft(r)' \in {0, 3} /\ r \in lost'
    BY <1>0, <1>5, GivingUpGoesOn, NotWriting
  <2> QED
    BY <1>0, <1>2, <2>1 DEF Finishes, LeavesSealed
<1> QED
  BY <1>1, <1>3, <1>4, <1>5 DEF Publish, Events

LEMMA StoreFinishes ==
  ASSUME HomeInv, NEW r \in Ids, StoreReceipt(r)
  PROVE  Finishes(r)
<1>0. /\ MaxTokens \in Nat /\ who[r] # Nobody /\ stage[r] = "storing"
      /\ IsChain(chain[r]) /\ files[r] = FilesOf(chain[r]) /\ AtEnd(chain[r])
      /\ files' = files
  BY HandlerAtWork, BoundsAssumption DEF StoreReceipt, Handler
<1>1. HandleLeft(r) = 4
  BY <1>0 DEF HandleLeft
<1>2. Sealed(files'[r])
  BY <1>0, ChainSeen
<1>3. CASE Closes(r)
  <2>1. HandleLeft(r)' = 0
    BY <1>3, ClosingEnds
  <2> QED
    BY <1>0, <1>1, <1>2, <2>1 DEF Finishes, LeavesSealed
<1>4. CASE GivesUp(r, "sealing")
  <2>1. HandleLeft(r)' \in {0, 3}
    BY <1>0, <1>4, GivingUpGoesOn
  <2> QED
    BY <1>0, <1>1, <1>2, <2>1 DEF Finishes, LeavesSealed
<1> QED
  BY <1>3, <1>4 DEF StoreReceipt

LEMMA SealFinishes ==
  ASSUME HomeInv, NEW r \in Ids,
         SealFailed(r) \/ SealCancelled(r) \/ SealEnding(r) \/ Drop(r)
  PROVE  Finishes(r)
<1>0. /\ MaxTokens \in Nat /\ who[r] # Nobody
      /\ stage[r] \in {"sealing", "cancelling", "ending", "dropping"}
  BY HandlerAtWork, BoundsAssumption
  DEF SealFailed, SealCancelled, SealEnding, SealAs, Drop
<1>1. ASSUME NEW e \in {"failed", "cancelled"}, Written(r, chain[r], e), Closes(r)
      PROVE  Finishes(r)
  <2>1. HandleLeft(r)' = 0 /\ Sealed(files'[r])
    BY <1>0, <1>1, ClosingEnds, WrittenSeal
  <2>2. HandleLeft(r) \in {3, 2, 1}
    BY <1>0 DEF HandleLeft
  <2> QED
    BY <1>0, <2>1, <2>2 DEF Finishes, LeavesSealed
<1>2. ASSUME stage[r] \in {"sealing", "cancelling"}, NotWritten(r),
             NEW to \in {"ending", "dropping"}, GivesUp(r, to)
      PROVE  Finishes(r)
  <2>1. HandleLeft(r)' \in {0, 1, 2} /\ r \in lost'
    BY <1>0, <1>2, GivingUpGoesOn, NotWriting
  <2>2. HandleLeft(r) = 3
    BY <1>2 DEF HandleLeft
  <2> QED
    BY <1>0, <2>1, <2>2 DEF Finishes, LeavesSealed
<1>3. ASSUME stage[r] = "ending", NotWritten(r), GivesUp(r, "dropping")
      PROVE  Finishes(r)
  <2>1. HandleLeft(r)' \in {0, 1} /\ r \in lost'
    BY <1>0, <1>3, GivingUpGoesOn, NotWriting
  <2>2. HandleLeft(r) = 2
    BY <1>3 DEF HandleLeft
  <2> QED
    BY <1>0, <2>1, <2>2 DEF Finishes, LeavesSealed
<1>4. CASE NotWritten(r) /\ Closes(r)
  <2>1. HandleLeft(r)' = 0 /\ r \in lost'
    BY <1>0, <1>4, ClosingEnds, NotWriting
  <2>2. HandleLeft(r) \in {3, 2, 1}
    BY <1>0 DEF HandleLeft
  <2> QED
    BY <1>0, <2>1, <2>2 DEF Finishes, LeavesSealed
<1>5. CASE SealFailed(r)
  BY <1>1, <1>2, <1>5 DEF SealFailed, SealAs
<1>6. CASE SealCancelled(r)
  BY <1>1, <1>2, <1>6 DEF SealCancelled, SealAs
<1>7. CASE SealEnding(r)
  BY <1>1, <1>3, <1>7 DEF SealEnding, SealAs
<1>8. CASE Drop(r)
  BY <1>1, <1>4, <1>8 DEF Drop
<1> QED
  BY <1>5, <1>6, <1>7, <1>8

(* Each step of a handler leaves it fewer, at most MaxTokens + 8 from the    *)
(* first on: it cannot come back to a stage it has left. And what it leaves  *)
(* when it closes is sealed, unless a write has failed: the errors of        *)
(* publish_and_seal, of the stream and of Drop each lead to another seal.    *)
HandlersFinish == [][\A r \in Ids : HandleStep(r) => Finishes(r)]_vars

(* So a completion never hangs in its journal: from `accepted` a handler that *)
(* is not killed closes it after MaxTokens + 8 steps at most, sealed or with  *)
(* a write that failed.                                                      *)
THEOREM EveryHandlerFinishes ==
  ASSUME ~Overlap, ~Strays
  PROVE  Spec => HandlersFinish
<1> DEFINE Finish == \A r \in Ids : HandleStep(r) => Finishes(r)
<1>1. HomeInv => Finish
  BY AcceptFinishes, EndsFinishes, PublishFinishes, StoreFinishes, SealFinishes
  DEF HandleStep, Handle
<1> HIDE DEF Finish
<1>2. Spec => [][Finish]_vars
  BY <1>1, HomeInvariant, PTL DEF Spec
<1> QED
  BY <1>2 DEF Finish, HandlersFinish

-----------------------------------------------------------------------------
(* A recovery comes to an end.                                              *)

(* Steps a recovery has before it at most: two for each directory on its     *)
(* list, one to find the list empty, one to make it.                        *)
RecoverLeft(p) ==
  IF rec[p] = "list" THEN 2 * Cardinality(dirs) + 2
  ELSE IF rec[p] = "visit" THEN 2 * Cardinality(todo[p]) + 1
  ELSE IF rec[p] \in {"remove", "seal"} THEN 2 * Cardinality(todo[p])
  ELSE 0

(* What the list of a recovery holds is there: nothing removes a directory   *)
(* while a process recovers but its recovery. So it gives up only where a    *)
(* write has failed.                                                        *)
Listed(p) ==
  rec[p] # "list" =>
    /\ todo[p] \subseteq dirs
    /\ rec[p] \in {"remove", "seal"} => todo[p] # {}
    /\ rec[p] = "error" => First(todo[p]) \in lost
ListInv == IsFiniteSet(dirs) /\ \A p \in Procs : Listed(p)

LEMMA LeastId ==
  ASSUME NEW S \in SUBSET Ids, S # {}
  PROVE  First(S) \in S
<1> DEFINE R == OpToRel(<, Nat)
<1>1. IsWellFoundedOn(R, Nat)
  BY NatLessThanWellFounded
<1>2. \A a, b \in Nat : a < b => <<a, b>> \in R
  BY DEF OpToRel
<1>3. S \in SUBSET Nat
  BY IdsAssumption
<1> HIDE DEF R
<1>4. PICK x \in S : \A y \in S : ~ (<<y, x>> \in R)
  BY <1>1, <1>3, WFMin
<1>5. \A y \in S : ~ (y < x)
  BY <1>2, <1>3, <1>4, Zenon
<1>6. \A y \in S : x <= y
  BY <1>3, <1>5
<1> QED
  BY <1>6 DEF First

(* The directory a recovery visits is there, and its files are those of a   *)
(* chain: nothing, an open journal or a sealed one.                         *)
LEMMA VisitNeverErrs ==
  ASSUME HomeInv, NEW p \in Procs, Listed(p), Visit(p)
  PROVE  LET r == First(todo[p])
         IN  /\ rec[p] = "visit" /\ todo[p] \subseteq dirs /\ r \in todo[p]
             /\ \/ todo'[p] = todo[p] /\ rec'[p] \in {"remove", "seal"}
                \/ todo'[p] = todo[p] \ {r} /\ rec'[p] = "visit"
<1> DEFINE r == First(todo[p])
           F == files[r]
<1>1. rec[p] = "visit" /\ todo[p] # {} /\ todo[p] \subseteq dirs
  BY DEF Visit, Visits, Listed
<1>2. r \in todo[p] /\ r \in dirs /\ r \in Ids
  BY <1>1, LeastId DEF HomeInv, HomeTypes
<1>3. F = {} \/ Open(F) \/ Sealed(F)
  <2>1. PICK c : IsChain(c) /\ F = FilesOf(c)
    BY <1>2 DEF HomeInv, Requests, OnDisk
  <2> QED
    BY <2>1, ChainSeen
<1>4. \/ UNCHANGED todo /\ \E to \in {"remove", "seal"} : Recovering(p, to)
      \/ todo' = [todo EXCEPT ![p] = @ \ {r}] /\ UNCHANGED rec
  BY <1>2, <1>3 DEF Visit, Unaccepted, NeedsSeal
<1> QED
  BY <1>1, <1>2, <1>4 DEF Recovering, HomeInv, HomeTypes

LEMMA RecoverKeepsList ==
  ASSUME OwnerInv, HomeInv, ListInv, NEW p \in Procs, RecoverStep(p)
  PROVE  ListInv'
<1>1. pc[p] = "recover" /\ Listed(p) /\ IsFiniteSet(dirs) /\ HomeTypes
  BY DEF RecoverStep, ListInv, HomeInv
<1>2. \A q \in Procs \ {p} : rec[q] = "list" /\ rec'[q] = rec[q]
  <2>1. \E to : rec' = rec \/ Recovering(p, to)
    BY DEF RecoverStep, Recover, List, Visit, RemoveUnaccepted, Seal
  <2> QED
    BY <1>1, <2>1, RecoveryIsAlone DEF Recovering, HomeTypes
<1>3. IsFiniteSet(dirs') /\ Listed(p)'
  <2>1. CASE List(p)
    BY <1>1, <2>1 DEF List, Recovering, HomeTypes, Listed, store
  <2>2. CASE Visit(p)
    <3>1. dirs' = dirs
      BY <2>2 DEF Visit, store
    <3> QED
      BY <1>1, <2>2, <3>1, VisitNeverErrs DEF Listed
  <2>3. CASE RemoveUnaccepted(p)
    <3>1. /\ rec[p] = "remove" /\ rec'[p] = "visit" /\ dirs' = dirs \ {First(todo[p])}
          /\ todo'[p] = todo[p] \ {First(todo[p])}
      BY <1>1, <2>3 DEF RemoveUnaccepted, Recovering, HomeTypes
    <3>2. IsFiniteSet(dirs')
      BY <1>1, <3>1, FS_RemoveElement
    <3> QED
      BY <1>1, <3>1, <3>2 DEF Listed
  <2>4. CASE Seal(p)
    <3>1. rec[p] = "seal" /\ dirs' = dirs /\ First(todo[p]) \in dirs
      BY <1>1, <2>4 DEF Seal, HomeInv, Recoveries, Recovery
    <3>2. \/ rec'[p] = "visit" /\ todo'[p] = todo[p] \ {First(todo[p])}
          \/ rec'[p] = "error" /\ todo'[p] = todo[p] /\ First(todo[p]) \in lost'
      BY <1>1, <2>4, <3>1 DEF Seal, NotWritten, Recovering, HomeTypes
    <3> QED
      BY <1>1, <3>1, <3>2 DEF Listed
  <2> QED
    BY <2>1, <2>2, <2>3, <2>4 DEF RecoverStep, Recover
<1>4. \A q \in Procs \ {p} : Listed(q)'
  BY <1>2 DEF Listed
<1> QED
  BY <1>3, <1>4 DEF ListInv

(* While nobody recovers, directories come and go.                          *)
LEMMA NobodyRecovers ==
  ASSUME ~Strays, OwnerInv, HomeInv,
         \/ \E p \in Procs, r \in ServeIds : Request(p, r)
         \/ \E c \in Runners : Run(c)
         \/ \E r \in Ids : HandleStep(r)
  PROVE  /\ \A q \in Procs : rec[q] = "list" /\ pc[q] # "recover"
         /\ rec' = rec
         /\ IsFiniteSet(dirs) => IsFiniteSet(dirs')
<1>1. ASSUME NEW p \in Procs, NEW r \in ServeIds, Request(p, r)
      PROVE  \A q \in Procs : pc[q] # "recover"
  BY <1>1, RecoveryIsAlone DEF Request
<1>2. ASSUME NEW c \in Runners, Run(c)
      PROVE  \A q \in Procs : pc[q] # "recover"
  BY <1>2 DEF Run, Starting
<1>3. ASSUME NEW r \in Ids, HandleStep(r)
      PROVE  \A q \in Procs : pc[q] # "recover"
  <2>1. stage[r] # "closed"
    BY <1>3
    DEF HandleStep, Handle, Accept, Ends, Publish, StoreReceipt, SealFailed,
        SealCancelled, SealEnding, SealAs, Drop
  <2> QED
    BY <2>1, HandlerAtWork, HandlerExcludesRecovery
<1>4. \A q \in Procs : pc[q] # "recover"
  BY <1>1, <1>2, <1>3
<1>5. \A q \in Procs : rec[q] = "list"
  BY <1>4 DEF HomeInv, Recoveries, Recovery
<1>6. ASSUME NEW w, NEW r, CreateJournal(w, r)
      PROVE  rec' = rec /\ dirs' = dirs \cup {r}
  BY <1>6 DEF CreateJournal, recovery
<1>7. ASSUME NEW r, Handle(r)
      PROVE  rec' = rec /\ dirs' \in {dirs, dirs \ {r}}
  BY <1>7
  DEF Handle, Accept, Ends, Publish, StoreReceipt, SealFailed, SealCancelled, SealEnding,
      SealAs, Drop, recovery, store
<1>8. rec' = rec /\ \E r : dirs' \in {dirs, dirs \cup {r}, dirs \ {r}}
  BY <1>6, <1>7 DEF Request, Run, HandleStep
<1>9. IsFiniteSet(dirs) => IsFiniteSet(dirs')
  BY <1>8, FS_AddElement, FS_RemoveElement
<1> QED
  BY <1>4, <1>5, <1>8, <1>9

(* A step of the lock and a death touch no directory, and leave a recovery   *)
(* alone unless they end it.                                                *)
LEMMA OtherStepsLeaveLists ==
  ASSUME OwnerInv, HomeInv,
         \/ \E p \in Procs :
              \/ StartStep(p) \/ ClaimStep(p) \/ ListenStep(p) \/ GiveUpStep(p)
              \/ ShutdownStep(p) \/ ReleaseStep(p) \/ ExitStep(p) \/ KillStep(p)
         \/ \E c \in Runners : KillRun(c)
         \/ UNCHANGED vars
  PROVE  /\ dirs' = dirs /\ lost' = lost
         /\ \A q \in Procs :
              \/ rec'[q] = rec[q] /\ todo'[q] = todo[q]
              \/ rec'[q] = "list" /\ pc'[q] # "recover"
<1>1. ASSUME NEW p \in Procs,
             StartStep(p) \/ ClaimStep(p) \/ ShutdownStep(p) \/ ReleaseStep(p)
      PROVE  dirs' = dirs /\ lost' = lost /\ rec' = rec /\ todo' = todo
  BY <1>1 DEF StartStep, ClaimStep, ShutdownStep, ReleaseStep, journalVars
<1>2. ASSUME NEW p \in Procs, ListenStep(p) \/ GiveUpStep(p) \/ KillStep(p)
      PROVE  /\ dirs' = dirs /\ lost' = lost /\ rec'[p] = "list" /\ pc'[p] # "recover"
             /\ \A q \in Procs \ {p} : rec'[q] = rec[q] /\ todo'[q] = todo[q]
  <2>1. dirs' = dirs /\ lost' = lost /\ Forgets(p)
    BY <1>2 DEF ListenStep, GiveUpStep, KillStep, store
  <2>2. \E to \in {"serving", "check", "gone"} : Goto(p, to)
    BY <1>2
    DEF ListenStep, GiveUpStep, KillStep, Recovered, RecoveryFails, Kill, Moves, Leave
  <2> QED
    BY <2>1, <2>2, Moved DEF Forgets, HomeInv, HomeTypes
<1>3. CASE (\E p \in Procs : ExitStep(p)) \/ (\E c \in Runners : KillRun(c))
  BY <1>3 DEF ExitStep, KillRun, store, recovery
<1>4. CASE UNCHANGED vars
  BY <1>4 DEF vars, journalVars
<1> QED
  BY <1>1, <1>2, <1>3, <1>4

LEMMA StepKeepsList ==
  ASSUME ~Strays, OwnerInv, HomeInv, ListInv, [Next]_vars
  PROVE  ListInv'
<1>1. ASSUME NEW p \in Procs, RecoverStep(p) PROVE ListInv'
  BY <1>1, RecoverKeepsList
<1>2. CASE \/ \E p \in Procs, r \in ServeIds : Request(p, r)
           \/ \E c \in Runners : Run(c)
           \/ \E r \in Ids : HandleStep(r)
  <2>1. (\A q \in Procs : rec'[q] = "list") /\ IsFiniteSet(dirs')
    BY <1>2, NobodyRecovers DEF ListInv
  <2> QED
    BY <2>1 DEF ListInv, Listed
<1>3. CASE \/ \E p \in Procs :
                \/ StartStep(p) \/ ClaimStep(p) \/ ListenStep(p) \/ GiveUpStep(p)
                \/ ShutdownStep(p) \/ ReleaseStep(p) \/ ExitStep(p) \/ KillStep(p)
           \/ \E c \in Runners : KillRun(c)
           \/ UNCHANGED vars
  <2>1. /\ dirs' = dirs /\ lost' = lost
        /\ \A q \in Procs :
             \/ rec'[q] = rec[q] /\ todo'[q] = todo[q]
             \/ rec'[q] = "list"
    BY <1>3, OtherStepsLeaveLists
  <2> QED
    BY <2>1 DEF ListInv, Listed
<1> QED
  BY <1>1, <1>2, <1>3 DEF Next, Step

(* Each step of a recovery is one less.                                     *)
LEMMA RecoverLowers ==
  ASSUME OwnerInv, HomeInv, ListInv, NEW p \in Procs, RecoverStep(p)
  PROVE  RecoverLeft(p)' \in Nat /\ RecoverLeft(p)' < RecoverLeft(p)
<1> DEFINE r == First(todo[p])
           T == todo[p]
<1>1. pc[p] = "recover" /\ Listed(p) /\ IsFiniteSet(dirs) /\ HomeTypes /\ T \in SUBSET Ids
  BY DEF RecoverStep, ListInv, HomeInv, HomeTypes
<1>2. Cardinality(dirs) \in Nat
  BY <1>1, FS_CardinalityType
<1>3. CASE List(p)
  <2>1. rec[p] = "list" /\ rec'[p] = "visit" /\ todo'[p] = dirs
    BY <1>1, <1>3 DEF List, Recovering, HomeTypes
  <2>2. /\ RecoverLeft(p) = 2 * Cardinality(dirs) + 2
        /\ RecoverLeft(p)' = 2 * Cardinality(dirs) + 1
    BY <2>1 DEF RecoverLeft
  <2> QED
    BY <1>2, <2>2
<1>4. CASE ~List(p)
  <2>1. /\ rec[p] # "list" /\ T \subseteq dirs /\ T # {} /\ r \in T
        /\ \/ rec[p] = "visit" /\ todo'[p] = T /\ rec'[p] \in {"remove", "seal"}
           \/ rec[p] = "visit" /\ todo'[p] = T \ {r} /\ rec'[p] = "visit"
           \/ /\ rec[p] \in {"remove", "seal"}
              /\ (todo'[p] = T \ {r} /\ rec'[p] = "visit") \/ rec'[p] = "error"
    <3>1. CASE Visit(p)
      BY <1>1, <3>1, VisitNeverErrs
    <3>2. CASE RemoveUnaccepted(p)
      <4>1. rec[p] = "remove" /\ rec'[p] = "visit" /\ todo'[p] = T \ {r}
        BY <1>1, <3>2 DEF RemoveUnaccepted, Recovering, HomeTypes
      <4> QED
        BY <1>1, <4>1, LeastId DEF Listed
    <3>3. CASE Seal(p)
      <4>1. /\ rec[p] = "seal"
            /\ (rec'[p] = "visit" /\ todo'[p] = T \ {r}) \/ rec'[p] = "error"
        BY <1>1, <3>3 DEF Seal, Recovering, HomeTypes
      <4> QED
        BY <1>1, <4>1, LeastId DEF Listed
    <3> QED
      BY <1>4, <3>1, <3>2, <3>3 DEF RecoverStep, Recover
  <2>2. IsFiniteSet(T) /\ Cardinality(T) \in Nat /\ Cardinality(T) # 0
    BY <1>1, <2>1, FS_Subset, FS_CardinalityType, FS_EmptySet
  <2>3. Cardinality(T \ {r}) = Cardinality(T) - 1
    BY <2>1, <2>2, FS_RemoveElement
  <2> HIDE DEF r, T
  <2>4. \/ /\ RecoverLeft(p) = 2 * Cardinality(T) + 1
           /\ \/ RecoverLeft(p)' = 2 * Cardinality(T)
              \/ RecoverLeft(p)' = 2 * Cardinality(T \ {r}) + 1
        \/ /\ RecoverLeft(p) = 2 * Cardinality(T)
           /\ RecoverLeft(p)' = 2 * Cardinality(T \ {r}) + 1 \/ RecoverLeft(p)' = 0
    BY <2>1 DEF RecoverLeft, T
  <2> QED
    BY <2>2, <2>3, <2>4
<1> QED
  BY <1>3, <1>4

(* A start's recovery gives up only where a write has failed: it finds no    *)
(* directory gone, and none it can make nothing of.                         *)
GivesUpOnlyOnLost == \A p \in Procs : rec[p] = "error" => First(todo[p]) \in lost

(* While a process recovers, each step of its recovery brings it closer to   *)
(* the end of the directories there were when it listed them, and nothing    *)
(* else that happens takes it further away.                                 *)
Advances(p) ==
  /\ RecoverStep(p) => RecoverLeft(p)' \in Nat /\ RecoverLeft(p)' < RecoverLeft(p)
  /\ ~RecoverStep(p) => RecoverLeft(p)' = RecoverLeft(p)
RecoveryAdvances ==
  [][\A p \in Procs : pc[p] = "recover" /\ pc'[p] = "recover" => Advances(p)]_vars

LEMMA StepAdvances ==
  ASSUME ~Strays, OwnerInv, HomeInv, ListInv, [Next]_vars,
         NEW p \in Procs, pc[p] = "recover", pc'[p] = "recover"
  PROVE  Advances(p)
<1>1. CASE RecoverStep(p)
  BY <1>1, RecoverLowers DEF Advances
<1>2. CASE ~RecoverStep(p)
  <2>1. ASSUME NEW q \in Procs PROVE ~RecoverStep(q)
    <3>1. CASE q = p
      BY <1>2, <3>1
    <3>2. CASE q # p
      BY <3>2 DEF RecoverStep, OwnerInv, Ownership, NamedOnDisk, Named, Holding
    <3> QED
      BY <3>1, <3>2
  <2>2. /\ ~ \E q \in Procs, r \in ServeIds : Request(q, r)
        /\ ~ \E c \in Runners : Run(c)
        /\ ~ \E r \in Ids : HandleStep(r)
    BY NobodyRecovers
  <2>3. \/ \E q \in Procs :
             \/ StartStep(q) \/ ClaimStep(q) \/ ListenStep(q) \/ GiveUpStep(q)
             \/ ShutdownStep(q) \/ ReleaseStep(q) \/ ExitStep(q) \/ KillStep(q)
        \/ \E c \in Runners : KillRun(c)
        \/ UNCHANGED vars
    BY <2>1, <2>2 DEF Next, Step
  <2>4. dirs' = dirs /\ rec'[p] = rec[p] /\ todo'[p] = todo[p]
    BY <2>3, OtherStepsLeaveLists
  <2> QED
    BY <1>2, <2>4 DEF Advances, RecoverLeft
<1> QED
  BY <1>1, <1>2

(* So recover_open_journals ends, after two steps for each directory and two  *)
(* more at most, with every journal seen; or at a journal that could not be   *)
(* written, and then the process gives the lock back.                       *)
THEOREM EveryRecoveryFinishes ==
  ASSUME ~Overlap, ~Strays
  PROVE  Spec => []GivesUpOnlyOnLost /\ RecoveryAdvances
<1> DEFINE Advance ==
      \A p \in Procs : pc[p] = "recover" /\ pc'[p] = "recover" => Advances(p)
<1>1. Init => ListInv
  BY FS_EmptySet DEF Init, JournalInit, ListInv, Listed
<1>2. OwnerInv /\ HomeInv /\ ListInv /\ [Next]_vars => ListInv'
  BY StepKeepsList
<1>3. Spec => [](OwnerInv /\ HomeInv /\ ListInv)
  BY <1>1, <1>2, HomeInvariant, PTL DEF Spec
<1>4. OwnerInv /\ HomeInv /\ ListInv /\ [Next]_vars => Advance
  BY StepAdvances
<1>5. ListInv => GivesUpOnlyOnLost
  BY DEF ListInv, Listed, GivesUpOnlyOnLost
<1> HIDE DEF Advance
<1>6. Spec => [][Advance]_vars
  BY <1>3, <1>4, PTL DEF Spec
<1> QED
  BY <1>3, <1>5, <1>6, PTL DEF Advance, RecoveryAdvances
=============================================================================
