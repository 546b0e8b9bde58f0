-------------------------- MODULE WorkerSlot_proofs --------------------------
(***************************************************************************)
(* Theorems about WorkerSlot for any number of threads, calls, crashes and *)
(* generations. The inductive invariant says which labels a thread with a  *)
(* hold may be at (Holds), that the threads that start workers have        *)
(* generations of their own (Starters), and that the slot has a child      *)
(* exactly while it is Ready, of the current generation (Child). From the  *)
(* latter follows that no thread installs a worker over another one.       *)
(*                                                                         *)
(* Two more invariants stand on it. JoinInv follows the reader threads:    *)
(* whoever is joined, its worker is gone, so that nobody waits in vain.    *)
(* Peace says what a supervisor on which nobody calls unload never does.   *)
(***************************************************************************)
EXTENDS WorkerSlot, FiniteSetTheorems, TLAPS

Starter == {"spawn", "install", "joinLive", "spawnFailed"}
HoldLabels == {"plan", "ensure", "insert", "drop"} \cup Starter
Outcomes == {"none", "refused", "error", "unloaded", "startFailed", "lost", "timeout",
             "result"}

Types ==
  /\ generation \in 0 .. MaxGeneration
  /\ state \in {"starting", "ready", "down"}
  /\ child \in Generations \cup {NoWorker} /\ reader \in Generations \cup {NoWorker}
  /\ completion \subseteq Threads /\ reserved \in Nat
  /\ unloading \in BOOLEAN /\ draining \in BOOLEAN /\ shutdown \in BOOLEAN
  /\ calls \in 0 .. MaxCalls /\ crashes \in 0 .. MaxCrashes
  /\ worker \in [Generations -> {"none", "running", "exited"}]
  /\ reading \in [Generations -> {"none", "running", "exited"}]
  /\ pc \in [Threads -> Labels]
  /\ op \in [Threads -> Operations \cup {"none"}]
  /\ mine \in [Threads -> Generations \cup {NoWorker}]
  /\ old \in [Threads -> Generations \cup {NoWorker}]
  /\ outcome \in [Threads -> Outcomes]
  /\ armed \subseteq Threads /\ leaving \subseteq Threads

(* Which threads have a hold, and which of them an answer.                  *)
Holds ==
  /\ \A t \in armed : /\ pc[t] \in HoldLabels /\ op[t] # "load"
                      /\ pc[t] # "drop" => outcome[t] = "none"
  /\ \A t \in Threads :
       /\ pc[t] \in {"plan", "insert"} => t \in armed
       /\ pc[t] \in {"ensure"} \cup Starter /\ op[t] # "load" => t \in armed
       /\ pc[t] = "reserve" => outcome[t] = "none" /\ op[t] # "load"
       /\ pc[t] = "leave" => op[t] = "load"

(* A thread that starts a worker has a generation of its own, one that      *)
(* kills a worker no future one; the slot is not Ready before the thread of *)
(* its generation is done.                                                  *)
Starters ==
  /\ \A t \in Threads : pc[t] \in Starter => mine[t] \in 1 .. generation
  /\ \A t \in Threads : pc[t] = "kill" => mine[t] \in 0 .. generation
  /\ \A t, u \in Threads :
       pc[t] \in Starter /\ pc[u] \in Starter /\ mine[t] = mine[u] => t = u
  /\ state = "ready" =>
       \A t \in Threads : pc[t] \in Starter => mine[t] # generation

Child ==
  /\ child # NoWorker <=> state = "ready"
  /\ child # NoWorker => child = generation

(* No worker is ahead of the generation, and the current one has a reader.  *)
Readers ==
  \A g \in Generations :
    /\ g > generation => worker[g] = "none"
    /\ g = generation /\ worker[g] = "running" => reading[g] = "running"

SlotInv ==
  /\ Types /\ OccupancyExact /\ Holds
  /\ Starters /\ Child /\ Readers
  /\ StartingHasStarter /\ WaitersHaveReader /\ NoOrphanWorker

WorkerInv ==
  Starters /\ Child /\ Readers /\ StartingHasStarter /\ WaitersHaveReader /\ NoOrphanWorker

-----------------------------------------------------------------------------
LEMMA InitInv == Init => SlotInv
<1> SUFFICES ASSUME Init PROVE SlotInv
  OBVIOUS
<1> USE DEF Init
<1>1. Types
  <2>1. unloading \in BOOLEAN /\ draining \in BOOLEAN /\ shutdown \in BOOLEAN
    OBVIOUS
  <2>2. /\ generation \in 0 .. MaxGeneration
        /\ calls \in 0 .. MaxCalls /\ crashes \in 0 .. MaxCrashes
    BY SlotAssumption
  <2> QED
    BY <2>1, <2>2 DEF Types, Labels, Outcomes, Generations, NoWorker
<1>2. OccupancyExact
  BY FS_EmptySet DEF OccupancyExact
<1>3. Holds
  BY DEF Holds, Starter
<1>4. WorkerInv
  BY DEF WorkerInv, Starters, Starter, Child, Readers, StartingHasStarter,
         WaitersHaveReader, NoOrphanWorker
<1> QED
  BY <1>1, <1>2, <1>3, <1>4 DEF SlotInv, WorkerInv

-----------------------------------------------------------------------------
(* Types.                                                                   *)

LEMMA EnsureTypes ==
  ASSUME Types, NEW t \in Threads, Ensure(t)
  PROVE  Types'
<1> USE DEF Types, Labels, Outcomes, Generations, NoWorker, Go, slot, host, locals,
            Ensured, EnsureFails, Answer, Locks, At
<1>1. CASE EnsureReady(t) \/ EnsureUnloaded(t) \/ EnsureWaits(t)
  BY <1>1 DEF EnsureReady, EnsureUnloaded, EnsureWaits
<1>2. CASE EnsureStarts(t)
  BY <1>2, SlotAssumption DEF EnsureStarts
<1>3. CASE Spawn(t) \/ SpawnFails(t)
  BY <1>3 DEF Spawn, SpawnFails
<1>4. CASE Install(t)
  BY <1>4, SlotAssumption DEF Install, Overtaken
<1>5. CASE DropLive(t) \/ JoinLive(t)
  BY <1>5 DEF DropLive, JoinLive
<1>6. CASE SpawnFailed(t)
  BY <1>6 DEF SpawnFailed, StateAfterFailure
<1> QED
  BY <1>1, <1>2, <1>3, <1>4, <1>5, <1>6 DEF Ensure

LEMMA SubmitTypes ==
  ASSUME Types, NEW t \in Threads, Submit(t)
  PROVE  Types'
<1> USE DEF Types, Labels, Outcomes, Generations, NoWorker, Go, slot, host, locals,
            Answer, Locks, At
<1>1. CASE Insert(t) \/ InsertNotReady(t)
  BY <1>1 DEF Insert, InsertNotReady, Disarm
<1>2. CASE Answered(t) \/ TimesOut(t) \/ Abandon(t)
  BY <1>2 DEF Answered, TimesOut, Abandon
<1> QED
  BY <1>1, <1>2 DEF Submit

LEMMA ThreadTypes ==
  ASSUME Types, NEW t \in Threads, Run(t)
  PROVE  Types'
<1> USE DEF Types, Labels, Outcomes, Generations, NoWorker, Go, slot, host, locals,
            Answer, Locks, At
<1>1. CASE Return(t) \/ Plan(t)
  BY <1>1 DEF Return, Plan
<1>6. CASE Reserve(t)
  BY <1>6 DEF Reserve
<1>7. CASE DropHold(t)
  BY <1>7 DEF DropHold, Release
<1>2. CASE Settle(t) \/ Kill(t) \/ Join(t)
  BY <1>2 DEF Settle, Kill, Join
<1>3. CASE StopWorker(t)
  BY <1>3, SlotAssumption DEF StopWorker, FailWaiters, Lost
<1>4. CASE BeginUnload(t) \/ BeginLoad(t)
  BY <1>4 DEF BeginUnload, BeginLoad
<1>9. CASE LeaveUnload(t)
  <2>1. \/ Go(t, "return") /\ UNCHANGED <<unloading, leaving>>
        \/ unloading' = FALSE /\ leaving' \in {leaving, leaving \cup {t}} /\ Go(t, "ensure")
    BY <1>9 DEF LeaveUnload
  <2> QED
    BY <1>9, <2>1 DEF LeaveUnload
<1>8. CASE LoadFailed(t)
  BY <1>8 DEF LoadFailed
<1>5. CASE BeginDrain(t) \/ Shutdown(t) \/ LeaveHandlers(t)
  BY <1>5 DEF BeginDrain, Shutdown, LeaveHandlers
<1> QED
  BY <1>1, <1>2, <1>3, <1>4, <1>5, <1>6, <1>7, <1>8, <1>9, EnsureTypes, SubmitTypes DEF Run

LEMMA StepTypes ==
  ASSUME Types, [Next]_vars
  PROVE  Types'
<1> USE DEF Types, slot, host, locals
<1>1. CASE UNCHANGED vars
  BY <1>1 DEF vars
<1>2. ASSUME NEW t \in Threads, Run(t) PROVE Types'
  BY <1>2, ThreadTypes
<1>3. ASSUME NEW t \in Threads, NEW k \in Operations, Call(t, k) PROVE Types'
  BY <1>3, SlotAssumption DEF Call, FirstLabel, Labels, Outcomes, Go, Answer
<1>4. ASSUME NEW g \in Generations, WorkerDies(g) PROVE Types'
  BY <1>4, SlotAssumption DEF WorkerDies
<1>5. ASSUME NEW g \in Generations, ReaderEnds(g) PROVE Types'
  BY <1>5, SlotAssumption DEF ReaderEnds, FailWaiters, Lost, Outcomes, NoWorker
<1>6. ASSUME NEW g \in Generations, ReaderLeaves(g) PROVE Types'
  BY <1>6 DEF ReaderLeaves
<1>7. ASSUME NEW g \in Generations, NEW t \in Threads, Dispatch(g, t) PROVE Types'
  BY <1>7 DEF Dispatch, Answer, Outcomes
<1> QED
  BY <1>1, <1>2, <1>3, <1>4, <1>5, <1>6, <1>7 DEF Next

-----------------------------------------------------------------------------
(* Holds and completions.                                                   *)

LEMMA HoldAdded ==
  ASSUME Types, OccupancyExact, NEW t \in Threads, t \notin armed
  PROVE  reserved + 1 = Cardinality(armed \cup {t})
<1>1. IsFiniteSet(armed)
  BY SlotAssumption, FS_Subset DEF Types
<1> QED
  BY <1>1, FS_AddElement DEF OccupancyExact

LEMMA HoldRemoved ==
  ASSUME Types, OccupancyExact, NEW t \in armed
  PROVE  /\ reserved > 0
         /\ reserved - 1 = Cardinality(armed \ {t})
<1>1. IsFiniteSet(armed)
  BY SlotAssumption, FS_Subset DEF Types
<1>2. Cardinality(armed) \in Nat /\ Cardinality(armed) # 0
  BY <1>1, FS_CardinalityType, FS_EmptySet
<1>3. Cardinality(armed \ {t}) = Cardinality(armed) - 1
  BY <1>1, FS_RemoveElement
<1> QED
  BY <1>2, <1>3 DEF OccupancyExact

Waits(t) == pc[t] \in {"await", "abandon"} /\ outcome[t] = "none"
HoldInv == OccupancyExact /\ Holds

(* A step that moves one thread that does not wait for a result, and leaves *)
(* the holds alone.                                                         *)
LEMMA Passing ==
  ASSUME Types, HoldInv, NEW t \in Threads, NEW to, Go(t, to),
         ~Waits(t), ~Waits(t)', UNCHANGED <<reserved, armed, completion>>,
         \A u \in Threads \ {t} : op'[u] = op[u] /\ outcome'[u] = outcome[u],
         t \in armed => /\ to \in HoldLabels /\ op'[t] # "load"
                        /\ to # "drop" => outcome'[t] = "none",
         to \in {"plan", "insert"} => t \in armed,
         to \in {"ensure"} \cup Starter /\ op'[t] # "load" => t \in armed,
         to = "reserve" => outcome'[t] = "none" /\ op'[t] # "load",
         to = "leave" => op'[t] = "load"
  PROVE  HoldInv'
<1>1. pc'[t] = to /\ \A u \in Threads \ {t} : pc'[u] = pc[u]
  BY DEF Go, Types
<1>2. OccupancyExact'
  BY <1>1 DEF HoldInv, OccupancyExact, Waits
<1>3. Holds'
  <2>1. armed \subseteq Threads
    BY DEF Types
  <2> QED
    BY <1>1, <2>1 DEF HoldInv, Holds
<1> QED
  BY <1>2, <1>3 DEF HoldInv

(* A step that lets waiting threads have an answer.                         *)
LEMMA Answering ==
  ASSUME Types, HoldInv, UNCHANGED <<reserved, armed>>, NEW T \in SUBSET completion,
         completion' = completion \ T, NEW s \in Outcomes \ {"none"},
         outcome' = [u \in Threads |-> IF u \in T THEN s ELSE outcome[u]],
         UNCHANGED <<pc, op>>
  PROVE  HoldInv'
<1>1. \A u \in completion : u \notin armed
  BY DEF HoldInv, OccupancyExact, Holds, HoldLabels, Starter
<1>2. OccupancyExact'
  BY DEF HoldInv, OccupancyExact, Types
<1>3. Holds'
  <2>1. armed \subseteq Threads /\ completion \subseteq Threads
    BY DEF Types
  <2>2. \A u \in Threads : outcome'[u] = outcome[u] \/ u \in completion
    OBVIOUS
  <2>3. \A u \in completion : pc[u] \in {"await", "abandon"}
    BY DEF HoldInv, OccupancyExact
  <2> QED
    BY <1>1, <2>1, <2>2, <2>3 DEF HoldInv, Holds
<1> QED
  BY <1>2, <1>3 DEF HoldInv

LEMMA EnsureHolds ==
  ASSUME Types, HoldInv, NEW t \in Threads, Ensure(t)
  PROVE  HoldInv'
<1> USE DEF slot, host, locals, Locks, At, HoldLabels, Starter
<1>0. /\ pc[t] \in {"ensure"} \cup Starter
      /\ UNCHANGED <<reserved, armed, completion, op>>
      /\ \A u \in Threads \ {t} : op'[u] = op[u] /\ outcome'[u] = outcome[u]
  BY DEF Ensure, EnsureReady, EnsureUnloaded, EnsureWaits, EnsureStarts, Spawn,
         SpawnFails, Install, DropLive, JoinLive, SpawnFailed, EnsureFails, Answer,
         Types
<1>1. /\ t \in armed <=> op[t] # "load"
      /\ t \in armed => outcome[t] = "none"
      /\ ~Waits(t)
  BY <1>0 DEF HoldInv, Holds, Waits
<1>2. pc' \in [Threads -> Labels] /\ pc \in [Threads -> Labels]
  BY StepTypes DEF Types, Next, Run
<1>3. ASSUME NEW to \in {"ensure"} \cup Starter, Go(t, to), outcome' = outcome
      PROVE  HoldInv'
  <2>1. ~Waits(t)'
    BY <1>2, <1>3 DEF Waits, Go
  <2> QED
    BY <1>0, <1>1, <1>3, <2>1, Passing
<1>4. CASE Ensured(t) /\ outcome' = outcome
  <2>1. PICK to : Go(t, to) /\ to = IF op[t] = "load" THEN "return" ELSE "insert"
    BY <1>4 DEF Ensured
  <2>2. ~Waits(t)'
    BY <1>2, <2>1 DEF Waits, Go
  <2> QED
    BY <1>0, <1>1, <1>4, <2>1, <2>2, Passing
<1>5. ASSUME NEW why, EnsureFails(t, why) PROVE HoldInv'
  <2>1. PICK to : Go(t, to) /\ to = IF op[t] = "load" THEN "loadFailed" ELSE "drop"
    BY <1>5 DEF EnsureFails
  <2>2. ~Waits(t)'
    BY <1>2, <2>1 DEF Waits, Go
  <2> QED
    BY <1>0, <1>1, <1>5, <2>1, <2>2, Passing
<1>6. CASE EnsureReady(t) \/ Install(t)
  BY <1>4, <1>6 DEF EnsureReady, Install
<1>7. CASE EnsureUnloaded(t) \/ EnsureWaits(t) \/ SpawnFailed(t)
  BY <1>5, <1>7 DEF EnsureUnloaded, EnsureWaits, SpawnFailed
<1>8. CASE EnsureStarts(t) \/ Spawn(t) \/ SpawnFails(t) \/ DropLive(t) \/ JoinLive(t)
  BY <1>3, <1>8 DEF EnsureStarts, Spawn, SpawnFails, DropLive, JoinLive
<1> QED
  BY <1>6, <1>7, <1>8 DEF Ensure

LEMMA SubmitHolds ==
  ASSUME Types, HoldInv, NEW t \in Threads, Submit(t)
  PROVE  HoldInv'
<1> USE DEF slot, host, locals, Locks, At, HoldLabels, Starter
<1>1. CASE Insert(t)
  <2>1. pc[t] = "insert" /\ t \in armed /\ outcome[t] = "none"
    BY <1>1 DEF Insert, HoldInv, Holds
  <2>2. armed' = armed \ {t} /\ reserved' = reserved - 1
    BY <1>1, <2>1, HoldRemoved DEF Insert, Disarm, HoldInv
  <2>3. reserved' = Cardinality(armed')
    BY <2>1, <2>2, HoldRemoved DEF HoldInv
  <2>4. /\ pc'[t] \in {"await", "drop"}
        /\ \A u \in Threads \ {t} : pc'[u] = pc[u] /\ outcome'[u] = outcome[u]
        /\ op' = op
        /\ completion' = IF pc'[t] = "await" THEN completion \cup {t} ELSE completion
        /\ pc'[t] = "await" => outcome'[t] = "none"
    BY <1>1, <2>1 DEF Insert, Go, Answer, Types
  <2>5. completion' = {u \in Threads : pc'[u] \in {"await", "abandon"} /\ outcome'[u] = "none"}
    BY <2>1, <2>4 DEF HoldInv, OccupancyExact
  <2>6. Holds'
    BY <2>1, <2>2, <2>4 DEF HoldInv, Holds, Types
  <2> QED
    BY <2>3, <2>5, <2>6 DEF HoldInv, OccupancyExact
<1>2. CASE InsertNotReady(t)
  <2>1. /\ pc[t] = "insert" /\ Go(t, "drop") /\ op' = op
        /\ \A u \in Threads \ {t} : outcome'[u] = outcome[u]
        /\ UNCHANGED <<reserved, armed, completion>>
    BY <1>2 DEF InsertNotReady, Answer, Types
  <2>2. ~Waits(t) /\ ~Waits(t)' /\ t \in armed /\ op[t] # "load"
    BY <2>1 DEF Waits, Go, Types, HoldInv, Holds
  <2> QED
    BY <2>1, <2>2, Passing
<1>3. CASE Answered(t)
  <2>1. /\ pc[t] = "await" /\ outcome[t] # "none" /\ Go(t, "drop")
        /\ op' = op /\ outcome' = outcome /\ UNCHANGED <<reserved, armed, completion>>
    BY <1>3 DEF Answered
  <2>2. ~Waits(t) /\ ~Waits(t)' /\ t \notin armed
    BY <2>1 DEF Waits, Go, Types, HoldInv, Holds
  <2> QED
    BY <2>1, <2>2, Passing
<1>4. CASE TimesOut(t)
  <2>1. /\ pc[t] = "await" /\ pc'[t] = "abandon"
        /\ \A u \in Threads \ {t} : pc'[u] = pc[u]
        /\ op' = op /\ outcome' = outcome /\ UNCHANGED <<reserved, armed, completion>>
    BY <1>4 DEF TimesOut, Go, Types
  <2> QED
    BY <2>1 DEF HoldInv, OccupancyExact, Holds, Types
<1>5. CASE Abandon(t)
  <2>1. /\ pc[t] = "abandon" /\ pc'[t] = "drop"
        /\ \A u \in Threads \ {t} : pc'[u] = pc[u] /\ outcome'[u] = outcome[u]
        /\ op' = op /\ UNCHANGED <<reserved, armed>>
        /\ completion' = completion \ {t}
    BY <1>5 DEF Abandon, Go, Answer, Types
  <2>2. t \notin armed
    BY <2>1 DEF HoldInv, Holds
  <2> QED
    BY <2>1, <2>2 DEF HoldInv, OccupancyExact, Holds, Types
<1> QED
  BY <1>1, <1>2, <1>3, <1>4, <1>5 DEF Submit

(* The steps of a thread that has no hold and waits for no result.          *)
Elsewhere == Labels \ (HoldLabels \cup {"await", "abandon"})
PassesBy(t, to) ==
  /\ Go(t, to)
  /\ pc[t] \in Elsewhere
  /\ to \in Elsewhere \ {"reserve"} \/ (to = "ensure" /\ op'[t] = "load")
  /\ to = "leave" => op'[t] = "load"
  /\ UNCHANGED <<reserved, armed, completion>>
  /\ \A u \in Threads \ {t} : op'[u] = op[u] /\ outcome'[u] = outcome[u]

LEMMA OtherHolds ==
  ASSUME Types, HoldInv, NEW t \in Threads, NEW to, PassesBy(t, to)
  PROVE  HoldInv'
<1> USE DEF PassesBy, Elsewhere
<1>1. t \notin armed
  BY DEF HoldInv, Holds
<1>2. pc'[t] = to
  BY DEF Go, Types
<1>3. ~Waits(t) /\ ~Waits(t)'
  BY <1>2 DEF Waits, HoldLabels
<1>4. to \notin {"plan", "insert", "reserve"} \cup Starter
  BY DEF HoldLabels, Starter
<1>5. to = "ensure" => op'[t] = "load"
  BY DEF HoldLabels
<1> QED
  BY <1>1, <1>3, <1>4, <1>5, Passing

LEMMA ThreadHolds ==
  ASSUME Types, HoldInv, NEW t \in Threads, Run(t)
  PROVE  HoldInv'
<1> USE DEF slot, host, locals, Locks, At, HoldLabels, Starter, PassesBy, Elsewhere, Labels
<1>1. CASE Return(t)
  <2>1. PassesBy(t, "idle")
    BY <1>1 DEF Return, Types
  <2> QED
    BY <2>1, OtherHolds
<1>2. CASE Reserve(t)
  <2>1. /\ pc[t] = "reserve" /\ t \notin armed /\ outcome[t] = "none" /\ op[t] # "load"
        /\ op' = op /\ completion' = completion
    BY <1>2 DEF Reserve, HoldInv, Holds
  <2>2. CASE Answer(t, "refused") /\ Go(t, "settle") /\ UNCHANGED <<reserved, armed>>
    <3>1. PassesBy(t, "settle")
      BY <2>1, <2>2 DEF Answer, Types
    <3> QED
      BY <3>1, OtherHolds
  <2>3. CASE /\ reserved' = reserved + 1 /\ armed' = armed \cup {t}
             /\ Go(t, "plan") /\ UNCHANGED outcome
    <3>1. pc'[t] = "plan" /\ \A u \in Threads \ {t} : pc'[u] = pc[u]
      BY <2>3 DEF Go, Types
    <3>2. reserved' = Cardinality(armed')
      BY <2>1, <2>3, HoldAdded DEF HoldInv
    <3>3. completion' = {u \in Threads : pc'[u] \in {"await", "abandon"} /\ outcome'[u] = "none"}
      BY <2>1, <2>3, <3>1 DEF HoldInv, OccupancyExact
    <3>4. Holds'
      BY <2>1, <2>3, <3>1 DEF HoldInv, Holds, Types
    <3> QED
      BY <3>2, <3>3, <3>4 DEF HoldInv, OccupancyExact
  <2> QED
    BY <1>2, <2>2, <2>3 DEF Reserve
<1>3. CASE Plan(t)
  <2>1. /\ pc[t] = "plan" /\ t \in armed /\ op[t] # "load" /\ op' = op
        /\ outcome[t] = "none" /\ UNCHANGED <<reserved, armed, completion>>
    BY <1>3 DEF Plan, HoldInv, Holds
  <2>2. PICK to \in {"ensure", "drop"} :
          /\ Go(t, to)
          /\ to = "ensure" => outcome' = outcome
          /\ \A u \in Threads \ {t} : outcome'[u] = outcome[u]
    BY <1>3 DEF Plan, Answer, Types
  <2>3. ~Waits(t) /\ ~Waits(t)'
    BY <2>1, <2>2 DEF Waits, Go, Types
  <2> QED
    BY <2>1, <2>2, <2>3, Passing
<1>4. CASE DropHold(t)
  <2>1. /\ pc[t] = "drop" /\ Go(t, "settle") /\ op' = op /\ outcome' = outcome
        /\ completion' = completion
    BY <1>4 DEF DropHold
  <2>2. pc'[t] = "settle" /\ \A u \in Threads \ {t} : pc'[u] = pc[u]
    BY <2>1 DEF Go, Types
  <2>3. CASE t \in armed
    <3>1. armed' = armed \ {t} /\ reserved' = reserved - 1
      BY <1>4, <2>3, HoldRemoved DEF DropHold, Release, HoldInv
    <3>2. reserved' = Cardinality(armed')
      BY <2>3, <3>1, HoldRemoved DEF HoldInv
    <3>3. completion' = {u \in Threads : pc'[u] \in {"await", "abandon"} /\ outcome'[u] = "none"}
      BY <2>1, <2>2 DEF HoldInv, OccupancyExact
    <3>4. Holds'
      BY <2>1, <2>2, <3>1 DEF HoldInv, Holds, Types
    <3> QED
      BY <3>2, <3>3, <3>4 DEF HoldInv, OccupancyExact
  <2>4. CASE t \notin armed
    <3>1. UNCHANGED <<reserved, armed>>
      BY <1>4, <2>4 DEF DropHold
    <3>2. ~Waits(t) /\ ~Waits(t)'
      BY <2>1, <2>2 DEF Waits
    <3> QED
      BY <2>1, <2>4, <3>1, <3>2, Passing
  <2> QED
    BY <2>3, <2>4
<1>5. CASE Settle(t)
  <2>1. PICK to : /\ Go(t, to) /\ to \in {"stop", "leave", "return"}
                  /\ to = "leave" => op[t] = "load"
    BY <1>5 DEF Settle
  <2>3. PassesBy(t, to)
    BY <1>5, <2>1 DEF Settle
  <2> QED
    BY <2>3, OtherHolds
<1>6. CASE StopWorker(t)
  <2>1. /\ pc[t] = "stop" /\ pc'[t] = "kill" /\ op' = op /\ UNCHANGED <<reserved, armed>>
        /\ \A u \in Threads \ {t} : pc'[u] = pc[u]
        /\ completion' = {}
        /\ outcome' = [u \in Threads |-> IF u \in completion THEN "lost" ELSE outcome[u]]
    BY <1>6 DEF StopWorker, Go, FailWaiters, Lost, Types
  <2>2. OccupancyExact'
    BY <2>1 DEF HoldInv, OccupancyExact
  <2>3. \A u \in armed : u \notin completion /\ u # t
    BY <2>1 DEF HoldInv, OccupancyExact, Holds
  <2>4. \A u \in Threads : pc[u] = "reserve" => u \notin completion
    BY DEF HoldInv, OccupancyExact
  <2>5. Holds'
    BY <2>1, <2>3, <2>4 DEF HoldInv, Holds, Types
  <2> QED
    BY <2>2, <2>5 DEF HoldInv
<1>7. CASE Kill(t)
  <2>1. PassesBy(t, "join")
    BY <1>7 DEF Kill
  <2> QED
    BY <2>1, OtherHolds
<1>8. CASE Join(t)
  <2>1. PICK to : /\ Go(t, to) /\ to \in {"leave", "handlers", "return"}
                  /\ to = "leave" => op[t] = "load"
    BY <1>8 DEF Join
  <2>3. PassesBy(t, to)
    BY <1>8, <2>1 DEF Join
  <2> QED
    BY <2>3, OtherHolds
<1>9. CASE BeginUnload(t) \/ BeginLoad(t)
  <2>1. PICK to : Go(t, to) /\ to \in {"settle", "return"}
    BY <1>9 DEF BeginUnload, BeginLoad
  <2>3. PassesBy(t, to)
    BY <1>9, <2>1 DEF BeginUnload, BeginLoad
  <2> QED
    BY <2>3, OtherHolds
<1>10. CASE LeaveUnload(t)
  <2>1. PICK to : Go(t, to) /\ to \in {"ensure", "return"}
    BY <1>10 DEF LeaveUnload
  <2>2. pc[t] = "leave" /\ op[t] = "load" /\ op' = op
    BY <1>10 DEF LeaveUnload, HoldInv, Holds
  <2>3. PassesBy(t, to)
    BY <1>10, <2>1, <2>2 DEF LeaveUnload
  <2> QED
    BY <2>3, OtherHolds
<1>11. CASE LoadFailed(t)
  <2>1. PassesBy(t, "return")
    BY <1>11 DEF LoadFailed
  <2> QED
    BY <2>1, OtherHolds
<1>12. CASE BeginDrain(t) \/ Shutdown(t)
  <2>1. PICK to : Go(t, to) /\ to \in {"return", "drainWait", "stop"}
    BY <1>12 DEF BeginDrain, Shutdown
  <2>3. PassesBy(t, to)
    BY <1>12, <2>1 DEF BeginDrain, Shutdown
  <2> QED
    BY <2>3, OtherHolds
<1>13. CASE LeaveHandlers(t)
  <2>1. PassesBy(t, "return")
    BY <1>13 DEF LeaveHandlers
  <2> QED
    BY <2>1, OtherHolds
<1> QED
  BY <1>1, <1>2, <1>3, <1>4, <1>5, <1>6, <1>7, <1>8, <1>9, <1>10, <1>11, <1>12,
     <1>13, EnsureHolds, SubmitHolds
  DEF Run

LEMMA StepHolds ==
  ASSUME Types, HoldInv, [Next]_vars
  PROVE  HoldInv'
<1> USE DEF slot, host, locals
<1>1. CASE UNCHANGED vars
  BY <1>1 DEF vars, HoldInv, OccupancyExact, Holds
<1>2. ASSUME NEW t \in Threads, Run(t) PROVE HoldInv'
  BY <1>2, ThreadHolds
<1>3. ASSUME NEW t \in Threads, NEW k \in Operations, Call(t, k) PROVE HoldInv'
  <2>1. /\ pc[t] = "idle" /\ Go(t, FirstLabel(k)) /\ op'[t] = k /\ outcome'[t] = "none"
        /\ \A u \in Threads \ {t} : op'[u] = op[u] /\ outcome'[u] = outcome[u]
        /\ UNCHANGED <<reserved, armed, completion>>
    BY <1>3 DEF Call, At, Answer, Types
  <2>2. /\ FirstLabel(k) \in {"reserve", "load", "unload", "drain"}
        /\ FirstLabel(k) = "reserve" => k # "load"
    BY SlotAssumption DEF FirstLabel
  <2>3. pc'[t] = FirstLabel(k)
    BY <2>1 DEF Go, Types
  <2>4. ~Waits(t) /\ ~Waits(t)' /\ t \notin armed
    BY <2>1, <2>2, <2>3 DEF Waits, HoldInv, Holds, HoldLabels, Starter
  <2> QED
    BY <2>1, <2>2, <2>4, Passing DEF Starter
<1>4. ASSUME NEW g \in Generations, WorkerDies(g) \/ ReaderLeaves(g) PROVE HoldInv'
  BY <1>4 DEF WorkerDies, ReaderLeaves, HoldInv, OccupancyExact, Holds
<1>5. ASSUME NEW g \in Generations, ReaderEnds(g) PROVE HoldInv'
  <2>1. UNCHANGED <<reserved, armed, pc, op>>
    BY <1>5 DEF ReaderEnds
  <2>2. CASE UNCHANGED <<completion, outcome>>
    BY <2>1, <2>2 DEF HoldInv, OccupancyExact, Holds
  <2>3. CASE FailWaiters
    <3>1. /\ completion' = completion \ completion /\ completion \in SUBSET completion
          /\ outcome' = [u \in Threads |-> IF u \in completion THEN "lost" ELSE outcome[u]]
          /\ "lost" \in Outcomes \ {"none"}
      BY <2>3 DEF FailWaiters, Lost, Outcomes
    <3> QED
      BY <2>1, <3>1, Answering
  <2> QED
    BY <1>5, <2>2, <2>3 DEF ReaderEnds
<1>6. ASSUME NEW g \in Generations, NEW t \in Threads, Dispatch(g, t) PROVE HoldInv'
  <2>1. /\ UNCHANGED <<reserved, armed, pc, op>> /\ {t} \in SUBSET completion
        /\ completion' = completion \ {t} /\ "result" \in Outcomes \ {"none"}
        /\ outcome' = [u \in Threads |-> IF u \in {t} THEN "result" ELSE outcome[u]]
    BY <1>6 DEF Dispatch, Answer, Outcomes, Types
  <2> QED
    BY <2>1, Answering
<1> QED
  BY <1>1, <1>2, <1>3, <1>4, <1>5, <1>6 DEF Next

-----------------------------------------------------------------------------
(* Generations, the slot's child and the readers.                           *)

Parts == <<generation, state, child, worker, reading>>

(* A step of threads that have no worker in their hands.                    *)
LEMMA Elsewise ==
  ASSUME Types, WorkerInv, UNCHANGED Parts, mine' = mine, completion' \subseteq completion,
         \A u \in Threads :
           \/ pc'[u] = pc[u]
           \/ pc[u] \notin Starter \cup {"kill"} /\ pc'[u] \notin Starter \cup {"kill"}
  PROVE  WorkerInv'
<1> USE DEF Parts, WorkerInv, Starter
<1>1. Starters'
  BY DEF Starters
<1>2. Child' /\ Readers'
  BY DEF Child, Readers
<1>3. StartingHasStarter'
  BY DEF StartingHasStarter
<1>4. WaitersHaveReader'
  BY DEF WaitersHaveReader
<1>5. NoOrphanWorker'
  BY DEF NoOrphanWorker
<1> QED
  BY <1>1, <1>2, <1>3, <1>4, <1>5

LEMMA StartsWorkers ==
  ASSUME Types, WorkerInv, NEW t \in Threads, EnsureStarts(t)
  PROVE  WorkerInv'
<1> USE DEF WorkerInv, Starter
<1>1. /\ pc[t] = "ensure" /\ pc'[t] = "spawn" /\ state = "down" /\ state' = "starting"
      /\ generation' = generation + 1 /\ mine'[t] = generation + 1
      /\ \A u \in Threads \ {t} : pc'[u] = pc[u] /\ mine'[u] = mine[u]
      /\ UNCHANGED <<child, completion, worker, reading>>
      /\ generation \in Nat
  BY DEF EnsureStarts, Locks, At, Go, Types
<1>2. Starters'
  BY <1>1 DEF Starters
<1>3. Child'
  BY <1>1 DEF Child
<1>4. Readers'
  BY <1>1 DEF Readers, Generations
<1>5. StartingHasStarter'
  BY <1>1 DEF StartingHasStarter
<1>6. WaitersHaveReader'
  BY <1>1 DEF WaitersHaveReader
<1>7. NoOrphanWorker'
  BY <1>1 DEF NoOrphanWorker
<1> QED
  BY <1>2, <1>3, <1>4, <1>5, <1>6, <1>7

LEMMA SpawnWorkers ==
  ASSUME Types, WorkerInv, NEW t \in Threads, Spawn(t)
  PROVE  WorkerInv'
<1> USE DEF WorkerInv, Starter
<1>1. /\ pc[t] = "spawn" /\ pc'[t] = "install" /\ mine' = mine
      /\ \A u \in Threads \ {t} : pc'[u] = pc[u]
      /\ UNCHANGED <<generation, state, child, completion>>
      /\ generation \in 0 .. MaxGeneration
  BY DEF Spawn, At, Go, Types, slot, locals
<1>2. mine[t] \in 1 .. generation /\ mine[t] \in Generations
  BY <1>1, SlotAssumption DEF Starters, Generations
<1>3. /\ worker'[mine[t]] = "running" /\ reading'[mine[t]] = "running"
      /\ \A g \in Generations \ {mine[t]} :
           worker'[g] = worker[g] /\ reading'[g] = reading[g]
  BY <1>2 DEF Spawn, Types
<1>4. Starters'
  BY <1>1 DEF Starters
<1>5. Child'
  BY <1>1 DEF Child
<1>6. Readers'
  BY <1>1, <1>2, <1>3 DEF Readers
<1>7. StartingHasStarter'
  BY <1>1 DEF StartingHasStarter
<1>8. WaitersHaveReader'
  BY <1>1, <1>2, <1>3 DEF WaitersHaveReader
<1>9. NoOrphanWorker'
  BY <1>1, <1>3 DEF NoOrphanWorker
<1> QED
  BY <1>4, <1>5, <1>6, <1>7, <1>8, <1>9

LEMMA InstallWorkers ==
  ASSUME Types, WorkerInv, NEW t \in Threads, Install(t)
  PROVE  WorkerInv'
<1> USE DEF WorkerInv, Starter
<1>1. /\ pc[t] = "install" /\ pc'[t] \in {"return", "insert"} /\ mine' = mine
      /\ \A u \in Threads \ {t} : pc'[u] = pc[u]
      /\ UNCHANGED <<generation, completion, worker, reading>>
      /\ mine[t] = generation /\ child' = generation /\ state' = "ready"
      /\ generation \in Nat
  BY DEF Install, Overtaken, Ensured, Locks, At, Go, Types, locals
<1>2. generation # NoWorker
  BY <1>1 DEF Starters, NoWorker
<1>3. state # "ready" /\ child = NoWorker /\ completion = {}
  BY <1>1 DEF Starters, Child, WaitersHaveReader
<1>4. Starters'
  BY <1>1 DEF Starters
<1>5. Child'
  BY <1>1, <1>2 DEF Child, NoWorker
<1>6. Readers'
  BY <1>1 DEF Readers
<1>7. StartingHasStarter' /\ WaitersHaveReader'
  BY <1>1, <1>3 DEF StartingHasStarter, WaitersHaveReader
<1>8. NoOrphanWorker'
  BY <1>1, <1>3 DEF NoOrphanWorker, Generations, NoWorker
<1> QED
  BY <1>4, <1>5, <1>6, <1>7, <1>8

(* A worker that was overtaken is killed by the thread that started it.     *)
LEMMA DropWorkers ==
  ASSUME Types, WorkerInv, NEW t \in Threads, DropLive(t)
  PROVE  WorkerInv'
<1> USE DEF WorkerInv, Starter
<1>1. /\ pc[t] = "install" /\ pc'[t] = "joinLive" /\ mine' = mine
      /\ \A u \in Threads \ {t} : pc'[u] = pc[u]
      /\ UNCHANGED <<generation, state, child, completion, reading>>
      /\ mine[t] # generation /\ generation \in Nat
  BY DEF DropLive, Overtaken, Locks, At, Go, Types, slot, locals
<1>2. mine[t] \in 1 .. generation /\ mine[t] \in Generations
  <2>1. mine[t] \in 1 .. generation /\ generation \in 0 .. MaxGeneration
    BY <1>1 DEF Starters, Types
  <2> QED
    BY <2>1, SlotAssumption DEF Generations
<1>3. /\ worker'[mine[t]] = "exited"
      /\ \A g \in Generations \ {mine[t]} : worker'[g] = worker[g]
  BY <1>2 DEF DropLive, Types
<1>4. Starters' /\ Child'
  BY <1>1 DEF Starters, Child
<1>5. Readers'
  BY <1>1, <1>2, <1>3 DEF Readers
<1>6. StartingHasStarter' /\ WaitersHaveReader'
  BY <1>1 DEF StartingHasStarter, WaitersHaveReader
<1>7. NoOrphanWorker'
  BY <1>1, <1>3 DEF NoOrphanWorker
<1> QED
  BY <1>4, <1>5, <1>6, <1>7

LEMMA FailedWorkers ==
  ASSUME Types, WorkerInv, NEW t \in Threads,
         SpawnFails(t) \/ JoinLive(t) \/ SpawnFailed(t)
  PROVE  WorkerInv'
<1> USE DEF WorkerInv, Starter
<1>1. /\ pc[t] \in {"spawn", "joinLive", "spawnFailed"} /\ mine' = mine
      /\ \A u \in Threads \ {t} : pc'[u] = pc[u]
      /\ UNCHANGED <<generation, child, completion, worker, reading>>
      /\ pc'[t] \in {"spawnFailed", "ensure", "loadFailed", "drop"}
      /\ pc'[t] = "spawnFailed" => pc[t] = "spawn"
      /\ pc[t] = "spawn" => pc'[t] = "spawnFailed"
      /\ state' = state \/ (mine[t] = generation /\ state' = "down")
      /\ pc[t] = "spawnFailed" /\ mine[t] = generation => state' = "down"
  <2> USE DEF Locks, At, Go, slot, locals
  <2>0. pc \in [Threads -> Labels]
    BY DEF Types
  <2>1. CASE SpawnFails(t)
    BY <2>0, <2>1 DEF SpawnFails
  <2>2. CASE JoinLive(t)
    BY <2>0, <2>2 DEF JoinLive
  <2>3. CASE SpawnFailed(t)
    <3>1. /\ pc[t] = "spawnFailed" /\ pc'[t] \in {"loadFailed", "drop"} /\ mine' = mine
          /\ \A u \in Threads \ {t} : pc'[u] = pc[u]
          /\ UNCHANGED <<generation, child, completion, worker, reading>>
      BY <2>0, <2>3 DEF SpawnFailed, EnsureFails
    <3>2. state' = IF generation # mine[t] THEN state ELSE "down"
      BY <2>3 DEF SpawnFailed, StateAfterFailure, Overtaken
    <3> QED
      BY <3>1, <3>2
  <2> QED
    BY <2>1, <2>2, <2>3
<1>2. state' # state => state # "ready" /\ completion = {}
  BY <1>1 DEF Starters, WaitersHaveReader
<1>3. Starters' /\ Child'
  BY <1>1, <1>2 DEF Starters, Child
<1>4. Readers' /\ WaitersHaveReader'
  BY <1>1, <1>2 DEF Readers, WaitersHaveReader
<1>5. StartingHasStarter'
  BY <1>1 DEF StartingHasStarter
<1>6. NoOrphanWorker'
  BY <1>1 DEF NoOrphanWorker
<1> QED
  BY <1>3, <1>4, <1>5, <1>6

(* A frame is only written to a worker that runs, so somebody reads its     *)
(* answer.                                                                  *)
LEMMA InsertWorkers ==
  ASSUME Types, WorkerInv, NEW t \in Threads, Insert(t)
  PROVE  WorkerInv'
<1> USE DEF WorkerInv, Starter
<1>1. /\ pc[t] = "insert" /\ pc'[t] \in {"await", "drop"} /\ mine' = mine
      /\ \A u \in Threads \ {t} : pc'[u] = pc[u]
      /\ UNCHANGED <<generation, state, child, worker, reading>>
      /\ state = "ready"
      /\ completion' = completion \/ (child # NoWorker /\ worker[child] = "running")
  <2> USE DEF Locks, At, Go
  <2>0. pc \in [Threads -> Labels]
    BY DEF Types
  <2>1. \/ child # NoWorker /\ worker[child] = "running" /\ Go(t, "await")
        \/ completion' = completion /\ Go(t, "drop")
    BY DEF Insert
  <2> QED
    BY <2>0, <2>1 DEF Insert
<1>2. Starters' /\ Child' /\ Readers'
  BY <1>1 DEF Starters, Child, Readers
<1>3. StartingHasStarter' /\ NoOrphanWorker'
  BY <1>1 DEF StartingHasStarter, NoOrphanWorker
<1>4. WaitersHaveReader'
  <2>1. CASE completion' = completion
    BY <1>1, <2>1 DEF WaitersHaveReader
  <2>2. CASE child # NoWorker /\ worker[child] = "running"
    BY <1>1, <2>2 DEF WaitersHaveReader, Child, Readers, Types
  <2> QED
    BY <1>1, <2>1, <2>2
<1> QED
  BY <1>2, <1>3, <1>4

LEMMA StopWorkers ==
  ASSUME Types, WorkerInv, NEW t \in Threads, StopWorker(t)
  PROVE  WorkerInv'
<1> USE DEF WorkerInv, Starter
<1>1. /\ pc[t] = "stop" /\ pc'[t] = "kill" /\ mine'[t] = child
      /\ \A u \in Threads \ {t} : pc'[u] = pc[u] /\ mine'[u] = mine[u]
      /\ generation' = generation + 1 /\ state' = "down" /\ child' = NoWorker
      /\ completion' = {} /\ UNCHANGED <<worker, reading>> /\ generation \in Nat
  BY DEF StopWorker, FailWaiters, Locks, At, Go, Types
<1>2. Starters'
  BY <1>1 DEF Starters, Child, NoWorker
<1>3. Child' /\ Readers'
  BY <1>1 DEF Child, Readers, Generations
<1>4. StartingHasStarter' /\ WaitersHaveReader'
  BY <1>1 DEF StartingHasStarter, WaitersHaveReader
<1>5. NoOrphanWorker'
  BY <1>1 DEF NoOrphanWorker
<1> QED
  BY <1>2, <1>3, <1>4, <1>5

LEMMA KillWorkers ==
  ASSUME Types, WorkerInv, NEW t \in Threads, Kill(t)
  PROVE  WorkerInv'
<1> USE DEF WorkerInv, Starter
<1>1. /\ pc[t] = "kill" /\ pc'[t] = "join" /\ mine' = mine
      /\ \A u \in Threads \ {t} : pc'[u] = pc[u]
      /\ UNCHANGED <<generation, state, child, completion, reading>>
  BY DEF Kill, At, Go, Types, slot, locals
<1>2. /\ mine[t] \in Generations => worker'[mine[t]] = "exited"
      /\ \A g \in Generations : g # mine[t] => worker'[g] = worker[g]
  <2> USE DEF Types, Generations, NoWorker
  <2>1. CASE mine[t] = NoWorker
    BY <2>1 DEF Kill
  <2>2. CASE mine[t] # NoWorker
    BY <2>2 DEF Kill
  <2> QED
    BY <2>1, <2>2
<1>3. Starters' /\ Child'
  BY <1>1 DEF Starters, Child
<1>6. Readers'
  <2>1. ASSUME NEW g \in Generations, g > generation PROVE worker'[g] = "none"
    <3>1. mine[t] \in 0 .. generation
      BY <1>1 DEF Starters
    <3> QED
      BY <1>2, <2>1, <3>1 DEF Readers, Generations, Types
  <2>2. ASSUME NEW g \in Generations, g = generation, worker'[g] = "running"
        PROVE  reading[g] = "running"
    BY <1>2, <2>2 DEF Readers
  <2> QED
    BY <1>1, <2>1, <2>2 DEF Readers
<1>4. StartingHasStarter' /\ WaitersHaveReader'
  BY <1>1 DEF StartingHasStarter, WaitersHaveReader
<1>5. NoOrphanWorker'
  BY <1>1, <1>2 DEF NoOrphanWorker
<1> QED
  BY <1>3, <1>4, <1>5, <1>6

LEMMA ThreadWorkers ==
  ASSUME Types, WorkerInv, NEW t \in Threads, Run(t)
  PROVE  WorkerInv'
<1> USE DEF slot, host, locals, Locks, At, Go, Starter, Parts
<1> DEFINE Untouched ==
      /\ UNCHANGED Parts /\ mine' = mine /\ completion' \subseteq completion
      /\ \A u \in Threads :
           \/ pc'[u] = pc[u]
           \/ pc[u] \notin Starter \cup {"kill"} /\ pc'[u] \notin Starter \cup {"kill"}
<1>1. pc \in [Threads -> Labels]
  BY DEF Types
<1>2. CASE Return(t) \/ Reserve(t) \/ Plan(t) \/ DropHold(t)
  <2>1. Untouched
    BY <1>1, <1>2 DEF Return, Reserve, Plan, DropHold
  <2> QED
    BY <2>1, Elsewise
<1>3. CASE EnsureReady(t) \/ EnsureUnloaded(t) \/ EnsureWaits(t)
  <2>1. Untouched
    BY <1>1, <1>3 DEF EnsureReady, EnsureUnloaded, EnsureWaits, Ensured, EnsureFails
  <2> QED
    BY <2>1, Elsewise
<1>4. CASE InsertNotReady(t) \/ Answered(t) \/ TimesOut(t) \/ Abandon(t)
  <2>1. Untouched
    BY <1>1, <1>4 DEF InsertNotReady, Answered, TimesOut, Abandon
  <2> QED
    BY <2>1, Elsewise
<1>5. CASE Settle(t) \/ BeginUnload(t) \/ BeginLoad(t) \/ LoadFailed(t)
  <2>1. Untouched
    BY <1>1, <1>5 DEF Settle, BeginUnload, BeginLoad, LoadFailed
  <2> QED
    BY <2>1, Elsewise
<1>6. CASE LeaveUnload(t)
  <2>1. Untouched
    BY <1>1, <1>6 DEF LeaveUnload
  <2> QED
    BY <2>1, Elsewise
<1>7. CASE BeginDrain(t) \/ Shutdown(t) \/ LeaveHandlers(t)
  <2>1. Untouched
    BY <1>1, <1>7 DEF BeginDrain, Shutdown, LeaveHandlers
  <2> QED
    BY <2>1, Elsewise
<1>8. CASE Join(t)
  <2>1. WorkerInv'
    <3>1. Untouched
      BY <1>1, <1>8 DEF Join
    <3> QED
      BY <3>1, Elsewise
  <2> QED
    BY <2>1
<1>9. CASE Ensure(t)
  BY <1>3, <1>9, StartsWorkers, SpawnWorkers, InstallWorkers, DropWorkers, FailedWorkers
  DEF Ensure
<1>10. CASE Submit(t)
  BY <1>4, <1>10, InsertWorkers DEF Submit
<1> QED
  BY <1>2, <1>5, <1>6, <1>7, <1>8, <1>9, <1>10, StopWorkers, KillWorkers DEF Run

LEMMA ReaderWorkers ==
  ASSUME Types, WorkerInv, NEW g \in Generations, ReaderEnds(g)
  PROVE  WorkerInv'
<1> USE DEF WorkerInv, Starter
<1>1. /\ UNCHANGED <<generation, pc, mine>> /\ worker[g] = "exited"
      /\ reading'[g] = "exited"
      /\ \A h \in Generations \ {g} : reading'[h] = reading[h]
  BY DEF ReaderEnds, Types
<1>2. CASE generation = g
  <2>1. completion' = {} /\ state' = "down" /\ child' = NoWorker
    BY <1>2 DEF ReaderEnds, CurrentReader, FailWaiters
  <2>2. worker' = worker
    BY <1>1, <1>2 DEF ReaderEnds, CurrentReader, Child, Types
  <2>3. Starters' /\ Child'
    BY <1>1, <2>1 DEF Starters, Child
  <2>4. Readers'
    BY <1>1, <2>2 DEF Readers
  <2>5. StartingHasStarter' /\ WaitersHaveReader'
    BY <2>1 DEF StartingHasStarter, WaitersHaveReader
  <2>6. NoOrphanWorker'
    BY <1>1, <1>2, <2>2 DEF NoOrphanWorker, Child, Generations, NoWorker
  <2> QED
    BY <2>3, <2>4, <2>5, <2>6
<1>3. CASE generation # g
  <2>1. UNCHANGED <<completion, worker, child, state>>
    BY <1>3 DEF ReaderEnds, CurrentReader
  <2>2. Starters' /\ Child' /\ Readers'
    BY <1>1, <1>3, <2>1 DEF Starters, Child, Readers
  <2>3. StartingHasStarter' /\ WaitersHaveReader'
    BY <1>1, <1>3, <2>1 DEF StartingHasStarter, WaitersHaveReader
  <2>4. NoOrphanWorker'
    BY <1>1, <2>1 DEF NoOrphanWorker
  <2> QED
    BY <2>2, <2>3, <2>4
<1> QED
  BY <1>2, <1>3

LEMMA StepWorkers ==
  ASSUME Types, WorkerInv, [Next]_vars
  PROVE  WorkerInv'
<1> USE DEF slot, host, locals, Starter
<1>1. CASE UNCHANGED vars
  <2>1. /\ UNCHANGED Parts /\ mine' = mine /\ completion' \subseteq completion
        /\ pc' = pc
    BY <1>1 DEF vars, Parts
  <2> QED
    BY <2>1, Elsewise
<1>2. ASSUME NEW t \in Threads, Run(t) PROVE WorkerInv'
  BY <1>2, ThreadWorkers
<1>3. ASSUME NEW t \in Threads, NEW k \in Operations, Call(t, k) PROVE WorkerInv'
  <2>1. /\ UNCHANGED Parts /\ mine' = mine /\ completion' \subseteq completion
        /\ pc[t] = "idle" /\ pc'[t] = FirstLabel(k)
        /\ \A u \in Threads \ {t} : pc'[u] = pc[u]
    BY <1>3 DEF Call, Parts, At, Go, Types
  <2>2. FirstLabel(k) \in {"reserve", "load", "unload", "drain"}
    BY SlotAssumption DEF FirstLabel
  <2> QED
    BY <2>1, <2>2, Elsewise
<1>4. ASSUME NEW g \in Generations, WorkerDies(g) PROVE WorkerInv'
  <2> USE DEF WorkerInv
  <2>1. /\ UNCHANGED <<generation, state, child, completion, reading, pc, mine>>
        /\ worker[g] = "running"
        /\ worker'[g] = "exited" /\ \A h \in Generations \ {g} : worker'[h] = worker[h]
    BY <1>4 DEF WorkerDies, Types
  <2>2. Starters' /\ Child' /\ Readers'
    BY <2>1 DEF Starters, Child, Readers
  <2>3. StartingHasStarter' /\ WaitersHaveReader' /\ NoOrphanWorker'
    BY <2>1 DEF StartingHasStarter, WaitersHaveReader, NoOrphanWorker
  <2> QED
    BY <2>2, <2>3
<1>5. ASSUME NEW g \in Generations, ReaderEnds(g) PROVE WorkerInv'
  BY <1>5, ReaderWorkers
<1>6. ASSUME NEW g \in Generations, ReaderLeaves(g) PROVE WorkerInv'
  <2> USE DEF WorkerInv
  <2>1. /\ UNCHANGED <<generation, state, child, completion, worker, pc, mine>>
        /\ generation # g
        /\ \A h \in Generations \ {g} : reading'[h] = reading[h]
    BY <1>6 DEF ReaderLeaves, Types
  <2>2. Starters' /\ Child' /\ Readers'
    BY <2>1 DEF Starters, Child, Readers
  <2>3. StartingHasStarter' /\ WaitersHaveReader' /\ NoOrphanWorker'
    BY <2>1 DEF StartingHasStarter, WaitersHaveReader, NoOrphanWorker
  <2> QED
    BY <2>2, <2>3
<1>7. ASSUME NEW g \in Generations, NEW t \in Threads, Dispatch(g, t) PROVE WorkerInv'
  <2>1. /\ UNCHANGED Parts /\ mine' = mine /\ completion' \subseteq completion
        /\ pc' = pc
    BY <1>7 DEF Dispatch, Parts
  <2> QED
    BY <2>1, Elsewise
<1> QED
  BY <1>1, <1>2, <1>3, <1>4, <1>5, <1>6, <1>7 DEF Next

-----------------------------------------------------------------------------
LEMMA StepInv == SlotInv /\ [Next]_vars => SlotInv'
<1> SUFFICES ASSUME SlotInv, [Next]_vars PROVE SlotInv'
  OBVIOUS
<1>1. Types /\ HoldInv /\ WorkerInv
  BY DEF SlotInv, HoldInv, WorkerInv
<1>2. Types' /\ HoldInv' /\ WorkerInv'
  BY <1>1, StepTypes, StepHolds, StepWorkers
<1> QED
  BY <1>2 DEF SlotInv, HoldInv, WorkerInv

LEMMA SlotInvariant == Spec => []SlotInv
  BY InitInv, StepInv, PTL DEF Spec

(* Every variable has its type: in particular no more holds are counted     *)
(* than there are calls in flight (AdmissionHold of supervisor.rs).         *)
THEOREM SlotTypeCorrect == Spec => []TypeOK
<1>1. SlotInv => TypeOK
  <2> SUFFICES ASSUME SlotInv PROVE TypeOK
    OBVIOUS
  <2>1. Types
    BY DEF SlotInv
  <2>2. /\ IsFiniteSet(armed) /\ Cardinality(armed) \in Nat
        /\ Cardinality(Threads) \in Nat /\ Cardinality(armed) <= Cardinality(Threads)
    BY <2>1, SlotAssumption, FS_Subset, FS_CardinalityType DEF Types
  <2>3. reserved \in 0 .. Cardinality(Threads)
    BY <2>2 DEF SlotInv, OccupancyExact
  <2>4. unloading \in BOOLEAN /\ draining \in BOOLEAN /\ shutdown \in BOOLEAN
    BY <2>1 DEF Types
  <2> QED
    BY <2>1, <2>3, <2>4 DEF Types, TypeOK, Outcomes
<1> QED
  BY <1>1, SlotInvariant, PTL

(* The occupancy that drain, unload and health read counts every completion *)
(* once, from its reservation to its answer, on every error path.           *)
THEOREM OccupancyIsExact == Spec => []OccupancyExact
<1>1. SlotInv => OccupancyExact
  BY DEF SlotInv
<1> QED
  BY <1>1, SlotInvariant, PTL

(* A slot that says Starting has a thread that will end that state, however *)
(* stops, starts and crashes interleave (ensure_worker).                    *)
THEOREM SomeoneStarts == Spec => []StartingHasStarter
<1>1. SlotInv => StartingHasStarter
  BY DEF SlotInv
<1> QED
  BY <1>1, SlotInvariant, PTL

(* No worker process is left running without the slot or a thread that will *)
(* kill it (ensure_worker, stop_worker, mark_worker_lost).                  *)
THEOREM NoWorkerIsForgotten == Spec => []NoOrphanWorker
<1>1. SlotInv => NoOrphanWorker
  BY DEF SlotInv
<1> QED
  BY <1>1, SlotInvariant, PTL

(* A completion that waits for its result has a live reader of the current  *)
(* generation (submit, dispatch, mark_worker_lost).                         *)
THEOREM EveryWaiterIsRead == Spec => []WaitersHaveReader
<1>1. SlotInv => WaitersHaveReader
  BY DEF SlotInv
<1> QED
  BY <1>1, SlotInvariant, PTL

-----------------------------------------------------------------------------
(* Nobody is blocked. A thread that waits for a reader to exit waits for    *)
(* one whose worker is gone, and that reader has a step to take.            *)

LockLabels ==
  {"reserve", "drop", "ensure", "install", "spawnFailed", "insert", "abandon", "settle",
   "stop", "unload", "load", "leave", "loadFailed", "drain"}
JoinLabels == {"spawn", "spawnFailed", "install", "joinLive", "kill", "join"}

(* Only the model's bound keeps t from its step.                            *)
Bounded(t) ==
  /\ pc[t] = "stop" \/ (pc[t] = "ensure" /\ state = "down" /\ ~unloading)
  /\ generation = MaxGeneration

(* The guards of Run(t) and of ReaderEnds(g).                               *)
ThreadMay(t) ==
  /\ pc[t] # "idle"
  /\ pc[t] \in LockLabels => SlotFree
  /\ pc[t] \in {"spawn", "join"} => Joined(t)
  /\ pc[t] = "joinLive" => reading[mine[t]] = "exited"
  /\ ~Bounded(t)
ReaderMay(g) == reading[g] = "running" /\ worker[g] = "exited" /\ SlotFree

(* A worker and its reader thread are started together.                     *)
Paired == \A g \in Generations : worker[g] = "none" <=> reading[g] = "none"

(* The generation in the hands of a thread has a worker once it is spawned. *)
Hands ==
  \A t \in Threads :
    /\ pc[t] \in {"spawn", "spawnFailed"} => worker[mine[t]] = "none"
    /\ pc[t] \in {"install", "joinLive"} => worker[mine[t]] # "none"
    /\ pc[t] = "kill" /\ mine[t] # NoWorker => worker[mine[t]] # "none"

(* A reader the slot still holds while it is down has lost its worker.      *)
SlotReader ==
  /\ child # NoWorker => worker[child] # "none"
  /\ state = "ready" => reader = child
  /\ state = "starting" => reader = NoWorker
  /\ state = "down" /\ reader # NoWorker => worker[reader] = "exited"

(* So has the reader a thread is about to join.                             *)
Olds ==
  \A t \in Threads :
    /\ pc[t] \in {"spawn", "join"} /\ old[t] # NoWorker => worker[old[t]] = "exited"
    /\ pc[t] = "kill" /\ old[t] # NoWorker =>
         worker[old[t]] = "exited" \/ old[t] = mine[t]
    /\ pc[t] = "joinLive" => worker[mine[t]] = "exited" /\ mine[t] # generation

JoinInv == Paired /\ Hands /\ SlotReader /\ Olds

LEMMA HandsInRange ==
  ASSUME Types, WorkerInv
  PROVE  /\ generation \in Nat
         /\ \A t \in Threads :
              /\ pc[t] \in Starter => mine[t] \in Generations /\ mine[t] <= generation
              /\ mine[t] # NoWorker => mine[t] \in Generations
              /\ old[t] # NoWorker => old[t] \in Generations
         /\ child # NoWorker => child \in Generations
         /\ reader # NoWorker => reader \in Generations
<1>1. generation \in 0 .. MaxGeneration
  BY DEF Types
<1>2. \A t \in Threads : pc[t] \in Starter => mine[t] \in 1 .. generation
  BY DEF WorkerInv, Starters
<1> QED
  BY <1>1, <1>2, SlotAssumption DEF Types, Generations, NoWorker

(* A step that starts nothing: workers only go, and the threads it moves    *)
(* have done with their generations.                                        *)
LEMMA JoinStands ==
  ASSUME Types, WorkerInv, JoinInv, UNCHANGED <<mine, old, generation>>,
         \A g \in Generations :
           /\ worker'[g] = "none" <=> worker[g] = "none"
           /\ worker[g] = "exited" => worker'[g] = "exited"
           /\ reading'[g] = "none" <=> reading[g] = "none",
         \A u \in Threads : pc'[u] = pc[u] \/ pc'[u] \notin JoinLabels,
         SlotReader'
  PROVE  JoinInv'
<1> USE HandsInRange DEF JoinInv, JoinLabels, Starter
<1>1. Paired'
  BY DEF Paired
<1>2. Hands'
  BY DEF Hands
<1>3. Olds'
  BY DEF Olds
<1> QED
  BY <1>1, <1>2, <1>3

(* In particular one that leaves the workers and the slot alone.            *)
SlotParts == <<generation, state, child, reader, worker, reading>>

LEMMA JoinElsewhere ==
  ASSUME Types, WorkerInv, JoinInv, UNCHANGED SlotParts, UNCHANGED <<mine, old>>,
         \A u \in Threads : pc'[u] = pc[u] \/ pc'[u] \notin JoinLabels
  PROVE  JoinInv'
<1>1. UNCHANGED <<generation, state, child, reader, worker, reading>>
  BY DEF SlotParts
<1>2. SlotReader'
  BY <1>1 DEF JoinInv, SlotReader
<1> QED
  BY <1>1, <1>2, JoinStands

LEMMA JoinEnsureStarts ==
  ASSUME Types, WorkerInv, JoinInv, NEW t \in Threads, EnsureStarts(t)
  PROVE  JoinInv'
<1> USE HandsInRange DEF JoinInv, Starter
<1>1. /\ pc[t] = "ensure" /\ pc'[t] = "spawn"
      /\ mine'[t] = generation + 1 /\ old'[t] = reader
      /\ \A u \in Threads \ {t} : pc'[u] = pc[u] /\ mine'[u] = mine[u] /\ old'[u] = old[u]
      /\ state = "down" /\ state' = "starting" /\ generation' = generation + 1
      /\ reader' = NoWorker /\ UNCHANGED <<child, worker, reading>>
      /\ generation < MaxGeneration
  BY DEF EnsureStarts, Locks, At, Go, Types
<1>2. worker[generation + 1] = "none"
  BY <1>1, SlotAssumption DEF WorkerInv, Readers, Generations
<1>3. Paired'
  BY <1>1 DEF Paired
<1>4. Hands'
  BY <1>1, <1>2 DEF Hands
<1>5. SlotReader'
  BY <1>1 DEF SlotReader
<1>6. Olds'
  <2>1. reader # NoWorker => worker[reader] = "exited"
    BY <1>1 DEF SlotReader
  <2>2. \A u \in Threads : pc[u] = "joinLive" => mine[u] # generation + 1
    OBVIOUS
  <2> QED
    BY <1>1, <2>1, <2>2 DEF Olds
<1> QED
  BY <1>3, <1>4, <1>5, <1>6

LEMMA JoinSpawn ==
  ASSUME Types, WorkerInv, JoinInv, NEW t \in Threads, Spawn(t)
  PROVE  JoinInv'
<1> USE HandsInRange DEF JoinInv, Starter
<1>1. PICK g : g = mine[t]
  OBVIOUS
<1>2. /\ pc[t] = "spawn" /\ pc'[t] = "install"
      /\ \A u \in Threads \ {t} : pc'[u] = pc[u]
      /\ UNCHANGED <<generation, state, child, reader, mine, old>>
      /\ g \in Generations /\ worker[g] = "none"
  BY <1>1 DEF Spawn, At, Go, Types, slot, locals, Hands
<1>3. /\ worker'[g] = "running" /\ reading'[g] = "running"
      /\ \A h \in Generations \ {g} : worker'[h] = worker[h] /\ reading'[h] = reading[h]
  BY <1>1, <1>2 DEF Spawn, Types
<1>4. Paired'
  BY <1>2, <1>3 DEF Paired
<1>5. Hands'
  <2>1. \A u \in Threads \ {t} : pc[u] \in {"spawn", "spawnFailed"} => mine[u] # g
    BY <1>1, <1>2 DEF WorkerInv, Starters
  <2> QED
    BY <1>1, <1>2, <1>3, <2>1 DEF Hands
<1>6. SlotReader'
  BY <1>2, <1>3 DEF SlotReader
<1>7. Olds'
  BY <1>1, <1>2, <1>3 DEF Olds
<1> QED
  BY <1>4, <1>5, <1>6, <1>7

LEMMA JoinSpawnFails ==
  ASSUME Types, WorkerInv, JoinInv, NEW t \in Threads, SpawnFails(t)
  PROVE  JoinInv'
<1> USE DEF JoinInv
<1>1. /\ pc[t] = "spawn" /\ pc'[t] = "spawnFailed"
      /\ \A u \in Threads \ {t} : pc'[u] = pc[u]
      /\ UNCHANGED <<generation, state, child, reader, mine, old, worker, reading>>
  BY DEF SpawnFails, At, Go, Types, slot, locals
<1>2. Paired' /\ SlotReader'
  BY <1>1 DEF Paired, SlotReader
<1>3. Hands' /\ Olds'
  BY <1>1 DEF Hands, Olds
<1> QED
  BY <1>2, <1>3

LEMMA JoinInstall ==
  ASSUME Types, WorkerInv, JoinInv, NEW t \in Threads, Install(t)
  PROVE  JoinInv'
<1>1. /\ pc[t] = "install" /\ pc'[t] \notin JoinLabels
      /\ \A u \in Threads \ {t} : pc'[u] = pc[u]
      /\ child' = mine[t] /\ reader' = mine[t] /\ state' = "ready"
      /\ UNCHANGED <<generation, mine, old, worker, reading>>
  BY DEF Install, Locks, At, Ensured, Go, Types, locals, JoinLabels
<1>2. SlotReader'
  BY <1>1 DEF JoinInv, Hands, SlotReader
<1> QED
  BY <1>1, <1>2, JoinStands

LEMMA JoinDropLive ==
  ASSUME Types, WorkerInv, JoinInv, NEW t \in Threads, DropLive(t)
  PROVE  JoinInv'
<1> USE HandsInRange DEF JoinInv, Starter
<1>1. PICK g : g = mine[t]
  OBVIOUS
<1>2. /\ pc[t] = "install" /\ pc'[t] = "joinLive" /\ generation # g
      /\ \A u \in Threads \ {t} : pc'[u] = pc[u]
      /\ UNCHANGED <<generation, state, child, reader, reading, mine, old>>
      /\ g \in Generations /\ worker[g] # "none"
  BY <1>1 DEF DropLive, Overtaken, Locks, At, Go, Types, slot, locals, Hands
<1>3. worker'[g] = "exited" /\ \A h \in Generations \ {g} : worker'[h] = worker[h]
  BY <1>1, <1>2 DEF DropLive, Types
<1>4. Paired' /\ SlotReader'
  BY <1>2, <1>3 DEF Paired, SlotReader
<1>5. Hands'
  BY <1>1, <1>2, <1>3 DEF Hands
<1>6. Olds'
  BY <1>1, <1>2, <1>3 DEF Olds
<1> QED
  BY <1>4, <1>5, <1>6

LEMMA JoinSpawnFailed ==
  ASSUME Types, WorkerInv, JoinInv, NEW t \in Threads, SpawnFailed(t)
  PROVE  JoinInv'
<1>1. /\ pc[t] = "spawnFailed" /\ pc'[t] \notin JoinLabels
      /\ \A u \in Threads \ {t} : pc'[u] = pc[u]
      /\ state' = IF generation # mine[t] THEN state ELSE "down"
      /\ UNCHANGED <<generation, child, reader, mine, old, worker, reading>>
  BY DEF SpawnFailed, StateAfterFailure, Overtaken, EnsureFails, Locks, At, Go, Types,
         JoinLabels
<1>2. state = "ready" => mine[t] # generation
  BY <1>1 DEF WorkerInv, Starters, Starter
<1>3. SlotReader'
  BY <1>1, <1>2 DEF JoinInv, SlotReader, Types
<1> QED
  BY <1>1, <1>3, JoinStands

LEMMA JoinStopWorker ==
  ASSUME Types, WorkerInv, JoinInv, NEW t \in Threads, StopWorker(t)
  PROVE  JoinInv'
<1> USE HandsInRange DEF JoinInv, Starter
<1>1. /\ pc[t] = "stop" /\ pc'[t] = "kill" /\ mine'[t] = child /\ old'[t] = reader
      /\ \A u \in Threads \ {t} : pc'[u] = pc[u] /\ mine'[u] = mine[u] /\ old'[u] = old[u]
      /\ generation' = generation + 1 /\ state' = "down"
      /\ child' = NoWorker /\ reader' = NoWorker /\ UNCHANGED <<worker, reading>>
  BY DEF StopWorker, Locks, At, Go, Types
<1>2. Paired' /\ SlotReader'
  BY <1>1 DEF Paired, SlotReader
<1>3. Hands'
  BY <1>1 DEF Hands, SlotReader
<1>4. Olds'
  <2>1. reader # NoWorker => worker[reader] = "exited" \/ reader = child
    BY DEF SlotReader, Types
  <2>2. \A u \in Threads : pc[u] = "joinLive" => mine[u] # generation + 1
    OBVIOUS
  <2> QED
    BY <1>1, <2>1, <2>2 DEF Olds
<1> QED
  BY <1>2, <1>3, <1>4

LEMMA JoinKill ==
  ASSUME Types, WorkerInv, JoinInv, NEW t \in Threads, Kill(t)
  PROVE  JoinInv'
<1> USE HandsInRange DEF JoinInv, Starter
<1>1. PICK g : g = mine[t]
  OBVIOUS
<1>2. /\ pc[t] = "kill" /\ pc'[t] = "join"
      /\ \A u \in Threads \ {t} : pc'[u] = pc[u]
      /\ UNCHANGED <<generation, state, child, reader, reading, mine, old>>
      /\ g # NoWorker => g \in Generations /\ worker[g] # "none"
  BY <1>1 DEF Kill, At, Go, Types, slot, locals, Hands
<1>3. /\ g # NoWorker => worker'[g] = "exited"
      /\ \A h \in Generations : h # g => worker'[h] = worker[h]
  <2>1. worker' = IF g = NoWorker THEN worker ELSE [worker EXCEPT ![g] = "exited"]
    BY <1>1 DEF Kill
  <2> QED
    BY <1>2, <2>1 DEF Types
<1>4. \A h \in Generations : /\ worker'[h] = "none" <=> worker[h] = "none"
                             /\ worker[h] = "exited" => worker'[h] = "exited"
  <2>1. NoWorker \notin Generations
    BY DEF Generations, NoWorker
  <2> QED
    BY <1>2, <1>3, <2>1
<1>5. Paired' /\ SlotReader'
  BY <1>2, <1>4 DEF Paired, SlotReader
<1>6. Hands'
  BY <1>2, <1>4 DEF Hands
<1>7. Olds'
  BY <1>1, <1>2, <1>3, <1>4 DEF Olds
<1> QED
  BY <1>5, <1>6, <1>7

LEMMA JoinReaderEnds ==
  ASSUME Types, WorkerInv, JoinInv, NEW g \in Generations, ReaderEnds(g)
  PROVE  JoinInv'
<1> USE HandsInRange
<1>1. /\ reading[g] = "running" /\ worker[g] = "exited"
      /\ reading'[g] = "exited" /\ \A h \in Generations \ {g} : reading'[h] = reading[h]
      /\ UNCHANGED <<generation, reader, pc, mine, old>>
  BY DEF ReaderEnds, Types
<1>2. CASE generation = g
  <2>1. state' = "down" /\ child' = NoWorker /\ worker' = worker
    BY <1>1, <1>2 DEF ReaderEnds, CurrentReader, WorkerInv, Child, Types
  <2>2. state = "ready" => child = g
    BY <1>2 DEF WorkerInv, Child
  <2>3. SlotReader'
    BY <1>1, <2>1, <2>2 DEF JoinInv, SlotReader, Types
  <2> QED
    BY <1>1, <2>1, <2>3, JoinStands
<1>3. CASE generation # g
  <2>1. UNCHANGED <<worker, child, state>>
    BY <1>3 DEF ReaderEnds, CurrentReader
  <2>2. SlotReader'
    BY <1>1, <2>1 DEF JoinInv, SlotReader
  <2> QED
    BY <1>1, <2>1, <2>2, JoinStands
<1> QED
  BY <1>2, <1>3

LEMMA JoinThread ==
  ASSUME Types, WorkerInv, JoinInv, NEW t \in Threads, Run(t)
  PROVE  JoinInv'
<1> USE DEF slot, host, locals, Locks, At, Go, SlotParts, JoinLabels
<1> DEFINE Untouched ==
      /\ UNCHANGED SlotParts /\ UNCHANGED <<mine, old>>
      /\ \A u \in Threads : pc'[u] = pc[u] \/ pc'[u] \notin JoinLabels
<1>1. pc \in [Threads -> Labels]
  BY DEF Types
<1>2. CASE Return(t) \/ Reserve(t) \/ Plan(t) \/ DropHold(t)
  <2>1. Untouched
    BY <1>1, <1>2 DEF Return, Reserve, Plan, DropHold
  <2> QED
    BY <2>1, JoinElsewhere
<1>3. CASE EnsureReady(t) \/ EnsureUnloaded(t) \/ EnsureWaits(t) \/ JoinLive(t)
  <2>1. Untouched
    BY <1>1, <1>3 DEF EnsureReady, EnsureUnloaded, EnsureWaits, JoinLive, Ensured, EnsureFails
  <2> QED
    BY <2>1, JoinElsewhere
<1>4. CASE InsertNotReady(t) \/ Answered(t) \/ TimesOut(t) \/ Abandon(t)
  <2>1. Untouched
    BY <1>1, <1>4 DEF InsertNotReady, Answered, TimesOut, Abandon
  <2> QED
    BY <2>1, JoinElsewhere
<1>5. CASE Insert(t)
  <2>1. Untouched
    BY <1>1, <1>5 DEF Insert
  <2> QED
    BY <2>1, JoinElsewhere
<1>6. CASE Settle(t) \/ BeginUnload(t) \/ BeginLoad(t) \/ LoadFailed(t)
  <2>1. Untouched
    BY <1>1, <1>6 DEF Settle, BeginUnload, BeginLoad, LoadFailed
  <2> QED
    BY <2>1, JoinElsewhere
<1>7. CASE LeaveUnload(t)
  <2>1. Untouched
    BY <1>1, <1>7 DEF LeaveUnload
  <2> QED
    BY <2>1, JoinElsewhere
<1>8. CASE BeginDrain(t) \/ Shutdown(t) \/ LeaveHandlers(t)
  <2>1. Untouched
    BY <1>1, <1>8 DEF BeginDrain, Shutdown, LeaveHandlers
  <2> QED
    BY <2>1, JoinElsewhere
<1>9. CASE Join(t)
  <2>1. Untouched
    BY <1>1, <1>9 DEF Join
  <2> QED
    BY <2>1, JoinElsewhere
<1>10. CASE Ensure(t)
  BY <1>3, <1>10, JoinEnsureStarts, JoinSpawn, JoinSpawnFails, JoinInstall, JoinDropLive,
     JoinSpawnFailed DEF Ensure
<1>11. CASE Submit(t)
  BY <1>4, <1>5, <1>11 DEF Submit
<1> QED
  BY <1>2, <1>6, <1>7, <1>8, <1>9, <1>10, <1>11, JoinStopWorker, JoinKill DEF Run

LEMMA JoinStep == SlotInv /\ JoinInv /\ [Next]_vars => JoinInv'
<1> SUFFICES ASSUME SlotInv, JoinInv, [Next]_vars PROVE JoinInv'
  OBVIOUS
<1>0. Types /\ WorkerInv
  BY DEF SlotInv, WorkerInv
<1> USE DEF slot, host, locals, SlotParts
<1>1. CASE UNCHANGED vars
  BY <1>0, <1>1, JoinElsewhere DEF vars
<1>2. ASSUME NEW t \in Threads, Run(t) PROVE JoinInv'
  BY <1>0, <1>2, JoinThread
<1>3. ASSUME NEW t \in Threads, NEW k \in Operations, Call(t, k) PROVE JoinInv'
  <2>1. /\ UNCHANGED SlotParts /\ UNCHANGED <<mine, old>>
        /\ pc'[t] = FirstLabel(k)
        /\ \A u \in Threads \ {t} : pc'[u] = pc[u]
    BY <1>0, <1>3 DEF Call, At, Go, Types
  <2>2. FirstLabel(k) \in {"reserve", "load", "unload", "drain"}
    BY SlotAssumption DEF FirstLabel
  <2> QED
    BY <1>0, <2>1, <2>2, JoinElsewhere DEF JoinLabels
<1>4. ASSUME NEW g \in Generations, WorkerDies(g) PROVE JoinInv'
  <2>1. /\ UNCHANGED <<generation, state, child, reader, reading, pc, mine, old>>
        /\ worker[g] = "running"
        /\ worker'[g] = "exited" /\ \A h \in Generations \ {g} : worker'[h] = worker[h]
    BY <1>0, <1>4 DEF WorkerDies, Types
  <2>2. SlotReader'
    BY <1>0, <2>1, HandsInRange DEF JoinInv, SlotReader
  <2> QED
    BY <1>0, <2>1, <2>2, JoinStands
<1>5. ASSUME NEW g \in Generations, ReaderEnds(g) PROVE JoinInv'
  BY <1>0, <1>5, JoinReaderEnds
<1>6. ASSUME NEW g \in Generations, ReaderLeaves(g) PROVE JoinInv'
  <2>1. /\ UNCHANGED <<generation, state, child, reader, worker, pc, mine, old>>
        /\ reading[g] = "running" /\ reading'[g] = "exited"
        /\ \A h \in Generations \ {g} : reading'[h] = reading[h]
    BY <1>0, <1>6 DEF ReaderLeaves, Types
  <2>2. SlotReader'
    BY <2>1 DEF JoinInv, SlotReader
  <2> QED
    BY <1>0, <2>1, <2>2, JoinStands
<1>7. ASSUME NEW g \in Generations, NEW t \in Threads, Dispatch(g, t) PROVE JoinInv'
  BY <1>0, <1>7, JoinElsewhere DEF Dispatch
<1> QED
  BY <1>1, <1>2, <1>3, <1>4, <1>5, <1>6, <1>7 DEF Next

LEMMA JoinInvariant == Spec => []JoinInv
<1>1. Init => JoinInv
  BY DEF Init, JoinInv, Paired, Hands, SlotReader, Olds
<1> QED
  BY <1>1, JoinStep, SlotInvariant, PTL DEF Spec

(* Every call can go on: a thread inside the supervisor has a step to take, *)
(* or waits to join a reader that has one (ensure_worker, stop_worker), or  *)
(* the slot is locked by a thread that joins the reader of a worker it has  *)
(* just killed because a stop or a loss overtook its start (drop_live).     *)
(* The last is all that the run of HealthStillAnswers can find.             *)
HeldByDropLive ==
  \E u \in Threads :
    /\ pc[u] = "joinLive" /\ mine[u] < generation
    /\ worker[mine[u]] = "exited" /\ reading[mine[u]] # "none"

NobodyBlocked ==
  \A t \in Threads :
    \/ pc[t] = "idle" \/ ThreadMay(t) \/ Bounded(t)
    \/ pc[t] \in {"spawn", "join"} /\ ReaderMay(old[t])
    \/ HeldByDropLive

THEOREM NoCallIsBlocked == Spec => []NobodyBlocked
<1>1. SlotInv /\ JoinInv => NobodyBlocked
  <2> SUFFICES ASSUME SlotInv, JoinInv, ~HeldByDropLive,
                      NEW t \in Threads, pc[t] # "idle", ~ThreadMay(t), ~Bounded(t)
      PROVE  pc[t] \in {"spawn", "join"} /\ ReaderMay(old[t])
    BY DEF NobodyBlocked
  <2>1. Types /\ WorkerInv
    BY DEF SlotInv, WorkerInv
  <2>2. ASSUME NEW u \in Threads, pc[u] = "joinLive" PROVE FALSE
    <3>1. mine[u] \in Generations /\ mine[u] <= generation /\ generation \in Nat
      BY <2>1, <2>2, HandsInRange DEF Starter
    <3>2. worker[mine[u]] = "exited" /\ mine[u] # generation
      BY <2>2 DEF JoinInv, Olds
    <3>3. reading[mine[u]] # "none"
      BY <3>1, <3>2 DEF JoinInv, Paired
    <3> QED
      BY <2>2, <3>1, <3>2, <3>3 DEF HeldByDropLive, Generations
  <2>3. SlotFree
    BY <2>2 DEF SlotFree
  <2>4. pc[t] \in {"spawn", "join"} /\ ~Joined(t)
    BY <2>2, <2>3 DEF ThreadMay
  <2>5. old[t] \in Generations /\ reading[old[t]] # "exited"
    BY <2>1, <2>4, HandsInRange DEF Joined
  <2>6. worker[old[t]] = "exited"
    BY <2>4, <2>5 DEF JoinInv, Olds, Joined
  <2>7. reading[old[t]] = "running"
    BY <2>1, <2>5, <2>6 DEF JoinInv, Paired, Types
  <2> QED
    BY <2>3, <2>4, <2>6, <2>7 DEF ReaderMay
<1> QED
  BY <1>1, JoinInvariant, SlotInvariant, PTL

-----------------------------------------------------------------------------
(* What loses a completion. The run of UnloadCancelsNothing finds one lost  *)
(* to an unload that nobody's crash or shutdown explains. Without unload    *)
(* there is no such loss: starts, loads, drains and failed starts, in any   *)
(* order, lose nothing and never lock the slot for good.                    *)

Undisturbed == crashes = 0 /\ ~shutdown
StopLabels == {"stop", "kill", "join", "joinLive", "handlers"}

(* Nobody unloads.                                                          *)
NobodyUnloads == \A t \in Threads : pc[t] # "unload"
Open == ~unloading /\ leaving = {} /\ NobodyUnloads

(* Workers live, nobody stops one, and only the starter of the current      *)
(* generation starts one.                                                   *)
Calm ==
  /\ \A g \in Generations : worker[g] # "exited"
  /\ \A t \in Threads :
       /\ pc[t] \notin StopLabels /\ outcome[t] # "lost"
       /\ pc[t] = "insert" => state = "ready"
       /\ pc[t] \in Starter => mine[t] = generation /\ state = "starting"

Peace == Open /\ (Undisturbed => Calm)

(* A step that moves one thread to a label of no account.                   *)
LEMMA PeaceElsewhere ==
  ASSUME Types, Peace, NEW t \in Threads, NEW to,
         UNCHANGED <<generation, state, unloading, leaving, worker, mine>>,
         crashes' = crashes, ~shutdown' => ~shutdown,
         Go(t, to), to \notin StopLabels \cup Starter \cup {"unload", "insert"},
         outcome' = outcome \/ (\E a \in Outcomes \ {"lost"} : Answer(t, a))
  PROVE  Peace'
<1>1. /\ pc'[t] = to /\ \A u \in Threads \ {t} : pc'[u] = pc[u]
      /\ \A u \in Threads : outcome'[u] = "lost" => outcome[u] = "lost"
  BY DEF Go, Answer, Types
<1>2. Open'
  BY <1>1 DEF Peace, Open, NobodyUnloads
<1>3. Undisturbed' => Undisturbed
  BY DEF Undisturbed
<1>4. Calm => Calm'
  BY <1>1 DEF Calm
<1> QED
  BY <1>2, <1>3, <1>4 DEF Peace

LEMMA PeaceEnsure ==
  ASSUME Types, WorkerInv, JoinInv, Peace, NEW t \in Threads, Ensure(t)
  PROVE  Peace'
<1> USE DEF slot, host, locals, Locks, At
<1>1. /\ UNCHANGED <<unloading, leaving, shutdown, crashes>>
      /\ pc[t] \in {"ensure"} \cup Starter
      /\ \A u \in Threads \ {t} : pc'[u] = pc[u] /\ outcome'[u] = outcome[u]
      /\ pc'[t] # "unload" /\ (outcome'[t] = "lost" => outcome[t] = "lost")
  BY DEF Ensure, EnsureReady, EnsureUnloaded, EnsureWaits, EnsureStarts, Spawn,
         SpawnFails, Install, DropLive, JoinLive, SpawnFailed, EnsureFails, Ensured, Answer,
         Go, Types, Starter
<1>2. Open'
  BY <1>1 DEF Peace, Open, NobodyUnloads
<1>3. ASSUME Undisturbed' PROVE Calm'
  <2>1. Calm
    BY <1>1, <1>3 DEF Peace, Undisturbed
  <2>2. CASE EnsureReady(t) \/ EnsureUnloaded(t) \/ EnsureWaits(t)
    <3>1. /\ UNCHANGED <<generation, state, worker, mine>>
          /\ pc'[t] \notin StopLabels \cup Starter
          /\ pc'[t] = "insert" => state = "ready"
      BY <2>2 DEF EnsureReady, EnsureUnloaded, EnsureWaits, Ensured, EnsureFails, Go, Types,
                  StopLabels, Starter
    <3> QED
      BY <1>1, <2>1, <3>1 DEF Calm
  <2>3. CASE EnsureStarts(t)
    <3>1. /\ state = "down" /\ state' = "starting" /\ generation' = generation + 1
          /\ mine'[t] = generation + 1 /\ pc'[t] = "spawn" /\ worker' = worker
      BY <2>3 DEF EnsureStarts, Go, Types
    <3>2. \A u \in Threads : pc[u] \notin Starter \cup {"insert"}
      BY <2>1, <3>1 DEF Calm
    <3> QED
      BY <1>1, <2>1, <3>1, <3>2 DEF Calm, StopLabels
  <2>4. CASE Spawn(t)
    <3>1. /\ UNCHANGED <<generation, state, mine>> /\ pc[t] = "spawn" /\ pc'[t] = "install"
          /\ worker' = [worker EXCEPT ![mine[t]] = "running"]
      BY <2>4 DEF Spawn, Go, Types
    <3>2. \A g \in Generations : worker'[g] # "exited"
      BY <2>1, <3>1 DEF Calm, Types
    <3> QED
      BY <1>1, <2>1, <3>1, <3>2 DEF Calm, StopLabels, Starter
  <2>5. CASE SpawnFails(t)
    <3>1. /\ UNCHANGED <<generation, state, mine, worker>> /\ pc[t] = "spawn"
          /\ pc'[t] = "spawnFailed"
      BY <2>5 DEF SpawnFails, Go, Types
    <3> QED
      BY <1>1, <2>1, <3>1 DEF Calm, StopLabels, Starter
  <2>6. CASE Install(t) \/ SpawnFailed(t)
    <3>1. /\ UNCHANGED <<generation, mine, worker>> /\ pc[t] \in {"install", "spawnFailed"}
          /\ pc'[t] \in {"return", "insert", "drop", "loadFailed"}
          /\ pc'[t] = "insert" => state' = "ready"
      BY <2>6 DEF Install, SpawnFailed, EnsureFails, Ensured, Go, Types
    <3>2. mine[t] = generation /\ state = "starting"
      BY <2>1, <3>1 DEF Calm, Starter
    <3>3. \A u \in Threads \ {t} : pc[u] \notin Starter \cup {"insert"}
      BY <2>1, <3>1, <3>2 DEF Calm, WorkerInv, Starters, Starter
    <3> QED
      BY <1>1, <2>1, <3>1, <3>3 DEF Calm, StopLabels, Starter
  <2>7. CASE DropLive(t) \/ JoinLive(t)
    <3>1. pc[t] = "joinLive" \/ (pc[t] = "install" /\ mine[t] # generation)
      BY <2>7 DEF DropLive, JoinLive, Overtaken
    <3> QED
      BY <2>1, <3>1 DEF Calm, Starter, StopLabels
  <2> QED
    BY <2>2, <2>3, <2>4, <2>5, <2>6, <2>7 DEF Ensure
<1> QED
  BY <1>2, <1>3 DEF Peace

LEMMA PeaceInsert ==
  ASSUME Types, WorkerInv, JoinInv, Peace, NEW t \in Threads, Insert(t) \/ InsertNotReady(t)
  PROVE  Peace'
<1>1. /\ pc[t] = "insert" /\ pc'[t] \in {"await", "drop"}
      /\ \A u \in Threads \ {t} : pc'[u] = pc[u] /\ outcome'[u] = outcome[u]
      /\ UNCHANGED <<generation, state, unloading, leaving, worker, mine, crashes, shutdown>>
  <2> USE DEF Locks, At, Go, Answer, Types, host
  <2>1. CASE Insert(t)
    <3>1. \/ Go(t, "await") /\ UNCHANGED outcome
          \/ Answer(t, "lost") /\ Go(t, "drop")
      BY <2>1 DEF Insert
    <3> QED
      BY <2>1, <3>1 DEF Insert
  <2>2. CASE InsertNotReady(t)
    BY <2>2 DEF InsertNotReady, slot
  <2> QED
    BY <2>1, <2>2
<1>2. Open'
  BY <1>1 DEF Peace, Open, NobodyUnloads
<1>3. ASSUME Undisturbed' PROVE Calm'
  <2>1. Calm
    BY <1>1, <1>3 DEF Peace, Undisturbed
  <2>2. state = "ready" /\ outcome[t] # "lost"
    BY <1>1, <2>1 DEF Calm
  <2>3. child \in Generations /\ child # NoWorker
    BY <2>2, HandsInRange DEF WorkerInv, Child
  <2>4. worker[child] = "running"
    BY <2>1, <2>3 DEF Calm, JoinInv, SlotReader, Types
  <2>5. outcome'[t] # "lost"
    BY <2>2, <2>3, <2>4 DEF Insert, InsertNotReady
  <2> QED
    BY <1>1, <2>1, <2>5 DEF Calm, StopLabels, Starter
<1> QED
  BY <1>2, <1>3 DEF Peace

LEMMA PeaceThread ==
  ASSUME Types, WorkerInv, JoinInv, Peace, NEW t \in Threads, Run(t)
  PROVE  Peace'
<1> USE DEF slot, host, locals, Locks, At, StopLabels, Starter, Outcomes
<1>1. CASE Return(t) \/ Reserve(t) \/ Plan(t) \/ DropHold(t)
  <2>1. PICK to \in {"idle", "settle", "plan", "ensure", "drop"} : Go(t, to)
    BY <1>1 DEF Return, Reserve, Plan, DropHold
  <2>2. /\ UNCHANGED <<generation, state, unloading, leaving, worker, mine, crashes, shutdown>>
        /\ outcome' = outcome \/ (\E a \in Outcomes \ {"lost"} : Answer(t, a))
    BY <1>1 DEF Return, Reserve, Plan, DropHold
  <2> QED
    BY <2>1, <2>2, PeaceElsewhere
<1>2. CASE Answered(t) \/ TimesOut(t) \/ Abandon(t)
  <2>1. PICK to \in {"drop", "abandon"} : Go(t, to)
    BY <1>2 DEF Answered, TimesOut, Abandon
  <2>2. /\ UNCHANGED <<generation, state, unloading, leaving, worker, mine, crashes, shutdown>>
        /\ outcome' = outcome \/ (\E a \in Outcomes \ {"lost"} : Answer(t, a))
    BY <1>2 DEF Answered, TimesOut, Abandon
  <2> QED
    BY <2>1, <2>2, PeaceElsewhere
<1>3. CASE Settle(t) \/ BeginLoad(t) \/ LoadFailed(t) \/ BeginDrain(t)
  <2>1. ~unloading
    BY DEF Peace, Open, NobodyUnloads
  <2>2. PICK to \in {"leave", "return", "settle", "drainWait"} : Go(t, to)
    BY <1>3, <2>1 DEF Settle, BeginLoad, LoadFailed, BeginDrain
  <2>3. CASE Settle(t) \/ BeginLoad(t) \/ BeginDrain(t)
    <3>1. UNCHANGED <<generation, state, unloading, leaving, worker, mine, crashes, shutdown, outcome>>
      BY <2>3 DEF Settle, BeginLoad, BeginDrain
    <3> QED
      BY <2>2, <3>1, PeaceElsewhere
  <2>4. CASE LoadFailed(t)
    <3>1. UNCHANGED <<generation, state, leaving, worker, mine, crashes, shutdown, outcome>>
      BY <2>4 DEF LoadFailed
    <3>2. unloading' = unloading
      BY <2>1, <2>4 DEF LoadFailed, Peace, Open, Types
    <3> QED
      BY <2>2, <3>1, <3>2, PeaceElsewhere
  <2> QED
    BY <1>3, <2>3, <2>4
<1>4. CASE BeginUnload(t)
  BY <1>4 DEF BeginUnload, Peace, Open, NobodyUnloads
<1>5. CASE LeaveUnload(t)
  <2>1. ~unloading
    BY DEF Peace, Open, NobodyUnloads
  <2>2. PICK to \in {"return", "ensure"} : Go(t, to)
    BY <1>5 DEF LeaveUnload
  <2>3. /\ UNCHANGED <<generation, state, worker, mine, crashes, shutdown, outcome>>
        /\ UNCHANGED <<unloading, leaving>>
    BY <1>5, <2>1 DEF LeaveUnload, Types
  <2> QED
    BY <2>2, <2>3, PeaceElsewhere
<1>6. CASE Shutdown(t)
  <2>1. shutdown' /\ UNCHANGED <<unloading, leaving>>
        /\ \A u \in Threads : pc'[u] = pc[u] \/ pc'[u] \in {"return", "stop"}
    BY <1>6 DEF Shutdown, Go, Types
  <2> QED
    BY <2>1 DEF Peace, Open, NobodyUnloads, Undisturbed
<1>7. CASE StopWorker(t) \/ Kill(t) \/ Join(t) \/ LeaveHandlers(t)
  <2>1. /\ pc[t] \in StopLabels /\ UNCHANGED <<unloading, leaving, crashes, shutdown>>
        /\ \A u \in Threads : pc'[u] = pc[u] \/ pc'[u] \in {"kill", "join", "leave", "handlers", "return"}
    BY <1>7 DEF StopWorker, Kill, Join, LeaveHandlers, Go, Types
  <2>2. ~Undisturbed
    BY <2>1 DEF Peace, Calm
  <2> QED
    BY <2>1, <2>2 DEF Peace, Open, NobodyUnloads, Undisturbed
<1> QED
  BY <1>1, <1>2, <1>3, <1>4, <1>5, <1>6, <1>7, PeaceEnsure, PeaceInsert DEF Run, Submit

LEMMA PeaceStep ==
  SlotInv /\ JoinInv /\ Peace /\ NobodyUnloads' /\ [Next]_vars => Peace'
<1> SUFFICES ASSUME SlotInv, JoinInv, Peace, NobodyUnloads', [Next]_vars
             PROVE  Peace'
  OBVIOUS
<1>1. Types /\ WorkerInv
  BY DEF SlotInv, WorkerInv
<1>2. ASSUME NEW t \in Threads, Run(t) PROVE Peace'
  BY <1>1, <1>2, PeaceThread
<1>3. ASSUME NEW t \in Threads, NEW k \in Operations, Call(t, k) PROVE Peace'
  <2>1. PICK to : to = FirstLabel(k)
    OBVIOUS
  <2>2. /\ UNCHANGED <<generation, state, unloading, worker, mine, crashes, shutdown>>
        /\ \A u \in Threads \ {t} : pc'[u] = pc[u] /\ outcome'[u] = outcome[u]
        /\ pc'[t] = to /\ outcome'[t] = "none" /\ leaving' \subseteq leaving
    BY <1>1, <1>3, <2>1 DEF Call, Go, Answer, Types, slot
  <2>3. to \in {"reserve", "load", "drain", "unload"}
    BY <2>1 DEF FirstLabel
  <2>4. Open'
    BY <2>2 DEF Peace, Open
  <2>5. Calm => Calm'
    BY <2>2, <2>3 DEF Calm, StopLabels, Starter
  <2> QED
    BY <2>2, <2>4, <2>5 DEF Peace, Undisturbed
<1>4. ASSUME NEW g \in Generations, WorkerDies(g) PROVE Peace'
  <2>1. crashes' # 0 /\ UNCHANGED <<unloading, leaving>>
    BY <1>1, <1>4 DEF WorkerDies, slot, locals, Types
  <2> QED
    BY <2>1 DEF Peace, Open, Undisturbed
<1>5. ASSUME NEW g \in Generations, ReaderEnds(g) PROVE Peace'
  <2>1. worker[g] = "exited" /\ UNCHANGED <<unloading, leaving, crashes, shutdown>>
    BY <1>5 DEF ReaderEnds
  <2>2. ~Undisturbed
    BY <2>1 DEF Peace, Calm
  <2> QED
    BY <2>1, <2>2 DEF Peace, Open, Undisturbed
<1>6. ASSUME NEW g \in Generations, ReaderLeaves(g) PROVE Peace'
  BY <1>6 DEF ReaderLeaves, slot, host, locals, Peace, Open, Undisturbed, Calm
<1>7. ASSUME NEW g \in Generations, NEW t \in Threads, Dispatch(g, t) PROVE Peace'
  <2>1. /\ UNCHANGED <<generation, state, unloading, leaving, worker, mine, crashes,
                       shutdown, pc>>
        /\ \A u \in Threads : outcome'[u] = "lost" => outcome[u] = "lost"
    BY <1>1, <1>7 DEF Dispatch, Answer, Types, host
  <2> QED
    BY <2>1 DEF Peace, Open, Undisturbed, Calm
<1>8. CASE UNCHANGED vars
  BY <1>8 DEF vars, slot, host, locals, Peace, Open, NobodyUnloads, Undisturbed, Calm
<1> QED
  BY <1>2, <1>3, <1>4, <1>5, <1>6, <1>7, <1>8 DEF Next

LEMMA PeaceInit == Init /\ NobodyUnloads => Peace
  BY DEF Init, Peace, Open, Undisturbed, Calm, StopLabels, Starter

(* KIP-INFER-0013 on unload, "It does not cancel admitted work", and the    *)
(* extent of what the code does otherwise: as long as nobody unloads, no    *)
(* completion is lost and the slot is never held for a join, unless a       *)
(* worker died or the supervisor shut down. A load, a drain or a start that *)
(* fails never costs another thread's request.                              *)
THEOREM OnlyUnloadLoses ==
  Spec /\ []NobodyUnloads => [](UnloadCancelsNothing /\ (Undisturbed => SlotFree))
<1>1. Peace => UnloadCancelsNothing /\ (Undisturbed => SlotFree)
  BY DEF Peace, Undisturbed, Calm, UnloadCancelsNothing, SlotFree, StopLabels
<1> QED
  BY <1>1, PeaceInit, PeaceStep, JoinInvariant, SlotInvariant, PTL DEF Spec
=============================================================================
