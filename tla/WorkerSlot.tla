----------------------------- MODULE WorkerSlot -----------------------------
(***************************************************************************)
(* The worker process of one supervisor and the threads that share it      *)
(* (crates/infer-serve/src/supervisor.rs). HTTP handler threads complete,  *)
(* load, unload, drain; the main thread shuts down; every worker           *)
(* generation has a reader thread of its own. They meet in the WorkerSlot, *)
(* behind one mutex: each action below is one locked section or one        *)
(* blocking call made between two of them. One blocking call is made with  *)
(* the mutex held: drop_live joins a reader thread, and while it does no   *)
(* other action that locks the slot can happen.                            *)
(*                                                                         *)
(* A worker is named by its generation. child stands for the fields child, *)
(* writer and dir of the slot, which are set and taken together. The       *)
(* request of a completion is named by its thread. A worker may die at any *)
(* point of its life, and a start may fail.                                *)
(***************************************************************************)
EXTENDS Naturals, FiniteSets

CONSTANTS
  Threads,        \* threads that call the supervisor
  Operations,     \* what they may ask for
  MaxCalls,       \* bound on the calls
  MaxCrashes,     \* bound on the workers that die on their own
  MaxGeneration   \* bound: generations; no call may need more

ASSUME SlotAssumption ==
  /\ Operations \subseteq {"complete", "load", "unload", "drain", "shutdown"}
  /\ MaxCalls \in Nat /\ MaxCrashes \in Nat /\ MaxGeneration \in Nat
  /\ IsFiniteSet(Threads)

VARIABLES
  generation, state, child, reader, completion, reserved, unloading, draining,
  shutdown,               \* the atomic flag
  worker, reading,        \* each generation's process and reader thread
  pc, op, mine, old, outcome, armed, leaving,  \* locals of the threads
  calls, crashes

slot == <<generation, state, child, reader, completion, reserved, unloading, draining>>
host == <<shutdown, calls, crashes>>
locals == <<op, mine, old, outcome, armed, leaving>>
vars == <<slot, host, worker, reading, pc, locals>>

NoWorker == 0
Generations == 1 .. MaxGeneration

Occupancy == Cardinality(completion) + reserved

Init ==
  /\ generation = 0 /\ state = "down" /\ child = NoWorker /\ reader = NoWorker
  /\ completion = {} /\ reserved = 0
  /\ unloading = FALSE /\ draining = FALSE /\ shutdown = FALSE
  /\ calls = 0 /\ crashes = 0
  /\ worker = [g \in Generations |-> "none"]
  /\ reading = [g \in Generations |-> "none"]
  /\ pc = [t \in Threads |-> "idle"]
  /\ op = [t \in Threads |-> "none"]
  /\ mine = [t \in Threads |-> NoWorker]
  /\ old = [t \in Threads |-> NoWorker]
  /\ outcome = [t \in Threads |-> "none"]
  /\ armed = {} /\ leaving = {}

At(t, label) == pc[t] = label
Go(t, label) == pc' = [pc EXCEPT ![t] = label]

(* The slot's mutex is held from one action to the next only in drop_live.  *)
SlotFree == \A t \in Threads : pc[t] # "joinLive"
Locks(t, label) == At(t, label) /\ SlotFree

Answer(t, result) == outcome' = [outcome EXCEPT ![t] = result]

-----------------------------------------------------------------------------
FirstLabel(k) ==
  CASE k = "complete" -> "reserve" [] k = "load" -> "load"
    [] k = "unload" -> "unload" [] OTHER -> "drain"

Call(t, k) ==
  /\ At(t, "idle") /\ calls < MaxCalls /\ ~shutdown
  /\ calls' = calls + 1
  /\ op' = [op EXCEPT ![t] = k]
  /\ Answer(t, "none")
  /\ leaving' = leaving \ {t}
  /\ Go(t, FirstLabel(k))
  /\ UNCHANGED <<slot, shutdown, crashes, worker, reading, mine, old, armed>>

Return(t) ==
  /\ At(t, "return")
  /\ Go(t, "idle")
  /\ op' = [op EXCEPT ![t] = "none"]
  /\ UNCHANGED <<slot, host, worker, reading, mine, old, outcome, armed, leaving>>

ClosedToWork == unloading \/ draining

(* AdmissionHold::reserve. A refused call leaves no hold behind.            *)
Reserve(t) ==
  /\ Locks(t, "reserve")
  /\ IF ClosedToWork
     THEN Answer(t, "refused") /\ Go(t, "settle") /\ UNCHANGED <<reserved, armed>>
     ELSE /\ reserved' = reserved + 1 /\ armed' = armed \cup {t}
          /\ Go(t, "plan") /\ UNCHANGED outcome
  /\ UNCHANGED <<generation, state, child, reader, completion, unloading, draining,
                 host, worker, reading, op, mine, old, leaving>>

(* The plan is compiled and the journal opened, or the request is refused.  *)
Plan(t) ==
  /\ At(t, "plan")
  /\ \/ Go(t, "ensure") /\ UNCHANGED outcome
     \/ Answer(t, "error") /\ Go(t, "drop")
  /\ UNCHANGED <<slot, host, worker, reading, op, mine, old, armed, leaving>>

(* Faulty variant: the reservation outlives the call.                       *)
HoldKept(t) == armed' = armed \ {t} /\ UNCHANGED reserved

Release(t) ==
  /\ armed' = armed \ {t}
  /\ reserved' = IF reserved > 0 THEN reserved - 1 ELSE 0

(* Every way out of a completion drops its hold, if it is still armed, and  *)
(* then its UnloadGuard.                                                    *)
DropHold(t) ==
  /\ Locks(t, "drop")
  /\ IF t \in armed THEN Release(t) ELSE UNCHANGED <<reserved, armed>>
  /\ Go(t, "settle")
  /\ UNCHANGED <<generation, state, child, reader, completion, unloading, draining,
                 host, worker, reading, op, mine, old, outcome, leaving>>

-----------------------------------------------------------------------------
(* ensure_worker, with the two ways it goes back to its callers.            *)
Ensured(t) == Go(t, IF op[t] = "load" THEN "return" ELSE "insert")

EnsureFails(t, why) ==
  /\ Answer(t, why)
  /\ Go(t, IF op[t] = "load" THEN "loadFailed" ELSE "drop")

EnsureReady(t) ==
  /\ Locks(t, "ensure") /\ state = "ready"
  /\ Ensured(t)
  /\ UNCHANGED <<slot, host, worker, reading, locals>>

EnsureUnloaded(t) ==
  /\ Locks(t, "ensure") /\ state = "down" /\ unloading
  /\ EnsureFails(t, "unloaded")
  /\ UNCHANGED <<slot, host, worker, reading, op, mine, old, armed, leaving>>

(* Another thread is starting the worker. The wait on the condvar ends with *)
(* the state that starts the loop over, or times out like this.             *)
EnsureWaits(t) ==
  /\ Locks(t, "ensure") /\ state = "starting"
  /\ EnsureFails(t, "startFailed")
  /\ UNCHANGED <<slot, host, worker, reading, op, mine, old, armed, leaving>>

EnsureStarts(t) ==
  /\ Locks(t, "ensure") /\ state = "down" /\ ~unloading
  /\ generation < MaxGeneration
  /\ state' = "starting"
  /\ generation' = generation + 1
  /\ mine' = [mine EXCEPT ![t] = generation + 1]
  /\ old' = [old EXCEPT ![t] = reader]
  /\ reader' = NoWorker
  /\ Go(t, "spawn")
  /\ UNCHANGED <<child, completion, reserved, unloading, draining, host, worker,
                 reading, op, outcome, armed, leaving>>

Joined(t) == old[t] # NoWorker => reading[old[t]] = "exited"

Spawn(t) ==
  /\ At(t, "spawn") /\ Joined(t)
  /\ worker' = [worker EXCEPT ![mine[t]] = "running"]
  /\ reading' = [reading EXCEPT ![mine[t]] = "running"]
  /\ Go(t, "install")
  /\ UNCHANGED <<slot, host, locals>>

SpawnFails(t) ==
  /\ At(t, "spawn") /\ Joined(t)
  /\ Go(t, "spawnFailed")
  /\ UNCHANGED <<slot, host, worker, reading, locals>>

(* Faulty variant: the generation is not compared after the unlocked spawn. *)
NeverOvertaken(t) == FALSE

Overtaken(t) == generation # mine[t]

Install(t) ==
  /\ Locks(t, "install") /\ ~Overtaken(t)
  /\ child' = mine[t] /\ reader' = mine[t]
  /\ state' = "ready"
  /\ Ensured(t)
  /\ UNCHANGED <<generation, completion, reserved, unloading, draining, host, worker,
                 reading, locals>>

(* A stop came between: the new worker is killed and its reader joined, all *)
(* under the lock, and the loop starts over.                                *)
DropLive(t) ==
  /\ Locks(t, "install") /\ Overtaken(t)
  /\ worker' = [worker EXCEPT ![mine[t]] = "exited"]
  /\ Go(t, "joinLive")
  /\ UNCHANGED <<slot, host, reading, locals>>

JoinLive(t) ==
  /\ At(t, "joinLive") /\ reading[mine[t]] = "exited"
  /\ Go(t, "ensure")
  /\ UNCHANGED <<slot, host, worker, reading, locals>>

(* Faulty variant: a failed start is not taken back.                        *)
StaysStarting(t) == state

StateAfterFailure(t) == IF Overtaken(t) THEN state ELSE "down"

SpawnFailed(t) ==
  /\ Locks(t, "spawnFailed")
  /\ state' = StateAfterFailure(t)
  /\ EnsureFails(t, "startFailed")
  /\ UNCHANGED <<generation, child, reader, completion, reserved, unloading, draining,
                 host, worker, reading, op, mine, old, armed, leaving>>

-----------------------------------------------------------------------------
(* Faulty variant: the hold stays armed and is dropped a second time.       *)
StillArmed(t) ==
  /\ reserved' = IF reserved > 0 THEN reserved - 1 ELSE 0
  /\ UNCHANGED armed

Disarm(t) ==
  /\ reserved' = IF reserved > 0 THEN reserved - 1 ELSE 0
  /\ armed' = armed \ {t}

(* submit: the entry is made and the frame written under the same lock. A   *)
(* write fails when the worker is gone. The hold is disarmed before the     *)
(* write, so a failed write leaves neither hold nor entry.                  *)
Insert(t) ==
  /\ Locks(t, "insert") /\ state = "ready"
  /\ Disarm(t)
  /\ IF child # NoWorker /\ worker[child] = "running"
     THEN completion' = completion \cup {t} /\ Go(t, "await") /\ UNCHANGED outcome
     ELSE Answer(t, "lost") /\ Go(t, "drop") /\ UNCHANGED completion
  /\ UNCHANGED <<generation, state, child, reader, unloading, draining, host, worker,
                 reading, op, mine, old, leaving>>

InsertNotReady(t) ==
  /\ Locks(t, "insert") /\ state # "ready"
  /\ Answer(t, "lost") /\ Go(t, "drop")
  /\ UNCHANGED <<slot, host, worker, reading, op, mine, old, armed, leaving>>

Answered(t) ==
  /\ At(t, "await") /\ outcome[t] # "none"
  /\ Go(t, "drop")
  /\ UNCHANGED <<slot, host, worker, reading, locals>>

TimesOut(t) ==
  /\ At(t, "await") /\ outcome[t] = "none"
  /\ Go(t, "abandon")
  /\ UNCHANGED <<slot, host, worker, reading, locals>>

Abandon(t) ==
  /\ Locks(t, "abandon")
  /\ completion' = completion \ {t}
  /\ Answer(t, "timeout") /\ Go(t, "drop")
  /\ UNCHANGED <<generation, state, child, reader, reserved, unloading, draining, host,
                 worker, reading, op, mine, old, armed, leaving>>

-----------------------------------------------------------------------------
(* maybe_finish_unload: the condition is read in one locked section, the    *)
(* stop is another.                                                         *)
Settle(t) ==
  /\ Locks(t, "settle")
  /\ Go(t, IF unloading /\ Occupancy = 0 /\ state # "down" THEN "stop"
           ELSE IF op[t] = "load" THEN "leave" ELSE "return")
  /\ UNCHANGED <<slot, host, worker, reading, locals>>

Lost(T) == [t \in Threads |-> IF t \in T THEN "lost" ELSE outcome[t]]

(* Faulty variant: a stop leaves the completions waiting.                   *)
ForgottenWaiters == UNCHANGED <<completion, outcome>>

FailWaiters ==
  /\ completion' = {}
  /\ outcome' = Lost(completion)

StopWorker(t) ==
  /\ Locks(t, "stop") /\ generation < MaxGeneration
  /\ generation' = generation + 1
  /\ mine' = [mine EXCEPT ![t] = child]
  /\ old' = [old EXCEPT ![t] = reader]
  /\ child' = NoWorker /\ reader' = NoWorker
  /\ state' = "down"
  /\ FailWaiters
  /\ Go(t, "kill")
  /\ UNCHANGED <<reserved, unloading, draining, host, worker, reading, op, armed, leaving>>

(* Faulty variant: the reader is joined while its worker still runs.        *)
JoinFirst(t) ==
  /\ At(t, "kill")
  /\ Go(t, "join")
  /\ UNCHANGED <<slot, host, worker, reading, locals>>

(* The shutdown frame, and a kill 200 ms later if it was not enough.        *)
Kill(t) ==
  /\ At(t, "kill")
  /\ worker' = IF mine[t] = NoWorker THEN worker
               ELSE [worker EXCEPT ![mine[t]] = "exited"]
  /\ Go(t, "join")
  /\ UNCHANGED <<slot, host, reading, locals>>

Join(t) ==
  /\ At(t, "join") /\ Joined(t)
  /\ Go(t, CASE op[t] = "load" -> "leave" [] op[t] = "shutdown" -> "handlers"
             [] OTHER -> "return")
  /\ UNCHANGED <<slot, host, worker, reading, locals>>

-----------------------------------------------------------------------------
(* begin_unload *)
BeginUnload(t) ==
  /\ Locks(t, "unload")
  /\ unloading' = TRUE
  /\ Go(t, IF Occupancy = 0 THEN "settle" ELSE "return")
  /\ UNCHANGED <<generation, state, child, reader, completion, reserved, draining, host,
                 worker, reading, locals>>

(* begin_load: refused while admitted work holds an unload back.            *)
BeginLoad(t) ==
  /\ Locks(t, "load")
  /\ Go(t, IF unloading /\ Occupancy > 0 THEN "return" ELSE "settle")
  /\ UNCHANGED <<slot, host, worker, reading, locals>>

LeaveUnload(t) ==
  /\ Locks(t, "leave")
  /\ IF (unloading /\ Occupancy > 0) \/ state = "ready"
     THEN Go(t, "return") /\ UNCHANGED <<unloading, leaving>>
     ELSE /\ unloading' = FALSE
          /\ leaving' = IF unloading THEN leaving \cup {t} ELSE leaving
          /\ Go(t, "ensure")
  /\ UNCHANGED <<generation, state, child, reader, completion, reserved, draining, host,
                 worker, reading, op, mine, old, outcome, armed>>

LoadFailed(t) ==
  /\ Locks(t, "loadFailed")
  /\ unloading' = (unloading \/ (t \in leaving /\ state = "down" /\ Occupancy = 0))
  /\ Go(t, "return")
  /\ UNCHANGED <<generation, state, child, reader, completion, reserved, draining, host,
                 worker, reading, locals>>

BeginDrain(t) ==
  /\ Locks(t, "drain")
  /\ draining' = TRUE
  /\ Go(t, IF op[t] = "drain" THEN "return" ELSE "drainWait")
  /\ UNCHANGED <<generation, state, child, reader, completion, reserved, unloading, host,
                 worker, reading, locals>>

(* Shutdown waits for admitted work for at most 30 seconds, stops the       *)
(* worker, and then waits for the handlers for at most 2 seconds.           *)
Shutdown(t) ==
  /\ At(t, "drainWait")
  /\ Go(t, IF shutdown THEN "return" ELSE "stop")
  /\ shutdown' = TRUE
  /\ UNCHANGED <<slot, calls, crashes, worker, reading, locals>>

LeaveHandlers(t) ==
  /\ At(t, "handlers")
  /\ Go(t, "return")
  /\ UNCHANGED <<slot, host, worker, reading, locals>>

-----------------------------------------------------------------------------
(* dispatch of a Result: the reader of the current generation hands it to   *)
(* the waiting completion. The worker may have died since it sent it.       *)
Dispatch(g, t) ==
  /\ reading[g] = "running" /\ SlotFree
  /\ generation = g
  /\ t \in completion
  /\ completion' = completion \ {t}
  /\ Answer(t, "result")
  /\ UNCHANGED <<generation, state, child, reader, reserved, unloading, draining, host,
                 worker, reading, pc, op, mine, old, armed, leaving>>

CurrentReader(g) == generation = g

(* The socket closed: the reader marks its worker lost, unless the slot has *)
(* moved on to another generation.                                          *)
ReaderEnds(g) ==
  /\ reading[g] = "running" /\ worker[g] = "exited" /\ SlotFree
  /\ reading' = [reading EXCEPT ![g] = "exited"]
  /\ IF CurrentReader(g)
     THEN /\ FailWaiters
          /\ worker' = IF child = NoWorker THEN worker
                       ELSE [worker EXCEPT ![child] = "exited"]
          /\ child' = NoWorker /\ state' = "down"
     ELSE UNCHANGED <<completion, outcome, worker, child, state>>
  /\ UNCHANGED <<generation, reader, reserved, unloading, draining, shutdown, calls,
                 crashes, pc, op, mine, old, armed, leaving>>

(* The reader compares generations before each read.                        *)
ReaderLeaves(g) ==
  /\ reading[g] = "running" /\ generation # g /\ SlotFree
  /\ reading' = [reading EXCEPT ![g] = "exited"]
  /\ UNCHANGED <<slot, host, worker, pc, locals>>

WorkerDies(g) ==
  /\ worker[g] = "running" /\ crashes < MaxCrashes
  /\ worker' = [worker EXCEPT ![g] = "exited"]
  /\ crashes' = crashes + 1
  /\ UNCHANGED <<slot, shutdown, calls, reading, pc, locals>>

-----------------------------------------------------------------------------
Ensure(t) ==
  \/ EnsureReady(t) \/ EnsureUnloaded(t) \/ EnsureWaits(t) \/ EnsureStarts(t)
  \/ Spawn(t) \/ SpawnFails(t) \/ Install(t) \/ DropLive(t) \/ JoinLive(t)
  \/ SpawnFailed(t)

Submit(t) ==
  \/ Insert(t) \/ InsertNotReady(t) \/ Answered(t) \/ TimesOut(t) \/ Abandon(t)

Run(t) ==
  \/ Return(t) \/ Reserve(t) \/ Plan(t) \/ DropHold(t)
  \/ Ensure(t) \/ Submit(t)
  \/ Settle(t) \/ StopWorker(t) \/ Kill(t) \/ Join(t)
  \/ BeginUnload(t) \/ BeginLoad(t) \/ LeaveUnload(t) \/ LoadFailed(t)
  \/ BeginDrain(t) \/ Shutdown(t) \/ LeaveHandlers(t)

Next ==
  \/ \E t \in Threads : Run(t) \/ \E k \in Operations : Call(t, k)
  \/ \E g \in Generations :
       WorkerDies(g) \/ ReaderEnds(g) \/ ReaderLeaves(g) \/ \E t \in Threads : Dispatch(g, t)

Spec == Init /\ [][Next]_vars

(* Every thread keeps running, and so does every reader.                    *)
FairSpec ==
  /\ Spec
  /\ \A t \in Threads : WF_vars(Run(t))
  /\ \A g \in Generations : WF_vars(ReaderEnds(g))

-----------------------------------------------------------------------------
Labels ==
  {"idle", "return", "reserve", "plan", "drop", "ensure", "spawn", "install",
   "joinLive", "spawnFailed", "insert", "await", "abandon", "settle", "stop",
   "kill", "join", "unload", "load", "leave", "loadFailed", "drain", "drainWait",
   "handlers"}

(* Every variable has its type.                                             *)
TypeOK ==
  /\ generation \in 0 .. MaxGeneration
  /\ state \in {"starting", "ready", "down"}
  /\ child \in Generations \cup {NoWorker} /\ reader \in Generations \cup {NoWorker}
  /\ completion \subseteq Threads /\ reserved \in 0 .. Cardinality(Threads)
  /\ unloading \in BOOLEAN /\ draining \in BOOLEAN /\ shutdown \in BOOLEAN
  /\ calls \in 0 .. MaxCalls /\ crashes \in 0 .. MaxCrashes
  /\ worker \in [Generations -> {"none", "running", "exited"}]
  /\ reading \in [Generations -> {"none", "running", "exited"}]
  /\ pc \in [Threads -> Labels]
  /\ op \in [Threads -> Operations \cup {"none"}]
  /\ mine \in [Threads -> Generations \cup {NoWorker}]
  /\ old \in [Threads -> Generations \cup {NoWorker}]
  /\ outcome \in [Threads -> {"none", "refused", "error", "unloaded", "startFailed",
                              "lost", "timeout", "result"}]
  /\ armed \subseteq Threads /\ leaving \subseteq Threads

(* Occupancy, which decides when a drain or an unload is over, counts each  *)
(* completion once from its reservation to its answer, on every error path. *)
OccupancyExact ==
  /\ reserved = Cardinality(armed)
  /\ completion = {t \in Threads : pc[t] \in {"await", "abandon"} /\ outcome[t] = "none"}

(* A completion that waits has a live reader of the current generation that *)
(* will deliver its result or its loss.                                     *)
WaitersHaveReader ==
  completion # {} => /\ state = "ready"
                     /\ generation \in Generations
                     /\ reading[generation] = "running"

(* The state Starting always has the thread that will end it; otherwise     *)
(* every later request would wait for nothing.                              *)
StartingHasStarter ==
  state = "starting" =>
    \E t \in Threads :
      pc[t] \in {"spawn", "install", "spawnFailed"} /\ mine[t] = generation

(* A running worker process is the slot's child or in the hands of a thread *)
(* that will install or kill it: none is forgotten.                         *)
NoOrphanWorker ==
  \A g \in Generations :
    worker[g] = "running" =>
      \/ child = g
      \/ \E t \in Threads : pc[t] \in {"install", "kill"} /\ mine[t] = g

(* Every call returns, whatever crashes and stops it meets: no condvar,     *)
(* join or lost wake-up holds a thread forever, except a thread that joins  *)
(* a reader with the slot locked (HealthStillAnswers below). Calls are      *)
(* bounded, so that a thread that never returned would be busy for good.    *)
EveryCallReturns == []<>((\A t \in Threads : pc[t] = "idle") \/ ~SlotFree)

-----------------------------------------------------------------------------
(* Sentences of the documentation that the code does not keep.              *)

(* "Health, metrics, and receipt reads still answer" (KIP-INFER-0013): they *)
(* lock the slot, so whoever holds it must give it back.                    *)
HealthStillAnswers == []<>SlotFree

(* "The next request starts a new worker" (KIP-INFER-0007): once the reader *)
(* has noticed the loss, a request that comes later is not answered with    *)
(* WORKER_LOST by the same worker.                                          *)
NextRequestStartsWorker ==
  [][\A t \in Threads :
       Insert(t) /\ outcome'[t] = "lost" /\ mine[t] # child
         => reading[child] # "exited"]_vars

(* "It does not cancel admitted work" (KIP-INFER-0013, of unload): unless a *)
(* worker died or the supervisor shut down, no completion is lost.          *)
UnloadCancelsNothing ==
  crashes = 0 /\ ~shutdown => \A t \in Threads : outcome[t] # "lost"
=============================================================================
