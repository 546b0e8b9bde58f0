# A verification development for knolo-inference

`knolo-infer` is a Rust inference runtime. One supervisor process listens on
loopback HTTP, starts one worker process per generation, sends it requests over
a Unix socket, and writes a journal and a receipt for each. The worker runs the
continuous CPU scheduler over a paged key/value pool. This directory holds TLA+
modules for the parts whose correctness depends on the order in which things
happen, TLC configurations that check them on small instances, and proofs that
TLAPS checks for every value of the constants.

All paths below are relative to `src/crates/`.

## 1. The system

### Components

| Component | Source | State it keeps | Operations |
|---|---|---|---|
| Paged KV pool | `infer-engine/src/paged.rs` | `free` pages, one block table per open sequence (committed pages, a reserved page, length, active flag), page contents | begin, release, deactivate, write, commit, abort, invalidate; eviction inside write |
| CPU scheduler | `infer-engine/src/schedule.rs` | a slot per admitted request (phase, cursor, output, virtual time, flags), `ids`, `reserved_pages` | submit, cancel, step (one cancel, one prefill chunk or one decode batch), reap |
| Worker | `infer-serve/src/worker.rs` | one scheduler, one pool, the ids already reported | drain the socket, step, report, block |
| Supervisor: worker lifecycle | `infer-serve/src/supervisor.rs` | `WorkerSlot` behind one mutex: state, generation, child, reader, waiters, `reserved`, `draining`, `unloading` | complete, load, unload, drain, shutdown; one reader thread per generation |
| Supervisor: request dispatch | `infer-serve/src/supervisor.rs`, `protocol.rs` | waiters of completions and of cancels, by request id | submit, cancel, abandon, stats; dispatch of worker frames |
| Frame decoder | `infer-serve/src/frame.rs` | a byte buffer | push, pop |
| Journal and receipts | `infer-engine/src/journal.rs`, `infer-serve/src/receipt.rs` | an append-only chain of events on disk, a published receipt | append, seal, publish, store, recover at start |
| Daemon lock | `infer-serve/src/daemon_lock.rs` | a directory and an owner file | take, release, take over from a dead owner |
| Model installation | `infer-artifact/src/catalog.rs`, `lockfile.rs`, `compile.rs` | a staging directory per model, the installed directory, one that is set aside, the lockfile | pull (download, build, promote, pin), remove |
| Trace and metrics | `infer-serve/src/trace.rs`, `metrics.rs` | one append-only file per request, counters | append, finalize; count |
| Adapters, contracts, artifact formats, prompts, reports, native code, CLI, TypeScript | other crates and packages | none that is shared between threads | sequential computation |

### How they interact

The HTTP threads call the supervisor. They meet in `WorkerSlot` under its mutex
and leave it for everything slow: starting a process, waiting for a reply,
joining a thread. A completion reserves a place (`reserved`), starts the worker
if there is none (`ensure_worker`), trades the reservation for a waiter, writes
`Submit`, and waits on a channel. The reader thread of the current generation
turns worker frames into messages on those channels. When the socket closes, it
marks the worker lost and fails everyone who waits. The worker is one thread: it
drains the socket, makes one scheduler step, reports tokens and results, reaps,
and blocks when it has nothing to do. The scheduler reserves the worst case of
each request in pages at admission; a forward pass takes pages from the pool
one by one as tokens cross page boundaries.

A home directory outlives the processes that work in it. A serve process takes
the daemon lock, recovers the journals that the last one left open, listens, and
gives the lock back after its handlers; `knolo-infer run` writes journals in the
same home without the lock; `pull` and `rm` change the installed models and the
lockfile without any lock.

### What is hard

- **Interleaving.** Every call into the supervisor is several locked sections
  with blocking work between them; the state read in one may be gone in the
  next (`maybe_finish_unload`, `begin_load`, `ensure_worker`).
- **Crashes.** A worker may die at any moment, also between its ready frame and
  the moment its slot is installed. A start may fail.
- **Joins and locks.** Threads join readers that need the slot's mutex to end.
- **Resource limits.** Pages run out; eviction may only take inactive
  sequences; the scheduler's reservation has to be right for the whole life of
  a request, on each of its exits.
- **Ordering.** Cancels, failures and end-of-sequence meet in a step. The
  selection of the next sequence and of the decode batch follow two different
  orders that must agree.
- **Long sequences of legal calls.** Four code paths move pages between the
  tables and the free set, and request ids are reused.
- **Persistence.** A process may die between any two operations on the file
  system: half-made locks, open journals, `completed` without a receipt, partial
  downloads, a model set aside and not replaced. The next process meets what was
  left, while others (a `run`, a slow handler, a second start) may still write.

The hazards, each at its line and with the properties aimed at it, are in
`PROJECT.json`.

### What makes each component correct

- *Pool:* a page is in one place; none is lost; a free page is clear; a reader
  finds its own tokens; active sequences keep their pages; a writer is refused
  only when nothing can be evicted.
- *Scheduler:* the reservation equals the worst case of what is admitted and is
  enough; no step meets an internal error; cached length and position agree; a
  waiting prefill is never overtaken by more than a chunk; each request follows
  `RequestLifecycle`; each one finishes.
- *Worker lifecycle:* occupancy is exact on every path; a waiter always has a
  reader that will answer it; no process is forgotten; every call returns;
  unload does not hurt admitted work.
- *Dispatch:* each waiter gets the answer to its own request, once.
- *Journal and receipts:* a chain is sealed once and by its owner; `completed`
  comes with a receipt; recovery seals what a dead process left and nothing else.
- *Daemon lock:* one owner of a home directory; a stale lock keeps nobody out.
- *Model installation:* an installed model keeps a whole copy; a pull that
  succeeds is usable; a repeated pull repairs everything.

## 2. Modules

| Module | Models | Proofs |
|---|---|---|
| `KvPool` | the transitions of the pool as operators on one value `kv` | `KvPool_proofs` |
| `PagedKv` | the pool as a state machine under arbitrary clients, with page contents (EXTENDS `KvPool`) | `PagedKv_proofs` |
| `KvStore` | what the trait `KvStore` promises its users, without pages; abstract | in `PagedKv_proofs` |
| `CpuScheduler` | the scheduler over the pool (EXTENDS `KvPool`) | `CpuScheduler_proofs` |
| `RequestLifecycle` | what the scheduler promises its client; abstract | |
| `WorkerSlot` | the supervisor's threads, the slot, worker processes and readers | `WorkerSlot_proofs` |
| `ServeDispatch` | submit, waits, abandon, cancel, dispatch and the worker loop, joined by FIFO channels | `ServeDispatch_proofs` |
| `HomeProcesses` | the constants that the modules of a home directory share | |
| `DaemonLock` | the ownership of a home, one file operation per action | `DaemonLock_proofs` |
| `RequestJournal` | journals, receipts and their recovery, as actions of a writer | in `ServeHome_proofs` |
| `RequestRecord` | what journals and receipts say of a request; abstract | |
| `ServeHome` | lock, journals, serve processes and runs together (EXTENDS both) | `ServeHome_proofs` |
| `ModelInstall` | `pull` and `rm` of catalog models and the lockfile | `ModelInstall_proofs` |
| `MCPagedKv`, `MCCpuScheduler`, `MCWorkerSlot`, `MCServeDispatch`, `MCServeHome`, `MCModelInstall` | constants for TLC | |

`map` in `PROJECT.json` gives the source lines of every definition.

### KvPool and PagedKv

`kv.free` is the set `free`, `kv.open` the keys of `sequences`, `kv.table[s]` a
`SequencePages`. Operators carry the names of the Rust functions: `KvWrite` is
`page_for_write` with its `reserve` and evictions, `Drop` is `release_sequence`
for a set of sequences. A write may be refused after it has evicted: this is
`WriteExhausted`. Page contents are tags `<<s, t>>` naming the sequence and the
token that wrote a cell. Keys and values share their offsets, so one slab stands
for two. Several clients open, release and deactivate in any order: the runtime's
own clients (the scheduler, the greedy loop) use less than that.

`KvStore` is the abstract specification: each open sequence has a memory of its
own, one vector per layer and token, as the single-block store of `kv.rs` has. A
write stores one vector of the open token, a commit opens the next token, and
nothing else changes a vector. What pages make visible is stated there and is
all: an abort may lose the open token (the single block keeps it), and a write,
refused or not, may lose inactive sequences, each as a whole. The refinement
mapping at the end of `PagedKv` reads through the pages as `page_for_read` does:
a committed token is looked up in the table, the open one on the reserved page,
and a token without a page reads as zero.

### CpuScheduler and RequestLifecycle

`step` holds the scheduler exclusively, so a step is cut into one action for each
token of a chunk or each row of a batch, between which no other call is accepted
(`BetweenSteps`). `StartPrefill`, `PrefillToken`, `PrefillEnds` are
`serve_prefill`; `StartDecode`, `DecodeRow`, `DecodeLastRow` are
`serve_decode_batch` and `serve_decode_one`; `StepFails` is each of their error
returns with the `retire` behind it. The model, the sampler and the tokens are
choices: a forward may fail at any token and a sampled token may end its
sequence. The state of a Slot is kept per sequence number, and sequence numbers
are not used again, as in the code. `reap` and reuse of request ids are
modelled. Counters and the timing of a step are not.

`RequestLifecycle` knows only stages, budgets and tokens produced. The scheduler
is checked to implement it together with its fairness
(`ImplementsFairLifecycle`); the refinement mapping stands at the end of
`CpuScheduler`.

### WorkerSlot

Each action is one locked section of `supervisor.rs`, or one blocking call made
outside it. `pc` says where a thread is. A worker process is named by its
generation; `child` stands for `child`, `writer` and `dir`, which are always set
and taken together. `completion` holds threads rather than request ids, one per
call. `reading[g]` is the reader thread of generation `g`, and `worker[g]` the
process. The mutex need not be a variable, because no action leaves it locked,
with one exception: `drop_live` joins a reader while its caller holds the guard.
`SlotFree` says that no thread is there, and each locking action has it as a
guard. Timeouts may fire at any time. The paused worker of the tests
(`released`), the stats scrape, and the cancels are left out of this module.

### ServeDispatch

The other half of the supervisor: what happens to one request while its worker
is ready. `toWorker` and `fromWorker` are the two directions of the socket,
`mailbox[r]` the channel that `submit` returns, `completion` and `cancel` the two
tables of waiters. Inserting a waiter and writing its frame happen under one
lock and are one action. A completion goes from `idle` to `await` (buffered,
`submit_and_wait`) or to `admit` and `pump` (streamed, `wait_admitted` and
`pump_native`) and ends in `done` with `answer[r]`. `phase` is the worker's place
in `serve_connection`: draining frames, stepping, or blocked in `read_blocking`.
The step is what `RequestLifecycle` allows a step to do: one cancel, or a token
for some active requests, some of which end, and at most one failure; which ones
is a choice. `report_steps` precedes `report_new`, so the tokens of a step precede
its results. A crash loses what the worker has not read and any suffix of
what it wrote; the reader delivers the rest before `mark_lost`. `Restart` is all
of `ensure_worker` this module needs; `WorkerSlot` has the rest.

`stage` and `produced` of a request are forgotten when it is reaped. Request ids
are not used twice, because `Journal::create` makes a new directory for each before
it is submitted, so that `request id is already admitted` does not occur.

### DaemonLock, RequestJournal, ServeHome and RequestRecord

A member of `Procs` is one life of a serve process, a pid with its start time;
`PidOf` lets two lives share a pid, at different times. Each action of
`DaemonLock` is one operation on the file system by path, so it acts on whatever
directory is there when it runs: `Create` is `create_dir`, `Read` and `Probe` are
`owner_state`, `Bury` the rename of a stale lock, `Chmod` to `Mode` are
`install_owner`, `Undo` the clean-up of a claim that failed, `Check` to `rmdir`
the release. `Kill` may come between any two.

In `RequestJournal` a directory holds a set of chains: a file of the journal is
the sequence of events it stands at the end of, which its digest pins. `Put`
gives two files of the same index and event the same name. `chain[r]` is what a
handle has appended, so a handle that missed another writer's event goes on at
its own index and the directory stops verifying. `stage[r]` is the place of the
handler in `open_request`, `OpenedRequest` and `execute_turn`; every write may
fail (`NotWritten`), and what is tried next is modelled (`SealFailed`,
`SealEnding`, `Drop`). `Recover(p)` is `recover_open_journals`, a directory at a
time, with its decision and its write apart. A write is one step, because
`write_atomic` renames a complete file into place.

`ServeHome` says which process takes which step: recovery runs while the lock is
held and before `serving`, a handler only while its process lives, `run` when it
likes. Two constants name what the code does not exclude: `Overlap`, that a
start may claim while another one does, and `Strays`, that a writer that the lock
does not cover is at work while a process starts (a `run`, or a handler that
outlives the two seconds that shutdown waits for it). With either, a
documented sentence fails (findings 5 and 6). The passing run and the theorems
say what holds without them, which is more than the code enforces.

`RequestRecord` is the abstract specification: none, open, completed, published,
failed, cancelled, and the edges between them. `completed` may become `failed` or
`cancelled` there, because the code does that when `store_receipt` fails.

### ModelInstall

An action is one step of `pull_catalog_row` with its helpers (`download_resolved`,
`promote_dir`, `pin_alias`) or of `remove_installed` that changes a file. A
catalog row is a revision; the weight file is the sequence of the parts received,
each named by its revision or `Garbage`; an image is named by the revision it was
built for. A directory with neither file stands for one that does not exist.
Commands on different ids overlap, read the lockfile and write it back whole;
`Stop` is a crash or a failed call at any step. The tokenizer's download and the
text of manifest and template change nothing the properties see.

## 3. Runs

| Run | Instance | What it shows |
|---|---|---|
| `paged_kv` | 3 pages of 2 tokens, 3 sequences, at most 4 tokens each | every pool property, in every order of calls |
| `scheduler` | 3 requests, 3 shapes of 3 classes, 6 pages of 2 tokens, chunks of 2, contexts of 6 | reservation, steps, order, and the refinement with its fairness |
| `worker_slot` | 2 threads, 4 calls of any kind, 1 crash | the safety properties of the lifecycle, and that every call returns |
| `dispatch` | a buffered completion of 1 token, a streamed one of 2, one cancel, 2 in flight, 1 crash | one answer for each waiter, streams in order, acknowledged cancels took effect, no abandoned work, nobody needs a timeout |
| `serve_home` | 3 starts of serve, two with the same pid, a request, a `run`, 3 rounds of a claim, one failed claim operation, one request with failed writes, kills anywhere | one owner on disk, journals that verify, recovery of exactly what is dead, the refinement of the record, every accepted request sealed |
| `model_install` | a model of 2 parts whose row changes, and another that is pulled and removed; 1 removal, 3 faults | no installed model loses its last copy, success is usable, repetition repairs |
| `join_under_lock`, `dead_worker_installed`, `unload_race`, `reject_cross_wired`, `two_starts`, `live_run_sealed` | the smallest instances that show them | the findings below |

**Why these bounds are enough to be interesting.** Three pages and three
sequences: two sequences exhaust the pool, and the third finds victims with
pages, without pages, and none. Two tokens per page give both positions of a
token, at the boundary and inside. Four tokens fill two pages. In the scheduler
the pool holds the worst cases of three short requests, but not of the long one
with two others; prompts of 5, 3 and 2 tokens need several chunks, an incomplete last
one, and exactly one; the three classes have different weights; the urgent
request crosses a page boundary while it decodes. In the supervisor two threads
give every pair of overlapping calls and four calls let each thread meet what
an earlier call left behind; `unload_race` needs a third thread, because the stop
that was decided, the load and the completion belong to three. In the dispatch
run a stream has a first and a last token, the two
requests share the channels, and one crash leaves a second worker that knows
nothing of the first one's requests. In a home, a third start meets what the
second left half made or half recovered from the first, with the first one's
pid. Two parts let a download stop half way and go on with another revision;
three faults let two attempts in a row fail before and after the promotion.

**Bounds by name.** `MaxLen` caps tokens of a sequence (in the code, `u32`).
`Sequences` bounds the admissions of `CpuScheduler`. `MaxCalls`, `MaxCrashes`
bound `WorkerSlot`; `MaxGeneration` bounds its generations and is larger than
the calls can reach. `Budget` gives the tokens of each request of
`ServeDispatch`, `MaxInflight` is the code's `MAX_INFLIGHT` of 64, and
`MaxCrashes` bounds the workers that die. `MaxTries` is the 8 rounds of a claim,
`MaxFaults` bounds the operations of a claim that fail, `MaxLost` the requests of
which a write fails, `MaxTokens` the events between `prefill` and the end. In
`ModelInstall`, `Rows` bounds the rows an id has had, `MaxRemovals` the removals,
`MaxFaults` crashes, failed calls and bad downloads. Except in `paged_kv` and `model_install`, a finished instance
may stop, so these runs do not check deadlock; their liveness properties do that
work.

**Fairness.** `CpuScheduler`: `worker.rs` calls `step` as long as the scheduler
has work and reaps after every step, so `Step` and each `Reap` are weakly fair.
Submits and cancels are not. Faults of the model are not required to happen or
not to. `WorkerSlot`: threads keep running (`Run(t)`), with all the outcomes that
`Run(t)` allows, and a reader whose worker has exited notices
(`ReaderEnds`). Calls, crashes and results are not fair: a completion that gets
no answer ends by its timeout. `ServeDispatch`: the worker's loop (`Work`), the
reader and each waiting thread keep running; clients, timeouts and crashes need
not happen. `ServeHome`: a process that lives takes its next step, a handler goes
on, and somebody starts serve again while there is a start left to make; nobody
has to shut down or be killed. `ModelInstall`: a command goes on (`Run`), and the
user pulls again while the model cannot be used (`PullAgain`); removals and
faults are bounded, so the network and the disk work in the end.

**What the liveness properties except.** `EveryCallReturns` stops where a thread
joins a reader with the slot locked (finding 1). `AcceptedIsSealed` excepts
requests that a serving process cannot see as dead (a `run`, or a write that
failed; the next start seals them) and a home that nobody starts serve on again.

**Symmetry** is used for threads in `unload_race` only, which checks an
invariant; runs with liveness use none.

Every property has a mutant in `PROJECT.json`: a definition that models code is
replaced by a plausible faulty variant (kept beside it and marked as such), and
the property fails.

## 4. Findings

1. **Join under the lock** (`join_under_lock`, `supervisor.rs:380`).
   `ensure_worker` calls `drop_live` with the slot's guard in scope; `drop_live`
   joins the reader; the reader locks the slot before it ends. An unload or a
   shutdown that overtakes a starting load freezes the supervisor: health,
   metrics, completions and shutdown all wait for the slot.
2. **A dead worker is installed** (`dead_worker_installed`, `:384`). The reader
   runs before the slot is filled. If the worker dies in between, the reader
   finds nothing to clean, ends, and the dead worker becomes `Ready`. Each later
   request is answered `WORKER_LOST` and none starts a new worker.
3. **Unload cancels admitted work** (`unload_race`, `:1334`). The decision to
   stop and the stop are separate locked sections.
4. **A reject reaches the wrong waiter** (`reject_cross_wired`, `:722`). A reject
   names a request, not the frame it answers, and goes to the cancel of that
   request first. A completion that is refused while its cancel waits gets the
   code of the failed cancel, and the cancel gets the admission code.
5. **Two starts own a home** (`two_starts`, `daemon_lock.rs:67`). The directory of
   the lock is made before its owner file. A second start that looks in between
   takes the lock for a stale one; both return from `acquire`.
6. **The journal of a live run is sealed** (`live_run_sealed`, `journal.rs:207`).
   Recovery takes every open journal for a dead process's, and `run` takes no
   lock. The run's next event then has an index that is taken: its journal no
   longer verifies, and every later start of serve fails on it.

Each contradicts what the documents or comments promise through a race in the
code. Other things the modelling met, on which no run is spent:

- A completion that reserved before `unload` is refused with `SERVICE_UNLOADED` if
  the worker is down at that moment (`supervisor.rs:365`; KIP-INFER-0013: it
  "still runs"), and health reports `unloaded` as soon as the state is `Down`, up
  to 200 ms before the process has exited (`:1252`).
- When two loads fail, neither puts `unloading` back (`:1299`;
  KIP-INFER-0014:31).
- A shutdown that overlaps a start can remove the new claimer's directory: the
  owner is checked and the directory removed in separate operations, by path.
- The ids that the supervisor makes up start again in every process (`:1453`) and
  meet the journal directories of the last one; such requests are refused until
  the counter has passed them.
- When `store_receipt` fails after `completed` is on disk, the chain gets a
  `failed` behind it; when the process dies there, `completed` stays without a
  receipt. Recovery leaves it, because the chain is sealed.
- `run` returns by `?` in places where its journal stays open until the next
  start of serve (`infer-receipt/src/run.rs:292`).
- Two pulls of different ids read and write the lockfile whole, and one can lose
  or revert the pin of the other (KIP-INFER-0002:63). A pull that dies after its
  promotion leaves a pin that does not fit the files, and an `rm` that dies between its
  two steps makes the next `rm` refuse; a repeated pull repairs both
  (`RetriesRepair`).

## 5. Proofs

The theorems below hold for every value of the constants that satisfies the
named assumptions. Each module's theorems rest on an inductive invariant.

| Module | Assumptions | Properties proved |
|---|---|---|
| `PagedKv_proofs` | `PoolAssumption`, `LengthAssumption` | all eight of `paged_kv`, among them `Spec => ImplementsKvStore`; `ReadsOwnTokens`, `Store!CommittedStays` |
| `CpuScheduler_proofs` | `PoolAssumption`, `SchedulerAssumption` | `TypeOK`, `ReservationExact`, `AdmittedNeverOom`, `StepNeverErrs`, `PositionsAgree`, `WaiterLead`, and `Spec => Lifecycle!Spec`; `EveryStepAdvances`, `WorkGoesOn`, `ServiceIsFair` |
| `WorkerSlot_proofs` | `SlotAssumption` | `TypeOK`, `OccupancyExact`, `StartingHasStarter`, `WaitersHaveReader`, `NoOrphanWorker`; `NobodyBlocked`; without unload `UnloadCancelsNothing` |
| `ServeDispatch_proofs` | `DispatchAssumption` | `TypeOK`, `OneAnswer`, `WaiterHasReply`, `AbandonedIsCancelled`, `StreamNeverContradicts`, `AckMeansCancelled`; `NeverStuck`, `CancelHasAsker` |
| `DaemonLock_proofs` | the five of `DaemonLock` and `HomeProcesses`; `~Overlap`, and for refusals `MaxTries > 1` | `OneOwner`, `OwnerOnDisk`, `RefusedOnlyByLive`; that a claim and a release end (`StartsAreWaitFree`, also with overlap) |
| `ServeHome_proofs` | those, `IdsAssumption`, `BoundsAssumption`, `RunnersAssumption`; `~Overlap`, and where journals are concerned `~Strays` | `TypeOK`, `OwnerOnDisk`, `RefusedOnlyByLive`, `JournalsVerify`, `OpenMeansHandled`, `RecoverySealsOnlyDead`, `RecordSpec`; that a handler and a recovery end (`EveryHandlerFinishes`, `EveryRecoveryFinishes`) |
| `ModelInstall_proofs` | `InstallAssumption` | `TypeOK`, `KeepsACopy`, `SuccessIsUsable`; `RepairIsBounded` |

**Pool.** `KvPool_proofs` proves that each pool operator keeps `KvConsistent`, the
conjunction of `KvTypeOK`, `KvNoSharing` and `KvNoLeak`; `PagedKv_proofs` adds the
types of the contents and `FreePagesZeroed` (`IInv`). None is inductive alone: to commit a page the table must not
already contain it, and to hand out a page with its promise of zeroes the pool
must know that it was cleared on the way in. `KvTableMatchesLength` then gives
`WriterNeverRefused`, and `Contents`, which says of every page of an open
sequence what its cells may hold, gives `ReadsOwnTokens`. That an exhausted write evicts
down to a page needs the least sequence with a page to exist; it comes from the
well-founded order of the naturals (`LowestIsMember`).

`PagesAreInvisible` is the refinement of `KvStore`, with one lemma for each
operation. `NoSharing` makes a write to a page change one vector of one sequence
(`SeenAfterWrite`); `FreePagesZeroed` makes a page that is handed out, and a
sequence that has lost its pages, read as zero; the agreement of table and length
puts the page that a commit moves into the table where readers looked for it
(`SeenAfterCommit`). `CommittedVectorsStay` follows from it: a committed vector
is the same at every later read as long as its sequence stays open.

**Scheduler.** `IInv` joins the types with the numbering of sequences, the phase
of each slot, the progress of a step, a quiet pool (lengths match, every open
sequence is active, nothing is pending), and the reservation as a set of claims:
`ReservationExact` counts the pairs of a live sequence and a page of its worst
case. `AdmittedNeverOom` is a pigeonhole argument (`RoomForLive`): if the pool were
empty, its pages would be the image of what live sequences hold, which is
strictly less than the claims, which are at most the pages. `WaiterLead` needs
the minimum rule of admission and that each step serves a sequence with the least
virtual time. `ImplementsLifecycle` is the safety half of
`ImplementsFairLifecycle`: every action maps to an action of `RequestLifecycle`
or to a stutter. Three more theorems carry what an argument for its fairness half
needs, short of ENABLED. `StepsDoWork` gives the measure: the tokens a live
request has left (`WorkLeft`, read off the pool and, by `WorkIsDue`, off the slots
too) fall by every token computed, never grow, and a step that computes none
begins or ends a chunk or a batch. `WorkAlwaysGoesOn` says that measure is
positive for each live request and that the next token has its page.
`LeastServedFirst` says who is served: no runnable request is left out for one
with a higher virtual time, and virtual time rises by exactly the price of the
tokens a request got.

**Worker slot.** `SlotInv` says which labels a thread with a hold may be at
(`Holds`), that the threads that start workers have generations of their own
(`Starters`), that the slot has a child exactly while it is `Ready` and of the
current generation (`Child`), and that the current worker has a reader
(`Readers`). No thread therefore installs over another one's worker.

`NoCallIsBlocked` is the safety half of `EveryCallReturns`: each thread inside
the supervisor has a step to take, or joins a reader that has one, or the slot is
locked by `drop_live`, which joins the reader of a worker it has killed after a
stop or a loss overtook its start. So that exception is the whole extent of
finding 1. `JoinInv` is what it takes: whoever is joined, or may still be, has
lost its worker (`Olds`, `SlotReader`), and a worker and its reader are started
together (`Paired`). `OnlyUnloadLoses` is the extent of finding 3: as long as
no thread calls unload, no completion is lost unless a worker died or the
supervisor shut down. `Peace` then keeps every worker alive, every starter the
owner of the current generation, and the slot `Ready` between `ensure_worker` and
the insertion.

**Dispatch.** The invariant has two layers. `ReplyInv` follows the frames of one
request through the socket and the channels: its submission is ahead of all its
other frames and nothing of it exists behind the submission (`Over`); the frames that
can answer (acknowledgements, rejects and unread cancels) are at least as many
as the waiters that need one (`EnoughReplies`), and no more where one too many
could reach a completion that still has a result to come (`NoStrayReply`); behind an
acknowledgement only a cancelled result follows (`Acks`). Counting is needed
because a reject names a request and not the frame it answers, so which waiter it
reaches depends on how many are in front of it. `StreamInv` is inductive
relative to `ReplyInv`: what a stream has read (`FirstIndex`), what its channel
holds (`MailboxOf`), what is on the socket (`Consecutive`) and what the worker
has produced are consecutive (`Follows`). `StreamNeverContradicts` follows from
it, and `AckMeansCancelled` from both layers.

`SomebodyCanMove` is the safety half of `EveryWaiterAnswered`: while a
completion or a cancel waits, the worker, the reader or a waiting thread has a
step. It rests on `EnoughReplies` and on `IdleInv`, that a worker that
blocks has nothing to do. `CancelledWasAsked` is the extent of finding 4: the code of
a failed cancel, and the result "cancelled", only reach a completion that
somebody asked to cancel. `CauseInv` follows the cancel through the channels and
the worker.

In these theorems "has a step to take" is written out as the guards of the
actions (`ThreadMay`, `ReaderMay`, `WorkerMay`, `ReceiverMay`), because ENABLED is
beyond the prover; on the runs' instances they equal ENABLED of the actions that
the fairness names.

**Home.** `OwnerInv` orders the processes: while no two claims overlap, a process
at a step that names the owner finds its own name on disk, and `ClaimInv` says
what a claim has read. `HomeInv` adds that each journal is the set of prefixes of
one chain (`FilesOf`), that a live handle's chain is that chain, and that
recovery's `found` is. From it follow the journal's properties and
`ImplementsRecord`, the refinement of `RequestRecord`.

Three theorems are the safety half of `AcceptedIsSealed`, each by a measure of the
steps that are left. `StartsAreWaitFree`: a claim gets its answer, and a release
ends, after at most `4 * MaxTries + 9` operations of the process's own; no step of
another process adds one, whatever it makes of the directory, so this needs
neither `~Overlap` nor an invariant beyond the types. `EveryHandlerFinishes`: each
step of a handler lowers its measure, from `MaxTokens + 8` at most, and when the
handler closes, its journal is sealed, or a write to it has failed, or it was a
`run`. `EveryRecoveryFinishes`: each step of a recovery lowers its measure, from
`2 * Cardinality(dirs) + 2`, and nothing else that happens meanwhile changes it; the
recovery gives up only at a journal that could not be written, never on one it
cannot read or finds gone. Its invariant, `ListInv`, says that what is on the list
is there. That the steps are taken is the fairness, and stays with TLC.

**Installation.** `IInv` adds to the types that a pull has a row, that models is
empty exactly while a promotion has set it aside, and where the copy of an
installed model is. `RepairTakesFewSteps` is the safety half of `RetriesRepair`. Its
measure, `ToGo`, is the number of steps to the pin if the staged file begins as
the row's does, and one whole pull more if it does not: the first pull then ends
by throwing that file away. Each step without a fault lowers the measure or makes
the model usable, the commands on other ids leave it alone, and it is never above
`2 * Size + 26`. What stays with TLC is that the steps are taken.

**Only model-checked.** Liveness under fairness and ENABLED are out of the
prover's reach: `EveryCallReturns`, `EveryWaiterAnswered`, `AcceptedIsSealed`,
`RetriesRepair` and the fairness half of `ImplementsFairLifecycle`. Every other property of a
passing run is proved.

## 6. What is not modelled

The map covers the parts of the repository whose state is shared or survives a
crash. Most of the other lines are sequential and keep no state between
calls; what they compute is data to the models, and a TLA+ version would
repeat them line by line.

- *Contracts and canonical CBOR* (`infer-contracts`): type definitions with field-by-field
  validators and digests. The models use only that a digest pins a chain.
- *Release measurement reports* (about a hundred `measure_*` and evidence modules
  of `infer-artifact` and `infer-contracts`): each reads files and writes one report.
- *Artifact import, conversion and verification* (GGUF and safetensors parsers,
  encoders, `pull` of a pinned alias): one file at a time; `ModelInstall` uses
  their verdict.
- *Adapters and numerics, native code, FFI:* tensor arithmetic. `CpuScheduler`
  keeps the order of their cache writes and commits.
- *Prompts and tokenizer, HTTP parsing, OpenAI mapping, CLI, TypeScript:* one
  request on one thread, formatting.
- *Sampler and greedy loop:* a token is a choice in `CpuScheduler`.
- *Single-block KV oracle:* the reference store of the pool's tests.
- *Statistics* of the scheduler, the pool and the worker; *prefill events* on the
  socket, which feed the trace only.
- *Trace and metrics:* an append-only file per request with one writer, and
  counters. *Frame decoder:* a buffer with one owner; the models see whole frames.
- Inside modelled components: two commands on the same model id at the same time
  (they share a staging file), pins made by `model pin`, symlinks or files in the
  place of the lock's directory.

## 7. Plan

Done: `KvPool` and `PagedKv` with every safety property proved, refining
`KvStore`; `CpuScheduler`
over it, refining `RequestLifecycle`, with every safety property proved;
`WorkerSlot` and `ServeDispatch` with their safety properties proved; `DaemonLock`,
`RequestJournal` and their composition `ServeHome`, refining `RequestRecord`,
with every safety property proved; `ModelInstall` with its safety properties
proved.

Left, in this order:

1. `TraceFile` (the finalize record is the last line) and `FrameDecoder` (a
   stream cut at any byte gives the frames of the whole stream).
2. Two pulls of the same id, which share one staging file.
