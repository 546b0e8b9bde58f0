---------------------------- MODULE CpuScheduler ----------------------------
(***************************************************************************)
(* The continuous scheduler of crates/infer-engine/src/schedule.rs, driving *)
(* one model and one page pool. A scheduler step is one prefill chunk or    *)
(* one decode batch; both are cut here into one action per token or row,    *)
(* and no call of another kind is accepted until the step is over, because  *)
(* `step` holds the scheduler exclusively.                                  *)
(*                                                                          *)
(* Sequences are numbered from 1 as requests are admitted and are not used  *)
(* again. The fields of a Slot are functions of the sequence (phase,        *)
(* prompt_cursor, ...) and the boolean fields are the set of sequences for  *)
(* which they are true (cancel, holding_pages, kv_open, needs_forward).     *)
(* A forward or sampling error is an outcome any token may have.            *)
(***************************************************************************)
EXTENDS KvPool

CONSTANTS
  Requests,       \* request ids
  Shapes,         \* of each request: the [prompt, max, class] it may have
  MaxContext,     \* config.max_context_tokens
  PrefillChunk    \* config.prefill_chunk_tokens

Weight == [interactive |-> 8, standard |-> 4, batch |-> 2, background |-> 1]
ClassScale == 8

ASSUME SchedulerAssumption ==
  /\ Sequences \subseteq Nat \ {0}
  /\ MaxContext \in Nat \ {0}
  /\ PrefillChunk \in Nat \ {0}
  /\ Shapes \in [Requests -> SUBSET [prompt : Nat \ {0}, max : Nat \ {0}, class : DOMAIN Weight]]

VARIABLES
  ids,            \* sequence of each admitted request, NoSequence for none
  next_sequence, reserved_pages,
  order,          \* the shape each sequence was admitted with
  phase, prompt_cursor, output, vtime, finish,
  cancel, holding_pages, kv_open, needs_forward,
  kv,
  chunk,          \* prefill step in progress: its sequence and tokens left
  batch           \* decode step in progress: rows still to serve

NoSequence == 0
NoShape == [prompt |-> 0, max |-> 0, class |-> "background"]
NoChunk == [sequence |-> NoSequence, left |-> 0]

pool == <<reserved_pages, holding_pages, kv_open, kv>>
service == <<order, prompt_cursor, output, vtime, needs_forward>>
vars == <<ids, next_sequence, phase, finish, cancel, pool, service, chunk, batch>>

(* Pages reserved for the worst case of a shape.                            *)
PageNeed(shape) == (shape.prompt + shape.max + BlockSize - 1) \div BlockSize

CostPerToken(s) == ClassScale \div Weight[order[s].class]

Live == {s \in Sequences : phase[s] \in {"queued", "prefilling", "decoding"}}
Runnable == Live \ cancel
AwaitsPrefill == {s \in Runnable : phase[s] \in {"queued", "prefilling"}}

Sooner(s, t) == vtime[s] < vtime[t] \/ (vtime[s] = vtime[t] /\ s <= t)
First(S) == CHOOSE s \in S : \A t \in S : Sooner(s, t)

LowestVtime(S) ==
  IF S = {} THEN 0 ELSE vtime[CHOOSE s \in S : \A t \in S : vtime[s] <= vtime[t]]

BetweenSteps == chunk = NoChunk /\ batch = {}

Init ==
  /\ ids = [r \in Requests |-> NoSequence]
  /\ next_sequence = 0
  /\ reserved_pages = 0
  /\ order = [s \in Sequences |-> NoShape]
  /\ phase = [s \in Sequences |-> "absent"]
  /\ prompt_cursor = [s \in Sequences |-> 0]
  /\ output = [s \in Sequences |-> 0]
  /\ vtime = [s \in Sequences |-> 0]
  /\ finish = [s \in Sequences |-> "none"]
  /\ cancel = {} /\ holding_pages = {} /\ kv_open = {} /\ needs_forward = {}
  /\ kv = KvEmpty
  /\ chunk = NoChunk /\ batch = {}

-----------------------------------------------------------------------------
(* admit: the id is free, the context fits and the pool can take the worst  *)
(* case. A refused request changes nothing but counters.                    *)
Admissible(r, shape) ==
  /\ ids[r] = NoSequence
  /\ shape.prompt + shape.max <= MaxContext
  /\ reserved_pages + PageNeed(shape) <= PageCount

(* Faulty variant: a new request starts at virtual time zero.               *)
ZeroVtime == 0

AdmissionVtime == LowestVtime(Runnable)

Submit(r, shape) ==
  LET s == next_sequence + 1
  IN  /\ BetweenSteps
      /\ s \in Sequences
      /\ Admissible(r, shape)
      /\ ids' = [ids EXCEPT ![r] = s]
      /\ next_sequence' = s
      /\ reserved_pages' = reserved_pages + PageNeed(shape)
      /\ holding_pages' = holding_pages \cup {s}
      /\ order' = [order EXCEPT ![s] = shape]
      /\ vtime' = [vtime EXCEPT ![s] = AdmissionVtime]
      /\ phase' = [phase EXCEPT ![s] = "queued"]
      /\ UNCHANGED <<finish, cancel, kv_open, kv, prompt_cursor, output,
                     needs_forward, chunk, batch>>

(* Faulty variant: a finished request can be cancelled.                     *)
CancelFinished(r) ==
  /\ BetweenSteps
  /\ ids[r] # NoSequence
  /\ cancel' = cancel \cup {ids[r]}
  /\ UNCHANGED <<ids, next_sequence, phase, finish, pool, service, chunk, batch>>

Cancel(r) ==
  /\ BetweenSteps
  /\ ids[r] \in Runnable
  /\ cancel' = cancel \cup {ids[r]}
  /\ UNCHANGED <<ids, next_sequence, phase, finish, pool, service, chunk, batch>>

(* Faulty variant: the token is aborted but the pages stay.                 *)
KvKept(s) == IF s \in kv_open THEN KvAbort(kv, s) ELSE kv

(* release_kv: the open token is aborted and the sequence released.         *)
KvRetired(s) == IF s \in kv_open THEN KvRelease(KvAbort(kv, s), s) ELSE kv

(* Faulty variant: the reservation is not returned.                         *)
ReservationKept(s) == reserved_pages

(* release_pages: the whole worst case goes back, used or not.              *)
ReservationWithout(s) ==
  IF s \in holding_pages THEN reserved_pages - PageNeed(order[s]) ELSE reserved_pages

Retire(s, why) ==
  /\ kv' = KvRetired(s)
  /\ kv_open' = kv_open \ {s}
  /\ reserved_pages' = ReservationWithout(s)
  /\ holding_pages' = holding_pages \ {s}
  /\ phase' = [phase EXCEPT ![s] = "done"]
  /\ finish' = [finish EXCEPT ![s] = why]
  /\ cancel' = cancel \ {s}

(* Faulty variant: a request cancelled before its first chunk is missed.    *)
StartedCancels == {s \in Live \cap cancel : phase[s] # "queued"}

PendingCancels == Live \cap cancel

ServeCancel ==
  /\ BetweenSteps
  /\ PendingCancels # {}
  /\ Retire(Lowest(PendingCancels), "cancelled")
  /\ UNCHANGED <<ids, next_sequence, service, chunk, batch>>

-----------------------------------------------------------------------------
Chunk(s) ==
  LET remaining == order[s].prompt - prompt_cursor[s]
  IN  IF remaining < PrefillChunk THEN remaining ELSE PrefillChunk

StartPrefill ==
  LET s == First(Runnable)
  IN  /\ BetweenSteps
      /\ PendingCancels = {} /\ Runnable # {}
      /\ phase[s] # "decoding"
      /\ kv' = IF s \in kv_open THEN kv ELSE KvBegin(kv, s)
      /\ kv_open' = kv_open \cup {s}
      /\ chunk' = [sequence |-> s, left |-> Chunk(s)]
      /\ UNCHANGED <<ids, next_sequence, phase, finish, cancel, reserved_pages,
                     holding_pages, service, batch>>

(* One forward pass: the token's vectors are written and the token commits. *)
Forward(s) == KvCommit(KvWrite(kv, s), s)

PrefillToken ==
  LET s == chunk.sequence
  IN  /\ chunk.left > 0
      /\ WriteFits(kv, s)
      /\ kv' = Forward(s)
      /\ chunk' = [sequence |-> s, left |-> chunk.left - 1]
      /\ UNCHANGED <<ids, next_sequence, phase, finish, cancel, reserved_pages,
                     holding_pages, kv_open, service, batch>>

(* Faulty variant: a chunk always counts as a full one.                     *)
FullChunk(s) == prompt_cursor[s] + PrefillChunk

CursorAfter(s) == prompt_cursor[s] + Chunk(s)

(* add_service: tokens cost in inverse proportion to the class weight.      *)
ServiceCost(s, tokens) == tokens * CostPerToken(s)

PrefillEnds ==
  LET s == chunk.sequence
  IN  /\ chunk # NoChunk /\ chunk.left = 0
      /\ prompt_cursor' = [prompt_cursor EXCEPT ![s] = CursorAfter(s)]
      /\ phase' = [phase EXCEPT ![s] =
           IF CursorAfter(s) = order[s].prompt THEN "decoding" ELSE "prefilling"]
      /\ needs_forward' = IF CursorAfter(s) = order[s].prompt
                          THEN needs_forward \ {s} ELSE needs_forward
      /\ vtime' = [vtime EXCEPT ![s] = @ + ServiceCost(s, Chunk(s))]
      /\ chunk' = NoChunk
      /\ UNCHANGED <<ids, next_sequence, finish, cancel, pool, order, output, batch>>

-----------------------------------------------------------------------------
(* Faulty variant: rows at the bound are left out.                          *)
StrictBatch ==
  {s \in Runnable : phase[s] = "decoding" /\
     \A p \in AwaitsPrefill : vtime[s] < vtime[p]}

(* decode_batch: decoding rows no waiting prefill is ahead of.              *)
DecodeBatch ==
  {s \in Runnable : phase[s] = "decoding" /\
     \A p \in AwaitsPrefill : vtime[s] <= vtime[p]}

StartDecode ==
  /\ BetweenSteps
  /\ PendingCancels = {} /\ Runnable # {}
  /\ phase[First(Runnable)] = "decoding"
  /\ batch' = DecodeBatch
  /\ UNCHANGED <<ids, next_sequence, phase, finish, cancel, pool, service, chunk>>

(* The first token is sampled from the prefill logits; every later one      *)
(* needs the previous token's forward pass.                                 *)
RowFits(s) == s \in needs_forward => WriteFits(kv, s)

(* Faulty variant: the first token is run through the model as well.        *)
ForwardAlways(s) == Forward(s)

ForwardedKv(s) == IF s \in needs_forward THEN Forward(s) ELSE kv

Sampled(s) ==
  /\ output' = [output EXCEPT ![s] = @ + 1]
  /\ vtime' = [vtime EXCEPT ![s] = @ + ServiceCost(s, 1)]
  /\ batch' = batch \ {s}

DecodeRow ==
  LET s == First(batch)
  IN  /\ batch # {}
      /\ RowFits(s)
      /\ output[s] + 1 # order[s].max
      /\ kv' = ForwardedKv(s)
      /\ Sampled(s)
      /\ needs_forward' = needs_forward \cup {s}
      /\ UNCHANGED <<ids, next_sequence, phase, finish, cancel, reserved_pages,
                     holding_pages, kv_open, order, prompt_cursor, chunk>>

(* The sampled token ends the sequence: an end-of-sequence id gives "stop"  *)
(* even when it is also the last of the budget. The forward pass before it  *)
(* needs no trace in kv, which drops the whole sequence.                    *)
EndReasons(s) == {"stop"} \cup (IF output[s] + 1 = order[s].max THEN {"length"} ELSE {})

DecodeLastRow ==
  LET s == First(batch)
  IN  /\ batch # {}
      /\ RowFits(s)
      /\ \E why \in EndReasons(s) : Retire(s, why)
      /\ Sampled(s)
      /\ needs_forward' = needs_forward \ {s}
      /\ UNCHANGED <<ids, next_sequence, order, prompt_cursor, chunk>>

(* The sequence the step in progress is computing for.                      *)
Serving == IF batch # {} THEN First(batch) ELSE chunk.sequence

Fits(s) == IF batch # {} THEN RowFits(s) ELSE chunk.left > 0 => WriteFits(kv, s)

(* A failing token retires its sequence and ends the step; a page that      *)
(* cannot be reserved is INSUFFICIENT_MEMORY, everything else is a fault of *)
(* the model or the sampler.                                                *)
StepFails ==
  /\ batch # {} \/ chunk.left > 0
  /\ Retire(Serving, IF Fits(Serving) THEN "fault" ELSE "memory")
  /\ chunk' = NoChunk /\ batch' = {}
  /\ UNCHANGED <<ids, next_sequence, service>>

(* reap: the finished slot and its request id are dropped.                  *)
Reap(r) ==
  LET s == ids[r]
  IN  /\ BetweenSteps
      /\ s \in Sequences /\ phase[s] = "done"
      /\ s \notin holding_pages \cup kv_open
      /\ ids' = [ids EXCEPT ![r] = NoSequence]
      /\ phase' = [phase EXCEPT ![s] = "absent"]
      /\ finish' = [finish EXCEPT ![s] = "none"]
      /\ order' = [order EXCEPT ![s] = NoShape]
      /\ prompt_cursor' = [prompt_cursor EXCEPT ![s] = 0]
      /\ output' = [output EXCEPT ![s] = 0]
      /\ vtime' = [vtime EXCEPT ![s] = 0]
      /\ needs_forward' = needs_forward \ {s}
      /\ UNCHANGED <<next_sequence, cancel, pool, chunk, batch>>

-----------------------------------------------------------------------------
Step ==
  \/ ServeCancel
  \/ StartPrefill \/ PrefillToken \/ PrefillEnds
  \/ StartDecode \/ DecodeRow \/ DecodeLastRow
  \/ StepFails

Next ==
  \/ Step
  \/ \E r \in Requests :
       \/ Cancel(r)
       \/ Reap(r)
       \/ \E shape \in Shapes[r] : Submit(r, shape)

Spec == Init /\ [][Next]_vars

(* The worker loop steps the scheduler while there is work and reaps what   *)
(* has finished after every step.                                           *)
FairSpec ==
  /\ Spec
  /\ WF_vars(Step)
  /\ \A r \in Requests : WF_vars(Reap(r))

-----------------------------------------------------------------------------
(* Every variable has its type.                                             *)
TypeOK ==
  /\ ids \in [Requests -> Sequences \cup {NoSequence}]
  /\ next_sequence \in Sequences \cup {NoSequence}
  /\ reserved_pages \in 0 .. PageCount
  /\ order \in [Sequences -> (UNION Range(Shapes)) \cup {NoShape}]
  /\ phase \in [Sequences -> {"absent", "queued", "prefilling", "decoding", "done"}]
  /\ finish \in [Sequences -> {"none", "stop", "length", "cancelled", "fault", "memory"}]
  /\ prompt_cursor \in [Sequences -> Nat]
  /\ output \in [Sequences -> Nat]
  /\ vtime \in [Sequences -> Nat]
  /\ cancel \subseteq Sequences /\ holding_pages \subseteq Sequences
  /\ kv_open \subseteq Sequences /\ needs_forward \subseteq Sequences
  /\ KvTypeOK(kv)
  /\ chunk \in [sequence : Sequences \cup {NoSequence}, left : 0 .. PrefillChunk]
  /\ batch \subseteq Sequences

(* A claim is one page of the worst case of one admitted request.           *)
ClaimsOf(s) == {s} \X (1 .. PageNeed(order[s]))
Claims == UNION {ClaimsOf(s) : s \in Live}

(* The reservation is the worst case of the admitted requests, no more and  *)
(* no less, and every sequence stays within its share. An admission counted *)
(* twice, or a retirement that forgets one, shows here.                     *)
ReservationExact ==
  /\ holding_pages = Live
  /\ reserved_pages = Cardinality(Claims)
  /\ \A s \in Sequences :
       Cardinality(Held(kv, s)) <= IF s \in Live THEN PageNeed(order[s]) ELSE 0

(* An admitted request never runs out of pages: admission is the only place *)
(* that answers INSUFFICIENT_MEMORY.                                        *)
AdmittedNeverOom == \A s \in Sequences : finish[s] # "memory"

(* The conditions under which `step` would return an error, and so take the *)
(* worker down, never hold: an empty decode batch or prefill chunk, a       *)
(* decode without its last token or its logits, a context overrun, a        *)
(* reservation underflow, or a slot and a pool that disagree on which       *)
(* sequences are open.                                                      *)
StepNeverErrs ==
  /\ BetweenSteps /\ Runnable # {} /\ phase[First(Runnable)] = "decoding"
       => DecodeBatch # {}
  /\ \A s \in Live :
       /\ phase[s] \in {"queued", "prefilling"} => prompt_cursor[s] < order[s].prompt
       /\ s \in needs_forward => output[s] > 0 /\ s \in kv_open
       /\ phase[s] = "decoding" /\ s \notin needs_forward => output[s] = 0
       /\ kv.table[s].len <= MaxContext
  /\ \A s \in holding_pages : PageNeed(order[s]) <= reserved_pages
  /\ kv_open = kv.open

(* The cached length is the position of the next token. While the prompt is *)
(* being read it is the cursor plus the part of the running chunk already   *)
(* computed; while decoding it is one behind the tokens produced, because   *)
(* the last sampled token has not been through the model yet.               *)
PositionsAgree ==
  \A s \in Live :
    kv.table[s].len =
      IF phase[s] = "decoding"
      THEN order[s].prompt + (IF output[s] = 0 THEN 0 ELSE output[s] - 1)
      ELSE prompt_cursor[s] + (IF chunk.sequence = s THEN Chunk(s) - chunk.left ELSE 0)

(* A sequence that waits for prefill has never been served more than one    *)
(* chunk ahead of any other runnable sequence, in weighted service.         *)
WaiterLead ==
  \A p \in AwaitsPrefill, s \in Runnable :
    vtime[p] <= vtime[s] + PrefillChunk * CostPerToken(p)

-----------------------------------------------------------------------------
(* The refinement mapping to RequestLifecycle.                              *)
StageOf(r) ==
  LET s == ids[r]
  IN  IF s = NoSequence THEN "none"
      ELSE IF s \in cancel THEN "cancelling"
      ELSE IF s \in Live THEN "active"
      ELSE IF finish[s] \in {"fault", "memory"} THEN "error"
      ELSE finish[s]

Lifecycle ==
  INSTANCE RequestLifecycle WITH
    MaxBudget <- MaxContext,
    stage <- [r \in Requests |-> StageOf(r)],
    budget <- [r \in Requests |->
                 IF ids[r] = NoSequence THEN 0 ELSE order[ids[r]].max],
    produced <- [r \in Requests |->
                   IF ids[r] = NoSequence THEN 0 ELSE output[ids[r]]]

(* The scheduler keeps the promise of RequestLifecycle: one step moves one  *)
(* request, tokens stay in the budget, a cancelled request falls silent and *)
(* ends as cancelled, the result is kept until it is reaped, and with a     *)
(* worker that keeps stepping no admitted request is left behind.           *)
ImplementsFairLifecycle == Lifecycle!FairSpec
=============================================================================
