--------------------------- MODULE ServeDispatch ---------------------------
(***************************************************************************)
(* One request's way from an HTTP thread to the worker and back            *)
(* (crates/infer-serve/src/supervisor.rs and worker.rs). The threads that  *)
(* complete and cancel, the reader thread that dispatches what the worker  *)
(* sends, and the worker loop are joined by the two directions of one      *)
(* socket and by a channel to each waiting thread. All are FIFO.           *)
(*                                                                         *)
(* The worker's scheduler is seen as CpuScheduler promises it: a step      *)
(* serves one cancel, or one token of some active requests of which some   *)
(* end and at most one fails. Request ids are not used twice: the journal  *)
(* directory of an id is created before its submission and stays.          *)
(* Prefill progress and statistics are left out.                           *)
(***************************************************************************)
EXTENDS Naturals, FiniteSets, SequencesExt

CONSTANTS
  Requests,      \* ids of the completions
  Streaming,     \* those that stream their tokens
  Cancellers,    \* threads that serve the cancel endpoint
  MaxInflight,   \* MAX_INFLIGHT
  Budget,        \* the tokens each may produce: max_output_tokens
  MaxCrashes     \* bound on the workers that die

None == "none"

ASSUME DispatchAssumption ==
  /\ Streaming \subseteq Requests /\ IsFiniteSet(Requests)
  /\ None \notin Requests \cup Cancellers
  /\ Budget \in [Requests -> Nat \ {0}]
  /\ MaxInflight \in Nat \ {0} /\ MaxCrashes \in Nat

VARIABLES
  completion,   \* requests whose completion waits
  cancel,       \* the thread that waits for the cancel of each request
  state,        \* of the slot: "ready" or "down"
  toWorker, fromWorker,
  alive, phase, stage, produced,      \* the worker and its scheduler
  mailbox, pc, seen, answer,          \* each completion's channel and thread
  target, reply,                      \* each canceller's request and answer
  crashes

slot == <<completion, cancel, state>>
worker == <<alive, phase, stage, produced>>
clients == <<mailbox, pc, seen, answer>>
cancellers == <<target, reply>>
vars == <<slot, toWorker, fromWorker, worker, clients, cancellers, crashes>>

Message(kind, r, value) == [kind |-> kind, request |-> r, value |-> value]
SubmitFrame(r) == Message("submit", r, None)
CancelFrame(r) == Message("cancel", r, None)
Admitted(r) == Message("admitted", r, None)
Delta(r, index) == Message("delta", r, index)
Result(r, finish, tokens) == Message("result", r, [finish |-> finish, tokens |-> tokens])
Reject(r, code) == Message("reject", r, code)
Ack(r) == Message("ack", r, None)
Lost(r) == Message("lost", r, None)

Init ==
  /\ completion = {} /\ cancel = [r \in Requests |-> None] /\ state = "ready"
  /\ toWorker = << >> /\ fromWorker = << >>
  /\ alive = TRUE /\ phase = "drain"
  /\ stage = [r \in Requests |-> None]
  /\ produced = [r \in Requests |-> 0]
  /\ mailbox = [r \in Requests |-> << >>]
  /\ pc = [r \in Requests |-> "idle"]
  /\ seen = [r \in Requests |-> 0]
  /\ answer = [r \in Requests |-> None]
  /\ target = [c \in Cancellers |-> None]
  /\ reply = [c \in Cancellers |-> None]
  /\ crashes = 0

-----------------------------------------------------------------------------
(* The thread of a completion. With its answer it drops its channel.        *)
Answer(r, result) ==
  /\ pc' = [pc EXCEPT ![r] = "done"]
  /\ answer' = [answer EXCEPT ![r] = result]
  /\ mailbox' = [mailbox EXCEPT ![r] = << >>]
  /\ seen' = [seen EXCEPT ![r] = 0]

(* ensure_worker, seen from here: a worker that was lost is replaced by one *)
(* that has never heard of any request.                                     *)
Restart(r) ==
  /\ pc[r] = "idle" /\ state = "down"
  /\ state' = "ready"
  /\ alive' = TRUE
  /\ UNCHANGED <<completion, cancel, toWorker, fromWorker, phase, stage, produced,
                 clients, cancellers, crashes>>

(* submit: the waiter is inserted and the frame written under one lock.     *)
Submit(r) ==
  /\ pc[r] = "idle" /\ state = "ready"
  /\ Cardinality(completion) < MaxInflight /\ alive
  /\ completion' = completion \cup {r}
  /\ toWorker' = Append(toWorker, SubmitFrame(r))
  /\ pc' = [pc EXCEPT ![r] = IF r \in Streaming THEN "admit" ELSE "await"]
  /\ UNCHANGED <<cancel, state, fromWorker, worker, mailbox, seen, answer,
                 cancellers, crashes>>

SubmitFails(r) ==
  /\ pc[r] = "idle" /\ state = "ready"
  /\ \/ Cardinality(completion) >= MaxInflight /\ Answer(r, "busy")
     \/ Cardinality(completion) < MaxInflight /\ ~alive /\ Answer(r, "lost")
  /\ UNCHANGED <<slot, toWorker, fromWorker, worker, cancellers, crashes>>

(* Faulty variant: the worker is not told.                                  *)
ForgetOnly(r) == completion' = completion \ {r} /\ UNCHANGED toWorker

Abandon(r) ==
  /\ completion' = completion \ {r}
  /\ toWorker' = IF alive THEN Append(toWorker, CancelFrame(r)) ELSE toWorker

(* The total deadline of a buffered completion, looked at before each       *)
(* receive, and the deadline of one event of a stream.                      *)
TimesOut(r) ==
  /\ pc[r] \in {"await", "admit", "pump"}
  /\ pc[r] # "await" => mailbox[r] = << >>
  /\ Abandon(r)
  /\ Answer(r, "timeout")
  /\ UNCHANGED <<cancel, state, fromWorker, worker, cancellers, crashes>>

(* The client of a stream is gone: a write to it failed.                    *)
StreamBreaks(r) ==
  /\ pc[r] = "pump"
  /\ Abandon(r)
  /\ Answer(r, "gone")
  /\ UNCHANGED <<cancel, state, fromWorker, worker, cancellers, crashes>>

Terminal(m) == m.kind \in {"result", "reject", "lost"}

(* What the terminal event says to the client. A stream expects no result   *)
(* before the admission and compares the result with what it has passed on. *)
Mismatch(r, m) ==
  \/ pc[r] = "admit"
  \/ pc[r] = "pump" /\ m.value.finish # "error" /\ m.value.tokens # seen[r]

AnswerOf(r, m) ==
  CASE m.kind = "lost" -> "lost"
    [] m.kind = "reject" -> m.value
    [] m.kind = "result" -> IF Mismatch(r, m) THEN "protocol" ELSE m.value.finish

(* A stream that ends in an error, or cannot write its end, abandons its    *)
(* request again.                                                           *)
ReceiveTerminal(r) ==
  /\ pc[r] \in {"await", "admit", "pump"} /\ mailbox[r] # << >>
  /\ LET m == Head(mailbox[r])
     IN  /\ Terminal(m)
         /\ Answer(r, AnswerOf(r, m))
         /\ \/ pc[r] = "pump" /\ Abandon(r)
            \/ /\ pc[r] # "pump" \/ AnswerOf(r, m) \in {"finished", "cancelled"}
               /\ UNCHANGED <<completion, toWorker>>
  /\ UNCHANGED <<cancel, state, fromWorker, worker, cancellers, crashes>>

(* A stream accepts first the admission, then tokens in order.              *)
Expected(r, m) ==
  CASE pc[r] = "admit" -> m.kind = "admitted"
    [] pc[r] = "pump" -> m.kind = "delta" /\ m.value = seen[r]
    [] OTHER -> TRUE

ReceiveProgress(r) ==
  /\ pc[r] \in {"await", "admit", "pump"} /\ mailbox[r] # << >>
  /\ ~Terminal(Head(mailbox[r]))
  /\ IF Expected(r, Head(mailbox[r]))
     THEN /\ mailbox' = [mailbox EXCEPT ![r] = Tail(@)]
          /\ seen' = IF pc[r] = "pump" THEN [seen EXCEPT ![r] = @ + 1] ELSE seen
          /\ pc' = [pc EXCEPT ![r] = IF @ = "admit" THEN "pump" ELSE @]
          /\ UNCHANGED <<completion, toWorker, answer>>
     ELSE Abandon(r) /\ Answer(r, "protocol")
  /\ UNCHANGED <<cancel, state, fromWorker, worker, cancellers, crashes>>

-----------------------------------------------------------------------------
(* The thread of a cancel request. One that is refused changes nothing.     *)
CancelRequest(c, r) ==
  /\ target[c] = None
  /\ r \in completion /\ cancel[r] = None /\ alive
  /\ target' = [target EXCEPT ![c] = r]
  /\ cancel' = [cancel EXCEPT ![r] = c]
  /\ toWorker' = Append(toWorker, CancelFrame(r))
  /\ UNCHANGED <<completion, state, fromWorker, worker, clients, reply, crashes>>

(* The waiter of a cancel that times out stays in the slot.                 *)
CancelTimesOut(c) ==
  /\ target[c] # None /\ reply[c] = None
  /\ reply' = [reply EXCEPT ![c] = "timeout"]
  /\ UNCHANGED <<slot, toWorker, fromWorker, worker, clients, target, crashes>>

-----------------------------------------------------------------------------
(* The worker. drain: every buffered frame is handled before a step.        *)
Active == {r \in Requests : stage[r] = "active"}
Cancelling == {r \in Requests : stage[r] = "cancelling"}

(* Faulty variant: a refused submission is not answered.                    *)
SilentRefusal(r, admitted) == IF admitted THEN <<Admitted(r)>> ELSE << >>

SubmitReply(r, admitted) == IF admitted THEN <<Admitted(r)>> ELSE <<Reject(r, "admission")>>

HandleSubmit ==
  /\ alive /\ phase = "drain" /\ toWorker # << >>
  /\ Head(toWorker).kind = "submit"
  /\ LET r == Head(toWorker).request
     IN  \E admitted \in BOOLEAN :
           /\ stage' = IF admitted THEN [stage EXCEPT ![r] = "active"] ELSE stage
           /\ fromWorker' = fromWorker \o SubmitReply(r, admitted)
  /\ toWorker' = Tail(toWorker)
  /\ UNCHANGED <<slot, alive, phase, produced, clients, cancellers, crashes>>

(* Faulty variant: a cancel of an unknown request is acknowledged.          *)
AlwaysCancellable(r) == TRUE

(* scheduler.cancel refuses what is unknown, finished or already cancelled. *)
Cancellable(r) == r \in Active

HandleCancel ==
  /\ alive /\ phase = "drain" /\ toWorker # << >>
  /\ Head(toWorker).kind = "cancel"
  /\ LET r == Head(toWorker).request
     IN  /\ stage' = IF Cancellable(r) /\ r \in Active
                     THEN [stage EXCEPT ![r] = "cancelling"] ELSE stage
         /\ fromWorker' = Append(fromWorker,
              IF Cancellable(r) THEN Ack(r) ELSE Reject(r, "contract"))
  /\ toWorker' = Tail(toWorker)
  /\ UNCHANGED <<slot, alive, phase, produced, clients, cancellers, crashes>>

(* Nothing came within the poll: on to the step.                            *)
Drained ==
  /\ alive /\ phase = "drain" /\ toWorker = << >>
  /\ phase' = "step"
  /\ UNCHANGED <<slot, toWorker, fromWorker, alive, stage, produced, clients,
                 cancellers, crashes>>

(* Faulty variant: the results of a step are reported before its tokens.    *)
ResultsFirst(deltas, results) == fromWorker' = fromWorker \o results \o deltas

Report(deltas, results) == fromWorker' = fromWorker \o deltas \o results

(* report_new sends the result of everything that is done and reaps it.     *)
Reaped(done, tokens) ==
  /\ stage' = [r \in Requests |-> IF r \in done THEN None ELSE stage[r]]
  /\ produced' = [r \in Requests |-> IF r \in done THEN 0 ELSE tokens[r]]

StepCancel ==
  /\ alive /\ phase = "step"
  /\ \E r \in Cancelling :
       /\ Reaped({r}, produced)
       /\ Report(<< >>, <<Result(r, "cancelled", produced[r])>>)
  /\ phase' = "drain"
  /\ UNCHANGED <<slot, toWorker, alive, clients, cancellers, crashes>>

(* Faulty variant: a request runs past its budget.                          *)
NeverOutOfBudget(rows) == {}

OutOfBudget(rows) == {r \in rows : produced[r] + 1 = Budget[r]}

Tokens(rows, r) == produced[r] + (IF r \in rows THEN 1 ELSE 0)

Deltas(row) == [i \in 1 .. Len(row) |-> Delta(row[i], produced[row[i]])]

Results(rows, failing, done) ==
  [i \in 1 .. Len(done) |->
     Result(done[i], IF done[i] \in failing THEN "error" ELSE "finished",
            Tokens(rows, done[i]))]

Batch(rows, failing, done) ==
  /\ Reaped(done, [r \in Requests |-> Tokens(rows, r)])
  /\ Report(Deltas(SetToSeq(rows)), Results(rows, failing, SetToSeq(done)))

StepBatch ==
  /\ alive /\ phase = "step" /\ Cancelling = {}
  /\ \E rows \in SUBSET Active :
     \E failing \in {{}} \cup {{r} : r \in Active \ rows} :
     \E ended \in SUBSET rows :
       /\ rows \cup failing # {}
       /\ OutOfBudget(rows) \subseteq ended
       /\ Batch(rows, failing, ended \cup failing)
  /\ phase' = "drain"
  /\ UNCHANGED <<slot, toWorker, alive, clients, cancellers, crashes>>

(* Faulty variant: the worker waits for a frame although it has work.       *)
WaitsAlways == TRUE

NothingToDo == Active \cup Cancelling = {}

StepNothing ==
  /\ alive /\ phase = "step" /\ NothingToDo
  /\ phase' = "block"
  /\ UNCHANGED <<slot, toWorker, fromWorker, alive, stage, produced, clients,
                 cancellers, crashes>>

Unblocked ==
  /\ alive /\ phase = "block" /\ toWorker # << >>
  /\ phase' = "drain"
  /\ UNCHANGED <<slot, toWorker, fromWorker, alive, stage, produced, clients,
                 cancellers, crashes>>

(* The worker dies and its scheduler with it. Frames it has not read are    *)
(* gone, and so may be the last of those it was about to write.             *)
Crash ==
  /\ alive /\ crashes < MaxCrashes
  /\ alive' = FALSE
  /\ toWorker' = << >>
  /\ \E n \in 0 .. Len(fromWorker) : fromWorker' = SubSeq(fromWorker, 1, n)
  /\ phase' = "drain" /\ Reaped(Requests, produced)
  /\ crashes' = crashes + 1
  /\ UNCHANGED <<slot, clients, cancellers>>

-----------------------------------------------------------------------------
(* The reader thread.                                                       *)
Post(r, m) == mailbox' = [mailbox EXCEPT ![r] = Append(@, m)]
Tell(c, what) == reply' = [reply EXCEPT ![c] = IF @ = None THEN what ELSE @]

DispatchProgress ==
  /\ state = "ready" /\ fromWorker # << >>
  /\ LET m == Head(fromWorker)
     IN  /\ m.kind \in {"admitted", "delta"}
         /\ IF m.request \in completion THEN Post(m.request, m) ELSE UNCHANGED mailbox
  /\ fromWorker' = Tail(fromWorker)
  /\ UNCHANGED <<slot, toWorker, worker, pc, seen, answer, cancellers, crashes>>

(* Faulty variant: the waiter stays after its answer.                       *)
Deliver(r, m) ==
  IF r \in completion
  THEN Post(r, m) /\ UNCHANGED completion
  ELSE UNCHANGED <<mailbox, completion>>

Finish(r, m) ==
  IF r \in completion
  THEN Post(r, m) /\ completion' = completion \ {r}
  ELSE UNCHANGED <<mailbox, completion>>

DispatchResult ==
  /\ state = "ready" /\ fromWorker # << >>
  /\ Head(fromWorker).kind = "result"
  /\ Finish(Head(fromWorker).request, Head(fromWorker))
  /\ fromWorker' = Tail(fromWorker)
  /\ UNCHANGED <<cancel, state, toWorker, worker, pc, seen, answer, cancellers, crashes>>

(* A reject goes to the cancel that waits, else to the completion.          *)
DispatchReject ==
  /\ state = "ready" /\ fromWorker # << >>
  /\ LET m == Head(fromWorker)
     IN  /\ m.kind = "reject"
         /\ IF cancel[m.request] # None
            THEN /\ Tell(cancel[m.request], m.value)
                 /\ cancel' = [cancel EXCEPT ![m.request] = None]
                 /\ UNCHANGED <<completion, mailbox>>
            ELSE Finish(m.request, m) /\ UNCHANGED <<cancel, reply>>
  /\ fromWorker' = Tail(fromWorker)
  /\ UNCHANGED <<state, toWorker, worker, pc, seen, answer, target, crashes>>

DispatchAck ==
  /\ state = "ready" /\ fromWorker # << >>
  /\ LET m == Head(fromWorker)
     IN  /\ m.kind = "ack"
         /\ IF cancel[m.request] # None
            THEN /\ Tell(cancel[m.request], "ack")
                 /\ cancel' = [cancel EXCEPT ![m.request] = None]
            ELSE UNCHANGED <<cancel, reply>>
  /\ fromWorker' = Tail(fromWorker)
  /\ UNCHANGED <<completion, state, toWorker, worker, clients, target, crashes>>

(* mark_lost, after the last frame of a dead worker.                        *)
MarkLost ==
  /\ state = "ready" /\ ~alive /\ fromWorker = << >>
  /\ state' = "down"
  /\ completion' = {}
  /\ cancel' = [r \in Requests |-> None]
  /\ mailbox' = [r \in Requests |->
       IF r \in completion THEN Append(mailbox[r], Lost(r)) ELSE mailbox[r]]
  /\ reply' = [c \in Cancellers |->
       IF (\E r \in Requests : cancel[r] = c) /\ reply[c] = None THEN "lost" ELSE reply[c]]
  /\ UNCHANGED <<toWorker, fromWorker, worker, pc, seen, answer, target, crashes>>

-----------------------------------------------------------------------------
Work ==
  \/ HandleSubmit \/ HandleCancel \/ Drained
  \/ StepCancel \/ StepBatch \/ StepNothing \/ Unblocked

Reader ==
  \/ DispatchProgress \/ DispatchResult \/ DispatchReject \/ DispatchAck \/ MarkLost

Receive(r) == ReceiveTerminal(r) \/ ReceiveProgress(r)

Next ==
  \/ Work \/ Reader \/ Crash
  \/ \E r \in Requests :
       \/ Restart(r) \/ Submit(r) \/ SubmitFails(r)
       \/ Receive(r) \/ TimesOut(r) \/ StreamBreaks(r)
       \/ \E c \in Cancellers : CancelRequest(c, r)
  \/ \E c \in Cancellers : CancelTimesOut(c)

Spec == Init /\ [][Next]_vars

(* The worker, the reader and the waiting threads keep running. Nobody has  *)
(* to time out.                                                             *)
FairSpec ==
  /\ Spec
  /\ WF_vars(Work) /\ WF_vars(Reader)
  /\ \A r \in Requests : WF_vars(Receive(r))

-----------------------------------------------------------------------------
Waiting(r) == pc[r] \in {"await", "admit", "pump"}

Answers == {"busy", "timeout", "gone", "protocol", "lost", "admission", "contract",
            "finished", "cancelled", "error"}

Messages ==
  UNION {{SubmitFrame(r), CancelFrame(r), Admitted(r), Ack(r), Lost(r),
          Reject(r, "admission"), Reject(r, "contract")}
           \cup {Delta(r, i) : i \in 0 .. Budget[r] - 1}
           \cup {Result(r, f, n) : f \in {"finished", "cancelled", "error"},
                                   n \in 0 .. Budget[r]} : r \in Requests}

(* Every variable has its type.                                             *)
TypeOK ==
  /\ completion \subseteq Requests
  /\ cancel \in [Requests -> Cancellers \cup {None}]
  /\ state \in {"ready", "down"}
  /\ Range(toWorker) \cup Range(fromWorker) \subseteq Messages
  /\ \A r \in Requests : Range(mailbox[r]) \subseteq Messages
  /\ alive \in BOOLEAN /\ phase \in {"drain", "step", "block"}
  /\ stage \in [Requests -> {None, "active", "cancelling"}]
  /\ \A r \in Requests : produced[r] \in 0 .. Budget[r] /\ seen[r] \in 0 .. Budget[r]
  /\ pc \in [Requests -> {"idle", "await", "admit", "pump", "done"}]
  /\ answer \in [Requests -> Answers \cup {None}]
  /\ target \in [Cancellers -> Requests \cup {None}]
  /\ reply \in [Cancellers -> {None, "ack", "admission", "contract", "lost", "timeout"}]
  /\ crashes \in 0 .. MaxCrashes

Sent(kind, r) == \E m \in Range(toWorker) : m.kind = kind /\ m.request = r
Coming(kinds, r) == \E m \in Range(fromWorker) : m.kind \in kinds /\ m.request = r

(* A completion that waits has one answer on its way and only one: its      *)
(* waiter is in the slot until the terminal event is in its channel, and    *)
(* nothing follows that event.                                              *)
OneAnswer ==
  \A r \in Requests : Waiting(r) =>
    LET ends == {i \in DOMAIN mailbox[r] : Terminal(mailbox[r][i])}
    IN  /\ r \in completion <=> ends = {}
        /\ ends \subseteq {Len(mailbox[r])}

(* Whoever waits on a live worker waits for something: the frame that asks, *)
(* the scheduler's state, or the frame that answers exists.                 *)
WaiterHasReply ==
  state = "ready" /\ alive =>
    \A r \in Requests :
      /\ r \in completion =>
           \/ Sent("submit", r) \/ r \in Active \cup Cancelling
           \/ Coming({"result", "reject"}, r) \/ Sent("cancel", r)
      /\ cancel[r] # None => Sent("cancel", r) \/ Coming({"ack", "reject"}, r)

(* A stream never meets what it treats as a protocol error: tokens out of   *)
(* order, before the admission, or other than the result lists.             *)
StreamNeverContradicts == \A r \in Requests : answer[r] # "protocol"

(* A cancel that was acknowledged is a cancel: the completion ends as       *)
(* cancelled, unless its client or its worker was lost.                     *)
AckMeansCancelled ==
  \A c \in Cancellers :
    reply[c] = "ack" => answer[target[c]] \in {None, "cancelled", "timeout", "gone", "lost"}

(* A request nobody waits for does not go on computing: its cancel is on    *)
(* the way or was taken.                                                    *)
AbandonedIsCancelled ==
  state = "ready" /\ alive =>
    \A r \in Requests :
      pc[r] = "done" /\ (r \in Active \/ Sent("submit", r)) => Sent("cancel", r)

(* Every completion and every cancel gets an answer, and none needs its     *)
(* timeout for it: again and again nobody waits.                            *)
Unanswered(c) == target[c] # None /\ reply[c] = None
NobodyWaits ==
  (\A r \in Requests : ~Waiting(r)) /\ (\A c \in Cancellers : ~Unanswered(c))
EveryWaiterAnswered == []<>NobodyWaits

-----------------------------------------------------------------------------
(* "Admission failures use the scheduler codes" (KIP-INFER-0007): a         *)
(* completion is never refused with the code of somebody's cancel.          *)
AdmissionCode == \A r \in Requests : answer[r] # "contract"
=============================================================================
