----------------------- MODULE ServeDispatch_proofs ------------------------
(***************************************************************************)
(* Theorems about ServeDispatch for any number of requests, cancellers,    *)
(* tokens and crashes. The inductive invariant has two layers. ReplyInv    *)
(* follows the frames of one request through the three queues: its         *)
(* submission comes first (Over), the replies on their way are as many as  *)
(* the waiters that need one (EnoughReplies, NoStrayReply), an             *)
(* acknowledgement precedes the end it announces (Acks). StreamInv, proved *)
(* over it, says that what a stream has read, what is in its channel, what *)
(* is on the socket and what the worker produced are consecutive.          *)
(*                                                                         *)
(* IdleInv says that a worker blocks only when it has nothing to do, from  *)
(* which follows that somebody can always move. CauseInv follows a cancel  *)
(* from the caller that asked for it to the answer of its completion.      *)
(***************************************************************************)
EXTENDS ServeDispatch, SequenceTheorems, FiniteSetTheorems, TLAPS

(* Frames of a request in a queue.                                         *)
Is(m, kind, r) == m.kind = kind /\ m.request = r
In(q, kind, r) == \E i \in 1 .. Len(q) : Is(q[i], kind, r)
Count(q, kind, r) == Cardinality({i \in 1 .. Len(q) : Is(q[i], kind, r)})
AllOf(q, kinds) == \A i \in 1 .. Len(q) : q[i].kind \in kinds
OnlyAbout(q, r) == \A i \in 1 .. Len(q) : q[i].request = r
SubmitsFirst(q) == \A i, j \in 1 .. Len(q) :
  q[i].kind = "submit" /\ q[j].request = q[i].request /\ i # j => i < j
OnlyCancelled(q, r) == \A i \in 1 .. Len(q) :
  Is(q[i], "result", r) => q[i].value.finish = "cancelled"
EndsLast(q) == \A i \in 1 .. Len(q) : q[i].kind \in {"result", "reject", "lost"} => i = Len(q)

Asks == {"submit", "cancel"}
Says == {"admitted", "delta", "result", "reject", "ack"}
Events == {"admitted", "delta", "result", "reject", "lost"}
Late == {None, "timeout", "gone", "protocol"}
Replied == {None, "ack", "admission", "contract", "lost", "timeout"}
One(b) == IF b THEN 1 ELSE 0

Submitted(r) == In(toWorker, "submit", r)
Posted(r) ==
  In(mailbox[r], "result", r) \/ In(mailbox[r], "reject", r) \/ In(mailbox[r], "lost", r)
Forgotten(r) ==
  /\ ~In(toWorker, "submit", r) /\ ~In(toWorker, "cancel", r)
  /\ ~In(fromWorker, "admitted", r) /\ ~In(fromWorker, "delta", r)
  /\ ~In(fromWorker, "result", r) /\ ~In(fromWorker, "reject", r)
  /\ ~In(fromWorker, "ack", r)

Types ==
  /\ completion \subseteq Requests
  /\ cancel \in [Requests -> Cancellers \cup {None}]
  /\ state \in {"ready", "down"}
  /\ toWorker \in Seq(Messages) /\ fromWorker \in Seq(Messages)
  /\ mailbox \in [Requests -> Seq(Messages)]
  /\ alive \in BOOLEAN /\ phase \in {"drain", "step", "block"}
  /\ stage \in [Requests -> {None, "active", "cancelling"}]
  /\ produced \in [Requests -> Nat] /\ seen \in [Requests -> Nat]
  /\ \A r \in Requests : produced[r] < Budget[r] /\ seen[r] <= Budget[r]
  /\ pc \in [Requests -> {"idle", "await", "admit", "pump", "done"}]
  /\ answer \in [Requests -> Answers \cup {None}]
  /\ target \in [Cancellers -> Requests \cup {None}]
  /\ reply \in [Cancellers -> Replied]
  /\ crashes \in 0 .. MaxCrashes

Kinds ==
  /\ AllOf(toWorker, Asks) /\ AllOf(fromWorker, Says)
  /\ \A r \in Requests : AllOf(mailbox[r], Events) /\ OnlyAbout(mailbox[r], r)

(* The states of the threads agree with the tables of the slot.            *)
Holdings ==
  /\ \A r \in completion : Waiting(r)
  /\ \A r \in Requests :
       /\ ~Waiting(r) => mailbox[r] = << >>
       /\ pc[r] # "pump" => seen[r] = 0
       /\ pc[r] \in {"admit", "pump"} => r \in Streaming
       /\ pc[r] # "done" => answer[r] = None
       /\ pc[r] = "idle" => stage[r] = None /\ cancel[r] = None /\ Forgotten(r)
       /\ cancel[r] # None =>
            target[cancel[r]] = r /\ reply[cancel[r]] \in {None, "timeout"}
  /\ \A c \in Cancellers :
       /\ target[c] = None => reply[c] = None
       /\ target[c] # None => pc[target[c]] # "idle"

(* A dead worker has no work; the slot is down once the reader has seen it. *)
Death ==
  /\ ~alive => toWorker = << >> /\ \A r \in Requests : stage[r] = None
  /\ state = "down" =>
       /\ ~alive /\ fromWorker = << >> /\ completion = {}
       /\ \A r \in Requests : cancel[r] = None

(* A submission comes before every other frame of its request, and is over *)
(* when the request has ended.                                             *)
Over ==
  /\ SubmitsFirst(toWorker)
  /\ \A r \in Requests :
       /\ Submitted(r) =>
            /\ stage[r] = None
            /\ ~In(fromWorker, "admitted", r) /\ ~In(fromWorker, "delta", r)
            /\ ~In(fromWorker, "result", r) /\ ~In(fromWorker, "reject", r)
            /\ ~In(fromWorker, "ack", r)
       /\ stage[r] = "active" \/ Submitted(r) =>
            /\ ~In(fromWorker, "reject", r) /\ ~In(fromWorker, "ack", r)
            /\ ~Posted(r) /\ answer[r] \in Late
       /\ In(fromWorker, "result", r) => stage[r] = None
       /\ stage[r] = None => produced[r] = 0

(* The frames that may give a waiter of r its reply, and how many it takes. *)
Replies(r) ==
  Count(fromWorker, "ack", r) + Count(fromWorker, "reject", r)
    + Count(toWorker, "cancel", r)
Refused(r) == ~Submitted(r) /\ stage[r] = None /\ ~In(fromWorker, "result", r)
Acked(r) ==
  In(fromWorker, "ack", r) \/ \E c \in Cancellers : target[c] = r /\ reply[c] = "ack"

EnoughReplies ==
  alive /\ state = "ready" =>
    \A r \in Requests :
      /\ cancel[r] # None => Replies(r) >= 1
      /\ r \in completion => Replies(r) >= One(cancel[r] # None) + One(Refused(r))

NoStrayReply ==
  \A r \in completion :
    Acked(r) \/ stage[r] # None \/ Submitted(r)
      => Replies(r) <= One(cancel[r] # None)

Acks ==
  \A r \in Requests : Acked(r) =>
    /\ stage[r] # "active" /\ ~Submitted(r)
    /\ OnlyCancelled(fromWorker, r) /\ OnlyCancelled(mailbox[r], r)
    /\ ~In(mailbox[r], "reject", r)
    /\ answer[r] \in Late \cup {"cancelled", "lost"}

Abandoned ==
  alive => \A r \in Requests :
    pc[r] = "done" /\ (stage[r] = "active" \/ Submitted(r)) => In(toWorker, "cancel", r)

(* The terminal event of a completion that waits is the last in its channel. *)
LastWord ==
  \A r \in Requests :
    /\ Waiting(r) => (r \in completion <=> ~Posted(r))
    /\ EndsLast(mailbox[r])

ReplyInv ==
  /\ Types /\ Kinds /\ Holdings /\ Death /\ Over
  /\ EnoughReplies /\ NoStrayReply /\ Acks /\ Abandoned /\ LastWord

(* The place of a frame in the stream of a request: the admission is before *)
(* the first token, the result behind the last.                            *)
OfStream(m, r) == Is(m, "admitted", r) \/ Is(m, "delta", r)
Placed(m, r) == OfStream(m, r) \/ Is(m, "result", r)
Index(m) ==
  IF m.kind = "admitted" THEN 0 - 1
  ELSE IF m.kind = "delta" THEN m.value ELSE m.value.tokens
FirstIndex(r) == IF pc[r] = "admit" THEN 0 - 1 ELSE seen[r]
NextIndex(r) == FirstIndex(r) + Len(mailbox[r])
Passed(q, n, r) == Cardinality({i \in 1 .. n : OfStream(q[i], r)})

Consecutive(q, r, next) ==
  \A i \in 1 .. Len(q) : Placed(q[i], r) => Index(q[i]) = next + Passed(q, i - 1, r)

(* What the worker has sent and will send of a stream continues at next.   *)
Follows(r, next) ==
  /\ Consecutive(fromWorker, r, next)
  /\ Submitted(r) => next = 0 - 1
  /\ stage[r] # None => produced[r] = next + Passed(fromWorker, Len(fromWorker), r)

(* What a stream has read, what its channel holds and what is on the socket *)
(* are consecutive, up to what the worker has produced.                    *)
MailboxOf(r) ==
  \A i \in 1 .. Len(mailbox[r]) :
    Placed(mailbox[r][i], r) => Index(mailbox[r][i]) = FirstIndex(r) + i - 1

Unbroken(r) ==
  /\ pc[r] # "await"
  /\ MailboxOf(r)
  /\ r \in completion => Follows(r, NextIndex(r))

StreamInv == (\A r \in Streaming : Unbroken(r)) /\ StreamNeverContradicts

-----------------------------------------------------------------------------
(* Messages.                                                               *)

LEMMA Constants ==
  /\ None \notin Requests /\ None \notin Cancellers
  /\ Streaming \subseteq Requests /\ IsFiniteSet(Requests)
  /\ \A r \in Requests : Budget[r] \in Nat \ {0}
  /\ MaxCrashes \in Nat
  /\ None \notin {"active", "cancelling", "ack", "timeout", "lost", "admission", "contract"}
  /\ None \notin Answers
BY DispatchAssumption DEF None, Answers

LEMMA MessageCases ==
  ASSUME NEW m \in Messages
  PROVE  \E r \in Requests :
           \/ m = SubmitFrame(r) \/ m = CancelFrame(r) \/ m = Admitted(r)
           \/ m = Ack(r) \/ m = Lost(r)
           \/ m = Reject(r, "admission") \/ m = Reject(r, "contract")
           \/ \E i \in 0 .. Budget[r] - 1 : m = Delta(r, i)
           \/ \E f \in {"finished", "cancelled", "error"} :
              \E n \in 0 .. Budget[r] : m = Result(r, f, n)
BY DEF Messages

LEMMA MessageShape ==
  ASSUME NEW m \in Messages
  PROVE  /\ m.request \in Requests
         /\ m.kind \in Asks \cup Says \cup {"lost"}
         /\ m.kind = "delta" => m.value \in 0 .. Budget[m.request] - 1
         /\ m.kind = "result" => /\ m.value.finish \in {"finished", "cancelled", "error"}
                                 /\ m.value.tokens \in 0 .. Budget[m.request]
         /\ m.kind = "reject" => m.value \in {"admission", "contract"}
BY MessageCases
DEF SubmitFrame, CancelFrame, Admitted, Ack, Lost, Reject, Delta, Result, Message,
    Asks, Says

LEMMA FramesOfRequest ==
  ASSUME NEW r \in Requests
  PROVE  /\ SubmitFrame(r) \in Messages /\ CancelFrame(r) \in Messages
         /\ Admitted(r) \in Messages /\ Ack(r) \in Messages /\ Lost(r) \in Messages
         /\ Reject(r, "admission") \in Messages /\ Reject(r, "contract") \in Messages
         /\ \A i \in 0 .. Budget[r] - 1 : Delta(r, i) \in Messages
         /\ \A f \in {"finished", "cancelled", "error"} :
            \A n \in 0 .. Budget[r] : Result(r, f, n) \in Messages
BY DEF Messages

LEMMA FrameFields ==
  ASSUME NEW r
  PROVE  /\ SubmitFrame(r).kind = "submit" /\ SubmitFrame(r).request = r
         /\ CancelFrame(r).kind = "cancel" /\ CancelFrame(r).request = r
         /\ Admitted(r).kind = "admitted" /\ Admitted(r).request = r
         /\ Ack(r).kind = "ack" /\ Ack(r).request = r
         /\ Lost(r).kind = "lost" /\ Lost(r).request = r
         /\ \A v : /\ Reject(r, v).kind = "reject" /\ Reject(r, v).request = r
                   /\ Reject(r, v).value = v
                   /\ Delta(r, v).kind = "delta" /\ Delta(r, v).request = r
                   /\ Delta(r, v).value = v
         /\ \A f, n : /\ Result(r, f, n).kind = "result" /\ Result(r, f, n).request = r
                      /\ Result(r, f, n).value.finish = f
                      /\ Result(r, f, n).value.tokens = n
BY DEF SubmitFrame, CancelFrame, Admitted, Ack, Lost, Reject, Delta, Result, Message

LEMMA ResultFields ==
  ASSUME NEW r, NEW f, NEW n
  PROVE  /\ Result(r, f, n).kind = "result" /\ Result(r, f, n).request = r
         /\ Result(r, f, n).value.finish = f /\ Result(r, f, n).value.tokens = n
BY DEF Result, Message

-----------------------------------------------------------------------------
(* Queues.                                                                 *)

LEMMA EmptyQueue ==
  /\ << >> \in Seq(Messages) /\ Len(<< >>) = 0
  /\ \A k, r : ~In(<< >>, k, r)
BY DEF In

LEMMA LookAppend ==
  ASSUME NEW q \in Seq(Messages), NEW m \in Messages
  PROVE  /\ Append(q, m) \in Seq(Messages) /\ Len(q) \in Nat
         /\ Len(Append(q, m)) = Len(q) + 1
         /\ \A i \in 1 .. Len(q) : Append(q, m)[i] = q[i]
         /\ Append(q, m)[Len(q) + 1] = m
         /\ \A i \in 1 .. Len(Append(q, m)) : i \in 1 .. Len(q) \/ i = Len(q) + 1
OBVIOUS

LEMMA LookTail ==
  ASSUME NEW q \in Seq(Messages), q # << >>
  PROVE  /\ Tail(q) \in Seq(Messages) /\ Len(q) \in Nat \ {0}
         /\ Len(Tail(q)) = Len(q) - 1
         /\ \A i \in 1 .. Len(q) - 1 : Tail(q)[i] = q[i + 1]
         /\ Head(q) = q[1] /\ Head(q) \in Messages
OBVIOUS

LEMMA Elements ==
  ASSUME NEW q \in Seq(Messages), NEW i \in 1 .. Len(q)
  PROVE  q[i] \in Messages
OBVIOUS

LEMMA InAppend ==
  ASSUME NEW q \in Seq(Messages), NEW m \in Messages
  PROVE  \A k, r : In(Append(q, m), k, r) <=> In(q, k, r) \/ Is(m, k, r)
<1> SUFFICES ASSUME NEW k, NEW r
    PROVE  In(Append(q, m), k, r) <=> In(q, k, r) \/ Is(m, k, r)
  OBVIOUS
<1>1. PICK a : a = Append(q, m)
  OBVIOUS
<1>2. /\ Len(q) \in Nat /\ Len(a) = Len(q) + 1
      /\ \A i \in 1 .. Len(q) : a[i] = q[i]
      /\ a[Len(q) + 1] = m
      /\ \A i \in 1 .. Len(a) : i \in 1 .. Len(q) \/ i = Len(q) + 1
  BY <1>1, LookAppend
<1>3. In(a, k, r) <=> In(q, k, r) \/ Is(m, k, r)
  BY <1>2 DEF In
<1> QED
  BY <1>1, <1>3

LEMMA InTail ==
  ASSUME NEW q \in Seq(Messages), q # << >>
  PROVE  \A k, r : In(q, k, r) <=> In(Tail(q), k, r) \/ Is(Head(q), k, r)
<1> SUFFICES ASSUME NEW k, NEW r
    PROVE  In(q, k, r) <=> In(Tail(q), k, r) \/ Is(Head(q), k, r)
  OBVIOUS
<1>1. PICK t : t = Tail(q)
  OBVIOUS
<1>2. /\ Len(q) \in Nat \ {0} /\ Len(t) = Len(q) - 1
      /\ \A i \in 1 .. Len(q) - 1 : t[i] = q[i + 1]
      /\ Head(q) = q[1]
  BY <1>1, LookTail
<1>3. ASSUME In(q, k, r) PROVE In(t, k, r) \/ Is(Head(q), k, r)
  <2>1. PICK i \in 1 .. Len(q) : Is(q[i], k, r)
    BY <1>3 DEF In
  <2>2. CASE i = 1
    BY <1>2, <2>1, <2>2
  <2>3. CASE i # 1
    <3>1. i - 1 \in 1 .. Len(q) - 1 /\ t[i - 1] = q[i]
      BY <1>2, <2>3
    <3> QED
      BY <1>2, <2>1, <3>1 DEF In
  <2> QED
    BY <2>2, <2>3
<1>4. ASSUME In(t, k, r) PROVE In(q, k, r)
  <2>1. PICK i \in 1 .. Len(t) : Is(t[i], k, r)
    BY <1>4 DEF In
  <2>2. i + 1 \in 1 .. Len(q) /\ t[i] = q[i + 1]
    BY <1>2
  <2> QED
    BY <2>1, <2>2 DEF In
<1>5. ASSUME Is(Head(q), k, r) PROVE In(q, k, r)
  BY <1>2, <1>5 DEF In
<1> QED
  BY <1>1, <1>3, <1>4, <1>5

LEMMA CountType ==
  ASSUME NEW q \in Seq(Messages), NEW k, NEW r
  PROVE  /\ IsFiniteSet({i \in 1 .. Len(q) : Is(q[i], k, r)})
         /\ Count(q, k, r) \in Nat
         /\ Count(q, k, r) = 0 <=> ~In(q, k, r)
<1> DEFINE S == {i \in 1 .. Len(q) : Is(q[i], k, r)}
<1>1. IsFiniteSet(1 .. Len(q))
  BY FS_Interval
<1>2. IsFiniteSet(S)
  BY <1>1, FS_Subset
<1>3. Cardinality(S) \in Nat /\ (Cardinality(S) = 0 <=> S = {})
  BY <1>2, FS_CardinalityType, FS_EmptySet
<1>4. S = {} <=> ~In(q, k, r)
  BY DEF In
<1> QED
  BY <1>2, <1>3, <1>4 DEF Count

LEMMA CountEmpty == \A k, r : Count(<< >>, k, r) = 0
BY CountType, EmptyQueue

LEMMA CountAppend ==
  ASSUME NEW q \in Seq(Messages), NEW m \in Messages
  PROVE  \A k, r : Count(Append(q, m), k, r) = Count(q, k, r) + One(Is(m, k, r))
<1> SUFFICES ASSUME NEW k, NEW r
    PROVE  Count(Append(q, m), k, r) = Count(q, k, r) + One(Is(m, k, r))
  OBVIOUS
<1>1. PICK a : a = Append(q, m)
  OBVIOUS
<1>2. /\ Len(q) \in Nat /\ Len(a) = Len(q) + 1
      /\ \A i \in 1 .. Len(q) : a[i] = q[i]
      /\ a[Len(q) + 1] = m
      /\ \A i \in 1 .. Len(a) : i \in 1 .. Len(q) \/ i = Len(q) + 1
  BY <1>1, LookAppend
<1>3. PICK S : S = {i \in 1 .. Len(q) : Is(q[i], k, r)}
  OBVIOUS
<1>4. PICK T : T = {i \in 1 .. Len(a) : Is(a[i], k, r)}
  OBVIOUS
<1>5. IsFiniteSet(S) /\ Cardinality(S) = Count(q, k, r) /\ Count(q, k, r) \in Nat
  BY <1>3, CountType DEF Count
<1>6. Count(a, k, r) = Cardinality(T)
  BY <1>4 DEF Count
<1>7. CASE Is(m, k, r)
  <2>1. T = S \cup {Len(q) + 1} /\ Len(q) + 1 \notin S
    BY <1>2, <1>3, <1>4, <1>7
  <2>2. Cardinality(T) = Cardinality(S) + 1
    BY <1>5, <2>1, FS_AddElement
  <2> QED
    BY <1>1, <1>5, <1>6, <1>7, <2>2 DEF One
<1>8. CASE ~Is(m, k, r)
  <2>1. T = S
    BY <1>2, <1>3, <1>4, <1>8
  <2> QED
    BY <1>1, <1>5, <1>6, <1>8, <2>1 DEF One
<1> QED
  BY <1>7, <1>8

LEMMA CountTail ==
  ASSUME NEW q \in Seq(Messages), q # << >>
  PROVE  \A k, r : Count(q, k, r) = Count(Tail(q), k, r) + One(Is(Head(q), k, r))
<1> SUFFICES ASSUME NEW k, NEW r
    PROVE  Count(q, k, r) = Count(Tail(q), k, r) + One(Is(Head(q), k, r))
  OBVIOUS
<1>1. PICK t : t = Tail(q)
  OBVIOUS
<1>2. /\ Len(q) \in Nat \ {0} /\ Len(t) = Len(q) - 1 /\ t \in Seq(Messages)
      /\ \A i \in 1 .. Len(q) - 1 : t[i] = q[i + 1]
      /\ Head(q) = q[1]
  BY <1>1, LookTail
<1>3. PICK S : S = {i \in 1 .. Len(q) : Is(q[i], k, r)}
  OBVIOUS
<1>4. PICK T : T = {i \in 1 .. Len(t) : Is(t[i], k, r)}
  OBVIOUS
<1>5. IsFiniteSet(T) /\ Cardinality(T) = Count(t, k, r) /\ Count(t, k, r) \in Nat
  BY <1>2, <1>4, CountType DEF Count
<1>6. PICK U : U = S \ {1}
  OBVIOUS
<1>7. IsFiniteSet(U) /\ Cardinality(U) = Cardinality(T)
  <2>1. PICK f : f = [i \in T |-> i + 1]
    OBVIOUS
  <2>2. f \in [T -> U]
    BY <1>2, <1>3, <1>4, <1>6, <2>1
  <2>3. \A i, j \in T : f[i] = f[j] => i = j
    BY <1>2, <1>4, <2>1
  <2>4. ASSUME NEW u \in U PROVE \E i \in T : f[i] = u
    <3>1. u - 1 \in T
      BY <1>2, <1>3, <1>4, <1>6
    <3> QED
      BY <2>1, <3>1, <1>3, <1>6
  <2>5. f \in Bijection(T, U)
    BY <2>2, <2>3, <2>4 DEF Bijection, Injection, Surjection, IsInjective
  <2>6. ExistsBijection(T, U)
    BY <2>5 DEF ExistsBijection
  <2> QED
    BY <1>5, <2>6, FS_Bijection
<1>8. Count(q, k, r) = Cardinality(S)
  BY <1>3 DEF Count
<1>9. CASE Is(Head(q), k, r)
  <2>1. S = U \cup {1} /\ 1 \notin U
    BY <1>2, <1>3, <1>6, <1>9
  <2>2. Cardinality(S) = Cardinality(U) + 1
    BY <1>7, <2>1, FS_AddElement
  <2> QED
    BY <1>1, <1>5, <1>7, <1>8, <1>9, <2>2 DEF One
<1>10. CASE ~Is(Head(q), k, r)
  <2>1. S = U
    BY <1>2, <1>3, <1>6, <1>10
  <2> QED
    BY <1>1, <1>5, <1>7, <1>8, <1>10, <2>1 DEF One
<1> QED
  BY <1>9, <1>10

LEMMA CountsAppend ==
  ASSUME NEW q \in Seq(Messages), NEW m \in Messages, NEW k, NEW r
  PROVE  /\ Count(q, k, r) \in Nat /\ Count(Append(q, m), k, r) \in Nat
         /\ Is(m, k, r) => Count(Append(q, m), k, r) = Count(q, k, r) + 1
         /\ ~Is(m, k, r) => Count(Append(q, m), k, r) = Count(q, k, r)
<1>1. Count(Append(q, m), k, r) = Count(q, k, r) + One(Is(m, k, r))
  BY CountAppend
<1>2. Count(q, k, r) \in Nat
  BY CountType
<1> QED
  BY <1>1, <1>2 DEF One

LEMMA CountsTail ==
  ASSUME NEW q \in Seq(Messages), q # << >>, NEW k, NEW r
  PROVE  /\ Count(q, k, r) \in Nat /\ Count(Tail(q), k, r) \in Nat
         /\ Is(Head(q), k, r) => Count(q, k, r) = Count(Tail(q), k, r) + 1
         /\ ~Is(Head(q), k, r) => Count(q, k, r) = Count(Tail(q), k, r)
<1>1. Count(q, k, r) = Count(Tail(q), k, r) + One(Is(Head(q), k, r))
  BY CountTail
<1>2. Count(q, k, r) \in Nat
  BY CountType
<1>3. Tail(q) \in Seq(Messages)
  BY LookTail
<1>4. Count(Tail(q), k, r) \in Nat
  BY <1>3, CountType
<1> QED
  BY <1>1, <1>2, <1>4 DEF One

(* What an append and a tail do to the forms of a queue.                   *)
LEMMA FormsEmpty ==
  /\ \A K : AllOf(<< >>, K)
  /\ SubmitsFirst(<< >>) /\ EndsLast(<< >>)
  /\ \A r : OnlyAbout(<< >>, r) /\ OnlyCancelled(<< >>, r)
BY EmptyQueue DEF AllOf, SubmitsFirst, EndsLast, OnlyAbout, OnlyCancelled

LEMMA FormsAppend ==
  ASSUME NEW q \in Seq(Messages), NEW m \in Messages
  PROVE  /\ \A K : AllOf(q, K) /\ m.kind \in K => AllOf(Append(q, m), K)
         /\ \A r : OnlyAbout(q, r) /\ m.request = r => OnlyAbout(Append(q, m), r)
         /\ \A r : OnlyCancelled(q, r)
                     /\ (Is(m, "result", r) => m.value.finish = "cancelled")
                     => OnlyCancelled(Append(q, m), r)
<1>1. PICK a : a = Append(q, m)
  OBVIOUS
<1>2. /\ Len(q) \in Nat /\ Len(a) = Len(q) + 1
      /\ \A i \in 1 .. Len(q) : a[i] = q[i]
      /\ a[Len(q) + 1] = m
      /\ \A i \in 1 .. Len(a) : i \in 1 .. Len(q) \/ i = Len(q) + 1
  BY <1>1, LookAppend
<1>3. ASSUME NEW K, AllOf(q, K), m.kind \in K PROVE AllOf(a, K)
  BY <1>2, <1>3 DEF AllOf
<1>4. ASSUME NEW r, OnlyAbout(q, r), m.request = r PROVE OnlyAbout(a, r)
  BY <1>2, <1>4 DEF OnlyAbout
<1>5. ASSUME NEW r, OnlyCancelled(q, r), Is(m, "result", r) => m.value.finish = "cancelled"
      PROVE  OnlyCancelled(a, r)
  BY <1>2, <1>5 DEF OnlyCancelled
<1> QED
  BY <1>1, <1>3, <1>4, <1>5

LEMMA SubmitsFirstAppend ==
  ASSUME NEW q \in Seq(Messages), NEW m \in Messages, SubmitsFirst(q),
         m.kind # "submit" \/ \A i \in 1 .. Len(q) : q[i].request # m.request
  PROVE  SubmitsFirst(Append(q, m))
<1>1. PICK a : a = Append(q, m)
  OBVIOUS
<1>2. /\ Len(q) \in Nat /\ Len(a) = Len(q) + 1
      /\ \A i \in 1 .. Len(q) : a[i] = q[i]
      /\ a[Len(q) + 1] = m
      /\ \A i \in 1 .. Len(a) : i \in 1 .. Len(q) \/ i = Len(q) + 1
  BY <1>1, LookAppend
<1>3. SubmitsFirst(a)
  BY <1>2 DEF SubmitsFirst
<1> QED
  BY <1>1, <1>3

LEMMA EndsLastAppend ==
  ASSUME NEW q \in Seq(Messages), NEW m \in Messages, NEW r, OnlyAbout(q, r),
         ~In(q, "result", r), ~In(q, "reject", r), ~In(q, "lost", r)
  PROVE  EndsLast(Append(q, m))
<1>1. PICK a : a = Append(q, m)
  OBVIOUS
<1>2. /\ Len(q) \in Nat /\ Len(a) = Len(q) + 1
      /\ \A i \in 1 .. Len(q) : a[i] = q[i]
      /\ \A i \in 1 .. Len(a) : i \in 1 .. Len(q) \/ i = Len(q) + 1
  BY <1>1, LookAppend
<1>3. \A i \in 1 .. Len(q) : q[i].kind \notin {"result", "reject", "lost"}
  BY DEF OnlyAbout, In, Is
<1>4. EndsLast(a)
  BY <1>2, <1>3 DEF EndsLast
<1> QED
  BY <1>1, <1>4

LEMMA FormsTail ==
  ASSUME NEW q \in Seq(Messages), q # << >>
  PROVE  /\ \A K : AllOf(q, K) => AllOf(Tail(q), K) /\ Head(q).kind \in K
         /\ \A r : OnlyAbout(q, r) => OnlyAbout(Tail(q), r) /\ Head(q).request = r
         /\ \A r : OnlyCancelled(q, r) =>
              /\ OnlyCancelled(Tail(q), r)
              /\ Is(Head(q), "result", r) => Head(q).value.finish = "cancelled"
         /\ EndsLast(q) =>
              /\ EndsLast(Tail(q))
              /\ Head(q).kind \in {"result", "reject", "lost"} => Tail(q) = << >>
         /\ SubmitsFirst(q) =>
              /\ SubmitsFirst(Tail(q))
              /\ ~In(Tail(q), "submit", Head(q).request)
<1>1. PICK t : t = Tail(q)
  OBVIOUS
<1>2. /\ Len(q) \in Nat \ {0} /\ Len(t) = Len(q) - 1 /\ t \in Seq(Messages)
      /\ \A i \in 1 .. Len(q) - 1 : t[i] = q[i + 1]
      /\ Head(q) = q[1]
  BY <1>1, LookTail
<1>3. \A i \in 1 .. Len(t) : t[i] = q[i + 1] /\ i + 1 \in 1 .. Len(q)
  BY <1>2
<1>4. ASSUME NEW K, AllOf(q, K) PROVE AllOf(t, K) /\ Head(q).kind \in K
  BY <1>2, <1>3, <1>4 DEF AllOf
<1>5. ASSUME NEW r, OnlyAbout(q, r) PROVE OnlyAbout(t, r) /\ Head(q).request = r
  BY <1>2, <1>3, <1>5 DEF OnlyAbout
<1>6. ASSUME NEW r, OnlyCancelled(q, r)
      PROVE  /\ OnlyCancelled(t, r)
             /\ Is(Head(q), "result", r) => Head(q).value.finish = "cancelled"
  BY <1>2, <1>3, <1>6 DEF OnlyCancelled
<1>7. ASSUME EndsLast(q)
      PROVE  /\ EndsLast(t)
             /\ Head(q).kind \in {"result", "reject", "lost"} => t = << >>
  <2>1. EndsLast(t)
    BY <1>2, <1>3, <1>7 DEF EndsLast
  <2>2. ASSUME Head(q).kind \in {"result", "reject", "lost"} PROVE t = << >>
    <3>1. Len(q) = 1
      BY <1>2, <1>7, <2>2 DEF EndsLast
    <3>2. Len(t) = 0
      BY <1>2, <3>1
    <3> QED
      BY <1>2, <3>2
  <2> QED
    BY <2>1, <2>2
<1>8. ASSUME SubmitsFirst(q)
      PROVE  SubmitsFirst(t) /\ ~In(t, "submit", Head(q).request)
  <2>1. SubmitsFirst(t)
    BY <1>2, <1>3, <1>8 DEF SubmitsFirst
  <2>2. ASSUME NEW i \in 1 .. Len(t), Is(t[i], "submit", Head(q).request) PROVE FALSE
    <3>1. i + 1 \in 1 .. Len(q) /\ 1 \in 1 .. Len(q) /\ i + 1 # 1 /\ ~(i + 1 < 1)
      BY <1>2
    <3>2. q[i + 1].kind = "submit" /\ q[1].request = q[i + 1].request
      BY <1>2, <1>3, <2>2 DEF Is
    <3> QED
      BY <1>8, <3>1, <3>2 DEF SubmitsFirst
  <2> QED
    BY <2>1, <2>2 DEF In
<1> QED
  BY <1>1, <1>4, <1>5, <1>6, <1>7, <1>8

(* A queue that lost its end.                                              *)
LEMMA Prefix ==
  ASSUME NEW q \in Seq(Messages), NEW n \in 0 .. Len(q)
  PROVE  /\ SubSeq(q, 1, n) \in Seq(Messages)
         /\ \A K : AllOf(q, K) => AllOf(SubSeq(q, 1, n), K)
         /\ \A r : OnlyCancelled(q, r) => OnlyCancelled(SubSeq(q, 1, n), r)
         /\ \A k, r : In(SubSeq(q, 1, n), k, r) => In(q, k, r)
         /\ \A k, r : Count(SubSeq(q, 1, n), k, r) <= Count(q, k, r)
         /\ Len(SubSeq(q, 1, n)) = n
         /\ \A i \in 1 .. n : SubSeq(q, 1, n)[i] = q[i] /\ i \in 1 .. Len(q)
<1>1. PICK s : s = SubSeq(q, 1, n)
  OBVIOUS
<1>2. s \in Seq(Messages) /\ Len(s) = n /\ \A i \in 1 .. n : s[i] = q[i] /\ i \in 1 .. Len(q)
  BY <1>1
<1>3. ASSUME NEW K, AllOf(q, K) PROVE AllOf(s, K)
  BY <1>2, <1>3 DEF AllOf
<1>4. ASSUME NEW r, OnlyCancelled(q, r) PROVE OnlyCancelled(s, r)
  BY <1>2, <1>4 DEF OnlyCancelled
<1>5. ASSUME NEW k, NEW r PROVE In(s, k, r) => In(q, k, r)
  BY <1>2 DEF In
<1>6. ASSUME NEW k, NEW r PROVE Count(s, k, r) <= Count(q, k, r)
  <2>1. PICK S : S = {i \in 1 .. Len(q) : Is(q[i], k, r)}
    OBVIOUS
  <2>2. PICK T : T = {i \in 1 .. Len(s) : Is(s[i], k, r)}
    OBVIOUS
  <2>3. T \subseteq S
    BY <1>2, <2>1, <2>2
  <2>4. IsFiniteSet(S)
    BY <2>1, CountType
  <2>5. Cardinality(T) <= Cardinality(S)
    BY <2>3, <2>4, FS_Subset
  <2> QED
    BY <2>1, <2>2, <2>5 DEF Count
<1> QED
  BY <1>1, <1>2, <1>3, <1>4, <1>5, <1>6

-----------------------------------------------------------------------------
(* The first layer: replies.                                               *)

LEMMA ReplyInvInit == Init => ReplyInv
<1> SUFFICES ASSUME Init PROVE ReplyInv
  OBVIOUS
<1> USE Constants, EmptyQueue
<1>1. Types
  <2>1. \A r \in Requests : 0 < Budget[r]
    OBVIOUS
  <2> QED
    BY <2>1 DEF Init, Types, Replied
<1>2. Kinds
  BY FormsEmpty DEF Init, Kinds
<1>3. Holdings
  BY DEF Init, Holdings, Forgotten, Waiting
<1>4. Death
  BY DEF Init, Death
<1>5. Over
  BY FormsEmpty DEF Init, Over, Submitted, Posted
<1>6. EnoughReplies /\ NoStrayReply
  <2>1. \A r \in Requests : Replies(r) = 0
    BY CountEmpty DEF Init, Replies
  <2> QED
    BY <2>1 DEF Init, EnoughReplies, NoStrayReply
<1>7. Acks
  BY DEF Init, Acks, Acked
<1>8. Abandoned
  BY DEF Init, Abandoned
<1>9. LastWord
  BY FormsEmpty DEF Init, LastWord, Waiting
<1> QED
  BY <1>1, <1>2, <1>3, <1>4, <1>5, <1>6, <1>7, <1>8, <1>9 DEF ReplyInv

LEMMA SubmitKeeps ==
  ASSUME ReplyInv, NEW r \in Requests, Submit(r)
  PROVE  ReplyInv'
<1> USE Constants DEF ReplyInv
<1>1. PICK m : m = SubmitFrame(r)
  OBVIOUS
<1>2. /\ m \in Messages
      /\ \A k, s : Is(m, k, s) <=> k = "submit" /\ s = r
      /\ m.kind = "submit" /\ m.request = r
  BY <1>1, FramesOfRequest, FrameFields DEF Is
<1>3. /\ toWorker \in Seq(Messages) /\ toWorker' = Append(toWorker, m)
      /\ pc[r] = "idle" /\ state = "ready" /\ alive
      /\ completion' = completion \cup {r}
      /\ pc' = [pc EXCEPT ![r] = IF r \in Streaming THEN "admit" ELSE "await"]
      /\ UNCHANGED <<cancel, state, fromWorker, alive, phase, stage, produced, mailbox,
                     seen, answer, target, reply, crashes>>
  BY <1>1 DEF Submit, Types, worker, cancellers
<1>4. \A k, s : In(toWorker', k, s) <=> In(toWorker, k, s) \/ (k = "submit" /\ s = r)
  BY <1>2, <1>3, InAppend
<1>5. \A k, s : k # "submit" => Count(toWorker', k, s) = Count(toWorker, k, s)
  <2> SUFFICES ASSUME NEW k, NEW s, k # "submit"
      PROVE  Count(toWorker', k, s) = Count(toWorker, k, s)
    OBVIOUS
  <2>1. ~Is(m, k, s)
    BY <1>2
  <2> QED
    BY <1>2, <1>3, <2>1, CountsAppend
<1>6. /\ stage[r] = None /\ cancel[r] = None /\ mailbox[r] = << >> /\ answer[r] = None
      /\ Forgotten(r) /\ seen[r] = 0 /\ r \notin completion
  BY <1>3 DEF Holdings, Waiting
<1>7. Types'
  BY <1>2, <1>3, <1>6, LookAppend DEF Types
<1>8. Kinds'
  BY <1>2, <1>3, FormsAppend DEF Kinds, Asks
<1>9. Holdings'
  BY <1>3, <1>4, <1>6 DEF Holdings, Waiting, Forgotten, Types
<1>10. Death'
  BY <1>3 DEF Death
<1>11. Over'
  <2>1. \A i \in 1 .. Len(toWorker) : toWorker[i].request # r
    <3> SUFFICES ASSUME NEW i \in 1 .. Len(toWorker), toWorker[i].request = r PROVE FALSE
      OBVIOUS
    <3>1. toWorker[i].kind \in {"submit", "cancel"}
      BY DEF Kinds, AllOf, Asks
    <3> QED
      BY <1>6, <3>1 DEF Forgotten, In, Is
  <2>2. SubmitsFirst(toWorker')
    BY <1>2, <1>3, <2>1, SubmitsFirstAppend DEF Over
  <2> QED
    BY <1>3, <1>4, <1>6, <2>2, EmptyQueue DEF Over, Submitted, Posted, Forgotten, Late
<1>12. EnoughReplies' /\ NoStrayReply'
  <2>1. \A s : Replies(s)' = Replies(s)
    BY <1>3, <1>5 DEF Replies
  <2>2. Replies(r) = 0
    <3>1. /\ Count(fromWorker, "ack", r) = 0 /\ Count(fromWorker, "reject", r) = 0
          /\ Count(toWorker, "cancel", r) = 0
      <4>1. /\ fromWorker \in Seq(Messages) /\ toWorker \in Seq(Messages)
            /\ ~In(fromWorker, "ack", r) /\ ~In(fromWorker, "reject", r)
            /\ ~In(toWorker, "cancel", r)
        BY <1>6 DEF Forgotten, Types
      <4> HIDE DEF ReplyInv
      <4> QED
        BY <4>1, CountType
    <3> QED
      BY <3>1 DEF Replies
  <2>3. \A s : s # r => (Refused(s)' <=> Refused(s))
    BY <1>3, <1>4 DEF Refused, Submitted
  <2>4. ~Refused(r)'
    BY <1>4 DEF Refused, Submitted
  <2>5. \A s : Acked(s)' <=> Acked(s)
    BY <1>3 DEF Acked
  <2>6. EnoughReplies'
    BY <1>3, <1>6, <2>1, <2>2, <2>3, <2>4 DEF EnoughReplies, One
  <2>7. NoStrayReply'
    BY <1>3, <1>4, <1>6, <2>1, <2>2, <2>5 DEF NoStrayReply, One, Submitted
  <2> QED
    BY <2>6, <2>7
<1>13. Acks'
  <2>1. ~Acked(r)
    BY <1>3, <1>6 DEF Acked, Holdings, Forgotten
  <2>2. \A s : Acked(s)' <=> Acked(s)
    BY <1>3 DEF Acked
  <2> QED
    BY <1>3, <1>4, <2>1, <2>2 DEF Acks, Submitted
<1>14. Abandoned'
  BY <1>3, <1>4 DEF Abandoned, Submitted, Types
<1>15. LastWord'
  BY <1>3, <1>6, EmptyQueue DEF LastWord, Waiting, Posted, Types
<1> QED
  BY <1>7, <1>8, <1>9, <1>10, <1>11, <1>12, <1>13, <1>14, <1>15

(* A thread takes its answer and leaves: it is no longer in the slot, and   *)
(* either the worker is told or there is nothing left to tell.              *)
Leaves(r, a) ==
  /\ completion' = completion \ {r}
  /\ Answer(r, a)
  /\ \/ toWorker' = toWorker /\ stage[r] # "active" /\ ~Submitted(r)
     \/ toWorker' = Append(toWorker, CancelFrame(r)) /\ alive /\ pc[r] # "idle"
  /\ stage[r] = "active" \/ Submitted(r) => a \in Late
  /\ Acked(r) => a \in Late \cup {"cancelled", "lost"}
  /\ UNCHANGED <<cancel, state, fromWorker, worker, cancellers, crashes>>

LEMMA LeavesKeeps ==
  ASSUME ReplyInv, NEW r \in Requests, NEW a \in Answers, Leaves(r, a)
  PROVE  ReplyInv'
<1> USE Constants DEF ReplyInv
<1>1. PICK m : m = CancelFrame(r)
  OBVIOUS
<1>2. /\ m \in Messages
      /\ \A k, s : Is(m, k, s) <=> k = "cancel" /\ s = r
      /\ m.kind = "cancel" /\ m.request = r
  BY <1>1, FramesOfRequest, FrameFields DEF Is
<1>3. /\ toWorker \in Seq(Messages) /\ fromWorker \in Seq(Messages)
      /\ completion' = completion \ {r}
      /\ pc' = [pc EXCEPT ![r] = "done"]
      /\ answer' = [answer EXCEPT ![r] = a]
      /\ mailbox' = [mailbox EXCEPT ![r] = << >>]
      /\ seen' = [seen EXCEPT ![r] = 0]
      /\ UNCHANGED <<cancel, state, fromWorker, alive, phase, stage, produced,
                     target, reply, crashes>>
  BY DEF Leaves, Answer, Types, worker, cancellers
<1>4. /\ pc'[r] = "done" /\ answer'[r] = a /\ mailbox'[r] = << >> /\ seen'[r] = 0
      /\ \A s \in Requests : s # r => /\ pc'[s] = pc[s] /\ answer'[s] = answer[s]
                                      /\ mailbox'[s] = mailbox[s] /\ seen'[s] = seen[s]
  BY <1>3 DEF Types
<1>5. \/ toWorker' = toWorker /\ stage[r] # "active" /\ ~Submitted(r)
      \/ toWorker' = Append(toWorker, m) /\ alive /\ pc[r] # "idle"
  BY <1>1 DEF Leaves
<1>6. /\ \A k, s : In(toWorker, k, s) => In(toWorker', k, s)
      /\ \A k, s : (k # "cancel" \/ s # r) => (In(toWorker', k, s) <=> In(toWorker, k, s))
  <2>1. CASE toWorker' = toWorker
    BY <2>1
  <2>2. CASE toWorker' = Append(toWorker, m)
    <3>1. \A k, s : In(toWorker', k, s) <=> In(toWorker, k, s) \/ Is(m, k, s)
      BY <1>2, <1>3, <2>2, InAppend
    <3> QED
      BY <1>2, <3>1
  <2> QED
    BY <1>5, <2>1, <2>2
<1>7. \A s : Count(toWorker', "cancel", s) \in Nat /\ Count(toWorker, "cancel", s) \in Nat
             /\ Count(fromWorker, "ack", s) \in Nat /\ Count(fromWorker, "reject", s) \in Nat
             /\ Count(toWorker', "cancel", s) >= Count(toWorker, "cancel", s)
             /\ (s # r => Count(toWorker', "cancel", s) = Count(toWorker, "cancel", s))
  <2> SUFFICES ASSUME NEW s
      PROVE  /\ Count(toWorker', "cancel", s) \in Nat /\ Count(toWorker, "cancel", s) \in Nat
             /\ Count(fromWorker, "ack", s) \in Nat /\ Count(fromWorker, "reject", s) \in Nat
             /\ Count(toWorker', "cancel", s) >= Count(toWorker, "cancel", s)
             /\ (s # r => Count(toWorker', "cancel", s) = Count(toWorker, "cancel", s))
    OBVIOUS
  <2>1. /\ Count(fromWorker, "ack", s) \in Nat /\ Count(fromWorker, "reject", s) \in Nat
        /\ Count(toWorker, "cancel", s) \in Nat
    BY <1>3, CountType
  <2>2. CASE toWorker' = toWorker
    BY <2>1, <2>2
  <2>3. CASE toWorker' = Append(toWorker, m)
    BY <1>2, <1>3, <2>1, <2>3, CountsAppend
  <2> QED
    BY <1>5, <2>2, <2>3
<1>8. Types'
  <2>1. toWorker' \in Seq(Messages)
    <3>1. Append(toWorker, m) \in Seq(Messages)
      BY <1>2, <1>3, LookAppend
    <3> QED
      BY <1>3, <1>5, <3>1
  <2> QED
    BY <1>3, <2>1, EmptyQueue DEF Types
<1>9. Kinds'
  <2>1. AllOf(toWorker', Asks)
    BY <1>2, <1>3, <1>5, FormsAppend DEF Kinds, Asks
  <2> QED
    BY <1>3, <1>4, <2>1, FormsEmpty DEF Kinds
<1>10. Holdings'
  BY <1>3, <1>4, <1>6 DEF Holdings, Waiting, Forgotten, Types
<1>11. Death'
  BY <1>3, <1>5 DEF Death, Leaves
<1>12. Over'
  <2>1. SubmitsFirst(toWorker')
    BY <1>2, <1>3, <1>5, SubmitsFirstAppend DEF Over
  <2>2. stage[r] = "active" \/ Submitted(r) => a \in Late
    BY DEF Leaves
  <2> QED
    BY <1>3, <1>4, <1>6, <2>1, <2>2, EmptyQueue DEF Over, Submitted, Posted
<1>13. EnoughReplies' /\ NoStrayReply'
  <2>1. \A s : /\ Replies(s)' \in Nat /\ Replies(s) \in Nat /\ Replies(s)' >= Replies(s)
               /\ (s # r => Replies(s)' = Replies(s))
    BY <1>3, <1>7 DEF Replies
  <2>2. \A s : (Refused(s)' <=> Refused(s)) /\ (Acked(s)' <=> Acked(s))
    BY <1>3, <1>6 DEF Refused, Submitted, Acked
  <2>3. EnoughReplies'
    BY <1>3, <2>1, <2>2 DEF EnoughReplies, One
  <2>4. NoStrayReply'
    BY <1>3, <1>6, <2>1, <2>2 DEF NoStrayReply, Submitted
  <2> QED
    BY <2>3, <2>4
<1>14. Acks'
  <2>1. \A s : Acked(s)' <=> Acked(s)
    BY <1>3 DEF Acked
  <2>2. Acked(r) => a \in Late \cup {"cancelled", "lost"}
    BY DEF Leaves
  <2> QED
    BY <1>3, <1>4, <1>6, <2>1, <2>2, EmptyQueue, FormsEmpty DEF Acks, Submitted
<1>15. Abandoned'
  <2>1. toWorker' = Append(toWorker, m) => In(toWorker', "cancel", r)
    BY <1>2, <1>3, InAppend
  <2> QED
    BY <1>3, <1>4, <1>5, <1>6, <2>1 DEF Abandoned, Submitted
<1>16. LastWord'
  BY <1>3, <1>4, FormsEmpty DEF LastWord, Waiting, Posted
<1> QED
  BY <1>8, <1>9, <1>10, <1>11, <1>12, <1>13, <1>14, <1>15, <1>16

LEMMA AbandonLeaves ==
  ASSUME ReplyInv, NEW r \in Requests, NEW a \in Late \ {None}, Waiting(r),
         Abandon(r), Answer(r, a),
         UNCHANGED <<cancel, state, fromWorker, worker, cancellers, crashes>>
  PROVE  Leaves(r, a) /\ a \in Answers
<1>1. CASE alive
  BY <1>1 DEF Leaves, Abandon, Waiting, Late, Answers
<1>2. CASE ~alive
  <2>1. stage[r] # "active" /\ ~Submitted(r)
    BY <1>2, EmptyQueue, Constants DEF ReplyInv, Death, Submitted
  <2> QED
    BY <1>2, <2>1 DEF Leaves, Abandon, Late, Answers
<1> QED
  BY <1>1, <1>2

LEMMA SubmitFailsLeaves ==
  ASSUME ReplyInv, NEW r \in Requests, SubmitFails(r)
  PROVE  \E a \in {"busy", "lost"} : Leaves(r, a)
<1> USE Constants DEF ReplyInv
<1>1. PICK a \in {"busy", "lost"} : Answer(r, a)
  BY DEF SubmitFails
<1>2. pc[r] = "idle" /\ r \notin completion /\ stage[r] = None /\ ~Submitted(r) /\ ~Acked(r)
  BY DEF SubmitFails, Holdings, Waiting, Forgotten, Submitted, Acked
<1>3. Leaves(r, a)
  BY <1>1, <1>2 DEF SubmitFails, Leaves, slot, worker, cancellers
<1> QED
  BY <1>3

LEMMA TimesOutLeaves ==
  ASSUME ReplyInv, NEW r \in Requests, TimesOut(r) \/ StreamBreaks(r)
  PROVE  \E a \in {"timeout", "gone"} : Leaves(r, a)
<1>1. PICK a \in {"timeout", "gone"} : Answer(r, a)
  BY DEF TimesOut, StreamBreaks
<1>2. /\ Waiting(r) /\ Abandon(r)
      /\ UNCHANGED <<cancel, state, fromWorker, worker, cancellers, crashes>>
  BY DEF TimesOut, StreamBreaks, Waiting
<1>3. a \in Late \ {None}
  BY Constants DEF Late, Answers
<1>4. Leaves(r, a)
  BY <1>1, <1>2, <1>3, AbandonLeaves
<1> QED
  BY <1>4

LEMMA ReceiveTerminalLeaves ==
  ASSUME ReplyInv, NEW r \in Requests, ReceiveTerminal(r)
  PROVE  LET a == AnswerOf(r, Head(mailbox[r]))
         IN  Leaves(r, a) /\ a \in Answers
<1> USE Constants DEF ReplyInv
<1>1. PICK q : q = mailbox[r]
  OBVIOUS
<1>2. PICK m : m = Head(q)
  OBVIOUS
<1>3. /\ q \in Seq(Messages) /\ q # << >> /\ m \in Messages /\ m.request = r
      /\ m.kind \in {"result", "reject", "lost"} /\ Waiting(r)
  <2>1. q \in Seq(Messages) /\ q # << >> /\ Terminal(m) /\ Waiting(r)
    BY <1>1, <1>2 DEF ReceiveTerminal, Types, Waiting
  <2>2. OnlyAbout(q, r)
    BY <1>1 DEF Kinds
  <2> QED
    BY <1>2, <2>1, <2>2, LookTail, FormsTail DEF Terminal
<1>4. In(q, m.kind, r)
  BY <1>2, <1>3, InTail DEF Is
<1>5. Posted(r) /\ r \notin completion
  BY <1>1, <1>3, <1>4 DEF Posted, LastWord
<1>6. stage[r] # "active" /\ ~Submitted(r)
  BY <1>5 DEF Over
<1>7. PICK a : a = AnswerOf(r, m)
  OBVIOUS
<1>8. /\ m.kind = "lost" => a = "lost"
      /\ m.kind = "reject" => a = m.value
      /\ m.kind = "result" => a \in {"protocol", m.value.finish}
  BY <1>3, <1>7 DEF AnswerOf, Mismatch
<1>9. a \in Answers
  BY <1>3, <1>8, MessageShape DEF Answers
<1>10. Acked(r) => a \in Late \cup {"cancelled", "lost"}
  <2> SUFFICES ASSUME Acked(r) PROVE a \in Late \cup {"cancelled", "lost"}
    OBVIOUS
  <2>1. OnlyCancelled(q, r) /\ ~In(q, "reject", r)
    BY <1>1 DEF Acks
  <2>2. m.kind # "reject"
    BY <1>4, <2>1
  <2>3. m.kind = "result" => m.value.finish = "cancelled"
    BY <1>2, <1>3, <2>1, FormsTail DEF Is
  <2> QED
    BY <1>3, <1>8, <2>2, <2>3 DEF Late
<1>11. Answer(r, a) /\ UNCHANGED <<cancel, state, fromWorker, worker, cancellers, crashes>>
  BY <1>1, <1>2, <1>7 DEF ReceiveTerminal
<1>12. \/ Abandon(r)
       \/ UNCHANGED <<completion, toWorker>>
  BY DEF ReceiveTerminal
<1>13. Leaves(r, a)
  <2>1. CASE UNCHANGED <<completion, toWorker>>
    BY <1>5, <1>6, <1>10, <1>11, <2>1 DEF Leaves
  <2>2. CASE Abandon(r)
    BY <1>3, <1>6, <1>10, <1>11, <2>2 DEF Leaves, Abandon, Waiting
  <2> QED
    BY <1>12, <2>1, <2>2
<1> QED
  BY <1>1, <1>2, <1>7, <1>9, <1>13

LEMMA ReceiveProgressKeeps ==
  ASSUME ReplyInv, NEW r \in Requests, ReceiveProgress(r)
  PROVE  ReplyInv'
<1> USE Constants DEF ReplyInv
<1>1. PICK q : q = mailbox[r]
  OBVIOUS
<1>2. PICK m : m = Head(q)
  OBVIOUS
<1>3. /\ q \in Seq(Messages) /\ q # << >> /\ m \in Messages /\ m.request = r
      /\ m.kind \notin {"result", "reject", "lost"} /\ Waiting(r)
  <2>1. q \in Seq(Messages) /\ q # << >> /\ ~Terminal(m) /\ Waiting(r)
    BY <1>1, <1>2 DEF ReceiveProgress, Types, Waiting
  <2>2. OnlyAbout(q, r)
    BY <1>1 DEF Kinds
  <2> QED
    BY <1>2, <2>1, <2>2, LookTail, FormsTail DEF Terminal
<1>4. CASE ~Expected(r, m)
  <2>1. Abandon(r) /\ Answer(r, "protocol")
        /\ UNCHANGED <<cancel, state, fromWorker, worker, cancellers, crashes>>
    BY <1>1, <1>2, <1>4 DEF ReceiveProgress
  <2>2. "protocol" \in Late \ {None}
    BY DEF Late, Answers
  <2>3. Leaves(r, "protocol") /\ "protocol" \in Answers
    BY <1>3, <2>1, <2>2, AbandonLeaves
  <2> QED
    BY <2>3, LeavesKeeps
<1>5. CASE Expected(r, m)
  <2>1. /\ mailbox' = [mailbox EXCEPT ![r] = Tail(@)]
        /\ seen' = IF pc[r] = "pump" THEN [seen EXCEPT ![r] = @ + 1] ELSE seen
        /\ pc' = [pc EXCEPT ![r] = IF @ = "admit" THEN "pump" ELSE @]
        /\ UNCHANGED <<completion, cancel, state, toWorker, fromWorker, alive, phase,
                       stage, produced, answer, target, reply, crashes>>
    BY <1>1, <1>2, <1>5 DEF ReceiveProgress, worker, cancellers
  <2>2. /\ mailbox'[r] = Tail(q) /\ Tail(q) \in Seq(Messages)
        /\ \A s \in Requests : s # r => mailbox'[s] = mailbox[s]
    BY <1>1, <1>3, <2>1, LookTail DEF Types
  <2>3. \A k : k \in {"result", "reject", "lost"} =>
             (In(Tail(q), k, r) <=> In(q, k, r))
    BY <1>2, <1>3, InTail DEF Is
  <2>4. \A s \in Requests : Posted(s)' <=> Posted(s)
    BY <1>1, <2>2, <2>3 DEF Posted
  <2>5. \A s \in Requests : Waiting(s)' <=> Waiting(s)
    BY <1>3, <2>1 DEF Waiting, Types
  <2>6. \A s \in Requests : /\ (s # r \/ pc[s] # "admit" => pc'[s] = pc[s])
                            /\ (s = r /\ pc[s] = "admit" => pc'[s] = "pump")
                            /\ (s # r \/ pc[s] # "pump" => seen'[s] = seen[s])
    BY <2>1 DEF Types
  <2>7. pc[r] = "pump" => seen[r] + 1 <= Budget[r]
    <3>1. pc[r] = "pump" => m.value = seen[r] /\ m.value \in 0 .. Budget[r] - 1
      BY <1>3, <1>5, MessageShape DEF Expected
    <3> QED
      BY <3>1 DEF Types
  <2>8. Types'
    <3>1. mailbox' \in [Requests -> Seq(Messages)]
      BY <1>1, <2>1, <2>2 DEF Types
    <3>2. seen' \in [Requests -> Nat] /\ \A s \in Requests : seen'[s] <= Budget[s]
      BY <2>1, <2>7 DEF Types
    <3>3. pc' \in [Requests -> {"idle", "await", "admit", "pump", "done"}]
      BY <2>1 DEF Types
    <3> QED
      BY <2>1, <3>1, <3>2, <3>3 DEF Types
  <2>9. Kinds'
    BY <1>1, <1>3, <2>1, <2>2, FormsTail DEF Kinds
  <2>10. Holdings'
    BY <1>3, <2>1, <2>2, <2>5, <2>6 DEF Holdings, Waiting, Forgotten
  <2>11. Death'
    BY <2>1 DEF Death
  <2>12. Over'
    BY <2>1, <2>4 DEF Over, Submitted
  <2>13. EnoughReplies' /\ NoStrayReply'
    BY <2>1 DEF EnoughReplies, NoStrayReply, Replies, Refused, Acked, Submitted
  <2>14. Acks'
    <3>1. OnlyCancelled(q, r) => OnlyCancelled(Tail(q), r)
      BY <1>3, FormsTail
    <3> QED
      BY <1>1, <2>1, <2>2, <2>3, <3>1 DEF Acks, Acked, Submitted
  <2>15. Abandoned'
    BY <2>1, <2>6 DEF Abandoned, Submitted
  <2>16. LastWord'
    <3>1. EndsLast(q) => EndsLast(Tail(q))
      BY <1>3, FormsTail
    <3> QED
      BY <1>1, <2>1, <2>2, <2>4, <2>5, <3>1 DEF LastWord
  <2> QED
    BY <2>8, <2>9, <2>10, <2>11, <2>12, <2>13, <2>14, <2>15, <2>16
<1> QED
  BY <1>4, <1>5

LEMMA RestartKeeps ==
  ASSUME ReplyInv, NEW r \in Requests, Restart(r)
  PROVE  ReplyInv'
<1> USE Constants DEF ReplyInv
<1>1. /\ pc[r] = "idle" /\ state = "down" /\ state' = "ready" /\ alive' = TRUE
      /\ UNCHANGED <<completion, cancel, toWorker, fromWorker, phase, stage, produced,
                     mailbox, pc, seen, answer, target, reply, crashes>>
  BY DEF Restart, clients, cancellers
<1>2. /\ ~alive /\ toWorker = << >> /\ completion = {}
      /\ \A s \in Requests : stage[s] = None /\ cancel[s] = None
  BY <1>1 DEF Death
<1>3. Types' /\ Kinds' /\ Death' /\ LastWord'
  BY <1>1, <1>2 DEF Types, Kinds, Death, LastWord, Waiting, Posted
<1>4. Holdings'
  BY <1>1 DEF Holdings, Waiting, Forgotten
<1>5. Over' /\ Acks'
  BY <1>1 DEF Over, Acks, Acked, Submitted, Posted
<1>6. EnoughReplies' /\ NoStrayReply'
  BY <1>1, <1>2 DEF EnoughReplies, NoStrayReply
<1>7. Abandoned'
  BY <1>1, <1>2, EmptyQueue DEF Abandoned, Submitted
<1> QED
  BY <1>3, <1>4, <1>5, <1>6, <1>7

LEMMA CancelRequestKeeps ==
  ASSUME ReplyInv, NEW r \in Requests, NEW c \in Cancellers, CancelRequest(c, r)
  PROVE  ReplyInv'
<1> USE Constants DEF ReplyInv
<1>1. PICK m : m = CancelFrame(r)
  OBVIOUS
<1>2. /\ m \in Messages
      /\ \A k, s : Is(m, k, s) <=> k = "cancel" /\ s = r
      /\ m.kind = "cancel" /\ m.request = r
  BY <1>1, FramesOfRequest, FrameFields DEF Is
<1>3. /\ toWorker \in Seq(Messages) /\ fromWorker \in Seq(Messages)
      /\ target[c] = None /\ r \in completion /\ cancel[r] = None /\ alive
      /\ target' = [target EXCEPT ![c] = r]
      /\ cancel' = [cancel EXCEPT ![r] = c]
      /\ toWorker' = Append(toWorker, m)
      /\ UNCHANGED <<completion, state, fromWorker, alive, phase, stage, produced,
                     mailbox, pc, seen, answer, reply, crashes>>
  BY <1>1 DEF CancelRequest, Types, worker, clients
<1>4. /\ cancel'[r] = c /\ target'[c] = r /\ reply[c] = None /\ Waiting(r)
      /\ \A s \in Requests : s # r => cancel'[s] = cancel[s]
      /\ \A d \in Cancellers : d # c => target'[d] = target[d]
  BY <1>3 DEF Types, Holdings
<1>5. \A k, s : In(toWorker', k, s) <=> In(toWorker, k, s) \/ (k = "cancel" /\ s = r)
  BY <1>2, <1>3, InAppend
<1>6. \A s : Count(toWorker', "cancel", s) =
             IF s = r THEN Count(toWorker, "cancel", s) + 1 ELSE Count(toWorker, "cancel", s)
  BY <1>2, <1>3, CountsAppend
<1>7. Types'
  BY <1>2, <1>3, LookAppend DEF Types
<1>8. Kinds'
  BY <1>2, <1>3, FormsAppend DEF Kinds, Asks
<1>9. Holdings'
  BY <1>3, <1>4, <1>5 DEF Holdings, Waiting, Forgotten, Types
<1>10. Death'
  BY <1>3 DEF Death
<1>11. Over'
  <2>1. SubmitsFirst(toWorker')
    BY <1>2, <1>3, SubmitsFirstAppend DEF Over
  <2> QED
    BY <1>3, <1>5, <2>1 DEF Over, Submitted, Posted
<1>12. \A s : Acked(s)' <=> Acked(s)
  BY <1>3, <1>4 DEF Acked
<1>13. EnoughReplies' /\ NoStrayReply'
  <2>1. \A s : /\ Count(fromWorker, "ack", s) \in Nat /\ Count(fromWorker, "reject", s) \in Nat
               /\ Count(toWorker, "cancel", s) \in Nat
    BY <1>3, CountType
  <2>2. \A s : /\ Replies(s) \in Nat
               /\ Replies(s)' = IF s = r THEN Replies(s) + 1 ELSE Replies(s)
    BY <1>3, <1>6, <2>1 DEF Replies
  <2>3. \A s : Refused(s)' <=> Refused(s)
    BY <1>3, <1>5 DEF Refused, Submitted
  <2>4. EnoughReplies'
    BY <1>3, <1>4, <2>2, <2>3 DEF EnoughReplies, One
  <2>5. NoStrayReply'
    BY <1>3, <1>4, <1>5, <1>12, <2>2 DEF NoStrayReply, One, Submitted
  <2> QED
    BY <2>4, <2>5
<1>14. Acks'
  BY <1>3, <1>5, <1>12 DEF Acks, Submitted
<1>15. Abandoned'
  BY <1>3, <1>5 DEF Abandoned, Submitted
<1>16. LastWord'
  BY <1>3 DEF LastWord, Waiting, Posted
<1> QED
  BY <1>7, <1>8, <1>9, <1>10, <1>11, <1>13, <1>14, <1>15, <1>16

LEMMA CancelTimesOutKeeps ==
  ASSUME ReplyInv, NEW c \in Cancellers, CancelTimesOut(c)
  PROVE  ReplyInv'
<1> USE Constants DEF ReplyInv
<1>1. /\ target[c] # None /\ reply[c] = None
      /\ reply' = [reply EXCEPT ![c] = "timeout"]
      /\ UNCHANGED <<completion, cancel, state, toWorker, fromWorker, alive, phase, stage,
                     produced, mailbox, pc, seen, answer, target, crashes>>
  BY DEF CancelTimesOut, slot, worker, clients
<1>2. \A d \in Cancellers : reply'[d] = IF d = c THEN "timeout" ELSE reply[d]
  BY <1>1 DEF Types
<1>3. Types' /\ Kinds' /\ Death' /\ LastWord' /\ Over' /\ Abandoned'
  BY <1>1 DEF Types, Kinds, Death, LastWord, Over, Abandoned, Waiting, Posted, Submitted,
              Replied
<1>4. Holdings'
  BY <1>1, <1>2 DEF Holdings, Waiting, Forgotten
<1>5. \A s : Acked(s)' <=> Acked(s)
  BY <1>1, <1>2 DEF Acked
<1>6. EnoughReplies' /\ NoStrayReply' /\ Acks'
  BY <1>1, <1>5 DEF EnoughReplies, NoStrayReply, Acks, Replies, Refused, Submitted
<1> QED
  BY <1>3, <1>4, <1>6

LEMMA PhaseKeeps ==
  ASSUME ReplyInv, Drained \/ StepNothing \/ Unblocked
  PROVE  ReplyInv'
<1>1. /\ phase' \in {"drain", "step", "block"}
      /\ UNCHANGED <<completion, cancel, state, toWorker, fromWorker, alive, stage,
                     produced, mailbox, pc, seen, answer, target, reply, crashes>>
  BY DEF Drained, StepNothing, Unblocked, slot, clients, cancellers
<1>2. Types' /\ Kinds' /\ Death' /\ LastWord' /\ Over' /\ Abandoned'
  BY <1>1 DEF ReplyInv, Types, Kinds, Death, LastWord, Over, Abandoned, Waiting, Posted,
              Submitted
<1>3. Holdings'
  BY <1>1 DEF ReplyInv, Holdings, Waiting, Forgotten
<1>4. EnoughReplies' /\ NoStrayReply' /\ Acks'
  BY <1>1 DEF ReplyInv, EnoughReplies, NoStrayReply, Acks, Replies, Refused, Submitted, Acked
<1> QED
  BY <1>2, <1>3, <1>4 DEF ReplyInv

LEMMA HandleSubmitKeeps ==
  ASSUME ReplyInv, HandleSubmit
  PROVE  ReplyInv'
<1> USE Constants DEF ReplyInv
<1>1. PICK m : m = Head(toWorker)
  OBVIOUS
<1>2. PICK r : r = m.request
  OBVIOUS
<1>3. PICK admitted \in BOOLEAN :
        /\ stage' = IF admitted THEN [stage EXCEPT ![r] = "active"] ELSE stage
        /\ fromWorker' = fromWorker \o SubmitReply(r, admitted)
  BY <1>1, <1>2 DEF HandleSubmit
<1>4. PICK a : a = IF admitted THEN Admitted(r) ELSE Reject(r, "admission")
  OBVIOUS
<1>5. /\ toWorker \in Seq(Messages) /\ toWorker # << >> /\ fromWorker \in Seq(Messages)
      /\ m \in Messages /\ m.kind = "submit" /\ alive
      /\ toWorker' = Tail(toWorker)
      /\ UNCHANGED <<completion, cancel, state, alive, phase, produced, mailbox, pc, seen,
                     answer, target, reply, crashes>>
  BY <1>1, LookTail DEF HandleSubmit, Types, slot, clients, cancellers
<1>6. r \in Requests
  BY <1>2, <1>5, MessageShape
<1>7. /\ a \in Messages /\ a.request = r
      /\ admitted => a.kind = "admitted"
      /\ ~admitted => a.kind = "reject"
  BY <1>4, <1>6, FramesOfRequest, FrameFields
<1>8. fromWorker' = Append(fromWorker, a)
  BY <1>3, <1>4, <1>5, <1>7 DEF SubmitReply
<1>9. /\ \A k, s : In(toWorker, k, s) <=> In(toWorker', k, s) \/ (k = "submit" /\ s = r)
      /\ ~In(toWorker', "submit", r)
      /\ SubmitsFirst(toWorker') /\ AllOf(toWorker', Asks)
  <2>1. \A k, s : In(toWorker, k, s) <=> In(toWorker', k, s) \/ Is(m, k, s)
    BY <1>1, <1>5, InTail
  <2>2. \A k, s : Is(m, k, s) <=> k = "submit" /\ s = r
    BY <1>2, <1>5 DEF Is
  <2>3. ~In(toWorker', "submit", r) /\ SubmitsFirst(toWorker') /\ AllOf(toWorker', Asks)
    BY <1>1, <1>2, <1>5, FormsTail DEF Over, Kinds
  <2> QED
    BY <2>1, <2>2, <2>3
<1>10. \A k, s : In(fromWorker', k, s) <=>
                   \/ In(fromWorker, k, s)
                   \/ s = r /\ k = (IF admitted THEN "admitted" ELSE "reject")
  <2>1. \A k, s : In(fromWorker', k, s) <=> In(fromWorker, k, s) \/ Is(a, k, s)
    BY <1>5, <1>7, <1>8, InAppend
  <2> QED
    BY <1>7, <2>1 DEF Is
<1>11. \A s : /\ Replies(s) \in Nat /\ Replies(s)' >= Replies(s) /\ Replies(s)' \in Nat
              /\ s # r \/ admitted => Replies(s)' = Replies(s)
              /\ s = r /\ ~admitted => Replies(s)' = Replies(s) + 1
  <2> SUFFICES ASSUME NEW s
      PROVE   /\ Replies(s) \in Nat /\ Replies(s)' >= Replies(s) /\ Replies(s)' \in Nat
              /\ s # r \/ admitted => Replies(s)' = Replies(s)
              /\ s = r /\ ~admitted => Replies(s)' = Replies(s) + 1
    OBVIOUS
  <2>1. /\ Count(toWorker, "cancel", s) \in Nat
        /\ Count(toWorker', "cancel", s) = Count(toWorker, "cancel", s)
    BY <1>1, <1>5, CountsTail DEF Is
  <2>2. /\ Count(fromWorker, "ack", s) \in Nat
        /\ Count(fromWorker', "ack", s) = Count(fromWorker, "ack", s)
    BY <1>5, <1>7, <1>8, CountsAppend DEF Is
  <2>3. /\ Count(fromWorker, "reject", s) \in Nat
        /\ s # r \/ admitted =>
             Count(fromWorker', "reject", s) = Count(fromWorker, "reject", s)
        /\ s = r /\ ~admitted =>
             Count(fromWorker', "reject", s) = Count(fromWorker, "reject", s) + 1
    BY <1>5, <1>7, <1>8, CountsAppend DEF Is
  <2> QED
    BY <2>1, <2>2, <2>3 DEF Replies
<1>12. /\ Submitted(r) /\ stage[r] = None /\ ~Acked(r)
       /\ ~In(fromWorker, "result", r) /\ ~In(fromWorker, "ack", r)
       /\ ~Posted(r) /\ answer[r] \in Late /\ pc[r] # "idle"
  <2>1. Submitted(r)
    BY <1>9 DEF Submitted
  <2>2. pc[r] # "idle"
    BY <1>6, <2>1 DEF Holdings, Forgotten, Submitted
  <2>3. ~Acked(r)
    BY <1>6, <2>1 DEF Acks
  <2> QED
    BY <1>6, <2>1, <2>2, <2>3 DEF Over
<1>13. /\ stage'[r] = IF admitted THEN "active" ELSE None
       /\ \A s \in Requests : s # r => stage'[s] = stage[s]
  BY <1>3, <1>6, <1>12 DEF Types
<1>14. /\ \A s : Submitted(s)' <=> Submitted(s) /\ s # r
       /\ \A s : Acked(s)' <=> Acked(s)
       /\ \A s : Posted(s)' <=> Posted(s)
  BY <1>5, <1>9, <1>10 DEF Submitted, Acked, Posted
<1>15. Types'
  <2>1. stage' \in [Requests -> {None, "active", "cancelling"}]
    BY <1>3, <1>6 DEF Types
  <2>2. toWorker' \in Seq(Messages) /\ fromWorker' \in Seq(Messages)
    BY <1>5, <1>7, <1>8, LookAppend, LookTail
  <2> QED
    BY <1>5, <2>1, <2>2 DEF Types
<1>16. Kinds'
  <2>1. AllOf(fromWorker', Says)
    BY <1>5, <1>7, <1>8, FormsAppend DEF Kinds, Says
  <2> QED
    BY <1>5, <1>9, <2>1 DEF Kinds
<1>17. Holdings'
  BY <1>5, <1>9, <1>10, <1>12, <1>13 DEF Holdings, Waiting, Forgotten
<1>18. Death'
  BY <1>5 DEF Death
<1>19. Over'
  BY <1>5, <1>9, <1>10, <1>12, <1>13, <1>14 DEF Over
<1>20. EnoughReplies'
  <2>1. \A s \in Requests : s # r => (Refused(s)' <=> Refused(s))
    BY <1>10, <1>13, <1>14 DEF Refused
  <2>2. ~Refused(r) /\ (admitted => ~Refused(r)')
    BY <1>6, <1>12, <1>13, <1>14 DEF Refused
  <2> QED
    BY <1>5, <1>6, <1>11, <2>1, <2>2 DEF EnoughReplies, One
<1>21. NoStrayReply'
  <2> SUFFICES ASSUME NEW s \in completion, Acked(s)' \/ stage'[s] # None \/ Submitted(s)'
      PROVE  Replies(s)' <= One(cancel[s] # None)
    BY <1>5 DEF NoStrayReply
  <2>1. s \in Requests
    BY DEF Types
  <2>2. Acked(s) \/ stage[s] # None \/ Submitted(s)
    BY <1>12, <1>13, <1>14, <2>1
  <2>3. s # r \/ admitted
    BY <1>12, <1>13, <1>14
  <2>4. Replies(s)' = Replies(s)
    BY <1>11, <2>3
  <2> QED
    BY <2>2, <2>4 DEF NoStrayReply
<1>22. Acks'
  <2>1. \A s : OnlyCancelled(fromWorker, s) => OnlyCancelled(fromWorker', s)
    BY <1>5, <1>7, <1>8, FormsAppend DEF Is
  <2> QED
    BY <1>5, <1>12, <1>13, <1>14, <2>1 DEF Acks
<1>23. Abandoned'
  BY <1>5, <1>6, <1>9, <1>12, <1>13, <1>14 DEF Abandoned
<1>24. LastWord'
  BY <1>5, <1>14 DEF LastWord, Waiting
<1> QED
  BY <1>15, <1>16, <1>17, <1>18, <1>19, <1>20, <1>21, <1>22, <1>23, <1>24

LEMMA HandleCancelKeeps ==
  ASSUME ReplyInv, HandleCancel
  PROVE  ReplyInv'
<1> USE Constants DEF ReplyInv
<1>1. PICK m : m = Head(toWorker)
  OBVIOUS
<1>2. PICK r : r = m.request
  OBVIOUS
<1>3. PICK a : a = IF stage[r] = "active" THEN Ack(r) ELSE Reject(r, "contract")
  OBVIOUS
<1>4. /\ toWorker \in Seq(Messages) /\ toWorker # << >> /\ fromWorker \in Seq(Messages)
      /\ m \in Messages /\ m.kind = "cancel" /\ alive
      /\ toWorker' = Tail(toWorker)
      /\ UNCHANGED <<completion, cancel, state, alive, phase, produced, mailbox, pc, seen,
                     answer, target, reply, crashes>>
  BY <1>1, LookTail DEF HandleCancel, Types, slot, clients, cancellers
<1>5. r \in Requests
  BY <1>2, <1>4, MessageShape
<1>6. /\ fromWorker' = Append(fromWorker, a)
      /\ stage' = IF stage[r] = "active" THEN [stage EXCEPT ![r] = "cancelling"] ELSE stage
  BY <1>1, <1>2, <1>3, <1>5 DEF HandleCancel, Cancellable, Active
<1>7. /\ a \in Messages /\ a.request = r
      /\ stage[r] = "active" => a.kind = "ack"
      /\ stage[r] # "active" => a.kind = "reject"
  BY <1>3, <1>5, FramesOfRequest, FrameFields
<1>8. /\ \A k, s : In(toWorker, k, s) <=> In(toWorker', k, s) \/ (k = "cancel" /\ s = r)
      /\ ~In(toWorker', "submit", r)
      /\ SubmitsFirst(toWorker') /\ AllOf(toWorker', Asks)
  <2>1. \A k, s : In(toWorker, k, s) <=> In(toWorker', k, s) \/ Is(m, k, s)
    BY <1>1, <1>4, InTail
  <2>2. \A k, s : Is(m, k, s) <=> k = "cancel" /\ s = r
    BY <1>2, <1>4 DEF Is
  <2>3. ~In(toWorker', "submit", r) /\ SubmitsFirst(toWorker') /\ AllOf(toWorker', Asks)
    BY <1>1, <1>2, <1>4, FormsTail DEF Over, Kinds
  <2> QED
    BY <2>1, <2>2, <2>3
<1>9. \A k, s : In(fromWorker', k, s) <=>
                  \/ In(fromWorker, k, s)
                  \/ s = r /\ k = (IF stage[r] = "active" THEN "ack" ELSE "reject")
  <2>1. \A k, s : In(fromWorker', k, s) <=> In(fromWorker, k, s) \/ Is(a, k, s)
    BY <1>4, <1>6, <1>7, InAppend
  <2> QED
    BY <1>7, <2>1 DEF Is
<1>10. \A s : Replies(s)' = Replies(s)
  <2> SUFFICES ASSUME NEW s PROVE Replies(s)' = Replies(s)
    OBVIOUS
  <2>1. /\ Count(toWorker', "cancel", s) \in Nat
        /\ Count(toWorker, "cancel", s) = Count(toWorker', "cancel", s)
                                            + (IF s = r THEN 1 ELSE 0)
    BY <1>1, <1>2, <1>4, CountsTail DEF Is
  <2>2. /\ Count(fromWorker, "ack", s) \in Nat
        /\ Count(fromWorker', "ack", s) = Count(fromWorker, "ack", s)
             + (IF s = r /\ stage[r] = "active" THEN 1 ELSE 0)
    BY <1>4, <1>6, <1>7, CountsAppend DEF Is
  <2>3. /\ Count(fromWorker, "reject", s) \in Nat
        /\ Count(fromWorker', "reject", s) = Count(fromWorker, "reject", s)
             + (IF s = r /\ stage[r] # "active" THEN 1 ELSE 0)
    BY <1>4, <1>6, <1>7, CountsAppend DEF Is
  <2> QED
    BY <2>1, <2>2, <2>3 DEF Replies
<1>11. ~Submitted(r) /\ pc[r] # "idle"
  <2>1. ~Submitted(r)
    BY <1>8 DEF Submitted
  <2>2. In(toWorker, "cancel", r)
    BY <1>8
  <2> QED
    BY <1>5, <2>1, <2>2 DEF Holdings, Forgotten
<1>12. /\ stage'[r] = IF stage[r] = "active" THEN "cancelling" ELSE stage[r]
       /\ \A s \in Requests : s # r => stage'[s] = stage[s]
  BY <1>5, <1>6 DEF Types
<1>13. /\ \A s : Submitted(s)' <=> Submitted(s)
       /\ \A s : Acked(s)' <=> Acked(s) \/ (s = r /\ stage[r] = "active")
       /\ \A s : Posted(s)' <=> Posted(s)
       /\ \A s \in Requests : Refused(s)' <=> Refused(s)
  <2>1. \A s : Submitted(s)' <=> Submitted(s)
    BY <1>8 DEF Submitted
  <2>2. \A s : Acked(s)' <=> Acked(s) \/ (s = r /\ stage[r] = "active")
    BY <1>4, <1>9 DEF Acked
  <2>3. \A s : Posted(s)' <=> Posted(s)
    BY <1>4 DEF Posted
  <2>4. \A s \in Requests : Refused(s)' <=> Refused(s)
    BY <1>9, <1>12, <2>1 DEF Refused
  <2> QED
    BY <2>1, <2>2, <2>3, <2>4
<1>14. Types'
  <2>1. stage' \in [Requests -> {None, "active", "cancelling"}]
    BY <1>5, <1>6 DEF Types
  <2>2. toWorker' \in Seq(Messages) /\ fromWorker' \in Seq(Messages)
    BY <1>4, <1>6, <1>7, LookAppend, LookTail
  <2> QED
    BY <1>4, <2>1, <2>2 DEF Types
<1>15. Kinds'
  <2>1. AllOf(fromWorker', Says)
    BY <1>4, <1>6, <1>7, FormsAppend DEF Kinds, Says
  <2> QED
    BY <1>4, <1>8, <2>1 DEF Kinds
<1>16. Holdings'
  BY <1>4, <1>8, <1>9, <1>11, <1>12 DEF Holdings, Waiting, Forgotten
<1>17. Death'
  BY <1>4 DEF Death
<1>18. Over'
  BY <1>4, <1>8, <1>9, <1>11, <1>12, <1>13 DEF Over
<1>19. EnoughReplies'
  BY <1>4, <1>10, <1>13 DEF EnoughReplies, One
<1>20. NoStrayReply'
  BY <1>4, <1>5, <1>10, <1>12, <1>13 DEF NoStrayReply, One, Types
<1>21. Acks'
  <2>1. \A s : OnlyCancelled(fromWorker, s) => OnlyCancelled(fromWorker', s)
    BY <1>4, <1>6, <1>7, FormsAppend DEF Is
  <2>2. ASSUME stage[r] = "active"
        PROVE  /\ OnlyCancelled(fromWorker, r) /\ OnlyCancelled(mailbox[r], r)
               /\ ~In(mailbox[r], "reject", r) /\ answer[r] \in Late
    <3>1. ~In(fromWorker, "result", r) /\ ~Posted(r) /\ answer[r] \in Late
      BY <1>5, <2>2 DEF Over
    <3> QED
      BY <3>1 DEF Posted, OnlyCancelled, In
  <2> QED
    BY <1>4, <1>5, <1>11, <1>12, <1>13, <2>1, <2>2 DEF Acks
<1>22. Abandoned'
  BY <1>4, <1>5, <1>8, <1>11, <1>12, <1>13 DEF Abandoned
<1>23. LastWord'
  BY <1>4, <1>13 DEF LastWord, Waiting
<1> QED
  BY <1>14, <1>15, <1>16, <1>17, <1>18, <1>19, <1>20, <1>21, <1>22, <1>23

(* A step of the worker reports tokens of active requests and the results  *)
(* of those that are done; the result of a cancelled one says so.          *)
Reports(rows, done) ==
  /\ alive
  /\ \A r \in rows : r \in Requests /\ stage[r] = "active"
  /\ \A r \in done : r \in Requests /\ stage[r] # None
  /\ stage' = [r \in Requests |-> IF r \in done THEN None ELSE stage[r]]
  /\ produced' \in [Requests -> Nat]
  /\ \A r \in Requests : /\ produced'[r] < Budget[r]
                         /\ (r \in done => produced'[r] = 0)
                         /\ (stage[r] = None => produced'[r] = produced[r])
  /\ fromWorker' \in Seq(Messages) /\ AllOf(fromWorker', Says)
  /\ \A k, r : In(fromWorker', k, r) <=>
                 \/ In(fromWorker, k, r)
                 \/ k = "delta" /\ r \in rows
                 \/ k = "result" /\ r \in done
  /\ \A k, r : k \in {"ack", "reject"} => Count(fromWorker', k, r) = Count(fromWorker, k, r)
  /\ \A r : OnlyCancelled(fromWorker, r) /\ (r \in done => stage[r] = "cancelling")
              => OnlyCancelled(fromWorker', r)
  /\ phase' = "drain"
  /\ UNCHANGED <<slot, toWorker, alive, clients, cancellers, crashes>>

LEMMA ReportsKeeps ==
  ASSUME ReplyInv, NEW rows, NEW done, Reports(rows, done)
  PROVE  ReplyInv'
<1> USE Constants DEF ReplyInv
<1>1. /\ alive /\ phase' = "drain"
      /\ fromWorker' \in Seq(Messages) /\ AllOf(fromWorker', Says)
      /\ \A r \in rows : r \in Requests /\ stage[r] = "active"
      /\ \A r \in done : r \in Requests /\ stage[r] # None
      /\ UNCHANGED <<completion, cancel, state, toWorker, alive, mailbox, pc, seen, answer,
                     target, reply, crashes>>
  BY DEF Reports, slot, clients, cancellers
<1>2. \A r \in Requests : stage'[r] = IF r \in done THEN None ELSE stage[r]
  BY DEF Reports
<1>3. \A k, r : In(fromWorker', k, r) <=>
                  \/ In(fromWorker, k, r)
                  \/ k = "delta" /\ r \in rows
                  \/ k = "result" /\ r \in done
  BY DEF Reports
<1>4. \A r : /\ Submitted(r)' <=> Submitted(r)
             /\ Acked(r)' <=> Acked(r)
             /\ Posted(r)' <=> Posted(r)
  BY <1>1, <1>3 DEF Submitted, Acked, Posted
<1>5. \A r : Replies(r)' = Replies(r)
  BY <1>1 DEF Reports, Replies
<1>6. \A r \in Requests : Refused(r)' <=> Refused(r)
  BY <1>1, <1>2, <1>3, <1>4 DEF Refused
<1>7. Types'
  <2>1. stage' \in [Requests -> {None, "active", "cancelling"}]
    BY DEF Reports, Types
  <2>2. /\ produced' \in [Requests -> Nat]
        /\ \A r \in Requests : produced'[r] < Budget[r] /\ seen'[r] <= Budget[r]
    BY <1>1 DEF Reports, Types
  <2> QED
    BY <1>1, <2>1, <2>2 DEF Types
<1>8. Kinds'
  BY <1>1 DEF Kinds
<1>9. Holdings'
  BY <1>1, <1>2, <1>3 DEF Holdings, Waiting, Forgotten
<1>10. Death'
  BY <1>1 DEF Death
<1>11. Over'
  <2>1. \A r \in Requests : stage'[r] = None => produced'[r] = 0
    BY <1>2 DEF Reports, Over
  <2> QED
    BY <1>1, <1>2, <1>3, <1>4, <2>1 DEF Over
<1>12. EnoughReplies'
  BY <1>1, <1>5, <1>6 DEF EnoughReplies, One
<1>13. NoStrayReply'
  <2> SUFFICES ASSUME NEW s \in completion, Acked(s)' \/ stage'[s] # None \/ Submitted(s)'
      PROVE  Replies(s)' <= One(cancel[s] # None)
    BY <1>1 DEF NoStrayReply
  <2>1. s \in Requests
    BY DEF Types
  <2>2. Acked(s) \/ stage[s] # None \/ Submitted(s)
    BY <1>2, <1>4, <2>1
  <2> QED
    BY <1>5, <2>2 DEF NoStrayReply
<1>14. Acks'
  <2>1. \A r \in Requests : Acked(r) =>
          OnlyCancelled(fromWorker, r) /\ (r \in done => stage[r] = "cancelling")
    BY <1>1 DEF Acks, Types
  <2>2. \A r \in Requests : Acked(r) => OnlyCancelled(fromWorker', r)
    BY <2>1 DEF Reports
  <2> QED
    BY <1>1, <1>2, <1>4, <2>2 DEF Acks
<1>15. Abandoned'
  BY <1>1, <1>2, <1>4 DEF Abandoned
<1>16. LastWord'
  BY <1>1, <1>4 DEF LastWord, Waiting
<1> QED
  BY <1>7, <1>8, <1>9, <1>10, <1>11, <1>12, <1>13, <1>14, <1>15, <1>16

LEMMA StepCancelKeeps ==
  ASSUME ReplyInv, StepCancel
  PROVE  ReplyInv'
<1> USE Constants DEF ReplyInv
<1>1. PICK r \in Requests :
        /\ stage[r] = "cancelling"
        /\ Reaped({r}, produced)
        /\ Report(<< >>, <<Result(r, "cancelled", produced[r])>>)
  BY DEF StepCancel, Cancelling
<1>2. PICK m : m = Result(r, "cancelled", produced[r])
  OBVIOUS
<1>3. produced[r] \in Nat /\ produced[r] < Budget[r] /\ Budget[r] \in Nat
  BY DEF Types
<1>4. produced[r] \in 0 .. Budget[r]
  BY <1>3
<1>5. /\ m \in Messages
      /\ m.kind = "result" /\ m.request = r /\ m.value.finish = "cancelled"
  BY <1>2, <1>4, FramesOfRequest, FrameFields
<1>6. fromWorker \in Seq(Messages) /\ fromWorker' = Append(fromWorker, m)
  <2>1. fromWorker' = fromWorker \o << >> \o <<m>>
    BY <1>1, <1>2 DEF Report
  <2>2. fromWorker \in Seq(Messages)
    BY DEF Types
  <2> QED
    BY <1>5, <2>1, <2>2
<1>7. \A k, s : In(fromWorker', k, s) <=> In(fromWorker, k, s) \/ (k = "result" /\ s = r)
  BY <1>5, <1>6, InAppend DEF Is
<1>8. \A k, s : k \in {"ack", "reject"} => Count(fromWorker', k, s) = Count(fromWorker, k, s)
  BY <1>5, <1>6, CountsAppend DEF Is
<1>9. \A s : OnlyCancelled(fromWorker, s) => OnlyCancelled(fromWorker', s)
  BY <1>5, <1>6, FormsAppend
<1>10. fromWorker' \in Seq(Messages) /\ AllOf(fromWorker', Says)
  BY <1>5, <1>6, LookAppend, FormsAppend DEF Kinds, Says
<1>11. /\ produced' \in [Requests -> Nat]
       /\ \A s \in Requests : /\ produced'[s] < Budget[s]
                              /\ (s \in {r} => produced'[s] = 0)
                              /\ (stage[s] = None => produced'[s] = produced[s])
  <2>1. \A s \in Requests : 0 < Budget[s]
    OBVIOUS
  <2> QED
    BY <1>1, <2>1 DEF Reaped, Types
<1>12. Reports({}, {r})
  BY <1>1, <1>7, <1>8, <1>9, <1>10, <1>11 DEF Reports, Reaped, StepCancel
<1> QED
  BY <1>12, ReportsKeeps

LEMMA CrashKeeps ==
  ASSUME ReplyInv, Crash
  PROVE  ReplyInv'
<1> USE Constants DEF ReplyInv
<1>1. PICK n \in 0 .. Len(fromWorker) : fromWorker' = SubSeq(fromWorker, 1, n)
  BY DEF Crash
<1>2. /\ alive' = FALSE /\ toWorker' = << >> /\ phase' = "drain" /\ crashes' = crashes + 1
      /\ crashes < MaxCrashes
      /\ stage' = [r \in Requests |-> None] /\ produced' = [r \in Requests |-> 0]
      /\ UNCHANGED <<completion, cancel, state, mailbox, pc, seen, answer, target, reply>>
  BY DEF Crash, Reaped, slot, clients, cancellers
<1>3. /\ fromWorker \in Seq(Messages) /\ fromWorker' \in Seq(Messages)
      /\ AllOf(fromWorker', Says)
      /\ \A r : OnlyCancelled(fromWorker, r) => OnlyCancelled(fromWorker', r)
      /\ \A k, r : In(fromWorker', k, r) => In(fromWorker, k, r)
      /\ \A k, r : Count(fromWorker', k, r) <= Count(fromWorker, k, r)
  <2>1. fromWorker \in Seq(Messages) /\ AllOf(fromWorker, Says)
    BY DEF Types, Kinds
  <2> QED
    BY <1>1, <2>1, Prefix
<1>4. /\ state = "ready" /\ \A r : ~In(toWorker', "submit", r)
      /\ \A k, r : ~In(toWorker', k, r)
  BY <1>2, EmptyQueue DEF Crash, Death, Types
<1>5. \A r : Acked(r)' => Acked(r)
  BY <1>2, <1>3 DEF Acked
<1>6. \A r : Replies(r)' <= Replies(r) /\ Replies(r)' \in Nat /\ Replies(r) \in Nat
  <2> SUFFICES ASSUME NEW r
      PROVE  Replies(r)' <= Replies(r) /\ Replies(r)' \in Nat /\ Replies(r) \in Nat
    OBVIOUS
  <2>1. Count(toWorker', "cancel", r) = 0
    BY <1>2, CountEmpty
  <2>2. /\ Count(toWorker, "cancel", r) \in Nat
        /\ Count(fromWorker, "ack", r) \in Nat /\ Count(fromWorker, "reject", r) \in Nat
        /\ Count(fromWorker', "ack", r) \in Nat /\ Count(fromWorker', "reject", r) \in Nat
    BY <1>3, CountType DEF Types
  <2>3. /\ Count(fromWorker', "ack", r) <= Count(fromWorker, "ack", r)
        /\ Count(fromWorker', "reject", r) <= Count(fromWorker, "reject", r)
    BY <1>3
  <2> QED
    BY <2>1, <2>2, <2>3 DEF Replies
<1>7. Types'
  <2>1. \A r \in Requests : 0 < Budget[r]
    OBVIOUS
  <2>2. crashes' \in 0 .. MaxCrashes
    BY <1>2 DEF Types
  <2> QED
    BY <1>2, <1>3, <2>1, <2>2, EmptyQueue DEF Types
<1>8. Kinds'
  BY <1>2, <1>3, FormsEmpty DEF Kinds
<1>9. Holdings'
  BY <1>2, <1>3, <1>4 DEF Holdings, Waiting, Forgotten
<1>10. Death'
  BY <1>2, <1>4 DEF Death
<1>11. Over'
  BY <1>2, <1>4, FormsEmpty DEF Over, Submitted
<1>12. EnoughReplies'
  BY <1>2 DEF EnoughReplies
<1>13. NoStrayReply'
  <2> SUFFICES ASSUME NEW s \in completion, Acked(s)' \/ stage'[s] # None \/ Submitted(s)'
      PROVE  Replies(s)' <= One(cancel[s] # None)
    BY <1>2 DEF NoStrayReply
  <2>1. Acked(s)
    BY <1>2, <1>4, <1>5 DEF Types, Submitted
  <2>2. Replies(s) <= One(cancel[s] # None) /\ One(cancel[s] # None) \in Nat
    BY <2>1 DEF NoStrayReply, One
  <2> QED
    BY <1>6, <2>2
<1>14. Acks'
  BY <1>2, <1>3, <1>4, <1>5 DEF Acks, Submitted
<1>15. Abandoned'
  BY <1>2 DEF Abandoned
<1>16. LastWord'
  BY <1>2 DEF LastWord, Waiting, Posted
<1> QED
  BY <1>7, <1>8, <1>9, <1>10, <1>11, <1>12, <1>13, <1>14, <1>15, <1>16

(* The frames of one batch: a token for each row, then the results.        *)
Listing(f, S) ==
  /\ f \in [1 .. Cardinality(S) -> S]
  /\ \A i, j \in 1 .. Cardinality(S) : f[i] = f[j] => i = j
  /\ \A x \in S : \E i \in 1 .. Cardinality(S) : f[i] = x

LEMMA ListingOfSet ==
  ASSUME NEW S, IsFiniteSet(S)
  PROVE  Listing(SetToSeq(S), S) /\ Len(SetToSeq(S)) = Cardinality(S)
<1>1. Cardinality(S) \in Nat /\ ExistsBijection(1 .. Cardinality(S), S)
  BY FS_CardinalityType
<1>2. PICK n : n = Cardinality(S)
  OBVIOUS
<1>3. PICK g \in [1 .. n -> S] : IsInjective(g)
  <2>1. PICK g : g \in Bijection(1 .. n, S)
    BY <1>1, <1>2 DEF ExistsBijection
  <2> QED
    BY <2>1 DEF Bijection, Injection, IsInjective
<1>4. PICK f : f = SetToSeq(S)
  OBVIOUS
<1>5. f \in [1 .. n -> S] /\ IsInjective(f)
  BY <1>2, <1>3, <1>4 DEF SetToSeq
<1>6. f \in Injection(1 .. n, S)
  BY <1>5 DEF Injection, IsInjective
<1>7. IsFiniteSet(1 .. n) /\ Cardinality(1 .. n) = n
  BY <1>1, <1>2, FS_Interval
<1>8. f \in Surjection(1 .. n, S)
  BY <1>2, <1>6, <1>7, FS_Injection
<1>9. Listing(f, S)
  BY <1>2, <1>5, <1>8 DEF Listing, IsInjective, Surjection
<1>10. Len(f) = n
  BY <1>1, <1>2, <1>5
<1> QED
  BY <1>2, <1>4, <1>9, <1>10

LEMMA Concat ==
  ASSUME NEW q \in Seq(Messages), NEW s \in Seq(Messages), NEW t \in Seq(Messages),
         NEW w, w = q \o s \o t
  PROVE  /\ w \in Seq(Messages)
         /\ Len(w) = Len(q) + Len(s) + Len(t)
         /\ \A i \in 1 .. Len(q) : w[i] = q[i]
         /\ \A i \in 1 .. Len(s) : w[Len(q) + i] = s[i]
         /\ \A i \in 1 .. Len(t) : w[Len(q) + Len(s) + i] = t[i]
<1>1. PICK u : u = q \o s
  OBVIOUS
<1>2. /\ u \in Seq(Messages) /\ Len(u) = Len(q) + Len(s)
      /\ \A i \in 1 .. Len(q) : u[i] = q[i]
      /\ \A i \in 1 .. Len(s) : u[Len(q) + i] = s[i]
      /\ Len(q) \in Nat /\ Len(s) \in Nat /\ Len(t) \in Nat
  BY <1>1
<1>3. PICK v : v = u \o t
  OBVIOUS
<1>4. /\ v \in Seq(Messages) /\ Len(v) = Len(u) + Len(t)
      /\ \A i \in 1 .. Len(u) : v[i] = u[i]
      /\ \A i \in 1 .. Len(t) : v[Len(u) + i] = t[i]
  <2>1. u \in Seq(Messages) /\ t \in Seq(Messages)
    BY <1>2
  <2> QED
    BY <1>3, <2>1
<1>5. \A i \in 1 .. Len(s) : Len(q) + i \in 1 .. Len(u)
  BY <1>2
<1>6. \A i \in 1 .. Len(q) : i \in 1 .. Len(u)
  BY <1>2
<1>7. /\ v \in Seq(Messages)
      /\ Len(v) = Len(q) + Len(s) + Len(t)
      /\ \A i \in 1 .. Len(q) : v[i] = q[i]
      /\ \A i \in 1 .. Len(s) : v[Len(q) + i] = s[i]
      /\ \A i \in 1 .. Len(t) : v[Len(q) + Len(s) + i] = t[i]
  BY <1>2, <1>4, <1>5, <1>6
<1> QED
  BY <1>1, <1>3, <1>7

BatchOf(rows, failing, ended, row, fin) ==
  /\ rows \subseteq Active /\ failing \subseteq Active \ rows /\ ended \subseteq rows
  /\ OutOfBudget(rows) \subseteq ended
  /\ stage' = [r \in Requests |-> IF r \in ended \cup failing THEN None ELSE stage[r]]
  /\ produced' = [r \in Requests |->
       IF r \in ended \cup failing THEN 0 ELSE Tokens(rows, r)]
  /\ Listing(row, rows) /\ Listing(fin, ended \cup failing)
  /\ Cardinality(rows) \in Nat /\ Cardinality(ended \cup failing) \in Nat
  /\ fromWorker' \in Seq(Messages)
  /\ Len(fromWorker') =
       Len(fromWorker) + Cardinality(rows) + Cardinality(ended \cup failing)
  /\ \A i \in 1 .. Len(fromWorker) : fromWorker'[i] = fromWorker[i]
  /\ \A i \in 1 .. Cardinality(rows) :
       fromWorker'[Len(fromWorker) + i] = Delta(row[i], produced[row[i]])
  /\ \A i \in 1 .. Cardinality(ended \cup failing) :
       fromWorker'[Len(fromWorker) + Cardinality(rows) + i] =
         Result(fin[i], IF fin[i] \in failing THEN "error" ELSE "finished",
                Tokens(rows, fin[i]))

LEMMA BatchFrames ==
  ASSUME Types, StepBatch
  PROVE  \E rows, failing, ended, row, fin : BatchOf(rows, failing, ended, row, fin)
<1> USE Constants
<1>1. PICK rows, failing, ended :
        /\ rows \in SUBSET Active /\ ended \in SUBSET rows
        /\ failing \in {{}} \cup {{r} : r \in Active \ rows}
        /\ OutOfBudget(rows) \subseteq ended
        /\ Batch(rows, failing, ended \cup failing)
  BY DEF StepBatch
<1>2. rows \subseteq Active /\ failing \subseteq Active \ rows /\ ended \subseteq rows
  BY <1>1
<1>3. PICK tokens : tokens = [r \in Requests |-> Tokens(rows, r)]
  OBVIOUS
<1>4. PICK all : all = ended \cup failing
  OBVIOUS
<1>5. PICK row : row = SetToSeq(rows)
  OBVIOUS
<1>6. PICK fin : fin = SetToSeq(all)
  OBVIOUS
<1>7. Active \subseteq Requests /\ all \subseteq Requests /\ rows \subseteq Requests
  BY <1>2, <1>4 DEF Active
<1>8. IsFiniteSet(rows) /\ IsFiniteSet(all)
  BY <1>7, FS_Subset
<1>9. /\ Listing(row, rows) /\ Len(row) = Cardinality(rows) /\ Cardinality(rows) \in Nat
      /\ Listing(fin, all) /\ Len(fin) = Cardinality(all) /\ Cardinality(all) \in Nat
  BY <1>5, <1>6, <1>8, ListingOfSet, FS_CardinalityType
<1>10. PICK n, k : n = Cardinality(rows) /\ k = Cardinality(all)
  OBVIOUS
<1>11. PICK deltas : deltas = Deltas(row)
  OBVIOUS
<1>12. PICK results : results = Results(rows, failing, fin)
  OBVIOUS
<1>13. /\ fromWorker' = fromWorker \o deltas \o results
       /\ Reaped(all, tokens)
       /\ deltas = [i \in 1 .. n |-> Delta(row[i], produced[row[i]])]
       /\ results = [i \in 1 .. k |->
            Result(fin[i], IF fin[i] \in failing THEN "error" ELSE "finished",
                   Tokens(rows, fin[i]))]
  <2>1. Reaped(all, tokens) /\ Report(deltas, results)
    BY <1>1, <1>3, <1>4, <1>5, <1>6, <1>11, <1>12 DEF Batch
  <2>2. fromWorker' = fromWorker \o deltas \o results
    BY <2>1 DEF Report
  <2>3. deltas = [i \in 1 .. n |-> Delta(row[i], produced[row[i]])]
    BY <1>9, <1>10, <1>11 DEF Deltas
  <2>4. results = [i \in 1 .. k |->
            Result(fin[i], IF fin[i] \in failing THEN "error" ELSE "finished",
                   Tokens(rows, fin[i]))]
    BY <1>9, <1>10, <1>12 DEF Results
  <2> QED
    BY <2>1, <2>2, <2>3, <2>4
<1>14. \A r \in Requests : /\ produced[r] \in 0 .. Budget[r] - 1
                           /\ tokens[r] \in 0 .. Budget[r] /\ tokens[r] = Tokens(rows, r)
  BY <1>3 DEF Types, Tokens
<1>15. deltas \in Seq(Messages) /\ Len(deltas) = n
  <2>1. \A i \in 1 .. n : row[i] \in Requests
    BY <1>7, <1>9, <1>10 DEF Listing
  <2>2. \A i \in 1 .. n : Delta(row[i], produced[row[i]]) \in Messages
    BY <1>14, <2>1, FramesOfRequest
  <2>3. deltas \in [1 .. n -> Messages] /\ n \in Nat
    BY <1>9, <1>10, <1>13, <2>2
  <2> QED
    BY <2>3
<1>16. results \in Seq(Messages) /\ Len(results) = k
  <2>1. \A i \in 1 .. k : fin[i] \in Requests
    BY <1>7, <1>9, <1>10 DEF Listing
  <2>2. \A i \in 1 .. k :
          Result(fin[i], IF fin[i] \in failing THEN "error" ELSE "finished",
                 Tokens(rows, fin[i])) \in Messages
    <3> SUFFICES ASSUME NEW i \in 1 .. k, NEW f \in {"finished", "error"}
        PROVE  Result(fin[i], f, Tokens(rows, fin[i])) \in Messages
      OBVIOUS
    <3>1. fin[i] \in Requests /\ Tokens(rows, fin[i]) \in 0 .. Budget[fin[i]]
      BY <1>14, <2>1
    <3> QED
      BY <3>1, FramesOfRequest
  <2>3. results \in [1 .. k -> Messages] /\ k \in Nat
    BY <1>9, <1>10, <1>13, <2>2
  <2> QED
    BY <2>3
<1>17. /\ fromWorker' \in Seq(Messages)
       /\ Len(fromWorker') = Len(fromWorker) + n + k
       /\ \A i \in 1 .. Len(fromWorker) : fromWorker'[i] = fromWorker[i]
       /\ \A i \in 1 .. n : fromWorker'[Len(fromWorker) + i] = deltas[i]
       /\ \A i \in 1 .. k : fromWorker'[Len(fromWorker) + n + i] = results[i]
  <2>1. fromWorker \in Seq(Messages)
    BY DEF Types
  <2>2. PICK w : w = fromWorker \o deltas \o results
    OBVIOUS
  <2>3. /\ w \in Seq(Messages)
        /\ Len(w) = Len(fromWorker) + n + k
        /\ \A i \in 1 .. Len(fromWorker) : w[i] = fromWorker[i]
        /\ \A i \in 1 .. n : w[Len(fromWorker) + i] = deltas[i]
        /\ \A i \in 1 .. k : w[Len(fromWorker) + n + i] = results[i]
    <3>1. /\ deltas \in Seq(Messages) /\ Len(deltas) = n
          /\ results \in Seq(Messages) /\ Len(results) = k
      BY <1>15, <1>16
    <3>2. PICK q : q = fromWorker
      OBVIOUS
    <3>3. q \in Seq(Messages) /\ deltas \in Seq(Messages) /\ results \in Seq(Messages)
          /\ w = q \o deltas \o results
      BY <2>1, <2>2, <3>1, <3>2
    <3>4. w \in Seq(Messages)
      BY <3>3, Concat, SMT
    <3>5. Len(w) = Len(q) + Len(deltas) + Len(results)
      BY <3>3, Concat, SMT
    <3>6. /\ \A i \in 1 .. Len(q) : w[i] = q[i]
          /\ \A i \in 1 .. Len(deltas) : w[Len(q) + i] = deltas[i]
      BY <3>3, Concat, SMT
    <3>7. \A i \in 1 .. Len(results) : w[Len(q) + Len(deltas) + i] = results[i]
      BY <3>3, Concat, SMT
    <3> QED
      BY <3>1, <3>2, <3>4, <3>5, <3>6, <3>7
  <2> QED
    BY <1>13, <2>2, <2>3
<1>18. \A i \in 1 .. n : deltas[i] = Delta(row[i], produced[row[i]])
  BY <1>13
<1>19. \A i \in 1 .. k : results[i] =
         Result(fin[i], IF fin[i] \in failing THEN "error" ELSE "finished",
                Tokens(rows, fin[i]))
  BY <1>13
<1>20. /\ stage' = [r \in Requests |-> IF r \in all THEN None ELSE stage[r]]
       /\ produced' = [r \in Requests |-> IF r \in all THEN 0 ELSE Tokens(rows, r)]
  BY <1>3, <1>13 DEF Reaped
<1>21. BatchOf(rows, failing, ended, row, fin)
  BY <1>1, <1>2, <1>4, <1>9, <1>10, <1>17, <1>18, <1>19, <1>20 DEF BatchOf
<1> QED
  BY <1>21

LEMMA StepBatchKeeps ==
  ASSUME ReplyInv, StepBatch
  PROVE  ReplyInv'
<1> USE Constants DEF ReplyInv
<1>1. PICK rows, failing, ended, row, fin : BatchOf(rows, failing, ended, row, fin)
  BY BatchFrames
<1>2. PICK all : all = ended \cup failing
  OBVIOUS
<1>3. PICK n, k, l : n = Cardinality(rows) /\ k = Cardinality(all) /\ l = Len(fromWorker)
  OBVIOUS
<1>4. PICK w : w = fromWorker'
  OBVIOUS
<1>5. /\ n \in Nat /\ k \in Nat /\ l \in Nat
      /\ fromWorker \in Seq(Messages) /\ w \in Seq(Messages) /\ Len(w) = l + n + k
      /\ \A i \in 1 .. l : w[i] = fromWorker[i]
      /\ \A i \in 1 .. n : w[l + i] = Delta(row[i], produced[row[i]])
      /\ \A i \in 1 .. k : w[l + n + i] =
           Result(fin[i], IF fin[i] \in failing THEN "error" ELSE "finished",
                  Tokens(rows, fin[i]))
      /\ \A i \in 1 .. n : row[i] \in rows
      /\ \A i \in 1 .. k : fin[i] \in all
  <2>1. fromWorker \in Seq(Messages) /\ l \in Nat
    BY <1>3 DEF Types
  <2>2. /\ n \in Nat /\ k \in Nat /\ w \in Seq(Messages) /\ Len(w) = l + n + k
        /\ \A i \in 1 .. l : w[i] = fromWorker[i]
    BY <1>1, <1>2, <1>3, <1>4 DEF BatchOf
  <2>3. \A i \in 1 .. n : w[l + i] = Delta(row[i], produced[row[i]])
    BY <1>1, <1>3, <1>4 DEF BatchOf
  <2>4. \A i \in 1 .. k : w[l + n + i] =
           Result(fin[i], IF fin[i] \in failing THEN "error" ELSE "finished",
                  Tokens(rows, fin[i]))
    BY <1>1, <1>2, <1>3, <1>4 DEF BatchOf
  <2>5. Listing(row, rows) /\ Listing(fin, all)
    BY <1>1, <1>2 DEF BatchOf
  <2>6. row \in [1 .. n -> rows] /\ fin \in [1 .. k -> all]
    BY <1>3, <2>5 DEF Listing
  <2> QED
    BY <2>1, <2>2, <2>3, <2>4, <2>6
<1>6. \A i \in 1 .. l : i \in 1 .. Len(w) /\ w[i] = fromWorker[i]
  BY <1>5
<1>7. \A i \in 1 .. n : /\ l + i \in 1 .. Len(w) /\ row[i] \in rows
                        /\ w[l + i].kind = "delta" /\ w[l + i].request = row[i]
  <2> SUFFICES ASSUME NEW i \in 1 .. n
      PROVE  /\ l + i \in 1 .. Len(w) /\ row[i] \in rows
             /\ w[l + i].kind = "delta" /\ w[l + i].request = row[i]
    OBVIOUS
  <2>1. l + i \in 1 .. Len(w) /\ row[i] \in rows
    BY <1>5
  <2>2. w[l + i] = Delta(row[i], produced[row[i]])
    BY <1>5
  <2>3. \A x, v : Delta(x, v).kind = "delta" /\ Delta(x, v).request = x
    BY FrameFields
  <2> QED
    BY <2>1, <2>2, <2>3
<1>8. \A i \in 1 .. k : /\ l + n + i \in 1 .. Len(w) /\ fin[i] \in all
                        /\ w[l + n + i].kind = "result" /\ w[l + n + i].request = fin[i]
  <2> SUFFICES ASSUME NEW i \in 1 .. k
      PROVE  /\ l + n + i \in 1 .. Len(w) /\ fin[i] \in all
             /\ w[l + n + i].kind = "result" /\ w[l + n + i].request = fin[i]
    OBVIOUS
  <2>1. l + n + i \in 1 .. Len(w) /\ fin[i] \in all
    BY <1>5
  <2>2. PICK f : w[l + n + i] = Result(fin[i], f, Tokens(rows, fin[i]))
    BY <1>5
  <2>3. \A x, g, v : Result(x, g, v).kind = "result" /\ Result(x, g, v).request = x
    BY ResultFields
  <2> QED
    BY <2>1, <2>2, <2>3
<1>9. \A i \in 1 .. Len(w) : \/ i \in 1 .. l
                             \/ \E j \in 1 .. n : i = l + j
                             \/ \E j \in 1 .. k : i = l + n + j
  <2> SUFFICES ASSUME NEW i \in 1 .. Len(w), i \notin 1 .. l, ~(\E j \in 1 .. n : i = l + j)
      PROVE  \E j \in 1 .. k : i = l + n + j
    OBVIOUS
  <2>1. i > l + n
    <3> SUFFICES ASSUME i <= l + n PROVE FALSE
      BY <1>5
    <3>1. i - l \in 1 .. n /\ i = l + (i - l)
      BY <1>5
    <3> QED
      BY <3>1
  <2>2. i - l - n \in 1 .. k /\ i = l + n + (i - l - n)
    BY <1>5, <2>1
  <2> QED
    BY <2>2
<1>10. /\ \A r \in rows : \E i \in 1 .. n : row[i] = r
       /\ \A r \in all : \E i \in 1 .. k : fin[i] = r
  BY <1>1, <1>2, <1>3 DEF BatchOf, Listing
<1>11. AllOf(w, Says)
  BY <1>3, <1>6, <1>7, <1>8, <1>9 DEF AllOf, Kinds, Says
<1>12. ASSUME NEW q, NEW r
       PROVE  In(w, q, r) <=> \/ In(fromWorker, q, r)
                              \/ q = "delta" /\ r \in rows
                              \/ q = "result" /\ r \in all
  <2>1. ASSUME In(w, q, r)
        PROVE  \/ In(fromWorker, q, r)
               \/ q = "delta" /\ r \in rows
               \/ q = "result" /\ r \in all
    <3>1. PICK i \in 1 .. Len(w) : w[i].kind = q /\ w[i].request = r
      BY <2>1 DEF In, Is
    <3>2. CASE i \in 1 .. l
      BY <1>3, <1>6, <3>1, <3>2 DEF In, Is
    <3>3. CASE \E j \in 1 .. n : i = l + j
      BY <1>7, <3>1, <3>3
    <3>4. CASE \E j \in 1 .. k : i = l + n + j
      BY <1>8, <3>1, <3>4
    <3> QED
      BY <1>9, <3>2, <3>3, <3>4
  <2>2. ASSUME In(fromWorker, q, r) PROVE In(w, q, r)
    BY <1>3, <1>6, <2>2 DEF In
  <2>3. ASSUME q = "delta", r \in rows PROVE In(w, q, r)
    <3>1. PICK i \in 1 .. n : row[i] = r
      BY <1>10, <2>3
    <3> QED
      BY <1>7, <2>3, <3>1 DEF In, Is
  <2>4. ASSUME q = "result", r \in all PROVE In(w, q, r)
    <3>1. PICK i \in 1 .. k : fin[i] = r
      BY <1>10, <2>4
    <3> QED
      BY <1>8, <2>4, <3>1 DEF In, Is
  <2> QED
    BY <2>1, <2>2, <2>3, <2>4
<1>13. ASSUME NEW q \in {"ack", "reject"}, NEW r
       PROVE  Count(w, q, r) = Count(fromWorker, q, r)
  <2>1. \A i \in 1 .. Len(w) : Is(w[i], q, r) => i \in 1 .. l
    BY <1>7, <1>8, <1>9 DEF Is
  <2>2. {i \in 1 .. Len(w) : Is(w[i], q, r)} = {i \in 1 .. l : Is(fromWorker[i], q, r)}
    BY <1>6, <2>1
  <2> QED
    BY <1>3, <2>2 DEF Count
<1>14. ASSUME NEW r, OnlyCancelled(fromWorker, r), r \notin all
       PROVE  OnlyCancelled(w, r)
  <2>1. \A i \in 1 .. Len(w) : Is(w[i], "result", r) => i \in 1 .. l
    BY <1>7, <1>8, <1>9, <1>14 DEF Is
  <2> QED
    BY <1>3, <1>6, <1>14, <2>1 DEF OnlyCancelled
<1>15. /\ \A r \in rows : r \in Requests /\ stage[r] = "active"
       /\ \A r \in all : r \in Requests /\ stage[r] = "active"
  BY <1>1, <1>2 DEF BatchOf, Active
<1>16. /\ produced' \in [Requests -> Nat]
       /\ \A r \in Requests : /\ produced'[r] < Budget[r]
                              /\ (r \in all => produced'[r] = 0)
                              /\ (stage[r] = None => produced'[r] = produced[r])
  <2> SUFFICES ASSUME NEW r \in Requests
      PROVE  /\ produced'[r] \in Nat /\ produced'[r] < Budget[r]
             /\ (r \in all => produced'[r] = 0)
             /\ (stage[r] = None => produced'[r] = produced[r])
    <3>1. produced' = [r \in Requests |-> IF r \in all THEN 0 ELSE Tokens(rows, r)]
      BY <1>1, <1>2 DEF BatchOf
    <3> QED
      BY <3>1
  <2>1. produced'[r] = IF r \in all THEN 0 ELSE Tokens(rows, r)
    BY <1>1, <1>2 DEF BatchOf
  <2>2. produced[r] \in Nat /\ produced[r] < Budget[r] /\ Budget[r] \in Nat \ {0}
    BY DEF Types
  <2>3. r \in rows /\ r \notin all => produced[r] + 1 # Budget[r]
    BY <1>1, <1>2 DEF BatchOf, OutOfBudget
  <2> QED
    BY <1>15, <2>1, <2>2, <2>3 DEF Tokens
<1>17. /\ alive /\ phase' = "drain"
       /\ UNCHANGED <<slot, toWorker, alive, clients, cancellers, crashes>>
       /\ stage' = [r \in Requests |-> IF r \in all THEN None ELSE stage[r]]
  BY <1>1, <1>2 DEF StepBatch, BatchOf
<1>18. \A r : OnlyCancelled(fromWorker, r) /\ (r \in all => stage[r] = "cancelling")
              => OnlyCancelled(w, r)
  BY <1>14, <1>15
<1>19. Reports(rows, all)
  BY <1>4, <1>5, <1>11, <1>12, <1>13, <1>15, <1>16, <1>17, <1>18 DEF Reports
<1> QED
  BY <1>19, ReportsKeeps

(* The reader takes the first frame m of the socket.                       *)
Takes(m) == fromWorker # << >> /\ m = Head(fromWorker) /\ fromWorker' = Tail(fromWorker)

LEMMA TakesFrame ==
  ASSUME Types, Kinds, NEW m, Takes(m)
  PROVE  /\ m \in Messages /\ m.request \in Requests /\ m.kind \in Says
         /\ fromWorker \in Seq(Messages) /\ fromWorker' \in Seq(Messages)
         /\ AllOf(fromWorker', Says)
         /\ \A k, s : In(fromWorker, k, s) <=>
                        In(fromWorker', k, s) \/ (k = m.kind /\ s = m.request)
         /\ \A k, s : /\ Count(fromWorker', k, s) \in Nat
                      /\ Count(fromWorker, k, s) = Count(fromWorker', k, s)
                           + (IF k = m.kind /\ s = m.request THEN 1 ELSE 0)
         /\ \A s : OnlyCancelled(fromWorker, s) =>
              /\ OnlyCancelled(fromWorker', s)
              /\ m.kind = "result" /\ m.request = s => m.value.finish = "cancelled"
<1>1. /\ fromWorker \in Seq(Messages) /\ fromWorker # << >> /\ m = Head(fromWorker)
      /\ fromWorker' = Tail(fromWorker)
  BY DEF Takes, Types
<1>2. m \in Messages /\ fromWorker' \in Seq(Messages)
  BY <1>1, LookTail
<1>3. AllOf(fromWorker', Says) /\ m.kind \in Says
  BY <1>1, FormsTail DEF Kinds
<1>4. m.request \in Requests
  BY <1>2, MessageShape
<1>5. \A k, s : Is(m, k, s) <=> k = m.kind /\ s = m.request
  BY DEF Is
<1>6. \A k, s : In(fromWorker, k, s) <=> In(fromWorker', k, s) \/ Is(m, k, s)
  BY <1>1, InTail
<1>7. ASSUME NEW k, NEW s
      PROVE  /\ Count(fromWorker', k, s) \in Nat
             /\ Count(fromWorker, k, s) = Count(fromWorker', k, s)
                  + (IF k = m.kind /\ s = m.request THEN 1 ELSE 0)
  BY <1>1, <1>5, CountsTail
<1>8. ASSUME NEW s, OnlyCancelled(fromWorker, s)
      PROVE  /\ OnlyCancelled(fromWorker', s)
             /\ m.kind = "result" /\ m.request = s => m.value.finish = "cancelled"
  BY <1>1, <1>5, <1>8, FormsTail
<1> QED
  BY <1>1, <1>2, <1>3, <1>4, <1>5, <1>6, <1>7, <1>8

(* It goes to the channel of its completion, if that waits.                *)
LEMMA PostKeepsForms ==
  ASSUME Types, Kinds, LastWord, NEW m \in Messages, NEW r \in completion,
         m.request = r, m.kind \in Events, Waiting(r), Post(r, m)
  PROVE  /\ mailbox' \in [Requests -> Seq(Messages)]
         /\ mailbox'[r] = Append(mailbox[r], m)
         /\ \A s \in Requests : s # r => mailbox'[s] = mailbox[s]
         /\ \A k, s : s \in Requests =>
              (In(mailbox'[s], k, s) <=> In(mailbox[s], k, s) \/ (k = m.kind /\ s = r))
         /\ \A s \in Requests : /\ AllOf(mailbox'[s], Events) /\ OnlyAbout(mailbox'[s], s)
                                /\ EndsLast(mailbox'[s])
         /\ \A s \in Requests :
              OnlyCancelled(mailbox[s], s)
                /\ (s = r /\ m.kind = "result" => m.value.finish = "cancelled")
                => OnlyCancelled(mailbox'[s], s)
<1>1. r \in Requests /\ mailbox[r] \in Seq(Messages)
  BY DEF Types
<1>2. /\ mailbox'[r] = Append(mailbox[r], m)
      /\ \A s \in Requests : s # r => mailbox'[s] = mailbox[s]
  BY <1>1 DEF Post, Types
<1>3. mailbox' \in [Requests -> Seq(Messages)]
  <2>1. Append(mailbox[r], m) \in Seq(Messages)
    BY <1>1, LookAppend
  <2> QED
    BY <1>1, <2>1 DEF Post, Types
<1>4. \A k, s : Is(m, k, s) <=> k = m.kind /\ s = r
  BY DEF Is
<1>5. \A k, s : s \in Requests =>
        (In(mailbox'[s], k, s) <=> In(mailbox[s], k, s) \/ (k = m.kind /\ s = r))
  <2> SUFFICES ASSUME NEW k, NEW s \in Requests
      PROVE  In(mailbox'[s], k, s) <=> In(mailbox[s], k, s) \/ (k = m.kind /\ s = r)
    OBVIOUS
  <2>1. CASE s = r
    <3>1. In(Append(mailbox[r], m), k, s) <=> In(mailbox[r], k, s) \/ Is(m, k, s)
      BY <1>1, InAppend
    <3>2. mailbox'[s] = Append(mailbox[r], m) /\ mailbox[s] = mailbox[r]
      BY <1>2, <2>1
    <3> QED
      BY <1>4, <2>1, <3>1, <3>2
  <2>2. CASE s # r
    BY <1>2, <2>2
  <2> QED
    BY <2>1, <2>2
<1>6. /\ ~In(mailbox[r], "result", r) /\ ~In(mailbox[r], "reject", r)
      /\ ~In(mailbox[r], "lost", r) /\ OnlyAbout(mailbox[r], r)
  BY <1>1 DEF LastWord, Posted, Kinds
<1>7. EndsLast(mailbox'[r])
  BY <1>1, <1>2, <1>6, EndsLastAppend
<1>8. AllOf(mailbox'[r], Events) /\ OnlyAbout(mailbox'[r], r)
  BY <1>1, <1>2, FormsAppend DEF Kinds
<1>9. OnlyCancelled(mailbox[r], r) /\ (m.kind = "result" => m.value.finish = "cancelled")
        => OnlyCancelled(mailbox'[r], r)
  BY <1>1, <1>2, <1>4, FormsAppend
<1>10. \A s \in Requests : /\ AllOf(mailbox'[s], Events) /\ OnlyAbout(mailbox'[s], s)
                           /\ EndsLast(mailbox'[s])
  BY <1>2, <1>7, <1>8 DEF Kinds, LastWord
<1>11. \A s \in Requests :
         OnlyCancelled(mailbox[s], s)
           /\ (s = r /\ m.kind = "result" => m.value.finish = "cancelled")
           => OnlyCancelled(mailbox'[s], s)
  BY <1>2, <1>9
<1> QED
  BY <1>2, <1>3, <1>5, <1>10, <1>11

LEMMA DispatchProgressKeeps ==
  ASSUME ReplyInv, DispatchProgress
  PROVE  ReplyInv'
<1> USE Constants DEF ReplyInv
<1>1. PICK m : m = Head(fromWorker)
  OBVIOUS
<1>2. /\ Takes(m) /\ m.kind \in {"admitted", "delta"}
      /\ UNCHANGED <<completion, cancel, state, toWorker, alive, phase, stage, produced,
                     pc, seen, answer, target, reply, crashes>>
      /\ IF m.request \in completion THEN Post(m.request, m) ELSE UNCHANGED mailbox
  BY <1>1 DEF DispatchProgress, Takes, slot, worker, cancellers
<1>3. PICK r : r = m.request
  OBVIOUS
<1>4. /\ m \in Messages /\ r \in Requests
      /\ fromWorker' \in Seq(Messages) /\ AllOf(fromWorker', Says)
      /\ \A k, s : In(fromWorker, k, s) <=>
                     In(fromWorker', k, s) \/ (k = m.kind /\ s = r)
      /\ \A k, s : /\ Count(fromWorker', k, s) \in Nat
                   /\ Count(fromWorker, k, s) = Count(fromWorker', k, s)
                        + (IF k = m.kind /\ s = r THEN 1 ELSE 0)
      /\ \A s : OnlyCancelled(fromWorker, s) => OnlyCancelled(fromWorker', s)
  BY <1>2, <1>3, TakesFrame
<1>5. /\ mailbox' \in [Requests -> Seq(Messages)]
      /\ \A k, s : s \in Requests /\ k \in {"result", "reject", "lost"} =>
           (In(mailbox'[s], k, s) <=> In(mailbox[s], k, s))
      /\ \A s \in Requests : /\ AllOf(mailbox'[s], Events) /\ OnlyAbout(mailbox'[s], s)
                             /\ EndsLast(mailbox'[s])
      /\ \A s \in Requests : OnlyCancelled(mailbox[s], s) => OnlyCancelled(mailbox'[s], s)
      /\ \A s \in Requests : ~Waiting(s) => mailbox'[s] = << >>
  <2>1. CASE r \in completion
    <3>1. Post(r, m) /\ m.kind \in Events /\ m.request = r /\ Waiting(r)
      BY <1>2, <1>3, <2>1 DEF Events, Holdings
    <3>2. Types /\ Kinds /\ LastWord
      OBVIOUS
    <3>3. /\ mailbox' \in [Requests -> Seq(Messages)]
          /\ \A s \in Requests : s # r => mailbox'[s] = mailbox[s]
          /\ \A k, s : s \in Requests =>
               (In(mailbox'[s], k, s) <=> In(mailbox[s], k, s) \/ (k = m.kind /\ s = r))
          /\ \A s \in Requests : /\ AllOf(mailbox'[s], Events) /\ OnlyAbout(mailbox'[s], s)
                                 /\ EndsLast(mailbox'[s])
          /\ \A s \in Requests :
               OnlyCancelled(mailbox[s], s)
                 /\ (s = r /\ m.kind = "result" => m.value.finish = "cancelled")
                 => OnlyCancelled(mailbox'[s], s)
      <4> HIDE DEF ReplyInv
      <4> QED
        BY <1>4, <2>1, <3>1, <3>2, PostKeepsForms
    <3>4. \A s \in Requests : ~Waiting(s) => mailbox'[s] = << >>
      BY <3>1, <3>3 DEF Holdings
    <3> QED
      BY <1>2, <3>3, <3>4
  <2>2. CASE r \notin completion
    BY <1>2, <1>3, <2>2 DEF Types, Kinds, LastWord, Holdings
  <2> QED
    BY <2>1, <2>2
<1>6. /\ \A k, s : k \in {"result", "reject", "ack"} =>
                     (In(fromWorker', k, s) <=> In(fromWorker, k, s))
      /\ \A k, s : In(fromWorker', k, s) => In(fromWorker, k, s)
  BY <1>2, <1>4
<1>7. /\ \A s : Submitted(s)' <=> Submitted(s)
      /\ \A s : Acked(s)' <=> Acked(s)
      /\ \A s \in Requests : Posted(s)' <=> Posted(s)
      /\ \A s \in Requests : Refused(s)' <=> Refused(s)
      /\ \A s : Replies(s)' = Replies(s)
  <2>1. \A s : Submitted(s)' <=> Submitted(s)
    BY <1>2 DEF Submitted
  <2>2. \A s : Acked(s)' <=> Acked(s)
    BY <1>2, <1>6 DEF Acked
  <2>3. \A s \in Requests : Posted(s)' <=> Posted(s)
    BY <1>5 DEF Posted
  <2>4. \A s \in Requests : Refused(s)' <=> Refused(s)
    BY <1>2, <1>6, <2>1 DEF Refused
  <2>5. \A s : Replies(s)' = Replies(s)
    BY <1>2, <1>4 DEF Replies
  <2> QED
    BY <2>1, <2>2, <2>3, <2>4, <2>5
<1>8. Types' /\ Kinds'
  BY <1>2, <1>4, <1>5 DEF Types, Kinds
<1>9. Holdings'
  BY <1>2, <1>5, <1>6 DEF Holdings, Waiting, Forgotten
<1>10. Death'
  <2>1. state = "ready"
    BY DEF DispatchProgress
  <2> QED
    BY <1>2, <2>1 DEF Death
<1>11. Over'
  BY <1>2, <1>6, <1>7 DEF Over
<1>12. EnoughReplies'
  BY <1>2, <1>7 DEF EnoughReplies, One
<1>13. NoStrayReply'
  BY <1>2, <1>7 DEF NoStrayReply
<1>14. Acks'
  BY <1>2, <1>4, <1>5, <1>7 DEF Acks
<1>15. Abandoned'
  BY <1>2, <1>7 DEF Abandoned
<1>16. LastWord'
  BY <1>2, <1>5, <1>7 DEF LastWord, Waiting
<1> QED
  BY <1>8, <1>9, <1>10, <1>11, <1>12, <1>13, <1>14, <1>15, <1>16

(* A terminal frame takes its completion out of the slot.                  *)
LEMMA FinishKeeps ==
  ASSUME ReplyInv, NEW m, Takes(m), m.kind \in {"result", "reject"}, state = "ready",
         m.kind = "reject" => cancel[m.request] = None,
         Finish(m.request, m),
         UNCHANGED <<cancel, state, toWorker, alive, phase, stage, produced,
                     pc, seen, answer, target, reply, crashes>>
  PROVE  ReplyInv'
<1> USE Constants DEF ReplyInv
<1>1. PICK r : r = m.request
  OBVIOUS
<1>2. UNCHANGED <<cancel, state, toWorker, alive, phase, stage, produced,
                  pc, seen, answer, target, reply, crashes>>
  OBVIOUS
<1>3. /\ m \in Messages /\ r \in Requests /\ m.kind \in {"result", "reject"}
      /\ fromWorker \in Seq(Messages)
      /\ fromWorker' \in Seq(Messages) /\ AllOf(fromWorker', Says)
      /\ \A k, s : In(fromWorker, k, s) <=>
                     In(fromWorker', k, s) \/ (k = m.kind /\ s = r)
      /\ \A k, s : /\ Count(fromWorker', k, s) \in Nat
                   /\ Count(fromWorker, k, s) = Count(fromWorker', k, s)
                        + (IF k = m.kind /\ s = r THEN 1 ELSE 0)
      /\ \A s : OnlyCancelled(fromWorker, s) =>
              /\ OnlyCancelled(fromWorker', s)
              /\ m.kind = "result" /\ r = s => m.value.finish = "cancelled"
  BY <1>1, TakesFrame
<1>4. In(fromWorker, m.kind, r)
  BY <1>3
<1>5. stage[r] # "active" /\ ~Submitted(r) /\ pc[r] # "idle"
  BY <1>3, <1>4 DEF Over, Holdings, Forgotten
<1>6. completion' = completion \ {r}
  BY <1>1 DEF Finish
<1>7. /\ mailbox' \in [Requests -> Seq(Messages)]
      /\ \A k, s : s \in Requests =>
           (In(mailbox'[s], k, s) <=>
              In(mailbox[s], k, s) \/ (k = m.kind /\ s = r /\ r \in completion))
      /\ \A s \in Requests : /\ AllOf(mailbox'[s], Events) /\ OnlyAbout(mailbox'[s], s)
                             /\ EndsLast(mailbox'[s])
      /\ \A s \in Requests :
           OnlyCancelled(mailbox[s], s)
             /\ (s = r /\ m.kind = "result" => m.value.finish = "cancelled")
             => OnlyCancelled(mailbox'[s], s)
      /\ \A s \in Requests : ~Waiting(s) => mailbox'[s] = << >>
  <2>1. CASE r \in completion
    <3>1. Post(r, m) /\ m.kind \in Events /\ m.request = r /\ Waiting(r)
      BY <1>1, <1>3, <2>1 DEF Events, Holdings, Finish
    <3>2. Types /\ Kinds /\ LastWord
      OBVIOUS
    <3>3. /\ mailbox' \in [Requests -> Seq(Messages)]
          /\ \A s \in Requests : s # r => mailbox'[s] = mailbox[s]
          /\ \A k, s : s \in Requests =>
               (In(mailbox'[s], k, s) <=> In(mailbox[s], k, s) \/ (k = m.kind /\ s = r))
          /\ \A s \in Requests : /\ AllOf(mailbox'[s], Events) /\ OnlyAbout(mailbox'[s], s)
                                 /\ EndsLast(mailbox'[s])
          /\ \A s \in Requests :
               OnlyCancelled(mailbox[s], s)
                 /\ (s = r /\ m.kind = "result" => m.value.finish = "cancelled")
                 => OnlyCancelled(mailbox'[s], s)
      <4> HIDE DEF ReplyInv
      <4> QED
        BY <1>3, <2>1, <3>1, <3>2, PostKeepsForms
    <3>4. \A s \in Requests : ~Waiting(s) => mailbox'[s] = << >>
      BY <3>1, <3>3 DEF Holdings
    <3> QED
      BY <2>1, <3>3, <3>4
  <2>2. CASE r \notin completion
    <3>1. mailbox' = mailbox
      BY <1>1, <2>2 DEF Finish
    <3> QED
      BY <2>2, <3>1 DEF Types, Kinds, LastWord, Holdings
  <2> QED
    BY <2>1, <2>2
<1>8. /\ \A k, s : In(fromWorker', k, s) => In(fromWorker, k, s)
      /\ \A k, s : s # r \/ k # m.kind => (In(fromWorker', k, s) <=> In(fromWorker, k, s))
  BY <1>3
<1>9. /\ \A s : Submitted(s)' <=> Submitted(s)
      /\ \A s : Acked(s)' <=> Acked(s)
      /\ \A s \in Requests : Posted(s)' <=> Posted(s) \/ (s = r /\ r \in completion)
      /\ \A s \in Requests : s # r => (Refused(s)' <=> Refused(s))
      /\ \A s : s # r \/ m.kind = "result" => Replies(s)' = Replies(s)
  <2>1. \A s : Submitted(s)' <=> Submitted(s)
    BY <1>2 DEF Submitted
  <2>2. \A s : Acked(s)' <=> Acked(s)
    BY <1>2, <1>3, <1>8 DEF Acked
  <2>3. \A s \in Requests : Posted(s)' <=> Posted(s) \/ (s = r /\ r \in completion)
    BY <1>3, <1>7 DEF Posted
  <2>4. \A s \in Requests : s # r => (Refused(s)' <=> Refused(s))
    BY <1>2, <1>8, <2>1 DEF Refused
  <2>5. \A s : s # r \/ m.kind = "result" => Replies(s)' = Replies(s)
    BY <1>2, <1>3 DEF Replies
  <2> QED
    BY <2>1, <2>2, <2>3, <2>4, <2>5
<1>10. Types' /\ Kinds'
  BY <1>2, <1>3, <1>6, <1>7 DEF Types, Kinds
<1>11. Holdings'
  BY <1>2, <1>5, <1>6, <1>7, <1>8 DEF Holdings, Waiting, Forgotten
<1>12. Death'
  BY <1>2 DEF Death
<1>13. Over'
  BY <1>2, <1>5, <1>8, <1>9 DEF Over
<1>14. EnoughReplies'
  <2> SUFFICES ASSUME alive, NEW s \in Requests
      PROVE  /\ cancel[s] # None => Replies(s)' >= 1
             /\ s \in completion' => Replies(s)' >= One(cancel[s] # None) + One(Refused(s)')
    BY <1>2 DEF EnoughReplies
  <2>1. CASE s = r
    BY <1>1, <1>6, <1>9, <2>1 DEF EnoughReplies
  <2>2. CASE s # r
    BY <1>6, <1>9, <2>2 DEF EnoughReplies, One
  <2> QED
    BY <2>1, <2>2
<1>15. NoStrayReply'
  BY <1>2, <1>6, <1>9 DEF NoStrayReply
<1>16. Acks'
  <2>1. ASSUME Acked(r), r \in completion PROVE m.kind = "result"
    <3> SUFFICES ASSUME m.kind = "reject" PROVE FALSE
      BY <1>3
    <3>1. Replies(r) <= 0
      BY <1>1, <2>1 DEF NoStrayReply, One
    <3>2. /\ Count(fromWorker', "reject", r) \in Nat
          /\ Count(fromWorker, "reject", r) = Count(fromWorker', "reject", r) + 1
      BY <1>3
    <3>3. Count(fromWorker, "ack", r) \in Nat /\ Count(toWorker, "cancel", r) \in Nat
      BY <1>3, CountType DEF Types
    <3> QED
      BY <3>1, <3>2, <3>3 DEF Replies
  <2>2. ASSUME NEW s \in Requests, Acked(s)
        PROVE  OnlyCancelled(mailbox'[s], s) /\ ~In(mailbox'[s], "reject", s)
    <3>1. /\ OnlyCancelled(mailbox[s], s) /\ ~In(mailbox[s], "reject", s)
          /\ OnlyCancelled(fromWorker, s)
      BY <2>2 DEF Acks
    <3>2. s = r /\ m.kind = "result" => m.value.finish = "cancelled"
      BY <1>3, <3>1
    <3> QED
      BY <1>7, <2>1, <2>2, <3>1, <3>2
  <2> QED
    BY <1>2, <1>3, <1>9, <2>2 DEF Acks
<1>17. Abandoned'
  BY <1>2, <1>9 DEF Abandoned
<1>18. LastWord'
  BY <1>2, <1>6, <1>7, <1>9 DEF LastWord, Waiting
<1> QED
  BY <1>10, <1>11, <1>12, <1>13, <1>14, <1>15, <1>16, <1>17, <1>18

(* An acknowledgement or a reject for a cancel that waits.                 *)
LEMMA TellKeeps ==
  ASSUME ReplyInv, NEW m, Takes(m), m.kind \in {"ack", "reject"}, state = "ready",
         cancel[m.request] # None,
         NEW what \in {"ack", "admission", "contract"},
         what = "ack" => m.kind = "ack",
         Tell(cancel[m.request], what),
         cancel' = [cancel EXCEPT ![m.request] = None],
         UNCHANGED <<completion, state, toWorker, alive, phase, stage, produced, mailbox,
                     pc, seen, answer, target, crashes>>
  PROVE  ReplyInv'
<1> USE Constants DEF ReplyInv
<1>1. PICK r, c : r = m.request /\ c = cancel[r]
  OBVIOUS
<1>2. UNCHANGED <<completion, state, toWorker, alive, phase, stage, produced, mailbox,
                  pc, seen, answer, target, crashes>>
  OBVIOUS
<1>3. /\ m \in Messages /\ r \in Requests /\ m.kind \in {"ack", "reject"}
      /\ fromWorker \in Seq(Messages)
      /\ fromWorker' \in Seq(Messages) /\ AllOf(fromWorker', Says)
      /\ \A k, s : In(fromWorker, k, s) <=>
                     In(fromWorker', k, s) \/ (k = m.kind /\ s = r)
      /\ \A k, s : /\ Count(fromWorker', k, s) \in Nat
                   /\ Count(fromWorker, k, s) = Count(fromWorker', k, s)
                        + (IF k = m.kind /\ s = r THEN 1 ELSE 0)
      /\ \A s : OnlyCancelled(fromWorker, s) => OnlyCancelled(fromWorker', s)
  BY <1>1, TakesFrame
<1>4. /\ c \in Cancellers /\ target[c] = r /\ reply[c] \in {None, "timeout"}
  BY <1>1, <1>3 DEF Types, Holdings
<1>5. /\ cancel'[r] = None
      /\ \A s \in Requests : s # r => cancel'[s] = cancel[s]
      /\ reply'[c] = IF reply[c] = None THEN what ELSE reply[c]
      /\ \A d \in Cancellers : d # c => reply'[d] = reply[d]
  BY <1>1, <1>3, <1>4 DEF Types, Tell
<1>6. In(fromWorker, m.kind, r)
  BY <1>3
<1>7. pc[r] # "idle"
  BY <1>3, <1>6 DEF Holdings, Forgotten
<1>8. \A k, s : In(fromWorker', k, s) => In(fromWorker, k, s)
  BY <1>3
<1>9. /\ \A s : Submitted(s)' <=> Submitted(s)
      /\ \A s : Acked(s)' => Acked(s)
      /\ \A s : Posted(s)' <=> Posted(s)
      /\ \A s : Refused(s)' <=> Refused(s)
      /\ \A s : /\ Replies(s)' \in Nat
                /\ Replies(s) = Replies(s)' + (IF s = r THEN 1 ELSE 0)
  <2>1. \A s : Submitted(s)' <=> Submitted(s)
    BY <1>2 DEF Submitted
  <2>2. ASSUME NEW s, Acked(s)' PROVE Acked(s)
    <3>1. CASE In(fromWorker', "ack", s)
      BY <1>8, <3>1 DEF Acked
    <3>2. CASE \E d \in Cancellers : target'[d] = s /\ reply'[d] = "ack"
      <4>1. PICK d \in Cancellers : target[d] = s /\ reply'[d] = "ack"
        BY <1>2, <3>2
      <4>2. CASE d = c
        BY <1>1, <1>4, <1>5, <1>6, <4>1, <4>2 DEF Acked
      <4>3. CASE d # c
        BY <1>5, <4>1, <4>3 DEF Acked
      <4> QED
        BY <4>2, <4>3
    <3> QED
      BY <2>2, <3>1, <3>2 DEF Acked
  <2>3. \A s : Posted(s)' <=> Posted(s)
    BY <1>2 DEF Posted
  <2>4. \A s : Refused(s)' <=> Refused(s)
    BY <1>2, <1>3, <2>1 DEF Refused
  <2>5. ASSUME NEW s
        PROVE  Replies(s)' \in Nat /\ Replies(s) = Replies(s)' + (IF s = r THEN 1 ELSE 0)
    <3>1. Count(toWorker, "cancel", s) \in Nat
      BY CountType DEF Types
    <3> QED
      BY <1>2, <1>3, <3>1 DEF Replies
  <2> QED
    BY <2>1, <2>2, <2>3, <2>4, <2>5
<1>10. Types'
  <2>1. reply' \in [Cancellers -> Replied] /\ cancel' \in [Requests -> Cancellers \cup {None}]
    BY <1>1, <1>3, <1>4 DEF Types, Replied, Tell
  <2> QED
    BY <1>2, <1>3, <2>1 DEF Types
<1>11. Kinds'
  BY <1>2, <1>3 DEF Kinds
<1>12. Holdings'
  <2>1. \A s \in Requests : cancel'[s] # None =>
          target'[cancel'[s]] = s /\ reply'[cancel'[s]] \in {None, "timeout"}
    <3> SUFFICES ASSUME NEW s \in Requests, cancel'[s] # None
        PROVE  target[cancel'[s]] = s /\ reply'[cancel'[s]] \in {None, "timeout"}
      BY <1>2
    <3>1. s # r /\ cancel'[s] = cancel[s] /\ cancel[s] \in Cancellers
      BY <1>5 DEF Types
    <3>2. target[cancel[s]] = s /\ reply[cancel[s]] \in {None, "timeout"}
      BY <3>1 DEF Holdings
    <3> QED
      BY <1>4, <1>5, <3>1, <3>2
  <2>2. \A d \in Cancellers : target'[d] = None => reply'[d] = None
    BY <1>2, <1>3, <1>4, <1>5 DEF Holdings
  <2> QED
    BY <1>2, <1>5, <1>7, <1>8, <2>1, <2>2 DEF Holdings, Waiting, Forgotten
<1>13. Death'
  BY <1>2 DEF Death
<1>14. Over'
  BY <1>2, <1>8, <1>9 DEF Over
<1>15. EnoughReplies'
  <2> SUFFICES ASSUME alive, NEW s \in Requests
      PROVE  /\ cancel'[s] # None => Replies(s)' >= 1
             /\ s \in completion => Replies(s)' >= One(cancel'[s] # None) + One(Refused(s)')
    BY <1>2 DEF EnoughReplies
  <2>1. CASE s = r
    BY <1>1, <1>5, <1>9, <2>1 DEF EnoughReplies, One
  <2>2. CASE s # r
    BY <1>5, <1>9, <2>2 DEF EnoughReplies, One
  <2> QED
    BY <2>1, <2>2
<1>16. NoStrayReply'
  <2> SUFFICES ASSUME NEW s \in completion, Acked(s)' \/ stage[s] # None \/ Submitted(s)'
      PROVE  Replies(s)' <= One(cancel'[s] # None)
    BY <1>2 DEF NoStrayReply
  <2>1. s \in Requests /\ Replies(s) <= One(cancel[s] # None)
    BY <1>9 DEF NoStrayReply, Types
  <2> QED
    BY <1>1, <1>5, <1>9, <2>1 DEF One
<1>17. Acks'
  BY <1>2, <1>3, <1>9 DEF Acks
<1>18. Abandoned'
  BY <1>2, <1>9 DEF Abandoned
<1>19. LastWord'
  BY <1>2, <1>9 DEF LastWord, Waiting
<1> QED
  BY <1>10, <1>11, <1>12, <1>13, <1>14, <1>15, <1>16, <1>17, <1>18, <1>19

LEMMA DispatchResultKeeps ==
  ASSUME ReplyInv, DispatchResult
  PROVE  ReplyInv'
<1>1. PICK m : m = Head(fromWorker)
  OBVIOUS
<1>2. /\ Takes(m) /\ m.kind = "result" /\ state = "ready" /\ Finish(m.request, m)
      /\ UNCHANGED <<cancel, state, toWorker, alive, phase, stage, produced,
                     pc, seen, answer, target, reply, crashes>>
  BY <1>1 DEF DispatchResult, Takes, worker, cancellers
<1> QED
  BY <1>2, FinishKeeps

LEMMA DispatchRejectKeeps ==
  ASSUME ReplyInv, DispatchReject
  PROVE  ReplyInv'
<1>1. PICK m : m = Head(fromWorker)
  OBVIOUS
<1>2. /\ Takes(m) /\ m.kind = "reject" /\ state = "ready"
      /\ UNCHANGED <<state, toWorker, alive, phase, stage, produced,
                     pc, seen, answer, target, crashes>>
      /\ IF cancel[m.request] # None
         THEN /\ Tell(cancel[m.request], m.value)
              /\ cancel' = [cancel EXCEPT ![m.request] = None]
              /\ UNCHANGED <<completion, mailbox>>
         ELSE Finish(m.request, m) /\ UNCHANGED <<cancel, reply>>
  BY <1>1 DEF DispatchReject, Takes, worker
<1>3. m.value \in {"admission", "contract"}
  BY <1>2, TakesFrame, MessageShape DEF ReplyInv
<1>4. CASE cancel[m.request] # None
  BY <1>2, <1>3, <1>4, TellKeeps
<1>5. CASE cancel[m.request] = None
  BY <1>2, <1>5, FinishKeeps
<1> QED
  BY <1>4, <1>5

(* An acknowledgement that nobody waits for is dropped: its completion has *)
(* left the slot, for else a waiter would have it to expect.               *)
LEMMA DropKeeps ==
  ASSUME ReplyInv, NEW m, Takes(m), m.kind = "ack", state = "ready",
         cancel[m.request] = None,
         UNCHANGED <<completion, cancel, state, toWorker, alive, phase, stage, produced,
                     mailbox, pc, seen, answer, target, reply, crashes>>
  PROVE  ReplyInv'
<1> USE Constants DEF ReplyInv
<1>1. PICK r : r = m.request
  OBVIOUS
<1>2. UNCHANGED <<completion, cancel, state, toWorker, alive, phase, stage, produced,
                  mailbox, pc, seen, answer, target, reply, crashes>>
  OBVIOUS
<1>3. /\ r \in Requests /\ fromWorker \in Seq(Messages)
      /\ fromWorker' \in Seq(Messages) /\ AllOf(fromWorker', Says)
      /\ \A k, s : In(fromWorker, k, s) <=>
                     In(fromWorker', k, s) \/ (k = "ack" /\ s = r)
      /\ \A k, s : /\ Count(fromWorker', k, s) \in Nat
                   /\ Count(fromWorker, k, s) = Count(fromWorker', k, s)
                        + (IF k = "ack" /\ s = r THEN 1 ELSE 0)
      /\ \A s : OnlyCancelled(fromWorker, s) => OnlyCancelled(fromWorker', s)
  BY <1>1, TakesFrame
<1>4. \A k, s : In(fromWorker', k, s) => In(fromWorker, k, s)
  BY <1>3
<1>5. /\ \A s : Submitted(s)' <=> Submitted(s)
      /\ \A s : Acked(s)' => Acked(s)
      /\ \A s : Posted(s)' <=> Posted(s)
      /\ \A s : Refused(s)' <=> Refused(s)
      /\ \A s : /\ Replies(s)' \in Nat
                /\ Replies(s) = Replies(s)' + (IF s = r THEN 1 ELSE 0)
  <2>1. \A s : (Submitted(s)' <=> Submitted(s)) /\ (Posted(s)' <=> Posted(s))
    BY <1>2 DEF Submitted, Posted
  <2>2. \A s : Acked(s)' => Acked(s)
    BY <1>2, <1>4 DEF Acked
  <2>3. \A s : Refused(s)' <=> Refused(s)
    BY <1>2, <1>3, <2>1 DEF Refused
  <2>4. ASSUME NEW s
        PROVE  Replies(s)' \in Nat /\ Replies(s) = Replies(s)' + (IF s = r THEN 1 ELSE 0)
    <3>1. Count(toWorker, "cancel", s) \in Nat
      BY CountType DEF Types
    <3> QED
      BY <1>2, <1>3, <3>1 DEF Replies
  <2> QED
    BY <2>1, <2>2, <2>3, <2>4
<1>6. r \notin completion
  <2>1. Acked(r)
    BY <1>3 DEF Acked
  <2>2. Replies(r) >= 1
    BY <1>5
  <2> QED
    BY <1>1, <1>5, <2>1, <2>2 DEF NoStrayReply, One
<1>7. Types' /\ Kinds' /\ Death' /\ Abandoned' /\ LastWord'
  BY <1>2, <1>3, <1>5 DEF Types, Kinds, Death, Abandoned, LastWord, Waiting
<1>8. Holdings'
  BY <1>2, <1>4 DEF Holdings, Waiting, Forgotten
<1>9. Over'
  BY <1>2, <1>4, <1>5 DEF Over
<1>10. EnoughReplies'
  <2> SUFFICES ASSUME alive, NEW s \in Requests
      PROVE  /\ cancel[s] # None => Replies(s)' >= 1
             /\ s \in completion => Replies(s)' >= One(cancel[s] # None) + One(Refused(s)')
    BY <1>2 DEF EnoughReplies
  <2>1. CASE s = r
    BY <1>1, <1>6, <2>1
  <2>2. CASE s # r
    BY <1>5, <2>2 DEF EnoughReplies, One
  <2> QED
    BY <2>1, <2>2
<1>11. NoStrayReply'
  <2> SUFFICES ASSUME NEW s \in completion, Acked(s)' \/ stage[s] # None \/ Submitted(s)'
      PROVE  Replies(s)' <= One(cancel[s] # None)
    BY <1>2 DEF NoStrayReply
  <2>1. Replies(s) <= One(cancel[s] # None)
    BY <1>5 DEF NoStrayReply
  <2>2. s # r
    BY <1>6
  <2> QED
    BY <1>5, <2>1, <2>2
<1>12. Acks'
  BY <1>2, <1>3, <1>5 DEF Acks
<1> QED
  BY <1>7, <1>8, <1>9, <1>10, <1>11, <1>12

LEMMA DispatchAckKeeps ==
  ASSUME ReplyInv, DispatchAck
  PROVE  ReplyInv'
<1>1. PICK m : m = Head(fromWorker)
  OBVIOUS
<1>2. /\ Takes(m) /\ m.kind = "ack" /\ state = "ready"
      /\ UNCHANGED <<completion, state, toWorker, alive, phase, stage, produced, mailbox,
                     pc, seen, answer, target, crashes>>
      /\ IF cancel[m.request] # None
         THEN /\ Tell(cancel[m.request], "ack")
              /\ cancel' = [cancel EXCEPT ![m.request] = None]
         ELSE UNCHANGED <<cancel, reply>>
  BY <1>1 DEF DispatchAck, Takes, worker, clients
<1>3. CASE cancel[m.request] # None
  BY <1>2, <1>3, TellKeeps
<1>4. CASE cancel[m.request] = None
  BY <1>2, <1>4, DropKeeps
<1> QED
  BY <1>3, <1>4

LEMMA MarkLostKeeps ==
  ASSUME ReplyInv, MarkLost
  PROVE  ReplyInv'
<1> USE Constants DEF ReplyInv
<1>1. /\ state = "ready" /\ ~alive /\ fromWorker = << >> /\ state' = "down"
      /\ completion' = {} /\ cancel' = [r \in Requests |-> None]
      /\ mailbox' = [r \in Requests |->
           IF r \in completion THEN Append(mailbox[r], Lost(r)) ELSE mailbox[r]]
      /\ reply' = [c \in Cancellers |->
           IF (\E r \in Requests : cancel[r] = c) /\ reply[c] = None THEN "lost" ELSE reply[c]]
      /\ UNCHANGED <<toWorker, fromWorker, alive, phase, stage, produced, pc, seen, answer,
                     target, crashes>>
  BY DEF MarkLost, worker
<1>2. toWorker = << >> /\ \A r \in Requests : stage[r] = None
  BY <1>1 DEF Death
<1>3. ASSUME NEW r \in Requests
      PROVE  /\ mailbox'[r] \in Seq(Messages)
             /\ \A k : In(mailbox'[r], k, r) <=>
                         In(mailbox[r], k, r) \/ (k = "lost" /\ r \in completion)
             /\ AllOf(mailbox'[r], Events) /\ OnlyAbout(mailbox'[r], r)
             /\ EndsLast(mailbox'[r])
             /\ OnlyCancelled(mailbox[r], r) => OnlyCancelled(mailbox'[r], r)
  <2>1. CASE r \notin completion
    BY <1>1, <2>1 DEF Types, Kinds, LastWord
  <2>2. CASE r \in completion
    <3>1. PICK m : m = Lost(r)
      OBVIOUS
    <3>2. m \in Messages /\ m.kind = "lost" /\ m.request = r
      BY <3>1, FramesOfRequest, FrameFields
    <3>3. PICK q : q = mailbox[r]
      OBVIOUS
    <3>4. mailbox'[r] = Append(q, m) /\ q \in Seq(Messages)
      BY <1>1, <2>2, <3>1, <3>3 DEF Types
    <3>5. /\ ~In(q, "result", r) /\ ~In(q, "reject", r) /\ ~In(q, "lost", r)
          /\ OnlyAbout(q, r) /\ AllOf(q, Events)
      BY <2>2, <3>3 DEF LastWord, Posted, Kinds, Holdings
    <3>6. \A k : In(Append(q, m), k, r) <=> In(q, k, r) \/ k = "lost"
      BY <3>2, <3>4, InAppend DEF Is
    <3>7. AllOf(Append(q, m), Events) /\ OnlyAbout(Append(q, m), r)
      BY <3>2, <3>4, <3>5, FormsAppend DEF Events
    <3>8. EndsLast(Append(q, m))
      BY <3>2, <3>4, <3>5, EndsLastAppend
    <3>9. OnlyCancelled(q, r) => OnlyCancelled(Append(q, m), r)
      BY <3>2, <3>4, FormsAppend DEF Is
    <3>10. Append(q, m) \in Seq(Messages)
      BY <3>2, <3>4, LookAppend
    <3> QED
      BY <2>2, <3>3, <3>4, <3>6, <3>7, <3>8, <3>9, <3>10
  <2> QED
    BY <2>1, <2>2
<1>4. \A c \in Cancellers : reply'[c] \in {reply[c], "lost"}
                            /\ (reply'[c] = reply[c] \/ \E r \in Requests : cancel[r] = c)
  BY <1>1
<1>5. \A r \in Requests :
        /\ Submitted(r)' <=> Submitted(r)
        /\ Acked(r)' => Acked(r)
        /\ Posted(r)' <=> Posted(r) \/ r \in completion
  <2>1. \A r : Submitted(r)' <=> Submitted(r)
    BY <1>1 DEF Submitted
  <2>2. \A r : Acked(r)' => Acked(r)
    BY <1>1, <1>4 DEF Acked
  <2>3. \A r \in Requests : Posted(r)' <=> Posted(r) \/ r \in completion
    BY <1>3 DEF Posted
  <2> QED
    BY <2>1, <2>2, <2>3
<1>6. Types'
  <2>1. mailbox' \in [Requests -> Seq(Messages)]
    BY <1>1, <1>3
  <2>2. reply' \in [Cancellers -> Replied]
    BY <1>1 DEF Types, Replied
  <2> QED
    BY <1>1, <2>1, <2>2 DEF Types
<1>7. Kinds'
  BY <1>1, <1>3 DEF Kinds
<1>8. Holdings'
  <2>1. \A r \in Requests : ~Waiting(r) => mailbox'[r] = << >>
    BY <1>1 DEF Holdings
  <2>2. \A c \in Cancellers : target[c] = None => reply'[c] = None
    BY <1>4 DEF Holdings
  <2> QED
    BY <1>1, <2>1, <2>2 DEF Holdings, Waiting, Forgotten
<1>9. Death'
  BY <1>1, <1>2 DEF Death
<1>10. Over'
  <2>1. \A r \in Requests : ~Submitted(r)
    BY <1>2, EmptyQueue DEF Submitted
  <2> QED
    BY <1>1, <1>2, <1>5, <2>1 DEF Over
<1>11. EnoughReplies' /\ NoStrayReply'
  BY <1>1 DEF EnoughReplies, NoStrayReply
<1>12. Acks'
  BY <1>1, <1>3, <1>5 DEF Acks
<1>13. Abandoned'
  BY <1>1 DEF Abandoned
<1>14. LastWord'
  BY <1>1, <1>3, <1>5 DEF LastWord, Waiting
<1> QED
  BY <1>6, <1>7, <1>8, <1>9, <1>10, <1>11, <1>12, <1>13, <1>14

LEMMA ReplyInvStep == ReplyInv /\ [Next]_vars => ReplyInv'
<1> SUFFICES ASSUME ReplyInv, [Next]_vars PROVE ReplyInv'
  OBVIOUS
<1>1. CASE Work
  BY <1>1, HandleSubmitKeeps, HandleCancelKeeps, PhaseKeeps, StepCancelKeeps,
     StepBatchKeeps DEF Work
<1>2. CASE Reader
  BY <1>2, DispatchProgressKeeps, DispatchResultKeeps, DispatchRejectKeeps,
     DispatchAckKeeps, MarkLostKeeps DEF Reader
<1>3. CASE Crash
  BY <1>3, CrashKeeps
<1>4. ASSUME NEW r \in Requests,
             \/ Restart(r) \/ Submit(r) \/ ReceiveProgress(r)
             \/ \E c \in Cancellers : CancelRequest(c, r)
      PROVE  ReplyInv'
  BY <1>4, RestartKeeps, SubmitKeeps, ReceiveProgressKeeps, CancelRequestKeeps
<1>5. ASSUME NEW r \in Requests,
             SubmitFails(r) \/ TimesOut(r) \/ StreamBreaks(r) \/ ReceiveTerminal(r)
      PROVE  ReplyInv'
  <2>1. \E a \in Answers : Leaves(r, a)
    BY <1>5, SubmitFailsLeaves, TimesOutLeaves, ReceiveTerminalLeaves DEF Answers
  <2> QED
    BY <2>1, LeavesKeeps
<1>6. ASSUME NEW c \in Cancellers, CancelTimesOut(c) PROVE ReplyInv'
  BY <1>6, CancelTimesOutKeeps
<1>7. CASE UNCHANGED vars
  <2>1. UNCHANGED <<completion, cancel, state, toWorker, fromWorker, alive, phase, stage,
                    produced, mailbox, pc, seen, answer, target, reply, crashes>>
    BY <1>7 DEF vars, slot, worker, clients, cancellers
  <2>2. Types' /\ Kinds' /\ Holdings' /\ Death' /\ Over'
    BY <2>1 DEF ReplyInv, Types, Kinds, Holdings, Death, Over, Waiting, Forgotten,
                Submitted, Posted
  <2>3. EnoughReplies' /\ NoStrayReply' /\ Acks' /\ Abandoned' /\ LastWord'
    BY <2>1 DEF ReplyInv, EnoughReplies, NoStrayReply, Acks, Abandoned, LastWord, Waiting,
                Replies, Refused, Acked, Submitted, Posted
  <2> QED
    BY <2>2, <2>3 DEF ReplyInv
<1> QED
  BY <1>1, <1>2, <1>3, <1>4, <1>5, <1>6, <1>7 DEF Next, Receive

(* The first layer holds in every reachable state.                         *)
THEOREM ReplyInvariant == Spec => []ReplyInv
<1> QED
  BY ReplyInvInit, ReplyInvStep, PTL DEF Spec

LEMMA RangeOfQueue ==
  ASSUME NEW q \in Seq(Messages)
  PROVE  /\ Range(q) \subseteq Messages
         /\ \A K, r : (\E m \in Range(q) : m.kind \in K /\ m.request = r)
                        <=> \E k \in K : In(q, k, r)
<1>1. \A m : m \in Range(q) <=> \E i \in 1 .. Len(q) : m = q[i]
  BY DEF Range
<1>2. Range(q) \subseteq Messages
  BY <1>1
<1>3. ASSUME NEW K, NEW r
      PROVE  (\E m \in Range(q) : m.kind \in K /\ m.request = r)
               <=> \E k \in K : In(q, k, r)
  BY <1>1 DEF In, Is
<1> QED
  BY <1>2, <1>3

(* Every variable has its type.                                            *)
THEOREM TypeCorrect == Spec => []TypeOK
<1>1. ReplyInv => TypeOK
  <2> SUFFICES ASSUME ReplyInv PROVE TypeOK
    OBVIOUS
  <2>1. Types
    BY DEF ReplyInv
  <2>2. Range(toWorker) \cup Range(fromWorker) \subseteq Messages
    <3>1. toWorker \in Seq(Messages) /\ fromWorker \in Seq(Messages)
      BY <2>1 DEF Types
    <3> QED
      BY <3>1, RangeOfQueue
  <2>3. \A r \in Requests : Range(mailbox[r]) \subseteq Messages
    <3>1. \A r \in Requests : mailbox[r] \in Seq(Messages)
      BY <2>1 DEF Types
    <3> QED
      BY <3>1, RangeOfQueue
  <2>4. \A r \in Requests : produced[r] \in 0 .. Budget[r] /\ seen[r] \in 0 .. Budget[r]
    BY <2>1, Constants DEF Types
  <2> QED
    BY <2>1, <2>2, <2>3, <2>4 DEF Types, TypeOK, Replied
<1> QED
  BY <1>1, ReplyInvariant, PTL

(* A completion that waits is in the slot until its one terminal event is   *)
(* in its channel, and nothing follows that event.                         *)
THEOREM OneAnswerEach == Spec => []OneAnswer
<1>1. ReplyInv => OneAnswer
  <2> SUFFICES ASSUME ReplyInv, NEW r \in Requests, Waiting(r)
      PROVE  LET ends == {i \in DOMAIN mailbox[r] : Terminal(mailbox[r][i])}
             IN  /\ r \in completion <=> ends = {}
                 /\ ends \subseteq {Len(mailbox[r])}
    BY DEF OneAnswer
  <2>1. PICK q : q = mailbox[r]
    OBVIOUS
  <2>2. PICK ends : ends = {i \in DOMAIN q : Terminal(q[i])}
    OBVIOUS
  <2>3. /\ q \in Seq(Messages) /\ OnlyAbout(q, r) /\ EndsLast(q)
        /\ r \in completion <=> ~Posted(r)
    BY <2>1 DEF ReplyInv, Types, Kinds, LastWord
  <2>4. DOMAIN q = 1 .. Len(q)
    BY <2>3
  <2>5. Posted(r) <=> ends # {}
    BY <2>1, <2>2, <2>3, <2>4 DEF Posted, In, Is, OnlyAbout, Terminal
  <2>6. ends \subseteq {Len(q)}
    BY <2>2, <2>3, <2>4 DEF EndsLast, Terminal
  <2> QED
    BY <2>1, <2>2, <2>3, <2>5, <2>6
<1> QED
  BY <1>1, ReplyInvariant, PTL

(* Whoever waits on a live worker has its reply on the way.                *)
THEOREM RepliesOnTheWay == Spec => []WaiterHasReply
<1>1. ReplyInv => WaiterHasReply
  <2> SUFFICES ASSUME ReplyInv, state = "ready", alive, NEW r \in Requests
      PROVE  /\ r \in completion =>
                  \/ Sent("submit", r) \/ r \in Active \cup Cancelling
                  \/ Coming({"result", "reject"}, r) \/ Sent("cancel", r)
             /\ cancel[r] # None => Sent("cancel", r) \/ Coming({"ack", "reject"}, r)
    BY DEF WaiterHasReply
  <2>1. toWorker \in Seq(Messages) /\ fromWorker \in Seq(Messages)
    BY DEF ReplyInv, Types
  <2>2. ASSUME NEW k PROVE Sent(k, r) <=> In(toWorker, k, r)
    <3>1. PICK K : K = {k}
      OBVIOUS
    <3>2. (\E m \in Range(toWorker) : m.kind \in K /\ m.request = r)
            <=> \E j \in K : In(toWorker, j, r)
      BY <2>1, RangeOfQueue
    <3> QED
      BY <3>1, <3>2 DEF Sent
  <2>3. \A K : Coming(K, r) <=> \E k \in K : In(fromWorker, k, r)
    BY <2>1, RangeOfQueue DEF Coming
  <2>4. Replies(r) >= 1 =>
          In(fromWorker, "ack", r) \/ In(fromWorker, "reject", r) \/ In(toWorker, "cancel", r)
    <3>1. /\ Count(fromWorker, "ack", r) = 0 <=> ~In(fromWorker, "ack", r)
          /\ Count(fromWorker, "reject", r) = 0 <=> ~In(fromWorker, "reject", r)
          /\ Count(toWorker, "cancel", r) = 0 <=> ~In(toWorker, "cancel", r)
      BY <2>1, CountType
    <3>2. ASSUME NEW a \in Nat, NEW b \in Nat, NEW c \in Nat, a + b + c >= 1
          PROVE  a # 0 \/ b # 0 \/ c # 0
      BY <3>2
    <3>3. /\ Count(fromWorker, "ack", r) \in Nat /\ Count(fromWorker, "reject", r) \in Nat
          /\ Count(toWorker, "cancel", r) \in Nat
      BY <2>1, CountType
    <3> QED
      BY <3>1, <3>2, <3>3 DEF Replies
  <2>5. cancel[r] # None => Replies(r) >= 1
    BY DEF ReplyInv, EnoughReplies
  <2>6. ASSUME r \in completion, Refused(r)
        PROVE  In(fromWorker, "reject", r) \/ In(toWorker, "cancel", r)
    <3>1. Replies(r) >= One(cancel[r] # None) + 1
      BY <2>6 DEF ReplyInv, EnoughReplies, One
    <3>2. One(cancel[r] # None) \in Nat
      BY DEF One
    <3>3. In(fromWorker, "ack", r) => Replies(r) <= One(cancel[r] # None)
      BY <2>6 DEF ReplyInv, NoStrayReply, Acked
    <3>4. Replies(r) \in Nat
      <4>1. /\ Count(fromWorker, "ack", r) \in Nat /\ Count(fromWorker, "reject", r) \in Nat
            /\ Count(toWorker, "cancel", r) \in Nat
        BY <2>1, CountType
      <4> QED
        BY <4>1 DEF Replies
    <3>5. ~In(fromWorker, "ack", r) /\ Replies(r) >= 1
      BY <3>1, <3>2, <3>3, <3>4
    <3> QED
      BY <2>4, <3>5
  <2>7. ASSUME r \in completion
        PROVE  \/ Sent("submit", r) \/ r \in Active \cup Cancelling
               \/ Coming({"result", "reject"}, r) \/ Sent("cancel", r)
    <3>1. CASE Refused(r)
      BY <2>2, <2>3, <2>6, <2>7, <3>1
    <3>2. CASE ~Refused(r)
      BY <2>2, <2>3, <3>2 DEF Refused, Submitted, Active, Cancelling, ReplyInv, Types
    <3> QED
      BY <3>1, <3>2
  <2> QED
    BY <2>2, <2>3, <2>4, <2>5, <2>7
<1> QED
  BY <1>1, ReplyInvariant, PTL

(* A request that nobody waits for has its cancel on the way.              *)
THEOREM AbandonedCancelled == Spec => []AbandonedIsCancelled
<1>1. ReplyInv => AbandonedIsCancelled
  <2> SUFFICES ASSUME ReplyInv, alive, NEW r \in Requests, pc[r] = "done",
                      r \in Active \/ Sent("submit", r)
      PROVE  Sent("cancel", r)
    BY DEF AbandonedIsCancelled
  <2>1. \A k : Sent(k, r) <=> In(toWorker, k, r)
    <3>1. toWorker \in Seq(Messages)
      BY DEF ReplyInv, Types
    <3>2. \A k : (\E m \in Range(toWorker) : m.kind \in {k} /\ m.request = r)
                   <=> \E j \in {k} : In(toWorker, j, r)
      BY <3>1, RangeOfQueue
    <3> QED
      BY <3>2 DEF Sent
  <2> QED
    BY <2>1 DEF ReplyInv, Abandoned, Submitted, Active
<1> QED
  BY <1>1, ReplyInvariant, PTL

-----------------------------------------------------------------------------
(* The second layer: streams.                                              *)

LEMMA PassedFinite ==
  ASSUME NEW q, NEW n \in Nat, NEW r
  PROVE  /\ IsFiniteSet({i \in 1 .. n : OfStream(q[i], r)})
         /\ Passed(q, n, r) \in Nat
<1>1. IsFiniteSet(1 .. n)
  BY FS_Interval
<1>2. IsFiniteSet({i \in 1 .. n : OfStream(q[i], r)})
  BY <1>1, FS_Subset
<1> QED
  BY <1>2, FS_CardinalityType DEF Passed

LEMMA PassedNone ==
  ASSUME NEW q, NEW n \in Nat, NEW r, \A i \in 1 .. n : ~OfStream(q[i], r)
  PROVE  Passed(q, n, r) = 0
<1>1. {i \in 1 .. n : OfStream(q[i], r)} = {}
  OBVIOUS
<1> QED
  BY <1>1, FS_EmptySet DEF Passed

LEMMA PassedSame ==
  ASSUME NEW q, NEW p, NEW n \in Nat, NEW r, \A i \in 1 .. n : q[i] = p[i]
  PROVE  Passed(q, n, r) = Passed(p, n, r)
<1>1. {i \in 1 .. n : OfStream(q[i], r)} = {i \in 1 .. n : OfStream(p[i], r)}
  OBVIOUS
<1> QED
  BY <1>1 DEF Passed

LEMMA PassedStep ==
  ASSUME NEW q, NEW n \in Nat, NEW r
  PROVE  Passed(q, n + 1, r) = Passed(q, n, r) + One(OfStream(q[n + 1], r))
<1>1. PICK S : S = {i \in 1 .. n : OfStream(q[i], r)}
  OBVIOUS
<1>2. PICK T : T = {i \in 1 .. n + 1 : OfStream(q[i], r)}
  OBVIOUS
<1>3. IsFiniteSet(S) /\ Passed(q, n, r) = Cardinality(S) /\ Passed(q, n, r) \in Nat
  BY <1>1, PassedFinite DEF Passed
<1>4. Passed(q, n + 1, r) = Cardinality(T)
  BY <1>2 DEF Passed
<1>5. CASE OfStream(q[n + 1], r)
  <2>1. T = S \cup {n + 1} /\ n + 1 \notin S
    BY <1>1, <1>2, <1>5
  <2>2. Cardinality(T) = Cardinality(S) + 1
    BY <1>3, <2>1, FS_AddElement
  <2> QED
    BY <1>3, <1>4, <1>5, <2>2 DEF One
<1>6. CASE ~OfStream(q[n + 1], r)
  <2>1. T = S
    BY <1>1, <1>2, <1>6
  <2> QED
    BY <1>3, <1>4, <1>6, <2>1 DEF One
<1> QED
  BY <1>5, <1>6

LEMMA PassedShift ==
  ASSUME NEW q, NEW t, NEW n \in Nat, NEW r, \A i \in 1 .. n : t[i] = q[i + 1]
  PROVE  Passed(q, n + 1, r) = Passed(t, n, r) + One(OfStream(q[1], r))
<1>1. PICK S : S = {i \in 1 .. n + 1 : OfStream(q[i], r)}
  OBVIOUS
<1>2. PICK T : T = {i \in 1 .. n : OfStream(t[i], r)}
  OBVIOUS
<1>3. IsFiniteSet(T) /\ Passed(t, n, r) = Cardinality(T) /\ Passed(t, n, r) \in Nat
  BY <1>2, PassedFinite DEF Passed
<1>4. PICK U : U = S \ {1}
  OBVIOUS
<1>5. IsFiniteSet(U) /\ Cardinality(U) = Cardinality(T)
  <2>1. PICK f : f = [i \in T |-> i + 1]
    OBVIOUS
  <2>2. f \in [T -> U]
    BY <1>1, <1>2, <1>4, <2>1
  <2>3. \A i, j \in T : f[i] = f[j] => i = j
    BY <1>2, <2>1
  <2>4. ASSUME NEW u \in U PROVE \E i \in T : f[i] = u
    <3>1. u - 1 \in 1 .. n /\ u = (u - 1) + 1
      BY <1>1, <1>4
    <3>2. u - 1 \in T
      BY <1>1, <1>2, <1>4, <3>1
    <3> QED
      BY <2>1, <3>1, <3>2
  <2>5. f \in Bijection(T, U)
    BY <2>2, <2>3, <2>4 DEF Bijection, Injection, Surjection, IsInjective
  <2>6. ExistsBijection(T, U)
    BY <2>5 DEF ExistsBijection
  <2> QED
    BY <1>3, <2>6, FS_Bijection
<1>6. Passed(q, n + 1, r) = Cardinality(S)
  BY <1>1 DEF Passed
<1>7. CASE OfStream(q[1], r)
  <2>1. S = U \cup {1} /\ 1 \notin U
    BY <1>1, <1>4, <1>7
  <2>2. Cardinality(S) = Cardinality(U) + 1
    BY <1>5, <2>1, FS_AddElement
  <2> QED
    BY <1>3, <1>5, <1>6, <1>7, <2>2 DEF One
<1>8. CASE ~OfStream(q[1], r)
  <2>1. S = U
    BY <1>1, <1>4, <1>8
  <2> QED
    BY <1>3, <1>5, <1>6, <1>8, <2>1 DEF One
<1> QED
  BY <1>7, <1>8

(* What an append, a tail and a lost end do to consecutive frames.         *)
LEMMA ConsecutiveAppend ==
  ASSUME NEW q \in Seq(Messages), NEW m \in Messages, NEW r, NEW next \in Int,
         Consecutive(q, r, next),
         Placed(m, r) => Index(m) = next + Passed(q, Len(q), r)
  PROVE  /\ Consecutive(Append(q, m), r, next)
         /\ Passed(Append(q, m), Len(Append(q, m)), r)
              = Passed(q, Len(q), r) + One(OfStream(m, r))
<1>1. PICK a, n : a = Append(q, m) /\ n = Len(q)
  OBVIOUS
<1>2. /\ n \in Nat /\ Len(a) = n + 1 /\ a[n + 1] = m
      /\ \A i \in 1 .. n : a[i] = q[i]
      /\ \A i \in 1 .. Len(a) : i \in 1 .. n \/ i = n + 1
  BY <1>1, LookAppend
<1>3. ASSUME NEW i \in 0 .. n PROVE Passed(a, i, r) = Passed(q, i, r)
  <2>1. \A j \in 1 .. i : a[j] = q[j]
    BY <1>2
  <2> QED
    BY <2>1, PassedSame
<1>4. Passed(a, n + 1, r) = Passed(q, n, r) + One(OfStream(m, r))
  <2>1. Passed(a, n + 1, r) = Passed(a, n, r) + One(OfStream(a[n + 1], r))
    BY <1>2, PassedStep
  <2>2. Passed(a, n, r) = Passed(q, n, r)
    BY <1>2, <1>3
  <2> QED
    BY <1>2, <2>1, <2>2
<1>5. ASSUME NEW i \in 1 .. Len(a), Placed(a[i], r)
      PROVE  Index(a[i]) = next + Passed(a, i - 1, r)
  <2>1. CASE i \in 1 .. n
    <3>1. i - 1 \in 0 .. n
      BY <1>2, <2>1
    <3>2. Passed(a, i - 1, r) = Passed(q, i - 1, r)
      BY <1>3, <3>1
    <3> QED
      BY <1>1, <1>2, <1>5, <2>1, <3>2 DEF Consecutive
  <2>2. CASE i = n + 1
    <3>1. i - 1 = n /\ n \in 0 .. n
      BY <1>2, <2>2
    <3>2. Passed(a, i - 1, r) = Passed(q, n, r)
      BY <1>3, <3>1
    <3> QED
      BY <1>1, <1>2, <1>5, <2>2, <3>2
  <2> QED
    BY <1>2, <2>1, <2>2
<1>6. Consecutive(a, r, next)
  BY <1>5 DEF Consecutive
<1> QED
  BY <1>1, <1>2, <1>4, <1>6

LEMMA ConsecutiveTail ==
  ASSUME NEW q \in Seq(Messages), q # << >>, NEW r, NEW next \in Int,
         Consecutive(q, r, next)
  PROVE  /\ Placed(Head(q), r) => Index(Head(q)) = next
         /\ Consecutive(Tail(q), r, next + One(OfStream(Head(q), r)))
         /\ Passed(q, Len(q), r)
              = Passed(Tail(q), Len(Tail(q)), r) + One(OfStream(Head(q), r))
<1>1. PICK t, n : t = Tail(q) /\ n = Len(Tail(q))
  OBVIOUS
<1>2. /\ n \in Nat /\ Len(q) = n + 1 /\ Head(q) = q[1] /\ Len(t) = n
      /\ \A i \in 1 .. n : t[i] = q[i + 1]
  <2>1. Len(q) \in Nat \ {0} /\ Len(Tail(q)) = Len(q) - 1
    BY LookTail
  <2> QED
    BY <1>1, <2>1, LookTail
<1>3. ASSUME NEW i \in 0 .. n
      PROVE  Passed(q, i + 1, r) = Passed(t, i, r) + One(OfStream(q[1], r))
  <2>1. i \in Nat /\ \A j \in 1 .. i : t[j] = q[j + 1]
    BY <1>2
  <2> QED
    BY <2>1, PassedShift
<1>4. Placed(q[1], r) => Index(q[1]) = next
  <2>1. Passed(q, 0, r) = 0
    BY PassedNone
  <2>2. 1 \in 1 .. Len(q) /\ 1 - 1 = 0
    BY <1>2
  <2> QED
    BY <2>1, <2>2 DEF Consecutive
<1>5. One(OfStream(q[1], r)) \in Nat
  BY DEF One
<1>6. ASSUME NEW i \in 1 .. n, Placed(t[i], r)
      PROVE  Index(t[i]) = (next + One(OfStream(q[1], r))) + Passed(t, i - 1, r)
  <2>1. i + 1 \in 1 .. Len(q) /\ t[i] = q[i + 1] /\ i - 1 \in 0 .. n
    BY <1>2
  <2>2. Index(q[i + 1]) = next + Passed(q, (i + 1) - 1, r)
    BY <1>6, <2>1 DEF Consecutive
  <2>3. (i + 1) - 1 = (i - 1) + 1 /\ i - 1 \in Nat
    BY <2>1
  <2>4. Passed(q, (i - 1) + 1, r) = Passed(t, i - 1, r) + One(OfStream(q[1], r))
    BY <1>3, <2>1
  <2>5. Passed(t, i - 1, r) \in Nat
    BY <2>3, PassedFinite
  <2>6. Index(t[i]) = next + Passed(q, (i - 1) + 1, r)
    BY <2>1, <2>2, <2>3
  <2> QED
    BY <1>5, <2>4, <2>5, <2>6
<1>7. Consecutive(t, r, next + One(OfStream(q[1], r)))
  BY <1>2, <1>6 DEF Consecutive
<1>8. Passed(q, n + 1, r) = Passed(t, n, r) + One(OfStream(q[1], r))
  BY <1>2, <1>3
<1> QED
  BY <1>1, <1>2, <1>4, <1>7, <1>8

LEMMA ConsecutivePrefix ==
  ASSUME NEW q \in Seq(Messages), NEW n \in 0 .. Len(q), NEW r, NEW next \in Int,
         Consecutive(q, r, next)
  PROVE  Consecutive(SubSeq(q, 1, n), r, next)
<1>1. PICK s : s = SubSeq(q, 1, n)
  OBVIOUS
<1>2. Len(s) = n /\ \A i \in 1 .. n : s[i] = q[i] /\ i \in 1 .. Len(q)
  BY <1>1, Prefix
<1>3. ASSUME NEW i \in 1 .. n, Placed(s[i], r)
      PROVE  Index(s[i]) = next + Passed(s, i - 1, r)
  <2>1. i - 1 \in Nat /\ \A j \in 1 .. i - 1 : j \in 1 .. n
    OBVIOUS
  <2>2. Passed(s, i - 1, r) = Passed(q, i - 1, r)
    BY <1>2, <2>1, PassedSame
  <2> QED
    BY <1>2, <1>3, <2>2 DEF Consecutive
<1> QED
  BY <1>1, <1>2, <1>3 DEF Consecutive

LEMMA StreamInvInit == Init => StreamInv
<1> SUFFICES ASSUME Init PROVE StreamInv
  OBVIOUS
<1>1. \A r \in Requests : /\ pc[r] = "idle" /\ mailbox[r] = << >> /\ answer[r] = None
                          /\ r \notin completion
  BY DEF Init
<1>2. ASSUME NEW r \in Streaming PROVE Unbroken(r)
  BY <1>1, Constants, EmptyQueue DEF Unbroken, MailboxOf
<1> QED
  BY <1>1, <1>2, Constants DEF StreamInv, StreamNeverContradicts, Answers

LEMMA Places ==
  ASSUME ReplyInv, NEW r \in Requests
  PROVE  FirstIndex(r) \in Int /\ NextIndex(r) \in Int /\ Len(mailbox[r]) \in Nat
BY DEF ReplyInv, Types, FirstIndex, NextIndex

(* A request whose client side stands still.                               *)
Rests(r) ==
  pc'[r] = pc[r] /\ seen'[r] = seen[r] /\ mailbox'[r] = mailbox[r] /\ answer'[r] = answer[r]

LEMMA RestKeeps ==
  ASSUME ReplyInv, NEW r \in Streaming, Unbroken(r), Rests(r),
         r \in completion' => r \in completion,
         r \in completion => \A n \in Int : Follows(r, n) => Follows(r, n)'
  PROVE  Unbroken(r)'
<1>1. r \in Requests
  BY Constants
<1>2. MailboxOf(r)'
  BY DEF Unbroken, MailboxOf, Rests, FirstIndex
<1>3. NextIndex(r)' = NextIndex(r)
  BY DEF Rests, NextIndex, FirstIndex
<1>4. PICK n : n = NextIndex(r)
  OBVIOUS
<1>5. n \in Int
  BY <1>1, <1>4, Places
<1>6. ASSUME r \in completion' PROVE Follows(r, n)'
  BY <1>4, <1>5, <1>6 DEF Unbroken
<1>7. r \in completion' => Follows(r, NextIndex(r))'
  BY <1>3, <1>4, <1>6 DEF Follows
<1>8. pc'[r] # "await"
  BY DEF Unbroken, Rests
<1> QED
  BY <1>2, <1>7, <1>8 DEF Unbroken

(* No channel and no waiting completion changes.                           *)
LEMMA QuietKeeps ==
  ASSUME ReplyInv, StreamInv, UNCHANGED <<completion, mailbox, pc, seen, answer>>,
         \A r \in Streaming \cap completion :
         \A n \in Int : Follows(r, n) => Follows(r, n)'
  PROVE  StreamInv'
<1>1. ASSUME NEW r \in Streaming PROVE Unbroken(r)'
  <2>1. Rests(r) /\ Unbroken(r)
    BY DEF Rests, StreamInv
  <2>2. r \in completion => \A n \in Int : Follows(r, n) => Follows(r, n)'
    OBVIOUS
  <2>3. r \in completion' => r \in completion
    OBVIOUS
  <2> QED
    BY <2>1, <2>2, <2>3, RestKeeps
<1>2. StreamNeverContradicts'
  BY DEF StreamInv, StreamNeverContradicts
<1> QED
  BY <1>1, <1>2 DEF StreamInv

(* An event reaches the channel of r.                                      *)
LEMMA PostedFollows ==
  ASSUME ReplyInv, NEW r \in Requests, MailboxOf(r), NEW m \in Messages,
         mailbox'[r] = Append(mailbox[r], m), pc'[r] = pc[r], seen'[r] = seen[r],
         Placed(m, r) => Index(m) = NextIndex(r)
  PROVE  MailboxOf(r)' /\ NextIndex(r)' = NextIndex(r) + 1
<1>1. PICK q, a : q = mailbox[r] /\ a = mailbox'[r]
  OBVIOUS
<1>2. /\ q \in Seq(Messages) /\ Len(q) \in Nat /\ Len(a) = Len(q) + 1
      /\ \A i \in 1 .. Len(q) : a[i] = q[i]
      /\ a[Len(q) + 1] = m
      /\ \A i \in 1 .. Len(a) : i \in 1 .. Len(q) \/ i = Len(q) + 1
  <2>1. q \in Seq(Messages) /\ a = Append(q, m)
    BY <1>1 DEF ReplyInv, Types
  <2> QED
    BY <2>1, LookAppend
<1>3. PICK f : f = FirstIndex(r)
  OBVIOUS
<1>4. FirstIndex(r)' = f /\ f \in Int /\ NextIndex(r) = f + Len(q)
  BY <1>1, <1>3, Places DEF FirstIndex, NextIndex
<1>5. ASSUME NEW i \in 1 .. Len(a), Placed(a[i], r) PROVE Index(a[i]) = f + i - 1
  <2>1. CASE i \in 1 .. Len(q)
    BY <1>1, <1>2, <1>3, <1>5, <2>1 DEF MailboxOf
  <2>2. CASE i = Len(q) + 1
    <3>1. Index(a[i]) = f + Len(q)
      BY <1>2, <1>4, <1>5, <2>2
    <3> QED
      BY <1>2, <1>4, <2>2, <3>1
  <2> QED
    BY <1>2, <2>1, <2>2
<1>6. MailboxOf(r)'
  BY <1>1, <1>4, <1>5 DEF MailboxOf
<1>7. NextIndex(r)' = f + Len(a)
  BY <1>1, <1>4 DEF NextIndex
<1> QED
  BY <1>2, <1>4, <1>6, <1>7

(* The reader takes the head of the socket: the stream continues behind it. *)
LEMMA TakenFollows ==
  ASSUME ReplyInv, NEW m, Takes(m), NEW r \in Requests, NEW n \in Int, Follows(r, n),
         UNCHANGED <<toWorker, stage, produced>>
  PROVE  /\ Placed(m, r) => Index(m) = n
         /\ ~OfStream(m, r) => Follows(r, n)'
         /\ OfStream(m, r) => Follows(r, n + 1)'
<1>1. PICK q, t : q = fromWorker /\ t = fromWorker'
  OBVIOUS
<1>2. q \in Seq(Messages) /\ q # << >> /\ m = Head(q) /\ t = Tail(q) /\ t \in Seq(Messages)
  BY <1>1, LookTail DEF Takes, ReplyInv, Types
<1>3. PICK d : d = One(OfStream(m, r))
  OBVIOUS
<1>4. /\ Placed(m, r) => Index(m) = n
      /\ Consecutive(t, r, n + d)
      /\ Passed(q, Len(q), r) = Passed(t, Len(t), r) + d
  BY <1>1, <1>2, <1>3, ConsecutiveTail DEF Follows
<1>5. (OfStream(m, r) => d = 1) /\ (~OfStream(m, r) => d = 0)
  BY <1>3 DEF One
<1>6. Passed(t, Len(t), r) \in Nat
  <2>1. Len(t) \in Nat
    BY <1>2
  <2> QED
    BY <2>1, PassedFinite
<1>7. (Submitted(r)' <=> Submitted(r)) /\ stage'[r] = stage[r] /\ produced'[r] = produced[r]
  BY DEF Submitted
<1>8. stage[r] # None => produced[r] = (n + d) + Passed(t, Len(t), r)
  <2>1. stage[r] # None => produced[r] = n + Passed(q, Len(q), r)
    BY <1>1 DEF Follows
  <2>2. d \in Nat
    BY <1>5
  <2> QED
    BY <1>4, <1>6, <2>1, <2>2
<1>9. CASE ~OfStream(m, r)
  <2>1. d = 0 /\ n + d = n
    BY <1>5, <1>9
  <2> QED
    BY <1>1, <1>4, <1>7, <1>8, <1>9, <2>1 DEF Follows
<1>10. CASE OfStream(m, r)
  <2>1. d = 1
    BY <1>5, <1>10
  <2>2. In(q, "admitted", r) \/ In(q, "delta", r)
    BY <1>2, <1>10, InTail DEF OfStream
  <2>3. ~Submitted(r)
    BY <1>1, <2>2 DEF ReplyInv, Over
  <2> QED
    BY <1>1, <1>4, <1>7, <1>8, <1>10, <2>1, <2>3 DEF Follows
<1> QED
  BY <1>9, <1>10

(* The worker appends a frame that has no place in the stream.             *)
LEMMA OtherFrameFollows ==
  ASSUME ReplyInv, NEW r \in Requests, NEW n \in Int, Follows(r, n), NEW m \in Messages,
         fromWorker' = Append(fromWorker, m), ~OfStream(m, r),
         Is(m, "result", r) => Index(m) = n + Passed(fromWorker, Len(fromWorker), r),
         Submitted(r)' => Submitted(r),
         stage'[r] # None => stage[r] # None /\ produced'[r] = produced[r]
  PROVE  Follows(r, n)'
<1>1. PICK q, a : q = fromWorker /\ a = fromWorker'
  OBVIOUS
<1>2. q \in Seq(Messages) /\ a = Append(q, m)
  BY <1>1 DEF ReplyInv, Types
<1>3. Placed(m, r) => Index(m) = n + Passed(q, Len(q), r)
  BY <1>1 DEF Placed
<1>4. Consecutive(a, r, n) /\ Passed(a, Len(a), r) = Passed(q, Len(q), r) + 0
  <2>1. One(OfStream(m, r)) = 0
    BY DEF One
  <2> QED
    BY <1>1, <1>2, <1>3, <2>1, ConsecutiveAppend DEF Follows
<1>5. Passed(q, Len(q), r) \in Nat
  <2>1. Len(q) \in Nat
    BY <1>2
  <2> QED
    BY <2>1, PassedFinite
<1> QED
  BY <1>1, <1>4, <1>5 DEF Follows

-----------------------------------------------------------------------------
(* The steps of the worker.                                                *)

LEMMA StreamHandleCancel ==
  ASSUME ReplyInv, StreamInv, HandleCancel
  PROVE  StreamInv'
<1>1. PICK c : c = Head(toWorker).request
  OBVIOUS
<1>2. /\ toWorker # << >> /\ toWorker \in Seq(Messages) /\ toWorker' = Tail(toWorker)
      /\ UNCHANGED <<completion, mailbox, pc, seen, answer, produced>>
  BY DEF HandleCancel, slot, clients, ReplyInv, Types
<1>3. c \in Requests
  BY <1>1, <1>2, LookTail, MessageShape
<1>4. PICK m \in {Ack(c), Reject(c, "contract")} : fromWorker' = Append(fromWorker, m)
  BY <1>1 DEF HandleCancel
<1>5. m \in Messages /\ m.kind \in {"ack", "reject"}
  BY <1>3, <1>4, FramesOfRequest, FrameFields
<1>6. \A r \in Requests : stage'[r] # None => stage[r] # None
  BY <1>1, <1>3, Constants DEF HandleCancel, Cancellable, Active, ReplyInv, Types
<1>7. \A r : Submitted(r)' => Submitted(r)
  BY <1>2, InTail DEF Submitted
<1>8. ASSUME NEW r \in Streaming \cap completion, NEW n \in Int, Follows(r, n)
      PROVE  Follows(r, n)'
  <2>1. r \in Requests /\ ~OfStream(m, r) /\ ~Is(m, "result", r)
    BY <1>5, Constants DEF OfStream, Is
  <2> QED
    BY <1>2, <1>4, <1>5, <1>6, <1>7, <1>8, <2>1, OtherFrameFollows
<1> QED
  BY <1>2, <1>8, QuietKeeps

LEMMA StreamHandleSubmit ==
  ASSUME ReplyInv, StreamInv, HandleSubmit
  PROVE  StreamInv'
<1>1. PICK s : s = Head(toWorker).request
  OBVIOUS
<1>2. /\ toWorker # << >> /\ toWorker \in Seq(Messages) /\ toWorker' = Tail(toWorker)
      /\ fromWorker \in Seq(Messages) /\ Head(toWorker).kind = "submit"
      /\ UNCHANGED <<completion, mailbox, pc, seen, answer, produced>>
  BY DEF HandleSubmit, slot, clients, ReplyInv, Types
<1>3. s \in Requests
  BY <1>1, <1>2, LookTail, MessageShape
<1>4. PICK admitted \in BOOLEAN :
        /\ stage' = IF admitted THEN [stage EXCEPT ![s] = "active"] ELSE stage
        /\ fromWorker' = fromWorker \o SubmitReply(s, admitted)
  BY <1>1 DEF HandleSubmit
<1>5. PICK m : m = IF admitted THEN Admitted(s) ELSE Reject(s, "admission")
  OBVIOUS
<1>6. /\ m \in Messages /\ m.request = s
      /\ m.kind = IF admitted THEN "admitted" ELSE "reject"
  BY <1>3, <1>5, FramesOfRequest, FrameFields
<1>7. fromWorker' = Append(fromWorker, m)
  <2>1. SubmitReply(s, admitted) = <<m>>
    BY <1>5 DEF SubmitReply
  <2>2. \A q \in Seq(Messages) : q \o <<m>> = Append(q, m)
    BY <1>6, AppendProperties
  <2> QED
    BY <1>2, <1>4, <2>1, <2>2
<1>8. /\ \A r : Submitted(r)' => Submitted(r)
      /\ Submitted(s) /\ ~Submitted(s)'
  <2>1. SubmitsFirst(toWorker)
    BY DEF ReplyInv, Over
  <2>2. ~In(Tail(toWorker), "submit", s)
    BY <1>1, <1>2, <2>1, FormsTail
  <2>3. Is(Head(toWorker), "submit", s)
    BY <1>1, <1>2 DEF Is
  <2> QED
    BY <1>2, <2>2, <2>3, InTail DEF Submitted
<1>9. ASSUME NEW r \in Streaming \cap completion, NEW n \in Int, Follows(r, n), r # s
      PROVE  Follows(r, n)'
  <2>1. r \in Requests /\ ~OfStream(m, r) /\ ~Is(m, "result", r)
    BY <1>6, <1>9, Constants DEF OfStream, Is
  <2>2. stage'[r] = stage[r]
    BY <1>4, <1>9, <2>1 DEF ReplyInv, Types
  <2> QED
    BY <1>2, <1>6, <1>7, <1>8, <1>9, <2>1, <2>2, OtherFrameFollows
<1>10. ASSUME NEW n \in Int, Follows(s, n) PROVE Follows(s, n)'
  <2>1. PICK q, a : q = fromWorker /\ a = fromWorker'
    OBVIOUS
  <2>2. /\ n = 0 - 1 /\ stage[s] = None /\ produced'[s] = 0
        /\ ~In(q, "admitted", s) /\ ~In(q, "delta", s)
    BY <1>2, <1>3, <1>8, <1>10, <2>1 DEF Follows, ReplyInv, Over
  <2>3. q \in Seq(Messages) /\ Len(q) \in Nat /\ a = Append(q, m)
    BY <1>2, <1>7, <2>1
  <2>4. Passed(q, Len(q), s) = 0
    <3>1. \A i \in 1 .. Len(q) : ~OfStream(q[i], s)
      BY <2>2 DEF OfStream, In
    <3> QED
      BY <2>3, <3>1, PassedNone
  <2>5. Placed(m, s) => Index(m) = n + Passed(q, Len(q), s)
    BY <1>6, <2>2, <2>4 DEF Placed, OfStream, Is, Index
  <2>6. Consecutive(a, s, n) /\ Passed(a, Len(a), s) = 0 + One(OfStream(m, s))
    BY <1>6, <1>10, <2>1, <2>3, <2>4, <2>5, ConsecutiveAppend DEF Follows
  <2>7. stage'[s] # None => One(OfStream(m, s)) = 1
    <3>1. stage'[s] # None => admitted
      BY <1>4, <2>2
    <3>2. admitted => OfStream(m, s)
      BY <1>6 DEF OfStream, Is
    <3> QED
      BY <3>1, <3>2 DEF One
  <2> QED
    BY <1>8, <2>1, <2>2, <2>6, <2>7 DEF Follows
<1>11. \A r \in Streaming \cap completion :
       \A n \in Int : Follows(r, n) => Follows(r, n)'
  BY <1>9, <1>10
<1> QED
  BY <1>2, <1>11, QuietKeeps

LEMMA StreamStepCancel ==
  ASSUME ReplyInv, StreamInv, StepCancel
  PROVE  StreamInv'
<1>1. PICK c \in Cancelling :
        /\ Reaped({c}, produced)
        /\ Report(<< >>, <<Result(c, "cancelled", produced[c])>>)
  BY DEF StepCancel
<1>2. PICK m : m = Result(c, "cancelled", produced[c])
  OBVIOUS
<1>3. /\ c \in Requests /\ stage[c] = "cancelling"
      /\ produced[c] \in Nat /\ produced[c] < Budget[c] /\ Budget[c] \in Nat
      /\ fromWorker \in Seq(Messages)
  BY Constants DEF Cancelling, ReplyInv, Types
<1>4. /\ m \in Messages /\ m.kind = "result" /\ m.request = c
      /\ Index(m) = produced[c]
  <2>1. produced[c] \in 0 .. Budget[c]
    BY <1>3
  <2> QED
    BY <1>2, <1>3, <2>1, FramesOfRequest, ResultFields DEF Index
<1>5. fromWorker' = Append(fromWorker, m)
  <2>1. fromWorker' = fromWorker \o << >> \o <<m>>
    BY <1>1, <1>2 DEF Report
  <2>2. \A q \in Seq(Messages) : q \o << >> \o <<m>> = Append(q, m)
    BY <1>4, AppendProperties
  <2> QED
    BY <1>3, <2>1, <2>2
<1>6. /\ UNCHANGED <<completion, mailbox, pc, seen, answer, toWorker>>
      /\ stage' = [r \in Requests |-> IF r = c THEN None ELSE stage[r]]
      /\ produced' = [r \in Requests |-> IF r = c THEN 0 ELSE produced[r]]
  BY <1>1 DEF StepCancel, Reaped, slot, clients
<1>7. ASSUME NEW r \in Streaming \cap completion, NEW n \in Int, Follows(r, n)
      PROVE  Follows(r, n)'
  <2>1. r \in Requests /\ ~OfStream(m, r)
    BY <1>4, Constants DEF OfStream, Is
  <2>2. Is(m, "result", r) => Index(m) = n + Passed(fromWorker, Len(fromWorker), r)
    BY <1>3, <1>4, <1>7, Constants DEF Is, Follows
  <2>3. stage'[r] # None => stage[r] # None /\ produced'[r] = produced[r]
    BY <1>6, <2>1
  <2>4. Submitted(r)' => Submitted(r)
    BY <1>6 DEF Submitted
  <2> QED
    BY <1>4, <1>5, <1>7, <2>1, <2>2, <2>3, <2>4, OtherFrameFollows
<1> QED
  BY <1>6, <1>7, QuietKeeps

LEMMA StreamCrash ==
  ASSUME ReplyInv, StreamInv, Crash
  PROVE  StreamInv'
<1>1. PICK k \in 0 .. Len(fromWorker) : fromWorker' = SubSeq(fromWorker, 1, k)
  BY DEF Crash
<1>2. /\ UNCHANGED <<completion, mailbox, pc, seen, answer>> /\ toWorker' = << >>
      /\ \A r \in Requests : stage'[r] = None
  BY DEF Crash, Reaped, slot, clients
<1>3. ASSUME NEW r \in Streaming \cap completion, NEW n \in Int, Follows(r, n)
      PROVE  Follows(r, n)'
  <2>1. fromWorker \in Seq(Messages) /\ Consecutive(fromWorker, r, n) /\ r \in Requests
    BY <1>3, Constants DEF Follows, ReplyInv, Types
  <2>2. Consecutive(fromWorker', r, n)
    BY <1>1, <2>1, ConsecutivePrefix
  <2>3. ~Submitted(r)'
    BY <1>2, EmptyQueue DEF Submitted
  <2> QED
    BY <1>2, <2>1, <2>2, <2>3 DEF Follows
<1> QED
  BY <1>2, <1>3, QuietKeeps

(* A batch sends at most one token of a request, and its result behind it. *)
LEMMA StreamStepBatch ==
  ASSUME ReplyInv, StreamInv, StepBatch
  PROVE  StreamInv'
<1> USE Constants
<1>1. PICK rows, failing, ended, row, fin : BatchOf(rows, failing, ended, row, fin)
  BY BatchFrames DEF ReplyInv
<1>2. PICK all, k, h, l, v, w :
        /\ all = ended \cup failing /\ k = Cardinality(rows) /\ h = Cardinality(all)
        /\ l = Len(fromWorker) /\ v = fromWorker /\ w = fromWorker'
  OBVIOUS
<1>3. /\ k \in Nat /\ h \in Nat /\ l \in Nat /\ Len(v) = l /\ Len(w) = l + k + h
      /\ v \in Seq(Messages) /\ w \in Seq(Messages)
      /\ \A i \in 1 .. l : w[i] = v[i]
  <2>1. v \in Seq(Messages) /\ l \in Nat /\ Len(v) = l
    BY <1>2 DEF ReplyInv, Types
  <2> QED
    BY <1>1, <1>2, <2>1 DEF BatchOf
<1>4. /\ \A i \in 1 .. k : row[i] \in rows
      /\ \A i, j \in 1 .. k : row[i] = row[j] => i = j
      /\ \A r \in rows : \E i \in 1 .. k : row[i] = r
      /\ \A i \in 1 .. h : fin[i] \in all
  BY <1>1, <1>2 DEF BatchOf, Listing
<1>5. \A i \in 1 .. k : w[l + i] = Delta(row[i], produced[row[i]])
  BY <1>1, <1>2 DEF BatchOf
<1>6. \A i \in 1 .. h : \E f : w[l + k + i] = Result(fin[i], f, Tokens(rows, fin[i]))
  BY <1>1, <1>2 DEF BatchOf
<1>7. \A i \in 1 .. k : /\ w[l + i].kind = "delta" /\ w[l + i].request = row[i]
                        /\ w[l + i].value = produced[row[i]]
  BY <1>5, FrameFields
<1>8. \A i \in 1 .. h : /\ w[l + k + i].kind = "result" /\ w[l + k + i].request = fin[i]
                        /\ w[l + k + i].value.tokens = Tokens(rows, fin[i])
  BY <1>6, ResultFields
<1>9. \A i \in 1 .. Len(w) : \/ i \in 1 .. l
                             \/ i - l \in 1 .. k /\ i = l + (i - l)
                             \/ i - l - k \in 1 .. h /\ i = l + k + (i - l - k)
  BY <1>3
<1>10. /\ rows \subseteq Requests /\ all \subseteq Requests
       /\ \A r \in rows \cup all : stage[r] = "active"
       /\ stage' = [r \in Requests |-> IF r \in all THEN None ELSE stage[r]]
       /\ produced' = [r \in Requests |-> IF r \in all THEN 0 ELSE Tokens(rows, r)]
  BY <1>1, <1>2 DEF BatchOf, Active
<1>11. UNCHANGED <<completion, mailbox, pc, seen, answer, toWorker>>
  BY DEF StepBatch, slot, clients
<1>12. ASSUME NEW r \in Streaming \cap completion, NEW n \in Int, Follows(r, n)
       PROVE  Follows(r, n)'
  <2>1. r \in Requests /\ produced[r] \in Nat /\ Consecutive(v, r, n)
    BY <1>2, <1>12 DEF Follows, ReplyInv, Types
  <2>2. PICK x : x = Passed(v, l, r)
    OBVIOUS
  <2>3. x \in Nat /\ (stage[r] # None => produced[r] = n + x)
    BY <1>2, <1>3, <1>12, <2>2, PassedFinite DEF Follows
  <2>4. ASSUME NEW j \in 0 .. l PROVE Passed(w, j, r) = Passed(v, j, r)
    <3>1. j \in Nat /\ \A i \in 1 .. j : w[i] = v[i]
      BY <1>3
    <3> QED
      BY <3>1, PassedSame
  <2>5. ASSUME NEW j \in 1 .. k
        PROVE  OfStream(w[l + j], r) <=> row[j] = r
    BY <1>7 DEF OfStream, Is
  <2>6. ASSUME NEW j \in 1 .. h PROVE ~OfStream(w[l + k + j], r)
    BY <1>8 DEF OfStream, Is
  <2>7. ASSUME NEW j \in 0 .. k + h, \A i \in 1 .. j : i \in 1 .. k => row[i] # r
        PROVE  Passed(w, l + j, r) = x
    <3>1. {i \in 1 .. l + j : OfStream(w[i], r)} = {i \in 1 .. l : OfStream(v[i], r)}
      <4>1. ASSUME NEW i \in 1 .. l + j, OfStream(w[i], r) PROVE i \in 1 .. l
        <5>1. i \in 1 .. Len(w)
          BY <1>3
        <5>2. CASE i - l \in 1 .. k /\ i = l + (i - l)
          <6>1. i - l \in 1 .. j
            BY <1>3, <5>2
          <6>2. row[i - l] # r
            BY <2>7, <5>2, <6>1
          <6> QED
            BY <2>5, <4>1, <5>2, <6>2
        <5>3. CASE i - l - k \in 1 .. h /\ i = l + k + (i - l - k)
          BY <2>6, <4>1, <5>3
        <5> QED
          BY <1>9, <5>1, <5>2, <5>3
      <4>2. \A i \in 1 .. l : i \in 1 .. l + j
        BY <1>3
      <4> QED
        BY <1>3, <4>1, <4>2
    <3> QED
      BY <2>2, <3>1 DEF Passed
  <2>8. ASSUME NEW p \in 1 .. k, row[p] = r, NEW j \in p .. k + h
        PROVE  Passed(w, l + j, r) = x + 1
    <3>1. PICK S : S = {i \in 1 .. l : OfStream(v[i], r)}
      OBVIOUS
    <3>2. IsFiniteSet(S) /\ Cardinality(S) = x
      <4>1. IsFiniteSet(1 .. l) /\ S \subseteq 1 .. l
        BY <1>3, <3>1, FS_Interval
      <4>2. IsFiniteSet(S)
        BY <4>1, FS_Subset
      <4> QED
        BY <2>2, <3>1, <4>2 DEF Passed
    <3>3. {i \in 1 .. l + j : OfStream(w[i], r)} = S \cup {l + p}
      <4>1. ASSUME NEW i \in 1 .. l + j, OfStream(w[i], r) PROVE i \in S \/ i = l + p
        <5>1. i \in 1 .. Len(w)
          BY <1>3
        <5>2. CASE i \in 1 .. l
          BY <1>3, <3>1, <4>1, <5>2
        <5>3. CASE i - l \in 1 .. k /\ i = l + (i - l)
          <6>1. row[i - l] = r
            BY <2>5, <4>1, <5>3
          <6>2. i - l = p
            BY <1>4, <2>8, <5>3, <6>1
          <6> QED
            BY <5>3, <6>2
        <5>4. CASE i - l - k \in 1 .. h /\ i = l + k + (i - l - k)
          BY <2>6, <4>1, <5>4
        <5> QED
          BY <1>9, <5>1, <5>2, <5>3, <5>4
      <4>2. ASSUME NEW i \in S PROVE i \in 1 .. l + j /\ OfStream(w[i], r)
        <5>1. i \in 1 .. l
          BY <3>1
        <5>2. i \in 1 .. l + j
          BY <1>3, <5>1
        <5> QED
          BY <1>3, <3>1, <5>1, <5>2
      <4>3. l + p \in 1 .. l + j /\ OfStream(w[l + p], r)
        <5>1. l + p \in 1 .. l + j
          BY <1>3
        <5> QED
          BY <2>5, <2>8, <5>1
      <4> QED
        BY <4>1, <4>2, <4>3
    <3>4. l + p \notin S
      BY <1>3, <3>1
    <3>5. Cardinality(S \cup {l + p}) = x + 1
      BY <3>2, <3>4, FS_AddElement
    <3> QED
      BY <3>3, <3>5 DEF Passed
  <2>9. ASSUME NEW i \in 1 .. Len(w), Placed(w[i], r)
        PROVE  Index(w[i]) = n + Passed(w, i - 1, r)
    <3>1. CASE i \in 1 .. l
      <4>1. i - 1 \in 0 .. l
        BY <1>3, <3>1
      <4>2. Index(v[i]) = n + Passed(v, i - 1, r)
        BY <1>3, <2>1, <2>9, <3>1 DEF Consecutive
      <4> QED
        BY <1>3, <2>4, <3>1, <4>1, <4>2
    <3>2. CASE i - l \in 1 .. k /\ i = l + (i - l)
      <4>1. PICK p \in 1 .. k : p = i - l /\ i = l + p
        BY <3>2
      <4>2. row[p] = r /\ Index(w[i]) = produced[r]
        BY <1>7, <2>9, <4>1 DEF Placed, OfStream, Is, Index
      <4>3. p - 1 \in 0 .. k + h /\ i - 1 = l + (p - 1)
        BY <1>3, <4>1
      <4>4. \A j \in 1 .. p - 1 : j \in 1 .. k => row[j] # r
        <5> SUFFICES ASSUME NEW j \in 1 .. p - 1, j \in 1 .. k, row[j] = r PROVE FALSE
          OBVIOUS
        <5>1. j = p
          BY <1>4, <4>2
        <5> QED
          BY <5>1
      <4>5. Passed(w, l + (p - 1), r) = x
        BY <2>7, <4>3, <4>4
      <4>6. stage[r] # None
        BY <1>4, <1>10, <4>2
      <4> QED
        BY <2>3, <4>2, <4>3, <4>5, <4>6
    <3>3. CASE i - l - k \in 1 .. h /\ i = l + k + (i - l - k)
      <4>1. PICK g \in 1 .. h : g = i - l - k /\ i = l + k + g
        BY <3>3
      <4>2. fin[g] = r /\ Index(w[i]) = Tokens(rows, r)
        BY <1>8, <2>9, <4>1 DEF Placed, OfStream, Is, Index
      <4>3. stage[r] # None
        BY <1>4, <1>10, <4>2
      <4>4. k + (g - 1) \in 0 .. k + h /\ i - 1 = l + (k + (g - 1))
        BY <1>3, <4>1
      <4>5. CASE r \in rows
        <5>1. PICK p \in 1 .. k : row[p] = r
          BY <1>4, <4>5
        <5>2. k + (g - 1) \in p .. k + h
          BY <1>3
        <5>3. Passed(w, i - 1, r) = x + 1
          BY <2>8, <4>4, <5>1, <5>2
        <5> QED
          BY <2>1, <2>3, <4>2, <4>3, <4>5, <5>3 DEF Tokens
      <4>6. CASE r \notin rows
        <5>1. \A j \in 1 .. k : row[j] # r
          BY <1>4, <4>6
        <5>2. Passed(w, i - 1, r) = x
          BY <2>7, <4>4, <5>1
        <5> QED
          BY <2>1, <2>3, <4>2, <4>3, <4>6, <5>2 DEF Tokens
      <4> QED
        BY <4>5, <4>6
    <3> QED
      BY <1>9, <3>1, <3>2, <3>3
  <2>10. ASSUME stage'[r] # None PROVE produced'[r] = n + Passed(w, Len(w), r)
    <3>1. stage[r] # None /\ produced'[r] = Tokens(rows, r)
      BY <1>10, <2>1, <2>10
    <3>2. k + h \in 0 .. k + h /\ Len(w) = l + (k + h)
      BY <1>3
    <3>3. CASE r \in rows
      <4>1. PICK p \in 1 .. k : row[p] = r
        BY <1>4, <3>3
      <4>2. k + h \in p .. k + h
        BY <1>3
      <4>3. Passed(w, Len(w), r) = x + 1
        BY <2>8, <3>2, <4>1, <4>2
      <4> QED
        BY <2>1, <2>3, <3>1, <3>3, <4>3 DEF Tokens
    <3>4. CASE r \notin rows
      <4>1. \A j \in 1 .. k : row[j] # r
        BY <1>4, <3>4
      <4>2. Passed(w, Len(w), r) = x
        BY <2>7, <3>2, <4>1
      <4> QED
        BY <2>1, <2>3, <3>1, <3>4, <4>2 DEF Tokens
    <3> QED
      BY <3>3, <3>4
  <2>11. Consecutive(w, r, n)
    BY <2>9 DEF Consecutive
  <2>12. Submitted(r)' => n = 0 - 1
    BY <1>11, <1>12 DEF Submitted, Follows
  <2> QED
    BY <1>2, <2>10, <2>11, <2>12 DEF Follows
<1> QED
  BY <1>11, <1>12, QuietKeeps

-----------------------------------------------------------------------------
(* The steps of the threads.                                               *)

LEMMA StreamSubmit ==
  ASSUME ReplyInv, StreamInv, NEW r \in Requests, Submit(r)
  PROVE  StreamInv'
<1>1. /\ pc[r] = "idle" /\ toWorker' = Append(toWorker, SubmitFrame(r))
      /\ pc' = [pc EXCEPT ![r] = IF r \in Streaming THEN "admit" ELSE "await"]
      /\ completion' = completion \cup {r}
      /\ UNCHANGED <<fromWorker, stage, produced, mailbox, seen, answer>>
  BY DEF Submit, worker
<1>2. /\ mailbox[r] = << >> /\ stage[r] = None
      /\ ~In(fromWorker, "admitted", r) /\ ~In(fromWorker, "delta", r)
      /\ ~In(fromWorker, "result", r) /\ fromWorker \in Seq(Messages)
      /\ toWorker \in Seq(Messages)
  BY <1>1 DEF ReplyInv, Types, Holdings, Waiting, Forgotten
<1>3. ASSUME NEW s \in Streaming, s # r PROVE Unbroken(s)'
  <2>1. Unbroken(s) /\ Rests(s)
    BY <1>1, <1>3, Constants DEF StreamInv, Rests, ReplyInv, Types
  <2>2. s \in completion' => s \in completion
    BY <1>1, <1>3
  <2>3. Submitted(s)' => Submitted(s)
    <3>1. SubmitFrame(r) \in Messages /\ ~Is(SubmitFrame(r), "submit", s)
      BY <1>3, FramesOfRequest, FrameFields DEF Is
    <3> QED
      BY <1>1, <1>2, <3>1, InAppend DEF Submitted
  <2>4. \A n \in Int : Follows(s, n) => Follows(s, n)'
    BY <1>1, <2>3 DEF Follows
  <2> QED
    BY <2>1, <2>2, <2>4, RestKeeps
<1>4. ASSUME r \in Streaming PROVE Unbroken(r)'
  <2>1. pc'[r] = "admit" /\ mailbox'[r] = << >>
    BY <1>1, <1>2, <1>4 DEF ReplyInv, Types
  <2>2. FirstIndex(r)' = 0 - 1 /\ NextIndex(r)' = 0 - 1
    BY <2>1, EmptyQueue DEF FirstIndex, NextIndex
  <2>3. MailboxOf(r)'
    BY <2>1, EmptyQueue DEF MailboxOf
  <2>4. Follows(r, NextIndex(r))'
    <3>1. \A i \in 1 .. Len(fromWorker) : ~Placed(fromWorker[i], r)
      BY <1>2 DEF Placed, OfStream, In
    <3>2. \A n : Consecutive(fromWorker, r, n)
      BY <3>1 DEF Consecutive
    <3> QED
      BY <1>1, <1>2, <2>2, <3>2 DEF Follows
  <2> QED
    BY <2>1, <2>3, <2>4 DEF Unbroken
<1>5. StreamNeverContradicts'
  BY <1>1 DEF StreamInv, StreamNeverContradicts
<1> QED
  BY <1>3, <1>4, <1>5 DEF StreamInv

LEMMA StreamLeaves ==
  ASSUME ReplyInv, StreamInv, NEW r \in Requests, NEW a \in Answers \ {"protocol"},
         Leaves(r, a)
  PROVE  StreamInv'
<1>1. /\ completion' = completion \ {r}
      /\ pc' = [pc EXCEPT ![r] = "done"] /\ answer' = [answer EXCEPT ![r] = a]
      /\ mailbox' = [mailbox EXCEPT ![r] = << >>] /\ seen' = [seen EXCEPT ![r] = 0]
      /\ UNCHANGED <<fromWorker, stage, produced>>
  BY DEF Leaves, Answer, worker
<1>2. toWorker' = toWorker \/ toWorker' = Append(toWorker, CancelFrame(r))
  BY DEF Leaves
<1>3. toWorker \in Seq(Messages)
  BY DEF ReplyInv, Types
<1>4. \A s : Submitted(s)' => Submitted(s)
  <2>1. CancelFrame(r) \in Messages /\ CancelFrame(r).kind = "cancel"
    BY FramesOfRequest, FrameFields
  <2>2. \A s : ~Is(CancelFrame(r), "submit", s)
    BY <2>1 DEF Is
  <2> QED
    BY <1>2, <1>3, <2>1, <2>2, InAppend DEF Submitted
<1>5. ASSUME NEW s \in Streaming, s # r PROVE Unbroken(s)'
  <2>1. Unbroken(s) /\ Rests(s)
    BY <1>1, <1>5, Constants DEF StreamInv, Rests, ReplyInv, Types
  <2>2. s \in completion' => s \in completion
    BY <1>1
  <2>3. \A n \in Int : Follows(s, n) => Follows(s, n)'
    BY <1>1, <1>4 DEF Follows
  <2> QED
    BY <2>1, <2>2, <2>3, RestKeeps
<1>6. ASSUME r \in Streaming PROVE Unbroken(r)'
  <2>1. pc'[r] = "done" /\ mailbox'[r] = << >> /\ r \notin completion'
    BY <1>1 DEF ReplyInv, Types
  <2> QED
    BY <2>1, EmptyQueue DEF Unbroken, MailboxOf
<1>7. StreamNeverContradicts'
  BY <1>1 DEF StreamInv, StreamNeverContradicts, ReplyInv, Types
<1> QED
  BY <1>5, <1>6, <1>7 DEF StreamInv

(* What a stream finds at the head of its channel is what it expects.      *)
LEMMA HeadOfStream ==
  ASSUME ReplyInv, StreamInv, NEW r \in Streaming, mailbox[r] # << >>,
         Placed(Head(mailbox[r]), r)
  PROVE  Index(Head(mailbox[r])) = FirstIndex(r)
<1>1. PICK q : q = mailbox[r]
  OBVIOUS
<1>2. r \in Requests /\ FirstIndex(r) \in Int /\ q \in Seq(Messages) /\ q # << >>
  BY <1>1, Constants, Places DEF ReplyInv, Types
<1>3. Head(q) = q[1] /\ 1 \in 1 .. Len(q)
  <2>1. Len(q) \in Nat \ {0}
    BY <1>2, LookTail
  <2> QED
    BY <1>2, <2>1, LookTail
<1>4. Index(q[1]) = FirstIndex(r) + 1 - 1
  BY <1>1, <1>3 DEF StreamInv, Unbroken, MailboxOf
<1> QED
  BY <1>1, <1>2, <1>3, <1>4

LEMMA StreamReceiveTerminal ==
  ASSUME ReplyInv, StreamInv, NEW r \in Requests, ReceiveTerminal(r)
  PROVE  StreamInv'
<1>1. PICK q, m, a : q = mailbox[r] /\ m = Head(q) /\ a = AnswerOf(r, m)
  OBVIOUS
<1>2. Leaves(r, a) /\ a \in Answers
  BY <1>1, ReceiveTerminalLeaves
<1>3. /\ q \in Seq(Messages) /\ q # << >> /\ m \in Messages /\ m.request = r
      /\ m.kind \in {"result", "reject", "lost"} /\ Waiting(r)
  <2>1. q \in Seq(Messages) /\ q # << >> /\ Terminal(m) /\ Waiting(r)
    BY <1>1 DEF ReceiveTerminal, ReplyInv, Types, Waiting
  <2>2. OnlyAbout(q, r)
    BY <1>1 DEF ReplyInv, Kinds
  <2> QED
    BY <1>1, <2>1, <2>2, LookTail, FormsTail DEF Terminal
<1>4. ASSUME m.kind = "result" PROVE ~Mismatch(r, m)
  <2>1. pc[r] \in {"admit", "pump"} => m.value.tokens = FirstIndex(r)
    <3> SUFFICES ASSUME pc[r] \in {"admit", "pump"} PROVE m.value.tokens = FirstIndex(r)
      OBVIOUS
    <3>1. r \in Streaming
      BY DEF ReplyInv, Holdings
    <3>2. Placed(m, r) /\ Index(m) = m.value.tokens
      BY <1>3, <1>4 DEF Placed, Is, Index
    <3> QED
      BY <1>1, <1>3, <3>1, <3>2, HeadOfStream
  <2>2. m.value.tokens \in Nat
    BY <1>3, <1>4, MessageShape, Constants
  <2>3. pc[r] = "admit" => FALSE
    BY <2>1, <2>2 DEF FirstIndex
  <2>4. pc[r] = "pump" => m.value.tokens = seen[r]
    BY <2>1 DEF FirstIndex
  <2> QED
    BY <2>3, <2>4 DEF Mismatch
<1>5. a # "protocol"
  <2>1. m.kind = "lost" => a = "lost"
    BY <1>1 DEF AnswerOf
  <2>2. m.kind = "reject" => a = m.value
    BY <1>1 DEF AnswerOf
  <2>3. m.kind = "result" => a = m.value.finish
    BY <1>1, <1>4 DEF AnswerOf
  <2> QED
    BY <1>3, <2>1, <2>2, <2>3, MessageShape
<1> QED
  BY <1>2, <1>5, StreamLeaves

LEMMA StreamReceiveProgress ==
  ASSUME ReplyInv, StreamInv, NEW r \in Requests, ReceiveProgress(r)
  PROVE  StreamInv'
<1>1. PICK q, m : q = mailbox[r] /\ m = Head(q)
  OBVIOUS
<1>2. /\ q \in Seq(Messages) /\ q # << >> /\ m \in Messages
      /\ m.kind \in {"admitted", "delta"} /\ m.request = r /\ Waiting(r)
  <2>1. q \in Seq(Messages) /\ q # << >> /\ ~Terminal(m) /\ Waiting(r)
    BY <1>1 DEF ReceiveProgress, ReplyInv, Types, Waiting
  <2>2. OnlyAbout(q, r) /\ AllOf(q, Events)
    BY <1>1 DEF ReplyInv, Kinds
  <2> QED
    BY <1>1, <2>1, <2>2, LookTail, FormsTail DEF Terminal, Events
<1>3. pc[r] \in {"admit", "pump"} => r \in Streaming
  BY DEF ReplyInv, Holdings
<1>4. r \in Streaming => Index(m) = FirstIndex(r)
  BY <1>1, <1>2, HeadOfStream DEF Placed, OfStream, Is
<1>5. m.kind = "delta" => Index(m) = m.value /\ m.value \in Nat
  BY <1>2, MessageShape, Constants DEF Index
<1>6. m.kind = "admitted" => Index(m) = 0 - 1
  BY DEF Index
<1>7. seen[r] \in Nat
  BY DEF ReplyInv, Types
<1>8. Expected(r, m)
  <2>1. CASE pc[r] = "admit"
    <3>1. Index(m) = 0 - 1
      BY <1>3, <1>4, <2>1 DEF FirstIndex
    <3>2. m.kind = "admitted"
      BY <1>2, <1>5, <3>1
    <3> QED
      BY <2>1, <3>2 DEF Expected
  <2>2. CASE pc[r] = "pump"
    <3>1. Index(m) = seen[r]
      BY <1>3, <1>4, <2>2 DEF FirstIndex
    <3>2. m.kind = "delta" /\ m.value = seen[r]
      BY <1>2, <1>5, <1>6, <1>7, <3>1
    <3> QED
      BY <2>2, <3>2 DEF Expected
  <2>3. CASE pc[r] \notin {"admit", "pump"}
    BY <2>3 DEF Expected
  <2> QED
    BY <2>1, <2>2, <2>3
<1>9. /\ mailbox' = [mailbox EXCEPT ![r] = Tail(@)]
      /\ seen' = IF pc[r] = "pump" THEN [seen EXCEPT ![r] = @ + 1] ELSE seen
      /\ pc' = [pc EXCEPT ![r] = IF @ = "admit" THEN "pump" ELSE @]
      /\ UNCHANGED <<completion, toWorker, fromWorker, stage, produced, answer>>
  BY <1>1, <1>8 DEF ReceiveProgress, worker
<1>10. ASSUME NEW s \in Streaming, s # r PROVE Unbroken(s)'
  <2>1. Unbroken(s) /\ Rests(s)
    BY <1>9, <1>10, Constants DEF StreamInv, Rests, ReplyInv, Types
  <2>2. \A n \in Int : Follows(s, n) => Follows(s, n)'
    BY <1>9 DEF Follows, Submitted
  <2> QED
    BY <1>9, <2>1, <2>2, RestKeeps
<1>11. ASSUME r \in Streaming PROVE Unbroken(r)'
  <2>1. PICK f, t : f = FirstIndex(r) /\ t = Tail(q)
    OBVIOUS
  <2>2. /\ f \in Int /\ mailbox'[r] = t /\ Len(q) \in Nat /\ Len(t) = Len(q) - 1
        /\ \A i \in 1 .. Len(t) : t[i] = q[i + 1] /\ i + 1 \in 1 .. Len(q)
    <3>1. Len(q) \in Nat \ {0} /\ Len(t) = Len(q) - 1
      BY <1>2, <2>1, LookTail
    <3>2. mailbox'[r] = t
      BY <1>1, <1>9, <2>1 DEF ReplyInv, Types
    <3> QED
      BY <1>2, <2>1, <3>1, <3>2, LookTail, Places
  <2>3. FirstIndex(r)' = f + 1 /\ pc'[r] = "pump"
    <3>1. pc[r] \in {"admit", "pump"}
      BY <1>2, <1>11 DEF StreamInv, Unbroken, Waiting
    <3>2. pc'[r] = "pump"
      BY <1>9, <3>1 DEF ReplyInv, Types
    <3>3. CASE pc[r] = "admit"
      <4>1. seen'[r] = 0
        BY <1>9, <3>3 DEF ReplyInv, Holdings
      <4> QED
        BY <2>1, <3>2, <3>3, <4>1 DEF FirstIndex
    <3>4. CASE pc[r] = "pump"
      <4>1. seen'[r] = seen[r] + 1
        BY <1>9, <3>4 DEF ReplyInv, Types
      <4> QED
        BY <2>1, <3>2, <3>4, <4>1 DEF FirstIndex
    <3> QED
      BY <3>1, <3>2, <3>3, <3>4
  <2>4. MailboxOf(r) /\ (r \in completion => Follows(r, NextIndex(r)))
    BY <1>11 DEF StreamInv, Unbroken
  <2>5. MailboxOf(r)'
    <3>1. ASSUME NEW i \in 1 .. Len(t), Placed(t[i], r) PROVE Index(t[i]) = (f + 1) + i - 1
      <4>1. Index(q[i + 1]) = f + (i + 1) - 1
        BY <1>1, <2>1, <2>2, <2>4, <3>1 DEF MailboxOf
      <4> QED
        BY <2>2, <4>1
    <3> QED
      BY <2>2, <2>3, <3>1 DEF MailboxOf
  <2>6. NextIndex(r)' = NextIndex(r)
    <3>1. NextIndex(r) = f + Len(q) /\ NextIndex(r)' = (f + 1) + Len(t)
      BY <1>1, <2>1, <2>2, <2>3 DEF NextIndex
    <3> QED
      BY <2>2, <3>1
  <2>7. r \in completion' => Follows(r, NextIndex(r))'
    BY <1>9, <2>4, <2>6 DEF Follows, Submitted
  <2> QED
    BY <2>3, <2>5, <2>7 DEF Unbroken
<1>12. StreamNeverContradicts'
  BY <1>9 DEF StreamInv, StreamNeverContradicts
<1> QED
  BY <1>10, <1>11, <1>12 DEF StreamInv

-----------------------------------------------------------------------------
(* The steps of the reader.                                                *)

LEMMA StreamTakes ==
  ASSUME ReplyInv, StreamInv, NEW m, Takes(m), m.kind \notin {"admitted", "delta"},
         UNCHANGED <<completion, mailbox, pc, seen, answer, toWorker, stage, produced>>
  PROVE  StreamInv'
<1>1. ASSUME NEW r \in Streaming \cap completion, NEW n \in Int, Follows(r, n)
      PROVE  Follows(r, n)'
  <2>1. r \in Requests /\ ~OfStream(m, r)
    BY Constants DEF OfStream, Is
  <2> QED
    BY <1>1, <2>1, TakenFollows
<1> QED
  BY <1>1, QuietKeeps

LEMMA StreamDispatchProgress ==
  ASSUME ReplyInv, StreamInv, DispatchProgress
  PROVE  StreamInv'
<1>1. PICK m : m = Head(fromWorker)
  OBVIOUS
<1>2. /\ Takes(m) /\ m.kind \in {"admitted", "delta"}
      /\ IF m.request \in completion THEN Post(m.request, m) ELSE UNCHANGED mailbox
      /\ UNCHANGED <<completion, toWorker, stage, produced, pc, seen, answer>>
  BY <1>1 DEF DispatchProgress, Takes, slot, worker
<1>3. m \in Messages /\ m.request \in Requests
  BY <1>2, TakesFrame DEF ReplyInv
<1>4. ASSUME NEW r \in Streaming PROVE Unbroken(r)'
  <2>1. r \in Requests /\ Unbroken(r)
    BY Constants DEF StreamInv
  <2>2. CASE m.request = r /\ r \in completion
    <3>1. mailbox'[r] = Append(mailbox[r], m) /\ pc'[r] = pc[r] /\ seen'[r] = seen[r]
      BY <1>2, <2>1, <2>2 DEF Post, ReplyInv, Types
    <3>2. PICK n : n = NextIndex(r)
      OBVIOUS
    <3>3. n \in Int /\ Follows(r, n) /\ MailboxOf(r)
      BY <2>1, <2>2, <3>2, Places DEF Unbroken
    <3>4. OfStream(m, r)
      BY <1>2, <2>2 DEF OfStream, Is
    <3>5. Placed(m, r) => Index(m) = n
      BY <1>2, <2>1, <3>3, TakenFollows
    <3>6. Follows(r, n + 1)'
      BY <1>2, <2>1, <3>3, <3>4, TakenFollows
    <3>7. MailboxOf(r)' /\ NextIndex(r)' = NextIndex(r) + 1
      BY <1>3, <2>1, <3>1, <3>2, <3>3, <3>5, PostedFollows
    <3>8. Follows(r, NextIndex(r))'
      BY <3>2, <3>6, <3>7 DEF Follows
    <3> QED
      BY <2>1, <3>1, <3>7, <3>8 DEF Unbroken
  <2>3. CASE ~(m.request = r /\ r \in completion)
    <3>1. Rests(r)
      BY <1>2, <2>1, <2>3 DEF Rests, Post, ReplyInv, Types
    <3>2. r \in completion => ~OfStream(m, r)
      BY <2>3 DEF OfStream, Is
    <3>3. r \in completion => \A n \in Int : Follows(r, n) => Follows(r, n)'
      BY <1>2, <2>1, <3>2, TakenFollows
    <3> QED
      BY <1>2, <2>1, <3>1, <3>3, RestKeeps
  <2> QED
    BY <2>2, <2>3
<1>5. StreamNeverContradicts'
  BY <1>2 DEF StreamInv, StreamNeverContradicts
<1> QED
  BY <1>4, <1>5 DEF StreamInv

LEMMA StreamFinish ==
  ASSUME ReplyInv, StreamInv, NEW m, Takes(m), m.kind \in {"result", "reject"},
         Finish(m.request, m),
         UNCHANGED <<toWorker, stage, produced, pc, seen, answer>>
  PROVE  StreamInv'
<1>1. m \in Messages /\ m.request \in Requests
  BY TakesFrame DEF ReplyInv
<1>2. CASE m.request \notin completion
  <2>1. UNCHANGED <<completion, mailbox>>
    BY <1>2 DEF Finish
  <2> QED
    BY <2>1, StreamTakes
<1>3. CASE m.request \in completion
  <2>1. Post(m.request, m) /\ completion' = completion \ {m.request}
    BY <1>3 DEF Finish
  <2>2. ASSUME NEW r \in Streaming PROVE Unbroken(r)'
    <3>1. r \in Requests /\ Unbroken(r)
      BY Constants DEF StreamInv
    <3>2. CASE m.request = r
      <4>1. mailbox'[r] = Append(mailbox[r], m) /\ pc'[r] = pc[r] /\ seen'[r] = seen[r]
        BY <2>1, <3>1, <3>2 DEF Post, ReplyInv, Types
      <4>2. PICK n : n = NextIndex(r)
        OBVIOUS
      <4>3. n \in Int /\ Follows(r, n) /\ MailboxOf(r)
        BY <1>3, <3>1, <3>2, <4>2, Places DEF Unbroken
      <4>4. Placed(m, r) => Index(m) = n
        BY <3>1, <4>3, TakenFollows
      <4>5. MailboxOf(r)'
        BY <1>1, <3>1, <4>1, <4>2, <4>3, <4>4, PostedFollows
      <4> QED
        BY <2>1, <3>1, <3>2, <4>1, <4>5 DEF Unbroken
    <3>3. CASE m.request # r
      <4>1. Rests(r)
        BY <2>1, <3>1, <3>3 DEF Rests, Post, ReplyInv, Types
      <4>2. ~OfStream(m, r)
        BY <3>3 DEF OfStream, Is
      <4>3. \A n \in Int : Follows(r, n) => Follows(r, n)'
        BY <3>1, <4>2, TakenFollows
      <4> QED
        BY <2>1, <3>1, <4>1, <4>3, RestKeeps
    <3> QED
      BY <3>2, <3>3
  <2>3. StreamNeverContradicts'
    BY DEF StreamInv, StreamNeverContradicts
  <2> QED
    BY <2>2, <2>3 DEF StreamInv
<1> QED
  BY <1>2, <1>3

LEMMA StreamDispatch ==
  ASSUME ReplyInv, StreamInv, DispatchResult \/ DispatchReject \/ DispatchAck
  PROVE  StreamInv'
<1>1. PICK m : m = Head(fromWorker)
  OBVIOUS
<1>2. /\ Takes(m) /\ m.kind \in {"result", "reject", "ack"}
      /\ UNCHANGED <<toWorker, stage, produced, pc, seen, answer>>
  BY <1>1 DEF DispatchResult, DispatchReject, DispatchAck, Takes, worker, clients
<1>3. \/ m.kind \in {"result", "reject"} /\ Finish(m.request, m)
      \/ UNCHANGED <<completion, mailbox>>
  BY <1>1 DEF DispatchResult, DispatchReject, DispatchAck, clients
<1> QED
  BY <1>2, <1>3, StreamFinish, StreamTakes

LEMMA StreamMarkLost ==
  ASSUME ReplyInv, StreamInv, MarkLost
  PROVE  StreamInv'
<1>1. /\ completion' = {}
      /\ mailbox' = [r \in Requests |->
           IF r \in completion THEN Append(mailbox[r], Lost(r)) ELSE mailbox[r]]
      /\ UNCHANGED <<pc, seen, answer>>
  BY DEF MarkLost
<1>2. ASSUME NEW r \in Streaming PROVE Unbroken(r)'
  <2>1. r \in Requests /\ Unbroken(r)
    BY Constants DEF StreamInv
  <2>2. MailboxOf(r)'
    <3>1. CASE r \in completion
      <4>1. mailbox'[r] = Append(mailbox[r], Lost(r)) /\ pc'[r] = pc[r] /\ seen'[r] = seen[r]
        BY <1>1, <2>1, <3>1
      <4>2. Lost(r) \in Messages /\ Lost(r).kind = "lost"
        BY <2>1, FramesOfRequest, FrameFields
      <4>3. ~Placed(Lost(r), r)
        BY <4>2 DEF Placed, OfStream, Is
      <4> QED
        BY <2>1, <4>1, <4>2, <4>3, PostedFollows DEF Unbroken
    <3>2. CASE r \notin completion
      <4>1. mailbox'[r] = mailbox[r] /\ pc'[r] = pc[r] /\ seen'[r] = seen[r]
        BY <1>1, <2>1, <3>2
      <4> QED
        BY <2>1, <4>1 DEF Unbroken, MailboxOf, FirstIndex
    <3> QED
      BY <3>1, <3>2
  <2> QED
    BY <1>1, <2>1, <2>2 DEF Unbroken
<1>3. StreamNeverContradicts'
  BY <1>1 DEF StreamInv, StreamNeverContradicts
<1> QED
  BY <1>2, <1>3 DEF StreamInv

(* Steps that no stream can tell from none.                                *)
LEMMA StreamStands ==
  ASSUME ReplyInv, StreamInv,
         UNCHANGED <<completion, mailbox, pc, seen, answer, fromWorker, stage, produced>>,
         \A r \in Requests : Submitted(r)' => Submitted(r)
  PROVE  StreamInv'
<1>1. \A r \in Streaming \cap completion :
      \A n \in Int : Follows(r, n) => Follows(r, n)'
  BY Constants DEF Follows
<1> QED
  BY <1>1, QuietKeeps

LEMMA StreamCancelRequest ==
  ASSUME ReplyInv, StreamInv, NEW r \in Requests, NEW c \in Cancellers, CancelRequest(c, r)
  PROVE  StreamInv'
<1>1. /\ toWorker \in Seq(Messages) /\ toWorker' = Append(toWorker, CancelFrame(r))
      /\ UNCHANGED <<completion, mailbox, pc, seen, answer, fromWorker, stage, produced>>
  BY DEF CancelRequest, worker, clients, ReplyInv, Types
<1>2. CancelFrame(r) \in Messages /\ \A s : ~Is(CancelFrame(r), "submit", s)
  BY FramesOfRequest, FrameFields DEF Is
<1>3. \A s : Submitted(s)' => Submitted(s)
  BY <1>1, <1>2, InAppend DEF Submitted
<1> QED
  BY <1>1, <1>3, StreamStands

LEMMA StreamInvStep == ReplyInv /\ StreamInv /\ [Next]_vars => StreamInv'
<1> SUFFICES ASSUME ReplyInv, StreamInv, [Next]_vars PROVE StreamInv'
  OBVIOUS
<1>1. ASSUME Drained \/ StepNothing \/ Unblocked \/ (\E r \in Requests : Restart(r))
             \/ (\E c \in Cancellers : CancelTimesOut(c)) \/ UNCHANGED vars
      PROVE  StreamInv'
  <2>1. UNCHANGED <<completion, mailbox, pc, seen, answer, toWorker, fromWorker, stage,
                    produced>>
    BY <1>1 DEF Drained, StepNothing, Unblocked, Restart, CancelTimesOut, vars, slot,
                worker, clients
  <2>2. \A r \in Requests : Submitted(r)' => Submitted(r)
    BY <2>1 DEF Submitted
  <2> QED
    BY <2>1, <2>2, StreamStands
<1>2. CASE Work
  BY <1>1, <1>2, StreamHandleSubmit, StreamHandleCancel, StreamStepCancel, StreamStepBatch
     DEF Work
<1>3. CASE Reader
  BY <1>3, StreamDispatchProgress, StreamDispatch, StreamMarkLost DEF Reader
<1>4. CASE Crash
  BY <1>4, StreamCrash
<1>5. ASSUME NEW r \in Requests,
             \/ Submit(r) \/ ReceiveProgress(r) \/ ReceiveTerminal(r)
             \/ \E c \in Cancellers : CancelRequest(c, r)
      PROVE  StreamInv'
  BY <1>5, StreamSubmit, StreamReceiveProgress, StreamReceiveTerminal, StreamCancelRequest
<1>6. ASSUME NEW r \in Requests, SubmitFails(r) \/ TimesOut(r) \/ StreamBreaks(r)
      PROVE  StreamInv'
  <2>1. \E a \in {"busy", "lost", "timeout", "gone"} : Leaves(r, a)
    BY <1>6, SubmitFailsLeaves, TimesOutLeaves
  <2> QED
    BY <2>1, StreamLeaves DEF Answers
<1> QED
  BY <1>1, <1>2, <1>3, <1>4, <1>5, <1>6 DEF Next, Receive

(* Both layers hold in every reachable state.                              *)
THEOREM StreamInvariant == Spec => [](ReplyInv /\ StreamInv)
<1>1. Init => ReplyInv /\ StreamInv
  BY ReplyInvInit, StreamInvInit
<1>2. ReplyInv /\ StreamInv /\ [Next]_vars => ReplyInv' /\ StreamInv'
  BY ReplyInvStep, StreamInvStep
<1> QED
  BY <1>1, <1>2, PTL DEF Spec

(* A stream never meets what it treats as a protocol error.                *)
THEOREM StreamsAgree == Spec => []StreamNeverContradicts
<1>1. StreamInv => StreamNeverContradicts
  BY DEF StreamInv
<1> QED
  BY <1>1, StreamInvariant, PTL

(* An acknowledged cancel is a cancel, unless client or worker was lost.   *)
THEOREM AckedIsCancelled == Spec => []AckMeansCancelled
<1>1. ReplyInv /\ StreamInv => AckMeansCancelled
  <2> SUFFICES ASSUME ReplyInv, StreamInv, NEW c \in Cancellers, reply[c] = "ack"
      PROVE  answer[target[c]] \in {None, "cancelled", "timeout", "gone", "lost"}
    BY DEF AckMeansCancelled
  <2>1. target[c] \in Requests
    BY Constants DEF ReplyInv, Types, Holdings
  <2>2. Acked(target[c])
    BY DEF Acked
  <2>3. answer[target[c]] \in Late \cup {"cancelled", "lost"}
    BY <2>1, <2>2 DEF ReplyInv, Acks
  <2>4. answer[target[c]] # "protocol"
    BY <2>1 DEF StreamInv, StreamNeverContradicts
  <2> QED
    BY <2>3, <2>4 DEF Late
<1> QED
  BY <1>1, StreamInvariant, PTL

-----------------------------------------------------------------------------
(* Nobody waits on everyone. May... are the guards of the fair actions, and *)
(* what they leave open is always possible: the worker handles the frame at *)
(* the head or steps, the reader dispatches or marks lost, the thread reads *)
(* its event.                                                              *)
WorkerMay == alive /\ (phase = "block" => toWorker # << >>)
ReaderMay == state = "ready" /\ (fromWorker # << >> \/ ~alive)
ReceiverMay(r) == Waiting(r) /\ mailbox[r] # << >>

SomebodyMay == WorkerMay \/ ReaderMay \/ \E r \in Requests : ReceiverMay(r)

(* A cancel without an answer is the one its request's entry names; the    *)
(* worker sleeps only without work.                                        *)
Registered == \A c \in Cancellers : Unanswered(c) => cancel[target[c]] = c
SleepsIdle == phase = "block" => NothingToDo
IdleInv == Registered /\ SleepsIdle

LEMMA RegisteredStands ==
  ASSUME IdleInv, UNCHANGED <<cancel, target, reply>>
  PROVE  Registered'
BY DEF IdleInv, Registered, Unanswered

LEMMA RegisteredStep ==
  ASSUME ReplyInv, IdleInv, [Next]_vars
  PROVE  Registered'
<1> USE Constants DEF ReplyInv
<1>1. ASSUME NEW r \in Requests, NEW c \in Cancellers, CancelRequest(c, r) PROVE Registered'
  <2>1. /\ target' = [target EXCEPT ![c] = r] /\ cancel' = [cancel EXCEPT ![r] = c]
        /\ reply' = reply /\ cancel[r] = None /\ target[c] = None
    BY <1>1 DEF CancelRequest
  <2> SUFFICES ASSUME NEW d \in Cancellers, target'[d] # None, reply'[d] = None
      PROVE  cancel'[target'[d]] = d
    BY DEF Registered, Unanswered
  <2>2. CASE d = c
    BY <2>1, <2>2 DEF Types
  <2>3. CASE d # c
    <3>1. cancel[target[d]] = d /\ target[d] \in Requests /\ target'[d] = target[d]
      BY <2>1, <2>3 DEF IdleInv, Registered, Unanswered, Types
    <3>2. target[d] # r
      BY <2>1, <3>1
    <3> QED
      BY <2>1, <3>1, <3>2 DEF Types
  <2> QED
    BY <2>2, <2>3
<1>2. ASSUME NEW c \in Cancellers, CancelTimesOut(c) PROVE Registered'
  <2>1. reply' = [reply EXCEPT ![c] = "timeout"] /\ UNCHANGED <<cancel, target>>
    BY <1>2 DEF CancelTimesOut, slot
  <2>2. \A d \in Cancellers : reply'[d] = None => reply[d] = None
    BY <2>1 DEF Types
  <2> QED
    BY <2>1, <2>2 DEF IdleInv, Registered, Unanswered
<1>3. ASSUME DispatchReject \/ DispatchAck PROVE Registered'
  <2>1. PICK m, r : m = Head(fromWorker) /\ r = m.request
    OBVIOUS
  <2>2. Takes(m) /\ m.kind \in {"reject", "ack"}
    BY <1>3, <2>1 DEF DispatchReject, DispatchAck, Takes
  <2>3. /\ m \in Messages /\ r \in Requests
        /\ m.kind = "reject" => m.value \in {"admission", "contract"}
    BY <2>1, <2>2, TakesFrame, MessageShape
  <2>4. CASE UNCHANGED <<cancel, target, reply>>
    BY <2>4, RegisteredStands
  <2>5. CASE ~UNCHANGED <<cancel, target, reply>>
    <3>1. PICK what \in {"ack", "admission", "contract"} :
            /\ Tell(cancel[r], what) /\ cancel' = [cancel EXCEPT ![r] = None]
            /\ target' = target /\ cancel[r] # None
      BY <1>3, <2>1, <2>2, <2>3, <2>5 DEF DispatchReject, DispatchAck, clients
    <3> SUFFICES ASSUME NEW d \in Cancellers, target'[d] # None, reply'[d] = None
        PROVE  cancel'[target'[d]] = d
      BY DEF Registered, Unanswered
    <3>2. d # cancel[r] /\ reply'[d] = reply[d]
      BY <3>1 DEF Tell, Types
    <3>3. cancel[target[d]] = d /\ target[d] \in Requests
      BY <3>1, <3>2 DEF IdleInv, Registered, Unanswered, Types
    <3>4. target[d] # r
      BY <3>2, <3>3
    <3> QED
      BY <3>1, <3>3, <3>4 DEF Types
  <2> QED
    BY <2>4, <2>5
<1>4. ASSUME MarkLost PROVE Registered'
  <2>1. /\ reply' = [c \in Cancellers |->
             IF (\E r \in Requests : cancel[r] = c) /\ reply[c] = None
             THEN "lost" ELSE reply[c]]
        /\ target' = target
    BY <1>4 DEF MarkLost
  <2> SUFFICES ASSUME NEW d \in Cancellers, target'[d] # None, reply'[d] = None
      PROVE  FALSE
    BY DEF Registered, Unanswered
  <2>2. ~\E r \in Requests : cancel[r] = d
    BY <2>1
  <2>3. reply[d] = None
    BY <2>1
  <2>4. cancel[target[d]] = d /\ target[d] \in Requests
    BY <2>1, <2>3 DEF IdleInv, Registered, Unanswered, Types
  <2> QED
    BY <2>2, <2>4
<1>5. CASE Work \/ Crash \/ DispatchProgress \/ DispatchResult \/ UNCHANGED vars
  <2>1. UNCHANGED <<cancel, target, reply>>
    BY <1>5 DEF Work, HandleSubmit, HandleCancel, Drained, StepCancel, StepBatch,
                StepNothing, Unblocked, Crash, DispatchProgress, DispatchResult, vars, slot,
                cancellers
  <2> QED
    BY <2>1, RegisteredStands
<1>6. ASSUME NEW r \in Requests,
             \/ Restart(r) \/ Submit(r) \/ SubmitFails(r) \/ ReceiveTerminal(r)
             \/ ReceiveProgress(r) \/ TimesOut(r) \/ StreamBreaks(r)
      PROVE  Registered'
  <2>1. UNCHANGED <<cancel, target, reply>>
    BY <1>6 DEF Restart, Submit, SubmitFails, ReceiveTerminal, ReceiveProgress, TimesOut,
                StreamBreaks, slot, cancellers
  <2> QED
    BY <2>1, RegisteredStands
<1> QED
  BY <1>1, <1>2, <1>3, <1>4, <1>5, <1>6 DEF Next, Reader, Receive

LEMMA SleepsIdleStep ==
  ASSUME ReplyInv, IdleInv, [Next]_vars
  PROVE  SleepsIdle'
<1>1. CASE UNCHANGED <<phase, stage>>
  BY <1>1 DEF IdleInv, SleepsIdle, NothingToDo, Active, Cancelling
<1>2. CASE phase' = "drain" \/ phase' = "step"
  BY <1>2 DEF SleepsIdle
<1>3. CASE StepNothing
  BY <1>3 DEF StepNothing, SleepsIdle, NothingToDo, Active, Cancelling
<1>4. CASE HandleSubmit \/ HandleCancel
  <2>1. phase' = "drain"
    BY <1>4 DEF HandleSubmit, HandleCancel
  <2> QED
    BY <1>2, <2>1
<1>5. CASE Work
  BY <1>2, <1>3, <1>4, <1>5 DEF Work, Drained, StepCancel, StepBatch, Unblocked
<1>6. CASE Reader
  BY <1>1, <1>6 DEF Reader, DispatchProgress, DispatchResult, DispatchReject, DispatchAck,
                   MarkLost, worker
<1>7. CASE Crash
  BY <1>2, <1>7 DEF Crash
<1>8. CASE UNCHANGED vars
  BY <1>1, <1>8 DEF vars, worker
<1>9. ASSUME NEW r \in Requests,
             \/ Restart(r) \/ Submit(r) \/ SubmitFails(r) \/ ReceiveTerminal(r)
             \/ ReceiveProgress(r) \/ TimesOut(r) \/ StreamBreaks(r)
             \/ \E c \in Cancellers : CancelRequest(c, r)
      PROVE  SleepsIdle'
  BY <1>1, <1>9 DEF Restart, Submit, SubmitFails, ReceiveTerminal, ReceiveProgress, TimesOut,
                StreamBreaks, CancelRequest, worker
<1>10. ASSUME NEW c \in Cancellers, CancelTimesOut(c) PROVE SleepsIdle'
  BY <1>1, <1>10 DEF CancelTimesOut, worker
<1> QED
  BY <1>5, <1>6, <1>7, <1>8, <1>9, <1>10 DEF Next, Receive

(* As long as a completion or a cancel waits, the worker, the reader or a   *)
(* waiting thread has a step to take: nobody waits on everyone, whatever    *)
(* died, timed out or was abandoned. Only the fairness that makes the step  *)
(* happen, and that the steps come to an end, is left to the run.          *)
NeverStuck == NobodyWaits \/ SomebodyMay

THEOREM SomebodyCanMove == Spec => []NeverStuck
<1>1. Init => IdleInv
  <2>1. Init => Registered
    BY DEF Init, Registered, Unanswered
  <2>2. Init => SleepsIdle
    BY DEF Init, SleepsIdle
  <2> QED
    BY <2>1, <2>2 DEF IdleInv
<1>2. ReplyInv /\ IdleInv /\ [Next]_vars => IdleInv'
  BY RegisteredStep, SleepsIdleStep DEF IdleInv
<1>3. ReplyInv /\ IdleInv => NeverStuck
  <2> USE Constants DEF ReplyInv
  <2> SUFFICES ASSUME ReplyInv, IdleInv, ~SomebodyMay PROVE NobodyWaits
    BY DEF NeverStuck
  <2>1. state = "ready" => alive /\ fromWorker = << >> /\ toWorker = << >> /\ phase = "block"
    BY DEF SomebodyMay, WorkerMay, ReaderMay
  <2>2. state = "ready" => \A k, r : ~In(toWorker, k, r) /\ ~In(fromWorker, k, r)
    BY <2>1, EmptyQueue
  <2>3. state = "ready" => \A r \in Requests : stage[r] = None
    BY <2>1 DEF IdleInv, SleepsIdle, NothingToDo, Active, Cancelling, Types
  <2>4. state = "ready" => \A k, r : Count(toWorker, k, r) = 0 /\ Count(fromWorker, k, r) = 0
    BY <2>1, CountEmpty
  <2>5. \A r \in Requests : r \notin completion /\ cancel[r] = None
    <3> SUFFICES ASSUME NEW r \in Requests PROVE r \notin completion /\ cancel[r] = None
      OBVIOUS
    <3>1. CASE state = "down"
      BY <3>1 DEF Death
    <3>2. CASE state = "ready"
      <4>1. Replies(r) = 0 /\ Refused(r)
        BY <2>2, <2>3, <2>4, <3>2 DEF Replies, Refused, Submitted
      <4>2. ~(cancel[r] # None)
        <5>1. cancel[r] # None => Replies(r) >= 1
          BY <2>1, <3>2 DEF EnoughReplies
        <5> QED
          BY <4>1, <5>1
      <4>3. ASSUME r \in completion PROVE FALSE
        <5>1. Replies(r) >= One(cancel[r] # None) + 1
          BY <2>1, <3>2, <4>1, <4>3 DEF EnoughReplies, One
        <5>2. One(cancel[r] # None) = 0
          BY <4>2 DEF One
        <5> QED
          BY <4>1, <5>1, <5>2
      <4> QED
        BY <4>2, <4>3
    <3> QED
      BY <3>1, <3>2 DEF Types
  <2>6. ASSUME NEW r \in Requests PROVE ~Waiting(r)
    <3> SUFFICES ASSUME Waiting(r) PROVE FALSE
      OBVIOUS
    <3>1. Posted(r)
      BY <2>5 DEF LastWord
    <3>2. mailbox[r] # << >>
      BY <3>1, EmptyQueue DEF Posted
    <3> QED
      BY <3>2 DEF SomebodyMay, ReceiverMay
  <2>7. ASSUME NEW c \in Cancellers PROVE ~Unanswered(c)
    <3> SUFFICES ASSUME Unanswered(c) PROVE FALSE
      OBVIOUS
    <3>1. target[c] \in Requests /\ cancel[target[c]] = c
      BY DEF IdleInv, Registered, Unanswered, Types
    <3> QED
      BY <2>5, <3>1
  <2> QED
    BY <2>6, <2>7 DEF NobodyWaits
<1>4. Spec => []ReplyInv
  BY ReplyInvariant
<1> QED
  BY <1>1, <1>2, <1>3, <1>4, PTL DEF Spec

-----------------------------------------------------------------------------
(* What only a cancel brings about: the refusal the scheduler gives to one  *)
(* it does not take, and the result of a request it took one for.          *)
FromCancel(m) ==
  \/ m.kind = "reject" /\ m.value = "contract"
  \/ m.kind = "result" /\ m.value.finish = "cancelled"
Bears(q, r) == \E i \in 1 .. Len(q) : FromCancel(q[i]) /\ q[i].request = r
Asked(r) == \E c \in Cancellers : target[c] = r

(* The worker was told, or has said, that r is cancelled.                  *)
Told(r) ==
  In(toWorker, "cancel", r) \/ stage[r] = "cancelling" \/ Bears(fromWorker, r)

(* It was told by the thread of r when that left, or because a cancel was   *)
(* asked for; r itself hears of it only in the second case.                *)
CauseOf(r) ==
  /\ Told(r) => pc[r] = "done" \/ Asked(r)
  /\ Bears(mailbox[r], r) \/ answer[r] \in {"contract", "cancelled"} => Asked(r)

CauseInv == \A r \in Requests : CauseOf(r)

LEMMA BearsAppend ==
  ASSUME NEW q \in Seq(Messages), NEW m \in Messages, NEW r
  PROVE  Bears(Append(q, m), r)
           <=> Bears(q, r) \/ (FromCancel(m) /\ m.request = r)
<1>1. PICK a : a = Append(q, m)
  OBVIOUS
<1>2. /\ Len(q) \in Nat /\ Len(a) = Len(q) + 1
      /\ \A i \in 1 .. Len(q) : a[i] = q[i]
      /\ a[Len(q) + 1] = m
      /\ \A i \in 1 .. Len(a) : i \in 1 .. Len(q) \/ i = Len(q) + 1
  BY <1>1, LookAppend
<1>3. Bears(a, r) <=> Bears(q, r) \/ (FromCancel(m) /\ m.request = r)
  BY <1>2 DEF Bears
<1> QED
  BY <1>1, <1>3

LEMMA BearsTail ==
  ASSUME NEW q \in Seq(Messages), q # << >>, NEW r
  PROVE  /\ Bears(Tail(q), r) => Bears(q, r)
         /\ FromCancel(Head(q)) /\ Head(q).request = r => Bears(q, r)
<1>1. PICK t : t = Tail(q)
  OBVIOUS
<1>2. /\ Len(q) \in Nat \ {0} /\ Len(t) = Len(q) - 1
      /\ \A i \in 1 .. Len(q) - 1 : t[i] = q[i + 1]
      /\ Head(q) = q[1]
  BY <1>1, LookTail
<1>3. Bears(t, r) => Bears(q, r)
  <2>1. ASSUME NEW i \in 1 .. Len(t) PROVE i + 1 \in 1 .. Len(q) /\ t[i] = q[i + 1]
    BY <1>2
  <2> QED
    BY <2>1 DEF Bears
<1>4. 1 \in 1 .. Len(q)
  BY <1>2
<1> QED
  BY <1>1, <1>2, <1>3, <1>4 DEF Bears

(* A step that tells the worker nothing new, posts nothing of a cancel and  *)
(* gives no new answer.                                                    *)
LEMMA CauseStands ==
  ASSUME NEW r \in Requests, CauseOf(r),
         In(toWorker', "cancel", r) => Told(r),
         stage'[r] = "cancelling" => Told(r),
         Bears(fromWorker', r) => Told(r),
         Bears(mailbox'[r], r) => Bears(mailbox[r], r),
         answer'[r] = answer[r],
         pc[r] = "done" => pc'[r] = "done",
         target' = target
  PROVE  CauseOf(r)'
<1>1. Told(r)' => Told(r)
  BY DEF Told
<1> QED
  BY <1>1 DEF CauseOf, Asked

LEMMA CauseLeaves ==
  ASSUME ReplyInv, CauseInv, NEW r \in Requests, NEW a \in Answers, Leaves(r, a),
         a \in {"contract", "cancelled"} => Bears(mailbox[r], r)
  PROVE  CauseInv'
<1>1. /\ pc' = [pc EXCEPT ![r] = "done"] /\ answer' = [answer EXCEPT ![r] = a]
      /\ mailbox' = [mailbox EXCEPT ![r] = << >>]
      /\ UNCHANGED <<fromWorker, stage, target>>
      /\ toWorker' = toWorker \/ toWorker' = Append(toWorker, CancelFrame(r))
  BY DEF Leaves, Answer, worker, cancellers
<1>2. /\ pc \in [Requests -> {"idle", "await", "admit", "pump", "done"}]
      /\ answer \in [Requests -> Answers \cup {None}]
      /\ mailbox \in [Requests -> Seq(Messages)] /\ toWorker \in Seq(Messages)
  BY DEF ReplyInv, Types
<1>3. CancelFrame(r) \in Messages /\ \A s : Is(CancelFrame(r), "cancel", s) => s = r
  BY FramesOfRequest, FrameFields DEF Is
<1>4. \A s : In(toWorker', "cancel", s) => In(toWorker, "cancel", s) \/ s = r
  BY <1>1, <1>2, <1>3, InAppend
<1>5. ~Bears(<< >>, r)
  BY EmptyQueue DEF Bears
<1>6. ASSUME NEW s \in Requests PROVE CauseOf(s)'
  <2>1. CauseOf(s)
    BY DEF CauseInv
  <2>2. CASE s = r
    <3>1. pc'[s] = "done" /\ ~Bears(mailbox'[s], s) /\ answer'[s] = a
      BY <1>1, <1>2, <1>5, <2>2
    <3> QED
      BY <1>1, <2>1, <2>2, <3>1 DEF CauseOf, Asked
  <2>3. CASE s # r
    <3>1. pc'[s] = pc[s] /\ mailbox'[s] = mailbox[s] /\ answer'[s] = answer[s]
      BY <1>1, <1>2, <2>3
    <3> QED
      BY <1>1, <1>4, <2>1, <2>3, <3>1, CauseStands DEF Told
  <2> QED
    BY <2>2, <2>3
<1> QED
  BY <1>6 DEF CauseInv

LEMMA CauseReceiveTerminal ==
  ASSUME ReplyInv, CauseInv, NEW r \in Requests, ReceiveTerminal(r)
  PROVE  CauseInv'
<1>1. PICK q, m, a : q = mailbox[r] /\ m = Head(q) /\ a = AnswerOf(r, m)
  OBVIOUS
<1>2. Leaves(r, a) /\ a \in Answers
  BY <1>1, ReceiveTerminalLeaves
<1>3. q \in Seq(Messages) /\ q # << >> /\ Terminal(m)
  BY <1>1 DEF ReceiveTerminal, ReplyInv, Types
<1>4. m \in Messages /\ m.request = r
  BY <1>1, <1>3, LookTail, FormsTail DEF ReplyInv, Kinds
<1>5. a \in {"contract", "cancelled"} => FromCancel(m)
  <2>1. m.kind = "lost" => a = "lost"
    BY <1>1 DEF AnswerOf
  <2>2. m.kind = "reject" => a = m.value
    BY <1>1 DEF AnswerOf
  <2>3. m.kind = "result" => a \in {"protocol", m.value.finish}
    BY <1>1 DEF AnswerOf
  <2> QED
    BY <1>3, <1>4, <2>1, <2>2, <2>3, MessageShape DEF FromCancel, Terminal
<1>6. a \in {"contract", "cancelled"} => Bears(q, r)
  BY <1>1, <1>3, <1>4, <1>5, BearsTail
<1> QED
  BY <1>1, <1>2, <1>6, CauseLeaves

LEMMA CauseReceiveProgress ==
  ASSUME ReplyInv, CauseInv, NEW r \in Requests, ReceiveProgress(r)
  PROVE  CauseInv'
<1>1. PICK q, m : q = mailbox[r] /\ m = Head(q)
  OBVIOUS
<1>2. q \in Seq(Messages) /\ q # << >> /\ Waiting(r) /\ toWorker \in Seq(Messages)
  BY <1>1 DEF ReceiveProgress, ReplyInv, Types, Waiting
<1>3. CASE ~Expected(r, m)
  <2>1. Abandon(r) /\ Answer(r, "protocol")
        /\ UNCHANGED <<cancel, state, fromWorker, worker, cancellers, crashes>>
    BY <1>1, <1>3 DEF ReceiveProgress
  <2>2. "protocol" \in Late \ {None}
    BY Constants DEF Late, Answers
  <2>3. Leaves(r, "protocol") /\ "protocol" \in Answers
    BY <1>2, <2>1, <2>2, AbandonLeaves
  <2> QED
    BY <2>3, CauseLeaves
<1>4. CASE Expected(r, m)
  <2>1. /\ mailbox' = [mailbox EXCEPT ![r] = Tail(@)]
        /\ pc' = [pc EXCEPT ![r] = IF @ = "admit" THEN "pump" ELSE @]
        /\ UNCHANGED <<toWorker, fromWorker, stage, answer, target>>
    BY <1>1, <1>4 DEF ReceiveProgress, worker, cancellers
  <2>2. \A s \in Requests : pc[s] = "done" => pc'[s] = "done"
    BY <2>1 DEF ReplyInv, Types
  <2>3. \A s \in Requests : Bears(mailbox'[s], s) => Bears(mailbox[s], s)
    BY <1>1, <1>2, <2>1, BearsTail DEF ReplyInv, Types
  <2> QED
    BY <2>1, <2>2, <2>3, CauseStands DEF CauseInv, Told
<1> QED
  BY <1>3, <1>4

LEMMA CauseSubmit ==
  ASSUME ReplyInv, CauseInv, NEW r \in Requests, Submit(r)
  PROVE  CauseInv'
<1>1. /\ toWorker' = Append(toWorker, SubmitFrame(r)) /\ toWorker \in Seq(Messages)
      /\ UNCHANGED <<fromWorker, stage, mailbox, answer, target>>
      /\ \A s \in Requests : pc[s] = "done" => pc'[s] = "done"
  BY DEF Submit, worker, cancellers, ReplyInv, Types
<1>2. SubmitFrame(r) \in Messages /\ \A s : ~Is(SubmitFrame(r), "cancel", s)
  BY FramesOfRequest, FrameFields DEF Is
<1>3. \A s : In(toWorker', "cancel", s) => In(toWorker, "cancel", s)
  BY <1>1, <1>2, InAppend
<1> QED
  BY <1>1, <1>3, CauseStands DEF CauseInv, Told

LEMMA CauseCancelRequest ==
  ASSUME ReplyInv, CauseInv, NEW r \in Requests, NEW c \in Cancellers, CancelRequest(c, r)
  PROVE  CauseInv'
<1>1. /\ toWorker' = Append(toWorker, CancelFrame(r)) /\ toWorker \in Seq(Messages)
      /\ UNCHANGED <<fromWorker, stage, mailbox, pc, answer>>
      /\ target' = [target EXCEPT ![c] = r] /\ target[c] = None
      /\ target \in [Cancellers -> Requests \cup {None}]
  BY DEF CancelRequest, worker, clients, ReplyInv, Types
<1>2. CancelFrame(r) \in Messages /\ \A s : Is(CancelFrame(r), "cancel", s) => s = r
  BY FramesOfRequest, FrameFields DEF Is
<1>3. \A s : In(toWorker', "cancel", s) => In(toWorker, "cancel", s) \/ s = r
  BY <1>1, <1>2, InAppend
<1>4. \A s \in Requests : s = r \/ Asked(s) => Asked(s)'
  BY <1>1, Constants DEF Asked
<1> QED
  BY <1>1, <1>3, <1>4 DEF CauseInv, CauseOf, Told

LEMMA CauseHandleSubmit ==
  ASSUME ReplyInv, CauseInv, HandleSubmit
  PROVE  CauseInv'
<1>1. PICK r : r = Head(toWorker).request
  OBVIOUS
<1>2. PICK admitted \in BOOLEAN : fromWorker' = fromWorker \o SubmitReply(r, admitted)
  BY <1>1 DEF HandleSubmit
<1>3. /\ toWorker \in Seq(Messages) /\ toWorker # << >> /\ toWorker' = Tail(toWorker)
      /\ fromWorker \in Seq(Messages)
      /\ UNCHANGED <<mailbox, pc, answer, target>>
  BY DEF HandleSubmit, clients, cancellers, ReplyInv, Types
<1>4. r \in Requests
  BY <1>1, <1>3, LookTail, MessageShape
<1>5. PICK m : m = IF admitted THEN Admitted(r) ELSE Reject(r, "admission")
  OBVIOUS
<1>6. m \in Messages /\ ~FromCancel(m)
  BY <1>4, <1>5, FramesOfRequest, FrameFields DEF FromCancel
<1>7. fromWorker' = Append(fromWorker, m)
  <2>1. fromWorker' = fromWorker \o <<m>>
    BY <1>2, <1>5 DEF SubmitReply
  <2> QED
    BY <1>3, <1>6, <2>1, AppendProperties
<1>8. \A s : Bears(fromWorker', s) => Bears(fromWorker, s)
  BY <1>3, <1>6, <1>7, BearsAppend
<1>9. \A s : In(toWorker', "cancel", s) => In(toWorker, "cancel", s)
  BY <1>3, InTail
<1>10. \A s \in Requests : stage'[s] = "cancelling" => stage[s] = "cancelling"
  BY DEF HandleSubmit, ReplyInv, Types
<1> QED
  BY <1>3, <1>8, <1>9, <1>10, CauseStands DEF CauseInv, Told

LEMMA CauseHandleCancel ==
  ASSUME ReplyInv, CauseInv, HandleCancel
  PROVE  CauseInv'
<1>1. PICK r, m : /\ r = Head(toWorker).request
                  /\ m = IF Cancellable(r) THEN Ack(r) ELSE Reject(r, "contract")
  OBVIOUS
<1>2. /\ toWorker \in Seq(Messages) /\ toWorker # << >> /\ toWorker' = Tail(toWorker)
      /\ fromWorker \in Seq(Messages) /\ fromWorker' = Append(fromWorker, m)
      /\ Head(toWorker).kind = "cancel"
      /\ UNCHANGED <<mailbox, pc, answer, target>>
  BY <1>1 DEF HandleCancel, clients, cancellers, ReplyInv, Types
<1>3. r \in Requests
  BY <1>1, <1>2, LookTail, MessageShape
<1>4. m \in Messages /\ m.request = r
  BY <1>1, <1>3, FramesOfRequest, FrameFields
<1>5. In(toWorker, "cancel", r)
  BY <1>1, <1>2, InTail DEF Is
<1>6. \A s : Bears(fromWorker', s) => Bears(fromWorker, s) \/ s = r
  BY <1>2, <1>4, BearsAppend
<1>7. \A s : In(toWorker', "cancel", s) => In(toWorker, "cancel", s)
  BY <1>2, InTail
<1>8. \A s \in Requests : stage'[s] = "cancelling" => stage[s] = "cancelling" \/ s = r
  BY <1>1 DEF HandleCancel, ReplyInv, Types
<1> QED
  BY <1>2, <1>5, <1>6, <1>7, <1>8, CauseStands DEF CauseInv, Told

LEMMA CauseStepCancel ==
  ASSUME ReplyInv, CauseInv, StepCancel
  PROVE  CauseInv'
<1>1. PICK r \in Requests :
        /\ stage[r] = "cancelling"
        /\ Reaped({r}, produced)
        /\ Report(<< >>, <<Result(r, "cancelled", produced[r])>>)
  BY DEF StepCancel, Cancelling
<1>2. PICK m : m = Result(r, "cancelled", produced[r])
  OBVIOUS
<1>3. produced[r] \in 0 .. Budget[r]
  BY Constants DEF ReplyInv, Types
<1>4. m \in Messages /\ m.request = r
  BY <1>2, <1>3, FramesOfRequest, ResultFields
<1>5. /\ fromWorker \in Seq(Messages)
      /\ UNCHANGED <<toWorker, mailbox, pc, answer, target>>
  BY DEF StepCancel, clients, cancellers, ReplyInv, Types
<1>6. fromWorker' = Append(fromWorker, m)
  <2>1. fromWorker' = fromWorker \o << >> \o <<m>>
    BY <1>1, <1>2 DEF Report
  <2>2. \A q \in Seq(Messages) : q \o << >> \o <<m>> = Append(q, m)
    BY <1>4, AppendProperties
  <2> QED
    BY <1>5, <2>1, <2>2
<1>7. \A s : Bears(fromWorker', s) => Bears(fromWorker, s) \/ s = r
  BY <1>4, <1>5, <1>6, BearsAppend
<1>8. \A s \in Requests : stage'[s] = "cancelling" => stage[s] = "cancelling"
  BY <1>1 DEF Reaped
<1> QED
  BY <1>1, <1>5, <1>7, <1>8, CauseStands DEF CauseInv, Told

LEMMA CauseStepBatch ==
  ASSUME ReplyInv, CauseInv, StepBatch
  PROVE  CauseInv'
<1>1. PICK rows, failing, ended, row, fin : BatchOf(rows, failing, ended, row, fin)
  BY BatchFrames DEF ReplyInv
<1>2. PICK l, n, k, v, w :
        /\ l = Len(fromWorker) /\ n = Cardinality(rows) /\ k = Cardinality(ended \cup failing)
        /\ v = fromWorker /\ w = fromWorker'
  OBVIOUS
<1>3. /\ l \in Nat /\ n \in Nat /\ k \in Nat /\ Len(v) = l /\ Len(w) = l + n + k
      /\ \A i \in 1 .. l : w[i] = v[i]
  <2>1. l \in Nat /\ Len(v) = l
    BY <1>2 DEF ReplyInv, Types
  <2> QED
    BY <1>1, <1>2, <2>1 DEF BatchOf
<1>4. \A i \in 1 .. n : ~FromCancel(w[l + i])
  <2>1. \A i \in 1 .. n : w[l + i] = Delta(row[i], produced[row[i]])
    BY <1>1, <1>2 DEF BatchOf
  <2> QED
    BY <2>1, FrameFields DEF FromCancel
<1>5. \A i \in 1 .. k : ~FromCancel(w[l + n + i])
  <2>1. \A i \in 1 .. k : w[l + n + i] =
           Result(fin[i], IF fin[i] \in failing THEN "error" ELSE "finished",
                  Tokens(rows, fin[i]))
    BY <1>1, <1>2 DEF BatchOf
  <2> QED
    BY <2>1, ResultFields DEF FromCancel
<1>6. ASSUME NEW i \in 1 .. Len(w), FromCancel(w[i]) PROVE i \in 1 .. Len(v) /\ w[i] = v[i]
  <2>1. CASE i <= l
    BY <1>3, <2>1
  <2>2. CASE l < i /\ i <= l + n
    <3>1. i - l \in 1 .. n /\ l + (i - l) = i
      BY <1>3, <2>2
    <3> QED
      BY <1>4, <1>6, <3>1
  <2>3. CASE l + n < i
    <3>1. i - (l + n) \in 1 .. k /\ l + n + (i - (l + n)) = i
      BY <1>3, <2>3
    <3> QED
      BY <1>5, <1>6, <3>1
  <2> QED
    BY <1>3, <2>1, <2>2, <2>3
<1>7. \A s : Bears(w, s) => Bears(v, s)
  BY <1>6 DEF Bears
<1>8. \A s \in Requests : stage'[s] = "cancelling" => stage[s] = "cancelling"
  <2>1. PICK done : done = ended \cup failing
    OBVIOUS
  <2>2. stage' = [s \in Requests |-> IF s \in done THEN None ELSE stage[s]]
    BY <1>1, <2>1 DEF BatchOf
  <2> QED
    BY <2>2, Constants
<1>9. UNCHANGED <<toWorker, mailbox, pc, answer, target>>
  BY DEF StepBatch, clients, cancellers
<1> QED
  BY <1>2, <1>7, <1>8, <1>9, CauseStands DEF CauseInv, Told

LEMMA CauseCrash ==
  ASSUME ReplyInv, CauseInv, Crash
  PROVE  CauseInv'
<1>1. PICK n \in 0 .. Len(fromWorker) : fromWorker' = SubSeq(fromWorker, 1, n)
  BY DEF Crash
<1>2. PICK v, w : v = fromWorker /\ w = fromWorker'
  OBVIOUS
<1>3. Len(w) = n /\ \A i \in 1 .. n : w[i] = v[i] /\ i \in 1 .. Len(v)
  BY <1>1, <1>2, Prefix DEF ReplyInv, Types
<1>4. \A s : Bears(w, s) => Bears(v, s)
  BY <1>3 DEF Bears
<1>5. toWorker' = << >> /\ UNCHANGED <<mailbox, pc, answer, target>>
  BY DEF Crash, clients, cancellers
<1>6. \A s : ~In(toWorker', "cancel", s)
  BY <1>5, EmptyQueue
<1>7. \A s \in Requests : stage'[s] # "cancelling"
  BY Constants DEF Crash, Reaped
<1> QED
  BY <1>2, <1>4, <1>5, <1>6, <1>7, CauseStands DEF CauseInv, Told

(* What the reader posts to a completion that still waits and bears the     *)
(* mark of a cancel is due to a cancel somebody asked for.                 *)
LEMMA CauseReader ==
  ASSUME ReplyInv, CauseInv, Reader
  PROVE  CauseInv'
<1>1. CASE MarkLost
  <2>1. /\ mailbox' = [r \in Requests |->
             IF r \in completion THEN Append(mailbox[r], Lost(r)) ELSE mailbox[r]]
        /\ UNCHANGED <<toWorker, fromWorker, stage, pc, answer, target>>
    BY <1>1 DEF MarkLost, worker
  <2>2. ASSUME NEW r \in Requests PROVE Bears(mailbox'[r], r) => Bears(mailbox[r], r)
    <3>1. Lost(r) \in Messages /\ ~FromCancel(Lost(r))
      BY FramesOfRequest, FrameFields DEF FromCancel
    <3>2. mailbox[r] \in Seq(Messages)
      BY DEF ReplyInv, Types
    <3> QED
      BY <2>1, <3>1, <3>2, BearsAppend
  <2> QED
    BY <2>1, <2>2, CauseStands DEF CauseInv, Told
<1>2. CASE DispatchProgress \/ DispatchResult \/ DispatchReject \/ DispatchAck
  <2>1. PICK m : m = Head(fromWorker)
    OBVIOUS
  <2>2. /\ Takes(m)
        /\ UNCHANGED <<toWorker, stage, pc, answer, target>>
    BY <1>2, <2>1 DEF DispatchProgress, DispatchResult, DispatchReject, DispatchAck, Takes,
                      worker, clients, cancellers
  <2>3. \/ UNCHANGED mailbox
        \/ m.request \in completion /\ Post(m.request, m)
    BY <1>2, <2>1 DEF DispatchProgress, DispatchResult, DispatchReject, DispatchAck, Finish,
                      clients
  <2>4. /\ fromWorker \in Seq(Messages) /\ fromWorker # << >> /\ fromWorker' = Tail(fromWorker)
        /\ m \in Messages /\ m.request \in Requests
    BY <2>2, TakesFrame DEF ReplyInv, Takes
  <2>5. /\ \A s : Bears(fromWorker', s) => Bears(fromWorker, s)
        /\ \A s : FromCancel(m) /\ m.request = s => Bears(fromWorker, s)
    BY <2>1, <2>4, BearsTail
  <2>6. ASSUME NEW s \in Requests PROVE CauseOf(s)'
    <3>1. CauseOf(s)
      BY DEF CauseInv
    <3>2. CASE Bears(mailbox'[s], s) => Bears(mailbox[s], s)
      BY <2>2, <2>5, <3>1, <3>2, CauseStands DEF Told
    <3>3. CASE Bears(mailbox'[s], s) /\ ~Bears(mailbox[s], s)
      <4>1. m.request = s /\ s \in completion /\ mailbox'[s] = Append(mailbox[s], m)
        BY <2>3, <2>4, <3>3 DEF Post, ReplyInv, Types
      <4>2. FromCancel(m)
        BY <2>4, <3>3, <4>1, BearsAppend DEF ReplyInv, Types
      <4>3. pc[s] # "done"
        BY <4>1 DEF ReplyInv, Holdings, Waiting
      <4>4. Asked(s)
        BY <2>5, <3>1, <4>1, <4>2, <4>3 DEF CauseOf, Told
      <4> QED
        BY <2>2, <4>4 DEF CauseOf, Asked
    <3> QED
      BY <3>2, <3>3
  <2> QED
    BY <2>6 DEF CauseInv
<1> QED
  BY <1>1, <1>2 DEF Reader

LEMMA CauseInvStep == ReplyInv /\ CauseInv /\ [Next]_vars => CauseInv'
<1> SUFFICES ASSUME ReplyInv, CauseInv, [Next]_vars PROVE CauseInv'
  OBVIOUS
<1>1. ASSUME Drained \/ StepNothing \/ Unblocked \/ (\E r \in Requests : Restart(r))
             \/ (\E c \in Cancellers : CancelTimesOut(c)) \/ UNCHANGED vars
      PROVE  CauseInv'
  <2>1. UNCHANGED <<mailbox, pc, answer, toWorker, fromWorker, stage, target>>
    BY <1>1 DEF Drained, StepNothing, Unblocked, Restart, CancelTimesOut, vars, slot,
                worker, clients, cancellers
  <2> QED
    BY <2>1, CauseStands DEF CauseInv, Told
<1>2. CASE Work
  BY <1>1, <1>2, CauseHandleSubmit, CauseHandleCancel, CauseStepCancel, CauseStepBatch DEF Work
<1>3. ASSUME NEW r \in Requests, SubmitFails(r) \/ TimesOut(r) \/ StreamBreaks(r)
      PROVE  CauseInv'
  <2>1. PICK a \in {"busy", "lost", "timeout", "gone"} : Leaves(r, a)
    BY <1>3, SubmitFailsLeaves, TimesOutLeaves
  <2>2. a \in Answers /\ a \notin {"contract", "cancelled"}
    BY DEF Answers
  <2> QED
    BY <2>1, <2>2, CauseLeaves
<1>4. ASSUME NEW r \in Requests,
             \/ Submit(r) \/ ReceiveProgress(r) \/ ReceiveTerminal(r)
             \/ \E c \in Cancellers : CancelRequest(c, r)
      PROVE  CauseInv'
  BY <1>4, CauseSubmit, CauseReceiveProgress, CauseReceiveTerminal, CauseCancelRequest
<1> QED
  BY <1>1, <1>2, <1>3, <1>4, CauseReader, CauseCrash DEF Next, Receive

(* A completion ends as cancelled, or is refused with the code of a cancel, *)
(* only if somebody asked to cancel it: no race of a client that leaves, a  *)
(* deadline, a worker that dies or another request does that to it. For the *)
(* refusal this is the whole extent of what the run of AdmissionCode finds. *)
CancelHasAsker ==
  \A r \in Requests :
    answer[r] \in {"contract", "cancelled"} => \E c \in Cancellers : target[c] = r

THEOREM CancelledWasAsked == Spec => []CancelHasAsker
<1>1. Init => CauseInv
  <2> SUFFICES ASSUME Init, NEW r \in Requests PROVE CauseOf(r)
    BY DEF CauseInv
  <2>1. /\ toWorker = << >> /\ fromWorker = << >> /\ mailbox[r] = << >>
        /\ answer[r] = None /\ stage[r] = None
    BY DEF Init
  <2>2. None \notin {"contract", "cancelled", "cancelling"}
    BY DEF None
  <2> QED
    BY <2>1, <2>2, EmptyQueue DEF CauseOf, Told, Bears
<1>2. CauseInv => CancelHasAsker
  BY DEF CauseInv, CauseOf, Asked, CancelHasAsker
<1>3. Spec => []ReplyInv
  BY ReplyInvariant
<1> QED
  BY <1>1, <1>2, <1>3, CauseInvStep, PTL DEF Spec
=============================================================================
