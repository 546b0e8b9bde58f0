--------------------------- MODULE RequestJournal ---------------------------
(***************************************************************************)
(* The journals and receipts of a home: crates/infer-engine/src/journal.rs, *)
(* crates/infer-serve/src/receipt.rs and the journal of                    *)
(* crates/infer-receipt/src/run.rs. A directory per request holds one file *)
(* per event; an event names the root of the one before it, so a file is   *)
(* modelled by the sequence of events it stands at the end of. The writers *)
(* are the handlers of a serve process, the processes of `knolo-infer      *)
(* run`, and the recovery of a serve process that starts. A write is       *)
(* atomic (write_atomic) and may fail.                                     *)
(*                                                                         *)
(* The module has no next-state relation of its own: ServeHome says when a *)
(* process takes which step.                                               *)
(***************************************************************************)
EXTENDS HomeProcesses, FiniteSets, SequencesExt

CONSTANTS
  Runners,     \* `knolo-infer run` processes
  Ids,         \* request ids, numbers in the order recovery sorts them
  RunId,       \* the id each runner draws at random
  MaxTokens,   \* bound: tokens of a completion
  MaxLost      \* bound: requests of which writes fail

RunIds == {RunId[c] : c \in Runners}

ASSUME IdsAssumption == Ids \subseteq Nat /\ RunIds \subseteq Ids
ASSUME BoundsAssumption == MaxTokens \in Nat /\ MaxLost \in Nat
ASSUME RunnersAssumption == Runners \cap (Procs \cup {Nobody}) = {}

VARIABLES
  dirs,      \* request directories
  files,     \* event files of each
  receipts,  \* requests with a stored receipt
  who,       \* whose handle each request has, Nobody's when it is closed
  stage,     \* where its handler is
  chain,     \* the events its handle has appended
  lost,      \* requests of which a write has failed
  rec,       \* the step of each process's recovery
  todo,      \* directories it has listed and not visited
  found      \* the chain it has read and is about to seal
journalVars ==
  <<dirs, files, receipts, who, stage, chain, lost, rec, todo, found>>

handles == <<who, stage, chain>>
store == <<dirs, files, receipts>>
recovery == <<rec, todo, found>>

(* Recovery's `failed` has a payload of its own, WORKER_LOST.                *)
Events == {"accepted", "prefill", "token", "completed", "cancelled", "failed",
           "workerLost"}
NameOf(e) == IF e = "workerLost" THEN "failed" ELSE e
Terminal == {"completed", "failed", "cancelled"}

JournalInit ==
  /\ dirs = {} /\ receipts = {} /\ lost = {}
  /\ files = [r \in Ids |-> {}]
  /\ who = [r \in Ids |-> Nobody]
  /\ stage = [r \in Ids |-> "closed"]
  /\ chain = [r \in Ids |-> <<>>]
  /\ rec = [p \in Procs |-> "list"]
  /\ todo = [p \in Procs |-> {}]
  /\ found = [p \in Procs |-> <<>>]

-----------------------------------------------------------------------------
(* Event files.                                                             *)

(* The name of an event file is its index and its event: a second write of  *)
(* the same name replaces the first.                                        *)
SameFile(c, d) == Len(c) = Len(d) /\ NameOf(Last(c)) = NameOf(Last(d))
Put(F, c) == {d \in F : ~SameFile(c, d)} \cup {c}

(* read_chain: one file per index from 0, each naming the root of the one    *)
(* before.                                                                   *)
Verifies(F) ==
  \E c \in F :
    /\ Len(c) = Cardinality(F)
    /\ \A d \in F : Len(d) <= Len(c) /\ d = SubSeq(c, 1, Len(d))
ReadChain(F) == CHOOSE c \in F : Len(c) = Cardinality(F)
StartsAccepted(F) == Verifies(F) /\ <<"accepted">> \in F
State(F) ==
  IF ~StartsAccepted(F) THEN "none"
  ELSE LET last == NameOf(Last(ReadChain(F)))
       IN IF last \in Terminal THEN last ELSE "open"
Sealed(F) == State(F) \in Terminal
Open(F) == State(F) = "open"

(* Journal::append on a handle that has appended c before.                   *)
Written(r, c, e) ==
  /\ r \in dirs
  /\ files' = [files EXCEPT ![r] = Put(@, Append(c, e))]
  /\ UNCHANGED lost
NotWritten(r) ==
  /\ IF r \in dirs
       THEN lost' = lost \cup {r} /\ Cardinality(lost') <= MaxLost
       ELSE UNCHANGED lost
  /\ UNCHANGED files

To(r, to) == stage' = [stage EXCEPT ![r] = to] /\ UNCHANGED <<who, chain>>
Closes(r) ==
  /\ who' = [who EXCEPT ![r] = Nobody]
  /\ stage' = [stage EXCEPT ![r] = "closed"]
  /\ chain' = [chain EXCEPT ![r] = <<>>]
(* Faulty: the handle does not move on to the next index.                   *)
AppendsInPlace(r, e, to) ==
  /\ Written(r, chain[r], e)
  /\ stage' = [stage EXCEPT ![r] = to]
  /\ UNCHANGED <<who, chain>>
Appends(r, e, to) ==
  /\ Written(r, chain[r], e)
  /\ chain' = [chain EXCEPT ![r] = Append(@, e)]
  /\ stage' = [stage EXCEPT ![r] = to]
  /\ UNCHANGED who

-----------------------------------------------------------------------------
(* One request: open_request, OpenedRequest and execute_turn.               *)

(* Journal::create refuses an id that has a directory.                       *)
CreateJournal(w, r) ==
  /\ r \notin dirs
  /\ dirs' = dirs \cup {r}
  /\ who' = [who EXCEPT ![r] = w]
  /\ stage' = [stage EXCEPT ![r] = "opening"]
  /\ UNCHANGED <<files, receipts, chain, lost, recovery>>

(* The sidecars and `accepted`. When one of them cannot be written, serve    *)
(* removes the directory and `run` leaves it.                                *)
Accept(r) ==
  /\ stage[r] = "opening"
  /\ \/ Appends(r, "accepted", "running") /\ UNCHANGED dirs
     \/ /\ NotWritten(r) /\ Closes(r)
        /\ dirs' = IF who[r] \in Procs THEN dirs \ {r} ELSE dirs
  /\ UNCHANGED <<receipts, recovery>>

(* Faulty: a handle that is dropped is not sealed.                           *)
EndsUnsealed(r) ==
  /\ stage[r] = "running"
  /\ Closes(r)
  /\ UNCHANGED <<store, lost, recovery>>
(* The completion ends, one way or another. A stream that breaks is sealed   *)
(* as failed, or as cancelled when the client cannot even be told ("ending"). *)
(* `run` may return without sealing, on a text it cannot decode.             *)
Ends(r) ==
  /\ stage[r] = "running"
  /\ \/ \E to \in {"publishing", "sealing"} : To(r, to)
     \/ who[r] \in Procs /\ \E to \in {"cancelling", "ending"} : To(r, to)
     \/ who[r] \in Runners /\ Closes(r)
  /\ UNCHANGED <<store, lost, recovery>>

(* Where an error leaves the handle: serve has more to try, `run` returns.   *)
GivesUp(r, to) == IF who[r] \in Runners THEN Closes(r) ELSE To(r, to)

Publish(r) ==
  /\ stage[r] = "publishing"
  /\ \/ /\ Len(chain[r]) <= MaxTokens + 1
        /\ Appends(r, IF Len(chain[r]) = 1 THEN "prefill" ELSE "token", "publishing")
     \/ Len(chain[r]) > 1 /\ Appends(r, "completed", "storing")
     \/ NotWritten(r) /\ GivesUp(r, "sealing")
  /\ UNCHANGED <<dirs, receipts, recovery>>

StoreReceipt(r) ==
  /\ stage[r] = "storing"
  /\ \/ receipts' = receipts \cup {r} /\ Closes(r) /\ UNCHANGED lost
     \/ /\ lost' = lost \cup {r} /\ Cardinality(lost') <= MaxLost
        /\ GivesUp(r, "sealing") /\ UNCHANGED receipts
  /\ UNCHANGED <<dirs, files, recovery>>

(* seal_failed, seal_cancelled, the end of a stream, and Drop: each is tried *)
(* when the one before could not write.                                      *)
SealAs(r, from, events, next) ==
  /\ stage[r] = from
  /\ \/ \E e \in events : Written(r, chain[r], e) /\ Closes(r)
     \/ NotWritten(r) /\ \E to \in next : GivesUp(r, to)
  /\ UNCHANGED <<dirs, receipts, recovery>>
SealFailed(r) == SealAs(r, "sealing", {"failed"}, {"ending", "dropping"})
SealCancelled(r) == SealAs(r, "cancelling", {"cancelled"}, {"ending", "dropping"})
SealEnding(r) == SealAs(r, "ending", {"failed", "cancelled"}, {"dropping"})
Drop(r) ==
  /\ stage[r] = "dropping"
  /\ Written(r, chain[r], "failed") \/ NotWritten(r)
  /\ Closes(r)
  /\ UNCHANGED <<dirs, receipts, recovery>>

Handle(r) ==
  \/ Accept(r) \/ Ends(r) \/ Publish(r) \/ StoreReceipt(r)
  \/ SealFailed(r) \/ SealCancelled(r) \/ SealEnding(r) \/ Drop(r)

(* Faulty: the handles of a process that ends stay where they are.          *)
DiesOpen(w) ==
  /\ who' = [r \in Ids |-> IF who[r] = w THEN Nobody ELSE who[r]]
  /\ UNCHANGED <<stage, chain>>
(* A process ends, and its handles with it.                                  *)
Dies(w) ==
  /\ who' = [r \in Ids |-> IF who[r] = w THEN Nobody ELSE who[r]]
  /\ stage' = [r \in Ids |-> IF who[r] = w THEN "closed" ELSE stage[r]]
  /\ chain' = [r \in Ids |-> IF who[r] = w THEN <<>> ELSE chain[r]]

-----------------------------------------------------------------------------
(* recover_open_journals, one directory after another in the order of ids.  *)

First(S) == CHOOSE r \in S : \A q \in S : r <= q
Visits(p) == rec[p] = "visit" /\ todo[p] # {}
Recovering(p, to) == rec' = [rec EXCEPT ![p] = to]

(* Faulty: a start that does not look at the journals.                      *)
ListNothing(p) ==
  /\ rec[p] = "list"
  /\ Recovering(p, "visit")
  /\ UNCHANGED <<store, handles, lost, todo, found>>
List(p) ==
  /\ rec[p] = "list"
  /\ Recovering(p, "visit")
  /\ todo' = [todo EXCEPT ![p] = dirs]
  /\ UNCHANGED <<store, handles, lost, found>>

(* Faulty: seals a journal that has ended.                                  *)
SealsAnything(F) == StartsAccepted(F)
NeedsSeal(F) == Open(F)
Unaccepted(F) == F = {}

(* recover_one up to its decision: remove a directory without events, leave  *)
(* a sealed chain, seal an open one, and give up on any other.               *)
Visit(p) ==
  /\ Visits(p)
  /\ LET r == First(todo[p])
         F == files[r]
     IN IF r \notin dirs THEN Recovering(p, "error") /\ UNCHANGED <<todo, found>>
        ELSE IF Unaccepted(F) THEN Recovering(p, "remove") /\ UNCHANGED <<todo, found>>
        ELSE IF NeedsSeal(F)
          THEN /\ Recovering(p, "seal")
               /\ found' = [found EXCEPT ![p] = ReadChain(F)]
               /\ UNCHANGED todo
        ELSE IF Sealed(F)
          THEN /\ todo' = [todo EXCEPT ![p] = @ \ {r}]
               /\ UNCHANGED <<rec, found>>
          ELSE Recovering(p, "error") /\ UNCHANGED <<todo, found>>
  /\ UNCHANGED <<store, handles, lost>>

RemoveUnaccepted(p) ==
  /\ rec[p] = "remove"
  /\ LET r == First(todo[p])
     IN /\ dirs' = dirs \ {r}
        /\ files' = [files EXCEPT ![r] = {}]
        /\ todo' = [todo EXCEPT ![p] = @ \ {r}]
  /\ Recovering(p, "visit")
  /\ UNCHANGED <<receipts, handles, lost, found>>

Seal(p) ==
  /\ rec[p] = "seal"
  /\ LET r == First(todo[p])
     IN \/ /\ Written(r, found[p], "workerLost")
           /\ todo' = [todo EXCEPT ![p] = @ \ {r}]
           /\ Recovering(p, "visit")
        \/ NotWritten(r) /\ Recovering(p, "error") /\ UNCHANGED todo
  /\ UNCHANGED <<dirs, receipts, handles, found>>

Recover(p) == List(p) \/ Visit(p) \/ RemoveUnaccepted(p) \/ Seal(p)
RecoveryDone(p) == rec[p] = "visit" /\ todo[p] = {}
RecoveryError(p) == rec[p] = "error"

(* The locals of a recovery end with it.                                     *)
Forgets(p) ==
  /\ rec' = [rec EXCEPT ![p] = "list"]
  /\ todo' = [todo EXCEPT ![p] = {}]
  /\ found' = [found EXCEPT ![p] = <<>>]

-----------------------------------------------------------------------------
JournalTypeOK ==
  /\ dirs \subseteq Ids
  /\ receipts \subseteq Ids
  /\ lost \subseteq Ids
  /\ \A r \in Ids :
       /\ \A c \in files[r] : c \in Seq(Events) /\ Len(c) \in 1 .. MaxTokens + 4
       /\ who[r] \in Procs \cup Runners \cup {Nobody}
       /\ stage[r] \in {"closed", "opening", "running", "publishing", "storing",
                        "sealing", "cancelling", "ending", "dropping"}
       /\ stage[r] = "closed" <=> who[r] = Nobody
  /\ \A p \in Procs :
       /\ rec[p] \in {"list", "visit", "remove", "seal", "error"}
       /\ todo[p] \subseteq Ids

(* Every journal that has an event verifies from `accepted` on, at every      *)
(* moment and whatever writer stopped where; so no start can fail on one.    *)
JournalsVerify == \A r \in Ids : files[r] # {} => StartsAccepted(files[r])

(* "Seal journals left open by a process that died after `accepted`."         *)
(* (journal.rs:124) A recovery appends to a journal only if no process has   *)
(* its handle any more.                                                      *)
RecoverySealsOnlyDead ==
  [][\A r \in Ids :
       (\E c \in files'[r] \ files[r] : Last(c) = "workerLost")
         => who[r] = Nobody]_journalVars
=============================================================================
