------------------------------ MODULE ServeHome -----------------------------
(***************************************************************************)
(* A home directory and everything that works in it: serve processes that  *)
(* take the daemon lock, recover the journals, listen, handle requests and *)
(* stop or are killed, and `knolo-infer run` processes, which take no      *)
(* lock. It composes DaemonLock and RequestJournal: recovery runs while    *)
(* the lock is held, handlers run while the process lives.                 *)
(***************************************************************************)
EXTENDS DaemonLock, RequestJournal

CONSTANTS
  Strays    \* whether a writer that the lock does not cover may be at work
            \* while a process starts: a `run`, or a handler that outlives
            \* the two seconds that shutdown waits for it

ASSUME StraysAssumption == Strays \in BOOLEAN

VARIABLES
  ran       \* the runners that have been started
vars == <<lockVars, journalVars, ran>>

ServeIds == Ids \ RunIds
Idle(w) == \A r \in Ids : who[r] # w
Running(c) == who[RunId[c]] = c

Init == LockInit /\ JournalInit /\ ran = {}

Starting(p) == pc[p] \in Claiming \cup {"recover"}

(* A request reaches a process that listens, with an id of the client's      *)
(* choice or the process's.                                                  *)
Request(p, r) ==
  /\ pc[p] = "serving"
  /\ CreateJournal(p, r)
  /\ UNCHANGED <<lockVars, ran>>

Run(c) ==
  /\ c \notin ran /\ ran' = ran \cup {c}
  /\ Strays \/ \A p \in Procs : ~Starting(p)
  /\ CreateJournal(c, RunId[c])
  /\ UNCHANGED lockVars

HandleStep(r) == Handle(r) /\ UNCHANGED <<lockVars, ran>>

ClaimStep(p) == Claim(p) /\ UNCHANGED <<journalVars, ran>>
StartStep(p) ==
  /\ Strays \/ \A c \in Runners : Idle(c)
  /\ Start(p) /\ UNCHANGED <<journalVars, ran>>

RecoverStep(p) ==
  /\ pc[p] = "recover"
  /\ Recover(p)
  /\ UNCHANGED <<lockVars, ran>>
ListenStep(p) ==
  /\ RecoveryDone(p) /\ Recovered(p) /\ Forgets(p)
  /\ UNCHANGED <<store, handles, lost, ran>>
GiveUpStep(p) ==
  /\ RecoveryError(p) /\ RecoveryFails(p) /\ Forgets(p)
  /\ UNCHANGED <<store, handles, lost, ran>>

(* Faulty: shutdown gives the lock back while its handlers run.             *)
NoWait(p) == TRUE
(* shutdown waits for its handlers before it gives the lock back, for two    *)
(* seconds.                                                                  *)
HandlersDone(p) == Idle(p) \/ Strays
ShutdownStep(p) ==
  /\ HandlersDone(p)
  /\ Shutdown(p) /\ UNCHANGED <<journalVars, ran>>
ReleaseStep(p) == Release(p) /\ UNCHANGED <<journalVars, ran>>

ExitStep(p) ==
  /\ Exit(p) /\ Dies(p)
  /\ UNCHANGED <<store, lost, recovery, ran>>
KillStep(p) ==
  /\ Kill(p) /\ Dies(p) /\ Forgets(p)
  /\ UNCHANGED <<store, lost, ran>>
KillRun(c) ==
  /\ ~Idle(c) /\ Dies(c)
  /\ UNCHANGED <<lockVars, store, lost, recovery, ran>>

Step(p) ==
  \/ ClaimStep(p) \/ RecoverStep(p) \/ ListenStep(p) \/ GiveUpStep(p)
  \/ ReleaseStep(p) \/ ExitStep(p)

Next ==
  \/ \E p \in Procs : StartStep(p) \/ Step(p) \/ ShutdownStep(p) \/ KillStep(p)
  \/ \E p \in Procs, r \in ServeIds : Request(p, r)
  \/ \E r \in Ids : HandleStep(r)
  \/ \E c \in Runners : Run(c) \/ KillRun(c)

Spec == Init /\ [][Next]_vars

(* Processes and handlers that live keep going, and serve is started again   *)
(* while there is a start left to make.                                      *)
FairSpec ==
  /\ Spec
  /\ \A p \in Procs : WF_vars(Step(p))
  /\ \A r \in Ids : WF_vars(HandleStep(r))
  /\ WF_vars(\E p \in Procs : StartStep(p))

-----------------------------------------------------------------------------
TypeOK == LockTypeOK /\ JournalTypeOK /\ ran \subseteq Runners

(* "appends `failed` before the next process listens" (journal.rs:4): while a *)
(* process serves, each journal that stands open is one that a handler is     *)
(* working on, or could not write. Journals of `run` come and go freely.     *)
OpenMeansHandled ==
  \A p \in Procs : pc[p] = "serving" =>
    \A r \in ServeIds \ lost : Open(files[r]) => who[r] # Nobody

(* An accepted request ends sealed, whatever dies on the way, unless nobody   *)
(* is left to start serve, or the process that serves has not been restarted *)
(* since the journal was left open by a run or by a write that failed.       *)
Served(r) == \E p \in Procs : pc[p] = "serving" /\ r \in lost \cup RunIds
Deserted == \A p \in Procs : pc[p] \in Ended
AcceptedIsSealed ==
  \A r \in Ids : Open(files[r]) ~> Sealed(files[r]) \/ Served(r) \/ Deserted

(* The journals and receipts implement the record of each request. In        *)
(* particular a stored receipt belongs to a journal that ends at `completed`: *)
(* neither its handler nor a later recovery appends anything behind it.      *)
RecordOf(r) ==
  LET state == State(files[r])
  IN  IF r \in receipts /\ state = "completed" THEN "published" ELSE state
Record == INSTANCE RequestRecord WITH record <- [r \in Ids |-> RecordOf(r)]
RecordSpec == Record!Spec
=============================================================================
