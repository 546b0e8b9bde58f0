----------------------------- MODULE DaemonLock -----------------------------
(***************************************************************************)
(* The ownership of a home directory by a `knolo-infer serve` process:     *)
(* crates/infer-serve/src/daemon_lock.rs, one action per operation on the  *)
(* file system. Every operation names the lock by its path, so it acts on  *)
(* whatever directory is there when it runs. A process may be killed       *)
(* between any two operations, and a file operation of the claim may fail. *)
(*                                                                         *)
(* A member of Procs is one life of a process: a pid with its start time.  *)
(* Lives are numbered in the order in which they start. Two of them may    *)
(* have the same pid, not at the same time.                                *)
(***************************************************************************)
EXTENDS HomeProcesses

CONSTANTS
  PidOf,      \* the pid of each
  MaxTries,   \* rounds of the claim (8 in the code)
  MaxFaults,  \* bound: file operations that fail
  Overlap     \* whether a start may claim while another one does

ASSUME ProcsAssumption == Procs \subseteq Nat
ASSUME TriesAssumption == MaxTries \in Nat \ {0}
ASSUME FaultsAssumption == MaxFaults \in Nat
ASSUME OverlapAssumption == Overlap \in BOOLEAN

VARIABLES
  pc,      \* the operation each process performs next
  tries,   \* rounds its claim has begun
  seen,    \* the owner it has read
  dir,     \* whether {home}/daemon.lock exists
  owner,   \* who its owner file names, Nobody when there is no such file
  tmps,    \* the processes whose temporary owner file is in it
  faults   \* file operations that have failed
lockVars == <<pc, tries, seen, dir, owner, tmps, faults>>
disk == <<dir, owner, tmps>>
claim == <<tries, seen>>

Claiming ==
  {"create", "read", "probe", "bury", "chmod", "tmp", "install", "mode",
   "undo", "undoDir"}
Holding == {"recover", "serving"}
Leaving == {"check", "wipe", "rmdir", "exiting"}
Ended == {"refused", "gone"}

Alive(p) == pc[p] \notin {"idle"} \cup Ended

Goto(p, where) == pc' = [pc EXCEPT ![p] = where]
(* A process leaves its claim: the locals of `claim` end with it.            *)
Leave(p, where) ==
  /\ Goto(p, where)
  /\ tries' = [tries EXCEPT ![p] = 0]
  /\ seen' = [seen EXCEPT ![p] = Nobody]

LockInit ==
  /\ pc = [p \in Procs |-> "idle"]
  /\ tries = [p \in Procs |-> 0]
  /\ seen = [p \in Procs |-> Nobody]
  /\ dir = FALSE /\ owner = Nobody /\ tmps = {}
  /\ faults = 0

-----------------------------------------------------------------------------
(* The claim.                                                               *)

MayStart(p) ==
  /\ pc[p] = "idle"
  /\ \A q \in Procs : q < p => pc[q] # "idle"
  /\ \A q \in Procs : Alive(q) => PidOf[q] # PidOf[p]
  /\ Overlap \/ \A q \in Procs : pc[q] \notin Claiming

Start(p) ==
  /\ MayStart(p)
  /\ Goto(p, "create")
  /\ UNCHANGED <<claim, disk, faults>>

(* Faulty: create_dir_all, which is content with a directory that exists.   *)
CreateAll(p) ==
  /\ pc[p] = "create"
  /\ dir' = TRUE
  /\ Goto(p, "chmod")
  /\ UNCHANGED <<claim, owner, tmps, faults>>
Create(p) ==
  /\ pc[p] = "create"
  /\ IF tries[p] = MaxTries
       THEN Leave(p, "refused") /\ UNCHANGED dir
       ELSE /\ tries' = [tries EXCEPT ![p] = @ + 1]
            /\ dir' = TRUE
            /\ Goto(p, IF dir THEN "read" ELSE "chmod")
            /\ UNCHANGED seen
  /\ UNCHANGED <<owner, tmps, faults>>

(* owner_state: a directory that is gone and one without an owner file look  *)
(* alike.                                                                    *)
Read(p) ==
  /\ pc[p] = "read"
  /\ seen' = [seen EXCEPT ![p] = owner]
  /\ Goto(p, "probe")
  /\ UNCHANGED <<tries, disk, faults>>

(* /proc/<pid>/stat: a live process with that pid, and the start time it has. *)
OwnerLives(o) == \E q \in Procs : Alive(q) /\ PidOf[q] = PidOf[o] /\ q = o
PidLives(o) == \E q \in Procs : Alive(q) /\ PidOf[q] = PidOf[o]

(* Faulty: the start time is not compared.                                  *)
HeldByPid(o) == o # Nobody /\ PidLives(o)
Held(o) == o # Nobody /\ OwnerLives(o)

Probe(p) ==
  /\ pc[p] = "probe"
  /\ seen' = [seen EXCEPT ![p] = Nobody]
  /\ IF Held(seen[p])
       THEN Goto(p, "refused") /\ tries' = [tries EXCEPT ![p] = 0]
       ELSE Goto(p, "bury") /\ UNCHANGED tries
  /\ UNCHANGED <<disk, faults>>

(* rename to a grave of its own; the rename fails when nothing is there, and *)
(* the claim goes on with its next round either way.                         *)
Bury(p) ==
  /\ pc[p] = "bury"
  /\ dir' = FALSE /\ owner' = Nobody /\ tmps' = {}
  /\ Goto(p, "create")
  /\ UNCHANGED <<claim, faults>>

(* An operation of install_owner: it goes on if it can and does not fail,    *)
(* otherwise the claim is undone.                                            *)
Fault == faults < MaxFaults /\ faults' = faults + 1
Installs(p, can, next) ==
  \/ /\ IF can THEN Goto(p, next) /\ UNCHANGED claim ELSE Leave(p, "undo")
     /\ UNCHANGED faults
  \/ can /\ Leave(p, "undo") /\ Fault

Chmod(p) ==
  /\ pc[p] = "chmod"
  /\ Installs(p, dir, "tmp")
  /\ UNCHANGED disk

WriteTmp(p) ==
  /\ pc[p] = "tmp"
  /\ Installs(p, dir, "install")
  /\ tmps' = IF pc'[p] = "install" THEN tmps \cup {p} ELSE tmps
  /\ UNCHANGED <<dir, owner>>

Install(p) ==
  /\ pc[p] = "install"
  /\ Installs(p, dir /\ p \in tmps, "mode")
  /\ owner' = IF pc'[p] = "mode" THEN p ELSE owner
  /\ tmps' = tmps \ {p}
  /\ UNCHANGED dir

Mode(p) ==
  /\ pc[p] = "mode"
  /\ LET can == dir /\ owner # Nobody
     IN \/ Leave(p, IF can THEN "recover" ELSE "undo") /\ UNCHANGED faults
        \/ can /\ Leave(p, "undo") /\ Fault
  /\ UNCHANGED disk

(* remove_path: the entries of the directory first, then the directory if it *)
(* is empty.                                                                 *)
Empty(p, from, to) ==
  /\ pc[p] = from
  /\ Goto(p, to)
  /\ owner' = Nobody /\ tmps' = {}
  /\ UNCHANGED <<claim, dir, faults>>
RemoveDir(p, from, to) ==
  /\ pc[p] = from
  /\ Goto(p, to)
  /\ dir' = (dir /\ (owner # Nobody \/ tmps # {}))
  /\ UNCHANGED <<claim, owner, tmps, faults>>

Undo(p) == Empty(p, "undo", "undoDir") \/ RemoveDir(p, "undoDir", "gone")

-----------------------------------------------------------------------------
(* The owner.                                                               *)

Moves(p, from, to) ==
  /\ pc[p] = from
  /\ Goto(p, to)
  /\ UNCHANGED <<claim, disk, faults>>

(* recover_open_journals returns: the process listens, or gives up.          *)
Recovered(p) == Moves(p, "recover", "serving")
RecoveryFails(p) == Moves(p, "recover", "check")
Shutdown(p) == Moves(p, "serving", "check")

(* release removes the lock if its owner file names this process.            *)
OwnerIsUs(p) == owner = p
Check(p) == Moves(p, "check", IF OwnerIsUs(p) THEN "wipe" ELSE "exiting")
Release(p) ==
  Check(p) \/ Empty(p, "wipe", "rmdir") \/ RemoveDir(p, "rmdir", "exiting")
Exit(p) == Moves(p, "exiting", "gone")

Kill(p) ==
  /\ Alive(p)
  /\ Leave(p, "gone")
  /\ UNCHANGED <<disk, faults>>

Claim(p) ==
  \/ Create(p) \/ Read(p) \/ Probe(p) \/ Bury(p)
  \/ Chmod(p) \/ WriteTmp(p) \/ Install(p) \/ Mode(p) \/ Undo(p)

LockNext ==
  \E p \in Procs :
    \/ Start(p) \/ Claim(p) \/ Recovered(p) \/ RecoveryFails(p)
    \/ Shutdown(p) \/ Release(p) \/ Exit(p) \/ Kill(p)

LockSpec == LockInit /\ [][LockNext]_lockVars

-----------------------------------------------------------------------------
LockTypeOK ==
  /\ pc \in [Procs -> {"idle"} \cup Claiming \cup Holding \cup Leaving \cup Ended]
  /\ tries \in [Procs -> 0 .. MaxTries]
  /\ seen \in [Procs -> Procs \cup {Nobody}]
  /\ dir \in BOOLEAN
  /\ owner \in Procs \cup {Nobody}
  /\ tmps \subseteq Procs
  /\ faults \in 0 .. MaxFaults

(* "One `knolo-infer serve` process owns a home directory." (daemon_lock.rs:1) *)
(* Two processes never recover or serve the same home at the same time.        *)
OneOwner ==
  \A p, q \in Procs : pc[p] \in Holding /\ pc[q] \in Holding => p = q

(* While a process owns the home, the directory on disk says so: it is there *)
(* and its owner file names that process, whatever others have tried.        *)
OwnerOnDisk == \A p \in Procs : pc[p] \in Holding => dir /\ owner = p

(* A start is refused only while another process lives: what a killed process *)
(* left behind, complete or half made, never keeps the next one out, also when *)
(* its pid is in use again.                                                  *)
RefusedOnlyByLive ==
  [][\A p \in Procs :
       pc[p] # "refused" /\ pc'[p] = "refused"
         => \E q \in Procs \ {p} : Alive(q)]_lockVars
=============================================================================
