------------------------- MODULE DaemonLock_proofs -------------------------
(***************************************************************************)
(* Theorems about DaemonLock for any processes, pids, rounds and faults.   *)
(*                                                                         *)
(* The types hold without a condition. The ownership of the home holds     *)
(* while starts do not overlap (~Overlap); the run two_starts shows that   *)
(* it does not hold otherwise. The inductive invariant follows the owner   *)
(* file: whoever is past its claim and has not begun to remove the lock is *)
(* named in it, so a claim that finds somebody else's directory reads that *)
(* name before it may touch anything, and a claim that made the directory  *)
(* itself knows that nobody is.                                            *)
(*                                                                         *)
(* A claim and a release end whatever the others do to the directory: the  *)
(* operations a process has before it are counted, and only its own lower  *)
(* the count. That needs no condition either.                              *)
(***************************************************************************)
EXTENDS DaemonLock, TLAPS

Where == {"idle"} \cup Claiming \cup Holding \cup Leaving \cup Ended

LEMMA InitTypes == LockInit => LockTypeOK
<1> SUFFICES ASSUME LockInit PROVE LockTypeOK
  OBVIOUS
<1>1. pc \in [Procs -> Where]
  BY DEF LockInit, Where
<1>2. tries \in [Procs -> 0 .. MaxTries] /\ faults \in 0 .. MaxFaults
  BY TriesAssumption, FaultsAssumption DEF LockInit
<1>3. seen \in [Procs -> Procs \cup {Nobody}] /\ dir \in BOOLEAN
  BY DEF LockInit
<1>4. owner \in Procs \cup {Nobody} /\ tmps \subseteq Procs
  BY DEF LockInit
<1> QED
  BY <1>1, <1>2, <1>3, <1>4 DEF LockTypeOK, Where

(* Every operation writes values of the right type.                        *)
LEMMA StepTypes == LockTypeOK /\ [LockNext]_lockVars => LockTypeOK'
<1> SUFFICES ASSUME LockTypeOK, [LockNext]_lockVars PROVE LockTypeOK'
  OBVIOUS
<1> USE TriesAssumption, FaultsAssumption
        DEF LockTypeOK, Claiming, Holding, Leaving, Ended
<1>1. CASE UNCHANGED lockVars
  BY <1>1 DEF lockVars
<1>2. ASSUME NEW p \in Procs, Start(p) PROVE LockTypeOK'
  BY <1>2 DEF Start, Goto, claim, disk
<1>3. ASSUME NEW p \in Procs, Create(p) PROVE LockTypeOK'
  <2>1. CASE tries[p] = MaxTries
    BY <1>3, <2>1 DEF Create, Leave, Goto
  <2>2. CASE tries[p] # MaxTries
    BY <1>3, <2>2 DEF Create, Leave, Goto
  <2> QED
    BY <2>1, <2>2
<1>4. ASSUME NEW p \in Procs, Read(p) \/ Probe(p) \/ Bury(p) PROVE LockTypeOK'
  <2>1. CASE Read(p)
    BY <2>1 DEF Read, Goto, disk
  <2>2. CASE Probe(p)
    BY <2>2 DEF Probe, Goto, disk
  <2>3. CASE Bury(p)
    BY <2>3 DEF Bury, Goto, claim
  <2> QED
    BY <1>4, <2>1, <2>2, <2>3
<1>5. ASSUME NEW p \in Procs, Chmod(p) \/ WriteTmp(p) PROVE LockTypeOK'
  BY <1>5 DEF Chmod, WriteTmp, Installs, Fault, Leave, Goto, claim, disk
<1>6. ASSUME NEW p \in Procs, Install(p) \/ Mode(p) PROVE LockTypeOK'
  BY <1>6 DEF Install, Mode, Installs, Fault, Leave, Goto, claim, disk
<1>7. ASSUME NEW p \in Procs, Undo(p) \/ Release(p) PROVE LockTypeOK'
  BY <1>7 DEF Undo, Release, Check, Moves, Empty, RemoveDir, Goto, claim, disk
<1>8. ASSUME NEW p \in Procs,
             Recovered(p) \/ RecoveryFails(p) \/ Shutdown(p) \/ Exit(p)
      PROVE  LockTypeOK'
  BY <1>8 DEF Recovered, RecoveryFails, Shutdown, Exit, Moves, Goto, claim, disk
<1>9. ASSUME NEW p \in Procs, Kill(p) PROVE LockTypeOK'
  BY <1>9 DEF Kill, Leave, Goto, disk
<1> QED
  BY <1>1, <1>2, <1>3, <1>4, <1>5, <1>6, <1>7, <1>8, <1>9 DEF LockNext, Claim

(* Every variable of the lock keeps its type.                              *)
THEOREM LockTypeCorrect == LockSpec => []LockTypeOK
BY InitTypes, StepTypes, PTL DEF LockSpec

-----------------------------------------------------------------------------
(* The processes that the owner file names, and the steps of a claim at     *)
(* which no process is one of them.                                         *)
Named == Holding \cup {"check", "wipe"}
Exclusive == {"bury", "chmod", "tmp", "install", "mode", "undo", "undoDir"}

OneClaim ==
  \A p, q \in Procs : pc[p] \in Claiming /\ pc[q] \in Claiming => p = q
NamedOnDisk ==
  \A p \in Procs : pc[p] \in Named \cup {"mode"} => dir /\ owner = p
AloneWhenExclusive ==
  \A p, q \in Procs : pc[p] \in Exclusive => pc[q] \notin Named
ProbesTheNamed ==
  \A p, q \in Procs : pc[p] = "probe" /\ pc[q] \in Named => seen[p] = q

Ownership ==
  /\ OneClaim
  /\ NamedOnDisk
  /\ AloneWhenExclusive
  /\ ProbesTheNamed

OwnerInv == LockTypeOK /\ Ownership

(* A claim works in a fresh directory after at most one round on a stale    *)
(* one, and never meets its own name.                                       *)
ClaimInv ==
  \A p \in Procs :
    /\ pc[p] \in {"idle", "create", "read", "probe", "bury"} => owner # p /\ seen[p] # p
    /\ pc[p] \in {"read", "probe", "bury"} => tries[p] = 1
    /\ pc[p] = "idle" => tries[p] = 0
    /\ pc[p] = "create" => tries[p] = 0 \/ (tries[p] = 1 /\ ~dir)

LEMMA InitOwner == LockInit => OwnerInv
<1> SUFFICES ASSUME LockInit PROVE OwnerInv
  OBVIOUS
<1>1. \A p \in Procs : pc[p] = "idle"
  BY DEF LockInit
<1> QED
  BY <1>1, InitTypes
  DEF OwnerInv, Ownership, OneClaim, NamedOnDisk, AloneWhenExclusive, ProbesTheNamed,
      Claiming, Holding, Named, Exclusive

(* One step of the process p keeps the ownership.                          *)
LEMMA StepOwner ==
  ASSUME ~Overlap, OwnerInv, [LockNext]_lockVars
  PROVE  OwnerInv'
<1> USE NobodyAssumption
    DEF Ownership, OneClaim, NamedOnDisk, AloneWhenExclusive, ProbesTheNamed,
        Claiming, Holding, Named, Exclusive
<1>t. LockTypeOK /\ LockTypeOK'
  BY StepTypes DEF OwnerInv
<1>i. Ownership
  BY DEF OwnerInv
<1>pc. pc \in [Procs -> Where]
  BY <1>t DEF LockTypeOK, Where
<1>seen. seen \in [Procs -> Procs \cup {Nobody}]
  BY <1>t DEF LockTypeOK
<1>1. ASSUME UNCHANGED lockVars PROVE Ownership'
  <2>1. pc' = pc /\ seen' = seen /\ dir' = dir /\ owner' = owner
    BY <1>1 DEF lockVars
  <2> QED
    BY <2>1, <1>i
<1>2. ASSUME NEW p \in Procs, Start(p) PROVE Ownership'
  BY <1>2, <1>i, <1>pc DEF Start, MayStart, Goto, claim, disk
<1>3. ASSUME NEW p \in Procs, Create(p) PROVE Ownership'
  BY <1>3, <1>i, <1>pc, <1>seen DEF Create, Leave, Goto
<1>4. ASSUME NEW p \in Procs, Read(p) PROVE Ownership'
  BY <1>4, <1>i, <1>pc, <1>seen DEF Read, Goto, disk
<1>5. ASSUME NEW p \in Procs, Probe(p) PROVE Ownership'
  BY <1>5, <1>i, <1>pc, <1>seen
  DEF Probe, Held, OwnerLives, Alive, Ended, Goto, disk
<1>6. ASSUME NEW p \in Procs, Bury(p) PROVE Ownership'
  BY <1>6, <1>i, <1>pc DEF Bury, Goto, claim
<1>7. ASSUME NEW p \in Procs, Chmod(p) \/ WriteTmp(p) PROVE Ownership'
  BY <1>7, <1>i, <1>pc, <1>seen
  DEF Chmod, WriteTmp, Installs, Leave, Goto, claim, disk
<1>8. ASSUME NEW p \in Procs, Install(p) PROVE Ownership'
  BY <1>8, <1>i, <1>pc, <1>seen DEF Install, Installs, Leave, Goto, claim
<1>9. ASSUME NEW p \in Procs, Mode(p) PROVE Ownership'
  BY <1>9, <1>i, <1>pc, <1>seen DEF Mode, Leave, Goto, disk
<1>10. ASSUME NEW p \in Procs, Undo(p) PROVE Ownership'
  BY <1>10, <1>i, <1>pc DEF Undo, Empty, RemoveDir, Goto, claim
<1>11. ASSUME NEW p \in Procs, Release(p) PROVE Ownership'
  <2>1. CASE Check(p)
    BY <2>1, <1>i, <1>pc DEF Check, OwnerIsUs, Moves, Goto, claim, disk
  <2>2. CASE Empty(p, "wipe", "rmdir")
    BY <2>2, <1>i, <1>pc DEF Empty, Goto, claim
  <2>3. CASE RemoveDir(p, "rmdir", "exiting")
    BY <2>3, <1>i, <1>pc DEF RemoveDir, Goto, claim
  <2> QED
    BY <1>11, <2>1, <2>2, <2>3 DEF Release
<1>12. ASSUME NEW p \in Procs,
              Recovered(p) \/ RecoveryFails(p) \/ Shutdown(p) \/ Exit(p)
       PROVE  Ownership'
  BY <1>12, <1>i, <1>pc
  DEF Recovered, RecoveryFails, Shutdown, Exit, Moves, Goto, claim, disk
<1>13. ASSUME NEW p \in Procs, Kill(p) PROVE Ownership'
  BY <1>13, <1>i, <1>pc, <1>seen DEF Kill, Leave, Goto, disk
<1> HIDE DEF Ownership
<1>14. Ownership'
  BY <1>1, <1>2, <1>3, <1>4, <1>5, <1>6, <1>7, <1>8, <1>9, <1>10, <1>11, <1>12,
     <1>13
  DEF LockNext, Claim
<1> QED
  BY <1>14, <1>t DEF OwnerInv

(* While a process owns the home, the directory on disk names it, provided  *)
(* starts do not overlap.                                                   *)
THEOREM OwnerIsOnDisk ==
  ASSUME ~Overlap
  PROVE  LockSpec => []OwnerOnDisk
<1>1. OwnerInv /\ [LockNext]_lockVars => OwnerInv'
  BY StepOwner
<1>2. OwnerInv => OwnerOnDisk
  BY DEF OwnerInv, Ownership, NamedOnDisk, Named, OwnerOnDisk
<1> QED
  BY <1>1, <1>2, InitOwner, PTL DEF LockSpec

(* No two processes own the home at once, under the same proviso.           *)
THEOREM HomeHasOneOwner ==
  ASSUME ~Overlap
  PROVE  LockSpec => []OneOwner
<1>1. OwnerInv /\ [LockNext]_lockVars => OwnerInv'
  BY StepOwner
<1>2. OwnerInv => OneOwner
  BY DEF OwnerInv, Ownership, NamedOnDisk, Named, OneOwner
<1> QED
  BY <1>1, <1>2, InitOwner, PTL DEF LockSpec

-----------------------------------------------------------------------------
LEMMA InitClaim == LockInit => ClaimInv
<1> SUFFICES ASSUME LockInit, NEW p \in Procs
    PROVE  pc[p] = "idle" /\ tries[p] = 0 /\ owner # p /\ seen[p] # p
  BY DEF ClaimInv, LockInit
<1> QED
  BY NobodyAssumption DEF LockInit

(* Only its own steps move a claim on, and only a claim makes a directory.  *)
LEMMA StepClaim ==
  ASSUME ~Overlap, OwnerInv, ClaimInv, [LockNext]_lockVars
  PROVE  ClaimInv'
<1> USE NobodyAssumption DEF ClaimInv
<1>t. LockTypeOK
  BY DEF OwnerInv
<1>pc. pc \in [Procs -> Where]
  BY <1>t DEF LockTypeOK, Where
<1>tries. tries \in [Procs -> Nat] /\ seen \in [Procs -> Procs \cup {Nobody}]
  BY <1>t, TriesAssumption DEF LockTypeOK
<1>i. OneClaim
  BY DEF OwnerInv, Ownership
<1>1. ASSUME UNCHANGED lockVars PROVE ClaimInv'
  BY <1>1 DEF lockVars
<1>2. ASSUME NEW p \in Procs, Start(p) PROVE ClaimInv'
  BY <1>2, <1>pc, <1>tries DEF Start, MayStart, Goto, claim, disk
<1>3. ASSUME NEW p \in Procs, Create(p) PROVE ClaimInv'
  <2>1. \A q \in Procs : q # p => pc[q] # "create"
    BY <1>3, <1>i DEF Create, OneClaim, Claiming
  <2>2. CASE tries[p] = MaxTries
    BY <1>3, <2>1, <2>2, <1>pc, <1>tries DEF Create, Leave, Goto
  <2>3. CASE tries[p] # MaxTries
    BY <1>3, <2>1, <2>3, <1>pc, <1>tries DEF Create, Goto
  <2> QED
    BY <2>2, <2>3
<1>4. ASSUME NEW p \in Procs, Read(p) \/ Probe(p) PROVE ClaimInv'
  BY <1>4, <1>pc, <1>tries DEF Read, Probe, Goto, disk
<1>5. ASSUME NEW p \in Procs, Bury(p) PROVE ClaimInv'
  BY <1>5, <1>pc, <1>tries DEF Bury, Goto, claim
<1>6. ASSUME NEW p \in Procs, Chmod(p) \/ WriteTmp(p) \/ Mode(p) PROVE ClaimInv'
  BY <1>6, <1>pc, <1>tries
  DEF Chmod, WriteTmp, Mode, Installs, Leave, Goto, claim, disk
<1>7. ASSUME NEW p \in Procs, Install(p) PROVE ClaimInv'
  BY <1>7, <1>pc, <1>tries DEF Install, Installs, Leave, Goto, claim
<1>8. ASSUME NEW p \in Procs, Undo(p) \/ Release(p) PROVE ClaimInv'
  BY <1>8, <1>pc, <1>tries
  DEF Undo, Release, Check, Moves, Empty, RemoveDir, Goto, claim, disk
<1>9. ASSUME NEW p \in Procs,
             Recovered(p) \/ RecoveryFails(p) \/ Shutdown(p) \/ Exit(p)
      PROVE  ClaimInv'
  BY <1>9, <1>pc, <1>tries
  DEF Recovered, RecoveryFails, Shutdown, Exit, Moves, Goto, claim, disk
<1>10. ASSUME NEW p \in Procs, Kill(p) PROVE ClaimInv'
  BY <1>10, <1>pc, <1>tries DEF Kill, Leave, Goto, disk
<1> HIDE DEF ClaimInv
<1> QED
  BY <1>1, <1>2, <1>3, <1>4, <1>5, <1>6, <1>7, <1>8, <1>9, <1>10
  DEF LockNext, Claim

(* A start is refused only while another process lives, if starts do not    *)
(* overlap and a claim has more than one round.                             *)
THEOREM RefusalMeansLiveOwner ==
  ASSUME ~Overlap, MaxTries > 1
  PROVE  LockSpec => RefusedOnlyByLive
<1> DEFINE Refusal ==
      \A p \in Procs :
        pc[p] # "refused" /\ pc'[p] = "refused" => \E q \in Procs \ {p} : Alive(q)
<1>1. OwnerInv /\ ClaimInv /\ [LockNext]_lockVars => (OwnerInv /\ ClaimInv)'
  BY StepOwner, StepClaim
<1>2. ASSUME OwnerInv, ClaimInv, LockNext PROVE Refusal
  <2> SUFFICES ASSUME NEW p \in Procs, pc[p] # "refused", pc'[p] = "refused"
      PROVE  \E q \in Procs \ {p} : Alive(q)
    OBVIOUS
  <2>pc. pc \in [Procs -> Where]
    BY <1>2 DEF OwnerInv, LockTypeOK, Where
  <2>1. PICK x \in Procs :
          \/ Start(x) \/ Claim(x) \/ Recovered(x) \/ RecoveryFails(x)
          \/ Shutdown(x) \/ Release(x) \/ Exit(x) \/ Kill(x)
    BY <1>2 DEF LockNext
  <2>2. x = p /\ (Create(p) \/ Probe(p))
    <3>1. Create(x) \/ Probe(x)
      BY <2>1, <2>pc
      DEF Start, Claim, Read, Bury, Chmod, WriteTmp, Install, Mode, Undo,
          Installs, Recovered, RecoveryFails, Shutdown, Release, Check, Exit,
          Kill, Moves, Empty, RemoveDir, Leave, Goto
    <3> QED
      BY <3>1, <2>pc DEF Create, Probe, Leave, Goto
  <2>3. ~Create(p)
    BY <1>2, <2>pc, MaxTries > 1 DEF ClaimInv, Create, Goto
  <2>4. Held(seen[p]) /\ seen[p] # p
    BY <1>2, <2>2, <2>3, <2>pc DEF ClaimInv, Probe, Goto
  <2> QED
    BY <2>4 DEF Held, OwnerLives
<1>3. ASSUME OwnerInv, ClaimInv, [LockNext]_lockVars PROVE [Refusal]_lockVars
  BY <1>2, <1>3
<1> QED
  BY <1>1, <1>3, InitOwner, InitClaim, PTL DEF LockSpec, RefusedOnlyByLive

-----------------------------------------------------------------------------
(* Every claim comes to an end, and so does every release.                  *)

(* Operations a process has before it at most: the round of a claim it is   *)
(* in, the rounds it has left, and an installation or what undoes it; or a  *)
(* release.                                                                 *)
RoundsLeft(p) == 4 * (MaxTries - tries[p])
OperationsLeft(p) ==
  IF pc[p] = "read" THEN RoundsLeft(p) + 9
  ELSE IF pc[p] = "probe" THEN RoundsLeft(p) + 8
  ELSE IF pc[p] = "bury" THEN RoundsLeft(p) + 7
  ELSE IF pc[p] = "create" THEN RoundsLeft(p) + 6
  ELSE IF pc[p] = "chmod" THEN 6
  ELSE IF pc[p] = "tmp" THEN 5
  ELSE IF pc[p] \in {"install", "check"} THEN 4
  ELSE IF pc[p] \in {"mode", "wipe"} THEN 3
  ELSE IF pc[p] \in {"undo", "rmdir"} THEN 2
  ELSE IF pc[p] \in {"undoDir", "exiting"} THEN 1
  ELSE 0

(* What a process does with the lock.                                       *)
LockStep(p) ==
  \/ Start(p) \/ Claim(p) \/ Recovered(p) \/ RecoveryFails(p)
  \/ Shutdown(p) \/ Release(p) \/ Exit(p) \/ Kill(p)

(* acquire tries at most MaxTries times to make the directory, with at most  *)
(* three operations between two tries, and installs or undoes after the last *)
(* one; release has four operations.                                         *)
OperationsBounded == \A p \in Procs : OperationsLeft(p) \in 0 .. 4 * MaxTries + 9

(* Neither waits for anybody: each operation of a claim and of a release      *)
(* leaves the process fewer of them, and no step of another process, whatever *)
(* it makes of the directory, gives a process more.                          *)
ClaimsAreWaitFree ==
  [][\A p \in Procs :
       /\ Claim(p) \/ Release(p) \/ Exit(p) => OperationsLeft(p)' < OperationsLeft(p)
       /\ \A q \in Procs \ {p} : LockStep(q) => OperationsLeft(p)' = OperationsLeft(p)]_lockVars

LEMMA AlwaysBounded == LockTypeOK => OperationsBounded
<1> SUFFICES ASSUME LockTypeOK, NEW p \in Procs
             PROVE  OperationsLeft(p) \in 0 .. 4 * MaxTries + 9
  BY DEF OperationsBounded
<1>1. MaxTries \in Nat /\ RoundsLeft(p) \in 0 .. 4 * MaxTries
  BY TriesAssumption DEF LockTypeOK, RoundsLeft
<1>2. \/ OperationsLeft(p) \in {0, 1, 2, 3, 4, 5, 6}
      \/ \E n \in {6, 7, 8, 9} : OperationsLeft(p) = RoundsLeft(p) + n
  BY DEF OperationsLeft
<1> QED
  BY <1>1, <1>2

LEMMA RoundLowers ==
  ASSUME LockTypeOK, NEW p \in Procs, Create(p) \/ Read(p) \/ Probe(p) \/ Bury(p)
  PROVE  OperationsLeft(p)' < OperationsLeft(p)
<1>0. MaxTries \in Nat /\ tries[p] \in 0 .. MaxTries /\ RoundsLeft(p) \in Nat
  BY TriesAssumption DEF LockTypeOK, RoundsLeft
<1>1. CASE Create(p)
  <2>1. OperationsLeft(p) = RoundsLeft(p) + 6
    BY <1>1 DEF Create, OperationsLeft
  <2>2. CASE tries[p] = MaxTries
    <3>1. pc'[p] = "refused"
      BY <1>1, <2>2 DEF Create, Leave, Goto, LockTypeOK
    <3>2. OperationsLeft(p)' = 0
      BY <3>1 DEF OperationsLeft
    <3> QED
      BY <1>0, <2>1, <3>2
  <2>3. CASE tries[p] # MaxTries
    <3>1. pc'[p] \in {"read", "chmod"} /\ tries'[p] = tries[p] + 1
      BY <1>1, <2>3 DEF Create, Goto, LockTypeOK
    <3>2. RoundsLeft(p)' = RoundsLeft(p) - 4 /\ RoundsLeft(p) >= 4
      BY <1>0, <2>3, <3>1 DEF RoundsLeft
    <3>3. OperationsLeft(p)' = RoundsLeft(p)' + 9 \/ OperationsLeft(p)' = 6
      BY <3>1 DEF OperationsLeft
    <3> QED
      BY <1>0, <2>1, <3>2, <3>3
  <2> QED
    BY <2>2, <2>3
<1>2. CASE Probe(p) /\ Held(seen[p])
  <2>1. pc[p] = "probe" /\ pc'[p] = "refused"
    BY <1>2 DEF Probe, Goto, LockTypeOK
  <2>2. OperationsLeft(p) = RoundsLeft(p) + 8 /\ OperationsLeft(p)' = 0
    BY <2>1 DEF OperationsLeft
  <2> QED
    BY <1>0, <2>2
<1>3. CASE Read(p) \/ (Probe(p) /\ ~Held(seen[p])) \/ Bury(p)
  <2>1. /\ tries' = tries
        /\ \/ pc[p] = "read" /\ pc'[p] = "probe"
           \/ pc[p] = "probe" /\ pc'[p] = "bury"
           \/ pc[p] = "bury" /\ pc'[p] = "create"
    BY <1>3 DEF Read, Probe, Bury, Goto, claim, LockTypeOK
  <2>2. RoundsLeft(p)' = RoundsLeft(p)
    BY <2>1 DEF RoundsLeft
  <2>3. \/ OperationsLeft(p) = RoundsLeft(p) + 9 /\ OperationsLeft(p)' = RoundsLeft(p) + 8
        \/ OperationsLeft(p) = RoundsLeft(p) + 8 /\ OperationsLeft(p)' = RoundsLeft(p) + 7
        \/ OperationsLeft(p) = RoundsLeft(p) + 7 /\ OperationsLeft(p)' = RoundsLeft(p) + 6
    BY <2>1, <2>2 DEF OperationsLeft
  <2> QED
    BY <1>0, <2>3
<1> QED
  BY <1>1, <1>2, <1>3

LEMMA InstallationLowers ==
  ASSUME LockTypeOK, NEW p \in Procs,
         \/ Chmod(p) \/ WriteTmp(p) \/ Install(p) \/ Mode(p) \/ Undo(p)
         \/ Release(p) \/ Exit(p)
  PROVE  OperationsLeft(p)' < OperationsLeft(p)
<1>1. \/ pc[p] = "chmod" /\ pc'[p] \in {"tmp", "undo"}
      \/ pc[p] = "tmp" /\ pc'[p] \in {"install", "undo"}
      \/ pc[p] = "install" /\ pc'[p] \in {"mode", "undo"}
      \/ pc[p] = "mode" /\ pc'[p] \in {"recover", "undo"}
      \/ pc[p] = "undo" /\ pc'[p] = "undoDir"
      \/ pc[p] = "undoDir" /\ pc'[p] = "gone"
      \/ pc[p] = "check" /\ pc'[p] \in {"wipe", "exiting"}
      \/ pc[p] = "wipe" /\ pc'[p] = "rmdir"
      \/ pc[p] = "rmdir" /\ pc'[p] = "exiting"
      \/ pc[p] = "exiting" /\ pc'[p] = "gone"
  <2>1. CASE Chmod(p) \/ WriteTmp(p) \/ Install(p)
    BY <2>1 DEF Chmod, WriteTmp, Install, Installs, Leave, Goto, LockTypeOK
  <2>2. CASE Mode(p)
    BY <2>2 DEF Mode, Leave, Goto, LockTypeOK
  <2>3. CASE Undo(p) \/ Release(p) \/ Exit(p)
    BY <2>3 DEF Undo, Release, Exit, Check, Empty, RemoveDir, Moves, Goto, LockTypeOK
  <2> QED
    BY <2>1, <2>2, <2>3
<1>2. \/ OperationsLeft(p) = 6 /\ OperationsLeft(p)' \in {5, 2}
      \/ OperationsLeft(p) = 5 /\ OperationsLeft(p)' \in {4, 2}
      \/ OperationsLeft(p) = 4 /\ OperationsLeft(p)' \in {3, 2, 1}
      \/ OperationsLeft(p) = 3 /\ OperationsLeft(p)' \in {2, 0}
      \/ OperationsLeft(p) = 2 /\ OperationsLeft(p)' = 1
      \/ OperationsLeft(p) = 1 /\ OperationsLeft(p)' = 0
  BY <1>1 DEF OperationsLeft
<1> QED
  BY <1>2

LEMMA OthersDoNotCount ==
  ASSUME LockTypeOK, NEW p \in Procs, NEW q \in Procs \ {p}, LockStep(q)
  PROVE  OperationsLeft(p)' = OperationsLeft(p)
<1>1. /\ \E to : pc' = [pc EXCEPT ![q] = to]
      /\ tries' = tries \/ \E n : tries' = [tries EXCEPT ![q] = n]
  <2>1. CASE Start(q) \/ Kill(q) \/ Recovered(q) \/ RecoveryFails(q) \/ Shutdown(q)
             \/ Release(q) \/ Exit(q) \/ Undo(q)
    BY <2>1
    DEF Start, Kill, Recovered, RecoveryFails, Shutdown, Release, Exit, Undo, Check,
        Empty, RemoveDir, Moves, Leave, Goto, claim
  <2>2. CASE Create(q) \/ Read(q) \/ Probe(q) \/ Bury(q)
    BY <2>2 DEF Create, Read, Probe, Bury, Leave, Goto, claim
  <2>3. CASE Chmod(q) \/ WriteTmp(q) \/ Install(q) \/ Mode(q)
    BY <2>3 DEF Chmod, WriteTmp, Install, Mode, Installs, Leave, Goto, claim
  <2> QED
    BY <2>1, <2>2, <2>3 DEF LockStep, Claim
<1>2. pc'[p] = pc[p] /\ tries'[p] = tries[p]
  BY <1>1 DEF LockTypeOK
<1> QED
  BY <1>2 DEF OperationsLeft, RoundsLeft

(* So a start of serve always gets its answer, the lock or a refusal, and a   *)
(* stop always ends, after 4 * MaxTries + 9 operations of its own at most:    *)
(* also where starts overlap and take the directory from each other.         *)
THEOREM StartsAreWaitFree == LockSpec => []OperationsBounded /\ ClaimsAreWaitFree
<1> DEFINE WaitFree ==
      \A p \in Procs :
        /\ Claim(p) \/ Release(p) \/ Exit(p) => OperationsLeft(p)' < OperationsLeft(p)
        /\ \A q \in Procs \ {p} : LockStep(q) => OperationsLeft(p)' = OperationsLeft(p)
<1>1. LockTypeOK => WaitFree
  BY RoundLowers, InstallationLowers, OthersDoNotCount DEF Claim
<1> HIDE DEF WaitFree
<1>2. LockSpec => [][WaitFree]_lockVars
  BY <1>1, LockTypeCorrect, PTL DEF LockSpec
<1>3. LockSpec => []OperationsBounded
  BY AlwaysBounded, LockTypeCorrect, PTL
<1> QED
  BY <1>2, <1>3 DEF WaitFree, ClaimsAreWaitFree
=============================================================================
