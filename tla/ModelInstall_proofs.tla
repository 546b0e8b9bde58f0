------------------------ MODULE ModelInstall_proofs ------------------------
(***************************************************************************)
(* What holds of installed models for any number of ids, parts, revisions, *)
(* removals and faults. The invariant adds to TypeOK what a promotion has  *)
(* found in its place (Places), that a pull has a row (Rowed), and which   *)
(* of the two directories holds the copy of an installed model (Copies).   *)
(* The last part counts the steps a repeated pull can still need.          *)
(***************************************************************************)
EXTENDS ModelInstall, TLAPS

Pulling == Steps \ {"idle", "remove", "unpin"}
Promoting == {"promote", "set aside", "replace", "move in"}
Promoted == {"clear", "read lock", "pin"}

Locks == [Ids -> Revisions \cup {Unpinned}]

Types ==
  /\ catalog \in [Ids -> Revisions]
  /\ staged \in [Ids -> Dirs]
  /\ models \in [Ids -> Dirs]
  /\ replacing \in [Ids -> Dirs]
  /\ lock \in Locks
  /\ seen \in [Ids -> Locks]
  /\ pc \in [Ids -> Steps]
  /\ row \in Locks
  /\ removals \in 0 .. MaxRemovals /\ faults \in 0 .. MaxFaults
  /\ installed \subseteq Ids

Rowed == \A id \in Ids : pc[id] \in Pulling => row[id] \in Revisions

Made ==
  \A id \in Ids :
    /\ pc[id] \in Promoting => Verifies(staged[id], row[id])
    /\ pc[id] \in Promoted => Verifies(models[id], row[id])

Places ==
  \A id \in Ids :
    /\ pc[id] = "set aside" => models[id] # NoDir
    /\ pc[id] \in {"replace", "move in"} => models[id] = NoDir

HasCopy(dir) == \E r \in Revisions : Verifies(dir, r)
Copies ==
  \A id \in installed :
    HasCopy(models[id]) \/ (models[id] = NoDir /\ HasCopy(replacing[id]))

IInv == Types /\ Rowed /\ Made /\ Places /\ Copies

-----------------------------------------------------------------------------
(* Weight files and directories.                                           *)

LEMMA RevisionsArePositive == Revisions \subseteq Nat \ {0}
BY InstallAssumption DEF Revisions

LEMMA PartsAreSequences ==
  ASSUME NEW w
  PROVE  w \in Parts <=>
           w \in Seq(Revisions \cup {Garbage}) /\ Len(w) <= Size + 1
<1> DEFINE R == Revisions \cup {Garbage}
<1>0. Size \in Nat
  BY InstallAssumption
<1>1. w \in Parts <=> \E n \in 0 .. Size + 1 : w \in [1 .. n -> R]
  BY DEF Parts
<1> HIDE DEF R
<1>2. ASSUME NEW n \in 0 .. Size + 1, w \in [1 .. n -> R]
      PROVE  w \in Seq(R) /\ Len(w) <= Size + 1
  BY <1>0, <1>2
<1>3. ASSUME w \in Seq(R), Len(w) <= Size + 1
      PROVE  \E n \in 0 .. Size + 1 : w \in [1 .. n -> R]
  BY <1>0, <1>3
<1>4. w \in Parts <=> w \in Seq(R) /\ Len(w) <= Size + 1
  BY <1>1, <1>2, <1>3
<1> QED
  BY <1>4 DEF R

LEMMA EmptyWeight == <<>> \in Parts
<1>1. <<>> \in Seq(Revisions \cup {Garbage}) /\ Len(<<>>) <= Size + 1
  BY InstallAssumption
<1> QED
  BY <1>1, PartsAreSequences

LEMMA WeightGrows ==
  ASSUME NEW w \in Parts, Len(w) <= Size, NEW x \in Revisions \cup {Garbage}
  PROVE  Append(w, x) \in Parts
<1>1. w \in Seq(Revisions \cup {Garbage})
  BY PartsAreSequences
<1>2. /\ Append(w, x) \in Seq(Revisions \cup {Garbage})
      /\ Len(Append(w, x)) <= Size + 1
  BY <1>1, InstallAssumption
<1> QED
  BY <1>2, PartsAreSequences

LEMMA DirOfParts ==
  ASSUME NEW w \in Parts, NEW i \in Revisions \cup {NoImage}
  PROVE  Dir(w, i) \in Dirs /\ Dir(w, i).weight = w /\ Dir(w, i).image = i
BY DEF Dir, Dirs

LEMMA NoDirIsDir == NoDir \in Dirs
BY EmptyWeight, DirOfParts DEF NoDir

LEMMA PartsOfDir ==
  ASSUME NEW d \in Dirs
  PROVE  d.weight \in Parts /\ d.image \in Revisions \cup {NoImage}
BY DEF Dirs

(* A directory that verifies is there.                                     *)
LEMMA NothingVerifies ==
  ASSUME NEW r \in Revisions
  PROVE  ~Verifies(NoDir, r)
<1>1. NoDir.image = NoImage
  BY DEF NoDir, Dir
<1>2. r # NoImage
  BY RevisionsArePositive DEF NoImage
<1> QED
  BY <1>1, <1>2 DEF Verifies

-----------------------------------------------------------------------------
(* Steps of the download: only the staging directory of the id changes, and *)
(* nothing the invariant says of it holds yet.                             *)

LEMMA InitInvariant == Init => IInv
<1> SUFFICES ASSUME Init PROVE IInv
  OBVIOUS
<1>1. \A id \in Ids : 1 \in Revisions
  BY InstallAssumption DEF Revisions
<1>2. Types
  <2>1. NoLock \in Locks
    BY DEF NoLock, Locks
  <2> QED
    BY <1>1, <2>1, NoDirIsDir, InstallAssumption DEF Init, Types, Steps, Locks
<1>3. Rowed /\ Made /\ Places
  BY DEF Init, Rowed, Made, Places, Pulling, Promoting, Promoted
<1>4. Copies
  BY DEF Init, Copies
<1> QED
  BY <1>2, <1>3, <1>4 DEF IInv

(* A command ends.                                                         *)
LEMMA EndKeeps ==
  ASSUME Types, Rowed, NEW id \in Ids, Ends(id)
  PROVE  /\ pc' = [pc EXCEPT ![id] = "idle"]
         /\ pc' \in [Ids -> Steps] /\ row' \in Locks /\ seen' \in [Ids -> Locks]
         /\ Rowed'
<1>1. NoLock \in Locks
  BY DEF NoLock, Locks
<1>2. pc' \in [Ids -> Steps] /\ row' \in Locks /\ seen' \in [Ids -> Locks]
  BY <1>1 DEF Types, Ends, Steps, Locks
<1>3. \A x \in Ids : pc'[x] \in Pulling => x # id /\ pc'[x] = pc[x] /\ row'[x] = row[x]
  BY <1>2 DEF Types, Ends, Pulling, Locks
<1> QED
  BY <1>2, <1>3 DEF Ends, Rowed

(* A command goes on, with the row it has.                                 *)
LEMMA GotoKeeps ==
  ASSUME Types, Rowed, NEW id \in Ids, NEW s \in Steps, Goto(id, s),
         s \in Pulling => row[id] \in Revisions,
         row' = row
  PROVE  /\ pc' \in [Ids -> Steps]
         /\ pc'[id] = s /\ \A x \in Ids \ {id} : pc'[x] = pc[x]
         /\ Rowed'
BY DEF Types, Goto, Rowed

(* The parts of the invariant that a step of id may disturb are those of id. *)
LEMMA OthersUndisturbed ==
  ASSUME IInv, NEW id \in Ids,
         pc' \in [Ids -> Steps],
         \A x \in Ids \ {id} :
           /\ pc'[x] = pc[x] /\ row'[x] = row[x]
           /\ staged'[x] = staged[x] /\ models'[x] = models[x]
           /\ replacing'[x] = replacing[x]
           /\ x \in installed' <=> x \in installed,
         installed' \subseteq Ids,
         pc'[id] \in Promoting => Verifies(staged'[id], row'[id]),
         pc'[id] \in Promoted => Verifies(models'[id], row'[id]),
         pc'[id] = "set aside" => models'[id] # NoDir,
         pc'[id] \in {"replace", "move in"} => models'[id] = NoDir,
         id \in installed' =>
           HasCopy(models'[id]) \/ (models'[id] = NoDir /\ HasCopy(replacing'[id]))
  PROVE  Made' /\ Places' /\ Copies'
<1>1. Made'
  BY DEF IInv, Made, Verifies
<1>2. Places'
  BY DEF IInv, Places
<1>3. Copies'
  BY DEF IInv, Copies, HasCopy
<1> QED
  BY <1>1, <1>2, <1>3

LEMMA FaultIsBounded ==
  ASSUME faults \in 0 .. MaxFaults, Fault \/ UNCHANGED faults
  PROVE  faults' \in 0 .. MaxFaults
BY InstallAssumption DEF Fault

-----------------------------------------------------------------------------
(* One lemma per action, or per group of actions alike.                    *)

LEMMA NewRowKeeps ==
  ASSUME IInv, NEW id \in Ids, NewRow(id)
  PROVE  IInv'
<1>1. catalog[id] + 1 \in Revisions
  <2>1. catalog[id] \in Nat \ {0} /\ Rows[id] \in Nat /\ catalog[id] < Rows[id]
    BY InstallAssumption, RevisionsArePositive DEF IInv, Types, NewRow
  <2>2. catalog[id] + 1 \in 1 .. Rows[id]
    BY <2>1
  <2> QED
    BY <2>2 DEF Revisions
<1>2. Types'
  BY <1>1 DEF IInv, Types, NewRow, files
<1>3. Rowed' /\ Made' /\ Places' /\ Copies'
  BY DEF IInv, Rowed, Made, Places, Copies, NewRow, files
<1> QED
  BY <1>2, <1>3 DEF IInv

LEMMA StartPullKeeps ==
  ASSUME IInv, NEW id \in Ids, StartPull(id)
  PROVE  IInv'
<1>1. pc' \in [Ids -> Steps] /\ pc'[id] = "clean" /\ row' \in Locks /\ row'[id] \in Revisions
  BY DEF IInv, Types, StartPull, Goto, Steps, Locks
<1>2. \A x \in Ids \ {id} : pc'[x] = pc[x] /\ row'[x] = row[x]
  BY DEF IInv, Types, StartPull, Goto, Locks
<1>3. Types'
  BY <1>1 DEF IInv, Types, StartPull, files
<1>4. Rowed'
  BY <1>1, <1>2 DEF IInv, Rowed
<1>5. /\ UNCHANGED <<staged, models, replacing, installed>>
      /\ id \in installed =>
           HasCopy(models[id]) \/ (models[id] = NoDir /\ HasCopy(replacing[id]))
  BY DEF StartPull, files, IInv, Copies
<1>6. Made' /\ Places' /\ Copies'
  BY <1>1, <1>2, <1>3, <1>5, OthersUndisturbed DEF Promoting, Promoted, Types
<1> QED
  BY <1>3, <1>4, <1>6 DEF IInv

(* The steps that work on the staging directory.                           *)
LEMMA StagingKeeps ==
  ASSUME IInv, NEW id \in Ids, NEW d \in Dirs,
         staged' = [staged EXCEPT ![id] = d],
         pc' \in [Ids -> Steps], row' \in Locks, Rowed',
         \A x \in Ids \ {id} : pc'[x] = pc[x] /\ row'[x] = row[x],
         pc'[id] \in Promoting => Verifies(d, row'[id]),
         pc'[id] \notin Promoted \cup {"set aside", "replace", "move in"},
         seen' \in [Ids -> Locks], faults' \in 0 .. MaxFaults,
         UNCHANGED <<catalog, models, replacing, lock, removals, installed>>
  PROVE  IInv'
<1>1. Types'
  BY DEF IInv, Types
<1>2. staged'[id] = d /\ \A x \in Ids \ {id} : staged'[x] = staged[x]
  BY DEF IInv, Types
<1>3. id \in installed' =>
        HasCopy(models'[id]) \/ (models'[id] = NoDir /\ HasCopy(replacing'[id]))
  BY DEF IInv, Copies
<1>4. installed' \subseteq Ids
  BY <1>1 DEF Types
<1>5. Made' /\ Places' /\ Copies'
  BY <1>2, <1>3, <1>4, OthersUndisturbed
<1> QED
  BY <1>1, <1>5 DEF IInv

LEMMA CleanStagingKeeps ==
  ASSUME IInv, NEW id \in Ids, CleanStaging(id)
  PROVE  IInv'
<1>1. PICK d : d = Dir(staged[id].weight, NoImage)
  OBVIOUS
<1>2. d \in Dirs
  BY <1>1, DirOfParts, PartsOfDir DEF IInv, Types
<1>3. row[id] \in Revisions /\ Types /\ Rowed
  BY DEF IInv, Rowed, CleanStaging, At, Pulling, Steps
<1>4. /\ pc' \in [Ids -> Steps] /\ pc'[id] = "download"
      /\ \A x \in Ids \ {id} : pc'[x] = pc[x]
      /\ Rowed'
  BY <1>3, GotoKeeps DEF CleanStaging, Steps
<1>5. /\ staged' = [staged EXCEPT ![id] = d]
      /\ row' \in Locks /\ row' = row /\ seen' \in [Ids -> Locks]
      /\ faults' \in 0 .. MaxFaults
      /\ UNCHANGED <<catalog, models, replacing, lock, removals, installed>>
  BY <1>1, <1>3 DEF CleanStaging, Types
<1> QED
  BY <1>2, <1>4, <1>5, StagingKeeps DEF Promoting, Promoted

LEMMA BeginDownloadKeeps ==
  ASSUME IInv, NEW id \in Ids, BeginDownload(id)
  PROVE  IInv'
<1>1. PICK w : w = Resume(staged[id].weight, row[id])
  OBVIOUS
<1>2. PICK d : d = Dir(w, staged[id].image)
  OBVIOUS
<1>3. d \in Dirs
  BY <1>1, <1>2, EmptyWeight, DirOfParts, PartsOfDir DEF IInv, Types, Resume
<1>4. PICK s : s = IF Matches(w, row[id]) THEN "build" ELSE "receive"
  OBVIOUS
<1>5. row[id] \in Revisions /\ Types /\ Rowed /\ s \in Steps /\ s \in {"build", "receive"}
  BY <1>4 DEF IInv, Rowed, BeginDownload, At, Pulling, Steps
<1>6. Goto(id, s) /\ row' = row
  BY <1>1, <1>4 DEF BeginDownload
<1>7. /\ pc' \in [Ids -> Steps] /\ pc'[id] = s
      /\ \A x \in Ids \ {id} : pc'[x] = pc[x]
      /\ Rowed'
  BY <1>5, <1>6, GotoKeeps
<1>8. /\ staged' = [staged EXCEPT ![id] = d]
      /\ row' \in Locks /\ seen' \in [Ids -> Locks]
      /\ faults' \in 0 .. MaxFaults
      /\ UNCHANGED <<catalog, models, replacing, lock, removals, installed>>
  BY <1>1, <1>2, <1>5 DEF BeginDownload, Types
<1> QED
  BY <1>3, <1>5, <1>6, <1>7, <1>8, StagingKeeps DEF Promoting, Promoted

LEMMA ReceiveKeeps ==
  ASSUME IInv, NEW id \in Ids, Receive(id)
  PROVE  IInv'
<1>1. Types /\ Rowed /\ pc[id] = "receive" /\ row[id] \in Revisions
  BY DEF IInv, Rowed, Receive, At, Pulling, Steps
<1>2. PICK x \in Revisions \cup {Garbage} :
        /\ Len(staged[id].weight) <= Size
        /\ staged' = [staged EXCEPT ![id] =
                        Dir(Append(staged[id].weight, x), staged[id].image)]
  <2>1. CASE Len(staged[id].weight) < Size
             /\ staged' = [staged EXCEPT ![id] =
                             Dir(Append(staged[id].weight, row[id]), staged[id].image)]
    <3>1. Len(staged[id].weight) \in Nat
      BY <1>1, PartsOfDir, PartsAreSequences DEF Types
    <3>2. Len(staged[id].weight) <= Size
      BY <2>1, <3>1, InstallAssumption
    <3>3. row[id] \in Revisions \cup {Garbage}
      BY <1>1
    <3> QED
      BY <2>1, <3>2, <3>3, Zenon
  <2>2. CASE Len(staged[id].weight) <= Size
             /\ staged' = [staged EXCEPT ![id] =
                             Dir(Append(staged[id].weight, Garbage), staged[id].image)]
    BY <2>2
  <2>3. \/ /\ Len(staged[id].weight) < Size
           /\ staged' = [staged EXCEPT ![id] =
                           Dir(Append(staged[id].weight, row[id]), staged[id].image)]
        \/ /\ Len(staged[id].weight) <= Size
           /\ staged' = [staged EXCEPT ![id] =
                           Dir(Append(staged[id].weight, Garbage), staged[id].image)]
    BY ZenonT(30) DEF Receive
  <2> QED
    BY <2>1, <2>2, <2>3
<1>3. PICK d : d = Dir(Append(staged[id].weight, x), staged[id].image)
  OBVIOUS
<1>4. d \in Dirs
  BY <1>1, <1>2, <1>3, WeightGrows, DirOfParts, PartsOfDir DEF Types
<1>5. /\ UNCHANGED <<pc, row, seen, catalog, models, replacing, lock, removals, installed>>
      /\ faults' \in 0 .. MaxFaults
  BY <1>1, FaultIsBounded DEF Receive, Types
<1>6. Rowed' /\ pc' \in [Ids -> Steps] /\ row' \in Locks /\ seen' \in [Ids -> Locks]
  BY <1>1, <1>5 DEF Rowed, Types
<1>7. staged' = [staged EXCEPT ![id] = d]
  BY <1>2, <1>3
<1> QED
  BY <1>1, <1>4, <1>5, <1>6, <1>7, StagingKeeps DEF Promoting, Promoted

LEMMA EndOfStreamKeeps ==
  ASSUME IInv, NEW id \in Ids, EndOfStream(id)
  PROVE  IInv'
<1>1. Types /\ Rowed /\ pc[id] = "receive" /\ row[id] \in Revisions
  BY DEF IInv, Rowed, EndOfStream, At, Pulling, Steps
<1>2. PICK d \in Dirs : staged' = [staged EXCEPT ![id] = d]
  <2>1. Dir(<<>>, staged[id].image) \in Dirs /\ staged[id] \in Dirs
    BY <1>1, EmptyWeight, DirOfParts, PartsOfDir DEF Types
  <2>2. staged = [staged EXCEPT ![id] = staged[id]]
    BY <1>1 DEF Types
  <2> QED
    BY <2>1, <2>2 DEF EndOfStream
<1>3. \/ Goto(id, "build") /\ UNCHANGED <<row, seen>>
      \/ Ends(id)
  BY DEF EndOfStream
<1>4. /\ UNCHANGED <<catalog, models, replacing, lock, removals, installed>>
      /\ faults' \in 0 .. MaxFaults
  BY <1>1, FaultIsBounded DEF EndOfStream, Types
<1>5. /\ pc' \in [Ids -> Steps] /\ row' \in Locks /\ seen' \in [Ids -> Locks]
      /\ Rowed'
      /\ \A x \in Ids \ {id} : pc'[x] = pc[x] /\ row'[x] = row[x]
      /\ pc'[id] \in {"build", "idle"}
  <2>1. CASE Goto(id, "build") /\ UNCHANGED <<row, seen>>
    BY <1>1, <2>1, GotoKeeps DEF Types, Steps
  <2>2. CASE Ends(id)
    BY <1>1, <2>2, EndKeeps DEF Types, Ends, Locks
  <2> QED
    BY <1>3, <2>1, <2>2
<1> QED
  BY <1>2, <1>4, <1>5, StagingKeeps DEF Promoting, Promoted

LEMMA BuildKeeps ==
  ASSUME IInv, NEW id \in Ids, Build(id)
  PROVE  IInv'
<1>1. Types /\ Rowed /\ pc[id] = "build" /\ row[id] \in Revisions
  BY DEF IInv, Rowed, Build, At, Pulling, Steps
<1>2. UNCHANGED <<catalog, models, replacing, lock, removals, faults, installed>>
  BY DEF Build
<1>3. CASE staged[id].weight = Whole(row[id])
  <2>1. PICK d : d = Dir(staged[id].weight, row[id])
    OBVIOUS
  <2>2. d \in Dirs /\ Verifies(d, row[id])
    BY <1>1, <1>3, <2>1, DirOfParts, PartsOfDir DEF Types, Verifies
  <2>3. Goto(id, "promote") /\ UNCHANGED <<row, seen>>
        /\ staged' = [staged EXCEPT ![id] = d]
    BY <1>3, <2>1 DEF Build
  <2>4. /\ pc' \in [Ids -> Steps] /\ pc'[id] = "promote"
        /\ \A x \in Ids \ {id} : pc'[x] = pc[x]
        /\ Rowed'
    BY <1>1, <2>3, GotoKeeps DEF Steps
  <2> QED
    BY <1>1, <1>2, <2>2, <2>3, <2>4, StagingKeeps DEF Types, Promoting, Promoted
<1>4. CASE staged[id].weight # Whole(row[id])
  <2>1. Ends(id) /\ staged' = [staged EXCEPT ![id] = staged[id]] /\ staged[id] \in Dirs
    BY <1>1, <1>4 DEF Build, Types
  <2>2. /\ pc' \in [Ids -> Steps] /\ row' \in Locks /\ seen' \in [Ids -> Locks]
        /\ Rowed' /\ pc'[id] = "idle"
        /\ \A x \in Ids \ {id} : pc'[x] = pc[x] /\ row'[x] = row[x]
    BY <1>1, <2>1, EndKeeps DEF Types, Ends, Locks
  <2> QED
    BY <1>1, <1>2, <2>1, <2>2, StagingKeeps DEF Types, Promoting, Promoted
<1> QED
  BY <1>3, <1>4

-----------------------------------------------------------------------------
(* Steps after the build.                                                  *)

LEMMA ClearAsideKeeps ==
  ASSUME IInv, NEW id \in Ids, ClearAside(id)
  PROVE  IInv'
<1>1. /\ Types /\ Rowed /\ pc[id] = "promote" /\ row[id] \in Revisions
      /\ Verifies(staged[id], row[id])
      /\ id \in installed =>
           HasCopy(models[id]) \/ (models[id] = NoDir /\ HasCopy(replacing[id]))
  BY DEF IInv, Rowed, Made, Copies, ClearAside, At, Pulling, Promoting, Steps
<1>2. /\ UNCHANGED <<catalog, staged, models, lock, row, seen, removals, faults, installed>>
      /\ \A x \in Ids \ {id} : replacing'[x] = replacing[x]
      /\ replacing' \in [Ids -> Dirs]
      /\ models[id] = NoDir => replacing'[id] = replacing[id]
  BY <1>1, NoDirIsDir DEF ClearAside, Types
<1>3. PICK s : s = IF models[id] = NoDir THEN "move in" ELSE "set aside"
  OBVIOUS
<1>4. Goto(id, s) /\ s \in {"move in", "set aside"} /\ s \in Steps
  BY <1>3 DEF ClearAside, Steps
<1>5. /\ pc' \in [Ids -> Steps] /\ pc'[id] = s
      /\ \A x \in Ids \ {id} : pc'[x] = pc[x]
      /\ Rowed'
  BY <1>1, <1>2, <1>4, GotoKeeps
<1>6. Types'
  BY <1>1, <1>2, <1>5 DEF Types
<1>7. Made' /\ Places' /\ Copies'
  BY <1>1, <1>2, <1>3, <1>4, <1>5, <1>6, OthersUndisturbed DEF Promoted, Types
<1> QED
  BY <1>5, <1>6, <1>7 DEF IInv

LEMMA SetAsideKeeps ==
  ASSUME IInv, NEW id \in Ids, SetAside(id)
  PROVE  IInv'
<1>1. /\ Types /\ Rowed /\ pc[id] = "set aside" /\ row[id] \in Revisions
      /\ Verifies(staged[id], row[id]) /\ models[id] # NoDir
      /\ id \in installed => HasCopy(models[id])
  BY DEF IInv, Rowed, Made, Places, Copies, SetAside, At, Pulling, Promoting, Steps
<1>2. /\ UNCHANGED <<catalog, staged, lock, row, seen, removals, faults, installed>>
      /\ \A x \in Ids \ {id} : replacing'[x] = replacing[x] /\ models'[x] = models[x]
      /\ replacing' \in [Ids -> Dirs] /\ models' \in [Ids -> Dirs]
      /\ models'[id] = NoDir /\ replacing'[id] = models[id]
  BY <1>1, NoDirIsDir DEF SetAside, Aside, Types
<1>3. /\ pc' \in [Ids -> Steps] /\ pc'[id] = "replace"
      /\ \A x \in Ids \ {id} : pc'[x] = pc[x]
      /\ Rowed'
  BY <1>1, <1>2, GotoKeeps DEF SetAside, Steps
<1>4. Types'
  BY <1>1, <1>2, <1>3 DEF Types
<1>5. Made' /\ Places' /\ Copies'
  BY <1>1, <1>2, <1>3, <1>4, OthersUndisturbed DEF Promoted, Types
<1> QED
  BY <1>3, <1>4, <1>5 DEF IInv

(* The copy that was promoted verifies, whatever was set aside.            *)
LEMMA MoveInKeeps ==
  ASSUME IInv, NEW id \in Ids, MoveIn(id)
  PROVE  IInv'
<1>1. /\ Types /\ Rowed /\ pc[id] \in {"move in", "replace"} /\ row[id] \in Revisions
      /\ Verifies(staged[id], row[id])
  BY DEF IInv, Rowed, Made, MoveIn, At, Pulling, Promoting, Steps
<1>2. /\ UNCHANGED <<catalog, replacing, lock, row, seen, removals, faults>>
      /\ \A x \in Ids \ {id} : staged'[x] = staged[x] /\ models'[x] = models[x]
      /\ staged' \in [Ids -> Dirs] /\ models' \in [Ids -> Dirs]
      /\ models'[id] = staged[id]
      /\ installed' = installed \cup {id}
  BY <1>1, NoDirIsDir DEF MoveIn, Moved, Types
<1>3. PICK s : s = IF At(id, "replace") THEN "clear" ELSE "read lock"
  OBVIOUS
<1>4. Goto(id, s) /\ s \in {"clear", "read lock"} /\ s \in Steps
  BY <1>3 DEF MoveIn, Steps
<1>5. /\ pc' \in [Ids -> Steps] /\ pc'[id] = s
      /\ \A x \in Ids \ {id} : pc'[x] = pc[x]
      /\ Rowed'
  BY <1>1, <1>2, <1>4, GotoKeeps
<1>6. Types'
  BY <1>1, <1>2, <1>5 DEF Types
<1>7. HasCopy(models'[id]) /\ Verifies(models'[id], row'[id])
  BY <1>1, <1>2 DEF HasCopy
<1>8. Made' /\ Places' /\ Copies'
  BY <1>2, <1>4, <1>5, <1>6, <1>7, OthersUndisturbed DEF Promoting, Types
<1> QED
  BY <1>5, <1>6, <1>8 DEF IInv

LEMMA MoveBackKeeps ==
  ASSUME IInv, NEW id \in Ids, MoveBack(id)
  PROVE  IInv'
<1>1. /\ Types /\ Rowed /\ pc[id] = "replace" /\ models[id] = NoDir
      /\ id \in installed => HasCopy(replacing[id])
  <2>1. /\ Types /\ Rowed /\ pc[id] = "replace" /\ models[id] = NoDir
        /\ id \in installed => HasCopy(models[id]) \/ HasCopy(replacing[id])
    BY DEF IInv, Places, Copies, MoveBack, At
  <2>2. ~HasCopy(NoDir)
    BY NothingVerifies DEF HasCopy
  <2> QED
    BY <2>1, <2>2
<1>2. /\ UNCHANGED <<catalog, staged, lock, removals, installed>>
      /\ \A x \in Ids \ {id} : replacing'[x] = replacing[x] /\ models'[x] = models[x]
      /\ replacing' \in [Ids -> Dirs] /\ models' \in [Ids -> Dirs]
      /\ models'[id] = replacing[id]
      /\ faults' \in 0 .. MaxFaults
  BY <1>1, NoDirIsDir, FaultIsBounded DEF MoveBack, Types
<1>3. /\ pc' \in [Ids -> Steps] /\ row' \in Locks /\ seen' \in [Ids -> Locks]
      /\ Rowed' /\ pc'[id] = "idle"
      /\ \A x \in Ids \ {id} : pc'[x] = pc[x] /\ row'[x] = row[x]
  BY <1>1, EndKeeps DEF MoveBack, Types, Ends, Locks
<1>4. Types'
  BY <1>1, <1>2, <1>3 DEF Types
<1>5. Made' /\ Places' /\ Copies'
  BY <1>1, <1>2, <1>3, <1>4, OthersUndisturbed DEF Promoting, Promoted, Types
<1> QED
  BY <1>3, <1>4, <1>5 DEF IInv

LEMMA ClearReplacedKeeps ==
  ASSUME IInv, NEW id \in Ids, ClearReplaced(id)
  PROVE  IInv'
<1>1. /\ Types /\ Rowed /\ pc[id] = "clear" /\ row[id] \in Revisions
      /\ Verifies(models[id], row[id])
  BY DEF IInv, Rowed, Made, ClearReplaced, At, Pulling, Promoted, Steps
<1>2. /\ UNCHANGED <<catalog, staged, models, lock, row, seen, removals, faults, installed>>
      /\ \A x \in Ids \ {id} : replacing'[x] = replacing[x]
      /\ replacing' \in [Ids -> Dirs]
  BY <1>1, NoDirIsDir DEF ClearReplaced, Types
<1>3. /\ pc' \in [Ids -> Steps] /\ pc'[id] = "read lock"
      /\ \A x \in Ids \ {id} : pc'[x] = pc[x]
      /\ Rowed'
  BY <1>1, <1>2, GotoKeeps DEF ClearReplaced, Steps
<1>4. Types'
  BY <1>1, <1>2, <1>3 DEF Types
<1>5. Made' /\ Places' /\ Copies'
  BY <1>1, <1>2, <1>3, <1>4, OthersUndisturbed DEF Promoting, Types, HasCopy
<1> QED
  BY <1>3, <1>4, <1>5 DEF IInv

LEMMA ReadLockKeeps ==
  ASSUME IInv, NEW id \in Ids, ReadLock(id)
  PROVE  IInv'
<1>1. /\ Types /\ Rowed /\ pc[id] = "read lock" /\ row[id] \in Revisions
      /\ Verifies(models[id], row[id])
      /\ id \in installed =>
           HasCopy(models[id]) \/ (models[id] = NoDir /\ HasCopy(replacing[id]))
  BY DEF IInv, Rowed, Made, Copies, ReadLock, At, Pulling, Promoted, Steps
<1>2. /\ UNCHANGED <<catalog, files, lock, row, removals, faults, installed>>
      /\ seen' \in [Ids -> Locks]
  BY <1>1 DEF ReadLock, Types
<1>3. /\ pc' \in [Ids -> Steps] /\ pc'[id] = "pin"
      /\ \A x \in Ids \ {id} : pc'[x] = pc[x]
      /\ Rowed'
  BY <1>1, <1>2, GotoKeeps DEF ReadLock, Steps
<1>4. Types'
  BY <1>1, <1>2, <1>3 DEF Types, files
<1>5. Made' /\ Places' /\ Copies'
  BY <1>1, <1>2, <1>3, <1>4, OthersUndisturbed DEF Promoting, Types, files
<1> QED
  BY <1>3, <1>4, <1>5 DEF IInv

(* The lockfile is written whole; the invariant does not depend on it.     *)
LEMMA LockWriteKeeps ==
  ASSUME IInv, NEW id \in Ids, Pin(id) \/ Unpin(id)
  PROVE  IInv'
<1>1. /\ Types /\ Rowed
      /\ id \in installed =>
           HasCopy(models[id]) \/ (models[id] = NoDir /\ HasCopy(replacing[id]))
  BY DEF IInv, Copies
<1>2. UNCHANGED <<catalog, files, removals, faults, installed>> /\ Ends(id)
  BY DEF Pin, Unpin
<1>3. lock' \in Locks
  BY <1>1 DEF Pin, Unpin, PinnedLock, Types, Locks
<1>4. /\ pc' \in [Ids -> Steps] /\ row' \in Locks /\ seen' \in [Ids -> Locks]
      /\ Rowed' /\ pc'[id] = "idle"
      /\ \A x \in Ids \ {id} : pc'[x] = pc[x] /\ row'[x] = row[x]
  BY <1>1, <1>2, EndKeeps DEF Types, Ends, Locks
<1>5. Types'
  BY <1>1, <1>2, <1>3, <1>4 DEF Types, files
<1>6. Made' /\ Places' /\ Copies'
  BY <1>1, <1>2, <1>4, <1>5, OthersUndisturbed DEF Promoting, Promoted, Types, files
<1> QED
  BY <1>4, <1>5, <1>6 DEF IInv

LEMMA StartRemoveKeeps ==
  ASSUME IInv, NEW id \in Ids, StartRemove(id)
  PROVE  IInv'
<1>1. /\ Types /\ Rowed
      /\ id \in installed =>
           HasCopy(models[id]) \/ (models[id] = NoDir /\ HasCopy(replacing[id]))
  BY DEF IInv, Copies
<1>2. /\ UNCHANGED <<catalog, files, lock, row, faults, installed>>
      /\ seen' \in [Ids -> Locks]
      /\ removals' \in 0 .. MaxRemovals
  BY <1>1, InstallAssumption DEF StartRemove, Types
<1>3. /\ pc' \in [Ids -> Steps] /\ pc'[id] = "remove"
      /\ \A x \in Ids \ {id} : pc'[x] = pc[x]
      /\ Rowed'
  BY <1>1, <1>2, GotoKeeps DEF StartRemove, Steps, Pulling
<1>4. Types'
  BY <1>1, <1>2, <1>3 DEF Types, files
<1>5. Made' /\ Places' /\ Copies'
  BY <1>1, <1>2, <1>3, <1>4, OthersUndisturbed DEF Promoting, Promoted, Types, files
<1> QED
  BY <1>3, <1>4, <1>5 DEF IInv

LEMMA RemoveDirKeeps ==
  ASSUME IInv, NEW id \in Ids, RemoveDir(id)
  PROVE  IInv'
<1>1. Types /\ Rowed
  BY DEF IInv
<1>2. PICK d \in Dirs : models' = [models EXCEPT ![id] = d]
  <2>1. Dir(<<>>, models[id].image) \in Dirs /\ Dir(models[id].weight, NoImage) \in Dirs
    BY <1>1, EmptyWeight, DirOfParts, PartsOfDir DEF Types
  <2> QED
    BY <2>1, NoDirIsDir DEF RemoveDir
<1>3. /\ UNCHANGED <<catalog, staged, replacing, lock, removals>>
      /\ faults' \in 0 .. MaxFaults
      /\ installed' = installed \ {id}
      /\ models' \in [Ids -> Dirs]
      /\ \A x \in Ids \ {id} : models'[x] = models[x]
  BY <1>1, <1>2, FaultIsBounded DEF RemoveDir, Types
<1>4. \/ Goto(id, "unpin") /\ UNCHANGED <<row, seen>>
      \/ Ends(id)
  BY DEF RemoveDir
<1>5. /\ pc' \in [Ids -> Steps] /\ row' \in Locks /\ seen' \in [Ids -> Locks]
      /\ Rowed' /\ pc'[id] \in {"unpin", "idle"}
      /\ \A x \in Ids \ {id} : pc'[x] = pc[x] /\ row'[x] = row[x]
  <2>1. CASE Goto(id, "unpin") /\ UNCHANGED <<row, seen>>
    BY <1>1, <2>1, GotoKeeps DEF Types, Steps, Pulling
  <2>2. CASE Ends(id)
    BY <1>1, <2>2, EndKeeps DEF Types, Ends, Locks
  <2> QED
    BY <1>4, <2>1, <2>2
<1>6. Types'
  BY <1>1, <1>3, <1>5 DEF Types
<1>7. Made' /\ Places' /\ Copies'
  BY <1>1, <1>3, <1>5, <1>6, OthersUndisturbed DEF Promoting, Promoted, Types
<1> QED
  BY <1>5, <1>6, <1>7 DEF IInv

LEMMA StopKeeps ==
  ASSUME IInv, NEW id \in Ids, Stop(id)
  PROVE  IInv'
<1>1. /\ Types /\ Rowed
      /\ id \in installed =>
           HasCopy(models[id]) \/ (models[id] = NoDir /\ HasCopy(replacing[id]))
  BY DEF IInv, Copies
<1>2. /\ UNCHANGED <<catalog, files, lock, removals, installed>>
      /\ faults' \in 0 .. MaxFaults
  BY <1>1, FaultIsBounded DEF Stop, Types
<1>3. /\ pc' \in [Ids -> Steps] /\ row' \in Locks /\ seen' \in [Ids -> Locks]
      /\ Rowed' /\ pc'[id] = "idle"
      /\ \A x \in Ids \ {id} : pc'[x] = pc[x] /\ row'[x] = row[x]
  BY <1>1, EndKeeps DEF Stop, Types, Ends, Locks
<1>4. Types'
  BY <1>1, <1>2, <1>3 DEF Types, files
<1>5. Made' /\ Places' /\ Copies'
  BY <1>1, <1>2, <1>3, <1>4, OthersUndisturbed DEF Promoting, Promoted, Types, files
<1> QED
  BY <1>3, <1>4, <1>5 DEF IInv

LEMMA StutterKeeps ==
  ASSUME IInv, UNCHANGED vars
  PROVE  IInv'
<1>1. Types'
  BY DEF IInv, Types, vars, files
<1>2. Rowed' /\ Made' /\ Places' /\ Copies'
  BY DEF IInv, Rowed, Made, Places, Copies, vars, files
<1> QED
  BY <1>1, <1>2 DEF IInv

-----------------------------------------------------------------------------
(* The theorems.                                                           *)

(* The inductive invariant holds in every reachable state.                 *)
THEOREM InstallInvariant == Spec => []IInv
<1>1. ASSUME IInv, NEW id \in Ids, Run(id) PROVE IInv'
  BY <1>1, CleanStagingKeeps, BeginDownloadKeeps, ReceiveKeeps, EndOfStreamKeeps,
     BuildKeeps, ClearAsideKeeps, SetAsideKeeps, MoveInKeeps, ClearReplacedKeeps,
     ReadLockKeeps, LockWriteKeeps, RemoveDirKeeps DEF Run
<1>2. IInv /\ [Next]_vars => IInv'
  BY <1>1, NewRowKeeps, StartPullKeeps, StartRemoveKeeps, MoveBackKeeps, StopKeeps,
     StutterKeeps DEF Next
<1> QED
  BY <1>2, InitInvariant, PTL DEF Spec

(* A pull comes to each step with what that step needs: staged files that   *)
(* verify before the promotion, installed ones that verify before the pin.  *)
THEOREM InstallTypeCorrect == Spec => []TypeOK
<1>1. IInv => TypeOK
  BY DEF IInv, Types, Made, TypeOK, Locks, Promoting, Promoted
<1> QED
  BY <1>1, InstallInvariant, PTL

(* No pull, however it ends, takes the last copy of an installed model.     *)
THEOREM NoModelIsLost == Spec => []KeepsACopy
<1>1. IInv => KeepsACopy
  BY DEF IInv, Copies, KeepsACopy, HasCopy
<1> QED
  BY <1>1, InstallInvariant, PTL

(* A pull that reports success pins the revision that is in place.          *)
THEOREM SuccessfulPullIsUsable == Spec => SuccessIsUsable
<1> DEFINE Success ==
      \A id \in Ids :
        pc[id] = "pin" /\ pc'[id] = "idle" /\ faults' = faults => Usable(id)'
<1>1. ASSUME IInv, Next PROVE Success
  <2> SUFFICES ASSUME NEW id \in Ids, pc[id] = "pin", pc'[id] = "idle", faults' = faults
      PROVE  Usable(id)'
    OBVIOUS
  <2>1. /\ Types /\ row[id] \in Revisions /\ Verifies(models[id], row[id])
    BY <1>1 DEF IInv, Rowed, Made, Pulling, Promoted, Steps
  <2>2. PICK x \in Ids :
          \/ NewRow(x) \/ StartPull(x) \/ StartRemove(x)
          \/ Run(x) \/ MoveBack(x) \/ Stop(x)
    BY <1>1 DEF Next
  <2>3. ~Stop(x) /\ ~MoveBack(x)
    BY <2>1 DEF Stop, MoveBack, Fault, Types
  <2>4. x = id
    <3>1. pc' = pc \/ \E s \in Steps : pc' = [pc EXCEPT ![x] = s]
      BY <2>2, <2>3
      DEF NewRow, StartPull, StartRemove, Run, CleanStaging, BeginDownload, Receive,
          EndOfStream, Build, ClearAside, SetAside, MoveIn, ClearReplaced, ReadLock,
          Pin, RemoveDir, Unpin, Goto, Ends, Steps
    <3> QED
      BY <2>1, <3>1 DEF Types
  <2>5. Pin(id)
    BY <2>1, <2>2, <2>3, <2>4
    DEF NewRow, StartPull, StartRemove, Run, CleanStaging, BeginDownload, Receive,
        EndOfStream, Build, ClearAside, SetAside, MoveIn, ClearReplaced, ReadLock,
        RemoveDir, Unpin, At, Types
  <2>6. lock'[id] = row[id] /\ models' = models
    BY <2>1, <2>5 DEF Pin, PinnedLock, Types, Locks, files
  <2>7. row[id] # Unpinned
    BY <2>1, RevisionsArePositive DEF Unpinned
  <2> QED
    BY <2>1, <2>6, <2>7 DEF Usable
<1>2. ASSUME IInv, [Next]_vars PROVE [Success]_vars
  BY <1>1, <1>2
<1> QED
  BY <1>2, InstallInvariant, PTL DEF Spec, SuccessIsUsable

-----------------------------------------------------------------------------
(* A pull that is repeated gets there, in a number of steps known before.   *)

(* The row a command pulls, or the next pull would.                         *)
Target(id) == IF pc[id] \in Pulling THEN row[id] ELSE catalog[id]

(* A weight file that is the beginning of that row's.                       *)
Begins(w, r) == Len(w) <= Size /\ \A i \in 1 .. Len(w) : w[i] = r

(* The steps to the pin if what is staged can be used.                      *)
OnePull == Size + 12
StepsLeft(id) ==
  IF pc[id] = "pin" THEN 1
  ELSE IF pc[id] = "read lock" THEN 2
  ELSE IF pc[id] = "clear" THEN 3
  ELSE IF pc[id] \in {"replace", "move in"} THEN 4
  ELSE IF pc[id] = "set aside" THEN 5
  ELSE IF pc[id] = "promote" THEN 6
  ELSE IF pc[id] = "build" THEN 7
  ELSE IF pc[id] = "receive" THEN Size + 9 - Len(staged[id].weight)
  ELSE IF pc[id] = "download" THEN OnePull - 2
  ELSE IF pc[id] = "clean" THEN OnePull - 1
  ELSE IF pc[id] = "idle" THEN OnePull
  ELSE IF pc[id] = "unpin" THEN OnePull + 1
  ELSE OnePull + 2

(* To find out that it is another revision's, or rubbish, costs one pull.   *)
ToGo(id) ==
  StepsLeft(id) + (IF Begins(staged[id].weight, Target(id)) THEN 0 ELSE OnePull)

(* The compiler hashes the file again; it finds what the download checked.  *)
Fetched == \A id \in Ids : pc[id] = "build" => staged[id].weight = Whole(row[id])

LEMMA WeightFacts ==
  ASSUME IInv, NEW id \in Ids
  PROVE  /\ staged[id].weight \in Seq(Revisions \cup {Garbage})
         /\ Len(staged[id].weight) \in 0 .. Size + 1
<1>1. staged[id].weight \in Parts
  BY PartsOfDir DEF IInv, Types
<1> QED
  BY <1>1, PartsAreSequences, InstallAssumption

LEMMA EmptyBegins == \A r : Begins(<<>>, r)
BY InstallAssumption DEF Begins

LEMMA WholeBegins == \A r : Begins(Whole(r), r) /\ Len(Whole(r)) = Size
<1> TAKE r
<1>1. Len(Whole(r)) = Size /\ \A i \in 1 .. Size : Whole(r)[i] = r
  BY InstallAssumption DEF Whole
<1> QED
  BY <1>1, InstallAssumption DEF Begins

InReach == \A id \in Ids :
  StepsLeft(id) \in 1 .. OnePull + 2 /\ ToGo(id) \in 1 .. 2 * OnePull + 2

LEMMA AlwaysInReach == IInv => InReach
<1> SUFFICES ASSUME IInv, NEW id \in Ids
             PROVE  /\ StepsLeft(id) \in 1 .. OnePull + 2
                    /\ ToGo(id) \in 1 .. 2 * OnePull + 2
  BY DEF InReach
<1>1. Size \in Nat /\ pc[id] \in Steps
  BY InstallAssumption DEF IInv, Types
<1>2. PICK n \in 0 .. Size + 1 : n = Len(staged[id].weight)
  BY WeightFacts
<1>3. OnePull = Size + 12 /\ OnePull \in Nat
  BY <1>1 DEF OnePull
<1>4. CASE pc[id] = "receive"
  <2>1. StepsLeft(id) = Size + 9 - n
    BY <1>2, <1>4 DEF StepsLeft
  <2>2. StepsLeft(id) \in 1 .. OnePull + 2
    BY <1>1, <1>3, <2>1
  <2> QED
    BY <1>3, <2>2 DEF ToGo
<1>5. CASE pc[id] # "receive"
  <2>1. \/ StepsLeft(id) \in {1, 2, 3, 4, 5, 6, 7}
        \/ StepsLeft(id) \in {OnePull - 2, OnePull - 1, OnePull, OnePull + 1, OnePull + 2}
    BY <1>5, Zenon DEF StepsLeft
  <2>2. StepsLeft(id) \in 1 .. OnePull + 2
    BY <1>1, <1>3, <2>1
  <2> QED
    BY <1>3, <2>2 DEF ToGo
<1> QED
  BY <1>4, <1>5

LEMMA InReachNext == IInv' => InReach'
BY AlwaysInReach, PTL

(* What a step of the command on another id does to this one: nothing.      *)
StepOn(id) ==
  \/ NewRow(id) \/ StartPull(id) \/ StartRemove(id)
  \/ Run(id) \/ MoveBack(id) \/ Stop(id)

LEMMA OthersApart ==
  ASSUME IInv, NEW id \in Ids, StepOn(id), NEW x \in Ids \ {id}
  PROVE  /\ pc'[x] = pc[x] /\ row'[x] = row[x] /\ catalog'[x] = catalog[x]
         /\ staged'[x] = staged[x]
<1>1. /\ pc' = pc \/ \E s : pc' = [pc EXCEPT ![id] = s]
      /\ row' = row \/ \E r : row' = [row EXCEPT ![id] = r]
      /\ catalog' = catalog \/ \E r : catalog' = [catalog EXCEPT ![id] = r]
      /\ staged' = staged \/ \E d : staged' = [staged EXCEPT ![id] = d]
  <2>1. CASE NewRow(id) \/ StartPull(id) \/ StartRemove(id) \/ MoveBack(id) \/ Stop(id)
    BY <2>1 DEF NewRow, StartPull, StartRemove, MoveBack, Stop, Ends, Goto, files
  <2>2. CASE CleanStaging(id) \/ BeginDownload(id) \/ Receive(id) \/ Build(id)
    BY <2>2 DEF CleanStaging, BeginDownload, Receive, Build, Ends, Goto
  <2>3. CASE EndOfStream(id)
    BY <2>3 DEF EndOfStream, Ends, Goto
  <2>4. CASE ClearAside(id) \/ SetAside(id) \/ MoveIn(id) \/ ClearReplaced(id)
    BY <2>4 DEF ClearAside, SetAside, MoveIn, ClearReplaced, Goto
  <2>5. CASE ReadLock(id) \/ Pin(id) \/ RemoveDir(id) \/ Unpin(id)
    BY <2>5 DEF ReadLock, Pin, RemoveDir, Unpin, Goto, Ends, files
  <2> QED
    BY <2>1, <2>2, <2>3, <2>4, <2>5 DEF StepOn, Run
<1>2. x # id
  OBVIOUS
<1> QED
  BY <1>1, <1>2 DEF IInv, Types, Locks

LEMMA OthersKeepTheirWay ==
  ASSUME IInv, NEW id \in Ids, StepOn(id), NEW x \in Ids \ {id}
  PROVE  ToGo(x)' = ToGo(x)
<1>1. /\ pc'[x] = pc[x] /\ row'[x] = row[x] /\ catalog'[x] = catalog[x]
      /\ staged'[x] = staged[x]
  BY OthersApart
<1>2. StepsLeft(x)' = StepsLeft(x)
  BY <1>1 DEF StepsLeft, OnePull
<1>3. Target(x)' = Target(x)
  BY <1>1 DEF Target
<1>4. Begins(staged[x].weight, Target(x))' <=> Begins(staged[x].weight, Target(x))
  BY <1>1, <1>3 DEF Begins
<1> QED
  BY <1>2, <1>4 DEF ToGo, OnePull

LEMMA FetchedStep ==
  ASSUME IInv, Fetched, NEW id \in Ids, StepOn(id)
  PROVE  Fetched'
<1>1. ASSUME NEW x \in Ids \ {id}, pc'[x] = "build"
      PROVE  staged'[x].weight = Whole(row'[x])
  BY <1>1, OthersApart DEF Fetched
<1>2. ASSUME pc'[id] = "build" PROVE staged'[id].weight = Whole(row'[id])
  <2>0. Types
    BY DEF IInv
  <2>1. CASE NewRow(id)
    BY <1>2, <2>1 DEF NewRow, Fetched, files
  <2>2. CASE Receive(id)
    BY <1>2, <2>2 DEF Receive, At
  <2>3. CASE BeginDownload(id)
    <3>1. PICK w : w = Resume(staged[id].weight, row[id])
      OBVIOUS
    <3>2. Matches(w, row[id])
      BY <1>2, <2>0, <2>3, <3>1 DEF BeginDownload, Goto, Types
    <3>3. staged'[id].weight = w /\ row' = row
      BY <2>0, <2>3, <3>1 DEF BeginDownload, Dir, Types
    <3> QED
      BY <3>2, <3>3 DEF Matches
  <2>4. CASE EndOfStream(id)
    <3>1. ~Ends(id)
      BY <1>2, <2>0 DEF Ends, Types
    <3> QED
      BY <2>4, <3>1 DEF EndOfStream
  <2>5. CASE Build(id)
    BY <1>2, <2>0, <2>5 DEF Build, Goto, Ends, Types
  <2>6. CASE \/ StartPull(id) \/ StartRemove(id) \/ MoveBack(id) \/ Stop(id)
             \/ CleanStaging(id) \/ SetAside(id) \/ ClearReplaced(id)
             \/ ReadLock(id) \/ Pin(id) \/ Unpin(id) \/ RemoveDir(id)
    BY <1>2, <2>0, <2>6
    DEF StartPull, StartRemove, MoveBack, Stop, CleanStaging, SetAside, ClearReplaced,
        ReadLock, Pin, Unpin, RemoveDir, Goto, Ends, Types
  <2>7. CASE ClearAside(id) \/ MoveIn(id)
    BY <1>2, <2>0, <2>7 DEF ClearAside, MoveIn, Goto, Types
  <2> QED
    BY <2>1, <2>2, <2>3, <2>4, <2>5, <2>6, <2>7 DEF StepOn, Run
<1> QED
  BY <1>1, <1>2 DEF Fetched

LEMMA AlwaysFetched == Spec => []Fetched
<1>1. Init => Fetched
  BY DEF Init, Fetched
<1>2. IInv /\ Fetched /\ [Next]_vars => Fetched'
  <2>1. ASSUME IInv, Fetched, Next PROVE Fetched'
    BY <2>1, FetchedStep DEF Next, StepOn
  <2>2. ASSUME Fetched, UNCHANGED vars PROVE Fetched'
    BY <2>2 DEF Fetched, vars, files
  <2> QED
    BY <2>1, <2>2
<1> QED
  BY <1>1, <1>2, InstallInvariant, PTL DEF Spec

-----------------------------------------------------------------------------
Nearer(id) == Usable(id)' \/ ToGo(id)' < ToGo(id)

LEMMA OneStepNearer ==
  ASSUME IInv, IInv', NEW id \in Ids,
         StepsLeft(id)' < StepsLeft(id),
         Begins(staged[id].weight, Target(id)) => Begins(staged[id].weight, Target(id))'
  PROVE  Nearer(id)
<1>1. /\ StepsLeft(id) \in Nat /\ OnePull \in Nat
  BY AlwaysInReach, InstallAssumption DEF InReach, OnePull
<1>2. StepsLeft(id)' \in Nat
  BY InReachNext, InstallAssumption DEF InReach, OnePull
<1>3. ToGo(id)' = StepsLeft(id)' + IF Begins(staged[id].weight, Target(id))' THEN 0 ELSE OnePull
  BY DEF ToGo, OnePull
<1> QED
  BY <1>1, <1>2, <1>3 DEF Nearer, ToGo

(* A file that is complete and begins as the row's is the row's.           *)
LEMMA WholeOrNot ==
  ASSUME IInv, NEW id \in Ids, Len(staged[id].weight) >= Size,
         Begins(staged[id].weight, row[id])
  PROVE  staged[id].weight = Whole(row[id])
<1>1. PICK w \in Seq(Revisions \cup {Garbage}) : w = staged[id].weight
  BY WeightFacts
<1>2. Len(w) = Size /\ \A i \in 1 .. Size : w[i] = row[id]
  BY <1>1, InstallAssumption DEF Begins
<1>3. w = [i \in 1 .. Len(w) |-> w[i]]
  OBVIOUS
<1> QED
  BY <1>1, <1>2, <1>3 DEF Whole

LEMMA StagingNearer ==
  ASSUME IInv, IInv', NEW id \in Ids, faults' = faults,
         StartPull(id) \/ CleanStaging(id) \/ BeginDownload(id) \/ Receive(id)
  PROVE  Nearer(id)
<1>0. Types /\ Size \in Nat /\ faults \in Nat
  BY InstallAssumption DEF IInv, Types
<1>1. CASE StartPull(id)
  <2>1. /\ pc[id] = "idle" /\ pc'[id] = "clean"
        /\ staged'[id] = staged[id] /\ row'[id] = catalog[id]
    BY <1>0, <1>1 DEF StartPull, At, Goto, Types, Locks, files
  <2>2. StepsLeft(id)' < StepsLeft(id)
    BY <1>0, <2>1 DEF StepsLeft, OnePull
  <2>3. Target(id)' = Target(id)
    BY <2>1 DEF Target, Pulling, Steps
  <2> QED
    BY <2>1, <2>2, <2>3, OneStepNearer DEF Begins
<1>2. CASE CleanStaging(id)
  <2>1. /\ pc[id] = "clean" /\ pc'[id] = "download" /\ row'[id] = row[id]
        /\ staged'[id].weight = staged[id].weight
    BY <1>0, <1>2 DEF CleanStaging, At, Goto, Dir, Types
  <2>2. StepsLeft(id)' < StepsLeft(id)
    BY <1>0, <2>1 DEF StepsLeft, OnePull
  <2>3. Target(id)' = Target(id)
    BY <2>1 DEF Target, Pulling, Steps
  <2> QED
    BY <2>1, <2>2, <2>3, OneStepNearer DEF Begins
<1>3. CASE BeginDownload(id)
  <2>1. PICK w : w = Resume(staged[id].weight, row[id])
    OBVIOUS
  <2>2. /\ pc[id] = "download" /\ pc'[id] \in {"build", "receive"} /\ row'[id] = row[id]
        /\ staged'[id].weight = w
    BY <1>0, <1>3, <2>1 DEF BeginDownload, At, Goto, Dir, Types
  <2>3. w = staged[id].weight \/ w = <<>>
    BY <2>1 DEF Resume
  <2>4. Target(id)' = Target(id)
    BY <2>2 DEF Target, Pulling, Steps
  <2>5. Begins(staged[id].weight, Target(id)) => Begins(staged[id].weight, Target(id))'
    BY <2>2, <2>3, <2>4, EmptyBegins DEF Begins
  <2>6. PICK n \in Nat : n = Len(w)
    BY <2>3, WeightFacts
  <2>7. StepsLeft(id) = Size + 10
    BY <1>0, <2>2 DEF StepsLeft, OnePull
  <2>8. StepsLeft(id)' = 7 \/ StepsLeft(id)' = Size + 9 - n
    BY <2>2, <2>6 DEF StepsLeft
  <2>9. StepsLeft(id)' < StepsLeft(id)
    BY <1>0, <2>7, <2>8
  <2> QED
    BY <2>5, <2>9, OneStepNearer
<1>4. CASE Receive(id)
  <2>0. PICK w \in Seq(Revisions \cup {Garbage}) : w = staged[id].weight
    BY WeightFacts
  <2>1. ~Fault
    BY <1>0 DEF Fault
  <2>2. /\ pc[id] = "receive" /\ pc'[id] = "receive" /\ row'[id] = row[id]
        /\ staged' = [staged EXCEPT ![id] = Dir(Append(@.weight, row[id]), @.image)]
        /\ Len(w) < Size
    BY <1>4, <2>0, <2>1 DEF Receive, At
  <2>3. row[id] \in Revisions \cup {Garbage}
    BY <2>2 DEF IInv, Rowed, Pulling, Steps
  <2>4. staged'[id].weight = Append(w, row[id])
    BY <1>0, <2>0, <2>2 DEF Dir, Types
  <2>5. PICK n \in Nat : n = Len(w) /\ Len(Append(w, row[id])) = n + 1
    BY <2>0, <2>3
  <2>6. StepsLeft(id) = Size + 9 - n /\ StepsLeft(id)' = Size + 9 - (n + 1)
    BY <2>0, <2>2, <2>4, <2>5 DEF StepsLeft
  <2>7. Target(id)' = row[id] /\ Target(id) = row[id]
    BY <2>2 DEF Target, Pulling, Steps
  <2>8. Begins(w, row[id]) => Begins(Append(w, row[id]), row[id])
    <3>1. n + 1 <= Size
      BY <1>0, <2>2, <2>5
    <3>2. \A i \in 1 .. n + 1 :
            Append(w, row[id])[i] = IF i = n + 1 THEN row[id] ELSE w[i]
      BY <2>0, <2>3, <2>5
    <3> QED
      BY <2>5, <3>1, <3>2 DEF Begins
  <2>9. Begins(staged[id].weight, Target(id)) => Begins(staged[id].weight, Target(id))'
    BY <2>0, <2>4, <2>7, <2>8 DEF Begins
  <2> QED
    BY <1>0, <2>6, <2>9, OneStepNearer
<1> QED
  BY <1>1, <1>2, <1>3, <1>4

(* What is thrown away was not worth going on with.                        *)
LEMMA EndNearer ==
  ASSUME IInv, IInv', NEW id \in Ids, faults' = faults, EndOfStream(id)
  PROVE  Nearer(id)
<1>0. Types /\ Size \in Nat /\ faults \in Nat /\ pc[id] = "receive"
  BY InstallAssumption DEF IInv, Types, EndOfStream, At
<1>1. ~Fault
  BY <1>0 DEF Fault
<1>2. Target(id) = row[id]
  BY <1>0 DEF Target, Pulling, Steps
<1>3. CASE staged[id].weight = Whole(row[id])
  <2>1. pc'[id] = "build" /\ UNCHANGED <<staged, row>>
    BY <1>0, <1>1, <1>3, WholeBegins DEF EndOfStream, Goto, Types
  <2>2. StepsLeft(id) = 9 /\ StepsLeft(id)' = 7
    BY <1>0, <1>3, <2>1, WholeBegins DEF StepsLeft
  <2>3. Target(id)' = row[id]
    BY <2>1 DEF Target, Pulling, Steps
  <2> QED
    BY <1>2, <2>1, <2>2, <2>3, OneStepNearer DEF Begins
<1>4. CASE staged[id].weight # Whole(row[id])
  <2>1. /\ Len(staged[id].weight) >= Size
        /\ staged' = [staged EXCEPT ![id] = Dir(<<>>, @.image)]
        /\ Ends(id)
    BY <1>1, <1>4 DEF EndOfStream
  <2>2. ~Begins(staged[id].weight, Target(id))
    BY <1>2, <1>4, <2>1, WholeOrNot
  <2>3. pc'[id] = "idle" /\ staged'[id].weight = <<>>
    BY <1>0, <2>1 DEF Ends, Dir, Types
  <2>4. ToGo(id)' = OnePull
    <3>1. StepsLeft(id)' = OnePull
      BY <2>3 DEF StepsLeft, OnePull
    <3>2. Begins(staged[id].weight, Target(id))'
      BY <2>3, EmptyBegins DEF Begins
    <3> QED
      BY <1>0, <3>1, <3>2 DEF ToGo, OnePull
  <2>5. StepsLeft(id) \in Nat \ {0} /\ OnePull \in Nat
    BY <1>0, AlwaysInReach DEF InReach, OnePull
  <2> QED
    BY <2>2, <2>4, <2>5 DEF ToGo, Nearer
<1> QED
  BY <1>3, <1>4

LEMMA PromotionNearer ==
  ASSUME IInv, IInv', Fetched, NEW id \in Ids, faults' = faults,
         Build(id) \/ ClearAside(id) \/ SetAside(id) \/ ClearReplaced(id) \/ ReadLock(id)
  PROVE  Nearer(id)
<1>0. Types
  BY DEF IInv
<1>1. /\ row'[id] = row[id] /\ staged'[id].weight = staged[id].weight
      /\ \/ pc[id] = "build" /\ pc'[id] = "promote"
         \/ pc[id] = "promote" /\ pc'[id] \in {"set aside", "move in"}
         \/ pc[id] = "set aside" /\ pc'[id] = "replace"
         \/ pc[id] = "clear" /\ pc'[id] = "read lock"
         \/ pc[id] = "read lock" /\ pc'[id] = "pin"
  <2>1. CASE Build(id)
    <3>1. pc[id] = "build" /\ staged[id].weight = Whole(row[id])
      BY <2>1 DEF Build, At, Fetched
    <3> QED
      BY <1>0, <2>1, <3>1 DEF Build, Goto, Dir, Types
  <2>2. CASE ClearAside(id)
    BY <1>0, <2>2 DEF ClearAside, At, Goto, Types
  <2>3. CASE SetAside(id) \/ ClearReplaced(id) \/ ReadLock(id)
    BY <1>0, <2>3 DEF SetAside, ClearReplaced, ReadLock, At, Goto, Types, files
  <2> QED
    BY <2>1, <2>2, <2>3
<1>2. StepsLeft(id)' < StepsLeft(id)
  <2>1. \/ StepsLeft(id) = 7 /\ StepsLeft(id)' = 6
        \/ StepsLeft(id) = 6 /\ StepsLeft(id)' \in {4, 5}
        \/ StepsLeft(id) = 5 /\ StepsLeft(id)' = 4
        \/ StepsLeft(id) = 3 /\ StepsLeft(id)' = 2
        \/ StepsLeft(id) = 2 /\ StepsLeft(id)' = 1
    BY <1>1 DEF StepsLeft
  <2> QED
    BY <2>1
<1>3. Target(id)' = Target(id)
  BY <1>1 DEF Target, Pulling, Steps
<1> QED
  BY <1>1, <1>2, <1>3, OneStepNearer DEF Begins

LEMMA LastStepsNearer ==
  ASSUME IInv, IInv', NEW id \in Ids, faults' = faults,
         MoveIn(id) \/ Pin(id) \/ RemoveDir(id) \/ Unpin(id)
  PROVE  Nearer(id)
<1>0. Types /\ Size \in Nat /\ faults \in Nat
  BY InstallAssumption DEF IInv, Types
<1>1. CASE MoveIn(id)
  <2>1. /\ pc[id] \in {"move in", "replace"} /\ pc'[id] \in {"clear", "read lock"}
        /\ staged'[id].weight = <<>>
    BY <1>0, <1>1 DEF MoveIn, At, Goto, NoDir, Dir, Types
  <2>2. StepsLeft(id) = 4 /\ StepsLeft(id)' \in {2, 3}
    BY <2>1, Zenon DEF StepsLeft
  <2>3. Begins(staged[id].weight, Target(id))'
    BY <2>1, EmptyBegins DEF Begins
  <2> QED
    BY <2>2, <2>3, OneStepNearer
<1>2. CASE Pin(id)
  <2>1. row[id] \in Revisions /\ Verifies(models[id], row[id])
    BY <1>2 DEF IInv, Rowed, Made, Pulling, Promoted, Steps, Pin, At
  <2>2. lock'[id] = row[id] /\ models' = models
    BY <1>0, <1>2 DEF Pin, PinnedLock, Types, Locks, files
  <2>3. row[id] # Unpinned
    BY <2>1, RevisionsArePositive DEF Unpinned
  <2> QED
    BY <2>1, <2>2, <2>3 DEF Usable, Nearer
<1>3. CASE RemoveDir(id) \/ Unpin(id)
  <2>1. ~Fault
    BY <1>0 DEF Fault
  <2>2. /\ staged'[id] = staged[id] /\ catalog'[id] = catalog[id]
        /\ \/ pc[id] = "remove" /\ pc'[id] = "unpin"
           \/ pc[id] = "unpin" /\ pc'[id] = "idle"
    BY <1>0, <1>3, <2>1 DEF RemoveDir, Unpin, At, Goto, Ends, Types, files
  <2>3. StepsLeft(id)' < StepsLeft(id)
    <3>1. \/ StepsLeft(id) = OnePull + 2 /\ StepsLeft(id)' = OnePull + 1
          \/ StepsLeft(id) = OnePull + 1 /\ StepsLeft(id)' = OnePull
      BY <2>2, Zenon DEF StepsLeft, OnePull
    <3>2. OnePull \in Nat
      BY <1>0 DEF OnePull
    <3> QED
      BY <3>1, <3>2
  <2>4. Target(id)' = Target(id)
    BY <2>2 DEF Target, Pulling, Steps
  <2> QED
    BY <2>2, <2>3, <2>4, OneStepNearer DEF Begins
<1> QED
  BY <1>1, <1>2, <1>3

(* A step of a pull, or of a removal, in which nothing fails brings its id  *)
(* nearer to a model that can be used, or makes it usable: also when an     *)
(* earlier attempt left half a file, another revision's file, rubbish, or a *)
(* model set aside. The commands on the other ids neither help nor hinder,  *)
(* though one may take the pin away again. So of a pull that is repeated    *)
(* at most 2 * Size + 26 steps lie between one fault, removal or new row    *)
(* and a usable model.                                                      *)
RepairIsBounded ==
  [][\A id \in Ids :
       /\ (StartPull(id) \/ Run(id)) /\ faults' = faults => Nearer(id)
       /\ \A x \in Ids \ {id} : StepOn(x) => ToGo(id)' = ToGo(id)]_vars

THEOREM RepairTakesFewSteps == Spec => []InReach /\ RepairIsBounded
<1> DEFINE Repairs ==
      \A id \in Ids :
        /\ (StartPull(id) \/ Run(id)) /\ faults' = faults => Nearer(id)
        /\ \A x \in Ids \ {id} : StepOn(x) => ToGo(id)' = ToGo(id)
<1>1. ASSUME IInv, IInv', Fetched PROVE Repairs
  <2>1. ASSUME NEW id \in Ids, StartPull(id) \/ Run(id), faults' = faults
        PROVE  Nearer(id)
    BY <1>1, <2>1, StagingNearer, EndNearer, PromotionNearer, LastStepsNearer DEF Run
  <2>2. ASSUME NEW id \in Ids, NEW x \in Ids \ {id}, StepOn(x)
        PROVE  ToGo(id)' = ToGo(id)
    BY <1>1, <2>2, OthersKeepTheirWay
  <2> QED
    BY <2>1, <2>2
<1> HIDE DEF Repairs
<1>2. Spec => [][Repairs]_vars
  BY <1>1, InstallInvariant, AlwaysFetched, PTL DEF Spec
<1>3. Spec => []InReach
  BY InstallInvariant, AlwaysInReach, PTL
<1> QED
  BY <1>2, <1>3 DEF Repairs, RepairIsBounded
=============================================================================
