---------------------------- MODULE ModelInstall ----------------------------
(***************************************************************************)
(* `pull <id>` and `rm <id>` of knolo-infer: the files of a catalog model  *)
(* under the home directory and the lockfile that pins it.                 *)
(*                                                                         *)
(* A pull downloads the weight file into staging/<id>, goes on where an    *)
(* earlier download stopped, builds the image beside it, swaps the whole   *)
(* directory with models/<id> through models/<id>.replacing, and then      *)
(* reads and rewrites the lockfile. Nothing locks the home: commands on    *)
(* different ids overlap, and each may die, or give up on a failed call,   *)
(* between any two steps.                                                  *)
(*                                                                         *)
(* A row of the catalog is a revision. The weight file is the sequence of  *)
(* the parts received so far, each named by the revision it came from; a   *)
(* later row may keep the name of the file, so a resumed download can mix  *)
(* revisions. An image is named by the revision it was built for. At most  *)
(* one command works on an id at a time, and carries its name.             *)
(*                                                                         *)
(* Source: crates/infer-artifact/src/catalog.rs (pull_catalog_row,         *)
(* download_resolved, promote_dir, remove_installed), lockfile.rs.         *)
(***************************************************************************)
EXTENDS Naturals, Sequences

CONSTANTS
  Ids,            \* catalog ids
  Size,           \* row.size_bytes, in parts
  Rows,           \* bound: how many rows an id has had in the catalogs
  MaxRemovals,    \* bound: rm commands
  MaxFaults       \* bound: crashes, failed calls and bad downloads

ASSUME InstallAssumption ==
  /\ Size \in Nat \ {0}
  /\ Rows \in [Ids -> Nat \ {0}]
  /\ MaxRemovals \in Nat /\ MaxFaults \in Nat

Revisions == UNION {1 .. Rows[id] : id \in Ids}
Unpinned == 0
NoImage == 0
Garbage == 0

VARIABLES
  catalog,        \* the row each id has in the binary of the day
  staged,         \* staging/<id>
  models,         \* models/<id>
  replacing,      \* models/<id>.replacing
  lock,           \* knolo.infer.lock.json: the pinned revision of each id
  pc,             \* the next step of the command on an id
  row,            \* the row it pulls
  seen,           \* the lockfile it read
  removals, faults,
  installed       \* history: ids promoted since they were last removed

files == <<staged, models, replacing>>
vars == <<catalog, files, lock, pc, row, seen, removals, faults, installed>>

(* A directory with neither file stands for one that does not exist: each   *)
(* step treats the two alike.                                               *)
Dir(weight, image) == [weight |-> weight, image |-> image]
NoDir == Dir(<<>>, NoImage)
Parts == UNION {[1 .. n -> Revisions \cup {Garbage}] : n \in 0 .. Size + 1}
Dirs == [weight : Parts, image : Revisions \cup {NoImage}]

Whole(r) == [i \in 1 .. Size |-> r]

(* What compiling, or loading, an image accepts beside it.                  *)
Verifies(dir, r) == dir.image = r /\ dir.weight = Whole(r)

Usable(id) == lock[id] # Unpinned /\ Verifies(models[id], lock[id])

NoLock == [id \in Ids |-> Unpinned]

Init ==
  /\ catalog = [id \in Ids |-> 1]
  /\ staged = [id \in Ids |-> NoDir]
  /\ models = [id \in Ids |-> NoDir]
  /\ replacing = [id \in Ids |-> NoDir]
  /\ lock = NoLock
  /\ pc = [id \in Ids |-> "idle"]
  /\ row = [id \in Ids |-> Unpinned]
  /\ seen = [id \in Ids |-> NoLock]
  /\ removals = 0 /\ faults = 0
  /\ installed = {}

-----------------------------------------------------------------------------
At(id, step) == pc[id] = step
Goto(id, step) == pc' = [pc EXCEPT ![id] = step]

(* The command ends, with or without an error.                              *)
Ends(id) ==
  /\ pc' = [pc EXCEPT ![id] = "idle"]
  /\ row' = [row EXCEPT ![id] = Unpinned]
  /\ seen' = [seen EXCEPT ![id] = NoLock]

Fault == faults < MaxFaults /\ faults' = faults + 1

(* A release ships a new row for an id.                                     *)
NewRow(id) ==
  /\ catalog[id] < Rows[id]
  /\ catalog' = [catalog EXCEPT ![id] = @ + 1]
  /\ UNCHANGED <<files, lock, pc, row, seen, removals, faults, installed>>

(* The refusals of pull_catalog_row before its first write change nothing.  *)
StartPull(id) ==
  /\ At(id, "idle")
  /\ Goto(id, "clean")
  /\ row' = [row EXCEPT ![id] = catalog[id]]
  /\ UNCHANGED <<catalog, files, lock, seen, removals, faults, installed>>

(* An earlier attempt is thrown away but for its weight file.               *)
CleanStaging(id) ==
  /\ At(id, "clean")
  /\ staged' = [staged EXCEPT ![id] = Dir(@.weight, NoImage)]
  /\ Goto(id, "download")
  /\ UNCHANGED <<catalog, models, replacing, lock, row, seen, removals,
                 faults, installed>>

-----------------------------------------------------------------------------
(* download_resolved.                                                       *)

(* Faulty variant: a file of the right size is taken for the row's.         *)
TrustsSize(w, r) == Len(w) = Size

(* The file on disk is the row's; it needs no connection.                   *)
Matches(w, r) == w = Whole(r)

(* The file a download goes on with: one that is too long, or whole with    *)
(* the wrong digest, is removed first.                                      *)
Resume(w, r) == IF Len(w) < Size \/ Matches(w, r) THEN w ELSE <<>>

BeginDownload(id) ==
  LET w == Resume(staged[id].weight, row[id])
  IN  /\ At(id, "download")
      /\ staged' = [staged EXCEPT ![id] = Dir(w, @.image)]
      /\ Goto(id, IF Matches(w, row[id]) THEN "build" ELSE "receive")
      /\ UNCHANGED <<catalog, models, replacing, lock, row, seen, removals,
                     faults, installed>>

(* The next part of the body arrives: the right one, or anything.           *)
Receive(id) ==
  LET Got(part) ==
        staged' = [staged EXCEPT ![id] = Dir(Append(@.weight, part), @.image)]
  IN  /\ At(id, "receive")
      /\ \/ Len(staged[id].weight) < Size /\ Got(row[id]) /\ UNCHANGED faults
         \/ Len(staged[id].weight) <= Size /\ Got(Garbage) /\ Fault
      /\ UNCHANGED <<catalog, models, replacing, lock, pc, row, seen, removals,
                     installed>>

(* The stream ends. A short file is kept for the next attempt; any other    *)
(* file is removed unless it is the row's and curl had no complaint.        *)
EndOfStream(id) ==
  LET w == staged[id].weight
  IN  /\ At(id, "receive")
      /\ \/ /\ w = Whole(row[id])
            /\ Goto(id, "build")
            /\ UNCHANGED <<staged, row, seen, faults>>
         \/ /\ Len(w) < Size
            /\ Ends(id) /\ Fault
            /\ UNCHANGED staged
         \/ /\ Len(w) >= Size
            /\ IF w = Whole(row[id]) THEN Fault ELSE UNCHANGED faults
            /\ staged' = [staged EXCEPT ![id] = Dir(<<>>, @.image)]
            /\ Ends(id)
      /\ UNCHANGED <<catalog, models, replacing, lock, removals, installed>>

(* Tokenizer, template and manifest; the compiler hashes the weight file    *)
(* again and the image is written beside it.                                *)
Build(id) ==
  /\ At(id, "build")
  /\ IF staged[id].weight = Whole(row[id])
     THEN /\ staged' = [staged EXCEPT ![id] = Dir(@.weight, row[id])]
          /\ Goto(id, "promote")
          /\ UNCHANGED <<row, seen>>
     ELSE Ends(id) /\ UNCHANGED staged
  /\ UNCHANGED <<catalog, models, replacing, lock, removals, faults, installed>>

-----------------------------------------------------------------------------
(* promote_dir.                                                             *)

(* What an earlier promotion left aside goes only when there is something   *)
(* to set aside now.                                                        *)
ClearAside(id) ==
  /\ At(id, "promote")
  /\ IF models[id] = NoDir
     THEN Goto(id, "move in") /\ UNCHANGED replacing
     ELSE /\ replacing' = [replacing EXCEPT ![id] = NoDir]
          /\ Goto(id, "set aside")
  /\ UNCHANGED <<catalog, staged, models, lock, row, seen, removals, faults,
                 installed>>

(* Faulty variant: the installed model is removed to make room.             *)
AsideLost(id) == NoDir

Aside(id) == models[id]

SetAside(id) ==
  /\ At(id, "set aside")
  /\ replacing' = [replacing EXCEPT ![id] = Aside(id)]
  /\ models' = [models EXCEPT ![id] = NoDir]
  /\ Goto(id, "replace")
  /\ UNCHANGED <<catalog, staged, lock, row, seen, removals, faults, installed>>

(* Faulty variant: only the image takes the new place.                      *)
MovedImage(id) == Dir(replacing[id].weight, staged[id].image)

Moved(id) == staged[id]

MoveIn(id) ==
  /\ At(id, "move in") \/ At(id, "replace")
  /\ models' = [models EXCEPT ![id] = Moved(id)]
  /\ staged' = [staged EXCEPT ![id] = NoDir]
  /\ installed' = installed \cup {id}
  /\ Goto(id, IF At(id, "replace") THEN "clear" ELSE "read lock")
  /\ UNCHANGED <<catalog, replacing, lock, row, seen, removals, faults>>

(* The rename fails: what this pull set aside is moved back.                *)
MoveBack(id) ==
  /\ At(id, "replace") /\ Fault
  /\ models' = [models EXCEPT ![id] = replacing[id]]
  /\ replacing' = [replacing EXCEPT ![id] = NoDir]
  /\ Ends(id)
  /\ UNCHANGED <<catalog, staged, lock, removals, installed>>

ClearReplaced(id) ==
  /\ At(id, "clear")
  /\ replacing' = [replacing EXCEPT ![id] = NoDir]
  /\ Goto(id, "read lock")
  /\ UNCHANGED <<catalog, staged, models, lock, row, seen, removals, faults,
                 installed>>

-----------------------------------------------------------------------------
(* The lockfile is read and replaced whole, in two steps.                   *)
ReadLock(id) ==
  /\ At(id, "read lock")
  /\ seen' = [seen EXCEPT ![id] = lock]
  /\ Goto(id, "pin")
  /\ UNCHANGED <<catalog, files, lock, row, removals, faults, installed>>

(* Faulty variant: the pin names the row of another release.                *)
PinOfCatalog(id) == [seen[id] EXCEPT ![id] = catalog[id]]

(* pin_alias                                                                *)
PinnedLock(id) == [seen[id] EXCEPT ![id] = row[id]]

Pin(id) ==
  /\ At(id, "pin")
  /\ lock' = PinnedLock(id)
  /\ Ends(id)
  /\ UNCHANGED <<catalog, files, removals, faults, installed>>

-----------------------------------------------------------------------------
(* remove_installed: the lockfile is read first; an id that is not pinned   *)
(* is refused.                                                              *)

(* The path of the pin must resolve to a file below models.                 *)
Resolves(id) == models[id].image # NoImage

StartRemove(id) ==
  /\ At(id, "idle")
  /\ removals < MaxRemovals
  /\ lock[id] # Unpinned /\ Resolves(id)
  /\ Goto(id, "remove")
  /\ seen' = [seen EXCEPT ![id] = lock]
  /\ removals' = removals + 1
  /\ UNCHANGED <<catalog, files, lock, row, faults, installed>>

(* remove_dir_all takes the files one by one and may stop on the way.       *)
RemoveDir(id) ==
  /\ At(id, "remove")
  /\ installed' = installed \ {id}
  /\ \/ /\ models' = [models EXCEPT ![id] = NoDir]
        /\ Goto(id, "unpin")
        /\ UNCHANGED <<row, seen, faults>>
     \/ /\ \/ models' = [models EXCEPT ![id] = Dir(<<>>, @.image)]
           \/ models' = [models EXCEPT ![id] = Dir(@.weight, NoImage)]
        /\ Ends(id) /\ Fault
  /\ UNCHANGED <<catalog, staged, replacing, lock, removals>>

Unpin(id) ==
  /\ At(id, "unpin")
  /\ lock' = [seen[id] EXCEPT ![id] = Unpinned]
  /\ Ends(id)
  /\ UNCHANGED <<catalog, files, removals, faults, installed>>

(* The process dies, or a call fails and the command returns the error: the *)
(* files stay as they are.                                                  *)
Stop(id) ==
  /\ pc[id] # "idle" /\ Fault
  /\ Ends(id)
  /\ UNCHANGED <<catalog, files, lock, removals, installed>>

-----------------------------------------------------------------------------
Run(id) ==
  \/ CleanStaging(id) \/ BeginDownload(id) \/ Receive(id) \/ EndOfStream(id) \/ Build(id)
  \/ ClearAside(id) \/ SetAside(id) \/ MoveIn(id) \/ ClearReplaced(id)
  \/ ReadLock(id) \/ Pin(id) \/ RemoveDir(id) \/ Unpin(id)

Next ==
  \E id \in Ids :
    \/ NewRow(id) \/ StartPull(id) \/ StartRemove(id)
    \/ Run(id) \/ MoveBack(id) \/ Stop(id)

Spec == Init /\ [][Next]_vars

(* The user pulls again while the model cannot be used.                     *)
PullAgain(id) == ~Usable(id) /\ StartPull(id)

(* Processes run, and faults being bounded, a pull that is repeated meets a *)
(* network and a disk that work.                                            *)
FairSpec ==
  /\ Spec
  /\ \A id \in Ids : WF_vars(Run(id)) /\ WF_vars(PullAgain(id))

-----------------------------------------------------------------------------
(* Types, and what a command has made sure of when it comes to each step.   *)
Steps == {"idle", "clean", "download", "receive", "build", "promote", "set aside",
          "replace", "move in", "clear", "read lock", "pin", "remove", "unpin"}
TypeOK ==
  /\ catalog \in [Ids -> Revisions]
  /\ staged \in [Ids -> Dirs]
  /\ models \in [Ids -> Dirs]
  /\ replacing \in [Ids -> Dirs]
  /\ lock \in [Ids -> Revisions \cup {Unpinned}]
  /\ seen \in [Ids -> [Ids -> Revisions \cup {Unpinned}]]
  /\ pc \in [Ids -> Steps]
  /\ removals \in 0 .. MaxRemovals /\ faults \in 0 .. MaxFaults
  /\ installed \subseteq Ids
  /\ \A id \in Ids :
       /\ pc[id] \in {"promote", "set aside", "replace", "move in"}
            => Verifies(staged[id], row[id])
       /\ pc[id] \in {"clear", "read lock", "pin"} => Verifies(models[id], row[id])

(* Whatever stops a pull, and wherever, a model that was installed and not  *)
(* removed is on disk with all its bytes: in its place or set aside. No     *)
(* promotion, resume or clean-up of a later pull may take the last copy.    *)
KeepsACopy ==
  \A id \in installed :
    \E dir \in {models[id], replacing[id]}, r \in Revisions : Verifies(dir, r)

(* A pull that reports success leaves a model that a run or a serve accepts: *)
(* the pin names the image in place and the image its weights, whatever     *)
(* partial download, half-built image or set-aside model it began with.     *)
SuccessIsUsable ==
  [][\A id \in Ids :
       pc[id] = "pin" /\ pc'[id] = "idle" /\ faults' = faults
         => Usable(id)']_vars

(* What earlier attempts left behind never stands in the way for good: a    *)
(* user who pulls again gets the model, also after a bad download, a        *)
(* removal cut short, or a pin lost to another command.                     *)
RetriesRepair == \A id \in Ids : []<>Usable(id)
=============================================================================
