------------------------------ MODULE StateFiles ------------------------------
(***************************************************************************)
(* How two stores keep their state in a file and a backup of it: the       *)
(* safety state (safety_state.py), whose savers take a file lock, and the  *)
(* execution state (execution_persistence.py), of whose savers this        *)
(* module has one at a time: OrderExecution has what savers at once do.    *)
(*                                                                         *)
(* A save is the system calls it makes. A crash may come between any two   *)
(* of them; what was not yet synchronised, contents and renamings, may     *)
(* then be gone, as when the power fails. The contents of a file are the   *)
(* number of the save they are of. Once, those of the primary file may     *)
(* become unreadable on disk: that is what the backup is for.              *)
(***************************************************************************)
EXTENDS Integers, Sequences

CONSTANTS
  FileStores,      \* the stores, "safety" or "execution"
  MaxSaves,        \* bound on the saves
  MaxFileCrashes   \* bound on the crashes

ASSUME FilesAssumption ==
  /\ FileStores \subseteq {"safety", "execution"}
  /\ MaxSaves \in Nat \ {0} /\ MaxFileCrashes \in Nat

VARIABLES
  fileStore,   \* the store of this behaviour
  onDisk,      \* for each name [kind, save, old, synced]: contents that are whole, torn or
               \* absent, of which save, of a schema before the present one
  writing,     \* the save or the restore under way: the calls left, its contents, and the
               \* directory before each renaming that is not synchronised
  completed,   \* history: the last save that returned
  earlier,     \* history: the one before it, unless it had become unreadable
  damaged,     \* history: the primary has become unreadable since the last save
  fileCrashes, saves

fileVars == <<fileStore, onDisk, writing, completed, earlier, damaged, fileCrashes,
              saves>>

FileNames == {"primary", "backup", "tmp", "backupTmp"}
NotThere == [kind |-> "absent", save |-> 0, old |-> FALSE, synced |-> TRUE]
Torn == [kind |-> "torn", save |-> 0, old |-> FALSE, synced |-> FALSE]
Whole(n) == [kind |-> "whole", save |-> n, old |-> FALSE, synced |-> FALSE]
OfOlderSchema == [kind |-> "whole", save |-> 1, old |-> TRUE, synced |-> TRUE]
NoWriting == [calls |-> << >>, contents |-> NotThere, saving |-> FALSE, undo |-> {}]

Replacing == <<"open", "write", "sync", "replace", "syncDir">>
BackingUpFirst ==
  <<"copy", "syncCopy", "replaceBackup", "open", "write", "sync", "replace", "syncDir">>
BackingUpLast ==
  <<"open", "write", "sync", "copy", "syncCopy", "replaceBackup", "replace", "syncDir">>

\* A store starts without files, or the execution store with one of an older schema.
FilesInit ==
  /\ fileStore \in FileStores
  /\ \E was \in {NotThere, OfOlderSchema} :
       /\ was # NotThere => fileStore = "execution"
       /\ onDisk = [f \in FileNames |-> IF f = "primary" THEN was ELSE NotThere]
       /\ completed = was.save /\ saves = was.save
  /\ writing = NoWriting
  /\ earlier = 0 /\ damaged = FALSE /\ fileCrashes = 0

Doing(call) == writing.calls # << >> /\ Head(writing.calls) = call

-----------------------------------------------------------------------------
(* Reading                                                                  *)

\* _decode and _deserialize_into: contents are read whole or refused, and those of an
\* older schema are migrated.
Readable(f) == onDisk[f].kind = "whole"
Exists(f) == onDisk[f].kind # "absent"

\* What load reads: the primary, or else the backup; with neither there, the state of
\* a new store; and otherwise it raises.
LoadedFrom ==
  CASE Readable("primary") -> "primary"
    [] ~Readable("primary") /\ Readable("backup") -> "backup"
    [] ~Exists("primary") /\ ~Exists("backup") -> "new"
    [] OTHER -> "unreadable"

Loaded == IF LoadedFrom \in FileNames THEN onDisk[LoadedFrom].save ELSE 0

-----------------------------------------------------------------------------
(* Writing                                                                  *)

\* Mutant: the temporary file replaces the primary before it is synchronised.
SaveCallsUnsynced(hasPrimary) ==
  IF ~hasPrimary THEN <<"open", "write", "replace", "sync", "syncDir">>
  ELSE IF fileStore = "execution"
  THEN <<"copy", "syncCopy", "replaceBackup", "open", "write", "replace", "sync", "syncDir">>
  ELSE <<"open", "write", "copy", "syncCopy", "replaceBackup", "replace", "sync", "syncDir">>

\* The execution state is backed up before it is written, the safety state after it.
SaveCalls(hasPrimary) ==
  IF ~hasPrimary THEN Replacing
  ELSE IF fileStore = "execution" THEN BackingUpFirst ELSE BackingUpLast

\* The safety store loads under its lock before it saves, and raises with the load.
BeginSave ==
  /\ writing = NoWriting /\ saves < MaxSaves
  /\ fileStore = "safety" => LoadedFrom # "unreadable"
  /\ saves' = saves + 1
  /\ writing' = [calls |-> SaveCalls(Exists("primary")), contents |-> Whole(saves + 1),
                 saving |-> TRUE, undo |-> {}]
  /\ UNCHANGED <<fileStore, onDisk, completed, earlier, damaged, fileCrashes>>

\* Loading the execution state writes what it read from the backup, or migrated, to the
\* primary.
Restore ==
  /\ writing = NoWriting /\ fileStore = "execution" /\ LoadedFrom \in FileNames
  /\ LoadedFrom = "backup" \/ onDisk["primary"].old
  /\ writing' = [calls |-> Replacing, contents |-> Whole(Loaded), saving |-> FALSE,
                 undo |-> {}]
  /\ UNCHANGED <<fileStore, onDisk, completed, earlier, damaged, fileCrashes, saves>>

Holding(f, contents) == onDisk' = [onDisk EXCEPT ![f] = contents]
Renamed(from, to) == onDisk' = [onDisk EXCEPT ![to] = onDisk[from], ![from] = NotThere]
Renames == Doing("replace") \/ Doing("replaceBackup")

\* The calls of a save, one to a step.
SystemCall ==
  /\ writing # NoWriting
  /\ \/ Doing("open") /\ Holding("tmp", Torn)
     \/ Doing("write") /\ Holding("tmp", writing.contents)
     \/ Doing("sync") /\ Holding("tmp", [onDisk["tmp"] EXCEPT !.synced = TRUE])
     \/ Doing("copy") /\ Holding("backupTmp", [onDisk["primary"] EXCEPT !.synced = FALSE])
     \/ Doing("syncCopy") /\ Holding("backupTmp", [onDisk["backupTmp"] EXCEPT !.synced = TRUE])
     \/ Doing("replaceBackup") /\ Renamed("backupTmp", "backup")
     \/ Doing("replace") /\ Renamed("tmp", "primary")
     \/ Doing("syncDir") /\ UNCHANGED onDisk
  /\ writing' = IF Doing("syncDir") THEN NoWriting
                ELSE [writing EXCEPT !.calls = Tail(@),
                                     !.undo = IF Renames THEN @ \cup {onDisk} ELSE @]
  /\ IF Doing("syncDir") /\ writing.saving
     THEN /\ completed' = writing.contents.save
          /\ earlier' = IF damaged THEN earlier ELSE completed
          /\ damaged' = FALSE
     ELSE UNCHANGED <<completed, earlier, damaged>>
  /\ UNCHANGED <<fileStore, fileCrashes, saves>>

-----------------------------------------------------------------------------
(* Faults                                                                   *)

\* The process is gone, with its lock; renamings that were not synchronised may be
\* undone, and contents torn.
FileCrash ==
  /\ fileCrashes < MaxFileCrashes
  /\ fileCrashes' = fileCrashes + 1
  /\ writing' = NoWriting
  /\ \E left \in writing.undo \cup {onDisk} :
       \E lost \in SUBSET {f \in FileNames : ~left[f].synced} :
         onDisk' = [f \in FileNames |-> IF f \in lost THEN Torn ELSE left[f]]
  /\ UNCHANGED <<fileStore, completed, earlier, damaged, saves>>

\* Between two saves.
PrimaryDamaged ==
  /\ Readable("primary") /\ ~damaged /\ writing = NoWriting
  /\ damaged' = TRUE
  /\ onDisk' = [onDisk EXCEPT !["primary"] = Torn]
  /\ UNCHANGED <<fileStore, writing, completed, earlier, fileCrashes, saves>>

FilesNext == BeginSave \/ Restore \/ SystemCall \/ FileCrash \/ PrimaryDamaged

FilesSpec == FilesInit /\ [][FilesNext]_fileVars

-----------------------------------------------------------------------------
FilesTypeOK ==
  /\ fileStore \in FileStores
  /\ \A f \in FileNames : onDisk[f].kind \in {"absent", "torn", "whole"}
                            /\ onDisk[f].save \in 0..MaxSaves
  /\ damaged \in BOOLEAN /\ {completed, earlier, saves} \subseteq 0..MaxSaves
  /\ fileCrashes \in 0..MaxFileCrashes

\* "Atomic versioned JSON execution-state store with fail-closed recovery"
\* (execution_persistence.py): after a crash at any step of a save, load returns the last
\* state whose save returned or one whose save had begun, and never a part of one; once
\* the primary is unreadable it returns the state before, at the oldest, or raises, and
\* never starts as new.
LoadsTheLastSave ==
  /\ ~damaged => LoadedFrom # "unreadable" /\ Loaded >= completed
  /\ damaged => LoadedFrom = "unreadable" \/ Loaded >= earlier
  /\ completed > 0 => LoadedFrom # "new"
=============================================================================
