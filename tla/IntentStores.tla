----------------------------- MODULE IntentStores -----------------------------
(***************************************************************************)
(* The two backends of SubmissionIntentStore (submission_intent_store.py), *)
(* one step per replaced file or per database statement, and the import of *)
(* the file into the database at startup (startup_migrations.py).          *)
(*                                                                         *)
(* The file backend holds a lock on a file for a whole operation, and the  *)
(* lock ends with the process; a crash may leave the backup new and the    *)
(* primary old. The database backend reads a row, checks it, and writes    *)
(* the columns that differ from what it read; nothing locks the row in     *)
(* between. A deployment starts on the file and moves to the database.     *)
(***************************************************************************)
EXTENDS Integers, FiniteSets

CONSTANTS IntentIds,       \* client order ids
          IntentOrders,    \* broker order ids
          NoIntentOrder,
          Hashes, NoHash,  \* request fingerprints
          StoreCallers,    \* threads of any process that call the store
          MaxStoreCalls,   \* bound on calls
          MaxStoreCrashes  \* bound on deaths

ASSUME StoreAssumption ==
  /\ NoIntentOrder \notin IntentOrders
  /\ NoHash \notin Hashes /\ MaxStoreCalls \in Nat /\ MaxStoreCrashes \in Nat

VARIABLES backend,     \* "file" or "database"
          primary,     \* content of the file, or NoFile
          backup,      \* content of the .bak file, or NoFile
          rows,        \* the database table
          storeCaller, \* what each caller is doing
          migration,   \* the startup that imports the file: [step, intents]
          imported,    \* ids the import added to the table (history)
          finished,    \* ids that were resolved in the file (history)
          storeBounds  \* [calls, crashes] left, and the archive: "half" once a process has
                       \* died between its two renames (history)

storeVars == <<backend, primary, backup, rows, storeCaller, migration, imported, finished,
               storeBounds>>

TwoStatuses == {"NEW", "FILLED"}

Blank == [phase |-> "absent", fingerprint |-> NoHash, broker |-> NoIntentOrder,
          status |-> "none"]

Empty == [c \in IntentIds |-> Blank]

NoFile == [c \in {} |-> Blank]

NotCalling == [step |-> "idle"]

NoMigration == [step |-> "idle", intents |-> {}]

StoresInit ==
  /\ backend \in {"file", "database"}
  /\ primary = NoFile /\ backup = NoFile
  /\ rows = Empty
  /\ storeCaller = [w \in StoreCallers |-> NotCalling]
  /\ migration = NoMigration
  /\ imported = {} /\ finished = {}
  /\ storeBounds = [calls |-> MaxStoreCalls, crashes |-> MaxStoreCrashes, archive |-> "whole"]

\* _load_unlocked: the primary, or the backup when there is no primary.
Content ==
  IF primary # NoFile THEN primary ELSE IF backup # NoFile THEN backup ELSE Empty

\* What a reader of the store sees.
stored == IF backend = "file" THEN Content ELSE rows

Atomic == INSTANCE SubmissionIntents WITH
            ClientIds <- IntentIds, BrokerIds <- IntentOrders, NoBroker <- NoIntentOrder,
            Fingerprints <- Hashes, NoFingerprint <- NoHash, intents <- stored

\* Mutant: the operations of different processes are not serialised.
NeverLocked == FALSE

\* The exclusive lock of the file is held.
FileLocked ==
  \/ \E w \in StoreCallers : storeCaller[w].step \in {"saves", "replaces"}
  \/ migration.step # "idle"

Spent == storeBounds' = [storeBounds EXCEPT !.calls = @ - 1]

-----------------------------------------------------------------------------
(* What create, record_broker_order and resolve make of the record they     *)
(* read; a call that is refused, or finds nothing to write, ends at once.   *)
(* The arguments of a call are the columns it gives, as a record.           *)

Made(record, op, arg) ==
  CASE op = "create" -> [Blank EXCEPT !.phase = "unresolved", !.fingerprint = arg.fingerprint]
    [] op = "record" -> [record EXCEPT !.broker = arg.broker, !.status = arg.status]
    [] op = "resolve" -> [record EXCEPT !.phase = "resolved"]

Writes(record, op, arg) ==
  CASE op = "create" -> record.phase = "absent"
    [] op = "record" -> record.phase = "unresolved"
                        /\ record.broker \in {NoIntentOrder, arg.broker}
    [] op = "resolve" -> record.phase = "unresolved" /\ record.broker # NoIntentOrder

Columns(fingerprints, brokers, statuses) ==
  [phase : {"absent"}, fingerprint : fingerprints, broker : brokers, status : statuses]

Arguments(op) ==
  CASE op = "create" -> Columns(Hashes, {NoIntentOrder}, {"none"})
    [] op = "record" -> Columns({NoHash}, IntentOrders, TwoStatuses)
    [] op = "resolve" -> {Blank}

Call(w, op, c, arg, step, data) ==
  storeCaller' = [storeCaller EXCEPT ![w] = [step |-> step, op |-> op, id |-> c,
                                             arg |-> arg, data |-> data]]

Returns(w) == storeCaller' = [storeCaller EXCEPT ![w] = NotCalling]

-----------------------------------------------------------------------------
(* The file backend.                                                        *)

\* Under the lock: load, check, write the temporary file.
LoadAndCheck(w, op, c, arg) ==
  /\ backend = "file" /\ storeCaller[w].step = "idle" /\ ~FileLocked
  /\ storeBounds.calls > 0 /\ Spent
  /\ Writes(Content[c], op, arg)
  /\ Call(w, op, c, arg, IF primary = NoFile THEN "replaces" ELSE "saves",
          [Content EXCEPT ![c] = Made(@, op, arg)])
  /\ UNCHANGED <<backend, primary, backup, rows, migration, imported, finished>>

\* A copy of the primary becomes the backup.
ReplaceBackup(w) ==
  /\ storeCaller[w].step = "saves"
  /\ backup' = primary
  /\ storeCaller' = [storeCaller EXCEPT ![w].step = "replaces"]
  /\ UNCHANGED <<backend, primary, rows, migration, imported, finished, storeBounds>>

\* The temporary file becomes the primary; the lock is released.
ReplacePrimary(w) ==
  LET it == storeCaller[w]
  IN  /\ it.step = "replaces"
      /\ primary' = it.data
      /\ finished' = IF it.op = "resolve" THEN finished \cup {it.id} ELSE finished
      /\ Returns(w)
      /\ UNCHANGED <<backend, backup, rows, migration, imported, storeBounds>>

-----------------------------------------------------------------------------
(* The database backend.                                                    *)

\* session.get and the checks on what it returned.
ReadRow(w, op, c, arg) ==
  /\ backend = "database" /\ storeCaller[w].step = "idle"
  /\ storeBounds.calls > 0 /\ Spent
  /\ Writes(rows[c], op, arg)
  /\ Call(w, op, c, arg, "writes", rows[c])
  /\ UNCHANGED <<backend, primary, backup, rows, migration, imported, finished>>

\* The INSERT, which the primary key refuses when the row has appeared meanwhile.
InsertRow(w) ==
  LET it == storeCaller[w]
  IN  /\ it.step = "writes" /\ it.op = "create"
      /\ rows' = IF rows[it.id].phase = "absent"
                 THEN [rows EXCEPT ![it.id] = Made(Blank, "create", it.arg)]
                 ELSE rows
      /\ Returns(w)
      /\ UNCHANGED <<backend, primary, backup, migration, imported, finished, storeBounds>>

\* The UPDATE of the columns that differ from the row as it was read.
Changed(now, read, new) ==
  [phase |-> IF new.phase # read.phase THEN new.phase ELSE now.phase,
   fingerprint |-> now.fingerprint,
   broker |-> IF new.broker # read.broker THEN new.broker ELSE now.broker,
   status |-> IF new.status # read.status THEN new.status ELSE now.status]

UpdateRow(w) ==
  LET it == storeCaller[w]
  IN  /\ it.step = "writes" /\ it.op \in {"record", "resolve"}
      /\ rows' = [rows EXCEPT ![it.id] =
                    Changed(@, it.data, Made(it.data, it.op, it.arg))]
      /\ Returns(w)
      /\ UNCHANGED <<backend, primary, backup, migration, imported, finished, storeBounds>>

-----------------------------------------------------------------------------
(* The move to the database.                                                *)

\* The processes on the file have stopped, and the next ones use the database.
Redeploy ==
  /\ backend = "file"
  /\ \A w \in StoreCallers : storeCaller[w].step = "idle"
  /\ backend' = "database"
  /\ UNCHANGED <<primary, backup, rows, storeCaller, migration, imported, finished,
                 storeBounds>>

\* migrate_legacy_submission_intents takes the file lock and lists what is unresolved.
BeginMigration ==
  /\ backend = "database" /\ migration.step = "idle"
  /\ primary # NoFile \/ backup # NoFile
  /\ migration' = [step |-> "imports",
                   intents |-> {c \in IntentIds : Content[c].phase = "unresolved"}]
  /\ UNCHANGED <<backend, primary, backup, rows, storeCaller, imported, finished, storeBounds>>

\* A row that exists is accepted only if it is unresolved and the same.
Conflicts(c) ==
  /\ rows[c].phase # "absent"
  /\ rows[c].phase = "resolved" \/ rows[c].fingerprint # Content[c].fingerprint

\* One transaction: all rows, without their broker orders, or none.
ImportRows ==
  /\ migration.step = "imports"
  /\ IF \E c \in migration.intents : Conflicts(c)
     THEN migration' = NoMigration /\ UNCHANGED <<rows, imported>>
     ELSE LET new == {c \in migration.intents : rows[c].phase = "absent"}
          IN  /\ rows' = [c \in IntentIds |->
                            IF c \in new THEN [Content[c] EXCEPT !.broker = NoIntentOrder,
                                                                 !.status = "none"]
                            ELSE rows[c]]
              /\ imported' = imported \cup new
              /\ migration' = [migration EXCEPT !.step = "archives"]
  /\ UNCHANGED <<backend, primary, backup, storeCaller, finished, storeBounds>>

\* The primary is renamed, then the backup.
ArchivePrimary ==
  /\ migration.step = "archives"
  /\ primary' = NoFile
  /\ migration' = [migration EXCEPT !.step = "archives backup"]
  /\ UNCHANGED <<backend, backup, rows, storeCaller, imported, finished, storeBounds>>

\* Mutant: the backup stays where it is.
KeepBackup ==
  /\ migration.step = "archives backup"
  /\ migration' = NoMigration
  /\ UNCHANGED <<backend, primary, backup, rows, storeCaller, imported, finished, storeBounds>>

ArchiveBackup ==
  /\ migration.step = "archives backup"
  /\ backup' = NoFile
  /\ migration' = NoMigration
  /\ UNCHANGED <<backend, primary, rows, storeCaller, imported, finished, storeBounds>>

\* A process dies: its lock and its transaction end, what it replaced stays.
StoreCrash ==
  /\ storeBounds.crashes > 0
  /\ \/ /\ \E w \in StoreCallers : storeCaller[w].step # "idle" /\ Returns(w)
        /\ storeBounds' = [storeBounds EXCEPT !.crashes = @ - 1]
        /\ UNCHANGED migration
     \/ /\ migration.step # "idle" /\ migration' = NoMigration
        /\ storeBounds' = [storeBounds EXCEPT !.crashes = @ - 1,
                             !.archive = IF migration.step = "archives backup" THEN "half" ELSE @]
        /\ UNCHANGED storeCaller
  /\ UNCHANGED <<backend, primary, backup, rows, imported, finished>>

StoresNext ==
  \/ \E w \in StoreCallers :
       \/ \E op \in {"create", "record", "resolve"}, c \in IntentIds :
            \E arg \in Arguments(op) : LoadAndCheck(w, op, c, arg) \/ ReadRow(w, op, c, arg)
       \/ ReplaceBackup(w) \/ ReplacePrimary(w) \/ InsertRow(w) \/ UpdateRow(w)
  \/ Redeploy \/ BeginMigration \/ ImportRows \/ ArchivePrimary \/ ArchiveBackup
  \/ StoreCrash

StoresSpec == StoresInit /\ [][StoresNext]_storeVars

StoresTypeOK ==
  /\ backend \in {"file", "database"}
  /\ primary \in {NoFile} \cup [IntentIds -> Atomic!Intent]
  /\ backup \in {NoFile} \cup [IntentIds -> Atomic!Intent]
  /\ rows \in [IntentIds -> Atomic!Intent]
  /\ \A w \in StoreCallers : storeCaller[w].step \in {"idle", "saves", "replaces", "writes"}
  /\ migration.step \in {"idle", "imports", "archives", "archives backup"}
  /\ migration.intents \subseteq IntentIds
  /\ imported \subseteq IntentIds /\ finished \subseteq IntentIds

-----------------------------------------------------------------------------
(* Properties.                                                              *)

\* record_broker_order writes a row that is no longer the one it read and checked.
LateRecord ==
  \E w \in StoreCallers, c \in IntentIds, b \in IntentOrders, s \in TwoStatuses :
    /\ storeCaller[w].step = "writes" /\ storeCaller[w].op = "record" /\ storeCaller[w].id = c
    /\ storeCaller[w].data # stored[c]
    /\ stored' = [stored EXCEPT ![c].broker = b, ![c].status = s]

\* The import adds unresolved rows and changes none.
Imports ==
  \A c \in IntentIds : stored'[c] # stored[c] =>
    stored[c].phase = "absent" /\ stored'[c].phase = "unresolved"

\* Through every crash between the replaced files, the file backend takes the steps of the
\* atomic store and no other. The database backend, whose operations read and write a row
\* in two statements, takes one more besides the import: a record_broker_order whose row has
\* changed since it was read, which may bind a bound intent to another order or change a
\* resolved one. Even that changes no fingerprint, undoes no resolution and leaves no bound
\* intent without an order (submission_intent_store.py).
StoresAreAtomic ==
  [][backend' = backend /\ stored' # stored =>
       \/ \E c \in IntentIds :
            \/ \E h \in Hashes : Atomic!CreateIntent(c, h)
            \/ \E b \in IntentOrders, s \in TwoStatuses : Atomic!RecordBrokerOrder(c, b, s)
            \/ Atomic!ResolveIntent(c)
       \/ backend = "database" /\ (LateRecord \/ Imports)]_stored

\* As long as no process died between the two renames of the archive, no startup imports an
\* intent that was resolved in the file: neither its own backup, nor a second startup, nor
\* one after a death anywhere else, brings one back (migrate_legacy_submission_intents).
ImportsOnlyUnresolved ==
  storeBounds.archive = "whole" => imported \cap finished = {}

\* "Resolved submission intents are now fully immutable: broker bindings/status cannot be
\* mutated after resolution" (PROJECT_PROGRESS.md): what a reader of the store sees of a
\* resolved intent never changes (_record_broker_database).
ResolvedIntentsAreImmutable ==
  [][backend' = backend =>
       \A c \in IntentIds : stored[c].phase = "resolved" => stored'[c] = stored[c]]_stored
=============================================================================
