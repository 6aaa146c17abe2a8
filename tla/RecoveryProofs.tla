---------------------------- MODULE RecoveryProofs ----------------------------
(***************************************************************************)
(* Proofs about what is left after a crash and what is decided from it:    *)
(* the stores and files a process writes and the checks it makes when it   *)
(* comes back, and what the market feed hands on while its transport is    *)
(* lost and recovered. For any number of intents, callers, subscribers,    *)
(* crashes, restarts and reconnects.                                       *)
(***************************************************************************)
EXTENDS IntentStores, OrderSubmissions, StartupRecovery, BrokerAccounts, ReconciliationChecks,
        BrokerReports, IdentityRecovery, StateFiles, MarketFeed, SumTheorems

-----------------------------------------------------------------------------
(* The two backends of the intent store.                                    *)

USE StoreAssumption

OpNames == {"create", "record", "resolve"}

\* A record of the store: it has a status once it is bound, and is bound once it is resolved.
Record == [phase : {"absent", "unresolved", "resolved"}, fingerprint : Hashes \cup {NoHash},
              broker : IntentOrders \cup {NoIntentOrder}, status : TwoStatuses \cup {"none"}]

RecordOK(r) ==
  /\ r \in Record
  /\ r.phase = "absent" => r = Blank
  /\ r.phase = "resolved" => r.broker # NoIntentOrder
  /\ r.broker # NoIntentOrder <=> r.status \in TwoStatuses

TableOK(t) == /\ t = [c \in IntentIds |-> t[c]]
              /\ \A c \in IntentIds : RecordOK(t[c])

FileOK(f) == f = NoFile \/ TableOK(f)

\* What a caller holds of the file: the lock, and the table with one record changed.
SavingOK(r, table) ==
  r.step \in {"saves", "replaces"} =>
    /\ r.op \in OpNames /\ r.id \in IntentIds /\ r.arg \in Arguments(r.op)
    /\ Writes(table[r.id], r.op, r.arg)
    /\ r.data = [table EXCEPT ![r.id] = Made(@, r.op, r.arg)]

\* What is still true of the row a caller has read.
ReadOK(r, table) ==
  r.step = "writes" =>
    /\ r.op \in OpNames /\ r.id \in IntentIds /\ r.arg \in Arguments(r.op)
    /\ RecordOK(r.data) /\ Writes(r.data, r.op, r.arg)
    /\ r.op # "create" =>
         /\ table[r.id].phase \in {"unresolved", "resolved"}
         /\ table[r.id].fingerprint = r.data.fingerprint
         /\ r.data.broker # NoIntentOrder => table[r.id].broker # NoIntentOrder

IsCall(r) == r = [step |-> r.step, op |-> r.op, id |-> r.id, arg |-> r.arg, data |-> r.data]

CallersOK(callers, b, file, content, table) ==
  /\ callers = [w \in StoreCallers |-> callers[w]]
  /\ \A w \in StoreCallers :
       /\ callers[w].step \in {"idle", "saves", "replaces", "writes"}
       /\ callers[w].step # "idle" => IsCall(callers[w])
       /\ SavingOK(callers[w], content)
       /\ ReadOK(callers[w], table)
       /\ callers[w].step \in {"saves", "replaces"} => b = "file"
       /\ callers[w].step = "saves" => file # NoFile
       /\ callers[w].step = "writes" => b = "database"
  /\ \A v, w \in StoreCallers :
       callers[v].step \in {"saves", "replaces"} /\ callers[w].step \in {"saves", "replaces"}
         => v = w

\* What holds until a process dies between the two renames of the archive: files come and go together, and what was resolved in
\* the file is resolved in it or gone with it.
ArchivedWhole ==
  /\ primary = NoFile /\ migration.step # "archives backup" => backup = NoFile
  /\ primary # NoFile => \A c \in finished : primary[c].phase = "resolved"
  /\ backend = "file" /\ primary = NoFile => finished = {}
  /\ migration.step = "imports" => migration.intents \cap finished = {}
  /\ imported \cap finished = {}

BoundsOK(b) == b = [calls |-> b.calls, crashes |-> b.crashes, archive |-> b.archive]

StoresInv ==
  /\ backend \in {"file", "database"}
  /\ FileOK(primary) /\ FileOK(backup) /\ TableOK(rows)
  /\ CallersOK(storeCaller, backend, primary, Content, rows)
  /\ migration.step \in {"idle", "imports", "archives", "archives backup"}
  /\ migration = [step |-> migration.step, intents |-> migration.intents]
  /\ migration.step # "idle" => backend = "database"
  /\ migration.step = "imports" =>
       migration.intents \subseteq {c \in IntentIds : Content[c].phase = "unresolved"}
  /\ backend = "file" => imported = {} /\ (primary = NoFile => backup = NoFile)
  /\ finished \subseteq IntentIds
  /\ BoundsOK(storeBounds)
  /\ storeBounds.archive = "whole" => ArchivedWhole

LEMMA EmptyIsOK == TableOK(Empty) /\ FileOK(NoFile)
<1>1. RecordOK(Blank)
  BY DEF Blank, RecordOK, Record, TwoStatuses
<1>2. QED
  BY <1>1 DEF TableOK, FileOK, Empty

LEMMA ContentIsOK == ASSUME FileOK(primary), FileOK(backup) PROVE TableOK(Content)
BY EmptyIsOK DEF Content, FileOK

\* What the arguments of a call are.
LEMMA ArgumentsAre ==
  ASSUME NEW op \in OpNames, NEW arg \in Arguments(op)
  PROVE  /\ op = "create" => arg.fingerprint \in Hashes
         /\ op = "record" => /\ arg.broker \in IntentOrders /\ arg.broker # NoIntentOrder
                             /\ arg.status \in TwoStatuses
BY DEF Arguments, Columns, OpNames

\* A record made of one that is right is right.
LEMMA MadeIsOK ==
  ASSUME NEW r, RecordOK(r), NEW op \in OpNames,
         NEW arg \in Arguments(op), Writes(r, op, arg)
  PROVE  RecordOK(Made(r, op, arg))
<1>1. CASE op = "create"
  <2>1. arg.fingerprint \in Hashes /\ Made(r, op, arg) =
          [phase |-> "unresolved", fingerprint |-> arg.fingerprint, broker |-> NoIntentOrder,
           status |-> "none"]
    BY <1>1, ArgumentsAre DEF Made, Blank
  <2>2. QED
    BY <2>1 DEF RecordOK, Record, TwoStatuses
<1>2. CASE op = "record"
  <2>1. /\ arg.broker \in IntentOrders /\ arg.broker # NoIntentOrder /\ arg.status \in TwoStatuses
        /\ Made(r, op, arg) = [r EXCEPT !.broker = arg.broker, !.status = arg.status]
        /\ r.phase = "unresolved"
    BY <1>2, ArgumentsAre DEF Made, Writes
  <2>2. QED
    BY <2>1 DEF RecordOK, Record
<1>3. CASE op = "resolve"
  <2>1. /\ Made(r, op, arg) = [r EXCEPT !.phase = "resolved"]
        /\ r.phase = "unresolved" /\ r.broker # NoIntentOrder
    BY <1>3 DEF Made, Writes
  <2>2. QED
    BY <2>1 DEF RecordOK, Record
<1>4. QED
  BY <1>1, <1>2, <1>3 DEF OpNames

LEMMA StoresInitially == StoresInit => StoresInv
<1> SUFFICES ASSUME StoresInit PROVE StoresInv
  OBVIOUS
<1>1. FileOK(primary) /\ FileOK(backup) /\ TableOK(rows)
  BY EmptyIsOK DEF StoresInit
<1>2. CallersOK(storeCaller, backend, primary, Content, rows)
  BY DEF StoresInit, CallersOK, SavingOK, ReadOK, NotCalling
<1>3. migration.step = "idle" /\ migration = [step |-> migration.step, intents |-> migration.intents]
  BY DEF StoresInit, NoMigration
<1>4. ArchivedWhole
  BY <1>3 DEF StoresInit, ArchivedWhole
<1>5. BoundsOK(storeBounds)
  BY DEF StoresInit, BoundsOK
<1>6. QED
  BY <1>1, <1>2, <1>3, <1>4, <1>5 DEF StoresInv, StoresInit

-----------------------------------------------------------------------------
(* Callers.                                                                 *)

\* What a table keeps, so that what was read of it stays true.
TableGrows(now, next) ==
  \A c \in IntentIds :
    now[c].phase # "absent" =>
      /\ next[c].phase \in {"unresolved", "resolved"}
      /\ next[c].fingerprint = now[c].fingerprint
      /\ now[c].broker # NoIntentOrder => next[c].broker # NoIntentOrder

\* A caller that returns leaves the others as they were.
LEMMA ReturnKeeps ==
  ASSUME NEW callers, NEW b, NEW f, NEW content, NEW table,
         CallersOK(callers, b, f, content, table), NEW w \in StoreCallers
  PROVE  CallersOK([callers EXCEPT ![w] = NotCalling], b, f, content, table)
<1> DEFINE next == [callers EXCEPT ![w] = NotCalling]
<1>1. \A v \in StoreCallers : next[v] = IF v = w THEN NotCalling ELSE callers[v]
  BY DEF CallersOK
<1>2. NotCalling.step = "idle"
  BY DEF NotCalling
<1>3. next = [v \in StoreCallers |-> next[v]]
  BY DEF CallersOK
<1> HIDE DEF next
<1>4. \A v \in StoreCallers :
        /\ next[v].step \in {"idle", "saves", "replaces", "writes"}
        /\ next[v].step # "idle" => v # w /\ next[v] = callers[v]
  BY <1>1, <1>2 DEF CallersOK
<1>5. \A v \in StoreCallers : SavingOK(next[v], content) /\ ReadOK(next[v], table)
  BY <1>1, <1>2 DEF CallersOK, SavingOK, ReadOK
<1>6. CallersOK(next, b, f, content, table)
  BY <1>3, <1>4, <1>5 DEF CallersOK
<1>7. QED
  BY <1>6 DEF next

\* When nobody is saving, the file may change; a table that grows keeps its readers right.
LEMMA CallersKeep ==
  ASSUME NEW callers, NEW b, NEW f, NEW content, NEW table,
         CallersOK(callers, b, f, content, table),
         NEW g, NEW next, NEW grown,
         (next = content /\ (f # NoFile => g # NoFile)) \/
           \A w \in StoreCallers : callers[w].step \notin {"saves", "replaces"},
         TableGrows(table, grown)
  PROVE  CallersOK(callers, b, g, next, grown)
<1>1. \A w \in StoreCallers : SavingOK(callers[w], next)
  BY DEF CallersOK, SavingOK
<1>2. ASSUME NEW w \in StoreCallers PROVE ReadOK(callers[w], grown)
  <2>1. ReadOK(callers[w], table)
    BY DEF CallersOK
  <2>2. QED
    BY <2>1 DEF ReadOK, TableGrows
<1>3. QED
  BY <1>1, <1>2 DEF CallersOK

LEMMA TableStays == ASSUME NEW t, TableOK(t) PROVE TableGrows(t, t)
BY DEF TableOK, TableGrows, RecordOK, Record

\* What w may begin, as long as it is the only one to hold the lock.
CanBegin(callers, w, r, b, f, content, table) ==
  /\ r.step \in {"saves", "replaces", "writes"} /\ IsCall(r)
  /\ SavingOK(r, content) /\ ReadOK(r, table)
  /\ r.step = "writes" => b = "database"
  /\ r.step = "saves" => f # NoFile
  /\ r.step \in {"saves", "replaces"} =>
       /\ b = "file"
       /\ \A v \in StoreCallers \ {w} : callers[v].step \notin {"saves", "replaces"}

LEMMA CallBegins ==
  ASSUME NEW callers, NEW b, NEW f, NEW content, NEW table,
         CallersOK(callers, b, f, content, table), NEW w \in StoreCallers, NEW r,
         CanBegin(callers, w, r, b, f, content, table)
  PROVE  CallersOK([callers EXCEPT ![w] = r], b, f, content, table)
<1> DEFINE next == [callers EXCEPT ![w] = r]
<1>1. \A v \in StoreCallers : next[v] = IF v = w THEN r ELSE callers[v]
  BY DEF CallersOK
<1>2. next = [v \in StoreCallers |-> next[v]]
  BY DEF CallersOK
<1> HIDE DEF next
<1>3. ASSUME NEW v \in StoreCallers
      PROVE  /\ next[v].step \in {"idle", "saves", "replaces", "writes"}
             /\ next[v].step # "idle" => IsCall(next[v])
             /\ SavingOK(next[v], content) /\ ReadOK(next[v], table)
             /\ next[v].step \in {"saves", "replaces"} => b = "file"
             /\ next[v].step = "saves" => f # NoFile
             /\ next[v].step = "writes" => b = "database"
  BY <1>1 DEF CallersOK, CanBegin
<1>4. CallersOK(next, b, f, content, table)
  BY <1>1, <1>2, <1>3 DEF CallersOK, CanBegin
<1>5. QED
  BY <1>4 DEF next

\* One row written: the table stays right, and grows when the row does.
LEMMA RowWritten ==
  ASSUME NEW table, TableOK(table), NEW c \in IntentIds, NEW r, RecordOK(r),
         table[c].phase # "absent" =>
           /\ r.phase \in {"unresolved", "resolved"} /\ r.fingerprint = table[c].fingerprint
           /\ table[c].broker # NoIntentOrder => r.broker # NoIntentOrder
  PROVE  TableOK([table EXCEPT ![c] = r]) /\ TableGrows(table, [table EXCEPT ![c] = r])
<1> DEFINE next == [table EXCEPT ![c] = r]
<1>1. /\ next = [d \in IntentIds |-> next[d]]
      /\ \A d \in IntentIds : next[d] = IF d = c THEN r ELSE table[d]
  BY DEF TableOK
<1>2. TableGrows(table, table)
  BY TableStays
<1> HIDE DEF next
<1>3. TableOK(next) /\ TableGrows(table, next)
  BY <1>1, <1>2 DEF TableOK, TableGrows
<1>4. QED
  BY <1>3 DEF next

\* The rest of the invariant, when a step of a caller leaves the files and the move alone.
LEMMA FilesRest ==
  ASSUME StoresInv, UNCHANGED <<backend, primary, backup, migration, imported, finished>>,
         TableOK(rows'), CallersOK(storeCaller', backend', primary', Content', rows'),
         storeBounds'.archive = storeBounds.archive, BoundsOK(storeBounds')
  PROVE  StoresInv'
<1>1. Content' = Content
  BY DEF Content
<1>2. ArchivedWhole => ArchivedWhole'
  BY DEF ArchivedWhole
<1>3. QED
  BY <1>1, <1>2 DEF StoresInv

LEMMA LoadStores ==
  ASSUME StoresInv, NEW w \in StoreCallers, NEW op \in OpNames, NEW c \in IntentIds,
         NEW arg \in Arguments(op), LoadAndCheck(w, op, c, arg)
  PROVE  StoresInv'
<1> DEFINE r == [step |-> IF primary = NoFile THEN "replaces" ELSE "saves", op |-> op, id |-> c,
                 arg |-> arg, data |-> [Content EXCEPT ![c] = Made(@, op, arg)]]
<1>1. /\ storeCaller' = [storeCaller EXCEPT ![w] = r]
      /\ backend = "file" /\ ~FileLocked /\ Writes(Content[c], op, arg)
      /\ UNCHANGED <<backend, primary, backup, rows, migration, imported, finished>>
      /\ storeBounds' = [storeBounds EXCEPT !.calls = @ - 1]
  BY DEF LoadAndCheck, Call, Spent
<1>2. Content' = Content
  BY <1>1 DEF Content
<1>3. SavingOK(r, Content) /\ ReadOK(r, rows)
  BY <1>1 DEF SavingOK, ReadOK
<1>4. \A v \in StoreCallers \ {w} : storeCaller[v].step \notin {"saves", "replaces"}
  BY <1>1 DEF FileLocked
<1>5. /\ r.step \in {"saves", "replaces"} /\ (r.step = "saves" => primary # NoFile)
      /\ IsCall(r)
  BY DEF IsCall
<1> HIDE DEF r
<1>6. CallersOK(storeCaller', backend', primary', Content', rows')
  <2>1. CallersOK([storeCaller EXCEPT ![w] = r], backend, primary, Content, rows)
    <3>1. CallersOK(storeCaller, backend, primary, Content, rows)
      BY DEF StoresInv
    <3>2. CanBegin(storeCaller, w, r, backend, primary, Content, rows)
      BY <1>1, <1>3, <1>4, <1>5 DEF CanBegin
    <3>3. QED
      BY <3>1, <3>2, CallBegins
  <2>2. QED
    BY <1>1, <1>2, <2>1
<1>7. storeBounds'.archive = storeBounds.archive /\ BoundsOK(storeBounds')
  BY <1>1 DEF StoresInv, BoundsOK
<1>8. TableOK(rows')
  BY <1>1 DEF StoresInv, TableOK
<1>9. QED
  BY <1>1, <1>6, <1>7, <1>8, FilesRest

LEMMA ReadStores ==
  ASSUME StoresInv, NEW w \in StoreCallers, NEW op \in OpNames, NEW c \in IntentIds,
         NEW arg \in Arguments(op), ReadRow(w, op, c, arg)
  PROVE  StoresInv'
<1> DEFINE r == [step |-> "writes", op |-> op, id |-> c, arg |-> arg, data |-> rows[c]]
<1>1. /\ storeCaller' = [storeCaller EXCEPT ![w] = r]
      /\ backend = "database" /\ Writes(rows[c], op, arg)
      /\ UNCHANGED <<backend, primary, backup, rows, migration, imported, finished>>
      /\ storeBounds' = [storeBounds EXCEPT !.calls = @ - 1]
  BY DEF ReadRow, Call, Spent
<1>2. Content' = Content
  BY <1>1 DEF Content
<1>3. RecordOK(rows[c])
  BY DEF StoresInv, TableOK
<1>4. op # "create" => rows[c].phase = "unresolved"
  BY <1>1 DEF Writes, OpNames
<1>5. SavingOK(r, Content) /\ ReadOK(r, rows)
  BY <1>1, <1>3, <1>4 DEF SavingOK, ReadOK
<1>6. r.step = "writes" /\ IsCall(r)
  BY DEF IsCall
<1> HIDE DEF r
<1>7. CallersOK(storeCaller', backend', primary', Content', rows')
  <2>1. CallersOK([storeCaller EXCEPT ![w] = r], backend, primary, Content, rows)
    <3>1. CallersOK(storeCaller, backend, primary, Content, rows)
      BY DEF StoresInv
    <3>2. CanBegin(storeCaller, w, r, backend, primary, Content, rows)
      BY <1>1, <1>5, <1>6 DEF CanBegin
    <3>3. QED
      BY <3>1, <3>2, CallBegins
  <2>2. QED
    BY <1>1, <1>2, <2>1
<1>8. storeBounds'.archive = storeBounds.archive /\ BoundsOK(storeBounds')
  BY <1>1 DEF StoresInv, BoundsOK
<1>9. TableOK(rows')
  BY <1>1 DEF StoresInv, TableOK
<1>10. QED
  BY <1>1, <1>7, <1>8, <1>9, FilesRest

LEMMA BackupStores ==
  ASSUME StoresInv, NEW w \in StoreCallers, ReplaceBackup(w) PROVE StoresInv'
<1> DEFINE r == [storeCaller[w] EXCEPT !.step = "replaces"]
<1>1. /\ storeCaller[w].step = "saves" /\ storeCaller' = [storeCaller EXCEPT ![w].step = "replaces"]
      /\ backup' = primary
      /\ UNCHANGED <<backend, primary, rows, migration, imported, finished, storeBounds>>
  BY DEF ReplaceBackup
<1>2. CallersOK(storeCaller, backend, primary, Content, rows)
  BY DEF StoresInv
<1>3. storeCaller' = [storeCaller EXCEPT ![w] = r]
  BY <1>1
<1>4. IsCall(storeCaller[w]) /\ primary # NoFile /\ backend = "file"
  BY <1>1, <1>2 DEF CallersOK
<1>5. Content' = Content
  BY <1>1, <1>4 DEF Content
<1>6. SavingOK(storeCaller[w], Content)
  BY <1>2 DEF CallersOK
<1>7. /\ r.step = "replaces" /\ r.op = storeCaller[w].op /\ r.id = storeCaller[w].id
      /\ r.arg = storeCaller[w].arg /\ r.data = storeCaller[w].data
  BY <1>4 DEF IsCall
<1>8. IsCall(r)
  BY <1>4 DEF IsCall
<1> HIDE DEF r
<1>9. CallersOK(storeCaller', backend', primary', Content', rows')
  <2>1. SavingOK(r, Content) /\ ReadOK(r, rows)
    BY <1>1, <1>6, <1>7 DEF SavingOK, ReadOK
  <2>2. \A v \in StoreCallers \ {w} : storeCaller[v].step \notin {"saves", "replaces"}
    BY <1>1, <1>2 DEF CallersOK
  <2>3. CanBegin(storeCaller, w, r, backend, primary, Content, rows)
    BY <1>4, <1>7, <1>8, <2>1, <2>2 DEF CanBegin
  <2>4. CallersOK([storeCaller EXCEPT ![w] = r], backend, primary, Content, rows)
    BY <1>2, <2>3, CallBegins
  <2>5. QED
    BY <1>1, <1>3, <1>5, <2>4
<1>10. FileOK(backup') /\ FileOK(primary') /\ TableOK(rows')
  BY <1>1 DEF StoresInv
<1>11. ArchivedWhole => ArchivedWhole'
  BY <1>1, <1>4 DEF ArchivedWhole
<1>12. QED
  BY <1>1, <1>4, <1>5, <1>9, <1>10, <1>11 DEF StoresInv

LEMMA PrimaryStores ==
  ASSUME StoresInv, NEW w \in StoreCallers, ReplacePrimary(w) PROVE StoresInv'
<1> DEFINE it == storeCaller[w]
<1>1. /\ it.step = "replaces" /\ primary' = it.data
      /\ finished' = IF it.op = "resolve" THEN finished \cup {it.id} ELSE finished
      /\ storeCaller' = [storeCaller EXCEPT ![w] = NotCalling]
      /\ UNCHANGED <<backend, backup, rows, migration, imported, storeBounds>>
  BY DEF ReplacePrimary, Returns
<1>2. CallersOK(storeCaller, backend, primary, Content, rows) /\ TableOK(Content)
  BY ContentIsOK DEF StoresInv
<1>3. SavingOK(it, Content) /\ backend = "file"
  BY <1>1, <1>2 DEF CallersOK
<1>4. \A v \in StoreCallers \ {w} : storeCaller[v].step \notin {"saves", "replaces"}
  BY <1>1, <1>2 DEF CallersOK
<1> HIDE DEF it
<1>5. /\ it.op \in OpNames /\ it.id \in IntentIds /\ it.arg \in Arguments(it.op)
      /\ Writes(Content[it.id], it.op, it.arg)
      /\ it.data = [Content EXCEPT ![it.id] = Made(@, it.op, it.arg)]
  BY <1>1, <1>3 DEF SavingOK
<1>6. RecordOK(Made(Content[it.id], it.op, it.arg))
  BY <1>2, <1>5, MadeIsOK DEF TableOK
<1>7. /\ primary' = [c \in IntentIds |-> primary'[c]]
      /\ \A c \in IntentIds : primary'[c] =
           IF c = it.id THEN Made(Content[it.id], it.op, it.arg) ELSE Content[c]
  BY <1>1, <1>2, <1>5 DEF TableOK
<1>8. TableOK(primary')
  BY <1>2, <1>6, <1>7 DEF TableOK
<1>9. primary' # NoFile
  <2>1. IntentIds # {}
    BY <1>5
  <2>2. DOMAIN primary' = IntentIds
    BY <1>7
  <2>3. DOMAIN NoFile = {}
    BY DEF NoFile
  <2>4. QED
    BY <2>1, <2>2, <2>3
<1>10. CallersOK(storeCaller', backend', primary', Content', rows')
  <2>1. CallersOK([storeCaller EXCEPT ![w] = NotCalling], backend, primary, Content, rows)
    BY <1>2, ReturnKeeps
  <2>2. CallersOK(storeCaller', backend, primary, Content, rows)
    BY <1>1, <2>1
  <2>3. \A v \in StoreCallers : storeCaller'[v].step \notin {"saves", "replaces"}
    BY <1>1, <1>2, <1>4 DEF CallersOK, NotCalling
  <2>4. TableGrows(rows, rows)
    BY TableStays DEF StoresInv
  <2>5. CallersOK(storeCaller', backend, primary', Content', rows)
    BY <2>2, <2>3, <2>4, CallersKeep
  <2>6. QED
    BY <1>1, <2>5
<1>11. ArchivedWhole => ArchivedWhole'
  <2> SUFFICES ASSUME ArchivedWhole PROVE ArchivedWhole'
    OBVIOUS
  <2>1. migration.step = "idle" /\ imported = {} /\ finished \subseteq IntentIds
    BY <1>3 DEF StoresInv
  <2>2. finished # {} => Content = primary /\ primary # NoFile
    BY <1>3 DEF ArchivedWhole, Content
  <2>3. ASSUME NEW c \in finished' PROVE primary'[c].phase = "resolved"
    <3>1. CASE c = it.id /\ it.op = "resolve"
      <4>1. Made(Content[it.id], it.op, it.arg) = [Content[it.id] EXCEPT !.phase = "resolved"]
        BY <3>1 DEF Made
      <4>2. Content[it.id] \in Record
        BY <1>2, <1>5 DEF TableOK, RecordOK
      <4>3. QED
        BY <1>5, <1>7, <3>1, <4>1, <4>2 DEF Record
    <3>2. CASE c \in finished
      <4>1. Content[c].phase = "resolved"
        BY <2>2, <3>2 DEF ArchivedWhole
      <4>2. c # it.id
        BY <1>5, <4>1 DEF Writes, OpNames
      <4>3. QED
        BY <1>7, <2>1, <3>2, <4>1, <4>2
    <3>3. QED
      BY <1>1, <3>1, <3>2
  <2>4. QED
    BY <1>1, <1>9, <2>1, <2>3 DEF ArchivedWhole
<1>12. finished' \subseteq IntentIds
  BY <1>1, <1>5 DEF StoresInv
<1>13. migration.step = "idle"
  BY <1>3 DEF StoresInv
<1>14. TableOK(rows') /\ FileOK(backup')
  BY <1>1 DEF StoresInv
<1>15. QED
  BY <1>1, <1>3, <1>8, <1>9, <1>10, <1>11, <1>12, <1>13, <1>14 DEF StoresInv, FileOK

\* A row written by one caller, which returns.
LEMMA RowStores ==
  ASSUME StoresInv, NEW w \in StoreCallers, NEW c \in IntentIds, NEW r, RecordOK(r),
         rows[c].phase # "absent" =>
           /\ r.phase \in {"unresolved", "resolved"} /\ r.fingerprint = rows[c].fingerprint
           /\ rows[c].broker # NoIntentOrder => r.broker # NoIntentOrder,
         rows' = [rows EXCEPT ![c] = r], storeCaller' = [storeCaller EXCEPT ![w] = NotCalling],
         UNCHANGED <<backend, primary, backup, migration, imported, finished, storeBounds>>
  PROVE  StoresInv'
<1>1. TableOK(rows) /\ CallersOK(storeCaller, backend, primary, Content, rows)
  BY DEF StoresInv
<1>2. TableOK(rows') /\ TableGrows(rows, rows')
  BY <1>1, RowWritten
<1>3. CallersOK(storeCaller', backend, primary, Content, rows)
  BY <1>1, ReturnKeeps
<1>4. CallersOK(storeCaller', backend, primary, Content, rows')
  BY <1>2, <1>3, CallersKeep
<1>5. Content' = Content
  BY DEF Content
<1>6. CallersOK(storeCaller', backend', primary', Content', rows')
  BY <1>4, <1>5
<1>7. BoundsOK(storeBounds')
  BY DEF StoresInv
<1>8. QED
  BY <1>2, <1>6, <1>7, FilesRest

\* What the step of w writes, with what it read of the row.
LEMMA WritingIs ==
  ASSUME StoresInv, NEW w \in StoreCallers, storeCaller[w].step = "writes"
  PROVE  LET it == storeCaller[w] IN
         /\ it.op \in OpNames /\ it.id \in IntentIds /\ it.arg \in Arguments(it.op)
         /\ RecordOK(it.data) /\ Writes(it.data, it.op, it.arg)
         /\ RecordOK(rows[it.id])
         /\ it.op # "create" =>
              /\ rows[it.id].phase \in {"unresolved", "resolved"}
              /\ rows[it.id].fingerprint = it.data.fingerprint
              /\ it.data.broker # NoIntentOrder => rows[it.id].broker # NoIntentOrder
<1>1. ReadOK(storeCaller[w], rows) /\ TableOK(rows)
  BY DEF StoresInv, CallersOK
<1>2. QED
  BY <1>1 DEF ReadOK, TableOK

LEMMA InsertStores ==
  ASSUME StoresInv, NEW w \in StoreCallers, InsertRow(w) PROVE StoresInv'
<1> DEFINE it == storeCaller[w]
           r == IF rows[it.id].phase = "absent" THEN Made(Blank, "create", it.arg)
                ELSE rows[it.id]
<1>1. /\ it.step = "writes" /\ it.op = "create"
      /\ rows' = IF rows[it.id].phase = "absent"
                 THEN [rows EXCEPT ![it.id] = Made(Blank, "create", it.arg)] ELSE rows
      /\ storeCaller' = [storeCaller EXCEPT ![w] = NotCalling]
      /\ UNCHANGED <<backend, primary, backup, migration, imported, finished, storeBounds>>
  BY DEF InsertRow, Returns
<1>2. /\ it.id \in IntentIds /\ it.arg \in Arguments("create")
      /\ RecordOK(rows[it.id])
  BY <1>1, WritingIs
<1>3. rows' = [rows EXCEPT ![it.id] = r]
  BY <1>1, <1>2 DEF StoresInv, TableOK
<1>4. RecordOK(Made(Blank, "create", it.arg))
  <2>1. RecordOK(Blank) /\ Writes(Blank, "create", it.arg)
    BY DEF Blank, RecordOK, Record, TwoStatuses, Writes
  <2>2. QED
    BY <1>2, <2>1, MadeIsOK DEF OpNames
<1>5. RecordOK(r)
  BY <1>2, <1>4
<1>6. rows[it.id].phase # "absent" =>
        /\ r.phase \in {"unresolved", "resolved"} /\ r.fingerprint = rows[it.id].fingerprint
        /\ rows[it.id].broker # NoIntentOrder => r.broker # NoIntentOrder
  BY <1>2 DEF RecordOK, Record
<1> HIDE DEF r, it
<1>7. QED
  BY <1>1, <1>2, <1>3, <1>5, <1>6, RowStores

\* The row after an update: what the caller read and what is there now differ only where
\* others have written in between.
LEMMA UpdatedRow ==
  ASSUME StoresInv, NEW w \in StoreCallers, NEW it, it = storeCaller[w], NEW c, c = it.id,
         it.step = "writes", it.op \in {"record", "resolve"},
         NEW r, r = Changed(rows[c], it.data, Made(it.data, it.op, it.arg))
  PROVE  /\ c \in IntentIds /\ RecordOK(r) /\ RecordOK(rows[c])
         /\ rows[c].phase \in {"unresolved", "resolved"}
         /\ r.phase = (IF it.op = "resolve" THEN "resolved" ELSE rows[c].phase)
         /\ r.fingerprint = rows[c].fingerprint
         /\ r.broker \in IntentOrders
         /\ r.status \in TwoStatuses
         /\ it.op = "resolve" => r.broker = rows[c].broker /\ r.status = rows[c].status
         /\ r = [phase |-> r.phase, fingerprint |-> r.fingerprint, broker |-> r.broker,
                 status |-> r.status]
         /\ it.data = rows[c] => Writes(rows[c], it.op, it.arg) /\ r = Made(rows[c], it.op, it.arg)
<1>1. /\ c \in IntentIds /\ it.arg \in Arguments(it.op) /\ it.op \in OpNames
      /\ RecordOK(it.data) /\ Writes(it.data, it.op, it.arg) /\ RecordOK(rows[c])
      /\ rows[c].phase \in {"unresolved", "resolved"}
      /\ rows[c].fingerprint = it.data.fingerprint
      /\ it.data.broker # NoIntentOrder => rows[c].broker # NoIntentOrder
  BY WritingIs
<1>2. /\ it.data = [phase |-> it.data.phase, fingerprint |-> it.data.fingerprint,
                    broker |-> it.data.broker, status |-> it.data.status]
      /\ rows[c].broker \in IntentOrders \cup {NoIntentOrder}
      /\ rows[c].broker # NoIntentOrder => rows[c].status \in TwoStatuses
  BY <1>1 DEF RecordOK, Record
<1>3. CASE it.op = "record"
  <2>1. /\ it.arg.broker \in IntentOrders /\ it.arg.broker # NoIntentOrder
        /\ it.arg.status \in TwoStatuses /\ it.data.phase = "unresolved"
        /\ it.data.broker \in {NoIntentOrder, it.arg.broker}
        /\ Made(it.data, it.op, it.arg) =
             [it.data EXCEPT !.broker = it.arg.broker, !.status = it.arg.status]
    BY <1>1, <1>3, ArgumentsAre DEF Made, Writes
  <2>2. /\ r.phase = rows[c].phase /\ r.fingerprint = rows[c].fingerprint
        /\ r.broker = IF it.arg.broker # it.data.broker THEN it.arg.broker ELSE rows[c].broker
        /\ r.status = IF it.arg.status # it.data.status THEN it.arg.status ELSE rows[c].status
        /\ r = [phase |-> r.phase, fingerprint |-> r.fingerprint, broker |-> r.broker,
                status |-> r.status]
    BY <1>2, <2>1 DEF Changed
  <2>3. r.broker \in IntentOrders /\ r.broker # NoIntentOrder
    BY <1>1, <1>2, <2>1, <2>2
  <2>4. r.status \in TwoStatuses
    BY <1>1, <1>2, <2>1, <2>2 DEF RecordOK
  <2>5. RecordOK(r)
    BY <1>1, <2>2, <2>3, <2>4 DEF RecordOK, Record
  <2>6. it.data = rows[c] => r = Made(rows[c], it.op, it.arg)
    <3> SUFFICES ASSUME it.data = rows[c] PROVE r = Made(it.data, it.op, it.arg)
      OBVIOUS
    <3>1. Made(it.data, it.op, it.arg) =
            [phase |-> it.data.phase, fingerprint |-> it.data.fingerprint,
             broker |-> it.arg.broker, status |-> it.arg.status]
      BY <1>2, <2>1
    <3>2. r.broker = it.arg.broker /\ r.status = it.arg.status
      BY <2>2
    <3>3. QED
      BY <2>2, <3>1, <3>2
  <2>7. QED
    BY <1>1, <1>3, <2>2, <2>3, <2>4, <2>5, <2>6
<1>4. CASE it.op = "resolve"
  <2>1. /\ it.data.phase = "unresolved" /\ it.data.broker # NoIntentOrder
        /\ Made(it.data, it.op, it.arg) = [it.data EXCEPT !.phase = "resolved"]
    BY <1>1, <1>4 DEF Made, Writes
  <2>2. /\ r.phase = "resolved" /\ r.fingerprint = rows[c].fingerprint
        /\ r.broker = rows[c].broker /\ r.status = rows[c].status
        /\ r = [phase |-> r.phase, fingerprint |-> r.fingerprint, broker |-> r.broker,
                status |-> r.status]
    BY <1>2, <2>1 DEF Changed
  <2>3. rows[c].broker \in IntentOrders /\ rows[c].broker # NoIntentOrder
        /\ r.status \in TwoStatuses
    BY <1>1, <1>2, <2>1, <2>2
  <2>4. RecordOK(r)
    BY <1>1, <2>2, <2>3 DEF RecordOK, Record
  <2>5. it.data = rows[c] => r = Made(rows[c], it.op, it.arg)
    BY <1>2, <2>1, <2>2
  <2>6. QED
    BY <1>1, <1>4, <2>2, <2>3, <2>4, <2>5
<1>5. QED
  BY <1>3, <1>4

LEMMA UpdateStores ==
  ASSUME StoresInv, NEW w \in StoreCallers, UpdateRow(w) PROVE StoresInv'
<1> DEFINE it == storeCaller[w]
           c == it.id
           r == Changed(rows[c], it.data, Made(it.data, it.op, it.arg))
<1>1. /\ it.step = "writes" /\ it.op \in {"record", "resolve"}
      /\ rows' = [rows EXCEPT ![c] = r]
      /\ storeCaller' = [storeCaller EXCEPT ![w] = NotCalling]
      /\ UNCHANGED <<backend, primary, backup, migration, imported, finished, storeBounds>>
  BY DEF UpdateRow, Returns
<1>2. /\ c \in IntentIds /\ RecordOK(r) /\ RecordOK(rows[c])
      /\ rows[c].phase \in {"unresolved", "resolved"}
      /\ r.phase = (IF it.op = "resolve" THEN "resolved" ELSE rows[c].phase)
      /\ r.fingerprint = rows[c].fingerprint /\ r.broker # NoIntentOrder
  BY <1>1, UpdatedRow
<1> HIDE DEF r, c, it
<1>3. QED
  BY <1>1, <1>2, RowStores

-----------------------------------------------------------------------------
(* The move to the database, and crashes.                                   *)

\* While the move is under way, or once it is over, nobody saves to the file.
LEMMA NobodySaves ==
  ASSUME StoresInv, backend = "database"
  PROVE  \A w \in StoreCallers : storeCaller[w].step \notin {"saves", "replaces"}
BY DEF StoresInv, CallersOK

LEMMA MoveCallers ==
  ASSUME StoresInv, backend = "database", TableGrows(rows, rows'), UNCHANGED <<backend, storeCaller>>
  PROVE  CallersOK(storeCaller', backend', primary', Content', rows')
<1>1. CallersOK(storeCaller, backend, primary, Content, rows)
  BY DEF StoresInv
<1>2. CallersOK(storeCaller, backend, primary', Content', rows')
  BY <1>1, NobodySaves, CallersKeep
<1>3. QED
  BY <1>2

LEMMA RedeployStores == ASSUME StoresInv, Redeploy PROVE StoresInv'
<1>1. /\ backend = "file" /\ backend' = "database"
      /\ \A w \in StoreCallers : storeCaller[w].step = "idle"
      /\ UNCHANGED <<primary, backup, rows, storeCaller, migration, imported, finished, storeBounds>>
  BY DEF Redeploy
<1>2. CallersOK(storeCaller', backend', primary', Content', rows')
  BY <1>1 DEF StoresInv, CallersOK, SavingOK, ReadOK
<1>3. FileOK(primary') /\ FileOK(backup') /\ TableOK(rows')
  BY <1>1 DEF StoresInv
<1>4. ArchivedWhole => ArchivedWhole'
  BY <1>1 DEF ArchivedWhole
<1>5. migration.step = "idle"
  BY <1>1 DEF StoresInv
<1>6. QED
  BY <1>1, <1>2, <1>3, <1>4, <1>5 DEF StoresInv

LEMMA BeginStores == ASSUME StoresInv, BeginMigration PROVE StoresInv'
<1>1. /\ backend = "database" /\ migration.step = "idle" /\ (primary # NoFile \/ backup # NoFile)
      /\ migration' = [step |-> "imports",
                       intents |-> {c \in IntentIds : Content[c].phase = "unresolved"}]
      /\ UNCHANGED <<backend, primary, backup, rows, storeCaller, imported, finished, storeBounds>>
  BY DEF BeginMigration
<1>2. CallersOK(storeCaller', backend', primary', Content', rows')
  BY <1>1, MoveCallers, TableStays DEF StoresInv
<1>3. FileOK(primary') /\ FileOK(backup') /\ TableOK(rows') /\ Content' = Content
  BY <1>1 DEF StoresInv, Content
<1>4. ArchivedWhole => ArchivedWhole'
  <2> SUFFICES ASSUME ArchivedWhole PROVE ArchivedWhole'
    OBVIOUS
  <2>1. primary # NoFile /\ Content = primary
    BY <1>1 DEF ArchivedWhole, Content
  <2>2. migration'.step = "imports" /\ migration'.intents \cap finished = {}
    BY <1>1, <2>1 DEF ArchivedWhole
  <2>3. QED
    BY <1>1, <2>1, <2>2 DEF ArchivedWhole
<1>5. /\ migration'.step = "imports"
      /\ migration' = [step |-> migration'.step, intents |-> migration'.intents]
      /\ migration'.intents = {c \in IntentIds : Content[c].phase = "unresolved"}
  BY <1>1
<1>6. QED
  BY <1>1, <1>2, <1>3, <1>4, <1>5 DEF StoresInv

LEMMA ImportStores == ASSUME StoresInv, ImportRows PROVE StoresInv'
<1>1. /\ migration.step = "imports" /\ backend = "database"
      /\ UNCHANGED <<backend, primary, backup, storeCaller, finished, storeBounds>>
  BY DEF ImportRows, StoresInv
<1>2. FileOK(primary') /\ FileOK(backup') /\ Content' = Content /\ TableOK(Content)
  BY <1>1, ContentIsOK DEF StoresInv, Content
<1>3. CASE migration' = NoMigration /\ UNCHANGED <<rows, imported>>
  <2>1. CallersOK(storeCaller', backend', primary', Content', rows')
    BY <1>1, <1>3, MoveCallers, TableStays DEF StoresInv
  <2>2. ArchivedWhole => ArchivedWhole'
    BY <1>1, <1>3 DEF ArchivedWhole, NoMigration
  <2>3. TableOK(rows')
    BY <1>3 DEF StoresInv
  <2>4. /\ migration'.step = "idle"
        /\ migration' = [step |-> migration'.step, intents |-> migration'.intents]
    BY <1>3 DEF NoMigration
  <2>5. QED
    BY <1>1, <1>2, <1>3, <2>1, <2>2, <2>3, <2>4 DEF StoresInv
<1>4. CASE ~(migration' = NoMigration /\ UNCHANGED <<rows, imported>>)
  <2> DEFINE new == {c \in migration.intents : rows[c].phase = "absent"}
  <2>1. /\ rows' = [c \in IntentIds |->
                      IF c \in new THEN [Content[c] EXCEPT !.broker = NoIntentOrder,
                                                           !.status = "none"] ELSE rows[c]]
        /\ imported' = imported \cup new
        /\ migration' = [migration EXCEPT !.step = "archives"]
    BY <1>4 DEF ImportRows
  <2>2. new \subseteq IntentIds /\ \A c \in new : Content[c].phase = "unresolved"
                                              /\ rows[c].phase = "absent"
    BY <1>1 DEF StoresInv
  <2>3. ASSUME NEW c \in new
        PROVE  RecordOK([Content[c] EXCEPT !.broker = NoIntentOrder, !.status = "none"])
    <3>1. Content[c] \in Record /\ Content[c].phase = "unresolved"
      BY <1>2, <2>2, <2>3 DEF TableOK, RecordOK
    <3>2. QED
      BY <3>1 DEF RecordOK, Record, TwoStatuses
  <2>4. /\ rows' = [c \in IntentIds |-> rows'[c]]
        /\ \A c \in IntentIds : RecordOK(rows'[c])
        /\ \A c \in IntentIds : rows[c].phase # "absent" => rows'[c] = rows[c]
    <3> HIDE DEF new
    <3>1. \A c \in IntentIds : RecordOK(rows[c])
      BY DEF StoresInv, TableOK
    <3>2. QED
      BY <2>1, <2>2, <2>3, <3>1
  <2>5. TableOK(rows') /\ TableGrows(rows, rows')
    <3>1. TableGrows(rows, rows)
      BY TableStays DEF StoresInv
    <3>2. QED
      BY <2>4, <3>1 DEF TableOK, TableGrows
  <2>6. CallersOK(storeCaller', backend', primary', Content', rows')
    BY <1>1, <2>5, MoveCallers
  <2>7. /\ migration'.step = "archives"
        /\ migration' = [step |-> migration'.step, intents |-> migration'.intents]
    BY <2>1 DEF StoresInv
  <2>8. ArchivedWhole => ArchivedWhole'
    BY <1>1, <2>1, <2>7 DEF ArchivedWhole
  <2>9. QED
    BY <1>1, <1>2, <2>5, <2>6, <2>7, <2>8 DEF StoresInv
<1>5. QED
  BY <1>3, <1>4

LEMMA ArchiveStores == ASSUME StoresInv, ArchivePrimary \/ ArchiveBackup PROVE StoresInv'
<1>1. /\ migration.step \in {"archives", "archives backup"} /\ backend = "database"
      /\ UNCHANGED <<backend, rows, storeCaller, imported, finished, storeBounds>>
      /\ \/ /\ primary' = NoFile /\ UNCHANGED backup
            /\ migration' = [migration EXCEPT !.step = "archives backup"]
         \/ /\ migration.step = "archives backup" /\ backup' = NoFile /\ UNCHANGED primary
            /\ migration' = NoMigration
  BY DEF ArchivePrimary, ArchiveBackup, StoresInv
<1>2. FileOK(primary') /\ FileOK(backup') /\ TableOK(rows')
  BY <1>1, EmptyIsOK DEF StoresInv
<1>3. CallersOK(storeCaller', backend', primary', Content', rows')
  BY <1>1, MoveCallers, TableStays DEF StoresInv
<1>4. /\ migration'.step \in {"idle", "archives backup"}
      /\ migration' = [step |-> migration'.step, intents |-> migration'.intents]
  <2>1. migration = [step |-> migration.step, intents |-> migration.intents]
    BY DEF StoresInv
  <2>2. CASE migration' = [migration EXCEPT !.step = "archives backup"]
    <3>1. migration' = [step |-> "archives backup", intents |-> migration.intents]
      BY <2>1, <2>2
    <3>2. QED
      BY <3>1
  <2>3. CASE migration' = NoMigration
    BY <2>3 DEF NoMigration
  <2>4. QED
    BY <1>1, <2>2, <2>3
<1>5. ArchivedWhole => ArchivedWhole'
  <2>1. CASE /\ primary' = NoFile /\ migration' = [migration EXCEPT !.step = "archives backup"]
    <3>1. migration'.step = "archives backup"
      BY <2>1 DEF StoresInv
    <3>2. QED
      BY <1>1, <2>1, <3>1 DEF ArchivedWhole
  <2>2. CASE backup' = NoFile /\ UNCHANGED primary /\ migration' = NoMigration
    BY <1>1, <2>2 DEF ArchivedWhole, NoMigration
  <2>3. QED
    BY <1>1, <2>1, <2>2
<1>6. QED
  BY <1>1, <1>2, <1>3, <1>4, <1>5 DEF StoresInv

LEMMA CrashStores == ASSUME StoresInv, StoreCrash PROVE StoresInv'
<1>1. /\ UNCHANGED <<backend, primary, backup, rows, imported, finished>>
      /\ \/ /\ \E w \in StoreCallers : storeCaller' = [storeCaller EXCEPT ![w] = NotCalling]
            /\ storeBounds' = [storeBounds EXCEPT !.crashes = @ - 1]
            /\ UNCHANGED migration
         \/ /\ migration.step # "idle" /\ migration' = NoMigration /\ UNCHANGED storeCaller
            /\ storeBounds' = [storeBounds EXCEPT !.crashes = @ - 1,
                 !.archive = IF migration.step = "archives backup" THEN "half" ELSE @]
  BY DEF StoreCrash, Returns
<1>2. /\ BoundsOK(storeBounds')
      /\ storeBounds'.archive = IF migration'.step = migration.step THEN storeBounds.archive
                                ELSE IF migration.step = "archives backup" THEN "half"
                                ELSE storeBounds.archive
  <2>1. storeBounds = [calls |-> storeBounds.calls, crashes |-> storeBounds.crashes,
                       archive |-> storeBounds.archive]
    BY DEF StoresInv, BoundsOK
  <2>2. NoMigration.step = "idle"
    BY DEF NoMigration
  <2>3. QED
    BY <1>1, <2>1, <2>2 DEF BoundsOK
<1>3. Content' = Content
  BY <1>1 DEF Content
<1>4. CallersOK(storeCaller', backend', primary', Content', rows')
  <2>1. CallersOK(storeCaller, backend, primary, Content, rows)
    BY DEF StoresInv
  <2>2. CallersOK(storeCaller', backend, primary, Content, rows)
    BY <1>1, <2>1, ReturnKeeps
  <2>3. QED
    BY <1>1, <1>3, <2>2
<1>5. FileOK(primary') /\ FileOK(backup') /\ TableOK(rows')
  BY <1>1 DEF StoresInv
<1>6. /\ migration'.step \in {"idle", "imports", "archives", "archives backup"}
      /\ migration' = [step |-> migration'.step, intents |-> migration'.intents]
      /\ migration'.step # "idle" => UNCHANGED migration
  <2>1. CASE UNCHANGED migration
    BY <2>1 DEF StoresInv
  <2>2. CASE migration' = NoMigration
    BY <2>2 DEF NoMigration
  <2>3. QED
    BY <1>1, <2>1, <2>2
<1>7. /\ migration'.step # "idle" => backend' = "database"
      /\ migration'.step = "imports" =>
           migration'.intents \subseteq {c \in IntentIds : Content'[c].phase = "unresolved"}
  BY <1>1, <1>3, <1>6 DEF StoresInv
<1>8. /\ backend' \in {"file", "database"} /\ finished' \subseteq IntentIds
      /\ backend' = "file" => imported' = {} /\ (primary' = NoFile => backup' = NoFile)
  BY <1>1 DEF StoresInv
<1>9. storeBounds'.archive = "whole" => ArchivedWhole'
  <2> SUFFICES ASSUME storeBounds'.archive = "whole" PROVE ArchivedWhole'
    OBVIOUS
  <2>1. ArchivedWhole
    BY <1>2 DEF StoresInv
  <2>2. CASE UNCHANGED migration
    BY <1>1, <2>1, <2>2 DEF ArchivedWhole
  <2>3. CASE migration.step # "idle" /\ migration' = NoMigration
    <3>1. migration'.step = "idle" /\ migration.step # "archives backup"
      BY <1>2, <2>3 DEF NoMigration
    <3>2. QED
      BY <1>1, <2>1, <3>1 DEF ArchivedWhole
  <2>4. QED
    BY <1>1, <2>2, <2>3
<1>10. QED
  BY <1>2, <1>4, <1>5, <1>6, <1>7, <1>8, <1>9 DEF StoresInv

LEMMA StoresPreserved == StoresInv /\ [StoresNext]_storeVars => StoresInv'
<1> SUFFICES ASSUME StoresInv, [StoresNext]_storeVars PROVE StoresInv'
  OBVIOUS
<1>1. ASSUME NEW w \in StoreCallers, NEW op \in OpNames, NEW c \in IntentIds,
             NEW arg \in Arguments(op), LoadAndCheck(w, op, c, arg) \/ ReadRow(w, op, c, arg)
      PROVE  StoresInv'
  BY <1>1, LoadStores, ReadStores
<1>2. ASSUME NEW w \in StoreCallers,
             ReplaceBackup(w) \/ ReplacePrimary(w) \/ InsertRow(w) \/ UpdateRow(w)
      PROVE  StoresInv'
  BY <1>2, BackupStores, PrimaryStores, InsertStores, UpdateStores
<1>3. CASE UNCHANGED storeVars
  <2>1. Content' = Content
    BY <1>3 DEF storeVars, Content
  <2>2. ArchivedWhole => ArchivedWhole'
    BY <1>3 DEF storeVars, ArchivedWhole
  <2>3. CallersOK(storeCaller', backend', primary', Content', rows')
    BY <1>3, <2>1 DEF storeVars, StoresInv
  <2>4. FileOK(primary') /\ FileOK(backup') /\ TableOK(rows')
    BY <1>3 DEF storeVars, StoresInv
  <2>5. QED
    BY <1>3, <2>1, <2>2, <2>3, <2>4 DEF storeVars, StoresInv
<1>4. QED
  BY <1>1, <1>2, <1>3, RedeployStores, BeginStores, ImportStores, ArchiveStores, CrashStores
     DEF StoresNext, OpNames

LEMMA StoresInvariant == StoresSpec => []StoresInv
BY StoresInitially, StoresPreserved, PTL DEF StoresSpec

\* As long as no process has died between the two renames of the archive, whatever else died
\* and when, no startup imports an intent that was resolved in the file
\* (migrate_legacy_submission_intents).
THEOREM ImportsOnlyUnresolvedCorrect == StoresSpec => []ImportsOnlyUnresolved
<1>1. StoresInv => ImportsOnlyUnresolved
  BY DEF StoresInv, ArchivedWhole, ImportsOnlyUnresolved
<1>2. QED
  BY <1>1, StoresInvariant, PTL

-----------------------------------------------------------------------------
(* The steps of the atomic store.                                           *)

\* What StoresAreAtomic allows a step that changes what readers see.
AtomicStep ==
  \/ \E c \in IntentIds :
       \/ \E h \in Hashes : Atomic!CreateIntent(c, h)
       \/ \E b \in IntentOrders, s \in TwoStatuses : Atomic!RecordBrokerOrder(c, b, s)
       \/ Atomic!ResolveIntent(c)
  \/ backend = "database" /\ (LateRecord \/ Imports)

\* A record made from one that may be written is one step of the atomic store.
LEMMA MadeIsAtomic ==
  ASSUME TableOK(stored), NEW c \in IntentIds, NEW op \in OpNames, NEW arg \in Arguments(op),
         Writes(stored[c], op, arg),
         stored' = [stored EXCEPT ![c] = Made(stored[c], op, arg)]
  PROVE  AtomicStep
<1>1. RecordOK(stored[c])
  BY DEF TableOK
<1>2. CASE op = "create"
  <2>1. arg.fingerprint \in Hashes /\ stored[c].phase = "absent"
    BY <1>2, ArgumentsAre DEF Writes
  <2>2. stored' = [stored EXCEPT ![c] = [Atomic!NoIntent EXCEPT !.phase = "unresolved",
                                                                !.fingerprint = arg.fingerprint]]
    BY <1>2 DEF Made, Blank, Atomic!NoIntent
  <2>3. Atomic!CreateIntent(c, arg.fingerprint)
    BY <2>1, <2>2 DEF Atomic!CreateIntent, Atomic!CreateAccepts, Atomic!Unresolved
  <2>4. QED
    BY <2>1, <2>3 DEF AtomicStep
<1>3. CASE op = "record"
  <2>1. /\ arg.broker \in IntentOrders /\ arg.status \in TwoStatuses
        /\ stored[c].phase = "unresolved" /\ stored[c].broker \in {NoIntentOrder, arg.broker}
    BY <1>3, ArgumentsAre DEF Writes
  <2>2. stored' = [stored EXCEPT ![c] = [stored[c] EXCEPT !.broker = arg.broker,
                                                          !.status = arg.status]]
    BY <1>3 DEF Made
  <2>3. stored' = [stored EXCEPT ![c].broker = arg.broker, ![c].status = arg.status]
    BY <1>1, <2>2 DEF TableOK, RecordOK, Record
  <2>4. Atomic!RecordBrokerOrder(c, arg.broker, arg.status)
    BY <2>1, <2>3 DEF Atomic!RecordBrokerOrder, Atomic!RecordAccepts, Atomic!Unresolved
  <2>5. QED
    BY <2>1, <2>4 DEF AtomicStep
<1>4. CASE op = "resolve"
  <2>1. stored[c].phase = "unresolved" /\ stored[c].broker # NoIntentOrder
    BY <1>4 DEF Writes
  <2>2. stored' = [stored EXCEPT ![c].phase = "resolved"]
    BY <1>4 DEF Made
  <2>3. Atomic!ResolveIntent(c)
    BY <2>1, <2>2 DEF Atomic!ResolveIntent, Atomic!ResolveAccepts
  <2>4. QED
    BY <2>3 DEF AtomicStep
<1>5. QED
  BY <1>2, <1>3, <1>4 DEF OpNames

LEMMA StoresStepAtomically ==
  ASSUME StoresInv, StoresNext, backend' = backend, stored' # stored PROVE AtomicStep
<1>1. TableOK(stored)
  BY ContentIsOK DEF StoresInv, stored
<1>2. UNCHANGED <<primary, backup, rows>> => stored' = stored
  BY DEF stored, Content
<1>3. ASSUME NEW w \in StoreCallers, ReplaceBackup(w) PROVE FALSE
  <2>1. primary # NoFile
    BY <1>3 DEF ReplaceBackup, StoresInv, CallersOK
  <2>2. stored' = stored
    BY <1>3, <2>1 DEF ReplaceBackup, stored, Content
  <2>3. QED
    BY <2>2
<1>4. ASSUME NEW w \in StoreCallers, ReplacePrimary(w) PROVE AtomicStep
  <2> DEFINE it == storeCaller[w]
  <2>1. /\ it.step = "replaces" /\ primary' = it.data /\ backend = "file" /\ UNCHANGED backup
        /\ SavingOK(it, Content)
    BY <1>4 DEF ReplacePrimary, StoresInv, CallersOK
  <2>2. /\ it.op \in OpNames /\ it.id \in IntentIds /\ it.arg \in Arguments(it.op)
        /\ Writes(Content[it.id], it.op, it.arg)
        /\ it.data = [Content EXCEPT ![it.id] = Made(Content[it.id], it.op, it.arg)]
    BY <2>1 DEF SavingOK
  <2>3. stored = Content
    BY <2>1 DEF stored
  <2>4. primary' # NoFile
    <3>1. IntentIds # {} /\ DOMAIN Content = IntentIds
      BY <1>1, <2>2, <2>3 DEF TableOK
    <3>2. DOMAIN primary' = IntentIds /\ DOMAIN NoFile = {}
      BY <2>1, <2>2, <3>1 DEF NoFile
    <3>3. QED
      BY <3>1, <3>2
  <2>5. stored' = [stored EXCEPT ![it.id] = Made(stored[it.id], it.op, it.arg)]
    <3>1. stored' = primary'
      BY <2>1, <2>4 DEF stored, Content
    <3>2. QED
      BY <2>1, <2>2, <2>3, <3>1
  <2> HIDE DEF it
  <2>6. QED
    BY <1>1, <2>2, <2>3, <2>5, MadeIsAtomic
<1>5. ASSUME NEW w \in StoreCallers, InsertRow(w) PROVE AtomicStep
  <2> DEFINE it == storeCaller[w]
  <2>1. /\ it.step = "writes" /\ it.op = "create" /\ backend = "database"
        /\ rows' = IF rows[it.id].phase = "absent"
                   THEN [rows EXCEPT ![it.id] = Made(Blank, "create", it.arg)] ELSE rows
        /\ UNCHANGED <<primary, backup>>
    BY <1>5 DEF InsertRow, StoresInv, CallersOK
  <2>2. it.id \in IntentIds /\ it.arg \in Arguments("create")
    BY <2>1, WritingIs
  <2>3. stored = rows /\ stored' = rows' /\ rows[it.id].phase = "absent"
    BY <1>2, <2>1 DEF stored
  <2>4. rows[it.id] = Blank
    BY <1>1, <2>2, <2>3 DEF TableOK, RecordOK
  <2>5. Writes(stored[it.id], "create", it.arg) /\ "create" \in OpNames
    BY <2>3 DEF Writes, OpNames
  <2>6. stored' = [stored EXCEPT ![it.id] = Made(stored[it.id], "create", it.arg)]
    BY <2>1, <2>3, <2>4
  <2> HIDE DEF it
  <2>7. QED
    BY <1>1, <2>2, <2>5, <2>6, MadeIsAtomic
<1>6. ASSUME NEW w \in StoreCallers, UpdateRow(w) PROVE AtomicStep
  <2> DEFINE it == storeCaller[w]
             c == it.id
             r == Changed(rows[c], it.data, Made(it.data, it.op, it.arg))
  <2>1. /\ it.step = "writes" /\ it.op \in {"record", "resolve"} /\ backend = "database"
        /\ rows' = [rows EXCEPT ![c] = r]
    BY <1>6 DEF UpdateRow, StoresInv, CallersOK
  <2>2. /\ c \in IntentIds /\ RecordOK(rows[c])
        /\ rows[c].phase \in {"unresolved", "resolved"}
        /\ r.phase = (IF it.op = "resolve" THEN "resolved" ELSE rows[c].phase)
        /\ r.fingerprint = rows[c].fingerprint
        /\ r.broker \in IntentOrders /\ r.status \in TwoStatuses
        /\ it.op = "resolve" => r.broker = rows[c].broker /\ r.status = rows[c].status
        /\ r = [phase |-> r.phase, fingerprint |-> r.fingerprint, broker |-> r.broker,
                status |-> r.status]
        /\ it.data = rows[c] => Writes(rows[c], it.op, it.arg) /\ r = Made(rows[c], it.op, it.arg)
    BY <2>1, UpdatedRow
  <2>3. stored = rows /\ stored' = rows' /\ c = it.id
    BY <1>6, <2>1 DEF stored
  <2>4. it.op \in OpNames /\ it.arg \in Arguments(it.op)
    BY <2>1, WritingIs
  <2>5. rows[c] = [phase |-> rows[c].phase, fingerprint |-> rows[c].fingerprint,
                   broker |-> rows[c].broker, status |-> rows[c].status]
    BY <2>2 DEF RecordOK, Record
  <2>6. CASE it.data = rows[c]
    <3> HIDE DEF r, c
    <3>1. stored' = [stored EXCEPT ![c] = Made(stored[c], it.op, it.arg)]
      BY <2>1, <2>2, <2>3, <2>6
    <3>2. Writes(stored[c], it.op, it.arg)
      BY <2>2, <2>3, <2>6
    <3> HIDE DEF it
    <3>3. QED
      BY <1>1, <2>2, <2>4, <3>1, <3>2, MadeIsAtomic
  <2>7. CASE it.data # rows[c] /\ it.op = "record"
    <3> HIDE DEF r, c
    <3>1. r = [rows[c] EXCEPT !.broker = r.broker, !.status = r.status]
      BY <2>2, <2>5, <2>7
    <3>2. stored' = [stored EXCEPT ![c].broker = r.broker, ![c].status = r.status]
      BY <1>1, <2>1, <2>2, <2>3, <3>1 DEF TableOK
    <3>3. /\ storeCaller[w].step = "writes" /\ storeCaller[w].op = "record"
          /\ storeCaller[w].id = c /\ storeCaller[w].data # stored[c]
      BY <2>1, <2>3, <2>7
    <3> HIDE DEF it
    <3>4. LateRecord
      BY <2>2, <3>2, <3>3 DEF LateRecord
    <3>5. QED
      BY <2>1, <3>4 DEF AtomicStep
  <2>8. CASE it.op = "resolve"
    <3> HIDE DEF r, c
    <3>1. r = [rows[c] EXCEPT !.phase = "resolved"]
      BY <2>2, <2>5, <2>8
    <3>2. stored' = [stored EXCEPT ![c].phase = "resolved"]
      BY <1>1, <2>1, <2>2, <2>3, <3>1 DEF TableOK
    <3>3. rows[c].broker # NoIntentOrder
      BY <2>2, <2>8
    <3>4. Atomic!ResolveIntent(c)
      BY <2>2, <2>3, <3>2, <3>3 DEF Atomic!ResolveIntent, Atomic!ResolveAccepts
    <3>5. QED
      BY <2>2, <3>4 DEF AtomicStep
  <2>9. QED
    BY <2>1, <2>6, <2>7, <2>8
<1>7. ASSUME ImportRows PROVE AtomicStep
  <2>1. migration.step = "imports" /\ backend = "database" /\ UNCHANGED <<primary, backup>>
    BY <1>7 DEF ImportRows, StoresInv
  <2>2. stored = rows /\ stored' = rows'
    BY <1>7, <2>1 DEF stored
  <2>3. ~UNCHANGED rows
    BY <2>2
  <2>4. \A c \in IntentIds : rows'[c] # rows[c] =>
          /\ c \in migration.intents /\ rows[c].phase = "absent"
          /\ rows'[c] = [Content[c] EXCEPT !.broker = NoIntentOrder, !.status = "none"]
    BY <1>7, <2>3 DEF ImportRows
  <2>5. ASSUME NEW c \in migration.intents
        PROVE  [Content[c] EXCEPT !.broker = NoIntentOrder, !.status = "none"].phase = "unresolved"
    <3>1. Content[c].phase = "unresolved" /\ Content[c] \in Record
      BY <2>1, <2>5, ContentIsOK DEF StoresInv, TableOK, RecordOK
    <3>2. QED
      BY <3>1 DEF Record
  <2>6. ASSUME NEW c \in IntentIds, rows'[c] # rows[c]
        PROVE  rows[c].phase = "absent" /\ rows'[c].phase = "unresolved"
    <3>1. c \in migration.intents
      BY <2>4, <2>6
    <3>2. [Content[c] EXCEPT !.broker = NoIntentOrder, !.status = "none"].phase = "unresolved"
      BY <2>5, <3>1
    <3>3. QED
      BY <2>4, <2>6, <3>2
  <2>7. Imports
    BY <2>2, <2>6 DEF Imports
  <2>8. QED
    BY <2>1, <2>7 DEF AtomicStep
<1>8. ASSUME ArchivePrimary \/ ArchiveBackup PROVE FALSE
  <2>1. backend = "database" /\ UNCHANGED rows
    BY <1>8 DEF ArchivePrimary, ArchiveBackup, StoresInv
  <2>2. QED
    BY <2>1 DEF stored
<1>9. ASSUME NEW w, NEW op, NEW c, NEW arg, LoadAndCheck(w, op, c, arg) \/ ReadRow(w, op, c, arg)
      PROVE  FALSE
  BY <1>2, <1>9 DEF LoadAndCheck, ReadRow
<1>10. ~Redeploy /\ ~BeginMigration /\ ~StoreCrash
  BY <1>2 DEF Redeploy, BeginMigration, StoreCrash
<1>11. QED
  BY <1>3, <1>4, <1>5, <1>6, <1>7, <1>8, <1>9, <1>10 DEF StoresNext

\* Through every crash between the replaced files the file backend takes the steps of the
\* atomic store and no other; the database backend takes those, imports, and records on a row
\* that has changed since it was read (submission_intent_store.py).
THEOREM StoresAreAtomicCorrect == StoresSpec => StoresAreAtomic
<1>1. StoresInv /\ [StoresNext]_storeVars =>
        [backend' = backend /\ stored' # stored => AtomicStep]_stored
  <2> SUFFICES ASSUME StoresInv, [StoresNext]_storeVars, backend' = backend, stored' # stored
               PROVE  AtomicStep
    OBVIOUS
  <2>1. CASE StoresNext
    BY <2>1, StoresStepAtomically
  <2>2. CASE UNCHANGED storeVars
    BY <2>2 DEF storeVars, stored, Content
  <2>3. QED
    BY <2>1, <2>2
<1>2. QED
  BY <1>1, StoresInvariant, PTL DEF StoresSpec, StoresAreAtomic, AtomicStep

HIDE StoreAssumption

-----------------------------------------------------------------------------
(* Outbound orders.                                                         *)

USE SubmissionAssumption

\* A key whose row exists.
Registered(rowOf, k) == k \in Keys /\ rowOf[k].status # "none"

\* An order that is about to be recorded for a key is the broker's order for it.
AboutToMark(at, k, b) == b \in BrokerOrderIds /\ at[b] = k

SubmitterOK(rowOf, at, sender) ==
  /\ sender.step \in {"idle", "send", "mark"}
  /\ sender.step # "idle" => Registered(rowOf, sender.key)
  /\ sender.step = "mark" => AboutToMark(at, sender.key, sender.broker)

RecovererOK(rowOf, at, run) ==
  /\ run.step \in {"idle", "lookup", "resend", "mark"}
  /\ \A k \in run.queue : Registered(rowOf, k)
  /\ run.step \in {"resend", "mark"} => Registered(rowOf, run.key)
  /\ run.step = "mark" => AboutToMark(at, run.key, run.broker)

CallOf == [step : {"idle", "send", "mark"}, key : Keys \cup {NoKey},
           broker : BrokerOrderIds \cup {NoBrokerOrder}]

RunOf == [step : {"idle", "lookup", "resend", "mark"}, queue : SUBSET Keys,
          key : Keys \cup {NoKey}, broker : BrokerOrderIds \cup {NoBrokerOrder},
          resends : BOOLEAN]

\* Whoever was told an order was told the one of a row that is submitted.
ToldOK(k) ==
  /\ told[k] \subseteq {submissions[k].broker}
  /\ told[k] # {} => submissions[k].status = "SUBMITTED"
  /\ submissions[k].status = "SUBMITTED" => AboutToMark(market, k, submissions[k].broker)

SubmissionsInv ==
  /\ SubmissionsTypeOK
  /\ submitter \in [Submitters -> CallOf] /\ recoverer \in [Recoverers -> RunOf]
  /\ \A s \in Submitters : SubmitterOK(submissions, market, submitter[s])
  /\ \A r \in Recoverers : RecovererOK(submissions, market, recoverer[r])
  /\ \A k \in Keys : ToldOK(k)
  /\ \A b \in BrokerOrderIds : market[b] # NoKey => Registered(submissions, market[b])

LEMMA SubmissionsInvInit == SubmissionsInit => SubmissionsInv
  BY DEF SubmissionsInit, SubmissionsInv, SubmissionsTypeOK, CallOf, RunOf, SubmitterOK,
         RecovererOK, ToldOK, Quiet, Settled

\* What is left of a run after one submission is a run over fewer.
LEMMA AfterIsARun ==
  ASSUME SubmissionsInv, NEW r \in Recoverers, NEW k \in recoverer[r].queue
  PROVE  After(r, k) \in RunOf /\ RecovererOK(submissions, market, After(r, k))
<1>1. recoverer[r] \in RunOf /\ RecovererOK(submissions, market, recoverer[r])
  BY DEF SubmissionsInv
<1>2. CASE recoverer[r].queue = {k}
  BY <1>2 DEF After, Settled, RunOf, RecovererOK
<1>3. CASE recoverer[r].queue # {k}
  BY <1>1, <1>3 DEF After, RunOf, RecovererOK
<1>4. QED
  BY <1>2, <1>3

\* Rows only gain status, orders keep their keys, so what a call or a run holds stays true.
LEMMA HeldStays ==
  ASSUME SubmissionsInv,
         \A k \in Keys : Registered(submissions, k) => Registered(submissions', k),
         \A b \in BrokerOrderIds : market[b] # NoKey => market'[b] = market[b]
  PROVE  /\ \A sender \in CallOf :
                 SubmitterOK(submissions, market, sender) => SubmitterOK(submissions', market', sender)
         /\ \A run \in RunOf :
                 RecovererOK(submissions, market, run) => RecovererOK(submissions', market', run)
<1>1. ASSUME NEW k \in Keys, NEW b, AboutToMark(market, k, b)
      PROVE  AboutToMark(market', k, b)
  BY <1>1 DEF AboutToMark
<1>2. ASSUME NEW sender \in CallOf, SubmitterOK(submissions, market, sender)
      PROVE  SubmitterOK(submissions', market', sender)
  BY <1>1, <1>2 DEF SubmitterOK, Registered
<1>3. ASSUME NEW run \in RunOf, RecovererOK(submissions, market, run)
      PROVE  RecovererOK(submissions', market', run)
  BY <1>1, <1>3 DEF RecovererOK, Registered, RunOf
<1>4. QED
  BY <1>2, <1>3

LEMMA SubmissionsInvStep == SubmissionsInv /\ [SubmissionsNext]_submissionVars => SubmissionsInv'
<1> SUFFICES ASSUME SubmissionsInv, [SubmissionsNext]_submissionVars
             PROVE  SubmissionsInv'
  OBVIOUS
<1>1. ASSUME NEW s \in Submitters, NEW k \in Keys, Register(s, k)
      PROVE  SubmissionsInv'
  <2>1. \A j \in Keys : Registered(submissions, j) => Registered(submissions', j)
    BY <1>1 DEF Register, Registered, SubmissionsInv, SubmissionsTypeOK
  <2>2. market' = market /\ recoverer' = recoverer /\ listed' = listed
    BY <1>1 DEF Register
  <2>3. /\ \A sender \in CallOf :
                SubmitterOK(submissions, market, sender) => SubmitterOK(submissions', market', sender)
        /\ \A run \in RunOf :
                RecovererOK(submissions, market, run) => RecovererOK(submissions', market', run)
    BY <2>1, <2>2, HeldStays
  <2>4. CASE submissions[k].status = "SUBMITTED"
    <3>1. /\ told' = [told EXCEPT ![k] = @ \cup {submissions[k].broker}]
          /\ UNCHANGED <<submissions, submitter>>
      BY <1>1, <2>4 DEF Register
    <3>2. \A j \in Keys : ToldOK(j)'
      BY <2>2, <2>4, <3>1 DEF SubmissionsInv, SubmissionsTypeOK, ToldOK, AboutToMark
    <3>3. SubmissionsTypeOK'
      BY <2>2, <2>4, <3>1 DEF SubmissionsInv, SubmissionsTypeOK, ToldOK, AboutToMark
    <3>4. QED
      BY <2>1, <2>2, <2>3, <3>1, <3>2, <3>3 DEF SubmissionsInv, Registered
  <2>5. CASE submissions[k].status # "SUBMITTED"
    <3>1. /\ submissions' = [submissions EXCEPT ![k].status = "PENDING"]
          /\ submitter' = [submitter EXCEPT ![s] = [Quiet EXCEPT !.step = "send", !.key = k]]
          /\ told' = told
      BY <1>1, <2>5 DEF Register
    <3>2. \A j \in Keys : ToldOK(j)'
      BY <2>2, <2>5, <3>1 DEF SubmissionsInv, SubmissionsTypeOK, ToldOK, AboutToMark
    <3>3. SubmissionsTypeOK'
      BY <2>2, <3>1 DEF SubmissionsInv, SubmissionsTypeOK
    <3>4. /\ [Quiet EXCEPT !.step = "send", !.key = k] \in CallOf
          /\ SubmitterOK(submissions', market', [Quiet EXCEPT !.step = "send", !.key = k])
      BY <3>1 DEF Quiet, CallOf, SubmitterOK, Registered, SubmissionsInv, SubmissionsTypeOK
    <3>5. QED
      BY <2>1, <2>2, <2>3, <3>1, <3>2, <3>3, <3>4 DEF SubmissionsInv, Registered
  <2>6. QED
    BY <2>4, <2>5
<1>2. ASSUME NEW s \in Submitters, SendTaken(s) \/ SendAmbiguous(s) \/ SubmitterDies(s)
      PROVE  SubmissionsInv'
  <2>1. UNCHANGED <<submissions, listed, recoverer, told>>
    BY <1>2 DEF SendTaken, SendAmbiguous, SubmitterDies
  <2>2. submitter[s] \in CallOf /\ SubmitterOK(submissions, market, submitter[s])
    BY DEF SubmissionsInv
  <2>3. /\ \/ market' = market
           \/ \E b \in BrokerOrderIds : Place(b, submitter[s].key) /\ submitter[s].key \in Keys
                                          /\ Registered(submissions, submitter[s].key)
    BY <1>2, <2>2 DEF SendTaken, SendAmbiguous, SubmitterDies, SubmitterOK, Registered
  <2>4. \A b \in BrokerOrderIds : market[b] # NoKey => market'[b] = market[b]
    BY <2>3 DEF Place, SubmissionsInv, SubmissionsTypeOK
  <2>5. \A k \in Keys : Registered(submissions, k) => Registered(submissions', k)
    BY <2>1 DEF Registered
  <2>6. /\ \A sender \in CallOf :
                SubmitterOK(submissions, market, sender) => SubmitterOK(submissions', market', sender)
        /\ \A run \in RunOf :
                RecovererOK(submissions, market, run) => RecovererOK(submissions', market', run)
    BY <2>4, <2>5, HeldStays
  <2>7. \E sender \in CallOf :
          /\ SubmitterOK(submissions', market', sender)
          /\ submitter' = [submitter EXCEPT ![s] = sender]
    <3>1. Quiet \in CallOf /\ SubmitterOK(submissions', market', Quiet)
      BY DEF Quiet, CallOf, SubmitterOK
    <3>2. CASE SendTaken(s)
      <4>1. PICK b \in BrokerOrderIds :
              /\ Place(b, submitter[s].key)
              /\ submitter' = [submitter EXCEPT ![s] = [@ EXCEPT !.step = "mark", !.broker = b]]
        BY <3>2 DEF SendTaken
      <4>2. [submitter[s] EXCEPT !.step = "mark", !.broker = b] \in CallOf
        BY <2>2 DEF CallOf
      <4>3. Registered(submissions, submitter[s].key) /\ submitter[s].key \in Keys
        BY <2>2, <3>2 DEF SubmitterOK, SendTaken, Registered
      <4>4. market'[b] = submitter[s].key
        BY <4>1 DEF Place, SubmissionsInv, SubmissionsTypeOK
      <4>5. SubmitterOK(submissions', market', [submitter[s] EXCEPT !.step = "mark", !.broker = b])
        BY <2>1, <2>2, <4>3, <4>4 DEF SubmitterOK, Registered, AboutToMark, CallOf
      <4>6. QED
        BY <2>2, <4>1, <4>2, <4>5 DEF SubmissionsInv
    <3>3. CASE ~SendTaken(s)
      BY <1>2, <3>1, <3>3 DEF SendAmbiguous, SubmitterDies
    <3>4. QED
      BY <3>2, <3>3
  <2>8. market' \in [BrokerOrderIds -> Keys \cup {NoKey}]
    BY <2>3 DEF Place, SubmissionsInv, SubmissionsTypeOK
  <2>9. \A b \in BrokerOrderIds : market'[b] # NoKey => Registered(submissions', market'[b])
    BY <2>1, <2>3 DEF Place, SubmissionsInv, SubmissionsTypeOK, Registered
  <2>10. \A k \in Keys : ToldOK(k)'
    BY <2>1, <2>4 DEF SubmissionsInv, ToldOK, AboutToMark
  <2>11. QED
    BY <2>1, <2>6, <2>7, <2>8, <2>9, <2>10 DEF SubmissionsInv, SubmissionsTypeOK
<1>3. ASSUME NEW k \in Keys, NEW b, AboutToMark(market, k, b),
             Registered(submissions, k), Bindable(k, b),
             BindSubmission(k, b), told' = [told EXCEPT ![k] = @ \cup {b}], market' = market
      PROVE  /\ submissions' \in [Keys -> [status: {"none", "PENDING", "SUBMITTED"},
                                           broker: BrokerOrderIds \cup {NoBrokerOrder}]]
             /\ told' \in [Keys -> SUBSET BrokerOrderIds]
             /\ \A j \in Keys : ToldOK(j)'
             /\ \A j \in Keys : Registered(submissions, j) => Registered(submissions', j)
  <2>1. b \in BrokerOrderIds /\ submissions[k].status \in {"PENDING", "SUBMITTED"}
    BY <1>3 DEF AboutToMark, Registered, SubmissionsInv, SubmissionsTypeOK
  <2>2. submissions' = [submissions EXCEPT ![k] = [status |-> "SUBMITTED", broker |-> b]]
    BY <1>3 DEF BindSubmission
  <2>3. told[k] \subseteq {b}
    BY <1>3 DEF Bindable, SubmissionsInv, ToldOK
  <2>4. ToldOK(k)'
    BY <1>3, <2>1, <2>2, <2>3 DEF ToldOK, AboutToMark, SubmissionsInv, SubmissionsTypeOK
  <2>5. ASSUME NEW j \in Keys, j # k PROVE ToldOK(j)'
    BY <1>3, <2>2, <2>5 DEF ToldOK, AboutToMark, SubmissionsInv, SubmissionsTypeOK
  <2>6. QED
    BY <1>3, <2>1, <2>2, <2>4, <2>5 DEF Registered, SubmissionsInv, SubmissionsTypeOK
<1>4. ASSUME NEW s \in Submitters, MarkSubmissionSubmitted(s)
      PROVE  SubmissionsInv'
  <2> DEFINE k == submitter[s].key
             b == submitter[s].broker
  <2>1. SubmitterOK(submissions, market, submitter[s]) /\ submitter[s].step = "mark"
    BY <1>4 DEF SubmissionsInv, MarkSubmissionSubmitted
  <2>2. k \in Keys /\ Registered(submissions, k) /\ AboutToMark(market, k, b)
    BY <2>1 DEF SubmitterOK, Registered
  <2>3. UNCHANGED <<market, listed, recoverer>> /\ submitter' = [submitter EXCEPT ![s] = Quiet]
    BY <1>4 DEF MarkSubmissionSubmitted
  <2>4. \/ Bindable(k, b) /\ BindSubmission(k, b) /\ told' = [told EXCEPT ![k] = @ \cup {b}]
        \/ UNCHANGED <<submissions, told>>
    BY <1>4 DEF MarkSubmissionSubmitted
  <2> HIDE DEF k, b
  <2>5. /\ submissions' \in [Keys -> [status: {"none", "PENDING", "SUBMITTED"},
                                      broker: BrokerOrderIds \cup {NoBrokerOrder}]]
        /\ told' \in [Keys -> SUBSET BrokerOrderIds]
        /\ \A j \in Keys : ToldOK(j)'
        /\ \A j \in Keys : Registered(submissions, j) => Registered(submissions', j)
    <3>1. CASE UNCHANGED <<submissions, told>>
      BY <2>3, <3>1 DEF SubmissionsInv, SubmissionsTypeOK, ToldOK, AboutToMark, Registered
    <3>2. QED
      BY <1>3, <2>2, <2>3, <2>4, <3>1
  <2>6. /\ \A sender \in CallOf :
                SubmitterOK(submissions, market, sender) => SubmitterOK(submissions', market', sender)
        /\ \A run \in RunOf :
                RecovererOK(submissions, market, run) => RecovererOK(submissions', market', run)
    BY <2>3, <2>5, HeldStays
  <2>7. Quiet \in CallOf /\ SubmitterOK(submissions', market', Quiet)
    BY DEF Quiet, CallOf, SubmitterOK
  <2>8. \A o \in BrokerOrderIds : market[o] # NoKey => Registered(submissions', market[o])
    BY <2>5 DEF SubmissionsInv, SubmissionsTypeOK
  <2>9. QED
    BY <2>3, <2>5, <2>6, <2>7, <2>8 DEF SubmissionsInv, SubmissionsTypeOK
<1>5. ASSUME NEW r \in Recoverers, NEW run \in RunOf, RecovererOK(submissions', market', run),
             recoverer' = [recoverer EXCEPT ![r] = run],
             UNCHANGED <<submissions, listed, submitter, told>>,
             \/ market' = market
             \/ \E b \in BrokerOrderIds, k \in Keys : Place(b, k) /\ Registered(submissions, k)
      PROVE  SubmissionsInv'
  <2>1. \A b \in BrokerOrderIds : market[b] # NoKey => market'[b] = market[b]
    BY <1>5 DEF Place, SubmissionsInv, SubmissionsTypeOK
  <2>2. \A k \in Keys : Registered(submissions, k) => Registered(submissions', k)
    BY <1>5 DEF Registered
  <2>3. /\ \A c \in CallOf :
                SubmitterOK(submissions, market, c) => SubmitterOK(submissions', market', c)
        /\ \A c \in RunOf :
                RecovererOK(submissions, market, c) => RecovererOK(submissions', market', c)
    BY <2>1, <2>2, HeldStays
  <2>4. market' \in [BrokerOrderIds -> Keys \cup {NoKey}]
    BY <1>5 DEF Place, SubmissionsInv, SubmissionsTypeOK
  <2>5. \A b \in BrokerOrderIds : market'[b] # NoKey => Registered(submissions', market'[b])
    BY <1>5 DEF Place, SubmissionsInv, SubmissionsTypeOK, Registered
  <2>6. \A k \in Keys : ToldOK(k)'
    BY <1>5, <2>1 DEF SubmissionsInv, ToldOK, AboutToMark
  <2>7. QED
    BY <1>5, <2>3, <2>4, <2>5, <2>6 DEF SubmissionsInv, SubmissionsTypeOK
<1>6. \A j \in Keys : submissions' = submissions /\ market' = market =>
        /\ Registered(submissions, j) => Registered(submissions', j)
        /\ \A b : AboutToMark(market, j, b) => AboutToMark(market', j, b)
  BY DEF Registered, AboutToMark
<1>7. \A run \in RunOf :
        submissions' = submissions /\ market' = market /\
        RecovererOK(submissions, market, run) =>
        RecovererOK(submissions', market', run)
  BY HeldStays DEF Registered
<1>8. Settled \in RunOf /\ RecovererOK(submissions', market', Settled)
  BY DEF Settled, RunOf, RecovererOK
<1>9. ASSUME NEW r \in Recoverers, NEW approval \in Approvals, NEW resends \in BOOLEAN,
             StartRecovery(r, approval, resends)
      PROVE  SubmissionsInv'
  <2> DEFINE run == [Settled EXCEPT !.step = "lookup", !.queue = Recoverable(approval),
                                    !.resends = resends]
  <2>1. \A k \in Recoverable(approval) : Registered(submissions, k)
    BY DEF Recoverable, Pending, Registered
  <2>2. Recoverable(approval) \subseteq Keys
    BY DEF Recoverable, Pending
  <2>3. run \in RunOf /\ RecovererOK(submissions, market, run)
    BY <2>1, <2>2 DEF Settled, RunOf, RecovererOK
  <2>4. UNCHANGED <<submissions, market, listed, submitter, told>>
        /\ recoverer' = [recoverer EXCEPT ![r] = run]
    BY <1>9 DEF StartRecovery
  <2> HIDE DEF run
  <2>5. RecovererOK(submissions', market', run)
    BY <1>7, <2>3, <2>4
  <2>6. QED
    BY <1>5, <2>3, <2>4, <2>5
<1>10. ASSUME NEW r \in Recoverers, LookupOrder(r)
       PROVE  SubmissionsInv'
  <2>1. UNCHANGED <<submissions, market, listed, submitter, told>>
    BY <1>10 DEF LookupOrder
  <2>2. PICK k \in recoverer[r].queue :
          LET found == OrdersUnder(k) \cap listed IN
          recoverer' = [recoverer EXCEPT ![r] =
            CASE Cardinality(found) = 1 ->
                   [@ EXCEPT !.step = "mark", !.key = k, !.broker = CHOOSE b \in found : TRUE]
              [] OTHER -> IF @.resends THEN OrResends(r, k, found) ELSE OnlyLooks(r, k, found)]
    BY <1>10 DEF LookupOrder
  <2> DEFINE found == OrdersUnder(k) \cap listed
             o == CHOOSE b \in found : TRUE
  <2>3. recoverer[r] \in RunOf /\ RecovererOK(submissions, market, recoverer[r])
    BY DEF SubmissionsInv
  <2>4. k \in Keys /\ Registered(submissions, k)
    BY <2>3 DEF RecovererOK, RunOf
  <2>5. After(r, k) \in RunOf /\ RecovererOK(submissions', market', After(r, k))
    BY <1>7, <2>1, AfterIsARun
  <2>6. ASSUME Cardinality(found) = 1
        PROVE  AboutToMark(market, k, o)
    <3>1. found # {}
      BY <2>6, FS_EmptySet
    <3>2. o \in found
      BY <3>1
    <3>3. QED
      BY <3>2 DEF AboutToMark, OrdersUnder
  <2>7. recoverer[r].resends \in BOOLEAN
    BY <2>3 DEF RunOf
  <2> DEFINE marks == [recoverer[r] EXCEPT !.step = "mark", !.key = k, !.broker = o]
             again == [recoverer[r] EXCEPT !.step = "resend", !.key = k]
  <2>8. Cardinality(found) = 1 => marks \in RunOf /\ RecovererOK(submissions, market, marks)
    BY <2>3, <2>4, <2>6 DEF RunOf, RecovererOK, AboutToMark
  <2>9. again \in RunOf /\ RecovererOK(submissions, market, again)
    BY <2>3, <2>4 DEF RunOf, RecovererOK
  <2>10. \/ Cardinality(found) = 1 /\ recoverer' = [recoverer EXCEPT ![r] = marks]
         \/ recoverer' = [recoverer EXCEPT ![r] = After(r, k)]
         \/ recoverer' = [recoverer EXCEPT ![r] = Settled]
         \/ recoverer' = [recoverer EXCEPT ![r] = again]
    <3>1. CASE Cardinality(found) = 1
      <4>1. ~(Cardinality(found) > 1)
        BY <3>1
      <4>2. QED
        BY <2>2, <3>1, <4>1, Zenon
    <3>2. CASE Cardinality(found) # 1
      <4>1. recoverer' = [recoverer EXCEPT ![r] =
                            IF @.resends THEN OrResends(r, k, found) ELSE OnlyLooks(r, k, found)]
        BY <2>2, <3>2, Zenon
      <4>2. OrResends(r, k, found) \in {After(r, k), again}
        BY DEF OrResends
      <4>3. OnlyLooks(r, k, found) \in {After(r, k), Settled}
        BY DEF OnlyLooks
      <4>4. QED
        BY <4>1, <4>2, <4>3
    <3>3. QED
      BY <3>1, <3>2
  <2> HIDE DEF found, o, marks, again
  <2>11. Cardinality(found) = 1 => marks \in RunOf /\ RecovererOK(submissions', market', marks)
    BY <1>7, <2>1, <2>8
  <2>12. again \in RunOf /\ RecovererOK(submissions', market', again)
    BY <1>7, <2>1, <2>9
  <2>13. QED
    BY <1>5, <1>8, <2>1, <2>5, <2>10, <2>11, <2>12
<1>11. ASSUME NEW r \in Recoverers, Resend(r)
       PROVE  SubmissionsInv'
  <2> DEFINE k == recoverer[r].key
  <2>1. recoverer[r] \in RunOf /\ RecovererOK(submissions, market, recoverer[r]) /\ recoverer[r].step = "resend"
    BY <1>11 DEF SubmissionsInv, Resend
  <2>2. k \in Keys /\ Registered(submissions, k)
    BY <2>1 DEF RecovererOK, Registered
  <2>3. PICK b \in BrokerOrderIds :
          /\ IF OrdersUnder(k) = {} THEN Place(b, k) ELSE b \in OrdersUnder(k) /\ UNCHANGED market
          /\ recoverer' = [recoverer EXCEPT ![r].step = "mark", ![r].broker = b]
    BY <1>11 DEF Resend
  <2> DEFINE run == [recoverer[r] EXCEPT !.step = "mark", !.broker = b]
  <2>4. market'[b] = k
    BY <2>3 DEF OrdersUnder, Place, SubmissionsInv, SubmissionsTypeOK
  <2>5. UNCHANGED <<submissions, listed, submitter, told>>
    BY <1>11 DEF Resend
  <2>6. run \in RunOf
    BY <2>1 DEF RunOf
  <2>7. \A j \in Keys : Registered(submissions, j) => Registered(submissions', j)
    BY <2>5 DEF Registered
  <2>8. RecovererOK(submissions', market', run)
    BY <2>1, <2>2, <2>4, <2>7 DEF RecovererOK, RunOf, AboutToMark
  <2>9. recoverer' = [recoverer EXCEPT ![r] = run]
    BY <2>1, <2>3 DEF SubmissionsInv, RunOf
  <2>10. market' = market \/ \E o \in BrokerOrderIds, j \in Keys : Place(o, j) /\ Registered(submissions, j)
    BY <2>2, <2>3
  <2> HIDE DEF run, k
  <2>11. QED
    BY <1>5, <2>5, <2>6, <2>8, <2>9, <2>10
<1>12. ASSUME NEW r \in Recoverers, RecoveryStops(r)
       PROVE  SubmissionsInv'
  BY <1>5, <1>8, <1>12 DEF RecoveryStops
<1>13. ASSUME NEW r \in Recoverers, MarkRecovered(r)
       PROVE  SubmissionsInv'
  <2> DEFINE k == recoverer[r].key
             b == recoverer[r].broker
  <2>1. recoverer[r] \in RunOf /\ RecovererOK(submissions, market, recoverer[r]) /\ recoverer[r].step = "mark"
    BY <1>13 DEF SubmissionsInv, MarkRecovered
  <2>2. k \in Keys /\ Registered(submissions, k) /\ AboutToMark(market, k, b)
    BY <2>1 DEF RecovererOK, Registered
  <2>3. UNCHANGED <<market, listed, submitter>>
    BY <1>13 DEF MarkRecovered
  <2>4. \/ /\ Bindable(k, b) /\ BindSubmission(k, b) /\ told' = [told EXCEPT ![k] = @ \cup {b}]
           /\ recoverer' = [recoverer EXCEPT ![r] = After(r, k)]
        \/ UNCHANGED <<submissions, told>> /\ recoverer' = [recoverer EXCEPT ![r] = Settled]
    BY <1>13 DEF MarkRecovered
  <2>5. /\ submissions' \in [Keys -> [status: {"none", "PENDING", "SUBMITTED"},
                                      broker: BrokerOrderIds \cup {NoBrokerOrder}]]
        /\ told' \in [Keys -> SUBSET BrokerOrderIds]
        /\ \A j \in Keys : ToldOK(j)'
        /\ \A j \in Keys : Registered(submissions, j) => Registered(submissions', j)
    <3> HIDE DEF k, b
    <3>1. CASE UNCHANGED <<submissions, told>>
      BY <2>3, <3>1 DEF SubmissionsInv, SubmissionsTypeOK, ToldOK, AboutToMark, Registered
    <3>2. QED
      BY <1>3, <2>2, <2>3, <2>4, <3>1
  <2>6. /\ \A sender \in CallOf :
                SubmitterOK(submissions, market, sender) => SubmitterOK(submissions', market', sender)
        /\ \A run \in RunOf :
                RecovererOK(submissions, market, run) => RecovererOK(submissions', market', run)
    BY <2>3, <2>5, HeldStays
  <2>7. After(r, k) \in RunOf /\ RecovererOK(submissions, market, After(r, k))
    <3>1. CASE recoverer[r].queue = {k}
      BY <3>1 DEF After, Settled, RunOf, RecovererOK
    <3>2. CASE recoverer[r].queue # {k}
      BY <2>1, <3>2 DEF After, RunOf, RecovererOK
    <3>3. QED
      BY <3>1, <3>2
  <2>8. RecovererOK(submissions', market', After(r, k))
    <3> HIDE DEF k
    <3>1. QED
      BY <2>6, <2>7
  <2>9. \A o \in BrokerOrderIds : market[o] # NoKey => Registered(submissions', market[o])
    BY <2>5 DEF SubmissionsInv, SubmissionsTypeOK
  <2> HIDE DEF k, b
  <2>10. recoverer' \in [Recoverers -> RunOf]
    BY <1>8, <2>4, <2>7 DEF SubmissionsInv
  <2>11. \A q \in Recoverers : RecovererOK(submissions', market', recoverer'[q])
    BY <1>8, <2>4, <2>6, <2>8 DEF SubmissionsInv
  <2>12. QED
    BY <2>3, <2>5, <2>6, <2>9, <2>10, <2>11 DEF SubmissionsInv, SubmissionsTypeOK
<1>14. ASSUME NEW b \in BrokerOrderIds, List(b)
       PROVE  SubmissionsInv'
  <2>1. UNCHANGED <<submissions, market, submitter, recoverer, told>>
        /\ listed' = listed \cup {b}
    BY <1>14 DEF List
  <2>2. /\ \A sender \in CallOf :
                SubmitterOK(submissions, market, sender) => SubmitterOK(submissions', market', sender)
        /\ \A run \in RunOf :
                RecovererOK(submissions, market, run) => RecovererOK(submissions', market', run)
    BY <2>1, HeldStays DEF Registered
  <2>3. QED
    BY <2>1, <2>2 DEF SubmissionsInv, SubmissionsTypeOK, ToldOK, AboutToMark, Registered
<1>15. ASSUME UNCHANGED submissionVars
       PROVE  SubmissionsInv'
  <2>1. UNCHANGED <<submissions, market, submitter, recoverer, told, listed>>
    BY <1>15 DEF submissionVars
  <2>2. /\ \A sender \in CallOf :
                SubmitterOK(submissions, market, sender) => SubmitterOK(submissions', market', sender)
        /\ \A run \in RunOf :
                RecovererOK(submissions, market, run) => RecovererOK(submissions', market', run)
    BY <2>1, HeldStays DEF Registered
  <2>3. QED
    BY <2>1, <2>2 DEF SubmissionsInv, SubmissionsTypeOK, ToldOK, AboutToMark, Registered
<1>16. QED
  BY <1>1, <1>2, <1>4, <1>9, <1>10, <1>11, <1>12, <1>13, <1>14, <1>15
  DEF SubmissionsNext, SubmitterStep, RecoveryStep

\* Whoever submits or recovers an order, whatever overtakes or dies, is told the one
\* broker order the row names, and the broker has it under the key
\* (order_submission_service.py, mark_submission_submitted).
THEOREM CallersAreToldOneOrderCorrect == SubmissionsSpec => []CallersAreToldOneOrder
<1>1. SubmissionsInv => CallersAreToldOneOrder
  BY DEF SubmissionsInv, CallersAreToldOneOrder, ToldOK, AboutToMark, Registered
<1>2. QED
  BY <1>1, SubmissionsInvInit, SubmissionsInvStep, PTL DEF SubmissionsSpec

\* The rows of the submissions and the broker's orders keep their types, for any number of
\* keys, callers and recoveries (order_submission_service.py).
THEOREM SubmissionsTypeCorrect == SubmissionsSpec => []SubmissionsTypeOK
<1>1. SubmissionsInv => SubmissionsTypeOK
  BY DEF SubmissionsInv
<1>2. QED
  BY <1>1, SubmissionsInvInit, SubmissionsInvStep, PTL DEF SubmissionsSpec

HIDE SubmissionAssumption

-----------------------------------------------------------------------------
(* Startup recovery.                                                        *)

USE StartupRecoveryAssumption

KeptRow == [status : KeptStatuses, filled : 0..OrderSize]
BrokerRow == [status : {"ABSENT", "OPEN", "CLOSED"}, filled : 0..OrderSize]

\* While orders are reconciled, those that are still live here are to be, or were found so.
\* Once the broker's orders are taken, no record is live, and no order it showed is: they
\* do not fill any more, so a position that is not theirs is of orders it did not show.
ReadyInv ==
  /\ kept \in [OwnOrders -> KeptRow] /\ placedAt \in [AllOrders -> BrokerRow]
  /\ left \subseteq OwnOrders /\ shown \subseteq AllOrders
  /\ stage = "orders" => Reconcilable \subseteq left \/ unresolved
  /\ stage \in {"positions", "compare"} =>
       Reconcilable = {} /\ \A o \in shown : placedAt[o].status = "CLOSED"
  /\ stage = "compare" /\ Arrived \subseteq shown => netShown = BrokerNet

LEMMA ReadyInvInit == RecoveryInit => ReadyInv
  BY DEF RecoveryInit, ReadyInv, KeptRow, BrokerRow

LEMMA ReadyInvStep == ReadyInv /\ [RecoveryNext]_recoveryVars => ReadyInv'
<1> SUFFICES ASSUME ReadyInv, [RecoveryNext]_recoveryVars PROVE ReadyInv'
  OBVIOUS
\* Steps that move neither the records nor the broker's orders.
<1>1. ASSUME UNCHANGED <<kept, placedAt>>
      PROVE  Reconcilable' = Reconcilable /\ Arrived' = Arrived /\ BrokerNet' = BrokerNet
             /\ LiveAtBroker' = LiveAtBroker
  BY <1>1 DEF Reconcilable, Arrived, BrokerNet, LiveAtBroker
<1>2. CASE BeginRecovery
  BY <1>1, <1>2 DEF BeginRecovery, ReadyInv, Reconcilable
<1>3. CASE TakeOrders
  <2>1. UNCHANGED <<kept, placedAt, left, unresolved>> /\ stage' = "positions"
    BY <1>3 DEF TakeOrders
  <2>2. Reconcilable = {}
    BY <1>3 DEF TakeOrders, ReadyInv
  <2>3. shown' = {o \in AllOrders : placedAt[o].status # "ABSENT"}
    BY <1>3 DEF TakeOrders
  <2>4. \A o \in AllOrders : placedAt[o].status # "OPEN"
    BY <1>3 DEF TakeOrders, LiveAtBroker
  <2>5. \A o \in shown' : placedAt[o].status = "CLOSED"
    BY <2>3, <2>4 DEF ReadyInv, BrokerRow
  <2>6. QED
    BY <1>1, <2>1, <2>2, <2>3, <2>5 DEF ReadyInv
<1>4. CASE TakePositions
  BY <1>1, <1>4 DEF TakePositions, ReadyInv
<1>5. CASE EndRecovery \/ GivesUpRecovery \/ ComparePositions \/ HaltByOperator
  <2>1. UNCHANGED <<kept, placedAt, left, unresolved, shown, netShown>>
        /\ stage' \in {stage, "idle"}
    BY <1>5 DEF EndRecovery, GivesUpRecovery, FailRecovery, ComparePositions, HaltByOperator
  <2>2. QED
    BY <1>1, <2>1 DEF ReadyInv
<1>6. ASSUME NEW o \in OwnOrders, ReconcileOrder(o)
      PROVE  ReadyInv'
  <2>1. /\ stage = "orders" /\ left' = left \ {o}
        /\ UNCHANGED <<placedAt, stage, shown, netShown>>
    BY <1>6 DEF ReconcileOrder
  <2>2. PICK found \in {kept[o], UpToDate(o)} :
          /\ kept' = [kept EXCEPT ![o] = found]
          /\ unresolved' = (unresolved \/ found.status # "CLOSED")
    BY <1>6 DEF ReconcileOrder
  <2>3. UpToDate(o) \in KeptRow
    BY DEF UpToDate, ReadyInv, KeptRow, KeptStatuses, BrokerRow, AllOrders
  <2>4. found \in KeptRow
    BY <2>2, <2>3 DEF ReadyInv
  <2>5. kept' \in [OwnOrders -> KeptRow] /\ \A q \in OwnOrders \ {o} : kept'[q] = kept[q]
    BY <2>2, <2>4 DEF ReadyInv
  <2>6. kept'[o] = found
    BY <2>2 DEF ReadyInv
  <2>7. Reconcilable' \subseteq left' \/ unresolved'
    BY <2>1, <2>2, <2>5, <2>6 DEF Reconcilable, ReadyInv
  <2>8. QED
    BY <2>1, <2>5, <2>7 DEF ReadyInv
<1>7. ASSUME NEW o \in AllOrders, BrokerActs(o)
      PROVE  ReadyInv'
  <2>1. UNCHANGED <<kept, left, unresolved, stage, shown, netShown>>
    BY <1>7 DEF BrokerActs
  <2>2. Reconcilable' = Reconcilable
    BY <2>1 DEF Reconcilable
  <2>3. /\ placedAt[o].status # "CLOSED"
        /\ placedAt' \in [AllOrders -> BrokerRow]
        /\ placedAt'[o].status # "ABSENT"
        /\ \A q \in AllOrders \ {o} : placedAt'[q] = placedAt[q]
    BY <1>7 DEF BrokerActs, ReadyInv, BrokerRow
  <2>4. stage \in {"positions", "compare"} => o \notin shown
    BY <2>3 DEF ReadyInv
  <2>5. o \in Arrived'
    BY <2>3 DEF Arrived
  <2>6. QED
    BY <2>1, <2>2, <2>3, <2>4, <2>5 DEF ReadyInv
<1>8. CASE UNCHANGED recoveryVars
  <2>1. UNCHANGED <<kept, placedAt, left, unresolved, stage, shown, netShown>>
    BY <1>8 DEF recoveryVars
  <2>2. QED
    BY <1>1, <2>1 DEF ReadyInv
<1>9. QED
  BY <1>2, <1>3, <1>4, <1>5, <1>6, <1>7, <1>8 DEF RecoveryNext

LEMMA ReadyStep ==
  ReadyInv /\ [RecoveryNext]_recoveryVars =>
    [recoveryAt # "READY" /\ recoveryAt' = "READY" =>
       /\ \A o \in shown : placedAt[o].status = "CLOSED"
       /\ Reconcilable = {}
       /\ Arrived \subseteq shown => LocalNet = BrokerNet]_recoveryVars
<1> SUFFICES ASSUME ReadyInv, RecoveryNext, recoveryAt # "READY", recoveryAt' = "READY"
             PROVE  /\ \A o \in shown : placedAt[o].status = "CLOSED"
                    /\ Reconcilable = {}
                    /\ Arrived \subseteq shown => LocalNet = BrokerNet
  OBVIOUS
<1>1. EndRecovery
  BY DEF RecoveryNext, BeginRecovery, TakeOrders, TakePositions, GivesUpRecovery,
         FailRecovery, ComparePositions, HaltByOperator, ReconcileOrder, BrokerActs
<1>2. stage = "compare" /\ LocalNet = netShown
  BY <1>1 DEF EndRecovery
<1>3. QED
  BY <1>2 DEF ReadyInv

\* The process becomes ready only when no order the broker showed it can fill any more, no
\* record of its own is live, and, unless an order came after the snapshot, the positions
\* agree; for any number of orders and recoveries (StartupRecoveryCoordinator.recover).
THEOREM ReadyMatchesBrokerCorrect == RecoverySpec => ReadyMatchesBroker
  BY ReadyInvInit, ReadyInvStep, ReadyStep, PTL DEF RecoverySpec, ReadyMatchesBroker

\* The position of finitely many orders is a number.
LEMMA NetIsANumber == IsFiniteSet(AllOrders) /\ ReadyInv => BrokerNet \in Int
<1> SUFFICES ASSUME IsFiniteSet(AllOrders), ReadyInv PROVE BrokerNet \in Int
  OBVIOUS
<1> DEFINE moved == [o \in AllOrders |-> OrderSide[o] * placedAt[o].filled]
<1>1. \A o \in AllOrders : OrderSide[o] \in Int /\ placedAt[o].filled \in Int
  BY DEF ReadyInv, BrokerRow
<1>2. DOMAIN moved = AllOrders /\ \A o \in AllOrders : moved[o] \in Int
  BY <1>1
<1>3. BrokerNet = SumFunctionOnSet(moved, DOMAIN moved)
  BY Zenon DEF BrokerNet, Net, SumFunction
<1> HIDE DEF moved
<1>4. SumFunctionOnSet(moved, AllOrders) \in Int
  BY <1>2, SumType
<1>5. QED
  BY <1>2, <1>3, <1>4

\* Where a recovery and the machine are.
RecoveryPlaces ==
  /\ recoveryAt \in {"LOCKED", "RECOVERING", "READY", "FAILED"}
  /\ machine \in {"LOCKED", "RECOVERING", "READY", "FAILED", "HALTED"}
  /\ stage \in {"idle", "orders", "positions", "compare"} /\ netShown \in Int
  /\ stage # "idle" => recoveryAt = "RECOVERING"
  /\ halt \in {"none", "positions", "operator"}

LEMMA RecoveryPlacesStep ==
  ASSUME IsFiniteSet(AllOrders), ReadyInv, RecoveryPlaces, [RecoveryNext]_recoveryVars
  PROVE  RecoveryPlaces'
<1>1. CASE BeginRecovery \/ EndRecovery \/ GivesUpRecovery \/ HaltByOperator
  BY <1>1 DEF BeginRecovery, EndRecovery, GivesUpRecovery, FailRecovery, HaltByOperator,
              RecoveryPlaces
<1>2. CASE TakePositions
  <2>1. BrokerNet \in Int
    BY NetIsANumber
  <2>2. QED
    BY <1>2, <2>1 DEF TakePositions, RecoveryPlaces
<1>3. CASE TakeOrders \/ ComparePositions
  BY <1>3 DEF TakeOrders, ComparePositions, RecoveryPlaces
<1>4. CASE \E o \in OwnOrders : ReconcileOrder(o)
  BY <1>4 DEF ReconcileOrder, RecoveryPlaces
<1>5. CASE \E o \in AllOrders : BrokerActs(o)
  BY <1>5 DEF BrokerActs, RecoveryPlaces
<1>6. CASE UNCHANGED recoveryVars
  BY <1>6 DEF recoveryVars, RecoveryPlaces
<1>7. QED
  BY <1>1, <1>2, <1>3, <1>4, <1>5, <1>6 DEF RecoveryNext

\* Records, orders and the state of a recovery keep their types, and a recovery is under
\* way in each of its stages, for any finite number of orders (startup_recovery.py).
THEOREM RecoveryTypeCorrect ==
  ASSUME IsFiniteSet(AllOrders)
  PROVE  RecoverySpec => []RecoveryTypeOK
<1>1. RecoveryInit => RecoveryPlaces
  BY DEF RecoveryInit, RecoveryPlaces
<1>2. ReadyInv /\ RecoveryPlaces /\ [RecoveryNext]_recoveryVars => RecoveryPlaces'
  BY RecoveryPlacesStep
<1>3. ReadyInv /\ RecoveryPlaces => RecoveryTypeOK
  BY DEF ReadyInv, RecoveryPlaces, RecoveryTypeOK, KeptRow, BrokerRow
<1>4. QED
  BY <1>1, <1>2, <1>3, ReadyInvInit, ReadyInvStep, PTL DEF RecoverySpec

HIDE StartupRecoveryAssumption

-----------------------------------------------------------------------------
(* Routes of the broker accounts.                                           *)

USE AccountsAssumption

\* A route is absent, or was built from a committed version of its row.
RouteOK(done, a, route) == route = 0 \/ <<a, route>> \in done

\* A request between its route and its commit: the others' routes are committed, and so is
\* the one it replaced; its own is of the version it will commit, or of none.
CommitOK(table, done, it) ==
  /\ it.account \in AccountRows
  /\ \A a \in AccountRows \ {it.account} : RouteOK(done, a, table[a])
  /\ RouteOK(done, it.account, it.old)
  /\ table[it.account] \in {0, it.new.version}
  /\ it.op = "delete" => table[it.account] = 0

AccountsInv ==
  /\ DOMAIN routes = AccountRows /\ DOMAIN accounts = AccountRows
  /\ DOMAIN requester = Requesters
  /\ \A a \in AccountRows :
       accounts[a].status = "active" => <<a, accounts[a].version>> \in committed
  /\ \A r \in Requesters : requester[r].step \in {"read", "quarantines", "syncs"} =>
       requester[r].account \in AccountRows
  /\ \A r \in Requesters : requester[r].step = "commits" =>
       lockOwner = r /\ CommitOK(routes, committed, requester[r])
  /\ startup = "booting" => \A r \in Requesters : requester[r].step = "idle"
  /\ lockOwner = NoOwner => \A a \in AccountRows : RouteOK(committed, a, routes[a])

LEMMA AccountsInvInit == AccountsInit => AccountsInv
<1> SUFFICES ASSUME AccountsInit PROVE AccountsInv
  OBVIOUS
<1>1. PICK good \in [AccountRows -> BOOLEAN], there \in SUBSET AccountRows :
        /\ accounts = [a \in AccountRows |->
                         IF a \in there THEN [status |-> "active", version |-> 1,
                                              good |-> good[a]]
                         ELSE NoRow]
        /\ committed = {<<a, 1>> : a \in there}
  BY DEF AccountsInit
<1>2. ASSUME NEW a \in AccountRows, accounts[a].status = "active"
      PROVE  <<a, accounts[a].version>> \in committed
  <2>1. a \in there /\ accounts[a].version = 1
    BY <1>1, <1>2 DEF NoRow
  <2>2. QED
    BY <1>1, <2>1
<1>3. \A r \in Requesters : requester[r].step = "idle"
  BY DEF AccountsInit, NoRequest
<1>4. QED
  BY <1>1, <1>2, <1>3 DEF AccountsInit, AccountsInv, RouteOK

\* Routes that are made of the rows are of committed versions.
LEMMA ProvisionedOK ==
  ASSUME AccountsInv
  PROVE  DOMAIN Provisioned = AccountRows
         /\ \A a \in AccountRows : RouteOK(committed, a, Provisioned[a])
  BY DEF Provisioned, Active, RouteOK, AccountsInv

LEMMA AccountsInvStep == AccountsInv /\ [AccountsNext]_accountVars => AccountsInv'
<1> SUFFICES ASSUME AccountsInv, [AccountsNext]_accountVars PROVE AccountsInv'
  OBVIOUS
<1>1. CASE BootRoutes
  <2>1. routes' = Provisioned /\ UNCHANGED <<accounts, requester, lockOwner, committed>>
        /\ \A r \in Requesters : requester[r].step = "idle"
    BY <1>1 DEF BootRoutes, AccountsInv
  <2>2. QED
    BY <2>1, ProvisionedOK DEF AccountsInv
<1>2. ASSUME NEW r \in Requesters, NEW op, NEW a \in AccountRows, NEW good,
             ReadAccount(r, op, a, good)
      PROVE  AccountsInv'
  <2> DEFINE it == [step |-> "read", op |-> op, account |-> a, row |-> accounts[a],
                    good |-> good]
  <2>1. requester' = [requester EXCEPT ![r] = it] /\ it.step = "read" /\ it.account = a
        /\ UNCHANGED <<accounts, routes, lockOwner, startup, committed>>
        /\ startup # "booting"
    BY <1>2 DEF ReadAccount
  <2> HIDE DEF it
  <2>2. QED
    BY <2>1 DEF AccountsInv
<1>3. ASSUME NEW r \in Requesters, requester' = [requester EXCEPT ![r] = NoRequest],
             UNCHANGED <<accounts, routes, lockOwner, startup, committed>>
      PROVE  AccountsInv'
  BY <1>3 DEF AccountsInv, NoRequest
<1>4. ASSUME NEW r \in Requesters, StageRoute(r)
      PROVE  AccountsInv'
  <2> DEFINE it == requester[r]
             written == Staged(r)
             made == [step |-> "commits", op |-> it.op, account |-> it.account,
                      row |-> it.row, new |-> written, old |-> routes[it.account]]
  <2>1. /\ it.step = "read" /\ lockOwner = NoOwner /\ it.account \in AccountRows
        /\ UNCHANGED <<accounts, startup, committed>>
    BY <1>4 DEF StageRoute, AccountsInv
  <2>2. \/ /\ routes' = [routes EXCEPT ![it.account] =
                           IF written.status = "active" THEN written.version ELSE 0]
           /\ requester' = [requester EXCEPT ![r] = made]
           /\ lockOwner' = r
        \/ requester' = [requester EXCEPT ![r] = NoRequest] /\ UNCHANGED <<routes, lockOwner>>
    BY <1>4 DEF StageRoute, Fails
  <2>3. /\ made.step = "commits" /\ made.op = it.op /\ made.account = it.account
        /\ made.new = written /\ made.old = routes[it.account]
    OBVIOUS
  <2>4. it.op = "delete" => written.status # "active"
    BY DEF Staged
  <2> HIDE DEF it, written, made
  <2>5. CASE requester' = [requester EXCEPT ![r] = NoRequest] /\ UNCHANGED <<routes, lockOwner>>
    BY <1>3, <2>1, <2>5
  <2>6. CASE /\ routes' = [routes EXCEPT ![it.account] =
                             IF written.status = "active" THEN written.version ELSE 0]
             /\ requester' = [requester EXCEPT ![r] = made]
             /\ lockOwner' = r
    <3>1. /\ routes'[it.account] = IF written.status = "active" THEN written.version ELSE 0
          /\ \A a \in AccountRows \ {it.account} : routes'[a] = routes[a]
      BY <2>1, <2>6 DEF AccountsInv
    <3>2. \A a \in AccountRows : RouteOK(committed, a, routes[a])
      BY <2>1 DEF AccountsInv
    <3>3. CommitOK(routes', committed, made)
      BY <2>1, <2>3, <2>4, <3>1, <3>2 DEF CommitOK
    <3>4. \A q \in Requesters : requester[q].step # "commits"
      BY <2>1 DEF AccountsInv
    <3>5. requester'[r] = made /\ \A q \in Requesters \ {r} : requester'[q] = requester[q]
      BY <2>6 DEF AccountsInv
    <3>6. startup # "booting"
      BY <1>4 DEF AccountsInv, StageRoute
    <3>7. \A q \in Requesters : requester'[q].step = "commits" =>
            lockOwner' = q /\ CommitOK(routes', committed', requester'[q])
      BY <2>1, <2>6, <3>3, <3>4, <3>5
    <3>8. \A q \in Requesters : requester'[q].step \in {"read", "quarantines", "syncs"} =>
            requester'[q].account \in AccountRows
      BY <2>3, <3>5 DEF AccountsInv
    <3>9. QED
      BY <2>1, <2>6, <3>6, <3>7, <3>8 DEF AccountsInv
  <2>7. QED
    BY <2>2, <2>5, <2>6
\* The lock is given back by a request that is idle or has no commit to make.
<1>5. ASSUME NEW r \in Requesters, NEW rest, lockOwner' = NoOwner,
             requester' = [requester EXCEPT ![r] = rest],
             \/ rest.step = "idle"
             \/ rest.step \in {"syncs", "quarantines"} /\ rest.account \in AccountRows,
             \A q \in Requesters \ {r} : requester[q].step # "commits",
             DOMAIN accounts' = AccountRows, DOMAIN routes' = AccountRows,
             \A a \in AccountRows : accounts'[a].status = "active" =>
               <<a, accounts'[a].version>> \in committed',
             \A a \in AccountRows : RouteOK(committed', a, routes'[a]),
             startup' = startup, startup # "booting"
      PROVE  AccountsInv'
  <2>1. requester'[r] = rest /\ \A q \in Requesters \ {r} : requester'[q] = requester[q]
    BY <1>5 DEF AccountsInv
  <2>2. \A q \in Requesters : requester'[q].step # "commits"
    BY <1>5, <2>1
  <2>3. \A q \in Requesters : requester'[q].step \in {"read", "quarantines", "syncs"} =>
          requester'[q].account \in AccountRows
    BY <1>5, <2>1 DEF AccountsInv
  <2>4. QED
    BY <1>5, <2>2, <2>3 DEF AccountsInv
<1>6. ASSUME NEW r \in Requesters, requester[r].step = "commits"
      PROVE  /\ CommitOK(routes, committed, requester[r])
             /\ \A q \in Requesters \ {r} : requester[q].step # "commits"
             /\ startup # "booting"
  BY <1>6 DEF AccountsInv
<1>7. ASSUME NEW r \in Requesters, lockOwner = NoOwner, requester[r].step # "idle"
      PROVE  /\ \A q \in Requesters : requester[q].step # "commits"
             /\ startup # "booting"
  BY <1>7 DEF AccountsInv
<1>8. ASSUME NEW r \in Requesters, CommitAccount(r)
      PROVE  AccountsInv'
  <2> DEFINE it == requester[r]
             next == IF accounts'[it.account].status = "active"
                     THEN [step |-> "syncs", op |-> it.op, account |-> it.account]
                     ELSE NoRequest
  <2>1. it.step = "commits" /\ requester' = [requester EXCEPT ![r] = next]
        /\ lockOwner' = NoOwner /\ routes' = routes /\ startup' = startup
    BY <1>8 DEF CommitAccount
  <2>2. CommitOK(routes, committed, it) /\ it.account \in AccountRows
    BY <1>6, <2>1 DEF CommitOK
  <2>3. \/ next.step = "idle"
        \/ next.step \in {"syncs", "quarantines"} /\ next.account \in AccountRows
    BY <2>2 DEF NoRequest
  <2>4. accounts' = [accounts EXCEPT ![it.account] =
                       IF it.op = "delete" THEN NoRow ELSE Updated(it)]
        /\ committed' = IF it.op = "delete" THEN committed
                        ELSE committed \cup {<<it.account, it.new.version>>}
    BY <1>8 DEF CommitAccount
  <2>5. Updated(it).version = it.new.version /\ NoRow.status # "active"
    BY DEF Updated, NoRow
  <2> HIDE DEF it, next
  <2>6. \A a \in AccountRows : accounts'[a].status = "active" =>
          <<a, accounts'[a].version>> \in committed'
    BY <2>2, <2>4, <2>5 DEF AccountsInv
  <2>7. \A a \in AccountRows : RouteOK(committed', a, routes'[a])
    BY <2>1, <2>2, <2>4 DEF CommitOK, RouteOK
  <2>8. DOMAIN accounts' = AccountRows /\ DOMAIN routes' = AccountRows
    BY <2>1, <2>4 DEF AccountsInv
  <2>9. (\A q \in Requesters \ {r} : requester[q].step # "commits") /\ startup # "booting"
    BY <1>6, <2>1 DEF it
  <2>10. QED
    BY <1>5, <2>1, <2>3, <2>6, <2>7, <2>8, <2>9
<1>9. NoRequest.step = "idle"
  BY DEF NoRequest
<1>10. ASSUME NEW r \in Requesters, CommitFails(r)
       PROVE  AccountsInv'
  <2> DEFINE it == requester[r]
  <2>1. it.step = "commits" /\ requester' = [requester EXCEPT ![r] = NoRequest]
        /\ lockOwner' = NoOwner /\ UNCHANGED <<accounts, startup, committed>>
        /\ routes' = [routes EXCEPT ![it.account] = it.old]
    BY <1>10 DEF CommitFails, Fails, Restored
  <2>2. CommitOK(routes, committed, it)
    BY <1>6, <2>1
  <2>3. (\A q \in Requesters \ {r} : requester[q].step # "commits") /\ startup # "booting"
    BY <1>6, <2>1
  <2> HIDE DEF it
  <2>4. \A a \in AccountRows : RouteOK(committed', a, routes'[a])
    BY <2>1, <2>2 DEF CommitOK, AccountsInv
  <2>5. DOMAIN accounts' = AccountRows /\ DOMAIN routes' = AccountRows
    BY <2>1 DEF AccountsInv
  <2>6. \A a \in AccountRows : accounts'[a].status = "active" =>
          <<a, accounts'[a].version>> \in committed'
    BY <2>1 DEF AccountsInv
  <2>7. QED
    BY <1>5, <1>9, <2>1, <2>3, <2>4, <2>5, <2>6
<1>11. ASSUME NEW r \in Requesters, SyncRoutes(r)
       PROVE  AccountsInv'
  <2> DEFINE it == requester[r]
             refusal == [step |-> "quarantines", op |-> it.op, account |-> it.account]
  <2>1. it.step = "syncs" /\ lockOwner = NoOwner /\ routes' = Provisioned
        /\ UNCHANGED <<accounts, lockOwner, startup, committed>>
    BY <1>11 DEF SyncRoutes
  <2>2. \/ requester' = [requester EXCEPT ![r] = refusal]
        \/ requester' = [requester EXCEPT ![r] = NoRequest]
    BY <1>11 DEF SyncRoutes
  <2>3. refusal.step = "quarantines" /\ refusal.account \in AccountRows
    BY <2>1 DEF AccountsInv
  <2>4. (\A q \in Requesters : requester[q].step # "commits") /\ startup # "booting"
    BY <1>7, <2>1
  <2> HIDE DEF it, refusal
  <2>5. \A a \in AccountRows : accounts'[a].status = "active" =>
          <<a, accounts'[a].version>> \in committed'
    BY <2>1 DEF AccountsInv
  <2>6. DOMAIN accounts' = AccountRows /\ DOMAIN routes' = AccountRows
        /\ \A a \in AccountRows : RouteOK(committed', a, routes'[a])
    BY <2>1, ProvisionedOK DEF AccountsInv
  <2>7. QED
    BY <1>5, <1>9, <2>1, <2>2, <2>3, <2>4, <2>5, <2>6
<1>12. ASSUME NEW r \in Requesters, Quarantine(r)
       PROVE  AccountsInv'
  <2> DEFINE a == requester[r].account
  <2>1. requester[r].step = "quarantines" /\ lockOwner = NoOwner
        /\ routes' = [routes EXCEPT ![a] = 0]
        /\ requester' = [requester EXCEPT ![r] = NoRequest]
        /\ UNCHANGED <<lockOwner, startup>>
    BY <1>12 DEF Quarantine, Fails
  <2>2. a \in AccountRows
    BY <2>1 DEF AccountsInv
  <2>3. \/ /\ accounts' = [accounts EXCEPT ![a].status = "disabled",
                                           ![a].version = NextVersion]
           /\ committed' = committed \cup {<<a, NextVersion>>}
        \/ UNCHANGED <<accounts, committed>>
    BY <1>12 DEF Quarantine
  <2>4. (\A q \in Requesters : requester[q].step # "commits") /\ startup # "booting"
    BY <1>7, <2>1
  <2> HIDE DEF a
  <2>5. ASSUME NEW b \in AccountRows, accounts'[b].status = "active"
        PROVE  <<b, accounts'[b].version>> \in committed'
    <3>1. CASE UNCHANGED <<accounts, committed>>
      BY <2>5, <3>1 DEF AccountsInv
    <3>2. CASE /\ accounts' = [accounts EXCEPT ![a].status = "disabled",
                                               ![a].version = NextVersion]
               /\ committed' = committed \cup {<<a, NextVersion>>}
      <4>1. b = a => accounts'[b].version = NextVersion \/ accounts'[b] = accounts[b]
        BY <3>2 DEF AccountsInv
      <4>2. b # a => accounts'[b] = accounts[b]
        BY <3>2 DEF AccountsInv
      <4>3. QED
        BY <2>5, <3>2, <4>1, <4>2 DEF AccountsInv
    <3>3. QED
      BY <2>3, <3>1, <3>2
  <2>6. committed \subseteq committed'
    BY <2>3
  <2>7. \A b \in AccountRows : RouteOK(committed', b, routes'[b])
    BY <2>1, <2>6 DEF AccountsInv, RouteOK
  <2>8. DOMAIN accounts' = AccountRows /\ DOMAIN routes' = AccountRows
    BY <2>1, <2>3 DEF AccountsInv
  <2>9. lockOwner' = NoOwner /\ startup' = startup
    BY <2>1
  <2>10. QED
    BY <1>5, <1>9, <2>1, <2>4, <2>5, <2>7, <2>8, <2>9
<1>13. CASE UNCHANGED accountVars
  BY <1>13 DEF accountVars, AccountsInv
<1>14. QED
  BY <1>1, <1>2, <1>4, <1>8, <1>10, <1>11, <1>12, <1>13 DEF AccountsNext

\* Whenever no request is between its route and its commit, each route was built from a
\* committed version of its own row, for any number of accounts and of requests that
\* overlap or fail (_create_, _update_ and _delete_account_with_route_fence).
THEOREM RoutesAreCommittedCorrect == AccountsSpec => []RoutesAreCommitted
<1>1. AccountsInv => RoutesAreCommitted
  BY DEF AccountsInv, RoutesAreCommitted, RouteOK
<1>2. QED
  BY <1>1, AccountsInvInit, AccountsInvStep, PTL DEF AccountsSpec

HIDE AccountsAssumption

-----------------------------------------------------------------------------
(* Reconciliation checks.                                                   *)

USE ReconciliationChecksAssumption

BookStates == [CheckedOrders -> BookRow]

\* The positions that books make.
Nets == {0} \cup {Positions(book) : book \in BookStates}

CheckOf == [at : {"idle", "orders", "positions", "record", "clear", "ended", "admitted"},
            local : BookStates, orders : BookStates, net : Nets, ok : BOOLEAN]

\* The process knows every order that was seen, and every fill of them.
Known(seen, now) ==
  \A o \in CheckedOrders :
    /\ seen[o].status # "ABSENT" => now[o].status # "ABSENT"
    /\ seen[o].filled <= now[o].filled

\* A snapshot that was found without drift: its orders are known, and are the position.
Verified(orders, net, now) == Known(orders, now) /\ Positions(orders) = net

CheckOK(check, now) ==
  /\ check.at \in {"orders", "positions"} => Known(check.local, now)
  /\ check.at \in {"record", "clear"} /\ check.ok => Verified(check.orders, check.net, now)
  /\ check.at = "clear" => check.ok

ChecksInv ==
  /\ localBook \in BookStates /\ brokerBook \in BookStates
  /\ \A o \in CheckedOrders : localBook[o].filled <= brokerBook[o].filled
  /\ checks \in [1..MaxChecks -> CheckOf]
  /\ \A k \in 1..MaxChecks : CheckOK(checks[k], localBook)
  /\ cleared \in [known : BOOLEAN, orders : BookStates, net : Nets]
  /\ cleared.known => Verified(cleared.orders, cleared.net, localBook)
  /\ admission \in CheckOf
  /\ admission.at = "admitted" => Verified(admission.orders, admission.net, localBook)

LEMMA EmptyBookOK == Absent \in BookRow /\ EmptyBook \in BookStates
  BY DEF Absent, EmptyBook, BookStates, BookRow

LEMMA IdleChecksOK ==
  /\ IdleCheck \in CheckOf /\ EndedCheck \in CheckOf
  /\ [IdleCheck EXCEPT !.at = "record"] \in CheckOf
  /\ [IdleCheck EXCEPT !.at = "record"].ok = FALSE
  /\ [IdleCheck EXCEPT !.at = "record"].at = "record"
  /\ IdleCheck.at = "idle" /\ EndedCheck.at = "ended" /\ IdleCheck.ok = FALSE
  BY EmptyBookOK DEF IdleCheck, EndedCheck, CheckOf, Nets

LEMMA ChecksInvInit == ChecksInit => ChecksInv
<1> SUFFICES ASSUME ChecksInit PROVE ChecksInv
  OBVIOUS
<1>1. \A k \in 1..MaxChecks : checks[k] = IdleCheck /\ CheckOK(checks[k], localBook)
  BY IdleChecksOK DEF ChecksInit, CheckOK
<1>2. cleared.known = FALSE /\ cleared \in [known : BOOLEAN, orders : BookStates, net : Nets]
  BY EmptyBookOK DEF ChecksInit, NothingCleared, Nets
<1>3. localBook \in BookStates /\ \A o \in CheckedOrders : localBook[o] = brokerBook[o]
  BY EmptyBookOK DEF ChecksInit
<1>4. \A o \in CheckedOrders : localBook[o].filled <= brokerBook[o].filled
  BY <1>3 DEF BookStates, BookRow
<1>5. QED
  BY <1>1, <1>2, <1>3, <1>4, IdleChecksOK DEF ChecksInit, ChecksInv

\* The orders a check agreed on make the same position in both books.
LEMMA AgreedPositions ==
  ASSUME NEW local \in BookStates, NEW orders \in BookStates, OrdersAgree(local, orders)
  PROVE  Positions(local) = Positions(orders)
<1>1. [o \in CheckedOrders |-> CheckedSide[o] * local[o].filled] =
      [o \in CheckedOrders |-> CheckedSide[o] * orders[o].filled]
  BY DEF OrdersAgree
<1>2. QED
  BY <1>1 DEF Positions

\* What is known stays known while the local book only gains orders and fills.
LEMMA KnownStays ==
  ASSUME NEW seen \in BookStates, NEW now \in BookStates, NEW later \in BookStates,
         Known(seen, now), Known(now, later)
  PROVE  Known(seen, later)
  BY DEF Known, BookStates, BookRow

LEMMA CheckStays ==
  ASSUME NEW now \in BookStates, NEW later \in BookStates, Known(now, later)
  PROVE  \A check \in CheckOf : CheckOK(check, now) => CheckOK(check, later)
<1> SUFFICES ASSUME NEW check \in CheckOf, CheckOK(check, now) PROVE CheckOK(check, later)
  OBVIOUS
<1>1. check.local \in BookStates /\ check.orders \in BookStates
  BY DEF CheckOf
<1>2. check.at \in {"orders", "positions"} => Known(check.local, later)
  BY <1>1, KnownStays DEF CheckOK
<1>3. check.at \in {"record", "clear"} /\ check.ok => Verified(check.orders, check.net, later)
  BY <1>1, KnownStays DEF CheckOK, Verified
<1>4. QED
  BY <1>2, <1>3 DEF CheckOK

LEMMA ChecksInvStep == ChecksInv /\ [ChecksNext]_checkVars => ChecksInv'
<1> SUFFICES ASSUME ChecksInv, [ChecksNext]_checkVars PROVE ChecksInv'
  OBVIOUS
<1> USE IdleChecksOK
\* Steps of the books: the local one gains, and the checks stand still.
<1>1. ASSUME localBook' \in BookStates, brokerBook' \in BookStates, Known(localBook, localBook'),
             \A o \in CheckedOrders : localBook'[o].filled <= brokerBook'[o].filled,
             UNCHANGED <<checks, cleared, admission>>
      PROVE  ChecksInv'
  <2>1. \A k \in 1..MaxChecks : CheckOK(checks[k], localBook')
    BY <1>1, CheckStays DEF ChecksInv
  <2>2. cleared.known => Verified(cleared.orders, cleared.net, localBook')
    <3>1. cleared.orders \in BookStates
      BY DEF ChecksInv
    <3>2. QED
      BY <1>1, <3>1, KnownStays DEF ChecksInv, Verified
  <2>3. admission.at = "admitted" => Verified(admission.orders, admission.net, localBook')
    <3>1. admission.orders \in BookStates
      BY DEF ChecksInv, CheckOf
    <3>2. QED
      BY <1>1, <3>1, KnownStays DEF ChecksInv, Verified
  <2>4. QED
    BY <1>1, <2>1, <2>2, <2>3 DEF ChecksInv
<1>2. \A o \in CheckedOrders : localBook[o] \in BookRow /\ brokerBook[o] \in BookRow
  BY DEF ChecksInv, BookStates
<1>3. ASSUME NEW o \in CheckedOrders, NEW entry \in BookRow,
             brokerBook' = [brokerBook EXCEPT ![o] = entry], entry.filled >= brokerBook[o].filled,
             UNCHANGED <<localBook, checks, cleared, admission>>
      PROVE  ChecksInv'
  <2>1. brokerBook' \in BookStates
    BY <1>3 DEF ChecksInv, BookStates
  <2>2. Known(localBook, localBook')
    BY <1>2, <1>3 DEF Known, BookRow
  <2>3. \A q \in CheckedOrders : localBook'[q].filled <= brokerBook'[q].filled
    BY <1>2, <1>3 DEF ChecksInv, BookStates, BookRow
  <2>4. QED
    BY <1>1, <1>3, <2>1, <2>2, <2>3 DEF ChecksInv
<1>4. ASSUME NEW o \in CheckedOrders, NEW entry \in BookRow,
             localBook' = [localBook EXCEPT ![o] = entry], entry.status # "ABSENT",
             localBook[o].filled <= entry.filled, entry.filled <= brokerBook[o].filled,
             UNCHANGED <<brokerBook, checks, cleared, admission>>
      PROVE  ChecksInv'
  <2>1. localBook' \in BookStates
    BY <1>4 DEF ChecksInv, BookStates
  <2>2. Known(localBook, localBook')
    BY <1>2, <1>4 DEF Known, BookRow, ChecksInv, BookStates
  <2>3. \A q \in CheckedOrders : localBook'[q].filled <= brokerBook'[q].filled
    BY <1>2, <1>4 DEF ChecksInv, BookStates, BookRow
  <2>4. QED
    BY <1>1, <1>4, <2>1, <2>2, <2>3 DEF ChecksInv
<1>5. ASSUME NEW o \in CheckedOrders,
             PlaceOwn(o) \/ BrokerTakes(o) \/ BrokerFills(o) \/ BrokerCancels(o) \/ LearnOrder(o)
      PROVE  ChecksInv'
  <2>1. CASE PlaceOwn(o)
    <3> DEFINE entry == [localBook[o] EXCEPT !.status = "SUBMITTED"]
    <3>1. entry \in BookRow /\ entry.status = "SUBMITTED" /\ entry.filled = localBook[o].filled
      BY <1>2 DEF BookRow, OpenStatuses
    <3>2. localBook' = [localBook EXCEPT ![o] = entry] /\ UNCHANGED <<brokerBook, checks, cleared, admission>>
      BY <2>1 DEF PlaceOwn
    <3> HIDE DEF entry
    <3>3. localBook[o].filled <= entry.filled /\ entry.filled <= brokerBook[o].filled
      BY <1>2, <3>1 DEF ChecksInv, BookRow
    <3>4. QED
      BY <1>4, <3>1, <3>2, <3>3
  <2>2. CASE BrokerTakes(o) \/ BrokerCancels(o)
    <3> DEFINE entry(s) == [brokerBook[o] EXCEPT !.status = s]
    <3>1. \A s \in {"SUBMITTED", "CANCELLED"} :
            entry(s) \in BookRow /\ entry(s).filled >= brokerBook[o].filled
      BY <1>2 DEF BookRow, OpenStatuses, DoneStatuses
    <3>2. PICK s \in {"SUBMITTED", "CANCELLED"} : brokerBook' = [brokerBook EXCEPT ![o] = entry(s)]
      BY <2>2 DEF BrokerTakes, BrokerCancels
    <3>3. UNCHANGED <<localBook, checks, cleared, admission>>
      BY <2>2 DEF BrokerTakes, BrokerCancels
    <3> HIDE DEF entry
    <3>4. QED
      BY <1>3, <3>1, <3>2, <3>3
  <2>3. CASE BrokerFills(o)
    <3> DEFINE entry == [status |-> IF brokerBook[o].filled + 1 = CheckedSize[o] THEN "FILLED"
                                  ELSE "PARTIALLY_FILLED",
                       filled |-> brokerBook[o].filled + 1]
    <3>1. entry \in BookRow /\ entry.filled >= brokerBook[o].filled
      BY <1>2 DEF BookRow, OpenStatuses, DoneStatuses
    <3>2. brokerBook' = [brokerBook EXCEPT ![o] = entry] /\ UNCHANGED <<localBook, checks, cleared, admission>>
      BY <2>3 DEF BrokerFills
    <3> HIDE DEF entry
    <3>3. QED
      BY <1>3, <3>1, <3>2
  <2>4. CASE LearnOrder(o)
    <3>1. localBook' = [localBook EXCEPT ![o] = brokerBook[o]]
          /\ UNCHANGED <<brokerBook, checks, cleared, admission>> /\ brokerBook[o].status # "ABSENT"
      BY <2>4 DEF LearnOrder, Shown
    <3>2. brokerBook[o] \in BookRow /\ brokerBook[o].filled <= brokerBook[o].filled
          /\ localBook[o].filled <= brokerBook[o].filled
      BY <1>2 DEF BookRow, ChecksInv
    <3>3. QED
      BY <1>4, <3>1, <3>2
  <2>5. QED
    BY <1>5, <2>1, <2>2, <2>3, <2>4
\* A step of one check.
<1>6. ASSUME NEW k \in 1..MaxChecks, NEW check \in CheckOf, Step(k, check),
             CheckOK(check, localBook), UNCHANGED <<localBook, brokerBook, cleared, admission>>
      PROVE  ChecksInv'
  BY <1>6 DEF Step, ChecksInv
<1>7. \A k \in 1..MaxChecks : checks[k] \in CheckOf /\ CheckOK(checks[k], localBook)
  BY DEF ChecksInv
<1>8. CheckOK(EndedCheck, localBook)
  BY DEF CheckOK
<1>9. ASSUME NEW k \in 1..MaxChecks, BeginCheck(k) \/ ReadOrders(k)
      PROVE  ChecksInv'
  <2>1. UNCHANGED <<localBook, brokerBook, cleared, admission>>
    BY <1>9 DEF BeginCheck, ReadOrders
  <2>2. CASE BeginCheck(k)
    <3> DEFINE check == [IdleCheck EXCEPT !.at = "orders", !.local = localBook]
    <3>1. check \in CheckOf /\ check.at = "orders" /\ check.local = localBook
      BY DEF CheckOf, ChecksInv
    <3>2. Step(k, check)
      BY <2>2 DEF BeginCheck
    <3> HIDE DEF check
    <3>3. CheckOK(check, localBook)
      BY <1>2, <3>1 DEF CheckOK, Known, BookRow
    <3>4. QED
      BY <1>6, <2>1, <3>1, <3>2, <3>3
  <2>3. CASE ReadOrders(k)
    <3> DEFINE check == [checks[k] EXCEPT !.at = "positions", !.orders = brokerBook]
    <3>1. check \in CheckOf /\ check.at = "positions" /\ check.local = checks[k].local
      BY <1>7 DEF CheckOf, ChecksInv
    <3>2. Step(k, check) /\ checks[k].at = "orders"
      BY <2>3 DEF ReadOrders
    <3> HIDE DEF check
    <3>3. CheckOK(check, localBook)
      BY <1>7, <3>1, <3>2 DEF CheckOK
    <3>4. QED
      BY <1>6, <2>1, <3>1, <3>2, <3>3
  <2>4. QED
    BY <1>9, <2>2, <2>3
<1>10. ASSUME NEW k \in 1..MaxChecks, ReadPositions(k)
       PROVE  ChecksInv'
  <2> DEFINE c == checks[k]
             net == Positions(brokerBook)
             good == [c EXCEPT !.at = "record", !.ok = TRUE, !.net = net, !.local = EmptyBook]
             drift == [IdleCheck EXCEPT !.at = "record"]
  <2>1. c.at = "positions" /\ UNCHANGED <<localBook, brokerBook, cleared, admission>>
    BY <1>10 DEF ReadPositions
  <2>2. (FindsNoDrift(c, net) /\ Step(k, good)) \/ Step(k, drift)
    BY <1>10 DEF ReadPositions
  <2>3. c \in CheckOf /\ CheckOK(c, localBook)
    BY <1>7
  <2>4. net \in Nets
    BY DEF Nets, ChecksInv
  <2>5. good \in CheckOf /\ good.orders = c.orders /\ good.net = net /\ good.at = "record"
    BY <2>3, <2>4, EmptyBookOK DEF CheckOf
  <2>6. CheckOK(drift, localBook) /\ drift \in CheckOf
    BY DEF CheckOK
  <2> HIDE DEF net, good, drift
  <2>7. ASSUME FindsNoDrift(c, net)
        PROVE  CheckOK(good, localBook)
    <3>1. OrdersAgree(c.local, c.orders) /\ Positions(c.local) = net
      BY <2>7 DEF FindsNoDrift, PositionsAgree
    <3>2. c.local \in BookStates /\ c.orders \in BookStates
      BY <2>3 DEF CheckOf
    <3>3. Positions(c.orders) = net
      BY <3>1, <3>2, AgreedPositions
    <3>4. Known(c.local, localBook)
      BY <2>1, <2>3 DEF CheckOK
    <3>5. Known(c.orders, localBook)
      BY <3>1, <3>4 DEF Known, OrdersAgree
    <3>6. QED
      BY <2>5, <3>3, <3>5 DEF CheckOK, Verified
  <2>8. QED
    BY <1>6, <2>1, <2>2, <2>5, <2>6, <2>7
<1>11. ASSUME NEW k \in 1..MaxChecks, RecordCheck(k) \/ AbandonCheck(k)
       PROVE  ChecksInv'
  <2> DEFINE check == [checks[k] EXCEPT !.at = "clear"]
  <2>1. UNCHANGED <<localBook, brokerBook, cleared, admission>>
    BY <1>11 DEF RecordCheck, AbandonCheck
  <2>2. check \in CheckOf /\ check.at = "clear" /\ check.ok = checks[k].ok
        /\ check.orders = checks[k].orders /\ check.net = checks[k].net
    BY <1>7 DEF CheckOf
  <2>3. \/ checks[k].at = "record" /\ checks[k].ok /\ Step(k, check)
        \/ Step(k, EndedCheck)
    BY <1>11 DEF RecordCheck, AbandonCheck
  <2> HIDE DEF check
  <2>4. checks[k].at = "record" /\ checks[k].ok => CheckOK(check, localBook)
    BY <1>7, <2>2 DEF CheckOK
  <2>5. QED
    BY <1>6, <1>8, <2>1, <2>2, <2>3, <2>4
<1>12. ASSUME NEW k \in 1..MaxChecks, ClearWith(k)
       PROVE  ChecksInv'
  <2>1. /\ checks[k].at = "clear" /\ checks' = [checks EXCEPT ![k] = EndedCheck]
        /\ cleared' = [known |-> TRUE, orders |-> checks[k].orders, net |-> checks[k].net]
        /\ UNCHANGED <<localBook, brokerBook, admission>>
    BY <1>12 DEF ClearWith, Step
  <2>2. Verified(checks[k].orders, checks[k].net, localBook)
    BY <1>7, <2>1 DEF CheckOK
  <2>3. checks[k].orders \in BookStates /\ checks[k].net \in Nets
    BY <1>7 DEF CheckOf
  <2>4. checks' \in [1..MaxChecks -> CheckOf] /\ \A j \in 1..MaxChecks : CheckOK(checks'[j], localBook)
    BY <1>8, <2>1 DEF ChecksInv
  <2>5. QED
    BY <2>1, <2>2, <2>3, <2>4 DEF ChecksInv
<1>13. CASE BeginEntry \/ AdmitEntry \/ EndEntry
  <2>1. UNCHANGED <<localBook, brokerBook, checks, cleared>>
    BY <1>13 DEF BeginEntry, AdmitEntry, EndEntry
  <2>2. CASE BeginEntry
    <3>1. admission' \in CheckOf /\ admission'.at = "positions"
      BY <2>2 DEF BeginEntry, CheckOf, ChecksInv
    <3>2. QED
      BY <2>1, <3>1 DEF ChecksInv
  <2>3. CASE AdmitEntry
    <3>1. Positions(brokerBook) \in Nets
      BY DEF ChecksInv, Nets
    <3>2. admission' = [admission EXCEPT !.at = "admitted", !.net = Positions(brokerBook)]
      BY <2>3 DEF AdmitEntry
    <3>3. /\ admission' \in CheckOf /\ admission'.orders = admission.orders
          /\ admission'.net = Positions(brokerBook)
      BY <3>1, <3>2 DEF CheckOf, ChecksInv
    <3>4. cleared = [known |-> TRUE, orders |-> admission.orders, net |-> Positions(brokerBook)]
      BY <2>3 DEF AdmitEntry, ExecutionReady
    <3>5. Verified(admission'.orders, admission'.net, localBook)
      BY <3>3, <3>4 DEF ChecksInv
    <3>6. QED
      BY <2>1, <3>3, <3>5 DEF ChecksInv
  <2>4. CASE EndEntry
    BY <2>1, <2>4 DEF EndEntry, ChecksInv
  <2>5. QED
    BY <1>13, <2>2, <2>3, <2>4
<1>14. CASE UNCHANGED checkVars
  <2>1. UNCHANGED <<localBook, brokerBook, checks, cleared, admission>>
    BY <1>14 DEF checkVars
  <2>2. QED
    BY <2>1 DEF ChecksInv
<1>15. QED
  BY <1>5, <1>9, <1>10, <1>11, <1>12, <1>13, <1>14 DEF ChecksNext

\* What the engine calls agreement every other comparison does, whatever the books.
LEMMA ComparisonsAgree ==
  ASSUME NEW local \in BookStates, NEW orders \in BookStates, NEW net,
         OrdersAgree(local, orders), PositionsAgree(local, net)
  PROVE  /\ StatesAgree(local, orders, net)
         /\ NoIssues(local, orders)
         /\ OpenStatesAgree(local, orders, net)
<1>1. \A o \in CheckedOrders : local[o] \in BookRow /\ orders[o] \in BookRow
  BY DEF BookStates
<1>2. Shown(local) = Shown(orders) /\ OpenIn(local) = OpenIn(orders)
  BY DEF OrdersAgree, Shown, OpenIn
<1>3. StatesAgree(local, orders, net)
  <2> DEFINE owned == {o \in Shown(local) : local[o].status # "CANCELLED"}
  <2>1. owned \subseteq Shown(orders)
    BY <1>2
  <2>2. ASSUME NEW o \in Shown(orders) \ owned
        PROVE  orders[o].status \in DoneStatuses
    <3>1. o \in Shown(local) /\ local[o].status = "CANCELLED"
      BY <1>2
    <3>2. o \in CheckedOrders
      BY <3>1 DEF Shown
    <3>3. QED
      BY <3>1, <3>2 DEF OrdersAgree, DoneStatuses
  <2>3. QED
    BY <2>1, <2>2 DEF StatesAgree
<1>4. NoIssues(local, orders)
  <2>1. ASSUME NEW o \in Shown(local)
        PROVE  /\ Advances(local[o].status, orders[o].status)
               /\ local[o].filled = orders[o].filled /\ local[o].status = orders[o].status
    <3>1. /\ local[o].filled = orders[o].filled /\ local[o].status = orders[o].status
          /\ o \in CheckedOrders
      BY <2>1 DEF OrdersAgree, Shown
    <3>2. QED
      BY <3>1 DEF Advances, OpenStatuses, DoneStatuses
  <2>2. QED
    BY <1>2, <2>1 DEF NoIssues
<1>5. QED
  BY <1>2, <1>3, <1>4 DEF OpenStatesAgree

\* None of them takes a live order at the broker for one the process does not know.
LEMMA LiveOrdersAreKnown ==
  ASSUME NEW local \in BookStates, NEW orders \in BookStates, NEW net, NEW o \in OpenIn(orders),
         StatesAgree(local, orders, net) \/ NoIssues(local, orders)
           \/ OpenStatesAgree(local, orders, net)
  PROVE  local[o].status \in OpenStatuses \cup {"FILLED"}
<1>1. o \in CheckedOrders /\ orders[o].status \in OpenStatuses /\ o \in Shown(orders)
  BY DEF OpenIn, Shown, OpenStatuses
<1>2. local[o] \in BookRow
  BY <1>1 DEF BookStates
<1>3. CASE StatesAgree(local, orders, net)
  <2> DEFINE owned == {q \in Shown(local) : local[q].status # "CANCELLED"}
  <2>1. \A q \in Shown(orders) \ owned : orders[q].status \in DoneStatuses
    BY <1>3 DEF StatesAgree
  <2>2. o \in owned
    BY <1>1, <2>1 DEF OpenStatuses, DoneStatuses
  <2>3. QED
    BY <1>2, <2>2 DEF Shown, BookRow, OpenStatuses, DoneStatuses
<1>4. CASE NoIssues(local, orders)
  BY <1>1, <1>4 DEF NoIssues
<1>5. CASE OpenStatesAgree(local, orders, net)
  BY <1>5 DEF OpenStatesAgree, OpenIn
<1>6. QED
  BY <1>3, <1>4, <1>5

\* An order is let through only while the process knows every order the broker showed and
\* every fill of them, and the positions are theirs; and every comparison calls agreed what
\* the engine does, and no live order that is unknown (ReconciliationEngine.check,
\* broker_router.py _require_execution_ready).
THEOREM TradesOnWhatItKnowsCorrect == ChecksSpec => []TradesOnWhatItKnows
<1>1. ASSUME ChecksInv
      PROVE  TradesOnWhatItKnows
  <2>1. ASSUME admission.at = "admitted"
        PROVE  /\ Shown(admission.orders) \subseteq Shown(localBook)
               /\ \A o \in CheckedOrders : admission.orders[o].filled <= localBook[o].filled
               /\ Positions(admission.orders) = admission.net
    BY <1>1, <2>1 DEF ChecksInv, Verified, Known, Shown
  <2>2. ASSUME NEW k \in 1..MaxChecks
        PROVE  LET c == checks[k]
                   net == Positions(brokerBook)
                   others == {StatesAgree(c.local, c.orders, net), NoIssues(c.local, c.orders),
                              OpenStatesAgree(c.local, c.orders, net)} IN
               c.at = "positions" =>
                 /\ FindsNoDrift(c, net) => others = {TRUE}
                 /\ TRUE \in others =>
                      \A o \in OpenIn(c.orders) : c.local[o].status \in OpenStatuses \cup {"FILLED"}
    <3> DEFINE c == checks[k]
               net == Positions(brokerBook)
               s == StatesAgree(c.local, c.orders, net)
               i == NoIssues(c.local, c.orders)
               p == OpenStatesAgree(c.local, c.orders, net)
    <3>1. c.local \in BookStates /\ c.orders \in BookStates
      BY <1>1 DEF ChecksInv, CheckOf
    <3>2. s \in BOOLEAN /\ i \in BOOLEAN /\ p \in BOOLEAN
      BY DEF StatesAgree, NoIssues, OpenStatesAgree
    <3>3. FindsNoDrift(c, net) => s /\ i /\ p
      BY <3>1, ComparisonsAgree DEF FindsNoDrift
    <3>4. s \/ i \/ p => \A o \in OpenIn(c.orders) : c.local[o].status \in OpenStatuses \cup {"FILLED"}
      BY <3>1, LiveOrdersAreKnown
    <3> HIDE DEF s, i, p, net, c
    <3>5. FindsNoDrift(c, net) => {s, i, p} = {TRUE}
      BY <3>2, <3>3
    <3>6. TRUE \in {s, i, p} => s \/ i \/ p
      BY <3>2
    <3>7. QED
      BY <3>4, <3>5, <3>6 DEF s, i, p, net, c
  <2>3. QED
    BY <2>1, <2>2 DEF TradesOnWhatItKnows
<1>2. QED
  BY <1>1, ChecksInvInit, ChecksInvStep, PTL DEF ChecksSpec

\* Where the checks and an order are; what CheckOf allows to either is more.
CheckPlaces ==
  /\ \A k \in 1..MaxChecks : checks[k].at # "admitted"
  /\ checkRow \in {"UNKNOWN", "VERIFIED", "HALTED"}
  /\ admission.at \in {"idle", "positions", "admitted"}

LEMMA CheckPlacesStep ==
  ASSUME ChecksInv, CheckPlaces, [ChecksNext]_checkVars
  PROVE  CheckPlaces'
<1> USE IdleChecksOK
<1>1. \A k \in 1..MaxChecks : checks[k] \in CheckOf /\ checks = [j \in 1..MaxChecks |-> checks[j]]
  BY DEF ChecksInv
<1>2. ASSUME NEW k \in 1..MaxChecks, NEW check, check.at # "admitted", Step(k, check),
             UNCHANGED admission, checkRow' \in {"UNKNOWN", "VERIFIED", "HALTED"}
      PROVE  CheckPlaces'
  BY <1>1, <1>2 DEF Step, CheckPlaces
<1>3. CASE \E o \in CheckedOrders : \/ PlaceOwn(o) \/ BrokerTakes(o) \/ BrokerFills(o)
                                   \/ BrokerCancels(o) \/ LearnOrder(o)
  BY <1>3 DEF PlaceOwn, BrokerTakes, BrokerFills, BrokerCancels, LearnOrder, CheckPlaces
<1>4. ASSUME NEW k \in 1..MaxChecks, BeginCheck(k)
      PROVE  CheckPlaces'
  <2> DEFINE check == [IdleCheck EXCEPT !.at = "orders", !.local = localBook]
  <2>1. check.at = "orders"
    BY DEF CheckOf
  <2> HIDE DEF check
  <2>2. Step(k, check) /\ UNCHANGED <<admission, checkRow>>
    BY <1>4 DEF BeginCheck, check
  <2>3. QED
    BY <1>2, <2>1, <2>2 DEF CheckPlaces
<1>5. ASSUME NEW k \in 1..MaxChecks, ReadOrders(k)
      PROVE  CheckPlaces'
  <2> DEFINE check == [checks[k] EXCEPT !.at = "positions", !.orders = brokerBook]
  <2>1. check.at = "positions"
    BY <1>1 DEF CheckOf
  <2> HIDE DEF check
  <2>2. Step(k, check) /\ UNCHANGED <<admission, checkRow>>
    BY <1>5 DEF ReadOrders, check
  <2>3. QED
    BY <1>2, <2>1, <2>2 DEF CheckPlaces
<1>6. ASSUME NEW k \in 1..MaxChecks, ReadPositions(k)
      PROVE  CheckPlaces'
  <2> DEFINE good == [checks[k] EXCEPT !.at = "record", !.ok = TRUE,
                                       !.net = Positions(brokerBook), !.local = EmptyBook]
             bad == [IdleCheck EXCEPT !.at = "record"]
  <2>1. good.at = "record" /\ bad.at = "record"
    BY <1>1 DEF CheckOf
  <2> HIDE DEF good, bad
  <2>2. (Step(k, good) \/ Step(k, bad)) /\ UNCHANGED <<admission, checkRow>>
    BY <1>6 DEF ReadPositions, good, bad
  <2>3. QED
    BY <1>2, <2>1, <2>2 DEF CheckPlaces
<1>7. ASSUME NEW k \in 1..MaxChecks, RecordCheck(k)
      PROVE  CheckPlaces'
  <2> DEFINE check == [checks[k] EXCEPT !.at = "clear"]
  <2>1. check.at = "clear"
    BY <1>1 DEF CheckOf
  <2> HIDE DEF check
  <2>2. /\ Step(k, check) \/ Step(k, EndedCheck)
        /\ UNCHANGED admission /\ checkRow' \in {"VERIFIED", "HALTED"}
    BY <1>7 DEF RecordCheck, check
  <2>3. QED
    BY <1>2, <2>1, <2>2
<1>8. ASSUME NEW k \in 1..MaxChecks, ClearWith(k) \/ AbandonCheck(k)
      PROVE  CheckPlaces'
  <2>1. Step(k, EndedCheck) /\ UNCHANGED <<admission, checkRow>>
    BY <1>8 DEF ClearWith, AbandonCheck
  <2>2. QED
    BY <1>2, <2>1 DEF CheckPlaces
<1>9. CASE BeginEntry \/ AdmitEntry \/ EndEntry
  <2>1. admission \in CheckOf
    BY DEF ChecksInv
  <2>2. admission'.at \in {"idle", "positions", "admitted"} /\ UNCHANGED <<checks, checkRow>>
    BY <1>9, <2>1 DEF BeginEntry, AdmitEntry, EndEntry, CheckOf
  <2>3. QED
    BY <2>2 DEF CheckPlaces
<1>10. CASE UNCHANGED checkVars
  BY <1>10 DEF checkVars, CheckPlaces
<1>11. QED
  BY <1>3, <1>4, <1>5, <1>6, <1>7, <1>8, <1>9, <1>10 DEF ChecksNext

\* The books, the checks and the row of the last verdict keep their types, for any number
\* of orders and checks (reconciliation_state_store.py).
THEOREM ChecksTypeCorrect == ChecksSpec => []ChecksTypeOK
<1>1. ChecksInit => CheckPlaces
  BY IdleChecksOK DEF ChecksInit, CheckPlaces
<1>2. ChecksInv /\ CheckPlaces /\ [ChecksNext]_checkVars => CheckPlaces'
  BY CheckPlacesStep
<1>3. ChecksInv /\ CheckPlaces => ChecksTypeOK
  BY DEF ChecksInv, CheckPlaces, ChecksTypeOK, BookStates, CheckOf
<1>4. QED
  BY <1>1, <1>2, <1>3, ChecksInvInit, ChecksInvStep, PTL DEF ChecksSpec

HIDE ReconciliationChecksAssumption

-----------------------------------------------------------------------------
(* Broker reports.                                                          *)

USE ReportsAssumption

Words == {"FILLED", "TRANSIT", "PART_TRADED", "PENDING", "TRADED", "CANCELLED", "REJECTED",
          "EXPIRED", "PUT ORDER REQ RECEIVED", "OPEN PENDING", "CANCEL PENDING", "OPEN",
          "COMPLETE"}

\* What the words that end an order say of it.
WordTrue(w, state) ==
  /\ w \in {"FILLED", "COMPLETE", "TRADED"} => state = "filled"
  /\ w = "REJECTED" => state = "rejected"
  /\ w = "CANCELLED" => state \in {"cancelled", "expired"}
  /\ w = "EXPIRED" => state = "expired"

LastWords == {"FILLED", "COMPLETE", "TRADED", "REJECTED", "CANCELLED", "EXPIRED"}

\* An answer, however late, is true of the order: its word if that ends it, and fills that
\* the order has had; an answer that ends it and has the fills has all of them.
AnswerTrue(a, at) ==
  /\ a.word \in Words /\ a.filled \in 0..OrderQuantity /\ a.known \in BOOLEAN
  /\ WordTrue(a.word, at.state) /\ a.filled <= at.filled
  /\ a.known /\ a.word \in LastWords => a.filled = at.filled

\* How an order ended, of a status.
Ended(s, state) ==
  /\ s = "FILLED" => state = "filled"
  /\ s = "REJECTED" => state = "rejected"
  /\ s = "CANCELLED" => state \in {"cancelled", "expired"}
  /\ s = "EXPIRED" => state = "expired"

NoVenue == [state |-> "none", filled |-> 0, asked |-> FALSE]

VenueOK(at) ==
  /\ at \in [state : VenueStates, filled : 0..OrderQuantity, asked : BOOLEAN]
  /\ at.state \in {"none", "transit", "rejected"} => at.filled = 0
  /\ at.state = "open" => at.filled < OrderQuantity
  /\ at.state = "filled" => at.filled = OrderQuantity

ReportsInv ==
  /\ broker \in Brokers /\ VenueOK(venue)
  /\ broker = "paper" => venue.state \in {"none", "filled"}
  /\ DOMAIN call = {"step", "answer"} /\ DOMAIN desk = {"step", "answer"}
  /\ call.answer # NoAnswer => AnswerTrue(call.answer, venue)
  /\ desk.step = "read" => AnswerTrue(desk.answer, venue) /\ desk.answer.known
  /\ life \in [status : UpdateStatuses \cup {"ACCEPTED"}, filled : 0..OrderQuantity]
  /\ life.filled <= venue.filled /\ Ended(life.status, venue.state)
  /\ row.status \in FinalStatuses => Ended(row.status, venue.state) /\ row.filled = venue.filled
  /\ ~covered => VenueOver
  /\ call.step = "none" => /\ venue = NoVenue /\ life = NewLife /\ call.answer = NoAnswer
                           /\ desk.step = "idle" /\ row.status = "SUBMITTED" /\ covered

-----------------------------------------------------------------------------

\* What the broker says now is true of the order now.
LEMMA WordsNowAreTrue ==
  ASSUME ReportsInv, NEW w \in WordsNow
  PROVE  w \in Words /\ WordTrue(w, venue.state)
<1>1. venue.state \in VenueStates /\ venue.state # "none"
  <2>1. venue.state # "none"
    BY DEF WordsNow
  <2>2. QED
    BY <2>1 DEF ReportsInv, VenueOK
<1>2. CASE broker = "paper"
  BY <1>1, <1>2 DEF WordsNow, ReportsInv, Words, WordTrue
<1>3. CASE broker = "dhan"
  <2>1. w = CASE venue.state = "transit" -> "TRANSIT"
              [] venue.state = "open" -> IF venue.filled > 0 THEN "PART_TRADED" ELSE "PENDING"
              [] venue.state = "filled" -> "TRADED"
              [] venue.state = "cancelled" -> "CANCELLED"
              [] venue.state = "rejected" -> "REJECTED"
              [] venue.state = "expired" -> "EXPIRED"
    BY <1>1, <1>3 DEF WordsNow
  <2>2. QED
    BY <1>1, <2>1 DEF VenueStates, Words, WordTrue
<1>4. CASE broker \in {"upstox", "sdk"}
  <2>1. w \in CASE venue.state = "transit" -> {"PUT ORDER REQ RECEIVED", "OPEN PENDING"}
                [] venue.state = "open" -> IF venue.asked THEN {"CANCEL PENDING"} ELSE {"OPEN"}
                [] venue.state = "filled" -> {"COMPLETE"}
                [] venue.state = "rejected" -> {"REJECTED"}
                [] OTHER -> {"CANCELLED"}
    BY <1>1, <1>4 DEF WordsNow
  <2>2. QED
    BY <1>1, <2>1 DEF VenueStates, Words, WordTrue
<1>5. QED
  BY <1>2, <1>3, <1>4 DEF ReportsInv

LEMMA AnswersAreTrue ==
  ASSUME ReportsInv, NEW kind, NEW a \in Answers(kind)
  PROVE  AnswerTrue(a, venue) /\ (kind = "read" => a.known)
<1> DEFINE known == IF kind = "placement" /\ broker = "dhan" THEN BOOLEAN ELSE {TRUE}
<1>1. PICK w \in WordsNow, k \in known :
        a = [word |-> w, filled |-> IF k THEN venue.filled ELSE 0, known |-> k]
  <2> DEFINE said(w, k) == [word |-> w, filled |-> IF k THEN venue.filled ELSE 0, known |-> k]
             now == WordsNow
  <2>1. Answers(kind) = {said(w, k) : w \in now, k \in known}
    BY DEF Answers
  <2>2. a \in Answers(kind)
    OBVIOUS
  <2> HIDE DEF now, known, said
  <2>3. \E w \in now, k \in known : a = said(w, k)
    BY <2>1, <2>2
  <2>4. QED
    BY <2>3 DEF now, said
<1>5. k \in BOOLEAN /\ (kind = "read" => k = TRUE)
  BY DEF known
<1> HIDE DEF known
<1>2. w \in Words /\ WordTrue(w, venue.state)
  BY WordsNowAreTrue
<1>3. venue.filled \in 0..OrderQuantity
  BY DEF ReportsInv, VenueOK
<1>4. QED
  BY <1>1, <1>2, <1>3, <1>5 DEF AnswerTrue

\* No translator makes more of a word than it says.
LEMMA NormalizedIsTrue ==
  ASSUME NEW w \in Words, NEW known, NEW filled, NEW state, WordTrue(w, state)
  PROVE  /\ Ended(Normalized(w, known, filled), state)
         /\ Normalized(w, known, filled) \in UpdateStatuses \cup {"refused"}
<1> DEFINE s == Canonical(w, known, filled)
<1>1. /\ w \in {"COMPLETE", "FILLED"} => s = "FILLED"
      /\ w = "REJECTED" => s = "REJECTED"
      /\ w = "CANCELLED" => s = "CANCELLED"
      /\ w \in ActiveWords => s \in {"NEW", "PARTIALLY_FILLED", "refused"}
      /\ w \in {"TRANSIT", "PART_TRADED", "TRADED", "EXPIRED"} => s = "refused"
  <2>1. ASSUME w \in {"COMPLETE", "FILLED"} PROVE s = "FILLED"
    BY <2>1 DEF Canonical, ActiveWords
  <2>2. ASSUME w = "REJECTED" PROVE s = "REJECTED"
    BY <2>2 DEF Canonical, ActiveWords
  <2>3. ASSUME w = "CANCELLED" PROVE s = "CANCELLED"
    BY <2>3 DEF Canonical, ActiveWords
  <2>4. ASSUME w \in ActiveWords PROVE s \in {"NEW", "PARTIALLY_FILLED", "refused"}
    BY <2>4 DEF Canonical, ActiveWords
  <2>5. ASSUME w \in {"TRANSIT", "PART_TRADED", "TRADED", "EXPIRED"} PROVE s = "refused"
    BY <2>5 DEF Canonical, ActiveWords
  <2>6. QED
    BY <2>1, <2>2, <2>3, <2>4, <2>5
<1>2. Normalized(w, known, filled) \in {s, "refused"}
  BY DEF Normalized
<1> HIDE DEF s
<1>3. w \in ActiveWords \cup {"COMPLETE", "FILLED", "REJECTED", "CANCELLED", "TRANSIT",
                              "PART_TRADED", "TRADED", "EXPIRED"}
  BY DEF Words, ActiveWords
<1>4. QED
  BY <1>1, <1>2, <1>3 DEF WordTrue, Ended, UpdateStatuses, FinalStatuses

LEMMA PlacementIsTrue ==
  ASSUME NEW w \in Words, NEW state, WordTrue(w, state)
  PROVE  \/ PlacementStatus(w) \in Words /\ WordTrue(PlacementStatus(w), state)
         \/ PlacementStatus(w) \in {"NEW", "PARTIALLY_FILLED"}
  BY DEF PlacementStatus, Words, WordTrue

LEMMA NewIsNoEnd ==
  ASSUME NEW w \in {"NEW", "PARTIALLY_FILLED"}, NEW known, NEW filled
  PROVE  Normalized(w, known, filled) = "refused"
<1>1. Canonical(w, known, filled) = "refused"
  BY DEF Canonical, ActiveWords
<1>2. QED
  BY <1>1 DEF Normalized

\* The answers to a placement and to a read, as the gateway understands them.
LEMMA UnderstoodIsTrue ==
  ASSUME ReportsInv, NEW a, AnswerTrue(a, venue)
  PROVE  /\ Ended(Submitted(a), venue.state) /\ Submitted(a) \in UpdateStatuses \cup {"refused"}
         /\ Ended(Read(a), venue.state) /\ Read(a) \in UpdateStatuses \cup {"refused"}
<1>1. a.word \in Words /\ WordTrue(a.word, venue.state)
  BY DEF AnswerTrue
<1>2. /\ Ended(Normalized(a.word, a.known, a.filled), venue.state)
      /\ Normalized(a.word, a.known, a.filled) \in UpdateStatuses \cup {"refused"}
  BY <1>1, NormalizedIsTrue
<1>3. /\ Ended(DhanSubmitted(a), venue.state)
      /\ DhanSubmitted(a) \in UpdateStatuses \cup {"refused"}
  <2>1. CASE PlacementStatus(a.word) \in Words /\ WordTrue(PlacementStatus(a.word), venue.state)
    BY <2>1, NormalizedIsTrue DEF DhanSubmitted
  <2>2. CASE PlacementStatus(a.word) \in {"NEW", "PARTIALLY_FILLED"}
    <3>1. DhanSubmitted(a) = "refused"
      BY <2>2, NewIsNoEnd DEF DhanSubmitted
    <3>2. QED
      BY <3>1 DEF Ended
  <2>3. QED
    BY <1>1, <2>1, <2>2, PlacementIsTrue
<1>4. UpstoxSubmitted(a) = "refused" /\ DhanRead(a) = "refused" /\ Ended("refused", venue.state)
  BY NewIsNoEnd DEF UpstoxSubmitted, DhanRead, Ended
<1>5. broker \in {"dhan", "upstox", "sdk", "paper"}
  BY DEF ReportsInv
<1>6. CASE broker = "dhan"
  BY <1>3, <1>4, <1>6 DEF Submitted, Read
<1>7. CASE broker = "upstox"
  BY <1>2, <1>4, <1>7 DEF Submitted, Read, UpstoxRead
<1>8. CASE broker = "sdk"
  BY <1>2, <1>8 DEF Submitted, Read, SdkSubmitted, SdkRead
<1>9. CASE broker = "paper"
  BY <1>2, <1>9 DEF Submitted, Read, PaperSubmitted, PaperRead
<1>10. QED
  BY <1>5, <1>6, <1>7, <1>8, <1>9

\* A read that ends the order was of a word that does.
LEMMA ReadsOnlyLastWords ==
  ASSUME NEW a, a.word \in Words, Read(a) \in FinalStatuses, broker \in Brokers
  PROVE  a.word \in LastWords
<1>1. Read(a) \in {"refused", Normalized(a.word, a.known, a.filled)}
  <2>1. broker \in {"dhan", "upstox", "sdk", "paper"}
    OBVIOUS
  <2>2. QED
    BY <2>1 DEF Read, DhanRead, UpstoxRead, SdkRead, PaperRead
<1>2. Normalized(a.word, a.known, a.filled) \in {"refused", Canonical(a.word, a.known, a.filled)}
  BY DEF Normalized
<1>3. Canonical(a.word, a.known, a.filled) \in FinalStatuses
  BY <1>1, <1>2 DEF FinalStatuses
<1>4. a.word \in ActiveWords =>
        Canonical(a.word, a.known, a.filled) \in {"NEW", "PARTIALLY_FILLED", "refused"}
  BY DEF Canonical, ActiveWords
<1>5. a.word \in {"TRANSIT", "PART_TRADED"} => Canonical(a.word, a.known, a.filled) = "refused"
  BY DEF Canonical, ActiveWords
<1>6. QED
  BY <1>3, <1>4, <1>5 DEF Words, LastWords, ActiveWords, FinalStatuses

-----------------------------------------------------------------------------

\* The order gains fills until it is over, and then stands still.
Advanced(from, to) ==
  /\ to.filled >= from.filled
  /\ from.state \in {"filled", "cancelled", "rejected", "expired"} =>
       to.state = from.state /\ to.filled = from.filled

LEMMA TruthStays ==
  ASSUME NEW from, NEW to, VenueOK(from), VenueOK(to), Advanced(from, to)
  PROVE  /\ \A a : AnswerTrue(a, from) => AnswerTrue(a, to)
         /\ \A s : Ended(s, from.state) => Ended(s, to.state)
<1>1. /\ from.filled \in Nat /\ to.filled \in Nat
      /\ from.state \in VenueStates
  BY DEF VenueOK
<1>2. ASSUME NEW s, Ended(s, from.state)
      PROVE  Ended(s, to.state)
  BY <1>2 DEF Ended, Advanced
<1>3. ASSUME NEW a, AnswerTrue(a, from)
      PROVE  AnswerTrue(a, to)
  <2>1. WordTrue(a.word, to.state)
    BY <1>3 DEF AnswerTrue, WordTrue, Advanced
  <2>2. a.filled <= to.filled
    BY <1>1, <1>3 DEF AnswerTrue, Advanced
  <2>3. a.known /\ a.word \in LastWords => a.filled = to.filled
    BY <1>3 DEF AnswerTrue, WordTrue, LastWords, Advanced
  <2>4. QED
    BY <1>3, <2>1, <2>2, <2>3 DEF AnswerTrue
<1>4. QED
  BY <1>2, <1>3

LEMMA ReportsInvInit == ReportsInit => ReportsInv
<1> SUFFICES ASSUME ReportsInit PROVE ReportsInv
  OBVIOUS
<1>1. venue = NoVenue /\ VenueOK(venue)
  BY DEF ReportsInit, NoVenue, VenueOK, VenueStates
<1>2. life = NewLife /\ life \in [status : UpdateStatuses \cup {"ACCEPTED"}, filled : 0..OrderQuantity]
  BY DEF ReportsInit, NewLife, UpdateStatuses
<1>3. Ended("ACCEPTED", "none") /\ life.status = "ACCEPTED" /\ life.filled = 0
  BY <1>2 DEF Ended, NewLife
<1>4. QED
  BY <1>1, <1>2, <1>3 DEF ReportsInit, ReportsInv, NoVenue, FinalStatuses

LEMMA ReportsInvStep == ReportsInv /\ [ReportsNext]_reportVars => ReportsInv'
<1> SUFFICES ASSUME ReportsInv, [ReportsNext]_reportVars PROVE ReportsInv'
  OBVIOUS
<1>0. venue.filled \in 0..OrderQuantity /\ venue.state \in VenueStates /\ VenueOK(venue)
  BY DEF ReportsInv, VenueOK
\* The order moves at the broker.
<1>1. ASSUME VenueOK(venue'), Advanced(venue, venue'), venue.state # "none",
             broker = "paper" => venue'.state = "filled",
             UNCHANGED <<broker, call, life, row, covered>>,
             DOMAIN desk' = {"step", "answer"},
             desk'.step = "read" => desk' = desk
      PROVE  ReportsInv'
  <2>1. /\ \A a : AnswerTrue(a, venue) => AnswerTrue(a, venue')
        /\ \A s : Ended(s, venue.state) => Ended(s, venue'.state)
    BY <1>0, <1>1, TruthStays
  <2>2. call.step # "none"
    BY <1>1 DEF ReportsInv, NoVenue
  <2>3. life.filled <= venue'.filled
    BY <1>0, <1>1 DEF ReportsInv, Advanced, VenueOK
  <2>4. row.status \in FinalStatuses => venue'.filled = venue.filled
    BY <1>1 DEF ReportsInv, Ended, FinalStatuses, Advanced
  <2>5. VenueOver => VenueOver'
    BY <1>1 DEF VenueOver, Advanced
  <2>6. QED
    BY <1>1, <2>1, <2>2, <2>3, <2>4, <2>5 DEF ReportsInv
<1>2. CASE VenueTakes \/ VenueFills \/ VenueEnds
  <2>1. UNCHANGED <<broker, call, life, desk, row, covered>>
        /\ venue.state \in {"transit", "open"}
    BY <1>2 DEF VenueTakes, VenueFills, VenueEnds, VenueBecomes
  <2>2. VenueFills => venue.filled < OrderQuantity
    BY <1>0 DEF VenueFills, VenueOK
  <2>3. VenueOK(venue')
    <3>1. CASE VenueTakes
      BY <1>0, <3>1 DEF VenueTakes, VenueBecomes, VenueOK, VenueStates
    <3>2. CASE VenueFills
      <4>1. venue' = [state |-> IF venue.filled + 1 = OrderQuantity THEN "filled" ELSE "open",
                      filled |-> venue.filled + 1, asked |-> venue.asked]
        BY <1>0, <3>2 DEF VenueFills, VenueOK
      <4>2. venue.filled \in Nat /\ venue.asked \in BOOLEAN
        BY <1>0 DEF VenueOK
      <4>3. /\ venue'.state = IF venue.filled + 1 = OrderQuantity THEN "filled" ELSE "open"
            /\ venue'.filled = venue.filled + 1
        BY <4>1
      <4>4. venue.filled + 1 \in 0..OrderQuantity
        BY <2>2, <3>2, <4>2
      <4>5. venue' \in [state : VenueStates, filled : 0..OrderQuantity, asked : BOOLEAN]
        BY <4>1, <4>2, <4>4 DEF VenueStates
      <4>6. venue'.state = "open" => venue'.filled < OrderQuantity
        BY <4>2, <4>3, <4>4
      <4>7. QED
        BY <4>2, <4>3, <4>5, <4>6 DEF VenueOK
    <3>3. CASE VenueEnds
      BY <1>0, <3>3 DEF VenueEnds, VenueBecomes, VenueOK, VenueStates
    <3>4. QED
      BY <1>2, <3>1, <3>2, <3>3
  <2>4. Advanced(venue, venue')
    <3>1. venue'.filled >= venue.filled
      <4>1. venue'.filled = venue.filled \/ venue'.filled = venue.filled + 1
        BY <1>0, <1>2 DEF VenueTakes, VenueFills, VenueEnds, VenueBecomes, VenueOK
      <4>2. venue.filled \in Nat
        BY <1>0 DEF VenueOK
      <4>3. QED
        BY <4>1, <4>2
    <3>2. QED
      BY <2>1, <3>1 DEF Advanced
  <2>5. broker # "paper"
    BY <2>1 DEF ReportsInv
  <2>6. QED
    BY <1>1, <2>1, <2>3, <2>4, <2>5 DEF ReportsInv
\* A step of the live gateway's call.
<1>3. ASSUME UNCHANGED <<broker, venue, desk, row, covered>>,
             DOMAIN call' = {"step", "answer"}, call.step # "none", call'.step # "none",
             call'.answer # NoAnswer => AnswerTrue(call'.answer, venue),
             life' \in [status : UpdateStatuses \cup {"ACCEPTED"}, filled : 0..OrderQuantity],
             life'.filled <= venue.filled, Ended(life'.status, venue.state)
      PROVE  ReportsInv'
  BY <1>3 DEF ReportsInv, VenueOver
<1>4. /\ life \in [status : UpdateStatuses \cup {"ACCEPTED"}, filled : 0..OrderQuantity]
      /\ life.filled <= venue.filled /\ Ended(life.status, venue.state)
  BY DEF ReportsInv
<1>5. /\ NewLife \in [status : UpdateStatuses \cup {"ACCEPTED"}, filled : 0..OrderQuantity]
      /\ NewLife.filled <= venue.filled /\ Ended(NewLife.status, venue.state)
      /\ NewLife.status = "ACCEPTED" /\ NewLife.filled = 0
  BY <1>0 DEF NewLife, Ended
<1>6. \A step : call' = [step |-> step, answer |-> NoAnswer] =>
        DOMAIN call' = {"step", "answer"} /\ call'.step = step /\ call'.answer = NoAnswer
  OBVIOUS
<1>7. CASE Answer
  <2>1. UNCHANGED <<broker, venue, life, desk, row, covered>>
    BY <1>7 DEF Answer
  <2>2. PICK a : /\ a \in Answers("placement") \/ a \in Answers("read")
                 /\ call' = [call EXCEPT !.answer = a] /\ call.step # "none"
    BY <1>7 DEF Answer
  <2>3. AnswerTrue(a, venue)
    BY <2>2, AnswersAreTrue
  <2>4. DOMAIN call' = {"step", "answer"} /\ call'.step = call.step /\ call'.answer = a
    BY <2>2 DEF ReportsInv
  <2>5. QED
    BY <1>3, <1>4, <2>1, <2>2, <2>3, <2>4
\* What an answer makes of the lifecycle.
<1>8. ASSUME NEW s, Ended(s, venue.state), s \in UpdateStatuses \cup {"refused"},
             call.answer # NoAnswer, Applies(s, call.answer.filled),
             AppliedTo(s, call.answer.filled)
      PROVE  /\ life' \in [status : UpdateStatuses \cup {"ACCEPTED"}, filled : 0..OrderQuantity]
             /\ life'.filled <= venue.filled /\ Ended(life'.status, venue.state)
  <2>1. AnswerTrue(call.answer, venue) /\ s \in UpdateStatuses
    BY <1>8 DEF ReportsInv, Applies
  <2>2. life' = [status |-> s, filled |-> call.answer.filled]
    BY <1>8 DEF AppliedTo
  <2>3. QED
    BY <1>8, <2>1, <2>2 DEF AnswerTrue
<1>9. CASE PlacementReturns
  <2>1. UNCHANGED <<broker, venue, desk, row, covered>> /\ call.step = "sent"
    BY <1>9 DEF PlacementReturns
  <2>2. \/ At("done") /\ call.answer # NoAnswer /\ Applies(Submitted(call.answer), call.answer.filled)
           /\ AppliedTo(Submitted(call.answer), call.answer.filled)
        \/ At("lookup") /\ UNCHANGED life
    BY <1>9 DEF PlacementReturns
  <2>3. call.answer # NoAnswer =>
          /\ Ended(Submitted(call.answer), venue.state)
          /\ Submitted(call.answer) \in UpdateStatuses \cup {"refused"}
    BY UnderstoodIsTrue DEF ReportsInv
  <2>4. /\ life' \in [status : UpdateStatuses \cup {"ACCEPTED"}, filled : 0..OrderQuantity]
        /\ life'.filled <= venue.filled /\ Ended(life'.status, venue.state)
    BY <1>4, <1>8, <2>2, <2>3
  <2>5. \E step \in {"done", "lookup"} : call' = [step |-> step, answer |-> NoAnswer]
    BY <2>2 DEF At
  <2>6. DOMAIN call' = {"step", "answer"} /\ call'.step # "none" /\ call'.answer = NoAnswer
    BY <1>6, <2>5
  <2>7. QED
    BY <1>3, <2>1, <2>4, <2>6
<1>10. CASE LookupReturns
  <2>1. UNCHANGED <<broker, venue, desk, row, covered>> /\ call.step = "lookup"
    BY <1>10 DEF LookupReturns
  <2>2. \/ At("done") /\ call.answer # NoAnswer /\ Applies(Read(call.answer), call.answer.filled)
           /\ AppliedTo(Read(call.answer), call.answer.filled)
        \/ At("unknown") /\ UNCHANGED life
    BY <1>10 DEF LookupReturns
  <2>3. call.answer # NoAnswer =>
          /\ Ended(Read(call.answer), venue.state)
          /\ Read(call.answer) \in UpdateStatuses \cup {"refused"}
    BY UnderstoodIsTrue DEF ReportsInv
  <2>4. /\ life' \in [status : UpdateStatuses \cup {"ACCEPTED"}, filled : 0..OrderQuantity]
        /\ life'.filled <= venue.filled /\ Ended(life'.status, venue.state)
    BY <1>4, <1>8, <2>2, <2>3
  <2>5. \E step \in {"done", "unknown"} : call' = [step |-> step, answer |-> NoAnswer]
    BY <2>2 DEF At
  <2>6. DOMAIN call' = {"step", "answer"} /\ call'.step # "none" /\ call'.answer = NoAnswer
    BY <1>6, <2>5
  <2>7. QED
    BY <1>3, <2>1, <2>4, <2>6
<1>11. CASE CallAgain
  <2>1. UNCHANGED <<broker, venue, desk, row, covered>> /\ call.step # "none" /\ life' = NewLife
        /\ call' = [step |-> "lookup", answer |-> NoAnswer]
    BY <1>11 DEF CallAgain, At
  <2>2. DOMAIN call' = {"step", "answer"} /\ call'.step # "none" /\ call'.answer = NoAnswer
    BY <1>6, <2>1
  <2>3. QED
    BY <1>3, <1>5, <2>1, <2>2
\* The first step: nothing is known of the order.
<1>12. ASSUME call.step = "none", UNCHANGED <<broker, desk, row, covered>>, life' = NewLife,
              DOMAIN call' = {"step", "answer"}, call'.step # "none", call'.answer = NoAnswer,
              VenueOK(venue'), broker = "paper" => venue'.state \in {"none", "filled"}
       PROVE  ReportsInv'
  <2>1. /\ desk.step = "idle" /\ row.status = "SUBMITTED" /\ covered
    BY <1>12 DEF ReportsInv
  <2>2. NewLife.filled <= venue'.filled /\ Ended(NewLife.status, venue'.state)
    BY <1>5, <1>12 DEF VenueOK, Ended
  <2>3. QED
    BY <1>5, <1>12, <2>1, <2>2 DEF ReportsInv, FinalStatuses
<1>13. CASE PlaceOrder
  <2>1. /\ call.step = "none" /\ UNCHANGED <<broker, desk, row, covered>> /\ life' = NewLife
        /\ call' = [step |-> "sent", answer |-> NoAnswer]
        /\ venue' = [venue EXCEPT !.state = IF broker = "paper" THEN "filled" ELSE "transit",
                                  !.filled = IF broker = "paper" THEN OrderQuantity ELSE 0]
    BY <1>13 DEF PlaceOrder, At
  <2>2. VenueOK(venue') /\ (broker = "paper" => venue'.state = "filled")
    <3>1. venue' = [state |-> IF broker = "paper" THEN "filled" ELSE "transit",
                    filled |-> IF broker = "paper" THEN OrderQuantity ELSE 0,
                    asked |-> venue.asked]
      BY <1>0, <2>1 DEF VenueOK
    <3>2. venue.asked \in BOOLEAN
      BY <1>0 DEF VenueOK
    <3>3. /\ venue'.state = IF broker = "paper" THEN "filled" ELSE "transit"
          /\ venue'.filled = IF broker = "paper" THEN OrderQuantity ELSE 0
      BY <3>1
    <3>4. venue' \in [state : VenueStates, filled : 0..OrderQuantity, asked : BOOLEAN]
      BY <3>1, <3>2 DEF VenueStates
    <3>5. QED
      BY <3>3, <3>4 DEF VenueOK
  <2>3. DOMAIN call' = {"step", "answer"} /\ call'.step # "none" /\ call'.answer = NoAnswer
    BY <1>6, <2>1
  <2>4. QED
    BY <1>12, <2>1, <2>2, <2>3
<1>14. CASE RefuseRequest
  <2>1. /\ call.step = "none" /\ UNCHANGED <<broker, venue, desk, row, covered>>
        /\ life' = NewLife /\ call' = [step |-> "lookup", answer |-> NoAnswer]
    BY <1>14 DEF RefuseRequest, At
  <2>2. DOMAIN call' = {"step", "answer"} /\ call'.step # "none" /\ call'.answer = NoAnswer
    BY <1>6, <2>1
  <2>3. QED
    BY <1>0, <1>12, <2>1, <2>2 DEF ReportsInv
\* The cancellation.
<1>15. CASE AskCancel
  <2>1. UNCHANGED <<broker, call, life, row, covered>> /\ venue.state # "none"
        /\ venue' = [venue EXCEPT !.asked = venue.state \in {"transit", "open"}]
    BY <1>15 DEF AskCancel
  <2>2. PICK step \in {"idle", "asked"} : desk' = [desk EXCEPT !.step = step]
    BY <1>15 DEF AskCancel
  <2>3. VenueOK(venue') /\ Advanced(venue, venue') /\ venue'.state = venue.state
    <3>1. venue' = [state |-> venue.state, filled |-> venue.filled,
                    asked |-> venue.state \in {"transit", "open"}]
      BY <1>0, <2>1 DEF VenueOK
    <3>2. venue.filled \in Nat
      BY <1>0 DEF VenueOK
    <3>3. /\ venue'.state = venue.state /\ venue'.filled = venue.filled
          /\ venue'.asked \in BOOLEAN
      BY <3>1
    <3>4. venue' \in [state : VenueStates, filled : 0..OrderQuantity, asked : BOOLEAN]
      BY <1>0, <3>1 DEF VenueOK
    <3>5. QED
      BY <1>0, <3>2, <3>3, <3>4 DEF VenueOK, Advanced
  <2>4. DOMAIN desk' = {"step", "answer"} /\ desk'.step # "read"
    BY <2>2 DEF ReportsInv
  <2>5. broker = "paper" => venue'.state = "filled"
    BY <2>1, <2>3 DEF ReportsInv
  <2>6. QED
    BY <1>1, <2>1, <2>3, <2>4, <2>5
<1>16. CASE ReadAfterCancel
  <2>1. UNCHANGED <<broker, venue, call, life, row, covered>> /\ desk.step = "asked"
    BY <1>16 DEF ReadAfterCancel
  <2>2. \/ \E a \in Answers("read") : desk' = [step |-> "read", answer |-> a]
        \/ desk' = [desk EXCEPT !.step = "idle"]
    BY <1>16 DEF ReadAfterCancel
  <2>3. DOMAIN desk' = {"step", "answer"}
        /\ (desk'.step = "read" => AnswerTrue(desk'.answer, venue) /\ desk'.answer.known)
    BY <2>2, AnswersAreTrue DEF ReportsInv
  <2>4. call.step # "none"
    BY <2>1 DEF ReportsInv
  <2>5. QED
    BY <2>1, <2>3, <2>4 DEF ReportsInv, VenueOver
<1>17. CASE FinishCancel
  <2> DEFINE s == Read(desk.answer)
  <2>1. UNCHANGED <<broker, venue, call, life>> /\ desk.step = "read"
        /\ desk' = [step |-> "idle", answer |-> NoAnswer]
    BY <1>17 DEF FinishCancel
  <2>2. \/ /\ s \in FinalStatuses /\ covered' = FALSE
           /\ row' \in {row, [status |-> s, filled |-> desk.answer.filled]}
        \/ UNCHANGED <<row, covered>>
    BY <1>17 DEF FinishCancel, ProjectedRow
  <2>3. AnswerTrue(desk.answer, venue) /\ desk.answer.known
    BY <2>1 DEF ReportsInv
  <2>4. Ended(s, venue.state)
    BY <2>3, UnderstoodIsTrue
  <2>5. s \in FinalStatuses => desk.answer.word \in LastWords
    <3>1. desk.answer.word \in Words /\ broker \in Brokers
      BY <2>3 DEF AnswerTrue, ReportsInv
    <3>2. QED
      BY <3>1, ReadsOnlyLastWords
  <2> HIDE DEF s
  <2>6. s \in FinalStatuses => VenueOver /\ desk.answer.filled = venue.filled
    BY <2>3, <2>4, <2>5 DEF AnswerTrue, Ended, FinalStatuses, VenueOver
  <2>7. row'.status \in FinalStatuses => Ended(row'.status, venue.state) /\ row'.filled = venue.filled
    BY <2>2, <2>4, <2>6 DEF ReportsInv
  <2>8. ~covered' => VenueOver
    BY <2>2, <2>6 DEF ReportsInv
  <2>9. call.step # "none"
    BY <2>1 DEF ReportsInv
  <2>10. DOMAIN desk' = {"step", "answer"} /\ desk'.step = "idle"
    BY <2>1
  <2>11. VenueOver' = VenueOver
    BY <2>1 DEF VenueOver
  <2>12. QED
    BY <2>1, <2>7, <2>8, <2>9, <2>10, <2>11 DEF ReportsInv
<1>18. CASE UNCHANGED reportVars
  <2>1. UNCHANGED <<broker, venue, call, life, desk, row, covered>>
    BY <1>18 DEF reportVars
  <2>2. QED
    BY <2>1 DEF ReportsInv, VenueOver
<1>19. QED
  BY <1>2, <1>7, <1>9, <1>10, <1>11, <1>13, <1>14, <1>15, <1>16, <1>17, <1>18 DEF ReportsNext

\* No translator takes a word for an end the order did not come to.
LEMMA ReadingsAreTrue ==
  ASSUME ReportsInv, NEW w \in WordsNow,
         NEW s \in Readings(w) \cap (FinalStatuses \cup {"EXPIRED"})
  PROVE  Ended(s, venue.state)
<1>1. w \in Words /\ WordTrue(w, venue.state)
  BY WordsNowAreTrue
<1>2. CASE s = SnapshotStatus(w)
  BY <1>1, <1>2 DEF SnapshotStatus, Words, WordTrue, Ended, FinalStatuses
<1>3. CASE s = PostbackStatus(w, venue.filled)
  <2>1. w = "TRADED" => s = "FILLED"
    BY <1>3 DEF PostbackStatus
  <2>2. w # "TRADED" => s \in {"PARTIALLY_FILLED", "UNKNOWN"}
                        \/ (w \in {"REJECTED", "CANCELLED", "EXPIRED", "TRANSIT", "PENDING"} /\ s = w)
    BY <1>3 DEF PostbackStatus
  <2>3. QED
    BY <1>1, <2>1, <2>2 DEF Words, WordTrue, Ended, FinalStatuses
<1>4. CASE s = EventStatus(w)
  BY <1>1, <1>4 DEF EventStatus, Words, WordTrue, Ended, FinalStatuses
<1>5. CASE s = ComparedStatus(w)
  BY <1>1, <1>5 DEF ComparedStatus, Words, WordTrue, Ended, FinalStatuses
<1>6. CASE s = AliasStatus(w)
  BY <1>1, <1>6 DEF AliasStatus, Words, WordTrue, Ended, FinalStatuses
<1>7. QED
  BY <1>2, <1>3, <1>4, <1>5, <1>6 DEF Readings

\* Nothing in the backend calls an order finished that still works or ended otherwise,
\* however late the answers are and whoever wins between a cancel and a fill; for every
\* quantity of the order and any number of calls (AuthoritativeCancelReconciler,
\* normalize_broker_update).
THEOREM FinalViewsAreTrueCorrect == ReportsSpec => []FinalViewsAreTrue
<1>1. \A s \in FinalStatuses \cup {"EXPIRED"} : Ended(s, venue.state) => EndedAs(s)
  BY DEF FinalStatuses, Ended, EndedAs
<1>2. ASSUME ReportsInv
      PROVE  FinalViewsAreTrue
  <2>1. \A w \in WordsNow : \A s \in Readings(w) \cap (FinalStatuses \cup {"EXPIRED"}) : EndedAs(s)
    BY <1>1, <1>2, ReadingsAreTrue
  <2>2. QED
    BY <1>1, <1>2, <2>1 DEF ReportsInv, FinalViewsAreTrue
<1>3. QED
  BY <1>2, ReportsInvInit, ReportsInvStep, PTL DEF ReportsSpec

HIDE ReportsAssumption

-----------------------------------------------------------------------------
(* Orders of which only the client's id is known.                           *)

USE IdentityRecoveryAssumption

SearchSteps == {"idle", "group", "intents", "resolve", "returned", "raised", "unavailable"}

Searches == [at : SearchSteps, todo : SUBSET Sought, over : Books \cup {NoId},
             book : Books \cup {NoId}, rows : SUBSET SoughtIds, found : SUBSET Sought]

\* A row that may be the order of a client's id.
TheirRow(seen, c) ==
  /\ seen.client \in {c, NoId} /\ seen.terms = SoughtTerms[c]
  /\ c \in Accountless \/ seen.book = SoughtIn[c]

\* An intent is bound to a row the broker shows.
IntentOK(intent, c, visible) ==
  /\ intent \in Store!Intent
  /\ intent.broker # NoId => /\ intent.broker \in SoughtIds /\ visible[intent.broker] # NoId
                             /\ TheirRow(visible[intent.broker], c)

RowsUnder(visible, some, c, book) == {b \in some : visible[b].client = c /\ visible[b].book = book}

WhereRead(s) == IF s.over = NoId THEN s.book ELSE s.over

\* The pass knows rows the broker showed, of which one was that of an intent it found.
PassOK(s, visible) ==
  /\ s \in Searches
  /\ \A b \in s.rows : visible[b] # NoId
  /\ \A c \in s.found : Cardinality(RowsUnder(visible, s.rows, c, WhereRead(s))) = 1
  /\ s.at = "group" => s.found = {}

\* The local orders a row may be, by the account and the route it names.
ScopeOf(seen) == {c \in Sought : seen.scoped => SoughtIn[c] = seen.book}

RegisteredOK(b, c, visible) ==
  b # NoId => /\ b \in SoughtIds /\ visible[b] # NoId
              /\ visible[b].client = c \/ visible[b].client \notin ScopeOf(visible[b])

\* A pass that ended badly has halted.
HaltOK(s, bound, stopped) ==
  /\ stopped \in BOOLEAN
  /\ s.at = "raised" => stopped
  /\ s.at = "returned" /\ (\E c \in Sought : bound[c].phase = "unresolved") => stopped

IntentsOK(bound, visible) ==
  /\ bound = [c \in Sought |-> bound[c]]
  /\ \A c \in Sought : IntentOK(bound[c], c, visible)

\* A gateway's lookup knows an order that may be its.
LookupOK(r, c, visible) ==
  /\ r \in [at : {"idle", "record", "resolve"}, broker : SoughtIds \cup {NoId}]
  /\ r.at # "idle" => /\ r.broker \in SoughtIds /\ visible[r.broker] # NoId
                      /\ TheirRow(visible[r.broker], c)

LookupsOK(lookups, visible) ==
  /\ lookups = [c \in Sought |-> lookups[c]]
  /\ \A c \in Sought : LookupOK(lookups[c], c, visible)

SearchInv ==
  /\ shownRows = [b \in SoughtIds |-> shownRows[b]]
  /\ IntentsOK(soughtIntents, shownRows)
  /\ PassOK(search, shownRows)
  /\ LookupsOK(recovering, shownRows)
  /\ registered = [c \in Sought |-> registered[c]]
  /\ \A c \in Sought : RegisteredOK(registered[c], c, shownRows)
  /\ HaltOK(search, soughtIntents, searchHalted)

\* Rows that are shown stay as they are.
RowsStay(from, to) == \A b \in SoughtIds : from[b] # NoId => to[b] = from[b]

\* More rows change nothing about those that were shown.
LEMMA ShownStay ==
  ASSUME NEW from, NEW to, RowsStay(from, to)
  PROVE  /\ \A bound : IntentsOK(bound, from) => IntentsOK(bound, to)
         /\ \A s : PassOK(s, from) => PassOK(s, to)
         /\ \A b, c : RegisteredOK(b, c, from) => RegisteredOK(b, c, to)
         /\ \A lookups : LookupsOK(lookups, from) => LookupsOK(lookups, to)
<1>1. \A bound : IntentsOK(bound, from) => IntentsOK(bound, to)
  BY DEF IntentsOK, IntentOK, RowsStay
<1>2. ASSUME NEW s, PassOK(s, from)
      PROVE  PassOK(s, to)
  <2>1. s.rows \subseteq SoughtIds
    BY <1>2 DEF PassOK, Searches
  <2>2. \A b \in s.rows : to[b] = from[b]
    BY <1>2, <2>1 DEF PassOK, RowsStay
  <2>3. \A c, book : RowsUnder(to, s.rows, c, book) = RowsUnder(from, s.rows, c, book)
    BY <2>2 DEF RowsUnder
  <2>4. QED
    BY <1>2, <2>2, <2>3 DEF PassOK
<1>3. \A b, c : RegisteredOK(b, c, from) => RegisteredOK(b, c, to)
  BY DEF RegisteredOK, RowsStay
<1>4. \A lookups : LookupsOK(lookups, from) => LookupsOK(lookups, to)
  BY DEF LookupsOK, LookupOK, RowsStay
<1>5. QED
  BY <1>1, <1>2, <1>3, <1>4

\* A new row comes to those that are shown.
LEMMA RowIsNew ==
  ASSUME SearchInv, NEW b \in SoughtIds, NEW seen, shownRows[b] = NoId,
         shownRows' = [shownRows EXCEPT ![b] = seen]
  PROVE  /\ RowsStay(shownRows, shownRows')
         /\ shownRows' = [o \in SoughtIds |-> shownRows'[o]]
         /\ shownRows'[b] = seen
BY DEF SearchInv, RowsStay

\* The pass is over, or begins.
LEMMA EmptyPassIsOK ==
  ASSUME NEW visible, NEW at \in SearchSteps
  PROVE  PassOK([NoSearch EXCEPT !.at = at], visible) /\ [NoSearch EXCEPT !.at = at].at = at
<1> DEFINE s == [NoSearch EXCEPT !.at = at]
<1>1. NoSearch \in Searches /\ NoSearch.rows = {} /\ NoSearch.found = {}
  BY DEF NoSearch, Searches, SearchSteps
<1>2. s \in Searches /\ s.rows = {} /\ s.found = {} /\ s.at = at
  BY <1>1 DEF Searches
<1> HIDE DEF s
<1>3. PassOK(s, visible) /\ s.at = at
  BY <1>2 DEF PassOK
<1>4. QED
  BY <1>3 DEF s

\* The store binds an intent that is unresolved to a row that is its.
LEMMA BoundToTheirs ==
  ASSUME SearchInv, NEW visible, IntentsOK(soughtIntents, visible), NEW c \in Sought,
         NEW b \in SoughtIds, visible[b] # NoId, TheirRow(visible[b], c),
         Store!RecordBrokerOrder(c, b, "NEW")
  PROVE  /\ IntentsOK(soughtIntents', visible)
         /\ \A o \in Sought : soughtIntents'[o].phase = soughtIntents[o].phase
<1>1. soughtIntents' = [soughtIntents EXCEPT ![c].broker = b, ![c].status = "NEW"]
  BY DEF Store!RecordBrokerOrder
<1>2. soughtIntents[c] \in Store!Intent
  BY DEF SearchInv, IntentsOK, IntentOK
<1>3. soughtIntents' = [o \in Sought |-> soughtIntents'[o]]
      /\ (\A o \in Sought : o # c => soughtIntents'[o] = soughtIntents[o])
      /\ soughtIntents'[c] = [soughtIntents[c] EXCEPT !.broker = b, !.status = "NEW"]
  BY <1>1 DEF IntentsOK
<1>4. soughtIntents'[c] \in Store!Intent /\ soughtIntents'[c].broker = b
      /\ soughtIntents'[c].phase = soughtIntents[c].phase
  BY <1>2, <1>3 DEF Store!Intent, Store!TrackedStatuses
<1>5. IntentOK(soughtIntents'[c], c, visible)
  BY <1>4 DEF IntentOK
<1>6. QED
  BY <1>3, <1>4, <1>5 DEF IntentsOK

\* An intent that is resolved keeps its order.
LEMMA ResolvedKeeps ==
  ASSUME SearchInv, NEW c \in Sought, NEW new, IntentOK(new, c, shownRows), new.phase = "resolved",
         soughtIntents' = [soughtIntents EXCEPT ![c] = new]
  PROVE  /\ IntentsOK(soughtIntents', shownRows)
         /\ \A o \in Sought : soughtIntents'[o].phase = "unresolved"
                                => soughtIntents[o].phase = "unresolved"
<1>1. /\ soughtIntents' = [o \in Sought |-> soughtIntents'[o]]
      /\ \A o \in Sought : o # c => soughtIntents'[o] = soughtIntents[o]
      /\ soughtIntents'[c] = new
  BY DEF SearchInv, IntentsOK
<1>2. QED
  BY <1>1 DEF SearchInv, IntentsOK, IntentOK

LEMMA SearchInvInit == SearchInit => SearchInv
<1> SUFFICES ASSUME SearchInit  PROVE SearchInv
  OBVIOUS
<1>1. Store!NoIntent \in Store!Intent /\ Store!NoIntent.broker = NoId
  BY DEF Store!NoIntent, Store!Intent, Store!Phases, Store!TrackedStatuses
<1>2. ASSUME NEW c \in Sought
      PROVE  IntentOK(soughtIntents[c], c, shownRows)
  <2> DEFINE new == [Store!NoIntent EXCEPT !.phase = "unresolved",
                                           !.fingerprint = SoughtTerms[c]]
  <2>1. soughtIntents[c] = new
    BY DEF SearchInit
  <2>2. SoughtTerms[c] \in {SoughtTerms[o] : o \in Sought}
    OBVIOUS
  <2>3. new \in Store!Intent /\ new.broker = NoId
    BY <1>1, <2>2 DEF Store!Intent, Store!Phases
  <2>4. QED
    BY <2>1, <2>3 DEF IntentOK
<1>3. search \in Searches /\ search.rows = {} /\ search.found = {} /\ search.at = "idle"
  BY DEF SearchInit, NoSearch, Searches, SearchSteps
<1>4. PassOK(search, shownRows)
  BY <1>3 DEF PassOK
<1>5. IntentsOK(soughtIntents, shownRows)
  BY <1>2 DEF SearchInit, IntentsOK
<1>6. LookupsOK(recovering, shownRows)
  BY DEF SearchInit, LookupsOK, LookupOK, NoRecovery
<1>7. QED
  BY <1>3, <1>4, <1>5, <1>6 DEF SearchInit, SearchInv, RegisteredOK, HaltOK

\* The steps of the broker and of the matching, and those of the router.
RowSteps ==
  \/ \E b \in SoughtIds : BindRow(b) \/ \E seen \in PossibleRows : RowAppears(b, seen)
  \/ \E c \in Sought, b \in SoughtIds, seen \in PossibleRows : AnsweredBefore(c, b, seen)

PassSteps ==
  \/ \E book \in Books : ReadBook(book) \/ BeginSearch(book)
  \/ BeginSearch(NoId) \/ NextBook \/ EndSearch \/ LeaveSearch
  \/ \E c \in Sought : FindIntent(c) \/ RecordRefused(c) \/ ResolveFound(c)

LookupSteps ==
  \/ RouterRecovers
  \/ \E c \in Sought :
       GatewayFinds(c) \/ GatewayRecords(c) \/ GatewayResolves(c) \/ GatewayEnds(c)

\* Rows appear, and the store or the registry gains a binding.
LEMMA RowsAndRegistry ==
  ASSUME SearchInv, RowSteps
  PROVE  SearchInv'
<1>1. ASSUME NEW b \in SoughtIds, NEW seen \in PossibleRows, RowAppears(b, seen)
      PROVE  SearchInv'
  <2>1. /\ shownRows[b] = NoId /\ shownRows' = [shownRows EXCEPT ![b] = seen]
        /\ UNCHANGED <<soughtIntents, search, recovering, searchHalted, registered>>
    BY <1>1 DEF RowAppears
  <2>2. RowsStay(shownRows, shownRows') /\ shownRows' = [o \in SoughtIds |-> shownRows'[o]]
    BY <2>1, RowIsNew
  <2>3. /\ IntentsOK(soughtIntents, shownRows') /\ PassOK(search, shownRows')
        /\ LookupsOK(recovering, shownRows')
        /\ \A c \in Sought : RegisteredOK(registered[c], c, shownRows')
    BY <2>2, ShownStay DEF SearchInv
  <2>4. QED
    BY <2>1, <2>2, <2>3 DEF SearchInv, HaltOK
<1>2. ASSUME NEW c \in Sought, NEW b \in SoughtIds, NEW seen \in PossibleRows,
             AnsweredBefore(c, b, seen)
      PROVE  SearchInv'
  <2>1. /\ shownRows[b] = NoId /\ shownRows' = [shownRows EXCEPT ![b] = seen]
        /\ seen.client \in {c, NoId} /\ seen.terms = SoughtTerms[c] /\ seen.book = SoughtIn[c]
        /\ Store!RecordBrokerOrder(c, b, "NEW")
        /\ UNCHANGED <<search, recovering, searchHalted, registered>>
    BY <1>2 DEF AnsweredBefore
  <2>2. /\ RowsStay(shownRows, shownRows') /\ shownRows' = [o \in SoughtIds |-> shownRows'[o]]
        /\ shownRows'[b] = seen
    BY <2>1, RowIsNew
  <2>3. /\ IntentsOK(soughtIntents, shownRows') /\ PassOK(search, shownRows')
        /\ LookupsOK(recovering, shownRows')
        /\ \A o \in Sought : RegisteredOK(registered[o], o, shownRows')
    BY <2>2, ShownStay DEF SearchInv
  <2>4. seen # NoId
    BY <2>1
  <2>5. TheirRow(seen, c)
    BY <2>1 DEF TheirRow
  <2>6. /\ IntentsOK(soughtIntents', shownRows')
        /\ \A o \in Sought : soughtIntents'[o].phase = soughtIntents[o].phase
    BY <2>1, <2>2, <2>3, <2>4, <2>5, BoundToTheirs
  <2>7. QED
    BY <2>1, <2>2, <2>3, <2>6 DEF SearchInv, HaltOK
<1>3. ASSUME NEW b \in SoughtIds, BindRow(b)
      PROVE  SearchInv'
  <2>1. PICK c \in Sought : /\ Matched(b) = {c}
                            /\ registered' = [registered EXCEPT ![c] = b]
    BY <1>3 DEF BindRow
  <2>2. shownRows[b] # NoId /\ UNCHANGED <<shownRows, soughtIntents, search, recovering, searchHalted>>
    BY <1>3 DEF BindRow, Listed
  <2>3. shownRows[b].client = c \/ shownRows[b].client \notin ScopeOf(shownRows[b])
    <3> DEFINE seen == shownRows[b]
               exact == {o \in InScope(seen) : o = seen.client}
    <3>1. InScope(seen) = ScopeOf(seen)
      BY DEF InScope, ScopeOf
    <3>2. exact # {} => exact = {c}
      BY <2>1 DEF Matched
    <3>3. QED
      BY <3>1, <3>2
  <2>4. RegisteredOK(b, c, shownRows)
    BY <2>2, <2>3 DEF RegisteredOK
  <2>5. QED
    BY <2>1, <2>2, <2>4 DEF SearchInv, HaltOK
<1>4. QED
  BY <1>1, <1>2, <1>3 DEF RowSteps

\* The pass of the router.
LEMMA PassKeeps ==
  ASSUME SearchInv, PassSteps
  PROVE  SearchInv'
\* A step of the pass that writes nothing.
<1>1. ASSUME UNCHANGED <<shownRows, soughtIntents, recovering, registered>>, PassOK(search', shownRows),
             HaltOK(search', soughtIntents, searchHalted')
      PROVE  SearchInv'
  BY <1>1 DEF SearchInv
\* One that writes the intents and nothing but them.
<1>2. ASSUME UNCHANGED <<shownRows, recovering, registered>>, IntentsOK(soughtIntents', shownRows),
             \A o \in Sought : soughtIntents'[o].phase = "unresolved"
                               => soughtIntents[o].phase = "unresolved",
             PassOK(search', shownRows),
             search'.at \in {"raised", "returned"} => search'.at = search.at,
             searchHalted' = searchHalted
      PROVE  SearchInv'
  BY <1>2 DEF SearchInv, HaltOK
<1>3. search \in Searches /\ searchHalted \in BOOLEAN
  BY DEF SearchInv, PassOK, HaltOK
<1>4. \A at \in SearchSteps : /\ PassOK([NoSearch EXCEPT !.at = at], shownRows)
                              /\ [NoSearch EXCEPT !.at = at].at = at
  BY EmptyPassIsOK
<1>5. ASSUME NEW over \in Books \cup {NoId}, BeginSearch(over)
      PROVE  SearchInv'
  <2> DEFINE some == {c \in Sought : Store!Unresolved(c)}
             new == [NoSearch EXCEPT !.at = "group", !.over = over, !.todo = some]
  <2>1. search' = new /\ UNCHANGED <<shownRows, soughtIntents, recovering, searchHalted, registered>>
    BY <1>5 DEF BeginSearch
  <2>2. NoSearch \in Searches /\ NoSearch.rows = {} /\ NoSearch.found = {}
    BY DEF NoSearch, Searches, SearchSteps
  <2>3. some \subseteq Sought
    OBVIOUS
  <2> HIDE DEF some
  <2>4. new \in Searches /\ new.rows = {} /\ new.found = {} /\ new.at = "group"
    BY <2>2, <2>3 DEF Searches, SearchSteps
  <2> HIDE DEF new
  <2>5. PassOK(new, shownRows)
    BY <2>4 DEF PassOK
  <2>6. QED
    BY <1>1, <1>3, <2>1, <2>4, <2>5 DEF HaltOK
<1>6. ASSUME NEW own \in Books, ReadBook(own)
      PROVE  SearchInv'
  <2> DEFINE visible == UNION {UnderId(Listed, c, RouteRead(own)) : c \in SearchedFor(own)}
  <2>1. UNCHANGED <<shownRows, soughtIntents, recovering, registered>> /\ search.at = "group"
    BY <1>6 DEF ReadBook
  <2>2. \/ /\ search' = [search EXCEPT !.at = "intents", !.book = own, !.rows = visible]
           /\ UNCHANGED searchHalted
        \/ search' = [NoSearch EXCEPT !.at = "unavailable"] /\ UNCHANGED searchHalted
        \/ search' = [NoSearch EXCEPT !.at = "raised"] /\ searchHalted' = TRUE
    BY <1>6 DEF ReadBook
  <2>3. visible \subseteq Listed
    BY DEF UnderId
  <2> HIDE DEF visible
  <2>4. CASE /\ search' = [search EXCEPT !.at = "intents", !.book = own, !.rows = visible]
             /\ UNCHANGED searchHalted
    <3>1. visible \subseteq SoughtIds /\ \A b \in visible : shownRows[b] # NoId
      BY <2>3 DEF Listed
    <3>2. search' \in Searches /\ search'.at = "intents" /\ search'.rows = visible
          /\ search'.found = search.found
      BY <1>3, <2>4, <3>1 DEF Searches, SearchSteps
    <3>3. search.found = {}
      BY <2>1 DEF SearchInv, PassOK
    <3>4. PassOK(search', shownRows)
      BY <3>1, <3>2, <3>3 DEF PassOK
    <3>5. QED
      BY <1>1, <1>3, <2>1, <2>4, <3>2, <3>4 DEF HaltOK
  <2>5. CASE search' = [NoSearch EXCEPT !.at = "unavailable"] /\ UNCHANGED searchHalted
    <3>1. PassOK(search', shownRows) /\ search'.at = "unavailable"
      BY <1>4, <2>5 DEF SearchSteps
    <3>2. QED
      BY <1>1, <1>3, <2>1, <2>5, <3>1 DEF HaltOK
  <2>6. CASE search' = [NoSearch EXCEPT !.at = "raised"] /\ searchHalted' = TRUE
    <3>1. PassOK(search', shownRows) /\ search'.at = "raised"
      BY <1>4, <2>6 DEF SearchSteps
    <3>2. QED
      BY <1>1, <2>1, <2>6, <3>1 DEF HaltOK
  <2>7. QED
    BY <2>2, <2>4, <2>5, <2>6
<1>7. CASE NextBook
  <2>1. /\ search' = [search EXCEPT !.at = "group", !.book = NoId, !.rows = {}, !.found = {}]
        /\ UNCHANGED <<shownRows, soughtIntents, recovering, searchHalted, registered>>
    BY <1>7 DEF NextBook
  <2>2. search' \in Searches /\ search'.at = "group" /\ search'.rows = {} /\ search'.found = {}
    BY <1>3, <2>1 DEF Searches, SearchSteps
  <2>3. PassOK(search', shownRows)
    BY <2>2 DEF PassOK
  <2>4. QED
    BY <1>1, <1>3, <2>1, <2>2, <2>3 DEF HaltOK
<1>8. CASE EndSearch
  <2>1. /\ searchHalted' = (searchHalted \/ \E c \in Sought : Store!Unresolved(c))
        /\ search' = [NoSearch EXCEPT !.at = "returned"]
        /\ UNCHANGED <<shownRows, soughtIntents, recovering, registered>>
    BY <1>8 DEF EndSearch
  <2>2. PassOK(search', shownRows) /\ search'.at = "returned"
    BY <1>4, <2>1 DEF SearchSteps
  <2>3. searchHalted' \in BOOLEAN
        /\ ((\E c \in Sought : soughtIntents[c].phase = "unresolved") => searchHalted')
    BY <1>3, <2>1 DEF Store!Unresolved
  <2>4. QED
    BY <1>1, <2>1, <2>2, <2>3 DEF HaltOK
<1>9. CASE LeaveSearch
  <2>1. search' = NoSearch /\ UNCHANGED <<shownRows, soughtIntents, recovering, searchHalted, registered>>
    BY <1>9 DEF LeaveSearch
  <2>2. /\ NoSearch \in Searches /\ NoSearch.rows = {} /\ NoSearch.found = {}
        /\ NoSearch.at = "idle"
    BY DEF NoSearch, Searches, SearchSteps
  <2>3. PassOK(search', shownRows) /\ search'.at = "idle"
    BY <2>1, <2>2 DEF PassOK
  <2>4. QED
    BY <1>1, <1>3, <2>1, <2>3 DEF HaltOK
<1>10. ASSUME NEW c \in Sought, RecordRefused(c)
       PROVE  SearchInv'
  <2>1. /\ search' = [NoSearch EXCEPT !.at = "unavailable"]
        /\ UNCHANGED <<shownRows, soughtIntents, recovering, searchHalted, registered>>
    BY <1>10 DEF RecordRefused
  <2>2. PassOK(search', shownRows) /\ search'.at = "unavailable"
    BY <1>4, <2>1 DEF SearchSteps
  <2>3. QED
    BY <1>1, <1>3, <2>1, <2>2 DEF HaltOK
<1>11. ASSUME NEW c \in Sought, FindIntent(c)
       PROVE  SearchInv'
  <2> DEFINE found == UnderId(search.rows, c, BookRead)
  <2>1. UNCHANGED <<shownRows, recovering, registered>> /\ search.at = "intents"
    BY <1>11 DEF FindIntent
  <2>2. \/ /\ search' = [search EXCEPT !.todo = @ \ {c}]
           /\ UNCHANGED <<soughtIntents, searchHalted>>
        \/ \E b \in found :
             /\ found = {b} /\ RowIsOf(c, b) /\ Store!RecordBrokerOrder(c, b, "NEW")
             /\ search' = [search EXCEPT !.at = "resolve", !.found = @ \cup {c}]
             /\ UNCHANGED searchHalted
        \/ /\ search' = [NoSearch EXCEPT !.at = "raised"] /\ searchHalted' = TRUE
           /\ UNCHANGED soughtIntents
    BY <1>11 DEF FindIntent
  <2>3. CASE /\ search' = [search EXCEPT !.todo = @ \ {c}]
             /\ UNCHANGED <<soughtIntents, searchHalted>>
    <3>1. /\ search' \in Searches /\ search'.at = "intents" /\ search'.rows = search.rows
          /\ search'.found = search.found /\ WhereRead(search') = WhereRead(search)
      BY <1>3, <2>1, <2>3 DEF Searches, WhereRead
    <3>2. PassOK(search', shownRows)
      BY <3>1 DEF SearchInv, PassOK
    <3>3. QED
      BY <1>1, <1>3, <2>1, <2>3, <3>1, <3>2 DEF HaltOK
  <2>4. ASSUME NEW b \in found, found = {b}, RowIsOf(c, b),
               Store!RecordBrokerOrder(c, b, "NEW"),
               search' = [search EXCEPT !.at = "resolve", !.found = @ \cup {c}],
               UNCHANGED searchHalted
        PROVE  SearchInv'
    <3>1. /\ b \in search.rows /\ shownRows[b].client = c /\ shownRows[b].book = BookRead
      BY <2>4 DEF UnderId
    <3>2. b \in SoughtIds /\ shownRows[b] # NoId
      BY <1>3, <3>1 DEF SearchInv, PassOK, Searches
    <3>3. TheirRow(shownRows[b], c)
      BY <2>4, <3>1 DEF TheirRow, RowIsOf
    <3>4. /\ IntentsOK(soughtIntents', shownRows)
          /\ \A o \in Sought : soughtIntents'[o].phase = soughtIntents[o].phase
      BY <2>4, <3>2, <3>3, BoundToTheirs DEF SearchInv
    <3>5. /\ search' \in Searches /\ search'.at = "resolve" /\ search'.rows = search.rows
          /\ search'.found = search.found \cup {c} /\ WhereRead(search') = WhereRead(search)
      BY <1>3, <2>1, <2>4 DEF Searches, WhereRead, SearchSteps
    <3>6. RowsUnder(shownRows, search.rows, c, WhereRead(search)) = {b}
      <4>1. WhereRead(search) = BookRead
        BY DEF WhereRead, BookRead, RouteRead
      <4>2. QED
        BY <2>4, <4>1 DEF RowsUnder, UnderId
    <3>7. Cardinality({b}) = 1
      BY FS_Singleton
    <3>8. \A o \in search'.found :
            Cardinality(RowsUnder(shownRows, search'.rows, o, WhereRead(search'))) = 1
      <4> SUFFICES ASSUME NEW o \in search'.found
                   PROVE  Cardinality(RowsUnder(shownRows, search'.rows, o, WhereRead(search'))) = 1
        OBVIOUS
      <4>1. CASE o = c
        BY <3>5, <3>6, <3>7, <4>1
      <4>2. CASE o \in search.found
        BY <3>5, <4>2 DEF SearchInv, PassOK
      <4>3. QED
        BY <3>5, <4>1, <4>2
    <3>9. PassOK(search', shownRows)
      BY <3>5, <3>8 DEF SearchInv, PassOK
    <3>10. QED
      BY <1>2, <2>1, <2>4, <3>4, <3>5, <3>9
  <2>5. CASE /\ search' = [NoSearch EXCEPT !.at = "raised"] /\ searchHalted' = TRUE
             /\ UNCHANGED soughtIntents
    <3>1. PassOK(search', shownRows) /\ search'.at = "raised"
      BY <1>4, <2>5 DEF SearchSteps
    <3>2. QED
      BY <1>1, <2>1, <2>5, <3>1 DEF HaltOK
  <2>6. QED
    BY <2>2, <2>3, <2>4, <2>5
<1>12. ASSUME NEW c \in Sought, ResolveFound(c)
       PROVE  SearchInv'
  <2> DEFINE new == [soughtIntents[c] EXCEPT !.phase = "resolved"]
  <2>1. /\ search.at = "resolve" /\ UNCHANGED <<shownRows, recovering, searchHalted, registered>>
        /\ search' = [search EXCEPT !.at = "intents", !.todo = @ \ {c}]
        /\ soughtIntents' = [soughtIntents EXCEPT ![c] = new]
    BY <1>12 DEF ResolveFound, Store!ResolveIntent
  <2>2. IntentOK(soughtIntents[c], c, shownRows)
    BY DEF SearchInv, IntentsOK
  <2>3. new \in Store!Intent /\ new.broker = soughtIntents[c].broker /\ new.phase = "resolved"
    BY <2>2 DEF IntentOK, Store!Intent, Store!Phases
  <2> HIDE DEF new
  <2>4. IntentOK(new, c, shownRows)
    BY <2>2, <2>3 DEF IntentOK
  <2>5. /\ IntentsOK(soughtIntents', shownRows)
        /\ \A o \in Sought : soughtIntents'[o].phase = "unresolved"
                               => soughtIntents[o].phase = "unresolved"
    BY <2>1, <2>3, <2>4, ResolvedKeeps
  <2>6. /\ search' \in Searches /\ search'.at = "intents" /\ search'.rows = search.rows
        /\ search'.found = search.found /\ WhereRead(search') = WhereRead(search)
    BY <1>3, <2>1 DEF Searches, WhereRead, SearchSteps
  <2>7. PassOK(search', shownRows)
    BY <2>6 DEF SearchInv, PassOK
  <2>8. QED
    BY <1>2, <2>1, <2>5, <2>6, <2>7
<1>13. QED
  BY <1>5, <1>6, <1>7, <1>8, <1>9, <1>10, <1>11, <1>12 DEF PassSteps

\* What another process writes after its submission raised.
LEMMA LookupKeeps ==
  ASSUME SearchInv, LookupSteps
  PROVE  SearchInv'
<1>1. ASSUME NEW c \in Sought, NEW r, LookupOK(r, c, shownRows),
             recovering' = [recovering EXCEPT ![c] = r]
      PROVE  LookupsOK(recovering', shownRows)
  BY <1>1 DEF SearchInv, LookupsOK
<1>2. LookupOK(NoRecovery, NoId, shownRows) /\ \A c \in Sought : LookupOK(NoRecovery, c, shownRows)
  BY DEF LookupOK, NoRecovery
<1>3. CASE RouterRecovers
  BY <1>3 DEF RouterRecovers, SearchInv, HaltOK
<1>4. ASSUME NEW c \in Sought, GatewayFinds(c)
      PROVE  SearchInv'
  <2>1. PICK b \in SoughtIds :
          /\ UnderId(Listed, c, SoughtIn[c]) = {b} /\ shownRows[b].terms = SoughtTerms[c]
          /\ recovering' = [recovering EXCEPT ![c] = [at |-> "record", broker |-> b]]
    BY <1>4 DEF GatewayFinds
  <2>2. UNCHANGED <<shownRows, soughtIntents, search, searchHalted, registered>>
    BY <1>4 DEF GatewayFinds
  <2>3. /\ shownRows[b] # NoId /\ shownRows[b].client = c /\ shownRows[b].book = SoughtIn[c]
    BY <2>1 DEF UnderId, Listed
  <2>4. LookupOK([at |-> "record", broker |-> b], c, shownRows)
    BY <2>1, <2>3 DEF LookupOK, TheirRow
  <2>5. LookupsOK(recovering', shownRows)
    BY <1>1, <2>1, <2>4
  <2>6. QED
    BY <2>2, <2>5 DEF SearchInv
<1>5. ASSUME NEW c \in Sought, GatewayRecords(c)
      PROVE  SearchInv'
  <2> DEFINE b == recovering[c].broker
  <2>1. /\ recovering[c].at = "record"
        /\ UNCHANGED <<shownRows, search, searchHalted, registered>>
    BY <1>5 DEF GatewayRecords
  <2>2. /\ b \in SoughtIds /\ shownRows[b] # NoId /\ TheirRow(shownRows[b], c)
    BY <2>1 DEF SearchInv, LookupsOK, LookupOK
  <2>3. CASE /\ Store!RecordBrokerOrder(c, b, "NEW")
             /\ recovering' = [recovering EXCEPT ![c] = [at |-> "resolve", broker |-> b]]
    <3>1. LookupOK([at |-> "resolve", broker |-> b], c, shownRows)
      BY <2>2 DEF LookupOK
    <3>2. LookupsOK(recovering', shownRows)
      BY <1>1, <2>3, <3>1
    <3>3. /\ IntentsOK(soughtIntents', shownRows)
          /\ \A o \in Sought : soughtIntents'[o].phase = soughtIntents[o].phase
      BY <2>2, <2>3, BoundToTheirs DEF SearchInv
    <3>4. QED
      BY <2>1, <3>2, <3>3 DEF SearchInv, HaltOK
  <2>4. CASE UNCHANGED soughtIntents /\ recovering' = [recovering EXCEPT ![c] = NoRecovery]
    <3>1. LookupsOK(recovering', shownRows)
      BY <1>1, <1>2, <2>4
    <3>2. QED
      BY <2>1, <2>4, <3>1 DEF SearchInv
  <2>5. QED
    BY <1>5, <2>3, <2>4 DEF GatewayRecords
<1>6. ASSUME NEW c \in Sought, GatewayResolves(c)
      PROVE  SearchInv'
  <2> DEFINE new == [soughtIntents[c] EXCEPT !.phase = "resolved"]
  <2>1. /\ UNCHANGED <<shownRows, search, searchHalted, registered>>
        /\ recovering' = [recovering EXCEPT ![c] = NoRecovery]
        /\ soughtIntents' = [soughtIntents EXCEPT ![c] = new]
    BY <1>6 DEF GatewayResolves, Store!ResolveIntent
  <2>2. IntentOK(soughtIntents[c], c, shownRows)
    BY DEF SearchInv, IntentsOK
  <2>3. new \in Store!Intent /\ new.broker = soughtIntents[c].broker /\ new.phase = "resolved"
    BY <2>2 DEF IntentOK, Store!Intent, Store!Phases
  <2> HIDE DEF new
  <2>4. IntentOK(new, c, shownRows)
    BY <2>2, <2>3 DEF IntentOK
  <2>5. /\ IntentsOK(soughtIntents', shownRows)
        /\ \A o \in Sought : soughtIntents'[o].phase = "unresolved"
                               => soughtIntents[o].phase = "unresolved"
    BY <2>1, <2>3, <2>4, ResolvedKeeps
  <2>6. LookupsOK(recovering', shownRows)
    BY <1>1, <1>2, <2>1
  <2>7. QED
    BY <2>1, <2>5, <2>6 DEF SearchInv, HaltOK
<1>7. ASSUME NEW c \in Sought, GatewayEnds(c)
      PROVE  SearchInv'
  <2>1. LookupsOK(recovering', shownRows)
    BY <1>1, <1>2, <1>7 DEF GatewayEnds
  <2>2. QED
    BY <1>7, <2>1 DEF GatewayEnds, SearchInv
<1>8. QED
  BY <1>3, <1>4, <1>5, <1>6, <1>7 DEF LookupSteps

LEMMA SearchInvStep == SearchInv /\ [SearchNext]_searchVars => SearchInv'
<1> SUFFICES ASSUME SearchInv, [SearchNext]_searchVars  PROVE SearchInv'
  OBVIOUS
<1>1. CASE UNCHANGED searchVars
  <2>1. UNCHANGED <<shownRows, soughtIntents, search, recovering, searchHalted, registered>>
    BY <1>1 DEF searchVars
  <2>2. QED
    BY <2>1 DEF SearchInv
<1>2. CASE SearchNext
  <2>1. CASE RowSteps
    BY <2>1, RowsAndRegistry
  <2>2. CASE PassSteps
    BY <2>2, PassKeeps
  <2>3. CASE LookupSteps
    BY <2>3, LookupKeeps
  <2>4. CASE \E b \in SoughtIds : BindRow(b) \/ \E seen \in PossibleRows : RowAppears(b, seen)
    BY <2>1, <2>4 DEF RowSteps
  <2>5. CASE \E c \in Sought, b \in SoughtIds, seen \in PossibleRows : AnsweredBefore(c, b, seen)
    BY <2>1, <2>5 DEF RowSteps
  <2>6. CASE \E book \in Books : ReadBook(book) \/ BeginSearch(book)
    BY <2>2, <2>6 DEF PassSteps
  <2>7. CASE BeginSearch(NoId) \/ NextBook \/ EndSearch \/ LeaveSearch
    BY <2>2, <2>7 DEF PassSteps
  <2>8. CASE \E c \in Sought : FindIntent(c) \/ RecordRefused(c) \/ ResolveFound(c)
    BY <2>2, <2>8 DEF PassSteps
  <2>9. CASE \/ RouterRecovers
             \/ \E c \in Sought : \/ GatewayFinds(c) \/ GatewayRecords(c)
                                 \/ GatewayResolves(c) \/ GatewayEnds(c)
    BY <2>3, <2>9 DEF LookupSteps
  <2>10. QED
    BY <1>2, <2>4, <2>5, <2>6, <2>7, <2>8, <2>9 DEF SearchNext
<1>3. QED
  BY <1>1, <1>2

\* An order is taken for the broker's only on evidence: an intent is bound to an order
\* that may be its, found in a snapshot as the only one under its id; a row that names a
\* local order is registered as no other; and a pass that ends with an intent left, or met
\* rows it cannot tell apart, has halted trading. For any rows, ids and books
\* (reconcile_unresolved_submission_intents, ReconciliationMatcher.match).
THEOREM OrdersFoundAreTheirsCorrect == SearchSpec => []OrdersFoundAreTheirs
<1>1. ASSUME SearchInv
      PROVE  OrdersFoundAreTheirs
  <2>1. ASSUME NEW c \in Sought, soughtIntents[c].broker # NoId
        PROVE  TheirRow(shownRows[soughtIntents[c].broker], c)
    BY <1>1, <2>1 DEF SearchInv, IntentsOK, IntentOK
  <2>2. ASSUME NEW c \in search.found
        PROVE  Cardinality(UnderId(search.rows, c, BookRead)) = 1
    <3>1. WhereRead(search) = BookRead
      BY DEF WhereRead, BookRead, RouteRead
    <3>2. UnderId(search.rows, c, BookRead) = RowsUnder(shownRows, search.rows, c, WhereRead(search))
      BY <3>1 DEF RowsUnder, UnderId
    <3>3. QED
      BY <1>1, <2>2, <3>2 DEF SearchInv, PassOK
  <2>3. ASSUME NEW c \in Sought, registered[c] # NoId
        PROVE  LET seen == shownRows[registered[c]] IN
               seen.client = c \/ seen.client \notin InScope(seen)
    BY <1>1, <2>3 DEF SearchInv, RegisteredOK, InScope, ScopeOf
  <2>4. /\ search.at = "raised" => searchHalted
        /\ search.at = "returned" /\ (\E c \in Sought : Store!Unresolved(c)) => searchHalted
    BY <1>1 DEF SearchInv, HaltOK, Store!Unresolved
  <2>5. QED
    BY <2>1, <2>2, <2>3, <2>4 DEF OrdersFoundAreTheirs, TheirRow
<1>2. QED
  BY <1>1, SearchInvInit, SearchInvStep, PTL DEF SearchSpec

\* Rows, intents, the pass and the registry keep their types, for any rows, ids and books
\* (broker_router.py, reconciliation_matcher.py).
THEOREM SearchTypeCorrect == SearchSpec => []SearchTypeOK
<1> DEFINE Possible == \A b \in SoughtIds : shownRows[b] \in {NoId} \cup PossibleRows
<1>1. SearchInit => Possible
  BY DEF SearchInit
<1>2. SearchInv /\ Possible /\ [SearchNext]_searchVars => Possible'
  <2> SUFFICES ASSUME SearchInv, Possible, [SearchNext]_searchVars PROVE Possible'
    OBVIOUS
  <2>1. CASE \E b \in SoughtIds, seen \in PossibleRows :
               shownRows' = [shownRows EXCEPT ![b] = seen]
    BY <2>1 DEF SearchInv
  <2>2. CASE UNCHANGED shownRows
    BY <2>2
  <2>3. QED
    BY <2>1, <2>2
    DEF SearchNext, searchVars, BindRow, RowAppears, ReadBook, BeginSearch, AnsweredBefore,
        NextBook, EndSearch, LeaveSearch, FindIntent, RecordRefused, ResolveFound,
        RouterRecovers, GatewayFinds, GatewayRecords, GatewayResolves, GatewayEnds
<1>3. SearchInv /\ Possible => SearchTypeOK
  <2> SUFFICES ASSUME SearchInv, Possible PROVE SearchTypeOK
    OBVIOUS
  <2>1. Store!IntentsTypeOK
    BY DEF SearchInv, IntentsOK, IntentOK, Store!IntentsTypeOK
  <2>2. registered \in [Sought -> SoughtIds \cup {NoId}]
    BY DEF SearchInv, RegisteredOK
  <2>3. search \in Searches /\ searchHalted \in BOOLEAN
    BY DEF SearchInv, PassOK, HaltOK
  <2>4. \A c \in Sought : /\ recovering[c].at \in {"idle", "record", "resolve"}
                          /\ recovering[c].broker \in SoughtIds \cup {NoId}
    BY DEF SearchInv, LookupsOK, LookupOK
  <2>5. QED
    BY <2>1, <2>2, <2>3, <2>4 DEF SearchTypeOK, Searches, SearchSteps
<1> HIDE DEF Possible
<1>4. QED
  BY <1>1, <1>2, <1>3, SearchInvInit, SearchInvStep, PTL DEF SearchSpec

HIDE IdentityRecoveryAssumption

-----------------------------------------------------------------------------
(* The files of the safety state and of the execution state.                *)

USE FilesAssumption


\* What may be left of the calls of a save or a restore: from the renaming of the primary
\* on; with the temporary file still to be written; with the backup still to be taken,
\* before that (First...) and after it (Last...).
LeftDir == <<"syncDir">>
LeftReplace == <<"replace", "syncDir">>
LeftSync == <<"sync", "replace", "syncDir">>
LeftWrite == <<"write", "sync", "replace", "syncDir">>
FirstReplace == <<"replaceBackup", "open", "write", "sync", "replace", "syncDir">>
FirstSync == <<"syncCopy", "replaceBackup", "open", "write", "sync", "replace", "syncDir">>
LastReplace == <<"replaceBackup", "replace", "syncDir">>
LastSync == <<"syncCopy", "replaceBackup", "replace", "syncDir">>
LastCopy == <<"copy", "syncCopy", "replaceBackup", "replace", "syncDir">>
LastWritten == <<"sync", "copy", "syncCopy", "replaceBackup", "replace", "syncDir">>
LastOpened == <<"write", "sync", "copy", "syncCopy", "replaceBackup", "replace", "syncDir">>

LEMMA NextCalls ==
  /\ Head(LeftDir) = "syncDir"
  /\ Head(LeftReplace) = "replace" /\ Tail(LeftReplace) = LeftDir
  /\ Head(LeftSync) = "sync" /\ Tail(LeftSync) = LeftReplace
  /\ Head(LeftWrite) = "write" /\ Tail(LeftWrite) = LeftSync
  /\ Head(Replacing) = "open" /\ Tail(Replacing) = LeftWrite
  /\ Head(FirstReplace) = "replaceBackup" /\ Tail(FirstReplace) = Replacing
  /\ Head(FirstSync) = "syncCopy" /\ Tail(FirstSync) = FirstReplace
  /\ Head(BackingUpFirst) = "copy" /\ Tail(BackingUpFirst) = FirstSync
  /\ Head(LastReplace) = "replaceBackup" /\ Tail(LastReplace) = LeftReplace
  /\ Head(LastSync) = "syncCopy" /\ Tail(LastSync) = LastReplace
  /\ Head(LastCopy) = "copy" /\ Tail(LastCopy) = LastSync
  /\ Head(LastWritten) = "sync" /\ Tail(LastWritten) = LastCopy
  /\ Head(LastOpened) = "write" /\ Tail(LastOpened) = LastWritten
  /\ Head(BackingUpLast) = "open" /\ Tail(BackingUpLast) = LastOpened
BY DEF LeftDir, LeftReplace, LeftSync, LeftWrite, Replacing, FirstReplace, FirstSync,
       BackingUpFirst, LastReplace, LastSync, LastCopy, LastWritten, LastOpened, BackingUpLast

FileRow == [kind : {"absent", "torn", "whole"}, save : Nat, old : BOOLEAN, synced : BOOLEAN]
Disk == [FileNames -> FileRow]

\* The oldest state that may be loaded from the primary.
Oldest == IF damaged THEN earlier ELSE completed

\* What a crash may leave: what is not synchronised is in the temporary files, and the
\* primary is whole unless it has been damaged or there was no save.
DiskOK(d) ==
  /\ d \in Disk
  /\ \A f \in FileNames : d[f].kind = "absent" => d[f].synced
  /\ d["primary"].kind = "absent" =>
       d["backup"].kind = "absent" /\ completed = 0 /\ earlier = 0
  /\ d["primary"].kind = "torn" => damaged
  /\ d["primary"].kind = "whole" => d["primary"].synced /\ d["primary"].save >= Oldest
  /\ d["backup"].kind = "whole" => d["backup"].synced /\ d["backup"].save >= earlier

\* What the calls made so far have established for those that are left.
There == onDisk["primary"].kind # "absent"
Written ==
  onDisk["tmp"].kind = "whole" /\ onDisk["tmp"].save = writing.contents.save
Safe == Written /\ onDisk["tmp"].synced
Copied ==
  /\ onDisk["backupTmp"].kind = onDisk["primary"].kind
  /\ onDisk["backupTmp"].save = onDisk["primary"].save
CopySafe == Copied /\ onDisk["backupTmp"].synced
BackedUp ==
  writing.saving /\ onDisk["backup"].kind = "whole" => onDisk["backup"].save >= Oldest
Replaced ==
  onDisk["primary"].kind = "whole" /\ onDisk["primary"].save = writing.contents.save

CallsOK ==
  \/ writing.calls = LeftDir /\ Replaced /\ BackedUp
  \/ writing.calls = LeftReplace /\ Safe /\ BackedUp
  \/ writing.calls = LeftSync /\ Written /\ BackedUp
  \/ writing.calls = LeftWrite /\ BackedUp
  \/ writing.calls = Replacing /\ BackedUp
  \/ writing.calls = FirstReplace /\ There /\ CopySafe
  \/ writing.calls = FirstSync /\ There /\ Copied
  \/ writing.calls = BackingUpFirst /\ There
  \/ writing.calls = LastReplace /\ There /\ Safe /\ CopySafe
  \/ writing.calls = LastSync /\ There /\ Safe /\ Copied
  \/ writing.calls = LastCopy /\ There /\ Safe
  \/ writing.calls = LastWritten /\ There /\ Written
  \/ writing.calls = LastOpened /\ There
  \/ writing.calls = BackingUpLast /\ There

WritingOK ==
  /\ writing = [calls |-> writing.calls, contents |-> writing.contents,
                saving |-> writing.saving, undo |-> writing.undo]
  /\ writing.saving \in BOOLEAN /\ writing.contents \in FileRow
  /\ writing.contents.kind = "whole" /\ writing.contents.save >= Oldest
  /\ writing.saving => writing.contents.save <= saves
  /\ CallsOK
  /\ \A d \in writing.undo : DiskOK(d)

FilesInv ==
  /\ damaged \in BOOLEAN /\ completed \in Nat /\ earlier \in Nat /\ saves \in Nat
  /\ completed <= saves /\ earlier <= completed
  /\ DiskOK(onDisk)
  /\ writing = NoWriting \/ WritingOK

LEMMA FilesStart == FilesInit => FilesInv
<1> SUFFICES ASSUME FilesInit PROVE FilesInv
  OBVIOUS
<1>1. PICK was \in {NotThere, OfOlderSchema} :
        /\ onDisk = [f \in FileNames |-> IF f = "primary" THEN was ELSE NotThere]
        /\ completed = was.save /\ saves = was.save
  BY DEF FilesInit
<1>4. NotThere \in FileRow /\ NotThere.kind = "absent" /\ NotThere.synced
  BY DEF FileRow, NotThere
<1>5. was \in FileRow /\ was.synced = TRUE /\ was.save \in Nat
  <2>1. NotThere.synced = TRUE /\ NotThere.save = 0
    BY DEF NotThere
  <2>2. OfOlderSchema \in FileRow /\ OfOlderSchema.synced = TRUE /\ OfOlderSchema.save = 1
    BY DEF FileRow, OfOlderSchema
  <2>3. QED
    BY <1>1, <1>4, <2>1, <2>2
<1>6. \/ was.kind = "absent" /\ was.save = 0
      \/ was.kind = "whole" /\ was.save = 1
  BY <1>1 DEF NotThere, OfOlderSchema
<1>7. onDisk \in Disk /\ onDisk["primary"] = was
      /\ \A f \in FileNames : f # "primary" => onDisk[f] = NotThere
  BY <1>1, <1>4, <1>5 DEF Disk, FileNames
<1>8. DiskOK(onDisk)
  BY <1>1, <1>4, <1>5, <1>6, <1>7 DEF DiskOK, FileNames, FilesInit, Oldest
<1>9. QED
  <2>1. writing = NoWriting /\ earlier = 0 /\ damaged = FALSE
    BY DEF FilesInit
  <2>2. completed \in Nat /\ completed = saves
    BY <1>1, <1>5
  <2>3. earlier \in Nat /\ completed <= saves /\ earlier <= completed
    BY <2>1, <2>2, SMT
  <2>4. QED
    BY <1>8, <2>1, <2>2, <2>3, Zenon DEF FilesInv

\* Of the calls of a save, the next one and those that are left after it.
LEMMA CallsFollow ==
  ASSUME CallsOK
  PROVE  /\ Doing("open") =>
              \/ Tail(writing.calls) = LeftWrite /\ BackedUp
              \/ Tail(writing.calls) = LastOpened /\ There
         /\ Doing("write") =>
              \/ Tail(writing.calls) = LeftSync /\ BackedUp
              \/ Tail(writing.calls) = LastWritten /\ There
         /\ Doing("sync") =>
              \/ Tail(writing.calls) = LeftReplace /\ Written /\ BackedUp
              \/ Tail(writing.calls) = LastCopy /\ There /\ Written
         /\ Doing("copy") =>
              \/ Tail(writing.calls) = FirstSync /\ There
              \/ Tail(writing.calls) = LastSync /\ There /\ Safe
         /\ Doing("syncCopy") =>
              \/ Tail(writing.calls) = FirstReplace /\ There /\ Copied
              \/ Tail(writing.calls) = LastReplace /\ There /\ Safe /\ Copied
         /\ Doing("replaceBackup") =>
              \/ Tail(writing.calls) = Replacing /\ There /\ CopySafe
              \/ Tail(writing.calls) = LeftReplace /\ There /\ Safe /\ CopySafe
         /\ Doing("replace") => Tail(writing.calls) = LeftDir /\ Safe /\ BackedUp
         /\ Doing("syncDir") => Replaced /\ BackedUp
BY NextCalls, Zenon DEF CallsOK, Doing


LEMMA SaveBegins == FilesInv /\ BeginSave => FilesInv'
<1> SUFFICES ASSUME FilesInv, BeginSave PROVE FilesInv'
  OBVIOUS
<1>1. /\ DiskOK(onDisk)' /\ damaged' \in BOOLEAN /\ completed' \in Nat /\ earlier' \in Nat
      /\ saves' \in Nat /\ saves' = saves + 1 /\ completed' <= saves'
      /\ earlier' <= completed' /\ UNCHANGED <<onDisk, damaged, completed, earlier>>
  BY DEF FilesInv, BeginSave, DiskOK, Oldest
<1>2. writing' = [calls |-> SaveCalls(Exists("primary")), contents |-> Whole(saves + 1),
                  saving |-> TRUE, undo |-> {}]
  BY DEF BeginSave
<1>3. /\ writing'.contents = Whole(saves + 1) /\ writing'.saving = TRUE /\ writing'.undo = {}
      /\ writing'.calls = SaveCalls(Exists("primary"))
  BY <1>2
<1>4. /\ Whole(saves + 1) \in FileRow /\ Whole(saves + 1).kind = "whole"
      /\ Whole(saves + 1).save = saves + 1
  BY <1>1 DEF Whole, FileRow
<1>6. saves + 1 >= Oldest'
  BY <1>1 DEF FilesInv, Oldest
<1>7. CallsOK'
  <2>1. CASE Exists("primary")
    <3>1. writing'.calls = BackingUpFirst \/ writing'.calls = BackingUpLast
      BY <1>3, <2>1 DEF SaveCalls
    <3>2. There'
      BY <1>1, <2>1 DEF There, Exists
    <3>3. QED
      BY <3>1, <3>2, Zenon DEF CallsOK
  <2>2. CASE ~Exists("primary")
    <3>1. writing'.calls = Replacing
      BY <1>3, <2>2 DEF SaveCalls
    <3>2. BackedUp'
      BY <1>1, <2>2 DEF BackedUp, Exists, FilesInv, DiskOK
    <3>3. QED
      BY <3>1, <3>2, Zenon DEF CallsOK
  <2>3. QED
    BY <2>1, <2>2
<1>8. WritingOK'
  BY <1>1, <1>2, <1>3, <1>4, <1>6, <1>7 DEF WritingOK
<1>9. QED
  BY <1>1, <1>8 DEF FilesInv

LEMMA RestoreBegins == FilesInv /\ Restore => FilesInv'
<1> SUFFICES ASSUME FilesInv, Restore PROVE FilesInv'
  OBVIOUS
<1>1. /\ DiskOK(onDisk)' /\ damaged' \in BOOLEAN /\ completed' \in Nat /\ earlier' \in Nat
      /\ saves' \in Nat /\ completed' <= saves' /\ earlier' <= completed'
      /\ UNCHANGED <<onDisk, damaged, completed, earlier>>
  BY DEF FilesInv, Restore, DiskOK, Oldest
<1>2. writing' = [calls |-> Replacing, contents |-> Whole(Loaded), saving |-> FALSE,
                  undo |-> {}]
  BY DEF Restore
<1>3. /\ writing'.contents = Whole(Loaded) /\ writing'.saving = FALSE /\ writing'.undo = {}
      /\ writing'.calls = Replacing
  BY <1>2
<1>4. Loaded \in Nat /\ Loaded >= Oldest
  <2>1. \/ LoadedFrom = "primary" /\ onDisk["primary"].kind = "whole"
        \/ /\ LoadedFrom = "backup" /\ onDisk["primary"].kind # "whole"
           /\ onDisk["backup"].kind = "whole"
    BY DEF Restore, LoadedFrom, Readable, FileNames
  <2>2. \A f \in FileNames : onDisk[f] \in FileRow
    BY DEF FilesInv, DiskOK, Disk
  <2>3. onDisk["primary"].kind \in {"absent", "torn", "whole"}
        /\ onDisk["primary"].save \in Nat /\ onDisk["backup"].save \in Nat
    BY <2>2 DEF FileRow, FileNames
  <2>4. CASE LoadedFrom = "primary"
    BY <2>1, <2>3, <2>4 DEF Loaded, FileNames, FilesInv, DiskOK
  <2>5. CASE LoadedFrom = "backup"
    BY <2>1, <2>3, <2>5 DEF Loaded, FileNames, FilesInv, DiskOK, Oldest
  <2>6. QED
    BY <2>1, <2>4, <2>5
<1>5. /\ Whole(Loaded) \in FileRow /\ Whole(Loaded).kind = "whole"
      /\ Whole(Loaded).save = Loaded
  BY <1>4 DEF Whole, FileRow
<1>7. CallsOK'
  <2>1. BackedUp'
    BY <1>3 DEF BackedUp
  <2>2. QED
    BY <1>3, <2>1, Zenon DEF CallsOK
<1>8. Oldest' = Oldest
  BY <1>1 DEF Oldest
<1>9. WritingOK'
  BY <1>1, <1>2, <1>3, <1>4, <1>5, <1>7, <1>8 DEF WritingOK
<1>10. QED
  BY <1>1, <1>9 DEF FilesInv

\* Damage makes an older state the oldest that may be loaded.
LEMMA DamageIsMet == FilesInv /\ PrimaryDamaged => FilesInv'
<1> SUFFICES ASSUME FilesInv, PrimaryDamaged PROVE FilesInv'
  OBVIOUS
<1>1. /\ damaged' = TRUE /\ onDisk' = [onDisk EXCEPT !["primary"] = Torn]
      /\ UNCHANGED <<writing, completed, earlier, saves>> /\ writing = NoWriting
  BY DEF PrimaryDamaged
<1>2. Torn \in FileRow /\ Torn.kind = "torn"
  BY DEF Torn, FileRow
<1>3. onDisk' \in Disk /\ onDisk'["primary"] = Torn
      /\ \A f \in FileNames : f # "primary" => onDisk'[f] = onDisk[f]
  BY <1>1, <1>2 DEF FilesInv, DiskOK, Disk, FileNames
<1>4. DiskOK(onDisk)'
  BY <1>1, <1>2, <1>3 DEF FilesInv, DiskOK, FileNames
<1>5. QED
  BY <1>1, <1>4 DEF FilesInv

\* What a crash leaves is a disk that may be left, whatever was not synchronised.
LEMMA CrashIsMet == FilesInv /\ FileCrash => FilesInv'
<1> SUFFICES ASSUME FilesInv, FileCrash PROVE FilesInv'
  OBVIOUS
<1>1. writing' = NoWriting /\ UNCHANGED <<completed, earlier, damaged, saves>>
  BY DEF FileCrash
<1>2. PICK diskKept \in writing.undo \cup {onDisk} :
        \E lost \in SUBSET {f \in FileNames : ~diskKept[f].synced} :
          onDisk' = [f \in FileNames |-> IF f \in lost THEN Torn ELSE diskKept[f]]
  BY DEF FileCrash
<1>3. DiskOK(diskKept)
  <2>1. CASE writing = NoWriting
    BY <1>2, <2>1 DEF FilesInv, NoWriting
  <2>2. CASE WritingOK
    BY <1>2, <2>2 DEF FilesInv, WritingOK
  <2>3. QED
    BY <2>1, <2>2 DEF FilesInv
<1>4. Torn \in FileRow /\ Torn.kind = "torn"
  BY DEF Torn, FileRow
<1>5. onDisk' \in Disk
  BY <1>2, <1>3, <1>4 DEF DiskOK, Disk
<1>6. \A f \in FileNames : onDisk'[f] = diskKept[f]
                             \/ (onDisk'[f] = Torn /\ ~diskKept[f].synced)
  BY <1>2
<1>7. \A f \in FileNames : onDisk'[f].kind = "absent" => onDisk'[f].synced
  BY <1>3, <1>4, <1>6 DEF DiskOK
<1>8. "primary" \in FileNames /\ "backup" \in FileNames
  BY DEF FileNames
<1>9. diskKept["primary"].kind \in {"absent", "torn", "whole"}
  BY <1>3, <1>8 DEF DiskOK, Disk, FileRow
<1>10. onDisk'["primary"] = diskKept["primary"] \/ (onDisk'["primary"] = Torn /\ damaged)
  BY <1>3, <1>6, <1>8, <1>9 DEF DiskOK
<1>11. onDisk'["backup"] = diskKept["backup"] \/ onDisk'["backup"] = Torn
  BY <1>6, <1>8
<1>12. diskKept["backup"].kind = "absent" => onDisk'["backup"] = diskKept["backup"]
  BY <1>3, <1>6, <1>8 DEF DiskOK
<1>13. DiskOK(onDisk)'
  BY <1>1, <1>3, <1>4, <1>5, <1>7, <1>10, <1>11, <1>12 DEF DiskOK, Oldest
<1>14. QED
  BY <1>1, <1>13 DEF FilesInv

\* A call that leaves the directory as it is, or a renaming, and is not the last one.
LEMMA WritingGoesOn ==
  ASSUME WritingOK, DiskOK(onDisk), SystemCall, ~Doing("syncDir")
  PROVE  /\ UNCHANGED <<completed, earlier, damaged, saves>>
         /\ writing'.calls = Tail(writing.calls) /\ writing'.contents = writing.contents
         /\ writing'.saving = writing.saving
         /\ writing' = [calls |-> writing'.calls, contents |-> writing'.contents,
                        saving |-> writing'.saving, undo |-> writing'.undo]
         /\ \A d \in writing'.undo : DiskOK(d)'
         /\ Oldest' = Oldest
         /\ CallsOK' /\ DiskOK(onDisk)' => WritingOK'
<1>1. UNCHANGED <<completed, earlier, damaged, saves>>
  BY DEF SystemCall
<1>2. writing' = [writing EXCEPT !.calls = Tail(@),
                                 !.undo = IF Renames THEN @ \cup {onDisk} ELSE @]
  BY DEF SystemCall
<1>3. writing = [calls |-> writing.calls, contents |-> writing.contents,
                 saving |-> writing.saving, undo |-> writing.undo]
  BY DEF WritingOK
<1>4. writing' = [calls |-> Tail(writing.calls), contents |-> writing.contents,
                  saving |-> writing.saving,
                  undo |-> IF Renames THEN writing.undo \cup {onDisk} ELSE writing.undo]
  BY <1>2, <1>3
<1>5. /\ writing'.calls = Tail(writing.calls) /\ writing'.contents = writing.contents
      /\ writing'.saving = writing.saving
      /\ writing'.undo \subseteq writing.undo \cup {onDisk}
      /\ writing' = [calls |-> writing'.calls, contents |-> writing'.contents,
                     saving |-> writing'.saving, undo |-> writing'.undo]
  BY <1>4
<1>6. \A d \in writing.undo \cup {onDisk} : DiskOK(d)
  BY DEF WritingOK
<1>7. \A d \in writing'.undo : DiskOK(d)'
  BY <1>1, <1>5, <1>6 DEF DiskOK, Oldest
<1>8. Oldest' = Oldest
  BY <1>1 DEF Oldest
<1>9. CallsOK' => WritingOK'
  BY <1>1, <1>5, <1>7, <1>8 DEF WritingOK
<1>10. QED
  BY <1>1, <1>5, <1>7, <1>8, <1>9

\* What a file holds after a call that changes that file only.
LEMMA HoldingOne ==
  ASSUME onDisk \in Disk, NEW f \in FileNames, NEW fileRow \in FileRow, Holding(f, fileRow)
  PROVE  /\ onDisk' \in Disk /\ onDisk'[f] = fileRow
         /\ \A g \in FileNames : g # f => onDisk'[g] = onDisk[g]
BY DEF Holding, Disk

LEMMA RenamedOne ==
  ASSUME onDisk \in Disk, NEW f \in FileNames, NEW g \in FileNames, f # g, Renamed(f, g)
  PROVE  /\ onDisk' \in Disk /\ onDisk'[g] = onDisk[f] /\ onDisk'[f] = NotThere
         /\ \A h \in FileNames : h \notin {f, g} => onDisk'[h] = onDisk[h]
<1>1. NotThere \in FileRow
  BY DEF NotThere, FileRow
<1>2. QED
  BY <1>1 DEF Renamed, Disk

LEMMA SynchronisedRow ==
  ASSUME NEW fileRow \in FileRow, NEW b \in BOOLEAN
  PROVE  /\ [fileRow EXCEPT !.synced = b] \in FileRow
         /\ [fileRow EXCEPT !.synced = b].kind = fileRow.kind
         /\ [fileRow EXCEPT !.synced = b].save = fileRow.save
         /\ [fileRow EXCEPT !.synced = b].synced = b
BY DEF FileRow

\* A temporary file may hold anything.
LEMMA TemporaryFileHolds ==
  ASSUME WritingOK, DiskOK(onDisk), SystemCall, ~Doing("syncDir"),
         NEW f \in {"tmp", "backupTmp"}, NEW fileRow \in FileRow, Holding(f, fileRow),
         fileRow.kind # "absent"
  PROVE  /\ DiskOK(onDisk)' /\ onDisk'[f] = fileRow
         /\ \A g \in FileNames : g # f => onDisk'[g] = onDisk[g]
         /\ There => There'
         /\ BackedUp => BackedUp'
<1>1. /\ onDisk' \in Disk /\ onDisk'[f] = fileRow
      /\ \A g \in FileNames : g # f => onDisk'[g] = onDisk[g]
  BY HoldingOne DEF DiskOK, FileNames
<1>2. /\ onDisk'["primary"] = onDisk["primary"] /\ onDisk'["backup"] = onDisk["backup"]
  BY <1>1 DEF FileNames
<1>3. /\ UNCHANGED <<completed, earlier, damaged>> /\ Oldest' = Oldest
      /\ writing'.saving = writing.saving
  BY WritingGoesOn
<1>4. \A g \in FileNames : onDisk'[g].kind = "absent" => onDisk'[g].synced
  BY <1>1 DEF DiskOK
<1>5. DiskOK(onDisk)'
  BY <1>1, <1>2, <1>3, <1>4 DEF DiskOK
<1>6. (There => There') /\ (BackedUp => BackedUp')
  BY <1>2, <1>3 DEF There, BackedUp
<1>7. QED
  BY <1>1, <1>5, <1>6

LEMMA CallKeepsFiles ==
  ASSUME FilesInv, WritingOK, DiskOK(onDisk), SystemCall, ~Doing("syncDir")
  PROVE  DiskOK(onDisk)' /\ WritingOK'
<1> USE CallsFollow, WritingGoesOn
<1>1. CallsOK /\ onDisk \in Disk
  BY DEF WritingOK, DiskOK
<1>2. \A f \in FileNames : onDisk[f] \in FileRow
  BY <1>1 DEF Disk
<1>3. {"tmp", "backupTmp", "primary", "backup"} \subseteq FileNames
  BY DEF FileNames
<1>4. writing.contents \in FileRow /\ writing.contents.kind = "whole"
  BY DEF WritingOK
<1>5. Torn \in FileRow /\ Torn.kind = "torn"
  BY DEF Torn, FileRow
<1>6. CASE Doing("open") /\ Holding("tmp", Torn)
  <2>1. DiskOK(onDisk)' /\ (There => There') /\ (BackedUp => BackedUp')
    BY <1>5, <1>6, TemporaryFileHolds
  <2>2. \/ writing'.calls = LeftWrite /\ BackedUp'
        \/ writing'.calls = LastOpened /\ There'
    BY <1>1, <1>6, <2>1, Zenon
  <2>3. CallsOK'
    BY <2>2, Zenon DEF CallsOK
  <2>4. QED
    BY <2>1, <2>3
<1>7. CASE Doing("write") /\ Holding("tmp", writing.contents)
  <2>1. /\ DiskOK(onDisk)' /\ (There => There') /\ (BackedUp => BackedUp')
        /\ onDisk'["tmp"] = writing.contents
    BY <1>4, <1>7, TemporaryFileHolds
  <2>2. Written'
    BY <1>4, <2>1 DEF Written
  <2>3. \/ writing'.calls = LeftSync /\ Written' /\ BackedUp'
        \/ writing'.calls = LastWritten /\ There' /\ Written'
    BY <1>1, <1>7, <2>1, <2>2, Zenon
  <2>4. CallsOK'
    BY <2>3, Zenon DEF CallsOK
  <2>5. QED
    BY <2>1, <2>4
<1>8. CASE Doing("sync") /\ Holding("tmp", [onDisk["tmp"] EXCEPT !.synced = TRUE])
  <2> DEFINE fileRow == [onDisk["tmp"] EXCEPT !.synced = TRUE]
  <2>1. fileRow \in FileRow /\ fileRow.kind = onDisk["tmp"].kind /\ fileRow.save = onDisk["tmp"].save
        /\ fileRow.synced
    BY <1>2, <1>3, SynchronisedRow
  <2> HIDE DEF fileRow
  <2>2. Written
    BY <1>1, <1>8
  <2>3. /\ DiskOK(onDisk)' /\ (There => There') /\ (BackedUp => BackedUp')
        /\ onDisk'["tmp"] = fileRow
    BY <1>8, <2>1, <2>2, TemporaryFileHolds DEF Written, fileRow
  <2>4. Safe'
    BY <2>1, <2>2, <2>3 DEF Written, Safe
  <2>5. \/ writing'.calls = LeftReplace /\ Safe' /\ BackedUp'
        \/ writing'.calls = LastCopy /\ There' /\ Safe'
    BY <1>1, <1>8, <2>3, <2>4, Zenon
  <2>6. CallsOK'
    BY <2>5, Zenon DEF CallsOK
  <2>7. QED
    BY <2>3, <2>6
<1>9. CASE Doing("copy") /\ Holding("backupTmp", [onDisk["primary"] EXCEPT !.synced = FALSE])
  <2> DEFINE fileRow == [onDisk["primary"] EXCEPT !.synced = FALSE]
  <2>1. /\ fileRow \in FileRow /\ fileRow.kind = onDisk["primary"].kind
        /\ fileRow.save = onDisk["primary"].save
    BY <1>2, <1>3, SynchronisedRow
  <2> HIDE DEF fileRow
  <2>2. There
    BY <1>1, <1>9
  <2>3. /\ DiskOK(onDisk)' /\ There' /\ onDisk'["backupTmp"] = fileRow
        /\ onDisk'["primary"] = onDisk["primary"] /\ onDisk'["tmp"] = onDisk["tmp"]
    BY <1>3, <1>9, <2>1, <2>2, TemporaryFileHolds DEF There, fileRow
  <2>4. Copied' /\ (Safe => Safe')
    BY <2>1, <2>3 DEF Copied, Safe, Written
  <2>5. \/ writing'.calls = FirstSync /\ There' /\ Copied'
        \/ writing'.calls = LastSync /\ There' /\ Safe' /\ Copied'
    BY <1>1, <1>9, <2>3, <2>4, Zenon
  <2>6. CallsOK'
    BY <2>5, Zenon DEF CallsOK
  <2>7. QED
    BY <2>3, <2>6
<1>10. CASE /\ Doing("syncCopy")
            /\ Holding("backupTmp", [onDisk["backupTmp"] EXCEPT !.synced = TRUE])
  <2> DEFINE fileRow == [onDisk["backupTmp"] EXCEPT !.synced = TRUE]
  <2>1. /\ fileRow \in FileRow /\ fileRow.kind = onDisk["backupTmp"].kind
        /\ fileRow.save = onDisk["backupTmp"].save /\ fileRow.synced
    BY <1>2, <1>3, SynchronisedRow
  <2> HIDE DEF fileRow
  <2>2. There /\ Copied
    BY <1>1, <1>10
  <2>3. /\ DiskOK(onDisk)' /\ There' /\ onDisk'["backupTmp"] = fileRow
        /\ onDisk'["primary"] = onDisk["primary"] /\ onDisk'["tmp"] = onDisk["tmp"]
    BY <1>3, <1>10, <2>1, <2>2, TemporaryFileHolds DEF There, Copied, fileRow
  <2>4. CopySafe' /\ (Safe => Safe')
    BY <2>1, <2>2, <2>3 DEF Copied, CopySafe, Safe, Written
  <2>5. \/ writing'.calls = FirstReplace /\ There' /\ CopySafe'
        \/ writing'.calls = LastReplace /\ There' /\ Safe' /\ CopySafe'
    BY <1>1, <1>10, <2>3, <2>4, Zenon
  <2>6. CallsOK'
    BY <2>5, Zenon DEF CallsOK
  <2>7. QED
    BY <2>3, <2>6
<1>11. CASE Doing("replaceBackup") /\ Renamed("backupTmp", "backup")
  <2>1. There /\ CopySafe
    BY <1>1, <1>11
  <2>2. /\ onDisk' \in Disk /\ onDisk'["backup"] = onDisk["backupTmp"]
        /\ onDisk'["backupTmp"] = NotThere
        /\ onDisk'["primary"] = onDisk["primary"] /\ onDisk'["tmp"] = onDisk["tmp"]
    BY <1>1, <1>3, <1>11, RenamedOne
  <2>3. /\ UNCHANGED <<completed, earlier, damaged>> /\ Oldest' = Oldest
        /\ writing'.saving = writing.saving
    OBVIOUS
  <2>4. /\ onDisk["primary"] \in FileRow /\ onDisk["backupTmp"] \in FileRow
        /\ NotThere.kind = "absent" /\ NotThere.synced = TRUE
    BY <1>2, <1>3 DEF NotThere
  <2>5. onDisk["primary"].kind = "whole" =>
          onDisk["primary"].save >= Oldest /\ onDisk["primary"].save >= earlier
    BY <2>4 DEF DiskOK, Oldest, FilesInv, FileRow
  <2>6. \A f \in FileNames : onDisk'[f].kind = "absent" => onDisk'[f].synced
    <3>1. onDisk'["backup"].kind # "absent"
      BY <2>1, <2>2 DEF There, CopySafe, Copied
    <3>2. QED
      BY <2>2, <2>4, <3>1 DEF DiskOK, FileNames
  <2>7. DiskOK(onDisk)'
    BY <2>1, <2>2, <2>3, <2>5, <2>6 DEF DiskOK, There, CopySafe, Copied
  <2>8. There' /\ BackedUp' /\ (Safe => Safe')
    BY <2>1, <2>2, <2>3, <2>5 DEF There, BackedUp, CopySafe, Copied, Safe, Written
  <2>9. \/ writing'.calls = Replacing /\ BackedUp'
        \/ writing'.calls = LeftReplace /\ Safe' /\ BackedUp'
    BY <1>1, <1>11, <2>8, Zenon
  <2>10. CallsOK'
    BY <2>9, Zenon DEF CallsOK
  <2>11. QED
    BY <2>7, <2>10
<1>12. CASE Doing("replace") /\ Renamed("tmp", "primary")
  <2>1. Safe /\ BackedUp
    BY <1>1, <1>12
  <2>2. /\ onDisk' \in Disk /\ onDisk'["primary"] = onDisk["tmp"]
        /\ onDisk'["tmp"] = NotThere /\ onDisk'["backup"] = onDisk["backup"]
        /\ onDisk'["backupTmp"] = onDisk["backupTmp"]
    BY <1>1, <1>3, <1>12, RenamedOne
  <2>3. /\ UNCHANGED <<completed, earlier, damaged>> /\ Oldest' = Oldest
        /\ writing'.saving = writing.saving /\ writing'.contents = writing.contents
    OBVIOUS
  <2>4. NotThere.kind = "absent" /\ NotThere.synced = TRUE
    BY DEF NotThere
  <2>5. /\ onDisk'["primary"].kind = "whole" /\ onDisk'["primary"].synced
        /\ onDisk'["primary"].save = writing.contents.save
    BY <2>1, <2>2 DEF Safe, Written
  <2>6. writing.contents.save >= Oldest
    BY DEF WritingOK
  <2>7. \A f \in FileNames : onDisk'[f].kind = "absent" => onDisk'[f].synced
    BY <2>2, <2>4, <2>5 DEF DiskOK, FileNames
  <2>8. DiskOK(onDisk)'
    BY <2>2, <2>3, <2>5, <2>6, <2>7 DEF DiskOK
  <2>9. Replaced' /\ BackedUp'
    BY <2>1, <2>2, <2>3, <2>5 DEF Replaced, BackedUp
  <2>10. writing'.calls = LeftDir
    BY <1>1, <1>12
  <2>11. CallsOK'
    BY <2>9, <2>10, Zenon DEF CallsOK
  <2>12. QED
    BY <2>8, <2>11
<1>13. QED
  BY <1>6, <1>7, <1>8, <1>9, <1>10, <1>11, <1>12 DEF SystemCall

\* The last call of a save makes its state the one that must be loaded.
LEMMA LastCallReturns ==
  ASSUME FilesInv, WritingOK, SystemCall, Doing("syncDir")
  PROVE  FilesInv'
<1>1. writing' = NoWriting /\ onDisk' = onDisk /\ saves' = saves
  <2>1. writing' = NoWriting /\ saves' = saves
    BY DEF SystemCall
  <2>2. ~Doing("open") /\ ~Doing("write") /\ ~Doing("sync") /\ ~Doing("copy")
        /\ ~Doing("syncCopy") /\ ~Doing("replaceBackup") /\ ~Doing("replace")
    BY DEF Doing
  <2>3. QED
    BY <2>1, <2>2 DEF SystemCall
<1>2. DiskOK(onDisk) /\ Replaced /\ BackedUp
  BY CallsFollow DEF FilesInv, WritingOK
<1>3. onDisk["primary"] \in FileRow /\ onDisk["backup"] \in FileRow
  BY <1>2 DEF DiskOK, Disk, FileNames
<1>4. CASE writing.saving
  <2>1. /\ completed' = writing.contents.save /\ earlier' = Oldest
        /\ damaged' = FALSE
    BY <1>4 DEF SystemCall, Oldest
  <2>2. writing.contents.save >= Oldest /\ writing.contents.save <= saves
        /\ writing.contents.save \in Nat /\ Oldest \in Nat
    BY <1>4 DEF WritingOK, FileRow, FilesInv, Oldest
  <2>3. DiskOK(onDisk)'
    BY <1>1, <1>2, <1>3, <1>4, <2>1, <2>2 DEF DiskOK, Replaced, BackedUp, Oldest, FileRow
  <2>4. damaged' \in BOOLEAN
    BY <2>1
  <2>5. QED
    BY <1>1, <2>1, <2>2, <2>3, <2>4 DEF FilesInv
<1>5. CASE ~writing.saving
  <2>1. UNCHANGED <<completed, earlier, damaged>>
    BY <1>5 DEF SystemCall
  <2>2. DiskOK(onDisk)'
    BY <1>1, <1>2, <2>1 DEF DiskOK, Oldest
  <2>3. QED
    BY <1>1, <2>1, <2>2 DEF FilesInv
<1>6. QED
  BY <1>4, <1>5

LEMMA CallsAreMet == FilesInv /\ SystemCall => FilesInv'
<1> SUFFICES ASSUME FilesInv, SystemCall PROVE FilesInv'
  OBVIOUS
<1>1. WritingOK /\ DiskOK(onDisk)
  BY DEF FilesInv, SystemCall
<1>2. CASE Doing("syncDir")
  BY <1>1, <1>2, LastCallReturns
<1>3. CASE ~Doing("syncDir")
  <2>1. UNCHANGED <<completed, earlier, damaged, saves>>
    BY <1>1, <1>3, WritingGoesOn
  <2>2. DiskOK(onDisk)' /\ WritingOK'
    BY <1>1, <1>3, CallKeepsFiles
  <2>3. QED
    BY <2>1, <2>2 DEF FilesInv
<1>4. QED
  BY <1>2, <1>3

\* What a disk that may be left has the store load.
LEMMA FilesLoad == FilesInv => LoadsTheLastSave
<1> SUFFICES ASSUME FilesInv PROVE LoadsTheLastSave
  OBVIOUS
<1>1. onDisk["primary"] \in FileRow /\ onDisk["backup"] \in FileRow
  BY DEF FilesInv, DiskOK, Disk, FileNames
<1>2. onDisk["primary"].kind \in {"absent", "torn", "whole"}
      /\ onDisk["backup"].kind \in {"absent", "torn", "whole"}
      /\ onDisk["primary"].save \in Nat /\ onDisk["backup"].save \in Nat
  BY <1>1 DEF FileRow
<1>3. CASE onDisk["primary"].kind = "whole"
  <2>1. LoadedFrom = "primary" /\ Loaded = onDisk["primary"].save
    <3>1. Readable("primary") /\ Exists("primary")
      BY <1>3 DEF Readable, Exists
    <3>2. LoadedFrom = "primary"
      BY <3>1 DEF LoadedFrom
    <3>3. QED
      BY <3>2 DEF Loaded, FileNames
  <2>2. QED
    BY <1>2, <1>3, <2>1 DEF LoadsTheLastSave, FilesInv, DiskOK, Oldest
<1>4. CASE onDisk["primary"].kind = "torn"
  <2>1. damaged
    BY <1>4 DEF FilesInv, DiskOK
  <2>2. \/ LoadedFrom = "backup" /\ onDisk["backup"].kind = "whole"
        \/ LoadedFrom = "unreadable"
    BY <1>2, <1>4 DEF LoadedFrom, Readable, Exists
  <2>3. LoadedFrom = "backup" => Loaded = onDisk["backup"].save
    BY DEF Loaded, FileNames
  <2>4. QED
    BY <1>2, <2>1, <2>2, <2>3 DEF LoadsTheLastSave, FilesInv, DiskOK
<1>5. CASE onDisk["primary"].kind = "absent"
  <2>1. onDisk["backup"].kind = "absent" /\ completed = 0 /\ earlier = 0
    BY <1>5 DEF FilesInv, DiskOK
  <2>2. LoadedFrom = "new" /\ Loaded = 0
    BY <1>5, <2>1 DEF LoadedFrom, Readable, Exists, Loaded, FileNames
  <2>3. QED
    BY <2>1, <2>2 DEF LoadsTheLastSave
<1>6. QED
  BY <1>2, <1>3, <1>4, <1>5

\* After a crash at any call of a save, or of a restore, of the safety state or of the
\* execution state (safety_state.py, execution_persistence.py), the store loads the last
\* state whose save returned or a later one; with the primary unreadable it loads the
\* state before, at the oldest, or raises; and it never starts as new.
THEOREM LoadsTheLastSaveCorrect == FilesSpec => []LoadsTheLastSave
<1>1. FilesInv /\ [FilesNext]_fileVars => FilesInv'
  <2> SUFFICES ASSUME FilesInv, [FilesNext]_fileVars PROVE FilesInv'
    OBVIOUS
  <2>1. CASE UNCHANGED fileVars
    <3>1. UNCHANGED <<onDisk, writing, completed, earlier, damaged, saves>>
      BY <2>1 DEF fileVars
    <3>2. DiskOK(onDisk)' /\ (WritingOK => WritingOK')
      BY <3>1 DEF FilesInv, DiskOK, Oldest, WritingOK, CallsOK, There, Written, Safe,
                  Copied, CopySafe, BackedUp, Replaced
    <3>3. QED
      BY <3>1, <3>2 DEF FilesInv
  <2>2. QED
    BY <2>1, SaveBegins, RestoreBegins, CallsAreMet, CrashIsMet, DamageIsMet DEF FilesNext
<1>2. QED
  BY <1>1, FilesStart, FilesLoad, PTL DEF FilesSpec

HIDE FilesAssumption

-----------------------------------------------------------------------------
(* The ticks of one message: PublishTick folded over the message.           *)

LEMMA FoldPublishTick ==
  ASSUME NEW m, NEW start
  PROVE  FoldLeft(PublishTick, start, m) =
           (CHOOSE F : F = [T \in SUBSET DOMAIN m |->
              IF T = {} THEN start ELSE PublishTick(F[T \ {Max(T)}], m[Max(T)])])[DOMAIN m]
  BY Zenon DEF FoldLeft, MapThenFoldSet

\* What the start has and every tick keeps, the whole message keeps.
LEMMA FoldKeeps ==
  ASSUME NEW m \in Seq(Instruments), NEW Q, NEW start \in Q,
         \A fan \in Q : \A i \in Instruments : PublishTick(fan, i) \in Q
  PROVE  FoldLeft(PublishTick, start, m) \in Q
<1> DEFINE n == Len(m)
           step == [fan \in Q |-> [i \in Instruments |-> PublishTick(fan, i)]]
           F == CHOOSE G : G = [T \in SUBSET DOMAIN m |->
              IF T = {} THEN start ELSE PublishTick(G[T \ {Max(T)}], m[Max(T)])]
<1>1. n \in Nat /\ DOMAIN m = 1..n /\ \A k \in 1..n : m[k] \in Instruments
  OBVIOUS
<1>2. \A fan \in Q : \A i \in Instruments : step[fan][i] = PublishTick(fan, i)
  BY Zenon
<1>3. FoldLeft(PublishTick, start, m) = F[1..n]
  BY <1>1, FoldPublishTick, Zenon
<1>4. F = CHOOSE G : G = [T \in SUBSET (1..n) |->
              IF T = {} THEN start ELSE PublishTick(G[T \ {Max(T)}], m[Max(T)])]
  BY <1>1, Zenon
<1> HIDE DEF n, step, F
<1>5. PICK G : /\ IsFold(G, step, start, m, n)
               /\ \A T \in SUBSET (1..n) : G[T] \in Q
  <2>1. \A fan \in Q : \A i \in Instruments : step[fan][i] \in Q
    BY <1>2, Zenon
  <2>2. QED
    BY <1>1, <2>1, FoldIn, Zenon
<1>6. G = [T \in SUBSET (1..n) |->
             IF T = {} THEN start ELSE PublishTick(G[T \ {Max(T)}], m[Max(T)])]
  <2>1. ASSUME NEW T \in SUBSET (1..n), T # {}
        PROVE  step[G[T \ {Max(T)}]][m[Max(T)]] = PublishTick(G[T \ {Max(T)}], m[Max(T)])
    <3>1. Max(T) \in 1..n /\ T \ {Max(T)} \in SUBSET (1..n)
      BY <1>1, <2>1, MaxOfPositions
    <3>2. G[T \ {Max(T)}] \in Q /\ m[Max(T)] \in Instruments
      BY <1>1, <1>5, <3>1
    <3>3. QED
      BY <1>2, <3>2, Zenon
  <2>2. G = [T \in SUBSET (1..n) |->
               IF T = {} THEN start ELSE step[G[T \ {Max(T)}]][m[Max(T)]]]
    BY <1>5, Zenon DEF IsFold
  <2>3. QED
    BY <2>1, <2>2, Zenon
<1>7. F = [T \in SUBSET (1..n) |->
             IF T = {} THEN start ELSE PublishTick(F[T \ {Max(T)}], m[Max(T)])]
  BY <1>4, <1>6, Zenon
<1>8. \A T \in SUBSET (1..n) :
        F[T] = IF T = {} THEN start ELSE PublishTick(F[T \ {Max(T)}], m[Max(T)])
  BY <1>7, Zenon
<1>9. F[{}] \in Q
  BY <1>8
<1>10. ASSUME NEW k \in 1..n, F[1..(k - 1)] \in Q PROVE F[1..k] \in Q
  <2>1. F[1..k] = PublishTick(F[1..(k - 1)], m[k])
    BY <1>1, <1>8, LastOfFirst, Zenon
  <2>2. QED
    BY <1>1, <1>10, <2>1
<1>11. F[1..n] \in Q
  BY <1>1, <1>9, <1>10, FoldStays
<1>12. QED
  BY <1>3, <1>11, Zenon

-----------------------------------------------------------------------------
(* What one subscriber was given and what waits for it, as ranges of the    *)
(* feed f of which it watches w: all up to a cursor c, and from c on.       *)

Subscriptions == [open : BOOLEAN, queue : Seq(Nat), given : Seq(Nat), from : Nat, to : Nat]

Until(sub, f) == IF sub.open THEN Len(f) ELSE sub.to

GivenUpTo(sub, f, w, c) ==
  /\ \A k \in DOMAIN sub.given : sub.given[k] \in sub.from + 1..c /\ f[sub.given[k]] \in w
  /\ \A n \in sub.from + 1..c : f[n] \in w => \E k \in DOMAIN sub.given : sub.given[k] = n
  /\ \A j, k \in DOMAIN sub.given : j < k => sub.given[j] < sub.given[k]

WaitsFrom(sub, f, c) ==
  /\ sub.from <= c /\ c <= Until(sub, f) /\ Until(sub, f) <= Len(f)
  /\ Len(sub.queue) >= Until(sub, f) - c
  /\ sub.open => Len(sub.queue) = Len(f) - c
  /\ \A k \in 1..Len(sub.queue) :
       sub.queue[k] = IF c + k <= Until(sub, f) THEN c + k ELSE End

Reads(sub, f, w, c) == GivenUpTo(sub, f, w, c) /\ WaitsFrom(sub, f, c)

FeedInv ==
  /\ feed \in Seq(Instruments)
  /\ arrived \in Seq(Seq(Instruments))
  /\ subscription \in [Subscribers -> Subscriptions]
  /\ \A s \in Subscribers : \E c \in Nat : Reads(subscription[s], feed, Watches[s], c)

LEMMA Joined ==
  ASSUME NEW A, NEW a \in Seq(A), NEW b \in Seq(A)
  PROVE  /\ a \o b \in Seq(A) /\ Len(a \o b) = Len(a) + Len(b)
         /\ DOMAIN (a \o b) = 1..(Len(a) + Len(b))
         /\ \A k \in 1..(Len(a) + Len(b)) :
              (a \o b)[k] = IF k <= Len(a) THEN a[k] ELSE b[k - Len(a)]
  OBVIOUS

\* Given up to a cursor and waiting from it on is one feed.
LEMMA ReadsSeesOneFeed ==
  ASSUME NEW sub \in Subscriptions, NEW f \in Seq(Instruments), NEW w, NEW c \in Nat,
         Reads(sub, f, w, c)
  PROVE  LET till == IF sub.open THEN Len(f) ELSE sub.to
             coming == sub.given \o sub.queue
             wanted == {k \in DOMAIN coming : coming[k] # End /\ f[coming[k]] \in w}
         IN
         /\ {coming[k] : k \in wanted} = {n \in sub.from + 1..till : f[n] \in w}
         /\ \A j, k \in wanted : j < k => coming[j] < coming[k]
         /\ DOMAIN sub.given \subseteq wanted
<1> DEFINE coming == sub.given \o sub.queue
           wanted == {k \in DOMAIN coming : coming[k] # End /\ f[coming[k]] \in w}
           g == Len(sub.given)
           q == Len(sub.queue)
           till == Until(sub, f)
<1>1. /\ sub.given \in Seq(Nat) /\ sub.queue \in Seq(Nat) /\ sub.open \in BOOLEAN
      /\ sub.from \in Nat /\ sub.to \in Nat /\ g \in Nat /\ q \in Nat /\ Len(f) \in Nat
      /\ DOMAIN sub.given = 1..g /\ DOMAIN sub.queue = 1..q
  BY DEF Subscriptions
<1>2. till \in Nat
  BY <1>1, Zenon DEF Until
<1>3. /\ coming \in Seq(Nat) /\ Len(coming) = g + q /\ DOMAIN coming = 1..(g + q)
      /\ \A k \in 1..(g + q) : coming[k] = IF k <= g THEN sub.given[k] ELSE sub.queue[k - g]
  <2> DEFINE a == sub.given
             b == sub.queue
  <2>1. a \in Seq(Nat) /\ b \in Seq(Nat) /\ coming = a \o b /\ g = Len(a) /\ q = Len(b)
    BY <1>1
  <2> HIDE DEF a, b, g, q
  <2>2. /\ coming \in Seq(Nat) /\ Len(coming) = g + q /\ DOMAIN coming = 1..(g + q)
        /\ \A k \in 1..(g + q) : coming[k] = IF k <= g THEN a[k] ELSE b[k - g]
    BY <2>1, Joined
  <2>3. QED
    BY <2>2 DEF a, b
<1>4. /\ \A k \in 1..g : sub.given[k] \in sub.from + 1..c /\ f[sub.given[k]] \in w
      /\ \A n \in sub.from + 1..c : f[n] \in w => \E k \in 1..g : sub.given[k] = n
      /\ \A j, k \in 1..g : j < k => sub.given[j] < sub.given[k]
  BY <1>1, Zenon DEF Reads, GivenUpTo
<1>5. /\ sub.from <= c /\ c <= till /\ q >= till - c
      /\ \A k \in 1..q : sub.queue[k] = IF c + k <= till THEN c + k ELSE End
  BY Zenon DEF Reads, WaitsFrom
<1>a. \A k : k \in wanted <=> k \in DOMAIN coming /\ coming[k] # End /\ f[coming[k]] \in w
  OBVIOUS
<1> HIDE DEF g, q, till, coming, wanted
<1>6. \A k \in 1..g : /\ k \in 1..(g + q) /\ coming[k] = sub.given[k]
                      /\ coming[k] \in Nat /\ coming[k] >= sub.from + 1 /\ coming[k] <= c
                      /\ f[coming[k]] \in w
  <2> TAKE k \in 1..g
  <2>1. k \in Nat /\ k <= g /\ k \in 1..(g + q)
    BY <1>1
  <2>2. coming[k] = sub.given[k]
    BY <1>3, <2>1
  <2>3. sub.given[k] \in sub.from + 1..c /\ f[sub.given[k]] \in w
    BY <1>4
  <2>4. sub.given[k] \in Nat /\ sub.given[k] >= sub.from + 1 /\ sub.given[k] <= c
    BY <1>1, <2>3
  <2>5. QED
    BY <2>1, <2>2, <2>3, <2>4
<1>7. \A k \in wanted : k \in Nat /\ k >= 1 /\ k <= g + q /\ coming[k] # 0 /\ f[coming[k]] \in w
  <2> TAKE k \in wanted
  <2>1. k \in DOMAIN coming /\ coming[k] # End /\ f[coming[k]] \in w
    BY <1>a
  <2>2. k \in 1..(g + q)
    BY <1>3, <2>1
  <2>3. k \in Nat /\ k >= 1 /\ k <= g + q
    BY <1>1, <2>2
  <2>4. QED
    BY <2>1, <2>3 DEF End
<1>8. \A k \in wanted : k > g => /\ coming[k] = c + (k - g)
                                 /\ c + (k - g) <= till /\ k - g \in 1..q
  <2> TAKE k \in wanted
  <2> HAVE k > g
  <2>0. k \in Nat /\ k >= 1 /\ k <= g + q
    BY <1>7
  <2>1. k - g \in 1..q /\ k \in 1..(g + q) /\ ~(k <= g)
    BY <1>1, <2>0
  <2>2. coming[k] = sub.queue[k - g]
    BY <1>3, <2>1
  <2>3. sub.queue[k - g] = IF c + (k - g) <= till THEN c + (k - g) ELSE 0
    BY <1>5, <2>1 DEF End
  <2>4. QED
    BY <1>7, <2>1, <2>2, <2>3
<1>9. \A k \in 1..g : k \in wanted
  <2> TAKE k \in 1..g
  <2>1. /\ k \in 1..(g + q) /\ f[coming[k]] \in w
        /\ coming[k] \in Nat /\ coming[k] >= sub.from + 1
    BY <1>6
  <2>2. coming[k] # End
    <3>1. sub.from + 1 >= 1
      BY <1>1
    <3>2. coming[k] >= 1
      BY <1>1, <2>1, <3>1
    <3>3. QED
      BY <2>1, <3>2 DEF End
  <2>3. QED
    BY <1>3, <1>a, <2>1, <2>2
<1>10. \A n \in sub.from + 1..till : f[n] \in w => \E k \in wanted : coming[k] = n
  <2> TAKE n \in sub.from + 1..till
  <2> HAVE f[n] \in w
  <2>1. CASE n <= c
    <3>1. n \in sub.from + 1..c
      BY <1>1, <1>2, <2>1
    <3>2. PICK k \in 1..g : sub.given[k] = n
      BY <1>4, <3>1
    <3>3. QED
      BY <1>6, <1>9, <3>2
  <2>2. CASE n > c
    <3>1. n \in Nat /\ n <= till /\ n - c \in Nat /\ n - c >= 1 /\ n - c <= q
      BY <1>1, <1>2, <1>5, <2>2
    <3> DEFINE k == g + (n - c)
    <3>2. k \in 1..(g + q) /\ ~(k <= g) /\ k - g = n - c /\ n - c \in 1..q
      BY <1>1, <3>1
    <3>3. coming[k] = sub.queue[n - c]
      BY <1>3, <3>2
    <3>4. sub.queue[n - c] = n
      <4>1. c + (n - c) = n
        BY <3>1
      <4>2. QED
        BY <1>5, <3>1, <3>2, <4>1
    <3>5. n # End
      BY <1>1, <3>1 DEF End
    <3> HIDE DEF k
    <3>6. QED
      BY <1>3, <1>a, <3>2, <3>3, <3>4, <3>5
  <2>3. n <= c \/ n > c
    BY <1>1, <1>2
  <2>4. QED
    BY <2>1, <2>2, <2>3
<1>11. \A k \in wanted : coming[k] \in sub.from + 1..till
  <2> TAKE k \in wanted
  <2>1. k \in Nat /\ k >= 1 /\ k <= g + q
    BY <1>7
  <2>2. CASE k <= g
    <3>1. k \in 1..g
      BY <1>1, <2>1, <2>2
    <3>2. coming[k] \in Nat /\ coming[k] >= sub.from + 1 /\ coming[k] <= c
      BY <1>6, <3>1
    <3>3. QED
      BY <1>1, <1>2, <1>5, <3>2
  <2>3. CASE k > g
    <3>1. coming[k] = c + (k - g) /\ c + (k - g) <= till
      BY <1>8, <2>3
    <3>2. sub.from + 1 <= c + (k - g) /\ c + (k - g) \in Nat
      BY <1>1, <1>2, <1>5, <2>1, <2>3
    <3>3. QED
      BY <1>1, <1>2, <3>1, <3>2
  <2>4. QED
    BY <1>1, <2>1, <2>2, <2>3
<1>12. ASSUME NEW j \in wanted, NEW k \in wanted, j < k PROVE coming[j] < coming[k]
  <2>1. /\ j \in Nat /\ k \in Nat /\ j >= 1 /\ k >= 1
    BY <1>7
  <2>2. CASE k <= g
    <3>1. j \in 1..g /\ k \in 1..g
      BY <1>1, <1>12, <2>1, <2>2
    <3>2. coming[j] = sub.given[j] /\ coming[k] = sub.given[k]
      BY <1>6, <3>1
    <3>3. QED
      BY <1>4, <1>12, <3>1, <3>2
  <2>3. CASE j <= g /\ k > g
    <3>1. j \in 1..g
      BY <1>1, <2>1, <2>3
    <3>2. coming[j] <= c /\ coming[j] \in Nat
      BY <1>6, <3>1
    <3>3. coming[k] = c + (k - g) /\ k - g >= 1
      <4>1. coming[k] = c + (k - g)
        BY <1>8, <2>3
      <4>2. k - g >= 1
        BY <1>1, <2>1, <2>3
      <4>3. QED
        BY <4>1, <4>2
    <3>4. QED
      BY <1>1, <2>1, <3>2, <3>3
  <2>4. CASE j > g
    <3>1. coming[j] = c + (j - g) /\ coming[k] = c + (k - g)
      <4>1. k > g
        BY <1>1, <1>12, <2>1, <2>4
      <4>2. QED
        BY <1>8, <2>4, <4>1
    <3>2. QED
      BY <1>1, <1>12, <2>1, <3>1
  <2>5. QED
    BY <1>1, <2>1, <2>2, <2>3, <2>4
<1>13. {coming[k] : k \in wanted} = {n \in sub.from + 1..till : f[n] \in w}
  <2>1. ASSUME NEW k \in wanted
        PROVE  coming[k] \in {n \in sub.from + 1..till : f[n] \in w}
    BY <1>7, <1>11
  <2>2. ASSUME NEW n \in sub.from + 1..till, f[n] \in w
        PROVE  n \in {coming[k] : k \in wanted}
    <3>1. PICK k \in wanted : coming[k] = n
      BY <1>10, <2>2
    <3>2. QED
      BY <3>1
  <2>3. QED
    BY <2>1, <2>2
<1>14. DOMAIN sub.given \subseteq wanted
  BY <1>1, <1>9
<1>15. \A j, k \in wanted : j < k => coming[j] < coming[k]
  BY <1>12
<1>16. QED
  BY <1>13, <1>14, <1>15, Zenon DEF till, Until, coming, wanted

LEMMA FeedInvImplies == FeedInv => SubscribersSeeOneFeed
<1> SUFFICES ASSUME FeedInv, NEW s \in Subscribers
    PROVE  LET sub == subscription[s]
               till == IF sub.open THEN Len(feed) ELSE sub.to
               coming == sub.given \o sub.queue
               wanted == {k \in DOMAIN coming :
                            coming[k] # End /\ feed[coming[k]] \in Watches[s]}
           IN
           /\ {coming[k] : k \in wanted} = {n \in sub.from + 1..till : feed[n] \in Watches[s]}
           /\ \A j, k \in wanted : j < k => coming[j] < coming[k]
           /\ DOMAIN sub.given \subseteq wanted
  BY Zenon DEF SubscribersSeeOneFeed
<1>1. subscription[s] \in Subscriptions /\ feed \in Seq(Instruments)
  BY DEF FeedInv
<1>2. PICK c \in Nat : Reads(subscription[s], feed, Watches[s], c)
  BY DEF FeedInv
<1>3. QED
  BY <1>1, <1>2, ReadsSeesOneFeed, Zenon

-----------------------------------------------------------------------------
(* Publishing: the ticks taken are added to the feed and to each open queue. *)

Follows(queue, before, f, t) ==
  /\ Len(queue) = Len(before) + Len(t)
  /\ \A k \in 1..Len(queue) :
       queue[k] = IF k <= Len(before) THEN before[k] ELSE Len(f) + (k - Len(before))

Fans ==
  {fan \in [taken : Seq(Instruments), refused : BOOLEAN, queues : [Subscribers -> Seq(Nat)]] :
     \A s \in Subscribers :
       IF subscription[s].open
       THEN Follows(fan.queues[s], subscription[s].queue, feed, fan.taken)
       ELSE fan.queues[s] = subscription[s].queue}

LEMMA FollowsOneMore ==
  ASSUME NEW q \in Seq(Nat), NEW before \in Seq(Nat), NEW f \in Seq(Instruments),
         NEW t \in Seq(Instruments), NEW i \in Instruments, Follows(q, before, f, t)
  PROVE  Follows(Append(q, Len(f) + Len(t) + 1), before, f, Append(t, i))
<1> DEFINE n == Len(f) + Len(t) + 1
           longer == Append(q, n)
           b == Len(before)
           l == Len(q)
           lt == Len(t)
           lf == Len(f)
<1>1. /\ l \in Nat /\ b \in Nat /\ lt \in Nat /\ lf \in Nat /\ n = lf + lt + 1
      /\ Len(longer) = l + 1 /\ Len(Append(t, i)) = lt + 1
      /\ \A k \in 1..l : longer[k] = q[k]
      /\ longer[l + 1] = n
  OBVIOUS
<1>2. /\ l = b + lt
      /\ \A k \in 1..l : q[k] = IF k <= b THEN before[k] ELSE lf + (k - b)
  BY Zenon DEF Follows
<1> HIDE DEF n, longer, b, l, lt, lf
<1>3. ASSUME NEW k \in 1..(l + 1)
      PROVE  longer[k] = IF k <= b THEN before[k] ELSE lf + (k - b)
  <2>1. CASE k = l + 1
    <3>1. ~(k <= b) /\ k - b = lt + 1 /\ lf + (k - b) = n
      BY <1>1, <1>2, <2>1
    <3>2. QED
      BY <1>1, <2>1, <3>1
  <2>2. CASE k # l + 1
    <3>1. k \in 1..l
      BY <1>1, <2>2
    <3>2. QED
      BY <1>1, <1>2, <3>1
  <2>3. QED
    BY <2>1, <2>2
<1>4. /\ Len(longer) = b + Len(Append(t, i))
      /\ \A k \in 1..Len(longer) : longer[k] = IF k <= b THEN before[k] ELSE lf + (k - b)
  <2>1. Len(longer) = b + Len(Append(t, i))
    BY <1>1, <1>2
  <2>2. QED
    BY <1>1, <1>3, <2>1, Zenon
<1>5. QED
  BY <1>4, Zenon DEF Follows, longer, n, b, lf

LEMMA TickKeepsFans ==
  ASSUME feed \in Seq(Instruments), subscription \in [Subscribers -> Subscriptions],
         FeedAssumption, NEW fan \in Fans, NEW i \in Instruments
  PROVE  PublishTick(fan, i) \in Fans
<1> DEFINE next == PublishTick(fan, i)
<1>1. /\ fan \in [taken : Seq(Instruments), refused : BOOLEAN, queues : [Subscribers -> Seq(Nat)]]
      /\ \A s \in Subscribers :
           IF subscription[s].open
           THEN Follows(fan.queues[s], subscription[s].queue, feed, fan.taken)
           ELSE fan.queues[s] = subscription[s].queue
  BY Zenon DEF Fans
<1>2. CASE fan.refused \/ connection[i] # "ready"
  <2>1. next = fan
    BY <1>2, Zenon DEF PublishTick
  <2>2. QED
    BY <2>1
<1>3. CASE ~(fan.refused \/ connection[i] # "ready") /\ \E s \in OpenQueues : Blocked(fan, s)
  <2>1. next = [fan EXCEPT !.refused = TRUE]
    BY <1>3, Zenon DEF PublishTick
  <2>2. /\ next \in [taken : Seq(Instruments), refused : BOOLEAN, queues : [Subscribers -> Seq(Nat)]]
        /\ next.queues = fan.queues /\ next.taken = fan.taken
    BY <1>1, <2>1
  <2> HIDE DEF next
  <2>3. next \in Fans
    BY <1>1, <2>2, Zenon DEF Fans
  <2>4. QED
    BY <2>3 DEF next
<1>4. CASE ~(fan.refused \/ connection[i] # "ready") /\ ~\E s \in OpenQueues : Blocked(fan, s)
  <2> DEFINE n == Len(feed) + Len(fan.taken) + 1
             queues == [s \in Subscribers |->
                          IF s \in OpenQueues /\ Len(fan.queues[s]) < MaxQueue
                          THEN Append(fan.queues[s], n) ELSE fan.queues[s]]
             taken == Append(fan.taken, i)
  <2>1. next = [fan EXCEPT !.taken = taken, !.queues = queues]
    BY <1>4, Zenon DEF PublishTick
  <2>2. n \in Nat /\ fan.taken \in Seq(Instruments) /\ taken \in Seq(Instruments)
    BY <1>1
  <2>3. ASSUME NEW s \in Subscribers
        PROVE  /\ queues[s] \in Seq(Nat)
               /\ IF subscription[s].open
                  THEN Follows(queues[s], subscription[s].queue, feed, taken)
                  ELSE queues[s] = subscription[s].queue
    <3>1. fan.queues[s] \in Seq(Nat) /\ subscription[s].queue \in Seq(Nat)
          /\ queues[s] = IF s \in OpenQueues /\ Len(fan.queues[s]) < MaxQueue
                         THEN Append(fan.queues[s], n) ELSE fan.queues[s]
      BY <1>1 DEF Subscriptions
    <3> HIDE DEF queues, n
    <3>2. CASE subscription[s].open
      <4>1. s \in OpenQueues
        BY <3>2 DEF OpenQueues
      <4>2. Len(fan.queues[s]) < MaxQueue
        <5>1. ~(Len(fan.queues[s]) >= MaxQueue)
          BY <1>4, <4>1, Zenon DEF Blocked
        <5>2. Len(fan.queues[s]) \in Nat /\ MaxQueue \in Nat
          BY <3>1 DEF FeedAssumption
        <5>3. QED
          BY <5>1, <5>2
      <4>3. queues[s] = Append(fan.queues[s], n)
        BY <3>1, <4>1, <4>2
      <4>4. Follows(fan.queues[s], subscription[s].queue, feed, fan.taken)
        BY <1>1, <3>2
      <4>5. Follows(Append(fan.queues[s], n), subscription[s].queue, feed, taken)
        BY <2>2, <3>1, <4>4, FollowsOneMore, Zenon DEF n
      <4>6. queues[s] \in Seq(Nat)
        BY <2>2, <3>1, <4>3
      <4>7. QED
        BY <3>2, <4>3, <4>5, <4>6, Zenon
    <3>3. CASE ~subscription[s].open
      <4>1. s \notin OpenQueues
        BY <3>3, Zenon DEF OpenQueues
      <4>2. QED
        BY <1>1, <3>1, <3>3, <4>1, Zenon
    <3>4. QED
      BY <3>2, <3>3
  <2>4. queues \in [Subscribers -> Seq(Nat)]
    BY <2>3
  <2> HIDE DEF queues, taken, n
  <2>5. /\ next \in [taken : Seq(Instruments), refused : BOOLEAN, queues : [Subscribers -> Seq(Nat)]]
        /\ next.queues = queues /\ next.taken = taken
    BY <1>1, <2>1, <2>2, <2>4
  <2> HIDE DEF next
  <2>6. next \in Fans
    BY <2>3, <2>5, Zenon DEF Fans
  <2>7. QED
    BY <2>6 DEF next
<1>5. QED
  BY <1>2, <1>3, <1>4, Zenon

LEMMA ReadsPublished ==
  ASSUME NEW sub \in Subscriptions, NEW f \in Seq(Instruments), NEW w, NEW c \in Nat,
         NEW t \in Seq(Instruments), NEW queue \in Seq(Nat), Reads(sub, f, w, c),
         IF sub.open THEN Follows(queue, sub.queue, f, t) ELSE queue = sub.queue
  PROVE  Reads([sub EXCEPT !.queue = queue], f \o t, w, c)
<1> DEFINE new == [sub EXCEPT !.queue = queue]
           g == f \o t
           till == Until(sub, f)
           lf == Len(f)
           lt == Len(t)
           b == Len(sub.queue)
           l == Len(queue)
<1>1. /\ new.open = sub.open /\ new.given = sub.given /\ new.from = sub.from
      /\ new.to = sub.to /\ new.queue = queue
      /\ sub.open \in BOOLEAN /\ sub.from \in Nat /\ sub.to \in Nat
      /\ b \in Nat /\ l \in Nat
  BY DEF Subscriptions
<1>2. /\ lf \in Nat /\ lt \in Nat /\ Len(g) = lf + lt
      /\ \A n \in 1..lf : g[n] = f[n]
  OBVIOUS
<1>3. /\ sub.from <= c /\ c <= till /\ till <= lf /\ b >= till - c
      /\ sub.open => b = lf - c
      /\ \A k \in 1..b : sub.queue[k] = IF c + k <= till THEN c + k ELSE End
  BY Zenon DEF Reads, WaitsFrom
<1>4. till \in Nat
  BY <1>1, <1>2, Zenon DEF Until
<1>a. till = IF sub.open THEN lf ELSE sub.to
  BY Zenon DEF Until
<1>b. Until(new, g) = IF sub.open THEN lf + lt ELSE sub.to
  BY <1>1, <1>2, Zenon DEF Until
<1>c. /\ sub.open => l = b + lt
      /\ sub.open => \A k \in 1..l : queue[k] = IF k <= b THEN sub.queue[k] ELSE lf + (k - b)
      /\ ~sub.open => queue = sub.queue /\ l = b
  BY Zenon DEF Follows
<1> HIDE DEF new, g, till, lf, lt, b, l
<1>5. GivenUpTo(new, g, w, c)
  <2>1. \A n \in sub.from + 1..c : g[n] = f[n]
    <3> TAKE n \in sub.from + 1..c
    <3>1. n \in 1..lf
      BY <1>1, <1>2, <1>3, <1>4
    <3>2. QED
      BY <1>2, <3>1
  <2>2. /\ \A k \in DOMAIN sub.given : sub.given[k] \in sub.from + 1..c /\ f[sub.given[k]] \in w
        /\ \A n \in sub.from + 1..c : f[n] \in w => \E k \in DOMAIN sub.given : sub.given[k] = n
        /\ \A j, k \in DOMAIN sub.given : j < k => sub.given[j] < sub.given[k]
    BY Zenon DEF Reads, GivenUpTo
  <2>3. \A k \in DOMAIN sub.given : sub.given[k] \in sub.from + 1..c /\ g[sub.given[k]] \in w
    BY <2>1, <2>2, Zenon
  <2>4. \A n \in sub.from + 1..c : g[n] \in w => \E k \in DOMAIN sub.given : sub.given[k] = n
    BY <2>1, <2>2, Zenon
  <2>5. QED
    BY <1>1, <2>2, <2>3, <2>4, Zenon DEF GivenUpTo
<1>6. WaitsFrom(new, g, c)
  <2>1. CASE sub.open
    <3>1. /\ till = lf /\ Until(new, g) = lf + lt /\ b = lf - c /\ l = b + lt
          /\ \A k \in 1..l : queue[k] = IF k <= b THEN sub.queue[k] ELSE lf + (k - b)
      BY <1>3, <1>a, <1>b, <1>c, <2>1
    <3>2. ASSUME NEW k \in 1..l
          PROVE  queue[k] = IF c + k <= lf + lt THEN c + k ELSE End
      <4>1. c + k <= lf + lt
        BY <1>1, <1>2, <3>1
      <4>2. CASE k <= b
        <5>1. k \in 1..b /\ c + k <= till
          BY <1>1, <1>2, <3>1, <4>2
        <5>2. queue[k] = c + k
          BY <1>3, <3>1, <4>2, <5>1
        <5>3. QED
          BY <4>1, <5>2
      <4>3. CASE ~(k <= b)
        <5>1. lf + (k - b) = c + k
          BY <1>1, <1>2, <3>1
        <5>2. QED
          BY <3>1, <4>1, <4>3, <5>1
      <4>4. QED
        BY <4>2, <4>3
    <3>3. /\ sub.from <= c /\ c <= lf + lt /\ lf + lt <= Len(g)
          /\ l >= lf + lt - c /\ l = Len(g) - c
      BY <1>1, <1>2, <1>3, <3>1
    <3>a. Len(new.queue) = l /\ new.open /\ new.from = sub.from
      BY <1>1, <2>1 DEF l
    <3>b. \A k \in 1..l : new.queue[k] = IF c + k <= Until(new, g) THEN c + k ELSE End
      BY <1>1, <3>1, <3>2, Zenon
    <3>4. QED
      <4>1. /\ new.from <= c /\ c <= Until(new, g) /\ Until(new, g) <= Len(g)
            /\ Len(new.queue) >= Until(new, g) - c
            /\ new.open => Len(new.queue) = Len(g) - c
        <5> DEFINE u == Until(new, g)
                   lg == Len(g)
                   lq == Len(new.queue)
        <5>1. /\ u = lf + lt /\ lg = lf + lt /\ lq = l /\ b = lf - c /\ l = b + lt
              /\ lf \in Nat /\ lt \in Nat /\ l \in Nat /\ new.from = sub.from
              /\ sub.from <= c /\ c <= lf + lt
          BY <1>1, <1>2, <3>a, <3>1, <3>3, Zenon
        <5> HIDE DEF u, lg, lq
        <5>2. sub.from <= c /\ c <= u /\ u <= lg /\ lq >= u - c /\ lq = lg - c
          BY <5>1
        <5>3. QED
          BY <5>1, <5>2, Zenon DEF u, lg, lq
      <4>2. \A k \in 1..Len(new.queue) :
              new.queue[k] = IF c + k <= Until(new, g) THEN c + k ELSE End
        BY <3>a, <3>b, Zenon
      <4>3. QED
        BY <4>1, <4>2, Zenon DEF WaitsFrom
  <2>2. CASE ~sub.open
    <3>1. till = sub.to /\ Until(new, g) = sub.to /\ queue = sub.queue /\ l = b
      BY <1>a, <1>b, <1>c, <2>2
    <3>2. sub.from <= c /\ c <= sub.to /\ sub.to <= Len(g) /\ l >= sub.to - c
      BY <1>1, <1>2, <1>3, <3>1
    <3>3. \A k \in 1..l : queue[k] = IF c + k <= sub.to THEN c + k ELSE End
      BY <1>3, <3>1, Zenon
    <3>4. QED
      BY <1>1, <2>2, <3>1, <3>2, <3>3, Zenon DEF WaitsFrom, l
  <2>3. QED
    BY <1>1, <2>1, <2>2
<1>7. QED
  BY <1>5, <1>6, Zenon DEF Reads, new, g

-----------------------------------------------------------------------------
(* Taking and leaving.                                                      *)

LEMMA ReadsTaken ==
  ASSUME NEW sub \in Subscriptions, NEW f \in Seq(Instruments), NEW w, NEW c \in Nat,
         Reads(sub, f, w, c), sub.queue # <<>>, Head(sub.queue) # End,
         NEW given, given = IF f[Head(sub.queue)] \in w
                            THEN Append(sub.given, Head(sub.queue)) ELSE sub.given
  PROVE  /\ [sub EXCEPT !.queue = Tail(sub.queue), !.given = given] \in Subscriptions
         /\ Reads([sub EXCEPT !.queue = Tail(sub.queue), !.given = given], f, w, c + 1)
<1> DEFINE queue == Tail(sub.queue)
           new == [sub EXCEPT !.queue = queue, !.given = given]
           till == Until(sub, f)
           item == Head(sub.queue)
           l == Len(sub.queue)
           g == Len(sub.given)
<1>1. /\ sub.open \in BOOLEAN /\ sub.from \in Nat /\ sub.to \in Nat
      /\ sub.queue \in Seq(Nat) /\ sub.given \in Seq(Nat)
  BY DEF Subscriptions
<1>2. /\ l \in Nat /\ l >= 1 /\ queue \in Seq(Nat) /\ Len(queue) = l - 1
      /\ item = sub.queue[1] /\ item \in Nat
      /\ \A k \in 1..(l - 1) : queue[k] = sub.queue[k + 1]
  <2> DEFINE waiting == sub.queue
  <2>1. waiting \in Seq(Nat) /\ waiting # <<>>
    BY <1>1
  <2> HIDE DEF waiting
  <2>2. Len(waiting) \in Nat /\ Len(waiting) >= 1 /\ Tail(waiting) \in Seq(Nat)
    BY <2>1
  <2>3. Len(Tail(waiting)) = Len(waiting) - 1
    BY <2>1
  <2>4. Head(waiting) = waiting[1] /\ Head(waiting) \in Nat
    BY <2>1
  <2>5. \A k \in 1..(Len(waiting) - 1) : Tail(waiting)[k] = waiting[k + 1]
    BY <2>1
  <2>6. QED
    BY <2>2, <2>3, <2>4, <2>5, Zenon DEF waiting
<1>3. /\ g \in Nat /\ DOMAIN sub.given = 1..g /\ Append(sub.given, item) \in Seq(Nat)
      /\ DOMAIN Append(sub.given, item) = 1..(g + 1)
      /\ \A k \in 1..g : Append(sub.given, item)[k] = sub.given[k]
      /\ Append(sub.given, item)[g + 1] = item
  BY <1>1, <1>2
<1>4. given = IF f[item] \in w THEN Append(sub.given, item) ELSE sub.given
  OBVIOUS
<1>5. given \in Seq(Nat)
  BY <1>1, <1>3, <1>4, Zenon
<1>6. /\ new.open = sub.open /\ new.from = sub.from /\ new.to = sub.to
      /\ new.queue = queue /\ new.given = given /\ new \in Subscriptions
  BY <1>1, <1>2, <1>5 DEF Subscriptions
<1>7. /\ sub.from <= c /\ c <= till /\ till <= Len(f) /\ l >= till - c
      /\ sub.open => l = Len(f) - c
      /\ \A k \in 1..l : sub.queue[k] = IF c + k <= till THEN c + k ELSE End
  BY Zenon DEF Reads, WaitsFrom
<1>8. Len(f) \in Nat /\ till \in Nat /\ Until(new, f) = till
  BY <1>1, <1>6 DEF Until
<1>9. /\ \A k \in 1..g : sub.given[k] \in sub.from + 1..c /\ f[sub.given[k]] \in w
      /\ \A n \in sub.from + 1..c : f[n] \in w => \E k \in 1..g : sub.given[k] = n
      /\ \A j, k \in 1..g : j < k => sub.given[j] < sub.given[k]
  BY <1>3, Zenon DEF Reads, GivenUpTo
<1>10. item # End
  OBVIOUS
<1> HIDE DEF queue, new, till, item, l, g
<1>11. item = c + 1 /\ c + 1 <= till
  <2>1. 1 \in 1..l
    BY <1>2
  <2>2. item = IF c + 1 <= till THEN c + 1 ELSE End
    BY <1>2, <1>7, <2>1
  <2>3. QED
    BY <1>10, <2>2
<1>12. WaitsFrom(new, f, c + 1)
  <2>1. /\ sub.from <= c + 1 /\ c + 1 <= till /\ till <= Len(f) /\ l - 1 >= till - (c + 1)
        /\ sub.open => l - 1 = Len(f) - (c + 1)
    BY <1>1, <1>2, <1>7, <1>8, <1>11
  <2>2. ASSUME NEW k \in 1..(l - 1)
        PROVE  queue[k] = IF c + 1 + k <= till THEN c + 1 + k ELSE End
    <3>1. k + 1 \in 1..l /\ c + (k + 1) = c + 1 + k
      BY <1>2
    <3>2. queue[k] = sub.queue[k + 1]
      BY <1>2
    <3>3. sub.queue[k + 1] = IF c + (k + 1) <= till THEN c + (k + 1) ELSE End
      BY <1>7, <3>1
    <3>4. QED
      BY <3>1, <3>2, <3>3
  <2>3. Len(new.queue) = l - 1
    BY <1>2, <1>6
  <2>4. /\ new.from <= c + 1 /\ c + 1 <= Until(new, f) /\ Until(new, f) <= Len(f)
        /\ Len(new.queue) >= Until(new, f) - (c + 1)
        /\ new.open => Len(new.queue) = Len(f) - (c + 1)
    BY <1>6, <1>8, <2>1, <2>3
  <2>5. \A k \in 1..Len(new.queue) :
          new.queue[k] = IF c + 1 + k <= Until(new, f) THEN c + 1 + k ELSE End
    BY <1>6, <1>8, <2>2, <2>3, Zenon
  <2>6. QED
    BY <2>4, <2>5, Zenon DEF WaitsFrom
<1>13. \A n \in sub.from + 1..(c + 1) : n \in sub.from + 1..c \/ n = c + 1
  BY <1>1
<1>14. c + 1 \in sub.from + 1..(c + 1)
  BY <1>1, <1>7, <1>8
<1>15. \A n \in sub.from + 1..c : n \in sub.from + 1..(c + 1) /\ n < c + 1
  BY <1>1
<1>16. GivenUpTo(new, f, w, c + 1)
  <2>1. CASE f[item] \in w
    <3>1. given = Append(sub.given, item) /\ DOMAIN given = 1..(g + 1)
      BY <1>3, <1>4, <2>1
    <3>2. /\ \A k \in 1..g : given[k] = sub.given[k]
          /\ given[g + 1] = c + 1 /\ f[c + 1] \in w
      BY <1>3, <1>11, <2>1, <3>1
    <3>3. \A k \in 1..(g + 1) : k \in 1..g \/ k = g + 1
      BY <1>3
    <3>4. g + 1 \in 1..(g + 1) /\ \A k \in 1..g : k \in 1..(g + 1)
      BY <1>3
    <3>5. \A k \in 1..(g + 1) : given[k] \in sub.from + 1..(c + 1) /\ f[given[k]] \in w
      BY <1>9, <1>14, <1>15, <3>2, <3>3, Zenon
    <3>6. \A n \in sub.from + 1..(c + 1) : f[n] \in w => \E k \in 1..(g + 1) : given[k] = n
      BY <1>9, <1>13, <3>2, <3>4, Zenon
    <3>7. ASSUME NEW j \in 1..(g + 1), NEW k \in 1..(g + 1), j < k PROVE given[j] < given[k]
      <4>1. j \in 1..g
        BY <1>3, <3>7
      <4>2. CASE k \in 1..g
        BY <1>9, <3>2, <3>7, <4>1, <4>2
      <4>3. CASE k = g + 1
        BY <1>9, <1>15, <3>2, <4>1, <4>3
      <4>4. QED
        BY <3>3, <4>2, <4>3
    <3>8. QED
      BY <1>6, <3>1, <3>5, <3>6, <3>7, Zenon DEF GivenUpTo
  <2>2. CASE f[item] \notin w
    <3>1. given = sub.given /\ DOMAIN given = 1..g
      BY <1>3, <1>4, <2>2
    <3>2. \A k \in 1..g : given[k] \in sub.from + 1..(c + 1) /\ f[given[k]] \in w
      BY <1>9, <1>15, <3>1, Zenon
    <3>3. \A n \in sub.from + 1..(c + 1) : f[n] \in w => \E k \in 1..g : given[k] = n
      BY <1>9, <1>11, <1>13, <2>2, <3>1, Zenon
    <3>4. \A j, k \in 1..g : j < k => given[j] < given[k]
      BY <1>9, <3>1, Zenon
    <3>5. QED
      BY <1>6, <3>1, <3>2, <3>3, <3>4, Zenon DEF GivenUpTo
  <2>3. QED
    BY <2>1, <2>2
<1>17. new \in Subscriptions /\ Reads(new, f, w, c + 1)
  BY <1>6, <1>12, <1>16, Zenon DEF Reads
<1>18. QED
  BY <1>17 DEF new, queue

LEMMA ReadsLeft ==
  ASSUME NEW sub \in Subscriptions, NEW f \in Seq(Instruments), NEW w, NEW c \in Nat,
         Reads(sub, f, w, c), sub.open,
         NEW queue \in {sub.queue, Append(sub.queue, End)}
  PROVE  /\ [sub EXCEPT !.open = FALSE, !.to = Len(f), !.queue = queue] \in Subscriptions
         /\ Reads([sub EXCEPT !.open = FALSE, !.to = Len(f), !.queue = queue], f, w, c)
<1> DEFINE new == [sub EXCEPT !.open = FALSE, !.to = Len(f), !.queue = queue]
           l == Len(sub.queue)
           lf == Len(f)
<1>1. /\ sub.open \in BOOLEAN /\ sub.from \in Nat /\ sub.to \in Nat
      /\ sub.queue \in Seq(Nat) /\ sub.given \in Seq(Nat) /\ l \in Nat /\ lf \in Nat
  BY DEF Subscriptions
<1>2. /\ queue \in Seq(Nat) /\ Len(queue) \in {l, l + 1}
      /\ \A k \in 1..Len(queue) : queue[k] = IF k <= l THEN sub.queue[k] ELSE End
  <2>1. CASE queue = sub.queue
    BY <1>1, <2>1
  <2>2. CASE queue = Append(sub.queue, End)
    <3>1. End \in Nat
      BY DEF End
    <3> HIDE DEF End
    <3> DEFINE waiting == sub.queue
               ended == Append(waiting, End)
    <3>2. waiting \in Seq(Nat) /\ l = Len(waiting)
      BY <1>1
    <3> HIDE DEF waiting
    <3>3. ended \in Seq(Nat) /\ Len(ended) = Len(waiting) + 1
      BY <3>1, <3>2
    <3>4. \A k \in 1..Len(waiting) + 1 :
            ended[k] = IF k <= Len(waiting) THEN waiting[k] ELSE End
      BY <3>1, <3>2
    <3>5. queue = ended
      BY <2>2 DEF waiting
    <3> HIDE DEF ended
    <3>6. QED
      BY <3>2, <3>3, <3>4, <3>5, Zenon DEF waiting
  <2>3. QED
    BY <2>1, <2>2
<1>3. /\ new.open = FALSE /\ new.from = sub.from /\ new.to = lf
      /\ new.queue = queue /\ new.given = sub.given /\ new \in Subscriptions
  BY <1>1, <1>2 DEF Subscriptions
<1>4. /\ sub.from <= c /\ c <= lf /\ l = lf - c
      /\ \A k \in 1..l : sub.queue[k] = IF c + k <= lf THEN c + k ELSE End
  BY Zenon DEF Reads, WaitsFrom, Until
<1> HIDE DEF new, l, lf
<1>5. Until(new, f) = lf
  BY <1>3 DEF Until
<1>6. ASSUME NEW k \in 1..Len(queue) PROVE queue[k] = IF c + k <= lf THEN c + k ELSE End
  <2>1. k \in Nat /\ k >= 1 /\ (k <= l <=> c + k <= lf)
    BY <1>1, <1>2, <1>4
  <2>2. CASE k <= l
    <3>1. k \in 1..l
      BY <1>1, <2>1, <2>2
    <3>2. QED
      BY <1>2, <1>4, <2>2, <3>1
  <2>3. CASE ~(k <= l)
    BY <1>2, <2>1, <2>3
  <2>4. QED
    BY <2>2, <2>3
<1>7. /\ new.from <= c /\ c <= Until(new, f) /\ Until(new, f) <= Len(f)
      /\ Len(new.queue) >= Until(new, f) - c
      /\ new.open => Len(new.queue) = Len(f) - c
  <2>1. lf = Len(f) /\ Len(queue) >= lf - c
    BY <1>1, <1>2, <1>4 DEF lf
  <2>2. QED
    BY <1>1, <1>3, <1>4, <1>5, <2>1
<1>8. \A k \in 1..Len(new.queue) : new.queue[k] = IF c + k <= Until(new, f) THEN c + k ELSE End
  BY <1>3, <1>5, <1>6, Zenon
<1>9. WaitsFrom(new, f, c)
  BY <1>7, <1>8, Zenon DEF WaitsFrom
<1>10. GivenUpTo(new, f, w, c)
  BY <1>3, Zenon DEF GivenUpTo, Reads
<1>11. new \in Subscriptions /\ Reads(new, f, w, c)
  BY <1>3, <1>9, <1>10, Zenon DEF Reads
<1>12. QED
  BY <1>11, Zenon DEF new, lf

-----------------------------------------------------------------------------
(* The steps.                                                               *)

LEMMA FeedInitInv == FeedInit => FeedInv
<1> SUFFICES ASSUME FeedInit PROVE FeedInv
  OBVIOUS
<1>1. /\ feed = <<>> /\ arrived = <<>>
      /\ subscription = [s \in Subscribers |-> NoSubscription]
  BY Zenon DEF FeedInit
<1>2. NoSubscription \in Subscriptions
  BY DEF NoSubscription, Subscriptions
<1>3. \A w : Reads(NoSubscription, <<>>, w, 0)
  <2> TAKE w
  <2>1. /\ NoSubscription.from = 0 /\ NoSubscription.given = <<>>
        /\ NoSubscription.queue = <<>> /\ NoSubscription.to = 0
        /\ NoSubscription.open = FALSE /\ Until(NoSubscription, <<>>) = 0
    BY DEF NoSubscription, Until
  <2>2. WaitsFrom(NoSubscription, <<>>, 0)
    BY <2>1 DEF WaitsFrom
  <2>3. GivenUpTo(NoSubscription, <<>>, w, 0)
    BY <2>1 DEF GivenUpTo
  <2>4. QED
    BY <2>2, <2>3, Zenon DEF Reads
<1>4. QED
  <2>1. feed \in Seq(Instruments) /\ arrived \in Seq(Seq(Instruments))
    BY <1>1
  <2>2. subscription \in [Subscribers -> Subscriptions]
    BY <1>1, <1>2
  <2>3. \A s \in Subscribers : Reads(subscription[s], feed, Watches[s], 0)
    BY <1>1, <1>3, Zenon
  <2>4. 0 \in Nat
    OBVIOUS
  <2>5. QED
    BY <2>1, <2>2, <2>3, <2>4, Zenon DEF FeedInv

\* A step of one subscriber: the others read on as they did.
LEMMA OneSubscriber ==
  ASSUME FeedInv, NEW s \in Subscribers, NEW new \in Subscriptions, NEW c \in Nat,
         Reads(new, feed, Watches[s], c), UNCHANGED <<feed, arrived>>,
         subscription' = [subscription EXCEPT ![s] = new]
  PROVE  FeedInv'
<1>1. /\ feed \in Seq(Instruments) /\ arrived \in Seq(Seq(Instruments))
      /\ subscription \in [Subscribers -> Subscriptions]
      /\ \A r \in Subscribers : \E d \in Nat : Reads(subscription[r], feed, Watches[r], d)
  BY Zenon DEF FeedInv
<1>2. subscription' \in [Subscribers -> Subscriptions] /\ feed' = feed /\ arrived' = arrived
  BY <1>1
<1>3. ASSUME NEW r \in Subscribers
      PROVE  \E d \in Nat : Reads(subscription'[r], feed, Watches[r], d)
  <2>1. subscription'[r] = IF r = s THEN new ELSE subscription[r]
    BY <1>1
  <2>2. CASE r = s
    BY <2>1, <2>2
  <2>3. CASE r # s
    BY <1>1, <2>1, <2>3
  <2>4. QED
    BY <2>2, <2>3
<1>4. \A r \in Subscribers : \E d \in Nat : Reads(subscription'[r], feed', Watches[r], d)
  BY <1>2, <1>3, Zenon
<1>5. QED
  BY <1>1, <1>2, <1>4, Zenon DEF FeedInv

LEMMA PublishKeepsFeed ==
  ASSUME FeedInv, FeedAssumption, Publish
  PROVE  FeedInv'
<1>1. /\ feed \in Seq(Instruments) /\ arrived \in Seq(Seq(Instruments))
      /\ subscription \in [Subscribers -> Subscriptions]
      /\ \A r \in Subscribers : \E d \in Nat : Reads(subscription[r], feed, Watches[r], d)
  BY Zenon DEF FeedInv
<1> DEFINE nothing == [taken |-> <<>>, refused |-> FALSE,
                       queues |-> [s \in Subscribers |-> subscription[s].queue]]
           m == Head(arrived)
           fan == FoldLeft(PublishTick, nothing, m)
<1>2. /\ arrived # <<>> /\ feed' = feed \o fan.taken
      /\ subscription' = [s \in Subscribers |->
                            [subscription[s] EXCEPT !.queue = fan.queues[s]]]
      /\ arrived' = Tail(arrived)
  BY Zenon DEF Publish
<1>3. m \in Seq(Instruments) /\ arrived' \in Seq(Seq(Instruments))
  BY <1>1, <1>2
<1>4. nothing \in Fans
  <2>1. \A s \in Subscribers : subscription[s].queue \in Seq(Nat)
    BY <1>1 DEF Subscriptions
  <2>2. /\ nothing \in [taken : Seq(Instruments), refused : BOOLEAN, queues : [Subscribers -> Seq(Nat)]]
        /\ nothing.taken = <<>>
        /\ \A s \in Subscribers : nothing.queues[s] = subscription[s].queue
    BY <2>1
  <2> HIDE DEF nothing
  <2>3. \A q \in Seq(Nat) : Follows(q, q, feed, <<>>)
    BY <1>1 DEF Follows
  <2>4. QED
    BY <2>1, <2>2, <2>3, Zenon DEF Fans
<1>5. fan \in Fans
  <2> HIDE DEF nothing, m
  <2>1. \A g \in Fans : \A i \in Instruments : PublishTick(g, i) \in Fans
    BY <1>1, TickKeepsFans, Zenon
  <2>2. QED
    BY <1>3, <1>4, <2>1, FoldKeeps, Zenon
<1> HIDE DEF fan
<1>6. /\ fan.taken \in Seq(Instruments) /\ fan.queues \in [Subscribers -> Seq(Nat)]
      /\ \A s \in Subscribers :
           IF subscription[s].open
           THEN Follows(fan.queues[s], subscription[s].queue, feed, fan.taken)
           ELSE fan.queues[s] = subscription[s].queue
  BY <1>5 DEF Fans
<1>7. ASSUME NEW s \in Subscribers
      PROVE  /\ subscription'[s] \in Subscriptions
             /\ \E d \in Nat : Reads(subscription'[s], feed', Watches[s], d)
  <2>1. /\ subscription[s] \in Subscriptions /\ fan.queues[s] \in Seq(Nat)
        /\ subscription'[s] = [subscription[s] EXCEPT !.queue = fan.queues[s]]
    BY <1>1, <1>2, <1>6
  <2>2. PICK d \in Nat : Reads(subscription[s], feed, Watches[s], d)
    BY <1>1
  <2>3. IF subscription[s].open
        THEN Follows(fan.queues[s], subscription[s].queue, feed, fan.taken)
        ELSE fan.queues[s] = subscription[s].queue
    BY <1>6
  <2>4. Reads([subscription[s] EXCEPT !.queue = fan.queues[s]], feed \o fan.taken, Watches[s], d)
    BY <1>1, <1>6, <2>1, <2>2, <2>3, ReadsPublished, Zenon
  <2>5. [subscription[s] EXCEPT !.queue = fan.queues[s]] \in Subscriptions
    BY <2>1 DEF Subscriptions
  <2>6. QED
    BY <1>2, <2>1, <2>4, <2>5, Zenon
<1>8. feed' \in Seq(Instruments)
  BY <1>1, <1>2, <1>6
<1>9. subscription' \in [Subscribers -> Subscriptions]
  <2>1. DOMAIN subscription' = Subscribers
        /\ subscription' = [s \in Subscribers |-> subscription'[s]]
    BY <1>2
  <2>2. QED
    BY <1>7, <2>1
<1>10. QED
  BY <1>3, <1>7, <1>8, <1>9, Zenon DEF FeedInv

LEMMA LeavesRecord ==
  ASSUME FeedInv, NEW s \in Subscribers, subscription[s].open
  PROVE  /\ Leaves(s) \in Subscriptions
         /\ \E c \in Nat : Reads(Leaves(s), feed, Watches[s], c)
<1>1. subscription[s] \in Subscriptions /\ feed \in Seq(Instruments)
  BY DEF FeedInv
<1>2. PICK c \in Nat : Reads(subscription[s], feed, Watches[s], c)
  BY Zenon DEF FeedInv
<1> DEFINE queue == IF Full(s) THEN subscription[s].queue ELSE Append(subscription[s].queue, End)
<1>3. queue \in {subscription[s].queue, Append(subscription[s].queue, End)}
  OBVIOUS
<1>4. Leaves(s) = [subscription[s] EXCEPT !.open = FALSE, !.to = Len(feed), !.queue = queue]
  BY Zenon DEF Leaves
<1> HIDE DEF queue
<1>5. /\ [subscription[s] EXCEPT !.open = FALSE, !.to = Len(feed), !.queue = queue]
           \in Subscriptions
      /\ Reads([subscription[s] EXCEPT !.open = FALSE, !.to = Len(feed), !.queue = queue],
               feed, Watches[s], c)
  BY <1>1, <1>2, <1>3, ReadsLeft, Zenon
<1>6. QED
  BY <1>4, <1>5, Zenon

LEMMA FeedNextInv ==
  ASSUME FeedInv, FeedAssumption, FeedNext
  PROVE  FeedInv'
<1>1. /\ feed \in Seq(Instruments) /\ arrived \in Seq(Seq(Instruments))
      /\ subscription \in [Subscribers -> Subscriptions]
      /\ \A r \in Subscribers : \E d \in Nat : Reads(subscription[r], feed, Watches[r], d)
  BY Zenon DEF FeedInv
<1>2. ASSUME UNCHANGED <<feed, subscription>>, arrived' \in Seq(Seq(Instruments)) PROVE FeedInv'
  BY <1>1, <1>2, Zenon DEF FeedInv
<1>3. CASE \/ Connect \/ Opens \/ Closes \/ Disconnect \/ Reconnects \/ Sleeps
           \/ RecoveryBegins \/ RecoveryEnds
           \/ \E i \in Instruments : AppBegins(i) \/ AppEnds(i)
  <2>1. UNCHANGED <<feed, arrived, subscription>>
    BY <1>3 DEF Connect, Opens, Closes, Disconnect, Reconnects, Sleeps, RecoveryBegins,
                RecoveryEnds, AppBegins, AppEnds
  <2>2. QED
    BY <1>1, <1>2, <2>1
<1>4. CASE Publish
  BY <1>4, PublishKeepsFeed
<1>5. CASE CloseStream
  <2>1. /\ UNCHANGED <<feed, arrived>>
        /\ subscription' = [s \in Subscribers |->
                              IF subscription[s].open THEN Leaves(s) ELSE subscription[s]]
    BY <1>5 DEF CloseStream
  <2>2. ASSUME NEW s \in Subscribers
        PROVE  /\ subscription'[s] \in Subscriptions
               /\ \E d \in Nat : Reads(subscription'[s], feed, Watches[s], d)
    <3>1. subscription'[s] = IF subscription[s].open THEN Leaves(s) ELSE subscription[s]
      BY <2>1
    <3>2. CASE subscription[s].open
      BY <3>1, <3>2, LeavesRecord
    <3>3. CASE ~subscription[s].open
      BY <1>1, <3>1, <3>3
    <3>4. QED
      BY <3>2, <3>3
  <2>3. subscription' \in [Subscribers -> Subscriptions]
    <3>1. subscription' = [s \in Subscribers |-> subscription'[s]]
      BY <2>1
    <3>2. QED
      BY <2>2, <3>1
  <2>4. QED
    BY <1>1, <2>1, <2>2, <2>3, Zenon DEF FeedInv
<1>6. ASSUME NEW m \in Messages, Message(m) PROVE FeedInv'
  <2>1. UNCHANGED <<feed, subscription>> /\ arrived' = Append(arrived, m)
    BY <1>6 DEF Message
  <2>2. m \in Seq(Instruments)
    BY DEF FeedAssumption
  <2>3. arrived' \in Seq(Seq(Instruments))
    BY <1>1, <2>1, <2>2
  <2>4. QED
    BY <1>2, <2>1, <2>3
<1>7. ASSUME NEW s \in Subscribers, Subscribe(s) PROVE FeedInv'
  <2> DEFINE new == [NoSubscription EXCEPT !.open = TRUE, !.from = Len(feed)]
             lf == Len(feed)
  <2>1. /\ UNCHANGED <<feed, arrived>> /\ subscription[s] = NoSubscription
        /\ subscription' = [subscription EXCEPT ![s].open = TRUE, ![s].from = Len(feed)]
    BY <1>7 DEF Subscribe
  <2>2. subscription' = [subscription EXCEPT ![s] = new]
    BY <1>1, <2>1
  <2>3. lf \in Nat
    BY <1>1
  <2>4. /\ new.open = TRUE /\ new.from = lf /\ new.given = <<>> /\ new.queue = <<>>
        /\ new \in Subscriptions
    <3>1. /\ NoSubscription \in Subscriptions /\ NoSubscription.given = <<>>
          /\ NoSubscription.queue = <<>>
      BY DEF NoSubscription, Subscriptions
    <3>2. /\ [NoSubscription EXCEPT !.open = TRUE, !.from = lf] \in Subscriptions
          /\ [NoSubscription EXCEPT !.open = TRUE, !.from = lf].open = TRUE
          /\ [NoSubscription EXCEPT !.open = TRUE, !.from = lf].from = lf
          /\ [NoSubscription EXCEPT !.open = TRUE, !.from = lf].given = NoSubscription.given
          /\ [NoSubscription EXCEPT !.open = TRUE, !.from = lf].queue = NoSubscription.queue
      <4> HIDE DEF lf
      <4>1. QED
        BY <2>3, <3>1 DEF Subscriptions
    <3>3. QED
      BY <3>1, <3>2, Zenon
  <2> HIDE DEF new, lf
  <2>5. Until(new, feed) = lf
    BY <2>4 DEF Until, lf
  <2>6. WaitsFrom(new, feed, lf)
    BY <2>3, <2>4, <2>5 DEF WaitsFrom, lf
  <2>7. GivenUpTo(new, feed, Watches[s], lf)
    <3>1. lf + 1..lf = {} /\ DOMAIN new.given = {}
      BY <2>3, <2>4
    <3>2. QED
      BY <2>4, <3>1, Zenon DEF GivenUpTo
  <2>8. QED
    BY <2>1, <2>2, <2>3, <2>4, <2>6, <2>7, OneSubscriber, Zenon DEF Reads
<1>8. ASSUME NEW s \in Subscribers, Take(s) PROVE FeedInv'
  <2> DEFINE sub == subscription[s]
             given == IF feed[Head(sub.queue)] \in Watches[s]
                      THEN Append(sub.given, Head(sub.queue)) ELSE sub.given
             new == [sub EXCEPT !.queue = Tail(sub.queue), !.given = given]
  <2>1. /\ UNCHANGED <<feed, arrived>> /\ sub.queue # <<>> /\ Head(sub.queue) # End
        /\ subscription' = [subscription EXCEPT ![s].queue = Tail(@),
             ![s].given = IF feed[Head(sub.queue)] \in Watches[s]
                          THEN Append(@, Head(sub.queue)) ELSE @]
    BY <1>8 DEF Take
  <2>2. subscription' = [subscription EXCEPT ![s] = new]
    BY <1>1, <2>1
  <2>3. PICK c \in Nat : Reads(sub, feed, Watches[s], c)
    BY <1>1
  <2>4. sub \in Subscriptions /\ c + 1 \in Nat
    BY <1>1
  <2>5. given = IF feed[Head(sub.queue)] \in Watches[s]
                THEN Append(sub.given, Head(sub.queue)) ELSE sub.given
    OBVIOUS
  <2> HIDE DEF sub, given
  <2>6. new \in Subscriptions /\ Reads(new, feed, Watches[s], c + 1)
    BY <1>1, <2>1, <2>3, <2>4, <2>5, ReadsTaken, Zenon
  <2> HIDE DEF new
  <2>7. QED
    BY <2>1, <2>2, <2>4, <2>6, OneSubscriber, Zenon
<1>9. ASSUME NEW s \in Subscribers, Unsubscribe(s) PROVE FeedInv'
  <2>1. /\ UNCHANGED <<feed, arrived>> /\ subscription[s].open
        /\ subscription' = [subscription EXCEPT ![s] = Leaves(s)]
    BY <1>9 DEF Unsubscribe
  <2>2. Leaves(s) \in Subscriptions
        /\ \E c \in Nat : Reads(Leaves(s), feed, Watches[s], c)
    BY <2>1, LeavesRecord
  <2>3. QED
    BY <2>1, <2>2, OneSubscriber, Zenon
<1>10. QED
  BY <1>3, <1>4, <1>5, <1>6, <1>7, <1>8, <1>9, Zenon DEF FeedNext

-----------------------------------------------------------------------------
\* Whatever the messages, the slow subscribers, the reconnects, the unsubscriptions and
\* the closes: what a subscriber was given and what still waits for it are the ticks it
\* watches that the fan-out took while it was subscribed, each once and in their order
\* (publish of realtime.py, all or nothing for one tick).
THEOREM FeedCorrect ==
  ASSUME FeedAssumption
  PROVE  FeedSpec => []SubscribersSeeOneFeed
<1>1. FeedInv /\ UNCHANGED feedVars => FeedInv'
  BY Zenon DEF FeedInv, feedVars
<1>2. FeedInv /\ [FeedNext]_feedVars => FeedInv'
  BY <1>1, FeedNextInv
<1>3. QED
  BY <1>2, FeedInitInv, FeedInvImplies, PTL DEF FeedSpec
=============================================================================
