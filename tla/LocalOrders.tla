---------------------------- MODULE LocalOrders ----------------------------
(***************************************************************************)
(* The order records of one process (order_lifecycle.py) with their state  *)
(* machines (order_state_machine.py), and the reconciler that brings them  *)
(* up to date from the broker's order snapshots (order_reconciliation.py,  *)
(* startup_order_recovery.py). All orders are for one symbol.              *)
(*                                                                         *)
(* A book is what OrderLifecycle holds: the records, their machines and    *)
(* the position. The broker is external: its orders only move forward, but *)
(* a snapshot may be old, a row of it may come without the average price,  *)
(* and some orders are reported without the client's order id              *)
(* (_coerce_broker_order leaves both empty when the payload has none). One *)
(* request may have been sent twice: then two broker orders, alike, have   *)
(* one client's id.                                                        *)
(*                                                                         *)
(* OrderLifecycle.apply_fill is left out: nothing of the application calls *)
(* it, and a record's fills come only through transition.                  *)
(***************************************************************************)
EXTENDS Integers, Sequences, FiniteSets, FiniteSetsExt, SequencesExt

CONSTANTS LocalIds,       \* ids of orders created here
          RemoteIds,      \* ids the broker gives; also ids of records created from a row
          ClientOf,       \* the local id each broker order was sent under
          SideOf, SizeOf, \* of each broker order, and of the local order it is for
          AccountOf,
          Tagged,         \* the broker orders whose rows name the client's order id
          MaxPrice,       \* bound on average prices
          MaxRows,        \* bound on the rows of a snapshot
          NoRemote, NoAccount

ASSUME LocalOrdersAssumption ==
  /\ ClientOf \in [RemoteIds -> LocalIds] /\ LocalIds \cap RemoteIds = {}
  /\ \A a, b \in RemoteIds :
       ClientOf[a] = ClientOf[b] =>
         SideOf[a] = SideOf[b] /\ SizeOf[a] = SizeOf[b] /\ AccountOf[a] = AccountOf[b]
  /\ SizeOf \in [RemoteIds -> Nat \ {0}] /\ SideOf \in [RemoteIds -> {"BUY", "SELL"}]
  /\ Tagged \subseteq RemoteIds /\ NoRemote \notin RemoteIds
  /\ MaxPrice \in Nat /\ MaxRows \in Nat

VARIABLES book,    \* [records, machines, net, holder]
          remote,  \* the broker's orders: sequence of [status, filled, price] so far
          ready    \* the last startup recovery answered ready

localVars == <<book, remote, ready>>

Ids == LocalIds \cup RemoteIds

Final == {"FILLED", "CANCELLED", "REJECTED"}

NoLocal == [status |-> "NONE", side |-> "BUY", size |-> 0, filled |-> 0, applied |-> 0,
            price |-> 0, worth |-> 0, bound |-> NoRemote, account |-> NoAccount]

LocalInit ==
  /\ book = [records |-> [c \in Ids |-> NoLocal], machines |-> [c \in Ids |-> "CREATED"],
             net |-> 0, holder |-> NoAccount]
  /\ remote = [b \in RemoteIds |-> <<>>]
  /\ ready = FALSE

Known(bk) == {c \in Ids : bk.records[c].status # "NONE"}

-----------------------------------------------------------------------------
(* OrderLifecycle.                                                          *)

\* _STATUS_TO_STATE
MachineState(status) ==
  CASE status = "SUBMISSION_INTENT" -> "SUBMITTING"
    [] status = "SUBMITTED" -> "OPEN"
    [] OTHER -> status

\* _ALLOWED of the state machine.
MachineAllows(from) ==
  CASE from = "CREATED" ->
         {"SUBMITTING", "OPEN", "PARTIALLY_FILLED", "FILLED", "REJECTED", "CANCELLED",
          "PENDING_RECONCILIATION"}
    [] from = "SUBMITTING" ->
         {"OPEN", "PARTIALLY_FILLED", "FILLED", "REJECTED", "PENDING_RECONCILIATION"}
    [] from = "OPEN" ->
         {"PARTIALLY_FILLED", "FILLED", "CANCEL_PENDING", "PENDING_RECONCILIATION"}
    [] from = "PARTIALLY_FILLED" ->
         {"PARTIALLY_FILLED", "FILLED", "CANCEL_PENDING", "PENDING_RECONCILIATION"}
    [] from = "PENDING_RECONCILIATION" ->
         {"OPEN", "PARTIALLY_FILLED", "FILLED", "CANCELLED", "REJECTED",
          "PENDING_RECONCILIATION"}
    [] OTHER -> {}

Created(bk, c, b) ==
  [bk EXCEPT !.records[c] = [NoLocal EXCEPT !.status = "CREATED", !.side = SideOf[b],
                                            !.size = SizeOf[b], !.account = AccountOf[b]],
             !.machines[c] = "CREATED"]

\* transition refuses before it changes anything: a fill beyond the order or going
\* back, another price for the same fill, a step the machine does not have.
Refuses(bk, c, row) ==
  LET r == bk.records[c] IN
  \/ row.status \in {"FILLED", "PARTIALLY_FILLED"} /\ row.filled > r.size
  \/ row.filled < r.applied
  \/ row.filled = r.applied /\ row.price # 0 /\ r.price # 0 /\ row.price # r.price
  \/ MachineState(row.status) \notin MachineAllows(bk.machines[c])

\* The status and the filled quantity are set before the fill is booked.
Advanced(bk, c, row) ==
  [bk EXCEPT !.machines[c] = MachineState(row.status),
             !.records[c].status = row.status, !.records[c].filled = row.filled,
             !.records[c].price = IF row.price # 0 THEN row.price ELSE @]

Signed(side, quantity) == IF side = "BUY" THEN quantity ELSE -quantity

\* Mutant of Delta: what was reported before is taken for what was booked before.
ReportedDelta(bk, c, row) == row.filled - bk.records[c].filled

Delta(bk, c, row) == row.filled - bk.records[c].applied

\* _apply_position_delta: the position belongs to the account that opened it.
Booked(bk, c, row, delta) ==
  LET net == bk.net + Signed(bk.records[c].side, delta) IN
  [bk EXCEPT !.records[c].applied = row.filled,
             !.records[c].worth = row.filled * bk.records[c].price,
             !.net = net,
             !.holder = IF net = 0 THEN NoAccount ELSE bk.records[c].account]

\* A fill without a price, one whose value goes back, or one of another account than
\* the position's is refused although the record has advanced.
CannotBook(bk, c, row) ==
  LET r == bk.records[c] IN
  \/ r.price = 0
  \/ row.filled * r.price <= r.worth
  \/ bk.net # 0 /\ bk.holder # r.account

\* transition: [book, ok], where an exception leaves what was done before it.
Transition(bk, c, row) ==
  LET delta == Delta(bk, c, row)
      advanced == Advanced(bk, c, row) IN
  CASE Refuses(bk, c, row) -> [book |-> bk, ok |-> FALSE]
    [] ~Refuses(bk, c, row) /\ delta <= 0 -> [book |-> advanced, ok |-> TRUE]
    [] OTHER -> IF CannotBook(advanced, c, row)
                THEN [book |-> advanced, ok |-> FALSE]
                ELSE [book |-> Booked(advanced, c, row, delta), ok |-> TRUE]

-----------------------------------------------------------------------------
(* OrderReconciler. A row is [order, client, status, filled, price], where  *)
(* client is FALSE when the row does not name the client's order id.        *)

Named(row) == IF row.client THEN {ClientOf[row.order]} ELSE {}

Candidates(bk, row) ==
  {c \in Known(bk) : c = row.order \/ bk.records[c].bound = row.order \/ c \in Named(row)}

\* Two records the row may be for, of the row's account.
Ambiguous(bk, row) ==
  Cardinality({c \in Candidates(bk, row) :
                 bk.records[c].account = AccountOf[row.order]}) > 1

SameAccount(bk, row) ==
  {c \in Candidates(bk, row) : bk.records[c].account = AccountOf[row.order]}

Found(bk, row) ==
  IF SameAccount(bk, row) # {} THEN SameAccount(bk, row) ELSE Candidates(bk, row)

\* _validate_identity: the row is of the record's account, symbol, side and size, and
\* names no other client order.
IdentityHolds(bk, c, row) ==
  LET r == bk.records[c] IN
  /\ r.account = AccountOf[row.order]
  /\ r.side = SideOf[row.order] /\ r.size = SizeOf[row.order]
  /\ row.client => c = ClientOf[row.order]

Stays(bk, alert) == [book |-> bk, alerts |-> alert]

InSync(r, row) == <<r.status, r.filled, r.price>> = <<row.status, row.filled, row.price>>

\* A broker order nobody knows gets a record, under the client's id if the row has it.
CreatesRecord(bk, row) ==
  LET c == IF row.client THEN ClientOf[row.order] ELSE row.order
      bound == [Created(bk, c, row.order) EXCEPT !.records[c].bound = row.order]
      done == Transition(bound, c, row) IN
  Stays(done.book, ~done.ok)

UpdatesRecord(bk, c, row) ==
  LET bound == [bk EXCEPT !.records[c].bound = IF @ = NoRemote THEN row.order ELSE @]
      done == Transition(bound, c, row) IN
  IF InSync(bound.records[c], row) THEN Stays(bound, FALSE) ELSE Stays(done.book, ~done.ok)

\* reconcile, for one row.
ReconcileRow(bk, row) ==
  CASE Ambiguous(bk, row) -> Stays(bk, TRUE)
    [] ~Ambiguous(bk, row) /\ Candidates(bk, row) = {} -> CreatesRecord(bk, row)
    [] OTHER ->
         LET c == CHOOSE c \in Found(bk, row) : TRUE IN
         IF IdentityHolds(bk, c, row) THEN UpdatesRecord(bk, c, row) ELSE Stays(bk, TRUE)

PendingIn(bk) == {c \in Ids : bk.records[c].status = "PENDING_RECONCILIATION"}

\* reconcile_pending, for one row: only records that were pending are brought up to date.
ReconcilePendingRow(bk, row, pending) ==
  LET c == CHOOSE c \in Found(bk, row) : TRUE
      done == Transition(bk, c, row) IN
  CASE Ambiguous(bk, row) -> Stays(bk, TRUE)
    [] ~Ambiguous(bk, row) /\ (Candidates(bk, row) = {} \/ c \notin pending) -> Stays(bk, FALSE)
    [] OTHER -> IF IdentityHolds(bk, c, row) THEN Stays(done.book, ~done.ok)
                ELSE Stays(bk, TRUE)

-----------------------------------------------------------------------------
(* The rows a snapshot may show: any state an order has been in.            *)

Rows ==
  UNION {{[order |-> b, client |-> b \in Tagged, status |-> remote[b][n].status,
           filled |-> remote[b][n].filled,
           price |-> IF priced THEN remote[b][n].price ELSE 0] :
            n \in DOMAIN remote[b], priced \in BOOLEAN} :
         b \in RemoteIds}

\* A snapshot has rows of different orders: a second row of one is passed over.
Snapshots ==
  {rows \in UNION {[1..n -> Rows] : n \in 1..MaxRows} :
     \A j, k \in DOMAIN rows : j # k => rows[j].order # rows[k].order}

\* create, and the answer to the submission is unknown, or the call is still out.
CreateLocal(b) ==
  LET c == ClientOf[b] IN
  /\ book.records[c] = NoLocal
  /\ \E status \in {"SUBMISSION_INTENT", "PENDING_RECONCILIATION"} :
       book' = [Created(book, c, b) EXCEPT !.records[c].status = status,
                                           !.machines[c] = MachineState(status)]
  /\ UNCHANGED <<remote, ready>>

\* mark_pending_reconciliation
MarkPending(c) ==
  /\ book.records[c].status \notin Final \cup {"NONE", "PENDING_RECONCILIATION"}
  /\ "PENDING_RECONCILIATION" \in MachineAllows(book.machines[c])
  /\ book' = [book EXCEPT !.records[c].status = "PENDING_RECONCILIATION",
                          !.machines[c] = "PENDING_RECONCILIATION"]
  /\ UNCHANGED <<remote, ready>>

\* The reconciler works through a snapshot.
Worked(bk, row) == ReconcileRow(bk, row).book

Reconcile(rows) ==
  /\ book' = FoldLeft(Worked, book, rows)
  /\ UNCHANGED <<remote, ready>>

\* Each order that was pending is looked up by its own id, which its row is then taken
\* to name, and reconciled by itself.
LookedUp(bk, row) ==
  IF ClientOf[row.order] \in PendingIn(book)
  THEN ReconcileRow(bk, [row EXCEPT !.client = TRUE]).book ELSE bk

\* StartupOrderRecovery.run: ready is that no order is left pending.
Recover(rows) ==
  /\ PendingIn(book) # {}
  /\ \A j, k \in DOMAIN rows : ClientOf[rows[j].order] = ClientOf[rows[k].order] => j = k
  /\ book' = FoldLeft(LookedUp, book, rows)
  /\ ready' = (PendingIn(book') = {})
  /\ UNCHANGED remote

\* run_account: the account's rows of one snapshot, an alert of which keeps the order
\* unresolved.
PendingOf(a, acc, row) ==
  LET done == ReconcilePendingRow(acc.book, row, PendingIn(book)) IN
  IF AccountOf[row.order] # a THEN acc
  ELSE [book |-> done.book,
        alerts |-> IF done.alerts THEN acc.alerts \cup {row.order} ELSE acc.alerts]

RecoverAccount(rows, a) ==
  LET scope == {c \in PendingIn(book) : book.records[c].account = a}
      after == FoldLeft(LAMBDA acc, row : PendingOf(a, acc, row),
                        [book |-> book, alerts |-> {}], rows) IN
  /\ scope # {}
  /\ book' = after.book
  /\ ready' = (scope \cap PendingIn(after.book) = {} /\ after.alerts \cap scope = {})
  /\ UNCHANGED remote

\* The broker takes an order that was sent, fills it, or ends it.
RemoteStep(b) ==
  LET now == Last(remote[b])
      reports(status, filled, price) ==
        remote' = [remote EXCEPT ![b] = Append(@, [status |-> status, filled |-> filled,
                                                   price |-> price])] IN
  /\ \/ /\ remote[b] = <<>> /\ book.records[ClientOf[b]].status # "NONE"
        /\ reports("SUBMITTED", 0, 0)
     \/ /\ remote[b] # <<>> /\ now.status \notin Final /\ now.filled < SizeOf[b]
        /\ \E price \in 1..MaxPrice :
             /\ price * (now.filled + 1) > now.price * now.filled
             /\ reports(IF now.filled + 1 = SizeOf[b] THEN "FILLED" ELSE "PARTIALLY_FILLED",
                        now.filled + 1, price)
     \/ /\ remote[b] # <<>> /\ now.status \notin Final
        /\ reports(IF now.filled = 0 THEN "REJECTED" ELSE "CANCELLED", now.filled, now.price)
  /\ UNCHANGED <<book, ready>>

LocalNext ==
  \/ \E b \in RemoteIds : CreateLocal(b) \/ RemoteStep(b)
  \/ \E c \in Ids : MarkPending(c)
  \/ \E rows \in Snapshots : Reconcile(rows) \/ Recover(rows)
  \/ \E rows \in Snapshots, a \in {AccountOf[b] : b \in RemoteIds} : RecoverAccount(rows, a)

LocalSpec == LocalInit /\ [][LocalNext]_localVars

-----------------------------------------------------------------------------
StatusWords ==
  {"NONE", "CREATED", "SUBMISSION_INTENT", "SUBMITTING", "SUBMITTED", "OPEN",
   "PARTIALLY_FILLED", "PENDING_RECONCILIATION"} \cup Final

LocalRecords ==
  [status : StatusWords, side : {"BUY", "SELL"}, size : Nat, filled : Nat, applied : Nat,
   price : Nat, worth : Nat, bound : RemoteIds \cup {NoRemote},
   account : {AccountOf[b] : b \in RemoteIds} \cup {NoAccount}]

Books ==
  [records : [Ids -> LocalRecords], machines : [Ids -> StatusWords], net : Int,
   holder : {AccountOf[b] : b \in RemoteIds} \cup {NoAccount}]

LocalTypeOK == book \in Books

\* The broker has taken no other order under the client's id of this one.
Sole(b, rem) == \A o \in RemoteIds : ClientOf[o] = ClientOf[b] /\ o # b => rem[o] = <<>>

\* The position is the sum of the fills booked to the records, and no more of a broker
\* order is booked than it filled, though rows are old, repeated or without the
\* client's id, and a record made from such a row stands beside the order's own
\* (_find_local, _apply_position_delta). The second half is of an order that is the only
\* one of its client id: rows of two, of the same terms, are not told apart.
PositionIsTheBookedFills ==
  /\ book.net = SumFunctionOnSet([c \in Ids |-> Signed(book.records[c].side,
                                                     book.records[c].applied)],
                                 Known(book))
  /\ \A b \in RemoteIds :
       Sole(b, remote) =>
         book.records[b].applied + book.records[ClientOf[b]].applied
           <= IF remote[b] = <<>> THEN 0 ELSE Last(remote[b]).filled
=============================================================================
