------------------------- MODULE ReconciliationChecks -------------------------
(***************************************************************************)
(* Reconciliation of one broker account while it trades. A check reads the *)
(* local book, then the broker's orders, then its positions, compares them *)
(* (reconciliation.py), records the verdict in the durable state row       *)
(* (reconciliation_state_store.py) and, when nothing drifted, hands the    *)
(* snapshot it saw to the safety store. An order passes when the row does  *)
(* not block (risk_gate.py) and the broker still shows that snapshot       *)
(* (broker_router.py). Checks of several processes overlap, and their      *)
(* rows are written in any order.                                          *)
(*                                                                         *)
(* The other comparisons of the repository (reconciliation_compare.py,     *)
(* broker_reconciliation.py, execution_recovery.py,                        *)
(* trading_state_reconciliation.py) are stated over the same two books.    *)
(* All orders are for one symbol, and are found under the same identity    *)
(* on both sides. The broker is external.                                  *)
(***************************************************************************)
EXTENDS Integers, Functions

CONSTANTS CheckedOrders,  \* orders of this process and of other clients
          CheckedSide,    \* of each: 1 is a buy, -1 a sell
          CheckedSize,    \* its quantity
          OwnChecked,     \* the orders this process may place
          MaxChecks       \* bound on checks

ASSUME ReconciliationChecksAssumption ==
  /\ CheckedSide \in [CheckedOrders -> {1, -1}] /\ OwnChecked \subseteq CheckedOrders
  /\ CheckedSize \in [CheckedOrders -> Nat \ {0}]
  /\ MaxChecks \in Nat

VARIABLES localBook,   \* the lifecycle's records
          brokerBook,  \* the broker's orders
          checks,      \* the checks, in the order they began
          checkRow,    \* ReconciliationState of the account and route
          cleared,     \* the reconciliation record of the safety store
          admission    \* the order that is being let through, or not

checkVars == <<localBook, brokerBook, checks, checkRow, cleared, admission>>

\* CANCELLED stands for REJECTED as well: the comparisons treat them alike.
OpenStatuses == {"SUBMITTED", "PARTIALLY_FILLED"}
DoneStatuses == {"FILLED", "CANCELLED"}

BookRow == [status : {"ABSENT"} \cup OpenStatuses \cup DoneStatuses, filled : Nat]
Absent == [status |-> "ABSENT", filled |-> 0]
EmptyBook == [o \in CheckedOrders |-> Absent]

Positions(book) ==
  SumFunction([o \in CheckedOrders |-> CheckedSide[o] * book[o].filled])

Shown(book) == {o \in CheckedOrders : book[o].status # "ABSENT"}
OpenIn(book) == {o \in CheckedOrders : book[o].status \in OpenStatuses}

-----------------------------------------------------------------------------
(* What each comparison calls agreement.                                    *)

PositionsAgree(local, net) == Positions(local) = net

\* Mutant of OrdersAgree: the statuses are not compared.
FillsAgree(local, orders) == \A o \in CheckedOrders : local[o].filled = orders[o].filled

\* ReconciliationEngine.check: the same orders, with the same status and fills.
OrdersAgree(local, orders) ==
  \A o \in CheckedOrders :
    /\ local[o].status = orders[o].status
    /\ local[o].filled = orders[o].filled
    /\ orders[o].filled <= CheckedSize[o]
    /\ local[o].status = "FILLED" => orders[o].filled = CheckedSize[o]

\* compare_broker_state: fills of orders are seen in the position only, and a local
\* order that is over still needs its row, unless it was cancelled.
StatesAgree(local, orders, net) ==
  LET owned == {o \in Shown(local) : local[o].status # "CANCELLED"} IN
  /\ owned \subseteq Shown(orders)
  /\ \A o \in Shown(orders) \ owned : orders[o].status \in DoneStatuses
  /\ PositionsAgree(local, net)

\* broker_reconciliation.OrderReconciler: no issue, and no status that went back.
Advances(from, to) ==
  CASE from = "SUBMITTED" -> to \in OpenStatuses \cup DoneStatuses
    [] from = "PARTIALLY_FILLED" -> to \in {"PARTIALLY_FILLED"} \cup DoneStatuses
    [] OTHER -> to = from

NoIssues(local, orders) ==
  /\ Shown(local) = Shown(orders)
  /\ \A o \in Shown(local) :
       /\ Advances(local[o].status, orders[o].status)
       /\ local[o].filled = orders[o].filled /\ local[o].status = orders[o].status

\* TradingStateReconciliationGuard: the open orders and the positions.
OpenStatesAgree(local, orders, net) ==
  OpenIn(local) = OpenIn(orders) /\ PositionsAgree(local, net)

-----------------------------------------------------------------------------
(* The two books.                                                           *)

IdleCheck == [at |-> "idle", local |-> EmptyBook, orders |-> EmptyBook, net |-> 0,
              ok |-> FALSE]

EndedCheck == [IdleCheck EXCEPT !.at = "ended"]

NothingCleared == [known |-> FALSE, orders |-> EmptyBook, net |-> 0]

ChecksInit ==
  /\ localBook = EmptyBook /\ brokerBook = EmptyBook
  /\ checks = [k \in 1..MaxChecks |-> IdleCheck]
  /\ checkRow = "UNKNOWN" /\ cleared = NothingCleared /\ admission = IdleCheck

\* The process submits: its record comes first, the broker's row later, or never.
PlaceOwn(o) ==
  /\ o \in OwnChecked /\ localBook[o] = Absent
  /\ localBook' = [localBook EXCEPT ![o].status = "SUBMITTED"]
  /\ UNCHANGED <<brokerBook, checks, checkRow, cleared, admission>>

BrokerTakes(o) ==
  /\ brokerBook[o] = Absent /\ (o \in OwnChecked => localBook[o] # Absent)
  /\ brokerBook' = [brokerBook EXCEPT ![o].status = "SUBMITTED"]
  /\ UNCHANGED <<localBook, checks, checkRow, cleared, admission>>

BrokerFills(o) ==
  /\ o \in OpenIn(brokerBook)
  /\ LET filled == brokerBook[o].filled + 1 IN
     brokerBook' = [brokerBook EXCEPT
       ![o] = [status |-> IF filled = CheckedSize[o] THEN "FILLED"
                          ELSE "PARTIALLY_FILLED",
               filled |-> filled]]
  /\ UNCHANGED <<localBook, checks, checkRow, cleared, admission>>

BrokerCancels(o) ==
  /\ o \in OpenIn(brokerBook)
  /\ brokerBook' = [brokerBook EXCEPT ![o].status = "CANCELLED"]
  /\ UNCHANGED <<localBook, checks, checkRow, cleared, admission>>

\* The lifecycle and the position take what the broker says of an order; an order of
\* another client is adopted as well.
LearnOrder(o) ==
  /\ o \in Shown(brokerBook) /\ localBook[o] # brokerBook[o]
  /\ localBook' = [localBook EXCEPT ![o] = brokerBook[o]]
  /\ UNCHANGED <<brokerBook, checks, checkRow, cleared, admission>>

-----------------------------------------------------------------------------
(* A check.                                                                 *)

Step(k, check) == checks' = [checks EXCEPT ![k] = check]

BeginCheck(k) ==
  /\ checks[k].at = "idle" /\ \A j \in 1..(k - 1) : checks[j].at # "idle"
  /\ Step(k, [IdleCheck EXCEPT !.at = "orders", !.local = localBook])
  /\ UNCHANGED <<localBook, brokerBook, checkRow, cleared, admission>>

\* _authoritative_reconciliation_snapshot: the orders, then the positions.
ReadOrders(k) ==
  /\ checks[k].at = "orders"
  /\ Step(k, [checks[k] EXCEPT !.at = "positions", !.orders = brokerBook])
  /\ UNCHANGED <<localBook, brokerBook, checkRow, cleared, admission>>

\* ReconciliationEngine.check, on a reading of the positions: it looks at nothing that is
\* shared.
FindsNoDrift(check, net) ==
  OrdersAgree(check.local, check.orders) /\ PositionsAgree(check.local, net)

\* A reservation that cannot be reconciled is a drift as well.
ReadPositions(k) ==
  /\ checks[k].at = "positions"
  /\ \E reserved \in BOOLEAN :
       LET net == Positions(brokerBook) IN
       Step(k, IF FindsNoDrift(checks[k], net) /\ reserved
               THEN [checks[k] EXCEPT !.at = "record", !.ok = TRUE, !.net = net,
                                      !.local = EmptyBook]
               ELSE [IdleCheck EXCEPT !.at = "record"])
  /\ UNCHANGED <<localBook, brokerBook, checkRow, cleared, admission>>

\* record_check replaces the row, whatever check wrote it.
RecordCheck(k) ==
  /\ checks[k].at = "record"
  /\ checkRow' = IF checks[k].ok THEN "VERIFIED" ELSE "HALTED"
  /\ Step(k, IF checks[k].ok THEN [checks[k] EXCEPT !.at = "clear"] ELSE EndedCheck)
  /\ UNCHANGED <<localBook, brokerBook, cleared, admission>>

\* The safety store keeps the snapshot of a check that found no drift.
ClearWith(k) ==
  /\ checks[k].at = "clear"
  /\ cleared' = [known |-> TRUE, orders |-> checks[k].orders, net |-> checks[k].net]
  /\ Step(k, EndedCheck)
  /\ UNCHANGED <<localBook, brokerBook, checkRow, admission>>

\* A list that does not validate, a snapshot that is not authoritative, a store that
\* raises, an intent that is not resolved, or the end of the process.
AbandonCheck(k) ==
  /\ checks[k].at \notin {"idle", "ended"}
  /\ Step(k, EndedCheck)
  /\ UNCHANGED <<localBook, brokerBook, checkRow, cleared, admission>>

-----------------------------------------------------------------------------
(* An order.                                                                *)

\* is_trading_blocked. A row, or a reconciliation, that has become too old refuses the
\* order as well: EndEntry.
TradingBlocked == checkRow # "VERIFIED"

\* The risk gate looks at the row; then the router reads the broker's orders again.
BeginEntry ==
  /\ admission.at = "idle" /\ ~TradingBlocked
  /\ admission' = [IdleCheck EXCEPT !.at = "positions", !.orders = brokerBook]
  /\ UNCHANGED <<localBook, brokerBook, checks, checkRow, cleared>>

\* _require_execution_ready: a reconciliation, and a broker that did not change since.
ExecutionReady(orders, net) == cleared = [known |-> TRUE, orders |-> orders, net |-> net]

AdmitEntry ==
  /\ admission.at = "positions" /\ ExecutionReady(admission.orders, Positions(brokerBook))
  /\ admission' = [admission EXCEPT !.at = "admitted", !.net = Positions(brokerBook)]
  /\ UNCHANGED <<localBook, brokerBook, checks, checkRow, cleared>>

\* It is refused, or over.
EndEntry ==
  /\ admission.at # "idle" /\ admission' = IdleCheck
  /\ UNCHANGED <<localBook, brokerBook, checks, checkRow, cleared>>

ChecksNext ==
  \/ \E o \in CheckedOrders :
       \/ PlaceOwn(o) \/ BrokerTakes(o) \/ BrokerFills(o) \/ BrokerCancels(o)
       \/ LearnOrder(o)
  \/ \E k \in 1..MaxChecks :
       \/ BeginCheck(k) \/ ReadOrders(k) \/ ReadPositions(k)
       \/ RecordCheck(k) \/ ClearWith(k) \/ AbandonCheck(k)
  \/ BeginEntry \/ AdmitEntry \/ EndEntry

ChecksSpec == ChecksInit /\ [][ChecksNext]_checkVars

-----------------------------------------------------------------------------
\* The books and the checks keep their types.
ChecksTypeOK ==
  /\ \A o \in CheckedOrders : localBook[o] \in BookRow /\ brokerBook[o] \in BookRow
  /\ \A k \in 1..MaxChecks :
       checks[k].at \in {"idle", "orders", "positions", "record", "clear", "ended"}
  /\ checkRow \in {"UNKNOWN", "VERIFIED", "HALTED"}
  /\ admission.at \in {"idle", "positions", "admitted"}

\* An order is let through only while the process knows every order the broker shows and
\* every fill of them, and the positions are those of these orders, although books are
\* read one after the other, checks overlap, and an older verdict may replace a newer one
\* (reconciliation_state_store.py record_check, broker_router.py _require_execution_ready).
\* What the engine calls agreement, every other comparison of the repository does; and
\* none of them calls a live order agreed that the process does not know as one that may
\* still fill.
TradesOnWhatItKnows ==
  /\ admission.at = "admitted" =>
       /\ Shown(admission.orders) \subseteq Shown(localBook)
       /\ \A o \in CheckedOrders : admission.orders[o].filled <= localBook[o].filled
       /\ Positions(admission.orders) = admission.net
  /\ \A k \in 1..MaxChecks :
       LET c == checks[k]
           net == Positions(brokerBook)
           others == {StatesAgree(c.local, c.orders, net), NoIssues(c.local, c.orders),
                      OpenStatesAgree(c.local, c.orders, net)} IN
       c.at = "positions" =>
         /\ FindsNoDrift(c, net) => others = {TRUE}
         /\ TRUE \in others =>
              \A o \in OpenIn(c.orders) : c.local[o].status \in OpenStatuses \cup {"FILLED"}
=============================================================================
