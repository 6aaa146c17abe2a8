--------------------------- MODULE StartupRecovery ---------------------------
(***************************************************************************)
(* The startup recovery of one process (startup_recovery.py): every order  *)
(* it left behind is brought up to date, then the broker's order snapshot  *)
(* and its position snapshot are taken, and only a broker that agrees      *)
(* makes the process ready. The gate and the guard that compare positions  *)
(* afterwards (startup_reconciliation_gate.py,                             *)
(* portfolio_reconciliation_guard.py) and the operator's halt run at any   *)
(* time.                                                                   *)
(*                                                                         *)
(* All orders are for one symbol. The broker is external: orders fill and  *)
(* end between any two steps, orders of other clients appear, and a        *)
(* request that left before the crash may still arrive.                    *)
(***************************************************************************)
EXTENDS Integers, Functions

CONSTANTS OwnOrders,     \* orders with a record here
          OtherOrders,   \* orders placed at the broker by someone else
          OrderSide,     \* of each order: 1 is a buy, -1 a sell
          OrderSize,     \* the quantity of every order
          MaxAttempts,   \* bound on recoveries
          MaxHalts       \* bound on operator halts

AllOrders == OwnOrders \cup OtherOrders

ASSUME StartupRecoveryAssumption ==
  /\ OrderSide \in [AllOrders -> {1, -1}] /\ OwnOrders \cap OtherOrders = {}
  /\ OrderSize \in Nat \ {0} /\ MaxAttempts \in Nat /\ MaxHalts \in Nat

VARIABLES kept,      \* the local records [status, filled]
          placedAt,  \* the broker's orders [status, filled]
          recoveryAt, \* RecoveryState
          machine,   \* StartupExecutionState
          stage,     \* where recover() is
          left,      \* local orders it still has to reconcile
          unresolved, \* it found an order that is still live
          shown,     \* broker orders in the order snapshot
          netShown,  \* the position in the position snapshot
          halt,      \* the persisted safety halt: none, or its reason
          attempts, halts

recoveryVars == <<kept, placedAt, recoveryAt, machine, stage, left, unresolved, shown,
                  netShown, halt, attempts, halts>>

\* SUBMITTED stands for every status the coordinator reconciles, and UNBOUND for one of
\* them without the broker's order id; a record that is PENDING reconciliation is not
\* among them.
KeptStatuses == {"SUBMITTED", "UNBOUND", "PENDING", "CLOSED"}

Reconcilable == {o \in OwnOrders : kept[o].status \in {"SUBMITTED", "UNBOUND"}}

\* Mutant of LiveAtBroker: only our own orders are looked for.
OwnLiveAtBroker == {o \in OwnOrders : placedAt[o].status = "OPEN"}

\* compare_live_orders: with no live record left, every live broker order is unexplained.
LiveAtBroker == {o \in AllOrders : placedAt[o].status = "OPEN"}

Net(orders, of) == SumFunction([o \in orders |-> OrderSide[o] * of[o].filled])

LocalNet == Net(OwnOrders, kept)
BrokerNet == Net(AllOrders, placedAt)

\* What a crash leaves: records that know no more than the broker.
RecoveryInit ==
  /\ placedAt \in [AllOrders -> [status : {"ABSENT", "OPEN", "CLOSED"},
                                 filled : 0..OrderSize]]
  /\ kept \in [OwnOrders -> [status : KeptStatuses, filled : 0..OrderSize]]
  /\ \A o \in AllOrders :
       /\ placedAt[o].status = "ABSENT" => placedAt[o].filled = 0
       /\ placedAt[o].status = "OPEN" => placedAt[o].filled < OrderSize
  /\ \A o \in OwnOrders :
       /\ kept[o].filled <= placedAt[o].filled
       /\ kept[o].status = "UNBOUND" => kept[o].filled = 0
       /\ kept[o].status = "SUBMITTED" =>
            placedAt[o].status # "ABSENT" /\ kept[o].filled < OrderSize
  /\ recoveryAt = "LOCKED" /\ machine = "LOCKED" /\ stage = "idle"
  /\ left = {} /\ unresolved = FALSE /\ shown = {} /\ netShown = 0
  /\ halt = "none" /\ attempts = 0 /\ halts = 0

-----------------------------------------------------------------------------
(* StartupRecoveryCoordinator.                                              *)

\* begin: a recovery takes the machine out of a halt as well.
BeginRecovery ==
  /\ stage = "idle" /\ recoveryAt # "READY" /\ attempts < MaxAttempts
  /\ recoveryAt' = "RECOVERING"
  /\ machine' = IF machine \in {"LOCKED", "FAILED", "HALTED"} THEN "RECOVERING"
                ELSE machine
  /\ stage' = "orders" /\ left' = Reconcilable /\ unresolved' = FALSE
  /\ shown' = {} /\ attempts' = attempts + 1
  /\ UNCHANGED <<kept, placedAt, netShown, halt, halts>>

\* _fail
FailRecovery ==
  /\ recoveryAt' = "FAILED" /\ stage' = "idle"
  /\ machine' = IF machine \in {"FAILED", "HALTED"} THEN machine ELSE "FAILED"
  /\ UNCHANGED <<kept, placedAt, left, unresolved, shown, netShown, halt, attempts, halts>>

\* reconcile_order: the record takes the broker's state, or stays as it was.
UpToDate(o) ==
  LET b == placedAt[o] IN
  CASE b.status = "ABSENT" -> kept[o]
    [] b.status = "OPEN" -> [status |-> "SUBMITTED", filled |-> b.filled]
    [] OTHER -> [status |-> "CLOSED", filled |-> b.filled]

ReconcileOrder(o) ==
  /\ stage = "orders" /\ o \in left
  /\ left' = left \ {o}
  /\ \E found \in {kept[o], UpToDate(o)} :
       /\ kept' = [kept EXCEPT ![o] = found]
       /\ unresolved' = (unresolved \/ found.status # "CLOSED")
  /\ UNCHANGED <<placedAt, recoveryAt, machine, stage, shown, netShown, halt, attempts,
                 halts>>

\* The order snapshot is taken and compared, unless an order is unresolved.
TakeOrders ==
  /\ stage = "orders" /\ left = {}
  /\ ~unresolved /\ LiveAtBroker = {}
  /\ shown' = {o \in AllOrders : placedAt[o].status # "ABSENT"}
  /\ stage' = "positions"
  /\ UNCHANGED <<kept, placedAt, recoveryAt, machine, left, unresolved, netShown, halt,
                 attempts, halts>>

TakePositions ==
  /\ stage = "positions"
  /\ netShown' = BrokerNet /\ stage' = "compare"
  /\ UNCHANGED <<kept, placedAt, recoveryAt, machine, left, unresolved, shown, halt,
                 attempts, halts>>

\* Positions that agree take the machine to READY in four steps; a halt that came
\* before, or between them, makes the next step raise.
EndRecovery ==
  /\ stage = "compare"
  /\ LocalNet = netShown /\ machine = "RECOVERING"
  /\ recoveryAt' = "READY" /\ machine' = "READY" /\ stage' = "idle"
  /\ UNCHANGED <<kept, placedAt, left, unresolved, shown, netShown, halt, attempts, halts>>

\* A snapshot that is missing or malformed, and a callback that raises, fail the
\* recovery at any of its steps; an unresolved order, a live order at the broker, a
\* position that differs and a halted machine must.
GivesUpRecovery ==
  /\ stage # "idle"
  /\ FailRecovery

-----------------------------------------------------------------------------
(* The gate, the guard and the operator.                                    *)

\* PortfolioReconciliationGuard.reconcile, and StartupReconciliationGate.evaluate once
\* recovery is ready: positions that differ, or cannot be read, halt trading. Positions
\* that agree do not end the halt: clear() is called without a reconciliation and raises.
ComparePositions ==
  /\ LocalNet # BrokerNet
  /\ halt' = "positions"
  /\ UNCHANGED <<kept, placedAt, recoveryAt, machine, stage, left, unresolved, shown,
                 netShown, attempts, halts>>

\* EmergencyHaltController.halt: the store, then the machine unless it is halted.
HaltByOperator ==
  /\ halts < MaxHalts
  /\ halt' = "operator" /\ machine' = "HALTED" /\ halts' = halts + 1
  /\ UNCHANGED <<kept, placedAt, recoveryAt, stage, left, unresolved, shown, netShown,
                 attempts>>

-----------------------------------------------------------------------------
(* The broker.                                                              *)

\* A request sent before the crash arrives only for a record that may have sent it.
MayArrive(o) ==
  o \in OtherOrders \/ (o \in OwnOrders /\ kept[o].status \in {"UNBOUND", "PENDING"})

BrokerActs(o) ==
  LET b == placedAt[o] IN
  /\ \/ /\ b.status = "ABSENT" /\ MayArrive(o)
        /\ placedAt' = [placedAt EXCEPT ![o].status = "OPEN"]
     \/ /\ b.status = "OPEN" /\ b.filled < OrderSize
        /\ placedAt' = [placedAt EXCEPT
             ![o] = [status |-> IF b.filled + 1 = OrderSize THEN "CLOSED" ELSE "OPEN",
                     filled |-> b.filled + 1]]
     \/ /\ b.status = "OPEN"
        /\ placedAt' = [placedAt EXCEPT ![o].status = "CLOSED"]
  /\ UNCHANGED <<kept, recoveryAt, machine, stage, left, unresolved, shown, netShown, halt,
                 attempts, halts>>

RecoveryNext ==
  \/ BeginRecovery \/ TakeOrders \/ TakePositions \/ EndRecovery \/ GivesUpRecovery
  \/ ComparePositions \/ HaltByOperator
  \/ \E o \in OwnOrders : ReconcileOrder(o)
  \/ \E o \in AllOrders : BrokerActs(o)

RecoverySpec == RecoveryInit /\ [][RecoveryNext]_recoveryVars

-----------------------------------------------------------------------------
\* The variables stay in their ranges, and a recovery is under way in each of its stages.
RecoveryTypeOK ==
  /\ kept \in [OwnOrders -> [status : KeptStatuses, filled : 0..OrderSize]]
  /\ placedAt \in [AllOrders -> [status : {"ABSENT", "OPEN", "CLOSED"},
                                 filled : 0..OrderSize]]
  /\ recoveryAt \in {"LOCKED", "RECOVERING", "READY", "FAILED"}
  /\ machine \in {"LOCKED", "RECOVERING", "READY", "FAILED", "HALTED"}
  /\ stage \in {"idle", "orders", "positions", "compare"} /\ netShown \in Int
  /\ stage # "idle" => recoveryAt = "RECOVERING"
  /\ left \subseteq OwnOrders /\ shown \subseteq AllOrders
  /\ halt \in {"none", "positions", "operator"}

Arrived == {o \in AllOrders : placedAt[o].status # "ABSENT"}

\* The process becomes ready only when no order the broker showed it can still fill, no
\* record of its own is live, and the two agree on the position, though orders fill and
\* end between the steps, a record is pending, and other clients trade; what arrives
\* after the order snapshot is beyond it (StartupRecoveryCoordinator.recover).
ReadyMatchesBroker ==
  [][recoveryAt # "READY" /\ recoveryAt' = "READY" =>
       /\ \A o \in shown : placedAt[o].status = "CLOSED"
       /\ Reconcilable = {}
       /\ Arrived \subseteq shown => LocalNet = BrokerNet]_recoveryVars
=============================================================================
