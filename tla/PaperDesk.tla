------------------------------- MODULE PaperDesk -------------------------------
(***************************************************************************)
(* The books that trade on paper, one to a behaviour:                      *)
(*   "execution"  the PaperBroker of paper_execution.py behind its API,    *)
(*                with the risk check of risk_engine.evaluate and the      *)
(*                trade journal;                                           *)
(*   "manager"    position_manager.py with the P&L of its metrics;         *)
(*   "portfolio"  paper_portfolio.py, which exits at stops and targets;    *)
(*   "lifecycle"  the order book of paper_trading.py with its fills.       *)
(*                                                                         *)
(* The API serves each request in a thread of a pool and takes no lock: a  *)
(* thread may be suspended where it calls a function, so that a request is *)
(* the steps between its calls. The other three books have one caller.     *)
(***************************************************************************)
EXTENDS Integers, Sequences, FiniteSetsExt, SequencesExt

CONSTANTS
  Desks,           \* the books, of those above
  DeskIds,         \* ids of positions or orders, natural numbers given in turn;
                   \* for the manager, the symbols
  DeskTickets,     \* [side, quantity, entry, stop, target]: what is opened, BUY is 1
  DeskPrices,      \* of exits, fills and quotes
  DeskThreads,     \* threads of the pool
  DeskSlip, DeskFee,
  DeskRisk, DeskExposure, DeskLoss, DeskLimit,
                   \* RiskLimits in money, and max_positions
  MaxDeskExits     \* bound on the exits of the manager and the fills of the lifecycle

Deals == {"manager", "portfolio", "execution"}

ASSUME DeskAssumption ==
  /\ Desks \subseteq Deals \cup {"lifecycle"}
  /\ DeskIds \subseteq Nat \ {0} /\ IsFiniteSet(DeskIds)
  /\ DeskTickets \subseteq [side : {-1, 1}, quantity : Nat \ {0}, entry : Nat \ {0},
                            stop : Nat \ {0}, target : Nat \ {0}]
  /\ DeskPrices \subseteq Nat \ {0}
  /\ {DeskSlip, DeskFee, DeskRisk, DeskExposure, DeskLimit} \subseteq Nat
  /\ DeskLoss \in Nat \ {0}
  /\ IsFiniteSet(DeskThreads) /\ DeskThreads # {}

VARIABLES
  paperDesk,  \* the book of this behaviour
  holdings,   \* for each id [ticket, status, left, filled, gain, checked]: what it was
              \* opened with, its quantity still open or filled, its realized P&L, and
              \* whether the risk check let it in
  earnings,   \* daily_pnl, the metrics' realized_pnl or the portfolio's realized_pnl
  fees,       \* the portfolio's entry_fees
  tradeRows,  \* the journal, or the portfolio's closed trades: the P&L of each
  task,       \* what each thread of the pool is in the middle of
  cash,       \* history: what the trades have paid and received
  exits       \* exits and fills so far

deskVars == <<paperDesk, holdings, earnings, fees, tradeRows, task, cash, exits>>

NoDeal == [side |-> 1, quantity |-> 0, entry |-> 0, stop |-> 0, target |-> 0]
NoPosition == [ticket |-> NoDeal, status |-> "NONE", left |-> 0, filled |-> 0,
               gain |-> 0, checked |-> FALSE]
AtRest == [kind |-> "none", ticket |-> NoDeal, checked |-> FALSE, gain |-> 0]

DeskInit ==
  /\ paperDesk \in Desks
  /\ holdings = [i \in DeskIds |-> NoPosition]
  /\ earnings = 0 /\ fees = 0 /\ tradeRows = << >>
  /\ task = [w \in DeskThreads |-> AtRest]
  /\ cash = 0 /\ exits = 0

Having(status) == {i \in DeskIds : holdings[i].status = status}
Fresh == {i \in Having("NONE") : \A j \in Having("NONE") : i <= j}

\* Mutant: a part of a position earns what all of it would.
EarnedByAll(t, price, quantity) == (price - t.entry) * t.quantity * t.side

\* What leaving a quantity at a price earns, per the entry of the ticket.
Earned(t, price, quantity) == (price - t.entry) * quantity * t.side
RiskPerUnit(t) == IF t.entry > t.stop THEN t.entry - t.stop ELSE t.stop - t.entry

Opened(t, given) == [NoPosition EXCEPT !.ticket = t, !.status = "OPEN",
                                       !.left = t.quantity, !.checked = given]
Paid(t, price, quantity) == t.side * quantity * price

-----------------------------------------------------------------------------
(* paper_execution.py                                                       *)

\* Mutant: one position more than the limit.
RiskAllowsOneMore(t) ==
  /\ RiskPerUnit(t) * t.quantity <= DeskRisk
  /\ -earnings < DeskLoss
  /\ t.entry * t.quantity <= DeskExposure
  /\ Cardinality(Having("OPEN")) <= DeskLimit

\* evaluate: the risk and the exposure of the new position alone, the P&L booked so far,
\* and the positions open now. A thread that adds a position while they are counted
\* makes the count fail, and the request with it.
RiskAllows(t) ==
  /\ RiskPerUnit(t) * t.quantity <= DeskRisk
  /\ -earnings < DeskLoss
  /\ t.entry * t.quantity <= DeskExposure
  /\ Cardinality(Having("OPEN")) < DeskLimit

\* A request without an equity is not checked.
DeskAdmits(w, t, given) ==
  /\ paperDesk = "execution" /\ task[w] = AtRest
  /\ given => RiskAllows(t)
  /\ task' = [task EXCEPT ![w] = [AtRest EXCEPT !.kind = "opening", !.ticket = t,
                                                !.checked = given]]
  /\ UNCHANGED <<paperDesk, holdings, earnings, fees, tradeRows, cash, exits>>

DeskInserts(w) ==
  /\ task[w].kind = "opening"
  /\ \E i \in Fresh :
       holdings' = [holdings EXCEPT ![i] = Opened(task[w].ticket, task[w].checked)]
  /\ task' = [task EXCEPT ![w] = AtRest]
  /\ cash' = cash - Paid(task[w].ticket, task[w].ticket.entry, task[w].ticket.quantity)
  /\ UNCHANGED <<paperDesk, earnings, fees, tradeRows, exits>>

\* close: CPython 3.12, which backend/Dockerfile runs, lets another thread in where a
\* function is called or a jump goes back, and between the test of the status and the P&L
\* of the day there is neither.
DeskCloses(w, i, price) ==
  LET t == holdings[i].ticket
      gain == Earned(t, price, holdings[i].left)
  IN  /\ paperDesk = "execution" /\ task[w] = AtRest /\ holdings[i].status = "OPEN"
      /\ holdings' = [holdings EXCEPT ![i].status = "CLOSED", ![i].gain = gain, ![i].left = 0]
      /\ earnings' = earnings + gain
      /\ cash' = cash + Paid(t, price, holdings[i].left)
      /\ task' = [task EXCEPT ![w] = [AtRest EXCEPT !.kind = "recording", !.gain = gain]]
      /\ UNCHANGED <<paperDesk, fees, tradeRows, exits>>

DeskRecords(w) ==
  /\ task[w].kind = "recording"
  /\ tradeRows' = Append(tradeRows, task[w].gain)
  /\ task' = [task EXCEPT ![w] = AtRest]
  /\ UNCHANGED <<paperDesk, holdings, earnings, fees, cash, exits>>

-----------------------------------------------------------------------------
(* position_manager.py                                                      *)

LevelsInOrder(t) ==
  /\ (t.entry - t.stop) * t.side > 0
  /\ (t.target - t.entry) * t.side > 0

\* A stop and a target may also be left out. A closed position of the symbol is replaced.
ManagerOpens(i, t) ==
  /\ paperDesk = "manager" /\ LevelsInOrder(t) /\ holdings[i].status # "OPEN"
  /\ exits < MaxDeskExits
  /\ holdings' = [holdings EXCEPT ![i] = Opened(t, FALSE)]
  /\ cash' = cash - Paid(t, t.entry, t.quantity)
  /\ UNCHANGED <<paperDesk, earnings, fees, tradeRows, task, exits>>

ManagerExits(i, quantity, price) ==
  LET t == holdings[i].ticket
      left == holdings[i].left - quantity
  IN  /\ paperDesk = "manager" /\ holdings[i].status = "OPEN"
      /\ quantity \in 1..holdings[i].left /\ exits < MaxDeskExits
      /\ holdings' = [holdings EXCEPT ![i].left = left,
                                      ![i].gain = @ + Earned(t, price, quantity),
                                      ![i].status = IF left = 0 THEN "CLOSED" ELSE "OPEN"]
      /\ earnings' = earnings + Earned(t, price, quantity)
      /\ cash' = cash + Paid(t, price, quantity)
      /\ exits' = exits + 1
      /\ UNCHANGED <<paperDesk, fees, tradeRows, task>>

-----------------------------------------------------------------------------
(* paper_portfolio.py                                                       *)

PortfolioOpens(t) ==
  /\ paperDesk = "portfolio"
  /\ \E i \in Fresh : holdings' = [holdings EXCEPT ![i] = Opened(t, FALSE)]
  /\ fees' = fees + DeskFee
  /\ cash' = cash - Paid(t, t.entry, t.quantity) - DeskFee
  /\ UNCHANGED <<paperDesk, earnings, tradeRows, task, exits>>

Stopped(t, price) == (price - t.stop) * t.side <= 0
Reached(t, price) == (price - t.target) * t.side >= 0

\* A quote closes what it stops or brings to its target, at that level less slippage.
ExitPrice(t, price) == (IF Stopped(t, price) THEN t.stop ELSE t.target) - t.side * DeskSlip
Leaving(price) == {i \in Having("OPEN") : Stopped(holdings[i].ticket, price)
                                            \/ Reached(holdings[i].ticket, price)}

PortfolioGain(i, price) ==
  LET t == holdings[i].ticket
  IN  Earned(t, ExitPrice(t, price), holdings[i].left) - DeskFee

PortfolioBrings(i, price) ==
  LET t == holdings[i].ticket
  IN  Paid(t, ExitPrice(t, price), holdings[i].left) - DeskFee

PortfolioUpdates(price) ==
  /\ paperDesk = "portfolio" /\ Leaving(price) # {}
  /\ holdings' = [i \in DeskIds |->
                    IF i \in Leaving(price)
                    THEN [holdings[i] EXCEPT !.status = "CLOSED", !.left = 0,
                                             !.gain = PortfolioGain(i, price)]
                    ELSE holdings[i]]
  /\ earnings' = earnings + SumFunctionOnSet([i \in DeskIds |-> PortfolioGain(i, price)],
                                             Leaving(price))
  /\ tradeRows' = tradeRows \o [k \in 1..Cardinality(Leaving(price)) |->
                                  PortfolioGain(SetToSeq(Leaving(price))[k], price)]
  /\ cash' = cash + SumFunctionOnSet([i \in DeskIds |-> PortfolioBrings(i, price)],
                                     Leaving(price))
  /\ UNCHANGED <<paperDesk, fees, task, exits>>

-----------------------------------------------------------------------------
(* paper_trading.py                                                         *)

LifecycleSubmits(t) ==
  /\ paperDesk = "lifecycle"
  /\ \E i \in Fresh :
       holdings' = [holdings EXCEPT ![i] = [NoPosition EXCEPT !.ticket = t,
                                                              !.status = "PENDING"]]
  /\ UNCHANGED <<paperDesk, earnings, fees, tradeRows, task, cash, exits>>

Unfilled(i) == holdings[i].status \in {"PENDING", "PARTIAL"}

\* The last fill's price stands for the order's entry.
LifecycleFills(i, quantity, price) ==
  LET filled == holdings[i].filled + quantity
  IN  /\ paperDesk = "lifecycle" /\ Unfilled(i) /\ exits < MaxDeskExits
      /\ quantity > 0 /\ filled <= holdings[i].ticket.quantity
      /\ holdings' = [holdings EXCEPT ![i].filled = filled, ![i].ticket.entry = price,
                                      ![i].status = IF filled = holdings[i].ticket.quantity
                                                    THEN "FILLED" ELSE "PARTIAL"]
      /\ exits' = exits + 1
      /\ UNCHANGED <<paperDesk, earnings, fees, tradeRows, task, cash>>

LifecycleCancels(i) ==
  /\ paperDesk = "lifecycle" /\ Unfilled(i)
  /\ holdings' = [holdings EXCEPT ![i].status = "CANCELLED"]
  /\ UNCHANGED <<paperDesk, earnings, fees, tradeRows, task, cash, exits>>

DeskNext ==
  \/ \E w \in DeskThreads, t \in DeskTickets, given \in BOOLEAN : DeskAdmits(w, t, given)
  \/ \E w \in DeskThreads : DeskInserts(w) \/ DeskRecords(w)
  \/ \E w \in DeskThreads, i \in DeskIds, price \in DeskPrices : DeskCloses(w, i, price)
  \/ \E i \in DeskIds, t \in DeskTickets : ManagerOpens(i, t)
  \/ \E i \in DeskIds, price \in DeskPrices :
       \E quantity \in 1..holdings[i].left : ManagerExits(i, quantity, price)
  \/ \E t \in DeskTickets : PortfolioOpens(t) \/ LifecycleSubmits(t)
  \/ \E price \in DeskPrices : PortfolioUpdates(price)
  \/ \E i \in DeskIds, price \in DeskPrices :
       \E quantity \in 1..holdings[i].ticket.quantity : LifecycleFills(i, quantity, price)
  \/ \E i \in DeskIds : LifecycleCancels(i)

DeskSpec == DeskInit /\ [][DeskNext]_deskVars

-----------------------------------------------------------------------------
DeskTypeOK ==
  /\ paperDesk \in Desks
  /\ \A i \in DeskIds :
       /\ holdings[i].status \in {"NONE", "OPEN", "CLOSED", "PENDING", "PARTIAL", "FILLED",
                              "CANCELLED"}
       /\ {holdings[i].left, holdings[i].filled} \subseteq Nat
       /\ holdings[i].gain \in Int /\ holdings[i].checked \in BOOLEAN
  /\ {earnings, cash} \subseteq Int /\ {fees, exits} \subseteq Nat
  /\ \A k \in 1..Len(tradeRows) : tradeRows[k] \in Int
  /\ \A w \in DeskThreads : task[w].kind \in {"none", "opening", "recording"}

\* PaperPortfolio.unrealized_pnl, PositionManager.mark and PaperBroker.mark.
Unrealized(price) ==
  SumFunctionOnSet([i \in DeskIds |-> Earned(holdings[i].ticket, price, holdings[i].left)],
                   Having("OPEN"))

\* PaperPortfolio.equity less the initial cash.
DeskEquity(price) == earnings + Unrealized(price) - fees

\* TradeJournal.summary
JournalNet == SumFunctionOnSet(tradeRows, 1..Len(tradeRows))

\* PaperBroker.reconcile of paper_trading.py finds nothing wrong with an order.
Reconciled(o) ==
  /\ o.filled <= o.ticket.quantity
  /\ o.status = "FILLED" => o.filled = o.ticket.quantity
  /\ o.status = "PENDING" => o.filled = 0

\* What the open positions would bring at a price.
Worth(price) ==
  SumFunctionOnSet([i \in DeskIds |-> Paid(holdings[i].ticket, price, holdings[i].left)],
                   Having("OPEN"))

Recording == SumFunctionOnSet([w \in DeskThreads |-> task[w].gain], DeskThreads)

\* PaperPortfolio.equity, TradeJournal.summary and PaperBroker.reconcile: the P&L that is
\* booked is the money that the trades brought, once for each, through partial exits,
\* positions opened again and the costs of both ends; the journal holds it but for the
\* closings that threads are about to record; and the order book finds nothing to
\* reconcile.
PaperBooksBalance ==
  /\ paperDesk \in Deals => \A price \in DeskPrices : DeskEquity(price) = cash + Worth(price)
  /\ paperDesk \in {"execution", "portfolio"} => JournalNet + Recording = earnings
  /\ paperDesk = "lifecycle" => \A i \in DeskIds : Reconciled(holdings[i])

\* RiskLimits.max_positions: the check counts the positions before its own is in the book,
\* so requests that run at once may pass the limit, by one for each of the others and
\* never by more.
PositionsNearTheLimit ==
  Cardinality({i \in Having("OPEN") : holdings[i].checked})
    <= DeskLimit + Cardinality(DeskThreads) - 1
=============================================================================
