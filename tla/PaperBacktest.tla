---------------------------- MODULE PaperBacktest ----------------------------
(***************************************************************************)
(* The paper portfolio (portfolio.py) as the multi-symbol backtest drives  *)
(* it, bar by bar (backtest_v2.py): trailing stop, partial exit, stop and  *)
(* target, valuation and entry, with the costs of every fill               *)
(* (execution_costs.py, the PaperBroker of the execution package).         *)
(*                                                                         *)
(* Signals, sizing, the session and the risk gateway decide whether an     *)
(* entry is made and with which levels: here they are any entry that       *)
(* OrderIntent.validate accepts. A commission is the fixed fee and the     *)
(* slippage is a constant per unit, in place of basis points. Prices are   *)
(* multiples of four and Slip of two, so that half a risk is a number.     *)
(***************************************************************************)
EXTENDS Integers, FiniteSets, FiniteSetsExt

CONSTANTS Symbols, Prices,
          Quantity,      \* of an entry, even
          Fee, Slip,     \* of one fill
          Capital,       \* initial_equity
          MaxBars        \* bound on the events of the backtest

ASSUME PaperAssumption ==
  /\ IsFiniteSet(Symbols)
  /\ \A p \in Prices : p \in Nat /\ p > Slip
  /\ Quantity \in Nat \ {0} /\ Fee \in Nat /\ Slip \in Nat
  /\ Capital \in Nat /\ MaxBars \in Nat

VARIABLES paper,  \* the portfolio: [positions, realized, entryFees], and beside it
                  \* [cash, journal]: the money moved by fills, and the journal's sum
          bars,   \* events so far
          over    \* the backtest raised an error

paperVars == <<paper, bars, over>>

Flat == [side |-> 0, quantity |-> 0, entry |-> 0, stop |-> 0, target |-> 0,
         initialStop |-> 0, partial |-> FALSE]

PaperInit ==
  /\ paper = [positions |-> [s \in Symbols |-> Flat], realized |-> 0, entryFees |-> 0,
              cash |-> 0, journal |-> 0]
  /\ bars = 0 /\ over = FALSE

Open(bk) == {s \in Symbols : bk.positions[s].quantity > 0}

\* BUY is 1 and SELL is -1.
FillPrice(side, reference) == reference + side * Slip

\* Position.unrealized_pnl
Gain(p, price, quantity) == (price - p.entry) * quantity * p.side

Equity(bk) == Capital + bk.realized - bk.entryFees

Valuation(bk, prices) ==
  Equity(bk) + SumFunctionOnSet([s \in Symbols |-> Gain(bk.positions[s], prices[s],
                                                        bk.positions[s].quantity)], Open(bk))

-----------------------------------------------------------------------------
\* update_stop: from one R of profit the stop follows the price by half an R.
UpdatedStop(p, price) ==
  LET risk == IF p.entry > p.initialStop THEN p.entry - p.initialStop
              ELSE p.initialStop - p.entry
      candidate == price - p.side * (risk \div 2)
      best == IF p.side = 1 THEN Max({p.stop, candidate}) ELSE Min({p.stop, candidate}) IN
  IF (price - p.entry) * p.side < risk THEN p.stop ELSE best

Trailed(bk, s, bar) ==
  IF s \in Open(bk)
  THEN [bk EXCEPT !.positions[s].stop = UpdatedStop(bk.positions[s], bar.close)]
  ELSE bk

\* close_position: what is left is an open position until nothing is left. The pnl of
\* the position carries the exit's commission.
ClosePosition(bk, s, price, quantity, commission) ==
  LET p == bk.positions[s]
      pnl == Gain(p, price, quantity) - commission
      left == p.quantity - quantity IN
  [bk EXCEPT !.positions[s] = IF left = 0 THEN Flat ELSE [p EXCEPT !.quantity = left],
             !.realized = @ + pnl,
             !.cash = @ + p.side * price * quantity - commission,
             !.journal = @ + pnl]

\* partial_exit_quantity: half of the position, once, from one R of profit.
PartialQuantity(p, bar) ==
  LET risk == (p.entry - p.initialStop) * p.side IN
  IF (bar.close - p.entry) * p.side >= risk THEN p.quantity \div 2 ELSE 0

\* partial_close moves the stop to the entry, from wherever it has trailed to.
PartlyClosed(bk, s, bar) ==
  LET p == bk.positions[s]
      quantity == PartialQuantity(p, bar)
      closed == ClosePosition(bk, s, FillPrice(-p.side, bar.close), quantity, Fee) IN
  IF s \notin Open(bk) \/ p.partial \/ quantity = 0 THEN bk
  ELSE [closed EXCEPT !.positions[s].stop = p.entry, !.positions[s].partial = TRUE]

\* Mutant of Slipped: the portfolio keeps the exit at the level itself.
Unslipped(bk, s, level, quantity, side) == bk

\* The exit was booked at the level: what the fill really costs is put right.
Slipped(bk, s, level, quantity, side) ==
  LET adjustment == (FillPrice(-side, level) - level) * quantity * side - Fee IN
  [bk EXCEPT !.realized = @ + adjustment, !.journal = @ + adjustment]

\* process_ohlc_bar: the stop is looked at before the target.
StopHit(p, bar) == IF p.side = 1 THEN bar.low <= p.stop ELSE bar.high >= p.stop
TargetHit(p, bar) == IF p.side = 1 THEN bar.high >= p.target ELSE bar.low <= p.target

StoppedOut(bk, s, bar) ==
  LET p == bk.positions[s]
      level == IF StopHit(p, bar) THEN p.stop ELSE p.target
      fill == FillPrice(-p.side, level)
      closed == ClosePosition(bk, s, level, p.quantity, 0) IN
  IF s \notin Open(bk) \/ ~(StopHit(p, bar) \/ TargetHit(p, bar)) THEN bk
  ELSE Slipped([closed EXCEPT !.cash = bk.cash + p.side * fill * p.quantity - Fee],
               s, level, p.quantity, p.side)

\* authorize, execute_paper and apply_fill. An entry is [side, stop, target].
Entries(bar) ==
  {e \in [side: {1, -1}, stop: Prices, target: Prices] :
     e.stop * e.side < bar.close * e.side /\ bar.close * e.side < e.target * e.side}

Entered(bk, s, bar, e) ==
  LET price == FillPrice(e.side, bar.close) IN
  [bk EXCEPT !.positions[s] = [side |-> e.side, quantity |-> Quantity, entry |-> price,
                               stop |-> e.stop, target |-> e.target,
                               initialStop |-> e.stop, partial |-> FALSE],
             !.entryFees = @ + Fee,
             !.cash = @ - e.side * price * Quantity - Fee]

-----------------------------------------------------------------------------
Bars == {bar \in [high: Prices, low: Prices, close: Prices] :
           bar.low <= bar.close /\ bar.close <= bar.high}

\* One event of the backtest. The valuation is given the price of this event's symbol
\* only, and raises when another symbol has a position.
Event(s, bar) ==
  LET exits == StoppedOut(PartlyClosed(Trailed(paper, s, bar), s, bar), s, bar) IN
  /\ ~over /\ bars < MaxBars
  /\ bars' = bars + 1
  /\ IF Open(exits) \subseteq {s}
     THEN /\ UNCHANGED over
          /\ \/ paper' = exits
             \/ /\ s \notin Open(exits)
                /\ \E e \in Entries(bar) : paper' = Entered(exits, s, bar, e)
     ELSE over' = TRUE /\ paper' = exits

PaperNext == \E s \in Symbols, bar \in Bars : Event(s, bar)

PaperSpec == PaperInit /\ [][PaperNext]_paperVars

-----------------------------------------------------------------------------
PaperTypeOK ==
  /\ \A s \in Symbols : paper.positions[s].quantity \in {0, Quantity, Quantity \div 2}
  /\ {paper.realized, paper.entryFees, paper.cash, paper.journal} \subseteq Int
  /\ bars <= MaxBars /\ over \in BOOLEAN

\* At whatever price the open positions are valued, the equity is the capital, the
\* money the fills moved and the positions' worth: no fee is charged twice or left
\* out, on a partial exit, a stop or a target; and the trades of the journal add up to
\* the realized result (portfolio.py equity and mark, backtest_v2.py:58-64).
EquityIsTheMoney ==
  /\ \A price \in Prices :
       Valuation(paper, [s \in Symbols |-> price]) =
         Capital + paper.cash +
           SumFunctionOnSet([s \in Symbols |-> paper.positions[s].side
                                                 * paper.positions[s].quantity * price],
                            Symbols)
  /\ paper.journal = paper.realized
=============================================================================
