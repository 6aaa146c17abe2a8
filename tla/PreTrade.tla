------------------------------- MODULE PreTrade -------------------------------
(***************************************************************************)
(* The pre-trade chain of PreTradeOrchestrator.authorize_decision: the     *)
(* circuit breaker, the sizing of the proposed setup, the broker's         *)
(* snapshot, the internal state, the drift guard, the exposure limits, the *)
(* portfolio's open risk and the final risk engine.                        *)
(*                                                                         *)
(* One caller authorizes an order, records it and sends it, as the paper   *)
(* lifecycle does; the broker fills, cancels and exits at any time. The    *)
(* snapshot it gets may have been taken earlier, and the internal state    *)
(* learns of the broker's steps later. All levels are after rounding to    *)
(* the price increment; a limit of zero is not looked at.                  *)
(***************************************************************************)
EXTENDS Integers, FiniteSetsExt

CONSTANTS PlanSymbols,
          Proposals,          \* [symbol, side, entry, stop, target]
          PlanIds,            \* order ids, a range of numbers
          RiskAmount,         \* equity * risk_fraction
          MaxPlanNotional,    \* equity * max_position_notional_fraction
          MinRewardRisk,
          MaxSymbolQuantity, MaxTotalNotional,
          MaxDailyLoss, MaxDrawdown, MaxRiskBudget,
          BreakerLoss,
          MaxTradeRisk, MaxTradeExposure, MaxOpenPositions, MaxDayLoss

ASSUME PreTradeAssumption ==
  /\ PlanIds \subseteq Nat /\ IsFiniteSet(PlanIds) /\ IsFiniteSet(PlanSymbols)
  /\ RiskAmount \in Nat \ {0} /\ {MaxPlanNotional, MinRewardRisk, MaxRiskBudget} \subseteq Nat
  /\ \A p \in Proposals :
       /\ p.symbol \in PlanSymbols /\ p.side \in {"BUY", "SELL"}
       /\ p.entry \in Nat \ {0} /\ {p.stop, p.target} \subseteq Nat

VARIABLES placed,      \* the broker's order book: [plan, quantity, state]
          known,     \* the internal state of each order
          snapshot,  \* state of each order in the broker's last snapshot
          dayPnl,    \* realised result of the day
          breaker,   \* the circuit breaker is engaged, and on disk
          planner    \* what the caller is doing

planVars == <<placed, known, snapshot, dayPnl, breaker, planner>>

NoPlan == [symbol |-> "none", side |-> "none", entry |-> 0, stop |-> 0, target |-> 0]

PlanStates == {"none", "open", "filled", "closed"}

Planning == [step |-> "idle", plan |-> NoPlan, order |-> 0, pnl |-> 0]

PlansInit ==
  /\ placed = [o \in PlanIds |-> [plan |-> NoPlan, quantity |-> 0, state |-> "none"]]
  /\ known = [o \in PlanIds |-> "none"]
  /\ snapshot = known
  /\ dayPnl = 0 /\ breaker = FALSE
  /\ planner = Planning

Distance(a, b) == IF a > b THEN a - b ELSE b - a

\* The caller passes the day's result once, for every check.
LostToday == IF planner.pnl < 0 THEN -planner.pnl ELSE 0

-----------------------------------------------------------------------------
(* What a view of the orders' states says.                                  *)

In(view, state, s) == {o \in PlanIds : view[o] = state /\ placed[o].plan.symbol = s}

NetOf(order) == IF order.plan.side = "BUY" THEN order.quantity ELSE -order.quantity

Held(view, s) ==
  SumFunctionOnSet([o \in PlanIds |-> NetOf(placed[o])], In(view, "filled", s))

OpenOrders(view) == {o \in PlanIds : view[o] = "open"}

StopDistance(plan) == Distance(plan.entry, plan.stop)

\* The levels of the position: those of an order of its side.
LevelsOf(view, s) ==
  CHOOSE p \in {placed[o].plan : o \in In(view, "filled", s)} :
    p.side = (IF Held(view, s) > 0 THEN "BUY" ELSE "SELL")

PositionRisk(view, s) ==
  IF Held(view, s) = 0 THEN 0
  ELSE Distance(Held(view, s), 0) * StopDistance(LevelsOf(view, s))

\* Mutant: what is ordered and not filled is left out.
PositionRiskOnly(view) ==
  SumFunctionOnSet([s \in PlanSymbols |-> PositionRisk(view, s)], PlanSymbols)

\* PortfolioRiskAggregator.calculate: positions and open orders to their stops.
OpenRisk(view) ==
  SumFunctionOnSet([s \in PlanSymbols |-> PositionRisk(view, s)], PlanSymbols)
  + SumFunctionOnSet([o \in PlanIds |-> placed[o].quantity * StopDistance(placed[o].plan)],
                     OpenOrders(view))

\* A short position has a negative quantity, which the aggregator cannot resolve.
Resolved(view) == \A s \in PlanSymbols : Held(view, s) >= 0

-----------------------------------------------------------------------------
(* The checks, in their order.                                              *)

BreakerTrips(drift, stale) ==
  drift \/ stale \/ (BreakerLoss > 0 /\ dayPnl <= -BreakerLoss)

Reward(p) == IF p.side = "BUY" THEN p.target - p.entry ELSE p.entry - p.target
Risk(p)   == IF p.side = "BUY" THEN p.entry - p.stop ELSE p.stop - p.entry

\* SetupRiskEngine.validate: sized by the risk per unit, bounded by the notional.
Size(p) ==
  LET byRisk == RiskAmount \div Risk(p)  byNotional == MaxPlanNotional \div p.entry
  IN  IF byRisk < byNotional THEN byRisk ELSE byNotional

SetupApproved(p) ==
  Risk(p) > 0 /\ Reward(p) > 0 /\ Reward(p) >= MinRewardRisk * Risk(p) /\ Size(p) > 0

\* Mutant: orders one of the two sides does not have are no drift.
NoPositionDrift(view) == \A s \in PlanSymbols : Held(view, s) = Held(known, s)

\* TradingStateReconciliationGuard.evaluate.
Clean(view) ==
  /\ \A s \in PlanSymbols : Held(view, s) = Held(known, s)
  /\ OpenOrders(view) = OpenOrders(known)

\* PortfolioExposureRisk.evaluate: every position at the price of this order; what is
\* ordered and not filled does not count.
WithinExposure(view, p) ==
  LET q == Distance(Held(view, p.symbol), 0) + Size(p)
      held == [s \in PlanSymbols |-> Distance(Held(view, s), 0)]
      total == (SumFunctionOnSet(held, PlanSymbols) + Size(p)) * p.entry
  IN  /\ MaxSymbolQuantity > 0 => q <= MaxSymbolQuantity
      /\ MaxTotalNotional > 0 => total <= MaxTotalNotional

\* PortfolioLossRisk.evaluate.
WithinLosses(view) ==
  /\ Resolved(view)
  /\ MaxDailyLoss > 0 => planner.pnl - RiskAmount >= -MaxDailyLoss
  /\ MaxDrawdown > 0 => LostToday + RiskAmount <= MaxDrawdown
  /\ MaxRiskBudget > 0 => OpenRisk(view) + RiskAmount <= MaxRiskBudget

\* risk_engine.evaluate through risk_gateway.authorize: the exposure is that of this
\* order alone.
Authorized(view, p) ==
  /\ RiskAmount <= MaxTradeRisk /\ LostToday < MaxDayLoss
  /\ Size(p) * p.entry <= MaxTradeExposure
  /\ Cardinality({s \in PlanSymbols : Held(view, s) # 0}) < MaxOpenPositions

-----------------------------------------------------------------------------
(* The caller.                                                              *)

NextPlan == Cardinality({o \in PlanIds : placed[o].state # "none"}) + 1

\* The breaker and the setup come before anything is fetched; a trip stays.
Propose(p, drift, stale) ==
  LET blocked == breaker \/ BreakerTrips(drift, stale)
  IN  /\ planner.step = "idle" /\ NextPlan \in PlanIds
      /\ breaker' = blocked
      /\ planner' = IF ~blocked /\ SetupApproved(p)
                    THEN [step |-> "fetches", plan |-> p, order |-> NextPlan,
                          pnl |-> dayPnl]
                    ELSE planner
      /\ UNCHANGED <<placed, known, snapshot, dayPnl>>

\* The snapshot must be complete, fresh and with its stops; then the internal state is
\* read and everything else follows. The approved order is recorded.
Decide(usable) ==
  LET p == planner.plan  o == planner.order
      approved == /\ usable /\ Clean(snapshot) /\ WithinExposure(snapshot, p)
                  /\ WithinLosses(snapshot) /\ Authorized(snapshot, p)
  IN  /\ planner.step = "fetches"
      /\ IF approved
         THEN /\ known' = [known EXCEPT ![o] = "open"]
              /\ placed' = [placed EXCEPT ![o].plan = p, ![o].quantity = Size(p)]
              /\ planner' = [planner EXCEPT !.step = "sends"]
         ELSE planner' = Planning /\ UNCHANGED <<known, placed>>
      /\ UNCHANGED <<snapshot, dayPnl, breaker>>

SendPlan ==
  /\ planner.step = "sends"
  /\ placed' = [placed EXCEPT ![planner.order].state = "open"]
  /\ planner' = Planning
  /\ UNCHANGED <<known, snapshot, dayPnl, breaker>>

ResetBreaker ==
  /\ breaker /\ breaker' = FALSE
  /\ UNCHANGED <<placed, known, snapshot, dayPnl, planner>>

-----------------------------------------------------------------------------
(* The broker, and what the process learns of it.                           *)

TakeSnapshot ==
  /\ snapshot' = [o \in PlanIds |-> placed[o].state]
  /\ UNCHANGED <<placed, known, dayPnl, breaker, planner>>

Moves(o, state) ==
  /\ placed[o].state = "open"
  /\ placed' = [placed EXCEPT ![o].state = state]
  /\ UNCHANGED <<known, snapshot, dayPnl, breaker, planner>>

\* The position of a symbol is closed at its stop or at its target.
Exit(s) ==
  LET states == [o \in PlanIds |-> placed[o].state]
      q == Held(states, s)
  IN  /\ q # 0
      /\ placed' = [o \in PlanIds |-> IF o \in In(states, "filled", s)
                                    THEN [placed[o] EXCEPT !.state = "closed"]
                                    ELSE placed[o]]
      /\ \/ dayPnl' = dayPnl - PositionRisk(states, s)
         \/ dayPnl' = dayPnl + Distance(q, 0) * Reward(LevelsOf(states, s))
      /\ UNCHANGED <<known, snapshot, breaker, planner>>

\* The internal state of one order catches up.
Learn(o) ==
  /\ placed[o].state \notin {"none", known[o]}
  /\ known' = [known EXCEPT ![o] = placed[o].state]
  /\ UNCHANGED <<placed, snapshot, dayPnl, breaker, planner>>

PlansNext ==
  \/ \E p \in Proposals, drift, stale \in BOOLEAN : Propose(p, drift, stale)
  \/ \E usable \in BOOLEAN : Decide(usable)
  \/ SendPlan \/ ResetBreaker \/ TakeSnapshot
  \/ \E o \in PlanIds : Learn(o) \/ \E state \in {"filled", "closed"} : Moves(o, state)
  \/ \E s \in PlanSymbols : Exit(s)

PlansSpec == PlansInit /\ [][PlansNext]_planVars

PlansTypeOK ==
  /\ \A o \in PlanIds :
       /\ placed[o].plan \in Proposals \cup {NoPlan}
       /\ placed[o].quantity \in Nat /\ placed[o].state \in PlanStates
  /\ known \in [PlanIds -> PlanStates] /\ snapshot \in [PlanIds -> PlanStates]
  /\ dayPnl \in Int /\ breaker \in BOOLEAN
  /\ planner.step \in {"idle", "fetches", "sends"} /\ planner.pnl \in Int

\* No symbol has been ordered on both sides, or at two distances to its stop.
OrderedOneWay ==
  \A o, q \in PlanIds :
    /\ placed[o].state # "none" /\ placed[q].state # "none"
    /\ placed[o].plan.symbol = placed[q].plan.symbol
    => /\ placed[o].plan.side = placed[q].plan.side
       /\ StopDistance(placed[o].plan) = StopDistance(placed[q].plan)

\* As long as no symbol has been ordered on both sides or at two distances to its stop,
\* what can be lost at the stops of everything the broker holds or may still fill stays
\* within the risk budget, although each decision is taken on a snapshot that may be old
\* and on an internal state that is behind: the drift guard refuses a snapshot that does
\* not show the orders approved before (PreTradeOrchestrator.authorize_decision,
\* PortfolioLossRisk, PortfolioRiskAggregator). The guard compares net quantities: of two
\* sides, a position whose exit is not known yet hides a new one. A budget of zero is not
\* looked at.
OpenRiskWithinBudget ==
  OrderedOneWay /\ MaxRiskBudget > 0 =>
    OpenRisk([o \in PlanIds |-> placed[o].state]) <= MaxRiskBudget
=============================================================================
