-------------------------------- MODULE Signals --------------------------------
(***************************************************************************)
(* From what is read off the charts to a decision, and from a decision to  *)
(* an order request: the rules of strategy.py, the decision engines of     *)
(* ai_decision_engine.py and ai_decision.py, the ensembles, the strategies *)
(* of the DSL, and the requests of ai_trade_intent.py and api/ensemble.py. *)
(*                                                                         *)
(* A reading is what the engine has of each kind of evidence: bullish is   *)
(* positive, bearish negative. The charts that give the readings are in    *)
(* ChartStructure. Scores are integers in the units given at each engine.  *)
(***************************************************************************)
EXTENDS Integers, FiniteSetsExt

CONSTANTS
  Engines,            \* the engines, of those below
  EngineReadings,     \* for each engine, the readings it may be given
  Forecasts,          \* [label, sure, symbol, at, must]: a model's prediction, how sure in
                      \* hundredths, of which symbol, how many bars after the last one,
                      \* and whether it must agree (MLDecisionConfig.require_agreement)
  Strategies,         \* strategies of the DSL
  ConfluenceQuarters, \* confluence_weight, in quarters
  RequireMtf,         \* require_mtf of generate_signal
  RiskMoney,          \* the equity times the fraction of it a trade may lose
  LotSize, MaxLots    \* of the instrument; max_quantity in lots

\* What a kind of evidence says: bearish, nothing or bullish.
Leaning == -1..1

\* The readings an engine may be given: its kinds of evidence and what else it reads.
ReadingsFor(e) ==
  CASE e = "strategy" ->
         [bos : Leaning, choch : Leaning, sweep : Leaning, gap : Leaning, block : Leaning,
          zone : Leaning, price : Leaning, htf : -1..2]
    [] e \in {"ai", "gated"} ->
         [ema : Leaning, rsi : Leaning, macd : Leaning, trend : Leaning, bos : Leaning,
          choch : Leaning, zone : Leaning, ict : Leaning, technical : Leaning,
          data : {0, 1}, close : Int, range : Nat]
    [] e = "advice" -> [smc : Int, confirmation : Int, trend : Leaning]
    [] e = "ensemble" -> [odds : Int, points : Int, volatile : {0, 1}]
    [] e = "ensemble2" ->
         [odds : Int, points : Int, structure : Leaning, zones : Int, volatile : {0, 1}]
    [] e = "frames" -> [day : Int, minutes : Int]
    [] e = "dsl" -> [smc : Int, confirmation : Int, trend : Leaning, said : {0, 1}]

ASSUME SignalsAssumption ==
  /\ Engines \subseteq
       {"strategy", "ai", "gated", "advice", "ensemble", "ensemble2", "frames", "dsl"}
  /\ \A e \in Engines : EngineReadings[e] \subseteq ReadingsFor(e)
  /\ Forecasts \subseteq [label : {"BUY", "SELL", "NEUTRAL"}, sure : 0..100,
                          symbol : {"same", "other"}, at : Int, must : BOOLEAN]
  /\ ConfluenceQuarters \in 0..4
  /\ RequireMtf \in BOOLEAN
  /\ {RiskMoney, LotSize, MaxLots} \subseteq Nat \ {0}
  \* A context is good only with an average true range that is positive.
  /\ \A e \in Engines \cap {"ai", "gated"} : \A r \in EngineReadings[e] :
       r.data = 1 => r.range \in Nat \ {0}

VARIABLES
  engine,    \* the engine asked
  reading,   \* what it was given
  forecast,  \* the prediction it was given with it
  strategy,  \* the strategy of the DSL asked about
  decision,  \* what it decided
  request    \* the order request made of the decision

signalVars == <<engine, reading, forecast, strategy, decision, request>>

NoForecast == [label |-> "none", sure |-> 0, symbol |-> "same", at |-> 0,
               must |-> FALSE]
NoStrategy ==
  [direction |-> "none", conditions |-> {}, risk |-> 0, reward |-> 0, positions |-> 0]
NoDecision == [action |-> "none", confidence |-> <<0, 1>>]
NoOrderRequest == [side |-> "none", entry |-> 0, stop |-> 0, target |-> 0, quantity |-> 0]

\* A confidence is a fraction.
Decided(action, n, d) == [action |-> action, confidence |-> <<n, d>>]
AtLeast(confidence, n, d) == confidence[1] * d >= n * confidence[2]
Hold == Decided("HOLD", 0, 1)

Clamp(x, limit) == Max({-limit, Min({limit, x})})
Magnitude(x) == Max({x, -x})
Side(x) == IF x > 0 THEN "BUY" ELSE "SELL"

\* The side of a score at or beyond a threshold.
Passing(x, threshold, n, d) ==
  IF Magnitude(x) >= threshold THEN Decided(Side(x), n, d) ELSE Decided("HOLD", n, d)

-----------------------------------------------------------------------------
(* A prediction refines a decision.                                         *)

Reduced(c) == <<3 * c[1], 4 * c[2]>>
Blended(c, sure) == <<300 * c[1] + sure * c[2], 400 * c[2]>>

\* apply_ml_decision: a prediction that is not sure changes nothing.
ApplyMl(d, f) ==
  CASE f.sure < 55 -> d
    [] f.sure >= 55 /\ f.label # d.action /\ f.must -> Hold
    [] f.sure >= 55 /\ f.label # d.action /\ ~f.must ->
         [d EXCEPT !.confidence = Reduced(@)]
    [] OTHER -> [d EXCEPT !.confidence = Blended(@, f.sure)]

-----------------------------------------------------------------------------
(* strategy.py, with confluence.score. A reading has bos, choch, sweep, gap,  *)
(* block, zone, price, and htf: the structure of the higher timeframe, or 2   *)
(* when there are no candles of it.                                           *)

\* A change of character and a break count once.
Points(r) ==
  2 * (IF r.choch # 0 THEN r.choch ELSE r.bos) + 2 * r.sweep + r.gap + 2 * r.block
    + r.zone + r.price

\* The structure of the lower timeframe is its break's.
Aligned(r) == r.htf # 0 /\ r.htf = r.bos

\* What aligned timeframes add to the points: to the points of either side, 2 when they
\* are on that side.
MtfScore(r, points) ==
  CASE r.htf # 2 /\ Aligned(r) /\ r.htf * points > 0 -> 2
    [] r.htf # 2 /\ Aligned(r) /\ r.htf * points < 0 -> -2
    [] OTHER -> 0

MtfRefuses(r, points) ==
  /\ r.htf # 2
  /\ ~Aligned(r)
  /\ RequireMtf \/ (r.htf # 0 /\ r.htf * points < 0)

StrategySignal(r) ==
  LET points == Points(r)
      total == Magnitude(points + MtfScore(r, points))
  IN  IF Magnitude(points) < 3 \/ MtfRefuses(r, points) \/ total < 2
      THEN Hold
      ELSE Decided(Side(points), Min({99, 50 + 7 * total}), 100)

\* decision_pipeline.generate_ml_signal takes a prediction of this symbol and bar only.
StrategyDecides(r, f) ==
  CASE f = NoForecast -> StrategySignal(r)
    [] f # NoForecast /\ f.symbol = "same" /\ f.at = 0 /\ StrategySignal(r) # Hold ->
         ApplyMl(StrategySignal(r), f)
    [] OTHER -> Hold

-----------------------------------------------------------------------------
(* signal_confluence.py, in hundredths.                                     *)

Confluence(ict, technical) ==
  LET weighted == 60 * Magnitude(ict) + 40 * Magnitude(technical)
      agree == ict # 0 /\ ict = technical
      score == IF agree THEN Min({100, weighted + 20}) ELSE weighted
      direction == CASE agree -> ict
                     [] ict * technical = 0 -> ict + technical
                     [] OTHER -> 0
  IN  IF direction # 0 /\ score >= 60 THEN direction ELSE 0

-----------------------------------------------------------------------------
(* ai_decision_engine.py, in quarters. A reading has ema, rsi, macd, trend,   *)
(* bos, choch, zone, ict, technical; data: whether the context is good; and   *)
(* the close and half the average true range of the last bar.                 *)

AiWeights ==
  [ema |-> 4, rsi |-> 3, macd |-> 3, trend |-> 4, bos |-> 4, choch |-> 3, zone |-> 2]

\* The weight of the evidence for a side, 1 or -1.
EvidenceFor(side, r, confluence) ==
  MapThenSumSet(LAMBDA k : IF r[k] = side THEN AiWeights[k] ELSE 0, DOMAIN AiWeights)
    + (IF confluence = side THEN ConfluenceQuarters ELSE 0)

\* Mutant: the edge is not an absolute value.
AiSidesOneWay(r, confluence) ==
  LET bullish == EvidenceFor(1, r, confluence)
      bearish == EvidenceFor(-1, r, confluence)
      total == bullish + bearish
      most == Max({bullish, bearish})
  IN  IF total > 0 /\ 5 * most >= 3 * total /\ 20 * (bullish - bearish) >= 3 * total
      THEN Decided(Side(bullish - bearish), most, total)
      ELSE Hold

AiSides(r, confluence) ==
  LET bullish == EvidenceFor(1, r, confluence)
      bearish == EvidenceFor(-1, r, confluence)
      total == bullish + bearish
      most == Max({bullish, bearish})
  IN  IF total > 0 /\ 5 * most >= 3 * total /\ 20 * Magnitude(bullish - bearish) >= 3 * total
      THEN Decided(Side(bullish - bearish), most, total)
      ELSE Hold

\* A sure prediction of the same side is blended in, another takes a quarter off, a
\* neutral one is an error; the prediction's symbol and time are not looked at.
AiWithForecast(d, f) ==
  LET c == CASE f.label # d.action -> Reduced(d.confidence)
             [] f.label = d.action /\ f.sure >= 55 -> Blended(d.confidence, f.sure)
             [] OTHER -> d.confidence
  IN  IF (f.label # d.action /\ f.must) \/ ~AtLeast(c, 3, 5)
      THEN Hold ELSE [d EXCEPT !.confidence = c]

AiDecides(r, f, confluence) ==
  LET d == AiSides(r, confluence) IN
  IF r.data # 1 \/ f.label = "NEUTRAL" THEN Hold
  ELSE IF d = Hold \/ f = NoForecast THEN d
  ELSE AiWithForecast(d, f)

\* confluence_execution_orchestrator.py asks only about a confluence that has a side, and
\* does not pass it on.
GatedDecides(r, f) ==
  IF Confluence(r.ict, r.technical) = 0 THEN Hold ELSE AiDecides(r, f, 0)

-----------------------------------------------------------------------------
(* unified_signal.py, in six thousandths, and ai_decision.py on it. A reading   *)
(* has smc: the confluence of the zones, confirmation: in halves, and trend.         *)

Unified(r) == 330 * Clamp(r.smc, 10) + 350 * Clamp(r.confirmation, 6) + 600 * r.trend

UnifiedSignal(r) == Passing(Unified(r), 1500, Min({6000, Magnitude(Unified(r))}), 6000)

\* A prediction of this symbol, of a bar not after the last one.
ValidForecast(f) ==
  f.symbol = "same" /\ f.label \in {"BUY", "SELL", "NEUTRAL"} /\ f.at <= 0

AdviceDecides(r, f) ==
  LET d == UnifiedSignal(r)
      advised == IF f = NoForecast THEN d ELSE ApplyMl(d, f)
  IN  IF \/ f # NoForecast /\ ~ValidForecast(f)
         \/ d.action = "HOLD" \/ ~AtLeast(d.confidence, 3, 5)
         \/ ~AtLeast(advised.confidence, 3, 5)
      THEN Hold ELSE advised

-----------------------------------------------------------------------------
(* The ensembles, in sixteen thousandths. A reading has odds: twice the        *)
(* probability of a rise less one, in tenths; points; volatile; and for the    *)
(* second structure and zones; for the frames the scores of two, in hundredths. *)

Damped(r, x) == (IF r.volatile = 1 THEN 3 ELSE 4) * x

EnsembleDecides(r) ==
  LET technical == Clamp(r.points, 5)
      base == Damped(r, 55 * r.odds + 90 * technical)
      score == (4 - ConfluenceQuarters) * base + ConfluenceQuarters * 800 * technical
  IN  Passing(score, 5600, Magnitude(score), 16000)

Ensemble2Decides(r) ==
  LET ict == Clamp(2 * r.structure + r.zones, 4)
      score == Damped(r, 160 * r.odds + 200 * Clamp(r.points, 5) + 350 * ict)
  IN  Passing(score, 5600, Magnitude(score), 16000)

\* mtf_ensemble.py, of a day and of five minutes.
FramesDecide(r) ==
  LET score == 30 * r.day + 10 * r.minutes IN Passing(score, 1400, Magnitude(score), 4000)

-----------------------------------------------------------------------------
(* strategy_dsl.py and strategy_evaluator.py, on the unified signal. A reading  *)
(* has said: whether the analysis of the zones has the wanted word in it.       *)

ValidStrategy(s) ==
  /\ s.direction \in {"BUY", "SELL", "both"} /\ s.conditions # {}
  /\ s.risk \in 1..100 /\ s.reward > 0 /\ s.positions >= 1

\* Conditions on volume, volatility, sessions and options have no provider and never hold.
ConditionHolds(c, r) ==
  CASE c.kind = "trend" -> c.wanted \in {"any", UnifiedSignal(r).action}
    [] c.kind = "smc" -> c.wanted = "any" \/ r.said = 1
    [] c.kind = "indicator" -> c.wanted = "any" \/ (r.trend # 0 /\ c.wanted = Side(r.trend))
    [] OTHER -> FALSE

StrategyMatches(s, r) ==
  LET d == UnifiedSignal(r) IN
  IF /\ ValidStrategy(s) /\ d.action # "HOLD"
     /\ s.direction \in {"both", d.action}
     /\ \A c \in s.conditions : ConditionHolds(c, r)
  THEN d ELSE Hold

-----------------------------------------------------------------------------
Decides(e, r, f, s) ==
  CASE e = "strategy" -> StrategyDecides(r, f)
    [] e = "ai" -> AiDecides(r, f, Confluence(r.ict, r.technical))
    [] e = "gated" -> GatedDecides(r, f)
    [] e = "advice" -> AdviceDecides(r, f)
    [] e = "ensemble" -> EnsembleDecides(r)
    [] e = "ensemble2" -> Ensemble2Decides(r)
    [] e = "frames" -> FramesDecide(r)
    [] e = "dsl" -> StrategyMatches(s, r)

\* The levels of a decision: a half times three of the range away, and twice that.
Levels(side, r) ==
  LET d == IF side = "BUY" THEN 1 ELSE -1 IN
  [entry |-> r.close, stop |-> r.close - 3 * d * r.range, target |-> r.close + 6 * d * r.range]

\* Mutant: the lots are rounded up.
LotsRoundedUp(l) ==
  Min({MaxLots, (RiskMoney + Magnitude(l.entry - l.stop) * LotSize - 1)
                  \div (Magnitude(l.entry - l.stop) * LotSize)})

\* calculate_position_size: the lots whose loss at the stop is within the money.
Lots(l) == Min({MaxLots, RiskMoney \div (Magnitude(l.entry - l.stop) * LotSize)})

\* build_ai_order_request; a level that is not positive and less than a lot are errors.
IntentOf(d, r) ==
  LET l == Levels(d.action, r) IN
  IF d.action \in {"BUY", "SELL"} /\ l.stop > 0 /\ l.target > 0 /\ Lots(l) > 0
  THEN [side |-> d.action, entry |-> l.entry, stop |-> l.stop, target |-> l.target,
        quantity |-> Lots(l) * LotSize]
  ELSE NoOrderRequest

\* execute_decision: a market order of the quantity the caller gave.
GuardedRequest(d, quantity) ==
  IF d.action \in {"BUY", "SELL"}
  THEN [NoOrderRequest EXCEPT !.side = d.action, !.quantity = quantity] ELSE NoOrderRequest

Ask(r, f, s) ==
  /\ decision = NoDecision
  /\ reading' = r /\ forecast' = f /\ strategy' = s
  /\ decision' = Decides(engine, r, f, s)
  /\ request' = CASE engine \in {"ai", "gated"} -> IntentOf(decision', r)
                  [] engine = "ensemble" -> GuardedRequest(decision', LotSize)
                  [] OTHER -> NoOrderRequest
  /\ UNCHANGED engine

SignalsInit ==
  /\ engine \in Engines
  /\ reading = <<>> /\ forecast = NoForecast /\ strategy = NoStrategy
  /\ decision = NoDecision /\ request = NoOrderRequest

TakesForecasts == {"strategy", "ai", "gated", "advice"}

SignalsNext ==
  \E r \in EngineReadings[engine],
     f \in {NoForecast} \cup (IF engine \in TakesForecasts THEN Forecasts ELSE {}),
     s \in IF engine = "dsl" THEN Strategies ELSE {NoStrategy} :
    Ask(r, f, s)

SignalsSpec == SignalsInit /\ [][SignalsNext]_signalVars

SignalsTypeOK ==
  /\ engine \in Engines
  /\ forecast \in Forecasts \cup {NoForecast}
  /\ strategy \in Strategies \cup {NoStrategy}
  /\ decision.action \in {"none", "BUY", "SELL", "HOLD"}
  /\ decision.confidence[1] \in 0..decision.confidence[2]
  /\ request.side \in {"none", "BUY", "SELL"}

-----------------------------------------------------------------------------
Rank(d) == CASE d.action = "BUY" -> 1 [] d.action = "SELL" -> -1 [] OTHER -> 0

Again(r, f) == Rank(Decides(engine, r, f, strategy))

\* The evidence, and the readings with more of one kind of it. Some of it is a score,
\* the other kinds are for a side, for the other or for none. The confluence that opens
\* the gate of GatedDecides says nothing of the side of what is decided behind it.
Evidence ==
  DOMAIN reading \ ({"volatile", "data", "close", "range", "htf", "said"}
                      \cup IF engine = "gated" THEN {"ict", "technical"} ELSE {})
Scores == {"odds", "points", "zones", "smc", "confirmation", "day", "minutes"}

MoreBullish ==
  UNION { { [reading EXCEPT ![k] = n] :
              n \in (reading[k] + 1)..(IF k \in Scores THEN reading[k] + 2 ELSE 1) } :
          k \in Evidence }

Mirrored == [k \in DOMAIN reading |-> IF k \in Evidence THEN -reading[k] ELSE reading[k]]

Reversed(f) ==
  [f EXCEPT !.label = CASE @ = "BUY" -> "SELL" [] @ = "SELL" -> "BUY" [] OTHER -> @]

\* A strategy that waits for an indicator against the side it trades, as one for both
\* sides with an indicator of one of them does, stops matching when the trend turns to
\* the side of the decision (StrategyEvaluator.evaluate).
WaitsForItsSide(s) ==
  \A c \in s.conditions : c.kind = "indicator" => c.wanted \in {"any", s.direction}

\* More evidence for a side never turns a decision away from it, but that of a strategy
\* that waits for the other side, and no engine prefers a side: the mirrored evidence has
\* the mirrored decision. A prediction never changes the side of a decision, and one for
\* a side never does less for it than one against it.
\* (generate_signal without a higher timeframe; AIDecisionEngine.decide of both modules,
\* evaluate_confluence, UnifiedSignalEngine, the ensembles.)
DecisionsFollowEvidence ==
  (decision # NoDecision /\ (engine = "strategy" => reading.htf = 2)) =>
    /\ WaitsForItsSide(strategy) =>
         \A r \in MoreBullish : Again(r, forecast) >= Rank(decision)
    /\ engine # "dsl" => Again(Mirrored, Reversed(forecast)) = -Rank(decision)
    /\ Rank(decision) * Again(reading, NoForecast) >= 0
    /\ forecast.label = "BUY" => Rank(decision) >= Again(reading, Reversed(forecast))
    /\ forecast.label = "SELL" => Rank(decision) <= Again(reading, Reversed(forecast))

\* An order request has the side the evidence decided on, levels on the right sides of
\* the entry, and a size that loses no more than the money at the stop, in lots; it is
\* never made of a context that is not good, or against a prediction that must agree
\* (build_ai_order_request, calculate_position_size, _decision_inputs_ready).
RequestsKeepTheRules ==
  request # NoOrderRequest =>
    /\ request.side = decision.action
    /\ engine # "ensemble" =>
         LET d == IF request.side = "BUY" THEN 1 ELSE -1 IN
         /\ d * (request.entry - request.stop) > 0 /\ d * (request.target - request.entry) > 0
         /\ request.quantity * Magnitude(request.entry - request.stop) <= RiskMoney
         /\ request.quantity % LotSize = 0 /\ request.quantity \in 1..MaxLots * LotSize
         /\ LET c == IF engine = "ai" THEN Confluence(reading.ict, reading.technical) ELSE 0
            IN  EvidenceFor(d, reading, c) > EvidenceFor(-d, reading, c)
         /\ reading.data = 1
         /\ forecast.must => forecast.label \in {"none", request.side}
=============================================================================
