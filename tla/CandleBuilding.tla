--------------------------- MODULE CandleBuilding ---------------------------
(***************************************************************************)
(* The ways this program makes candles from ticks, side by side on one     *)
(* instrument: CandleAggregator (market_data/aggregator.py), which raises  *)
(* on a tick of a closed bucket; TickCandleAggregator and the store of     *)
(* the market_data package (market_data/__init__.py), which drop what is   *)
(* late; and CandleBuilder (candle_builder.py, stream_candle_pipeline.py), *)
(* which takes everything. Candles of a wider frame come from              *)
(* MultiTimeframeAggregator (mtf_aggregator.py), and gaps of the history   *)
(* from HistoricalBackfillEngine (historical_backfill.py).                 *)
(*                                                                         *)
(* Time is a number; a frame is the number of time units of its buckets.   *)
(***************************************************************************)
EXTENDS Integers, Sequences, FiniteSets, FiniteSetsExt, SequencesExt

CONSTANTS Times, TickPrices,
          BaseFrame, WideFrame,  \* the wide frame is a multiple of the base frame
          MaxTicks               \* bound on ticks

ASSUME CandleAssumption ==
  /\ Times \subseteq Nat /\ TickPrices \subseteq Nat \ {0} /\ MaxTicks \in Nat
  /\ BaseFrame \in Nat \ {0} /\ WideFrame \in Nat \ {0} /\ WideFrame % BaseFrame = 0

VARIABLES canonical,  \* CandleAggregator: [current, closed], and the ticks it took
          byFrame,    \* TickCandleAggregator: [last], and of each frame the same
          builder,    \* CandleBuilder: [current, closed], and its ticks
          history,    \* the store of candles by time, and the candles it was given
          ticks

candleVars == <<canonical, byFrame, builder, history, ticks>>

Frames == {BaseFrame, WideFrame}

NoCandle == [start |-> -1]

Nothing == [current |-> NoCandle, closed |-> <<>>, taken |-> <<>>]

CandlesInit ==
  /\ canonical = Nothing
  /\ byFrame = [last |-> -1, of |-> [f \in Frames |-> Nothing]]
  /\ builder = Nothing
  /\ history = [stored |-> {}, latest |-> -1]
  /\ ticks = 0

-----------------------------------------------------------------------------
\* _bucket_start, bucket: the start of the bucket a time lies in.
Bucket(time, frame) == time - (time % frame)

NewCandle(tick, frame) ==
  [start |-> Bucket(tick.time, frame), open |-> tick.price, high |-> tick.price,
   low |-> tick.price, close |-> tick.price, volume |-> tick.volume]

Extended(candle, tick) ==
  [candle EXCEPT !.high = Max({@, tick.price}), !.low = Min({@, tick.price}),
                 !.close = tick.price, !.volume = @ + tick.volume]

\* The candle that is current takes the tick, or is closed by it.
Advance(agg, tick, frame) ==
  LET same == agg.current.start = Bucket(tick.time, frame) IN
  [current |-> IF same THEN Extended(agg.current, tick) ELSE NewCandle(tick, frame),
   closed |-> IF same \/ agg.current = NoCandle THEN agg.closed
              ELSE Append(agg.closed, agg.current),
   taken |-> Append(agg.taken, tick)]

\* Mutant of Late: a tick of a closed bucket is taken.
NeverLate(agg, tick, frame) == FALSE

\* A tick of a bucket before the current one.
Late(agg, tick, frame) == Bucket(tick.time, frame) < agg.current.start

\* CandleAggregator.update
Update(agg, tick) ==
  IF Late(agg, tick, BaseFrame) THEN agg ELSE Advance(agg, tick, BaseFrame)

\* TickCandleAggregator.ingest: the time of the last tick is one for all frames.
Ingest(tick, f) ==
  LET agg == byFrame.of[f] IN
  IF tick.time <= byFrame.last THEN byFrame
  ELSE [last |-> tick.time,
        of |-> [byFrame.of EXCEPT ![f] = IF Late(agg, tick, f) THEN agg
                                         ELSE Advance(agg, tick, f)]]

\* put takes a candle that is newer than its last.
Put(candle) ==
  IF candle.start <= history.latest THEN history
  ELSE [stored |-> history.stored \cup {candle}, latest |-> candle.start]

\* One tick, for every consumer, TickCandleAggregator being asked for one frame.
TickArrives(tick, f) ==
  LET after == Update(canonical, tick) IN
  /\ ticks < MaxTicks /\ ticks' = ticks + 1
  /\ canonical' = after
  /\ byFrame' = Ingest(tick, f)
  /\ builder' = Advance(builder, tick, BaseFrame)
  /\ history' = IF after.closed = canonical.closed THEN history ELSE Put(Last(after.closed))

\* flush: the current candles are handed out, and nothing is current. The history gets
\* the last candle too.
Flush ==
  /\ canonical.current # NoCandle
  /\ history' = Put(canonical.current)
  /\ canonical' = Nothing
  /\ byFrame' = [byFrame EXCEPT !.of = [f \in Frames |-> Nothing]]
  /\ builder' = Nothing
  /\ UNCHANGED ticks

CandlesNext ==
  \/ \E time \in Times, price \in TickPrices, f \in Frames :
       TickArrives([time |-> time, price |-> price, volume |-> 1], f)
  \/ Flush

CandlesSpec == CandlesInit /\ [][CandlesNext]_candleVars

-----------------------------------------------------------------------------
(* The wider frame and the gaps.                                            *)

\* What the candles at some positions make for the bucket b, in the order of time and, at
\* one time, of the list.
CandleOf(candles, at, b) ==
  LET notAfter(m, n) == \/ candles[m].start < candles[n].start
                        \/ candles[m].start = candles[n].start /\ m <= n
      first == CHOOSE n \in at : \A m \in at : notAfter(n, m)
      last == CHOOSE n \in at : \A m \in at : notAfter(m, n) IN
  [start |-> b, open |-> candles[first].open, close |-> candles[last].close,
   high |-> Max({candles[n].high : n \in at}), low |-> Min({candles[n].low : n \in at}),
   volume |-> SumFunctionOnSet([n \in DOMAIN candles |-> candles[n].volume], at)]

\* aggregate: the candles in order of time, grouped by bucket.
Aggregate(candles, frame) ==
  LET starts == {Bucket(candles[n].start, frame) : n \in DOMAIN candles}
      of(b) == {n \in DOMAIN candles : Bucket(candles[n].start, frame) = b}
      nth(k) == CHOOSE b \in starts : Cardinality({a \in starts : a < b}) = k - 1 IN
  [k \in 1..Cardinality(starts) |-> CandleOf(candles, of(nth(k)), nth(k))]

\* find_gaps: what the cursor makes of one step; a gap is open while no candle is stored.
Look(acc, t) ==
  CASE \E c \in history.stored : c.start = t -> [acc EXCEPT !.open = FALSE]
    [] ~(\E c \in history.stored : c.start = t) /\ acc.open ->
         [acc EXCEPT !.gaps[Len(acc.gaps)] = <<@[1], t>>]
    [] OTHER -> [open |-> TRUE, gaps |-> Append(acc.gaps, <<t, t>>)]

\* The cursor goes through the steps of an interval.
FindGaps(from, to) ==
  FoldLeft(Look, [open |-> FALSE, gaps |-> <<>>],
           [k \in 1..((to - from) \div BaseFrame + 1) |-> from + (k - 1) * BaseFrame]).gaps

-----------------------------------------------------------------------------
CandlesTypeOK ==
  /\ ticks <= MaxTicks /\ byFrame.last \in Times \cup {-1}
  /\ \A c \in history.stored : c.low <= c.open /\ c.open <= c.high /\ c.volume > 0

\* The candles since the last flush, the current one included.
AllCandles(agg) == IF agg.current = NoCandle THEN agg.closed ELSE Append(agg.closed, agg.current)

\* One candle for each tick, to be grouped: the ticks of a bucket in the order they came.
AsCandles(taken, frame) == [n \in DOMAIN taken |-> NewCandle(taken[n], frame)]

\* The ticks split where the bucket changes.
Runs(taken) ==
  LET bucket(n) == Bucket(taken[n].time, BaseFrame)
      first == {n \in DOMAIN taken : n > 1 => bucket(n) # bucket(n - 1)}
      of(k) == {n \in DOMAIN taken : Cardinality({m \in first : m <= n}) = k} IN
  [k \in 1..Cardinality(first) |->
     CandleOf(AsCandles(taken, BaseFrame), of(k), bucket(Min(of(k))))]

\* The history keeps one candle for a time, though a candle of a time it has is handed
\* to it again after a flush; the gaps found in any interval of it cover exactly the steps
\* it misses, and a candle lies between any two of them.
GapsAreWhatIsMissing ==
  LET has == {c.start : c \in history.stored}
      begins == {t \in Times : t % BaseFrame = 0} IN
  /\ \A c, d \in history.stored : c.start = d.start => c = d
  /\ \A from \in begins : \A to \in {t \in begins : from <= t} :
       LET steps == begins \cap (from..to)
           gaps == FindGaps(from, to) IN
       /\ (UNION {gap[1]..gap[2] : gap \in ToSet(gaps)}) \cap steps = steps \ has
       /\ \A n \in 2..Len(gaps) : \E t \in has : gaps[n-1][2] < t /\ t < gaps[n][1]

\* Whatever ticks arrive late or twice, the canonical candles and those of each frame are
\* the grouping of the ticks that were taken, one candle for a bucket, in order; the
\* candles of the wide frame are the same whether they are made from base candles or
\* from ticks; CandleBuilder's are the runs of its ticks (aggregator.py:24: a late tick
\* must not rewrite history that was already emitted). The history keeps one candle for
\* a time, and the gaps found in it are what it misses.
CandlesAreTheirTicks ==
  /\ GapsAreWhatIsMissing
  /\ AllCandles(canonical) = Aggregate(AsCandles(canonical.taken, BaseFrame), BaseFrame)
  /\ \A f \in Frames :
       AllCandles(byFrame.of[f]) = Aggregate(AsCandles(byFrame.of[f].taken, f), f)
  /\ Aggregate(AllCandles(canonical), WideFrame) =
       Aggregate(AsCandles(canonical.taken, WideFrame), WideFrame)
  /\ AllCandles(builder) = Runs(builder.taken)
=============================================================================
