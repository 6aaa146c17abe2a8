---------------------------- MODULE ChartStructure ----------------------------
(***************************************************************************)
(* What the structure engines draw on a chart that grows by one bar at a   *)
(* time: swings, breaks of structure, fair value gaps, order blocks,       *)
(* liquidity pools and sweeps. Each engine is a function of the bars so    *)
(* far; positions count from 1.                                            *)
(*                                                                         *)
(* Two prices are within an engine's tolerance when they are equal, and a  *)
(* gap or a move of one or more is over its threshold. The last ten or     *)
(* thirty marks an engine keeps are all of them within MaxChart.           *)
(***************************************************************************)
EXTENDS Integers, Sequences, FiniteSetsExt

CONSTANTS ChartBars,   \* [open, high, low, close]
          Pivot,       \* bars on each side of a swing, 2 in the code
          Left, Right, \* bars before and after a swing point, 2 and 2 in the code
          Window,      \* bars the sweeps and the zones look back on, 10 and 5 in the code
          MaxChart

ASSUME ChartAssumption ==
  /\ {Pivot, Left, Right, Window} \subseteq Nat \ {0}
  /\ ChartBars \subseteq [open : Int, high : Int, low : Int, close : Int]
  /\ \A b \in ChartBars : /\ b.low <= b.open /\ b.open <= b.high
                         /\ b.low <= b.close /\ b.close <= b.high

VARIABLE chart

ChartInit == chart = <<>>

NextBar(b) == Len(chart) < MaxChart /\ chart' = Append(chart, b)

ChartNext == \E b \in ChartBars : NextBar(b)

ChartSpec == ChartInit /\ [][ChartNext]_chart

ChartTypeOK == chart \in Seq(ChartBars) /\ Len(chart) <= MaxChart

-----------------------------------------------------------------------------
(* Swings.                                                                  *)

SwingKinds == {"HIGH", "LOW"}

Level(bar, kind) == IF kind = "HIGH" THEN bar.high ELSE bar.low

Beyond(kind, a, b) == IF kind = "HIGH" THEN a > b ELSE a < b

\* Bar i is the extreme of the bars around it, level with none of them.
Stands(c, i, around, kind) ==
  \A j \in around \ {i} : Beyond(kind, Level(c[i], kind), Level(c[j], kind))

Swing(c, i, kind) == [at |-> i, kind |-> kind, price |-> Level(c[i], kind)]

SwingsAt(c, is, before, after) ==
  { Swing(c, n[1], n[2]) : n \in
      {p \in is \X SwingKinds : Stands(c, p[1], (p[1] - before)..(p[1] + after), p[2])} }

\* Mutant: a swing is taken before the bars that confirm it.
EarlySwings(c) ==
  UNION { SwingsAt(c, {i}, Pivot, Min({Pivot, Len(c) - i})) : i \in (Pivot + 1)..Len(c) }

\* ict_engine.swings: confirmed by the bars that follow.
Swings(c) == SwingsAt(c, (Pivot + 1)..(Len(c) - Pivot), Pivot, Pivot)

\* smc_structure.detect_swings: the only bar at the extreme of its window.
SwingPoints(c) == SwingsAt(c, (Left + 1)..(Len(c) - Right), Left, Right)

\* SMCICTEngine.swings: beyond the bars before it, known at once.
StreamSwings(c) == SwingsAt(c, (Pivot + 1)..Len(c), Pivot, 0)

\* ict_smc.swings, of the same swings: a bar that is both is a high.
OneKind(swings) ==
  {s \in swings : s.kind = "LOW" => \A t \in swings : t.at = s.at => t.kind = "LOW"}

\* MarketStructureEngine._pivots: the bars that follow may be level with it.
Pivots(c) ==
  { Swing(c, n[1], n[2]) : n \in
      {p \in ((Left + 1)..(Len(c) - Right)) \X SwingKinds :
         /\ Stands(c, p[1], (p[1] - Left)..p[1], p[2])
         /\ \A j \in (p[1] + 1)..(p[1] + Right) :
              ~Beyond(p[2], Level(c[j], p[2]), Level(c[p[1]], p[2]))} }

Latest(swings) == CHOOSE t \in swings : \A x \in swings : x.at <= t.at

\* ict_engine.structure: a swing against the one of its kind before it, a higher or a
\* lower high or low.
StructureLabels(swings) ==
  LET Before(s) == {t \in swings : t.kind = s.kind /\ t.at < s.at}
  IN  { [at |-> s.at, kind |-> s.kind, higher |-> s.price > Latest(Before(s)).price] :
        s \in {x \in swings : Before(x) # {}} }

\* ict_engine.dealing_range: the prices from the lowest swing to the highest.
DealingRange(swings) ==
  LET prices == {s.price : s \in swings}
  IN  IF swings = {} THEN {} ELSE Min(prices)..Max(prices)

\* LiquidityEngine.dealing_range, of all bars.
BarRange(c) ==
  IF c = <<>> THEN {}
  ELSE Min({c[i].low : i \in DOMAIN c})..Max({c[i].high : i \in DOMAIN c})

-----------------------------------------------------------------------------
(* Breaks of structure: a close beyond the last swing before it, once a     *)
(* swing.                                                                   *)

IsLastBefore(s, swings, i) ==
  s.at < i /\ \A t \in swings : t.kind = s.kind /\ t.at < i => t.at <= s.at

BreaksOf(s, c, swings) ==
  {i \in DOMAIN c : IsLastBefore(s, swings, i) /\ Beyond(s.kind, c[i].close, s.price)}

BreaksBy(c, swings) ==
  { [at |-> Min(BreaksOf(s, c, swings)), kind |-> s.kind, price |-> s.price,
     swing |-> s.at] :
      s \in {x \in swings : BreaksOf(x, c, swings) # {}} }

\* SMCICTEngine.structure.
StreamBreaks(c, swings) == BreaksBy(c, swings)

\* smc_structure.detect_structure: a break against the break before it changes the
\* character of the market; of two at one bar the bullish one comes first.
Signals(c, points) ==
  LET breaks == BreaksBy(c, points)
      Before(a, b) == a.at < b.at \/ (a.at = b.at /\ a.kind = "HIGH" /\ b.kind = "LOW")
      Previous(b) ==
        {a \in breaks : Before(a, b) /\ \A x \in breaks : ~(Before(a, x) /\ Before(x, b))}
  IN  { [break |-> b,
         event |-> IF \E a \in Previous(b) : a.kind # b.kind THEN "CHOCH" ELSE "BOS"] :
        b \in breaks }

\* A signal is settled when every swing before its bar has been confirmed.
Confirmed(c) == Len(c) - Right + 1

-----------------------------------------------------------------------------
(* Gaps, order blocks.                                                      *)

ZoneMark(i, kind, low, high) == [at |-> i, kind |-> kind, low |-> low, high |-> high]

\* ict_engine.fair_value_gaps, between the bars on both sides of the one before i. The
\* gaps of SMCICTEngine and of ict_zones are the same.
Gaps(c) ==
  { ZoneMark(i, "BULLISH", c[i - 2].high, c[i].low) :
      i \in {n \in 3..Len(c) : c[n].low > c[n - 2].high} }
  \cup
  { ZoneMark(i, "BEARISH", c[i].high, c[i - 2].low) :
      i \in {n \in 3..Len(c) : c[n].high < c[n - 2].low} }

\* ict_fvg.detect_fvgs: a bearish gap starts at the close of the first bar.
ClosingGaps(c) ==
  {g \in Gaps(c) : g.kind = "BULLISH"}
  \cup { ZoneMark(i, "BEARISH", c[i].high, c[i - 2].close) :
           i \in {n \in 3..Len(c) : c[n].high < c[n - 2].close} }

Up(bar) == bar.close > bar.open
Down(bar) == bar.close < bar.open

Against(a, b, kind) ==
  IF kind = "BULLISH" THEN Down(a) /\ Up(b) ELSE Up(a) /\ Down(b)

\* ict_engine.order_blocks: the bar before a move of one and a half its range.
Blocks(c) ==
  LET Body(bar) == Max({bar.close - bar.open, bar.open - bar.close})
      Moves(i)  == 2 * Body(c[i + 1]) >= 3 * (c[i].high - c[i].low)
  IN  UNION { { ZoneMark(i, kind, c[i].low, c[i].high) :
                  i \in {n \in 2..(Len(c) - 1) :
                           Len(c) >= 4 /\ Moves(n) /\ Against(c[n], c[n + 1], kind)} } :
              kind \in {"BULLISH", "BEARISH"} }

\* ict_order_block.detect_order_blocks: the move closes beyond the bar before it. The
\* blocks of SMCICTEngine and of SMCEngine are the same.
ClosingBlocks(c) ==
  LET Leaves(i, kind) == IF kind = "BULLISH" THEN c[i].close > c[i - 1].high
                         ELSE c[i].close < c[i - 1].low
  IN  UNION { { ZoneMark(i, kind, c[i - 1].low, c[i - 1].high) :
                  i \in {n \in 2..Len(c) :
                           Against(c[n - 1], c[n], kind) /\ Leaves(n, kind)} } :
              kind \in {"BULLISH", "BEARISH"} }

\* ict_zones.detect_order_blocks: the bar before one of 1.8 times the average range.
ZoneBlocks(c) ==
  LET Extent(i) == c[i].high - c[i].low
      Earlier(i) == SumFunctionOnSet([j \in (i - Window)..(i - 1) |-> Extent(j)],
                                     (i - Window)..(i - 1))
  IN  { ZoneMark(i, IF Up(c[i]) THEN "BULLISH" ELSE "BEARISH",
                 c[i - 1].low, c[i - 1].high) :
          i \in {n \in (Window + 1)..Len(c) :
                   Extent(n) > 0 /\ 10 * Window * Extent(n) >= 18 * Earlier(n)} }

\* fvg_state and order_block_state: a later bar reaches the far side of the zone.
Mitigated(c, marks) ==
  {g \in marks : \E j \in (g.at + 1)..Len(c) :
                   IF g.kind = "BULLISH" THEN c[j].low <= g.low ELSE c[j].high >= g.high}

-----------------------------------------------------------------------------
(* Liquidity.                                                               *)

Swept(bar, kind, price) ==
  IF kind = "HIGH" THEN bar.high > price /\ bar.close < price
  ELSE bar.low < price /\ bar.close > price

\* ict_engine.liquidity_pools: a swing level with an earlier one.
Pools(swings) ==
  {s \in swings : \E t \in swings : t.at < s.at /\ t.kind = s.kind /\ t.price = s.price}

\* ict_engine.liquidity_sweeps.
PoolSweeps(c, pools) ==
  UNION { { [at |-> i, kind |-> p.kind, price |-> p.price] :
              i \in {n \in (p.at + 1)..Len(c) : Swept(c[n], p.kind, p.price)} } :
          p \in pools }

\* ict_liquidity.detect_equal_liquidity: a swing and the first later one level with it.
EqualLiquidity(points) ==
  LET LevelWith(s) ==
        {t \in points : t.at > s.at /\ t.kind = s.kind /\ t.price = s.price}
  IN  { [first |-> s.at, second |-> Min({t.at : t \in LevelWith(s)}),
         kind |-> s.kind, price |-> s.price] : s \in {x \in points : LevelWith(x) # {}} }

\* ict_liquidity.detect_liquidity_sweeps: displaced when the bar moves away again.
LiquiditySweeps(c, pools) ==
  UNION { { [at |-> i, kind |-> p.kind, price |-> p.price,
             displaced |-> IF p.kind = "HIGH" THEN Down(c[i]) ELSE Up(c[i])] :
              i \in {n \in (p.second + 1)..Len(c) : Swept(c[n], p.kind, p.price)} } :
          p \in pools }

\* LiquidityEngine.equal_levels: a bar level with the one before, the last one left out.
EqualLevels(c) ==
  { Swing(c, n[1], n[2]) : n \in
      {p \in (2..(Len(c) - 1)) \X SwingKinds :
         Level(c[p[1]], p[2]) = Level(c[p[1] - 1], p[2])} }

\* LiquidityEngine.sweeps: of the extreme of the bars before.
WindowSweeps(c) ==
  LET Levels(i, k)  == {Level(c[j], k) : j \in (i - Window)..(i - 1)}
      Extreme(i, k) == IF k = "HIGH" THEN Max(Levels(i, k)) ELSE Min(Levels(i, k))
  IN  { [at |-> n[1], kind |-> n[2], price |-> Extreme(n[1], n[2])] : n \in
          {p \in ((Window + 1)..Len(c)) \X SwingKinds :
             Swept(c[p[1]], p[2], Extreme(p[1], p[2]))} }

-----------------------------------------------------------------------------

\* Everything the engines draw.
Drawn(c) ==
  LET swings == Swings(c)  points == SwingPoints(c)  stream == StreamSwings(c)
      gaps == ClosingGaps(c)  blocks == ClosingBlocks(c)
      pools == Pools(swings)  equal == EqualLiquidity(points)
  IN  [ swings |-> swings, single |-> OneKind(swings), labels |-> StructureLabels(swings),
        dealing |-> DealingRange(swings), dealt |-> BarRange(c),
        stream |-> stream, pivots |-> Pivots(c),
        breaks |-> StreamBreaks(c, stream),
        signals |-> {s \in Signals(c, points) : s.break.at <= Confirmed(c)},
        gaps |-> Gaps(c), closing |-> gaps, filled |-> Mitigated(c, gaps),
        blocks |-> Blocks(c), closed |-> blocks, tested |-> Mitigated(c, blocks),
        zones |-> ZoneBlocks(c), pools |-> pools, swept |-> PoolSweeps(c, pools),
        equal |-> equal, liquidity |-> LiquiditySweeps(c, equal),
        levels |-> EqualLevels(c), window |-> WindowSweeps(c) ]

\* Nothing repaints: what an engine has drawn stays when the next bar comes, although a
\* swing needs the bars after it; the signals of smc_structure take swings that are not
\* yet confirmed, and are final once the bars that confirm them are in ("without
\* look-ahead bias", smc_ict_engine.py; "data <= T", the blueprint's section 45).
NothingRepaints ==
  [][Len(chart) < Len(chart') =>
       LET old == Drawn(chart)  new == Drawn(chart')
       IN  \A e \in DOMAIN old : old[e] \subseteq new[e]]_chart
=============================================================================
