----------------------------- MODULE MCComponents -----------------------------
(* Components of the backend that share no state, for TLC: a behaviour runs *)
(* one of them, chosen at the start, and leaves the others as they are, so  *)
(* that no product of unrelated states is built. Every property is that of  *)
(* one component; a behaviour of another keeps it at its initial state.     *)
EXTENDS MCMarketFeed, CandleBuilding, PaperBacktest, FillJournal, Grants,
        IntentStores, BrokerAccounts, ChartStructure, BrokerReports, Signals, StateFiles,
        OnceOnly, HistoryFetch, ModelTraining

CONSTANTS a1, a2, b1, b2, c1, c2, g1, g2, k1, k2, t1, t2, w1, w2

\* Grants: both are issued for the first binding.
FirstBinding == [g \in {g1, g2} |-> b1]

\* FillJournal: one order filled in two parts, or cancelled, and one filled at once.
TwoShares == [o \in {t1, t2} |-> 2]

Callback(id, o, kind, quantity) ==
  [id |-> id, order |-> o, kind |-> kind, quantity |-> quantity]

Callbacks == { Callback(1, t1, "PARTIAL_FILL", 1), Callback(2, t1, "FILLED", 1),
               Callback(3, t2, "FILLED", 2), Callback(4, t2, "SUBMITTED", 0),
               Callback(5, t1, "CANCELLED", 0), Callback(6, t1, "ACKNOWLEDGED", 0) }

\* ChartStructure: bars that make swings, gaps and blocks of both sides.
Bar(o, h, l, c) == [open |-> o, high |-> h, low |-> l, close |-> c]

FourBars == { Bar(2, 2, 1, 1), Bar(2, 4, 2, 4), Bar(3, 6, 3, 3), Bar(4, 5, 2, 5) }

\* Signals: readings of every sort for each engine, and predictions for and against them,
\* sure or not, of this symbol and bar or not.
Sided == {-1, 1}
Each == {-1, 0, 1}

StrategyReadings ==
  { r \in [bos: Each, choch: {0, 1}, sweep: Sided, gap: {0}, block: Each, zone: Sided,
           price: Sided, htf: {-1, 1, 2}] : r.choch = 1 => r.bos = 0 }

AiReadings ==
  [ema: Sided, rsi: Each, macd: {1}, trend: Sided, bos: Each, choch: {0}, zone: Sided,
   ict: Sided, technical: Each, data: {1}, close: {20}, range: {1}]
  \cup [ema: {1}, rsi: {1}, macd: Sided, trend: {1}, bos: {1}, choch: Each, zone: {0},
        ict: {0, 1}, technical: {0}, data: {0, 1}, close: {5, 20}, range: {1, 2}]

ReadingsOf(e) ==
  CASE e = "strategy" -> StrategyReadings
    [] e \in {"ai", "gated"} -> AiReadings
    [] e = "advice" -> [smc: {-8, -4, 0, 3, 10}, confirmation: {-4, 0, 4}, trend: Each]
    [] e = "ensemble" ->
         [odds: {-10, -4, 0, 5, 10}, points: {-6, -2, 0, 2, 5}, volatile: {0, 1}]
    [] e = "ensemble2" ->
         [odds: {-8, -3, 0, 4, 10}, points: {-4, 0, 3}, structure: Each, zones: {-3, 0, 2},
          volatile: {0, 1}]
    [] e = "frames" -> [day: {-60, -35, 0, 40}, minutes: {-90, 0, 70}]
    [] e = "dsl" -> [smc: {-10, 0, 10}, confirmation: {0}, trend: Each, said: {0, 1}]

EveryEngine ==
  {"strategy", "ai", "gated", "advice", "ensemble", "ensemble2", "frames", "dsl"}

ReadingsOfEach == [e \in EveryEngine |-> ReadingsOf(e)]

Forecast(label, sure, symbol, at, must) ==
  [label |-> label, sure |-> sure, symbol |-> symbol, at |-> at, must |-> must]

SomeForecasts ==
  { Forecast("BUY", 55, "same", 0, FALSE), Forecast("SELL", 90, "same", 0, TRUE),
    Forecast("BUY", 90, "same", -1, FALSE), Forecast("SELL", 50, "same", 0, FALSE),
    Forecast("NEUTRAL", 90, "same", 0, FALSE), Forecast("BUY", 90, "other", 0, FALSE),
    Forecast("SELL", 90, "same", 1, FALSE) }

Wanting(kind, wanted) == [kind |-> kind, wanted |-> wanted]

Plan(direction, conditions, reward) ==
  [direction |-> direction, conditions |-> conditions, risk |-> 1, reward |-> reward,
   positions |-> 1]

SomeStrategies ==
  { Plan("both", {Wanting("smc", "BUY")}, 2), Plan("SELL", {Wanting("trend", "any")}, 0),
    Plan("BUY", {Wanting("trend", "BUY"), Wanting("indicator", "BUY")}, 2),
    Plan("both", {Wanting("volume", "any"), Wanting("trend", "any")}, 2),
    Plan("both", {Wanting("indicator", "BUY")}, 2) }

\* HistoryFetch: two feeds, of which one still lacks the last candle.
TwoFeeds == <<"f1", "f2">>
FirstShownByEach == <<{1, 3}, {1, 2}>>
WholeRange == {<<1, 3>>}

\* ModelTraining: a gate that three examples can pass, three sizes of windows, and both
\* sides to hold.
AGate == [samples |-> 3, class |-> 5, accuracy |-> 34, lift |-> 0]
SomeSizes == {<<2, 1, 1>>, <<3, 2, 2>>, <<2, 2, 1>>}
LongOrShort == <<1, -1>>

VARIABLE running

components == <<feedVars, candleVars, paperVars, journalVars, grantVars,
               storeVars, accountVars, chart, reportVars, signalVars, fileVars,
               onceVars, fetchVars, researchVars, running>>

ComponentsInit ==
  /\ running \in {"feed", "candles", "paper", "journal", "grants", "stores",
                  "accounts", "charts", "reports", "signals", "files", "once",
                  "history", "research"}
  /\ FeedInit /\ CandlesInit /\ PaperInit /\ GrantsInit /\ ChartInit
  /\ ResearchInit
  /\ JournalInit /\ (running # "journal" => way = "journal")
  /\ StoresInit /\ (running # "stores" => backend = "file")
  /\ AccountsInit
  /\ running # "accounts" =>
       comparison = "text" /\ \A a \in AccountRows : accounts[a] = NoRow
  /\ ReportsInit /\ (running # "reports" => broker = "paper")
  /\ SignalsInit /\ (running # "signals" => engine = "ai")
  /\ FilesInit /\ (running # "files" => fileStore = "safety")
  /\ OnceInit /\ (running # "once" => onceGate = "identities")
  /\ FetchInit /\ (running # "history" => archive = "store")

ComponentsNext ==
  \/ /\ running = "feed" /\ FeedNext
     /\ UNCHANGED <<candleVars, paperVars, journalVars, grantVars, storeVars,
                    accountVars, chart, reportVars, signalVars, fileVars, onceVars,
                    fetchVars, researchVars, running>>
  \/ /\ running = "candles" /\ CandlesNext
     /\ UNCHANGED <<feedVars, paperVars, journalVars, grantVars, storeVars,
                    accountVars, chart, reportVars, signalVars, fileVars, onceVars,
                    fetchVars, researchVars, running>>
  \/ /\ running = "paper" /\ PaperNext
     /\ UNCHANGED <<feedVars, candleVars, journalVars, grantVars, storeVars,
                    accountVars, chart, reportVars, signalVars, fileVars, onceVars,
                    fetchVars, researchVars, running>>
  \/ /\ running = "journal" /\ JournalNext
     /\ UNCHANGED <<feedVars, candleVars, paperVars, grantVars, storeVars,
                    accountVars, chart, reportVars, signalVars, fileVars, onceVars,
                    fetchVars, researchVars, running>>
  \/ /\ running = "grants" /\ GrantsNext
     /\ UNCHANGED <<feedVars, candleVars, paperVars, journalVars, storeVars,
                    accountVars, chart, reportVars, signalVars, fileVars, onceVars,
                    fetchVars, researchVars, running>>
  \/ /\ running = "stores" /\ StoresNext
     /\ UNCHANGED <<feedVars, candleVars, paperVars, journalVars, grantVars,
                    accountVars, chart, reportVars, signalVars, fileVars, onceVars,
                    fetchVars, researchVars, running>>
  \/ /\ running = "accounts" /\ AccountsNext
     /\ UNCHANGED <<feedVars, candleVars, paperVars, journalVars, grantVars,
                    storeVars, chart, reportVars, signalVars, fileVars, onceVars,
                    fetchVars, researchVars, running>>
  \/ /\ running = "charts" /\ ChartNext
     /\ UNCHANGED <<feedVars, candleVars, paperVars, journalVars, grantVars,
                    storeVars, accountVars, reportVars, signalVars, fileVars, onceVars,
                    fetchVars, researchVars, running>>
  \/ /\ running = "reports" /\ ReportsNext
     /\ UNCHANGED <<feedVars, candleVars, paperVars, journalVars, grantVars,
                    storeVars, accountVars, chart, signalVars, fileVars, onceVars,
                    fetchVars, researchVars, running>>
  \/ /\ running = "signals" /\ SignalsNext
     /\ UNCHANGED <<feedVars, candleVars, paperVars, journalVars, grantVars,
                    storeVars, accountVars, chart, reportVars, fileVars, onceVars,
                    fetchVars, researchVars, running>>
  \/ /\ running = "files" /\ FilesNext
     /\ UNCHANGED <<feedVars, candleVars, paperVars, journalVars, grantVars,
                    storeVars, accountVars, chart, reportVars, signalVars, onceVars,
                    fetchVars, researchVars, running>>
  \/ /\ running = "once" /\ OnceNext
     /\ UNCHANGED <<feedVars, candleVars, paperVars, journalVars, grantVars,
                    storeVars, accountVars, chart, reportVars, signalVars, fileVars,
                    fetchVars, researchVars, running>>
  \/ /\ running = "history" /\ FetchNext
     /\ UNCHANGED <<feedVars, candleVars, paperVars, journalVars, grantVars,
                    storeVars, accountVars, chart, reportVars, signalVars, fileVars,
                    onceVars, researchVars, running>>
  \/ /\ running = "research" /\ ResearchNext
     /\ UNCHANGED <<feedVars, candleVars, paperVars, journalVars, grantVars,
                    storeVars, accountVars, chart, reportVars, signalVars, fileVars,
                    onceVars, fetchVars, running>>

ComponentsSpec == ComponentsInit /\ [][ComponentsNext]_components

\* The variables of the component that runs stay in their ranges (the type invariant of
\* each); the others keep their initial values.
ComponentsTypeOK ==
  /\ running = "feed" => FeedTypeOK
  /\ running = "candles" => CandlesTypeOK
  /\ running = "paper" => PaperTypeOK
  /\ running = "journal" => JournalTypeOK
  /\ running = "grants" => GrantsTypeOK
  /\ running = "stores" => StoresTypeOK
  /\ running = "accounts" => AccountsTypeOK
  /\ running = "charts" => ChartTypeOK
  /\ running = "reports" => ReportsTypeOK
  /\ running = "signals" => SignalsTypeOK
  /\ running = "files" => FilesTypeOK
  /\ running = "once" => OnceTypeOK
  /\ running = "history" => FetchTypeOK
  /\ running = "research" => ResearchTypeOK
=============================================================================
