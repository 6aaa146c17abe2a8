---------------------------- MODULE ModelTraining ----------------------------
(***************************************************************************)
(* What is learnt from a history of candles, and how it is judged: the     *)
(* training examples (ml_dataset.py, ml_features.py, ml_labels.py), the    *)
(* folds of a walk-forward training, the centroid model, its baseline and  *)
(* the gate between them (ml_training.py, ml_walkforward.py,               *)
(* ml_estimator.py, ml_baseline.py, ml_model_gate.py), the windows of a    *)
(* walk-forward optimisation and its search (walk_forward.py,              *)
(* walk_forward_optimizer.py, parameter_optimizer.py).                     *)
(*                                                                         *)
(* Candles arrive one after the other; a candle is its closing price. The  *)
(* eight features are one, a function of the candles through a bar.        *)
(* Accuracies are fractions. The evaluators a search is given are external:*)
(* a parameter is a side that is held over a window.                       *)
(***************************************************************************)
EXTENDS Integers, SequencesExt

CONSTANTS
  ClosingPrices, \* prices a candle may close at
  MaxHistory,    \* bound on the history
  WarmupBars,    \* candles before there are features
  Horizon,       \* candles a label looks forward
  LabelThreshold, \* of a label, in hundredths of the price
  FoldCounts,    \* folds asked for
  Minimums,      \* min_train_size; 0: none is given
  ModelGate,     \* ModelGateConfig: [samples, class, accuracy, lift], in hundredths
  WindowSizes,   \* <<train_size, test_size, step>> asked for
  ParameterGrid, \* parameters, in the order they are tried: 1 (long), -1 (short), 0
  DrawdownLimit  \* max_drawdown_limit

ASSUME ModelTrainingAssumption ==
  /\ {ClosingPrices, FoldCounts} \subseteq SUBSET (Nat \ {0}) /\ Minimums \subseteq Nat
  /\ {MaxHistory, WarmupBars, Horizon} \subseteq Nat \ {0}
  /\ {LabelThreshold, DrawdownLimit} \subseteq Nat
  /\ WindowSizes \subseteq (Nat \ {0}) \X (Nat \ {0}) \X (Nat \ {0})
  /\ ParameterGrid \in Seq({-1, 0, 1}) /\ Len(ParameterGrid) > 0
  /\ ModelGate \in [samples : Nat, class : Nat, accuracy : Nat, lift : Nat]

VARIABLES
  closes,  \* the history
  study    \* what was last computed of it

researchVars == <<closes, study>>

Labels == {"BUY", "NEUTRAL", "SELL"}
NoStudy == [kind |-> "none"]

-----------------------------------------------------------------------------
(* Training examples                                                        *)

\* Mutant: the features are of all candles there are.
FeatureOfAll(history, bar) == history[Len(history)] - history[Len(history) - WarmupBars + 1]

FeatureAt(history, bar) ==
  LET visible == SubSeq(history, 1, bar) IN
  visible[bar] - visible[bar - WarmupBars + 1]

LabelAt(history, bar) ==
  LET rise == 100 * (history[bar + Horizon] - history[bar]) IN
  IF rise >= LabelThreshold * history[bar] THEN "BUY"
  ELSE IF rise <= -LabelThreshold * history[bar] THEN "SELL" ELSE "NEUTRAL"

\* The bars that have features and whose label is known.
Dataset(history) ==
  [k \in 1..(Len(history) - Horizon - WarmupBars + 1) |->
     LET bar == k + WarmupBars - 1 IN
     [bar |-> bar, feature |-> FeatureAt(history, bar), label |-> LabelAt(history, bar)]]

-----------------------------------------------------------------------------
(* Models and how well they do                                              *)

Labelled(examples, label) == {k \in DOMAIN examples : examples[k].label = label}

\* A centroid: the sum and the number of what it is the mean of, and when it came first.
Fit(examples) ==
  [label \in {examples[k].label : k \in DOMAIN examples} |->
     LET rows == Labelled(examples, label) IN
     [sum |-> MapThenSumSet(LAMBDA k : examples[k].feature, rows),
      count |-> Cardinality(rows), first |-> Min(rows)]]

DistanceTo(feature, centroid, other) ==
  LET off == feature * centroid.count - centroid.sum IN
  other.count * (IF off < 0 THEN -off ELSE off)

\* The nearest centroid, the earlier one of two that are as near.
Nearest(model, feature) ==
  CHOOSE label \in DOMAIN model : \A other \in DOMAIN model \ {label} :
    LET a == DistanceTo(feature, model[label], model[other])
        b == DistanceTo(feature, model[other], model[label]) IN
    a < b \/ (a = b /\ model[label].first < model[other].first)

RankOf == [BUY |-> 1, NEUTRAL |-> 2, SELL |-> 3]

Majority(examples) ==
  CHOOSE label \in Labels : \A other \in Labels \ {label} :
    LET a == Cardinality(Labelled(examples, label))
        b == Cardinality(Labelled(examples, other)) IN
    a > b \/ (a = b /\ RankOf[label] > RankOf[other])

Plus(a, b) == <<a[1] * b[2] + b[1] * a[2], a[2] * b[2]>>
AtLeastBy(a, b, hundredths) == 100 * a[1] * b[2] >= (100 * b[1] + hundredths * b[2]) * a[2]
Mean(fractions) ==
  LET sum == FoldLeft(Plus, <<0, 1>>, fractions) IN <<sum[1], sum[2] * Len(fractions)>>

-----------------------------------------------------------------------------
(* train_and_gate                                                           *)

MinimumOf(n, folds, minimum) == IF minimum > 0 THEN minimum ELSE Max({1, n \div (folds + 1)})

MayTrain(n, folds, minimum) == n > 0 /\ n - MinimumOf(n, folds, minimum) >= folds

\* Of each fold: how many examples it trains on, and up to which it validates.
FoldBounds(n, folds, minimum) ==
  LET least == MinimumOf(n, folds, minimum)
      step == Max({1, (n - least) \div folds}) IN
  [f \in 1..folds |->
     [train |-> least + step * (f - 1), end |-> IF f = folds THEN n ELSE least + step * f]]

\* Of the predictions for the examples a fold validates, those that are right.
Accuracy(examples, fold, predicted) ==
  <<Cardinality({k \in (fold.train + 1)..fold.end : predicted[k] = examples[k].label}),
    fold.end - fold.train>>

CandidateFold(examples, fold) ==
  LET model == Fit(SubSeq(examples, 1, fold.train)) IN
  Accuracy(examples, fold, [k \in DOMAIN examples |-> Nearest(model, examples[k].feature)])

BaselineFold(examples, fold) ==
  LET majority == Majority(SubSeq(examples, 1, fold.train)) IN
  Accuracy(examples, fold, [k \in DOMAIN examples |-> majority])

\* evaluate_model_gate: what speaks against the model.
Reasons(examples, candidate, baseline) ==
  {reason \in {"insufficient_samples", "class_underrepresented", "accuracy_below_threshold",
               "does_not_beat_baseline"} :
     CASE reason = "insufficient_samples" -> Len(examples) < ModelGate.samples
       [] reason = "class_underrepresented" ->
            \E label \in Labels :
              100 * Cardinality(Labelled(examples, label)) < ModelGate.class * Len(examples)
       [] reason = "accuracy_below_threshold" ->
            ~AtLeastBy(candidate, <<0, 1>>, ModelGate.accuracy)
       [] reason = "does_not_beat_baseline" -> ~AtLeastBy(candidate, baseline, ModelGate.lift)}

TrainAndGate(folds, minimum) ==
  LET examples == Dataset(closes)
      bounds == FoldBounds(Len(examples), folds, minimum)
      candidates == [f \in 1..folds |-> CandidateFold(examples, bounds[f])]
      baselines == [f \in 1..folds |-> BaselineFold(examples, bounds[f])] IN
  /\ study = NoStudy /\ MayTrain(Len(examples), folds, minimum)
  /\ study' = [kind |-> "training", bounds |-> bounds, candidates |-> candidates,
               baselines |-> baselines, model |-> Fit(examples),
               reasons |-> Reasons(examples, Mean(candidates), Mean(baselines))]
  /\ UNCHANGED closes

-----------------------------------------------------------------------------
(* optimize_walk_forward                                                    *)

\* build_windows: where each window begins, from 0.
Starts(total, size) ==
  {k * size[3] : k \in {k \in 0..total : k * size[3] + size[1] + size[2] <= total}}

EarnedBy(side, window) == side * (window[Len(window)] - window[1])

Drawdown(side, window) == Max({0} \cup {side * (window[1] - window[k]) : k \in DOMAIN window})

\* grid_search: the first of those that earn most within the limit; 0 in a sequence of
\* their places if there is none.
Best(window) ==
  LET tried == {k \in DOMAIN ParameterGrid :
                  Drawdown(ParameterGrid[k], window) <= DrawdownLimit} IN
  IF tried = {} THEN 0
  ELSE CHOOSE k \in tried : \A other \in tried \ {k} :
         LET a == EarnedBy(ParameterGrid[k], window)
             b == EarnedBy(ParameterGrid[other], window) IN
         a > b \/ (a = b /\ k < other)

\* run_walk_forward: of each window the parameter its training chooses and what that
\* earns on its test candles; the rows are in the order of their starts.
WalkForwardRow(history, size, start) ==
  LET cut == start + size[1]
      best == Best(SubSeq(history, start + 1, cut)) IN
  [start |-> start, cut |-> cut, end |-> cut + size[2], best |-> best,
   earned |-> IF best = 0 THEN 0
              ELSE EarnedBy(ParameterGrid[best], SubSeq(history, cut + 1, cut + size[2]))]

WalkForwardRows(history, size) ==
  {WalkForwardRow(history, size, start) : start \in Starts(Len(history), size)}

\* optimize_walk_forward leaves out the windows no parameter is within the limit of.
WindowRows(history, size) == {row \in WalkForwardRows(history, size) : row.best > 0}

RunWalkForward(size) ==
  /\ study = NoStudy
  /\ study' = [kind |-> "windows", size |-> size, rows |-> WalkForwardRows(closes, size)]
  /\ UNCHANGED closes

OptimizeWalkForward(size) ==
  /\ study = NoStudy
  /\ study' = [kind |-> "windows", size |-> size, rows |-> WindowRows(closes, size)]
  /\ UNCHANGED closes

-----------------------------------------------------------------------------
CandleArrives(price) ==
  /\ Len(closes) < MaxHistory
  /\ closes' = Append(closes, price) /\ study' = NoStudy

ResearchInit == closes = <<>> /\ study = NoStudy

ResearchNext ==
  \/ \E price \in ClosingPrices : CandleArrives(price)
  \/ \E folds \in FoldCounts, minimum \in Minimums : TrainAndGate(folds, minimum)
  \/ \E size \in WindowSizes : RunWalkForward(size) \/ OptimizeWalkForward(size)

ResearchSpec == ResearchInit /\ [][ResearchNext]_researchVars

-----------------------------------------------------------------------------
ResearchTypeOK ==
  /\ closes \in BoundedSeq(ClosingPrices, MaxHistory)
  /\ study.kind \in {"none", "training", "windows"}

\* The history as it would be had the price stood still after a candle.
StillAfter(bar) == [k \in DOMAIN closes |-> closes[Min({k, bar})]]

\* Nothing that is learnt or chosen knows what comes later: candles after a bar change no
\* example whose label was known by then, nor the parameter of a window whose training
\* ended by then; a fold validates none of the examples it trains on, all folds together
\* validate each of the others once, and from the horizon on a fold predicts a bar with
\* what was known at that bar; an approved model has seen every label (build_training_
\* dataset "label only looks forward", train_and_gate, walk_forward "without future-data
\* leakage", optimize_walk_forward).
ResearchSeesOnlyThePast ==
  /\ \A bar \in DOMAIN closes :
       IsPrefix(Dataset(SubSeq(closes, 1, bar)), Dataset(StillAfter(bar)))
  /\ \A bar \in DOMAIN closes :
       IsPrefix(Dataset(SubSeq(closes, 1, bar)), Dataset(closes))
  /\ study.kind = "training" =>
       LET folds == study.bounds
           examples == Dataset(closes)
           validated(f) == (folds[f].train + 1)..folds[f].end IN
       /\ UNION {validated(f) : f \in DOMAIN folds} = (folds[1].train + 1)..Len(examples)
       /\ \A f, g \in DOMAIN folds : f # g => validated(f) \cap validated(g) = {}
       /\ \A f \in DOMAIN folds : \A k \in validated(f) :
            k >= folds[f].train + Horizon =>
              folds[f].train <= Len(Dataset(SubSeq(closes, 1, examples[k].bar)))
       /\ study.reasons = {} => DOMAIN study.model = Labels
  /\ study.kind = "windows" =>
       LET rows == study.rows IN
       /\ \A x, y \in rows :
            x.start < y.start /\ study.size[3] >= study.size[2] => x.end <= y.cut
       /\ \A bar \in DOMAIN closes : \A x \in rows : x.cut <= bar =>
            \E y \in WalkForwardRows(StillAfter(bar), study.size) :
              y.start = x.start /\ y.best = x.best
=============================================================================
