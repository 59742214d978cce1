--------------------------- MODULE WindowTraining ---------------------------
(***************************************************************************)
(* How the labelled windows are divided between fitting, calibrating and   *)
(* judging a model (splits.py, discovery/cpcv.py, labels/labeling.py) by   *)
(* the commands that do so, while labels go on arriving, some of them      *)
(* late: train_baselines, calibration_report, calibrator_replacement,      *)
(* probability_repair, train_prep and the discovery's cross-validation.    *)
(*                                                                         *)
(* A window is named by its place in time: window w is open from w - 1 to  *)
(* w.  One series; its rows are told apart only by their window.           *)
(***************************************************************************)
EXTENDS Integers, SequencesExt, FiniteSetsExt

CONSTANTS
    LastWindow,     \* bound
    Late,           \* bound: windows that a label may be behind the newest
    Embargoes,      \* embargo_windows, as the commands may be told
    MinTrain,       \* MIN_TRAIN_WINDOWS
    MinCalibration, \* calibration_min_windows
    WalkSplits,     \* n_splits of the walk-forward
    Groups, TestGroups  \* n_groups and k_test

VARIABLES
    settled,    \* windows with rows and an OFFICIAL label
    promoted,   \* windows the model that is served was fitted on
    study       \* the last study: [kind, embargo, tradable, folds], a fold
                \* [fit, tune, judge] being three sets of windows

trainVars == <<settled, promoted, study>>

\* round(p / q): halves go to the even neighbour.
Round(p, q) ==
    LET d == p \div q
    IN  IF 2 * (p % q) > q \/ (2 * (p % q) = q /\ d % 2 = 1) THEN d + 1 ELSE d
Least(a, b) == IF a < b THEN a ELSE b
Most(a, b) == IF a > b THEN a ELSE b
-----------------------------------------------------------------------------
(* The splits, of n windows at the places 0 .. n - 1.                      *)

Fold(fit, tune, judge) == [fit |-> fit, tune |-> tune, judge |-> judge]

ValSize(n, e) == Least(Most(1, Round(3 * n, 10)), n - e - 1)
\* A plausible mistake: the embargoed windows are trained on.
SplitIndices_noEmbargo(n, e) ==
    IF n < e + 2 THEN Fold(0 .. n - 1, {}, {})
    ELSE Fold(0 .. n - ValSize(n, e) - 1, {}, n - ValSize(n, e) .. n - 1)
\* split_indices and chronological_split: too few windows all train.
SplitIndices(n, e) ==
    IF n < e + 2 THEN Fold(0 .. n - 1, {}, {})
    ELSE Fold(0 .. n - ValSize(n, e) - e - 1, {}, n - ValSize(n, e) .. n - 1)

\* walk_forward_splits and walk_forward_indices.
WalkForward(n, e) ==
    LET size == Most(1, (n - e) \div (WalkSplits + 1))
    IN  IF n < WalkSplits + e + 1 THEN {}
        ELSE {Fold(0 .. k * size - 1, {}, k * size + e .. (k + 1) * size + e - 1) :
                 k \in {k \in 1 .. WalkSplits : (k + 1) * size + e <= n}}

\* three_way_window_split, if it could be applied.
ThreeWay(n, e) ==
    LET train == Most(1, Round(n, 2))
        calib == Least(Most(1, Round(n, 4)), n - train - 2 * e - 1)
    IN  IF n < 3 + 2 * e \/ calib <= 0 THEN {}
        ELSE {Fold(0 .. train - 1, train + e .. train + e + calib - 1,
                   train + calib + 2 * e .. n - 1)}

\* A plausible mistake: only what follows the test windows is embargoed.
Embargoed_after(test, e) == UNION {t .. t + e : t \in test}
\* _embargoed, the test windows included.
Embargoed(test, e) == UNION {t - e .. t + e : t \in test}
\* combinatorial_purged_splits.
CombinatorialPurged(n, e) ==
    LET bound(i) == Round(i * n, Groups)
        test(combo) == UNION {bound(g) .. bound(g + 1) - 1 : g \in combo}
        fold(combo) == Fold(0 .. n - 1 \ Embargoed(test(combo), e), {}, test(combo))
    IN  IF n < Groups THEN {}
        ELSE {f \in {fold(combo) : combo \in kSubset(TestGroups, 0 .. Groups - 1)} :
                 f.fit # {}}
\* purged_walk_forward.
PurgedWalkForward(n, e) ==
    LET edge(k) == Round(k * n, WalkSplits + 1)
        test(k) == edge(k) .. edge(k + 1) - 1
    IN  IF n < WalkSplits + 1 THEN {}
        ELSE {f \in {Fold(0 .. edge(k) - 1 \ Embargoed(test(k), e), {}, test(k)) :
                        k \in 1 .. WalkSplits} :
                 f.fit # {} /\ f.judge # {}}
-----------------------------------------------------------------------------
(* The windows at those places, and the studies.                           *)

N == Cardinality(settled)
\* group_windows: in the order of their closes.
Place(w) == Cardinality({v \in settled : v < w})
At(places) == {w \in settled : Place(w) \in places}
OfWindows(fold) == Fold(At(fold.fit), At(fold.tune), At(fold.judge))
Study(kind, e, tradable, folds) ==
    study' = [kind |-> kind, embargo |-> e, tradable |-> tradable,
              folds |-> {OfWindows(f) : f \in folds}]

\* run_train_baselines and run_train_model.  What is judged on its own windows
\* says so.  A tradable model may be the next one to be served.
Train(e, diagnostic) ==
    /\ N > 0 /\ (N >= MinTrain \/ diagnostic)
    /\ LET fold == SplitIndices(N, e)
           tradable == N >= MinTrain /\ ~diagnostic
       IN  /\ Study(IF fold.judge = {} THEN "in_sample" ELSE "train", e, tradable, {fold})
           /\ promoted' \in {promoted} \cup (IF tradable THEN {At(fold.fit)} ELSE {})
    /\ UNCHANGED settled

\* run_calibrate_model fits a model of its own for the calibrator.
Calibrate(e, diagnostic) ==
    /\ ThreeWay(N, e) # {} /\ (N >= MinCalibration \/ diagnostic)
    /\ Study("calibrate", e, N >= MinCalibration /\ ~diagnostic, ThreeWay(N, e))
    /\ UNCHANGED <<settled, promoted>>

\* build_promoted_context: calibrators for the model that is served.
ReviewCalibrators(e) ==
    /\ promoted # {} /\ ThreeWay(N, e) # {}
    /\ LET fold == OfWindows(CHOOSE f \in ThreeWay(N, e) : TRUE)
       IN  study' = [kind |-> "review", embargo |-> e, tradable |-> FALSE,
                     folds |-> {[fold EXCEPT !.fit = promoted]}]
    /\ UNCHANGED <<settled, promoted>>

\* alpha_stability, the residual models' folds and the discovery's screens.
CrossValidate(kind, e, folds) ==
    /\ folds # {}
    /\ Study(kind, e, FALSE, folds)
    /\ UNCHANGED <<settled, promoted>>

\* train_dry_run: purge_embargo_indices around the newest window, for rows at
\* the start and in the middle of each; times in half windows.
Overlaps(a, b, from, to) == a <= to /\ from <= b
Purged(row, close, from, to, e) ==
    Overlaps(row, close, from, to) \/ (to < row /\ row <= to + 2 * e)
DryRun(e) ==
    /\ N > 0
    /\ LET newest == Max(settled)
           safe == {w \in settled : \E row \in {2 * w - 2, 2 * w - 1} :
                       ~Purged(row, 2 * w, 2 * newest - 2, 2 * newest, e)}
       IN  study' = [kind |-> "dry_run", embargo |-> e, tradable |-> FALSE,
                     folds |-> {Fold(safe, {}, {newest})}]
    /\ UNCHANGED <<settled, promoted>>

NoStudy == [kind |-> "none", embargo |-> 0, tradable |-> FALSE, folds |-> {}]
\* A window gets its label: in time, late, or never.
Settle(w) ==
    /\ w \notin settled /\ w + Late >= Max(settled \cup {0})
    /\ settled' = settled \cup {w}
    /\ study' = NoStudy
    /\ UNCHANGED promoted
-----------------------------------------------------------------------------
TrainInit == settled = {} /\ promoted = {} /\ study = NoStudy

TrainNext ==
    \/ \E w \in 1 .. LastWindow : Settle(w)
    \/ \E e \in Embargoes :
          \/ \E diagnostic \in BOOLEAN : Train(e, diagnostic) \/ Calibrate(e, diagnostic)
          \/ ReviewCalibrators(e)
          \/ CrossValidate("walk", e, WalkForward(N, e))
          \/ CrossValidate("combinations", e, CombinatorialPurged(N, e))
          \/ CrossValidate("walk", e, PurgedWalkForward(N, e))
          \/ DryRun(e)

TrainSpec == TrainInit /\ [][TrainNext]_trainVars
-----------------------------------------------------------------------------
Ahead(earlier, later, gap) == \A a \in earlier, b \in later : b - a > gap
Apart(s, t, gap) == \A a \in s, b \in t : b - a > gap \/ a - b > gap

\* Nothing is judged on a window it was fitted on, or whose label was not known
\* when the windows it was fitted on closed, nor so near that they share their
\* features' look-back: the windows in between are the embargo's at least.
HeldOutStaysOut ==
    \A f \in study.folds :
        /\ study.kind \in {"train", "calibrate", "walk"} =>
              /\ f.fit # {} /\ f.judge # {}
              /\ Ahead(f.fit, f.tune \cup f.judge, study.embargo)
              /\ Ahead(f.tune, f.judge, study.embargo)
        /\ study.kind = "combinations" => Apart(f.fit, f.judge, study.embargo)
        /\ study.kind = "dry_run" => Ahead(f.fit, f.judge, 1)
        /\ study.kind = "in_sample" => ~study.tradable

\* The windows that calibrators for the served model are compared on were not
\* there to fit it, although it was fitted on other data, and divided otherwise.
ReviewedOnUnseen ==
    \A f \in study.folds : study.kind = "review" => f.fit \cap f.judge = {}

\* Every window is judged as often as any other, in C(n_groups - 1, k_test - 1)
\* of the folds, whatever the groups' sizes and wherever the embargoes fall, if
\* each group is longer than the embargoes on its two sides.
JudgedIn(w) == Cardinality({f \in study.folds : w \in f.judge})
JudgedEqually ==
    study.kind = "combinations" /\ N >= Groups * (2 * study.embargo + 1)
    => \A w \in settled : JudgedIn(w) * Groups = Cardinality(study.folds) * TestGroups

DividedFairly == HeldOutStaysOut /\ ReviewedOnUnseen /\ JudgedEqually

\* What proofs assume of the constants: a model that may be served is judged on
\* windows of its own, at least as many as a label may be late.
TrainingAssumption ==
    /\ {LastWindow, Late, MinTrain} \subseteq Nat /\ Embargoes \subseteq Nat
    /\ {WalkSplits, Groups} \subseteq Nat \ {0} /\ TestGroups \in 1 .. (Groups - 1)
    /\ \A e \in Embargoes : e + 2 <= MinTrain
    /\ Late <= Round(3 * MinTrain, 10) /\ Late < MinTrain

\* With the types, what makes DividedFairly inductive: after the windows that the
\* served model was fitted on came more than a label may be late, and more than a
\* review may judge, which only the newest quarter or so are for.
Newer(p) == Cardinality({v \in settled : p < v})
JudgedShare(n) == Most(1, n - Round(n, 2) - Round(n, 4))
TrainInv ==
    /\ settled \in SUBSET (1 .. LastWindow)
    /\ promoted \in SUBSET settled
    /\ \A p \in promoted : Newer(p) >= Late /\ Newer(p) >= JudgedShare(N)
    /\ DividedFairly
=============================================================================
