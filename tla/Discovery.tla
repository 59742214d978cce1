------------------------------ MODULE Discovery ------------------------------
(***************************************************************************)
(* The mining runs of btc5m/discovery: each one builds a panel from the    *)
(* windows labelled so far, seals a holdout vault over it (holdout.py),    *)
(* searches the rest, deflates the best rule by the trials that the        *)
(* registry knows of (registry.py), asks the gauntlet for its verdict,     *)
(* validates a survivor on the vault, and logs the run (engine.run_mine,   *)
(* mine_prebuilt_panel, combo.run_combo_mine, maker_mine.run_mine_maker).  *)
(* Windows are numbered by their close.  Labels keep arriving, and several *)
(* runs may be under way.                                                  *)
(***************************************************************************)
EXTENDS Integers, FiniteSets, SequencesExt

CONSTANTS
    Miners,         \* processes that mine, each one run at a time
    Spaces,         \* search spaces: run_mine's, run_mine_maker's, ...
    NoTape,         \* windows the maker space leaves out: no trades recorded
    FirstWindows,   \* the windows labelled at the start
    MaxWindow,      \* bound: windows ever labelled
    Embargo, MinWindows,    \* HoldoutVault.build's
    Offsets,        \* what the seeded generator may draw
    MaxTrials,      \* bound: trials of one run
    MaxRuns         \* bound: runs logged

VARIABLES
    labelled,       \* the windows whose outcome is known
    draw,           \* the seeded generator: the first draw, by panel size
    run,            \* of each miner, the run it is in
    registry,       \* trial_registry.jsonl
    validated       \* panels and held-out windows survivors were tested on

vars == <<labelled, draw, run, registry, validated>>

Idle == [pc |-> "idle"]
-----------------------------------------------------------------------------
(* The vault.                                                              *)

\* Python's round of a quotient of naturals: halves go to the even number.
Round(a, b) ==
    LET q == a \div b
        r == 2 * (a % b)
    IN IF r < b \/ (r = b /\ q % 2 = 0) THEN q ELSE q + 1
AtLeast(a, b) == IF a > b THEN a ELSE b
AtMost(a, b) == IF a < b THEN a ELSE b

Held(n) == AtLeast(4, Round(n, 4))
Forward(n) == AtLeast(1, Round(6 * Held(n), 10))
Blocks(n) == AtLeast(1, AtMost(3, (Held(n) - Forward(n)) \div 5))
BlockLength(n) == AtLeast(1, (Held(n) - Forward(n)) \div Blocks(n))

\* A plausible mistake: the generator is seeded by the run, not by a constant.
BlockStart_byRun(n, b, offset) ==
    (offset + 5 * Len(registry)) % ((n - Forward(n)) - BlockLength(n) + 1)
\* Where block b of the random part starts: within its share of the panel.
BlockStart(n, b, offset) ==
    LET mid == n - Forward(n)
        low == (b * mid) \div Blocks(n)
        high == AtLeast(low + 1, ((b + 1) * mid) \div Blocks(n) - BlockLength(n))
        last == AtLeast(low, AtMost(high, mid - BlockLength(n)))
    IN low + (offset % (last - low + 1))

\* The positions, from 0, of a panel of n windows that are held out.
HoldIdx(n, offset) ==
    (n - Forward(n)) .. (n - 1) \cup
    (IF Held(n) = Forward(n) THEN {}
     ELSE UNION {LET start == BlockStart(n, b, offset)
                 IN start .. (AtMost(start + BlockLength(n), n - Forward(n)) - 1) :
                    b \in 0 .. (Blocks(n) - 1)})

\* A plausible mistake: only the windows after a held-out one are dropped.
Bad_after(n, held) == (UNION {h .. (h + Embargo) : h \in held}) \ held
\* Those within the embargo of a held-out one: neither searched nor held out.
Bad(n, held) ==
    (UNION {(h - Embargo) .. (h + Embargo) : h \in held}) \ held

Build(panel, offset) ==
    LET n == Cardinality(panel)
        held == HoldIdx(n, offset)
        keys(idx) == {w \in panel : Cardinality({v \in panel : v < w}) \in idx}
    IN [search |-> keys((0 .. (n - 1)) \ (held \cup Bad(n, held))),
        holdout |-> keys(held)]
-----------------------------------------------------------------------------
(* A run.                                                                  *)

\* A plausible mistake: only the latest run counts.
CumulativeTrials_latest(space, panel) ==
    IF registry # <<>> /\ Last(registry).space = space /\ Last(registry).panel = panel
    THEN Last(registry).trials ELSE 0
\* The trials that a log holds for a space and a fingerprint.
TrialsIn(log, space, panel) ==
    FoldFunction(+, 0, [i \in DOMAIN log |->
        IF log[i].space = space /\ log[i].panel = panel THEN log[i].trials ELSE 0])
CumulativeTrials(space, panel) == TrialsIn(registry, space, panel)

PanelOf(space) == IF space = "maker" THEN labelled \ NoTape ELSE labelled

Init ==
    /\ labelled = FirstWindows
    /\ draw \in [MinWindows .. MaxWindow -> Offsets]
    /\ run = [m \in Miners |-> Idle]
    /\ registry = <<>>
    /\ validated = {}

\* A market settles, or a label is found at last.
Label(w) ==
    /\ w \notin labelled
    /\ labelled' = labelled \cup {w}
    /\ UNCHANGED <<draw, run, registry, validated>>

\* The panel and its vault.  Too few windows: ValueError, and no run.
Start(m, space) ==
    LET panel == PanelOf(space)
    IN /\ run[m].pc = "idle"
       /\ Cardinality(panel) >= MinWindows
       /\ Len(registry) < MaxRuns
       /\ run' = [run EXCEPT ![m] =
              [pc |-> "sealed", space |-> space, panel |-> panel,
               vault |-> Build(panel, draw[Cardinality(panel)]), known |-> registry,
               trials |-> 0, cum |-> 0, strength |-> 0, passed |-> FALSE]]
       /\ UNCHANGED <<labelled, draw, registry, validated>>

\* Screening and search, on the search windows, then the trial budget.
Search(m, trials) ==
    /\ run[m].pc = "sealed"
    /\ run' = [run EXCEPT ![m] =
           [@ EXCEPT !.pc = "searched", !.trials = trials,
                     !.cum = CumulativeTrials(run[m].space, run[m].panel) + trials]]
    /\ UNCHANGED <<labelled, draw, registry, validated>>

\* The deflated Sharpe ratio: the best has to beat the luck of `cum` trials.
Significant(strength, cum) == strength > cum

\* The verdict on the best rule, and the validation of a survivor.
Judge(m, strength, robust) ==
    LET passed == /\ run[m].trials > 0
                  /\ Significant(strength, run[m].cum)
                  /\ robust
    IN /\ run[m].pc = "searched"
       /\ run' = [run EXCEPT ![m] =
              [@ EXCEPT !.pc = "judged", !.strength = strength, !.passed = passed]]
       /\ validated' = IF passed
                       THEN validated \cup {<<run[m].panel, run[m].vault.holdout>>}
                       ELSE validated
       /\ UNCHANGED <<labelled, draw, registry>>

LogRun(m) ==
    /\ run[m].pc = "judged"
    /\ registry' = Append(registry, [space |-> run[m].space, panel |-> run[m].panel,
                                     trials |-> run[m].trials])
    /\ run' = [run EXCEPT ![m] = Idle]
    /\ UNCHANGED <<labelled, draw, validated>>

\* The process ends before it has logged its run.
Crash(m) ==
    /\ run[m].pc # "idle"
    /\ run' = [run EXCEPT ![m] = Idle]
    /\ UNCHANGED <<labelled, draw, registry, validated>>

Next ==
    \/ \E w \in 1 .. MaxWindow : Label(w)
    \/ \E m \in Miners :
          \/ \E space \in Spaces : Start(m, space)
          \/ \E trials \in 0 .. MaxTrials : Search(m, trials)
          \/ \E strength \in 1 .. (2 * MaxTrials), robust \in BOOLEAN :
                Judge(m, strength, robust)
          \/ LogRun(m)
          \/ Crash(m)

Spec == Init /\ [][Next]_vars
-----------------------------------------------------------------------------
(* Properties.                                                             *)

\* No window that is searched lies within the embargo of one held out, the
\* newest windows are held out, and there is something to search
\* (HoldoutVault.build).
SeamEmbargoed ==
    \A m \in Miners : run[m].pc # "idle" =>
        LET vault == run[m].vault
            Between(a, b) == {w \in run[m].panel : (a < w /\ w < b) \/ (b < w /\ w < a)}
        IN /\ \A s \in vault.search, h \in vault.holdout :
                 s # h /\ Cardinality(Between(s, h)) >= Embargo
           /\ \A s \in vault.search : \E h \in vault.holdout : s < h
           /\ vault.search # {}

\* Mining the same panel again, in any space, seals the same windows: what a
\* survivor was validated on is never searched on that panel (the fixed seed).
SameDataSameSeal ==
    \A v \in validated : \A m \in Miners :
        run[m].pc # "idle" /\ run[m].panel = v[1] => run[m].vault.search \cap v[2] = {}

\* A survivor beat the trials of every run of its space and panel that was
\* finished when it started, and its own (TrialRegistry.cumulative_trials).
BudgetCoversSameData ==
    \A m \in Miners : run[m].pc = "judged" /\ run[m].passed =>
        run[m].strength >
            run[m].trials + TrialsIn(run[m].known, run[m].space, run[m].panel)

\* What proofs assume of the constants: a panel holds more than is held out or
\* embargoed, around the newest windows and three blocks at most (20 windows and
\* an embargo of 2, in the code).
MiningAssumption ==
    /\ {MaxWindow, Embargo, MaxTrials} \subseteq Nat
    /\ Offsets \subseteq Nat
    /\ FirstWindows \subseteq 1 .. MaxWindow
    /\ MinWindows \in Nat
    /\ \A n \in MinWindows .. MaxWindow : Held(n) + 7 * Embargo < n

\* With the types, what makes the properties above inductive: a vault is the one
\* its panel gives, whenever it was built, and the registry only grows.
RunOK(r, draws, log) ==
    /\ r.panel \in SUBSET (1 .. MaxWindow) /\ Cardinality(r.panel) >= MinWindows
    /\ r.vault = Build(r.panel, draws[Cardinality(r.panel)])
    /\ r.trials \in Nat /\ r.cum \in Nat /\ r.strength \in Nat
    /\ TrialsIn(r.known, r.space, r.panel) \in Nat
    /\ TrialsIn(r.known, r.space, r.panel) <= TrialsIn(log, r.space, r.panel)
    /\ r.pc # "sealed" => TrialsIn(r.known, r.space, r.panel) + r.trials <= r.cum
    /\ r.pc = "judged" /\ r.passed => r.strength > r.cum
MiningInv ==
    /\ labelled \in SUBSET (1 .. MaxWindow)
    /\ draw \in [MinWindows .. MaxWindow -> Offsets]
    /\ registry \in Seq([space : Spaces, panel : SUBSET (1 .. MaxWindow), trials : Nat])
    /\ run \in [Miners -> {Idle} \cup
          [pc : {"sealed", "searched", "judged"}, space : Spaces,
           panel : SUBSET (1 .. MaxWindow),
           vault : [search : SUBSET Int, holdout : SUBSET Int],
           known : Seq([space : Spaces, panel : SUBSET (1 .. MaxWindow), trials : Nat]),
           trials : Nat, cum : Nat, strength : Nat, passed : BOOLEAN]]
    /\ \A m \in Miners : run[m] # Idle => RunOK(run[m], draw, registry)
    /\ \A v \in validated : v[2] = Build(v[1], draw[Cardinality(v[1])]).holdout

\* "Sealed; no search ever sees it until final validation": what a survivor
\* was validated on is never searched (docs/ALPHA_DISCOVERY.md:24).
SealStaysClosed ==
    \A v \in validated : \A m \in Miners :
        run[m].pc # "idle" => run[m].vault.search \cap v[2] = {}
=============================================================================
