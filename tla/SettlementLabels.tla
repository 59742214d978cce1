------------------------- MODULE SettlementLabels -------------------------
(***************************************************************************)
(* Labels: the official results of the markets.  Two programs append label *)
(* rows to the same files: the collector, at the end of a cycle, for the   *)
(* markets this process has seen (collector.py), and the command           *)
(* kalshi-backfill-settlements, for those that were ever recorded (cli.py).*)
(* Each reads the markets one by one from the venue and writes its rows    *)
(* when it has them all.  Nothing is ever taken out of the files: what     *)
(* counts is decided by the readers, the readiness gate (readiness.py), the*)
(* audit of the labels (labels_audit.py) and the training data             *)
(* (model_dataset.py).                                                     *)
(***************************************************************************)
EXTENDS Integers, Sequences, FiniteSetsExt

CONSTANTS
    Markets,
    MaxRows,        \* how many label rows are ever written
    MaxClock

Writers == {"collector", "cli"}
\* What readiness.feature_row_usable asks of a feature row.
Qualities == {"orderbook", "underlying", "beforeClose", "bookOk"}
Statuses == {"active", "closed", "decided", "finalized"}

VARIABLES
    venue,      \* market -> status; "decided": closed and the result is known
    seen,       \* the markets this process of the collector has discovered
    recorded,   \* those in the raw files
    features,   \* market -> the qualities of its feature rows
    job,        \* writer -> the backfill under way
    labels,     \* the label rows: [market, status, at]
    clock

vars == <<venue, seen, recorded, features, job, labels, clock>>

Idle == [todo |-> {}, answer |-> "none", rows |-> <<>>, owed |-> {},
         clean |-> FALSE, active |-> FALSE]
-----------------------------------------------------------------------------
(* The rows.                                                               *)

OfficialResult(status) == status \in {"decided", "finalized"}
\* build_label_row, without a reference price for the close: no caller has one.
LabelStatus(status) == IF OfficialResult(status) THEN "OFFICIAL" ELSE "UNKNOWN"
FeatureRowUsable(qualities) == qualities = Qualities

RowsOf(m) == {i \in DOMAIN labels : labels[i].market = m}
Labelled == {labels[i].market : i \in DOMAIN labels}
UsableMarkets ==
    {m \in Markets : \E qualities \in features[m] : FeatureRowUsable(qualities)}
HasFeatures == {m \in Markets : features[m] # {}}

\* assess_kalshi_readiness: a market's last row counts.
OfficialByTicker == {m \in Labelled : labels[Max(RowsOf(m))].status = "OFFICIAL"}
ReadinessGate == OfficialByTicker \cap UsableMarkets

Priority(status) == IF status = "OFFICIAL" THEN 4 ELSE 1
\* Mutant: the latest row wins, and an official one on equal recency.
Better_latest(old, new) ==
    IF old.at # new.at THEN IF old.at > new.at THEN old ELSE new
    ELSE IF Priority(old.status) >= Priority(new.status) THEN old ELSE new
\* labels_audit._better, applied to the rows in the order they were written:
\* what is left is the row that none of those after it replaces.
Better(old, new) ==
    IF Priority(old.status) # Priority(new.status)
    THEN IF Priority(old.status) > Priority(new.status) THEN old ELSE new
    ELSE IF old.at >= new.at THEN old ELSE new
Stays(m) == {i \in RowsOf(m) : \A j \in RowsOf(m) :
                j > i => Better(labels[i], labels[j]) = labels[i]}
Preferred(m) == labels[Min(Stays(m))]
DedupedOfficial == {m \in Labelled : Preferred(m).status = "OFFICIAL"}
AuditGate == DedupedOfficial \cap UsableMarkets
OrphanLabels == Labelled \ HasFeatures

\* build_model_dataset: the windows with a row that is kept, the filters by
\* feature version and source health being off as they are by default.
DatasetWindows ==
    {m \in DedupedOfficial : \E qualities \in features[m] :
        /\ {"orderbook", "underlying"} \subseteq qualities
        /\ FeatureRowUsable(qualities)}
-----------------------------------------------------------------------------
(* The collector's other steps, and the venue's.                           *)

Discover(m) ==
    /\ m \notin seen
    /\ seen' = seen \cup {m}
    /\ UNCHANGED <<venue, recorded, features, job, labels, clock>>

\* A target is recorded while it is running and for a while after.
RecordMarket(m, qualities) ==
    /\ m \in seen /\ features[m] = {}
    /\ "beforeClose" \in qualities <=> venue[m] = "active"
    /\ recorded' = recorded \cup {m}
    /\ features' = [features EXCEPT ![m] = @ \cup {qualities}]
    /\ UNCHANGED <<venue, seen, job, labels, clock>>

Restart ==
    /\ seen' = {}
    /\ job' = [job EXCEPT !["collector"] = Idle]
    /\ UNCHANGED <<venue, recorded, features, labels, clock>>

Settle(m) ==
    /\ venue[m] # "finalized"
    /\ venue' = [venue EXCEPT ![m] =
           CASE @ = "active" -> "closed"
             [] @ = "closed" -> "decided"
             [] @ = "decided" -> "finalized"]
    /\ UNCHANGED <<seen, recorded, features, job, labels, clock>>
-----------------------------------------------------------------------------
(* The backfills.                                                          *)

\* Mutant: the command labels what the venue lists as settled.
Tickers_listed(w, listed) ==
    IF w = "collector" THEN seen
    ELSE IF listed THEN {m \in Markets : venue[m] = "finalized"} ELSE {}
\* The command also asks the venue for the settled markets; if that fails it
\* goes on without them.
Tickers(w, listed) ==
    IF w = "collector" THEN seen
    ELSE recorded \cup
         (IF listed THEN {m \in Markets : venue[m] = "finalized"} ELSE {})

BeginBackfill(w, listed) ==
    /\ ~job[w].active
    /\ w = "collector" => ~listed
    /\ job' = [job EXCEPT ![w] =
           [todo |-> Tickers(w, listed), answer |-> "none", rows |-> <<>>,
            owed |-> {m \in recorded : OfficialResult(venue[m])},
            clean |-> w = "cli", active |-> TRUE]]
    /\ UNCHANGED <<venue, seen, recorded, features, labels, clock>>

\* get_market, for one ticker after the other; a market that cannot be read is
\* left out.
GetMarket(w, answered) ==
    /\ job[w].active /\ job[w].todo # {} /\ job[w].answer = "none"
    /\ job' = IF answered
              THEN [job EXCEPT ![w].answer = venue[Min(job[w].todo)]]
              ELSE [job EXCEPT ![w].todo = @ \ {Min(job[w].todo)},
                               ![w].clean = FALSE]
    /\ UNCHANGED <<venue, seen, recorded, features, labels, clock>>

\* The row has the time it is built at; a market that is still open has none.
BuildRow(w) ==
    /\ job[w].answer # "none"
    /\ LET m == Min(job[w].todo)
           row == [market |-> m, status |-> LabelStatus(job[w].answer),
                   at |-> clock]
       IN  job' = [job EXCEPT
               ![w].todo = @ \ {m},
               ![w].answer = "none",
               ![w].rows = IF job[w].answer = "active" THEN @
                           ELSE Append(@, row)]
    /\ UNCHANGED <<venue, seen, recorded, features, labels, clock>>

WriteLabels(w) ==
    /\ job[w].active /\ job[w].todo = {}
    /\ Len(labels) + Len(job[w].rows) <= MaxRows
    /\ labels' = labels \o job[w].rows
    /\ job' = [job EXCEPT ![w] = Idle]
    /\ UNCHANGED <<venue, seen, recorded, features, clock>>

Tick ==
    /\ clock < MaxClock
    /\ clock' = clock + 1
    /\ UNCHANGED <<venue, seen, recorded, features, job, labels>>
-----------------------------------------------------------------------------
Init ==
    /\ venue = [m \in Markets |-> "active"]
    /\ seen = {} /\ recorded = {}
    /\ features = [m \in Markets |-> {}]
    /\ job = [w \in Writers |-> Idle]
    /\ labels = <<>> /\ clock = 0

Next ==
    \/ \E m \in Markets : Discover(m) \/ Settle(m)
    \/ \E m \in Markets, missing \in SUBSET {"beforeClose"} :
          RecordMarket(m, Qualities \ missing)
    \/ Restart
    \/ \E w \in Writers : \/ \E listed \in BOOLEAN : BeginBackfill(w, listed)
                          \/ \E answered \in BOOLEAN : GetMarket(w, answered)
                          \/ BuildRow(w) \/ WriteLabels(w)
    \/ Tick

Spec == Init /\ [][Next]_vars
-----------------------------------------------------------------------------
\* A backfill of the command in which every market could be read leaves an
\* official label for each that was recorded and decided when it began,
\* whether or not the collector that recorded it is still running.
BackfillCaughtUp ==
    \A w \in Writers :
        job[w].clean /\ job[w].todo = {} /\ ~job'[w].active =>
            job[w].owed \subseteq DedupedOfficial'

\* A window that counts towards the audit's gate does so for good, however
\* the rows of the two writers come in; it is then in the training data.  It
\* takes that _better looks at the status first, as its test has it too: by the
\* rule of labels_audit.py's own docstring (GatesAgree) it does not hold.
GateHeld == AuditGate \subseteq AuditGate' /\ AuditGate' = DatasetWindows'

\* labels_audit.py: the audit's gate is "matching readiness.gate_windows
\* exactly", and its deduplication is "latest row wins; OFFICIAL beats ... on
\* equal recency".  Where a market's rows were written in the order they were
\* built in, its last row in the files is also the latest, so that by the second
\* sentence alone the two gates would be the same.
WrittenAsBuilt ==
    \A m \in Labelled : \A i, j \in RowsOf(m) : i < j => labels[i].at < labels[j].at
GatesAgree == WrittenAsBuilt => AuditGate = ReadinessGate
-----------------------------------------------------------------------------
(* What the proofs rest on.                                                *)

LabelsAssumption == Markets \subseteq Nat

LabelRows == [market : Markets, status : {"OFFICIAL", "UNKNOWN"}, at : Nat]
LabelJobs == [todo : SUBSET Markets, answer : {"none"} \cup Statuses,
              rows : Seq(LabelRows), owed : SUBSET Markets,
              clean : BOOLEAN, active : BOOLEAN]
LabelsTypeOK ==
    /\ venue \in [Markets -> Statuses]
    /\ seen \subseteq Markets /\ recorded \subseteq Markets
    /\ features \in [Markets -> SUBSET SUBSET Qualities]
    /\ job \in [Writers -> LabelJobs]
    /\ labels \in Seq(LabelRows) /\ clock \in Nat

\* A backfill has yet to read the market, has read its result, or has its row.
IsComing(m, backfill) ==
    \/ /\ m \in backfill.todo
       /\ m = Min(backfill.todo) =>
             backfill.answer = "none" \/ OfficialResult(backfill.answer)
    \/ \E k \in DOMAIN backfill.rows :
          backfill.rows[k].market = m /\ backfill.rows[k].status = "OFFICIAL"
\* What the command owes is decided, and comes; an answer is that of the next
\* market to do.
OwedIsComing ==
    \A w \in Writers :
        /\ job[w].clean => /\ w = "cli" /\ job[w].active
                           /\ \A m \in job[w].owed :
                                 OfficialResult(venue[m]) /\ IsComing(m, job[w])
        /\ job[w].answer # "none" => job[w].active /\ job[w].todo # {}

LabelsInv == LabelsTypeOK /\ OwedIsComing
=============================================================================
