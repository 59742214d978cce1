------------------------------ MODULE HotPath ------------------------------
(***************************************************************************)
(* The low-latency loop (low_latency_runtime.py) and the state it keeps in *)
(* memory (hotpath_state.py).  An iteration polls the underlying's feeds,  *)
(* one after the other, and then asks for the book of each target and      *)
(* decides on the answer at once.  Every call may take any time or fail.   *)
(*                                                                         *)
(* Market m is open for Length units of time from (m - 1) * Length on.     *)
(* Prices and chances are in cents.                                        *)
(***************************************************************************)
EXTENDS Integers, SequencesExt, FiniteSetsExt

CONSTANTS
    Targets,            \* the markets chosen at the start, a sequence
    Length, Tolerance,  \* Tolerance: of the start reference
    Quotes,             \* [ok, ask, cost, depth]: the books there may be;
                        \* cost: ask, fee and buffer
    Chances,            \* the model's answers
    MaxBookAge, MaxUnderlyingAge, MinSecs, MinEdge, MinDepth,
    Deadline, MaxClock

VARIABLES
    clock,
    pc,         \* [step, n]: "poll" source n, "ask" for or "await" target n,
                \* "sleep" or "done"
    asked,      \* when the book was asked for
    flight,     \* the quotes the venue has shown since :> when it last did
    feeds,      \* [spot, perp]: receipt of the newest event
    near,       \* markets with a sample of the underlying near their start
    explicit,   \* markets whose metadata gave the target price
    row         \* the last decision

hotVars == <<clock, pc, asked, flight, feeds, near, explicit, row>>
memory == <<feeds, near>>
request == <<asked, flight>>

Feeds == <<"spot", "perp">>
None == -1
OpenOf(m) == (m - 1) * Length
CloseOf(m) == m * Length
-----------------------------------------------------------------------------
(* The underlying.                                                         *)

\* HotPathState.ingest_underlying, with what poll() of one client brings.
Ingest(feed) ==
    /\ feeds' = [feeds EXCEPT ![feed] = clock]
    /\ near' = near \cup {m \in ToSet(Targets) :
                             clock \in OpenOf(m) - Tolerance .. OpenOf(m) + Tolerance}
\* A client that fails, in its second request too, brings nothing.
Poll(answered) ==
    /\ pc.step = "poll"
    /\ IF answered THEN Ingest(Feeds[pc.n]) ELSE UNCHANGED memory
    /\ pc' = IF pc.n < Len(Feeds) THEN [pc EXCEPT !.n = @ + 1]
             ELSE [step |-> "ask", n |-> 1]
    /\ UNCHANGED <<clock, request, explicit, row>>

LastUnderlying == Max({feeds[f] : f \in DOMAIN feeds})
UnderlyingAge == IF LastUnderlying = None THEN None ELSE clock - LastUnderlying

\* A plausible mistake: the reference of a market still to come.
HasReference_early(m) == m \in explicit \/ m \in near
\* StartReferenceResolver.resolve finds one.
HasReference(m) == m \in explicit \/ (clock >= OpenOf(m) /\ m \in near)
\* KalshiScorer.score: neutral without a price or a reference.
Scores(m) == IF feeds["spot"] = None \/ ~HasReference(m) THEN {50} ELSE Chances
-----------------------------------------------------------------------------
(* Deciding.                                                               *)

Sides == {"YES", "NO"}
Edge(quote, side, chance) ==
    (IF side = "YES" THEN chance ELSE 100 - chance) - quote.cost[side]
Best(quote, chance) ==
    IF Edge(quote, "YES", chance) >= Edge(quote, "NO", chance) THEN "YES" ELSE "NO"

\* A plausible mistake: the age of the book is not looked at.
Rejected_anyAge(m, quote, age) ==
    \/ ~quote.ok
    \/ CloseOf(m) - clock <= 0 \/ CloseOf(m) - clock < MinSecs
    \/ UnderlyingAge = None \/ UnderlyingAge > MaxUnderlyingAge
    \/ ~HasReference(m)
    \/ quote.depth["YES"] + quote.depth["NO"] < MinDepth
\* evaluate_ev's hard rejects.
Rejected(m, quote, age) ==
    \/ ~quote.ok
    \/ CloseOf(m) - clock <= 0 \/ CloseOf(m) - clock < MinSecs
    \/ age > MaxBookAge
    \/ UnderlyingAge = None \/ UnderlyingAge > MaxUnderlyingAge
    \/ ~HasReference(m)
    \/ quote.depth["YES"] + quote.depth["NO"] < MinDepth
\* evaluate_ev.  No calibrator is ever loaded, so review is the most.
EvaluateEv(m, quote, age, chance) ==
    LET side == Best(quote, chance)
        edge == Edge(quote, side, chance)
    IN  IF Rejected(m, quote, age) THEN "REJECTED"
        ELSE IF edge >= MinEdge THEN "MANUAL_REVIEW"
        ELSE IF edge <= 0 THEN "NO_ACTION" ELSE "WATCH"

AfterTarget == IF pc.n < Len(Targets) THEN [step |-> "ask", n |-> pc.n + 1]
                                      ELSE [step |-> "sleep", n |-> 0]

\* The book is stamped with the time of the request.
Ask(quote) ==
    /\ pc.step = "ask"
    /\ asked' = clock /\ flight' = [q \in {quote} |-> clock]
    /\ pc' = [pc EXCEPT !.step = "await"]
    /\ UNCHANGED <<clock, memory, explicit, row>>

\* A plausible mistake: the book is stamped when it comes.
BookAge_onReceipt == 0
BookAge == clock - asked

\* update_book, feature_snapshot, score and evaluate_ev, with the book as it
\* was at some instant since it was asked for.
Decide(quote, chance) ==
    LET m == Targets[pc.n]
    IN  /\ pc.step = "await"
        /\ row' = [market |-> m, at |-> clock, wasTrue |-> flight[quote],
                   state |-> EvaluateEv(m, quote, BookAge, chance)]
        /\ pc' = AfterTarget
        /\ asked' = None /\ flight' = <<>>
        /\ UNCHANGED <<clock, memory, explicit>>

NoBook ==
    /\ pc.step = "await"
    /\ pc' = AfterTarget
    /\ asked' = None /\ flight' = <<>>
    /\ UNCHANGED <<clock, memory, explicit, row>>

Wake ==
    /\ pc.step = "sleep"
    /\ pc' = IF clock < Deadline THEN [step |-> "poll", n |-> 1]
                                 ELSE [step |-> "done", n |-> 0]
    /\ UNCHANGED <<clock, request, memory, explicit, row>>
-----------------------------------------------------------------------------
(* The request, and time.                                                    *)

ChangeQuote(quote) ==
    /\ pc.step = "await"
    /\ flight' = [q \in DOMAIN flight \cup {quote} |-> IF q = quote THEN clock ELSE flight[q]]
    /\ UNCHANGED <<clock, pc, asked, memory, explicit, row>>

\* The quote that is shown stays on for the time that passes.
Tick ==
    /\ clock < MaxClock /\ pc.step # "done"
    /\ clock' = clock + 1
    /\ IF flight = <<>> THEN UNCHANGED flight
       ELSE \E quote \in DOMAIN flight :
               flight[quote] = clock /\ flight' = [flight EXCEPT ![quote] = clock + 1]
    /\ UNCHANGED <<pc, asked, memory, explicit, row>>
-----------------------------------------------------------------------------
\* The venue names the target price when a market opens.
Init ==
    /\ clock \in 0 .. 1
    /\ pc = [step |-> "poll", n |-> 1]
    /\ asked = None /\ flight = <<>>
    /\ feeds = [f \in ToSet(Feeds) |-> None] /\ near = {}
    /\ explicit \in SUBSET {m \in ToSet(Targets) : OpenOf(m) <= clock}
    /\ row = [market |-> None, at |-> 0, wasTrue |-> 0, state |-> "none"]

Next ==
    \/ \E answered \in BOOLEAN : Poll(answered)
    \/ \E quote \in Quotes : Ask(quote) \/ ChangeQuote(quote)
    \/ \E quote \in DOMAIN flight : \E chance \in Scores(Targets[pc.n]) :
          Decide(quote, chance)
    \/ NoBook \/ Wake \/ Tick

Spec == Init /\ [][Next]_hotVars
-----------------------------------------------------------------------------
Acts == row.state = "MANUAL_REVIEW"

\* However long the venue takes to answer, a book that is acted on was the
\* venue's no longer ago than the limit: the age that evaluate_ev looks at is
\* never below the true one.
ActsOnFreshBooks == Acts => row.at - row.wasTrue <= MaxBookAge

\* Only a market that has begun, and ends late enough, is acted on, although
\* those to come are targets as well and only the end is looked at.
ActsWhileOpen ==
    Acts => OpenOf(row.market) <= row.at /\ row.at + MinSecs <= CloseOf(row.market)

DecidesOnTheMarket == ActsOnFreshBooks /\ ActsWhileOpen
=============================================================================
