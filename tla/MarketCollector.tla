-------------------------- MODULE MarketCollector --------------------------
(***************************************************************************)
(* The continuous collector (collector.py): it discovers the series'       *)
(* markets, chooses which to record (client.py) and records them until the *)
(* cycle's deadline, cycle after cycle.  Every feature row carries the     *)
(* price its market's window started at, as far as that is known           *)
(* (start_reference.py).                                                   *)
(*                                                                         *)
(* Market m is open for Length units of time, one market after the other;  *)
(* the venue calls it active Early units before, and settles it            *)
(* SettleAfter units after.  An iteration of the record loop takes no time *)
(* of its own; the calls of a discovery do.  What a cycle holds is         *)
(* forgotten at its end, as the next one overwrites it.                    *)
(***************************************************************************)
EXTENDS Integers, FiniteSetsExt

CONSTANTS
    Markets,                        \* 1 .. n
    Length, Lead,                   \* market_duration_seconds; before the first
    Early, SettleAfter,             \* the venue's, see above
    CycleLength, DeadlineGrace,     \* seconds_per_cycle, grace_s
    MaxMarkets,
    AvgWindow, Tolerance, MinAvg,   \* of the start reference
    MaxAge,                         \* how long samples are kept
    MaxClock

VARIABLES
    clock,
    priced,         \* the markets whose metadata give the target price
    pc,             \* "open", "unopened", "settled", "choose", "loop" or "rest"
    ref,            \* when the discovery began
    found,          \* market :> [phase, status, priced], as discovered
    punctual,       \* every call of the discovery answered, and at once
    targets,        \* the markets that the cycle records
    deadline, first,
    spot, perp,     \* the times of the samples at hand
    cache,          \* market :> its start reference
    start           \* market :> the start reference of its last feature row

vars == <<clock, priced, pc, ref, found, punctual, targets, deadline, first,
          spot, perp, cache, start>>
env == <<clock, priced>>
cycle == <<ref, found, punctual, targets, deadline, first>>
memory == <<spot, perp, cache, start>>

OpenOf(m) == Lead + (m - 1) * Length
CloseOf(m) == OpenOf(m) + Length
StatusAt(m, time) == IF time < OpenOf(m) - Early THEN "initialized"
                     ELSE IF time < CloseOf(m) THEN "active"
                     ELSE IF time < CloseOf(m) + SettleAfter THEN "closed"
                     ELSE "finalized"
Status(m) == StatusAt(m, clock)

NoMarkets == [m \in {} |-> 0]
\* A mapping with some of its entries new.
Updated(old, new) ==
    [m \in DOMAIN old \cup DOMAIN new |->
        IF m \in DOMAIN new THEN new[m] ELSE old[m]]

NoReference == [method |-> "none", source |-> "none", at |-> {}]
-----------------------------------------------------------------------------
(* Discovery.                                                              *)

\* classify_market, for the statuses the venue uses: its word first.
ClassifyMarket(m, status, now) ==
    CASE status = "finalized" -> "SETTLED"
      [] status = "closed" -> "CLOSED_PENDING_SETTLE"
      [] status = "active" -> IF now > CloseOf(m) THEN "CLOSED_PENDING_SETTLE"
                              ELSE "CURRENT_IN_WINDOW"
      [] status = "initialized" -> "UPCOMING"

Listed(query) ==
    {m \in Markets : Status(m) = CASE query = "open" -> "active"
                                   [] query = "unopened" -> "initialized"
                                   [] query = "settled" -> "finalized"}
NextQuery(query) == CASE query = "open" -> "unopened"
                      [] query = "unopened" -> "settled"
                      [] query = "settled" -> "choose"

StartCycle ==
    /\ pc = "rest"
    /\ pc' = "open" /\ ref' = clock /\ found' = NoMarkets /\ punctual' = TRUE
    /\ UNCHANGED <<env, targets, deadline, first, memory>>

\* list_markets for one status; a call that fails finds nothing.
ListMarkets(answered) ==
    /\ pc \in {"open", "unopened", "settled"}
    /\ LET new == IF answered THEN Listed(pc) \ DOMAIN found ELSE {}
       IN  found' = Updated(found,
              [m \in new |-> [phase |-> ClassifyMarket(m, Status(m), ref),
                              status |-> Status(m), priced |-> m \in priced]])
    /\ pc' = NextQuery(pc)
    /\ punctual' = (punctual /\ answered /\ clock = ref)
    /\ UNCHANGED <<env, ref, targets, deadline, first, memory>>

InPhase(phase) == {m \in DOMAIN found : found[m].phase = phase}
\* Running markets, then those to come, then those just closed, each in the
\* order of their times; if there are none, whatever was found.
Rank(phase) == CASE phase = "CURRENT_IN_WINDOW" -> 1
                 [] phase = "UPCOMING" -> 2
                 [] phase = "CLOSED_PENDING_SETTLE" -> 3
                 [] phase = "SETTLED" -> 4
Precedes(m, k) ==
    LET a == found[m].phase
        b == found[k].phase
    IN  \/ Rank(a) < Rank(b)
        \/ a = b /\ IF a = "CLOSED_PENDING_SETTLE" THEN m > k ELSE m < k
SelectCollectionTargets ==
    LET wanted == DOMAIN found \ InPhase("SETTLED")
        pool == IF wanted # {} THEN wanted ELSE DOMAIN found
    IN  {m \in pool : Cardinality({k \in pool : Precedes(k, m)}) < MaxMarkets}

\* Mutant: the cycle takes its full time whatever it records.
CycleDeadline_full(chosen) == clock + CycleLength
\* The cycle ends a little after the first running target has closed, unless
\* that has happened already.
CycleDeadline(chosen) ==
    LET left == {CloseOf(m) - clock : m \in InPhase("CURRENT_IN_WINDOW")
                                            \cap chosen}
    IN  IF left = {} \/ Min(left) <= 0 THEN clock + CycleLength
        ELSE clock + Min({CycleLength, Min(left) + DeadlineGrace})

Choose ==
    /\ pc = "choose"
    /\ targets' = SelectCollectionTargets
    /\ found' = [m \in targets' |-> found[m]]
    /\ deadline' = CycleDeadline(targets')
    /\ punctual' = (punctual /\ clock = ref)
    /\ first' = TRUE
    /\ pc' = IF targets' = {} THEN "rest" ELSE "loop"
    /\ UNCHANGED <<env, ref, memory>>
-----------------------------------------------------------------------------
(* Start references.  A provisional one is known by its source and the     *)
(* times of the samples it is made of.                                     *)

Within(samples, lo, hi) == {t \in samples : lo <= t /\ t <= hi}
Dist(m, t) == IF t <= OpenOf(m) THEN OpenOf(m) - t ELSE t - OpenOf(m)
\* The nearest to the window's start, on a tie the earlier one.
Nearest(m, samples) ==
    CHOOSE t \in samples : \A u \in samples :
        2 * Dist(m, t) + (IF t > OpenOf(m) THEN 1 ELSE 0)
            <= 2 * Dist(m, u) + (IF u > OpenOf(m) THEN 1 ELSE 0)

\* _from_underlying; a perp sample counts as ten seconds further away, which
\* is less than a unit.
FromUnderlying(m, spots, perps) ==
    LET before(samples) == Within(samples, OpenOf(m) - AvgWindow, OpenOf(m))
        average(source, samples) ==
            [method |-> "average", source |-> source, at |-> before(samples)]
        near(samples) == {t \in samples : Dist(m, t) <= Tolerance}
        nearest(source, samples) ==
            [method |-> "nearest", source |-> source,
             at |-> {Nearest(m, near(samples))}]
        spotIsNearer ==
            \/ near(perps) = {}
            \/ Dist(m, Nearest(m, near(spots))) <= Dist(m, Nearest(m, near(perps)))
    IN  IF Cardinality(before(spots)) >= MinAvg THEN average("spot", spots)
        ELSE IF Cardinality(before(perps)) >= MinAvg THEN average("perp", perps)
        ELSE IF near(spots) # {} /\ spotIsNearer THEN nearest("spot", spots)
        ELSE IF near(perps) # {} THEN nearest("perp", perps)
        ELSE NoReference

\* Mutant: what was found is not kept.
Resolve_afresh(m, spots, perps) ==
    IF found[m].priced
    THEN [method |-> "explicit", source |-> "kalshi", at |-> {}]
    ELSE IF clock < OpenOf(m) THEN NoReference
    ELSE FromUnderlying(m, spots, perps)
\* StartReferenceResolver.resolve: the venue's own price always wins, what
\* was found earlier comes next.
Resolve(m, spots, perps) ==
    IF found[m].priced
    THEN [method |-> "explicit", source |-> "kalshi", at |-> {}]
    ELSE IF m \in DOMAIN cache THEN cache[m]
    ELSE IF clock < OpenOf(m) THEN NoReference
    ELSE FromUnderlying(m, spots, perps)
-----------------------------------------------------------------------------
(* The record loop.                                                        *)

\* Mutant: only the market's status is looked at.
SkipReason_statusOnly(m) ==
    IF found[m].status \in {"closed", "finalized"} THEN "MARKET_CLOSED"
    ELSE IF found[m].status # "active" THEN "MARKET_NOT_OPEN" ELSE "none"
\* decision_window_skip_reason, with the status found by the discovery.
SkipReason(m) ==
    LET left == CloseOf(m) - clock
    IN  IF found[m].status \in {"closed", "finalized"} THEN "MARKET_CLOSED"
        ELSE IF found[m].status # "active" THEN "MARKET_NOT_OPEN"
        ELSE IF left <= 0 THEN "MARKET_CLOSED"
        ELSE IF left > Length THEN "OUTSIDE_DECISION_WINDOW" ELSE "none"

Looping == pc = "loop" /\ (first \/ clock < deadline)

\* Trimmed by the samples' own times, when one comes in.
Ingest(samples, comes) ==
    IF comes THEN {t \in samples \cup {clock} : t >= clock - MaxAge} ELSE samples

\* One pass over the targets; fed are the feeds that answer, got the targets
\* whose order book does.
Iterate(fed, got) ==
    LET spots == Ingest(spot, "spot" \in fed)
        perps == Ingest(perp, "perp" \in fed)
        reference == [m \in got |-> Resolve(m, spots, perps)]
        kept == {m \in got : reference[m] # NoReference}
    IN  /\ Looping
        /\ spot' = spots /\ perp' = perps
        /\ cache' = Updated(cache, [m \in kept |-> reference[m]])
        /\ start' = Updated(start, reference)
        /\ first' = FALSE
        /\ UNCHANGED <<env, pc, ref, found, punctual, targets, deadline>>

\* The backfill of labels comes next, see SettlementLabels.
LeaveLoop ==
    /\ pc = "loop" /\ ~Looping
    /\ pc' = "rest"
    /\ ref' = 0 /\ found' = NoMarkets /\ punctual' = FALSE
    /\ targets' = {} /\ deadline' = 0 /\ first' = FALSE
    /\ UNCHANGED <<env, memory>>
-----------------------------------------------------------------------------
(* The venue.                                                              *)

Tick ==
    /\ clock < MaxClock
    /\ clock' = clock + 1
    /\ UNCHANGED <<priced, pc, cycle, memory>>

\* The price is known, and its "TBD" replaced, some time after the opening.
PublishPrice(m) ==
    /\ m \notin priced /\ clock >= OpenOf(m)
    /\ priced' = priced \cup {m}
    /\ UNCHANGED <<clock, pc, cycle, memory>>
-----------------------------------------------------------------------------
Init ==
    /\ clock \in 0 .. Lead + 1
    /\ priced = {}
    /\ pc = "rest" /\ ref = 0 /\ found = NoMarkets /\ punctual = FALSE
    /\ targets = {} /\ deadline = 0 /\ first = FALSE
    /\ spot = {} /\ perp = {} /\ cache = NoMarkets /\ start = NoMarkets

Next ==
    \/ StartCycle \/ (\E answered \in BOOLEAN : ListMarkets(answered)) \/ Choose
    \/ \E fed \in SUBSET {"spot", "perp"}, got \in SUBSET targets :
          Iterate(fed, got)
    \/ LeaveLoop \/ Tick \/ \E m \in Markets : PublishPrice(m)

Spec == Init /\ [][Next]_vars
-----------------------------------------------------------------------------
\* A cycle never goes on recording past the window it was chosen for: while it
\* would iterate, the market that is running is among its targets, or has
\* been running for no longer than the grace.  The discovery must have been
\* answered, and before the window changed.
FollowsTheWindow ==
    punctual /\ pc = "loop" /\ clock < deadline =>
        \A m \in Markets :
            OpenOf(m) <= clock /\ clock < CloseOf(m) =>
                \/ m \in targets
                \/ clock - OpenOf(m) < DeadlineGrace

\* Once a window has a start reference all its rows carry the same one, but
\* for the venue's own price, and that is never given up.
ReferenceIsKept ==
    \A m \in DOMAIN start :
        start[m] # NoReference /\ start'[m] # start[m] =>
            start'[m].method = "explicit"

\* The model is asked about a market only while it is running, however old
\* the status is that the discovery brought.
ScoredInWindow ==
    Looping => \A m \in targets :
        SkipReason(m) = "none" => OpenOf(m) <= clock /\ clock < CloseOf(m)
-----------------------------------------------------------------------------
(* What holds of every reachable state.                                    *)

\* As it is started by default, a cycle is as long as a window.
MarketAssumption ==
    /\ Markets \subseteq Nat \ {0} /\ \E n \in Markets : Markets = 1 .. n
    /\ Length \in Nat \ {0} /\ Lead \in Nat
    /\ Early \in Nat /\ SettleAfter \in Nat
    /\ CycleLength \in Nat /\ DeadlineGrace \in Nat
    /\ CycleLength <= Length + DeadlineGrace
    /\ MaxMarkets \in Nat \ {0}

MarketTypeOK ==
    /\ clock \in Nat /\ ref \in Nat
    /\ pc \in {"open", "unopened", "settled", "choose", "loop", "rest"}
    /\ punctual \in BOOLEAN
    /\ DOMAIN found \subseteq Markets /\ targets \subseteq Markets

\* What an undisturbed discovery knows is as it was when it began.
DiscoveredAsOfStart ==
    punctual /\ pc \in {"open", "unopened", "settled", "choose"} =>
        /\ ref <= clock
        /\ \A m \in DOMAIN found :
              found[m].phase = ClassifyMarket(m, StatusAt(m, ref), ref)
        /\ \A m \in Markets :
              /\ pc # "open" /\ StatusAt(m, ref) = "active" => m \in DOMAIN found
              /\ pc \in {"settled", "choose"} /\ StatusAt(m, ref) = "initialized"
                    => m \in DOMAIN found
\* The cycle that follows records the market that was active then, or one that
\* closes before, or the first that was to come; and not for long past the end
\* of its window.
CycleIsCapped ==
    punctual /\ pc = "loop" =>
        /\ ref <= clock /\ deadline \in Nat /\ deadline <= ref + CycleLength
        /\ \A m \in Markets : StatusAt(m, ref) = "active" =>
              /\ deadline <= CloseOf(m) + DeadlineGrace
              /\ \E k \in targets : k <= m /\ StatusAt(k, ref) = "active"
        /\ ref < Lead - Early => 1 \in targets
\* The reference of a market's last row is the one that was kept.
StartIsCached ==
    \A m \in DOMAIN start :
        start[m] # NoReference => m \in DOMAIN cache /\ cache[m] = start[m]

MarketInv ==
    /\ MarketTypeOK /\ DiscoveredAsOfStart /\ CycleIsCapped /\ StartIsCached
=============================================================================
