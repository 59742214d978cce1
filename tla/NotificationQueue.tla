-------------------------- MODULE NotificationQueue --------------------------
(***************************************************************************)
(* The latency-safe notification queue of notifications/queue.py.          *)
(*                                                                         *)
(* The decision thread (the "owner": it enqueues, may flush, and closes)   *)
(* and one background daemon worker share two FIFO lanes under one lock.   *)
(* Everything done while the lock is held is one action; the worker folds  *)
(* the coalesced count and talks to the notifier OUTSIDE the lock, so      *)
(* those are actions of their own and enqueues interleave with them.       *)
(* Counter updates are atomic, as they are under CPython's global lock.    *)
(***************************************************************************)
EXTENDS Integers, FiniteSets, SequencesExt

CONSTANTS
    Event,        \* event names (WATCH, PAPER_CANDIDATE, ...)
    Offers,       \* the [event, pr] pairs the callers enqueue
    MaxSize,      \* maxsize of the queue, both lanes together
    DropLow,      \* drop_low_priority_when_full
    CoalesceLow,  \* coalesce_low
    MaxOffers,    \* bound on enqueue calls
    NoNote        \* the worker holds nothing

Low == 10
Medium == 20
High == 30
Priority == {Low, Medium, High}

Note == [id : Nat, event : Event, pr : Priority]

Metric == {"blocking_sends_prevented", "coalesced", "sent", "failed",
           "dropped_low_full", "dropped_medium_full", "dropped_high_full",
           "dropped_low_for_high", "dropped_low_for_medium",
           "dropped_low_for_low"}

ASSUME QueueAssumption ==
    /\ IsFiniteSet(Event)
    /\ Offers \subseteq [event : Event, pr : Priority]
    /\ MaxSize \in Nat \ {0}          \* max(1, int(maxsize))
    /\ DropLow \in BOOLEAN /\ CoalesceLow \in BOOLEAN
    /\ MaxOffers \in Nat
    /\ NoNote \notin Note

VARIABLES
    high,            \* _high: waiting HIGH notes, oldest first
    lowmed,          \* _lowmed: waiting MEDIUM and LOW notes, oldest first
    pendingLow,      \* _pending_low: LOW notes of an event that are waiting
    coalescedExtra,  \* _coalesced_extra: repeats folded into a count
    metrics,         \* _metrics, the counters health() reads
    stop,            \* _stop
    sending,         \* _sending
    worker,          \* where the worker thread is
    current,         \* the note the worker took
    extra,           \* the count it folded into that note
    owner,           \* where the owner thread is
    flushed,         \* what the last flush() returned
    offered,         \* history: enqueue calls so far
    accepted,        \* history: notes that entered a lane
    evicted,         \* history: notes thrown out of a lane again
    delivered        \* history: [note, extra] handed to the notifier

lanes   == <<high, lowmed, pendingLow>>
thread  == <<worker, current, extra, sending>>
control == <<owner, stop, flushed>>
history == <<offered, accepted, evicted>>
vars == <<lanes, coalescedExtra, metrics, thread, control, history, delivered>>

Depth == Len(high) + Len(lowmed)

IsLow(n) == n.pr <= Low
IsHigh(n) == n.pr >= High

Bump(m, name) == [m EXCEPT ![name] = @ + 1]

Init ==
    /\ high = <<>> /\ lowmed = <<>>
    /\ pendingLow = [e \in Event |-> 0]
    /\ coalescedExtra = [e \in Event |-> 0]
    /\ metrics = [m \in Metric |-> 0]
    /\ stop = FALSE /\ sending = FALSE
    /\ worker = "idle" /\ current = NoNote /\ extra = 0
    /\ owner = "running" /\ flushed = "none"
    /\ offered = 0 /\ accepted = {} /\ evicted = {}
    /\ delivered = <<>>

-----------------------------------------------------------------------------
(* enqueue() and _offer_locked(), one critical section.                     *)

LowIndices == {i \in DOMAIN lowmed : IsLow(lowmed[i])}

\* Mutants of OldestLow: popleft() instead of a search, and the newest one.
OldestLow_popleft == 1
OldestLow_newest == CHOOSE i \in LowIndices : \A j \in LowIndices : i >= j

OldestLow == CHOOSE i \in LowIndices : \A j \in LowIndices : i <= j

\* A mutant of EvictMetric: every eviction under the name health() omits.
EvictMetric_omitted(n) == "dropped_low_for_low"

EvictMetric(n) ==
    IF IsHigh(n) THEN "dropped_low_for_high"
    ELSE IF IsLow(n) THEN "dropped_low_for_low" ELSE "dropped_low_for_medium"

RefuseMetric(n) ==
    IF IsHigh(n) THEN "dropped_high_full"
    ELSE IF IsLow(n) THEN "dropped_low_full" ELSE "dropped_medium_full"

\* Repeats of a LOW event that is already waiting become a count.
Folds(n) == IsLow(n) /\ CoalesceLow /\ pendingLow[n.event] >= 1

\* A mutant of Full: one note too many.
Full_offByOne == Depth > MaxSize

Full == Depth >= MaxSize

\* A full queue makes room by evicting, except for a LOW note under DropLow.
MayEvict(n) == LowIndices # {} /\ ~(IsLow(n) /\ DropLow)

\* max(0, pend[e] - 1); and a mutant that forgets to lower the count.
Uncount_forgotten(pend, e) == pend

Uncount(pend, e) == [pend EXCEPT ![e] = IF @ > 0 THEN @ - 1 ELSE 0]

\* A mutant of Insert: appendleft() instead of append() on the high lane.
Insert_left(n, rest, pend) ==
    /\ IF IsHigh(n)
         THEN high' = <<n>> \o high /\ lowmed' = rest
         ELSE high' = high /\ lowmed' = Append(rest, n)
    /\ pendingLow' = IF IsLow(n) THEN [pend EXCEPT ![n.event] = @ + 1] ELSE pend
    /\ accepted' = accepted \cup {n}
    /\ UNCHANGED coalescedExtra

\* Append n to its lane; rest and pend are the LOW/MEDIUM lane and its
\* counts after an eviction, if there was one.
Insert(n, rest, pend) ==
    /\ IF IsHigh(n)
         THEN high' = Append(high, n) /\ lowmed' = rest
         ELSE high' = high /\ lowmed' = Append(rest, n)
    /\ pendingLow' = IF IsLow(n) THEN [pend EXCEPT ![n.event] = @ + 1] ELSE pend
    /\ accepted' = accepted \cup {n}
    /\ UNCHANGED coalescedExtra

Coalesce(n, m) ==
    /\ Folds(n)
    /\ coalescedExtra' = [coalescedExtra EXCEPT ![n.event] = @ + 1]
    /\ metrics' = Bump(m, "coalesced")
    /\ UNCHANGED <<lanes, accepted, evicted>>

AcceptWithRoom(n, m) ==
    /\ ~Folds(n) /\ ~Full
    /\ Insert(n, lowmed, pendingLow)
    /\ metrics' = m
    /\ UNCHANGED evicted

AcceptEvicting(n, m) ==
    /\ ~Folds(n) /\ Full /\ MayEvict(n)
    /\ LET victim == lowmed[OldestLow]
       IN /\ Insert(n, RemoveAt(lowmed, OldestLow), Uncount(pendingLow, victim.event))
          /\ evicted' = evicted \cup {victim}
    /\ metrics' = Bump(m, EvictMetric(n))

Refuse(n, m) ==
    /\ ~Folds(n) /\ Full /\ ~MayEvict(n)
    /\ metrics' = Bump(m, RefuseMetric(n))
    /\ UNCHANGED <<lanes, coalescedExtra, accepted, evicted>>

Enqueue(o) ==
    /\ owner = "running"
    /\ offered < MaxOffers
    /\ offered' = offered + 1
    /\ LET n == [id |-> offered + 1, event |-> o.event, pr |-> o.pr]
           m == Bump(metrics, "blocking_sends_prevented")
       IN \/ Coalesce(n, m)
          \/ AcceptWithRoom(n, m)
          \/ AcceptEvicting(n, m)
          \/ Refuse(n, m)
    /\ UNCHANGED <<thread, control, delivered>>

-----------------------------------------------------------------------------
(* The worker: _run(), _next_locked() and _send_one().                      *)

\* Under the lock: pop the next note, HIGH first, and raise _sending.
Take ==
    /\ owner # "gone"
    /\ worker = "idle"
    /\ \/ /\ high # <<>>
          /\ current' = Head(high)
          /\ high' = Tail(high)
          /\ UNCHANGED <<lowmed, pendingLow>>
       \/ /\ high = <<>> /\ lowmed # <<>>
          /\ current' = Head(lowmed)
          /\ lowmed' = Tail(lowmed)
          /\ pendingLow' = IF IsLow(Head(lowmed))
                           THEN Uncount(pendingLow, Head(lowmed).event)
                           ELSE pendingLow
          /\ UNCHANGED high
    /\ worker' = "folding"
    /\ sending' = TRUE
    /\ UNCHANGED <<coalescedExtra, metrics, extra, control, history, delivered>>

\* A mutant of Fold: get() instead of pop().
Fold_get ==
    /\ owner # "gone"
    /\ worker = "folding"
    /\ extra' = coalescedExtra[current.event]
    /\ worker' = "sending"
    /\ UNCHANGED <<lanes, coalescedExtra, metrics, current, sending, control,
                   history, delivered>>

\* Outside the lock: pop the folded count of the note's event.
Fold ==
    /\ owner # "gone"
    /\ worker = "folding"
    /\ extra' = coalescedExtra[current.event]
    /\ coalescedExtra' = [coalescedExtra EXCEPT ![current.event] = 0]
    /\ worker' = "sending"
    /\ UNCHANGED <<lanes, metrics, current, sending, control, history, delivered>>

\* A mutant of Send: the note stays with the worker.
Send_keeps ==
    /\ owner # "gone"
    /\ worker = "sending"
    /\ delivered' = Append(delivered, [note |-> current, extra |-> extra])
    /\ \E outcome \in {"sent", "failed"} : metrics' = Bump(metrics, outcome)
    /\ worker' = "clearing" /\ extra' = 0
    /\ UNCHANGED <<lanes, coalescedExtra, current, sending, control, history>>

\* Outside the lock: notifier.send() succeeds, returns False or raises.
Send ==
    /\ owner # "gone"
    /\ worker = "sending"
    /\ delivered' = Append(delivered, [note |-> current, extra |-> extra])
    /\ \E outcome \in {"sent", "failed"} : metrics' = Bump(metrics, outcome)
    /\ worker' = "clearing" /\ current' = NoNote /\ extra' = 0
    /\ UNCHANGED <<lanes, coalescedExtra, sending, control, history>>

\* Under the lock again: lower _sending and wake a flush().
ClearSending ==
    /\ owner # "gone"
    /\ worker = "clearing"
    /\ sending' = FALSE
    /\ worker' = "idle"
    /\ UNCHANGED <<lanes, coalescedExtra, metrics, current, extra, control,
                   history, delivered>>

\* A mutant of WorkerExit: leave as soon as stop is seen.
WorkerExit_eager ==
    /\ owner # "gone"
    /\ worker = "idle" /\ stop
    /\ worker' = "exited"
    /\ UNCHANGED <<lanes, coalescedExtra, metrics, current, extra, sending,
                   control, history, delivered>>

\* The thread ends only once stop is set and both lanes are empty.
WorkerExit ==
    /\ owner # "gone"
    /\ worker = "idle" /\ stop /\ high = <<>> /\ lowmed = <<>>
    /\ worker' = "exited"
    /\ UNCHANGED <<lanes, coalescedExtra, metrics, current, extra, sending,
                   control, history, delivered>>

Worker == Take \/ Fold \/ Send \/ ClearSending \/ WorkerExit

-----------------------------------------------------------------------------
(* The owner: flush(), close() and the end of the process.                  *)

UnchangedByOwner ==
    UNCHANGED <<lanes, coalescedExtra, metrics, thread, history, delivered>>

\* A mutant of Drained: the lanes alone.
Drained_lanes == high = <<>> /\ lowmed = <<>>

Drained == high = <<>> /\ lowmed = <<>> /\ ~sending

BeginFlush ==
    /\ owner = "running"
    /\ owner' = "flushing"
    /\ UNCHANGED <<stop, flushed>> /\ UnchangedByOwner

FlushReturnsTrue ==
    /\ owner = "flushing" /\ Drained
    /\ owner' = "running" /\ flushed' = "true"
    /\ UNCHANGED stop /\ UnchangedByOwner

\* The deadline passes while something is still queued or being sent.
FlushTimesOut ==
    /\ owner = "flushing" /\ ~Drained
    /\ owner' = "running" /\ flushed' = "false"
    /\ UNCHANGED stop /\ UnchangedByOwner

Close ==
    /\ owner = "running"
    /\ owner' = "joining" /\ stop' = TRUE
    /\ UNCHANGED flushed /\ UnchangedByOwner

\* join() returns because the worker ended, or after its timeout; then the
\* process may exit, which kills the daemon worker wherever it is.
JoinReturns ==
    /\ owner = "joining"
    /\ owner' = IF worker = "exited" THEN "joined" ELSE "gone"
    /\ UNCHANGED <<stop, flushed>> /\ UnchangedByOwner

Owner == BeginFlush \/ FlushReturnsTrue \/ FlushTimesOut \/ Close \/ JoinReturns

Next == (\E o \in Offers : Enqueue(o)) \/ Worker \/ Owner

Spec == Init /\ [][Next]_vars

\* The operating system schedules the daemon thread: whenever it can run it
\* eventually does, and send() is bounded by send_timeout_ms. Nothing obliges
\* the owner to enqueue, flush or close.
FairSpec == Spec /\ WF_vars(Worker)

-----------------------------------------------------------------------------
(* Properties.                                                              *)

TypeOK ==
    /\ high \in Seq(Note) /\ lowmed \in Seq(Note)
    /\ pendingLow \in [Event -> Nat]
    /\ coalescedExtra \in [Event -> Nat]
    /\ metrics \in [Metric -> Nat]
    /\ stop \in BOOLEAN /\ sending \in BOOLEAN
    /\ worker \in {"idle", "folding", "sending", "clearing", "exited"}
    /\ current \in Note \cup {NoNote}
    /\ worker \in {"folding", "sending"} <=> current # NoNote
    /\ extra \in Nat
    /\ owner \in {"running", "flushing", "joining", "joined", "gone"}
    /\ flushed \in {"none", "true", "false"}
    /\ offered \in 0..MaxOffers
    /\ accepted \subseteq Note /\ evicted \subseteq Note
    /\ delivered \in Seq([note : Note, extra : Nat])

\* "Bounded" (queue.py:13): whatever the mix of priorities, evictions and
\* concurrent pops, the two lanes together never hold more than MaxSize notes.
DepthBounded == Depth <= MaxSize

\* The coalescing decision reads _pending_low, which four places update: it
\* must be exactly the number of LOW notes of that event now waiting, or
\* repeats are folded into a note that is not there, or pushed N times.
PendingLowExact ==
    \A e \in Event : pendingLow[e] =
        Cardinality({i \in LowIndices : lowmed[i].event = e})

\* Where a note that entered a lane can be.
Waiting == ToSet(high) \cup ToSet(lowmed)
Reported == {d.note : d \in ToSet(delivered)}
InFlight == IF current = NoNote THEN {} ELSE {current}

\* An accepted note is waiting, in flight, reported or evicted - one of these
\* at a time, whatever enqueues, evictions and pops interleave - and only LOW
\* notes are ever evicted: a HIGH or MEDIUM note that was accepted is not lost
\* while the process lives.
NoAcceptedNoteLost ==
    /\ accepted = Waiting \cup InFlight \cup Reported \cup evicted
    /\ \A n \in evicted : IsLow(n)
    /\ Waiting \cap (InFlight \cup Reported \cup evicted) = {}
    /\ InFlight \cap (Reported \cup evicted) = {}
    /\ Reported \cap evicted = {}

\* The counters health() publishes explain every enqueue call: each one is
\* sent, failed, still in the queue, in flight, folded, or counted dropped.
\* This holds under DropLow; without it health() omits dropped_low_for_low.
HealthDropped ==
    metrics["dropped_low_full"] + metrics["dropped_medium_full"]
    + metrics["dropped_high_full"] + metrics["dropped_low_for_high"]
    + metrics["dropped_low_for_medium"]

HealthBalances ==
    DropLow => metrics["blocking_sends_prevented"] =
        metrics["sent"] + metrics["failed"] + metrics["coalesced"]
        + HealthDropped + Depth + (IF current = NoNote THEN 0 ELSE 1)

\* The counts of a function of events, and those a sequence of reports carried.
Pending(counts) == FoldFunction(+, 0, counts)
Carried(reports) == FoldLeft(LAMBDA acc, d : acc + d.extra, 0, reports)

\* A folded repeat is reported at most once: what was folded is still pending
\* or was carried by exactly one note handed to the notifier.
FoldedOnce ==
    metrics["coalesced"] = Pending(coalescedExtra) + extra + Carried(delivered)

\* Notes of one lane reach the notifier in the order they were offered,
\* across coalescing and evictions from the middle of the lane.
LaneOrder ==
    \A i, j \in DOMAIN delivered :
        i < j /\ (IsHigh(delivered[i].note) <=> IsHigh(delivered[j].note))
            => delivered[i].note.id < delivered[j].note.id

\* flush() answers True only when nothing accepted is outstanding: the note
\* the worker popped but has not finished sending counts (the _sending flag
\* is raised in the critical section that pops).
FlushTrueMeansReported ==
    [][flushed' = "true" /\ owner = "flushing" /\ owner' = "running"
        => accepted = Reported \cup evicted]_vars

\* close() drains: a worker that ended left nothing queued, so a joined
\* owner has had every accepted, un-evicted note handed to the notifier.
CloseDrains ==
    worker = "exited" => accepted = Reported \cup evicted

\* Every HIGH or MEDIUM note that was accepted is eventually handed to the
\* notifier, unless the process ends first.
ImportantDelivered ==
    \A id \in 1..MaxOffers :
        (\E n \in accepted : n.id = id /\ ~IsLow(n))
            ~> (owner = "gone" \/ \E n \in Reported : n.id = id)

\* The queue implements the outbox: a priority queue of bounded size that
\* trades only its oldest LOW note for room and reports each note once.
Promise == INSTANCE Outbox
    WITH Notes <- UNION {{[id |-> i, event |-> o.event, pr |-> o.pr] : o \in Offers}
                            : i \in 1..MaxOffers},
         Capacity <- MaxSize, LowPr <- Low, HighPr <- High,
         waiting <- Waiting, busy <- InFlight, done <- Reported,
         lost <- evicted, alive <- (owner # "gone")

ImplementsOutbox == Promise!Spec
ImplementsFairOutbox == Promise!FairSpec

\* queue.py:15 says repetitive LOW events "are folded into a count instead of
\* N pushes". So when the worker has sent everything, no folded count should
\* be left behind. It can be: eviction throws away the note that would carry
\* the count and leaves _coalesced_extra in place.
NoFoldedCountStranded ==
    (worker = "idle" /\ Drained) => \A e \in Event : coalescedExtra[e] = 0

-----------------------------------------------------------------------------
(* The inductive invariant behind the theorems of NotificationQueueProofs.  *)

\* Each lane holds its own class of notes.
LaneShape ==
    /\ \A n \in ToSet(high) : IsHigh(n)
    /\ \A n \in ToSet(lowmed) : ~IsHigh(n)

Ascending(s) == \A i, j \in 1..Len(s) : i < j => s[i].id < s[j].id

\* Within a class of notes, n was offered before m.
Before(n, m) == (IsHigh(n) <=> IsHigh(m)) => n.id < m.id

IdOrder ==
    /\ Ascending(high) /\ Ascending(lowmed)
    /\ \A n \in accepted : n.id \in 1..offered
    /\ \A n \in InFlight, m \in Waiting : Before(n, m)
    /\ \A n \in Reported, m \in Waiting \cup InFlight : Before(n, m)

WorkerShape ==
    /\ sending <=> worker \in {"folding", "sending", "clearing"}
    /\ worker = "exited" => stop /\ high = <<>> /\ lowmed = <<>>
    /\ stop => owner \in {"joining", "joined", "gone"}

\* The lanes, the order of ids and the thread states that make the safety
\* properties above inductive (see README, "What is proved").
IInv ==
    /\ TypeOK /\ DepthBounded /\ NoAcceptedNoteLost /\ HealthBalances
    /\ LaneShape /\ IdOrder /\ LaneOrder /\ WorkerShape
=============================================================================
