--------------------------- MODULE HiResCollector ---------------------------
(***************************************************************************)
(* The high-resolution recorder between its sources and its writer         *)
(* (hires/sources.py, hires/collector.py).  Three source threads put       *)
(* events into bounded queues of their own; the main loop drains them one  *)
(* after the other, submits every event to the writer, and joins a Kalshi  *)
(* row with the latest samples of the other two.  At the end the sources   *)
(* are asked to stop and waited for, but not for long.                     *)
(*                                                                         *)
(* An event is named by its source and number; `log` remembers when each   *)
(* was received and what it is.  A unit of time is a fraction of a second. *)
(***************************************************************************)
EXTENDS Integers, Sequences, FiniteSets

CONSTANTS
    MaxQueue,               \* events waiting at a source
    MaxBuffer,              \* samples kept for joining
    MinGap,                 \* between joined rows
    UnitsPerSecond, MaxPerSecond, AggTrade,     \* Binance's cap, and its trades
    MaxClock, MaxEvents     \* MaxEvents: by source

VARIABLES
    clock,
    log,            \* source :> sequence of [recv, kind]
    taken,          \* source :> the last event that left its queue
    gone,           \* the events that left a queue or a buffer for lack of room
    buffers,        \* source :> event numbers
    lastJoined, join,           \* join: the rows joined by the last drain
    over,           \* the sources that ended before they were no longer waited for
    pc              \* [stage, next]: what the main loop does next

colVars == <<clock, log, taken, gone, buffers, lastJoined, join, over, pc>>
mainVars == <<buffers, lastJoined, join, over, pc>>

Order == <<"coinbase", "binance", "kalshi">>
Sources == {"coinbase", "binance", "kalshi"}
Sampled == {"coinbase", "binance"}
Kinds == {"ticker", "book", "trade"}
None == -1
-----------------------------------------------------------------------------
(* The sources.                                                            *)

\* An event's number is its place in the log, so that those waiting in a queue
\* are the ones after the last that left it.
Waiting(s) == taken[s] + 1 .. Len(log[s])

\* BaseSource._emit: a full queue loses its oldest event.
Emit(s, kind) ==
    LET full == Len(log[s]) - taken[s] = MaxQueue
    IN  /\ s \notin over /\ Len(log[s]) < MaxEvents[s]
        /\ log' = [log EXCEPT ![s] = Append(@, [recv |-> clock, kind |-> kind])]
        /\ taken' = IF full THEN [taken EXCEPT ![s] = @ + 1] ELSE taken
        /\ gone' = IF full THEN gone \cup {<<s, taken[s] + 1>>} ELSE gone
        /\ UNCHANGED <<clock, mainVars>>

\* Books and trades share one cap a second.  Which trades are sampled is left
\* open.
RateOk == Cardinality({n \in DOMAIN log["binance"] :
                          log["binance"][n].recv \div UnitsPerSecond
                              = clock \div UnitsPerSecond}) < MaxPerSecond
HandleMsg(kind) ==
    /\ kind = "trade" => AggTrade
    /\ RateOk
    /\ Emit("binance", kind)

Tick ==
    /\ clock < MaxClock
    /\ clock' = clock + 1
    /\ UNCHANGED <<log, taken, gone, mainVars>>
-----------------------------------------------------------------------------
(* The main loop.                                                          *)

NewestOf(numbers) == CHOOSE n \in numbers : \A k \in numbers : k <= n

\* Mutant: the newest sample, whenever it came.
LastAt_newest(s, time) == IF buffers[s] = {} THEN None ELSE NewestOf(buffers[s])
\* _last_at: the buffer is in the order of receipt, the search ends at the
\* first sample that is too young.
LastAt(s, time) ==
    LET old == {n \in buffers[s] :
                   \A k \in buffers[s] : k <= n => log[s][k].recv <= time}
    IN  IF old = {} THEN None ELSE NewestOf(old)

BuildJoined(number) ==
    LET asOf == log["kalshi"][number].recv
    IN  [asOf |-> asOf, known |-> [s \in Sampled |-> taken[s]],
         sample |-> [s \in Sampled |-> LastAt(s, asOf)]]

\* Of the Kalshi rows in a queue those are joined that come at least MinGap
\* after the one joined before.
IsDue(numbers, due) ==
    \A n \in numbers :
        LET before == {k \in due : k < n}
            last == IF before = {} THEN lastJoined
                    ELSE log["kalshi"][NewestOf(before)].recv
        IN  n \in due <=> last = None \/ log["kalshi"][n].recv - last >= MinGap

Samples(s, n) == s = "coinbase" \/ (s = "binance" /\ log[s][n].kind = "book")

\* One source's part of _drain_once; every event also goes to the writer.
Drain ==
    LET s == Order[pc.next]
        grown == buffers[s] \cup {n \in Waiting(s) : Samples(s, n)}
        kept == {n \in grown : Cardinality({k \in grown : k > n}) < MaxBuffer}
    IN  /\ pc.stage # "done" /\ pc.next <= Len(Order)
        /\ taken' = [taken EXCEPT ![s] = Len(log[s])]
        /\ IF s \in Sampled
           THEN /\ buffers' = [buffers EXCEPT ![s] = kept]
                /\ gone' = gone \cup {<<s, n>> : n \in grown \ kept}
                /\ join' = {} /\ UNCHANGED lastJoined
           ELSE \E due \in SUBSET Waiting(s) :
                \* Each row is built from the same buffers.
                /\ IsDue(Waiting(s), due)
                /\ join' = {BuildJoined(n) : n \in due}
                /\ lastJoined' = IF due = {} THEN lastJoined
                                 ELSE log[s][NewestOf(due)].recv
                /\ UNCHANGED <<buffers, gone>>
        /\ pc' = [pc EXCEPT !.next = @ + 1]
        /\ UNCHANGED <<clock, log, over>>

\* Every source is asked to stop before the cycle "first" and joined before
\* "last".  Mutant: nothing is drained after the sources were joined.
After_once(stage) == CASE stage = "loop" -> {"loop", "first"}
                       [] stage = "first" -> {"done"}
After(stage) == CASE stage = "loop" -> {"loop", "first"}
                  [] stage = "first" -> {"last"}
                  [] stage = "last" -> {"done"}
\* A cycle ends.  The joins are given some time: any number of the sources may
\* not have ended by then.
NextStage ==
    /\ pc.next > Len(Order)
    /\ \E stage \in After(pc.stage) : pc' = [stage |-> stage, next |-> 1]
    /\ IF pc.stage = "first" THEN over' \in SUBSET Sources ELSE UNCHANGED over
    /\ UNCHANGED <<clock, log, taken, gone, buffers, lastJoined, join>>
-----------------------------------------------------------------------------
Init ==
    /\ clock = 0
    /\ log = [s \in Sources |-> <<>>] /\ taken = [s \in Sources |-> 0]
    /\ gone = {}
    /\ buffers = [s \in Sampled |-> {}]
    /\ lastJoined = None /\ join = {}
    /\ over = {}
    /\ pc = [stage |-> "loop", next |-> 1]

Next ==
    \/ Tick
    \/ Emit("coinbase", "ticker")
    \/ \E kind \in {"book", "trade"} : HandleMsg(kind)
    \/ Emit("kalshi", "book")
    \/ Drain \/ NextStage

Spec == Init /\ [][Next]_colVars
-----------------------------------------------------------------------------
(* Properties.                                                             *)

\* A joined row holds, of each other feed, the newest sample that had been
\* received by then: none from its future, and none older than one that had
\* been taken from the feed's queue, unless that made way for others.
JoinedPointInTime ==
    \A j \in join : \A s \in Sampled :
        LET old(n) == log[s][n].recv <= j.asOf
            n0 == j.sample[s]
        IN  /\ n0 # None => old(n0)
            /\ \A n \in 1 .. j.known[s] :
                  (old(n) /\ Samples(s, n) /\ <<s, n>> \notin gone) =>
                      n0 # None /\ n0 >= n

\* When the run is over, nothing that a source delivered before it ended waits
\* in its queue, unless the source was too slow to end.
NothingLeftBehind ==
    pc.stage = "done" => \A s \in over : Waiting(s) = {}
-----------------------------------------------------------------------------
(* What holds of every reachable state.                                    *)

CollectorAssumption == MaxQueue \in Nat \ {0}

CollectorTypeOK ==
    /\ clock \in Nat
    /\ log \in [Sources -> Seq([recv : Nat, kind : Kinds])]
    /\ taken \in [Sources -> Nat]
    /\ \A s \in Sources : taken[s] <= Len(log[s])
    /\ buffers \in [Sampled -> SUBSET Nat]
    /\ \A s \in Sampled : buffers[s] \subseteq 1 .. taken[s]
    /\ lastJoined \in Int
    /\ over \subseteq Sources
    /\ pc \in [stage : {"loop", "first", "last", "done"}, next : 1 .. 4]

\* Events are numbered in the order of their receipt.
LogsAreOrdered ==
    \A s \in Sources : \A i, k \in DOMAIN log[s] :
        /\ log[s][i].recv <= clock
        /\ i <= k => log[s][i].recv <= log[s][k].recv
\* A sample that left its queue is at hand, unless it made way for others.
SamplesAreKept ==
    \A s \in Sampled : \A n \in 1 .. taken[s] :
        Samples(s, n) /\ <<s, n>> \notin gone => n \in buffers[s]
\* A joined row is about events that were logged.
JoinsAreLogged ==
    \A j \in join :
        /\ j.asOf \in Nat
        /\ \A s \in Sampled : /\ j.known[s] \in 0 .. Len(log[s])
                             /\ j.sample[s] \in {None} \cup 1 .. Len(log[s])
\* What the last cycle has been over is empty once its source has ended.
OverIsDrained ==
    pc.stage \in {"last", "done"} =>
        \A i \in 1 .. 3 :
            (Order[i] \in over /\ (i < pc.next \/ pc.stage = "done")) =>
                taken[Order[i]] = Len(log[Order[i]])
DoneIsLast == pc.stage = "done" => pc.next = 1

CollectorInv ==
    /\ CollectorTypeOK /\ LogsAreOrdered /\ SamplesAreKept /\ JoinsAreLogged
    /\ OverIsDrained /\ DoneIsLast /\ JoinedPointInTime
=============================================================================
