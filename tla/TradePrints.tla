----------------------------- MODULE TradePrints -----------------------------
(***************************************************************************)
(* The record of public trades: the collector's poller (collector.py,      *)
(* _TradePoller) asks for everything since a watermark every so often, and *)
(* the backfill command (backfill_trades.py) walks over a span in chunks.  *)
(* Both write to the same files.  Times are in seconds; the venue answers  *)
(* with the newest trades of all series first, and cuts a long answer off. *)
(***************************************************************************)
EXTENDS Integers, FiniteSets, SequencesExt

CONSTANTS
    BackOff,    \* how far the watermark stays behind: 2 s
    Late,       \* a trade is published within this time
    PageCap,    \* trades in an answer: limit * max_pages
    SeenCap,    \* ids the poller remembers
    Chunk,      \* length of a chunk of the backfill
    MaxTrades,  \* bound: trades
    MaxClock    \* bound

VARIABLES
    clock,
    tape,       \* the venue's trades, as published: [at, own]; the id is the index
    watermark, seen,        \* the poller's
    disk,       \* ids of the own trades recorded
    fill,       \* the backfill command: where it is, what it knew, how it went
    cut         \* own trades that an answer left out, cut off

vars == <<clock, tape, watermark, seen, disk, fill, cut>>

NoFill == [pc |-> "none"]

Own(ids) == {i \in ids : tape[i].own}

\* The venue's trades of a span; and what of them an answer holds.
Between(low, high) == {i \in DOMAIN tape : low <= tape[i].at /\ tape[i].at <= high}
Answers(ids, cap) ==
    {page \in SUBSET ids :
        /\ Cardinality(page) = IF Cardinality(ids) < cap THEN Cardinality(ids) ELSE cap
        /\ \A i \in page, j \in ids \ page : tape[i].at >= tape[j].at}

Init ==
    /\ clock = 0
    /\ tape = <<>>
    /\ watermark = 0 /\ seen = <<>>
    /\ disk = {}
    /\ fill = NoFill
    /\ cut = {}

Tick ==
    /\ clock < MaxClock
    /\ clock' = clock + 1
    /\ UNCHANGED <<tape, watermark, seen, disk, fill, cut>>

\* A trade, which may be published a little after its time.
Trade(at, own) ==
    /\ Len(tape) < MaxTrades
    /\ tape' = Append(tape, [at |-> at, own |-> own])
    /\ UNCHANGED <<clock, watermark, seen, disk, fill, cut>>
-----------------------------------------------------------------------------
(* The poller.                                                             *)

MaxOf(S, least) == CHOOSE x \in S \cup {least} : \A y \in S \cup {least} : x >= y

\* A plausible mistake: the watermark does not stay behind.
Advance_noBackOff(ids) == MaxOf({tape[i].at + 1 : i \in ids}, watermark)
\* The watermark after writing `ids`: never lower.
Advance(ids) ==
    LET newest == MaxOf({tape[i].at : i \in ids}, watermark)
    IN IF newest = 0 THEN watermark ELSE MaxOf({newest - BackOff}, watermark)

\* The order in which an answer holds them.
Listed(ids) ==
    {list \in SetToSeqs(ids) :
        \A k, n \in DOMAIN list : k < n => tape[list[k]].at >= tape[list[n]].at}
LastOf(ids, cap) ==
    IF Len(ids) > cap THEN SubSeq(ids, Len(ids) - cap + 1, Len(ids)) ELSE ids

\* One answer: the new trades of the series are recorded, and remembered.
Poll ==
    \E page \in Answers(Between(watermark, clock), PageCap) :
        LET new == Own(page) \ Range(seen)
        IN /\ disk' = disk \cup new
           /\ watermark' = Advance(new)
           /\ \E list \in Listed(new) : seen' = LastOf(seen \o list, SeenCap)
           /\ cut' = cut \cup (Own(Between(watermark, clock)) \ page)
           /\ UNCHANGED <<clock, tape, fill>>

\* The collector starts again: the poller remembers nothing.
Restart ==
    /\ watermark' = 0 /\ seen' = <<>>
    /\ UNCHANGED <<clock, tape, disk, fill, cut>>
-----------------------------------------------------------------------------
(* The backfill.                                                           *)

BackfillStart(start) ==
    /\ fill.pc # "running"
    /\ fill' = [pc |-> "running", start |-> start, end |-> clock, t |-> start,
                known |-> disk, whole |-> TRUE,
                before |-> Own(Between(start, clock))]
    /\ UNCHANGED <<clock, tape, watermark, seen, disk, cut>>

ChunkEnd == IF fill.t + Chunk < fill.end THEN fill.t + Chunk ELSE fill.end

\* A plausible mistake: a page that is just full passes for a whole one.
Full_over(page) == Cardinality(page) > PageCap
\* The answer may lack some: a warning, and a count.
Full(page) == Cardinality(page) >= PageCap

\* A chunk: its new trades are flushed before the next.
BackfillChunk ==
    /\ fill.pc = "running" /\ fill.t < fill.end
    /\ \E page \in Answers(Between(fill.t, ChunkEnd), PageCap) :
          LET new == Own(page) \ fill.known
          IN /\ disk' = disk \cup new
             /\ fill' = [fill EXCEPT
                    !.t = ChunkEnd,
                    !.known = @ \cup new,
                    !.whole = @ /\ ~Full(page)]
    /\ UNCHANGED <<clock, tape, watermark, seen, cut>>

\* The call fails: the chunk is counted as an error, and left.
BackfillChunkFails ==
    /\ fill.pc = "running" /\ fill.t < fill.end
    /\ fill' = [fill EXCEPT !.t = ChunkEnd, !.whole = FALSE]
    /\ UNCHANGED <<clock, tape, watermark, seen, disk, cut>>

BackfillEnd ==
    /\ fill.pc = "running" /\ fill.t >= fill.end
    /\ fill' = [fill EXCEPT !.pc = "done"]
    /\ UNCHANGED <<clock, tape, watermark, seen, disk, cut>>

BackfillDies ==
    /\ fill.pc = "running"
    /\ fill' = NoFill
    /\ UNCHANGED <<clock, tape, watermark, seen, disk, cut>>

Next ==
    \/ Tick
    \/ \E late \in 0 .. Late, own \in BOOLEAN :
          late <= clock /\ Trade(clock - late, own)
    \/ Poll \/ Restart
    \/ \E start \in 0 .. clock : BackfillStart(start)
    \/ BackfillChunk \/ BackfillChunkFails \/ BackfillEnd \/ BackfillDies

Spec == Init /\ [][Next]_vars
-----------------------------------------------------------------------------
(* Properties.                                                             *)

\* The poller moves past a trade of the series only when it is recorded or was
\* cut off by the page cap: the back-off covers late publication.
PassedOnlyIfKept ==
    \A i \in Own(DOMAIN tape) : tape[i].at < watermark => i \in disk \cup cut

\* A backfill that reported no error and no full page has recorded every trade
\* of its span that was published before it began (backfill_trades).
BackfillCompletes ==
    fill.pc = "done" /\ fill.whole /\ fill.start < fill.end => fill.before \subseteq disk
-----------------------------------------------------------------------------
(* What the proofs rest on.                                                *)

\* The watermark backs off as far as trades are published late.
PrintsAssumption ==
    /\ BackOff \in Nat /\ Late \in Nat /\ Late <= BackOff
    /\ PageCap \in Nat /\ SeenCap \in Nat /\ Chunk \in Nat \ {0}

\* A trade is on the tape after its time, and the watermark is behind the clock.
PrintsTypeOK ==
    /\ clock \in Nat /\ watermark \in Nat
    /\ tape \in Seq([at : Nat, own : BOOLEAN])
    /\ \A i \in DOMAIN tape : tape[i].at <= clock
    /\ seen \in Seq(DOMAIN tape) /\ disk \subseteq DOMAIN tape
    /\ fill \in {NoFill} \cup
           [pc : {"running", "done"}, start : Nat, end : Nat, t : Nat,
            known : SUBSET (DOMAIN tape), whole : BOOLEAN,
            before : SUBSET (DOMAIN tape)]

WatermarkTrails == watermark = 0 \/ watermark + BackOff <= clock
\* What the poller remembers it has recorded.
SeenIsKept == \A k \in DOMAIN seen : seen[k] \in disk
\* What the backfill knows is recorded, and what it went over it knows.
FillIsSound ==
    fill.pc # "none" =>
        /\ fill.known \subseteq disk
        /\ fill.start <= fill.t /\ (fill.pc = "done" => fill.end <= fill.t)
        /\ \A i \in fill.before : /\ tape[i].own
                                 /\ fill.start <= tape[i].at /\ tape[i].at <= fill.end
        /\ fill.whole /\ fill.start < fill.t =>
               \A i \in fill.before : tape[i].at <= fill.t => i \in disk

PrintsInv ==
    /\ PrintsTypeOK /\ WatermarkTrails /\ SeenIsKept /\ FillIsSound
    /\ PassedOnlyIfKept
=============================================================================
