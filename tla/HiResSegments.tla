--------------------------- MODULE HiResSegments ---------------------------
(***************************************************************************)
(* One stream's segment files on disk: the writer appends to the open one, *)
(* its compression thread replaces closed ones by .gz files (writer.py),   *)
(* and the compaction command, another process, does the same to whatever  *)
(* has not been modified for a while and removes what is too old           *)
(* (compaction.py).  Nothing but modification times tells the compaction   *)
(* which segment is open.  Either process may die at any moment.           *)
(*                                                                         *)
(* Time is counted in units much longer than a flush interval, so nothing  *)
(* stays buffered when the clock advances.                                 *)
(***************************************************************************)
EXTENDS Integers, FiniteSetsExt, SequencesExt

CONSTANTS
    Rotate,             \* rotate_every_seconds
    Grace,              \* active_grace_seconds
    RetainFor,          \* the retention of this kind of stream; 0 is for ever
    MaxSegs, MaxRows, MaxClock

VARIABLES
    clock, row,         \* row: how many rows were written
    open,               \* the writer's handle: [seg, since], or None
    files,              \* seg :> [there, kept, buffered, mtime]
    gz,                 \* seg :> [state, owner, has, mtime]
    queue,              \* closed segments for the compression thread
    job,                \* what each compressor is doing: [seg, step], or None
    scan,               \* the running compaction: [now, left], or None
    torn                \* segments whose last copy was lost with its copier

segVars == <<clock, row, open, files, gz, queue, job, scan, torn>>

None == [none |-> TRUE]
Segs == 1 .. MaxSegs
Compressors == {"worker", "compaction"}
Never == -1
Created == {s \in Segs : files[s].mtime # Never}
NextSegment == Min((1 .. MaxSegs + 1) \ Created)
-----------------------------------------------------------------------------
(* The writer.                                                             *)

\* Buffered rows reach the file, and its modification time with them.
Synced(f) == IF f.buffered = {} THEN f
             ELSE [f EXCEPT !.kept = @ \cup f.buffered, !.buffered = {},
                            !.mtime = clock]

\* _write_item: a segment that is due is closed and handed over first.
Write ==
    LET due == open # None /\ clock - open.since >= Rotate
        fresh == open = None \/ due
        seg == IF fresh THEN NextSegment ELSE open.seg
    IN  /\ row < MaxRows /\ seg \in Segs
        /\ row' = row + 1
        /\ open' = IF fresh THEN [seg |-> seg, since |-> clock] ELSE open
        /\ files' = [s \in Segs |->
              IF s = seg
              THEN [there |-> files[s].there \/ fresh, kept |-> files[s].kept,
                    buffered |-> files[s].buffered \cup {row'},
                    mtime |-> IF fresh THEN clock ELSE files[s].mtime]
              ELSE IF due /\ s = open.seg THEN Synced(files[s]) ELSE files[s]]
        /\ queue' = IF due THEN Append(queue, open.seg) ELSE queue
        /\ UNCHANGED <<clock, gz, job, scan, torn>>

Flush ==
    /\ open # None /\ files[open.seg].buffered # {}
    /\ files' = [files EXCEPT ![open.seg] = Synced(@)]
    /\ UNCHANGED <<clock, row, open, gz, queue, job, scan, torn>>

Tick ==
    /\ clock < MaxClock /\ \A s \in Segs : files[s].buffered = {}
    /\ clock' = clock + 1
    /\ UNCHANGED <<row, open, files, gz, queue, job, scan, torn>>
-----------------------------------------------------------------------------
(* The compressors: copy, then remove.                                     *)

\* Opening the copy truncates what another compressor may have put there.
Begin(who, s) ==
    /\ job' = [job EXCEPT ![who] = [seg |-> s, step |-> "copy"]]
    /\ gz' = [gz EXCEPT ![s] = [state |-> "partial", owner |-> who, has |-> {},
                                mtime |-> clock]]

WorkerTakes ==
    /\ job["worker"] = None /\ queue # <<>>
    /\ queue' = Tail(queue)
    /\ IF files[Head(queue)].there
       THEN Begin("worker", Head(queue))
       ELSE UNCHANGED <<job, gz>>
    /\ UNCHANGED <<clock, row, open, files, scan, torn>>

\* Both copies of a segment are the same bytes: the file is whole once the
\* compressor that truncated it last is through.
Copied(who) ==
    /\ job[who] # None /\ job[who].step = "copy"
    /\ LET s == job[who].seg
       IN  gz' = IF gz[s].owner = who
                 THEN [gz EXCEPT ![s] = [state |-> "whole", owner |-> who,
                                         has |-> files[s].kept, mtime |-> clock]]
                 ELSE gz
    /\ job' = [job EXCEPT ![who].step = "remove"]
    /\ UNCHANGED <<clock, row, open, files, queue, scan, torn>>

\* If the other has removed it already, the error is counted or skipped.
Removed(who) ==
    /\ job[who] # None /\ job[who].step = "remove"
    /\ files' = [files EXCEPT ![job[who].seg].there = FALSE]
    /\ job' = [job EXCEPT ![who] = None]
    /\ UNCHANGED <<clock, row, open, gz, queue, scan, torn>>
-----------------------------------------------------------------------------
(* run_hires_compact, with --write.                                        *)

StartCompaction ==
    /\ scan = None
    /\ scan' = [now |-> clock, left |-> {s \in Segs : files[s].there}]
    /\ UNCHANGED <<clock, row, open, files, gz, queue, job, torn>>

\* Mutant: every segment is taken for closed.
Quiet_always(mtime) == TRUE
Quiet(mtime) == scan.now - mtime >= Grace

\* Mutant: a segment whose copy was begun is left alone.
Due_uncopied(s) ==
    files[s].there /\ Quiet(files[s].mtime) /\ gz[s].state = "none"
Due(s) == files[s].there /\ Quiet(files[s].mtime)

Inspect ==
    /\ scan # None /\ job["compaction"] = None /\ scan.left # {}
    /\ LET s == Min(scan.left)
       IN  /\ scan' = [scan EXCEPT !.left = @ \ {s}]
           /\ IF Due(s) THEN Begin("compaction", s) ELSE UNCHANGED <<job, gz>>
    /\ UNCHANGED <<clock, row, open, files, queue, torn>>

TooOld(mtime) == RetainFor > 0 /\ Quiet(mtime) /\ scan.now - mtime > RetainFor
\* The retention pass, and the end of the command.
Retain ==
    /\ scan # None /\ job["compaction"] = None /\ scan.left = {}
    /\ files' = [s \in Segs |-> IF TooOld(files[s].mtime)
                                THEN [files[s] EXCEPT !.there = FALSE]
                                ELSE files[s]]
    /\ gz' = [s \in Segs |-> IF TooOld(gz[s].mtime)
                             THEN [gz[s] EXCEPT !.state = "none"] ELSE gz[s]]
    /\ scan' = None
    /\ UNCHANGED <<clock, row, open, queue, job, torn>>
-----------------------------------------------------------------------------
(* Crashes.                                                                *)

\* A copy that dies with its copier when the source is gone, or about to go.
Torn(who) ==
    IF job[who] = None THEN {}
    ELSE {s \in {job[who].seg} :
             /\ job[who].step = "copy" /\ gz[s].owner = who
             /\ \/ ~files[s].there
                \/ \E other \in Compressors \ {who} :
                      job[other] # None /\ job[other].seg = s}

\* The collector dies, or ends; it may start again with Write.
CollectorDies ==
    /\ open # None \/ job["worker"] # None \/ queue # <<>>
    /\ open' = None /\ queue' = <<>>
    /\ files' = [s \in Segs |-> [files[s] EXCEPT !.buffered = {}]]
    /\ torn' = torn \cup Torn("worker")
    /\ job' = [job EXCEPT !["worker"] = None]
    /\ UNCHANGED <<clock, row, gz, scan>>

CompactionDies ==
    /\ scan # None
    /\ scan' = None
    /\ torn' = torn \cup Torn("compaction")
    /\ job' = [job EXCEPT !["compaction"] = None]
    /\ UNCHANGED <<clock, row, open, files, gz, queue>>
-----------------------------------------------------------------------------
Init ==
    /\ clock = 0 /\ row = 0
    /\ open = None
    /\ files = [s \in Segs |->
                   [there |-> FALSE, kept |-> {}, buffered |-> {}, mtime |-> Never]]
    /\ gz = [s \in Segs |->
                [state |-> "none", owner |-> "worker", has |-> {}, mtime |-> 0]]
    /\ queue = <<>>
    /\ job = [who \in Compressors |-> None]
    /\ scan = None
    /\ torn = {}

Next ==
    \/ Write \/ Flush \/ Tick
    \/ WorkerTakes
    \/ StartCompaction \/ Inspect \/ Retain
    \/ \E who \in Compressors : Copied(who) \/ Removed(who)
    \/ CollectorDies \/ CompactionDies

Spec == Init /\ [][Next]_segVars
-----------------------------------------------------------------------------
(* Properties.                                                             *)

BeingCopied(s) == \E who \in Compressors :
                     job[who] # None /\ job[who].seg = s /\ gz[s].owner = who
Readable(s) == (IF files[s].there THEN files[s].kept ELSE {})
               \cup (IF gz[s].state = "whole" THEN gz[s].has ELSE {})
Expired(s) == RetainFor > 0 /\ clock - files[s].mtime > RetainFor

\* What was flushed can be read, from the segment or from its copy, however
\* the writer, its compressor and compactions overlap or die, until it is
\* past its retention: a segment is never taken away while it is open.  Lost
\* only is a segment that both were copying when one of them died.
RowsSurvive ==
    \A s \in Segs \ torn :
        \/ files[s].kept \subseteq Readable(s)
        \/ BeingCopied(s) \/ Expired(s)

\* A compaction that ran to its end leaves no half-written copy, unless its
\* segment was still young when the command started or is being copied.
CompactionRepaired ==
    (scan # None /\ scan' = None /\ job["compaction"] = None /\ scan.left = {}) =>
        \A s \in Segs \ torn :
            gz'[s].state = "partial" =>
                BeingCopied(s) \/ (files'[s].there /\ ~Quiet(files[s].mtime))
-----------------------------------------------------------------------------
(* What the proofs rest on.                                                *)

\* A segment is closed before the compaction takes it for closed.
SegmentsAssumption ==
    /\ Rotate \in Nat \ {0} /\ Grace \in Nat /\ Rotate <= Grace
    /\ RetainFor \in Nat /\ MaxSegs \in Nat

SegmentsTypeOK ==
    /\ clock \in Nat /\ row \in Nat
    /\ open \in {None} \cup [seg : Segs, since : Nat]
    /\ files \in [Segs -> [there : BOOLEAN, kept : SUBSET Nat,
                           buffered : SUBSET Nat, mtime : Nat \cup {Never}]]
    /\ gz \in [Segs -> [state : {"none", "partial", "whole"}, owner : Compressors,
                        has : SUBSET Nat, mtime : Nat]]
    /\ queue \in Seq(Segs)
    /\ job \in [Compressors -> {None} \cup [seg : Segs, step : {"copy", "remove"}]]
    /\ scan \in {None} \cup [now : Nat, left : SUBSET Segs]
    /\ torn \subseteq Segs

JobOn(who, s) == job[who] # None /\ job[who].seg = s
\* It copies `s`, and was the last to begin to.
Copies(who, s) == JobOn(who, s) /\ job[who].step = "copy" /\ gz[s].owner = who
Copying(s) == \E who \in Compressors : Copies(who, s)

\* Nothing is written to it any more: the next row goes to another.
Sealed(s) ==
    /\ s \in Created /\ files[s].buffered = {}
    /\ open = None \/ open.seg # s \/ clock - open.since >= Rotate

\* Times do not run ahead, and only the open segment is younger than Rotate.
TimesAgree ==
    /\ \A s \in Segs : files[s].mtime <= clock
    /\ open # None => /\ open.seg \in Created
                      /\ open.since <= files[open.seg].mtime
    /\ scan # None => scan.now <= clock
    /\ \A s \in Segs : files[s].buffered # {} =>
          open # None /\ open.seg = s /\ clock - open.since < Rotate

\* What a compressor has or may take is sealed, and so is what is gone.
OnlySealedTaken ==
    /\ \A s \in Segs : files[s].there => s \in Created
    /\ \A s \in Segs : s \notin Created => files[s].kept = {}
    /\ \A s \in Created : Sealed(s) \/ files[s].there
    /\ \A s \in Segs : gz[s].state # "none" =>
          Sealed(s) /\ files[s].mtime <= gz[s].mtime
    /\ \A s \in Segs, who \in Compressors : JobOn(who, s) => Sealed(s)
    /\ \A s \in Segs, k \in DOMAIN queue : queue[k] = s => Sealed(s)

\* A whole copy is one of everything; while a segment is gone, or about to go,
\* there is one, or there will be.
CopyIsThere ==
    /\ \A s \in Segs : gz[s].state = "whole" => files[s].kept \subseteq gz[s].has
    /\ \A s \in Created \ torn :
          ~files[s].there \/ (\E who \in Compressors : JobOn(who, s)) =>
              gz[s].state = "whole" \/ Copying(s) \/ Expired(s)

\* What was begun and left has its segment still.
LeftIsThere ==
    \A s \in Segs \ torn : gz[s].state = "partial" /\ ~Copying(s) =>
        files[s].there /\ \A who \in Compressors : ~JobOn(who, s)

\* The compaction has yet to come to every segment that is not young, or is
\* at it.
ScanComesToAll ==
    scan # None => \A s \in Segs :
        files[s].there /\ Quiet(files[s].mtime) =>
            s \in scan.left \/ JobOn("compaction", s)

SegmentsInv ==
    /\ SegmentsTypeOK /\ TimesAgree /\ OnlySealedTaken /\ CopyIsThere
    /\ LeftIsThere /\ ScanComesToAll
=============================================================================
