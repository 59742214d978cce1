----------------------------- MODULE HiResWriter -----------------------------
(***************************************************************************)
(* The threaded row writer of the high-resolution recorder                 *)
(* (hires/writer.py): the collector thread submits rows to a bounded       *)
(* queue that drops by priority, one writer thread moves them into segment *)
(* files and rotates these, a third thread compresses what was closed, and *)
(* the collector ends it all with stop(), whose joins time out.  The queue *)
(* and the compression queue have a lock each; the table of open handles   *)
(* is shared by the writer and stop() and the writer takes no lock for it. *)
(* Rows are abstracted to their (dest, stream) key and their arrival       *)
(* number.  The synchronous mode, where no thread runs, is left out.       *)
(***************************************************************************)
EXTENDS Naturals, Sequences, FiniteSets, SequencesExt

CONSTANTS
    Keys,           \* the (dest, stream) pairs that are recorded
    Priority,       \* stream_priority of each; 0 is never dropped
    MaxSize,        \* queue_maxsize
    Policies,       \* the drop_policy settings
    BatchSize,      \* max_items of get_batch
    IoErrors,       \* writing a row or compressing a file may raise
    MaxRows,        \* bound: rows submitted
    MaxSegments     \* bound: segments up to which files are rotated

ASSUME WriterAssumption ==
    /\ Priority \in [Keys -> 0 .. 3]
    /\ MaxSize \in Nat \ {0} /\ BatchSize \in Nat \ {0}
    /\ Policies \subseteq {"drop_low_priority", "drop_oldest_low_priority", "block"}
    /\ IoErrors \in BOOLEAN /\ MaxRows \in Nat /\ MaxSegments \in Nat

VARIABLES
    policy,     \* the setting this recorder was started with
    caller,     \* where the collector thread is
    arrived,    \* rows submitted so far
    queue,      \* PriorityDropQueue._dq
    pending,    \* the rows put() is holding back under the "block" policy
    dropped,    \* rows counted in dropped_by_stream
    stop,       \* the _stop event
    writer,     \* the writer thread: its loop, its final drain, its end
    batch,      \* what get_batch gave it and it has not yet written
    target,     \* the segment _segment returned for Head(batch), or 0
    segs,       \* every segment file: its key and the rows written to it
    handles,    \* key -> number of its open segment, or 0
    failed,     \* rows lost to an exception in _write_item
    toClose,    \* keys stop() has still to close
    compQ,      \* closed segments waiting for compression
    comp,       \* the compression thread
    gzipping,   \* the segment it holds, or 0
    zipped,     \* segments replaced by their .gz
    late        \* history: stop() gave up waiting for the writer
vars == <<policy, caller, arrived, queue, pending, dropped, stop, writer, batch,
          target, segs, handles, failed, toClose, compQ, comp, gzipping, zipped, late>>

queueVars == <<arrived, queue, pending, dropped>>
writerVars == <<writer, batch, target, segs, failed>>
compVars == <<comp, gzipping, zipped>>

Rows == [id : Nat, key : Keys]
High(row) == Priority[row.key] = 0
Segments == 1 .. Len(segs)

TypeOK ==
    /\ policy \in Policies
    /\ caller \in {"recording", "blocked", "joining", "closing", "joiningComp",
                   "returned", "exited"}
    /\ arrived \in Nat
    /\ queue \in Seq(Rows) /\ pending \in Seq(Rows) /\ batch \in Seq(Rows)
    /\ dropped \subseteq Rows /\ failed \subseteq Rows
    /\ stop \in BOOLEAN /\ late \in BOOLEAN
    /\ writer \in {"run", "drain", "done"} /\ comp \in {"run", "done"}
    /\ segs \in Seq([key : Keys, rows : Seq(Rows)])
    /\ handles \in [Keys -> 0 .. Len(segs)]
    /\ target \in 0 .. Len(segs) /\ gzipping \in 0 .. Len(segs)
    /\ compQ \in Seq(Segments) /\ zipped \subseteq Segments
    /\ toClose \subseteq Keys

Init ==
    /\ policy \in Policies
    /\ caller = "recording" /\ arrived = 0 /\ queue = <<>> /\ pending = <<>>
    /\ dropped = {} /\ stop = FALSE /\ late = FALSE
    /\ writer = "run" /\ batch = <<>> /\ target = 0
    /\ segs = <<>> /\ handles = [k \in Keys |-> 0] /\ failed = {}
    /\ toClose = {} /\ compQ = <<>> /\ comp = "run" /\ gzipping = 0 /\ zipped = {}

Alive == caller # "exited"
-----------------------------------------------------------------------------
(* The collector thread in submit(): PriorityDropQueue.put, one critical    *)
(* section unless it waits.                                                 *)

Row(k) == [id |-> arrived + 1, key |-> k]
Full == Len(queue) >= MaxSize

Admit_equal(row) == ~Full          \* mutant: priority 0 is nothing special

Admit(row) == Full => High(row)

\* mutant: the oldest row goes, whatever it is
Victim_any(row) == 1
\* The oldest row that may make way for the incoming one, or 0.
Victim(row) ==
    LET V == {i \in DOMAIN queue :
                /\ Priority[queue[i].key] >= 1
                /\ Priority[queue[i].key] >= Priority[row.key]}
    IN  IF V = {} THEN 0 ELSE CHOOSE i \in V : \A j \in V : i <= j

Arrives(k) ==
    /\ Alive /\ caller = "recording" /\ arrived < MaxRows
    /\ arrived' = arrived + 1
    /\ UNCHANGED <<stop, writerVars, handles, toClose, compQ, compVars, late>>

Queue(k) ==
    /\ Arrives(k) /\ Admit(Row(k))
    /\ queue' = Append(queue, Row(k))
    /\ UNCHANGED <<caller, pending, dropped>>

QueueEvicting(k) ==
    /\ Arrives(k) /\ ~Admit(Row(k))
    /\ policy = "drop_oldest_low_priority" /\ Victim(Row(k)) # 0
    /\ queue' = Append(RemoveAt(queue, Victim(Row(k))), Row(k))
    /\ dropped' = dropped \cup {queue[Victim(Row(k))]}
    /\ UNCHANGED <<caller, pending>>

Drop(k) ==
    /\ Arrives(k) /\ ~Admit(Row(k))
    /\ \/ policy = "drop_low_priority"
       \/ policy = "drop_oldest_low_priority" /\ Victim(Row(k)) = 0
    /\ dropped' = dropped \cup {Row(k)}
    /\ UNCHANGED <<caller, queue, pending>>

\* "block": wait for at most 0.2 s with the lock released, then look again.
Block(k) ==
    /\ Arrives(k) /\ ~Admit(Row(k)) /\ policy = "block"
    /\ pending' = <<Row(k)>> /\ caller' = "blocked"
    /\ UNCHANGED <<queue, dropped>>

\* mutant: the row is added without looking again
Unblock_unchecked ==
    /\ caller = "blocked"
    /\ queue' = Append(queue, Head(pending))
    /\ pending' = <<>> /\ caller' = "recording"
    /\ UNCHANGED <<arrived, dropped, stop, writerVars, handles, toClose, compQ,
                   compVars, late>>

Unblock ==
    /\ caller = "blocked"
    /\ IF Full
       THEN dropped' = dropped \cup {Head(pending)} /\ UNCHANGED queue
       ELSE queue' = Append(queue, Head(pending)) /\ UNCHANGED dropped
    /\ pending' = <<>> /\ caller' = "recording"
    /\ UNCHANGED <<arrived, stop, writerVars, handles, toClose, compQ, compVars,
                   late>>
-----------------------------------------------------------------------------
(* The writer thread.                                                       *)

\* mutant: _close_segment does not look whether there is a handle
Closed_always(k, q) == Append(q, handles[k])
\* _close_segment: nothing happens if there is no handle any more.
Closed(k, q) == IF handles[k] = 0 THEN q ELSE Append(q, handles[k])

\* mutant: pop() for popleft()
Take_newest ==
    /\ Alive /\ writer # "done" /\ batch = <<>> /\ queue # <<>>
    /\ batch' = <<Last(queue)>> /\ queue' = Front(queue)
    /\ UNCHANGED <<caller, arrived, pending, dropped, stop, writer, target, segs,
                   handles, failed, toClose, compQ, compVars, late>>

\* mutant: a new batch is taken before the last one is written
Take_overwriting ==
    /\ Alive /\ writer # "done" /\ queue # <<>>
    /\ batch' = queue /\ queue' = <<>> /\ target' = 0
    /\ UNCHANGED <<caller, arrived, pending, dropped, stop, writer, segs,
                   handles, failed, toClose, compQ, compVars, late>>

Take ==
    /\ Alive /\ writer # "done" /\ batch = <<>> /\ queue # <<>>
    /\ LET n == IF Len(queue) < BatchSize THEN Len(queue) ELSE BatchSize
       IN  /\ batch' = SubSeq(queue, 1, n)
           /\ queue' = SubSeq(queue, n + 1, Len(queue))
    /\ UNCHANGED <<caller, arrived, pending, dropped, stop, writer, target, segs,
                   handles, failed, toClose, compQ, compVars, late>>

NeedsRow == Alive /\ batch # <<>> /\ target = 0

\* _segment finds an open handle that is not due for rotation.
Reuse ==
    /\ NeedsRow /\ handles[Head(batch).key] # 0
    /\ target' = handles[Head(batch).key]
    /\ UNCHANGED <<caller, queueVars, stop, writer, batch, segs, handles, failed,
                   toClose, compQ, compVars, late>>

\* There is none, or its time is up: it is closed and a new file opened.
Open ==
    /\ NeedsRow
    /\ LET k == Head(batch).key
       IN  /\ handles[k] # 0 => Len(segs) < MaxSegments
           /\ segs' = Append(segs, [key |-> k, rows |-> <<>>])
           /\ handles' = [handles EXCEPT ![k] = Len(segs) + 1]
           /\ compQ' = Closed(k, compQ)
    /\ target' = Len(segs) + 1
    /\ UNCHANGED <<caller, queueVars, stop, writer, batch, failed, toClose,
                   compVars, late>>

\* A file cannot be opened: the row is lost, the rotated segment is closed.
OpenFails ==
    /\ NeedsRow /\ IoErrors
    /\ LET k == Head(batch).key
       IN  /\ handles' = [handles EXCEPT ![k] = 0]
           /\ compQ' = Closed(k, compQ)
    /\ failed' = failed \cup {Head(batch)} /\ batch' = Tail(batch)
    /\ UNCHANGED <<caller, queueVars, stop, writer, target, segs, toClose,
                   compVars, late>>

IsOpen(s) == handles[segs[s].key] = s

\* mutant: the file is reopened and appended to if it was closed
WriteRow_unclosed ==
    /\ Alive /\ target # 0
    /\ segs' = [segs EXCEPT ![target].rows = Append(@, Head(batch))]
    /\ batch' = Tail(batch) /\ target' = 0
    /\ UNCHANGED <<caller, queueVars, stop, writer, failed, handles, toClose,
                   compQ, compVars, late>>

\* Writing to a file that stop() has closed meanwhile raises; so may the disk.
WriteRow ==
    /\ Alive /\ target # 0
    /\ \/ /\ IsOpen(target)
          /\ segs' = [segs EXCEPT ![target].rows = Append(@, Head(batch))]
          /\ UNCHANGED failed
       \/ /\ IoErrors \/ ~IsOpen(target)
          /\ failed' = failed \cup {Head(batch)} /\ UNCHANGED segs
    /\ batch' = Tail(batch) /\ target' = 0
    /\ UNCHANGED <<caller, queueVars, stop, writer, handles, toClose, compQ,
                   compVars, late>>

SeeStop ==
    /\ Alive /\ writer = "run" /\ batch = <<>> /\ stop
    /\ writer' = "drain"
    /\ UNCHANGED <<caller, queueVars, stop, batch, target, segs, handles, failed,
                   toClose, compQ, compVars, late>>

\* mutant: there is no final drain
WriterEnds_undrained ==
    /\ Alive /\ writer = "drain" /\ batch = <<>>
    /\ writer' = "done"
    /\ UNCHANGED <<caller, queueVars, stop, batch, target, segs, handles, failed,
                   toClose, compQ, compVars, late>>

WriterEnds ==
    /\ Alive /\ writer = "drain" /\ batch = <<>> /\ queue = <<>>
    /\ writer' = "done"
    /\ UNCHANGED <<caller, queueVars, stop, batch, target, segs, handles, failed,
                   toClose, compQ, compVars, late>>
-----------------------------------------------------------------------------
(* The compression thread.                                                  *)

\* mutant: compQ[0] is read and left there
CompTake_peek ==
    /\ Alive /\ comp = "run" /\ gzipping = 0 /\ compQ # <<>>
    /\ gzipping' = Head(compQ)
    /\ UNCHANGED <<caller, queueVars, stop, writerVars, handles, toClose, compQ,
                   comp, zipped, late>>

CompTake ==
    /\ Alive /\ comp = "run" /\ gzipping = 0 /\ compQ # <<>>
    /\ gzipping' = Head(compQ) /\ compQ' = Tail(compQ)
    /\ UNCHANGED <<caller, queueVars, stop, writerVars, handles, toClose, comp,
                   zipped, late>>

Gzip ==
    /\ Alive /\ gzipping # 0
    /\ zipped' = zipped \cup {gzipping} \/ (IoErrors /\ UNCHANGED zipped)
    /\ gzipping' = 0
    /\ UNCHANGED <<caller, queueVars, stop, writerVars, handles, toClose, compQ,
                   comp, late>>

\* mutant: the loop is "while not stopped"
CompEnds_atOnce ==
    /\ Alive /\ comp = "run" /\ gzipping = 0 /\ stop
    /\ comp' = "done"
    /\ UNCHANGED <<caller, queueVars, stop, writerVars, handles, toClose, compQ,
                   gzipping, zipped, late>>

\* The loop ends as soon as it finds the event set and nothing to compress.
CompEnds ==
    /\ Alive /\ comp = "run" /\ gzipping = 0 /\ stop /\ compQ = <<>>
    /\ comp' = "done"
    /\ UNCHANGED <<caller, queueVars, stop, writerVars, handles, toClose, compQ,
                   gzipping, zipped, late>>
-----------------------------------------------------------------------------
(* The collector thread in stop().                                          *)

Stop ==
    /\ caller = "recording"
    /\ stop' = TRUE /\ caller' = "joining"
    /\ UNCHANGED <<queueVars, writerVars, handles, toClose, compQ, compVars, late>>

\* The join returns, or its drain_timeout elapses; the open handles are listed.
JoinWriter ==
    /\ caller = "joining"
    /\ late' = (writer # "done")
    /\ toClose' = {k \in Keys : handles[k] # 0} /\ caller' = "closing"
    /\ UNCHANGED <<queueVars, stop, writerVars, handles, compQ, compVars>>

\* mutant: get() for pop()
CloseSegment_get(k) ==
    /\ caller = "closing" /\ k \in toClose
    /\ compQ' = Closed(k, compQ)
    /\ toClose' = toClose \ {k}
    /\ UNCHANGED <<caller, queueVars, stop, writerVars, handles, compVars, late>>

CloseSegment(k) ==
    /\ caller = "closing" /\ k \in toClose
    /\ compQ' = Closed(k, compQ)
    /\ handles' = [handles EXCEPT ![k] = 0]
    /\ toClose' = toClose \ {k}
    /\ UNCHANGED <<caller, queueVars, stop, writerVars, compVars, late>>

AllClosed ==
    /\ caller = "closing" /\ toClose = {}
    /\ caller' = "joiningComp"
    /\ UNCHANGED <<queueVars, stop, writerVars, handles, toClose, compQ,
                   compVars, late>>

\* This join, too, returns or gives up.
JoinComp ==
    /\ caller = "joiningComp"
    /\ caller' = "returned"
    /\ UNCHANGED <<queueVars, stop, writerVars, handles, toClose, compQ,
                   compVars, late>>

\* The process ends and takes its daemon threads with it.
Exit ==
    /\ caller = "returned"
    /\ caller' = "exited"
    /\ UNCHANGED <<queueVars, stop, writerVars, handles, toClose, compQ,
                   compVars, late>>

Submit == \E k \in Keys : Queue(k) \/ QueueEvicting(k) \/ Drop(k) \/ Block(k)
Writer == Take \/ Reuse \/ Open \/ OpenFails \/ WriteRow \/ SeeStop
          \/ WriterEnds
Compressor == CompTake \/ Gzip \/ CompEnds
Stopping == JoinWriter \/ (\E k \in Keys : CloseSegment(k)) \/ AllClosed
            \/ JoinComp

Next ==
    /\ Submit \/ Unblock \/ Writer \/ Compressor \/ Stop \/ Stopping \/ Exit
    /\ UNCHANGED policy

Spec == Init /\ [][Next]_vars
\* Every thread keeps running; each join of stop() returns; nobody has to call
\* submit() or stop(), and the process need not end.
FairSpec ==
    /\ Spec
    /\ WF_vars(Writer /\ UNCHANGED policy)
    /\ WF_vars(Compressor /\ UNCHANGED policy)
    /\ WF_vars((Stopping \/ Unblock) /\ UNCHANGED policy)
-----------------------------------------------------------------------------
(* What the writer promises.                                                *)

Written == UNION {{<<s, i>> : i \in DOMAIN segs[s].rows} : s \in Segments}
RowAt(place) == segs[place[1]].rows[place[2]]
Waiting == batch \o queue \o pending
Lost == dropped \cup failed

\* Every submitted row is in exactly one place: in a segment, on its way to
\* one, or among the rows the metrics report as dropped or as write errors
\* (put, get_batch and _write_item lose and duplicate nothing).
RowsAccounted ==
    /\ {RowAt(p).id : p \in Written} \cup {Waiting[i].id : i \in DOMAIN Waiting}
          \cup {r.id : r \in Lost} = 1 .. arrived
    /\ \A p, q \in Written : RowAt(p).id = RowAt(q).id => p = q
    /\ \A i, j \in DOMAIN Waiting : Waiting[i].id = Waiting[j].id => i = j
    /\ \A r, q \in Lost : r.id = q.id => r = q
    /\ \A p \in Written, i \in DOMAIN Waiting : RowAt(p).id # Waiting[i].id
    /\ \A r \in Lost : /\ \A p \in Written : RowAt(p).id # r.id
                       /\ \A i \in DOMAIN Waiting : Waiting[i].id # r.id
    /\ dropped \cap failed = {}

\* No policy ever drops or evicts a row of priority 0, however full the queue
\* (class comment of PriorityDropQueue: admitted unconditionally).
NeverDropped == \A r \in dropped : ~High(r)

\* Rows that may be dropped never take the queue over queue_maxsize, though
\* put() releases the lock while it waits for room.
DroppableBounded ==
    Cardinality({i \in DOMAIN queue : ~High(queue[i])}) <= MaxSize

\* What the queue gives up and what it does not, the two together: the rows to
\* keep may take it over its limit, the others may not.
DropPolicyHolds == NeverDropped /\ DroppableBounded

\* In the segments of a key, taken in the order they were opened, rows stand in
\* the order of their arrival, across rotations and across stop().
StreamOrder ==
    \A p, q \in Written :
        /\ RowAt(p).key = RowAt(q).key
        /\ p[1] < q[1] \/ (p[1] = q[1] /\ p[2] < q[2])
        => RowAt(p).id < RowAt(q).id

\* If the writer was joined in time, stop() leaves no row behind and no file
\* open: whatever was submitted is in a segment that was closed, or counted.
CleanStop ==
    caller \in {"joiningComp", "returned", "exited"} /\ ~late =>
        /\ queue = <<>> /\ batch = <<>>
        /\ \A k \in Keys : handles[k] = 0

HandedOver == {compQ[i] : i \in DOMAIN compQ} \cup zipped
                  \cup (IF gzipping = 0 THEN {} ELSE {gzipping})

\* A segment is handed to the compressor once: the writer rotating it and
\* stop() closing it, with a lock only one of them takes, never both queue it.
CompressedOnce ==
    /\ \A i, j \in DOMAIN compQ : compQ[i] = compQ[j] => i = j
    /\ \A i \in DOMAIN compQ : compQ[i] # gzipping /\ compQ[i] \notin zipped
    /\ gzipping \notin zipped

\* No row is written to a segment once it was handed to the compressor, which
\* removes the file: the writer that is caught by stop() with the segment in
\* its hand gets an error, and never a row in a file about to disappear.
HandedOverKept == \A s \in HandedOver : segs'[s] = segs[s]
ClosedIsFinal == [][HandedOverKept]_vars

\* A file rotated while the recorder runs is compressed in the end, or its one
\* attempt hit an I/O error: stop() does not make the compressor give up what
\* was queued before it.
RotatedIsCompressed ==
    \A s \in 1 .. MaxSegments + 1 :
        (~stop /\ \E i \in DOMAIN compQ : compQ[i] = s)
            ~> \/ s \in zipped \/ caller = "exited"
               \/ IoErrors /\ s \notin HandedOver

\* An accepted row reaches a segment, or is counted as evicted or failed, unless
\* stop() stopped waiting for the writer and the process ended.
RowSettles ==
    \A n \in 1 .. MaxRows :
        (\E i \in DOMAIN queue : queue[i].id = n)
            ~> \/ \E r \in Lost : r.id = n
               \/ \E p \in Written : RowAt(p).id = n
               \/ late /\ caller = "exited"

\* "finish compression backlog" (stop): when both threads were joined, every
\* segment that was closed has been compressed.
BacklogFinished ==
    caller = "returned" /\ writer = "done" /\ comp = "done" => compQ = <<>>
-----------------------------------------------------------------------------
(* The inductive invariant behind the theorems of HiResWriterProofs.        *)

\* A row in the writer's or put()'s hand is there and may be lost.
HandShape ==
    /\ target # 0 => batch # <<>>
    /\ caller = "blocked" => pending # <<>> /\ ~High(Head(pending))

\* An open handle is its key's own segment and nobody else has it.
OpenAreOwn ==
    \A k \in Keys : handles[k] # 0 =>
        segs[handles[k]].key = k /\ handles[k] \notin HandedOver

\* How far stop() and the writer may be from each other.
StopShape ==
    /\ stop <=> caller \notin {"recording", "blocked"}
    /\ writer # "run" => stop
    /\ writer = "done" => queue = <<>> /\ batch = <<>> /\ target = 0
    /\ ~late /\ caller \in {"closing", "joiningComp", "returned", "exited"}
          => writer = "done"
    /\ ~late /\ caller = "closing"
          => \A k \in Keys : handles[k] # 0 => k \in toClose

IInv == /\ TypeOK /\ HandShape /\ NeverDropped /\ OpenAreOwn /\ CompressedOnce
        /\ StopShape /\ CleanStop

Ids(s) == {s[i].id : i \in DOMAIN s}
WrittenIds == {RowAt(p).id : p \in Written}
LostIds == {r.id : r \in Lost}
InOrder(s) == \A i, j \in DOMAIN s : i < j => s[i].id < s[j].id
Before(A, B) == \A m \in A, n \in B : m < n

\* Rows go from hand to hand in the order of their arrival.
PassedOn ==
    /\ InOrder(batch) /\ InOrder(queue)
    /\ Len(pending) <= 1 /\ (caller # "blocked" => pending = <<>>)
    /\ Before(WrittenIds, Ids(batch) \cup Ids(queue) \cup Ids(pending))
    /\ Before(Ids(batch), Ids(queue) \cup Ids(pending))
    /\ Before(Ids(queue), Ids(pending))

\* No row is forgotten, and none that was given up turns up again.
Reckoned ==
    /\ WrittenIds \cup Ids(batch) \cup Ids(queue) \cup Ids(pending) \cup LostIds
          = 1 .. arrived
    /\ LostIds \cap (WrittenIds \cup Ids(batch) \cup Ids(queue) \cup Ids(pending)) = {}
    /\ \A r, q \in Lost : r.id = q.id => r = q
    /\ dropped \cap failed = {}

\* A key's open segment is its newest, and the one rows of the key are written to.
NewestIsOpen ==
    /\ target # 0 => segs[target].key = Head(batch).key
    /\ \A s \in Segments : handles[segs[s].key] # 0 => s <= handles[segs[s].key]

WrittenOnce == \A p, q \in Written : RowAt(p).id = RowAt(q).id => p = q
WrittenToOwn == \A p \in Written : RowAt(p).key = segs[p[1]].key

RowsInv == /\ PassedOn /\ Reckoned /\ NewestIsOpen /\ WrittenOnce /\ WrittenToOwn
           /\ StreamOrder
=============================================================================
