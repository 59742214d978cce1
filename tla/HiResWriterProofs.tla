-------------------------- MODULE HiResWriterProofs --------------------------
(***************************************************************************)
(* Proofs about the threaded row writer, for every set of keys, every      *)
(* queue size and batch size, every choice of drop policies and any number *)
(* of rows and rotations.                                                  *)
(***************************************************************************)
EXTENDS HiResWriter, SequenceLemmas

Segment == [key : Keys, rows : Seq(Rows)]

\* A larger set of members admits the same sequences.
LEMMA SeqWidens ==
    ASSUME NEW S, NEW T, S \subseteq T, NEW s \in Seq(S)
    PROVE  s \in Seq(T)
<1>1. Len(s) \in Nat /\ s \in [1..Len(s) -> S]
  BY LenProperties
<1>2. s \in [1..Len(s) -> T]
  BY <1>1
<1>3. QED BY <1>1, <1>2, SeqDef

\* The row that is submitted next is a row.
LEMMA RowIsRow ==
    ASSUME TypeOK, NEW k \in Keys
    PROVE  Row(k) \in Rows
BY DEF TypeOK, Row, Rows

\* The row put() evicts is in the queue, and not one of priority 0.
LEMMA VictimFacts ==
    ASSUME TypeOK, NEW r \in Rows, Victim(r) # 0
    PROVE  /\ Victim(r) \in 1..Len(queue)
           /\ queue[Victim(r)] \in Rows
           /\ ~High(queue[Victim(r)])
<1> DEFINE V == {i \in DOMAIN queue :
                    /\ Priority[queue[i].key] >= 1
                    /\ Priority[queue[i].key] >= Priority[r.key]}
<1>1. DOMAIN queue = 1..Len(queue) /\ Len(queue) \in Nat
  BY LenProperties DEF TypeOK
<1>2. Victim(r) = IF V = {} THEN 0 ELSE CHOOSE i \in V : \A j \in V : i <= j
  BY DEF Victim
<1>3. V \in SUBSET Nat /\ V # {}
  BY <1>1, <1>2
<1> HIDE DEF V
<1>4. \E i \in V : \A j \in V : i <= j
  BY <1>3, LeastNatural
<1>5. Victim(r) \in V
  BY <1>2, <1>3, <1>4
<1>6. Victim(r) \in 1..Len(queue) /\ Priority[queue[Victim(r)].key] >= 1
  BY <1>5, <1>1 DEF V
<1>7. queue[Victim(r)] \in Rows
  BY <1>6 DEF TypeOK
<1>8. QED BY <1>6, <1>7 DEF High

-----------------------------------------------------------------------------
(* Types.                                                                   *)

\* The parts of TypeOK that handing over a segment, or opening one, disturbs.
LEMMA ClosedTyped ==
    ASSUME TypeOK, NEW k \in Keys
    PROVE  /\ Closed(k, compQ) \in Seq(Segments)
           /\ Len(segs) \in Nat
<1>1. Len(segs) \in Nat
  BY LenProperties DEF TypeOK
<1>2. CASE handles[k] = 0
  BY <1>1, <1>2 DEF Closed, TypeOK
<1>3. CASE handles[k] # 0
  <2>1. handles[k] \in Segments
    BY <1>1, <1>3 DEF TypeOK, Segments
  <2>2. QED BY <1>1, <1>3, <2>1, AppendFacts DEF Closed, TypeOK
<1>4. QED BY <1>2, <1>3

\* Submitting, waiting and taking a batch keep the types.
LEMMA QueueKeepsTypes ==
    ASSUME TypeOK, HandShape, UNCHANGED policy, WriterAssumption,
           Submit \/ Unblock \/ Take
    PROVE  TypeOK'
<1>1. CASE Submit
  <2>1. PICK k \in Keys : Queue(k) \/ QueueEvicting(k) \/ Drop(k) \/ Block(k)
    BY <1>1 DEF Submit
  <2>2. Row(k) \in Rows /\ <<Row(k)>> \in Seq(Rows)
    BY RowIsRow
  <2>3. Append(queue, Row(k)) \in Seq(Rows)
    BY <2>2, AppendFacts DEF TypeOK
  <2>4. CASE Queue(k)
    BY <2>3, <2>4 DEF TypeOK, Queue, Arrives, writerVars, compVars, Segments
  <2>5. CASE QueueEvicting(k)
    <3>1. Victim(Row(k)) \in 1..Len(queue) /\ queue[Victim(Row(k))] \in Rows
      BY <2>2, <2>5, VictimFacts DEF QueueEvicting
    <3>2. RemoveAt(queue, Victim(Row(k))) \in Seq(Rows)
      BY <3>1, RemoveAtFacts DEF TypeOK
    <3>3. Append(RemoveAt(queue, Victim(Row(k))), Row(k)) \in Seq(Rows)
      BY <3>2, <2>2, AppendFacts
    <3>4. QED
      BY SMTT(30), <3>1, <3>3, <2>5
      DEF TypeOK, QueueEvicting, Arrives, writerVars, compVars, Segments
  <2>6. CASE Drop(k)
    BY <2>2, <2>6 DEF TypeOK, Drop, Arrives, writerVars, compVars, Segments
  <2>7. CASE Block(k)
    BY <2>2, <2>7 DEF TypeOK, Block, Arrives, writerVars, compVars, Segments
  <2>8. QED BY <2>1, <2>4, <2>5, <2>6, <2>7
<1>2. CASE Unblock
  <2>1. pending # <<>> /\ Head(pending) \in Rows
    BY <1>2, TailFacts DEF Unblock, HandShape, TypeOK
  <2>2. Append(queue, Head(pending)) \in Seq(Rows) /\ <<>> \in Seq(Rows)
    BY <2>1, AppendFacts DEF TypeOK
  <2>3. queue' \in Seq(Rows) /\ dropped' \subseteq Rows
    BY <2>1, <2>2, <1>2 DEF TypeOK, Unblock
  <2>4. QED
    BY <2>2, <2>3, <1>2 DEF TypeOK, Unblock, writerVars, compVars, Segments
<1>3. CASE Take
  <2> DEFINE n == IF Len(queue) < BatchSize THEN Len(queue) ELSE BatchSize
  <2>1. /\ n \in Nat /\ n <= Len(queue) /\ Len(queue) \in Nat
        /\ \A i \in 1..Len(queue) : queue[i] \in Rows
    BY LenProperties DEF TypeOK, WriterAssumption
  <2>2. batch' = SubSeq(queue, 1, n) /\ queue' = SubSeq(queue, n + 1, Len(queue))
    BY <1>3 DEF Take
  <2> HIDE DEF n
  <2>3. batch' \in Seq(Rows) /\ queue' \in Seq(Rows)
    BY <2>1, <2>2, SubSeqProperties
  <2>4. QED BY <2>3, <1>3 DEF TypeOK, Take, compVars, Segments
<1>4. QED BY <1>1, <1>2, <1>3

\* Opening a file, or failing to, keeps the types.
LEMMA OpeningKeepsTypes ==
    ASSUME TypeOK, UNCHANGED policy, Open \/ OpenFails
    PROVE  TypeOK'
<1> DEFINE k == Head(batch).key
<1>1. batch # <<>> /\ Head(batch) \in Rows /\ Tail(batch) \in Seq(Rows)
  BY TailFacts DEF Open, OpenFails, NeedsRow, TypeOK
<1>2. k \in Keys
  BY <1>1 DEF Rows
<1>3. Closed(k, compQ) \in Seq(Segments) /\ Len(segs) \in Nat
  BY <1>2, ClosedTyped
<1>4. CASE Open
  <2>1. /\ segs' = Append(segs, [key |-> k, rows |-> <<>>])
        /\ handles' = [handles EXCEPT ![k] = Len(segs) + 1]
        /\ compQ' = Closed(k, compQ) /\ target' = Len(segs) + 1
    BY <1>4 DEF Open
  <2>2. [key |-> k, rows |-> <<>>] \in Segment
    BY <1>2 DEF Segment
  <2> HIDE DEF k
  <2>3. segs' \in Seq(Segment) /\ Len(segs') = Len(segs) + 1
    BY <2>1, <2>2, AppendFacts DEF TypeOK, Segment
  <2>4. Segments \subseteq Segments' /\ Segments' = 1..(Len(segs) + 1)
    BY <1>3, <2>3 DEF Segments
  <2>5. compQ' \in Seq(Segments')
    BY ZenonT(60), <1>3, <2>1, <2>4, SeqWidens
  <2>6. /\ handles' \in [Keys -> 0..Len(segs')] /\ target' \in 0..Len(segs')
        /\ gzipping' \in 0..Len(segs') /\ zipped' \subseteq Segments'
    <3>1. /\ 0..Len(segs) \subseteq 0..Len(segs')
          /\ Len(segs) + 1 \in 0..Len(segs')
      BY <1>3, <2>3
    <3>2. handles \in [Keys -> 0..Len(segs')]
      BY <3>1 DEF TypeOK
    <3>3. handles' \in [Keys -> 0..Len(segs')]
      BY <2>1, <3>1, <3>2
    <3>4. gzipping' = gzipping /\ zipped' = zipped
      BY <1>4 DEF Open, compVars
    <3>5. gzipping \in 0..Len(segs) /\ zipped \subseteq Segments
      BY DEF TypeOK
    <3>6. QED BY <2>1, <2>4, <3>1, <3>3, <3>4, <3>5
  <2>7. QED
    BY <2>3, <2>5, <2>6, <1>4 DEF TypeOK, Open, Segment, queueVars, compVars
<1>5. CASE OpenFails
  <2>1. /\ handles' = [handles EXCEPT ![k] = 0] /\ compQ' = Closed(k, compQ)
        /\ failed' = failed \cup {Head(batch)} /\ batch' = Tail(batch)
    BY <1>5 DEF OpenFails
  <2> HIDE DEF k
  <2>2. handles' \in [Keys -> 0..Len(segs)]
    <3>1. handles \in [Keys -> 0..Len(segs)] /\ 0 \in 0..Len(segs)
      BY <1>3 DEF TypeOK
    <3>2. QED BY <2>1, <3>1
  <2>3. QED
    BY <1>1, <1>3, <1>5, <2>1, <2>2
    DEF TypeOK, OpenFails, queueVars, compVars, Segments
<1>6. QED BY <1>4, <1>5

\* What writing a row does to the files: the same number, with the same keys,
\* all but the target untouched, and the target only while it is open.
LEMMA WriteRowFacts ==
    ASSUME TypeOK, HandShape, WriteRow
    PROVE  /\ segs' \in Seq(Segment) /\ Len(segs') = Len(segs)
           /\ \A s \in Segments : segs'[s].key = segs[s].key
           /\ \A s \in Segments : s # target => segs'[s] = segs[s]
           /\ ~IsOpen(target) => segs' = segs
           /\ batch' \in Seq(Rows) /\ failed' \subseteq Rows
<1>1. batch # <<>> /\ Head(batch) \in Rows /\ Tail(batch) \in Seq(Rows)
  BY TailFacts DEF WriteRow, HandShape, TypeOK
<1>2. target \in 1..Len(segs) /\ Len(segs) \in Nat /\ segs \in Seq(Segment)
  BY LenProperties DEF WriteRow, TypeOK, Segment
<1>3. segs[target] \in Segment /\ segs[target].rows \in Seq(Rows)
  <2>1. segs[target] \in Segment
    BY <1>2
  <2>2. QED BY <2>1 DEF Segment
<1>4. CASE segs' = [segs EXCEPT ![target].rows = Append(@, Head(batch))]
             /\ UNCHANGED failed /\ IsOpen(target)
  <2> DEFINE new == [segs[target] EXCEPT !.rows = Append(@, Head(batch))]
  <2>1. Append(segs[target].rows, Head(batch)) \in Seq(Rows)
    BY <1>1, <1>3, AppendFacts
  <2>2. new \in Segment /\ new.key = segs[target].key
    BY <1>3, <2>1 DEF Segment
  <2>3. segs' = [segs EXCEPT ![target] = new]
    BY <1>4
  <2> HIDE DEF new
  <2>4. segs' \in Seq(Segment) /\ Len(segs') = Len(segs)
    BY <1>2, <2>2, <2>3
  <2>5. \A s \in Segments : segs'[s] = IF s = target THEN new ELSE segs[s]
    BY <1>2, <2>3 DEF Segments
  <2>6. QED BY <1>1, <1>4, <2>2, <2>4, <2>5 DEF WriteRow, TypeOK
<1>5. CASE failed' = failed \cup {Head(batch)} /\ UNCHANGED segs
  BY <1>1, <1>2, <1>5 DEF WriteRow, TypeOK
<1>6. QED BY <1>4, <1>5 DEF WriteRow

\* Every other step of the threads and of stop() keeps the types.
LEMMA ThreadsKeepTypes ==
    ASSUME TypeOK, HandShape, UNCHANGED policy,
           \/ Reuse \/ WriteRow \/ SeeStop \/ WriterEnds
           \/ Compressor \/ Stop \/ Stopping \/ Exit
    PROVE  TypeOK'
<1>1. Len(segs) \in Nat
  BY LenProperties DEF TypeOK
<1>2. CASE Reuse
  <2>1. Head(batch) \in Rows
    BY <1>2, TailFacts DEF Reuse, NeedsRow, TypeOK
  <2>2. handles[Head(batch).key] \in 0..Len(segs)
    BY <2>1 DEF Rows, TypeOK
  <2>3. QED BY <1>2, <2>2 DEF TypeOK, Reuse, queueVars, compVars, Segments
<1>3. CASE WriteRow
  <2>1. /\ segs' \in Seq(Segment) /\ Len(segs') = Len(segs)
        /\ batch' \in Seq(Rows) /\ failed' \subseteq Rows
    BY <1>3, WriteRowFacts
  <2>2. target' = 0 /\ target' \in 0..Len(segs)
    BY <1>1, <1>3 DEF WriteRow
  <2>3. QED
    BY <1>3, <2>1, <2>2 DEF TypeOK, WriteRow, Segment, Segments, queueVars, compVars
<1>4. CASE SeeStop
  BY <1>4 DEF TypeOK, SeeStop, queueVars, compVars, Segments
<1>5. CASE WriterEnds
  BY <1>5 DEF TypeOK, WriterEnds, queueVars, compVars, Segments
<1>6. CASE CompTake
  <2>1. Head(compQ) \in Segments /\ Tail(compQ) \in Seq(Segments)
    BY <1>6, TailFacts DEF CompTake, TypeOK
  <2>2. gzipping' \in 0..Len(segs)
    BY <1>1, <1>6, <2>1 DEF CompTake, Segments
  <2>3. QED
    BY <1>6, <2>1, <2>2 DEF TypeOK, CompTake, queueVars, writerVars, Segments
<1>7. CASE Gzip
  <2>1. gzipping \in Segments
    BY <1>1, <1>7 DEF Gzip, TypeOK, Segments
  <2>2. zipped' \subseteq Segments
    BY <1>7, <2>1 DEF Gzip, TypeOK
  <2>3. gzipping' = 0 /\ gzipping' \in 0..Len(segs)
    BY <1>1, <1>7 DEF Gzip
  <2>4. QED BY <1>7, <2>2, <2>3 DEF TypeOK, Gzip, queueVars, writerVars, Segments
<1>8. CASE CompEnds
  BY <1>8 DEF TypeOK, CompEnds, queueVars, writerVars, Segments
<1>9. CASE Stop
  BY <1>9 DEF TypeOK, Stop, queueVars, writerVars, compVars, Segments
<1>10. CASE JoinWriter
  BY <1>10 DEF TypeOK, JoinWriter, queueVars, writerVars, compVars, Segments
<1>11. CASE \E k \in Keys : CloseSegment(k)
  <2>1. PICK k \in Keys : CloseSegment(k)
    BY <1>11
  <2>2. compQ' \in Seq(Segments)
    BY <2>1, ClosedTyped DEF CloseSegment
  <2>3. handles' \in [Keys -> 0..Len(segs)] /\ toClose' \subseteq Keys
    BY <1>1, <2>1 DEF CloseSegment, TypeOK
  <2>4. QED
    BY <2>1, <2>2, <2>3
    DEF TypeOK, CloseSegment, queueVars, writerVars, compVars, Segments
<1>12. CASE AllClosed
  BY <1>12 DEF TypeOK, AllClosed, queueVars, writerVars, compVars, Segments
<1>13. CASE JoinComp
  BY <1>13 DEF TypeOK, JoinComp, queueVars, writerVars, compVars, Segments
<1>14. CASE Exit
  BY <1>14 DEF TypeOK, Exit, queueVars, writerVars, compVars, Segments
<1>15. QED
  BY <1>2, <1>3, <1>4, <1>5, <1>6, <1>7, <1>8, <1>9, <1>10, <1>11, <1>12, <1>13,
     <1>14
  DEF Compressor, Stopping
\* The type invariant is preserved by every step.
LEMMA TypeStep ==
    ASSUME TypeOK, HandShape, [Next]_vars
    PROVE  TypeOK'
<1>1. CASE UNCHANGED vars
  BY <1>1 DEF TypeOK, vars, Segments
<1>2. CASE Next
  BY <1>2, WriterAssumption, QueueKeepsTypes, OpeningKeepsTypes, ThreadsKeepTypes
  DEF Next, Writer
<1>3. QED BY <1>1, <1>2

-----------------------------------------------------------------------------
(* What is dropped.                                                         *)

\* The row in put()'s hand was refused room, so it is not of priority 0; and
\* neither is what is counted as dropped.
LEMMA DropStep ==
    ASSUME TypeOK, HandShape, NeverDropped, [Next]_vars
    PROVE  HandShape' /\ NeverDropped'
<1>1. CASE UNCHANGED vars
  BY <1>1 DEF HandShape, NeverDropped, vars
<1>2. ASSUME NEW k \in Keys, Queue(k)
      PROVE  HandShape' /\ NeverDropped'
  BY <1>2 DEF Queue, Arrives, HandShape, NeverDropped, writerVars
<1>3. ASSUME NEW k \in Keys, QueueEvicting(k)
      PROVE  HandShape' /\ NeverDropped'
  <2>1. ~High(queue[Victim(Row(k))])
    BY <1>3, RowIsRow, VictimFacts DEF QueueEvicting
  <2>2. QED
    BY <1>3, <2>1 DEF QueueEvicting, Arrives, HandShape, NeverDropped, writerVars
<1>4. ASSUME NEW k \in Keys, Drop(k)
      PROVE  HandShape' /\ NeverDropped'
  BY <1>4 DEF Drop, Arrives, Admit, HandShape, NeverDropped, writerVars
<1>5. ASSUME NEW k \in Keys, Block(k)
      PROVE  HandShape' /\ NeverDropped'
  <2>1. ~High(Row(k)) /\ pending' = <<Row(k)>>
    BY <1>5 DEF Block, Admit
  <2>2. pending' # <<>> /\ Head(pending') = Row(k)
    BY <2>1
  <2>3. /\ target' = target /\ batch' = batch /\ dropped' = dropped
    BY <1>5 DEF Block, Arrives, writerVars
  <2>4. (target # 0 => batch # <<>>)'
    BY <2>3 DEF HandShape
  <2>5. ~High(Head(pending'))
    BY <2>1, <2>2
  <2>6. QED
    BY <2>2, <2>3, <2>4, <2>5 DEF HandShape, NeverDropped, High
<1>6. CASE Unblock
  <2>1. ~High(Head(pending))
    BY <1>6 DEF Unblock, HandShape
  <2>2. \A r \in dropped' : ~High(r)
    BY <1>6, <2>1 DEF Unblock, NeverDropped
  <2>3. QED
    BY <1>6, <2>2 DEF Unblock, HandShape, NeverDropped, writerVars, High
<1>7. CASE Writer
  BY <1>7 DEF Writer, Take, Reuse, Open, OpenFails, NeedsRow, WriteRow, SeeStop,
     WriterEnds, HandShape, NeverDropped, queueVars
<1>8. CASE Compressor
  BY <1>8 DEF Compressor, CompTake, Gzip, CompEnds, HandShape, NeverDropped,
     queueVars, writerVars
<1>9. CASE Stop \/ Stopping \/ Exit
  BY <1>9 DEF Stop, Stopping, JoinWriter, CloseSegment, AllClosed, JoinComp, Exit,
     HandShape, NeverDropped, queueVars, writerVars
<1>10. QED
  BY <1>1, <1>2, <1>3, <1>4, <1>5, <1>6, <1>7, <1>8, <1>9 DEF Next, Submit

-----------------------------------------------------------------------------
(* Who holds a segment.                                                     *)

Distinct(s) == \A i, j \in DOMAIN s : s[i] = s[j] => i = j

\* CompressedOnce and HandedOver in terms of the set of what is queued.
LEMMA HandedOverIsToSet ==
    /\ HandedOver = ToSet(compQ) \cup zipped
                      \cup (IF gzipping = 0 THEN {} ELSE {gzipping})
    /\ CompressedOnce <=>
         /\ Distinct(compQ)
         /\ gzipping \notin ToSet(compQ)
         /\ ToSet(compQ) \cap zipped = {}
         /\ gzipping \notin zipped
BY DEF HandedOver, CompressedOnce, Distinct, ToSet

\* Only segments are handed over.
LEMMA HandedOverAreSegments ==
    ASSUME TypeOK
    PROVE  HandedOver \subseteq Segments /\ ToSet(compQ) \subseteq Segments
<1>1. ToSet(compQ) \subseteq Segments
  <2> SUFFICES ASSUME NEW i \in DOMAIN compQ
               PROVE  compQ[i] \in Segments
    BY DEF ToSet
  <2>1. DOMAIN compQ = 1..Len(compQ)
    BY LenProperties DEF TypeOK
  <2>2. QED BY <2>1 DEF TypeOK
<1>2. gzipping # 0 => gzipping \in Segments
  BY LenProperties DEF TypeOK, Segments
<1>3. zipped \subseteq Segments
  BY DEF TypeOK
<1>4. QED BY <1>1, <1>2, <1>3, HandedOverIsToSet

\* Closing the open segment of a key hands it over, and it was not before.
LEMMA ClosingHandsOver ==
    ASSUME TypeOK, OpenAreOwn, CompressedOnce, NEW k \in Keys
    PROVE  /\ ToSet(Closed(k, compQ)) = ToSet(compQ) \cup ({handles[k]} \ {0})
           /\ Distinct(Closed(k, compQ))
<1>1. CASE handles[k] = 0
  BY <1>1, HandedOverIsToSet DEF Closed
<1>2. CASE handles[k] # 0
  <2> DEFINE h == handles[k]
             q == Append(compQ, h)
  <2>1. h \in Segments
    BY <1>2, LenProperties DEF TypeOK, Segments
  <2>2. compQ \in Seq(Segments) /\ DOMAIN compQ = 1..Len(compQ)
    BY LenProperties DEF TypeOK
  <2>3. h \notin ToSet(compQ)
    BY <1>2, HandedOverIsToSet DEF OpenAreOwn
  <2>4. Closed(k, compQ) = q
    BY <1>2 DEF Closed
  <2> HIDE DEF h
  <2>5. /\ q \in Seq(Segments) /\ Len(compQ) \in Nat
        /\ Len(q) = Len(compQ) + 1
        /\ \A j \in 1..Len(compQ) : q[j] = compQ[j]
        /\ q[Len(compQ) + 1] = h
        /\ ToSet(q) = ToSet(compQ) \cup {h}
    BY <2>1, <2>2, AppendFacts
  <2>6. DOMAIN q = 1..(Len(compQ) + 1)
    BY <2>5, LenProperties
  <2> HIDE DEF q
  <2>7. \A j \in 1..Len(compQ) : q[j] # h
    BY <2>2, <2>3, <2>5 DEF ToSet
  <2>8. \A i, j \in 1..Len(compQ) : q[i] = q[j] => i = j
    BY <2>2, <2>5, HandedOverIsToSet DEF Distinct
  <2>9. \A i \in DOMAIN q : i \in 1..Len(compQ) \/ i = Len(compQ) + 1
    BY <2>5, <2>6
  <2>10. Distinct(q)
    BY <2>5, <2>7, <2>8, <2>9 DEF Distinct
  <2>11. ToSet(q) = ToSet(compQ) \cup ({h} \ {0})
    BY <1>2, <2>5 DEF h
  <2>12. QED BY <2>4, <2>10, <2>11 DEF h
<1>3. QED BY <1>1, <1>2

\* A key's handle is closed and replaced by h: nothing, or a new segment.
LEMMA ClosingStep ==
    ASSUME TypeOK, OpenAreOwn, CompressedOnce, NEW k \in Keys, NEW h,
           handles' = [handles EXCEPT ![k] = h],
           compQ' = Closed(k, compQ),
           UNCHANGED <<gzipping, zipped>>,
           \A s \in Segments : segs'[s].key = segs[s].key,
           h # 0 => h \notin Segments /\ segs'[h].key = k
    PROVE  OpenAreOwn' /\ CompressedOnce'
<1> DEFINE old == {handles[k]} \ {0}
<1>1. ToSet(compQ') = ToSet(compQ) \cup old /\ Distinct(compQ')
  BY ClosingHandsOver
<1>2. \A j \in Keys : handles[j] # 0 => handles[j] \in Segments
  BY LenProperties DEF TypeOK, Segments
<1>3. old \cap HandedOver = {} /\ old \subseteq Segments
  BY <1>2 DEF OpenAreOwn
<1>4. /\ ToSet(compQ') \cap zipped' = {}
      /\ gzipping' \notin ToSet(compQ') /\ gzipping' \notin zipped'
  BY <1>1, <1>3, HandedOverIsToSet
<1>5. CompressedOnce'
  <2>1. CompressedOnce' <=>
          /\ Distinct(compQ')
          /\ gzipping' \notin ToSet(compQ')
          /\ ToSet(compQ') \cap zipped' = {}
          /\ gzipping' \notin zipped'
    BY DEF CompressedOnce, Distinct, ToSet
  <2>2. QED BY <1>1, <1>4, <2>1
<1>6. HandedOver' = HandedOver \cup old
  <2>1. HandedOver' = ToSet(compQ') \cup zipped'
                       \cup (IF gzipping' = 0 THEN {} ELSE {gzipping'})
    BY DEF HandedOver, ToSet
  <2>2. QED BY <1>1, <2>1, HandedOverIsToSet
<1>7. HandedOver \subseteq Segments
  BY HandedOverAreSegments
<1>8. ASSUME NEW j \in Keys, handles'[j] # 0
      PROVE  segs'[handles'[j]].key = j /\ handles'[j] \notin HandedOver'
  <2>1. CASE j = k
    <3>1. handles'[j] = h /\ h # 0
      BY <1>8, <2>1 DEF TypeOK
    <3>2. QED BY <2>1, <3>1, <1>3, <1>6, <1>7
  <2>2. CASE j # k
    <3>1. handles'[j] = handles[j] /\ handles[j] \in Segments
      BY <1>2, <1>8, <2>2 DEF TypeOK
    <3>2. segs[handles[j]].key = j /\ handles[j] \notin HandedOver
      BY <1>8, <3>1 DEF OpenAreOwn
    <3>3. handles[j] \notin old
      BY <2>2, <3>2 DEF OpenAreOwn
    <3>4. QED BY <3>1, <3>2, <3>3, <1>6
  <2>3. QED BY <2>1, <2>2
<1>9. QED BY <1>5, <1>8 DEF OpenAreOwn

\* What the parts about segments read.
segmentVars == <<segs, handles, compQ, gzipping, zipped>>

\* No step lets go of a segment twice or takes an open one from its key.
LEMMA SegmentStep ==
    ASSUME TypeOK, HandShape, OpenAreOwn, CompressedOnce, [Next]_vars
    PROVE  OpenAreOwn' /\ CompressedOnce'
<1>1. CASE UNCHANGED segmentVars
  BY <1>1 DEF segmentVars, OpenAreOwn, CompressedOnce, HandedOver
<1>2. CASE Open \/ OpenFails
  <2> DEFINE k == Head(batch).key
  <2>1. k \in Keys
    <3>1. Head(batch) \in Rows
      BY <1>2, TailFacts DEF Open, OpenFails, NeedsRow, TypeOK
    <3>2. QED BY <3>1 DEF Rows
  <2>2. compQ' = Closed(k, compQ) /\ UNCHANGED <<gzipping, zipped>>
    BY <1>2 DEF Open, OpenFails, compVars
  <2>3. CASE Open
    <3>1. /\ segs' = Append(segs, [key |-> k, rows |-> <<>>])
          /\ handles' = [handles EXCEPT ![k] = Len(segs) + 1]
      BY <2>3 DEF Open
    <3>2. [key |-> k, rows |-> <<>>] \in Segment
      BY <2>1 DEF Segment
    <3> HIDE DEF k
    <3>3. /\ \A s \in Segments : segs'[s] = segs[s]
          /\ segs'[Len(segs) + 1] = [key |-> k, rows |-> <<>>]
          /\ Len(segs) \in Nat
      BY <3>1, <3>2, AppendFacts DEF TypeOK, Segment, Segments
    <3>4. Len(segs) + 1 \notin Segments /\ Len(segs) + 1 # 0
      BY <3>3 DEF Segments
    <3>5. /\ \A s \in Segments : segs'[s].key = segs[s].key
          /\ segs'[Len(segs) + 1].key = k
      BY <3>3
    <3> DEFINE h == Len(segs) + 1
    <3>6. /\ handles' = [handles EXCEPT ![k] = h]
          /\ h # 0 => h \notin Segments /\ segs'[h].key = k
      BY <3>1, <3>4, <3>5
    <3> HIDE DEF h
    <3>7. QED BY <2>1, <2>2, <3>5, <3>6, ClosingStep
  <2>4. CASE OpenFails
    <3>1. handles' = [handles EXCEPT ![k] = 0] /\ segs' = segs
      BY <2>4 DEF OpenFails
    <3> HIDE DEF k
    <3>2. QED BY <2>1, <2>2, <3>1, ClosingStep
  <2>5. QED BY <1>2, <2>3, <2>4
<1>3. CASE \E k \in Keys : CloseSegment(k)
  <2>1. PICK k \in Keys : CloseSegment(k)
    BY <1>3
  <2>2. /\ handles' = [handles EXCEPT ![k] = 0] /\ compQ' = Closed(k, compQ)
        /\ UNCHANGED <<gzipping, zipped>> /\ segs' = segs
    BY <2>1 DEF CloseSegment, compVars, writerVars
  <2>3. QED BY <2>2, ClosingStep
<1>4. CASE WriteRow
  <2>1. \A s \in Segments : segs'[s].key = segs[s].key
    BY <1>4, WriteRowFacts
  <2>2. UNCHANGED <<handles, compQ, gzipping, zipped>>
    BY <1>4 DEF WriteRow, compVars
  <2>3. \A j \in Keys : handles[j] # 0 => handles[j] \in Segments
    BY LenProperties DEF TypeOK, Segments
  <2>4. HandedOver' = HandedOver /\ (CompressedOnce' <=> CompressedOnce)
    BY <2>2 DEF HandedOver, CompressedOnce
  <2>5. QED BY <2>1, <2>2, <2>3, <2>4 DEF OpenAreOwn
<1>5. CASE CompTake
  <2>1. /\ compQ # <<>> /\ gzipping = 0 /\ gzipping' = Head(compQ)
        /\ compQ' = Tail(compQ) /\ UNCHANGED <<segs, handles, zipped>>
    BY <1>5 DEF CompTake, writerVars
  <2>2. /\ Head(compQ) \in Segments /\ Head(compQ) = compQ[1]
        /\ Tail(compQ) \in Seq(Segments) /\ Len(compQ) \in Nat \ {0}
        /\ Len(Tail(compQ)) = Len(compQ) - 1
        /\ \A j \in 1..(Len(compQ) - 1) : Tail(compQ)[j] = compQ[j + 1]
        /\ ToSet(compQ) = ToSet(Tail(compQ)) \cup {Head(compQ)}
    BY <2>1, TailFacts DEF TypeOK
  <2>3. DOMAIN compQ = 1..Len(compQ) /\ DOMAIN Tail(compQ) = 1..(Len(compQ) - 1)
    BY <2>2, LenProperties DEF TypeOK
  <2>4. Distinct(compQ)
    BY HandedOverIsToSet
  <2>5. Distinct(Tail(compQ)) /\ Head(compQ) \notin ToSet(Tail(compQ))
    <3>1. \A j \in 1..(Len(compQ) - 1) : j + 1 \in DOMAIN compQ /\ j + 1 # 1
      BY <2>2, <2>3
    <3>2. 1 \in DOMAIN compQ
      BY <2>2, <2>3
    <3>3. \A i, j \in 1..(Len(compQ) - 1) : i + 1 = j + 1 => i = j
      BY <2>2
    <3>4. Distinct(Tail(compQ))
      BY <2>2, <2>3, <2>4, <3>1, <3>3 DEF Distinct
    <3>5. \A j \in 1..(Len(compQ) - 1) : Tail(compQ)[j] # compQ[1]
      BY <2>2, <2>4, <3>1, <3>2 DEF Distinct
    <3>6. QED BY <2>2, <2>3, <3>4, <3>5 DEF ToSet
  <2>6. 0 \notin Segments
    BY DEF Segments
  <2>7. /\ CompressedOnce' <=>
             /\ Distinct(compQ')
             /\ gzipping' \notin ToSet(compQ')
             /\ ToSet(compQ') \cap zipped' = {}
             /\ gzipping' \notin zipped'
        /\ HandedOver' = ToSet(compQ') \cup zipped'
                          \cup (IF gzipping' = 0 THEN {} ELSE {gzipping'})
    BY DEF CompressedOnce, Distinct, ToSet, HandedOver
  <2>8. CompressedOnce'
    BY <2>1, <2>2, <2>5, <2>7, HandedOverIsToSet
  <2>9. HandedOver' = HandedOver
    BY <2>1, <2>2, <2>6, <2>7, HandedOverIsToSet
  <2>10. QED BY <2>1, <2>8, <2>9 DEF OpenAreOwn
<1>6. CASE Gzip
  <2>1. /\ gzipping # 0 /\ gzipping' = 0 /\ UNCHANGED <<segs, handles, compQ>>
        /\ zipped' = zipped \cup {gzipping} \/ zipped' = zipped
    BY <1>6 DEF Gzip, writerVars
  <2>2. 0 \notin ToSet(compQ) /\ 0 \notin zipped
    BY HandedOverAreSegments DEF TypeOK, Segments
  <2>3. /\ CompressedOnce' <=>
             /\ Distinct(compQ)
             /\ 0 \notin ToSet(compQ)
             /\ ToSet(compQ) \cap zipped' = {}
             /\ 0 \notin zipped'
        /\ HandedOver' = ToSet(compQ) \cup zipped'
    BY <2>1 DEF CompressedOnce, Distinct, ToSet, HandedOver
  <2>4. CompressedOnce'
    BY <2>1, <2>2, <2>3, HandedOverIsToSet
  <2>5. HandedOver' \subseteq HandedOver
    BY <2>1, <2>3, HandedOverIsToSet
  <2>6. QED BY <2>1, <2>4, <2>5 DEF OpenAreOwn
<1>7. CASE Submit \/ Unblock
  BY <1>1, <1>7 DEF Submit, Queue, QueueEvicting, Drop, Block, Arrives, Unblock,
     segmentVars, writerVars, compVars
<1>8. CASE Take \/ Reuse \/ SeeStop \/ WriterEnds
  BY <1>1, <1>8 DEF Take, Reuse, SeeStop, WriterEnds, segmentVars, compVars
<1>9. CASE CompEnds
  BY <1>1, <1>9 DEF CompEnds, segmentVars, writerVars
<1>10. CASE Stop \/ JoinWriter \/ AllClosed \/ JoinComp \/ Exit
  BY <1>1, <1>10 DEF Stop, JoinWriter, AllClosed, JoinComp, Exit, segmentVars,
     writerVars, compVars
<1>11. CASE UNCHANGED vars
  BY <1>1, <1>11 DEF vars, segmentVars
<1>12. QED
  BY <1>2, <1>3, <1>4, <1>5, <1>6, <1>7, <1>8, <1>9, <1>10, <1>11
  DEF Next, Writer, Compressor, Stopping

-----------------------------------------------------------------------------
(* stop() and the writer.                                                   *)

\* The writer that ended stays without work; a join that saw its end finds no
\* handle but those it lists.
LEMMA StopStep ==
    ASSUME TypeOK, HandShape, StopShape, CleanStop, [Next]_vars
    PROVE  StopShape' /\ CleanStop'
<1>1. CASE UNCHANGED vars
  BY <1>1 DEF vars, StopShape, CleanStop
<1>2. CASE Submit
  <2>1. PICK k \in Keys : Queue(k) \/ QueueEvicting(k) \/ Drop(k) \/ Block(k)
    BY <1>2 DEF Submit
  <2>2. /\ caller = "recording" /\ caller' \in {"recording", "blocked"}
        /\ UNCHANGED <<stop, writer>>
    BY <2>1 DEF Queue, QueueEvicting, Drop, Block, Arrives, writerVars
  <2>3. QED BY <2>2 DEF StopShape, CleanStop
<1>3. CASE Unblock
  BY <1>3 DEF Unblock, StopShape, CleanStop, writerVars
<1>4. CASE Writer
  <2>1. CASE Take \/ Reuse \/ SeeStop
    BY <2>1 DEF Take, Reuse, NeedsRow, SeeStop, StopShape, CleanStop, queueVars,
       compVars
  <2>2. CASE Open \/ OpenFails
    BY <2>2 DEF Open, OpenFails, NeedsRow, StopShape, CleanStop, queueVars, compVars
  <2>3. CASE WriteRow
    BY <2>3 DEF WriteRow, HandShape, StopShape, CleanStop, queueVars, compVars
  <2>4. CASE WriterEnds
    BY <2>4 DEF WriterEnds, HandShape, StopShape, CleanStop, queueVars, compVars
  <2>5. QED BY <1>4, <2>1, <2>2, <2>3, <2>4 DEF Writer
<1>5. CASE Compressor
  BY <1>5 DEF Compressor, CompTake, Gzip, CompEnds, StopShape, CleanStop,
     queueVars, writerVars
<1>6. CASE Stop
  BY <1>6 DEF Stop, StopShape, CleanStop, queueVars, writerVars
<1>7. CASE JoinWriter
  BY <1>7 DEF JoinWriter, StopShape, CleanStop, queueVars, writerVars
<1>8. CASE \E k \in Keys : CloseSegment(k)
  <2>1. PICK k \in Keys : CloseSegment(k)
    BY <1>8
  <2>2. /\ caller = "closing" /\ UNCHANGED <<caller, stop, late>>
        /\ UNCHANGED <<writer, queue, batch, target>>
        /\ handles' = [handles EXCEPT ![k] = 0] /\ toClose' = toClose \ {k}
    BY <2>1 DEF CloseSegment, queueVars, writerVars
  <2>3. \A j \in Keys : handles'[j] = IF j = k THEN 0 ELSE handles[j]
    BY <2>2 DEF TypeOK
  <2>4. QED BY <2>2, <2>3 DEF StopShape, CleanStop
<1>9. CASE AllClosed
  BY <1>9 DEF AllClosed, StopShape, CleanStop, queueVars, writerVars
<1>10. CASE JoinComp \/ Exit
  BY <1>10 DEF JoinComp, Exit, StopShape, CleanStop, queueVars, writerVars
<1>11. QED
  BY <1>1, <1>2, <1>3, <1>4, <1>5, <1>6, <1>7, <1>8, <1>9, <1>10 DEF Next, Stopping

-----------------------------------------------------------------------------
(* The theorems.                                                            *)

\* A recorder that was just started satisfies the invariant.
LEMMA InitInvariant == Init => IInv
<1> SUFFICES ASSUME Init
             PROVE  IInv
  OBVIOUS
<1>1. Len(segs) = 0 /\ Segments = {}
  BY DEF Init, Segments
<1>2. TypeOK
  <2>1. /\ <<>> \in Seq(Rows) /\ segs \in Seq([key : Keys, rows : Seq(Rows)])
        /\ compQ \in Seq(Segments)
    BY DEF Init
  <2>2. 0 \in 0..Len(segs)
    BY <1>1
  <2>3. handles \in [Keys -> 0..Len(segs)]
    BY <2>2 DEF Init
  <2>4. QED BY <2>1, <2>2, <2>3 DEF Init, TypeOK
<1>3. QED
  BY <1>2
  DEF Init, IInv, HandShape, NeverDropped, OpenAreOwn, CompressedOnce, StopShape,
      CleanStop

\* The inductive invariant of the writer, over every interleaving of its three
\* threads, for every queue size, batch size and choice of policies.
THEOREM InductiveInvariant == Spec => []IInv
<1>1. IInv /\ [Next]_vars => IInv'
  BY TypeStep, DropStep, SegmentStep, StopStep DEF IInv
<1>2. QED BY InitInvariant, <1>1, PTL DEF Spec

\* The types, and with them that no thread works on a segment that is not there.
THEOREM TypeCorrect == Spec => []TypeOK
<1>1. IInv => TypeOK
  BY DEF IInv
<1>2. QED BY InductiveInvariant, <1>1, PTL

\* No drop policy ever drops a row of priority 0.
THEOREM HighRowsAreKept == Spec => []NeverDropped
<1>1. IInv => NeverDropped
  BY DEF IInv
<1>2. QED BY InductiveInvariant, <1>1, PTL

\* The writer and stop() never both hand the same segment to the compressor.
THEOREM SegmentsAreCompressedOnce == Spec => []CompressedOnce
<1>1. IInv => CompressedOnce
  BY DEF IInv
<1>2. QED BY InductiveInvariant, <1>1, PTL

\* A stop() that joined the writer leaves no row and no open file behind.
THEOREM StopIsClean == Spec => []CleanStop
<1>1. IInv => CleanStop
  BY DEF IInv
<1>2. QED BY InductiveInvariant, <1>1, PTL

\* No row is written to a segment that was handed to the compressor.
THEOREM ClosedSegmentsAreFinal == Spec => ClosedIsFinal
<1>1. ASSUME IInv, [Next]_vars, NEW s \in HandedOver
      PROVE  segs'[s] = segs[s]
  <2>1. s \in Segments
    BY <1>1, HandedOverAreSegments DEF IInv
  <2>2. CASE UNCHANGED segs
    BY <2>2
  <2>3. CASE Open
    <3>1. Head(batch).key \in Keys
      <4>1. Head(batch) \in Rows
        BY <1>1, <2>3, TailFacts DEF IInv, Open, NeedsRow, TypeOK
      <4>2. QED BY <4>1 DEF Rows
    <3>2. /\ [key |-> Head(batch).key, rows |-> <<>>] \in Segment
          /\ segs \in Seq(Segment)
      BY <1>1, <3>1 DEF Segment, IInv, TypeOK
    <3>3. segs' = Append(segs, [key |-> Head(batch).key, rows |-> <<>>])
      BY <2>3 DEF Open
    <3>4. QED BY <2>1, <3>2, <3>3, AppendFacts DEF Segments
  <2>4. CASE WriteRow
    <3>1. /\ \A t \in Segments : t # target => segs'[t] = segs[t]
          /\ ~IsOpen(target) => segs' = segs
      BY <1>1, <2>4, WriteRowFacts DEF IInv
    <3>2. CASE IsOpen(target)
      <4>1. segs \in Seq(Segment) /\ target \in 1..Len(segs)
        BY <1>1, <2>4, LenProperties DEF IInv, TypeOK, Segment, WriteRow
      <4>2. segs[target] \in Segment
        BY <4>1
      <4>3. segs[target].key \in Keys
        BY <4>2 DEF Segment
      <4>4. target \notin HandedOver
        BY <1>1, <2>4, <3>2, <4>3 DEF IInv, OpenAreOwn, IsOpen, WriteRow
      <4>5. QED BY <2>1, <3>1, <4>4
    <3>3. QED BY <3>1, <3>2
  <2>5. QED
    BY <1>1, <2>2, <2>3, <2>4
    DEF Next, Submit, Queue, QueueEvicting, Drop, Block, Arrives, Unblock, Writer,
        Take, Reuse, OpenFails, SeeStop, WriterEnds, Compressor, CompTake, Gzip,
        CompEnds, Stop, Stopping, JoinWriter, CloseSegment, AllClosed, JoinComp,
        Exit, writerVars, vars
<1>2. IInv /\ [Next]_vars => [HandedOverKept]_vars
  BY <1>1 DEF HandedOverKept
<1>3. QED BY InductiveInvariant, <1>2, PTL DEF Spec, ClosedIsFinal
-----------------------------------------------------------------------------
(***************************************************************************)
(* That the writer loses and duplicates no row and keeps the order of      *)
(* every stream: rows are identified by their arrival numbers, and the     *)
(* sets of numbers in each hand say where every row is.                    *)
(***************************************************************************)
-----------------------------------------------------------------------------
(* The arrival numbers of a sequence of rows.                               *)

LEMMA IdsAreNatural ==
    ASSUME NEW s \in Seq(Rows)
    PROVE  /\ Len(s) \in Nat /\ DOMAIN s = 1..Len(s)
           /\ \A i \in 1..Len(s) : s[i] \in Rows /\ s[i].id \in Nat
           /\ Ids(s) \subseteq Nat
<1>1. Len(s) \in Nat /\ DOMAIN s = 1..Len(s) /\ s \in [1..Len(s) -> Rows]
  BY LenProperties
<1>2. \A i \in 1..Len(s) : s[i] \in Rows /\ s[i].id \in Nat
  BY <1>1 DEF Rows
<1>3. QED BY <1>1, <1>2 DEF Ids

LEMMA IdsOfNone == Ids(<<>>) = {} /\ InOrder(<<>>)
<1>1. DOMAIN <<>> = {}
  OBVIOUS
<1>2. QED BY <1>1 DEF Ids, InOrder

LEMMA IdsOfAppend ==
    ASSUME NEW s \in Seq(Rows), NEW r \in Rows
    PROVE  /\ Append(s, r) \in Seq(Rows)
           /\ Ids(Append(s, r)) = Ids(s) \cup {r.id}
           /\ InOrder(s) /\ (\A n \in Ids(s) : n < r.id) => InOrder(Append(s, r))
<1> DEFINE t == Append(s, r)
<1>1. /\ t \in Seq(Rows) /\ Len(s) \in Nat /\ Len(t) = Len(s) + 1
      /\ \A j \in 1..Len(s) : t[j] = s[j]
      /\ t[Len(s) + 1] = r
  BY AppendFacts
<1>2. DOMAIN s = 1..Len(s) /\ DOMAIN t = 1..(Len(s) + 1)
  BY <1>1, IdsAreNatural
<1> HIDE DEF t
<1>3. Ids(t) = Ids(s) \cup {r.id}
  <2>1. ASSUME NEW n \in Ids(t) PROVE n \in Ids(s) \cup {r.id}
    <3>1. PICK i \in 1..(Len(s) + 1) : n = t[i].id
      BY <2>1, <1>2 DEF Ids
    <3>2. CASE i = Len(s) + 1
      BY <3>1, <3>2, <1>1
    <3>3. CASE i \in 1..Len(s)
      BY <3>1, <3>3, <1>1, <1>2 DEF Ids
    <3>4. QED BY <3>2, <3>3, <1>1
  <2>2. ASSUME NEW n \in Ids(s) PROVE n \in Ids(t)
    <3>1. PICK i \in 1..Len(s) : n = s[i].id
      BY <2>2, <1>2 DEF Ids
    <3>2. i \in DOMAIN t /\ t[i].id = n
      BY <3>1, <1>1, <1>2
    <3>3. QED BY <3>2 DEF Ids
  <2>3. r.id \in Ids(t)
    <3>1. Len(s) + 1 \in DOMAIN t
      BY <1>1, <1>2
    <3>2. QED BY <3>1, <1>1 DEF Ids
  <2>4. QED BY <2>1, <2>2, <2>3
<1>4. ASSUME InOrder(s), \A n \in Ids(s) : n < r.id
      PROVE  InOrder(t)
  <2> SUFFICES ASSUME NEW i \in 1..(Len(s) + 1), NEW j \in 1..(Len(s) + 1), i < j
               PROVE  t[i].id < t[j].id
    BY <1>2 DEF InOrder
  <2>1. i \in 1..Len(s) /\ t[i] = s[i]
    BY <1>1
  <2>2. CASE j = Len(s) + 1
    BY <2>1, <2>2, <1>1, <1>2, <1>4 DEF Ids
  <2>3. CASE j \in 1..Len(s)
    BY <2>1, <2>3, <1>1, <1>2, <1>4 DEF InOrder
  <2>4. QED BY <2>2, <2>3, <1>1
<1>5. QED BY <1>1, <1>3, <1>4 DEF t

\* The row at place i is taken out of a sequence that is in order.
LEMMA IdsOfRemoval ==
    ASSUME NEW s \in Seq(Rows), NEW i \in 1..Len(s), NEW t \in Seq(Rows), InOrder(s),
           Len(t) = Len(s) - 1,
           \A j \in 1..(Len(s) - 1) : t[j] = IF j < i THEN s[j] ELSE s[j + 1]
    PROVE  /\ s[i].id \in Ids(s)
           /\ Ids(t) = Ids(s) \ {s[i].id}
           /\ InOrder(t)
<1>1. /\ Len(s) \in Nat /\ DOMAIN s = 1..Len(s) /\ DOMAIN t = 1..(Len(s) - 1)
      /\ \A j \in 1..Len(s) : s[j].id \in Nat
  BY IdsAreNatural
<1>2. \A j, k \in 1..Len(s) : j < k => s[j].id < s[k].id
  BY <1>1 DEF InOrder
<1>3. s[i].id \in Ids(s)
  BY <1>1 DEF Ids
<1>4. ASSUME NEW n \in Ids(t) PROVE n \in Ids(s) \ {s[i].id}
  <2>1. PICK j \in 1..(Len(s) - 1) : n = t[j].id
    BY <1>4, <1>1 DEF Ids
  <2>2. PICK k \in 1..Len(s) : k # i /\ t[j] = s[k]
    <3>1. CASE j < i
      BY <3>1, <1>1
    <3>2. CASE ~(j < i)
      BY <3>2, <1>1
    <3>3. QED BY <3>1, <3>2
  <2>3. s[k].id # s[i].id
    <3>1. i < k \/ k < i
      BY <2>2, <1>1
    <3>2. QED BY <3>1, <1>1, <1>2
  <2>4. QED BY <2>1, <2>2, <2>3, <1>1 DEF Ids
<1>5. ASSUME NEW n \in Ids(s), n # s[i].id PROVE n \in Ids(t)
  <2>1. PICK k \in 1..Len(s) : n = s[k].id
    BY <1>5, <1>1 DEF Ids
  <2>2. k # i
    BY <2>1, <1>5
  <2>3. PICK j \in 1..(Len(s) - 1) : t[j] = s[k]
    <3>1. CASE k < i
      <4>1. k \in 1..(Len(s) - 1) /\ t[k] = s[k]
        BY <3>1, <1>1
      <4>2. QED BY <4>1
    <3>2. CASE i < k
      <4>1. k - 1 \in 1..(Len(s) - 1) /\ ~(k - 1 < i) /\ (k - 1) + 1 = k
        BY <3>2, <1>1
      <4>2. t[k - 1] = s[k]
        BY <4>1
      <4>3. QED BY <4>1, <4>2
    <3>3. QED BY <3>1, <3>2, <2>2, <1>1
  <2>4. QED BY <2>1, <2>3, <1>1 DEF Ids
<1>6. ASSUME NEW j \in 1..(Len(s) - 1), NEW k \in 1..(Len(s) - 1), j < k
      PROVE  t[j].id < t[k].id
  <2>1. CASE k < i
    BY <2>1, <1>1, <1>2, <1>6
  <2>2. CASE ~(k < i) /\ j < i
    BY <2>2, <1>1, <1>2, <1>6
  <2>3. CASE ~(k < i) /\ ~(j < i)
    BY <2>3, <1>1, <1>2, <1>6
  <2>4. QED BY <2>1, <2>2, <2>3
<1>7. InOrder(t)
  BY <1>1, <1>6 DEF InOrder
<1>8. QED BY <1>3, <1>4, <1>5, <1>7

LEMMA IdsOfTail ==
    ASSUME NEW s \in Seq(Rows), s # <<>>, InOrder(s)
    PROVE  /\ Head(s) \in Rows /\ Head(s).id \in Ids(s) /\ Head(s).id \in Nat
           /\ Tail(s) \in Seq(Rows) /\ InOrder(Tail(s))
           /\ Ids(Tail(s)) = Ids(s) \ {Head(s).id}
           /\ \A n \in Ids(Tail(s)) : Head(s).id < n
<1>1. /\ Head(s) \in Rows /\ Head(s) = s[1] /\ Tail(s) \in Seq(Rows)
      /\ Len(s) \in Nat \ {0} /\ Len(Tail(s)) = Len(s) - 1
      /\ \A j \in 1..(Len(s) - 1) : Tail(s)[j] = s[j + 1]
  BY TailFacts
<1>2. 1 \in 1..Len(s)
  BY <1>1
<1> DEFINE t == Tail(s)
<1>3. /\ t \in Seq(Rows) /\ Len(t) = Len(s) - 1
      /\ \A j \in 1..(Len(s) - 1) : t[j] = IF j < 1 THEN s[j] ELSE s[j + 1]
  BY <1>1
<1> HIDE DEF t
<1>4. s[1].id \in Ids(s) /\ Ids(t) = Ids(s) \ {s[1].id} /\ InOrder(t)
  BY <1>2, <1>3, IdsOfRemoval
<1>5. /\ s[1].id \in Ids(s) /\ Ids(Tail(s)) = Ids(s) \ {s[1].id} /\ InOrder(Tail(s))
  BY <1>4 DEF t
<1>6. ASSUME NEW n \in Ids(Tail(s)) PROVE s[1].id < n
  <2>1. PICK j \in 1..(Len(s) - 1) : n = s[j + 1].id
    <3>1. DOMAIN Tail(s) = 1..(Len(s) - 1)
      BY <1>1, IdsAreNatural
    <3>2. QED BY <1>6, <3>1, <1>1 DEF Ids
  <2>2. 1 \in DOMAIN s /\ j + 1 \in DOMAIN s /\ 1 < j + 1
    BY <1>1, IdsAreNatural
  <2>3. QED BY <2>1, <2>2 DEF InOrder
<1>7. Head(s).id \in Nat
  BY <1>1 DEF Rows
<1>8. QED BY <1>1, <1>5, <1>6, <1>7

\* What is left of a sequence when its first n rows are taken.
LEMMA SuffixFacts ==
    ASSUME NEW s \in Seq(Rows), NEW n \in 0..Len(s)
    PROVE  LET b == SubSeq(s, n + 1, Len(s))
           IN  /\ b \in Seq(Rows) /\ Len(b) = Len(s) - n
               /\ \A j \in 1..(Len(s) - n) : b[j] = s[n + j]
<1> DEFINE b == SubSeq(s, n + 1, Len(s))
<1>1. /\ Len(s) \in Nat /\ n \in Nat /\ n <= Len(s)
      /\ \A j \in 1..Len(s) : s[j] \in Rows
  BY IdsAreNatural
<1>2. \A i \in n + 1..Len(s) : s[i] \in Rows
  BY <1>1
<1>3. n + 1 \in Int /\ Len(s) \in Int
  BY <1>1
<1>4. /\ b \in Seq(Rows)
      /\ Len(b) = IF n + 1 <= Len(s) THEN Len(s) - (n + 1) + 1 ELSE 0
      /\ \A j \in 1..(Len(s) - (n + 1) + 1) : b[j] = s[n + 1 + j - 1]
  BY <1>2, <1>3, SubSeqProperties
<1> HIDE DEF b
<1>5. Len(b) = Len(s) - n
  <2>1. ASSUME NEW l \in Nat, n <= l
        PROVE  l - n = IF n + 1 <= l THEN l - (n + 1) + 1 ELSE 0
    BY <1>1, <2>1
  <2>2. QED BY <1>1, <1>4, <2>1
<1>6. ASSUME NEW j \in 1..(Len(s) - n) PROVE b[j] = s[n + j]
  <2>1. n + 1 + j - 1 = n + j /\ Len(s) - (n + 1) + 1 = Len(s) - n
    BY <1>1
  <2>2. QED BY <1>4, <2>1
<1>7. QED BY <1>4, <1>5, <1>6 DEF b

\* A sequence in order is cut in two.
LEMMA IdsOfParts ==
    ASSUME NEW s \in Seq(Rows), NEW n \in 0..Len(s), InOrder(s)
    PROVE  LET a == SubSeq(s, 1, n)
               b == SubSeq(s, n + 1, Len(s))
           IN  /\ a \in Seq(Rows) /\ b \in Seq(Rows)
               /\ InOrder(a) /\ InOrder(b)
               /\ Ids(a) \cup Ids(b) = Ids(s)
               /\ Before(Ids(a), Ids(b))
<1> DEFINE a == SubSeq(s, 1, n)
           b == SubSeq(s, n + 1, Len(s))
<1>1. /\ Len(s) \in Nat /\ DOMAIN s = 1..Len(s)
      /\ n \in Nat /\ n <= Len(s)
      /\ \A j \in 1..Len(s) : s[j] \in Rows
  BY IdsAreNatural
<1>2. /\ a \in Seq(Rows) /\ Len(a) = n
      /\ \A j \in 1..n : a[j] = s[j]
  BY <1>1, SubSeqProperties
<1>3. /\ b \in Seq(Rows) /\ Len(b) = Len(s) - n
      /\ \A j \in 1..(Len(s) - n) : b[j] = s[n + j]
  BY SuffixFacts
<1>4. DOMAIN a = 1..n /\ DOMAIN b = 1..(Len(s) - n)
  BY <1>2, <1>3, IdsAreNatural
<1> HIDE DEF a, b
<1>5. InOrder(a)
  BY <1>1, <1>2, <1>4 DEF InOrder
<1>6. InOrder(b)
  <2> SUFFICES ASSUME NEW i \in 1..(Len(s) - n), NEW j \in 1..(Len(s) - n), i < j
               PROVE  b[i].id < b[j].id
    BY <1>4 DEF InOrder
  <2>1. n + i \in DOMAIN s /\ n + j \in DOMAIN s /\ n + i < n + j
    BY <1>1
  <2>2. s[n + i].id < s[n + j].id
    BY <2>1 DEF InOrder
  <2>3. QED BY <2>2, <1>3
<1>7. ASSUME NEW m \in Ids(a) PROVE m \in Ids(s)
  BY <1>7, <1>1, <1>2, <1>4 DEF Ids
<1>8. ASSUME NEW m \in Ids(b) PROVE m \in Ids(s)
  <2>1. PICK j \in 1..(Len(s) - n) : m = s[n + j].id
    BY <1>8, <1>3, <1>4 DEF Ids
  <2>2. n + j \in DOMAIN s
    BY <1>1
  <2>3. QED BY <2>1, <2>2 DEF Ids
<1>9. ASSUME NEW m \in Ids(s) PROVE m \in Ids(a) \cup Ids(b)
  <2>1. PICK j \in 1..Len(s) : m = s[j].id
    BY <1>9, <1>1 DEF Ids
  <2>2. CASE j <= n
    <3>1. j \in DOMAIN a /\ a[j] = s[j]
      BY <2>2, <1>2, <1>4, <1>1
    <3>2. QED BY <3>1, <2>1 DEF Ids
  <2>3. CASE n < j
    <3>1. j - n \in 1..(Len(s) - n) /\ n + (j - n) = j
      BY <2>3, <1>1
    <3>2. j - n \in DOMAIN b /\ b[j - n] = s[j]
      BY <3>1, <1>3, <1>4
    <3>3. QED BY <3>2, <2>1 DEF Ids
  <2>4. QED BY <2>2, <2>3, <1>1
<1>10. ASSUME NEW l \in Ids(a), NEW m \in Ids(b) PROVE l < m
  <2>1. PICK i \in 1..n : l = s[i].id
    BY <1>10, <1>2, <1>4 DEF Ids
  <2>2. PICK j \in 1..(Len(s) - n) : m = s[n + j].id
    BY <1>10, <1>3, <1>4 DEF Ids
  <2>3. i \in DOMAIN s /\ n + j \in DOMAIN s /\ i < n + j
    BY <1>1
  <2>4. QED BY <2>1, <2>2, <2>3 DEF InOrder
<1>11. QED
  BY <1>2, <1>3, <1>5, <1>6, <1>7, <1>8, <1>9, <1>10 DEF Before, a, b

-----------------------------------------------------------------------------
(* The places in the segments.                                              *)

LEMMA PlacesOfSegments ==
    ASSUME NEW sg \in Seq(Segment)
    PROVE  \A p : p \in UNION {{<<s, i>> : i \in DOMAIN sg[s].rows} : s \in 1..Len(sg)}
                  <=> \E s \in 1..Len(sg) : \E i \in 1..Len(sg[s].rows) : p = <<s, i>>
<1>1. \A s \in 1..Len(sg) : sg[s].rows \in Seq(Rows)
  <2>1. \A s \in 1..Len(sg) : sg[s] \in Segment
    OBVIOUS
  <2>2. QED BY <2>1 DEF Segment
<1>2. \A s \in 1..Len(sg) : DOMAIN sg[s].rows = 1..Len(sg[s].rows)
  BY <1>1, IdsAreNatural
<1>3. QED BY <1>2

Places ==
    /\ \A p \in Written : /\ p = <<p[1], p[2]>> /\ p[1] \in Segments
                           /\ p[2] \in 1..Len(segs[p[1]].rows)
                           /\ RowAt(p) \in Rows
    /\ \A s \in Segments : \A i \in 1..Len(segs[s].rows) : <<s, i>> \in Written
    /\ segs \in Seq(Segment) /\ Len(segs) \in Nat
    /\ \A s \in Segments : segs[s] \in Segment /\ segs[s].rows \in Seq(Rows)

LEMMA WrittenPlaces == TypeOK => Places
<1> SUFFICES ASSUME TypeOK PROVE Places
  OBVIOUS
<1>1. segs \in Seq(Segment) /\ Len(segs) \in Nat
  BY LenProperties DEF TypeOK, Segment
<1>2. \A p : p \in Written
             <=> \E s \in Segments : \E i \in 1..Len(segs[s].rows) : p = <<s, i>>
  BY <1>1, PlacesOfSegments DEF Written, Segments
<1>3. \A s \in Segments : segs[s] \in Segment
  BY <1>1 DEF Segments
<1>4. \A s \in Segments : segs[s].rows \in Seq(Rows)
  BY <1>3 DEF Segment
<1>5. ASSUME NEW p \in Written
      PROVE  /\ p = <<p[1], p[2]>> /\ p[1] \in Segments
             /\ p[2] \in 1..Len(segs[p[1]].rows) /\ RowAt(p) \in Rows
  <2>1. PICK s \in Segments : \E i \in 1..Len(segs[s].rows) : p = <<s, i>>
    BY <1>2
  <2>2. PICK i \in 1..Len(segs[s].rows) : p = <<s, i>>
    BY <2>1
  <2>3. p[1] = s /\ p[2] = i
    BY <2>2
  <2>4. segs[s].rows[i] \in Rows
    BY <1>4, IdsAreNatural
  <2>5. QED BY <2>2, <2>3, <2>4 DEF RowAt
<1>6. QED BY <1>1, <1>2, <1>3, <1>4, <1>5 DEF Places

\* The rows that are written are those found before, at the same places, and
\* the one that is written now, after every other row of its segment.
LEMMA RowIsWritten ==
    ASSUME TypeOK, TypeOK', HandShape, WriteRow, UNCHANGED failed, segs' # segs
    PROVE  /\ IsOpen(target) /\ target \in Segments /\ Segments' = Segments
           /\ \A s \in Segments : segs'[s].key = segs[s].key
           /\ \E q \in Written' :
                 /\ q[1] = target /\ RowAt(q)' = Head(batch)
                 /\ \A p \in Written : /\ p \in Written' /\ RowAt(p)' = RowAt(p)
                                       /\ p[1] = target => p[2] < q[2]
                 /\ \A p \in Written' : p \in Written \/ p = q
<1>1. /\ batch # <<>> /\ target # 0 /\ Head(batch) \in Rows
  BY TailFacts DEF WriteRow, HandShape, TypeOK
<1>2. IsOpen(target) /\ segs' = [segs EXCEPT ![target].rows = Append(@, Head(batch))]
  BY DEF WriteRow
<1>3. /\ target \in Segments /\ Len(segs) \in Nat /\ segs \in Seq(Segment)
      /\ segs[target] \in Segment /\ segs[target].rows \in Seq(Rows)
  <2>1. target \in Segments
    BY <1>1, WrittenPlaces DEF TypeOK, Segments, Places
  <2>2. QED BY <2>1, WrittenPlaces DEF Places
<1> DEFINE old == segs[target].rows
           n == Len(old) + 1
           new == [segs[target] EXCEPT !.rows = Append(@, Head(batch))]
<1>4. /\ Append(old, Head(batch)) \in Seq(Rows)
      /\ Len(old) \in Nat /\ Len(Append(old, Head(batch))) = n
      /\ \A j \in 1..Len(old) : Append(old, Head(batch))[j] = old[j]
      /\ Append(old, Head(batch))[n] = Head(batch)
  BY <1>1, <1>3, AppendFacts
<1>5. new.rows = Append(old, Head(batch)) /\ new.key = segs[target].key
  BY <1>3 DEF Segment
<1>6. /\ Len(segs') = Len(segs) /\ Segments' = Segments
      /\ \A s \in Segments : segs'[s] = IF s = target THEN new ELSE segs[s]
  <2>1. segs' = [segs EXCEPT ![target] = new]
    BY <1>2
  <2> HIDE DEF new
  <2>2. QED BY <1>3, <2>1 DEF Segments
<1>7. /\ \A p \in Written : /\ p = <<p[1], p[2]>> /\ p[1] \in Segments
                            /\ p[2] \in 1..Len(segs[p[1]].rows)
      /\ \A s \in Segments : \A i \in 1..Len(segs[s].rows) : <<s, i>> \in Written
  BY WrittenPlaces DEF Places
<1>8. /\ \A p \in Written' : /\ p = <<p[1], p[2]>> /\ p[1] \in Segments
                             /\ p[2] \in 1..Len(segs'[p[1]].rows)
      /\ \A s \in Segments : \A i \in 1..Len(segs'[s].rows) : <<s, i>> \in Written'
  <2>1. TypeOK' => Places'
    BY WrittenPlaces, PTL
  <2>2. QED BY <2>1, <1>6 DEF Places
<1>9. /\ segs'[target].rows = Append(old, Head(batch)) /\ Len(segs'[target].rows) = n
      /\ \A s \in Segments : s # target => segs'[s] = segs[s]
  BY <1>3, <1>4, <1>5, <1>6
<1>10. PICK q \in Written' : q = <<target, n>> /\ RowAt(q)' = Head(batch)
  <2>1. n \in 1..n
    BY <1>4
  <2>2. <<target, n>> \in Written'
    BY <2>1, <1>3, <1>8, <1>9
  <2>3. PICK q \in Written' : q = <<target, n>>
    BY <2>2
  <2>4. segs'[q[1]].rows[q[2]] = Head(batch)
    BY <2>3, <1>4, <1>9
  <2>5. QED BY <2>3, <2>4 DEF RowAt
<1>11. ASSUME NEW p \in Written
       PROVE  p \in Written' /\ RowAt(p)' = RowAt(p) /\ (p[1] = target => p[2] < n)
  <2>1. p = <<p[1], p[2]>> /\ p[1] \in Segments /\ p[2] \in 1..Len(segs[p[1]].rows)
    BY <1>7
  <2>2. CASE p[1] = target
    <3>1. p[2] \in 1..Len(old) /\ p[2] \in 1..n /\ p[2] < n
      BY <2>1, <2>2, <1>4
    <3>2. QED BY <2>1, <2>2, <3>1, <1>4, <1>8, <1>9 DEF RowAt
  <2>3. CASE p[1] # target
    BY <2>1, <2>3, <1>8, <1>9 DEF RowAt
  <2>4. QED BY <2>2, <2>3
<1>12. ASSUME NEW p \in Written' PROVE p \in Written \/ p = <<target, n>>
  <2>1. p = <<p[1], p[2]>> /\ p[1] \in Segments /\ p[2] \in 1..Len(segs'[p[1]].rows)
    BY <1>8
  <2>2. CASE p[1] = target
    <3>1. p[2] \in 1..Len(old) \/ p[2] = n
      BY <2>1, <2>2, <1>4, <1>9
    <3>2. QED BY <2>1, <2>2, <3>1, <1>3, <1>7
  <2>3. CASE p[1] # target
    BY <2>1, <2>3, <1>7, <1>9
  <2>4. QED BY <2>2, <2>3
<1>13. \A s \in Segments : segs'[s].key = segs[s].key
  BY <1>5, <1>6
<1>14. q[1] = target /\ q[2] = n
  BY <1>10
<1> HIDE DEF n
<1>15. QED BY <1>2, <1>3, <1>6, <1>10, <1>11, <1>12, <1>13, <1>14

SegmentRows == NewestIsOpen /\ WrittenOnce /\ WrittenToOwn /\ StreamOrder

\* Writing the oldest row in hand to its key's newest segment keeps the order
\* of every stream, and no row is there twice.
LEMMA WritingKeepsSegments ==
    ASSUME TypeOK, TypeOK', HandShape, SegmentRows, PassedOn, WriteRow,
           UNCHANGED failed, segs' # segs
    PROVE  /\ SegmentRows'
           /\ WrittenIds' = WrittenIds \cup {Head(batch).id}
<1>1. /\ IsOpen(target) /\ target \in Segments /\ Segments' = Segments
      /\ \A s \in Segments : segs'[s].key = segs[s].key
  BY RowIsWritten
<1>2. PICK q \in Written' :
          /\ q[1] = target /\ RowAt(q)' = Head(batch)
          /\ \A p \in Written : /\ p \in Written' /\ RowAt(p)' = RowAt(p)
                                /\ p[1] = target => p[2] < q[2]
          /\ \A p \in Written' : p \in Written \/ p = q
  BY RowIsWritten
<1>3. /\ target' = 0 /\ handles' = handles /\ target # 0
      /\ segs[target].key = Head(batch).key
  BY DEF WriteRow, SegmentRows, NewestIsOpen
<1>4. \A p \in Written : RowAt(p).id < Head(batch).id /\ RowAt(p).id \in Nat
  <2>1. \A p \in Written : RowAt(p).id \in WrittenIds /\ RowAt(p).id \in Nat
    BY WrittenPlaces DEF WrittenIds, Places, Rows
  <2>2. Head(batch).id \in Ids(batch)
    BY IdsOfTail DEF TypeOK, PassedOn, WriteRow, HandShape
  <2>3. QED BY <2>1, <2>2 DEF PassedOn, Before
<1>5. Head(batch).id \in Nat
  BY IdsOfTail DEF TypeOK, PassedOn, WriteRow, HandShape
<1>6. NewestIsOpen'
  BY <1>1, <1>3 DEF NewestIsOpen, SegmentRows
<1>7. WrittenOnce'
  <2> SUFFICES ASSUME NEW a \in Written', NEW b \in Written',
                      RowAt(a)'.id = RowAt(b)'.id
               PROVE  a = b
    BY DEF WrittenOnce
  <2>1. CASE a = q
    BY <2>1, <1>2, <1>4, <1>5
  <2>2. CASE b = q
    BY <2>2, <1>2, <1>4, <1>5
  <2>3. CASE a \in Written /\ b \in Written
    BY <2>3, <1>2 DEF SegmentRows, WrittenOnce
  <2>4. QED BY <2>1, <2>2, <2>3, <1>2
<1>8. WrittenToOwn'
  <2> SUFFICES ASSUME NEW a \in Written'
               PROVE  RowAt(a)'.key = segs'[a[1]].key
    BY DEF WrittenToOwn
  <2>1. CASE a = q
    BY <2>1, <1>1, <1>2, <1>3
  <2>2. CASE a \in Written
    <3>1. a[1] \in Segments
      BY <2>2, WrittenPlaces DEF Places
    <3>2. QED BY <2>2, <3>1, <1>1, <1>2 DEF SegmentRows, WrittenToOwn
  <2>3. QED BY <2>1, <2>2, <1>2
<1>9. StreamOrder'
  <2> SUFFICES ASSUME NEW a \in Written', NEW b \in Written',
                      RowAt(a)'.key = RowAt(b)'.key,
                      a[1] < b[1] \/ (a[1] = b[1] /\ a[2] < b[2])
               PROVE  RowAt(a)'.id < RowAt(b)'.id
    BY DEF StreamOrder
  <2>1. CASE a \in Written /\ b \in Written
    BY <2>1, <1>2 DEF SegmentRows, StreamOrder
  <2>2. CASE a \in Written /\ b = q
    BY <2>2, <1>2, <1>4
  <2>3. CASE a = q /\ b \in Written
    <3>1. b[1] \in Segments /\ b[2] \in Nat
      BY <2>3, WrittenPlaces DEF Places
    <3>2. a[1] = target /\ (b[1] = target => b[2] < q[2])
      BY <2>3, <1>2
    <3>3. segs[b[1]].key = segs[target].key
      BY <2>3, <1>2, <1>3 DEF SegmentRows, WrittenToOwn
    <3>4. handles[segs[b[1]].key] = target
      BY <3>3, <1>1 DEF IsOpen
    <3>5. b[1] <= target
      BY <3>1, <3>4, <1>3 DEF SegmentRows, NewestIsOpen
    <3>6. target \in Nat /\ b[1] \in Nat
      BY <3>1, <1>1, WrittenPlaces DEF Segments, Places
    <3>7. b[1] = target /\ a[2] < b[2]
      BY <3>2, <3>5, <3>6
    <3>8. q[2] \in Nat
      <4>1. Places'
        BY WrittenPlaces, PTL
      <4>2. QED BY <4>1 DEF Places
    <3>9. QED BY <3>1, <3>2, <3>7, <3>8, <2>3
  <2>4. CASE a = q /\ b = q
    <3>1. q[1] \in Nat /\ q[2] \in Nat
      <4>1. Places'
        BY WrittenPlaces, PTL
      <4>2. QED BY <4>1 DEF Places, Segments
    <3>2. QED BY <2>4, <3>1
  <2>5. QED BY <2>1, <2>2, <2>3, <2>4, <1>2
<1>10. WrittenIds' = WrittenIds \cup {Head(batch).id}
  BY <1>2 DEF WrittenIds
<1>11. QED BY <1>6, <1>7, <1>8, <1>9, <1>10 DEF SegmentRows

\* A segment that is opened is empty and its key's newest.
LEMMA OpeningKeepsSegments ==
    ASSUME TypeOK, TypeOK', SegmentRows, Open
    PROVE  SegmentRows' /\ WrittenIds' = WrittenIds
<1> DEFINE k == Head(batch).key
           n == Len(segs) + 1
           seg == [key |-> k, rows |-> <<>>]
<1>1. /\ segs' = Append(segs, seg) /\ target' = n /\ batch' = batch
      /\ handles' = [handles EXCEPT ![k] = n]
  BY DEF Open
<1>2. batch # <<>> /\ Head(batch) \in Rows /\ k \in Keys
  <2>1. batch # <<>> /\ Head(batch) \in Rows
    BY TailFacts DEF Open, NeedsRow, TypeOK
  <2>2. QED BY <2>1 DEF Rows
<1>3. seg \in Segment /\ seg.key = k /\ seg.rows = <<>>
  BY <1>2 DEF Segment
<1>4. Places /\ Places'
  BY WrittenPlaces, PTL
<1>5. handles \in [Keys -> 0..Len(segs)]
  BY DEF TypeOK
<1> HIDE DEF seg, k
<1>6. /\ n \in Nat /\ Segments = 1..Len(segs) /\ Segments' = 1..n
      /\ \A s \in Segments : segs'[s] = segs[s]
      /\ segs'[n] = seg
  <2>1. segs \in Seq(Segment)
    BY <1>4 DEF Places
  <2>2. QED BY <1>1, <1>3, <2>1, AppendFacts DEF Segments
<1>7. ASSUME NEW s \in Segments' PROVE s \in Segments \/ s = n
  BY <1>6
<1> HIDE DEF n
<1>8. Len(segs'[n].rows) = 0 /\ segs'[n].key = k
  BY <1>3, <1>6
<1>9. ASSUME NEW p \in Written PROVE p \in Written' /\ RowAt(p)' = RowAt(p)
  <2>1. /\ p = <<p[1], p[2]>> /\ p[1] \in Segments /\ p[1] \in Segments'
        /\ p[2] \in 1..Len(segs[p[1]].rows)
    BY <1>4, <1>6 DEF Places, n
  <2>2. QED BY <2>1, <1>4, <1>6 DEF Places, RowAt
<1>10. ASSUME NEW p \in Written' PROVE p \in Written
  <2>1. /\ p = <<p[1], p[2]>> /\ p[1] \in Segments' /\ p[2] \in 1..Len(segs'[p[1]].rows)
    BY <1>4 DEF Places
  <2>2. p[1] # n
    BY <2>1, <1>8
  <2>3. p[1] \in Segments
    BY <2>1, <2>2, <1>7
  <2>4. QED BY <2>1, <2>3, <1>4, <1>6 DEF Places
<1>11. NewestIsOpen'
  <2>1. segs'[target'].key = Head(batch').key
    BY <1>1, <1>8 DEF k
  <2>2. ASSUME NEW s \in Segments', handles'[segs'[s].key] # 0
        PROVE  s <= handles'[segs'[s].key]
    <3>1. CASE s = n
      BY <3>1, <1>1, <1>2, <1>5, <1>6, <1>8
    <3>2. CASE s \in Segments /\ segs[s].key = k
      BY <3>2, <1>1, <1>2, <1>5, <1>6 DEF n
    <3>3. CASE s \in Segments /\ segs[s].key # k
      <4>1. segs[s].key \in Keys /\ segs'[s].key = segs[s].key
        BY <3>3, <1>4, <1>6 DEF Places, Segment
      <4>2. handles'[segs[s].key] = handles[segs[s].key]
        BY <4>1, <3>3, <1>1, <1>5
      <4>3. QED BY <2>2, <3>3, <4>1, <4>2 DEF SegmentRows, NewestIsOpen
    <3>4. QED BY <3>1, <3>2, <3>3, <1>7
  <2>3. QED BY <2>1, <2>2 DEF NewestIsOpen
<1>12. WrittenOnce'
  BY <1>9, <1>10 DEF SegmentRows, WrittenOnce
<1>13. WrittenToOwn'
  <2> SUFFICES ASSUME NEW a \in Written'
               PROVE  RowAt(a)'.key = segs'[a[1]].key
    BY DEF WrittenToOwn
  <2>1. a \in Written /\ a[1] \in Segments
    BY <1>10, <1>4 DEF Places
  <2>2. QED BY <2>1, <1>6, <1>9 DEF SegmentRows, WrittenToOwn
<1>14. StreamOrder'
  BY <1>9, <1>10 DEF SegmentRows, StreamOrder
<1>15. WrittenIds' = WrittenIds
  BY <1>9, <1>10 DEF WrittenIds
<1>16. QED BY <1>11, <1>12, <1>13, <1>14, <1>15 DEF SegmentRows

\* No other step changes the segments, and handles are only closed.
LEMMA OthersKeepSegments ==
    ASSUME TypeOK, HandShape, OpenAreOwn, SegmentRows, segs' = segs,
           Submit \/ Unblock \/ Take \/ Reuse \/ OpenFails \/ WriteRow
             \/ SeeStop \/ WriterEnds \/ Compressor \/ Stop \/ Stopping \/ Exit
             \/ UNCHANGED vars
    PROVE  SegmentRows' /\ WrittenIds' = WrittenIds
<1>1. Written' = Written /\ \A p : RowAt(p)' = RowAt(p)
  BY DEF Written, RowAt, Segments
<1>2. WrittenIds' = WrittenIds /\ WrittenOnce' /\ WrittenToOwn' /\ StreamOrder'
  BY <1>1 DEF WrittenIds, WrittenOnce, WrittenToOwn, StreamOrder, SegmentRows
<1>3. \A s \in Segments : segs[s].key \in Keys
  BY WrittenPlaces DEF Places, Segment
<1>4. NewestIsOpen'
  <2> SUFFICES /\ target' # 0 => segs[target'].key = Head(batch').key
               /\ \A k \in Keys : handles'[k] # 0 => handles'[k] = handles[k]
    BY <1>3 DEF NewestIsOpen, SegmentRows, Segments
  <2>1. CASE Submit
    BY <2>1 DEF Submit, Queue, QueueEvicting, Drop, Block, Arrives, writerVars,
                SegmentRows, NewestIsOpen
  <2>2. CASE Unblock \/ SeeStop \/ WriterEnds \/ Compressor \/ Stop \/ Exit
                \/ UNCHANGED vars
    BY <2>2 DEF Unblock, SeeStop, WriterEnds, Compressor, CompTake, Gzip, CompEnds,
                Stop, Exit, writerVars, vars, SegmentRows, NewestIsOpen
  <2>3. CASE Take
    BY <2>3 DEF Take, HandShape
  <2>4. CASE Reuse
    <3>1. batch # <<>> /\ Head(batch) \in Rows
      BY <2>4, TailFacts DEF Reuse, NeedsRow, TypeOK
    <3>2. Head(batch).key \in Keys
      BY <3>1 DEF Rows
    <3>3. QED BY <2>4, <3>2 DEF Reuse, OpenAreOwn
  <2>5. CASE OpenFails
    <3>1. target' = 0 /\ handles' = [handles EXCEPT ![Head(batch).key] = 0]
      BY <2>5 DEF OpenFails, NeedsRow
    <3>2. handles \in [Keys -> 0..Len(segs)]
      BY DEF TypeOK
    <3>3. QED BY <3>1, <3>2
  <2>6. CASE WriteRow
    BY <2>6 DEF WriteRow
  <2>7. CASE Stopping
    <3>1. CASE JoinWriter \/ AllClosed \/ JoinComp
      BY <3>1 DEF JoinWriter, AllClosed, JoinComp, writerVars, SegmentRows, NewestIsOpen
    <3>2. CASE \E k \in Keys : CloseSegment(k)
      <4>1. PICK k \in Keys : CloseSegment(k)
        BY <3>2
      <4>2. /\ handles' = [handles EXCEPT ![k] = 0] /\ target' = target /\ batch' = batch
        BY <4>1 DEF CloseSegment, writerVars
      <4>3. handles \in [Keys -> 0..Len(segs)]
        BY DEF TypeOK
      <4>4. QED BY <4>2, <4>3 DEF SegmentRows, NewestIsOpen
    <3>3. QED BY <2>7, <3>1, <3>2 DEF Stopping
  <2>8. QED BY <2>1, <2>2, <2>3, <2>4, <2>5, <2>6, <2>7
<1>5. QED BY <1>2, <1>4 DEF SegmentRows

-----------------------------------------------------------------------------
(* Rows from hand to hand.                                                  *)

\* Numbers are all taken from 1 to arrived, so the next one is new everywhere
\* and greater than every other.
LEMMA NextNumber ==
    ASSUME TypeOK, Reckoned
    PROVE  /\ arrived \in Nat
           /\ \A m \in WrittenIds \cup Ids(batch) \cup Ids(queue) \cup Ids(pending)
                         \cup LostIds : m \in 1..arrived /\ m < arrived + 1
<1>1. arrived \in Nat
  BY DEF TypeOK
<1>2. \A m \in 1..arrived : m < arrived + 1
  BY <1>1
<1>3. QED BY <1>1, <1>2 DEF Reckoned

\* A row that is counted as lost was not among the lost before.
LEMMA LostGrows ==
    ASSUME Reckoned, NEW r \in Rows, r.id \notin LostIds,
           \/ dropped' = dropped \cup {r} /\ failed' = failed
           \/ dropped' = dropped /\ failed' = failed \cup {r}
    PROVE  /\ LostIds' = LostIds \cup {r.id}
           /\ (\A q, p \in Lost : q.id = p.id => q = p)'
           /\ (dropped \cap failed = {})'
<1>1. Lost' = Lost \cup {r}
  BY DEF Lost
<1>2. r \notin dropped /\ r \notin failed
  BY DEF LostIds, Lost
<1>3. LostIds' = LostIds \cup {r.id}
  BY <1>1 DEF LostIds
<1>4. \A q \in Lost : q.id # r.id
  BY DEF LostIds
<1>5. (\A q, p \in Lost : q.id = p.id => q = p)'
  BY <1>1, <1>4 DEF Reckoned
<1>6. QED BY <1>2, <1>3, <1>5 DEF Reckoned

\* Nothing is lost when neither set grows.
LEMMA LostStays ==
    ASSUME Reckoned, dropped' = dropped, failed' = failed
    PROVE  /\ LostIds' = LostIds
           /\ (\A q, p \in Lost : q.id = p.id => q = p)'
           /\ (dropped \cap failed = {})'
BY DEF LostIds, Lost, Reckoned

RowsMove == PassedOn /\ Reckoned

\* put(): a row that arrives is queued, dropped or held back; one that makes way
\* for it is dropped.
LEMMA SubmitMovesRows ==
    ASSUME TypeOK, RowsMove, NEW k \in Keys, WrittenIds' = WrittenIds,
           Queue(k) \/ QueueEvicting(k) \/ Drop(k) \/ Block(k)
    PROVE  RowsMove'
<1> DEFINE r == Row(k)
           n == arrived + 1
<1>1. /\ n \in Nat /\ r \in Rows /\ r.id = n /\ arrived' = n /\ batch' = batch
      /\ failed' = failed /\ pending = <<>> /\ Ids(pending) = {}
      /\ 1..n = (1..arrived) \cup {n} /\ queue \in Seq(Rows)
  <2>1. Arrives(k)
    BY DEF Queue, QueueEvicting, Drop, Block
  <2>2. arrived' = n /\ batch' = batch /\ failed' = failed /\ caller = "recording"
    BY <2>1 DEF Arrives, writerVars
  <2>3. n \in Nat /\ 1..n = (1..arrived) \cup {n} /\ queue \in Seq(Rows)
    BY DEF TypeOK
  <2>4. r \in Rows /\ r.id = n
    BY RowIsRow DEF Row
  <2>5. pending = <<>> /\ Ids(pending) = {}
    BY <2>2, IdsOfNone DEF RowsMove, PassedOn
  <2>6. QED BY <2>2, <2>3, <2>4, <2>5
<1>2. \A m \in WrittenIds \cup Ids(batch) \cup Ids(queue) \cup LostIds :
          m \in 1..arrived /\ m < n
  BY NextNumber DEF RowsMove
<1>3. n \notin 1..arrived
  BY DEF TypeOK
<1> HIDE DEF r, n
<1>4. /\ InOrder(batch) /\ InOrder(queue)
      /\ Before(WrittenIds, Ids(batch) \cup Ids(queue))
      /\ Before(Ids(batch), Ids(queue))
      /\ WrittenIds \cup Ids(batch) \cup Ids(queue) \cup LostIds = 1..arrived
      /\ LostIds \cap (WrittenIds \cup Ids(batch) \cup Ids(queue)) = {}
  BY <1>1 DEF RowsMove, PassedOn, Reckoned, Before
<1>5. CASE Queue(k)
  <2>1. /\ queue' = Append(queue, r) /\ pending' = <<>> /\ dropped' = dropped
        /\ caller' = caller
    BY <1>1, <1>5 DEF Queue, r
  <2>2. Ids(queue') = Ids(queue) \cup {n} /\ InOrder(queue')
    BY <1>1, <1>2, <1>4, <2>1, IdsOfAppend DEF TypeOK
  <2>3. LostIds' = LostIds /\ (\A q, p \in Lost : q.id = p.id => q = p)'
        /\ (dropped \cap failed = {})'
    BY <1>1, <2>1, LostStays DEF RowsMove
  <2>4. PassedOn'
    BY <1>1, <1>2, <1>4, <2>1, <2>2 DEF PassedOn, Before
  <2>5. Reckoned'
    BY <1>1, <1>2, <1>3, <1>4, <2>1, <2>2, <2>3 DEF Reckoned
  <2>6. QED BY <2>4, <2>5 DEF RowsMove
<1>6. CASE QueueEvicting(k)
  <2> DEFINE v == Victim(r)
             t == RemoveAt(queue, v)
  <2>1. /\ v \in 1..Len(queue) /\ queue[v] \in Rows
        /\ queue' = Append(t, r) /\ pending' = <<>>
        /\ dropped' = dropped \cup {queue[v]} /\ caller' = caller
    BY <1>1, <1>6, VictimFacts DEF QueueEvicting, r
  <2>2. /\ t \in Seq(Rows) /\ Len(t) = Len(queue) - 1
        /\ \A j \in 1..(Len(queue) - 1) : t[j] = IF j < v THEN queue[j] ELSE queue[j + 1]
    BY <1>1, <2>1, RemoveAtFacts
  <2> HIDE DEF t, v
  <2>3. /\ queue[v].id \in Ids(queue) /\ Ids(t) = Ids(queue) \ {queue[v].id}
        /\ InOrder(t)
    BY <1>1, <1>4, <2>1, <2>2, IdsOfRemoval
  <2>4. Ids(queue') = Ids(t) \cup {n} /\ InOrder(queue')
    BY <1>1, <1>2, <2>1, <2>2, <2>3, IdsOfAppend
  <2>5. queue[v].id \notin LostIds
    BY <1>4, <2>3
  <2>6. LostIds' = LostIds \cup {queue[v].id}
        /\ (\A q, p \in Lost : q.id = p.id => q = p)' /\ (dropped \cap failed = {})'
    BY <1>1, <2>1, <2>5, LostGrows DEF RowsMove
  <2>7. queue[v].id \notin WrittenIds \cup Ids(batch)
    <3>1. ASSUME NEW m \in WrittenIds \cup Ids(batch) PROVE m < queue[v].id /\ m \in Nat
      BY <1>2, <1>4, <2>3, <3>1 DEF Before
    <3>2. QED BY <3>1
  <2>8. PassedOn'
    BY <1>1, <1>2, <1>4, <2>1, <2>3, <2>4 DEF PassedOn, Before
  <2>9. Reckoned'
    <3>1. WrittenIds \cup Ids(batch) \cup Ids(queue') \cup LostIds' = 1..n
      BY <1>1, <1>4, <2>3, <2>4, <2>6
    <3>2. LostIds' \cap (WrittenIds \cup Ids(batch) \cup Ids(queue')) = {}
      BY <1>2, <1>3, <1>4, <2>3, <2>4, <2>6, <2>7
    <3>3. QED BY <1>1, <2>1, <2>6, <3>1, <3>2 DEF Reckoned
  <2>10. QED BY <2>8, <2>9 DEF RowsMove
<1>7. CASE Drop(k)
  <2>1. /\ queue' = queue /\ pending' = <<>> /\ dropped' = dropped \cup {r}
        /\ caller' = caller
    BY <1>1, <1>7 DEF Drop, r
  <2>2. r.id \notin LostIds
    BY <1>1, <1>2, <1>3
  <2>3. LostIds' = LostIds \cup {n} /\ (\A q, p \in Lost : q.id = p.id => q = p)'
        /\ (dropped \cap failed = {})'
    BY <1>1, <2>1, <2>2, LostGrows DEF RowsMove
  <2>4. PassedOn'
    BY <1>1, <1>4, <2>1 DEF PassedOn, Before
  <2>5. Reckoned'
    BY <1>1, <1>2, <1>3, <1>4, <2>1, <2>3 DEF Reckoned
  <2>6. QED BY <2>4, <2>5 DEF RowsMove
<1>8. CASE Block(k)
  <2>1. /\ queue' = queue /\ pending' = <<r>> /\ dropped' = dropped
        /\ caller' = "blocked"
    BY <1>8 DEF Block, r
  <2>2. Ids(pending') = {n} /\ Len(pending') = 1
    BY <1>1, <2>1 DEF Ids
  <2>3. LostIds' = LostIds /\ (\A q, p \in Lost : q.id = p.id => q = p)'
        /\ (dropped \cap failed = {})'
    BY <1>1, <2>1, LostStays DEF RowsMove
  <2>4. PassedOn'
    BY <1>1, <1>2, <1>4, <2>1, <2>2 DEF PassedOn, Before
  <2>5. Reckoned'
    BY <1>1, <1>2, <1>3, <1>4, <2>1, <2>2, <2>3 DEF Reckoned
  <2>6. QED BY <2>4, <2>5 DEF RowsMove
<1>9. QED BY <1>5, <1>6, <1>7, <1>8

\* put() is woken: the row it held back is queued or dropped.
LEMMA UnblockMovesRows ==
    ASSUME TypeOK, HandShape, RowsMove, WrittenIds' = WrittenIds, Unblock
    PROVE  RowsMove'
<1> DEFINE r == Head(pending)
<1>1. /\ pending # <<>> /\ pending' = <<>> /\ caller' = "recording"
      /\ batch' = batch /\ failed' = failed /\ arrived' = arrived
      /\ queue \in Seq(Rows) /\ pending \in Seq(Rows)
  BY DEF Unblock, HandShape, writerVars, TypeOK
<1>2. /\ r \in Rows /\ r = pending[1] /\ Len(pending) = 1
  <2>1. /\ Head(pending) \in Rows /\ Head(pending) = pending[1]
        /\ Len(pending) \in Nat \ {0}
    BY <1>1, TailFacts
  <2>2. Len(pending) <= 1
    BY DEF RowsMove, PassedOn
  <2>3. \A l \in Nat \ {0} : l <= 1 => l = 1
    OBVIOUS
  <2>4. QED BY <2>1, <2>2, <2>3
<1>3. Ids(pending) = {r.id} /\ Ids(pending') = {}
  <2>1. DOMAIN pending = {1}
    BY <1>1, <1>2, IdsAreNatural
  <2>2. QED BY <1>1, <1>2, <2>1, IdsOfNone DEF Ids
<1>4. r.id \in Nat /\ \A m \in Ids(queue) : m < r.id
  BY <1>2, <1>3 DEF Rows, RowsMove, PassedOn, Before
<1> HIDE DEF r
<1>5. CASE Full
  <2>1. queue' = queue /\ dropped' = dropped \cup {r}
    BY <1>5 DEF Unblock, r
  <2>2. r.id \notin LostIds
    BY <1>3 DEF RowsMove, Reckoned
  <2>3. LostIds' = LostIds \cup {r.id} /\ (\A q, p \in Lost : q.id = p.id => q = p)'
        /\ (dropped \cap failed = {})'
    BY <1>1, <1>2, <2>1, <2>2, LostGrows DEF RowsMove
  <2>4. r.id \notin WrittenIds \cup Ids(batch) \cup Ids(queue)
    <3>1. ASSUME NEW m \in WrittenIds \cup Ids(batch) \cup Ids(queue)
          PROVE  m < r.id
      BY <3>1, <1>3 DEF RowsMove, PassedOn, Before
    <3>2. ~(r.id < r.id)
      BY <1>4
    <3>3. QED BY <3>1, <3>2
  <2>5. PassedOn'
    BY <1>1, <1>3, <2>1 DEF RowsMove, PassedOn, Before
  <2>6. Reckoned'
    BY <1>1, <1>3, <2>1, <2>3, <2>4 DEF RowsMove, Reckoned
  <2>7. QED BY <2>5, <2>6 DEF RowsMove
<1>6. CASE ~Full
  <2>1. queue' = Append(queue, r) /\ dropped' = dropped
    BY <1>6 DEF Unblock, r
  <2>2. Ids(queue') = Ids(queue) \cup {r.id} /\ InOrder(queue')
    BY <1>1, <1>2, <1>4, <2>1, IdsOfAppend DEF RowsMove, PassedOn
  <2>3. LostIds' = LostIds /\ (\A q, p \in Lost : q.id = p.id => q = p)'
        /\ (dropped \cap failed = {})'
    BY <1>1, <2>1, LostStays DEF RowsMove
  <2>4. PassedOn'
    BY <1>1, <1>3, <2>2 DEF RowsMove, PassedOn, Before
  <2>5. Reckoned'
    BY <1>1, <1>3, <2>2, <2>3 DEF RowsMove, Reckoned
  <2>6. QED BY <2>4, <2>5 DEF RowsMove
<1>7. QED BY <1>5, <1>6

\* get_batch: the oldest rows of the queue go to the writer, which has none.
LEMMA TakeMovesRows ==
    ASSUME TypeOK, WriterAssumption, RowsMove, WrittenIds' = WrittenIds, Take
    PROVE  RowsMove'
<1> DEFINE n == IF Len(queue) < BatchSize THEN Len(queue) ELSE BatchSize
<1>1. /\ queue \in Seq(Rows) /\ n \in 0..Len(queue)
      /\ batch' = SubSeq(queue, 1, n) /\ queue' = SubSeq(queue, n + 1, Len(queue))
  BY LenProperties DEF TypeOK, WriterAssumption, Take
<1> HIDE DEF n
<1>2. /\ InOrder(batch') /\ InOrder(queue')
      /\ Ids(batch') \cup Ids(queue') = Ids(queue)
      /\ Before(Ids(batch'), Ids(queue'))
  BY <1>1, IdsOfParts DEF RowsMove, PassedOn
<1>3. /\ Ids(batch) = {} /\ pending' = pending /\ caller' = caller
      /\ dropped' = dropped /\ failed' = failed /\ arrived' = arrived
  BY IdsOfNone DEF Take
<1>4. LostIds' = LostIds /\ (\A q, p \in Lost : q.id = p.id => q = p)'
      /\ (dropped \cap failed = {})'
  BY <1>3, LostStays DEF RowsMove
<1>5. PassedOn'
  <2>1. \A m \in Ids(batch') \cup Ids(queue') : m \in Ids(queue)
    BY <1>2
  <2>2. QED BY <1>2, <1>3, <2>1 DEF RowsMove, PassedOn, Before
<1>6. Reckoned'
  <2>1. /\ WrittenIds \cup Ids(queue) \cup Ids(pending) \cup LostIds = 1..arrived
        /\ LostIds \cap (WrittenIds \cup Ids(queue) \cup Ids(pending)) = {}
    BY <1>3 DEF RowsMove, Reckoned
  <2>2. QED BY <1>2, <1>3, <1>4, <2>1 DEF Reckoned
<1>7. QED BY <1>5, <1>6 DEF RowsMove

\* _write_item: the oldest row in hand is written, or it fails.
LEMMA ItemMovesRows ==
    ASSUME TypeOK, RowsMove, batch # <<>>, batch' = Tail(batch),
           UNCHANGED <<queue, pending, caller, dropped, arrived>>,
           \/ failed' = failed /\ WrittenIds' = WrittenIds \cup {Head(batch).id}
           \/ failed' = failed \cup {Head(batch)} /\ WrittenIds' = WrittenIds
    PROVE  RowsMove'
<1> DEFINE h == Head(batch)
<1>1. /\ h \in Rows /\ h.id \in Ids(batch) /\ h.id \in Nat
      /\ InOrder(batch') /\ Ids(batch') = Ids(batch) \ {h.id}
      /\ \A m \in Ids(batch') : h.id < m
  BY IdsOfTail DEF TypeOK, RowsMove, PassedOn
<1>2. /\ \A m \in Ids(queue) \cup Ids(pending) : h.id < m
      /\ \A m \in WrittenIds : m < h.id
  BY <1>1 DEF RowsMove, PassedOn, Before
<1>3. h.id \notin LostIds
  BY <1>1 DEF RowsMove, Reckoned
<1>4. ~(h.id < h.id)
  BY <1>1
<1> HIDE DEF h
<1>5. CASE failed' = failed /\ WrittenIds' = WrittenIds \cup {h.id}
  <2>1. LostIds' = LostIds /\ (\A q, p \in Lost : q.id = p.id => q = p)'
        /\ (dropped \cap failed = {})'
    BY <1>5, LostStays DEF RowsMove
  <2>2. PassedOn'
    BY <1>1, <1>2, <1>5 DEF RowsMove, PassedOn, Before
  <2>3. Reckoned'
    BY <1>1, <1>3, <1>5, <2>1 DEF RowsMove, Reckoned
  <2>4. QED BY <2>2, <2>3 DEF RowsMove
<1>6. CASE failed' = failed \cup {h} /\ WrittenIds' = WrittenIds
  <2>1. LostIds' = LostIds \cup {h.id} /\ (\A q, p \in Lost : q.id = p.id => q = p)'
        /\ (dropped \cap failed = {})'
    BY <1>1, <1>3, <1>6, LostGrows DEF RowsMove
  <2>2. PassedOn'
    BY <1>1, <1>2, <1>6 DEF RowsMove, PassedOn, Before
  <2>3. h.id \notin WrittenIds \cup Ids(batch') \cup Ids(queue) \cup Ids(pending)
    BY <1>1, <1>2, <1>4
  <2>4. Reckoned'
    BY <1>1, <1>6, <2>1, <2>3 DEF RowsMove, Reckoned
  <2>5. QED BY <2>2, <2>4 DEF RowsMove
<1>7. QED BY <1>5, <1>6 DEF h

\* No other step moves a row.
LEMMA OthersMoveNoRows ==
    ASSUME RowsMove, WrittenIds' = WrittenIds,
           Reuse \/ Open \/ SeeStop \/ WriterEnds \/ Compressor \/ Stop \/ Stopping
             \/ Exit \/ UNCHANGED vars
    PROVE  RowsMove'
<1>1. /\ UNCHANGED <<queue, pending, batch, dropped, failed, arrived>>
      /\ caller' # caller => caller # "blocked" /\ caller' # "blocked"
  <2>1. CASE Reuse \/ Open \/ SeeStop \/ WriterEnds \/ UNCHANGED vars
    BY <2>1 DEF Reuse, Open, SeeStop, WriterEnds, queueVars, vars
  <2>2. CASE Compressor
    BY <2>2 DEF Compressor, CompTake, Gzip, CompEnds, queueVars, writerVars
  <2>3. CASE Stop \/ Stopping \/ Exit
    BY <2>3 DEF Stop, Stopping, JoinWriter, CloseSegment, AllClosed, JoinComp, Exit,
                queueVars, writerVars
  <2>4. QED BY <2>1, <2>2, <2>3
<1>2. LostIds' = LostIds /\ (\A q, p \in Lost : q.id = p.id => q = p)'
      /\ (dropped \cap failed = {})'
  BY <1>1, LostStays DEF RowsMove
<1>3. PassedOn'
  BY <1>1 DEF RowsMove, PassedOn
<1>4. Reckoned'
  BY <1>1, <1>2 DEF RowsMove, Reckoned
<1>5. QED BY <1>3, <1>4 DEF RowsMove

-----------------------------------------------------------------------------
(* The invariant.                                                           *)

LEMMA RowsInit == Init => RowsInv
<1> SUFFICES ASSUME Init PROVE RowsInv
  OBVIOUS
<1>1. /\ batch = <<>> /\ queue = <<>> /\ pending = <<>> /\ segs = <<>> /\ target = 0
      /\ dropped = {} /\ failed = {} /\ arrived = 0 /\ handles = [k \in Keys |-> 0]
  BY DEF Init
<1>2. Segments = {} /\ Written = {} /\ Lost = {}
  BY <1>1 DEF Segments, Written, Lost
<1>3. WrittenIds = {} /\ LostIds = {}
  BY <1>2 DEF WrittenIds, LostIds
<1>4. PassedOn
  BY <1>1, <1>3, IdsOfNone DEF PassedOn, Before
<1>5. Reckoned
  BY <1>1, <1>2, <1>3, IdsOfNone DEF Reckoned
<1>6. NewestIsOpen /\ WrittenOnce /\ WrittenToOwn /\ StreamOrder
  BY <1>1, <1>2 DEF NewestIsOpen, WrittenOnce, WrittenToOwn, StreamOrder
<1>7. QED BY <1>4, <1>5, <1>6 DEF RowsInv

LEMMA RowsStep ==
    ASSUME IInv, IInv', RowsInv, WriterAssumption, [Next]_vars
    PROVE  RowsInv'
<1>1. /\ TypeOK /\ TypeOK' /\ HandShape /\ OpenAreOwn /\ SegmentRows /\ RowsMove
  BY DEF IInv, RowsInv, SegmentRows, RowsMove
<1>2. SUFFICES SegmentRows' /\ RowsMove'
  BY DEF RowsInv, SegmentRows, RowsMove
<1>3. CASE Submit
  <2>1. PICK k \in Keys : Queue(k) \/ QueueEvicting(k) \/ Drop(k) \/ Block(k)
    BY <1>3 DEF Submit
  <2>2. segs' = segs
    BY <2>1 DEF Queue, QueueEvicting, Drop, Block, Arrives, writerVars
  <2>3. QED BY <1>1, <1>3, <2>1, <2>2, OthersKeepSegments, SubmitMovesRows
<1>4. CASE Unblock
  <2>1. segs' = segs
    BY <1>4 DEF Unblock, writerVars
  <2>2. QED BY <1>1, <1>4, <2>1, OthersKeepSegments, UnblockMovesRows
<1>5. CASE Take
  <2>1. segs' = segs
    BY <1>5 DEF Take
  <2>2. QED BY <1>1, <1>5, <2>1, OthersKeepSegments, TakeMovesRows
<1>6. CASE Open
  BY <1>1, <1>6, OpeningKeepsSegments, OthersMoveNoRows
<1>7. CASE OpenFails
  <2>1. /\ segs' = segs /\ batch # <<>> /\ batch' = Tail(batch)
        /\ UNCHANGED <<queue, pending, caller, dropped, arrived>>
        /\ failed' = failed \cup {Head(batch)}
    BY <1>7 DEF OpenFails, NeedsRow, queueVars
  <2>2. SegmentRows' /\ WrittenIds' = WrittenIds
    BY <1>1, <1>7, <2>1, OthersKeepSegments
  <2>3. QED BY <1>1, <2>1, <2>2, ItemMovesRows
<1>8. CASE WriteRow
  <2>1. /\ batch # <<>> /\ batch' = Tail(batch)
        /\ UNCHANGED <<queue, pending, caller, dropped, arrived>>
    BY <1>1, <1>8 DEF WriteRow, HandShape, queueVars
  <2>2. CASE /\ segs' = [segs EXCEPT ![target].rows = Append(@, Head(batch))]
             /\ UNCHANGED failed
    <3>1. target \in Segments /\ Head(batch) \in Rows
      BY <1>1, <1>8, <2>1, TailFacts, WrittenPlaces DEF WriteRow, TypeOK, Segments, Places
    <3>2. segs[target].rows \in Seq(Rows) /\ segs \in Seq(Segment) /\ segs[target] \in Segment
      BY <1>1, <3>1, WrittenPlaces DEF Places
    <3>3. Append(segs[target].rows, Head(batch)) # segs[target].rows
      BY <3>1, <3>2, AppendFacts
    <3>4. segs'[target].rows = Append(segs[target].rows, Head(batch))
      BY <2>2, <3>1, <3>2 DEF Segment, Segments
    <3>5. segs' # segs /\ failed' = failed
      BY <2>2, <3>3, <3>4
    <3>6. SegmentRows' /\ WrittenIds' = WrittenIds \cup {Head(batch).id}
      BY <1>1, <1>8, <3>5, WritingKeepsSegments DEF RowsMove
    <3>7. QED BY <1>1, <2>1, <3>5, <3>6, ItemMovesRows
  <2>3. CASE failed' = failed \cup {Head(batch)} /\ UNCHANGED segs
    <3>1. SegmentRows' /\ WrittenIds' = WrittenIds
      BY <1>1, <1>8, <2>3, OthersKeepSegments
    <3>2. QED BY <1>1, <2>1, <2>3, <3>1, ItemMovesRows
  <2>4. QED BY <1>8, <2>2, <2>3 DEF WriteRow
<1>9. CASE Reuse \/ SeeStop \/ WriterEnds \/ Compressor \/ Stop \/ Stopping \/ Exit
             \/ UNCHANGED vars
  <2>1. segs' = segs
    <3>1. CASE Reuse \/ SeeStop \/ WriterEnds \/ UNCHANGED vars
      BY <3>1 DEF Reuse, SeeStop, WriterEnds, vars
    <3>2. CASE Compressor
      BY <3>2 DEF Compressor, CompTake, Gzip, CompEnds, writerVars
    <3>3. CASE Stop \/ Stopping \/ Exit
      BY <3>3 DEF Stop, Stopping, JoinWriter, CloseSegment, AllClosed, JoinComp, Exit,
                  writerVars
    <3>4. QED BY <1>9, <3>1, <3>2, <3>3
  <2>2. SegmentRows' /\ WrittenIds' = WrittenIds
    BY <1>1, <1>9, <2>1, OthersKeepSegments
  <2>3. QED BY <1>1, <1>9, <2>2, OthersMoveNoRows
<1>10. QED
  BY <1>3, <1>4, <1>5, <1>6, <1>7, <1>8, <1>9 DEF Next, Writer

\* Two sequences in order, the one before the other, are one in order.
LEMMA IdsOfConcat ==
    ASSUME NEW s \in Seq(Rows), NEW t \in Seq(Rows), InOrder(s), InOrder(t),
           Before(Ids(s), Ids(t))
    PROVE  /\ s \o t \in Seq(Rows) /\ InOrder(s \o t)
           /\ Ids(s \o t) = Ids(s) \cup Ids(t)
<1> DEFINE u == s \o t
<1>1. /\ u \in Seq(Rows) /\ Len(u) = Len(s) + Len(t)
      /\ \A i \in 1..(Len(s) + Len(t)) :
            u[i] = IF i <= Len(s) THEN s[i] ELSE t[i - Len(s)]
  BY ConcatProperties
<1>2. /\ Len(s) \in Nat /\ Len(t) \in Nat
      /\ DOMAIN s = 1..Len(s) /\ DOMAIN t = 1..Len(t)
      /\ DOMAIN u = 1..(Len(s) + Len(t))
  BY <1>1, IdsAreNatural
<1> HIDE DEF u
<1>3. /\ \A i \in 1..Len(s) : i \in DOMAIN u /\ u[i] = s[i]
      /\ \A i \in 1..Len(t) : Len(s) + i \in DOMAIN u /\ u[Len(s) + i] = t[i]
  <2>1. ASSUME NEW i \in 1..Len(s) PROVE i \in DOMAIN u /\ u[i] = s[i]
    BY <1>1, <1>2
  <2>2. ASSUME NEW i \in 1..Len(t)
        PROVE  Len(s) + i \in DOMAIN u /\ u[Len(s) + i] = t[i]
    <3>1. /\ Len(s) + i \in 1..(Len(s) + Len(t)) /\ ~(Len(s) + i <= Len(s))
          /\ (Len(s) + i) - Len(s) = i
      BY <1>2
    <3>2. QED BY <3>1, <1>1, <1>2
  <2>3. QED BY <2>1, <2>2
<1>4. ASSUME NEW i \in DOMAIN u
      PROVE  i \in 1..Len(s) \/ \E j \in 1..Len(t) : i = Len(s) + j
  <2>1. CASE i <= Len(s)
    BY <2>1, <1>2
  <2>2. CASE ~(i <= Len(s))
    <3>1. i - Len(s) \in 1..Len(t) /\ i = Len(s) + (i - Len(s))
      BY <2>2, <1>2
    <3>2. QED BY <3>1
  <2>3. QED BY <2>1, <2>2
<1>5. Ids(u) = Ids(s) \cup Ids(t)
  <2>1. ASSUME NEW n \in Ids(u) PROVE n \in Ids(s) \cup Ids(t)
    <3>1. PICK i \in DOMAIN u : n = u[i].id
      BY <2>1 DEF Ids
    <3>2. CASE i \in 1..Len(s)
      BY <3>1, <3>2, <1>2, <1>3 DEF Ids
    <3>3. CASE \E j \in 1..Len(t) : i = Len(s) + j
      BY <3>1, <3>3, <1>2, <1>3 DEF Ids
    <3>4. QED BY <3>2, <3>3, <1>4
  <2>2. ASSUME NEW n \in Ids(s) PROVE n \in Ids(u)
    <3>1. PICK i \in 1..Len(s) : n = s[i].id
      BY <2>2, <1>2 DEF Ids
    <3>2. QED BY <3>1, <1>3 DEF Ids
  <2>3. ASSUME NEW n \in Ids(t) PROVE n \in Ids(u)
    <3>1. PICK i \in 1..Len(t) : n = t[i].id
      BY <2>3, <1>2 DEF Ids
    <3>2. QED BY <3>1, <1>3 DEF Ids
  <2>4. QED BY <2>1, <2>2, <2>3
<1>6. InOrder(u)
  <2> SUFFICES ASSUME NEW i \in DOMAIN u, NEW j \in DOMAIN u, i < j
               PROVE  u[i].id < u[j].id
    BY DEF InOrder
  <2>1. CASE i \in 1..Len(s) /\ j \in 1..Len(s)
    BY <2>1, <1>2, <1>3 DEF InOrder
  <2>2. CASE i \in 1..Len(s) /\ \E l \in 1..Len(t) : j = Len(s) + l
    <3>1. PICK l \in 1..Len(t) : j = Len(s) + l
      BY <2>2
    <3>2. s[i].id \in Ids(s) /\ t[l].id \in Ids(t)
      BY <2>2, <1>2 DEF Ids
    <3>3. QED BY <2>2, <3>1, <3>2, <1>3 DEF Before
  <2>3. CASE /\ \E k \in 1..Len(t) : i = Len(s) + k
             /\ \E l \in 1..Len(t) : j = Len(s) + l
    <3>1. PICK k \in 1..Len(t) : i = Len(s) + k
      BY <2>3
    <3>2. PICK l \in 1..Len(t) : j = Len(s) + l
      BY <2>3
    <3>3. k < l
      BY <3>1, <3>2, <1>2
    <3>4. t[k].id < t[l].id
      BY <3>3, <1>2 DEF InOrder
    <3>5. QED BY <3>1, <3>2, <3>4, <1>3
  <2>4. CASE (\E k \in 1..Len(t) : i = Len(s) + k) /\ j \in 1..Len(s)
    BY <2>4, <1>2
  <2>5. QED BY <2>1, <2>2, <2>3, <2>4, <1>4
<1>7. QED BY <1>1, <1>5, <1>6 DEF u

LEMMA RowsInvAccounts ==
    ASSUME TypeOK, RowsInv
    PROVE  RowsAccounted
<1>1. /\ batch \in Seq(Rows) /\ queue \in Seq(Rows) /\ pending \in Seq(Rows)
  BY DEF TypeOK
<1>2. InOrder(pending)
  <2>1. Len(pending) \in Nat /\ DOMAIN pending = 1..Len(pending) /\ Len(pending) <= 1
    BY <1>1, IdsAreNatural DEF RowsInv, PassedOn
  <2>2. \A i, j \in DOMAIN pending : ~(i < j)
    BY <2>1
  <2>3. QED BY <2>2 DEF InOrder
<1>3. /\ InOrder(batch) /\ InOrder(queue) /\ Before(Ids(batch), Ids(queue))
      /\ Before(Ids(batch) \cup Ids(queue), Ids(pending))
      /\ Before(WrittenIds, Ids(batch) \cup Ids(queue) \cup Ids(pending))
  BY DEF RowsInv, PassedOn, Before
<1>4. /\ batch \o queue \in Seq(Rows) /\ InOrder(batch \o queue)
      /\ Ids(batch \o queue) = Ids(batch) \cup Ids(queue)
  BY <1>1, <1>3, IdsOfConcat
<1>5. /\ Waiting \in Seq(Rows) /\ InOrder(Waiting)
      /\ Ids(Waiting) = Ids(batch) \cup Ids(queue) \cup Ids(pending)
  BY <1>1, <1>2, <1>3, <1>4, IdsOfConcat DEF Waiting
<1>6. /\ DOMAIN Waiting = 1..Len(Waiting) /\ Len(Waiting) \in Nat
      /\ \A i \in DOMAIN Waiting : Waiting[i].id \in Nat
  BY <1>5, IdsAreNatural
<1>7. \A i, j \in DOMAIN Waiting : Waiting[i].id = Waiting[j].id => i = j
  BY <1>5, <1>6 DEF InOrder
<1>8. {Waiting[i].id : i \in DOMAIN Waiting} = Ids(Waiting)
  BY DEF Ids
<1>9. \A p \in Written, i \in DOMAIN Waiting : RowAt(p).id # Waiting[i].id
  <2> SUFFICES ASSUME NEW p \in Written, NEW i \in DOMAIN Waiting
               PROVE  RowAt(p).id < Waiting[i].id /\ Waiting[i].id \in Nat
    OBVIOUS
  <2>1. RowAt(p).id \in WrittenIds /\ Waiting[i].id \in Ids(Waiting)
    BY DEF WrittenIds, Ids
  <2>2. QED BY <2>1, <1>3, <1>5, <1>6 DEF Before
<1>10. \A r \in Lost : /\ \A p \in Written : RowAt(p).id # r.id
                       /\ \A i \in DOMAIN Waiting : Waiting[i].id # r.id
  <2> SUFFICES ASSUME NEW r \in Lost
               PROVE  /\ \A p \in Written : RowAt(p).id # r.id
                      /\ \A i \in DOMAIN Waiting : Waiting[i].id # r.id
    OBVIOUS
  <2>1. r.id \in LostIds
    BY DEF LostIds
  <2>2. r.id \notin WrittenIds /\ r.id \notin Ids(Waiting)
    BY <2>1, <1>5 DEF RowsInv, Reckoned
  <2>3. QED BY <2>2 DEF WrittenIds, Ids
<1>11. {RowAt(p).id : p \in Written} \cup {Waiting[i].id : i \in DOMAIN Waiting}
          \cup {r.id : r \in Lost} = 1 .. arrived
  BY <1>5, <1>8 DEF RowsInv, Reckoned, WrittenIds, LostIds
<1>12. QED
  BY <1>7, <1>9, <1>10, <1>11 DEF RowsAccounted, RowsInv, Reckoned, WrittenOnce

-----------------------------------------------------------------------------
(* How many rows that may be dropped the queue holds.                       *)

Droppable(s) == {i \in DOMAIN s : ~High(s[i])}

\* At most as many as the queue is long.
LEMMA DroppableFinite ==
    ASSUME NEW s \in Seq(Rows)
    PROVE  /\ IsFiniteSet(Droppable(s)) /\ Cardinality(Droppable(s)) \in Nat
           /\ Cardinality(Droppable(s)) <= Len(s)
           /\ Droppable(s) \subseteq 1..Len(s)
<1>1. Len(s) \in Nat /\ DOMAIN s = 1..Len(s)
  BY IdsAreNatural
<1>2. IsFiniteSet(1..Len(s)) /\ Cardinality(1..Len(s)) = Len(s)
  BY <1>1, FS_Interval
<1>3. Droppable(s) \subseteq 1..Len(s)
  BY <1>1 DEF Droppable
<1>4. IsFiniteSet(Droppable(s)) /\ Cardinality(Droppable(s)) <= Len(s)
  BY <1>2, <1>3, FS_Subset
<1>5. QED BY <1>3, <1>4, FS_CardinalityType

\* A sequence whose droppable rows all come from another one, each from a place
\* of its own, has no more of them; if a droppable one is left out, fewer.
LEMMA DroppableMoved ==
    ASSUME NEW s \in Seq(Rows), NEW t \in Seq(Rows), NEW f \in [1..Len(t) -> 1..Len(s)],
           \A i \in 1..Len(t) : t[i] = s[f[i]],
           \A i, j \in 1..Len(t) : f[i] = f[j] => i = j
    PROVE  /\ Cardinality(Droppable(t)) <= Cardinality(Droppable(s))
           /\ \A v \in Droppable(s) : (\A i \in 1..Len(t) : f[i] # v)
                 => Cardinality(Droppable(t)) + 1 <= Cardinality(Droppable(s))
<1>1. /\ IsFiniteSet(Droppable(s)) /\ Cardinality(Droppable(s)) \in Nat
      /\ IsFiniteSet(Droppable(t)) /\ Cardinality(Droppable(t)) \in Nat
      /\ Droppable(t) \subseteq 1..Len(t) /\ Droppable(s) \subseteq 1..Len(s)
      /\ DOMAIN s = 1..Len(s)
  BY DroppableFinite, IdsAreNatural
<1> DEFINE g == [i \in Droppable(t) |-> f[i]]
<1>2. \A i \in Droppable(t) : f[i] \in Droppable(s)
  BY <1>1 DEF Droppable
<1>3. ASSUME NEW S, IsFiniteSet(S), \A i \in Droppable(t) : f[i] \in S
      PROVE  Cardinality(Droppable(t)) <= Cardinality(S)
  <2>1. g \in Injection(Droppable(t), S)
    <3>1. g \in [Droppable(t) -> S]
      BY <1>3
    <3>2. \A a, b \in Droppable(t) : g[a] = g[b] => a = b
      BY <1>1
    <3> HIDE DEF g
    <3>3. QED BY <3>1, <3>2 DEF Injection, IsInjective
  <2>2. QED BY <2>1, <1>3, FS_Injection
<1>4. ASSUME NEW v \in Droppable(s), \A i \in 1..Len(t) : f[i] # v
      PROVE  Cardinality(Droppable(t)) + 1 <= Cardinality(Droppable(s))
  <2>1. /\ IsFiniteSet(Droppable(s) \ {v})
        /\ Cardinality(Droppable(s) \ {v}) = Cardinality(Droppable(s)) - 1
    BY <1>1, FS_RemoveElement
  <2>2. \A i \in Droppable(t) : f[i] \in Droppable(s) \ {v}
    BY <1>1, <1>2, <1>4
  <2>3. Cardinality(Droppable(t)) <= Cardinality(Droppable(s) \ {v})
    BY <1>3, <2>1, <2>2
  <2>4. QED BY <1>1, <2>1, <2>3
<1>5. QED BY <1>1, <1>2, <1>3, <1>4

\* A row that is appended counts for one, and for none if it is one to keep.
LEMMA DroppableAppended ==
    ASSUME NEW s \in Seq(Rows), NEW r \in Rows
    PROVE  /\ High(r) => Cardinality(Droppable(Append(s, r))) = Cardinality(Droppable(s))
           /\ Cardinality(Droppable(Append(s, r))) <= Cardinality(Droppable(s)) + 1
<1> DEFINE t == Append(s, r)
<1>1. /\ t \in Seq(Rows) /\ Len(s) \in Nat /\ Len(t) = Len(s) + 1
      /\ \A j \in 1..Len(s) : t[j] = s[j]
      /\ t[Len(s) + 1] = r
  BY AppendFacts
<1>2. DOMAIN s = 1..Len(s) /\ DOMAIN t = 1..(Len(s) + 1)
  BY <1>1, IdsAreNatural
<1> HIDE DEF t
<1>3. \A j : j \in 1..(Len(s) + 1) <=> j \in 1..Len(s) \/ j = Len(s) + 1
  BY <1>1
<1>4. Droppable(t) = IF High(r) THEN Droppable(s) ELSE Droppable(s) \cup {Len(s) + 1}
  BY <1>1, <1>2, <1>3 DEF Droppable
<1>5. IsFiniteSet(Droppable(s)) /\ Cardinality(Droppable(s)) \in Nat
  BY DroppableFinite
<1>6. Cardinality(Droppable(s) \cup {Len(s) + 1}) <= Cardinality(Droppable(s)) + 1
  <2>1. Cardinality(Droppable(s) \cup {Len(s) + 1})
           = IF Len(s) + 1 \in Droppable(s) THEN Cardinality(Droppable(s))
             ELSE Cardinality(Droppable(s)) + 1
    BY <1>5, FS_AddElement
  <2>2. QED BY <1>5, <2>1
<1>7. QED BY <1>4, <1>5, <1>6 DEF t

\* put() and get_batch() keep the bound.
LEMMA DroppableStep ==
    ASSUME TypeOK, WriterAssumption, HandShape, DroppableBounded, [Next]_vars
    PROVE  DroppableBounded'
<1> DEFINE c == Cardinality(Droppable(queue))
<1>1. /\ queue \in Seq(Rows) /\ Len(queue) \in Nat /\ c \in Nat /\ c <= Len(queue)
      /\ c <= MaxSize /\ MaxSize \in Nat
  BY DroppableFinite, LenProperties
  DEF TypeOK, DroppableBounded, Droppable, WriterAssumption
<1>2. SUFFICES Cardinality(Droppable(queue')) <= MaxSize
  BY DEF DroppableBounded, Droppable
<1>3. CASE Submit
  <2>1. PICK k \in Keys : Queue(k) \/ QueueEvicting(k) \/ Drop(k) \/ Block(k)
    BY <1>3 DEF Submit
  <2> DEFINE r == Row(k)
  <2>2. r \in Rows
    BY RowIsRow
  <2> HIDE DEF r
  <2>3. CASE Queue(k)
    <3>1. queue' = Append(queue, r) /\ (Full => High(r))
      BY <2>3 DEF Queue, Admit, r
    <3>2. /\ High(r) => Cardinality(Droppable(queue')) = c
          /\ Cardinality(Droppable(queue')) <= c + 1
      BY <1>1, <2>2, <3>1, DroppableAppended
    <3>3. queue' \in Seq(Rows)
      BY <1>1, <2>2, <3>1, AppendFacts
    <3>4. Cardinality(Droppable(queue')) \in Nat
      BY <3>3, DroppableFinite
    <3> HIDE DEF c
    <3>5. QED BY <1>1, <3>1, <3>2, <3>4 DEF Full
  <2>4. CASE QueueEvicting(k)
    <3> DEFINE v == Victim(r)
               t == RemoveAt(queue, v)
               f == [j \in 1..(Len(queue) - 1) |-> IF j < v THEN j ELSE j + 1]
    <3>1. /\ v \in 1..Len(queue) /\ ~High(queue[v]) /\ queue' = Append(t, r)
      BY <2>2, <2>4, VictimFacts DEF QueueEvicting, r
    <3>2. /\ t \in Seq(Rows) /\ Len(t) = Len(queue) - 1
          /\ \A j \in 1..(Len(queue) - 1) : t[j] = IF j < v THEN queue[j] ELSE queue[j + 1]
      BY <1>1, <3>1, RemoveAtFacts
    <3> HIDE DEF v, t
    <3>3. v \in Droppable(queue)
      BY <1>1, <3>1, IdsAreNatural DEF Droppable
    <3>4. f \in [1..Len(t) -> 1..Len(queue)]
      BY <1>1, <3>1, <3>2
    <3>5. /\ \A i \in 1..Len(t) : t[i] = queue[f[i]] /\ f[i] # v
          /\ \A i, j \in 1..Len(t) : f[i] = f[j] => i = j
      BY <1>1, <3>1, <3>2
    <3> HIDE DEF f
    <3>6. Cardinality(Droppable(t)) + 1 <= c
      <4>1. \A w \in Droppable(queue) : (\A i \in 1..Len(t) : f[i] # w)
               => Cardinality(Droppable(t)) + 1 <= Cardinality(Droppable(queue))
        BY <1>1, <3>2, <3>4, <3>5, DroppableMoved
      <4>2. QED BY <4>1, <3>3, <3>5
    <3>7. Cardinality(Droppable(queue')) <= Cardinality(Droppable(t)) + 1
      BY <2>2, <3>1, <3>2, DroppableAppended
    <3>8. Cardinality(Droppable(queue')) \in Nat /\ Cardinality(Droppable(t)) \in Nat
      BY <2>2, <3>1, <3>2, AppendFacts, DroppableFinite
    <3> HIDE DEF c
    <3>9. QED BY <1>1, <3>6, <3>7, <3>8
  <2>5. CASE Drop(k) \/ Block(k)
    BY <1>1, <2>5 DEF Drop, Block
  <2>6. QED BY <2>1, <2>3, <2>4, <2>5
<1>4. CASE Unblock
  <2>1. CASE Full
    BY <1>1, <1>4, <2>1 DEF Unblock
  <2>2. CASE ~Full
    <3>1. Head(pending) \in Rows /\ queue' = Append(queue, Head(pending))
      BY <1>4, <2>2, TailFacts DEF Unblock, HandShape, TypeOK
    <3>2. /\ Cardinality(Droppable(queue')) <= c + 1
          /\ Cardinality(Droppable(queue')) \in Nat
      BY <1>1, <3>1, AppendFacts, DroppableAppended, DroppableFinite
    <3> HIDE DEF c
    <3>3. QED BY <1>1, <2>2, <3>2 DEF Full
  <2>3. QED BY <2>1, <2>2
<1>5. CASE Take
  <2> DEFINE n == IF Len(queue) < BatchSize THEN Len(queue) ELSE BatchSize
             t == SubSeq(queue, n + 1, Len(queue))
             f == [j \in 1..(Len(queue) - n) |-> n + j]
  <2>1. n \in 0..Len(queue) /\ queue' = t
    BY <1>1, <1>5 DEF WriterAssumption, Take
  <2> HIDE DEF n
  <2>2. /\ t \in Seq(Rows) /\ Len(t) = Len(queue) - n
        /\ \A j \in 1..(Len(queue) - n) : t[j] = queue[n + j]
    BY <1>1, <2>1, SuffixFacts
  <2> HIDE DEF t
  <2>3. f \in [1..Len(t) -> 1..Len(queue)]
    BY <1>1, <2>1, <2>2
  <2>4. /\ \A i \in 1..Len(t) : t[i] = queue[f[i]]
        /\ \A i, j \in 1..Len(t) : f[i] = f[j] => i = j
    BY <1>1, <2>1, <2>2
  <2> HIDE DEF f
  <2>5. Cardinality(Droppable(t)) <= c
    BY <1>1, <2>2, <2>3, <2>4, DroppableMoved
  <2>6. Cardinality(Droppable(t)) \in Nat
    BY <2>2, DroppableFinite
  <2> HIDE DEF c
  <2>7. QED BY <1>1, <2>1, <2>5, <2>6
<1>6. CASE queue' = queue
  BY <1>1, <1>6
<1>7. QED
  BY <1>3, <1>4, <1>5, <1>6
  DEF Next, Writer, Reuse, Open, OpenFails, WriteRow, SeeStop, WriterEnds, Compressor,
      CompTake, Gzip, CompEnds, Stop, Stopping, JoinWriter, CloseSegment, AllClosed,
      JoinComp, Exit, queueVars, vars

-----------------------------------------------------------------------------
(* The theorems.                                                            *)

THEOREM RowsInvariant == Spec => [](IInv /\ RowsInv)
<1>1. Init => IInv /\ RowsInv
  BY InitInvariant, RowsInit
<1>2. IInv /\ RowsInv /\ [Next]_vars => (IInv /\ RowsInv)'
  <2> SUFFICES ASSUME IInv, RowsInv, [Next]_vars PROVE IInv' /\ RowsInv'
    OBVIOUS
  <2>1. IInv'
    BY TypeStep, DropStep, SegmentStep, StopStep DEF IInv
  <2>2. QED BY <2>1, RowsStep, WriterAssumption
<1>3. QED BY <1>1, <1>2, PTL DEF Spec

\* Whatever the interleaving, the policy and the size of the queue, every row
\* that was submitted is in one place: in a segment, on its way to one, or
\* counted as dropped or failed.
THEOREM RowsAreAccounted == Spec => []RowsAccounted
<1>1. IInv /\ RowsInv => RowsAccounted
  BY RowsInvAccounts DEF IInv
<1>2. QED BY RowsInvariant, <1>1, PTL

\* Across rotations, failures and stop(), the segments of a key hold its rows in
\* the order of their arrival.
THEOREM StreamsStayInOrder == Spec => []StreamOrder
<1>1. IInv /\ RowsInv => StreamOrder
  BY DEF RowsInv
<1>2. QED BY RowsInvariant, <1>1, PTL

\* The rows to keep are never dropped, and the others never take the queue over
\* queue_maxsize, though put() lets go of the lock while it waits for room.
THEOREM DropPolicyIsKept == Spec => []DropPolicyHolds
<1>1. Init => IInv /\ DroppableBounded
  <2> SUFFICES ASSUME Init PROVE DroppableBounded
    BY InitInvariant
  <2>1. queue = <<>> /\ <<>> \in Seq(Rows) /\ Len(<<>>) = 0
    BY DEF Init
  <2>2. Cardinality(Droppable(queue)) \in Nat /\ Cardinality(Droppable(queue)) <= 0
    BY <2>1, DroppableFinite
  <2>3. QED BY <2>2, WriterAssumption DEF WriterAssumption, DroppableBounded, Droppable
<1>2. IInv /\ DroppableBounded /\ [Next]_vars => (IInv /\ DroppableBounded)'
  <2> SUFFICES ASSUME IInv, DroppableBounded, [Next]_vars
               PROVE  IInv' /\ DroppableBounded'
    OBVIOUS
  <2>1. IInv'
    BY TypeStep, DropStep, SegmentStep, StopStep DEF IInv
  <2>2. QED BY <2>1, DroppableStep, WriterAssumption DEF IInv
<1>3. IInv /\ DroppableBounded => DropPolicyHolds
  BY DEF IInv, DropPolicyHolds
<1>4. QED BY <1>1, <1>2, <1>3, PTL DEF Spec
=============================================================================
