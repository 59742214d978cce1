------------------------------- MODULE Outbox -------------------------------
(***************************************************************************)
(* What the notification queue promises, without threads, lanes or locks:  *)
(* a bounded set of waiting notes, from which one note at a time is        *)
(* reported, HIGH before the others and oldest first within each class.    *)
(* A full outbox takes a new note only in exchange for its oldest LOW one; *)
(* no other note is ever lost while the outbox is alive.  Notes that are   *)
(* refused, or folded into a count, never enter it.                        *)
(***************************************************************************)
EXTENDS Integers, FiniteSets

CONSTANTS Notes,     \* records with at least the fields id and pr
          Capacity, LowPr, HighPr

VARIABLES waiting, busy, done, lost, alive

vars == <<waiting, busy, done, lost, alive>>

IsLowNote(n) == n.pr <= LowPr
IsHighNote(n) == n.pr >= HighPr

Init == waiting = {} /\ busy = {} /\ done = {} /\ lost = {} /\ alive = TRUE

Known == waiting \cup busy \cup done \cup lost

\* There is room: n joins the waiting notes.
Accept(n) ==
    /\ n \notin Known
    /\ Cardinality(waiting) < Capacity
    /\ waiting' = waiting \cup {n}
    /\ UNCHANGED <<busy, done, lost, alive>>

\* There is none: n takes the place of the oldest LOW note.
Exchange(n, victim) ==
    /\ n \notin Known
    /\ Cardinality(waiting) >= Capacity
    /\ IsLowNote(victim)
    /\ \A m \in waiting : IsLowNote(m) => victim.id <= m.id
    /\ waiting' = (waiting \ {victim}) \cup {n}
    /\ lost' = lost \cup {victim}
    /\ UNCHANGED <<busy, done, alive>>

GoesBefore(n, m) ==
    IF IsHighNote(n) <=> IsHighNote(m) THEN n.id <= m.id ELSE IsHighNote(n)

Start(n) ==
    /\ alive
    /\ busy = {}
    /\ \A m \in waiting : GoesBefore(n, m)
    /\ waiting' = waiting \ {n}
    /\ busy' = {n}
    /\ UNCHANGED <<done, lost, alive>>

Report ==
    /\ alive
    /\ busy # {}
    /\ done' = done \cup busy
    /\ busy' = {}
    /\ UNCHANGED <<waiting, lost, alive>>

Halt ==
    /\ alive
    /\ alive' = FALSE
    /\ UNCHANGED <<waiting, busy, done, lost>>

Next ==
    \/ \E n \in Notes : Accept(n)
    \/ \E n \in Notes : \E victim \in waiting : Exchange(n, victim)
    \/ \E n \in waiting : Start(n)
    \/ Report
    \/ Halt

Spec == Init /\ [][Next]_vars

FairSpec == Spec /\ WF_vars(\E n \in waiting : Start(n)) /\ WF_vars(Report)
=============================================================================
