-------------------------- MODULE KalshiRestPoller --------------------------
(***************************************************************************)
(* The recorder's REST source of the running market's book                 *)
(* (hires/sources.py, KalshiRESTBookSource.run, with KALSHI_HIRES_ACTIVE_- *)
(* ONLY as it is by default).  Finding the running market takes two lists  *)
(* of several pages (client.py, discover), so the market found is kept     *)
(* until its window ends, and looked up again every now and then, more     *)
(* often near that end.                                                    *)
(*                                                                         *)
(* A unit of time is the longest an HTTP call may take.                    *)
(***************************************************************************)
EXTENDS Integers

CONSTANTS
    WindowLength, NearHandoff,          \* the 20 seconds before the end
    Early, Overrun,     \* the venue may call a market active that much before
                        \* it opens and that much after it closes
    Pages,              \* of a list, at most
    RediscoverNear, RediscoverFar,
    MaxClock

VARIABLES
    clock,
    pc,             \* "top", "open", "unopened", "ask", "sleep" or "done"
    began,          \* when the iteration began, and with it a lookup
    since,          \* when the call began
    page,           \* the page asked for
    found,          \* the running markets that the lookup has come across
    active, lastDisc,
    row             \* the last row emitted: [market, at, began], the last of
                    \* them when the iteration began that emitted it

pollVars == <<clock, pc, began, since, page, found, active, lastDisc, row>>

NoMarket == -1
OpenOf(market) == market * WindowLength
CloseOf(market) == (market + 1) * WindowLength
-----------------------------------------------------------------------------
\* Mutant: the end of the window is left to the periodic lookups.
Expired_never == FALSE
Expired == active # NoMarket /\ CloseOf(active) < clock
Near == active # NoMarket /\ CloseOf(active) - clock <= NearHandoff
Rediscovers ==
    \/ active = NoMarket \/ Expired
    \/ clock - lastDisc >= (IF Near THEN RediscoverNear ELSE RediscoverFar)

Call(step) == pc' = step /\ since' = clock

Begin ==
    /\ pc = "top"
    /\ began' = clock
    /\ page' = 1 /\ found' = {}
    /\ Call(IF Rediscovers THEN "open" ELSE "ask")
    /\ UNCHANGED <<clock, active, lastDisc, row>>

\* What the venue called active at some moment of the call.
Active == {m \in 0 .. (clock + Early) : /\ OpenOf(m) - Early <= clock
                                        /\ since <= CloseOf(m) + Overrun}
\* classify_market looks at the time the lookup began.
Current == {m \in Active : began <= CloseOf(m)}

\* A list is complete, or failed, and the next one follows, or the choice: of
\* the current markets the first to close.
EndOfList(markets) ==
    /\ page' = 1
    /\ \/ /\ pc = "open"
          /\ found' = markets
          /\ Call("unopened")
          /\ UNCHANGED <<active, lastDisc>>
       \/ /\ pc = "unopened"
          /\ found' = {}
          /\ active' \in IF markets = {} THEN {NoMarket}
                         ELSE {m \in markets : \A k \in markets : m <= k}
          /\ lastDisc' = began
          /\ Call(IF markets = {} THEN "sleep" ELSE "ask")

\* The venue answers with a page, the last one or not; the second list has the
\* markets to come.
ListMarkets(listed, last) ==
    /\ pc \in {"open", "unopened"}
    /\ pc = "unopened" => listed = {}
    /\ IF last \/ page = Pages THEN EndOfList(found \cup listed)
       ELSE /\ page' = page + 1 /\ found' = found \cup listed
            /\ Call(pc)
            /\ UNCHANGED <<active, lastDisc>>
    /\ UNCHANGED <<clock, began, row>>

\* A list that fails on some page counts as empty.
ListFails ==
    /\ pc \in {"open", "unopened"}
    /\ EndOfList(IF pc = "open" THEN {} ELSE found)
    /\ UNCHANGED <<clock, began, row>>

GetOrderbook ==
    /\ pc = "ask"
    /\ row' = [market |-> active, at |-> clock, began |-> began]
    /\ Call("sleep")
    /\ UNCHANGED <<clock, began, page, found, active, lastDisc>>

\* Any error leaves the market as it is.
CallFails ==
    /\ pc = "ask"
    /\ Call("sleep")
    /\ UNCHANGED <<clock, began, page, found, active, lastDisc, row>>

Wake ==
    /\ pc = "sleep"
    /\ pc' = "top"
    /\ UNCHANGED <<clock, began, since, page, found, active, lastDisc, row>>

RequestStop ==
    /\ pc \in {"top", "sleep"}
    /\ pc' = "done"
    /\ UNCHANGED <<clock, began, since, page, found, active, lastDisc, row>>

Tick ==
    /\ clock < MaxClock /\ pc # "top"
    /\ pc \in {"open", "unopened", "ask"} => clock = since
    /\ clock' = clock + 1
    /\ UNCHANGED <<pc, began, since, page, found, active, lastDisc, row>>

Init ==
    /\ clock = 0 /\ pc = "top" /\ began = 0 /\ since = 0
    /\ page = 1 /\ found = {}
    /\ active = NoMarket /\ lastDisc = 0
    /\ row = [market |-> NoMarket, at |-> 0, began |-> 0]

Next ==
    \/ Begin
    \/ \E listed \in SUBSET Current, last \in BOOLEAN : ListMarkets(listed, last)
    \/ ListFails \/ GetOrderbook \/ CallFails \/ Wake \/ RequestStop \/ Tick

Spec == Init /\ [][Next]_pollVars
-----------------------------------------------------------------------------
\* A lookup's calls, each as long as a call may take.
LookupTime == 2 * Pages

\* A row is about a market that the venue had opened and that had not closed
\* when its iteration began, whatever fails in between and however rarely it is
\* looked up: it is late by a lookup and the call for the book at most.
RowsAreTimely ==
    row.market # NoMarket =>
        /\ row.at >= OpenOf(row.market) - Early
        /\ row.began <= CloseOf(row.market)
        /\ row.at <= row.began + LookupTime + 1
-----------------------------------------------------------------------------
(* What holds of every reachable state.                                    *)

PollerAssumption ==
    /\ WindowLength \in Nat \ {0} /\ Early \in Nat /\ Overrun \in Nat
    /\ Pages \in Nat \ {0}

PollerTypeOK ==
    /\ clock \in Nat /\ began \in Nat /\ since \in Nat /\ page \in 1 .. Pages
    /\ pc \in {"top", "open", "unopened", "ask", "sleep", "done"}
    /\ found \subseteq Nat /\ active \in Nat \cup {NoMarket}
    /\ row \in [market : Nat \cup {NoMarket}, at : Nat, began : Nat]

\* A call takes a unit at most, so that those of a lookup add up.
CallsAreShort ==
    /\ pc \in {"open", "unopened", "ask"} => clock <= since + 1
    /\ pc = "open" => since <= began + page - 1
    /\ pc = "unopened" => since <= began + Pages + page - 1
    /\ pc = "ask" => since <= began + LookupTime
\* What is found, and asked about, was opened and had not closed at the
\* beginning.
MarketsAreOpen ==
    /\ active # NoMarket => OpenOf(active) - Early <= clock
    /\ \A m \in found : OpenOf(m) - Early <= clock /\ began <= CloseOf(m)
    /\ pc = "ask" => active # NoMarket /\ began <= CloseOf(active)

PollerInv == PollerTypeOK /\ CallsAreShort /\ MarketsAreOpen /\ RowsAreTimely
=============================================================================
