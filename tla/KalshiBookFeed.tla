--------------------------- MODULE KalshiBookFeed ---------------------------
(***************************************************************************)
(* The market-data WebSocket source of the recorder (hires/kalshi_ws.py):  *)
(* it finds the market whose window is running, subscribes to it on a new  *)
(* connection, rebuilds the book from a snapshot and increments, and emits *)
(* a row for every message until the window is over or the connection      *)
(* breaks.  The venue and the connection are the environment: it sends its *)
(* book when it gets a subscription and every change of it from then on,   *)
(* in order.                                                               *)
(*                                                                         *)
(* A window is WindowLength units of time long, a unit being the timeout   *)
(* of the receive call; market m's is the m-th.                            *)
(***************************************************************************)
EXTENDS OrderBook

CONSTANTS
    Prices, MaxSize,        \* the levels the venue's book may have
    WindowLength, MaxClock,
    Early,                  \* how long before its window a market may be active
    MaxInFlight             \* messages on the wire

ASSUME FeedAssumption ==
    WindowLength \in Nat \ {0} /\ Early \in Nat /\ MaxSize \in Nat

VARIABLES
    clock,
    server,         \* the venue's book of the market followed
    wire,           \* messages that were not received yet, each with the
                    \* venue's book when it was sent
    pc,             \* "idle", "found", "loop", "recv" or "done"
    active,         \* the market found
    since,          \* when the receive call began
    book,           \* the rebuilt book
    truth,          \* the venue's book when it sent the last message received
    row             \* the last row emitted

feedVars == <<clock, server, wire, pc, active, since, book, truth, row>>

NoMarket == -1
OpenOf(market) == market * WindowLength
CloseOf(market) == (market + 1) * WindowLength
EmptyBook == [side \in Sides |-> EmptySide]
Levels == UNION {[ps -> 1 .. MaxSize] : ps \in SUBSET Prices}
Uncrossed(b) == Normalize(b).crossed = {}
-----------------------------------------------------------------------------
(* The environment.                                                        *)

Trades(market) == OpenOf(market) - Early <= clock /\ clock < CloseOf(market)
Subscribed == pc \in {"loop", "recv"}
With(levels, price, size) ==
    IF size > 0 THEN [p \in DOMAIN levels \cup {price} |->
                         IF p = price THEN size ELSE levels[p]]
    ELSE [p \in DOMAIN levels \ {price} |-> levels[p]]
SizeAt(levels, price) == IF price \in DOMAIN levels THEN levels[price] ELSE 0

\* An order arrives or goes; subscribers of the market are told the change.
ServerChanges(side, price, size) ==
    LET change == size - SizeAt(server[side], price)
        after == [server EXCEPT ![side] = With(@, price, size)]
    IN  /\ Subscribed /\ Trades(active) /\ Len(wire) < MaxInFlight
        /\ change # 0 /\ Uncrossed(after)
        /\ server' = after
        /\ wire' = Append(wire, [type |-> "delta", side |-> side,
                                 price |-> price, delta |-> change,
                                 after |-> after])
        /\ UNCHANGED <<clock, pc, active, since, book, truth, row>>

\* A receive call returns within a unit of time.
Tick ==
    /\ clock < MaxClock
    /\ pc = "recv" => clock = since /\ wire = <<>>
    /\ pc # "loop"
    /\ clock' = clock + 1
    /\ UNCHANGED <<server, wire, pc, active, since, book, truth, row>>
-----------------------------------------------------------------------------
(* The source's thread.                                                    *)

\* Mutants: the increment is taken for the new size; the end of the window is
\* not looked at.
ApplyDelta_absolute(b, m) == [b EXCEPT ![m.side] = With(@, m.price, m.delta)]
Handoff_never(market) == FALSE

ApplySnapshot(m) == m.after
ApplyDelta(b, m) ==
    [b EXCEPT ![m.side] = With(@, m.price, SizeAt(@, m.price) + m.delta)]
Handoff(market) == CloseOf(market) - clock < 0

\* What the venue may call active: a market a little before its window too, and
\* still at the window's last instant.
Current == {m \in 0 .. (clock + Early) :
               OpenOf(m) - Early <= clock /\ clock <= CloseOf(m)}

\* Of the markets listed as active, the first to close.
Discover ==
    /\ pc = "idle"
    /\ pc' = "found"
    /\ \E listed \in (SUBSET Current) \ {{}} : active' = Min(listed)
    /\ UNCHANGED <<clock, server, wire, since, book, truth, row>>

Connect ==
    /\ pc = "found"
    /\ pc' = "loop" /\ book' = EmptyBook /\ truth' = EmptyBook
    \* It may be another market's book, or have changed; it is empty when the
    \* market has ended since.
    /\ server' \in IF Trades(active) THEN {server, EmptyBook} ELSE {EmptyBook}
    /\ wire' = <<[type |-> "snapshot", after |-> server']>>
    /\ UNCHANGED <<clock, active, since, row>>

Loop ==
    /\ pc = "loop"
    /\ IF Handoff(active)
       THEN pc' = "idle" /\ active' = NoMarket
       ELSE pc' = "recv" /\ UNCHANGED active
    /\ since' = clock
    /\ UNCHANGED <<clock, server, wire, book, truth, row>>

Receive ==
    /\ pc = "recv" /\ wire # <<>>
    /\ LET m == Head(wire)
       IN  book' = IF m.type = "snapshot" THEN ApplySnapshot(m)
                                          ELSE ApplyDelta(book, m)
    /\ wire' = Tail(wire) /\ truth' = Head(wire).after
    /\ row' = [market |-> active, at |-> clock, top |-> Normalize(book')]
    /\ pc' = "loop"
    /\ UNCHANGED <<clock, server, active, since>>

TimeOut ==
    /\ pc = "recv" /\ wire = <<>> /\ clock > since
    /\ pc' = "loop"
    /\ UNCHANGED <<clock, server, wire, active, since, book, truth, row>>

\* Any exception, on the connection or before it, leads back to discovery.
Break ==
    /\ pc \in {"found", "recv"}
    /\ pc' = "idle" /\ active' = NoMarket
    /\ UNCHANGED <<clock, server, wire, since, book, truth, row>>

RequestStop ==
    /\ pc \in {"idle", "loop"}
    /\ pc' = "done"
    /\ UNCHANGED <<clock, server, wire, active, since, book, truth, row>>
-----------------------------------------------------------------------------
Init ==
    /\ clock = 0
    /\ server = EmptyBook
    /\ wire = <<>>
    /\ pc = "idle" /\ active = NoMarket
    /\ since = 0
    /\ book = EmptyBook /\ truth = EmptyBook
    /\ row = [market |-> NoMarket, at |-> 0, top |-> Normalize(EmptyBook)]

Next ==
    \/ \E side \in Sides, price \in Prices, size \in 0 .. MaxSize :
          ServerChanges(side, price, size)
    \/ Tick
    \/ Discover \/ Connect \/ Loop \/ Receive \/ TimeOut \/ Break \/ RequestStop

Spec == Init /\ [][Next]_feedVars
-----------------------------------------------------------------------------
(* Properties.                                                             *)

\* The rebuilt book is the book the venue had when it sent the last message
\* received: increments are applied to the right base, one left behind by an
\* earlier connection or market never shows through.
BookWasTrue == book = truth

\* A row is about the market it names, from when the venue may open it to at
\* most one receive timeout after its window's end.
RowsAreTimely ==
    row.market # NoMarket =>
        /\ row.at >= OpenOf(row.market) - Early
        /\ row.at <= CloseOf(row.market) + 1
-----------------------------------------------------------------------------
(* The inductive invariant behind the theorems of RecordersProofs.          *)

Books == [Sides -> Levels]

TypeOK ==
    /\ clock \in Nat /\ since \in Nat
    /\ pc \in {"idle", "found", "loop", "recv", "done"}
    /\ active \in Nat \cup {NoMarket}
    /\ server \in Books
    /\ wire \in Seq([type : {"snapshot"}, after : Books]
                      \cup [type : {"delta"}, side : Sides, price : Prices,
                            delta : Int, after : Books])

\* A market is followed from its opening, and a receive call does not begin
\* after its end nor take longer than its timeout.
InTime ==
    /\ pc \in {"found", "loop", "recv"}
          => active # NoMarket /\ OpenOf(active) - Early <= clock
    /\ pc = "recv" => since <= CloseOf(active) /\ clock <= since + 1

LastSent == IF wire = <<>> THEN truth ELSE wire[Len(wire)].after

\* Every increment on the wire leads from the book before it to the one after it,
\* and the last to the venue's, while the market trades.
WireChains ==
    Subscribed =>
        /\ \A i \in DOMAIN wire : i > 1 => wire[i].type = "delta"
        /\ wire # <<>> /\ wire[1].type = "delta"
              => ApplyDelta(truth, wire[1]) = wire[1].after
        /\ \A i \in DOMAIN wire : i > 1
              => ApplyDelta(wire[i - 1].after, wire[i]) = wire[i].after
        /\ Trades(active) => LastSent = server

FeedInv == TypeOK /\ InTime /\ WireChains /\ BookWasTrue /\ RowsAreTimely
=============================================================================
