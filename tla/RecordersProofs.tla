-------------------------- MODULE RecordersProofs --------------------------
(***************************************************************************)
(* Proofs about the recording processes.  They share no state, so there is *)
(* an inductive invariant for each, and a behaviour of MCRecorders, which  *)
(* is one of theirs, keeps the one of its part.                            *)
(***************************************************************************)
EXTENDS MCRecorders, SequenceLemmas

-----------------------------------------------------------------------------
(* The WebSocket source of the book (KalshiBookFeed): for every length of a *)
(* window, every set of prices, any sizes and any number of messages on the *)
(* wire.                                                                    *)
Message == [type : {"snapshot"}, after : Books]
             \cup [type : {"delta"}, side : Sides, price : Prices,
                   delta : Int, after : Books]

-----------------------------------------------------------------------------
(* Books.                                                                   *)

\* A side of a book is a function to sizes.
LEMMA LevelsAre ==
    ASSUME NEW l
    PROVE  l \in Levels <=> /\ DOMAIN l \in SUBSET Prices
                            /\ l = [p \in DOMAIN l |-> l[p]]
                            /\ \A p \in DOMAIN l : l[p] \in 1..MaxSize
<1>1. ASSUME l \in Levels
      PROVE  /\ DOMAIN l \in SUBSET Prices /\ l = [p \in DOMAIN l |-> l[p]]
             /\ \A p \in DOMAIN l : l[p] \in 1..MaxSize
  <2>1. PICK ps \in SUBSET Prices : l \in [ps -> 1..MaxSize]
    BY <1>1 DEF Levels
  <2>2. QED BY <2>1
<1>2. ASSUME DOMAIN l \in SUBSET Prices, l = [p \in DOMAIN l |-> l[p]],
             \A p \in DOMAIN l : l[p] \in 1..MaxSize
      PROVE  l \in Levels
  <2>1. l \in [DOMAIN l -> 1..MaxSize]
    BY <1>2
  <2>2. QED BY <1>2, <2>1 DEF Levels
<1>3. QED BY <1>1, <1>2

LEMMA EmptyBookIsBook == EmptyBook \in Books
<1>1. EmptySide \in Levels
  <2>1. DOMAIN EmptySide = {} /\ EmptySide = [p \in DOMAIN EmptySide |-> EmptySide[p]]
    BY DEF EmptySide
  <2>2. QED BY <2>1, LevelsAre
<1>2. QED BY <1>1 DEF EmptyBook, Books

\* A level that is set, or taken away, leaves a side of a book.
LEMMA WithIsLevels ==
    ASSUME NEW l \in Levels, NEW price \in Prices, NEW size \in 0..MaxSize
    PROVE  With(l, price, size) \in Levels
<1>1. /\ DOMAIN l \in SUBSET Prices
      /\ \A p \in DOMAIN l : l[p] \in 1..MaxSize
  BY LevelsAre
<1>2. MaxSize \in Nat
  BY FeedAssumption
<1>3. CASE size > 0
  <2> DEFINE w == [p \in DOMAIN l \cup {price} |-> IF p = price THEN size ELSE l[p]]
  <2>1. With(l, price, size) = w
    BY <1>3 DEF With
  <2>2. DOMAIN w \in SUBSET Prices /\ \A p \in DOMAIN w : w[p] \in 1..MaxSize
    BY <1>1, <1>2, <1>3
  <2>3. w = [p \in DOMAIN w |-> w[p]]
    OBVIOUS
  <2> HIDE DEF w
  <2>4. QED BY <2>1, <2>2, <2>3, LevelsAre
<1>4. CASE ~(size > 0)
  <2> DEFINE w == [p \in DOMAIN l \ {price} |-> l[p]]
  <2>1. With(l, price, size) = w
    BY <1>4 DEF With
  <2>2. DOMAIN w \in SUBSET Prices /\ \A p \in DOMAIN w : w[p] \in 1..MaxSize
    BY <1>1
  <2>3. w = [p \in DOMAIN w |-> w[p]]
    OBVIOUS
  <2> HIDE DEF w
  <2>4. QED BY <2>1, <2>2, <2>3, LevelsAre
<1>5. QED BY <1>3, <1>4

LEMMA SizeAtIsInt ==
    ASSUME NEW l \in Levels, NEW price
    PROVE  SizeAt(l, price) \in Int
<1>1. \A p \in DOMAIN l : l[p] \in 1..MaxSize
  BY LevelsAre
<1>2. QED BY <1>1, FeedAssumption DEF SizeAt, FeedAssumption

\* What the venue sends of a change is what takes its old book to its new one.
LEMMA ChangeIsDelta ==
    ASSUME NEW b \in Books, NEW side \in Sides, NEW price \in Prices,
           NEW size \in 0..MaxSize
    PROVE  LET change == size - SizeAt(b[side], price)
               after == [b EXCEPT ![side] = With(@, price, size)]
           IN  /\ after \in Books /\ change \in Int
               /\ \A m : m.side = side /\ m.price = price /\ m.delta = change
                            => ApplyDelta(b, m) = after
<1> DEFINE change == size - SizeAt(b[side], price)
           after == [b EXCEPT ![side] = With(@, price, size)]
<1>1. b[side] \in Levels
  BY DEF Books
<1>2. SizeAt(b[side], price) \in Int /\ size \in Int
  BY <1>1, SizeAtIsInt
<1>3. change \in Int /\ SizeAt(b[side], price) + change = size
  BY <1>2
<1>4. With(b[side], price, size) \in Levels
  BY <1>1, WithIsLevels
<1>5. after \in Books
  BY <1>4 DEF Books
<1> HIDE DEF change
<1>6. ASSUME NEW m, m.side = side, m.price = price, m.delta = change
      PROVE  ApplyDelta(b, m) = after
  BY <1>3, <1>6 DEF ApplyDelta
<1>7. QED BY <1>3, <1>5, <1>6 DEF change

-----------------------------------------------------------------------------
(* Types.                                                                   *)

\* A product grows with its first factor.
LEMMA ProductMonotone ==
    ASSUME NEW a \in Nat, NEW c \in Nat, NEW w \in Nat, a <= c
    PROVE  /\ a * w \in Nat /\ c * w \in Nat
           /\ a * w <= c * w
<1> DEFINE d == c - a
<1>1. d \in Nat /\ c = a + d
  OBVIOUS
<1> HIDE DEF d
<1>2. (a + d) * w = a * w + d * w
  BY <1>1
<1>3. a * w \in Nat /\ d * w \in Nat /\ c * w \in Nat
  BY <1>1
<1>4. QED BY <1>1, <1>2, <1>3

\* A market that is found may be active.
LEMMA DiscoverFacts ==
    ASSUME TypeOK, Discover
    PROVE  active' \in Nat /\ OpenOf(active') - Early <= clock
<1>1. PICK listed \in (SUBSET Current) \ {{}} : active' = Min(listed)
  BY DEF Discover
<1>2. listed \in SUBSET Nat /\ listed # {} /\ listed \in SUBSET Current
  <2>1. Current \in SUBSET Nat
    BY FeedAssumption DEF Current, TypeOK, FeedAssumption
  <2>2. QED BY <1>1, <2>1
<1>3. \E m \in listed : \A n \in listed : m <= n
  BY <1>2, LeastNatural
<1>4. Min(listed) \in listed
  BY <1>3 DEF Min
<1>5. QED BY <1>1, <1>2, <1>4 DEF Current

LEMMA TypeStep ==
    ASSUME TypeOK, [Next]_feedVars
    PROVE  TypeOK'
<1>0. wire \in Seq(Message) /\ EmptyBook \in Books
  BY EmptyBookIsBook DEF TypeOK, Message
<1>1. CASE \E side \in Sides, price \in Prices, size \in 0 .. MaxSize :
              ServerChanges(side, price, size)
  <2>1. PICK side \in Sides, price \in Prices, size \in 0 .. MaxSize :
            ServerChanges(side, price, size)
    BY <1>1
  <2> DEFINE change == size - SizeAt(server[side], price)
             after == [server EXCEPT ![side] = With(@, price, size)]
             m == [type |-> "delta", side |-> side, price |-> price, delta |-> change,
                   after |-> after]
  <2>2. /\ server' = after /\ wire' = Append(wire, m)
        /\ UNCHANGED <<clock, pc, active, since, book, truth, row>>
    BY <2>1 DEF ServerChanges
  <2>3. after \in Books /\ change \in Int
    BY ChangeIsDelta DEF TypeOK
  <2> HIDE DEF after, change
  <2>4. m \in Message
    BY <2>3 DEF Message
  <2> HIDE DEF m
  <2>5. wire' \in Seq(Message)
    BY <1>0, <2>2, <2>4, AppendFacts
  <2>6. QED BY <2>2, <2>3, <2>5 DEF TypeOK, Message
<1>2. CASE Tick
  BY <1>2 DEF Tick, TypeOK
<1>3. CASE Discover
  <2>1. active' \in Nat
    BY <1>3, DiscoverFacts
  <2>2. QED BY <1>3, <2>1 DEF Discover, TypeOK
<1>4. CASE Connect
  <2> DEFINE m == [type |-> "snapshot", after |-> server']
  <2>1. server' \in Books
    BY <1>0, <1>4 DEF Connect, TypeOK
  <2>2. m \in Message
    BY <2>1 DEF Message
  <2> HIDE DEF m
  <2>3. <<m>> \in Seq(Message)
    BY <2>2
  <2>4. wire' = <<m>>
    BY <1>4 DEF Connect, m
  <2>5. wire' \in Seq(Message)
    BY <2>3, <2>4
  <2>6. QED BY <1>4, <2>1, <2>5 DEF Connect, TypeOK, Message
<1>5. CASE Loop
  BY <1>5 DEF Loop, TypeOK
<1>6. CASE Receive
  <2>1. Tail(wire) \in Seq(Message)
    BY <1>0, <1>6, TailFacts DEF Receive
  <2>2. QED BY <1>6, <2>1 DEF Receive, TypeOK, Message
<1>7. CASE TimeOut \/ Break \/ RequestStop \/ UNCHANGED feedVars
  BY <1>7 DEF TimeOut, Break, RequestStop, feedVars, TypeOK
<1>8. QED BY <1>1, <1>2, <1>3, <1>4, <1>5, <1>6, <1>7 DEF Next

-----------------------------------------------------------------------------
(* Time.                                                                    *)

LEMMA TimeStep ==
    ASSUME TypeOK, InTime, RowsAreTimely, [Next]_feedVars
    PROVE  InTime' /\ RowsAreTimely'
<1>1. /\ WindowLength \in Nat \ {0} /\ Early \in Nat
      /\ clock \in Nat /\ since \in Nat
  BY FeedAssumption DEF FeedAssumption, TypeOK
<1>2. active # NoMarket => active \in Nat /\ CloseOf(active) \in Nat
                           /\ OpenOf(active) \in Nat
  <2>1. ASSUME active # NoMarket
        PROVE  /\ active \in Nat /\ CloseOf(active) \in Nat
               /\ OpenOf(active) \in Nat
    <3>1. active \in Nat
      BY <2>1 DEF TypeOK
    <3>2. QED BY <1>1, <3>1 DEF CloseOf, OpenOf
  <2>2. QED BY <2>1
<1>3. CASE \E side \in Sides, price \in Prices, size \in 0 .. MaxSize :
              ServerChanges(side, price, size)
  BY <1>3 DEF ServerChanges, InTime, RowsAreTimely, OpenOf, CloseOf
<1>4. CASE Tick
  <2>1. clock' = clock + 1 /\ UNCHANGED <<pc, active, since, row>>
        /\ (pc = "recv" => clock = since)
    BY <1>4 DEF Tick
  <2>2. RowsAreTimely'
    BY <2>1 DEF RowsAreTimely, OpenOf, CloseOf
  <2>3. InTime'
    BY <1>1, <1>2, <2>1 DEF InTime, OpenOf, CloseOf
  <2>4. QED BY <2>2, <2>3
<1>5. CASE Discover
  <2>1. active' \in Nat /\ OpenOf(active') - Early <= clock /\ pc' = "found"
        /\ UNCHANGED <<clock, row>>
    BY <1>5, DiscoverFacts DEF Discover
  <2>2. QED BY <2>1 DEF InTime, RowsAreTimely, OpenOf, CloseOf, NoMarket
<1>6. CASE Connect
  BY <1>6 DEF Connect, InTime, RowsAreTimely, OpenOf, CloseOf
<1>7. CASE Loop
  <2>1. UNCHANGED <<clock, row>> /\ since' = clock
    BY <1>7 DEF Loop
  <2>2. CASE Handoff(active)
    BY <1>7, <2>1, <2>2 DEF Loop, InTime, RowsAreTimely, OpenOf, CloseOf
  <2>3. CASE ~Handoff(active)
    <3>1. pc' = "recv" /\ active' = active /\ active # NoMarket
          /\ OpenOf(active) - Early <= clock
      BY <1>7, <2>3 DEF Loop, InTime
    <3>2. clock <= CloseOf(active)
      BY <1>1, <1>2, <2>3, <3>1 DEF Handoff
    <3>3. QED BY <1>1, <2>1, <3>1, <3>2 DEF InTime, RowsAreTimely, OpenOf, CloseOf
  <2>4. QED BY <2>2, <2>3
<1>8. CASE Receive
  <2>1. /\ UNCHANGED <<clock, active, since>> /\ pc' = "loop"
        /\ row'.market = active /\ row'.at = clock
    BY <1>8 DEF Receive
  <2>2. /\ active # NoMarket /\ OpenOf(active) - Early <= clock
        /\ since <= CloseOf(active) /\ clock <= since + 1
    BY <1>8 DEF Receive, InTime
  <2>3. clock <= CloseOf(active) + 1
    BY <1>1, <1>2, <2>2
  <2>4. RowsAreTimely'
    BY <1>1, <1>2, <2>1, <2>2, <2>3 DEF RowsAreTimely, OpenOf, CloseOf
  <2>5. InTime'
    BY <2>1, <2>2 DEF InTime
  <2>6. QED BY <2>4, <2>5
<1>9. CASE TimeOut \/ Break \/ RequestStop \/ UNCHANGED feedVars
  BY <1>9 DEF TimeOut, Break, RequestStop, feedVars, InTime, RowsAreTimely, OpenOf, CloseOf
<1>10. QED BY <1>3, <1>4, <1>5, <1>6, <1>7, <1>8, <1>9 DEF Next

-----------------------------------------------------------------------------
(* The rebuilt book.                                                        *)

LEMMA ChainStep ==
    ASSUME TypeOK, InTime, WireChains, BookWasTrue, [Next]_feedVars
    PROVE  WireChains' /\ BookWasTrue'
<1>0. /\ wire \in Seq(Message) /\ Len(wire) \in Nat /\ DOMAIN wire = 1..Len(wire)
      /\ \A i \in DOMAIN wire : wire[i] \in Message
  BY LenProperties DEF TypeOK, Message
<1>1. CASE \E side \in Sides, price \in Prices, size \in 0 .. MaxSize :
              ServerChanges(side, price, size)
  <2>1. PICK side \in Sides, price \in Prices, size \in 0 .. MaxSize :
            ServerChanges(side, price, size)
    BY <1>1
  <2> DEFINE change == size - SizeAt(server[side], price)
             after == [server EXCEPT ![side] = With(@, price, size)]
             m == [type |-> "delta", side |-> side, price |-> price, delta |-> change,
                   after |-> after]
  <2>2. /\ Subscribed /\ Trades(active)
        /\ server' = after /\ wire' = Append(wire, m)
        /\ UNCHANGED <<clock, pc, active, since, book, truth, row>>
    BY <2>1 DEF ServerChanges
  <2>3. /\ after \in Books /\ change \in Int
        /\ \A x : x.side = side /\ x.price = price /\ x.delta = change
                     => ApplyDelta(server, x) = after
    BY ChangeIsDelta DEF TypeOK
  <2> HIDE DEF after, change
  <2>4. /\ m \in Message /\ m.type = "delta" /\ m.after = after
        /\ ApplyDelta(server, m) = after
    BY <2>3 DEF Message
  <2> HIDE DEF m
  <2>5. /\ wire' \in Seq(Message) /\ Len(wire') = Len(wire) + 1
        /\ \A i \in 1..Len(wire) : wire'[i] = wire[i]
        /\ wire'[Len(wire) + 1] = m
    BY <1>0, <2>2, <2>4, AppendFacts
  <2>6. DOMAIN wire' = 1..(Len(wire) + 1) /\ wire' # <<>>
    BY <1>0, <2>5, LenProperties
  <2>7. ASSUME NEW i \in DOMAIN wire', i > 1
        PROVE  wire'[i].type = "delta" /\ ApplyDelta(wire'[i - 1].after, wire'[i]) = wire'[i].after
    <3>1. CASE i \in DOMAIN wire
      <4>1. i - 1 \in 1..Len(wire) /\ i \in 1..Len(wire)
        BY <3>1, <2>7, <1>0
      <4>2. QED BY <3>1, <4>1, <2>2, <2>5, <2>7 DEF WireChains
    <3>2. CASE i = Len(wire) + 1
      <4>1. Len(wire) \in 1..Len(wire) /\ i - 1 = Len(wire) /\ wire # <<>>
        BY <3>2, <2>7, <1>0
      <4>2. wire[Len(wire)].after = server
        BY <4>1, <2>2 DEF WireChains, LastSent
      <4>3. QED BY <3>2, <4>1, <4>2, <2>4, <2>5
    <3>3. QED BY <3>1, <3>2, <1>0, <2>6
  <2>8. wire'[1].type = "delta" => ApplyDelta(truth, wire'[1]) = wire'[1].after
    <3>1. CASE wire = <<>>
      <4>1. truth = server
        BY <3>1, <2>2 DEF WireChains, LastSent
      <4>2. wire'[1] = m
        BY <3>1, <1>0, <2>5
      <4>3. QED BY <4>1, <4>2, <2>4
    <3>2. CASE wire # <<>>
      <4>1. wire'[1] = wire[1]
        BY <3>2, <1>0, <2>5
      <4>2. QED BY <4>1, <3>2, <2>2 DEF WireChains
    <3>3. QED BY <3>1, <3>2
  <2>9. wire'[Len(wire')].after = server'
    BY <2>2, <2>4, <2>5
  <2>10. WireChains'
    BY <2>2, <2>6, <2>7, <2>8, <2>9 DEF WireChains, LastSent
  <2>11. QED BY <2>2, <2>10 DEF BookWasTrue
<1>2. CASE Tick
  <2>1. UNCHANGED <<server, pc, active, wire, book, truth>> /\ clock' = clock + 1
    BY <1>2 DEF Tick
  <2>2. Subscribed /\ Trades(active)' => Trades(active)
    <3>1. ASSUME Subscribed, Trades(active)'
          PROVE  Trades(active)
      <4>1. active \in Nat /\ OpenOf(active) - Early <= clock
        BY <3>1 DEF Subscribed, InTime, TypeOK
      <4>2. CloseOf(active) \in Nat /\ clock \in Nat
        BY <4>1, FeedAssumption DEF CloseOf, FeedAssumption, TypeOK
      <4>3. QED BY <2>1, <3>1, <4>1, <4>2 DEF Trades, CloseOf
    <3>2. QED BY <3>1
  <2>3. WireChains'
    BY <2>1, <2>2 DEF WireChains, Subscribed, LastSent
  <2>4. QED BY <2>1, <2>3 DEF BookWasTrue
<1>3. CASE Connect
  <2> DEFINE m == [type |-> "snapshot", after |-> server']
  <2>1. wire' = <<m>> /\ book' = EmptyBook /\ truth' = EmptyBook
    BY <1>3 DEF Connect
  <2>2. m.type = "snapshot" /\ m.after = server'
    OBVIOUS
  <2> HIDE DEF m
  <2>3. /\ DOMAIN wire' = {1} /\ wire'[1] = m /\ Len(wire') = 1 /\ wire' # <<>>
    BY <2>1
  <2>4. WireChains'
    BY <2>1, <2>2, <2>3 DEF WireChains, LastSent
  <2>5. QED BY <2>1, <2>4 DEF BookWasTrue
<1>4. CASE Receive
  <2>1. /\ wire # <<>> /\ wire' = Tail(wire) /\ truth' = wire[1].after
        /\ book' = (IF wire[1].type = "snapshot" THEN wire[1].after
                    ELSE ApplyDelta(book, wire[1]))
        /\ UNCHANGED <<clock, server, active>> /\ Subscribed
    BY <1>0, <1>4, TailFacts DEF Receive, ApplySnapshot, Subscribed
  <2>2. /\ Tail(wire) \in Seq(Message) /\ Len(wire) \in Nat \ {0}
        /\ Len(Tail(wire)) = Len(wire) - 1
        /\ \A j \in 1..(Len(wire) - 1) : Tail(wire)[j] = wire[j + 1]
    BY <1>0, <2>1, TailFacts
  <2>3. DOMAIN wire' = 1..(Len(wire) - 1)
    BY <2>1, <2>2, LenProperties
  <2>4. wire[1].type \in {"snapshot", "delta"}
    <3>1. wire[1] \in Message
      BY <1>0, <2>2
    <3>2. QED BY <3>1 DEF Message
  <2>5. book' = truth'
    BY <2>1, <2>4 DEF WireChains, BookWasTrue
  <2>6. ASSUME NEW i \in DOMAIN wire'
        PROVE  /\ wire'[i] = wire[i + 1] /\ i + 1 \in DOMAIN wire /\ i + 1 > 1
               /\ i > 1 => wire'[i - 1] = wire[(i + 1) - 1]
    <3>1. i \in 1..(Len(wire) - 1) /\ i + 1 \in 1..Len(wire) /\ i + 1 > 1
      BY <2>2, <2>3
    <3>2. ASSUME i > 1 PROVE i - 1 \in 1..(Len(wire) - 1) /\ (i - 1) + 1 = (i + 1) - 1
      BY <2>2, <3>1, <3>2
    <3>3. QED BY <1>0, <2>1, <2>2, <3>1, <3>2
  <2>7. ASSUME NEW i \in DOMAIN wire'
        PROVE  /\ i > 1 => wire'[i].type = "delta"
               /\ i > 1 => ApplyDelta(wire'[i - 1].after, wire'[i]) = wire'[i].after
    BY <2>1, <2>6 DEF WireChains
  <2>8. wire' # <<>> => ApplyDelta(truth', wire'[1]) = wire'[1].after
    <3>1. ASSUME wire' # <<>> PROVE 1 \in DOMAIN wire' /\ 1 + 1 = 2 /\ 2 - 1 = 1
      BY <2>1, <2>2, <2>3, <3>1
    <3>2. ASSUME wire' # <<>>
          PROVE  wire'[1] = wire[2] /\ ApplyDelta(wire[1].after, wire[2]) = wire[2].after
      <4>1. 1 \in DOMAIN wire' /\ 1 + 1 = 2 /\ 2 - 1 = 1
        BY <3>1, <3>2
      <4>2. wire'[1] = wire[2] /\ 2 \in DOMAIN wire /\ 2 > 1
        BY <4>1, <2>6
      <4>3. ApplyDelta(wire[2 - 1].after, wire[2]) = wire[2].after
        BY <4>2, <2>1 DEF WireChains
      <4>4. QED BY <4>1, <4>2, <4>3
    <3>3. QED BY <3>2, <2>1
  <2>9. LastSent' = LastSent
    <3>1. CASE wire' = <<>>
      <4>0. Tail(wire) = <<>> /\ Len(Tail(wire)) = 0
        <5>1. Tail(wire) = <<>>
          BY <2>1, <3>1
        <5>2. Len(<<>>) = 0
          OBVIOUS
        <5>3. QED BY <5>1, <5>2
      <4>1. Len(wire) = 1
        <5>1. Len(wire) \in Nat /\ Len(Tail(wire)) = Len(wire) - 1
          BY <2>2
        <5>2. QED BY <4>0, <5>1
      <4>2. QED BY <2>1, <3>1, <4>1 DEF LastSent
    <3>2. CASE wire' # <<>>
      <4>1. Len(wire') = Len(wire) - 1 /\ Len(wire') \in DOMAIN wire'
        BY <2>1, <2>2, <2>3, <3>2
      <4>2. wire'[Len(wire')] = wire[Len(wire)]
        <5>1. wire'[Len(wire')] = wire[Len(wire') + 1]
          BY <2>6, <4>1
        <5>2. Len(wire) \in Nat /\ Len(wire') + 1 = Len(wire)
          <6>1. Len(wire) \in Nat
            BY <2>2
          <6>2. QED BY <4>1, <6>1
        <5>3. QED BY <5>1, <5>2
      <4>3. QED BY <2>1, <3>2, <4>2 DEF LastSent
    <3>3. QED BY <3>1, <3>2
  <2>10. Trades(active)' = Trades(active)
    BY <2>1 DEF Trades, OpenOf, CloseOf
  <2>11. WireChains'
    BY <2>1, <2>7, <2>8, <2>9, <2>10 DEF WireChains
  <2>12. QED BY <2>5, <2>11 DEF BookWasTrue
<1>5. CASE Discover
  BY <1>5 DEF Discover, WireChains, Subscribed, BookWasTrue
<1>6. CASE Loop \/ TimeOut
  <2>1. UNCHANGED <<clock, server, wire, book, truth>> /\ Subscribed
        /\ (Subscribed' => active' = active)
    BY <1>6 DEF Loop, TimeOut, Subscribed
  <2>2. QED BY <2>1 DEF WireChains, LastSent, Trades, OpenOf, CloseOf, BookWasTrue
<1>7. CASE Break \/ RequestStop
  BY <1>7 DEF Break, RequestStop, WireChains, Subscribed, BookWasTrue
<1>8. CASE UNCHANGED feedVars
  BY <1>8 DEF feedVars, WireChains, Subscribed, LastSent, Trades, OpenOf, CloseOf,
              BookWasTrue
<1>9. QED BY <1>1, <1>2, <1>3, <1>4, <1>5, <1>6, <1>7, <1>8 DEF Next

-----------------------------------------------------------------------------
(* The theorems.                                                            *)

LEMMA InitInvariant == Init => FeedInv
<1> SUFFICES ASSUME Init PROVE FeedInv
  OBVIOUS
<1>1. TypeOK
  BY EmptyBookIsBook DEF Init, TypeOK
<1>2. InTime /\ WireChains
  BY DEF Init, InTime, WireChains, Subscribed
<1>3. BookWasTrue /\ RowsAreTimely
  BY DEF Init, BookWasTrue, RowsAreTimely
<1>4. QED BY <1>1, <1>2, <1>3 DEF FeedInv

LEMMA FeedStep == FeedInv /\ [Next]_feedVars => FeedInv'
BY TypeStep, TimeStep, ChainStep DEF FeedInv

THEOREM InductiveInvariant == Spec => []FeedInv
BY InitInvariant, FeedStep, PTL DEF Spec

\* The rebuilt book is the venue's book as of the last message, through any
\* number of connections, markets and changes.
THEOREM BookIsTrue == Spec => []BookWasTrue
<1>1. FeedInv => BookWasTrue
  BY DEF FeedInv
<1>2. QED BY InductiveInvariant, <1>1, PTL

\* A row is about a market that the venue had opened, and whose window is over
\* for at most one receive timeout.
THEOREM RowsStayTimely == Spec => []RowsAreTimely
<1>1. FeedInv => RowsAreTimely
  BY DEF FeedInv
<1>2. QED BY InductiveInvariant, <1>1, PTL
-----------------------------------------------------------------------------
(* The REST source of the book (KalshiRestPoller).                          *)

LEMMA PollerInit == Poller!Init => Poller!PollerInv
BY RecordersAssumption
DEF Poller!PollerAssumption, Poller!Init, Poller!PollerInv, Poller!PollerTypeOK,
    Poller!CallsAreShort, Poller!MarketsAreOpen, Poller!RowsAreTimely, Poller!NoMarket

\* Where a market's window begins and ends, in numbers.
LEMMA PollerWindow ==
    ASSUME NEW m \in Nat
    PROVE  /\ Poller!OpenOf(m) \in Nat /\ Poller!CloseOf(m) \in Nat
           /\ Poller!LookupTime \in Nat
BY RecordersAssumption
DEF Poller!PollerAssumption, Poller!OpenOf, Poller!CloseOf, Poller!LookupTime

\* The end of a list, with markets that the venue had opened and that had not
\* closed when the lookup began.
LEMMA PollerListEnds ==
    ASSUME Poller!PollerInv, NEW markets \in SUBSET Nat,
           \A m \in markets : /\ Poller!OpenOf(m) - Early <= s1
                              /\ s3 <= Poller!CloseOf(m),
           Poller!EndOfList(markets), s2 \in {"open", "unopened"},
           UNCHANGED <<s1, s3, s9>>
    PROVE  Poller!PollerInv'
<1> USE DEF Poller!PollerInv, Poller!PollerTypeOK, Poller!CallsAreShort,
            Poller!MarketsAreOpen, Poller!NoMarket
<1>0. Pages \in Nat \ {0} /\ Early \in Nat
  BY RecordersAssumption DEF Poller!PollerAssumption
<1>1. Poller!RowsAreTimely'
  BY DEF Poller!RowsAreTimely, Poller!OpenOf, Poller!CloseOf
<1>2. CASE s2 = "open"
  <2>1. /\ s2' = "unopened" /\ s4' = s1 /\ s5' = 1 /\ s6' = markets
        /\ s7' = s7
    BY <1>2 DEF Poller!EndOfList, Poller!Call
  <2>2. s1 <= s3 + Pages + 1 - 1
    BY <1>0, <1>2
  <2> HIDE DEF Poller!RowsAreTimely
  <2>3. QED BY <1>0, <1>1, <2>1, <2>2 DEF Poller!OpenOf, Poller!CloseOf
<1>3. CASE s2 = "unopened"
  <2>1. /\ s2' = (IF markets = {} THEN "sleep" ELSE "ask") /\ s4' = s1
        /\ s5' = 1 /\ s6' = {}
        /\ markets = {} => s7' = -1
        /\ markets # {} => s7' \in markets
    BY <1>3 DEF Poller!EndOfList, Poller!Call
  <2>2. s1 <= s3 + Poller!LookupTime /\ Poller!LookupTime \in Nat
    BY <1>0, <1>3 DEF Poller!LookupTime
  <2>3. /\ s7' \in Nat \cup {-1}
        /\ s7' # -1 => /\ s7' \in markets /\ Poller!OpenOf(s7') - Early <= s1
                       /\ s3 <= Poller!CloseOf(s7')
    <3>1. CASE markets = {}
      BY <2>1, <3>1
    <3>2. CASE markets # {}
      <4>1. s7' \in markets
        BY <2>1, <3>2
      <4>2. QED BY <4>1
    <3>3. QED BY <3>1, <3>2
  <2>4. s2' = "ask" => s7' # -1 /\ s3 <= Poller!CloseOf(s7')
    BY <2>1, <2>3
  <2> HIDE DEF Poller!RowsAreTimely
  <2>5. Poller!PollerTypeOK'
    BY <1>0, <2>1, <2>3
  <2>6. Poller!CallsAreShort'
    BY <1>0, <2>1, <2>2
  <2>7. Poller!MarketsAreOpen'
    BY <2>1, <2>3, <2>4 DEF Poller!OpenOf, Poller!CloseOf
  <2>8. QED BY <1>1, <2>5, <2>6, <2>7
<1>4. QED BY <1>2, <1>3

LEMMA PollerStep ==
    ASSUME Poller!PollerInv, [Poller!Next]_(Poller!pollVars)
    PROVE  Poller!PollerInv'
<1> USE DEF Poller!PollerInv, Poller!PollerTypeOK, Poller!CallsAreShort,
            Poller!MarketsAreOpen, Poller!RowsAreTimely, Poller!NoMarket
<1>0. PollWindow \in Nat \ {0} /\ Early \in Nat /\ Pages \in Nat \ {0}
  BY RecordersAssumption DEF Poller!PollerAssumption
<1>1. CASE Poller!Begin
  <2>1. s2' = "ask" => s7 # -1 /\ s1 <= Poller!CloseOf(s7)
    <3>1. ASSUME s2' = "ask"
          PROVE  s7 # -1 /\ ~(Poller!CloseOf(s7) < s1)
      BY <1>1, <3>1 DEF Poller!Begin, Poller!Call, Poller!Rediscovers, Poller!Expired
    <3>2. s7 # -1 => Poller!CloseOf(s7) \in Nat
      BY PollerWindow
    <3>3. QED BY <3>1, <3>2
  <2>2. /\ s2' \in {"open", "ask"} /\ s3' = s1 /\ s4' = s1 /\ s5' = 1 /\ s6' = {}
        /\ UNCHANGED <<s1, s7, s9>>
    BY <1>1 DEF Poller!Begin, Poller!Call
  <2>3. Poller!LookupTime \in Nat
    BY PollerWindow
  <2>4. Poller!RowsAreTimely'
    BY <2>2 DEF Poller!OpenOf, Poller!CloseOf
  <2> HIDE DEF Poller!RowsAreTimely
  <2>5. QED BY <1>0, <2>1, <2>2, <2>3, <2>4 DEF Poller!OpenOf, Poller!CloseOf
<1>2. CASE \E listed \in SUBSET Poller!Current, last \in BOOLEAN :
              Poller!ListMarkets(listed, last)
  <2>1. PICK listed \in SUBSET Poller!Current, last \in BOOLEAN :
            Poller!ListMarkets(listed, last)
    BY <1>2
  <2> DEFINE markets == s6 \cup listed
  <2>2. /\ markets \in SUBSET Nat
        /\ \A m \in markets : /\ Poller!OpenOf(m) - Early <= s1
                              /\ s3 <= Poller!CloseOf(m)
    BY <1>0 DEF Poller!Current, Poller!Active
  <2>3. s2 \in {"open", "unopened"} /\ UNCHANGED <<s1, s3, s9>>
    BY <2>1 DEF Poller!ListMarkets
  <2>4. CASE last \/ s5 = Pages
    <3>1. Poller!EndOfList(markets)
      BY <2>1, <2>4 DEF Poller!ListMarkets
    <3> HIDE DEF markets
    <3>2. QED BY <2>2, <2>3, <3>1, PollerListEnds
  <2>5. CASE ~(last \/ s5 = Pages)
    <3>1. s2' = s2 /\ s4' = s1 /\ s5' = s5 + 1 /\ s6' = markets /\ s7' = s7
      BY <2>1, <2>5 DEF Poller!ListMarkets, Poller!Call
    <3>2. Poller!RowsAreTimely'
      BY <2>3 DEF Poller!OpenOf, Poller!CloseOf
    <3> HIDE DEF markets, Poller!RowsAreTimely
    <3>3. QED BY <1>0, <2>2, <2>3, <2>5, <3>1, <3>2
             DEF Poller!OpenOf, Poller!CloseOf
  <2>6. QED BY <2>4, <2>5
<1>3. CASE Poller!ListFails
  <2> DEFINE markets == IF s2 = "open" THEN {} ELSE s6
  <2>1. /\ s2 \in {"open", "unopened"} /\ UNCHANGED <<s1, s3, s9>>
        /\ Poller!EndOfList(markets)
    BY <1>3 DEF Poller!ListFails
  <2>2. /\ markets \in SUBSET Nat
        /\ \A m \in markets : /\ Poller!OpenOf(m) - Early <= s1
                              /\ s3 <= Poller!CloseOf(m)
    OBVIOUS
  <2> HIDE DEF markets
  <2>3. QED BY <2>1, <2>2, PollerListEnds
<1>4. CASE Poller!GetOrderbook
  <2>1. /\ s9' = [market |-> s7, at |-> s1, began |-> s3] /\ s2' = "sleep"
        /\ s4' = s1 /\ s2 = "ask" /\ UNCHANGED <<s1, s3, s5, s6, s7>>
    BY <1>4 DEF Poller!GetOrderbook, Poller!Call
  <2>2. s1 <= s3 + Poller!LookupTime + 1
    BY <2>1, PollerWindow
  <2>3. Poller!RowsAreTimely'
    BY <2>1, <2>2 DEF Poller!OpenOf, Poller!CloseOf, Poller!LookupTime
  <2> HIDE DEF Poller!RowsAreTimely
  <2>4. QED BY <2>1, <2>3 DEF Poller!OpenOf, Poller!CloseOf
<1>5. CASE Poller!CallFails \/ Poller!Wake \/ Poller!RequestStop
  BY <1>5 DEF Poller!CallFails, Poller!Wake, Poller!RequestStop, Poller!Call,
              Poller!OpenOf, Poller!CloseOf
<1>6. CASE Poller!Tick
  <2>1. /\ s1' = s1 + 1 /\ UNCHANGED <<s2, s3, s4, s5, s6, s7, s9>>
        /\ s2 \in {"open", "unopened", "ask"} => s1 = s4
    BY <1>6 DEF Poller!Tick
  <2>2. Poller!RowsAreTimely'
    BY <2>1 DEF Poller!OpenOf, Poller!CloseOf
  <2>3. \A m \in Nat : Poller!OpenOf(m) - Early <= s1
                         => Poller!OpenOf(m) - Early <= s1 + 1
    BY <1>0, PollerWindow
  <2> HIDE DEF Poller!RowsAreTimely
  <2>4. QED BY <2>1, <2>2, <2>3 DEF Poller!OpenOf, Poller!CloseOf
<1>7. CASE UNCHANGED Poller!pollVars
  BY <1>7 DEF Poller!pollVars, Poller!OpenOf, Poller!CloseOf
<1>8. QED BY <1>1, <1>2, <1>3, <1>4, <1>5, <1>6, <1>7 DEF Poller!Next

-----------------------------------------------------------------------------
(* The recorder between its sources and its writer (HiResCollector): s1 is  *)
(* the clock, s2 the log, s3 what was taken, s4 what is gone, s5 the        *)
(* buffers, s6 the last join, s7 the joined rows, s8 who is over, s9 pc.    *)

LEMMA NewestFacts ==
    ASSUME NEW k \in Nat, NEW S \in SUBSET (1..k), S # {}
    PROVE  /\ Collector!NewestOf(S) \in S
           /\ \A n \in S : n <= Collector!NewestOf(S)
<1> DEFINE T == {k - n : n \in S}
<1>1. T \in SUBSET Nat /\ T # {}
  <2>1. \A n \in S : k - n \in Nat
    OBVIOUS
  <2>2. QED BY <2>1
<1>2. PICK x \in T : \A y \in T : x <= y
  BY <1>1, LeastNatural
<1>3. PICK m \in S : x = k - m
  BY <1>2
<1>4. ASSUME NEW n \in S PROVE n <= m
  <2>1. k - m <= k - n
    BY <1>2, <1>3
  <2>2. QED BY <2>1
<1>5. QED BY <1>4 DEF Collector!NewestOf

\* An event that is logged is added to its source's log.
LEMMA EmitFacts ==
    ASSUME Collector!CollectorTypeOK, NEW s \in Collector!Sources,
           NEW kind \in Collector!Kinds, Collector!Emit(s, kind)
    PROVE  /\ s1 \in Nat /\ s \notin s8
           /\ s2' \in [Collector!Sources -> Seq([recv : Nat, kind : Collector!Kinds])]
           /\ s3' \in [Collector!Sources -> Nat]
           /\ \A r \in Collector!Sources :
                 /\ Len(s2[r]) \in Nat /\ Len(s2[r]) <= Len(s2'[r])
                 /\ \A n \in 1..Len(s2[r]) : s2'[r][n] = s2[r][n]
                 /\ s3[r] <= s3'[r] /\ s3'[r] <= Len(s2[r])
                 /\ \A n \in 1..s3'[r] : n \in 1..s3[r] \/ <<r, n>> \in s4'
                 /\ r # s => s2'[r] = s2[r] /\ s3'[r] = s3[r]
           /\ Len(s2'[s]) = Len(s2[s]) + 1
           /\ s2'[s][Len(s2[s]) + 1].recv = s1
           /\ s4 \subseteq s4'
           /\ UNCHANGED <<s1, s5, s6, s7, s8, s9>>
<1> DEFINE Event == [recv : Nat, kind : Collector!Kinds]
           e == [recv |-> s1, kind |-> kind]
           full == Len(s2[s]) - s3[s] = MaxQueue
<1>1. /\ s1 \in Nat /\ s2 \in [Collector!Sources -> Seq(Event)]
      /\ s3 \in [Collector!Sources -> Nat]
      /\ \A r \in Collector!Sources : s3[r] <= Len(s2[r])
      /\ MaxQueue \in Nat \ {0}
  BY RecordersAssumption DEF Collector!CollectorTypeOK, Collector!CollectorAssumption
<1>2. /\ s \notin s8 /\ s2' = [s2 EXCEPT ![s] = Append(@, e)]
      /\ s3' = (IF full THEN [s3 EXCEPT ![s] = @ + 1] ELSE s3)
      /\ s4' = (IF full THEN s4 \cup {<<s, s3[s] + 1>>} ELSE s4)
      /\ UNCHANGED <<s1, s5, s6, s7, s8, s9>>
  BY DEF Collector!Emit, Collector!mainVars
<1>3. e \in Event /\ s2[s] \in Seq(Event)
  BY <1>1
<1>4. /\ Append(s2[s], e) \in Seq(Event) /\ Len(s2[s]) \in Nat
      /\ Len(Append(s2[s], e)) = Len(s2[s]) + 1
      /\ \A n \in 1..Len(s2[s]) : Append(s2[s], e)[n] = s2[s][n]
      /\ Append(s2[s], e)[Len(s2[s]) + 1] = e
  <2> HIDE DEF Event, e
  <2>1. QED BY <1>3, AppendFacts
<1> HIDE DEF Event
<1>5. /\ s2'[s] = Append(s2[s], e)
      /\ \A r \in Collector!Sources : r # s => s2'[r] = s2[r]
      /\ s2' \in [Collector!Sources -> Seq(Event)]
  BY <1>1, <1>2, <1>4
<1>6. full => s3[s] + 1 <= Len(s2[s])
  BY <1>1, <1>4
<1> HIDE DEF e
<1>7. /\ s3' \in [Collector!Sources -> Nat]
      /\ s3'[s] = (IF full THEN s3[s] + 1 ELSE s3[s])
      /\ \A r \in Collector!Sources : r # s => s3'[r] = s3[r]
  BY <1>1, <1>2
<1> HIDE DEF full
<1>8. ASSUME NEW r \in Collector!Sources
      PROVE  /\ Len(s2[r]) \in Nat /\ Len(s2[r]) <= Len(s2'[r])
             /\ \A n \in 1..Len(s2[r]) : s2'[r][n] = s2[r][n]
             /\ s3[r] <= s3'[r] /\ s3'[r] <= Len(s2[r])
             /\ \A n \in 1..s3'[r] : n \in 1..s3[r] \/ <<r, n>> \in s4'
  <2>1. Len(s2[r]) \in Nat /\ s3[r] \in Nat /\ s3[r] <= Len(s2[r])
    BY <1>1
  <2>2. CASE r = s
    <3>1. Len(s2[r]) <= Len(s2'[r]) /\ \A n \in 1..Len(s2[r]) : s2'[r][n] = s2[r][n]
      BY <1>4, <1>5, <2>1, <2>2
    <3>2. s3[r] <= s3'[r] /\ s3'[r] <= Len(s2[r])
      BY <1>6, <1>7, <2>1, <2>2
    <3>3. ASSUME NEW n \in 1..s3'[r] PROVE n \in 1..s3[r] \/ <<r, n>> \in s4'
      <4>1. n \in 1..s3[r] \/ (full /\ n = s3[r] + 1)
        BY <1>7, <2>1, <2>2
      <4>2. full => <<s, s3[s] + 1>> \in s4'
        BY <1>2
      <4>3. QED BY <2>2, <4>1, <4>2
    <3>4. QED BY <2>1, <3>1, <3>2, <3>3
  <2>3. CASE r # s
    BY <1>5, <1>7, <2>1, <2>3
  <2>4. QED BY <2>2, <2>3
<1>9. s2' \in [Collector!Sources -> Seq([recv : Nat, kind : Collector!Kinds])]
  BY <1>5 DEF Event
<1>10. s2'[s][Len(s2[s]) + 1].recv = s1 /\ Len(s2'[s]) = Len(s2[s]) + 1
  BY <1>4, <1>5 DEF e
<1>11. s4 \subseteq s4'
  BY <1>2
<1>12. QED BY <1>1, <1>2, <1>5, <1>7, <1>8, <1>9, <1>10, <1>11

LEMMA CollectorEmit ==
    ASSUME Collector!CollectorInv, NEW s \in Collector!Sources,
           NEW kind \in Collector!Kinds, Collector!Emit(s, kind)
    PROVE  Collector!CollectorInv'
<1> USE DEF Collector!CollectorInv
<1>1. /\ s1 \in Nat /\ s \notin s8 /\ UNCHANGED <<s1, s5, s6, s7, s8, s9>>
      /\ \A r \in Collector!Sources :
            /\ Len(s2[r]) \in Nat /\ Len(s2[r]) <= Len(s2'[r])
            /\ \A n \in 1..Len(s2[r]) : s2'[r][n] = s2[r][n]
            /\ s3[r] <= s3'[r] /\ s3'[r] <= Len(s2[r])
            /\ \A n \in 1..s3'[r] : n \in 1..s3[r] \/ <<r, n>> \in s4'
            /\ r # s => s2'[r] = s2[r] /\ s3'[r] = s3[r]
      /\ Len(s2'[s]) = Len(s2[s]) + 1
      /\ s2'[s][Len(s2[s]) + 1].recv = s1
      /\ s4 \subseteq s4'
  BY EmitFacts
<1>2. /\ s2' \in [Collector!Sources -> Seq([recv : Nat, kind : Collector!Kinds])]
      /\ s3' \in [Collector!Sources -> Nat]
  BY EmitFacts
<1>3. Collector!Sampled \subseteq Collector!Sources
  BY DEF Collector!Sampled, Collector!Sources
<1>4. Collector!CollectorTypeOK'
  <2>1. \A r \in Collector!Sources : s3'[r] <= Len(s2'[r])
    <3>1. ASSUME NEW r \in Collector!Sources PROVE s3'[r] <= Len(s2'[r])
      <4>1. s3'[r] \in Nat /\ Len(s2[r]) \in Nat /\ Len(s2'[r]) \in Nat
        BY <1>1, <1>2
      <4>2. QED BY <1>1, <4>1
    <3>2. QED BY <3>1
  <2>2. ASSUME NEW r \in Collector!Sampled PROVE s5'[r] \subseteq 1..s3'[r]
    <3>1. r \in Collector!Sources /\ s5'[r] = s5[r] /\ s5[r] \subseteq 1..s3[r]
      BY <1>1, <1>3 DEF Collector!CollectorTypeOK
    <3>2. s3[r] \in Nat /\ s3'[r] \in Nat /\ s3[r] <= s3'[r]
      BY <1>1, <1>2, <3>1 DEF Collector!CollectorTypeOK
    <3>3. QED BY <3>1, <3>2
  <2>3. QED BY <1>1, <1>2, <2>1, <2>2 DEF Collector!CollectorTypeOK
<1>5. Collector!LogsAreOrdered'
  <2>1. ASSUME NEW r \in Collector!Sources,
               NEW i \in DOMAIN s2'[r], NEW k \in DOMAIN s2'[r]
        PROVE  /\ s2'[r][i].recv <= s1
               /\ i <= k => s2'[r][i].recv <= s2'[r][k].recv
    <3>1. /\ DOMAIN s2'[r] = 1..Len(s2'[r]) /\ DOMAIN s2[r] = 1..Len(s2[r])
          /\ Len(s2[r]) \in Nat /\ Len(s2'[r]) \in Nat
      BY <1>2 DEF Collector!CollectorTypeOK
    <3>2. \A n \in DOMAIN s2[r] : /\ s2[r][n].recv \in Nat /\ s2[r][n].recv <= s1
                                 /\ s2'[r][n] = s2[r][n]
      <4>1. \A n \in DOMAIN s2[r] : s2[r][n] \in [recv : Nat, kind : Collector!Kinds]
        <5>1. s2[r] \in Seq([recv : Nat, kind : Collector!Kinds])
          BY DEF Collector!CollectorTypeOK
        <5>2. QED BY <3>1, <5>1, ElementOfSeq
      <4>2. QED BY <1>1, <3>1, <4>1 DEF Collector!LogsAreOrdered
    <3>3. \A n \in DOMAIN s2'[r] :
              n \in DOMAIN s2[r] \/ (n = Len(s2[r]) + 1 /\ s2'[r][n].recv = s1)
      <4>1. CASE r = s
        BY <1>1, <3>1, <4>1
      <4>2. CASE r # s
        BY <1>1, <4>2
      <4>3. QED BY <4>1, <4>2
    <3>4. CASE i \in DOMAIN s2[r] /\ k \in DOMAIN s2[r]
      BY <3>2, <3>4 DEF Collector!LogsAreOrdered
    <3>5. CASE i \in DOMAIN s2[r] /\ s2'[r][k].recv = s1
      BY <3>2, <3>5
    <3>6. CASE i = Len(s2[r]) + 1 /\ s2'[r][i].recv = s1
      <4>1. i <= k => k \notin DOMAIN s2[r]
        BY <3>1, <3>6
      <4>2. QED BY <1>1, <3>3, <3>6, <4>1
    <3>7. QED BY <3>3, <3>4, <3>5, <3>6
  <2>2. QED BY <1>1, <2>1 DEF Collector!LogsAreOrdered
\* What was said of the events logged before is still true.
<1>6. ASSUME NEW r \in Collector!Sampled, NEW n \in 1..Len(s2[r])
      PROVE  s2'[r][n] = s2[r][n] /\ (Collector!Samples(r, n)' <=> Collector!Samples(r, n))
  BY <1>1, <1>3 DEF Collector!Samples
<1>7. Collector!SamplesAreKept'
  <2>1. ASSUME NEW r \in Collector!Sampled, NEW n \in 1..s3'[r],
               Collector!Samples(r, n)', <<r, n>> \notin s4'
        PROVE  n \in s5'[r]
    <3>1. n \in 1..s3[r] /\ s3[r] \in Nat /\ Len(s2[r]) \in Nat /\ s3[r] <= Len(s2[r])
      BY <1>1, <1>3, <2>1 DEF Collector!CollectorTypeOK
    <3>2. n \in 1..Len(s2[r])
      BY <3>1
    <3>3. Collector!Samples(r, n) /\ <<r, n>> \notin s4
      BY <1>1, <1>6, <2>1, <3>2
    <3>4. QED BY <1>1, <3>1, <3>3 DEF Collector!SamplesAreKept
  <2>2. QED BY <2>1 DEF Collector!SamplesAreKept
<1>8. Collector!JoinsAreLogged'
  <2>1. ASSUME NEW j \in s7, NEW r \in Collector!Sampled
        PROVE  /\ j.known[r] \in 0..Len(s2'[r])
               /\ j.sample[r] \in {Collector!None} \cup 1..Len(s2'[r])
    <3>1. /\ j.known[r] \in 0..Len(s2[r])
          /\ j.sample[r] \in {Collector!None} \cup 1..Len(s2[r])
      BY DEF Collector!JoinsAreLogged
    <3>2. Len(s2[r]) \in Nat /\ Len(s2'[r]) \in Nat /\ Len(s2[r]) <= Len(s2'[r])
      BY <1>1, <1>2, <1>3
    <3>3. QED BY <3>1, <3>2
  <2>2. QED BY <1>1, <2>1 DEF Collector!JoinsAreLogged
<1>9. Collector!OverIsDrained'
  <2>1. ASSUME NEW r \in s8 PROVE s3'[r] = s3[r] /\ s2'[r] = s2[r]
    BY <1>1 DEF Collector!CollectorTypeOK
  <2>2. QED BY <1>1, <2>1 DEF Collector!OverIsDrained
<1>10. Collector!JoinedPointInTime'
  <2>1. ASSUME NEW j \in s7, NEW r \in Collector!Sampled
        PROVE  LET old(n) == s2'[r][n].recv <= j.asOf
                   n0 == j.sample[r]
               IN  /\ n0 # Collector!None => old(n0)
                   /\ \A n \in 1..j.known[r] :
                         (old(n) /\ Collector!Samples(r, n)' /\ <<r, n>> \notin s4') =>
                             n0 # Collector!None /\ n0 >= n
    <3>1. /\ j.sample[r] # Collector!None => j.sample[r] \in 1..Len(s2[r])
          /\ j.known[r] \in 0..Len(s2[r]) /\ Len(s2[r]) \in Nat
      BY <1>1, <1>3 DEF Collector!JoinsAreLogged
    <3>2. \A n \in 1..j.known[r] : n \in 1..Len(s2[r])
      BY <3>1
    <3>3. QED BY <1>1, <1>6, <3>1, <3>2 DEF Collector!JoinedPointInTime
  <2>2. QED BY <1>1, <2>1 DEF Collector!JoinedPointInTime
<1>11. Collector!DoneIsLast'
  BY <1>1 DEF Collector!DoneIsLast
<1>12. QED BY <1>4, <1>5, <1>7, <1>8, <1>9, <1>10, <1>11

\* The search of a buffer ends at the newest sample received by then.
LEMMA LastAtFacts ==
    ASSUME Collector!CollectorTypeOK, Collector!LogsAreOrdered,
           NEW r \in Collector!Sampled, NEW time \in Nat
    PROVE  LET found == Collector!LastAt(r, time)
           IN  /\ found \in {Collector!None} \cup s5[r]
               /\ found # Collector!None => s2[r][found].recv <= time
               /\ \A n \in s5[r] : s2[r][n].recv <= time =>
                     found # Collector!None /\ found >= n
<1> DEFINE old == {n \in s5[r] : \A k \in s5[r] : k <= n => s2[r][k].recv <= time}
           k0 == s3[r]
<1>1. r \in Collector!Sources /\ k0 \in Nat /\ s5[r] \subseteq 1..k0
  BY DEF Collector!CollectorTypeOK, Collector!Sampled, Collector!Sources
<1>2. \A n \in s5[r] : n \in DOMAIN s2[r] /\ s2[r][n].recv \in Nat
  <2>1. /\ s2[r] \in Seq([recv : Nat, kind : Collector!Kinds]) /\ k0 <= Len(s2[r])
    BY <1>1 DEF Collector!CollectorTypeOK
  <2>2. Len(s2[r]) \in Nat /\ DOMAIN s2[r] = 1..Len(s2[r])
    BY <2>1
  <2>3. \A n \in s5[r] : n \in 1..Len(s2[r])
    BY <1>1, <2>1, <2>2
  <2> HIDE DEF k0
  <2>4. \A n \in 1..Len(s2[r]) : s2[r][n] \in [recv : Nat, kind : Collector!Kinds]
    BY <2>1, ElementOfSeq
  <2>5. QED BY <2>2, <2>3, <2>4
<1> HIDE DEF k0
<1>3. old \in SUBSET (1..k0)
  BY <1>1
<1>4. \A n \in s5[r] : s2[r][n].recv <= time => n \in old
  <2>1. ASSUME NEW n \in s5[r], s2[r][n].recv <= time, NEW k \in s5[r], k <= n
        PROVE  s2[r][k].recv <= time
    <3>1. s2[r][k].recv <= s2[r][n].recv
      BY <1>1, <1>2, <2>1 DEF Collector!LogsAreOrdered
    <3>2. QED BY <1>2, <2>1, <3>1
  <2>2. QED BY <2>1
<1>5. Collector!LastAt(r, time)
          = IF old = {} THEN Collector!None ELSE Collector!NewestOf(old)
  BY DEF Collector!LastAt
<1>6. \A n \in old : n \in s5[r] /\ n \in Nat /\ s2[r][n].recv <= time
  <2>1. \A n \in s5[r] : n \in Nat /\ n <= n
    BY <1>1
  <2>2. QED BY <2>1
<1> HIDE DEF old
<1>7. CASE old = {}
  BY <1>4, <1>5, <1>7
<1>8. CASE old # {}
  <2>1. /\ Collector!NewestOf(old) \in old
        /\ \A n \in old : n <= Collector!NewestOf(old)
    BY <1>1, <1>3, <1>8, NewestFacts
  <2>2. Collector!NewestOf(old) # Collector!None
    BY <1>6, <2>1 DEF Collector!None
  <2>3. QED BY <1>4, <1>5, <1>6, <1>8, <2>1, <2>2
<1>9. QED BY <1>7, <1>8

\* A drain empties one queue, and what it takes goes to the buffers.
LEMMA CollectorDrain ==
    ASSUME Collector!CollectorInv, Collector!Drain
    PROVE  Collector!CollectorInv'
<1> USE DEF Collector!CollectorInv
<1> DEFINE s == Collector!Order[s9.next]
           grown == s5[s] \cup {n \in Collector!Waiting(s) : Collector!Samples(s, n)}
           kept == {n \in grown : Collector!Cardinality({k \in grown : k > n}) < MaxBuffer}
<1>1. /\ s9.stage # "done" /\ s9.next \in 1..3
      /\ s3' = [s3 EXCEPT ![s] = Len(s2[s])]
      /\ s9' = [s9 EXCEPT !.next = @ + 1]
      /\ UNCHANGED <<s1, s2, s8>>
  <2>1. Len(Collector!Order) = 3
    BY DEF Collector!Order
  <2>2. s9.next \in 1..4 /\ s9.next <= Len(Collector!Order)
    BY DEF Collector!Drain, Collector!CollectorTypeOK
  <2>3. s9.next \in 1..3
    BY <2>1, <2>2
  <2>4. QED BY <2>3 DEF Collector!Drain
<1>2. s \in Collector!Sources
  BY <1>1 DEF Collector!Order, Collector!Sources
<1> HIDE DEF s
<1>3. \A r \in Collector!Sources :
          /\ Len(s2[r]) \in Nat /\ s3[r] \in Nat /\ s3[r] <= Len(s2[r])
          /\ s3'[r] = (IF r = s THEN Len(s2[r]) ELSE s3[r])
          /\ s3'[r] \in Nat /\ s3'[r] <= Len(s2[r]) /\ s3[r] <= s3'[r]
  BY <1>1, <1>2 DEF Collector!CollectorTypeOK
<1>4. Collector!Sampled \subseteq Collector!Sources
  BY DEF Collector!Sampled, Collector!Sources
<1>5. s3' \in [Collector!Sources -> Nat]
  BY <1>1, <1>2, <1>3 DEF Collector!CollectorTypeOK
<1>6. /\ s9' \in [stage : {"loop", "first", "last", "done"}, next : 1..4]
      /\ Collector!DoneIsLast'
  <2>1. s9 \in [stage : {"loop", "first", "last", "done"}, next : 1..4]
    BY DEF Collector!CollectorTypeOK
  <2>2. s9.next + 1 \in 1..4
    BY <1>1
  <2>3. QED BY <1>1, <2>1, <2>2 DEF Collector!DoneIsLast
<1>7. Collector!LogsAreOrdered'
  BY <1>1 DEF Collector!LogsAreOrdered
<1>8. Collector!OverIsDrained'
  <2>1. ASSUME NEW i \in 1..3, s9'.stage \in {"last", "done"},
               Collector!Order[i] \in s8, i < s9'.next \/ s9'.stage = "done"
        PROVE  s3'[Collector!Order[i]] = Len(s2[Collector!Order[i]])
    <3>1. s9'.stage = s9.stage /\ s9'.next = s9.next + 1
      BY <1>1 DEF Collector!CollectorTypeOK
    <3>2. i < s9.next \/ i = s9.next
      BY <1>1, <2>1, <3>1
    <3>3. Collector!Order[i] \in Collector!Sources
      BY <2>1 DEF Collector!CollectorTypeOK
    <3>4. CASE i = s9.next
      BY <1>3, <3>3, <3>4 DEF s
    <3>5. CASE i < s9.next
      <4>1. s3[Collector!Order[i]] = Len(s2[Collector!Order[i]])
        BY <2>1, <3>1, <3>5 DEF Collector!OverIsDrained
      <4>2. QED BY <1>3, <3>3, <4>1
    <3>6. QED BY <3>2, <3>4, <3>5
  <2>2. QED BY <1>1, <2>1 DEF Collector!OverIsDrained
<1>9. CASE s \in Collector!Sampled
  <2>1. /\ s5' = [s5 EXCEPT ![s] = kept]
        /\ s4' = s4 \cup {<<s, n>> : n \in grown \ kept}
        /\ s7' = {} /\ s6' = s6
    BY <1>9 DEF Collector!Drain, s
  <2>2. \A n \in grown : n \in 1..Len(s2[s])
    <3>1. \A n \in s5[s] : n \in 1..s3[s]
      BY <1>9 DEF Collector!CollectorTypeOK
    <3>2. \A n \in 1..s3[s] : n \in 1..Len(s2[s])
      BY <1>2, <1>3
    <3>3. \A n \in Collector!Waiting(s) : n \in 1..Len(s2[s])
      BY <1>2, <1>3 DEF Collector!Waiting
    <3>4. QED BY <3>1, <3>2, <3>3
  <2>3. \A n \in 1..Len(s2[s]) : n \in 1..s3[s] \/ n \in Collector!Waiting(s)
    BY <1>2, <1>3 DEF Collector!Waiting
  <2>4. kept \subseteq grown /\ \A n \in kept : n \in Nat
    BY <2>2
  <2>5. \A n \in 1..s3[s] :
            Collector!Samples(s, n) /\ <<s, n>> \notin s4 => n \in s5[s]
    BY <1>9 DEF Collector!SamplesAreKept
  <2>6. \A n \in grown : n \in kept \/ <<s, n>> \in s4'
    BY <2>1
  <2>7. ASSUME NEW n \in 1..Len(s2[s]), Collector!Samples(s, n), <<s, n>> \notin s4'
        PROVE  n \in kept
    <3>1. <<s, n>> \notin s4
      BY <2>1, <2>7
    <3>2. n \in grown
      BY <2>3, <2>5, <2>7, <3>1
    <3>3. QED BY <2>6, <2>7, <3>2
  <2> HIDE DEF kept, grown
  <2>8. Collector!CollectorTypeOK'
    <3>1. s5' \in [Collector!Sampled -> SUBSET Nat]
      BY <1>9, <2>1, <2>4 DEF Collector!CollectorTypeOK
    <3>2. ASSUME NEW r \in Collector!Sampled PROVE s5'[r] \subseteq 1..s3'[r]
      <4>1. CASE r = s
        BY <1>2, <1>3, <1>9, <2>1, <2>2, <2>4, <4>1 DEF Collector!CollectorTypeOK
      <4>2. CASE r # s
        BY <1>3, <1>4, <1>9, <2>1, <4>2 DEF Collector!CollectorTypeOK
      <4>3. QED BY <4>1, <4>2
    <3>3. QED BY <1>1, <1>3, <1>5, <1>6, <2>1, <3>1, <3>2 DEF Collector!CollectorTypeOK
  <2>9. Collector!SamplesAreKept'
    <3>1. ASSUME NEW r \in Collector!Sampled, NEW n \in 1..s3'[r],
                 Collector!Samples(r, n)', <<r, n>> \notin s4'
          PROVE  n \in s5'[r]
      <4>1. Collector!Samples(r, n)
        BY <1>1, <3>1 DEF Collector!Samples
      <4>2. CASE r = s
        BY <1>2, <1>3, <1>9, <2>1, <2>7, <3>1, <4>1, <4>2 DEF Collector!CollectorTypeOK
      <4>3. CASE r # s
        BY <1>3, <1>4, <1>9, <2>1, <3>1, <4>1, <4>3
           DEF Collector!CollectorTypeOK, Collector!SamplesAreKept
      <4>4. QED BY <4>2, <4>3
    <3>2. QED BY <3>1 DEF Collector!SamplesAreKept
  <2>10. Collector!JoinsAreLogged' /\ Collector!JoinedPointInTime'
    BY <2>1 DEF Collector!JoinsAreLogged, Collector!JoinedPointInTime
  <2>11. QED BY <1>6, <1>7, <1>8, <2>8, <2>9, <2>10
<1>10. CASE s \notin Collector!Sampled
  <2>1. s = "kalshi"
    BY <1>2, <1>10 DEF Collector!Sampled, Collector!Sources
  <2>2. PICK due \in SUBSET Collector!Waiting(s) :
            /\ s7' = {Collector!BuildJoined(n) : n \in due}
            /\ s6' = IF due = {} THEN s6 ELSE s2[s][Collector!NewestOf(due)].recv
            /\ UNCHANGED <<s4, s5>>
    BY <1>10 DEF Collector!Drain, s
  <2>3. due \in SUBSET (1..Len(s2[s])) /\ Len(s2[s]) \in Nat
    BY <1>2, <1>3 DEF Collector!Waiting
  <2>4. \A n \in 1..Len(s2[s]) : s2[s][n].recv \in Nat
    <3>1. s2[s] \in Seq([recv : Nat, kind : Collector!Kinds])
      BY <1>2 DEF Collector!CollectorTypeOK
    <3>2. \A n \in 1..Len(s2[s]) : s2[s][n] \in [recv : Nat, kind : Collector!Kinds]
      BY <3>1, ElementOfSeq
    <3>3. QED BY <3>2
  <2>5. s6' \in Int
    <3>1. CASE due = {}
      BY <2>2, <3>1 DEF Collector!CollectorTypeOK
    <3>2. CASE due # {}
      <4>1. Collector!NewestOf(due) \in due
        BY <2>3, <3>2, NewestFacts
      <4>2. QED BY <2>2, <2>3, <2>4, <3>2, <4>1
    <3>3. QED BY <3>1, <3>2
  <2>6. \A r \in Collector!Sampled : s3'[r] = s3[r]
    BY <1>3, <1>4, <1>10
  <2>7. Collector!CollectorTypeOK'
    BY <1>1, <1>3, <1>5, <1>6, <2>2, <2>5, <2>6 DEF Collector!CollectorTypeOK
  <2>8. Collector!SamplesAreKept'
    BY <1>1, <2>2, <2>6 DEF Collector!SamplesAreKept, Collector!Samples
  <2>9. ASSUME NEW j \in s7', NEW r \in Collector!Sampled
        PROVE  /\ j.asOf \in Nat /\ j.known[r] = s3[r]
               /\ j.sample[r] = Collector!LastAt(r, j.asOf)
    <3>1. PICK n \in due : j = Collector!BuildJoined(n)
      BY <2>2
    <3>2. QED BY <2>1, <2>3, <2>4, <3>1 DEF Collector!BuildJoined
  <2>10. ASSUME NEW j \in s7', NEW r \in Collector!Sampled
         PROVE  /\ j.sample[r] \in {Collector!None} \cup s5[r]
                /\ j.sample[r] # Collector!None => s2[r][j.sample[r]].recv <= j.asOf
                /\ \A n \in s5[r] : s2[r][n].recv <= j.asOf =>
                      j.sample[r] # Collector!None /\ j.sample[r] >= n
    BY <2>9, LastAtFacts
  <2>11. Collector!JoinsAreLogged'
    <3>1. ASSUME NEW j \in s7', NEW r \in Collector!Sampled
          PROVE  /\ j.known[r] \in 0..Len(s2[r])
                 /\ j.sample[r] \in {Collector!None} \cup 1..Len(s2[r])
      <4>1. s3[r] \in Nat /\ s3[r] <= Len(s2[r]) /\ Len(s2[r]) \in Nat
        BY <1>3, <1>4
      <4>2. \A n \in s5[r] : n \in 1..Len(s2[r])
        <5>1. \A n \in s5[r] : n \in 1..s3[r]
          BY DEF Collector!CollectorTypeOK
        <5>2. QED BY <4>1, <5>1
      <4>3. QED BY <2>9, <2>10, <4>1, <4>2
    <3>2. \A j \in s7' : j.asOf \in Nat
      BY <2>9 DEF Collector!Sampled
    <3>3. QED BY <1>1, <3>1, <3>2 DEF Collector!JoinsAreLogged
  <2>12. Collector!JoinedPointInTime'
    <3>1. ASSUME NEW j \in s7', NEW r \in Collector!Sampled, NEW n \in 1..j.known[r],
                 s2[r][n].recv <= j.asOf, Collector!Samples(r, n), <<r, n>> \notin s4
          PROVE  j.sample[r] # Collector!None /\ j.sample[r] >= n
      <4>1. n \in s5[r]
        BY <2>9, <3>1 DEF Collector!SamplesAreKept
      <4>2. QED BY <2>10, <3>1, <4>1
    <3>2. QED BY <1>1, <2>2, <2>10, <3>1 DEF Collector!JoinedPointInTime, Collector!Samples
  <2>13. QED BY <1>6, <1>7, <1>8, <2>7, <2>8, <2>11, <2>12
<1>11. QED BY <1>9, <1>10

LEMMA CollectorInit == Collector!Init => Collector!CollectorInv
<1> SUFFICES ASSUME Collector!Init PROVE Collector!CollectorInv
  OBVIOUS
<1>1. Collector!CollectorTypeOK
  <2>1. \A r \in Collector!Sources : Len(s2[r]) = 0 /\ s3[r] = 0
    BY DEF Collector!Init
  <2>2. s2 \in [Collector!Sources -> Seq([recv : Nat, kind : Collector!Kinds])]
    BY DEF Collector!Init
  <2>3. \A r \in Collector!Sampled : s5[r] = {}
    BY DEF Collector!Init
  <2>4. QED BY <2>1, <2>2, <2>3 DEF Collector!Init, Collector!CollectorTypeOK, Collector!None
<1>2. Collector!LogsAreOrdered /\ Collector!SamplesAreKept
  BY DEF Collector!Init, Collector!LogsAreOrdered, Collector!SamplesAreKept,
         Collector!Sampled, Collector!Sources
<1>3. /\ Collector!JoinsAreLogged /\ Collector!OverIsDrained
      /\ Collector!JoinedPointInTime /\ Collector!DoneIsLast
  BY DEF Collector!Init, Collector!JoinsAreLogged, Collector!OverIsDrained,
         Collector!JoinedPointInTime, Collector!DoneIsLast
<1>4. QED BY <1>1, <1>2, <1>3 DEF Collector!CollectorInv

LEMMA CollectorStep ==
    ASSUME Collector!CollectorInv, [Collector!Next]_(Collector!colVars)
    PROVE  Collector!CollectorInv'
<1> USE DEF Collector!CollectorInv
<1>1. CASE Collector!Tick
  <2>1. s1 \in Nat /\ s1' = s1 + 1 /\ UNCHANGED <<s2, s3, s4, s5, s6, s7, s8, s9>>
    BY <1>1 DEF Collector!Tick, Collector!mainVars, Collector!CollectorTypeOK
  <2>2. Collector!LogsAreOrdered'
    <3>1. ASSUME NEW r \in Collector!Sources, NEW i \in DOMAIN s2[r]
          PROVE  s2[r][i].recv <= s1 + 1
      <4>1. s2[r][i].recv \in Nat
        <5>1. s2[r] \in Seq([recv : Nat, kind : Collector!Kinds])
          BY DEF Collector!CollectorTypeOK
        <5>2. i \in 1..Len(s2[r])
          BY <5>1
        <5>3. s2[r][i] \in [recv : Nat, kind : Collector!Kinds]
          BY <5>1, <5>2, ElementOfSeq
        <5>4. QED BY <5>3
      <4>2. s2[r][i].recv <= s1
        BY DEF Collector!LogsAreOrdered
      <4>3. QED BY <2>1, <4>1, <4>2
    <3>2. QED BY <2>1, <3>1 DEF Collector!LogsAreOrdered
  <2>3. Collector!CollectorTypeOK'
    <3>1. s1' \in Nat
      BY <2>1
    <3>2. UNCHANGED <<s2, s3, s5, s6, s8, s9>>
      BY <2>1
    <3>3. QED BY <3>1, <3>2 DEF Collector!CollectorTypeOK
  <2>4. (Collector!SamplesAreKept /\ Collector!JoinedPointInTime)'
    BY <2>1 DEF Collector!SamplesAreKept, Collector!Samples, Collector!JoinedPointInTime
  <2>5. (Collector!JoinsAreLogged /\ Collector!OverIsDrained /\ Collector!DoneIsLast)'
    BY <2>1 DEF Collector!JoinsAreLogged, Collector!OverIsDrained, Collector!DoneIsLast
  <2>6. QED BY <2>2, <2>3, <2>4, <2>5
<1>3. CASE Collector!Drain
  BY <1>3, CollectorDrain
<1>4. CASE Collector!NextStage
  <2>1. /\ UNCHANGED <<s1, s2, s3, s4, s5, s6, s7>>
        /\ s9.next > 3
        /\ \E stage \in Collector!After(s9.stage) : s9' = [stage |-> stage, next |-> 1]
        /\ IF s9.stage = "first" THEN s8' \in SUBSET Collector!Sources ELSE s8' = s8
    BY <1>4 DEF Collector!NextStage, Collector!Order
  <2>2. s9.stage # "done" => /\ s9' \in [stage : {"loop", "first", "last", "done"}, next : 1..4]
                             /\ s9'.next = 1
                             /\ s9'.stage = "done" => s9.stage = "last"
    BY <2>1 DEF Collector!After, Collector!CollectorTypeOK
  <2>3. s9.stage # "done"
    BY <2>1 DEF Collector!DoneIsLast
  <2>4. Collector!OverIsDrained'
    BY <2>1, <2>2, <2>3 DEF Collector!OverIsDrained, Collector!CollectorTypeOK
  <2>5. QED BY <2>1, <2>2, <2>3, <2>4
           DEF Collector!CollectorTypeOK, Collector!SamplesAreKept, Collector!Samples,
               Collector!JoinsAreLogged, Collector!LogsAreOrdered,
               Collector!JoinedPointInTime, Collector!DoneIsLast
<1>5. CASE UNCHANGED Collector!colVars
  BY <1>5 DEF Collector!colVars, Collector!CollectorTypeOK, Collector!SamplesAreKept,
              Collector!Samples, Collector!JoinsAreLogged, Collector!LogsAreOrdered,
              Collector!OverIsDrained, Collector!JoinedPointInTime, Collector!DoneIsLast
<1>6. ASSUME NEW kind \in {"book", "trade"}, Collector!HandleMsg(kind)
      PROVE  Collector!CollectorInv'
  <2>1. Collector!Emit("binance", kind)
    BY <1>6 DEF Collector!HandleMsg
  <2>2. "binance" \in Collector!Sources /\ kind \in Collector!Kinds
    BY <1>6 DEF Collector!Sources, Collector!Kinds
  <2>3. QED BY <2>1, <2>2, CollectorEmit
<1>7. CASE Collector!Emit("coinbase", "ticker")
  <2>1. "coinbase" \in Collector!Sources /\ "ticker" \in Collector!Kinds
    BY DEF Collector!Sources, Collector!Kinds
  <2>2. QED BY <1>7, <2>1, CollectorEmit
<1>8. CASE Collector!Emit("kalshi", "book")
  <2>1. "kalshi" \in Collector!Sources /\ "book" \in Collector!Kinds
    BY DEF Collector!Sources, Collector!Kinds
  <2>2. QED BY <1>8, <2>1, CollectorEmit
<1>9. QED BY <1>1, <1>3, <1>4, <1>5, <1>6, <1>7, <1>8 DEF Collector!Next

\* A source that has ended has nothing left waiting when the run is over.
LEMMA NothingIsLeftBehind == Collector!CollectorInv => Collector!NothingLeftBehind
<1> SUFFICES ASSUME Collector!CollectorInv, s9.stage = "done", NEW s \in s8
             PROVE  Collector!Waiting(s) = {}
  BY DEF Collector!NothingLeftBehind
<1>1. s \in Collector!Sources
  BY DEF Collector!CollectorInv, Collector!CollectorTypeOK
<1>2. \E i \in 1..3 : s = Collector!Order[i]
  BY <1>1 DEF Collector!Sources, Collector!Order
<1>3. s3[s] = Len(s2[s]) /\ Len(s2[s]) \in Nat
  BY <1>1, <1>2 DEF Collector!CollectorInv, Collector!OverIsDrained, Collector!CollectorTypeOK
<1>4. QED BY <1>3 DEF Collector!Waiting

-----------------------------------------------------------------------------
(* The continuous collector (MarketCollector): s1 is the clock, s3 pc, s4   *)
(* the time the discovery began, s5 what it found, s6 whether it was        *)
(* punctual, s7 the targets, s8 the deadline, s12 the cached and s13 the    *)
(* recorded start references.                                               *)

LEMMA MarketConstants ==
    /\ Length \in Nat \ {0} /\ Lead \in Nat /\ Early \in Nat /\ SettleAfter \in Nat
    /\ CycleLength \in Nat /\ DeadlineGrace \in Nat /\ MaxMarkets \in Nat \ {0}
    /\ CycleLength <= Length + DeadlineGrace
    /\ 1 \in Markets /\ Markets \subseteq Nat \ {0}
    /\ \A m \in Markets : m # 1 => m - 1 \in Markets
<1>1. PICK n \in Markets : n \in Nat \ {0} /\ Markets = 1..n
  BY RecordersAssumption DEF Market!MarketAssumption
<1>2. QED BY <1>1, RecordersAssumption DEF Market!MarketAssumption

\* One market opens when the one before closes.
LEMMA Schedule ==
    ASSUME NEW m \in Markets
    PROVE  /\ Market!OpenOf(m) \in Nat /\ Lead <= Market!OpenOf(m)
           /\ Market!CloseOf(m) = Market!OpenOf(m) + Length
           /\ m = 1 => Market!OpenOf(m) = Lead
           /\ m # 1 => Market!CloseOf(m - 1) = Market!OpenOf(m)
<1>1. m \in Nat /\ m - 1 \in Nat /\ Length \in Nat /\ Lead \in Nat
  BY MarketConstants
<1>2. (m - 1) * Length \in Nat
  BY <1>1
<1>3. (m - 1) * Length = (m - 2) * Length + Length
  BY <1>1
<1>4. m = 1 => (m - 1) * Length = 0
  BY <1>1
<1>5. (m - 1) - 1 = m - 2
  BY <1>1
<1>6. m - 2 \in Int /\ (m - 2) * Length \in Int
  BY <1>1
<1>7. QED BY <1>1, <1>2, <1>3, <1>4, <1>5, <1>6 DEF Market!OpenOf, Market!CloseOf

LEMMA LaterMarkets ==
    ASSUME NEW m \in Markets, NEW k \in Markets, m < k
    PROVE  Market!CloseOf(m) <= Market!OpenOf(k)
<1>1. m \in Nat /\ k - 1 \in Nat /\ m <= k - 1 /\ Length \in Nat /\ Lead \in Nat
  BY MarketConstants
<1>2. m * Length <= (k - 1) * Length /\ m * Length \in Nat /\ (k - 1) * Length \in Nat
  BY <1>1, ProductMonotone
<1>3. m * Length = (m - 1) * Length + Length /\ (m - 1) * Length \in Int
  BY <1>1
<1>4. QED BY <1>1, <1>2, <1>3 DEF Market!OpenOf, Market!CloseOf

LEMMA LeastFacts ==
    ASSUME NEW S \in SUBSET Nat, S # {}
    PROVE  /\ Market!Min(S) \in S
           /\ \A n \in S : Market!Min(S) <= n
BY LeastNatural DEF Market!Min

LEMMA NoneIsZero == Market!Cardinality({}) = 0
<1>1. Market!Cardinality({}) = Cardinality({})
  BY DEF Market!Cardinality, Cardinality
<1>2. QED BY <1>1, FS_EmptySet

LEMMA RunningAt ==
    ASSUME NEW m \in Markets, NEW time \in Nat
    PROVE  /\ Market!StatusAt(m, time) = "active"
                <=> Market!OpenOf(m) - Early <= time /\ time < Market!CloseOf(m)
           /\ Market!StatusAt(m, time) = "initialized"
                <=> time < Market!OpenOf(m) - Early
BY Schedule, MarketConstants DEF Market!StatusAt

\* What a discovery calls running is running, and so on.
LEMMA PhaseFacts ==
    ASSUME NEW m \in Markets, NEW time \in Nat
    PROVE  LET phase == Market!ClassifyMarket(m, Market!StatusAt(m, time), time)
           IN  /\ phase = "CURRENT_IN_WINDOW" <=> Market!StatusAt(m, time) = "active"
               /\ phase = "UPCOMING" <=> Market!StatusAt(m, time) = "initialized"
<1>1. Market!StatusAt(m, time) = "active" => ~(time > Market!CloseOf(m))
  BY RunningAt, Schedule, MarketConstants
<1>2. QED BY <1>1 DEF Market!ClassifyMarket, Market!StatusAt

\* The first to close of the markets that are active.
LEMMA FirstActive ==
    ASSUME NEW m \in Markets, NEW time \in Nat, Market!StatusAt(m, time) = "active"
    PROVE  \E k \in Markets : /\ k <= m /\ Market!StatusAt(k, time) = "active"
                              /\ Market!CloseOf(k) <= Market!CloseOf(m)
                              /\ \A n \in Markets :
                                    Market!StatusAt(n, time) = "active" => k <= n
<1> DEFINE S == {n \in Markets : Market!StatusAt(n, time) = "active"}
<1>1. S \in SUBSET Nat /\ m \in S
  BY MarketConstants
<1>2. PICK k \in S : \A n \in S : k <= n
  BY <1>1, LeastNatural
<1>3. k \in Markets /\ k \in Nat /\ m \in Nat /\ k <= m
  BY <1>1, <1>2
<1>4. Market!CloseOf(k) <= Market!CloseOf(m)
  <2>1. CASE k = m
    BY <2>1, Schedule, MarketConstants
  <2>2. CASE k < m
    BY <1>3, <2>2, LaterMarkets, Schedule, MarketConstants
  <2>3. QED BY <1>3, <2>1, <2>2
<1>5. QED BY <1>2, <1>3, <1>4

\* A market that nothing goes before is among the targets.
LEMMA FirstIsChosen ==
    ASSUME NEW m \in DOMAIN s5, s5[m].phase # "SETTLED",
           \A k \in DOMAIN s5 : ~Market!Precedes(k, m)
    PROVE  m \in Market!SelectCollectionTargets
<1> DEFINE wanted == DOMAIN s5 \ Market!InPhase("SETTLED")
           pool == IF wanted # {} THEN wanted ELSE DOMAIN s5
<1>1. m \in wanted /\ pool \subseteq DOMAIN s5
  BY DEF Market!InPhase
<1>2. m \in pool
  BY <1>1
<1>3. {k \in pool : Market!Precedes(k, m)} = {}
  BY <1>1
<1>4. Market!Cardinality({k \in pool : Market!Precedes(k, m)}) < MaxMarkets
  BY <1>3, NoneIsZero, MarketConstants
<1>5. Market!SelectCollectionTargets
          = {n \in pool : Market!Cardinality({k \in pool : Market!Precedes(k, n)}) < MaxMarkets}
  BY DEF Market!SelectCollectionTargets
<1> HIDE DEF pool
<1>6. QED BY <1>2, <1>4, <1>5

\* A cycle's deadline is in time for every running market that it records.
LEMMA DeadlineFacts ==
    ASSUME Market!MarketTypeOK, NEW chosen \in SUBSET Markets,
           \A m \in Market!InPhase("CURRENT_IN_WINDOW") :
              m \in Markets /\ Market!StatusAt(m, s1) = "active"
    PROVE  /\ Market!CycleDeadline(chosen) \in Nat
           /\ Market!CycleDeadline(chosen) <= s1 + CycleLength
           /\ \A m \in chosen : m \in Market!InPhase("CURRENT_IN_WINDOW") =>
                 Market!CycleDeadline(chosen) <= Market!CloseOf(m) + DeadlineGrace
<1> DEFINE running == Market!InPhase("CURRENT_IN_WINDOW") \cap chosen
           left == {Market!CloseOf(m) - s1 : m \in running}
           least == Market!Min(left)
           both == {CycleLength, least + DeadlineGrace}
<1>1. s1 \in Nat /\ CycleLength \in Nat /\ DeadlineGrace \in Nat
  BY MarketConstants DEF Market!MarketTypeOK
<1>2. \A m \in running : Market!CloseOf(m) - s1 \in Nat \ {0}
  <2>1. ASSUME NEW m \in running
        PROVE  Market!CloseOf(m) - s1 \in Nat \ {0}
    <3>1. m \in Markets /\ Market!StatusAt(m, s1) = "active"
      OBVIOUS
    <3>2. s1 < Market!CloseOf(m) /\ Market!CloseOf(m) \in Nat
      BY <1>1, <3>1, RunningAt, Schedule, MarketConstants
    <3>3. QED BY <1>1, <3>2
  <2>2. QED BY <2>1
<1>3. \A m \in chosen : m \in Market!InPhase("CURRENT_IN_WINDOW") => m \in running
  OBVIOUS
<1>4. Market!CycleDeadline(chosen)
          = IF left = {} \/ least <= 0 THEN s1 + CycleLength
            ELSE s1 + Market!Min(both)
  BY DEF Market!CycleDeadline
<1>5. left \subseteq Nat \ {0} /\ \A m \in running : Market!CloseOf(m) - s1 \in left
  BY <1>2
<1>6. CASE left = {}
  BY <1>1, <1>3, <1>4, <1>5, <1>6
<1>7. CASE left # {}
  <2> HIDE DEF left, running
  <2>1. least \in Nat \ {0} /\ \A x \in left : least <= x
    <3>1. left \in SUBSET Nat
      BY <1>5
    <3>2. least \in left /\ \A x \in left : least <= x
      BY <1>7, <3>1, LeastFacts
    <3>3. QED BY <1>5, <3>2
  <2> HIDE DEF least
  <2>2. both \in SUBSET Nat /\ both # {}
    BY <1>1, <2>1
  <2>3. /\ Market!Min(both) \in Nat /\ Market!Min(both) <= CycleLength
        /\ Market!Min(both) <= least + DeadlineGrace
    <3>1. Market!Min(both) \in both /\ \A x \in both : Market!Min(both) <= x
      BY <2>2, LeastFacts
    <3>2. CycleLength \in both /\ least + DeadlineGrace \in both
      OBVIOUS
    <3> HIDE DEF both
    <3>3. QED BY <2>2, <3>1, <3>2
  <2> HIDE DEF both
  <2>4. Market!CycleDeadline(chosen) = s1 + Market!Min(both)
    BY <1>4, <1>7, <2>1
  <2>5. ASSUME NEW m \in chosen, m \in Market!InPhase("CURRENT_IN_WINDOW")
        PROVE  Market!CycleDeadline(chosen) <= Market!CloseOf(m) + DeadlineGrace
    <3>1. least <= Market!CloseOf(m) - s1 /\ Market!CloseOf(m) \in Nat
      <4>1. Market!CloseOf(m) - s1 \in left
        BY <1>3, <1>5, <2>5
      <4>2. Market!CloseOf(m) \in Nat
        BY Schedule, MarketConstants
      <4>3. QED BY <2>1, <4>1, <4>2
    <3>2. QED BY <1>1, <2>1, <2>3, <2>4, <3>1
  <2>6. QED BY <1>1, <2>3, <2>4, <2>5
<1>8. QED BY <1>6, <1>7

\* Of one market's status what the discovery writes down is its phase then.
LEMMA ListFacts ==
    ASSUME Market!MarketTypeOK, NEW answered \in BOOLEAN, Market!ListMarkets(answered)
    PROVE  /\ s3 \in {"open", "unopened", "settled"} /\ s3' = Market!NextQuery(s3)
           /\ s6' = (s6 /\ answered /\ s1 = s4)
           /\ UNCHANGED <<s1, s4, s7, s8, s9, s10, s11, s12, s13>>
           /\ DOMAIN s5' \subseteq Markets
           /\ \A m \in DOMAIN s5 : m \in DOMAIN s5' /\ s5'[m] = s5[m]
           /\ \A m \in DOMAIN s5' \ DOMAIN s5 :
                 /\ m \in Market!Listed(s3)
                 /\ s5'[m].phase = Market!ClassifyMarket(m, Market!Status(m), s4)
           /\ answered => \A m \in Market!Listed(s3) : m \in DOMAIN s5'
<1> DEFINE new == IF answered THEN Market!Listed(s3) \ DOMAIN s5 ELSE {}
           more == [m \in new |-> [phase |-> Market!ClassifyMarket(m, Market!Status(m), s4),
                                   status |-> Market!Status(m), priced |-> m \in s2]]
<1>1. s5' = Market!Updated(s5, more)
  BY DEF Market!ListMarkets
<1>2. s5' = [m \in DOMAIN s5 \cup new |-> IF m \in new THEN more[m] ELSE s5[m]]
  <2>1. DOMAIN more = new
    OBVIOUS
  <2> HIDE DEF more, new
  <2>2. QED BY <1>1, <2>1 DEF Market!Updated
<1>3. /\ DOMAIN s5' = DOMAIN s5 \cup new
      /\ \A m \in DOMAIN s5 : m \notin new /\ s5'[m] = s5[m]
      /\ \A m \in new : s5'[m] = more[m]
  <2>1. \A m \in DOMAIN s5 : m \notin new
    OBVIOUS
  <2> HIDE DEF more, new
  <2>2. QED BY <1>2, <2>1
<1>4. \A m \in new : /\ m \in Market!Listed(s3)
                    /\ more[m].phase = Market!ClassifyMarket(m, Market!Status(m), s4)
  OBVIOUS
<1>5. answered => \A m \in Market!Listed(s3) : m \in DOMAIN s5 \cup new
  OBVIOUS
<1>6. DOMAIN s5' \subseteq Markets
  BY <1>3, <1>4 DEF Market!MarketTypeOK, Market!Listed
<1>7. /\ s3 \in {"open", "unopened", "settled"} /\ s3' = Market!NextQuery(s3)
      /\ s6' = (s6 /\ answered /\ s1 = s4)
      /\ UNCHANGED <<s1, s4, s7, s8, s9, s10, s11, s12, s13>>
  BY DEF Market!ListMarkets, Market!env, Market!memory
<1> HIDE DEF new, more
<1>8. QED BY <1>3, <1>4, <1>5, <1>6, <1>7

LEMMA MarketList ==
    ASSUME Market!MarketInv, NEW answered \in BOOLEAN, Market!ListMarkets(answered)
    PROVE  Market!MarketInv'
<1> USE DEF Market!MarketInv
<1>1. /\ s3 \in {"open", "unopened", "settled"} /\ s3' = Market!NextQuery(s3)
      /\ s6' = (s6 /\ answered /\ s1 = s4)
      /\ UNCHANGED <<s1, s4, s7, s8, s9, s10, s11, s12, s13>>
      /\ DOMAIN s5' \subseteq Markets
      /\ \A m \in DOMAIN s5 : m \in DOMAIN s5' /\ s5'[m] = s5[m]
      /\ \A m \in DOMAIN s5' \ DOMAIN s5 :
            /\ m \in Market!Listed(s3)
            /\ s5'[m].phase = Market!ClassifyMarket(m, Market!Status(m), s4)
      /\ answered => \A m \in Market!Listed(s3) : m \in DOMAIN s5'
  BY ListFacts
<1>2. \/ s3 = "open" /\ s3' = "unopened"
      \/ s3 = "unopened" /\ s3' = "settled"
      \/ s3 = "settled" /\ s3' = "choose"
  BY <1>1 DEF Market!NextQuery
<1>3. Market!MarketTypeOK'
  BY <1>1, <1>2 DEF Market!MarketTypeOK
<1>4. Market!CycleIsCapped' /\ Market!StartIsCached'
  BY <1>1, <1>2 DEF Market!CycleIsCapped, Market!StartIsCached
<1>5. ASSUME s6' PROVE Market!DiscoveredAsOfStart'
  <2>1. s6 /\ answered /\ s1 = s4 /\ s1 \in Nat
    BY <1>1, <1>5 DEF Market!MarketTypeOK
  <2>2. \A m \in Markets : Market!Status(m) = Market!StatusAt(m, s4)
    BY <2>1 DEF Market!Status
  <2>3. ASSUME NEW m \in DOMAIN s5'
        PROVE  s5'[m].phase = Market!ClassifyMarket(m, Market!StatusAt(m, s4), s4)
    <3>1. CASE m \in DOMAIN s5
      <4>1. s5[m].phase = Market!ClassifyMarket(m, Market!StatusAt(m, s4), s4)
        BY <1>2, <2>1, <3>1 DEF Market!DiscoveredAsOfStart
      <4>2. QED BY <1>1, <3>1, <4>1
    <3>2. CASE m \notin DOMAIN s5
      BY <1>1, <2>2, <3>2
    <3>3. QED BY <3>1, <3>2
  <2>4. ASSUME NEW m \in Markets, Market!StatusAt(m, s4) = "active"
        PROVE  m \in DOMAIN s5'
    <3>1. CASE s3 = "open"
      <4>1. m \in Market!Listed(s3)
        BY <2>2, <2>4, <3>1 DEF Market!Listed
      <4>2. QED BY <1>1, <2>1, <4>1
    <3>2. CASE s3 # "open"
      <4>1. m \in DOMAIN s5
        BY <1>2, <2>1, <2>4, <3>2 DEF Market!DiscoveredAsOfStart
      <4>2. QED BY <1>1, <4>1
    <3>3. QED BY <3>1, <3>2
  <2>5. ASSUME NEW m \in Markets, Market!StatusAt(m, s4) = "initialized", s3 # "open"
        PROVE  m \in DOMAIN s5'
    <3>1. CASE s3 = "unopened"
      <4>1. m \in Market!Listed(s3)
        BY <2>2, <2>5, <3>1 DEF Market!Listed
      <4>2. QED BY <1>1, <2>1, <4>1
    <3>2. CASE s3 = "settled"
      <4>1. m \in DOMAIN s5
        BY <2>1, <2>5, <3>2 DEF Market!DiscoveredAsOfStart
      <4>2. QED BY <1>1, <4>1
    <3>3. QED BY <1>2, <2>5, <3>1, <3>2
  <2>6. Market!DiscoveredAsOfStart'
    <3>1. s4' = s4 /\ s4 <= s1' /\ (s3' \in {"settled", "choose"} => s3 # "open")
      BY <1>1, <1>2, <2>1
    <3>2. QED BY <2>3, <2>4, <2>5, <3>1 DEF Market!DiscoveredAsOfStart
  <2>7. QED BY <2>6
<1>6. QED BY <1>3, <1>4, <1>5 DEF Market!DiscoveredAsOfStart

LEMMA MarketChoose ==
    ASSUME Market!MarketInv, Market!Choose
    PROVE  Market!MarketInv'
<1> USE DEF Market!MarketInv
<1>1. /\ s3 = "choose" /\ s3' \in {"rest", "loop"}
      /\ s7' = Market!SelectCollectionTargets
      /\ s5' = [m \in s7' |-> s5[m]]
      /\ s8' = Market!CycleDeadline(s7')
      /\ s6' = (s6 /\ s1 = s4)
      /\ UNCHANGED <<s1, s4, s12, s13>>
  BY DEF Market!Choose, Market!env, Market!memory
<1>2. s7' \subseteq DOMAIN s5 /\ s7' \subseteq Markets
  BY <1>1 DEF Market!SelectCollectionTargets, Market!MarketTypeOK
<1>3. Market!MarketTypeOK'
  BY <1>1, <1>2 DEF Market!MarketTypeOK
<1>4. Market!DiscoveredAsOfStart' /\ Market!StartIsCached'
  BY <1>1 DEF Market!DiscoveredAsOfStart, Market!StartIsCached
<1>5. ASSUME s6' PROVE Market!CycleIsCapped'
  <2>1. s6 /\ s1 = s4 /\ s1 \in Nat
    BY <1>1, <1>5 DEF Market!MarketTypeOK
  <2>2. \A m \in DOMAIN s5 :
            /\ m \in Markets
            /\ s5[m].phase = Market!ClassifyMarket(m, Market!StatusAt(m, s1), s1)
    BY <1>1, <2>1 DEF Market!DiscoveredAsOfStart, Market!MarketTypeOK
  <2>3. \A m \in DOMAIN s5 :
            /\ s5[m].phase = "CURRENT_IN_WINDOW" <=> Market!StatusAt(m, s1) = "active"
            /\ s5[m].phase = "UPCOMING" <=> Market!StatusAt(m, s1) = "initialized"
    BY <2>1, <2>2, PhaseFacts
  <2>4. \A m \in Market!InPhase("CURRENT_IN_WINDOW") :
            m \in Markets /\ Market!StatusAt(m, s1) = "active"
    BY <2>2, <2>3 DEF Market!InPhase
  <2>5. /\ s8' \in Nat /\ s8' <= s1 + CycleLength
        /\ \A m \in s7' : m \in Market!InPhase("CURRENT_IN_WINDOW") =>
              s8' <= Market!CloseOf(m) + DeadlineGrace
    BY <1>1, <1>2, <2>4, DeadlineFacts
  <2>6. ASSUME NEW n \in Markets, Market!StatusAt(n, s1) = "active"
        PROVE  /\ s8' <= Market!CloseOf(n) + DeadlineGrace
               /\ \E k \in s7' : k <= n /\ Market!StatusAt(k, s1) = "active"
    <3>0. PICK m \in Markets : /\ m <= n /\ Market!StatusAt(m, s1) = "active"
                              /\ Market!CloseOf(m) <= Market!CloseOf(n)
                              /\ \A k \in Markets :
                                    Market!StatusAt(k, s1) = "active" => m <= k
      BY <2>1, <2>6, FirstActive
    <3>1. m \in DOMAIN s5
      BY <1>1, <2>1, <3>0 DEF Market!DiscoveredAsOfStart
    <3>2. s5[m].phase = "CURRENT_IN_WINDOW"
      BY <2>3, <3>0, <3>1
    <3>3. ASSUME NEW k \in DOMAIN s5, Market!Precedes(k, m) PROVE FALSE
      <4>1. k \in Markets /\ k \in Nat /\ m \in Nat
        BY <2>2, MarketConstants
      <4>2. s5[k].phase = "CURRENT_IN_WINDOW" /\ k < m
        <5>1. s5[k].phase \in {"CURRENT_IN_WINDOW", "UPCOMING", "CLOSED_PENDING_SETTLE",
                               "SETTLED"}
          BY <2>2 DEF Market!ClassifyMarket, Market!StatusAt
        <5>2. QED BY <3>2, <3>3, <5>1 DEF Market!Precedes, Market!Rank
      <4>3. m <= k
        BY <2>3, <3>0, <4>1, <4>2
      <4>4. QED BY <4>1, <4>2, <4>3
    <3>4. m \in s7'
      BY <1>1, <3>1, <3>2, <3>3, FirstIsChosen
    <3>5. s8' <= Market!CloseOf(m) + DeadlineGrace
      BY <2>5, <3>1, <3>2, <3>4 DEF Market!InPhase
    <3>6. /\ Market!CloseOf(m) \in Nat /\ Market!CloseOf(n) \in Nat
          /\ DeadlineGrace \in Nat /\ s8' \in Nat
      BY <2>5, Schedule, MarketConstants
    <3>7. s8' <= Market!CloseOf(n) + DeadlineGrace
      BY <3>0, <3>5, <3>6
    <3>8. QED BY <3>0, <3>4, <3>7
  <2>7. ASSUME s1 < Lead - Early PROVE 1 \in s7'
    <3>1. \A m \in Markets : Market!StatusAt(m, s1) = "initialized"
      <4>1. ASSUME NEW m \in Markets PROVE s1 < Market!OpenOf(m) - Early
        BY <2>1, <2>7, Schedule, MarketConstants
      <4>2. QED BY <2>1, <4>1, RunningAt
    <3>2. 1 \in DOMAIN s5
      BY <1>1, <2>1, <3>1, MarketConstants DEF Market!DiscoveredAsOfStart
    <3>3. \A m \in DOMAIN s5 : s5[m].phase = "UPCOMING"
      BY <2>2, <2>3, <3>1
    <3>4. ASSUME NEW k \in DOMAIN s5, Market!Precedes(k, 1) PROVE FALSE
      <4>1. k \in Nat \ {0}
        BY <2>2, MarketConstants
      <4>2. QED BY <3>2, <3>3, <3>4, <4>1 DEF Market!Precedes, Market!Rank
    <3>5. QED BY <1>1, <3>2, <3>3, <3>4, FirstIsChosen
  <2>8. QED BY <1>1, <2>1, <2>5, <2>6, <2>7 DEF Market!CycleIsCapped
<1>6. QED BY <1>3, <1>4, <1>5 DEF Market!CycleIsCapped

\* An iteration keeps what it has, but for the venue's own price.
LEMMA IterateFacts ==
    ASSUME Market!StartIsCached, NEW fed, NEW got, Market!Iterate(fed, got)
    PROVE  /\ Market!StartIsCached'
           /\ DOMAIN s13 \subseteq DOMAIN s13'
           /\ \A m \in DOMAIN s13 :
                 s13[m] # Market!NoReference /\ s13'[m] # s13[m] =>
                     s13'[m].method = "explicit"
           /\ UNCHANGED <<s1, s2, s3, s4, s5, s6, s7, s8>>
<1> DEFINE spots == Market!Ingest(s10, "spot" \in fed)
           perps == Market!Ingest(s11, "perp" \in fed)
           reference == [m \in got |-> Market!Resolve(m, spots, perps)]
           kept == {m \in got : reference[m] # Market!NoReference}
           keptOnes == [m \in kept |-> reference[m]]
<1>1. /\ s12' = Market!Updated(s12, keptOnes)
      /\ s13' = Market!Updated(s13, reference)
      /\ UNCHANGED <<s1, s2, s3, s4, s5, s6, s7, s8>>
  BY DEF Market!Iterate, Market!env
<1>2. /\ DOMAIN reference = got /\ DOMAIN keptOnes = kept
      /\ \A m \in got : reference[m] = Market!Resolve(m, spots, perps)
      /\ \A m \in kept : m \in got /\ keptOnes[m] = reference[m]
      /\ \A m \in got : reference[m] # Market!NoReference => m \in kept
  OBVIOUS
<1> HIDE DEF reference, kept, keptOnes, spots, perps
<1>3. /\ DOMAIN s12' = DOMAIN s12 \cup kept /\ DOMAIN s13' = DOMAIN s13 \cup got
      /\ \A m \in kept : s12'[m] = reference[m]
      /\ \A m \in DOMAIN s12 \ kept : s12'[m] = s12[m]
      /\ \A m \in got : s13'[m] = reference[m]
      /\ \A m \in DOMAIN s13 \ got : s13'[m] = s13[m]
  BY <1>1, <1>2 DEF Market!Updated
<1>4. Market!StartIsCached'
  <2>1. ASSUME NEW m \in DOMAIN s13', s13'[m] # Market!NoReference
        PROVE  m \in DOMAIN s12' /\ s12'[m] = s13'[m]
    <3>1. CASE m \in got
      BY <1>2, <1>3, <2>1, <3>1
    <3>2. CASE m \notin got
      BY <1>2, <1>3, <2>1, <3>2 DEF Market!StartIsCached
    <3>3. QED BY <3>1, <3>2
  <2>2. QED BY <2>1 DEF Market!StartIsCached
<1>5. ASSUME NEW m \in DOMAIN s13, s13[m] # Market!NoReference, s13'[m] # s13[m]
      PROVE  s13'[m].method = "explicit"
  <2>1. m \in DOMAIN s12 /\ s12[m] = s13[m]
    BY <1>5 DEF Market!StartIsCached
  <2>2. m \in got /\ s13'[m] = Market!Resolve(m, spots, perps)
    BY <1>2, <1>3, <1>5
  <2>3. QED BY <1>5, <2>1, <2>2 DEF Market!Resolve
<1>6. QED BY <1>1, <1>3, <1>4, <1>5

LEMMA MarketInit == Market!Init => Market!MarketInv
<1> SUFFICES ASSUME Market!Init PROVE Market!MarketInv
  OBVIOUS
<1>1. DOMAIN s5 = {} /\ DOMAIN s13 = {}
  BY DEF Market!Init, Market!NoMarkets
<1>2. s1 \in Nat
  BY MarketConstants DEF Market!Init
<1>3. QED BY <1>1, <1>2 DEF Market!Init, Market!MarketInv, Market!MarketTypeOK,
               Market!DiscoveredAsOfStart, Market!CycleIsCapped, Market!StartIsCached

LEMMA MarketStep ==
    ASSUME Market!MarketInv, [Market!Next]_(Market!vars)
    PROVE  Market!MarketInv' /\ Market!ReferenceIsKept
<1> USE DEF Market!MarketInv
<1>1. CASE Market!StartCycle
  <2>1. /\ s3' = "open" /\ s4' = s1 /\ s1 \in Nat /\ s6' = TRUE /\ DOMAIN s5' = {}
        /\ UNCHANGED <<s1, s7, s8, s12, s13>>
    BY <1>1 DEF Market!StartCycle, Market!NoMarkets, Market!env, Market!memory,
                Market!MarketTypeOK
  <2>2. QED BY <2>1 DEF Market!MarketTypeOK, Market!DiscoveredAsOfStart,
               Market!CycleIsCapped, Market!StartIsCached, Market!ReferenceIsKept
<1>2. ASSUME NEW answered \in BOOLEAN, Market!ListMarkets(answered)
      PROVE  Market!MarketInv' /\ Market!ReferenceIsKept
  BY <1>2, MarketList, ListFacts DEF Market!ReferenceIsKept
<1>3. CASE Market!Choose
  BY <1>3, MarketChoose DEF Market!Choose, Market!memory, Market!ReferenceIsKept
<1>4. ASSUME NEW fed, NEW got, Market!Iterate(fed, got)
      PROVE  Market!MarketInv' /\ Market!ReferenceIsKept
  BY <1>4, IterateFacts DEF Market!MarketTypeOK, Market!DiscoveredAsOfStart,
                            Market!CycleIsCapped, Market!ReferenceIsKept
<1>5. CASE Market!LeaveLoop
  <2>1. /\ s3' = "rest" /\ s4' = 0 /\ s6' = FALSE /\ DOMAIN s5' = {} /\ s7' = {}
        /\ UNCHANGED <<s1, s12, s13>>
    BY <1>5 DEF Market!LeaveLoop, Market!NoMarkets, Market!env, Market!memory
  <2>2. QED BY <2>1 DEF Market!MarketTypeOK, Market!DiscoveredAsOfStart,
               Market!CycleIsCapped, Market!StartIsCached, Market!ReferenceIsKept
<1>6. CASE Market!Tick
  <2>1. s1' = s1 + 1 /\ UNCHANGED <<s3, s4, s5, s6, s7, s8, s12, s13>>
    BY <1>6 DEF Market!Tick, Market!cycle, Market!memory
  <2>2. s1 \in Nat /\ s4 \in Nat /\ s1' \in Nat /\ (s4 <= s1 => s4 <= s1')
    BY <2>1 DEF Market!MarketTypeOK
  <2>3. QED BY <2>1, <2>2 DEF Market!MarketTypeOK, Market!DiscoveredAsOfStart,
               Market!CycleIsCapped, Market!StartIsCached, Market!ReferenceIsKept
<1>7. ASSUME NEW m \in Markets, Market!PublishPrice(m)
      PROVE  Market!MarketInv' /\ Market!ReferenceIsKept
  BY <1>7 DEF Market!PublishPrice, Market!cycle, Market!memory, Market!MarketTypeOK,
              Market!DiscoveredAsOfStart, Market!CycleIsCapped, Market!StartIsCached,
              Market!ReferenceIsKept
<1>8. CASE UNCHANGED Market!vars
  BY <1>8 DEF Market!vars, Market!MarketTypeOK, Market!DiscoveredAsOfStart,
              Market!CycleIsCapped, Market!StartIsCached, Market!ReferenceIsKept
<1>9. QED BY <1>1, <1>2, <1>3, <1>4, <1>5, <1>6, <1>7, <1>8 DEF Market!Next

\* A cycle does not go on past the window it was chosen for: while it would, the
\* market that is running was active when the discovery began, or follows on
\* one that was, or is the very first, or would begin too late for it.
LEMMA CyclesFollowTheWindow == Market!MarketInv => Market!FollowsTheWindow
<1> SUFFICES ASSUME Market!MarketInv, s6, s3 = "loop", s1 < s8, NEW m \in Markets,
                    Market!OpenOf(m) <= s1, s1 < Market!CloseOf(m), m \notin s7
             PROVE  s1 - Market!OpenOf(m) < DeadlineGrace
  BY DEF Market!FollowsTheWindow
<1> USE DEF Market!MarketInv
<1>1. /\ s4 \in Nat /\ s1 \in Nat /\ s4 <= s1 /\ s8 \in Nat /\ s8 <= s4 + CycleLength
      /\ s7 \subseteq Markets
      /\ \A k \in Markets : Market!StatusAt(k, s4) = "active" =>
            /\ s8 <= Market!CloseOf(k) + DeadlineGrace
            /\ \E n \in s7 : n <= k /\ Market!StatusAt(n, s4) = "active"
      /\ s4 < Lead - Early => 1 \in s7
  BY DEF Market!CycleIsCapped, Market!MarketTypeOK
<1>2. /\ Market!OpenOf(m) \in Nat /\ Market!CloseOf(m) \in Nat
      /\ Length \in Nat /\ Early \in Nat /\ CycleLength \in Nat /\ Lead \in Nat
      /\ DeadlineGrace \in Nat /\ CycleLength <= Length + DeadlineGrace
  BY Schedule, MarketConstants
<1>3. CASE Market!StatusAt(m, s4) = "active"
  <2>1. PICK n \in s7 : n <= m /\ Market!StatusAt(n, s4) = "active"
    BY <1>1, <1>3
  <2>2. n \in Markets /\ n \in Nat /\ m \in Nat /\ n < m
    BY <1>1, <2>1, MarketConstants
  <2>3. s8 <= Market!CloseOf(n) + DeadlineGrace /\ Market!CloseOf(n) <= Market!OpenOf(m)
    BY <1>1, <2>1, <2>2, LaterMarkets
  <2>4. Market!CloseOf(n) \in Nat
    BY <2>2, Schedule, MarketConstants
  <2>5. QED BY <1>1, <1>2, <2>3, <2>4
<1>4. CASE Market!StatusAt(m, s4) # "active"
  <2>1. s4 < Market!OpenOf(m) - Early
    BY <1>1, <1>2, <1>4, RunningAt
  <2>2. m # 1
    BY <1>1, <2>1, Schedule
  <2> DEFINE k == m - 1
  <2>3. k \in Markets /\ Market!CloseOf(k) = Market!OpenOf(m)
    BY <2>2, MarketConstants, Schedule
  <2> HIDE DEF k
  <2>4. Market!OpenOf(k) \in Nat /\ Market!CloseOf(k) = Market!OpenOf(k) + Length
    BY <2>3, Schedule
  <2>5. CASE Market!OpenOf(k) - Early <= s4
    <3>1. Market!StatusAt(k, s4) = "active"
      BY <1>1, <1>2, <2>1, <2>3, <2>4, <2>5, RunningAt
    <3>2. s8 <= Market!OpenOf(m) + DeadlineGrace
      BY <1>1, <2>3, <3>1
    <3>3. QED BY <1>1, <1>2, <3>2
  <2>6. CASE s4 < Market!OpenOf(k) - Early
    BY <1>1, <1>2, <2>3, <2>4, <2>6
  <2>7. QED BY <1>1, <1>2, <2>4, <2>5, <2>6
<1>5. QED BY <1>3, <1>4

\* A market is scored while it is running only.
LEMMA ScoresInTheWindow == Market!MarketInv => Market!ScoredInWindow
<1> SUFFICES ASSUME Market!MarketInv, NEW m \in s7, Market!SkipReason(m) = "none"
             PROVE  Market!OpenOf(m) <= s1 /\ s1 < Market!CloseOf(m)
  BY DEF Market!ScoredInWindow
<1>1. m \in Markets /\ s1 \in Nat
  BY DEF Market!MarketInv, Market!MarketTypeOK
<1>2. /\ Market!OpenOf(m) \in Nat /\ Length \in Nat
      /\ Market!CloseOf(m) = Market!OpenOf(m) + Length
  BY <1>1, Schedule, MarketConstants
<1>3. ~(Market!CloseOf(m) - s1 <= 0) /\ ~(Market!CloseOf(m) - s1 > Length)
  BY DEF Market!SkipReason
<1>4. QED BY <1>1, <1>2, <1>3

-----------------------------------------------------------------------------
(* The record of public trades (TradePrints): s1 is the clock, s2 the tape, *)
(* s3 the watermark, s4 what the poller remembers, s5 the disk, s6 the      *)
(* backfill, s7 what was cut off.                                           *)

LEMMA PrintsConstants ==
    /\ BackOff \in Nat /\ Late \in Nat /\ Late <= BackOff
    /\ PageCap \in Nat /\ SeenCap \in Nat /\ Chunk \in Nat \ {0}
BY RecordersAssumption DEF Prints!PrintsAssumption

LEMMA TapeFacts ==
    ASSUME Prints!PrintsTypeOK
    PROVE  /\ Len(s2) \in Nat /\ DOMAIN s2 = 1..Len(s2)
           /\ \A i \in DOMAIN s2 : /\ s2[i].at \in Nat /\ s2[i].at <= s1
                                 /\ s2[i].own \in BOOLEAN
<1> DEFINE Event == [at : Nat, own : BOOLEAN]
<1>1. s2 \in Seq(Event) /\ \A i \in DOMAIN s2 : s2[i].at <= s1
  BY DEF Prints!PrintsTypeOK
<1>2. Len(s2) \in Nat /\ DOMAIN s2 = 1..Len(s2)
  BY <1>1
<1> HIDE DEF Event
<1>3. \A i \in 1..Len(s2) : s2[i] \in Event
  BY <1>1, ElementOfSeq
<1>4. QED BY <1>1, <1>2, <1>3 DEF Event

\* The poller's maximum is one, of what is bounded.
LEMMA MaxOfFacts ==
    ASSUME NEW k \in Nat, NEW S \in SUBSET (0..k), NEW least \in 0..k
    PROVE  LET top == Prints!MaxOf(S, least)
           IN  /\ top \in S \cup {least}
               /\ \A x \in S \cup {least} : x <= top
<1> DEFINE All == S \cup {least}
           T == {k - x : x \in All}
<1>1. T \in SUBSET Nat /\ T # {} /\ All \subseteq 0..k
  <2>1. \A x \in All : k - x \in Nat
    OBVIOUS
  <2>2. k - least \in T
    OBVIOUS
  <2>3. QED BY <2>1, <2>2
<1>2. PICK t \in T : \A y \in T : t <= y
  BY <1>1, LeastNatural
<1>3. PICK m \in All : t = k - m
  BY <1>2
<1>4. ASSUME NEW x \in All PROVE m >= x
  <2>1. k - m <= k - x
    BY <1>2, <1>3
  <2>2. QED BY <1>1, <2>1
<1>5. \E x \in All : \A y \in All : x >= y
  BY <1>4
<1> HIDE DEF All
<1>6. LET top == CHOOSE x \in All : \A y \in All : x >= y
      IN  top \in All /\ \A y \in All : top >= y
  BY <1>5
<1>7. QED BY <1>1, <1>6 DEF Prints!MaxOf, All

\* The watermark moves up at most, and stays behind.
LEMMA AdvanceFacts ==
    ASSUME Prints!PrintsTypeOK, Prints!WatermarkTrails,
           NEW ids \in SUBSET (DOMAIN s2)
    PROVE  /\ Prints!Advance(ids) \in Nat
           /\ s3 <= Prints!Advance(ids) /\ s3 <= s1
           /\ Prints!Advance(ids) = 0 \/ Prints!Advance(ids) + BackOff <= s1
<1> DEFINE times == {s2[i].at : i \in ids}
           top == Prints!MaxOf(times, s3)
<1>1. s1 \in Nat /\ s3 \in Nat /\ s3 <= s1 /\ BackOff \in Nat
  BY PrintsConstants DEF Prints!PrintsTypeOK, Prints!WatermarkTrails
<1>2. times \in SUBSET (0..s1)
  <2>1. \A i \in DOMAIN s2 : s2[i].at \in Nat /\ s2[i].at <= s1
    BY TapeFacts
  <2>2. QED BY <1>1, <2>1
<1> HIDE DEF times
<1>3. top \in 0..s1 /\ s3 <= top
  <2>1. s3 \in 0..s1
    BY <1>1
  <2>2. top \in times \cup {s3} /\ \A x \in times \cup {s3} : x <= top
    BY <1>1, <1>2, <2>1, MaxOfFacts
  <2>3. QED BY <1>2, <2>1, <2>2
<1> HIDE DEF top
<1>4. Prints!Advance(ids)
        = IF top = 0 THEN s3 ELSE Prints!MaxOf({top - BackOff}, s3)
  BY DEF Prints!Advance, top, times
<1>5. CASE top = 0
  BY <1>1, <1>4, <1>5 DEF Prints!WatermarkTrails
<1>6. CASE top # 0
  <2> DEFINE x == Prints!MaxOf({top - BackOff}, s3)
  <2>1. x = IF top - BackOff >= s3 THEN top - BackOff ELSE s3
    <3>1. CASE top - BackOff >= s3
      <4>1. ASSUME NEW y \in {top - BackOff} \cup {s3},
                   \A z \in {top - BackOff} \cup {s3} : y >= z
            PROVE  y = top - BackOff
        BY <1>1, <1>3, <3>1, <4>1
      <4>2. \A z \in {top - BackOff} \cup {s3} : top - BackOff >= z
        BY <1>1, <1>3, <3>1
      <4>3. QED BY <3>1, <4>1, <4>2 DEF Prints!MaxOf
    <3>2. CASE ~(top - BackOff >= s3)
      <4>1. ASSUME NEW y \in {top - BackOff} \cup {s3},
                   \A z \in {top - BackOff} \cup {s3} : y >= z
            PROVE  y = s3
        BY <1>1, <1>3, <3>2, <4>1
      <4>2. \A z \in {top - BackOff} \cup {s3} : s3 >= z
        BY <1>1, <1>3, <3>2
      <4>3. QED BY <3>2, <4>1, <4>2 DEF Prints!MaxOf
    <3>3. QED BY <3>1, <3>2
  <2> HIDE DEF x
  <2>2. Prints!Advance(ids) = x
    BY <1>4, <1>6 DEF x
  <2>3. QED BY <1>1, <1>3, <2>1, <2>2 DEF Prints!WatermarkTrails
<1>7. QED BY <1>5, <1>6

\* An answer that is not full holds everything that was asked for.
LEMMA WholeAnswer ==
    ASSUME Prints!PrintsTypeOK, NEW low \in Nat, NEW high \in Nat,
           NEW page \in Prints!Answers(Prints!Between(low, high), PageCap)
    PROVE  /\ page \subseteq Prints!Between(low, high)
           /\ page \subseteq DOMAIN s2
           /\ ~Prints!Full(page) => page = Prints!Between(low, high)
<1> DEFINE ids == Prints!Between(low, high)
<1>0. Prints!Cardinality(page) = Cardinality(page)
      /\ Prints!Cardinality(ids) = Cardinality(ids)
  BY DEF Prints!Cardinality, Cardinality
<1>1. /\ page \in SUBSET ids
      /\ Prints!Cardinality(page)
            = IF Prints!Cardinality(ids) < PageCap THEN Prints!Cardinality(ids) ELSE PageCap
  BY DEF Prints!Answers
<1>2. ids \subseteq DOMAIN s2
  BY DEF Prints!Between
<1>3. IsFiniteSet(ids)
  <2>1. Len(s2) \in Nat /\ DOMAIN s2 = 1..Len(s2)
    BY DEF Prints!PrintsTypeOK
  <2>2. IsFiniteSet(1..Len(s2))
    BY <2>1, FS_Interval
  <2> HIDE DEF ids
  <2>3. QED BY <1>2, <2>1, <2>2, FS_Subset
<1> HIDE DEF ids
<1>4. ~Prints!Full(page) => Cardinality(page) = Cardinality(ids)
  <2>1. Cardinality(ids) \in Nat
    BY <1>3, FS_CardinalityType
  <2>2. QED BY <1>0, <1>1, <2>1, PrintsConstants DEF Prints!Full
<1>5. Cardinality(page) = Cardinality(ids) => page = ids
  BY <1>1, <1>3, FS_Subset
<1>6. QED BY <1>1, <1>2, <1>4, <1>5 DEF ids

\* What the poller remembers after an answer it knew or it has just recorded.
LEMMA RememberedFacts ==
    ASSUME Prints!PrintsTypeOK, NEW new \in SUBSET (DOMAIN s2),
           NEW list \in Prints!Listed(new)
    PROVE  LET known == Prints!LastOf(s4 \o list, SeenCap)
           IN  /\ known \in Seq(DOMAIN s2)
               /\ \A k \in DOMAIN known :
                     known[k] \in new \/ \E n \in DOMAIN s4 : known[k] = s4[n]
<1> DEFINE all == s4 \o list
           cap == SeenCap
<1>1. Prints!Cardinality(new) \in Nat
  <2>1. Prints!Cardinality(new) = Cardinality(new)
    BY DEF Prints!Cardinality, Cardinality
  <2>2. Len(s2) \in Nat /\ DOMAIN s2 = 1..Len(s2)
    BY DEF Prints!PrintsTypeOK
  <2>3. IsFiniteSet(1..Len(s2))
    BY <2>2, FS_Interval
  <2>4. IsFiniteSet(new)
    BY <2>2, <2>3, FS_Subset
  <2>5. QED BY <2>1, <2>4, FS_CardinalityType
<1>2. list \in Seq(new)
  BY <1>1 DEF Prints!Listed, Prints!SetToSeqs
<1>3. /\ list \in Seq(DOMAIN s2) /\ Len(list) \in Nat
      /\ \A k \in 1..Len(list) : list[k] \in new
  BY <1>2, ElementOfSeq
<1>4. s4 \in Seq(DOMAIN s2) /\ Len(s4) \in Nat /\ DOMAIN s4 = 1..Len(s4)
  BY DEF Prints!PrintsTypeOK
<1>5. /\ all \in Seq(DOMAIN s2) /\ Len(all) = Len(s4) + Len(list)
      /\ \A k \in 1..Len(all) : all[k] \in new \/ \E n \in DOMAIN s4 : all[k] = s4[n]
  <2>1. /\ all \in Seq(DOMAIN s2) /\ Len(all) = Len(s4) + Len(list)
        /\ \A k \in 1..Len(s4) + Len(list) :
              all[k] = IF k <= Len(s4) THEN s4[k] ELSE list[k - Len(s4)]
    BY <1>3, <1>4, ConcatProperties
  <2> HIDE DEF all
  <2>2. ASSUME NEW k \in 1..Len(all)
        PROVE  all[k] \in new \/ \E n \in DOMAIN s4 : all[k] = s4[n]
    <3>1. CASE k <= Len(s4)
      <4>1. k \in DOMAIN s4 /\ all[k] = s4[k]
        BY <1>3, <1>4, <2>1, <3>1
      <4>2. QED BY <4>1
    <3>2. CASE ~(k <= Len(s4))
      <4>1. k - Len(s4) \in 1..Len(list) /\ all[k] = list[k - Len(s4)]
        BY <1>3, <1>4, <2>1, <3>2
      <4>2. QED BY <1>3, <4>1
    <3>3. QED BY <3>1, <3>2
  <2>3. QED BY <2>1, <2>2
<1> HIDE DEF all
<1>6. Prints!LastOf(all, cap)
        = IF Len(all) > cap THEN SubSeq(all, Len(all) - cap + 1, Len(all)) ELSE all
  BY DEF Prints!LastOf
<1>7. Len(all) \in Nat /\ cap \in Nat /\ DOMAIN all = 1..Len(all)
  BY <1>3, <1>4, <1>5, PrintsConstants
<1> HIDE DEF cap
<1>8. CASE Len(all) > cap
  <2> DEFINE from == Len(all) - cap + 1
             known == SubSeq(all, from, Len(all))
  <2>1. from \in 1..Len(all) + 1
    BY <1>7, <1>8
  <2>2. \A i \in from..Len(all) : i \in 1..Len(all) /\ all[i] \in DOMAIN s2
    <3>1. \A i \in from..Len(all) : i \in 1..Len(all)
      BY <1>7, <2>1
    <3>2. QED BY <1>5, <3>1, ElementOfSeq
  <2>3. /\ known \in Seq(DOMAIN s2)
        /\ Len(known) = cap
        /\ \A i \in 1..cap : known[i] = all[from + i - 1]
    <3>1. /\ known \in Seq(DOMAIN s2)
          /\ Len(known) = IF from <= Len(all) THEN Len(all) - from + 1 ELSE 0
          /\ \A i \in 1..(Len(all) - from + 1) : known[i] = all[from + i - 1]
      <4>1. from \in Int /\ Len(all) \in Int
        BY <1>7
      <4>2. QED BY <2>2, <4>1, SubSeqProperties
    <3>2. Len(all) - from + 1 = cap /\ (from <= Len(all) <=> cap # 0)
      BY <1>7, <1>8
    <3>3. QED BY <3>1, <3>2, <1>7
  <2>4. DOMAIN known = 1..cap
    BY <2>3
  <2>5. \A i \in 1..cap : from + i - 1 \in 1..Len(all)
    BY <1>7, <1>8
  <2> HIDE DEF known, from
  <2>6. known = Prints!LastOf(all, cap)
    BY <1>6, <1>8 DEF known, from
  <2>7. \A k \in DOMAIN known :
            known[k] \in new \/ \E n \in DOMAIN s4 : known[k] = s4[n]
    BY <1>5, <2>3, <2>4, <2>5
  <2>8. QED BY <2>3, <2>6, <2>7 DEF all, cap
<1>9. CASE ~(Len(all) > cap)
  BY <1>5, <1>6, <1>7, <1>9 DEF all, cap
<1>10. QED BY <1>8, <1>9

LEMMA PrintsInit == Prints!Init => Prints!PrintsInv
<1> SUFFICES ASSUME Prints!Init PROVE Prints!PrintsInv
  OBVIOUS
<1>1. s2 = <<>> /\ s4 = <<>> /\ s1 = 0 /\ s3 = 0 /\ s5 = {} /\ s6 = Prints!NoFill
  BY DEF Prints!Init
<1>2. DOMAIN s2 = {} /\ DOMAIN s4 = {}
  BY <1>1
<1>3. Prints!PrintsTypeOK
  BY <1>1, <1>2 DEF Prints!PrintsTypeOK
<1>4. QED BY <1>1, <1>2, <1>3 DEF Prints!PrintsInv, Prints!WatermarkTrails,
      Prints!SeenIsKept, Prints!FillIsSound, Prints!NoFill, Prints!PassedOnlyIfKept,
      Prints!Own

\* A trade that is published late is not yet behind the watermark.
LEMMA PrintsTrade ==
    ASSUME Prints!PrintsInv, NEW late \in 0..Late, NEW own \in BOOLEAN, late <= s1,
           Prints!Trade(s1 - late, own)
    PROVE  Prints!PrintsInv'
<1> DEFINE Event == [at : Nat, own : BOOLEAN]
           e == [at |-> s1 - late, own |-> own]
<1>1. /\ s2' = Append(s2, e) /\ UNCHANGED <<s1, s3, s4, s5, s6, s7>>
  BY DEF Prints!Trade
<1>2. Prints!PrintsTypeOK /\ s2 \in Seq(Event) /\ s1 \in Nat /\ s3 \in Nat
  BY DEF Prints!PrintsInv, Prints!PrintsTypeOK
<1>3. late \in Nat /\ late <= BackOff /\ BackOff \in Nat
  BY PrintsConstants
<1>4. e \in Event /\ e.at = s1 - late /\ e.own = own
  BY <1>2, <1>3
<1> HIDE DEF e, Event
<1>5. /\ s2' \in Seq(Event) /\ Len(s2') = Len(s2) + 1 /\ Len(s2) \in Nat
      /\ \A i \in 1..Len(s2) : s2'[i] = s2[i]
      /\ s2'[Len(s2) + 1] = e
  BY <1>1, <1>2, <1>4, AppendFacts
<1>6. /\ DOMAIN s2 = 1..Len(s2) /\ DOMAIN s2' = 1..Len(s2) + 1
      /\ DOMAIN s2 \subseteq DOMAIN s2'
      /\ \A i \in DOMAIN s2' : i \notin DOMAIN s2 => s2'[i] = e
      /\ \A i \in DOMAIN s2 : s2'[i] = s2[i]
  <2>1. DOMAIN s2 = 1..Len(s2) /\ DOMAIN s2' = 1..Len(s2')
    BY <1>2, <1>5
  <2>2. \A i \in 1..Len(s2) + 1 : i \in 1..Len(s2) \/ i = Len(s2) + 1
    BY <1>5
  <2>3. QED BY <1>5, <2>1, <2>2
<1>7. s4 \in Seq(DOMAIN s2)
  BY DEF Prints!PrintsInv, Prints!PrintsTypeOK
<1>8. s4' \in Seq(DOMAIN s2')
  BY <1>1, <1>6, <1>7, SeqMonotonic
<1>9. \A i \in DOMAIN s2' : s2'[i].at <= s1'
  BY <1>1, <1>2, <1>3, <1>4, <1>6 DEF Prints!PrintsTypeOK
<1>10. s6' \in {Prints!NoFill} \cup
           [pc : {"running", "done"}, start : Nat, end : Nat, t : Nat,
            known : SUBSET (DOMAIN s2'), whole : BOOLEAN,
            before : SUBSET (DOMAIN s2')]
  BY <1>1, <1>2, <1>6 DEF Prints!PrintsTypeOK
<1>11. Prints!PrintsTypeOK'
  BY <1>1, <1>2, <1>5, <1>6, <1>8, <1>9, <1>10 DEF Prints!PrintsTypeOK, Event
<1>12. Prints!WatermarkTrails' /\ Prints!SeenIsKept'
  BY <1>1 DEF Prints!PrintsInv, Prints!WatermarkTrails, Prints!SeenIsKept
<1>13. Prints!PassedOnlyIfKept'
  <2>1. ASSUME NEW i \in DOMAIN s2', s2'[i].own, s2'[i].at < s3
        PROVE  i \in s5 \cup s7
    <3>1. ~(e.at < s3)
      BY <1>2, <1>3, <1>4 DEF Prints!PrintsInv, Prints!WatermarkTrails
    <3>2. i \in DOMAIN s2 /\ s2'[i] = s2[i]
      BY <1>6, <2>1, <3>1
    <3>3. QED BY <2>1, <3>2 DEF Prints!PrintsInv, Prints!PassedOnlyIfKept, Prints!Own
  <2>2. QED BY <1>1, <2>1 DEF Prints!PassedOnlyIfKept, Prints!Own
<1>14. Prints!FillIsSound'
  <2>1. s6.pc # "none" => s6.before \subseteq DOMAIN s2
    BY <1>2 DEF Prints!PrintsTypeOK, Prints!NoFill
  <2>2. s6.pc # "none" => \A i \in s6.before : s2'[i] = s2[i]
    BY <1>6, <2>1
  <2>3. QED BY <1>1, <2>2 DEF Prints!PrintsInv, Prints!FillIsSound
<1>15. QED BY <1>11, <1>12, <1>13, <1>14 DEF Prints!PrintsInv

\* What is passed over by a poll was in its answer or cut off it.
LEMMA PrintsPoll ==
    ASSUME Prints!PrintsInv, Prints!Poll
    PROVE  Prints!PrintsInv'
<1> USE DEF Prints!PrintsInv
<1>1. PICK page \in Prints!Answers(Prints!Between(s3, s1), PageCap) :
        LET new == Prints!Own(page) \ Prints!Range(s4)
        IN /\ s5' = s5 \cup new
           /\ s3' = Prints!Advance(new)
           /\ \E list \in Prints!Listed(new) : s4' = Prints!LastOf(s4 \o list, SeenCap)
           /\ s7' = s7 \cup (Prints!Own(Prints!Between(s3, s1)) \ page)
           /\ UNCHANGED <<s1, s2, s6>>
  BY DEF Prints!Poll
<1> DEFINE new == Prints!Own(page) \ Prints!Range(s4)
<1>2. s1 \in Nat /\ s3 \in Nat
  BY DEF Prints!PrintsTypeOK
<1>3. page \subseteq DOMAIN s2
  BY <1>2, WholeAnswer
<1>4. new \in SUBSET (DOMAIN s2) /\ \A i \in new : s2[i].own
  BY <1>3 DEF Prints!Own
<1>5. PICK list \in Prints!Listed(new) : s4' = Prints!LastOf(s4 \o list, SeenCap)
  BY <1>1
<1>6. \A i \in page : s2[i].own => i \in new \/ \E n \in DOMAIN s4 : i = s4[n]
  BY DEF Prints!Own, Prints!Range
<1>7. s5' = s5 \cup new /\ s3' = Prints!Advance(new) /\ UNCHANGED <<s1, s2, s6>>
      /\ s7' = s7 \cup (Prints!Own(Prints!Between(s3, s1)) \ page)
  BY <1>1
<1> HIDE DEF new
<1>8. /\ s3' \in Nat /\ s3 <= s3' /\ s3 <= s1
      /\ s3' = 0 \/ s3' + BackOff <= s1
  BY <1>4, <1>7, AdvanceFacts
<1>9. /\ s4' \in Seq(DOMAIN s2)
      /\ \A k \in DOMAIN s4' : s4'[k] \in new \/ \E n \in DOMAIN s4 : s4'[k] = s4[n]
  BY <1>4, <1>5, RememberedFacts
<1>10. Prints!PrintsTypeOK'
  BY <1>4, <1>7, <1>8, <1>9 DEF Prints!PrintsTypeOK
<1>11. Prints!WatermarkTrails'
  BY <1>7, <1>8 DEF Prints!WatermarkTrails
<1>12. Prints!SeenIsKept'
  BY <1>7, <1>9 DEF Prints!SeenIsKept
<1>13. Prints!FillIsSound'
  BY <1>7 DEF Prints!FillIsSound
<1>14. Prints!PassedOnlyIfKept'
  <2>1. ASSUME NEW i \in DOMAIN s2, s2[i].own, s2[i].at < s3'
        PROVE  i \in s5' \cup s7'
    <3>0. s2[i].at \in Nat /\ s2[i].at <= s1
      BY TapeFacts
    <3>1. CASE s2[i].at < s3
      BY <1>7, <2>1, <3>1 DEF Prints!PassedOnlyIfKept, Prints!Own
    <3>2. CASE ~(s2[i].at < s3)
      <4>1. i \in Prints!Between(s3, s1)
        BY <1>2, <3>0, <3>2 DEF Prints!Between
      <4>2. CASE i \in page
        BY <1>6, <1>7, <2>1, <4>2 DEF Prints!SeenIsKept
      <4>3. CASE i \notin page
        BY <1>7, <2>1, <4>1, <4>3 DEF Prints!Own
      <4>4. QED BY <4>2, <4>3
    <3>3. QED BY <3>1, <3>2
  <2>2. QED BY <1>7, <2>1 DEF Prints!PassedOnlyIfKept, Prints!Own
<1>15. QED BY <1>10, <1>11, <1>12, <1>13, <1>14

\* A chunk whose answer was not full leaves nothing of its time behind.
LEMMA PrintsChunk ==
    ASSUME Prints!PrintsInv, Prints!BackfillChunk
    PROVE  Prints!PrintsInv'
<1> USE DEF Prints!PrintsInv
<1>1. PICK page \in Prints!Answers(Prints!Between(s6.t, Prints!ChunkEnd), PageCap) :
          LET new == Prints!Own(page) \ s6.known
          IN /\ s5' = s5 \cup new
             /\ s6' = [s6 EXCEPT !.t = Prints!ChunkEnd, !.known = @ \cup new,
                                 !.whole = @ /\ ~Prints!Full(page)]
  BY DEF Prints!BackfillChunk
<1> DEFINE new == Prints!Own(page) \ s6.known
           Spans == [pc : {"running", "done"}, start : Nat, end : Nat, t : Nat,
                     known : SUBSET (DOMAIN s2), whole : BOOLEAN,
                     before : SUBSET (DOMAIN s2)]
<1>2. s6.pc = "running" /\ s6.t < s6.end /\ UNCHANGED <<s1, s2, s3, s4, s7>>
  BY DEF Prints!BackfillChunk
<1>3. s6 \in Spans
  BY <1>2 DEF Prints!PrintsTypeOK, Prints!NoFill
<1>4. s6.t \in Nat /\ s6.start \in Nat /\ s6.end \in Nat
  BY <1>3
<1>5. Prints!ChunkEnd \in Nat /\ s6.t < Prints!ChunkEnd
  BY <1>2, <1>4, PrintsConstants DEF Prints!ChunkEnd
<1>6. /\ page \subseteq DOMAIN s2
      /\ ~Prints!Full(page) => page = Prints!Between(s6.t, Prints!ChunkEnd)
  BY <1>4, <1>5, WholeAnswer
<1>7. new \in SUBSET (DOMAIN s2) /\ \A i \in page : s2[i].own => i \in s6.known \cup new
  BY <1>6 DEF Prints!Own
<1>8. s5' = s5 \cup new
      /\ s6' = [s6 EXCEPT !.t = Prints!ChunkEnd, !.known = @ \cup new,
                          !.whole = @ /\ ~Prints!Full(page)]
  BY <1>1
<1> HIDE DEF new
<1>9. /\ s6'.pc = "running" /\ s6'.start = s6.start /\ s6'.end = s6.end
      /\ s6'.t = Prints!ChunkEnd /\ s6'.before = s6.before
      /\ s6'.known = s6.known \cup new
      /\ s6'.whole = (s6.whole /\ ~Prints!Full(page))
  BY <1>2, <1>3, <1>8
<1>10. s6' \in Spans
  <2>1. Prints!Full(page) \in BOOLEAN
    BY DEF Prints!Full
  <2>2. s6.known \cup new \in SUBSET (DOMAIN s2)
    BY <1>3, <1>7
  <2>3. QED BY <1>3, <1>5, <1>8, <2>1, <2>2
<1>11. Prints!PrintsTypeOK'
  BY <1>2, <1>7, <1>8, <1>10 DEF Prints!PrintsTypeOK
<1>12. Prints!WatermarkTrails' /\ Prints!SeenIsKept' /\ Prints!PassedOnlyIfKept'
  BY <1>2, <1>8 DEF Prints!WatermarkTrails, Prints!SeenIsKept,
                    Prints!PassedOnlyIfKept, Prints!Own
<1>13. /\ s6.known \subseteq s5 /\ s6.start <= s6.t
       /\ \A i \in s6.before : /\ s2[i].own
                              /\ s6.start <= s2[i].at /\ s2[i].at <= s6.end
       /\ s6.whole /\ s6.start < s6.t =>
              \A i \in s6.before : s2[i].at <= s6.t => i \in s5
  BY <1>2 DEF Prints!FillIsSound
<1>14. ASSUME s6'.whole, NEW i \in s6.before, s2[i].at <= Prints!ChunkEnd
       PROVE  i \in s5'
  <2>1. i \in DOMAIN s2 /\ s2[i].at \in Nat /\ s2[i].own /\ s6.start <= s2[i].at
    BY <1>3, <1>13, TapeFacts
  <2>2. s6.whole /\ page = Prints!Between(s6.t, Prints!ChunkEnd)
    BY <1>6, <1>9, <1>14
  <2>3. CASE s2[i].at < s6.t
    BY <1>4, <1>8, <1>13, <2>1, <2>2, <2>3
  <2>4. CASE ~(s2[i].at < s6.t)
    <3>1. i \in page
      BY <1>4, <1>14, <2>1, <2>2, <2>4 DEF Prints!Between
    <3>2. QED BY <1>7, <1>8, <1>13, <2>1, <3>1
  <2>5. QED BY <2>3, <2>4
<1>15. Prints!FillIsSound'
  BY <1>2, <1>4, <1>5, <1>8, <1>9, <1>13, <1>14 DEF Prints!FillIsSound
<1>16. QED BY <1>11, <1>12, <1>15

LEMMA PrintsStep ==
    ASSUME Prints!PrintsInv, [Prints!Next]_(Prints!vars)
    PROVE  Prints!PrintsInv'
<1> USE DEF Prints!PrintsInv
<1>1. CASE Prints!Tick
  <2>1. s1' = s1 + 1 /\ s1 \in Nat /\ UNCHANGED <<s2, s3, s4, s5, s6, s7>>
    BY <1>1 DEF Prints!Tick, Prints!PrintsTypeOK
  <2>2. \A i \in DOMAIN s2 : s2[i].at <= s1 + 1
    BY <2>1, TapeFacts
  <2>3. Prints!PrintsTypeOK'
    BY <2>1, <2>2 DEF Prints!PrintsTypeOK
  <2>4. Prints!WatermarkTrails'
    <3>1. s3 \in Nat /\ BackOff \in Nat
      BY PrintsConstants DEF Prints!PrintsTypeOK
    <3>2. QED BY <2>1, <3>1 DEF Prints!WatermarkTrails
  <2>5. QED BY <2>1, <2>3, <2>4 DEF Prints!SeenIsKept, Prints!FillIsSound,
                                   Prints!PassedOnlyIfKept, Prints!Own
<1>2. ASSUME NEW late \in 0..Late, NEW own \in BOOLEAN, late <= s1,
             Prints!Trade(s1 - late, own)
      PROVE  Prints!PrintsInv'
  BY <1>2, PrintsTrade
<1>3. CASE Prints!Poll
  BY <1>3, PrintsPoll
<1>4. CASE Prints!Restart
  <2>1. s3' = 0 /\ s4' = <<>> /\ DOMAIN s4' = {} /\ UNCHANGED <<s1, s2, s5, s6, s7>>
    BY <1>4 DEF Prints!Restart
  <2>2. s1 \in Nat /\ s3 \in Nat
    BY DEF Prints!PrintsTypeOK
  <2>3. Prints!PassedOnlyIfKept'
    <3>1. \A i \in DOMAIN s2 : ~(s2[i].at < 0)
      BY TapeFacts
    <3>2. QED BY <2>1, <3>1 DEF Prints!PassedOnlyIfKept, Prints!Own
  <2>4. QED BY <2>1, <2>2, <2>3 DEF Prints!PrintsTypeOK, Prints!WatermarkTrails,
                               Prints!SeenIsKept, Prints!FillIsSound
<1>5. ASSUME NEW start \in 0..s1, Prints!BackfillStart(start)
      PROVE  Prints!PrintsInv'
  <2> DEFINE before == Prints!Own(Prints!Between(start, s1))
  <2>1. /\ s6' = [pc |-> "running", start |-> start, end |-> s1, t |-> start,
                  known |-> s5, whole |-> TRUE, before |-> before]
        /\ UNCHANGED <<s1, s2, s3, s4, s5, s7>>
    BY <1>5 DEF Prints!BackfillStart
  <2>2. s1 \in Nat /\ start \in Nat
    BY DEF Prints!PrintsTypeOK
  <2>3. /\ before \in SUBSET (DOMAIN s2)
        /\ \A i \in before : s2[i].own /\ start <= s2[i].at /\ s2[i].at <= s1
    BY DEF Prints!Own, Prints!Between
  <2> HIDE DEF before
  <2>4. Prints!FillIsSound'
    BY <2>1, <2>2, <2>3 DEF Prints!FillIsSound
  <2>5. s5 \subseteq DOMAIN s2
    BY DEF Prints!PrintsTypeOK
  <2>6. QED BY <2>1, <2>2, <2>3, <2>4, <2>5 DEF Prints!PrintsTypeOK,
      Prints!WatermarkTrails, Prints!SeenIsKept, Prints!PassedOnlyIfKept, Prints!Own
<1>6. CASE Prints!BackfillChunk
  BY <1>6, PrintsChunk
<1>7. CASE Prints!BackfillChunkFails \/ Prints!BackfillEnd \/ Prints!BackfillDies
  <2> DEFINE Spans == [pc : {"running", "done"}, start : Nat, end : Nat, t : Nat,
                       known : SUBSET (DOMAIN s2), whole : BOOLEAN,
                       before : SUBSET (DOMAIN s2)]
  <2>1. s6.pc = "running" /\ UNCHANGED <<s1, s2, s3, s4, s5, s7>>
    BY <1>7 DEF Prints!BackfillChunkFails, Prints!BackfillEnd, Prints!BackfillDies
  <2>2. s6 \in Spans
    BY <2>1 DEF Prints!PrintsTypeOK, Prints!NoFill
  <2>3. CASE Prints!BackfillChunkFails
    <3>1. s6.t < s6.end /\ s6' = [s6 EXCEPT !.t = Prints!ChunkEnd, !.whole = FALSE]
      BY <2>3 DEF Prints!BackfillChunkFails
    <3>2. Prints!ChunkEnd \in Nat /\ s6.t < Prints!ChunkEnd
      BY <2>2, <3>1, PrintsConstants DEF Prints!ChunkEnd
    <3>3. s6' \in Spans
      BY <2>2, <3>1, <3>2
    <3>4. Prints!FillIsSound'
      BY <2>1, <2>2, <3>1, <3>2 DEF Prints!FillIsSound
    <3>5. QED BY <2>1, <3>3, <3>4 DEF Prints!PrintsTypeOK, Prints!WatermarkTrails,
                       Prints!SeenIsKept, Prints!PassedOnlyIfKept, Prints!Own
  <2>4. CASE Prints!BackfillEnd
    <3>1. s6.t >= s6.end /\ s6' = [s6 EXCEPT !.pc = "done"]
      BY <2>4 DEF Prints!BackfillEnd
    <3>2. s6' \in Spans
      BY <2>2, <3>1
    <3>3. Prints!FillIsSound'
      BY <2>1, <2>2, <3>1 DEF Prints!FillIsSound
    <3>4. QED BY <2>1, <3>2, <3>3 DEF Prints!PrintsTypeOK, Prints!WatermarkTrails,
                       Prints!SeenIsKept, Prints!PassedOnlyIfKept, Prints!Own
  <2>5. CASE Prints!BackfillDies
    BY <2>1, <2>5 DEF Prints!BackfillDies, Prints!NoFill, Prints!FillIsSound,
          Prints!PrintsTypeOK, Prints!WatermarkTrails, Prints!SeenIsKept,
          Prints!PassedOnlyIfKept, Prints!Own
  <2>6. QED BY <1>7, <2>3, <2>4, <2>5
<1>8. CASE UNCHANGED Prints!vars
  BY <1>8 DEF Prints!vars, Prints!PrintsTypeOK, Prints!WatermarkTrails,
              Prints!SeenIsKept, Prints!FillIsSound, Prints!PassedOnlyIfKept, Prints!Own
<1>9. QED BY <1>1, <1>2, <1>3, <1>4, <1>5, <1>6, <1>7, <1>8 DEF Prints!Next

\* A backfill that met no error and no full page went over its whole span.
LEMMA BackfillsAreComplete == Prints!PrintsInv => Prints!BackfillCompletes
<1> SUFFICES ASSUME Prints!PrintsInv, s6.pc = "done", s6.whole, s6.start < s6.end,
                    NEW i \in s6.before
             PROVE  i \in s5
  BY DEF Prints!BackfillCompletes
<1>1. /\ s6.start \in Nat /\ s6.end \in Nat /\ s6.t \in Nat
      /\ s6.before \subseteq DOMAIN s2
  BY DEF Prints!PrintsInv, Prints!PrintsTypeOK, Prints!NoFill
<1>2. s2[i].at \in Nat
  BY <1>1, TapeFacts DEF Prints!PrintsInv
<1>3. QED BY <1>1, <1>2 DEF Prints!PrintsInv, Prints!FillIsSound

-----------------------------------------------------------------------------
(* One stream's segment files (HiResSegments): s1 is the clock, s2 the rows *)
(* written, s3 the open segment, s4 the files, s5 their copies, s6 the      *)
(* queue, s7 the jobs, s8 the scan, s9 what was torn.                       *)

LEMMA SegmentsConstants ==
    /\ Rotate \in Nat \ {0} /\ Grace \in Nat \ {0} /\ Rotate <= Grace
    /\ RetainFor \in Nat /\ MaxSegs \in Nat
BY RecordersAssumption DEF Segments!SegmentsAssumption

LEMMA NoneDiffers ==
    /\ \A r \in [seg : Segments!Segs, since : Nat] : r # Segments!None
    /\ \A r \in [seg : Segments!Segs, step : {"copy", "remove"}] : r # Segments!None
    /\ \A r \in [now : Nat, left : SUBSET Segments!Segs] : r # Segments!None
BY DEF Segments!None

LEMMA SegmentParts ==
    ASSUME Segments!SegmentsTypeOK
    PROVE  /\ s3 # Segments!None => s3.seg \in Segments!Segs /\ s3.since \in Nat
           /\ s3 = Segments!None \/ s3 = [seg |-> s3.seg, since |-> s3.since]
           /\ \A s \in Segments!Segs :
                 /\ s4[s].there \in BOOLEAN /\ s4[s].kept \in SUBSET Nat
                 /\ s4[s].buffered \in SUBSET Nat
                 /\ s4[s].mtime \in Nat \cup {Segments!Never}
                 /\ s4[s] = [there |-> s4[s].there, kept |-> s4[s].kept,
                             buffered |-> s4[s].buffered, mtime |-> s4[s].mtime]
                 /\ s5[s].state \in {"none", "partial", "whole"}
                 /\ s5[s].owner \in Segments!Compressors
                 /\ s5[s].has \in SUBSET Nat /\ s5[s].mtime \in Nat
           /\ \A who \in Segments!Compressors : s7[who] # Segments!None =>
                 s7[who].seg \in Segments!Segs /\ s7[who].step \in {"copy", "remove"}
           /\ s8 # Segments!None => s8.now \in Nat /\ s8.left \in SUBSET Segments!Segs
BY DEF Segments!SegmentsTypeOK

\* The next row goes to a segment that is new, or to one not yet sealed.
LEMMA NextSegmentFacts ==
    Segments!NextSegment \in Segments!Segs => Segments!NextSegment \notin Segments!Created
<1> DEFINE free == (1 .. MaxSegs + 1) \ Segments!Created
<1>1. MaxSegs + 1 \in free
  BY SegmentsConstants DEF Segments!Created, Segments!Segs
<1>2. free \in SUBSET Nat /\ free # {}
  BY <1>1
<1> HIDE DEF free
<1>3. \E x \in free : \A y \in free : x <= y
  BY <1>2, LeastNatural
<1>4. Segments!NextSegment \in free
  BY <1>3 DEF Segments!NextSegment, Segments!Min, free
<1>5. QED BY <1>4 DEF free


\* A row goes to the segment that is not sealed, or to a new one; the segment
\* that was open is sealed then, and no other is touched.
LEMMA WriteFacts ==
    ASSUME Segments!SegmentsInv, Segments!Write
    PROVE  \E seg \in Segments!Segs :
             /\ ~Segments!Sealed(seg)
             /\ s3' \in [seg : Segments!Segs, since : Nat] /\ s3'.seg = seg
             /\ s3'.since <= s4'[seg].mtime /\ s1 - s3'.since < Rotate
             /\ s4'[seg].there /\ s4'[seg].mtime \in Nat /\ s4'[seg].mtime <= s1
             /\ seg \in Segments!Created => s4'[seg].mtime = s4[seg].mtime
             /\ seg \notin Segments!Created => s4'[seg].mtime = s1
             /\ \A s \in Segments!Segs \ {seg} :
                   /\ s4'[s].buffered = {} /\ s4'[s].there = s4[s].there
                   /\ s4'[s].mtime \in {s4[s].mtime, s1}
                   /\ s \notin Segments!Created \/ Segments!Sealed(s) => s4'[s] = s4[s]
             /\ s6' = s6 \/ (s3 # Segments!None /\ s3.seg # seg /\ s6' = Append(s6, s3.seg))
             /\ s4' \in [Segments!Segs -> [there : BOOLEAN, kept : SUBSET Nat,
                           buffered : SUBSET Nat, mtime : Nat \cup {Segments!Never}]]
             /\ s2' \in Nat /\ UNCHANGED <<s1, s5, s7, s8, s9>>
<1> USE DEF Segments!SegmentsInv, Segments!TimesAgree, Segments!OnlySealedTaken
<1> DEFINE due == s3 # Segments!None /\ s1 - s3.since >= Rotate
           fresh == s3 = Segments!None \/ due
           seg == IF fresh THEN Segments!NextSegment ELSE s3.seg
           File == [there : BOOLEAN, kept : SUBSET Nat,
                    buffered : SUBSET Nat, mtime : Nat \cup {Segments!Never}]
<1>1. /\ seg \in Segments!Segs /\ s2' = s2 + 1
      /\ s3' = IF fresh THEN [seg |-> seg, since |-> s1] ELSE s3
      /\ s4' = [s \in Segments!Segs |->
              IF s = seg
              THEN [there |-> s4[s].there \/ fresh, kept |-> s4[s].kept,
                    buffered |-> s4[s].buffered \cup {s2'},
                    mtime |-> IF fresh THEN s1 ELSE s4[s].mtime]
              ELSE IF due /\ s = s3.seg THEN Segments!Synced(s4[s]) ELSE s4[s]]
      /\ s6' = IF due THEN Append(s6, s3.seg) ELSE s6
      /\ UNCHANGED <<s1, s5, s7, s8, s9>>
  BY DEF Segments!Write
<1>2. /\ s1 \in Nat /\ s2 \in Nat /\ s4 \in [Segments!Segs -> File]
      /\ s3 \in {Segments!None} \cup [seg : Segments!Segs, since : Nat]
      /\ s3 # Segments!None => s3.seg \in Segments!Created /\ s3.since <= s4[s3.seg].mtime
  BY DEF Segments!SegmentsTypeOK
<1>3. s3 # Segments!None => s3.since <= s1 /\ s3.since \in Nat /\ s3.seg \in Segments!Segs
  <2>1. ASSUME s3 # Segments!None
        PROVE  /\ s3.seg \in Segments!Segs /\ s3.since \in Nat /\ s3.since <= s4[s3.seg].mtime
               /\ s4[s3.seg].mtime <= s1 /\ s4[s3.seg].mtime \in Nat
    BY <1>2, <2>1 DEF Segments!Created, Segments!Never
  <2>2. QED BY <1>2, <2>1
<1>4. fresh => seg \notin Segments!Created
  BY <1>1, NextSegmentFacts
<1>5. ~fresh => seg = s3.seg /\ s3 # Segments!None /\ s1 - s3.since < Rotate
  BY <1>2, <1>3, SegmentsConstants
<1>6. \A s \in Segments!Segs : Segments!Synced(s4[s]) \in File
         /\ Segments!Synced(s4[s]).buffered = {} /\ Segments!Synced(s4[s]).there = s4[s].there
         /\ Segments!Synced(s4[s]).mtime \in {s4[s].mtime, s1}
         /\ (s4[s].buffered = {} => Segments!Synced(s4[s]) = s4[s])
  <2>1. ASSUME NEW s \in Segments!Segs
        PROVE  Segments!Synced(s4[s]) \in File
         /\ Segments!Synced(s4[s]).buffered = {} /\ Segments!Synced(s4[s]).there = s4[s].there
         /\ Segments!Synced(s4[s]).mtime \in {s4[s].mtime, s1}
         /\ (s4[s].buffered = {} => Segments!Synced(s4[s]) = s4[s])
    <3>1. s4[s] \in File
      BY <1>2
    <3>2. QED BY <1>2, <3>1 DEF Segments!Synced
  <2>2. QED BY <2>1
<1>7. ~Segments!Sealed(seg)
  BY <1>2, <1>4, <1>5 DEF Segments!Sealed
<1>8. s3' \in [seg : Segments!Segs, since : Nat] /\ s3'.seg = seg /\ s1 - s3'.since < Rotate
  BY <1>1, <1>2, <1>5, SegmentsConstants
<1>9. /\ s4'[seg].there /\ s4'[seg].mtime \in Nat /\ s4'[seg].mtime <= s1
      /\ s3'.since <= s4'[seg].mtime
      /\ seg \in Segments!Created => s4'[seg].mtime = s4[seg].mtime
      /\ seg \notin Segments!Created => s4'[seg].mtime = s1
  <2>1. CASE fresh
    <3>1. s3'.since = s1 /\ s4'[seg].there /\ s4'[seg].mtime = s1
      BY <1>1, <1>2, <2>1
    <3>2. QED BY <1>2, <1>4, <2>1, <3>1
  <2>2. CASE ~fresh
    <3>1. seg \in Segments!Created /\ s4[seg].there
      BY <1>2, <1>5, <1>7, <2>2
    <3>2. s4[seg].mtime \in Nat /\ s4[seg].mtime <= s1
      BY <1>1, <1>2, <3>1 DEF Segments!Created, Segments!Never
    <3>3. QED BY <1>1, <1>2, <1>5, <2>2, <3>1, <3>2
  <2>3. QED BY <2>1, <2>2
<1>10. ASSUME NEW s \in Segments!Segs \ {seg}
       PROVE  /\ s4'[s].buffered = {} /\ s4'[s].there = s4[s].there
              /\ s4'[s].mtime \in {s4[s].mtime, s1}
              /\ s \notin Segments!Created \/ Segments!Sealed(s) => s4'[s] = s4[s]
  <2>1. s4'[s] = IF due /\ s = s3.seg THEN Segments!Synced(s4[s]) ELSE s4[s]
    BY <1>1
  <2>2. CASE due /\ s = s3.seg
    <3>1. s \in Segments!Created /\ s4'[s] = Segments!Synced(s4[s])
      BY <1>2, <2>1, <2>2
    <3>2. QED BY <1>6, <3>1 DEF Segments!Sealed
  <2>3. CASE ~(due /\ s = s3.seg)
    <3>1. s4'[s] = s4[s]
      BY <2>1, <2>3
    <3>2. s4[s].buffered = {}
      <4>1. s4[s].buffered # {} =>
               s3 # Segments!None /\ s3.seg = s /\ s1 - s3.since < Rotate
        OBVIOUS
      <4>2. s3 # Segments!None /\ s3.seg = s /\ s1 - s3.since < Rotate => seg = s
        BY <1>2, <1>3, SegmentsConstants
      <4>3. QED BY <4>1, <4>2
    <3>3. QED BY <3>1, <3>2
  <2>4. QED BY <2>2, <2>3
<1>11. s4' \in [Segments!Segs -> File]
  <2>1. \A s \in Segments!Segs : s4[s] \in File
    BY <1>2
  <2>2. ASSUME NEW s \in Segments!Segs PROVE s4'[s] \in File
    <3>1. CASE s = seg
      BY <1>1, <1>2, <2>1, <3>1
    <3>2. CASE s # seg
      BY <1>1, <1>6, <2>1, <3>2
    <3>3. QED BY <3>1, <3>2
  <2>3. DOMAIN s4' = Segments!Segs /\ s4' = [s \in Segments!Segs |-> s4'[s]]
    BY <1>1
  <2>4. QED BY <2>2, <2>3
<1>12. s6' = s6 \/ (s3 # Segments!None /\ s3.seg # seg /\ s6' = Append(s6, s3.seg))
  BY <1>1, <1>2, <1>4
<1>13. QED BY SMTT(30), <1>1, <1>2, <1>7, <1>8, <1>9, <1>10, <1>11, <1>12

LEMMA SegmentsWrite ==
    ASSUME Segments!SegmentsInv, Segments!Write
    PROVE  Segments!SegmentsInv'
<1> USE DEF Segments!SegmentsInv
<1>1. PICK seg \in Segments!Segs :
             /\ ~Segments!Sealed(seg)
             /\ s3' \in [seg : Segments!Segs, since : Nat] /\ s3'.seg = seg
             /\ s3'.since <= s4'[seg].mtime /\ s1 - s3'.since < Rotate
             /\ s4'[seg].there /\ s4'[seg].mtime \in Nat /\ s4'[seg].mtime <= s1
             /\ seg \in Segments!Created => s4'[seg].mtime = s4[seg].mtime
             /\ seg \notin Segments!Created => s4'[seg].mtime = s1
             /\ \A s \in Segments!Segs \ {seg} :
                   /\ s4'[s].buffered = {} /\ s4'[s].there = s4[s].there
                   /\ s4'[s].mtime \in {s4[s].mtime, s1}
                   /\ s \notin Segments!Created \/ Segments!Sealed(s) => s4'[s] = s4[s]
             /\ s6' = s6 \/ (s3 # Segments!None /\ s3.seg # seg /\ s6' = Append(s6, s3.seg))
             /\ s4' \in [Segments!Segs -> [there : BOOLEAN, kept : SUBSET Nat,
                           buffered : SUBSET Nat, mtime : Nat \cup {Segments!Never}]]
             /\ s2' \in Nat /\ UNCHANGED <<s1, s5, s7, s8, s9>>
  BY WriteFacts
<1>2. s1 \in Nat /\ Segments!SegmentsTypeOK /\ s3' # Segments!None
  BY <1>1, NoneDiffers DEF Segments!SegmentsTypeOK
<1>3. \A s \in Segments!Segs : s \in Segments!Created' <=> s \in Segments!Created \/ s = seg
  <2>1. ASSUME NEW s \in Segments!Segs \ {seg}
        PROVE  s \in Segments!Created' <=> s \in Segments!Created
    <3>1. CASE s \in Segments!Created
      BY <1>1, <1>2, <3>1 DEF Segments!Created, Segments!Never
    <3>2. CASE s \notin Segments!Created
      <4>1. s4'[s] = s4[s]
        BY <1>1, <3>2
      <4>2. QED BY <3>2, <4>1 DEF Segments!Created
    <3>3. QED BY <3>1, <3>2
  <2>2. seg \in Segments!Created'
    BY <1>1 DEF Segments!Created, Segments!Never
  <2>3. QED BY <2>1, <2>2
<1>4. \A s \in Segments!Segs : Segments!Sealed(s) => s # seg /\ s4'[s] = s4[s] /\ Segments!Sealed(s)'
  BY <1>1, <1>3 DEF Segments!Sealed
<1>5. \A s \in Segments!Created : s # seg => Segments!Sealed(s)'
  BY <1>1, <1>3 DEF Segments!Sealed, Segments!Created
<1>6. Segments!SegmentsTypeOK'
  <2>1. s6' \in Seq(Segments!Segs)
    <3>1. s3 # Segments!None => s3.seg \in Segments!Segs
      BY <1>2, SegmentParts
    <3>2. s6 \in Seq(Segments!Segs)
      BY DEF Segments!SegmentsTypeOK
    <3>3. QED BY <1>1, <3>1, <3>2, AppendProperties
  <2>2. QED BY <1>1, <2>1 DEF Segments!SegmentsTypeOK
<1>7. Segments!TimesAgree'
  <2>1. \A s \in Segments!Segs : s4'[s].mtime <= s1
    BY <1>1, <1>2 DEF Segments!TimesAgree
  <2>2. s8 # Segments!None => s8.now <= s1
    BY DEF Segments!TimesAgree
  <2>3. QED BY <1>1, <1>2, <1>3, <2>1, <2>2 DEF Segments!TimesAgree
<1>8. Segments!OnlySealedTaken'
  <2>1. ASSUME NEW s \in Segments!Segs, NEW k \in DOMAIN s6', s6'[k] = s
        PROVE  Segments!Sealed(s)'
    <3>1. CASE k \in DOMAIN s6 /\ s6'[k] = s6[k]
      BY <1>4, <2>1, <3>1 DEF Segments!OnlySealedTaken
    <3>2. CASE ~(k \in DOMAIN s6 /\ s6'[k] = s6[k])
      <4>1. s3 # Segments!None /\ s3.seg # seg /\ s6' = Append(s6, s3.seg)
        BY <1>1, <3>2, <2>1
      <4>2. s6 \in Seq(Segments!Segs) /\ Len(s6) \in Nat /\ DOMAIN s6 = 1..Len(s6)
            /\ s3.seg \in Segments!Created /\ s3.seg \in Segments!Segs
        BY <1>2, <4>1, SegmentParts DEF Segments!SegmentsTypeOK, Segments!TimesAgree
      <4>3. /\ Len(s6') = Len(s6) + 1 /\ DOMAIN s6' = 1..Len(s6')
            /\ \A j \in 1..Len(s6) : s6'[j] = s6[j]
            /\ s6'[Len(s6) + 1] = s3.seg
        BY <4>1, <4>2, AppendProperties
      <4>4. s = s3.seg
        BY <2>1, <3>2, <4>2, <4>3
      <4>5. QED BY <1>5, <4>1, <4>2, <4>4
    <3>3. QED BY <3>1, <3>2
  <2>2. \A s \in Segments!Segs : s4'[s].there => s \in Segments!Created'
    BY <1>1, <1>3 DEF Segments!OnlySealedTaken
  <2>3. \A s \in Segments!Segs : s \notin Segments!Created' => s4'[s].kept = {}
    BY <1>1, <1>3 DEF Segments!OnlySealedTaken
  <2>4. \A s \in Segments!Created' : Segments!Sealed(s)' \/ s4'[s].there
    <3>1. \A s \in Segments!Created' : s \in Segments!Segs
      BY DEF Segments!Created
    <3>2. QED BY <1>1, <1>3, <1>5, <3>1
  <2>5. \A s \in Segments!Segs : s5[s].state # "none" =>
          Segments!Sealed(s)' /\ s4'[s].mtime <= s5[s].mtime
    BY <1>4 DEF Segments!OnlySealedTaken
  <2>6. \A s \in Segments!Segs, who \in Segments!Compressors : Segments!JobOn(who, s)' => Segments!Sealed(s)'
    BY <1>1, <1>4 DEF Segments!OnlySealedTaken, Segments!JobOn
  <2>7. QED BY <1>1, <2>1, <2>2, <2>3, <2>4, <2>5, <2>6 DEF Segments!OnlySealedTaken
<1>9. Segments!CopyIsThere'
  <2>1. \A s \in Segments!Segs : s5[s].state = "whole" => s4'[s].kept \subseteq s5[s].has
    BY <1>4 DEF Segments!OnlySealedTaken, Segments!CopyIsThere
  <2>2. ASSUME NEW s \in Segments!Segs, s \in Segments!Created', s \notin s9,
               ~s4'[s].there \/ \E who \in Segments!Compressors : Segments!JobOn(who, s)
        PROVE  s5[s].state = "whole" \/ Segments!Copying(s) \/ Segments!Expired(s)'
    <3>1. Segments!Sealed(s)
      <4>1. CASE \E who \in Segments!Compressors : Segments!JobOn(who, s)
        BY <4>1 DEF Segments!OnlySealedTaken
      <4>2. CASE ~s4'[s].there
        BY <1>1, <1>3, <2>2, <4>2 DEF Segments!OnlySealedTaken
      <4>3. QED BY <2>2, <4>1, <4>2
    <3>2. s4'[s] = s4[s] /\ s \in Segments!Created
      BY <1>4, <3>1 DEF Segments!Sealed
    <3>3. s5[s].state = "whole" \/ Segments!Copying(s) \/ Segments!Expired(s)
      BY <2>2, <3>2 DEF Segments!CopyIsThere
    <3>4. QED BY <1>1, <3>2, <3>3 DEF Segments!Expired
  <2>3. QED BY <1>1, <2>1, <2>2 DEF Segments!CopyIsThere, Segments!Copying, Segments!Copies, Segments!JobOn, Segments!Created
<1>10. Segments!LeftIsThere' /\ Segments!ScanComesToAll'
  <2>1. ASSUME NEW s \in Segments!Segs, s \notin s9, s5[s].state = "partial", ~Segments!Copying(s)
        PROVE  s4'[s].there /\ \A who \in Segments!Compressors : ~Segments!JobOn(who, s)
    BY <1>4, <2>1 DEF Segments!LeftIsThere, Segments!OnlySealedTaken
  <2>2. ASSUME s8 # Segments!None, NEW s \in Segments!Segs, s4'[s].there, Segments!Quiet(s4'[s].mtime)
        PROVE  s \in s8.left \/ Segments!JobOn("compaction", s)
    <3>1. s8.now \in Nat /\ s8.now <= s1 /\ Grace \in Nat \ {0}
      BY <2>2, <1>2, SegmentParts, SegmentsConstants DEF Segments!TimesAgree
    <3>2. s4'[s].mtime # s1
      BY <1>2, <2>2, <3>1 DEF Segments!Quiet
    <3>3. s4'[s].mtime = s4[s].mtime /\ s4[s].there
      <4>1. CASE s = seg
        BY <1>1, <3>2, <4>1, <1>3, <1>2 DEF Segments!OnlySealedTaken
      <4>2. CASE s # seg
        BY <1>1, <3>2, <4>2, <2>2
      <4>3. QED BY <4>1, <4>2
    <3>4. QED BY <2>2, <3>3 DEF Segments!ScanComesToAll
  <2>3. Segments!LeftIsThere'
    BY <1>1, <2>1 DEF Segments!LeftIsThere, Segments!Copying, Segments!Copies, Segments!JobOn
  <2>4. QED BY <1>1, <2>2, <2>3 DEF Segments!ScanComesToAll, Segments!JobOn, Segments!Quiet
<1>11. QED BY <1>6, <1>7, <1>8, <1>9, <1>10

\* A step that touches no job, no copy and no sealed segment.
LEMMA JobsUntouched ==
    ASSUME Segments!SegmentsInv, s1 <= s1', s1' \in Nat, UNCHANGED <<s5, s7, s9>>,
           \A s \in Segments!Segs : Segments!Sealed(s) => Segments!Sealed(s)' /\ s4'[s] = s4[s],
           \A s \in Segments!Segs : s4'[s].there = s4[s].there
                             /\ (s \in Segments!Created' <=> s \in Segments!Created),
           \A s \in Segments!Segs : s \notin Segments!Created => s4'[s] = s4[s],
           \A s \in Segments!Segs, k \in DOMAIN s6' : s6'[k] = s => Segments!Sealed(s)'
    PROVE  Segments!OnlySealedTaken' /\ Segments!CopyIsThere' /\ Segments!LeftIsThere'
<1> USE DEF Segments!SegmentsInv
<1>0. Segments!Created' = Segments!Created /\ \A s \in Segments!Created : s \in Segments!Segs
  BY DEF Segments!Created
<1>1. Segments!OnlySealedTaken'
  BY <1>0 DEF Segments!OnlySealedTaken, Segments!JobOn
<1>2. ASSUME NEW s \in Segments!Created, s \notin s9,
             ~s4'[s].there \/ \E who \in Segments!Compressors : Segments!JobOn(who, s)
      PROVE  s5[s].state = "whole" \/ Segments!Copying(s) \/ Segments!Expired(s)'
  <2>1. Segments!Sealed(s) /\ s4'[s] = s4[s]
    BY <1>0, <1>2 DEF Segments!OnlySealedTaken
  <2>2. s5[s].state = "whole" \/ Segments!Copying(s) \/ Segments!Expired(s)
    BY <1>2, <2>1 DEF Segments!CopyIsThere
  <2>3. Segments!Expired(s) => Segments!Expired(s)'
    <3>1. s4[s].mtime \in Nat /\ s1 \in Nat /\ RetainFor \in Nat
      BY <1>2, SegmentsConstants DEF Segments!SegmentsTypeOK, Segments!Created, Segments!Never
    <3>2. QED BY <2>1, <3>1 DEF Segments!Expired
  <2>4. QED BY <2>2, <2>3
<1>3. Segments!CopyIsThere'
  <2>1. \A s \in Segments!Segs : s5[s].state = "whole" => s4'[s].kept \subseteq s5[s].has
    BY DEF Segments!OnlySealedTaken, Segments!CopyIsThere
  <2>2. QED BY <1>0, <1>2, <2>1 DEF Segments!CopyIsThere, Segments!Copying, Segments!Copies, Segments!JobOn
<1>4. Segments!LeftIsThere'
  BY DEF Segments!LeftIsThere, Segments!Copying, Segments!Copies, Segments!JobOn
<1>5. QED BY <1>1, <1>3, <1>4

LEMMA SegmentsQuietly ==
    ASSUME Segments!SegmentsInv, Segments!Flush \/ Segments!Tick \/ Segments!StartCompaction
    PROVE  Segments!SegmentsInv'
<1> USE DEF Segments!SegmentsInv
<1>0. Segments!SegmentsTypeOK /\ s1 \in Nat
  BY DEF Segments!SegmentsTypeOK
<1>1. CASE Segments!Flush
  <2> DEFINE seg == s3.seg
  <2>1. /\ s3 # Segments!None /\ seg \in Segments!Segs /\ s4[seg].buffered # {}
        /\ s4' = [s4 EXCEPT ![seg] = Segments!Synced(@)]
        /\ UNCHANGED <<s1, s2, s3, s5, s6, s7, s8, s9>>
    BY <1>0, <1>1, SegmentParts DEF Segments!Flush
  <2>2. seg \in Segments!Created /\ s3.since <= s4[seg].mtime /\ s4[seg].mtime <= s1
        /\ s4[seg].mtime \in Nat /\ s3.since \in Nat
    BY <1>0, <2>1, SegmentParts DEF Segments!TimesAgree, Segments!Created, Segments!Never
  <2>3. s4' \in [Segments!Segs -> [there : BOOLEAN, kept : SUBSET Nat,
                           buffered : SUBSET Nat, mtime : Nat \cup {Segments!Never}]]
        /\ s4'[seg].buffered = {} /\ s4'[seg].there = s4[seg].there
        /\ s4'[seg].mtime = s1
        /\ \A s \in Segments!Segs \ {seg} : s4'[s] = s4[s]
    <3> DEFINE File == [there : BOOLEAN, kept : SUBSET Nat,
                        buffered : SUBSET Nat, mtime : Nat \cup {Segments!Never}]
               new == Segments!Synced(s4[seg])
    <3>1. s4 \in [Segments!Segs -> File] /\ s4[seg] \in File
      BY <1>0, <2>1 DEF Segments!SegmentsTypeOK
    <3>2. new \in File /\ new.buffered = {} /\ new.there = s4[seg].there
          /\ new.mtime = s1
      BY <1>0, <2>1, <3>1 DEF Segments!Synced
    <3>3. s4' = [s4 EXCEPT ![seg] = new]
      BY <2>1
    <3> HIDE DEF File, new
    <3>4. QED BY <2>1, <3>1, <3>2, <3>3 DEF File
  <2>4. ~Segments!Sealed(seg)
    BY <2>1 DEF Segments!Sealed
  <2>5. \A s \in Segments!Segs : s \in Segments!Created' <=> s \in Segments!Created
    BY <1>0, <2>2, <2>3 DEF Segments!Created, Segments!Never
  <2> HIDE DEF seg
  <2>6. \A s \in Segments!Segs : Segments!Sealed(s) => Segments!Sealed(s)' /\ s4'[s] = s4[s]
    BY <2>1, <2>3, <2>4, <2>5 DEF Segments!Sealed
  <2>7. \A s \in Segments!Segs, k \in DOMAIN s6' : s6'[k] = s => Segments!Sealed(s)'
    BY <2>1, <2>6 DEF Segments!OnlySealedTaken
  <2>8. Segments!OnlySealedTaken' /\ Segments!CopyIsThere' /\ Segments!LeftIsThere'
    <3>1. \A s \in Segments!Segs : s4'[s].there = s4[s].there
      BY <2>3
    <3>2. \A s \in Segments!Segs : s \notin Segments!Created => s4'[s] = s4[s]
      BY <2>2, <2>3
    <3>3. s1 <= s1' /\ s1' \in Nat
      BY <1>0, <2>1
    <3>4. QED BY <2>1, <2>5, <2>6, <2>7, <3>1, <3>2, <3>3, JobsUntouched
  <2>9. Segments!TimesAgree'
    <3>1. \A s \in Segments!Segs : s4'[s].mtime <= s1
      BY <1>0, <2>3 DEF Segments!TimesAgree
    <3>2. s3.seg \in Segments!Created' /\ s3.since <= s4'[s3.seg].mtime
      BY <1>0, <2>1, <2>2, <2>3, <2>5 DEF seg
    <3>3. \A s \in Segments!Segs : s4'[s].buffered # {} => s4[s].buffered # {}
      BY <2>3
    <3>4. QED BY <2>1, <3>1, <3>2, <3>3 DEF Segments!TimesAgree
  <2>10. Segments!ScanComesToAll'
    <3>1. ASSUME s8 # Segments!None, NEW s \in Segments!Segs, s4'[s].there, Segments!Quiet(s4'[s].mtime)
          PROVE  s \in s8.left \/ Segments!JobOn("compaction", s)
      <4>1. s8.now \in Nat /\ s8.now <= s1 /\ Grace \in Nat \ {0}
        BY <1>0, <3>1, SegmentParts, SegmentsConstants DEF Segments!TimesAgree
      <4>2. s # seg
        BY <1>0, <2>3, <3>1, <4>1 DEF Segments!Quiet
      <4>3. QED BY <2>3, <3>1, <4>2 DEF Segments!ScanComesToAll
    <3>2. QED BY <2>1, <3>1 DEF Segments!ScanComesToAll, Segments!JobOn, Segments!Quiet
  <2>11. Segments!SegmentsTypeOK'
    BY <2>1, <2>3 DEF Segments!SegmentsTypeOK
  <2>12. QED BY <2>8, <2>9, <2>10, <2>11
<1>2. CASE Segments!Tick
  <2>1. /\ s1' = s1 + 1 /\ \A s \in Segments!Segs : s4[s].buffered = {}
        /\ UNCHANGED <<s2, s3, s4, s5, s6, s7, s8, s9>>
    BY <1>2 DEF Segments!Tick
  <2>2. s1 <= s1' /\ s1' \in Nat
    BY <1>0, <2>1
  <2>3. Segments!Created' = Segments!Created
    BY <2>1 DEF Segments!Created
  <2>4. \A s \in Segments!Segs : Segments!Sealed(s) => Segments!Sealed(s)' /\ s4'[s] = s4[s]
    <3>1. s3 # Segments!None => s3.since \in Nat
      BY <1>0, SegmentParts
    <3>2. Rotate \in Nat
      BY SegmentsConstants
    <3>3. s3 # Segments!None /\ s1 - s3.since >= Rotate => s1' - s3.since >= Rotate
      BY <1>0, <2>1, <3>1, <3>2
    <3>4. QED BY <2>1, <2>3, <3>3 DEF Segments!Sealed
  <2>5. \A s \in Segments!Segs, k \in DOMAIN s6' : s6'[k] = s => Segments!Sealed(s)'
    BY <2>1, <2>4 DEF Segments!OnlySealedTaken
  <2>6. Segments!OnlySealedTaken' /\ Segments!CopyIsThere' /\ Segments!LeftIsThere'
    BY <2>1, <2>2, <2>3, <2>4, <2>5, JobsUntouched
  <2>7. Segments!TimesAgree'
    <3>1. \A s \in Segments!Segs : s4[s].mtime <= s1 /\ s4[s].mtime \in Nat \cup {-1}
      BY <1>0, SegmentParts DEF Segments!TimesAgree, Segments!Never
    <3>2. \A s \in Segments!Segs : s4[s].mtime <= s1'
      BY <1>0, <2>1, <3>1
    <3>3. s8 # Segments!None => s8.now \in Nat /\ s8.now <= s1
      BY <1>0, SegmentParts DEF Segments!TimesAgree
    <3>4. s8 # Segments!None => s8.now <= s1'
      BY <1>0, <2>1, <3>3
    <3>5. QED BY <2>1, <2>3, <3>2, <3>4 DEF Segments!TimesAgree
  <2>8. Segments!ScanComesToAll'
    BY <2>1 DEF Segments!ScanComesToAll, Segments!JobOn, Segments!Quiet
  <2>9. Segments!SegmentsTypeOK'
    BY <2>1, <2>2 DEF Segments!SegmentsTypeOK
  <2>10. QED BY <2>6, <2>7, <2>8, <2>9
<1>3. CASE Segments!StartCompaction
  <2>1. /\ s8' = [now |-> s1, left |-> {s \in Segments!Segs : s4[s].there}]
        /\ UNCHANGED <<s1, s2, s3, s4, s5, s6, s7, s9>>
    BY <1>3 DEF Segments!StartCompaction
  <2>2. Segments!SegmentsTypeOK'
    BY <1>0, <2>1 DEF Segments!SegmentsTypeOK
  <2>3. Segments!TimesAgree'
    BY <1>0, <2>1 DEF Segments!TimesAgree, Segments!Created
  <2>4. Segments!OnlySealedTaken' /\ Segments!CopyIsThere' /\ Segments!LeftIsThere'
    BY <2>1 DEF Segments!OnlySealedTaken, Segments!CopyIsThere, Segments!LeftIsThere, Segments!Created, Segments!Sealed,
                Segments!Copying, Segments!Copies, Segments!JobOn, Segments!Expired
  <2>5. Segments!ScanComesToAll'
    BY <2>1 DEF Segments!ScanComesToAll
  <2>6. QED BY <2>2, <2>3, <2>4, <2>5
<1>4. QED BY <1>1, <1>2, <1>3

\* A compressor that begins has the copy in hand, whoever had it before.
LEMMA SegmentsBegin ==
    ASSUME Segments!SegmentsInv, NEW who \in Segments!Compressors, NEW seg \in Segments!Segs,
           Segments!Begin(who, seg), s7[who] = Segments!None, Segments!Sealed(seg),
           UNCHANGED <<s1, s2, s3, s4, s9>>,
           s6' \in Seq(Segments!Segs),
           \A s \in Segments!Segs, k \in DOMAIN s6' : s6'[k] = s => Segments!Sealed(s),
           s8' \in {Segments!None} \cup [now : Nat, left : SUBSET Segments!Segs],
           s8' # Segments!None => s8'.now <= s1
    PROVE  /\ Segments!SegmentsTypeOK' /\ Segments!TimesAgree' /\ Segments!OnlySealedTaken'
           /\ Segments!CopyIsThere' /\ Segments!LeftIsThere'
           /\ \A s \in Segments!Segs, other \in Segments!Compressors :
                 Segments!JobOn(other, s) => Segments!JobOn(other, s)'
           /\ Segments!JobOn(who, seg)'
<1> USE DEF Segments!SegmentsInv
<1>1. /\ s7' = [s7 EXCEPT ![who] = [seg |-> seg, step |-> "copy"]]
      /\ s5' = [s5 EXCEPT ![seg] = [state |-> "partial", owner |-> who, has |-> {},
                                    mtime |-> s1]]
  BY DEF Segments!Begin
<1>2. /\ s5 \in [Segments!Segs -> [state : {"none", "partial", "whole"},
                            owner : Segments!Compressors, has : SUBSET Nat, mtime : Nat]]
      /\ s7 \in [Segments!Compressors -> {Segments!None} \cup [seg : Segments!Segs, step : {"copy", "remove"}]]
      /\ s1 \in Nat
  BY DEF Segments!SegmentsTypeOK
<1>3. /\ [seg |-> seg, step |-> "copy"] \in [seg : Segments!Segs, step : {"copy", "remove"}]
      /\ [seg |-> seg, step |-> "copy"] # Segments!None
      /\ [state |-> "partial", owner |-> who, has |-> {}, mtime |-> s1]
            \in [state : {"none", "partial", "whole"}, owner : Segments!Compressors,
                 has : SUBSET Nat, mtime : Nat]
  <2>1. [seg |-> seg, step |-> "copy"] \in [seg : Segments!Segs, step : {"copy", "remove"}]
    OBVIOUS
  <2>2. [seg |-> seg, step |-> "copy"] # Segments!None
    BY <2>1, NoneDiffers
  <2>3. QED BY <1>2, <2>1, <2>2
<1>4. Segments!SegmentsTypeOK'
  BY <1>1, <1>2, <1>3 DEF Segments!SegmentsTypeOK
<1>5. /\ s7'[who].seg = seg /\ s7'[who].step = "copy" /\ s7'[who] # Segments!None
      /\ \A other \in Segments!Compressors \ {who} : s7'[other] = s7[other]
      /\ s5'[seg].state = "partial" /\ s5'[seg].owner = who /\ s5'[seg].mtime = s1
      /\ \A s \in Segments!Segs \ {seg} : s5'[s] = s5[s]
  BY <1>1, <1>2, <1>3
<1>6. /\ Segments!Copies(who, seg)'
      /\ \A s \in Segments!Segs, other \in Segments!Compressors :
            /\ Segments!JobOn(other, s) => Segments!JobOn(other, s)'
            /\ Segments!JobOn(other, s)' => Segments!JobOn(other, s) \/ s = seg
            /\ s # seg => (Segments!Copies(other, s)' <=> Segments!Copies(other, s))
  BY <1>5 DEF Segments!Copies, Segments!JobOn
<1>7. Segments!Copying(seg)' /\ \A s \in Segments!Segs : s # seg => (Segments!Copying(s)' <=> Segments!Copying(s))
  BY <1>6 DEF Segments!Copying
<1>8. Segments!Created' = Segments!Created /\ \A s \in Segments!Created : s \in Segments!Segs
  BY DEF Segments!Created
<1>9. \A s \in Segments!Segs : (Segments!Sealed(s)' <=> Segments!Sealed(s)) /\ (Segments!Expired(s)' <=> Segments!Expired(s))
  BY <1>8 DEF Segments!Sealed, Segments!Expired
<1>10. Segments!TimesAgree'
  BY <1>8 DEF Segments!TimesAgree
<1>11. Segments!OnlySealedTaken'
  <2>1. ASSUME NEW s \in Segments!Segs, s5'[s].state # "none"
        PROVE  Segments!Sealed(s) /\ s4[s].mtime <= s5'[s].mtime
    BY <1>5, <2>1 DEF Segments!OnlySealedTaken, Segments!TimesAgree
  <2>2. QED BY <1>6, <1>8, <1>9, <2>1 DEF Segments!OnlySealedTaken
<1>12. Segments!CopyIsThere'
  BY <1>5, <1>6, <1>7, <1>8, <1>9 DEF Segments!CopyIsThere
<1>13. Segments!LeftIsThere'
  BY <1>5, <1>6, <1>7 DEF Segments!LeftIsThere
<1>14. QED BY <1>4, <1>6, <1>10, <1>11, <1>12, <1>13 DEF Segments!Copies

LEMMA SegmentsWorkerTakes ==
    ASSUME Segments!SegmentsInv, Segments!WorkerTakes
    PROVE  Segments!SegmentsInv'
<1> USE DEF Segments!SegmentsInv
<1> DEFINE seg == Head(s6)
<1>1. /\ s7["worker"] = Segments!None /\ s6 # <<>> /\ s6' = Tail(s6)
      /\ UNCHANGED <<s1, s2, s3, s4, s8, s9>>
      /\ IF s4[seg].there THEN Segments!Begin("worker", seg) ELSE UNCHANGED <<s7, s5>>
  BY DEF Segments!WorkerTakes
<1>2. s6 \in Seq(Segments!Segs) /\ "worker" \in Segments!Compressors
  BY DEF Segments!SegmentsTypeOK, Segments!Compressors
<1>3. /\ seg \in Segments!Segs /\ seg = s6[1] /\ s6' \in Seq(Segments!Segs)
      /\ Len(s6) \in Nat \ {0} /\ Len(s6') = Len(s6) - 1
      /\ \A j \in 1..(Len(s6) - 1) : s6'[j] = s6[j + 1]
  BY <1>1, <1>2, TailFacts
<1>4. DOMAIN s6 = 1..Len(s6) /\ DOMAIN s6' = 1..Len(s6) - 1
  BY <1>2, <1>3
<1>5. Segments!Sealed(seg)
  <2>1. 1 \in DOMAIN s6
    BY <1>3, <1>4
  <2>2. QED BY <1>3, <2>1 DEF Segments!OnlySealedTaken
<1>6. \A s \in Segments!Segs, k \in DOMAIN s6' : s6'[k] = s => Segments!Sealed(s)
  <2>1. \A k \in DOMAIN s6' : k + 1 \in DOMAIN s6 /\ s6'[k] = s6[k + 1]
    BY <1>3, <1>4
  <2>2. QED BY <2>1 DEF Segments!OnlySealedTaken
<1> HIDE DEF seg
<1>7. CASE s4[seg].there
  <2>1. Segments!Begin("worker", seg)
    BY <1>1, <1>7
  <2>2. s8' \in {Segments!None} \cup [now : Nat, left : SUBSET Segments!Segs]
        /\ (s8' # Segments!None => s8'.now <= s1)
    BY <1>1 DEF Segments!SegmentsTypeOK, Segments!TimesAgree
  <2>3. /\ Segments!SegmentsTypeOK' /\ Segments!TimesAgree' /\ Segments!OnlySealedTaken'
        /\ Segments!CopyIsThere' /\ Segments!LeftIsThere'
        /\ \A s \in Segments!Segs, other \in Segments!Compressors :
              Segments!JobOn(other, s) => Segments!JobOn(other, s)'
    BY <1>1, <1>2, <1>3, <1>5, <1>6, <2>1, <2>2, SegmentsBegin
  <2>4. Segments!ScanComesToAll'
    BY <1>1, <2>3 DEF Segments!ScanComesToAll, Segments!Quiet, Segments!Compressors
  <2>5. QED BY <2>3, <2>4
<1>8. CASE ~s4[seg].there
  <2>1. UNCHANGED <<s1, s2, s3, s4, s5, s7, s8, s9>>
    BY <1>1, <1>8
  <2>2. /\ Segments!Created' = Segments!Created /\ \A s \in Segments!Created : s \in Segments!Segs
        /\ \A s \in Segments!Segs : Segments!Sealed(s)' <=> Segments!Sealed(s)
        /\ \A s \in Segments!Segs, who \in Segments!Compressors : Segments!JobOn(who, s)' <=> Segments!JobOn(who, s)
    BY <2>1 DEF Segments!Created, Segments!Sealed, Segments!JobOn
  <2>3. Segments!OnlySealedTaken'
    BY <1>6, <2>1, <2>2 DEF Segments!OnlySealedTaken
  <2>4. QED BY <1>3, <2>1, <2>2, <2>3 DEF Segments!SegmentsTypeOK, Segments!TimesAgree,
               Segments!CopyIsThere, Segments!LeftIsThere, Segments!ScanComesToAll, Segments!Copying, Segments!Copies,
               Segments!JobOn, Segments!Expired, Segments!Quiet
<1>9. QED BY <1>7, <1>8

\* What the compaction takes for closed is.
LEMMA QuietIsSealed ==
    ASSUME Segments!SegmentsInv, s8 # Segments!None, NEW s \in Segments!Created, Segments!Quiet(s4[s].mtime)
    PROVE  Segments!Sealed(s)
<1> USE DEF Segments!SegmentsInv
<1>1. /\ s \in Segments!Segs /\ s4[s].mtime \in Nat /\ s1 \in Nat
      /\ s8.now \in Nat /\ s8.now <= s1
  BY SegmentParts DEF Segments!SegmentsTypeOK, Segments!TimesAgree, Segments!Created, Segments!Never
<1>2. Rotate \in Nat /\ Grace \in Nat /\ Rotate <= Grace /\ s8.now - s4[s].mtime >= Grace
  BY SegmentsConstants DEF Segments!Quiet
<1>3. s1 - s4[s].mtime >= Rotate
  BY <1>1, <1>2
<1>4. s3 # Segments!None /\ s3.seg = s => s3.since \in Nat /\ s1 - s3.since >= Rotate
  <2>1. s3 # Segments!None /\ s3.seg = s => s3.since \in Nat /\ s3.since <= s4[s].mtime
    BY SegmentParts DEF Segments!TimesAgree
  <2>2. QED BY <1>1, <1>2, <1>3, <2>1
<1>5. s4[s].buffered = {}
  <2>1. s4[s].buffered # {} => s3 # Segments!None /\ s3.seg = s /\ s1 - s3.since < Rotate
    BY <1>1 DEF Segments!TimesAgree
  <2>2. QED BY <1>1, <1>2, <1>4, <2>1
<1>6. QED BY <1>4, <1>5 DEF Segments!Sealed

LEMMA SegmentsInspect ==
    ASSUME Segments!SegmentsInv, Segments!Inspect
    PROVE  Segments!SegmentsInv'
<1> USE DEF Segments!SegmentsInv
<1>1. /\ s8 # Segments!None /\ s7["compaction"] = Segments!None /\ s8.left # {}
      /\ s8 \in [now : Nat, left : SUBSET Segments!Segs] /\ "compaction" \in Segments!Compressors
      /\ Segments!Segs \in SUBSET Nat
      /\ UNCHANGED <<s1, s2, s3, s4, s6, s9>>
  BY DEF Segments!Inspect, Segments!SegmentsTypeOK, Segments!Compressors, Segments!Segs
<1>2. Segments!Min(s8.left) \in s8.left
  <2>1. s8.left \in SUBSET Nat
    BY <1>1
  <2>2. \E x \in s8.left : \A y \in s8.left : x <= y
    BY <1>1, <2>1, LeastNatural
  <2>3. QED BY <2>2 DEF Segments!Min
<1>3. PICK seg \in Segments!Segs :
         /\ seg \in s8.left
         /\ s8' = [s8 EXCEPT !.left = @ \ {seg}]
         /\ IF Segments!Due(seg) THEN Segments!Begin("compaction", seg) ELSE UNCHANGED <<s7, s5>>
  BY <1>1, <1>2 DEF Segments!Inspect
<1>4. /\ s8' \in [now : Nat, left : SUBSET Segments!Segs] /\ s8' # Segments!None
      /\ s8'.now = s8.now /\ s8'.left = s8.left \ {seg}
  <2>1. /\ s8' \in [now : Nat, left : SUBSET Segments!Segs]
        /\ s8'.now = s8.now /\ s8'.left = s8.left \ {seg}
    BY <1>1, <1>3
  <2>2. QED BY <2>1, NoneDiffers
<1>5. s6' \in Seq(Segments!Segs)
      /\ \A s \in Segments!Segs, k \in DOMAIN s6' : s6'[k] = s => Segments!Sealed(s)
  BY <1>1 DEF Segments!SegmentsTypeOK, Segments!OnlySealedTaken
<1>6. CASE Segments!Due(seg)
  <2>1. s4[seg].there /\ Segments!Quiet(s4[seg].mtime) /\ Segments!Begin("compaction", seg)
    BY <1>3, <1>6 DEF Segments!Due
  <2>2. Segments!Sealed(seg)
    BY <1>1, <1>3, <2>1, QuietIsSealed DEF Segments!OnlySealedTaken
  <2>3. s8'.now <= s1
    BY <1>1, <1>4 DEF Segments!TimesAgree
  <2>4. /\ Segments!SegmentsTypeOK' /\ Segments!TimesAgree' /\ Segments!OnlySealedTaken'
        /\ Segments!CopyIsThere' /\ Segments!LeftIsThere'
        /\ \A s \in Segments!Segs, other \in Segments!Compressors :
              Segments!JobOn(other, s) => Segments!JobOn(other, s)'
        /\ Segments!JobOn("compaction", seg)'
    <3>1. s7["compaction"] = Segments!None /\ UNCHANGED <<s1, s2, s3, s4, s9>>
      BY <1>1
    <3>2. s8' \in {Segments!None} \cup [now : Nat, left : SUBSET Segments!Segs]
          /\ (s8' # Segments!None => s8'.now <= s1)
      BY <1>4, <2>3
    <3> HIDE DEF Segments!SegmentsInv
    <3>3. QED BY <1>1, <1>5, <2>1, <2>2, <3>1, <3>2, SegmentsBegin
  <2>5. Segments!ScanComesToAll'
    <3>1. ASSUME NEW s \in Segments!Segs, s4[s].there, s8.now - s4[s].mtime >= Grace
          PROVE  s \in s8.left \ {seg} \/ Segments!JobOn("compaction", s)'
      <4>1. s \in s8.left \/ Segments!JobOn("compaction", s)
        BY <1>1, <3>1 DEF Segments!ScanComesToAll, Segments!Quiet
      <4>2. QED BY <2>4, <4>1, <1>1 DEF Segments!Compressors
    <3>2. s4' = s4
      BY <1>1
    <3>3. QED BY <1>4, <3>1, <3>2 DEF Segments!ScanComesToAll, Segments!Quiet
  <2>6. QED BY <2>4, <2>5
<1>7. CASE ~Segments!Due(seg)
  <2>1. UNCHANGED <<s1, s2, s3, s4, s5, s6, s7, s9>>
    BY <1>1, <1>3, <1>7
  <2>2. Segments!ScanComesToAll'
    BY <1>1, <1>4, <1>7, <2>1 DEF Segments!ScanComesToAll, Segments!Quiet, Segments!Due, Segments!JobOn
  <2>3. Segments!SegmentsTypeOK'
    BY <1>4, <2>1 DEF Segments!SegmentsTypeOK
  <2>4. Segments!TimesAgree'
    BY <1>1, <1>4, <2>1 DEF Segments!TimesAgree, Segments!Created
  <2>5. QED BY <2>1, <2>2, <2>3, <2>4 DEF Segments!OnlySealedTaken, Segments!Created, Segments!Sealed,
               Segments!CopyIsThere, Segments!LeftIsThere, Segments!Copying, Segments!Copies, Segments!JobOn, Segments!Expired
<1>8. QED BY <1>6, <1>7

LEMMA SegmentsCopied ==
    ASSUME Segments!SegmentsInv, NEW who \in Segments!Compressors, Segments!Copied(who)
    PROVE  Segments!SegmentsInv'
<1> USE DEF Segments!SegmentsInv
<1>1. PICK seg \in Segments!Segs :
      /\ s7[who] # Segments!None /\ s7[who].step = "copy" /\ s7[who].seg = seg
      /\ s5' = IF s5[seg].owner = who
               THEN [s5 EXCEPT ![seg] = [state |-> "whole", owner |-> who,
                                         has |-> s4[seg].kept, mtime |-> s1]]
               ELSE s5
      /\ s7' = [s7 EXCEPT ![who].step = "remove"]
      /\ UNCHANGED <<s1, s2, s3, s4, s6, s8, s9>>
  BY SegmentParts DEF Segments!Copied
<1>2. /\ s5 \in [Segments!Segs -> [state : {"none", "partial", "whole"},
                            owner : Segments!Compressors, has : SUBSET Nat, mtime : Nat]]
      /\ s7 \in [Segments!Compressors -> {Segments!None} \cup [seg : Segments!Segs, step : {"copy", "remove"}]]
      /\ s1 \in Nat /\ s4[seg].kept \in SUBSET Nat
      /\ s7[who] \in [seg : Segments!Segs, step : {"copy", "remove"}]
  BY <1>1, SegmentParts DEF Segments!SegmentsTypeOK
<1> DEFINE next == [s7[who] EXCEPT !.step = "remove"]
<1>3. /\ next \in [seg : Segments!Segs, step : {"copy", "remove"}] /\ next # Segments!None
      /\ next.seg = seg /\ next.step = "remove"
      /\ s7' = [s7 EXCEPT ![who] = next]
  <2>1. next \in [seg : Segments!Segs, step : {"copy", "remove"}]
        /\ next.seg = seg /\ next.step = "remove"
    BY <1>1, <1>2
  <2>2. QED BY <1>1, <2>1, NoneDiffers
<1> HIDE DEF next
<1>4. /\ s7'[who].seg = seg /\ s7'[who].step = "remove" /\ s7'[who] # Segments!None
      /\ \A other \in Segments!Compressors \ {who} : s7'[other] = s7[other]
  BY <1>2, <1>3
<1>5. /\ \A s \in Segments!Segs \ {seg} : s5'[s] = s5[s]
      /\ s5[seg].owner = who =>
            /\ s5'[seg].state = "whole" /\ s5'[seg].mtime = s1
            /\ s5'[seg].has = s4[seg].kept
      /\ s5[seg].owner # who => s5'[seg] = s5[seg]
      /\ s5' \in [Segments!Segs -> [state : {"none", "partial", "whole"},
                             owner : Segments!Compressors, has : SUBSET Nat, mtime : Nat]]
  BY <1>1, <1>2
<1>6. Segments!SegmentsTypeOK'
  <2>1. s7' \in [Segments!Compressors -> {Segments!None} \cup [seg : Segments!Segs, step : {"copy", "remove"}]]
    BY <1>2, <1>3
  <2>2. QED BY <1>1, <1>5, <2>1 DEF Segments!SegmentsTypeOK
<1>7. Segments!JobOn(who, seg) /\ Segments!Sealed(seg)
  BY <1>1 DEF Segments!JobOn, Segments!OnlySealedTaken
<1>8. /\ \A s \in Segments!Segs, other \in Segments!Compressors :
            Segments!JobOn(other, s)' <=> Segments!JobOn(other, s)
      /\ \A s \in Segments!Segs : s # seg => (Segments!Copying(s)' <=> Segments!Copying(s))
      /\ s5[seg].owner # who => (Segments!Copying(seg)' <=> Segments!Copying(seg))
  BY <1>1, <1>4, <1>5 DEF Segments!JobOn, Segments!Copying, Segments!Copies
<1>9. Segments!Created' = Segments!Created /\ (\A s \in Segments!Created : s \in Segments!Segs)
      /\ \A s \in Segments!Segs : (Segments!Sealed(s)' <=> Segments!Sealed(s)) /\ (Segments!Expired(s)' <=> Segments!Expired(s))
  BY <1>1 DEF Segments!Created, Segments!Sealed, Segments!Expired
<1>10. Segments!TimesAgree'
  BY <1>1, <1>9 DEF Segments!TimesAgree
<1>11. Segments!OnlySealedTaken'
  <2>1. ASSUME NEW s \in Segments!Segs, s5'[s].state # "none"
        PROVE  Segments!Sealed(s) /\ s4[s].mtime <= s5'[s].mtime
    <3>1. CASE s5'[s] = s5[s]
      BY <2>1, <3>1 DEF Segments!OnlySealedTaken
    <3>2. CASE s5'[s] # s5[s]
      <4>1. s = seg /\ s5'[seg].mtime = s1
        BY <1>5, <3>2
      <4>2. QED BY <1>7, <4>1 DEF Segments!TimesAgree
    <3>3. QED BY <3>1, <3>2
  <2>2. QED BY <1>1, <1>8, <1>9, <2>1 DEF Segments!OnlySealedTaken
<1>12. Segments!CopyIsThere'
  <2>1. ASSUME NEW s \in Segments!Segs, s5'[s].state = "whole"
        PROVE  s4[s].kept \subseteq s5'[s].has
    BY <1>5, <2>1 DEF Segments!CopyIsThere
  <2>2. ASSUME NEW s \in Segments!Created, s \notin s9,
               ~s4[s].there \/ \E other \in Segments!Compressors : Segments!JobOn(other, s)
        PROVE  s5'[s].state = "whole" \/ Segments!Copying(s)' \/ Segments!Expired(s)
    <3>1. s5[s].state = "whole" \/ Segments!Copying(s) \/ Segments!Expired(s)
      BY <2>2 DEF Segments!CopyIsThere
    <3>2. QED BY <1>5, <1>8, <1>9, <2>2, <3>1
  <2>3. QED BY <1>1, <1>8, <1>9, <2>1, <2>2 DEF Segments!CopyIsThere
<1>13. Segments!LeftIsThere'
  BY <1>1, <1>5, <1>8 DEF Segments!LeftIsThere
<1>14. Segments!ScanComesToAll'
  BY <1>1, <1>8 DEF Segments!ScanComesToAll, Segments!Quiet, Segments!Compressors
<1>15. QED BY <1>6, <1>10, <1>11, <1>12, <1>13, <1>14

\* A compressor that is gone had not been copying what nobody else has.
LEMMA JobEnds ==
    ASSUME Segments!SegmentsInv, NEW who \in Segments!Compressors,
           s7' = [s7 EXCEPT ![who] = Segments!None]
    PROVE  /\ s7' \in [Segments!Compressors ->
                          {Segments!None} \cup [seg : Segments!Segs, step : {"copy", "remove"}]]
           /\ \A s \in Segments!Segs, other \in Segments!Compressors :
                 Segments!JobOn(other, s)' <=> Segments!JobOn(other, s) /\ other # who
           /\ s5' = s5 => \A s \in Segments!Segs, other \in Segments!Compressors :
                 Segments!Copies(other, s)' <=> Segments!Copies(other, s) /\ other # who
<1>1. s7 \in [Segments!Compressors -> {Segments!None} \cup [seg : Segments!Segs, step : {"copy", "remove"}]]
  BY DEF Segments!SegmentsInv, Segments!SegmentsTypeOK
<1>2. s7'[who] = Segments!None /\ \A other \in Segments!Compressors \ {who} : s7'[other] = s7[other]
  BY <1>1
<1>3. QED BY <1>1, <1>2 DEF Segments!JobOn, Segments!Copies

LEMMA SegmentsRemoved ==
    ASSUME Segments!SegmentsInv, NEW who \in Segments!Compressors, Segments!Removed(who)
    PROVE  Segments!SegmentsInv'
<1> USE DEF Segments!SegmentsInv
<1>1. PICK seg \in Segments!Segs :
      /\ s7[who] # Segments!None /\ s7[who].step = "remove" /\ s7[who].seg = seg
      /\ s4' = [s4 EXCEPT ![seg].there = FALSE]
      /\ s7' = [s7 EXCEPT ![who] = Segments!None]
      /\ UNCHANGED <<s1, s2, s3, s5, s6, s8, s9>>
  BY SegmentParts DEF Segments!Removed
<1>2. /\ s4 \in [Segments!Segs -> [there : BOOLEAN, kept : SUBSET Nat,
                           buffered : SUBSET Nat, mtime : Nat \cup {Segments!Never}]]
  BY DEF Segments!SegmentsTypeOK
<1>3. /\ s4' \in [Segments!Segs -> [there : BOOLEAN, kept : SUBSET Nat,
                           buffered : SUBSET Nat, mtime : Nat \cup {Segments!Never}]]
      /\ ~s4'[seg].there
      /\ \A s \in Segments!Segs :
            /\ s # seg => s4'[s].there = s4[s].there
            /\ s4'[s].kept = s4[s].kept /\ s4'[s].mtime = s4[s].mtime
            /\ s4'[s].buffered = s4[s].buffered
  BY ZenonT(60), <1>1, <1>2
<1>4. Segments!JobOn(who, seg) /\ Segments!Sealed(seg) /\ ~Segments!Copies(who, seg)
      /\ \A s \in Segments!Segs : ~Segments!Copies(who, s)
  BY <1>1 DEF Segments!JobOn, Segments!Copies, Segments!OnlySealedTaken
<1>5. /\ s7' \in [Segments!Compressors ->
                     {Segments!None} \cup [seg : Segments!Segs, step : {"copy", "remove"}]]
      /\ \A s \in Segments!Segs, other \in Segments!Compressors :
            /\ Segments!JobOn(other, s)' => Segments!JobOn(other, s)
            /\ Segments!Copies(other, s)' <=> Segments!Copies(other, s)
            /\ Segments!JobOn(other, s) => Segments!JobOn(other, s)' \/ s = seg
  BY <1>1, <1>4, JobEnds DEF Segments!JobOn
<1>6. \A s \in Segments!Segs : Segments!Copying(s)' <=> Segments!Copying(s)
  BY <1>5 DEF Segments!Copying
<1>7. Segments!Created' = Segments!Created /\ (\A s \in Segments!Created : s \in Segments!Segs)
      /\ \A s \in Segments!Segs : (Segments!Sealed(s)' <=> Segments!Sealed(s)) /\ (Segments!Expired(s)' <=> Segments!Expired(s))
  BY <1>1, <1>3 DEF Segments!Created, Segments!Sealed, Segments!Expired
<1>8. Segments!SegmentsTypeOK'
  BY <1>1, <1>3, <1>5 DEF Segments!SegmentsTypeOK
<1>9. Segments!TimesAgree'
  <2>1. s3 # Segments!None => s3.seg \in Segments!Segs
    BY SegmentParts
  <2>2. QED BY <1>1, <1>3, <1>7, <2>1 DEF Segments!TimesAgree
<1>10. Segments!OnlySealedTaken'
  BY <1>1, <1>3, <1>4, <1>5, <1>7 DEF Segments!OnlySealedTaken
<1>11. Segments!CopyIsThere'
  <2>1. ASSUME NEW s \in Segments!Created, s \notin s9,
               ~s4'[s].there \/ \E other \in Segments!Compressors : Segments!JobOn(other, s)'
        PROVE  s5[s].state = "whole" \/ Segments!Copying(s) \/ Segments!Expired(s)
    <3>1. ~s4[s].there \/ \E other \in Segments!Compressors : Segments!JobOn(other, s)
      BY <1>3, <1>4, <1>5, <1>7, <2>1
    <3>2. QED BY <2>1, <3>1 DEF Segments!CopyIsThere
  <2>2. QED BY <1>1, <1>3, <1>6, <1>7, <2>1 DEF Segments!CopyIsThere
<1>12. Segments!LeftIsThere'
  <2>1. ASSUME NEW s \in Segments!Segs, s \notin s9, s5[s].state = "partial", ~Segments!Copying(s)
        PROVE  s4'[s].there /\ \A other \in Segments!Compressors : ~Segments!JobOn(other, s)'
    <3>1. s4[s].there /\ \A other \in Segments!Compressors : ~Segments!JobOn(other, s)
      BY <2>1 DEF Segments!LeftIsThere
    <3>2. s # seg
      BY <1>4, <3>1
    <3>3. QED BY <1>3, <1>5, <3>1, <3>2
  <2>2. QED BY <1>1, <1>6, <2>1 DEF Segments!LeftIsThere
<1>13. Segments!ScanComesToAll'
  <2>1. ASSUME s8 # Segments!None, NEW s \in Segments!Segs, s4'[s].there, Segments!Quiet(s4'[s].mtime)
        PROVE  s \in s8.left \/ Segments!JobOn("compaction", s)'
    <3>1. s # seg /\ s4[s].there /\ s4[s].mtime = s4'[s].mtime
      BY <1>3, <2>1
    <3>2. QED BY <1>5, <2>1, <3>1 DEF Segments!ScanComesToAll, Segments!Compressors
  <2>2. QED BY <1>1, <2>1 DEF Segments!ScanComesToAll, Segments!Quiet
<1>14. QED BY <1>8, <1>9, <1>10, <1>11, <1>12, <1>13

\* What the retention pass takes away is past its retention; what was begun and
\* left is young.
LEMMA SegmentsRetain ==
    ASSUME Segments!SegmentsInv, Segments!Retain
    PROVE  Segments!SegmentsInv'
<1> USE DEF Segments!SegmentsInv
<1>1. /\ s8 # Segments!None /\ s7["compaction"] = Segments!None /\ s8.left = {} /\ s8' = Segments!None
      /\ s4' = [s \in Segments!Segs |-> IF Segments!TooOld(s4[s].mtime)
                                 THEN [s4[s] EXCEPT !.there = FALSE] ELSE s4[s]]
      /\ s5' = [s \in Segments!Segs |-> IF Segments!TooOld(s5[s].mtime)
                                 THEN [s5[s] EXCEPT !.state = "none"] ELSE s5[s]]
      /\ UNCHANGED <<s1, s2, s3, s6, s7, s9>>
  BY DEF Segments!Retain
<1>2. /\ s4 \in [Segments!Segs -> [there : BOOLEAN, kept : SUBSET Nat,
                           buffered : SUBSET Nat, mtime : Nat \cup {Segments!Never}]]
      /\ s5 \in [Segments!Segs -> [state : {"none", "partial", "whole"},
                            owner : Segments!Compressors, has : SUBSET Nat, mtime : Nat]]
      /\ s1 \in Nat /\ s8.now \in Nat /\ s8.now <= s1 /\ RetainFor \in Nat
  BY <1>1, SegmentParts, SegmentsConstants DEF Segments!SegmentsTypeOK, Segments!TimesAgree
<1>3. ASSUME NEW s \in Segments!Segs
      PROVE  /\ s4'[s] \in [there : BOOLEAN, kept : SUBSET Nat,
                            buffered : SUBSET Nat, mtime : Nat \cup {Segments!Never}]
             /\ s4'[s].there = (s4[s].there /\ ~Segments!TooOld(s4[s].mtime))
             /\ s4'[s].kept = s4[s].kept /\ s4'[s].mtime = s4[s].mtime
             /\ s4'[s].buffered = s4[s].buffered
  BY <1>1, <1>2
<1>4. ASSUME NEW s \in Segments!Segs
      PROVE  /\ s5'[s] \in [state : {"none", "partial", "whole"},
                            owner : Segments!Compressors, has : SUBSET Nat, mtime : Nat]
             /\ s5'[s].state = IF Segments!TooOld(s5[s].mtime) THEN "none" ELSE s5[s].state
             /\ s5'[s].owner = s5[s].owner /\ s5'[s].has = s5[s].has
             /\ s5'[s].mtime = s5[s].mtime
  BY <1>1, <1>2
<1>5. ASSUME NEW time \in Nat, Segments!TooOld(time), NEW s \in Segments!Segs, s4[s].mtime <= time
      PROVE  Segments!Expired(s)
  <2>1. RetainFor > 0 /\ s8.now - time > RetainFor
    BY <1>5 DEF Segments!TooOld
  <2>2. s4[s].mtime \in Nat \/ s4[s].mtime = -1
    BY <1>2 DEF Segments!Never
  <2>3. QED BY <1>2, <1>5, <2>1, <2>2 DEF Segments!Expired
<1>6. \A s \in Segments!Segs, other \in Segments!Compressors :
         (Segments!JobOn(other, s)' <=> Segments!JobOn(other, s))
         /\ (Segments!Copies(other, s)' <=> Segments!Copies(other, s))
  BY <1>1, <1>4 DEF Segments!JobOn, Segments!Copies
<1>7. \A s \in Segments!Segs : Segments!Copying(s)' <=> Segments!Copying(s)
  BY <1>6 DEF Segments!Copying
<1>8. Segments!Created' = Segments!Created /\ (\A s \in Segments!Created : s \in Segments!Segs)
      /\ \A s \in Segments!Segs : (Segments!Sealed(s)' <=> Segments!Sealed(s)) /\ (Segments!Expired(s)' <=> Segments!Expired(s))
  BY <1>1, <1>3 DEF Segments!Created, Segments!Sealed, Segments!Expired
<1>9. Segments!SegmentsTypeOK'
  <2>1. s4' \in [Segments!Segs -> [there : BOOLEAN, kept : SUBSET Nat,
                            buffered : SUBSET Nat, mtime : Nat \cup {Segments!Never}]]
    BY <1>1, <1>3
  <2>2. s5' \in [Segments!Segs -> [state : {"none", "partial", "whole"},
                            owner : Segments!Compressors, has : SUBSET Nat, mtime : Nat]]
    BY <1>1, <1>4
  <2>3. QED BY <1>1, <2>1, <2>2 DEF Segments!SegmentsTypeOK
<1>10. Segments!TimesAgree'
  <2>1. s3 # Segments!None => s3.seg \in Segments!Segs
    BY SegmentParts
  <2>2. QED BY <1>1, <1>3, <1>8, <2>1 DEF Segments!TimesAgree
<1>11. Segments!OnlySealedTaken'
  <2>1. ASSUME NEW s \in Segments!Created PROVE Segments!Sealed(s) \/ s4'[s].there
    <3>1. CASE Segments!TooOld(s4[s].mtime)
      BY <1>1, <3>1, QuietIsSealed DEF Segments!TooOld
    <3>2. CASE ~Segments!TooOld(s4[s].mtime)
      BY <1>3, <1>8, <3>2 DEF Segments!OnlySealedTaken
    <3>3. QED BY <3>1, <3>2
  <2>2. \A s \in Segments!Segs :
           /\ s4'[s].there => s \in Segments!Created
           /\ s \notin Segments!Created => s4'[s].kept = {}
    BY <1>3 DEF Segments!OnlySealedTaken
  <2>3. \A s \in Segments!Segs : s5'[s].state # "none" =>
           Segments!Sealed(s) /\ s4'[s].mtime <= s5'[s].mtime
    <3>1. ASSUME NEW s \in Segments!Segs, s5'[s].state # "none"
          PROVE  s5[s].state # "none"
      BY <1>4, <3>1
    <3>2. QED BY <1>3, <1>4, <3>1 DEF Segments!OnlySealedTaken
  <2>4. \A s \in Segments!Segs, who \in Segments!Compressors : Segments!JobOn(who, s)' => Segments!Sealed(s)'
    BY <1>6, <1>8 DEF Segments!OnlySealedTaken
  <2>5. \A s \in Segments!Segs, k \in DOMAIN s6' : s6'[k] = s => Segments!Sealed(s)'
    BY <1>1, <1>8 DEF Segments!OnlySealedTaken
  <2>6. \A s \in Segments!Created' : Segments!Sealed(s)' \/ s4'[s].there
    BY <1>8, <2>1
  <2>7. \A s \in Segments!Segs :
           /\ s4'[s].there => s \in Segments!Created'
           /\ s \notin Segments!Created' => s4'[s].kept = {}
           /\ s5'[s].state # "none" => Segments!Sealed(s)' /\ s4'[s].mtime <= s5'[s].mtime
    BY <1>8, <2>2, <2>3
  <2> HIDE DEF Segments!SegmentsInv
  <2>8. QED BY <2>4, <2>5, <2>6, <2>7 DEF Segments!OnlySealedTaken
<1>12. Segments!CopyIsThere'
  <2>1. ASSUME NEW s \in Segments!Created, s \notin s9,
               ~s4'[s].there \/ \E who \in Segments!Compressors : Segments!JobOn(who, s)
        PROVE  s5'[s].state = "whole" \/ Segments!Copying(s) \/ Segments!Expired(s)
    <3>0. s \in Segments!Segs /\ s4[s].mtime \in Nat /\ s5[s].mtime \in Nat
          /\ s4[s].mtime <= s4[s].mtime
      BY <1>2, <1>8 DEF Segments!Created, Segments!Never
    <3>1. CASE s4[s].there /\ ~s4'[s].there
      BY <1>3, <1>5, <3>0, <3>1
    <3>2. CASE ~(s4[s].there /\ ~s4'[s].there)
      <4>1. s5[s].state = "whole" \/ Segments!Copying(s) \/ Segments!Expired(s)
        BY <2>1, <3>2 DEF Segments!CopyIsThere
      <4>2. ASSUME s5[s].state = "whole", s5'[s].state # "whole"
            PROVE  Segments!Expired(s)
        <5>1. Segments!TooOld(s5[s].mtime) /\ s4[s].mtime <= s5[s].mtime
          BY <1>4, <3>0, <4>2 DEF Segments!OnlySealedTaken
        <5>2. QED BY <1>5, <3>0, <5>1
      <4>3. QED BY <4>1, <4>2
    <3>3. QED BY <3>1, <3>2
  <2>2. \A s \in Segments!Segs : s5'[s].state = "whole" => s4'[s].kept \subseteq s5'[s].has
    <3>1. ASSUME NEW s \in Segments!Segs, s5'[s].state = "whole"
          PROVE  s4'[s].kept \subseteq s5'[s].has
      <4>1. s5[s].state = "whole"
        BY <1>4, <3>1
      <4>2. QED BY <1>3, <1>4, <4>1 DEF Segments!CopyIsThere
    <3>2. QED BY <3>1
  <2>3. QED BY <1>1, <1>6, <1>7, <1>8, <2>1, <2>2 DEF Segments!CopyIsThere
<1>13. Segments!LeftIsThere'
  <2>1. ASSUME NEW s \in Segments!Segs, s \notin s9, s5'[s].state = "partial", ~Segments!Copying(s)
        PROVE  s4'[s].there /\ \A who \in Segments!Compressors : ~Segments!JobOn(who, s)
    <3>1. s4[s].there /\ \A who \in Segments!Compressors : ~Segments!JobOn(who, s)
      BY <1>4, <2>1 DEF Segments!LeftIsThere
    <3>2. ~Segments!Quiet(s4[s].mtime)
      BY <1>1, <3>1 DEF Segments!ScanComesToAll, Segments!Compressors
    <3>3. QED BY <1>3, <3>1, <3>2 DEF Segments!TooOld
  <2>2. QED BY <1>1, <1>6, <1>7, <2>1 DEF Segments!LeftIsThere
<1>14. Segments!ScanComesToAll'
  BY <1>1 DEF Segments!ScanComesToAll
<1>15. QED BY <1>9, <1>10, <1>11, <1>12, <1>13, <1>14

\* What a dying compressor was copying is there, and nobody else's, or torn.
LEMMA SegmentsDies ==
    ASSUME Segments!SegmentsInv, NEW who \in Segments!Compressors,
           s7' = [s7 EXCEPT ![who] = Segments!None], s9' = s9 \cup Segments!Torn(who),
           UNCHANGED <<s1, s5>>,
           s4' \in [Segments!Segs -> [there : BOOLEAN, kept : SUBSET Nat,
                           buffered : SUBSET Nat, mtime : Nat \cup {Segments!Never}]],
           \A s \in Segments!Segs : s4'[s].there = s4[s].there /\ s4'[s].kept = s4[s].kept
                             /\ s4'[s].mtime = s4[s].mtime
                             /\ (s4[s].buffered = {} => s4'[s].buffered = {}),
           s3' = Segments!None \/ s3' = s3,
           s3' = Segments!None => \A s \in Segments!Segs : s4'[s].buffered = {},
           s6' = s6 \/ s6' = <<>>,
           s8' = s8 \/ s8' = Segments!None, who = "compaction" => s8' = Segments!None, s2' = s2
    PROVE  Segments!SegmentsInv'
<1> USE DEF Segments!SegmentsInv
<1>1. /\ s7' \in [Segments!Compressors ->
                     {Segments!None} \cup [seg : Segments!Segs, step : {"copy", "remove"}]]
      /\ \A s \in Segments!Segs, other \in Segments!Compressors :
            (Segments!JobOn(other, s)' <=> Segments!JobOn(other, s) /\ other # who)
            /\ (Segments!Copies(other, s)' <=> Segments!Copies(other, s) /\ other # who)
  BY JobEnds
<1>2. ASSUME NEW s \in Segments!Segs, s \notin s9', Segments!Copies(who, s)
      PROVE  s4[s].there /\ \A other \in Segments!Compressors \ {who} : ~Segments!JobOn(other, s)
  BY <1>2 DEF Segments!Torn, Segments!Copies, Segments!JobOn
<1>3. Segments!Torn(who) \subseteq Segments!Segs
  BY SegmentParts DEF Segments!Torn
<1>4. Segments!Created' = Segments!Created /\ (\A s \in Segments!Created : s \in Segments!Segs)
      /\ (\A s \in Segments!Segs : Segments!Sealed(s) => Segments!Sealed(s)')
      /\ \A s \in Segments!Segs : Segments!Expired(s)' <=> Segments!Expired(s)
  BY DEF Segments!Created, Segments!Sealed, Segments!Expired
<1>5. Segments!SegmentsTypeOK'
  <2>1. s6' \in Seq(Segments!Segs)
    <3>1. s6 \in Seq(Segments!Segs)
      BY DEF Segments!SegmentsTypeOK
    <3>2. <<>> \in Seq(Segments!Segs)
      OBVIOUS
    <3>3. QED BY <3>1, <3>2
  <2>2. s3' \in {Segments!None} \cup [seg : Segments!Segs, since : Nat]
        /\ s8' \in {Segments!None} \cup [now : Nat, left : SUBSET Segments!Segs]
    BY DEF Segments!SegmentsTypeOK
  <2>3. QED BY <1>1, <1>3, <2>1, <2>2 DEF Segments!SegmentsTypeOK
<1>6. Segments!TimesAgree'
  <2>1. \A s \in Segments!Segs : s4'[s].mtime <= s1
    BY DEF Segments!TimesAgree
  <2>2. s3' # Segments!None =>
            /\ s3' = s3 /\ s3.seg \in Segments!Created /\ s3.seg \in Segments!Segs
            /\ s3.since <= s4'[s3.seg].mtime
    BY SegmentParts DEF Segments!TimesAgree
  <2>3. s8' # Segments!None => s8'.now <= s1
    BY DEF Segments!TimesAgree
  <2>4. \A s \in Segments!Segs : s4'[s].buffered # {} =>
           s3' # Segments!None /\ s3' = s3 /\ s4[s].buffered # {}
    OBVIOUS
  <2>5. QED BY <1>4, <2>1, <2>2, <2>3, <2>4 DEF Segments!TimesAgree
<1>7. Segments!OnlySealedTaken'
  <2>1. \A k \in DOMAIN s6' : k \in DOMAIN s6 /\ s6'[k] = s6[k]
    OBVIOUS
  <2>2. QED BY <1>1, <1>4, <2>1 DEF Segments!OnlySealedTaken
<1>8. Segments!CopyIsThere'
  <2>1. ASSUME NEW s \in Segments!Created, s \notin s9',
               ~s4[s].there \/ \E other \in Segments!Compressors : Segments!JobOn(other, s)'
        PROVE  s5[s].state = "whole" \/ Segments!Copying(s)' \/ Segments!Expired(s)
    <3>1. s5[s].state = "whole" \/ Segments!Copying(s) \/ Segments!Expired(s)
      BY <1>1, <1>4, <2>1 DEF Segments!CopyIsThere
    <3>2. ~Segments!Copies(who, s)
      BY <1>1, <1>2, <1>4, <2>1
    <3>3. QED BY <1>1, <1>4, <3>1, <3>2 DEF Segments!Copying
  <2>2. QED BY <1>4, <2>1 DEF Segments!CopyIsThere
<1>9. Segments!LeftIsThere'
  <2>1. ASSUME NEW s \in Segments!Segs, s \notin s9', s5[s].state = "partial", ~Segments!Copying(s)'
        PROVE  s4[s].there /\ \A other \in Segments!Compressors : ~Segments!JobOn(other, s)'
    <3>1. CASE Segments!Copies(who, s)
      BY <1>1, <1>2, <2>1, <3>1
    <3>2. CASE ~Segments!Copies(who, s)
      <4>1. ~Segments!Copying(s)
        BY <1>1, <2>1, <3>2 DEF Segments!Copying
      <4>2. QED BY <1>1, <2>1, <4>1 DEF Segments!LeftIsThere
    <3>3. QED BY <3>1, <3>2
  <2>2. QED BY <2>1 DEF Segments!LeftIsThere
<1>10. Segments!ScanComesToAll'
  <2>1. ASSUME s8' # Segments!None, NEW s \in Segments!Segs, s4'[s].there, Segments!Quiet(s4'[s].mtime)
        PROVE  s \in s8.left \/ Segments!JobOn("compaction", s)'
    <3>1. s8 # Segments!None /\ who # "compaction"
      BY <2>1
    <3>2. s \in s8.left \/ Segments!JobOn("compaction", s)
      BY <2>1, <3>1 DEF Segments!ScanComesToAll
    <3>3. QED BY <1>1, <3>1, <3>2 DEF Segments!Compressors
  <2>2. QED BY <2>1 DEF Segments!ScanComesToAll, Segments!Quiet
<1>11. QED BY <1>5, <1>6, <1>7, <1>8, <1>9, <1>10

LEMMA SegmentsInit == Segments!Init => Segments!SegmentsInv
<1> SUFFICES ASSUME Segments!Init PROVE Segments!SegmentsInv
  OBVIOUS
<1>1. /\ s1 = 0 /\ s2 = 0 /\ s3 = Segments!None /\ s6 = <<>> /\ s8 = Segments!None /\ s9 = {}
      /\ s4 = [s \in Segments!Segs |->
             [there |-> FALSE, kept |-> {}, buffered |-> {}, mtime |-> Segments!Never]]
      /\ s5 = [s \in Segments!Segs |->
             [state |-> "none", owner |-> "worker", has |-> {}, mtime |-> 0]]
      /\ s7 = [who \in Segments!Compressors |-> Segments!None]
  BY DEF Segments!Init
<1>2. Segments!Created = {} /\ DOMAIN s6 = {} /\ s6 \in Seq(Segments!Segs)
  BY <1>1 DEF Segments!Created
<1>3. Segments!SegmentsTypeOK
  BY <1>1, <1>2 DEF Segments!SegmentsTypeOK, Segments!Compressors
<1>4. QED BY <1>1, <1>2, <1>3 DEF Segments!SegmentsInv, Segments!TimesAgree, Segments!OnlySealedTaken,
      Segments!CopyIsThere, Segments!LeftIsThere, Segments!ScanComesToAll, Segments!JobOn, Segments!Never

LEMMA SegmentsStep ==
    ASSUME Segments!SegmentsInv, [Segments!Next]_(Segments!segVars)
    PROVE  Segments!SegmentsInv'
<1>1. CASE Segments!Write
  BY <1>1, SegmentsWrite
<1>2. CASE Segments!Flush \/ Segments!Tick \/ Segments!StartCompaction
  BY <1>2, SegmentsQuietly
<1>3. CASE Segments!WorkerTakes \/ Segments!Inspect \/ Segments!Retain
  BY <1>3, SegmentsWorkerTakes, SegmentsInspect, SegmentsRetain
<1>4. ASSUME NEW who \in Segments!Compressors, Segments!Copied(who) \/ Segments!Removed(who)
      PROVE  Segments!SegmentsInv'
  BY <1>4, SegmentsCopied, SegmentsRemoved
<1>5. CASE Segments!CollectorDies
  <2>1. /\ s3' = Segments!None /\ s6' = <<>>
        /\ s4' = [s \in Segments!Segs |-> [s4[s] EXCEPT !.buffered = {}]]
        /\ s9' = s9 \cup Segments!Torn("worker")
        /\ s7' = [s7 EXCEPT !["worker"] = Segments!None]
        /\ UNCHANGED <<s1, s2, s5, s8>>
    BY <1>5 DEF Segments!CollectorDies
  <2> DEFINE File == [there : BOOLEAN, kept : SUBSET Nat,
                      buffered : SUBSET Nat, mtime : Nat \cup {Segments!Never}]
  <2>2. s4 \in [Segments!Segs -> File]
    BY DEF Segments!SegmentsInv, Segments!SegmentsTypeOK
  <2>3. \A s \in Segments!Segs : s4'[s] \in File /\ s4'[s].there = s4[s].there
            /\ s4'[s].kept = s4[s].kept
            /\ s4'[s].mtime = s4[s].mtime /\ s4'[s].buffered = {}
    BY <2>1, <2>2
  <2>4. s4' \in [Segments!Segs -> File]
    BY <2>1, <2>3
  <2>5. "worker" \in Segments!Compressors /\ "worker" # "compaction"
    BY DEF Segments!Compressors
  <2>6. QED BY <2>1, <2>3, <2>4, <2>5, SegmentsDies
<1>6. CASE Segments!CompactionDies
  <2>1. /\ s8' = Segments!None /\ s9' = s9 \cup Segments!Torn("compaction")
        /\ s7' = [s7 EXCEPT !["compaction"] = Segments!None]
        /\ UNCHANGED <<s1, s2, s3, s4, s5, s6>>
    BY <1>6 DEF Segments!CompactionDies
  <2>2. "compaction" \in Segments!Compressors
    BY DEF Segments!Compressors
  <2>3. s4' \in [Segments!Segs -> [there : BOOLEAN, kept : SUBSET Nat,
                           buffered : SUBSET Nat, mtime : Nat \cup {Segments!Never}]]
    BY <2>1 DEF Segments!SegmentsInv, Segments!SegmentsTypeOK
  <2>4. s3' = Segments!None => \A s \in Segments!Segs : s4'[s].buffered = {}
    BY <2>1 DEF Segments!SegmentsInv, Segments!TimesAgree
  <2>5. \A s \in Segments!Segs : s4'[s].there = s4[s].there /\ s4'[s].kept = s4[s].kept
                          /\ s4'[s].mtime = s4[s].mtime
                          /\ (s4[s].buffered = {} => s4'[s].buffered = {})
    BY <2>1
  <2>6. QED BY <2>1, <2>2, <2>3, <2>4, <2>5, SegmentsDies
<1>7. CASE UNCHANGED Segments!segVars
  BY <1>7 DEF Segments!segVars, Segments!SegmentsInv, Segments!SegmentsTypeOK, Segments!TimesAgree, Segments!Created,
      Segments!OnlySealedTaken, Segments!CopyIsThere, Segments!LeftIsThere, Segments!ScanComesToAll, Segments!Sealed,
      Segments!JobOn, Segments!Copying, Segments!Copies, Segments!Expired, Segments!Quiet
<1>8. QED BY <1>1, <1>2, <1>3, <1>4, <1>5, <1>6, <1>7 DEF Segments!Next

\* What was flushed can be read: from the segment while that is there, from its
\* whole copy when it is gone.
LEMMA SegmentsSurvive == Segments!SegmentsInv => Segments!RowsSurvive
<1> SUFFICES ASSUME Segments!SegmentsInv, NEW s \in Segments!Segs, s \notin s9
             PROVE  s4[s].kept \subseteq Segments!Readable(s) \/ Segments!BeingCopied(s) \/ Segments!Expired(s)
  BY DEF Segments!RowsSurvive
<1> USE DEF Segments!SegmentsInv
<1>1. CASE s4[s].there \/ s \notin Segments!Created
  BY <1>1 DEF Segments!Readable, Segments!OnlySealedTaken
<1>2. CASE ~s4[s].there /\ s \in Segments!Created
  <2>1. s5[s].state = "whole" \/ Segments!Copying(s) \/ Segments!Expired(s)
    BY <1>2 DEF Segments!CopyIsThere
  <2>2. Segments!Copying(s) => Segments!BeingCopied(s)
    BY DEF Segments!Copying, Segments!Copies, Segments!JobOn, Segments!BeingCopied
  <2>3. s5[s].state = "whole" => s4[s].kept \subseteq Segments!Readable(s)
    BY DEF Segments!Readable, Segments!CopyIsThere
  <2>4. QED BY <2>1, <2>2, <2>3
<1>3. QED BY <1>1, <1>2

\* A compaction that has come to everything has left no half-written copy.
LEMMA CompactionRepairs ==
    ASSUME Segments!SegmentsInv, [Segments!Next]_(Segments!segVars)
    PROVE  Segments!CompactionRepaired
<1> SUFFICES ASSUME s8 # Segments!None, s8' = Segments!None, s7["compaction"] = Segments!None, s8.left = {},
                    NEW s \in Segments!Segs, s \notin s9, s5'[s].state = "partial",
                    ~Segments!BeingCopied(s)
             PROVE  s4'[s].there /\ ~Segments!Quiet(s4[s].mtime)
  BY DEF Segments!CompactionRepaired
<1> USE DEF Segments!SegmentsInv
<1>1. ~Segments!Copying(s)
  BY DEF Segments!Copying, Segments!Copies, Segments!JobOn, Segments!BeingCopied
<1>2. Segments!Retain \/ Segments!CompactionDies
  <2>1. Segments!Inspect => FALSE
    BY DEF Segments!Inspect
  <2>2. Segments!StartCompaction => FALSE
    BY DEF Segments!StartCompaction
  <2>3. UNCHANGED s8 => FALSE
    OBVIOUS
  <2>4. QED BY <2>1, <2>2, <2>3 DEF Segments!Next, Segments!segVars, Segments!Write, Segments!Flush, Segments!Tick,
       Segments!WorkerTakes, Segments!Copied, Segments!Removed, Segments!CollectorDies
<1>3. s5[s].state = "partial" /\ (Segments!TooOld(s4[s].mtime) \/ s4'[s].there = s4[s].there)
  <2>1. CASE Segments!Retain
    <3>1. s4 = [x \in Segments!Segs |-> s4[x]] /\ s5 = [x \in Segments!Segs |-> s5[x]]
      BY DEF Segments!SegmentsTypeOK
    <3>2. /\ s4'[s] = IF Segments!TooOld(s4[s].mtime)
                      THEN [s4[s] EXCEPT !.there = FALSE] ELSE s4[s]
          /\ s5'[s] = IF Segments!TooOld(s5[s].mtime)
                      THEN [s5[s] EXCEPT !.state = "none"] ELSE s5[s]
      BY <2>1 DEF Segments!Retain
    <3>3. s5[s] \in [state : {"none", "partial", "whole"},
                     owner : Segments!Compressors, has : SUBSET Nat, mtime : Nat]
      BY DEF Segments!SegmentsTypeOK
    <3>4. QED BY <3>2, <3>3
  <2>2. CASE Segments!CompactionDies
    BY <2>2 DEF Segments!CompactionDies
  <2>3. QED BY <1>2, <2>1, <2>2
<1>4. s4[s].there /\ \A who \in Segments!Compressors : ~Segments!JobOn(who, s)
  BY <1>1, <1>3 DEF Segments!LeftIsThere
<1>5. ~Segments!Quiet(s4[s].mtime)
  BY <1>4 DEF Segments!ScanComesToAll, Segments!Compressors
<1>6. QED BY <1>3, <1>4, <1>5 DEF Segments!TooOld

-----------------------------------------------------------------------------
(* Settlement labels (SettlementLabels): s1 is the venue, s2 what was seen, *)
(* s3 what was recorded, s4 the features, s5 the jobs, s6 the label rows,   *)
(* s7 the clock.                                                            *)

LEMMA LabelParts ==
    ASSUME Labels!LabelsTypeOK, NEW w \in Labels!Writers
    PROVE  /\ s5[w] \in Labels!LabelJobs
           /\ Len(s6) \in Nat /\ DOMAIN s6 = 1..Len(s6)
           /\ \A i \in DOMAIN s6 : s6[i] \in Labels!LabelRows
<1>1. s6 \in Seq(Labels!LabelRows)
  BY DEF Labels!LabelsTypeOK
<1>2. Len(s6) \in Nat /\ DOMAIN s6 = 1..Len(s6)
  BY <1>1
<1>3. \A i \in 1..Len(s6) : s6[i] \in Labels!LabelRows
  BY <1>1, ElementOfSeq
<1>4. QED BY <1>2, <1>3 DEF Labels!LabelsTypeOK

\* The preferred row of a market is an official one exactly if there is one:
\* an official row is replaced by official rows only.
LEMMA PreferredIsOfficial ==
    ASSUME Labels!LabelsTypeOK, NEW m, NEW k \in Labels!RowsOf(m)
    PROVE  Labels!Preferred(m).status = "OFFICIAL"
              <=> \E i \in Labels!RowsOf(m) : s6[i].status = "OFFICIAL"
<1> DEFINE rows == Labels!RowsOf(m)
           official == {i \in rows : s6[i].status = "OFFICIAL"}
           n == Len(s6)
<1>1. /\ n \in Nat /\ rows \subseteq 1..n
      /\ \A i \in rows : s6[i].status \in {"OFFICIAL", "UNKNOWN"}
  <2>1. "cli" \in Labels!Writers
    BY DEF Labels!Writers
  <2>2. /\ n \in Nat /\ DOMAIN s6 = 1..n
        /\ \A i \in DOMAIN s6 : s6[i] \in Labels!LabelRows
    BY <2>1, LabelParts
  <2>3. QED BY <2>2 DEF Labels!RowsOf, Labels!LabelRows
<1>2. \A i, j \in rows :
         /\ s6[i].status = "OFFICIAL" /\ s6[j].status # "OFFICIAL" =>
               Labels!Better(s6[i], s6[j]) = s6[i]
         /\ s6[j].status = "OFFICIAL" /\ s6[i].status # "OFFICIAL" =>
               Labels!Better(s6[i], s6[j]) = s6[j]
  BY <1>1 DEF Labels!Better, Labels!Priority
<1>3. Labels!Stays(m) = {i \in rows : \A j \in rows :
                      j > i => Labels!Better(s6[i], s6[j]) = s6[i]}
  BY DEF Labels!Stays
<1> HIDE DEF rows, n
<1>4. ASSUME NEW S \in SUBSET rows, S # {}
      PROVE  \E last \in S : \A i \in S : i <= last
  <2> DEFINE T == {n - i : i \in S}
  <2>1. T \in SUBSET Nat /\ T # {}
    <3>1. \A i \in S : n - i \in Nat
      BY <1>1
    <3>2. QED BY <1>4, <3>1
  <2>2. PICK t \in T : \A y \in T : t <= y
    BY <2>1, LeastNatural
  <2>3. PICK last \in S : t = n - last
    BY <2>2
  <2>4. ASSUME NEW i \in S PROVE i <= last
    <3>1. n - last <= n - i
      BY <2>2, <2>3
    <3>2. QED BY <1>1, <3>1
  <2>5. QED BY <2>4
<1>5. Labels!Stays(m) # {} /\ Labels!Stays(m) \in SUBSET Nat
  <2>1. k \in rows
    BY DEF rows
  <2>2. PICK last \in rows : \A i \in rows : i <= last
    BY <1>4, <2>1
  <2>3. last \in Labels!Stays(m)
    BY <1>1, <1>3, <2>2
  <2>4. rows \in SUBSET Nat
    BY <1>1
  <2>5. QED BY <1>3, <2>3, <2>4
<1> DEFINE best == Labels!Min(Labels!Stays(m))
<1>6. best \in Labels!Stays(m) /\ \A i \in Labels!Stays(m) : best <= i
  <2>1. \E x \in Labels!Stays(m) : \A y \in Labels!Stays(m) : x <= y
    BY <1>5, LeastNatural
  <2>2. QED BY <2>1 DEF Labels!Min
<1>7. Labels!Preferred(m) = s6[best]
  BY DEF Labels!Preferred
<1> HIDE DEF best
<1>8. best \in rows /\ \A j \in rows : j > best => Labels!Better(s6[best], s6[j]) = s6[best]
  BY <1>3, <1>6
<1>9. ASSUME official # {} PROVE s6[best].status = "OFFICIAL"
  <2>1. PICK last \in official : \A i \in official : i <= last
    BY <1>4, <1>9
  <2>2. CASE last > best
    BY <1>2, <1>8, <2>1, <2>2
  <2>3. CASE ~(last > best)
    <3>1. ASSUME NEW j \in rows, j > last
          PROVE  Labels!Better(s6[last], s6[j]) = s6[last]
      <4>1. j \notin official
        BY <1>1, <2>1, <3>1
      <4>2. QED BY <1>2, <2>1, <4>1
    <3>2. last \in Labels!Stays(m)
      BY <1>3, <2>1, <3>1
    <3>3. best = last
      BY <1>1, <1>6, <1>8, <2>1, <2>3, <3>2
    <3>4. QED BY <2>1, <3>3
  <2>4. QED BY <2>2, <2>3
<1>10. QED BY <1>7, <1>8, <1>9 DEF rows

LEMMA OfficialFacts ==
    Labels!LabelsTypeOK =>
        \A m : m \in Labels!DedupedOfficial
            <=> \E i \in DOMAIN s6 : s6[i].market = m /\ s6[i].status = "OFFICIAL"
<1> SUFFICES ASSUME Labels!LabelsTypeOK, NEW m
             PROVE  m \in Labels!DedupedOfficial
              <=> \E i \in DOMAIN s6 : s6[i].market = m /\ s6[i].status = "OFFICIAL"
  OBVIOUS
<1>1. m \in Labels!Labelled <=> \E i \in DOMAIN s6 : s6[i].market = m
  BY DEF Labels!Labelled
<1>2. \A i \in DOMAIN s6 : i \in Labels!RowsOf(m) <=> s6[i].market = m
  BY DEF Labels!RowsOf
<1>3. ASSUME NEW k \in DOMAIN s6, s6[k].market = m
      PROVE  Labels!Preferred(m).status = "OFFICIAL"
              <=> \E i \in DOMAIN s6 : s6[i].market = m /\ s6[i].status = "OFFICIAL"
  <2>1. k \in Labels!RowsOf(m)
    BY <1>2, <1>3
  <2>2. Labels!Preferred(m).status = "OFFICIAL"
              <=> \E i \in Labels!RowsOf(m) : s6[i].status = "OFFICIAL"
    BY <2>1, PreferredIsOfficial
  <2>3. Labels!RowsOf(m) \subseteq DOMAIN s6
    BY DEF Labels!RowsOf
  <2>4. QED BY <1>2, <2>2, <2>3
<1>4. QED BY <1>1, <1>3 DEF Labels!DedupedOfficial

LEMMA LabelsInit == Labels!Init => Labels!LabelsInv
<1> SUFFICES ASSUME Labels!Init PROVE Labels!LabelsInv
  OBVIOUS
<1>1. /\ Labels!Idle \in Labels!LabelJobs /\ Labels!Idle.clean = FALSE
      /\ Labels!Idle.answer = "none" /\ <<>> \in Seq(Labels!LabelRows)
  BY DEF Labels!Idle, Labels!LabelJobs
<1>2. QED BY <1>1 DEF Labels!Init, Labels!LabelsInv, Labels!LabelsTypeOK, Labels!OwedIsComing,
                      Labels!Statuses, Labels!Qualities

\* The next market of a backfill is one of those left.
LEMMA NextToDo ==
    ASSUME Labels!LabelsTypeOK, NEW w \in Labels!Writers, s5[w].todo # {}
    PROVE  Labels!Min(s5[w].todo) \in s5[w].todo
<1>1. s5[w].todo \in SUBSET Nat
  BY LabelParts, RecordersAssumption DEF Labels!LabelJobs, Labels!LabelsAssumption
<1>2. \E x \in s5[w].todo : \A y \in s5[w].todo : x <= y
  BY <1>1, LeastNatural
<1>3. QED BY <1>2 DEF Labels!Min

\* A step of one backfill that keeps what it owes, and does not end it.
LEMMA BackfillGoesOn ==
    ASSUME Labels!LabelsInv, NEW w \in Labels!Writers, NEW next \in Labels!LabelJobs,
           s5' = [s5 EXCEPT ![w] = next], UNCHANGED <<s1, s2, s3, s4, s6, s7>>,
           next.active, next.answer # "none" => next.todo # {},
           next.clean => /\ s5[w].clean
                         /\ \A o \in next.owed :
                               Labels!OfficialResult(s1[o]) /\ Labels!IsComing(o, next)
    PROVE  Labels!LabelsInv' /\ Labels!BackfillCaughtUp /\ UNCHANGED <<s4, s6>>
<1> USE DEF Labels!LabelsInv
<1>1. s5 \in [Labels!Writers -> Labels!LabelJobs]
  BY DEF Labels!LabelsTypeOK
<1>2. s5'[w] = next /\ \A v \in Labels!Writers \ {w} : s5'[v] = s5[v]
  BY <1>1
<1>3. Labels!LabelsTypeOK'
  <2>1. s5' \in [Labels!Writers -> Labels!LabelJobs]
    BY <1>1
  <2>2. QED BY <2>1 DEF Labels!LabelsTypeOK
<1>4. Labels!OwedIsComing'
  <2>1. ASSUME NEW v \in Labels!Writers
        PROVE  /\ s5'[v].clean =>
                     /\ v = "cli" /\ s5'[v].active
                     /\ \A o \in s5'[v].owed :
                           Labels!OfficialResult(s1[o]) /\ Labels!IsComing(o, s5'[v])
               /\ s5'[v].answer # "none" => s5'[v].active /\ s5'[v].todo # {}
    <3>1. CASE v = w
      BY <1>2, <3>1 DEF Labels!OwedIsComing
    <3>2. CASE v # w
      BY <1>2, <3>2 DEF Labels!OwedIsComing
    <3>3. QED BY <3>1, <3>2
  <2>2. QED BY <2>1 DEF Labels!OwedIsComing
<1>5. Labels!BackfillCaughtUp
  <2>1. ASSUME NEW v \in Labels!Writers, s5[v].clean PROVE s5'[v].active
    BY <1>2, <2>1 DEF Labels!OwedIsComing
  <2>2. QED BY <2>1 DEF Labels!BackfillCaughtUp
<1>6. QED BY <1>3, <1>4, <1>5

\* A market is read as it is now; one that was decided stays so.
LEMMA LabelsGetMarket ==
    ASSUME Labels!LabelsInv, NEW w \in Labels!Writers, NEW answered \in BOOLEAN,
           Labels!GetMarket(w, answered)
    PROVE  Labels!LabelsInv' /\ Labels!BackfillCaughtUp /\ UNCHANGED <<s4, s6>>
<1> USE DEF Labels!LabelsInv
<1> DEFINE m == Labels!Min(s5[w].todo)
           read == [s5[w] EXCEPT !.answer = s1[m]]
           left == [s5[w] EXCEPT !.todo = @ \ {m}, !.clean = FALSE]
<1>1. /\ s5 \in [Labels!Writers -> Labels!LabelJobs] /\ s5[w] \in Labels!LabelJobs
      /\ s5[w].todo # {} /\ s5[w].active /\ s5[w].answer = "none"
      /\ s1 \in [SettledMarkets -> Labels!Statuses]
      /\ UNCHANGED <<s1, s2, s3, s4, s6, s7>>
  BY DEF Labels!LabelsTypeOK, Labels!GetMarket
<1>2. m \in s5[w].todo /\ m \in SettledMarkets
  BY <1>1, NextToDo DEF Labels!LabelJobs
<1>3. s5' = [s5 EXCEPT ![w] = IF answered THEN read ELSE left]
  BY <1>1 DEF Labels!GetMarket
<1>4. CASE answered
  <2>1. /\ read \in Labels!LabelJobs /\ read.active /\ read.todo = s5[w].todo
        /\ read.owed = s5[w].owed /\ read.clean = s5[w].clean
        /\ read.rows = s5[w].rows /\ read.answer = s1[m]
    BY <1>1, <1>2 DEF Labels!LabelJobs
  <2> HIDE DEF read
  <2>2. ASSUME read.clean, NEW o \in read.owed
        PROVE  Labels!OfficialResult(s1[o]) /\ Labels!IsComing(o, read)
    <3>1. Labels!OfficialResult(s1[o]) /\ Labels!IsComing(o, s5[w])
      BY <2>1, <2>2 DEF Labels!OwedIsComing
    <3>2. QED BY <2>1, <3>1 DEF Labels!IsComing
  <2>3. s5' = [s5 EXCEPT ![w] = read]
    BY <1>3, <1>4
  <2>4. QED BY <1>1, <2>1, <2>2, <2>3, BackfillGoesOn
<1>5. CASE ~answered
  <2>1. /\ left \in Labels!LabelJobs /\ left.active /\ ~left.clean
        /\ left.answer = "none"
    BY <1>1, <1>2 DEF Labels!LabelJobs
  <2> HIDE DEF left
  <2>2. s5' = [s5 EXCEPT ![w] = left]
    BY <1>3, <1>5
  <2>3. QED BY <1>1, <2>1, <2>2, BackfillGoesOn
<1>6. QED BY <1>4, <1>5

\* The row of a result that was read is an official one.
LEMMA LabelsBuildRow ==
    ASSUME Labels!LabelsInv, NEW w \in Labels!Writers, Labels!BuildRow(w)
    PROVE  Labels!LabelsInv' /\ Labels!BackfillCaughtUp /\ UNCHANGED <<s4, s6>>
<1> USE DEF Labels!LabelsInv
<1> DEFINE m == Labels!Min(s5[w].todo)
           open == s5[w].answer = "active"
           lab == [market |-> m, status |-> Labels!LabelStatus(s5[w].answer), at |-> s7]
           rows == IF open THEN s5[w].rows ELSE Append(s5[w].rows, lab)
           next == [s5[w] EXCEPT !.todo = @ \ {m}, !.answer = "none", !.rows = rows]
<1>1. /\ s5 \in [Labels!Writers -> Labels!LabelJobs] /\ s5[w] \in Labels!LabelJobs
      /\ s5[w].answer # "none" /\ s5[w].todo # {} /\ s5[w].active
      /\ s7 \in Nat /\ UNCHANGED <<s1, s2, s3, s4, s6, s7>>
  BY DEF Labels!LabelsTypeOK, Labels!BuildRow, Labels!OwedIsComing
<1>2. m \in s5[w].todo /\ m \in SettledMarkets
  BY <1>1, NextToDo DEF Labels!LabelJobs
<1>3. s5' = [s5 EXCEPT ![w] = next]
  BY <1>1 DEF Labels!BuildRow
<1>4. /\ lab \in Labels!LabelRows /\ lab.market = m
      /\ Labels!OfficialResult(s5[w].answer) => lab.status = "OFFICIAL"
  BY <1>1, <1>2 DEF Labels!LabelRows, Labels!LabelStatus
<1> HIDE DEF m, lab, open
<1>5. /\ rows \in Seq(Labels!LabelRows)
      /\ \A k \in DOMAIN s5[w].rows : k \in DOMAIN rows /\ rows[k] = s5[w].rows[k]
      /\ ~open => \E k \in DOMAIN rows : rows[k] = lab
  <2>1. s5[w].rows \in Seq(Labels!LabelRows)
    BY <1>1 DEF Labels!LabelJobs
  <2> DEFINE old == s5[w].rows
             new == Append(old, lab)
  <2>2. /\ new \in Seq(Labels!LabelRows) /\ Len(old) \in Nat /\ Len(new) = Len(old) + 1
        /\ \A j \in 1..Len(old) : new[j] = old[j]
        /\ new[Len(old) + 1] = lab
    BY <1>4, <2>1, AppendProperties
  <2>3. DOMAIN old = 1..Len(old) /\ DOMAIN new = 1..Len(old) + 1
    BY <2>1, <2>2
  <2> HIDE DEF old, new
  <2>4. rows = IF open THEN old ELSE new
    BY DEF old, new
  <2>5. old = s5[w].rows
    BY DEF old
  <2> HIDE DEF rows
  <2>6. QED BY SMTT(30), <2>1, <2>2, <2>3, <2>4, <2>5
<1> HIDE DEF rows
<1>6. /\ next \in Labels!LabelJobs /\ next.todo = s5[w].todo \ {m} /\ next.rows = rows
      /\ next.owed = s5[w].owed /\ next.clean = s5[w].clean
      /\ next.active /\ next.answer = "none"
  BY <1>1, <1>5 DEF Labels!LabelJobs
<1> HIDE DEF next
<1>7. ASSUME next.clean, NEW o \in next.owed
      PROVE  Labels!OfficialResult(s1[o]) /\ Labels!IsComing(o, next)
  <2>1. Labels!OfficialResult(s1[o]) /\ Labels!IsComing(o, s5[w])
    BY <1>6, <1>7 DEF Labels!OwedIsComing
  <2>2. CASE \E k \in DOMAIN s5[w].rows :
                s5[w].rows[k].market = o /\ s5[w].rows[k].status = "OFFICIAL"
    BY <1>5, <1>6, <2>1, <2>2 DEF Labels!IsComing
  <2>3. CASE o \in s5[w].todo /\ o # m
    BY <1>6, <2>1, <2>3 DEF Labels!IsComing
  <2>4. CASE o = m /\ Labels!OfficialResult(s5[w].answer)
    <3>1. ~open
      BY <2>4 DEF Labels!OfficialResult, open
    <3>2. \E k \in DOMAIN rows : rows[k].market = o /\ rows[k].status = "OFFICIAL"
      BY <1>4, <1>5, <2>4, <3>1
    <3>3. QED BY <1>6, <2>1, <3>2 DEF Labels!IsComing
  <2>5. QED BY <1>1, <2>1, <2>2, <2>3, <2>4 DEF Labels!IsComing, m
<1>8. QED BY <1>1, <1>3, <1>6, <1>7, BackfillGoesOn

\* What was written is added to, and what the command owed is among it.
LEMMA LabelsWrite ==
    ASSUME Labels!LabelsInv, NEW w \in Labels!Writers, Labels!WriteLabels(w)
    PROVE  /\ Labels!LabelsInv' /\ UNCHANGED s4
           /\ \A i \in DOMAIN s6 : i \in DOMAIN s6' /\ s6'[i] = s6[i]
           /\ \A v \in Labels!Writers : s5[v].clean /\ s5[v].todo = {} /\ ~s5'[v].active =>
                 s5[v].owed \subseteq Labels!DedupedOfficial'
<1> USE DEF Labels!LabelsInv
<1> DEFINE rows == s5[w].rows
<1>1. /\ s5 \in [Labels!Writers -> Labels!LabelJobs] /\ s5[w] \in Labels!LabelJobs /\ s6 \in Seq(Labels!LabelRows)
      /\ s5[w].todo = {} /\ s6' = s6 \o rows /\ s5' = [s5 EXCEPT ![w] = Labels!Idle]
      /\ UNCHANGED <<s1, s2, s3, s4, s7>>
  BY DEF Labels!LabelsTypeOK, Labels!WriteLabels
<1>2. rows \in Seq(Labels!LabelRows) /\ Len(rows) \in Nat /\ DOMAIN rows = 1..Len(rows)
      /\ Len(s6) \in Nat /\ DOMAIN s6 = 1..Len(s6)
  BY <1>1 DEF Labels!LabelJobs
<1>3. /\ Labels!Idle \in Labels!LabelJobs /\ Labels!Idle.clean = FALSE
      /\ Labels!Idle.answer = "none"
  BY DEF Labels!Idle, Labels!LabelJobs
<1> HIDE DEF rows
<1>4. /\ s6' \in Seq(Labels!LabelRows) /\ Len(s6') = Len(s6) + Len(rows)
      /\ \A i \in 1..Len(s6) + Len(rows) :
            s6'[i] = IF i <= Len(s6) THEN s6[i] ELSE rows[i - Len(s6)]
  BY <1>1, <1>2, ConcatProperties
<1>5. DOMAIN s6' = 1..Len(s6) + Len(rows)
  BY <1>4
<1>6. /\ \A i \in DOMAIN s6 : i \in DOMAIN s6' /\ s6'[i] = s6[i]
      /\ \A k \in DOMAIN rows : \E i \in DOMAIN s6' : s6'[i] = rows[k]
  <2>1. ASSUME NEW k \in DOMAIN rows
        PROVE  \E i \in DOMAIN s6' : s6'[i] = rows[k]
    <3>1. Len(s6) + k \in DOMAIN s6' /\ s6'[Len(s6) + k] = rows[k]
      BY <1>2, <1>4, <1>5
    <3>2. QED BY <3>1
  <2>2. QED BY <1>2, <1>4, <1>5, <2>1
<1>7. s5'[w] = Labels!Idle /\ \A v \in Labels!Writers \ {w} : s5'[v] = s5[v]
  BY <1>1
<1>8. Labels!LabelsTypeOK'
  BY <1>1, <1>3, <1>4 DEF Labels!LabelsTypeOK
<1>9. Labels!OwedIsComing'
  BY <1>1, <1>3, <1>7 DEF Labels!OwedIsComing, Labels!OfficialResult
<1>10. (Labels!LabelsTypeOK =>
         \A m : m \in Labels!DedupedOfficial
          <=> \E i \in DOMAIN s6 : s6[i].market = m /\ s6[i].status = "OFFICIAL")'
  BY OfficialFacts, PTL
<1>11. ASSUME NEW v \in Labels!Writers, s5[v].clean, s5[v].todo = {}, ~s5'[v].active,
              NEW o \in s5[v].owed
       PROVE  o \in Labels!DedupedOfficial'
  <2>1. /\ s5[v].active
        /\ \E k \in DOMAIN s5[v].rows :
              s5[v].rows[k].market = o /\ s5[v].rows[k].status = "OFFICIAL"
    BY <1>11 DEF Labels!OwedIsComing, Labels!IsComing
  <2>2. v = w
    BY <1>7, <1>11, <2>1
  <2>3. \E k \in DOMAIN rows : rows[k].market = o /\ rows[k].status = "OFFICIAL"
    BY <2>1, <2>2 DEF rows
  <2>4. \E i \in DOMAIN s6' : s6'[i].market = o /\ s6'[i].status = "OFFICIAL"
    BY <1>6, <2>3
  <2>5. QED BY <1>8, <1>10, <2>4
<1>12. QED BY <1>1, <1>6, <1>8, <1>9, <1>11

\* What the other steps leave of a backfill that has been clean.
LEMMA LabelsUntouched ==
    ASSUME Labels!LabelsInv, s5' = s5
    PROVE  Labels!BackfillCaughtUp
BY DEF Labels!LabelsInv, Labels!BackfillCaughtUp, Labels!OwedIsComing

LEMMA LabelsDiscover ==
    ASSUME Labels!LabelsInv, NEW m \in SettledMarkets, Labels!Discover(m)
    PROVE  Labels!LabelsInv' /\ Labels!BackfillCaughtUp /\ UNCHANGED <<s4, s6>>
<1> USE DEF Labels!LabelsInv
<1>1. s2' \subseteq SettledMarkets /\ UNCHANGED <<s1, s3, s4, s5, s6, s7>>
  BY DEF Labels!Discover, Labels!LabelsTypeOK
<1>2. Labels!LabelsTypeOK' /\ Labels!OwedIsComing'
  BY <1>1 DEF Labels!LabelsTypeOK, Labels!OwedIsComing, Labels!OfficialResult
<1>3. QED BY <1>1, <1>2, LabelsUntouched

\* A result that is known stays known.
LEMMA LabelsSettle ==
    ASSUME Labels!LabelsInv, NEW m \in SettledMarkets, Labels!Settle(m)
    PROVE  Labels!LabelsInv' /\ Labels!BackfillCaughtUp /\ UNCHANGED <<s4, s6>>
<1> USE DEF Labels!LabelsInv
<1> DEFINE after == CASE s1[m] = "active" -> "closed"
                      [] s1[m] = "closed" -> "decided"
                      [] s1[m] = "decided" -> "finalized"
<1>1. /\ s1 \in [SettledMarkets -> Labels!Statuses] /\ s1[m] # "finalized"
      /\ s1' = [s1 EXCEPT ![m] = after] /\ UNCHANGED <<s2, s3, s4, s5, s6, s7>>
  BY DEF Labels!Settle, Labels!LabelsTypeOK
<1>2. /\ after \in Labels!Statuses
      /\ Labels!OfficialResult(s1[m]) => Labels!OfficialResult(after)
  BY <1>1 DEF Labels!Statuses, Labels!OfficialResult
<1> HIDE DEF after
<1>3. /\ s1' \in [SettledMarkets -> Labels!Statuses]
      /\ \A o \in SettledMarkets :
            Labels!OfficialResult(s1[o]) => Labels!OfficialResult(s1'[o])
  BY <1>1, <1>2
<1>4. Labels!LabelsTypeOK'
  BY <1>1, <1>3 DEF Labels!LabelsTypeOK
<1>5. Labels!OwedIsComing'
  <2>1. \A w \in Labels!Writers : s5[w].owed \subseteq SettledMarkets
    BY LabelParts DEF Labels!LabelJobs
  <2>2. ASSUME NEW w \in Labels!Writers
        PROVE  /\ s5'[w].clean =>
                     /\ w = "cli" /\ s5'[w].active
                     /\ \A o \in s5'[w].owed :
                           Labels!OfficialResult(s1'[o]) /\ Labels!IsComing(o, s5'[w])
               /\ s5'[w].answer # "none" => s5'[w].active /\ s5'[w].todo # {}
    BY <1>1, <1>3, <2>1 DEF Labels!OwedIsComing
  <2>3. QED BY <2>2 DEF Labels!OwedIsComing
<1>6. QED BY <1>1, <1>4, <1>5, LabelsUntouched

LEMMA LabelsRecord ==
    ASSUME Labels!LabelsInv, NEW m \in SettledMarkets, NEW missing \in SUBSET {"beforeClose"},
           Labels!RecordMarket(m, Labels!Qualities \ missing)
    PROVE  /\ Labels!LabelsInv' /\ Labels!BackfillCaughtUp /\ UNCHANGED s6
           /\ \A o \in SettledMarkets : s4[o] \subseteq s4'[o]
<1> USE DEF Labels!LabelsInv
<1>1. /\ s3' = s3 \cup {m} /\ UNCHANGED <<s1, s2, s5, s6, s7>>
      /\ s4' = [s4 EXCEPT ![m] = @ \cup {Labels!Qualities \ missing}]
  BY DEF Labels!RecordMarket
<1>2. s4 \in [SettledMarkets -> SUBSET SUBSET Labels!Qualities]
  BY DEF Labels!LabelsTypeOK
<1>3. /\ s4' \in [SettledMarkets -> SUBSET SUBSET Labels!Qualities]
      /\ \A o \in SettledMarkets : s4[o] \subseteq s4'[o]
  BY <1>1, <1>2
<1>4. Labels!LabelsTypeOK' /\ Labels!OwedIsComing'
  BY <1>1, <1>3 DEF Labels!LabelsTypeOK, Labels!OwedIsComing, Labels!OfficialResult
<1>5. QED BY <1>1, <1>3, <1>4, LabelsUntouched

\* A restart of the collector ends its own backfill, which owes nothing.
LEMMA LabelsRestart ==
    ASSUME Labels!LabelsInv, Labels!Restart
    PROVE  Labels!LabelsInv' /\ Labels!BackfillCaughtUp /\ UNCHANGED <<s4, s6>>
<1> USE DEF Labels!LabelsInv
<1>1. /\ s2' = {} /\ s5' = [s5 EXCEPT !["collector"] = Labels!Idle]
      /\ UNCHANGED <<s1, s3, s4, s6, s7>>
  BY DEF Labels!Restart
<1>2. s5 \in [Labels!Writers -> Labels!LabelJobs] /\ Labels!Idle \in Labels!LabelJobs
      /\ Labels!Idle.clean = FALSE /\ Labels!Idle.answer = "none"
  BY DEF Labels!LabelsTypeOK, Labels!Idle, Labels!LabelJobs
<1>3. /\ s5' \in [Labels!Writers -> Labels!LabelJobs] /\ s5'["cli"] = s5["cli"]
      /\ s5'["collector"] = Labels!Idle
  BY <1>1, <1>2 DEF Labels!Writers
<1>4. Labels!LabelsTypeOK'
  BY <1>1, <1>3 DEF Labels!LabelsTypeOK
<1>5. Labels!OwedIsComing'
  BY <1>1, <1>2, <1>3 DEF Labels!OwedIsComing, Labels!OfficialResult, Labels!Writers
<1>6. Labels!BackfillCaughtUp
  <2>1. \A w \in Labels!Writers : s5[w].clean => w = "cli" /\ s5'[w].active
    BY <1>3 DEF Labels!OwedIsComing
  <2>2. QED BY <2>1 DEF Labels!BackfillCaughtUp
<1>7. QED BY <1>1, <1>4, <1>5, <1>6

\* Every market the command owes is among those it will read.
LEMMA LabelsBegin ==
    ASSUME Labels!LabelsInv, NEW w \in Labels!Writers, NEW listed \in BOOLEAN,
           Labels!BeginBackfill(w, listed)
    PROVE  Labels!LabelsInv' /\ Labels!BackfillCaughtUp /\ UNCHANGED <<s4, s6>>
<1> USE DEF Labels!LabelsInv
<1> DEFINE todo == Labels!Tickers(w, listed)
           owed == {m \in s3 : Labels!OfficialResult(s1[m])}
           next == [todo |-> todo, answer |-> "none", rows |-> <<>>, owed |-> owed,
                    clean |-> w = "cli", active |-> TRUE]
<1>1. /\ s5 \in [Labels!Writers -> Labels!LabelJobs] /\ ~s5[w].active
      /\ s5' = [s5 EXCEPT ![w] = next] /\ UNCHANGED <<s1, s2, s3, s4, s6, s7>>
  BY DEF Labels!LabelsTypeOK, Labels!BeginBackfill
<1>2. /\ todo \in SUBSET SettledMarkets /\ owed \in SUBSET SettledMarkets
      /\ w = "cli" => owed \subseteq todo
      /\ \A m \in owed : Labels!OfficialResult(s1[m])
  BY DEF Labels!Tickers, Labels!LabelsTypeOK
<1>3. <<>> \in Seq(Labels!LabelRows)
  OBVIOUS
<1> HIDE DEF todo, owed
<1>4. next \in Labels!LabelJobs /\ next.clean = (w = "cli") /\ next.active /\ next.owed = owed
      /\ next.todo = todo /\ next.answer = "none"
  BY <1>2, <1>3 DEF Labels!LabelJobs
<1> HIDE DEF next
<1>5. s5' \in [Labels!Writers -> Labels!LabelJobs] /\ s5'[w] = next
      /\ \A v \in Labels!Writers \ {w} : s5'[v] = s5[v]
  BY <1>1, <1>4
<1>6. Labels!LabelsTypeOK'
  BY <1>1, <1>5 DEF Labels!LabelsTypeOK
<1>7. Labels!OwedIsComing'
  <2>1. ASSUME NEW v \in Labels!Writers
        PROVE  /\ s5'[v].clean =>
                     /\ v = "cli" /\ s5'[v].active
                     /\ \A o \in s5'[v].owed :
                           Labels!OfficialResult(s1[o]) /\ Labels!IsComing(o, s5'[v])
               /\ s5'[v].answer # "none" => s5'[v].active /\ s5'[v].todo # {}
    <3>1. CASE v = w
      BY <1>2, <1>4, <1>5, <3>1 DEF Labels!IsComing
    <3>2. CASE v # w
      BY <1>5, <3>2 DEF Labels!OwedIsComing
    <3>3. QED BY <3>1, <3>2
  <2>2. QED BY <1>1, <2>1 DEF Labels!OwedIsComing
<1>8. Labels!BackfillCaughtUp
  <2>1. ASSUME NEW v \in Labels!Writers, s5[v].clean PROVE s5'[v].active
    BY <1>1, <1>5, <2>1 DEF Labels!OwedIsComing
  <2>2. QED BY <2>1 DEF Labels!BackfillCaughtUp
<1>9. QED BY <1>1, <1>6, <1>7, <1>8

\* Rows that are only added to keep every window that counts, and the windows
\* that count are those of the training data.
LEMMA GateIsHeld ==
    ASSUME Labels!LabelsTypeOK, Labels!LabelsTypeOK',
           \A m \in SettledMarkets : s4[m] \subseteq s4'[m],
           \A i \in DOMAIN s6 : i \in DOMAIN s6' /\ s6'[i] = s6[i]
    PROVE  Labels!GateHeld
<1>1. \A m : m \in Labels!DedupedOfficial
          <=> \E i \in DOMAIN s6 : s6[i].market = m /\ s6[i].status = "OFFICIAL"
  BY OfficialFacts
<1>2. (Labels!LabelsTypeOK =>
         \A m : m \in Labels!DedupedOfficial
            <=> \E i \in DOMAIN s6 : s6[i].market = m /\ s6[i].status = "OFFICIAL")'
  BY OfficialFacts, PTL
<1>3. \A m : m \in Labels!DedupedOfficial'
          <=> \E i \in DOMAIN s6' : s6'[i].market = m /\ s6'[i].status = "OFFICIAL"
  BY <1>2
<1>4. Labels!DedupedOfficial \subseteq Labels!DedupedOfficial'
  BY <1>1, <1>3
<1>5. Labels!AuditGate \subseteq Labels!AuditGate'
  BY <1>4 DEF Labels!AuditGate, Labels!UsableMarkets, Labels!FeatureRowUsable
<1>6. Labels!AuditGate' = Labels!DatasetWindows'
  <2>1. Len(s6') \in Nat /\ DOMAIN s6' = 1..Len(s6')
        /\ \A i \in 1..Len(s6') : s6'[i] \in Labels!LabelRows
    <3>1. s6' \in Seq(Labels!LabelRows)
      BY DEF Labels!LabelsTypeOK
    <3>2. QED BY <3>1, ElementOfSeq
  <2>2. Labels!DedupedOfficial' \subseteq SettledMarkets
    BY <1>3, <2>1 DEF Labels!LabelRows
  <2>3. QED BY <2>2 DEF Labels!AuditGate, Labels!DatasetWindows, Labels!UsableMarkets,
                        Labels!FeatureRowUsable, Labels!Qualities
<1>7. QED BY <1>5, <1>6 DEF Labels!GateHeld

LEMMA LabelsStep ==
    ASSUME Labels!LabelsInv, [Labels!Next]_(Labels!vars)
    PROVE  Labels!LabelsInv' /\ Labels!BackfillCaughtUp /\ Labels!GateHeld
<1> DEFINE Kept == /\ \A m \in SettledMarkets : s4[m] \subseteq s4'[m]
                   /\ \A i \in DOMAIN s6 : i \in DOMAIN s6' /\ s6'[i] = s6[i]
<1>1. ASSUME NEW m \in SettledMarkets, Labels!Discover(m) \/ Labels!Settle(m)
      PROVE  Labels!LabelsInv' /\ Labels!BackfillCaughtUp /\ Kept
  BY <1>1, LabelsDiscover, LabelsSettle
<1>2. ASSUME NEW m \in SettledMarkets, NEW missing \in SUBSET {"beforeClose"},
             Labels!RecordMarket(m, Labels!Qualities \ missing)
      PROVE  Labels!LabelsInv' /\ Labels!BackfillCaughtUp /\ Kept
  BY <1>2, LabelsRecord
<1>3. ASSUME Labels!Restart PROVE Labels!LabelsInv' /\ Labels!BackfillCaughtUp /\ Kept
  BY <1>3, LabelsRestart
<1>4. ASSUME NEW w \in Labels!Writers, NEW listed \in BOOLEAN, Labels!BeginBackfill(w, listed)
      PROVE  Labels!LabelsInv' /\ Labels!BackfillCaughtUp /\ Kept
  BY <1>4, LabelsBegin
<1>5. ASSUME NEW w \in Labels!Writers, NEW answered \in BOOLEAN,
             Labels!GetMarket(w, answered) \/ Labels!BuildRow(w)
      PROVE  Labels!LabelsInv' /\ Labels!BackfillCaughtUp /\ Kept
  BY <1>5, LabelsGetMarket, LabelsBuildRow
<1>6. ASSUME NEW w \in Labels!Writers, Labels!WriteLabels(w)
      PROVE  Labels!LabelsInv' /\ Labels!BackfillCaughtUp /\ Kept
  BY <1>6, LabelsWrite DEF Labels!BackfillCaughtUp
<1>7. ASSUME UNCHANGED Labels!vars \/ Labels!Tick
      PROVE  Labels!LabelsInv' /\ Labels!BackfillCaughtUp /\ Kept
  <2>1. UNCHANGED <<s1, s2, s3, s4, s5, s6>> /\ s7' \in {s7, s7 + 1}
    BY <1>7 DEF Labels!vars, Labels!Tick
  <2>2. Labels!LabelsInv'
    BY <2>1 DEF Labels!LabelsInv, Labels!LabelsTypeOK, Labels!OwedIsComing, Labels!OfficialResult
  <2>3. QED BY <2>1, <2>2, LabelsUntouched
<1> HIDE DEF Kept
<1>8. Labels!LabelsInv' /\ Labels!BackfillCaughtUp /\ Kept
  BY <1>1, <1>2, <1>3, <1>4, <1>5, <1>6, <1>7 DEF Labels!Next
<1>9. QED BY <1>8, GateIsHeld DEF Labels!LabelsInv, Kept

-----------------------------------------------------------------------------
(* A behaviour is that of the part `which`, and keeps its invariant.        *)

RecordersInv ==
    /\ FeedInv
    /\ which = "segments" => Segments!SegmentsInv
    /\ which = "poller" => Poller!PollerInv
    /\ which = "collector" => Collector!CollectorInv
    /\ which = "market" => Market!MarketInv
    /\ which = "prints" => Prints!PrintsInv
    /\ which = "labels" => Labels!LabelsInv

LEMMA RecordersInit == AllInit => RecordersInv
<1> SUFFICES ASSUME AllInit PROVE RecordersInv
  OBVIOUS
<1>1. FeedInv
  BY InitInvariant DEF AllInit
<1>2. CASE which = "feed"
  BY <1>1, <1>2 DEF RecordersInv
<1>3. CASE which = "segments"
  BY <1>1, <1>3, SegmentsInit DEF RecordersInv, AllInit
<1>4. CASE which = "poller"
  BY <1>1, <1>4, PollerInit DEF RecordersInv, AllInit
<1>5. CASE which = "collector"
  BY <1>1, <1>5, CollectorInit DEF RecordersInv, AllInit
<1>6. CASE which = "market"
  BY <1>1, <1>6, MarketInit DEF RecordersInv, AllInit
<1>7. CASE which = "prints"
  BY <1>1, <1>7, PrintsInit DEF RecordersInv, AllInit
<1>8. CASE which = "labels"
  BY <1>1, <1>8, LabelsInit DEF RecordersInv, AllInit
<1>9. QED
  BY <1>2, <1>3, <1>4, <1>5, <1>6, <1>7, <1>8 DEF AllInit

\* What RepairsLast says of a step.
Repairs ==
    /\ which = "segments" => Segments!CompactionRepaired
    /\ which = "labels" => Labels!BackfillCaughtUp /\ Labels!GateHeld
    /\ which = "market" => Market!ReferenceIsKept

LEMMA RecordersStep ==
    ASSUME RecordersInv, AllNext
    PROVE  RecordersInv' /\ Repairs
<1>1. FeedInv' /\ which' = which
  <2>1. [Next]_feedVars /\ which' = which
    BY DEF AllNext, From10, From8
  <2>2. QED BY <2>1, FeedStep DEF RecordersInv
<1>2. CASE which = "feed"
  BY <1>1, <1>2 DEF RecordersInv, Repairs
<1>3. CASE which = "segments"
  <2>1. Segments!SegmentsInv /\ [Segments!Next]_(Segments!segVars)
    BY <1>3 DEF RecordersInv, AllNext
  <2>2. QED BY <1>1, <1>3, <2>1, SegmentsStep, CompactionRepairs DEF RecordersInv, Repairs
<1>4. CASE which = "poller"
  <2>1. Poller!PollerInv /\ [Poller!Next]_(Poller!pollVars)
    BY <1>4 DEF RecordersInv, AllNext
  <2>2. QED BY <1>1, <1>4, <2>1, PollerStep DEF RecordersInv, Repairs
<1>5. CASE which = "collector"
  <2>1. Collector!CollectorInv /\ [Collector!Next]_(Collector!colVars)
    BY <1>5 DEF RecordersInv, AllNext
  <2>2. QED BY <1>1, <1>5, <2>1, CollectorStep DEF RecordersInv, Repairs
<1>6. CASE which = "market"
  <2>1. Market!MarketInv /\ [Market!Next]_(Market!vars)
    BY <1>6 DEF RecordersInv, AllNext
  <2>2. QED BY <1>1, <1>6, <2>1, MarketStep DEF RecordersInv, Repairs
<1>7. CASE which = "prints"
  <2>1. Prints!PrintsInv /\ [Prints!Next]_(Prints!vars)
    BY <1>7 DEF RecordersInv, AllNext
  <2>2. QED BY <1>1, <1>7, <2>1, PrintsStep DEF RecordersInv, Repairs
<1>8. CASE which = "labels"
  <2>1. Labels!LabelsInv /\ [Labels!Next]_(Labels!vars)
    BY <1>8 DEF RecordersInv, AllNext
  <2>2. QED BY <1>1, <1>8, <2>1, LabelsStep DEF RecordersInv, Repairs
<1>9. QED
  BY <1>2, <1>3, <1>4, <1>5, <1>6, <1>7, <1>8 DEF AllNext

LEMMA RecordersStutter ==
    RecordersInv /\ UNCHANGED allVars => RecordersInv'
<1> SUFFICES ASSUME RecordersInv, UNCHANGED allVars PROVE RecordersInv'
  OBVIOUS
<1>1. which' = which /\ UNCHANGED feedVars
      /\ UNCHANGED <<s1, s2, s3, s4, s5, s6, s7, s8, s9, s10, s11, s12, s13>>
  BY DEF allVars, ss
<1>2. FeedInv'
  BY <1>1, FeedStep DEF RecordersInv
<1>3. ASSUME which = "segments" PROVE Segments!SegmentsInv'
  <2>1. [Segments!Next]_(Segments!segVars)
    BY <1>1 DEF Segments!segVars
  <2>2. QED BY <1>3, <2>1, SegmentsStep DEF RecordersInv
<1>4. ASSUME which = "poller" PROVE Poller!PollerInv'
  <2>1. [Poller!Next]_(Poller!pollVars)
    BY <1>1 DEF Poller!pollVars
  <2>2. QED BY <1>4, <2>1, PollerStep DEF RecordersInv
<1>5. ASSUME which = "collector" PROVE Collector!CollectorInv'
  <2>1. [Collector!Next]_(Collector!colVars)
    BY <1>1 DEF Collector!colVars
  <2>2. QED BY <1>5, <2>1, CollectorStep DEF RecordersInv
<1>6. ASSUME which = "market" PROVE Market!MarketInv'
  <2>1. [Market!Next]_(Market!vars)
    BY <1>1 DEF Market!vars
  <2>2. QED BY <1>6, <2>1, MarketStep DEF RecordersInv
<1>7. ASSUME which = "prints" PROVE Prints!PrintsInv'
  <2>1. [Prints!Next]_(Prints!vars)
    BY <1>1 DEF Prints!vars
  <2>2. QED BY <1>7, <2>1, PrintsStep DEF RecordersInv
<1>8. ASSUME which = "labels" PROVE Labels!LabelsInv'
  <2>1. [Labels!Next]_(Labels!vars)
    BY <1>1 DEF Labels!vars
  <2>2. QED BY <1>8, <2>1, LabelsStep DEF RecordersInv
<1>9. QED
  BY <1>1, <1>2, <1>3, <1>4, <1>5, <1>6, <1>7, <1>8 DEF RecordersInv

\* Every part keeps its invariant.
THEOREM RecordersInvariant == AllSpec => []RecordersInv
<1>1. RecordersInv /\ [AllNext]_allVars => RecordersInv'
  BY RecordersStep, RecordersStutter
<1>2. QED BY RecordersInit, <1>1, PTL DEF AllSpec

\* Rows that were flushed stay readable until they expire, unless both
\* compressors were at their segment when one died; events that were delivered
\* are taken to the end of the run; trades that the poller or a backfill went
\* past are on disk.
THEOREM NothingEverLost == AllSpec => []NothingIsLost
<1>1. RecordersInv => NothingIsLost
  BY SegmentsSurvive, NothingIsLeftBehind, BackfillsAreComplete
     DEF RecordersInv, NothingIsLost, Prints!PrintsInv
<1>2. QED BY RecordersInvariant, <1>1, PTL

\* The rows of both book sources are about a market that the venue had opened and
\* that had not ended when the receive call or the lookup began; the collector's
\* cycle follows the running market, and scores it while it runs only.
THEOREM CyclesStayTimely == AllSpec => []CyclesAreTimely
<1>1. RecordersInv => CyclesAreTimely
  BY CyclesFollowTheWindow, ScoresInTheWindow
     DEF RecordersInv, FeedInv, CyclesAreTimely, Poller!PollerInv
<1>2. QED BY RecordersInvariant, <1>1, PTL

\* No joined row knows anything received after it, or misses what was taken
\* before it.
THEOREM JoinsArePointInTime == AllSpec => []JoinedPointInTime
<1>1. RecordersInv => JoinedPointInTime
  BY DEF RecordersInv, JoinedPointInTime, Collector!CollectorInv
<1>2. QED BY RecordersInvariant, <1>1, PTL

\* A finished compaction, a clean backfill of the labels and the first answer
\* for a start price leave what they promise, and no later step takes a window
\* from the gate.
THEOREM RepairsAreLasting == AllSpec => RepairsLast
<1>1. RecordersInv /\ [AllNext]_allVars =>
         [/\ which = "segments" => Segments!CompactionRepaired
          /\ which = "labels" => Labels!BackfillCaughtUp /\ Labels!GateHeld
          /\ which = "market" => Market!ReferenceIsKept]_allVars
  BY RecordersStep DEF Repairs
<1>2. QED BY RecordersInvariant, <1>1, PTL DEF AllSpec, RepairsLast
=============================================================================
