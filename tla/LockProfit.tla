----------------------------- MODULE LockProfit -----------------------------
(***************************************************************************)
(* Prices, fees and what a paper position is worth (fees.py, the           *)
(* accounting of lock_profit.py), and the decision whether to lock it by   *)
(* buying the opposite leg (evaluate_lock).                                *)
(*                                                                         *)
(* Prices and probabilities are whole cents.  What is worth comparing per  *)
(* contract is multiplied here by the number of contracts of the held leg, *)
(* so that an average cost stays an integer: Worth(..) is that many times  *)
(* the code's profit.  The code compares floating-point numbers; where the *)
(* exact values are equal its answer depends on rounding, so `noise`, the  *)
(* set of comparisons that come out true on equality, is an input.         *)
(***************************************************************************)
EXTENDS Integers, Sequences, FiniteSetsExt

CONSTANTS
    FeeRate,                    \* kalshi.fee_rate, in percent
    MinLock, HardLock, RideMin, \* cents a contract
    MinDepth,                   \* contracts
    AllowPartialLock            \* allow_partial, with mode "ioc"

Sides == {"YES", "NO"}
Other(side) == IF side = "YES" THEN "NO" ELSE "YES"
None == -1

\* round_up_to_cent(rate * contracts * price * (1 - price)); 0 at the ends.
TakerFee(price, contracts) ==
    IF price \in 1 .. 99 /\ contracts > 0
    THEN (FeeRate * contracts * price * (100 - price) + 9999) \div 10000
    ELSE 0

\* On this venue an ask is the complement of the other side's bid.
Ask(book, side) == IF book[Other(side)] = None THEN None
                                               ELSE 100 - book[Other(side)]

Ties == {"min", "hard", "ride", "rideMin", "beats"}
Exceeds(a, b, tie, noise) == a > b \/ (a = b /\ tie \in noise)
-----------------------------------------------------------------------------
(* Positions.                                                              *)

\* The sum of a sequence of numbers.
Total(numbers) ==
    LET upTo[n \in 0 .. Len(numbers)] == IF n = 0 THEN 0 ELSE upTo[n - 1] + numbers[n]
    IN  upTo[Len(numbers)]

\* lots: a sequence of [ticker, side, qty, price, fee], fee being that of the lot.
IsOf(lot, ticker, side) == lot.ticker = ticker /\ lot.side = side
LotCounts(lots, ticker, side) ==
    [i \in DOMAIN lots |-> IF IsOf(lots[i], ticker, side) THEN lots[i].qty ELSE 0]
LotCosts(lots, ticker, side) ==
    [i \in DOMAIN lots |-> IF IsOf(lots[i], ticker, side)
                          THEN lots[i].qty * lots[i].price + lots[i].fee ELSE 0]

\* `naked` contracts of the leg `held` have no counterpart, `locked` ones do.
FromLots(lots, ticker) ==
    LET qty == [side \in Sides |-> Total(LotCounts(lots, ticker, side))]
        held == IF qty["YES"] > qty["NO"] THEN "YES" ELSE "NO"
    IN  [qty |-> qty,
         paid |-> [side \in Sides |-> Total(LotCosts(lots, ticker, side))],
         held |-> held,
         naked |-> qty[held] - qty[Other(held)],
         locked |-> qty[Other(held)]]

Open(pos) == pos.naked > 0

\* What a contract of the held leg brings, compared with what it cost.
Worth(pos, price) == pos.qty[pos.held] * price - pos.paid[pos.held]
Cents(pos, cents) == pos.qty[pos.held] * cents
\* Mutant: the fee of the opposite leg is forgotten.
LockWorth_noFee(pos, ask) == Worth(pos, 100 - ask)
LockWorth(pos, ask) == Worth(pos, 100 - ask - TakerFee(ask, 1))
RideWorth(pos, chance) ==
    Worth(pos, IF pos.held = "YES" THEN chance ELSE 100 - chance)
-----------------------------------------------------------------------------
(* evaluate_lock.  An input names the opposite leg's ask and depth, the    *)
(* calibrated chance of YES, and whether a book is there, old, or too      *)
(* close to the end of its market (ages that are missing pass).            *)

LockRejected(inp) ==
    \/ ~inp.bookOk \/ inp.ask = None
    \/ inp.bookOld \/ inp.tooClose
    \/ inp.askDepth < MinDepth

Lockable(pos, inp, noise) ==
    Exceeds(LockWorth(pos, inp.ask), Cents(pos, MinLock), "min", noise)
HardLockable(pos, inp, noise) ==
    Exceeds(LockWorth(pos, inp.ask), Cents(pos, HardLock), "hard", noise)
RideEdge(pos, inp, noise) ==
    inp.chance # None
    /\ Exceeds(RideWorth(pos, inp.chance), Cents(pos, RideMin), "rideMin", noise)
RideBeatsLock(pos, inp, noise) ==
    /\ RideEdge(pos, inp, noise)
    /\ Exceeds(RideWorth(pos, inp.chance), LockWorth(pos, inp.ask), "ride", noise)

\* Mutant: riding is compared with, the minimum is not.
LockWanted_anyProfit(pos, inp, noise) ==
    inp.chance # None /\ ~RideBeatsLock(pos, inp, noise)

\* Whether to lock at all, before the depth is looked at.
LockWanted(pos, inp, noise) ==
    /\ Lockable(pos, inp, noise)
    /\ \/ HardLockable(pos, inp, noise)
       \/ inp.chance # None /\ ~RideBeatsLock(pos, inp, noise)

NoLock(state) == [state |-> state, qty |-> 0]
EvaluateLock(pos, inp, noise) ==
        CASE pos.qty["YES"] + pos.qty["NO"] = 0 -> NoLock("NO_POSITION")
          [] pos.qty["YES"] + pos.qty["NO"] > 0 /\ ~Open(pos) ->
                NoLock("ALREADY_FULLY_LOCKED")
          [] Open(pos) /\ LockRejected(inp) -> NoLock("REJECTED")
          [] Open(pos) /\ ~LockRejected(inp) /\ LockWanted(pos, inp, noise) ->
                IF inp.askDepth >= pos.naked
                THEN [state |-> "LOCK_FULL", qty |-> pos.naked]
                ELSE IF AllowPartialLock
                THEN [state |-> "LOCK_PARTIAL", qty |-> inp.askDepth]
                ELSE NoLock("REJECTED")
          [] OTHER ->
                IF \/ ~Lockable(pos, inp, noise) /\ RideEdge(pos, inp, noise)
                   \/ Lockable(pos, inp, noise) /\ RideBeatsLock(pos, inp, noise)
                THEN NoLock("RIDE") ELSE NoLock("WATCH")

Locks == {"LOCK_FULL", "LOCK_PARTIAL"}
=============================================================================
