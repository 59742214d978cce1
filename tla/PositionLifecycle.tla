------------------------- MODULE PositionLifecycle -------------------------
(***************************************************************************)
(* What to do with a paper position one holds: sell the held leg, lock it  *)
(* by buying the other, ride it, or watch (position_lifecycle.py).  The    *)
(* lock is valued by the module LockProfit, under the lifecycle's own      *)
(* thresholds.  The thresholds here are compared with a tolerance far      *)
(* below a cent, so only the comparisons with none depend on rounding.     *)
(***************************************************************************)
EXTENDS LockProfit

CONSTANTS
    MinSell, HardSell,      \* cents a contract
    ExitBelow, LockBelow,   \* force_exit / force_lock_when_model_edge_below
    AllowPartialExit

\* An input is one of evaluate_lock with the held leg's bid and the depth
\* behind it, whether the spread is wide, and whether the sources are healthy.
SellFlawed(pos, inp) ==
    \/ ~inp.bookOk \/ inp.bid = None
    \/ inp.bookOld \/ inp.tooClose \/ inp.wide
    \/ inp.bidDepth = 0
    \/ inp.bidDepth < pos.naked /\ ~AllowPartialExit

SameLegExit(pos, inp) ==
    [ok |-> ~SellFlawed(pos, inp),
     qty |-> IF inp.bidDepth < pos.naked THEN inp.bidDepth ELSE pos.naked,
     partial |-> inp.bidDepth < pos.naked]
SellWorth(pos, inp) == Worth(pos, inp.bid - TakerFee(inp.bid, 1))

Decision(act, qty, why) == [act |-> act, qty |-> qty, why |-> why]
Sells == {"SELL_SAME_LEG", "SELL_PARTIAL", "RISK_EXIT"}
Acts == Sells \cup {"LOCK_WITH_OPPOSITE_LEG", "PARTIAL_LOCK"}

\* What may be done, best first: the first rung whose condition holds decides.
Ladder(pos, inp, noise) ==
    LET lock == EvaluateLock(pos, inp, noise)
        exit == SameLegExit(pos, inp)
        priced == ~LockRejected(inp) /\ lock.state # "REJECTED"
                  /\ LockWorth(pos, inp.ask) >= Cents(pos, MinLock)
        sellPays(cents) == exit.ok /\ SellWorth(pos, inp) >= Cents(pos, cents)
        lockPays(cents) == priced /\ LockWorth(pos, inp.ask) >= Cents(pos, cents)
        locks == lock.state \in Locks
        fades(cents) == inp.chance # None
                        /\ RideWorth(pos, inp.chance) < Cents(pos, cents)
        lockBeats == /\ lockPays(MinLock)
                     /\ Exceeds(LockWorth(pos, inp.ask), SellWorth(pos, inp),
                                "beats", noise)
        sellBeats == /\ sellPays(MinSell)
                     /\ Exceeds(SellWorth(pos, inp), LockWorth(pos, inp.ask),
                                "beats", noise)
        rides == /\ inp.chance # None /\ ~fades(RideMin)
                 /\ exit.ok => RideWorth(pos, inp.chance) >= SellWorth(pos, inp)
                 /\ priced => RideWorth(pos, inp.chance) >= LockWorth(pos, inp.ask)
        Sell(why) == Decision(IF exit.partial THEN "SELL_PARTIAL"
                                              ELSE "SELL_SAME_LEG", exit.qty, why)
        Lock(why) == Decision(IF lock.state = "LOCK_PARTIAL" THEN "PARTIAL_LOCK"
                              ELSE "LOCK_WITH_OPPOSITE_LEG", lock.qty, why)
    IN  <<
            [if |-> ~inp.healthy /\ exit.ok,
             do |-> Decision("RISK_EXIT", exit.qty, "SOURCE_UNSAFE_RISK_EXIT")],
            [if |-> ~inp.healthy /\ locks,
             do |-> Lock("SOURCE_UNSAFE_RISK_EXIT")],
            [if |-> ~inp.healthy,
             do |-> Decision("WATCH", 0, "SOURCE_UNSAFE_NO_EXIT")],
            [if |-> sellPays(HardSell), do |-> Sell("HARD_SELL")],
            [if |-> locks /\ lockPays(HardLock), do |-> Lock("HARD_LOCK")],
            [if |-> fades(ExitBelow) /\ sellPays(MinSell),
             do |-> Sell("FORCE_EXIT_MODEL_FADED")],
            [if |-> fades(LockBelow) /\ lockPays(MinLock),
             do |-> Lock("FORCE_LOCK_MODEL_FADED")],
            [if |-> sellPays(MinSell) /\ (inp.chance = None \/ fades(RideMin)),
             do |-> IF lockBeats THEN Lock("CONDITIONAL_LOCK")
                                 ELSE Sell("CONDITIONAL_SELL")],
            [if |-> locks,
             do |-> IF sellBeats THEN Sell("SELL_BEATS_LOCK")
                                 ELSE Lock("CONDITIONAL_LOCK")],
            [if |-> rides, do |-> Decision("RIDE", 0, "RIDE_MODEL_EDGE")],
            [if |-> ~exit.ok /\ ~priced,
             do |-> Decision("REJECTED", 0, "NOTHING_ACTIONABLE")],
            [if |-> TRUE, do |-> Decision("WATCH", 0, IF inp.chance = None
                                          THEN "NO_MODEL_FOR_RIDE"
                                          ELSE "RIDE_NO_BETTER_ACTION")]>>

EvaluateLifecycle(pos, inp, noise) ==
    LET rungs == Ladder(pos, inp, noise)
        first == CHOOSE i \in DOMAIN rungs :
                     rungs[i].if /\ \A j \in 1 .. i - 1 : ~rungs[j].if
    IN  IF pos.qty["YES"] + pos.qty["NO"] = 0
        THEN Decision("NO_POSITION", 0, "NO_POSITION")
        ELSE IF ~Open(pos)
        THEN Decision("ALREADY_FULLY_LOCKED", 0, "ALREADY_FULLY_LOCKED")
        ELSE rungs[first].do
=============================================================================
