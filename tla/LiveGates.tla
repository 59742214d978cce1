------------------------------ MODULE LiveGates ------------------------------
(***************************************************************************)
(* What stands between a decision and a live order, of which there is      *)
(* none: the adapter that refuses, the readiness report and the safety     *)
(* headline that say what is locked, the dry-run payload, and the risk     *)
(* manager with its session accounting (execution/live_kalshi.py,          *)
(* execution/risk.py, live_readiness.py, order_planner.py, config.py,      *)
(* ops.py).  Every command reads the configuration and the files anew;     *)
(* between two of them an operator may change one thing.                   *)
(*                                                                         *)
(* Prices are in thousandths, of a dollar or of a cent as the caller means *)
(* them; sizes are in tenths of a contract.                                *)
(***************************************************************************)
EXTENDS Integers, FiniteSets, Sequences

CONSTANTS
    Require,          \* what a live order needs on file: model, calibrator, ...
    MaxLiveSize, MaxLiveNotional,      \* limits of a live order
    Cents, Quantities,                 \* what an operator may ask for
    MaxOrder, MaxPosition, MaxOpenRisk, MaxPerHour,    \* limits of a session
    Hour, MaxQuoteAge,
    Contracts, Orders,      \* a session's orders: contract, side, size, price
    MaxTime, MaxTrades

None == -1
NoOrder == [price |-> None]

VARIABLES
    on,        \* the switches that are on
    keys,      \* credentials: "none", "unreadable" or "readable"
    onFile,    \* what of Require is there and fit
    session,   \* RiskState: positions, open risk, times of trades
    now

gateVars == <<on, keys, onFile, session, now>>

Switches == {"live", "enabled", "submit", "dryRun", "kill", "manual", "market",
             "limits", "readiness"}
Defaults == {"dryRun", "kill", "manual"}
-----------------------------------------------------------------------------
(* The three places that list what blocks live trading.                    *)

Credentials(unreadable) ==
    IF keys = "none" \/ (keys = "unreadable" /\ unreadable) THEN {"credentials"} ELSE {}
\* AppConfig.live_blockers, which an experiment looks at
ConfigBlockers(s) ==
    ({"live", "enabled", "limits"} \ s) \cup ({"kill"} \cap s) \cup Credentials(FALSE)
\* Mutant: a key that is configured but cannot be read blocks nothing.
AdapterBlockers_anyKey(s) ==
    ({"live", "enabled", "submit"} \ s) \cup ({"dryRun", "kill", "manual"} \cap s)
    \cup Credentials(FALSE)
\* LiveKalshiExecutionAdapter.live_blockers
AdapterBlockers(s) ==
    ({"live", "enabled", "submit"} \ s) \cup ({"dryRun", "kill", "manual"} \cap s)
    \cup Credentials(TRUE)

\* RiskManager.evaluate: the reasons against an order.  ctx is what is known of
\* the market; a check whose input is absent is skipped or, for the metadata and
\* the calibration, fails.
Signed(order) == IF order.side = "BUY" THEN order.size ELSE -order.size
\* Mutant: a trade of exactly an hour ago is forgotten.
Recent_strict(risk) ==
    Cardinality({i \in DOMAIN risk.times : risk.times[i] > now - Hour})
Recent(risk) == Cardinality({i \in DOMAIN risk.times : risk.times[i] >= now - Hour})
NoSession == [positions |-> [c \in Contracts |-> 0], openRisk |-> 0, times |-> <<>>]
Reasons(order, ctx, risk, s) ==
    LET limited == "limits" \in s
        projected == risk.positions[order.contract] + Signed(order)
    IN  {r \in {"kill", "size", "position", "openRisk", "perHour", "stale", "book",
                "metadata", "calibration", "clock"} :
            CASE r = "kill" -> "kill" \in s
              [] r = "size" -> ~limited \/ order.size > MaxOrder
              [] r = "position" ->
                    ~limited \/ projected > MaxPosition \/ -projected > MaxPosition
              [] r = "openRisk" ->
                    ~limited \/ risk.openRisk + order.size * order.price > MaxOpenRisk
              [] r = "perHour" -> ~limited \/ Recent(risk) >= MaxPerHour
              [] r = "stale" -> ctx.bookAge # None /\ ctx.bookAge > MaxQuoteAge
              [] r = "book" -> ctx.bookAge # None /\ ~ctx.bookOk
              [] r = "metadata" -> ~ctx.metadata
              [] r = "calibration" -> ~ctx.calibrated
              [] r = "clock" -> ~ctx.clockOk}
\* Mutant: what is not known is taken to be all right.
NoContext_trusted == [bookAge |-> None, bookOk |-> FALSE, metadata |-> TRUE,
                      calibrated |-> TRUE, clockOk |-> TRUE]
NoContext == [bookAge |-> None, bookOk |-> FALSE, metadata |-> FALSE,
              calibrated |-> FALSE, clockOk |-> TRUE]
-----------------------------------------------------------------------------
(* The dry-run payload.                                                     *)

\* Mutant: half a dollar and above is cents.
NormPrice_half(v, inCents) ==
    IF inCents = "yes" \/ (inCents = "unknown" /\ v > 500) THEN v \div 100 ELSE v
\* _norm_price: cents are divided by 100; without a hint, what is above 1.5 is
\* cents
NormPrice(v, inCents) ==
    IF inCents = "yes" \/ (inCents = "unknown" /\ v > 1500) THEN v \div 100 ELSE v
\* build_dry_run_order_payload for a request: what blocks it, and the price in
\* cents and the count it would carry; int() drops a fraction of a contract
PayloadBlockers(q) ==
    LET price == NormPrice(q.price, q.inCents)
    IN  {b \in {"quantity", "market", "price", "tif", "size", "notional"} :
            CASE b = "quantity" -> q.quantity = None \/ q.quantity <= 0
              [] b = "market" -> q.tif = "market" /\ "market" \notin on
              [] b = "price" -> ~(0 < price /\ price < 1000)
              [] b = "tif" -> q.tif \notin {"fok", "ioc"}
              [] b = "size" -> q.quantity > MaxLiveSize
              [] b = "notional" ->
                    q.quantity # None /\ price * q.quantity > 10 * MaxLiveNotional}
CentsOf(q) == (NormPrice(q.price, q.inCents) + 5) \div 10
Count(q) == q.quantity \div 10
IsValid(q) == PayloadBlockers(q) = {}

\* plan_order: the intent at the ask that was seen, of one contract unless told
\* otherwise, filled or killed if the configuration allows that
Plan(ask, size, allowed) ==
    [price |-> ask, inCents |-> "no", quantity |-> IF size = None THEN 10 ELSE size,
     tif |-> IF "fok" \in allowed \/ allowed = {} THEN "fok" ELSE "ioc"]
-----------------------------------------------------------------------------
(* The readiness report and the headline.                                   *)

\* risk_preflight: the order, or one contract at half a dollar, before a risk
\* manager that knows nothing of the session, the market or the calibration
PreflightReasons(price, size) ==
    Reasons([contract |-> CHOOSE c \in Contracts : TRUE, side |-> "BUY",
             size |-> size, price |-> price], NoContext, NoSession, on)
Preflight(q) ==
    LET price == IF q = NoOrder THEN 500 ELSE NormPrice(q.price, q.inCents)
        size == IF q = NoOrder \/ q.quantity \in {None, 0} THEN 10 ELSE q.quantity
    IN  PreflightReasons(price, size)
            \cup {r \in {"liveSize"} : size > MaxLiveSize}
            \cup {r \in {"liveNotional"} : price * size > 10 * MaxLiveNotional}

\* assess_live_readiness: the codes of what blocks, and the headline state
Codes(q) ==
    {c \in {"LIVE_DISABLED", "KILL_SWITCH_ACTIVE", "MISSING_CREDENTIALS",
            "RISK_BLOCKED", "MANUAL_CONFIRMATION_REQUIRED", "ORDER_PLAN_INVALID"} :
        CASE c = "LIVE_DISABLED" ->
                ~({"live", "enabled", "submit"} \subseteq on) \/ "dryRun" \in on
          [] c = "KILL_SWITCH_ACTIVE" -> "kill" \in on
          [] c = "MISSING_CREDENTIALS" -> keys # "readable"
          [] c = "RISK_BLOCKED" -> Preflight(q) # {}
          [] c = "MANUAL_CONFIRMATION_REQUIRED" -> "manual" \in on
          [] c = "ORDER_PLAN_INVALID" -> q # NoOrder /\ ~IsValid(q)}
    \cup (Require \ onFile)
SwitchStates == {"LIVE_DISABLED", "KILL_SWITCH_ACTIVE", "MANUAL_CONFIRMATION_REQUIRED"}
State(q) ==
    CASE "readiness" \notin on -> "NOT_CONFIGURED"
      [] "readiness" \in on /\ q # NoOrder /\ ~IsValid(q) -> "ORDER_PLAN_INVALID"
      [] "readiness" \in on /\ q # NoOrder /\ IsValid(q) ->
            IF Codes(q) \subseteq SwitchStates THEN "WOULD_SUBMIT_IF_ENABLED"
                                               ELSE "DRY_RUN_READY"
      [] OTHER -> "BLOCKED"       \* the first of the codes, for a reader

\* Mutant: only the submit switch and market orders worry the headline.
Dangerous_unswitched(s) == (s \cap {"submit", "market"}) \cup ({"kill"} \ s)
\* safety_status: the headline is calm if the adapter refuses and nothing of
\* this is set
Dangerous(s) ==
    (s \cap {"enabled", "submit", "market"}) \cup ({"kill"} \ s)
LiveDisabled(s) == AdapterBlockers(s) # {} /\ Dangerous(s) = {}
-----------------------------------------------------------------------------
(* Behaviour: the operator, and a session that records what was approved.   *)

GateInit ==
    /\ on = Defaults /\ keys = "none" /\ onFile = {}
    /\ session = NoSession /\ now = 0
\* A session with the limits set and the kill switch off.
SessionInit ==
    /\ on = {"limits"} /\ keys = "none" /\ onFile = {}
    /\ session = NoSession /\ now = 0

Flipped(s, switch) == IF switch \in s THEN s \ {switch} ELSE s \cup {switch}
Configure(switch) == on' = Flipped(on, switch) /\ UNCHANGED <<keys, onFile, session, now>>
SetKeys(k) == keys' = k /\ UNCHANGED <<on, onFile, session, now>>
\* An artifact or the approval file appears or goes.
Provide(f) == onFile' = Flipped(onFile, f) /\ UNCHANGED <<on, keys, session, now>>

\* evaluate, and record_trade of an order it approved
Trade(order, ctx) ==
    /\ Reasons(order, ctx, session, on) = {}
    /\ Len(session.times) < MaxTrades
    /\ session' =
          [positions |-> [session.positions EXCEPT ![order.contract] =
                             @ + Signed(order)],
           openRisk |-> session.openRisk + order.size * order.price,
           times |-> Append(session.times, now)]
    /\ UNCHANGED <<on, keys, onFile, now>>
Tick == now < MaxTime /\ now' = now + 1 /\ UNCHANGED <<on, keys, onFile, session>>

OperatorNext ==
    \/ \E s \in Switches : Configure(s)
    \/ \E k \in {"none", "unreadable", "readable"} \ {keys} : SetKeys(k)
    \/ \E f \in Require : Provide(f)
\* A market of which all is well, or all but one thing.
Contexts ==
    {[bookAge |-> a, bookOk |-> wrong # "book", metadata |-> wrong # "metadata",
      calibrated |-> wrong # "calibration", clockOk |-> wrong # "clock"] :
        a \in {None, MaxQuoteAge, MaxQuoteAge + 1},
        wrong \in {"none", "book", "metadata", "calibration", "clock"}}
SessionNext == Tick \/ \E o \in Orders, ctx \in Contexts : Trade(o, ctx)
-----------------------------------------------------------------------------
(* Properties.                                                              *)

\* What an operator or a ledger may ask to be planned: a price meant as so many
\* cents; a ledger holds dollars and says so.
Requests ==
    {[meant |-> c, price |-> IF cents THEN 1000 * c ELSE 10 * c,
      inCents |-> h, quantity |-> n, tif |-> t] :
        c \in Cents, cents \in BOOLEAN, h \in {"no", "unknown"},
        n \in Quantities \cup {None}, t \in {"fok", "ioc", "gtc", "market"}}
\* The lists of blockers that three parts of the code keep by themselves agree:
\* the adapter is open exactly when the readiness report (with no order) shows
\* neither a switch nor missing credentials, and then an experiment, with the
\* limits set, sees a configuration that permits live trading and stops.
LocksAgree ==
    /\ AdapterBlockers(on) = {} <=>
          Codes(NoOrder) \cap (SwitchStates \cup {"MISSING_CREDENTIALS"}) = {}
    /\ AdapterBlockers(on) = {} /\ "limits" \in on => ConfigBlockers(on) = {}
\* "LIVE TRADING DISABLED" survives slips: whichever two switches are changed
\* next, the adapter still refuses, and whichever one, an experiment may still
\* run (ops.py).
CalmSurvivesSlips ==
    LiveDisabled(on) => \A s, t \in Switches :
        /\ AdapterBlockers(Flipped(Flipped(on, s), t)) # {}
        /\ ConfigBlockers(Flipped(on, s)) # {}
\* No configuration, no set of files and no order makes the report say that an
\* order would be submitted: the risk manager it asks knows of no calibration.
NothingWouldSubmit ==
    \A q \in Requests \cup {NoOrder} : State(q) # "WOULD_SUBMIT_IF_ENABLED"
\* A plan that is VALID carries the price that was meant, whether it was written
\* in dollars or in cents, and no more contracts than the limits allow at that
\* price; what is planned from an executable ask keeps it.
PlansAsMeant ==
    /\ \A q \in Requests : IsValid(q) =>
          /\ CentsOf(q) = q.meant
          /\ 10 * Count(q) <= MaxLiveSize
          /\ 10 * q.meant * Count(q) <= MaxLiveNotional
    /\ \A c \in Cents, n \in Quantities \cup {None}, allowed \in SUBSET {"fok", "ioc"} :
          LET plan == Plan(10 * c, n, allowed)
          IN  IsValid(plan) => CentsOf(plan) = c
\* What the risk manager approved, taken together: no position beyond its limit,
\* no more trades within any hour than allowed, no more at risk than allowed.
SessionWithinLimits ==
    /\ \A c \in Contracts : session.positions[c] \in -MaxPosition .. MaxPosition
    /\ \A i \in DOMAIN session.times :
          Cardinality({j \in 1 .. i : session.times[j] >= session.times[i] - Hour})
              <= MaxPerHour
    /\ session.openRisk <= MaxOpenRisk

GatesHold ==
    /\ LocksAgree /\ CalmSurvivesSlips /\ NothingWouldSubmit /\ PlansAsMeant
    /\ SessionWithinLimits
=============================================================================
