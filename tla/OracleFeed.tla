----------------------------- MODULE OracleFeed -----------------------------
(* How a market's oracle price moves: the two direct authority paths, the  *)
(* permissionless Pyth and Lazer paths, the per-slot envelope they all     *)
(* pass, the one-way source lock, and settle_mark                          *)
(* (programs/clober/src/lib.rs, matcher/envelope.rs).                      *)
(*                                                                         *)
(* One clock stands for the slot and for the second.  A print is a price   *)
(* the publisher has signed: it stays valid for ever and anyone may submit *)
(* it at any time, again too.  Prices are in ticks already.  The mark is   *)
(* also blended and banded by fills (apply_fill); here it is only what     *)
(* settle_mark makes of the oracle.                                        *)
EXTENDS Integers, FiniteSets, FiniteSetsExt

CONSTANTS
    Prices,       \* prices in ticks
    Confs,        \* confidence intervals
    Caps,         \* max_price_move_bps_per_slot offered to set_envelope_config
    Windows,      \* max_accrual_dt_slots
    Maintenances, \* maintenance_bps
    LiqFees,      \* liquidation_fee_bps
    MinMm,        \* min_nonzero_mm_req_lots
    MinLiq,       \* min_liquidation_abs_lots
    Unit,         \* BPS_DENOM
    MaxCap,       \* ABS_MAX_PRICE_MOVE_BPS_PER_SLOT
    MaxNotional,  \* MAX_ACCOUNT_NOTIONAL_LOTS
    MaxConf,      \* oracle_confidence_max_bps of the market, 0 = no limit
    MaxDispersion, \* oracle_quorum_max_dispersion_bps, 0 = no limit
    MaxAge,       \* oracle_staleness_max_seconds of the market, 0 = no limit
    FeedConf,     \* max_confidence_bps of the oracle config
    FeedAge,      \* max_staleness_seconds of the oracle config
    SettleMin,    \* mark_settle_min_slots
    MaxPrints,    \* bound: prints published
    MaxClock      \* bound: the clock stops here

ASSUME FeedAssumption ==
    /\ Prices \subseteq Nat \ {0} /\ Confs \subseteq Nat
    /\ Caps \cup Windows \cup Maintenances \cup LiqFees \subseteq Nat
    /\ {MinMm, MinLiq, MaxCap, MaxNotional, MaxAge} \subseteq Nat
    /\ {FeedConf, FeedAge} \subseteq Nat \ {0}
    /\ {Unit, MaxClock} \subseteq Nat \ {0}

VARIABLES
    oracle,   \* oracle_price_ticks, _confidence, _published_at_unix_seconds
    mark,     \* mark_price_ticks and last_mark_settle_slot
    env,      \* MarketEnvelopeConfigAccount, cap = 0 until it is initialized
    feed,     \* MarketOracleConfigAccount: source, last_lazer_timestamp_us
    prints,   \* what the publisher has signed so far
    clock,
    made,     \* history: when the price the oracle holds was made
    applied,  \* history: publish time of the newest print used
    rewound   \* history: a print was used after one as new or newer

feedVars == <<oracle, mark, env, feed, prints, clock, made, applied, rewound>>

Abs(n) == IF n < 0 THEN -n ELSE n
CeilDiv(n, d) == n \div d + IF n % d = 0 THEN 0 ELSE 1

-----------------------------------------------------------------------------
(* matcher/envelope.rs.  Funding is left out: its term has the form of the *)
(* price term.                                                             *)
PriceBudget(e) == e.cap * e.win

Loss(e, n) == CeilDiv(n * PriceBudget(e), Unit)
LiqFee(e, n) ==
    Max({CeilDiv(CeilDiv(n * (Unit + PriceBudget(e)), Unit) * e.fee, Unit), MinLiq})
MmReq(e, n) == Max({(n * e.mm) \div Unit, MinMm})

Breakpoint(e) == (MinMm * Unit) \div e.mm

(* The three account sizes prove_envelope looks at *)
Probes(e) == {1, Breakpoint(e), MaxNotional} \ {0}

ProveEnvelope(e) ==
    /\ e.cap \in 1..MaxCap /\ e.win >= 1
    /\ e.mm \in 1..(Unit - 1) /\ e.fee < Unit
    /\ \A n \in Probes(e) : Loss(e, n) + LiqFee(e, n) <= MmReq(e, n)

(* gate_price_move *)
GatePriceMove(last, new, dt, cap) ==
    last = 0 \/ (dt > 0 /\ Abs(new - last) * Unit <= cap * dt * last)

(* Deliberately wrong: the whole gap counts.                               *)
AccrualDtRaw(e) == clock - e.seen

(* The window a move is admitted for, proven up to max_accrual_dt_slots.   *)
AccrualDt(e) == Min({clock - e.seen, e.win})

(* gate_oracle_update: the first observation seeds; in one slot only the   *)
(* same price passes.                                                      *)
GateAdmits(new) ==
    \/ env.seen = 0
    \/ clock = env.seen /\ new = env.px
    \/ clock > env.seen /\ GatePriceMove(env.px, new, AccrualDt(env), env.cap)

Observed(new) ==
    IF env.seen # 0 /\ clock = env.seen THEN env
    ELSE [env EXCEPT !.seen = clock, !.px = new]

(* The market's own limits; the checks are skipped when they are 0.        *)
Confident(c, p) == MaxConf = 0 \/ (c * Unit) \div p <= MaxConf
Recent(t) == MaxAge = 0 \/ clock - t <= MaxAge

-----------------------------------------------------------------------------
FeedInit ==
    /\ oracle \in [px : Prices, conf : {0}, pub : {0}]
    /\ mark = [px |-> oracle.px, at |-> 0]
    /\ env = [cap |-> 0, win |-> 0, mm |-> 0, fee |-> 0, locked |-> FALSE,
              seen |-> 0, px |-> 0]
    /\ feed \in [source : {"pyth", "lazer"}, nonce : {0}]
    /\ prints = {}
    /\ clock = 1
    /\ made = 0
    /\ applied = 0
    /\ rewound = FALSE

(* set_envelope_config: the gate's memory and the lock are only reset on   *)
(* first initialization.                                                   *)
Reconfigured(e) ==
    [cap |-> e.cap, win |-> e.win, mm |-> e.mm, fee |-> e.fee, locked |-> env.locked,
     seen |-> env.seen, px |-> env.px]

SetEnvelopeConfig(e) ==
    /\ ProveEnvelope(e)
    /\ env' = Reconfigured(e)
    /\ UNCHANGED <<oracle, mark, feed, prints, clock, made, applied, rewound>>

LockOracleSource ==
    /\ env.cap # 0
    /\ env' = [env EXCEPT !.locked = TRUE]
    /\ UNCHANGED <<oracle, mark, feed, prints, clock, made, applied, rewound>>

(* The envelope account is required and its source not locked.             *)
DirectOpen == env.cap # 0 /\ ~env.locked

(* Both direct paths store the time of the transaction.                    *)
WriteDirect(p, c, t) ==
    /\ GateAdmits(p)
    /\ env' = Observed(p)
    /\ oracle' = [px |-> p, conf |-> c, pub |-> clock]
    /\ made' = t
    /\ UNCHANGED <<mark, feed, prints, clock, applied, rewound>>

UpdateOracle(p, c, t) ==
    /\ t <= clock /\ Recent(t)
    /\ Confident(c, p)
    /\ DirectOpen
    /\ WriteDirect(p, c, t)

(* The checks are per source, so the oldest and the least confident decide *)
UpdateOracleQuorum(low, mid, high, c, t) ==
    /\ low <= mid /\ mid <= high
    /\ t <= clock /\ Recent(t)
    /\ \E p \in {low, mid, high} : Confident(c, p)
    /\ MaxDispersion = 0 \/ ((high - low) * Unit) \div mid <= MaxDispersion
    /\ DirectOpen
    /\ WriteDirect(mid, c, t)

WritePrint(p) ==
    /\ (p.conf * Unit) \div p.px <= FeedConf
    /\ p.at <= clock /\ clock - p.at <= FeedAge
    /\ env.cap # 0
    /\ GateAdmits(p.px)
    /\ env' = Observed(p.px)
    /\ oracle' = [px |-> p.px, conf |-> p.conf, pub |-> p.at]
    /\ made' = p.at
    /\ applied' = p.at
    /\ rewound' = (rewound \/ p.at <= applied)
    /\ UNCHANGED <<mark, prints, clock>>

(* Deliberately wrong: the same price may come again.                      *)
NewerForPythOrSame(p) == p.at >= oracle.pub

(* A Pyth price must be newer than whatever the oracle holds.              *)
NewerForPyth(p) == p.at > oracle.pub

UpdateOracleFromPyth(p) ==
    /\ feed.source = "pyth"
    /\ NewerForPyth(p)
    /\ WritePrint(p)
    /\ UNCHANGED feed

(* A Lazer price must be newer than the last Lazer price taken.            *)
UpdateOracleFromLazer(p) ==
    /\ feed.source = "lazer"
    /\ p.at > feed.nonce
    /\ WritePrint(p)
    /\ feed' = [feed EXCEPT !.nonce = p.at]

MarkFresh == Recent(oracle.pub)

SettleMark ==
    /\ mark.at = 0 \/ clock - mark.at >= SettleMin
    /\ MarkFresh
    /\ Confident(oracle.conf, oracle.px)
    /\ mark' = [px |-> oracle.px, at |-> clock]
    /\ UNCHANGED <<oracle, env, feed, prints, clock, made, applied, rewound>>

(* The publisher signs a price. *)
Publish(p, c) ==
    /\ Cardinality(prints) < MaxPrints
    /\ prints' = prints \cup {[px |-> p, conf |-> c, at |-> clock]}
    /\ UNCHANGED <<oracle, mark, env, feed, clock, made, applied, rewound>>

FeedTick ==
    /\ clock < MaxClock
    /\ clock' = clock + 1
    /\ UNCHANGED <<oracle, mark, env, feed, prints, made, applied, rewound>>

EnvelopeParams ==
    [cap : Caps, win : Windows, mm : Maintenances, fee : LiqFees, locked : {FALSE},
     seen : {0}, px : {0}]

FeedNext ==
    \/ \E e \in EnvelopeParams : SetEnvelopeConfig(e)
    \/ LockOracleSource
    \/ \E p \in Prices, c \in Confs :
        \/ \E t \in 0..clock : UpdateOracle(p, c, t)
        \/ \E low, high \in Prices, t \in 0..clock : UpdateOracleQuorum(low, p, high, c, t)
        \/ Publish(p, c)
    \/ \E p \in prints : UpdateOracleFromPyth(p) \/ UpdateOracleFromLazer(p)
    \/ SettleMark
    \/ FeedTick

FeedSpec == FeedInit /\ [][FeedNext]_feedVars

-----------------------------------------------------------------------------
(* Type of the feed; an envelope that has seen a price has been proven, and *)
(* no price is stored as published before it was made.                      *)
FeedTypeOK ==
    /\ oracle \in [px : Prices, conf : Confs \cup {0}, pub : 0..MaxClock]
    /\ mark \in [px : Prices, at : 0..MaxClock]
    /\ env.cap \in 0..MaxCap /\ env.seen \in 0..clock /\ env.px \in Prices \cup {0}
    /\ env.seen # 0 => env.cap # 0
    /\ feed.nonce \in 0..MaxClock
    /\ prints \subseteq [px : Prices, conf : Confs, at : 1..MaxClock]
    /\ made <= oracle.pub

(* Once the envelope has seen a price, the price it measures the next move *)
(* against is the one the oracle holds, whichever of the four paths wrote  *)
(* it (gate_oracle_update in each of them).                                *)
GateSeesOracle == env.seen # 0 => env.px = oracle.px

(* prove_envelope looks at three sizes only; between them its two ceilings *)
(* and its floor may each be a lot apart from what they are at those.      *)
Rounding == 3

(* One accepted update costs a position of any size no more than its       *)
(* maintenance margin, liquidation fee included, but for that rounding:    *)
(* what prove_envelope and the gate are for together, after a crank gap    *)
(* and after a reconfiguration too.                                        *)
UpdateSurvivable ==
    [][oracle'.px # oracle.px /\ env.seen # 0 =>
        \A n \in 1..MaxNotional :
            CeilDiv(n * Abs(oracle'.px - oracle.px), oracle.px) + LiqFee(env, n)
                <= MmReq(env, n) + Rounding]_feedVars

(* lock_oracle_source is for ever: a price that moves afterwards is one    *)
(* the publisher has signed.                                               *)
LockedMeansSigned ==
    [][env.locked =>
        /\ env'.locked
        /\ oracle'.px # oracle.px =>
            \E p \in prints : p.px = oracle'.px /\ p.at = oracle'.pub]_feedVars

(* No signed price is used a second time, or after a newer one, whoever    *)
(* submits it and whatever the authority writes in between                 *)
(* (OraclePythReplay, OracleLazerReplay).                                  *)
NoReplay == ~rewound

(* On a market with a staleness bound, settle_mark never sets the mark to  *)
(* a price made longer ago than the bounds of the update and of the        *)
(* settlement together: the direct paths store when they ran, not when the *)
(* price was made.                                                         *)
MarkAgeBounded ==
    [][mark' # mark /\ MaxAge > 0 => clock - made <= MaxAge + Max({MaxAge, FeedAge})]_feedVars

(* The price and the mark are genuine: typed, measured by the gate, never  *)
(* replayed, signed once locked, and of bounded age.                       *)
PricesGenuine ==
    /\ [](FeedTypeOK /\ GateSeesOracle /\ NoReplay)
    /\ LockedMeansSigned
    /\ MarkAgeBounded
=============================================================================
