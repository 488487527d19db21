------------------------------- MODULE LpPool -------------------------------
(***************************************************************************)
(* The liquidity pools: the protocol's single pool, which quotes on the    *)
(* books and settles committed fills, and the per-market pools, whose      *)
(* fills their authority records.  Both pay out of one token vault, so a   *)
(* lock lets only one of the two systems mint shares.  Deposits are priced *)
(* at NAV marked to the oracle, withdrawals at NAV less any unrealized     *)
(* loss.                                                                   *)
(*                                                                         *)
(* tick_size is 1; positions carry signed lots (long > 0).  A market's     *)
(* status gates (Active, PostOnly) are modelled in Settlement and the book *)
(* itself in MarketBook: here a book is the sequence of the pool's own     *)
(* quotes on it.                                                           *)
(***************************************************************************)
EXTENDS Integers, Sequences, SequencesExt, FiniteSetsExt

CONSTANTS
    Markets, LPs,
    Singleton,     \* name of the protocol-wide pool; the others are markets
    Amounts,       \* deposits, in quote lots
    PartBurns,     \* shares burned at a time, besides all of them
    Prices,        \* oracle and mark prices, in ticks
    PostPrices,    \* prices of hand-posted quotes
    Sizes,         \* lots of a fill or of a hand-posted quote
    Purse,         \* collateral the taker of a fill may have
    MinHold,       \* LP_MIN_HOLD_SLOTS
    RefreshMin,    \* LP_REFRESH_MIN_SLOTS
    Bps,           \* BPS_DENOM
    MaxDev,        \* LP_MAX_FILL_DEVIATION_BPS
    Growth,        \* lp_max_growth_per_batch_bps
    Lambda,        \* lp_inventory_lambda_bps
    Spread,        \* the spread of the one level quoted, in bps
    FeeBps, RebateBps,
    MaxSlot, MaxDeposits, MaxFills, MaxQuotes, MaxMoves

Pools == {Singleton} \cup Markets
NoOracle == 0
Flat == [lots |-> 0, entry |-> 0]

ASSUME LpAssumption ==
    /\ IsFiniteSet(Markets) /\ IsFiniteSet(LPs) /\ Singleton \notin Markets
    /\ Amounts \cup PartBurns \cup Prices \cup PostPrices \cup Sizes \subseteq Nat \ {0}
    /\ {MinHold, RefreshMin, MaxDev, Growth, Lambda, Spread, FeeBps, RebateBps} \subseteq Nat
    /\ Bps \in Nat \ {0} /\ Spread * 2 <= Bps /\ Purse \subseteq Nat

VARIABLES
    mode,      \* LpModeAccount: the system that minted the first share
    pool,      \* pool -> capital, realized pnl, shares, inventory by market
    lpPos,     \* pool -> LP -> shares and slot of the last deposit
    oracle,    \* market -> price, NoOracle while stale
    quotes,    \* market -> the pool's resting quotes, oldest first
    pending,   \* LP fills committed by the matcher and not yet settled
    lpSlot,
    flow,      \* history: cash paid into each pool less cash paid out of it,
               \* the cost of its fills included
    lpSpent    \* history: deposits, fills and oracle moves so far, for the bounds

lpVars == <<mode, pool, lpPos, oracle, quotes, pending, lpSlot, flow, lpSpent>>

(***************************************************************************)
(* Position arithmetic shared with trader fills (position_math).           *)
(***************************************************************************)
Abs(x) == IF x < 0 THEN -x ELSE x
CeilDivide(a, b) == (a + b - 1) \div b

(* A stacked entry is rounded against the holder.                          *)
StackEntry(lots, entry, n, px) ==
    LET cost == entry * Abs(lots) + px * Abs(n)
    IN  IF lots > 0 THEN CeilDivide(cost, Abs(lots + n)) ELSE cost \div Abs(lots + n)

InventoryAfter(p, n, px) ==
    LET lots == p.lots + n
    IN  [lots  |-> lots,
         entry |-> IF lots = 0 THEN 0
                   ELSE IF p.lots * lots <= 0 THEN px
                   ELSE IF p.lots * n > 0 THEN StackEntry(p.lots, p.entry, n, px)
                   ELSE p.entry]

RealizedOn(p, n, px) ==
    IF p.lots * n >= 0 THEN 0
    ELSE LET closed == Min({Abs(n), Abs(p.lots)})
         IN  (IF p.lots > 0 THEN 1 ELSE -1) * closed * (px - p.entry)

(* apply_fill_to_lp_market, record_lp_market_fill                          *)
Booked(acct, m, n, px) ==
    [acct EXCEPT !.inv[m] = InventoryAfter(@, n, px),
                 !.pnl    = @ + RealizedOn(acct.inv[m], n, px)]

(***************************************************************************)
(* Share pricing.                                                          *)
(***************************************************************************)
Nav(acct) == acct.capital + acct.pnl

Open(acct) == {m \in Markets : acct.inv[m].lots # 0}

(* Every market with inventory must be supplied with a fresh oracle.       *)
Markable(acct) == \A m \in Open(acct) : oracle[m] # NoOracle

(* lp_slot_unrealized_pnl summed over the open markets.                    *)
Mtm(acct) ==
    SumFunctionOnSet([m \in Markets |-> acct.inv[m].lots * (oracle[m] - acct.inv[m].entry)],
                     Open(acct))

(* Deliberately wrong: entries are priced without the inventory.           *)
EntryNavRealized(acct) == Nav(acct)

EntryNav(acct) == Nav(acct) + Mtm(acct)

ExitNav(acct) == Nav(acct) + Min({Mtm(acct), 0})

SharesFor(acct, amount) ==
    IF acct.shares = 0 THEN amount ELSE (amount * acct.shares) \div EntryNav(acct)

(* The lock is claimed by the first mint and never released.               *)
SystemOf(p) == IF p = Singleton THEN "singleton" ELSE "per_market"
ModeAdmits(p) == mode \in {"unset", SystemOf(p)}

(* The share account of l in p, its own PDA.                               *)
OwnShares(p, l) == lpPos[p][l].shares

(* can_withdraw: the last deposit is MinHold slots old.                    *)
CanWithdraw(since) == lpSlot - since >= MinHold

(* effective_health_mark: the worse of mark and oracle for the holder, the *)
(* oracle alone when the mark is stale.                                    *)
HealthPrice(m, mark, long) ==
    IF mark = NoOracle THEN oracle[m]
    ELSE IF long THEN Min({mark, oracle[m]}) ELSE Max({mark, oracle[m]})

GrossExposure(acct, mark) ==
    SumFunctionOnSet([m \in Markets |-> Abs(acct.inv[m].lots)
                                          * HealthPrice(m, mark[m], acct.inv[m].lots > 0)],
                     Open(acct))

-----------------------------------------------------------------------------
(* No pool has capital or shares; the taker's purse is part of each fill.  *)
LpInit ==
    /\ mode = "unset"
    /\ pool = [p \in Pools |-> [capital |-> 0, pnl |-> 0, shares |-> 0,
                                inv |-> [m \in Markets |-> Flat]]]
    /\ lpPos = [p \in Pools |-> [l \in LPs |-> [shares |-> 0, since |-> 0]]]
    /\ oracle \in [Markets -> Prices]
    /\ quotes = [m \in Markets |-> <<>>]
    /\ pending = <<>>
    /\ lpSlot = MinHold
    /\ flow = [p \in Pools |-> 0]
    /\ lpSpent = [deposits |-> 0, fills |-> 0, moves |-> 0]

(* A deposit, priced and credited alike in both systems.                   *)
Deposit(p, l, amount) ==
    LET acct == pool[p]
        minted == SharesFor(acct, amount)
    IN  /\ lpSpent.deposits < MaxDeposits
        /\ ModeAdmits(p)
        /\ Markable(acct)
        /\ ~(acct.shares > 0 /\ EntryNav(acct) <= 0)
        /\ minted > 0
        /\ mode' = IF mode = "unset" THEN SystemOf(p) ELSE mode
        /\ pool' = [pool EXCEPT ![p].capital = @ + amount, ![p].shares = @ + minted]
        /\ lpPos' = [lpPos EXCEPT ![p][l] = [shares |-> @.shares + minted, since |-> lpSlot]]
        /\ flow' = [flow EXCEPT ![p] = @ + amount]
        /\ lpSpent' = [lpSpent EXCEPT !.deposits = @ + 1]
        /\ UNCHANGED <<oracle, quotes, pending, lpSlot>>

(* lp_deposit *)
LpDeposit(l, amount) == Deposit(Singleton, l, amount)

(* lp_market_deposit *)
LpMarketDeposit(m, l, amount) == Deposit(m, l, amount)

(* Deliberately wrong: paid-out profit stays in the NAV.                   *)
PaidOutOfCapital(acct, amount) ==
    [acct EXCEPT !.capital = @ - Min({amount, acct.capital})]

(* The payout draws on capital first and on realized profit for the rest.  *)
PaidOut(acct, amount) ==
    LET principal == Min({amount, acct.capital})
    IN  [acct EXCEPT !.capital = @ - principal, !.pnl = @ - (amount - principal)]

(* A withdrawal: with inventory open, what stays in the pool must cover    *)
(* its gross exposure.  mark[m] is the market's rollup mark, NoOracle when *)
(* stale.  That the token vault has the tokens is the subject of Ledger.   *)
Withdraw(p, l, burned, mark) ==
    LET acct == pool[p]
        amount == (burned * ExitNav(acct)) \div acct.shares
        after == PaidOut(acct, amount)
    IN  /\ burned \in 1 .. OwnShares(p, l)
        /\ CanWithdraw(lpPos[p][l].since)
        /\ Markable(acct)
        /\ Nav(acct) > 0 /\ ExitNav(acct) > 0
        /\ amount > 0
        /\ Open(acct) # {} => Nav(after) >= GrossExposure(acct, mark)
        /\ pool' = [pool EXCEPT ![p] = [after EXCEPT !.shares = @ - burned]]
        /\ lpPos' = [lpPos EXCEPT ![p][l].shares = @ - burned]
        /\ flow' = [flow EXCEPT ![p] = @ - amount]
        /\ UNCHANGED <<mode, oracle, quotes, pending, lpSlot, lpSpent>>

(* lp_withdraw *)
LpWithdraw(l, burned, mark) == Withdraw(Singleton, l, burned, mark)

(* lp_market_withdraw *)
LpMarketWithdraw(m, l, burned, mark) == Withdraw(m, l, burned, mark)

(* record_lp_market_fill: the market pool's authority reports a fill.  The *)
(* instruction only keeps the books and moves no tokens; flow counts what  *)
(* the reported fill cost, so that NAV is compared with the cash the pool  *)
(* would have if the report is true.                                       *)
RecordLpMarketFill(m, n, px) ==
    /\ lpSpent.fills < MaxFills
    /\ pool' = [pool EXCEPT ![m] = Booked(@, m, n, px)]
    /\ flow' = [flow EXCEPT ![m] = @ - n * px]
    /\ lpSpent' = [lpSpent EXCEPT !.fills = @ + 1]
    /\ UNCHANGED <<mode, lpPos, oracle, quotes, pending, lpSlot>>

-----------------------------------------------------------------------------
(***************************************************************************)
(* Quotes.  x \div y rounds down in TLA+; Rust's division of a signed bps  *)
(* amount truncates toward zero.                                           *)
(***************************************************************************)
Trunc(a, b) == IF a >= 0 THEN a \div b ELSE -((-a) \div b)
Clamp(x, b) == Max({-b, Min({x, b})})

ApplyBpsSigned(px, bps) == Max({px + Trunc(px * bps, Bps), 0})

(* Net inventory of the single pool on m at cost.                          *)
NetSigned(m) == pool[Singleton].inv[m].lots * pool[Singleton].inv[m].entry

Skew(m) ==
    LET inv == Clamp(Trunc(NetSigned(m) * Bps, pool[Singleton].capital), Bps)
    IN  -Clamp(Trunc(Lambda * inv, Bps), Bps)

(* inventory_cap_skip: the side that would grow the pool past its capital. *)
Skipped(q, m) ==
    LET capital == pool[Singleton].capital
    IN  /\ capital > 0
        /\ IF q.n > 0 THEN NetSigned(m) >= capital ELSE NetSigned(m) <= -capital

(* A level that is worth a lot, has a price and is not skipped.            *)
Posted(q, m) == IF q.n # 0 /\ q.px > 0 /\ ~Skipped(q, m) THEN <<q>> ELSE <<>>

(* generate_quotes with one level: nothing without capital or a price.     *)
GenerateQuotes(m, px) ==
    LET capital == pool[Singleton].capital
        lots == ((capital * Growth) \div Bps) \div px
        fair == ApplyBpsSigned(px, Skew(m))
        bid  == [n |-> lots, px |-> ApplyBpsSigned(fair, -Spread), slot |-> lpSlot]
        ask  == [n |-> -lots, px |-> ApplyBpsSigned(fair, Spread), slot |-> lpSlot]
    IN  IF capital = 0 \/ px = NoOracle THEN <<>> ELSE Posted(bid, m) \o Posted(ask, m)

(* The newest resting quote dates the last refresh.                        *)
RefreshDue(m) ==
    quotes[m] = <<>> \/ lpSlot - Max({0} \cup {q.slot : q \in ToSet(quotes[m])}) >= RefreshMin

(* lp_refresh_quotes: anyone; cancels every quote and posts the ladder     *)
(* around the oracle's price.  It does not ask how old that is, so while   *)
(* the oracle is stale px is whatever was published before.                *)
LpRefreshQuotes(m, px) ==
    /\ RefreshDue(m)
    /\ oracle[m] \in {px, NoOracle}
    /\ quotes' = [quotes EXCEPT ![m] = GenerateQuotes(m, px)]
    /\ quotes' # quotes
    /\ UNCHANGED <<mode, pool, lpPos, oracle, pending, lpSlot, flow, lpSpent>>

(* lp_post_maker_order: the authority; the quote must not cross the best   *)
(* opposite order.  The pool's own quotes are the part of the book seen.   *)
CrossesBook(q, m) ==
    \E o \in ToSet(quotes[m]) : o.n * q.n < 0 /\ (IF q.n > 0 THEN q.px >= o.px ELSE q.px <= o.px)

LpPostMakerOrder(m, n, px) ==
    LET q == [n |-> n, px |-> px, slot |-> lpSlot]
    IN  /\ Len(quotes[m]) < MaxQuotes
        /\ ~CrossesBook(q, m)
        /\ quotes' = [quotes EXCEPT ![m] = Append(@, q)]
        /\ UNCHANGED <<mode, pool, lpPos, oracle, pending, lpSlot, flow, lpSpent>>

(* place_taker_order meets quote i with n lots of the opposite side: the   *)
(* maker of the commitment is the pool.                                    *)
TakerCrosses(m, i, n) ==
    LET book == quotes[m]
        q == book[i]
        signed == IF q.n > 0 THEN n ELSE -n
        left == IF n = Abs(q.n) THEN RemoveAt(book, i) ELSE [book EXCEPT ![i].n = @ - signed]
    IN  /\ lpSpent.fills < MaxFills
        /\ n <= Abs(q.n)
        /\ pending' = Append(pending, [m |-> m, n |-> signed, px |-> q.px])
        /\ quotes' = [quotes EXCEPT ![m] = left]
        /\ lpSpent' = [lpSpent EXCEPT !.fills = @ + 1]
        /\ UNCHANGED <<mode, pool, lpPos, oracle, lpSlot, flow>>

(* price_within_band *)
WithinBand(px, anchor) == Abs(anchor - px) * Bps <= anchor * MaxDev

(* The taker's fee is taken as far as its collateral goes; the pool's      *)
(* rebate comes out of what was collected.                                 *)
Rebate(notional, purse) ==
    Min({(notional * RebateBps) \div Bps, (notional * FeeBps) \div Bps, purse})

(* A rebate above the fee is refused.                                      *)
FeeCoversRebate(notional) == (notional * RebateBps) \div Bps <= (notional * FeeBps) \div Bps

(* apply_lp_fill: the oldest commitment, within the band of a fresh        *)
(* oracle.  purse is the taker's collateral.  The taker's own position,    *)
(* PnL and open interest are in Settlement and Ledger; so are two refusals *)
(* that leave the fill pending and the pool as it is: a permissionless     *)
(* market without haircut engine, and no per_market slot left (Markets are *)
(* those that have one).                                                   *)
ApplyLpFill(purse) ==
    LET f == Head(pending)
        rebate == Rebate(Abs(f.n) * f.px, purse)
        paid == [pool[Singleton] EXCEPT !.capital = @ + rebate]
    IN  /\ pending # <<>>
        /\ oracle[f.m] # NoOracle /\ WithinBand(f.px, oracle[f.m])
        /\ FeeCoversRebate(Abs(f.n) * f.px)
        /\ pending' = Tail(pending)
        /\ pool' = [pool EXCEPT ![Singleton] = Booked(paid, f.m, f.n, f.px)]
        /\ flow' = [flow EXCEPT ![Singleton] =
                        @ - f.n * f.px + Min({rebate, purse})]
        /\ UNCHANGED <<mode, lpPos, oracle, quotes, lpSlot, lpSpent>>

(* The oracle of m moves, goes stale or comes back.                        *)
MoveOracle(m, px) ==
    /\ lpSpent.moves < MaxMoves
    /\ px # oracle[m]
    /\ oracle' = [oracle EXCEPT ![m] = px]
    /\ lpSpent' = [lpSpent EXCEPT !.moves = @ + 1]
    /\ UNCHANGED <<mode, pool, lpPos, quotes, pending, lpSlot, flow>>

LpTick ==
    /\ lpSlot < MinHold + MaxSlot
    /\ lpSlot' = lpSlot + 1
    /\ UNCHANGED <<mode, pool, lpPos, oracle, quotes, pending, flow, lpSpent>>

Signed == Sizes \cup {-n : n \in Sizes}

LpNext ==
    \/ \E l \in LPs, amount \in Amounts :
         LpDeposit(l, amount) \/ \E m \in Markets : LpMarketDeposit(m, l, amount)
    \/ \E l \in LPs, mark \in [Markets -> Prices \cup {NoOracle}] :
         \/ \E burned \in PartBurns \cup {lpPos[Singleton][l].shares} : LpWithdraw(l, burned, mark)
         \/ \E m \in Markets : \E burned \in PartBurns \cup {lpPos[m][l].shares} :
              LpMarketWithdraw(m, l, burned, mark)
    \/ \E m \in Markets, n \in Signed, px \in Prices : RecordLpMarketFill(m, n, px)
    \/ \E m \in Markets, px \in Prices \cup {NoOracle} : LpRefreshQuotes(m, px)
    \/ \E m \in Markets, n \in Signed, px \in PostPrices : LpPostMakerOrder(m, n, px)
    \/ \E m \in Markets, n \in Sizes : \E i \in 1 .. Len(quotes[m]) : TakerCrosses(m, i, n)
    \/ \E purse \in Purse : ApplyLpFill(purse)
    \/ \E m \in Markets, px \in Prices \cup {NoOracle} : MoveOracle(m, px)
    \/ LpTick

LpSpec == LpInit /\ [][LpNext]_lpVars

-----------------------------------------------------------------------------
(* Every account field has its type; capital and shares are unsigned, as   *)
(* the checked and capped debits of the withdrawal must keep them.         *)
LpTypeOK ==
    /\ mode \in {"unset", "singleton", "per_market"}
    /\ \A p \in Pools : /\ pool[p].capital \in Nat /\ pool[p].shares \in Nat
                        /\ pool[p].pnl \in Int /\ flow[p] \in Int
                        /\ \A m \in Markets : pool[p].inv[m].lots \in Int /\ pool[p].inv[m].entry \in Nat
                        /\ \A l \in LPs : lpPos[p][l].shares \in Nat /\ lpPos[p][l].since \in Nat
                        /\ pool[p].shares = SumFunctionOnSet([l \in LPs |-> lpPos[p][l].shares], LPs)
    /\ oracle \in [Markets -> Prices \cup {NoOracle}]
    /\ lpSlot \in Nat

(* What the inventory of a pool cost, short inventory being negative.      *)
Cost(acct) ==
    SumFunctionOnSet([m \in Markets |-> acct.inv[m].lots * acct.inv[m].entry], Markets)

(* A pool's NAV, with its inventory at cost, never exceeds the cash that   *)
(* was paid in less the cash that was paid out: no order of deposits,      *)
(* fills, rebates and redemptions makes shares redeemable for money the    *)
(* pool never had, and profit that was withdrawn leaves the NAV.           *)
NavBacked == \A p \in Pools : Nav(pool[p]) - Cost(pool[p]) <= flow[p]

(* The single pool and the market pools never have shares at the same      *)
(* time, whatever was deposited and redeemed before: both would redeem the *)
(* same fills from one vault.                                              *)
OneLpSystem ==
    pool[Singleton].shares = 0 \/ \A m \in Markets : pool[m].shares = 0

(* The pools' books are sound: typed, backed by cash, and of one system.   *)
LpAccountsSound == LpTypeOK /\ NavBacked /\ OneLpSystem

(* A deposit or withdrawal by one LP never lowers what the shares of the   *)
(* others are worth at the oracle, inventory included: rounding and the    *)
(* entry and exit prices always favour those who stay.                     *)
LpNoDilution ==
    [][\A p \in Pools :
        (/\ pool'[p].shares # pool[p].shares
         /\ pool[p].shares > 0 /\ pool'[p].shares > 0)
          => (Nav(pool'[p]) + Mtm(pool[p])) * pool[p].shares
                >= (Nav(pool[p]) + Mtm(pool[p])) * pool'[p].shares]_lpVars
=============================================================================
