------------------------------- MODULE Ledger -------------------------------
(***************************************************************************)
(* The money of one market: collateral in cross pools and isolated         *)
(* buckets, positions and their entry prices, the insurance fund, accrued  *)
(* fee shares, the haircut engine, and the token vault that has to pay for *)
(* all of it.  No token moves at settlement: a fill, a funding charge, a   *)
(* deleveraging or a recovery only rewrites claims on the vault, in a      *)
(* dozen clamped, rounded and capped amounts.  The properties say that the *)
(* claims stay covered whatever the order of the handlers.                 *)
(*                                                                         *)
(* A fill arrives here as the ring releases it (FillRing): any two         *)
(* traders, any size and price.  tick_size is 1.  Margin assessments only  *)
(* refuse, and are left open where they depend on prices; so are the gates *)
(* of the recovery, which Rollup models, and of rollup reservations.  LP   *)
(* capital is not in the vault.  The cached h and the running totals are   *)
(* only reported and are left out.                                         *)
(***************************************************************************)
EXTENDS Integers, FiniteSets, FiniteSetsExt, Functions

CONSTANTS
    Traders,
    Sizes,            \* fill sizes, base lots
    FillPrices,       \* prices fills were matched at, ticks
    Marks,            \* health marks: worse of mark and oracle
    FeeTerms,         \* [taker, rebate, maker]: fees of a fill, before any cap
    Shares,           \* referrer, builder and creator shares of a fill
    ContributionPct,  \* fee_contribution_bps, in percent
    PauseThreshold,   \* pause_threshold_quote_lots
    Amounts,          \* what an owner or the authority moves at once, rewards
    SeedSteps,        \* corrections the authority makes to the residual
    IndexSteps,       \* funding-index changes, in fractions of a quote lot
    FundingOne,       \* 2^FUNDING_INDEX_FRACTIONAL_BITS
    HDenom,           \* H_DENOM
    MaxVault,         \* bound: deposits stop here
    MaxFills,         \* bound: fills of a behaviour
    MaxIndex,         \* bound on the funding index
    MaxResidual       \* bound: governance seeds the residual up to here

ASSUME LedgerAssumption ==
    /\ IsFiniteSet(Traders)
    /\ Sizes \cup FillPrices \cup Marks \cup Amounts \subseteq Nat \ {0}
    /\ FeeTerms \subseteq [taker : Nat, rebate : Nat, maker : Nat]
    /\ \A f \in FeeTerms : f.rebate = 0 \/ f.maker = 0
    /\ Shares \subseteq Nat /\ IndexSteps \cup SeedSteps \subseteq Int
    /\ ContributionPct \in 0..100
    /\ {PauseThreshold, MaxVault, MaxFills, MaxIndex, MaxResidual} \subseteq Nat
    /\ {FundingOne, HDenom} \subseteq Nat \ {0}

VARIABLES
    acct,       \* per trader: collateral, position, haircut pipeline
    pot,        \* shared: insurance fund, fee shares, haircut state
    vault,      \* tokens in the quote vault
    on,         \* market.haircut_enabled
    permissionless, \* market.is_permissionless: its bad debt is its own
    index,      \* market.cum_funding_index
    filled,     \* bound: fills so far
    hist        \* history: what the properties allow for, below

vars == <<acct, pot, vault, on, permissionless, index, filled, hist>>
fixed == <<permissionless>>

-----------------------------------------------------------------------------
Abs(n) == IF n < 0 THEN -n ELSE n
SatSub(a, b) == IF a > b THEN a - b ELSE 0
CeilDiv(a, b) == (a + b - 1) \div b
Signed(side, n) == IF side = "buy" THEN n ELSE -n
SumOver(f) == SumFunctionOnSet(f, Traders)

Accounts == [cross : Nat, iso : Nat, lots : Int, entry : Nat, anchor : Int,
             reserve : Nat, matured : Nat]
NewAccount == [cross |-> 0, iso |-> 0, lots |-> 0, entry |-> 0, anchor |-> 0,
               reserve |-> 0, matured |-> 0]

(* Handlers work on a copy m of the claims, in the order of the code.      *)
Claims == [acct |-> acct, pot |-> pot, uncovered |-> hist.uncovered]

(* Which bucket backs a position: its own if it has collateral, else the   *)
(* trader's pool.  Every handler samples this for itself.                  *)
Isolated(m, t) == m.acct[t].iso > 0
Bucket(m, t, isolated) == IF isolated THEN m.acct[t].iso ELSE m.acct[t].cross
SetBucket(m, t, isolated, v) ==
    IF isolated THEN [m EXCEPT !.acct[t].iso = v] ELSE [m EXCEPT !.acct[t].cross = v]

-----------------------------------------------------------------------------
(* Fees of apply_fill.  Both fees are capped at what the payer has, the    *)
(* rebate at what the taker paid; what was not collected comes off the net *)
(* fee before insurance and fee shares are credited out of it.             *)

RebateOf(fee, paid) == Min({fee.rebate, fee.taker, paid})

(* Shares come out of what rebate and contribution leave of the net fee.   *)
AccruedShares(net, rebate, contribution, share) ==
    Min({share, SatSub(SatSub(net, rebate), contribution)})

ChargeFees(m, t, k, fee, share) ==
    LET tIso    == Isolated(m, t)
        kIso    == Isolated(m, k)
        tHas    == Bucket(m, t, tIso)
        paid    == Min({fee.taker, tHas})
        rebate  == RebateOf(fee, paid)
        kHas    == Bucket(m, k, kIso) + rebate
        kPaid   == Min({fee.maker, kHas})
        net     == SatSub(SatSub(SatSub(fee.taker + fee.maker, Min({fee.rebate, fee.taker})),
                                 fee.taker - paid),
                          fee.maker - kPaid)
        contribution == (net * ContributionPct) \div 100
        moved   == SetBucket(SetBucket(m, t, tIso, tHas - paid), k, kIso, kHas - kPaid)
    IN  [moved EXCEPT !.pot.fund = @ + contribution,
                      !.pot.fees = @ + AccruedShares(net, rebate, contribution, share)]

-----------------------------------------------------------------------------
(* funding_owed: the shift rounds towards minus infinity before the sign   *)
(* of the side is applied.                                                 *)
FundingOwed(a) ==
    LET scaled == (Abs(a.lots) * (index - a.anchor)) \div FundingOne
    IN  IF a.lots > 0 THEN scaled ELSE -scaled

(* route_funding: payments clamped to the bucket, receipts to the residual.*)
RouteFunding(owed, bucket, residual) ==
    IF owed > 0
    THEN LET paid == Min({owed, bucket}) IN [bucket |-> bucket - paid, residual |-> residual + paid]
    ELSE LET got == Min({-owed, residual}) IN [bucket |-> bucket + got, residual |-> residual - got]

(* Deliberately wrong: funding is always charged to the cross pool.        *)
SettlePositionFundingPooled(m, t) ==
    LET to  == RouteFunding(FundingOwed(m.acct[t]), Bucket(m, t, FALSE), m.pot.residual)
        routed == IF m.acct[t].lots = 0 THEN m
                  ELSE [SetBucket(m, t, FALSE, to.bucket) EXCEPT !.pot.residual = to.residual]
    IN  [routed EXCEPT !.acct[t].anchor = index]

(* settle_position_funding *)
SettlePositionFunding(m, t) ==
    LET iso == Isolated(m, t)
        to  == RouteFunding(FundingOwed(m.acct[t]), Bucket(m, t, iso), m.pot.residual)
        routed == IF m.acct[t].lots = 0 THEN m
                  ELSE [SetBucket(m, t, iso, to.bucket) EXCEPT !.pot.residual = to.residual]
    IN  [routed EXCEPT !.acct[t].anchor = index]

-----------------------------------------------------------------------------
(* position_math::apply_fill: open, stack, shrink, flip.                   *)

(* Deliberately wrong: the stacked entry of a long is rounded down.        *)
StackedEntryFloor(lots, entry, n, px) ==
    (entry * Abs(lots) + px * Abs(n)) \div Abs(lots + n)

(* The average entry price, rounded against the trader.                    *)
StackedEntry(lots, entry, n, px) ==
    LET cost == entry * Abs(lots) + px * Abs(n)
    IN  IF lots > 0 THEN CeilDiv(cost, Abs(lots + n)) ELSE cost \div Abs(lots + n)

(* Realized PnL of n signed lots at px against the position.               *)
RealizedPnl(a, n, px) ==
    IF a.lots * n >= 0 THEN 0
    ELSE LET closed == Min({Abs(n), Abs(a.lots)})
         IN  IF a.lots > 0 THEN closed * (px - a.entry) ELSE closed * (a.entry - px)

(* apply_fill_to_position *)
ApplyFillToPosition(a, n, px) ==
    LET lots == a.lots + n
        opens == a.lots = 0 \/ a.lots * lots < 0
    IN  [a EXCEPT !.lots  = lots,
                  !.entry = IF opens THEN px
                            ELSE IF lots = 0 THEN 0
                            ELSE IF a.lots * n > 0 THEN StackedEntry(a.lots, a.entry, n, px)
                            ELSE @,
                  !.anchor = IF opens \/ lots = 0 THEN index ELSE @]

-----------------------------------------------------------------------------
(* cross_loss_shortfall, for either bucket.                                *)
Shortfall(debit, has) == debit - Min({debit, has})

(* cover_bad_debt: the fund pays what it can, nothing for a permissionless *)
(* market.  With the haircut on gains are not paid from collateral, so     *)
(* only the direct regime has a debt to remember.                          *)
CoverBadDebt(m, shortfall) ==
    LET covered == IF permissionless THEN 0 ELSE Min({shortfall, m.pot.fund})
    IN  [m EXCEPT !.pot.fund = @ - covered,
                  !.uncovered = IF on THEN @ ELSE @ + shortfall - covered]

(* apply_realized_pnl_delta, cover_bad_debt and accrue_haircut_loss: gains *)
(* wait in the reserve when the haircut is on; a loss is taken from the    *)
(* bucket, its remainder from insurance, and what was taken backs gains.   *)
RealizePnl(m, t, isolated, pnl) ==
    LET has  == Bucket(m, t, isolated)
        lost == Min({-pnl, has})
        paid == CoverBadDebt(SetBucket(m, t, isolated, has - lost), Shortfall(-pnl, has))
    IN  IF pnl >= 0
        THEN IF on THEN [m EXCEPT !.acct[t].reserve = @ + pnl]
                   ELSE SetBucket(m, t, isolated, has + pnl)
        ELSE IF on THEN [paid EXCEPT !.pot.residual = @ + lost] ELSE paid

(* apply_fill: fees, funding of both legs (haircut only), both positions,  *)
(* both realized PnLs.  The isolated flag for PnL is sampled after fees    *)
(* and funding.                                                            *)
Settled(t, k, n, px, fee, share) ==
    LET charged == ChargeFees(Claims, t, k, fee, share)
        funded  == IF on THEN SettlePositionFunding(SettlePositionFunding(charged, t), k)
                         ELSE charged
        moved   == [funded EXCEPT !.acct[t] = ApplyFillToPosition(@, n, px),
                                  !.acct[k] = ApplyFillToPosition(@, -n, px)]
        taker   == RealizePnl(moved, t, Isolated(funded, t), RealizedPnl(funded.acct[t], n, px))
    IN  RealizePnl(taker, k, Isolated(funded, k), RealizedPnl(funded.acct[k], -n, px))

Write(m) ==
    /\ acct' = m.acct
    /\ pot' = m.pot
    /\ hist' = [hist EXCEPT !.uncovered = m.uncovered]

ApplyFill(t, k, side, size, px, fee, share) ==
    /\ filled < MaxFills
    /\ t # k
    /\ permissionless => on
    /\ Write(Settled(t, k, Signed(side, size), px, fee, share))
    /\ filled' = filled + 1
    /\ UNCHANGED <<vault, on, fixed, index>>

-----------------------------------------------------------------------------
(* Collateral in and out.  withdraw_collateral is for flat traders,        *)
(* partial_withdraw_collateral for those whose margin allows it.           *)
DepositCollateral(t, a) ==
    /\ vault + a <= MaxVault
    /\ vault' = vault + a
    /\ acct' = [acct EXCEPT ![t].cross = @ + a]
    /\ UNCHANGED <<pot, on, fixed, index, filled, hist>>

Withdrawable(t, a) == a <= acct[t].cross /\ a <= vault
TakeOut(t, a) ==
    /\ Withdrawable(t, a)
    /\ vault' = vault - a
    /\ acct' = [acct EXCEPT ![t].cross = @ - a]
    /\ UNCHANGED <<pot, on, fixed, index, filled, hist>>
WithdrawCollateral(t, a) == acct[t].lots = 0 /\ TakeOut(t, a)
PartialWithdrawCollateral(t, a) == acct[t].lots # 0 /\ TakeOut(t, a)

(* set_position_isolated, set_position_cross; a bucket outlives its        *)
(* position until it is returned.                                          *)
SetPositionIsolated(t, a) ==
    /\ acct[t].lots # 0 /\ acct[t].iso = 0
    /\ a <= acct[t].cross
    /\ acct' = [acct EXCEPT ![t].cross = @ - a, ![t].iso = a]
    /\ UNCHANGED <<pot, vault, on, fixed, index, filled, hist>>
SetPositionCross(t) ==
    /\ acct[t].iso > 0
    /\ acct' = [acct EXCEPT ![t].cross = @ + acct[t].iso, ![t].iso = 0]
    /\ UNCHANGED <<pot, vault, on, fixed, index, filled, hist>>

(* The liquidator's reward in liquidate_position: out of the bucket of the *)
(* liquidated position, capped at its equity at the limit of the close,    *)
(* into the caller's pool.  The close itself is an order (MarketBook).     *)
LiquidationReward(t, caller, a, limit) ==
    /\ t # caller
    /\ acct[t].lots # 0
    /\ LET iso  == Isolated(Claims, t)
           has  == Bucket(Claims, t, iso)
           paid == Min({a, has, SatSub(has + acct[t].lots * (limit - acct[t].entry), 0)})
           from == SetBucket(Claims, t, iso, has - paid)
       IN  acct' = [from.acct EXCEPT ![caller].cross = @ + paid]
    /\ UNCHANGED <<pot, vault, on, fixed, index, filled, hist>>

(* withdraw_insurance_fund, deposit_insurance_fund, claim_fee_accrual (one *)
(* recipient).                                                             *)
WithdrawInsuranceFund(a) ==
    /\ pot.fund >= a + PauseThreshold
    /\ vault >= a
    /\ vault' = vault - a
    /\ pot' = [pot EXCEPT !.fund = @ - a]
    /\ UNCHANGED <<acct, on, fixed, index, filled, hist>>
DepositInsuranceFund(a) ==
    /\ vault + a <= MaxVault
    /\ vault' = vault + a
    /\ pot' = [pot EXCEPT !.fund = @ + a]
    /\ UNCHANGED <<acct, on, fixed, index, filled, hist>>
ClaimFeeAccrual ==
    /\ pot.fees > 0
    /\ vault - pot.fees >= pot.fund
    /\ vault' = vault - pot.fees
    /\ pot' = [pot EXCEPT !.fees = 0]
    /\ UNCHANGED <<acct, on, fixed, index, filled, hist>>

-----------------------------------------------------------------------------
(* auto_deleverage: the bankrupt leg u gives up collateral in proportion,  *)
(* the counter leg is closed at the bankruptcy price and paid at most      *)
(* that.  What the bankruptcy price charges u beyond its collateral is     *)
(* recorded nowhere in the code; `uncovered` remembers it.                 *)
BankruptcyPrice(a, collateral) ==
    LET perLot == CeilDiv(collateral, Abs(a.lots))
    IN  IF a.lots > 0 THEN Max({SatSub(a.entry, perLot), 1}) ELSE a.entry + perLot
BankruptcyReached(a, mark, bp) == IF a.lots > 0 THEN mark <= bp ELSE mark >= bp

CounterGain(a, n, bp, loss) ==
    Min({n * (IF a.lots > 0 THEN SatSub(bp, a.entry) ELSE SatSub(a.entry, bp)), loss})

Shrunk(a, n) ==
    LET lots == IF a.lots > 0 THEN a.lots - n ELSE a.lots + n
    IN  [a EXCEPT !.lots = lots, !.entry = IF lots = 0 THEN 0 ELSE @]

AutoDeleverage(u, c, n, mark) ==
    LET uIso == Isolated(Claims, u)
        cIso == Isolated(Claims, c)
        has  == Bucket(Claims, u, uIso)
        bp   == BankruptcyPrice(acct[u], has)
        loss == (has * n) \div Abs(acct[u].lots)
        gain == CounterGain(acct[c], n, bp, loss)
        paid == SetBucket(SetBucket(Claims, u, uIso, has - loss), c, cIso,
                          Bucket(Claims, c, cIso) + gain)
    IN  /\ u # c
        /\ acct[u].lots * acct[c].lots < 0
        /\ n <= Min({Abs(acct[u].lots), Abs(acct[c].lots)})
        /\ pot.fund < PauseThreshold
        /\ BankruptcyReached(acct[u], mark, bp)
        /\ IF acct[c].lots > 0 THEN bp > acct[c].entry ELSE bp < acct[c].entry
        /\ acct' = [paid.acct EXCEPT ![u] = Shrunk(@, n), ![c] = Shrunk(@, n)]
        /\ hist' = IF on THEN hist
                   ELSE [hist EXCEPT !.uncovered = @ + SatSub(n * Abs(acct[u].entry - bp), loss)]
        /\ UNCHANGED <<pot, vault, on, fixed, index, filled>>

(* force_close_against_insurance *)
ForceClose(pnl, bucket, fund) ==
    LET paid == IF pnl > 0 THEN Min({pnl, fund}) ELSE -Min({-pnl, bucket})
    IN  [bucket |-> bucket + paid, fund |-> fund - paid]

(* force_reduce_position_oracle: one leg is closed against the fund, and   *)
(* the remains of an isolated bucket return to the pool.  The other side   *)
(* of the trade stays open: `house` is the leg the fund has taken over.    *)
ForceReducePositionOracle(t, mark) ==
    LET a   == acct[t]
        iso == Isolated(Claims, t)
        to  == ForceClose(a.lots * (mark - a.entry), Bucket(Claims, t, iso), pot.fund)
    IN  /\ a.lots # 0
        /\ acct' = [acct EXCEPT ![t] =
                      [a EXCEPT !.cross = IF iso THEN @ + to.bucket ELSE to.bucket, !.iso = 0,
                                !.lots = 0, !.entry = 0, !.anchor = index]]
        /\ pot' = [pot EXCEPT !.fund = to.fund]
        /\ hist' = IF on THEN hist ELSE [hist EXCEPT !.house = @ + a.lots * a.entry]
        /\ UNCHANGED <<vault, on, fixed, index, filled>>

(* crank_funding moves the index, settle_funding charges one position; it  *)
(* needs the market's haircut account.                                     *)
CrankFunding(d) ==
    /\ Abs(index + d) <= MaxIndex
    /\ index' = index + d
    /\ UNCHANGED <<acct, pot, vault, on, fixed, filled, hist>>
SettleFunding(t) ==
    /\ on
    /\ Write(SettlePositionFunding(Claims, t))
    /\ UNCHANGED <<vault, on, fixed, index, filled>>

-----------------------------------------------------------------------------
(* What the claims exceed the vault by.                                    *)
Collateral(a) == SumOver([t \in Traders |-> a[t].cross + a[t].iso])
Excess(a, p, v) == Collateral(a) + p.fund + p.fees + p.residual - v

(* initialize_haircut_state and seed_residual: the residual is an input of *)
(* the authority.  `inherited` remembers how far it was over-stated.       *)
InitializeHaircutState(seed) ==
    /\ ~on
    /\ on' = TRUE
    /\ pot' = [pot EXCEPT !.residual = seed]
    /\ hist' = [uncovered |-> 0, house |-> 0,
                inherited |-> Max({0, Excess(acct, pot', vault)})]
    /\ UNCHANGED <<acct, vault, fixed, index, filled>>
SeedResidual(d) ==
    /\ on
    /\ pot.residual + d \in 0..MaxResidual
    /\ pot' = [pot EXCEPT !.residual = @ + d]
    /\ hist' = [hist EXCEPT !.inherited = Max({@, Excess(acct, pot', vault)})]
    /\ UNCHANGED <<acct, vault, on, fixed, index, filled>>

(* compute_h *)
ComputeH(residual, maturedTotal) ==
    IF maturedTotal = 0 THEN HDenom
    ELSE (Min({residual, maturedTotal}) * HDenom) \div maturedTotal

(* mature_position: a part of the reserve whose warm-up is over; when that *)
(* is, is left open.                                                       *)
MaturePosition(t, d) ==
    /\ on
    /\ d \in 1..acct[t].reserve
    /\ acct' = [acct EXCEPT ![t].reserve = @ - d, ![t].matured = @ + d]
    /\ pot' = [pot EXCEPT !.maturedTotal = @ + d]
    /\ UNCHANGED <<vault, on, fixed, index, filled, hist>>

(* convert_with_haircut *)
Credit(t) == (acct[t].matured * ComputeH(pot.residual, pot.maturedTotal)) \div HDenom

(* convert_position: matured gains become collateral at h, the rest dust.  *)
ConvertPosition(t) ==
    /\ on
    /\ acct[t].matured > 0
    /\ acct' = [SetBucket(Claims, t, Isolated(Claims, t),
                          Bucket(Claims, t, Isolated(Claims, t)) + Credit(t)).acct
                  EXCEPT ![t].matured = 0]
    /\ pot' = [pot EXCEPT !.maturedTotal = @ - acct[t].matured,
                          !.dust = @ + acct[t].matured - Credit(t),
                          !.residual = @ - Credit(t)]
    /\ UNCHANGED <<vault, on, fixed, index, filled, hist>>

(* Deliberately wrong: the dust stays in the residual as well.             *)
FlushHaircutDustTwice ==
    /\ on
    /\ pot.dust > 0
    /\ pot' = [pot EXCEPT !.fund = @ + pot.dust, !.dust = 0]
    /\ UNCHANGED <<acct, vault, on, fixed, index, filled, hist>>

(* flush_haircut_dust: refused while the residual is smaller than the dust.*)
FlushHaircutDust ==
    /\ on
    /\ pot.dust > 0
    /\ pot.residual >= pot.dust
    /\ pot' = [pot EXCEPT !.fund = @ + pot.dust, !.dust = 0, !.residual = @ - pot.dust]
    /\ UNCHANGED <<acct, vault, on, fixed, index, filled, hist>>

(* release_gain_to_haircut *)
ReleaseGainToHaircut(t, a) ==
    LET iso == Isolated(Claims, t)
        m   == SetBucket(Claims, t, iso, Bucket(Claims, t, iso) - a)
    IN  /\ on
        /\ a <= Bucket(Claims, t, iso)
        /\ acct' = [m.acct EXCEPT ![t].reserve = @ + a]
        /\ UNCHANGED <<pot, vault, on, fixed, index, filled, hist>>

-----------------------------------------------------------------------------
Init ==
    /\ acct = [t \in Traders |-> NewAccount]
    /\ pot = [fund |-> 0, fees |-> 0, residual |-> 0, maturedTotal |-> 0, dust |-> 0]
    /\ vault = 0
    /\ on = FALSE /\ permissionless \in BOOLEAN
    /\ index = 0 /\ filled = 0
    /\ hist = [uncovered |-> 0, house |-> 0, inherited |-> 0]

Next ==
    \/ \E t, k \in Traders, side \in {"buy", "sell"}, size \in Sizes, px \in FillPrices,
          fee \in FeeTerms, share \in Shares : ApplyFill(t, k, side, size, px, fee, share)
    \/ \E t \in Traders, a \in Amounts :
          \/ DepositCollateral(t, a)
          \/ WithdrawCollateral(t, a)
          \/ PartialWithdrawCollateral(t, a)
          \/ SetPositionIsolated(t, a)
          \/ ReleaseGainToHaircut(t, a)
    \/ \E t \in Traders : SetPositionCross(t) \/ SettleFunding(t) \/ ConvertPosition(t)
    \/ \E t, k \in Traders, a \in Amounts, limit \in Marks : LiquidationReward(t, k, a, limit)
    \/ \E u, c \in Traders, n \in Sizes, mark \in Marks : AutoDeleverage(u, c, n, mark)
    \/ \E t \in Traders, mark \in Marks : ForceReducePositionOracle(t, mark)
    \/ \E t \in Traders : \E d \in 1..acct[t].reserve : MaturePosition(t, d)
    \/ \E a \in Amounts : WithdrawInsuranceFund(a) \/ DepositInsuranceFund(a)
    \/ \E d \in SeedSteps : SeedResidual(d)
    \/ ClaimFeeAccrual
    \/ \E d \in IndexSteps : CrankFunding(d)
    \/ \E seed \in Amounts \cup {0} : InitializeHaircutState(seed)
    \/ FlushHaircutDust

Spec == Init /\ [][Next]_vars

-----------------------------------------------------------------------------
(* Every balance is an amount: nothing is ever debited below zero, although *)
(* handlers cap, saturate or refuse by rules of their own.                 *)
TypeOK ==
    /\ acct \in [Traders -> Accounts]
    /\ pot \in [fund : Nat, fees : Nat, residual : Nat, maturedTotal : Nat, dust : Nat]
    /\ vault \in 0..MaxVault
    /\ on \in BOOLEAN /\ permissionless \in BOOLEAN
    /\ index \in -MaxIndex..MaxIndex /\ filled \in 0..MaxFills
    /\ hist \in [uncovered : Nat, house : Int, inherited : Nat]

(* Without the haircut: if every position were closed against its entry    *)
(* price, the vault covers all collateral, the fund and the fee shares but *)
(* for the bad debt nobody covered.  Fees, rebates, averaging, realized    *)
(* PnL, deleveraging and withdrawals in any order mint nothing.  (apply_-  *)
(* fill, auto_deleverage, force_reduce_position_oracle)                    *)
Basis == SumOver([t \in Traders |-> acct[t].lots * acct[t].entry])
DirectBacked ==
    ~on => Collateral(acct) + pot.fund + pot.fees - Basis - hist.house <= vault + hist.uncovered

(* With the haircut: V = C + I + Residual.  The residual that backs        *)
(* converted gains and funding receipts is never larger than what the      *)
(* vault holds beyond collateral, fund and fee shares, up to what the      *)
(* authority itself over-stated.  (haircut.rs)                             *)
HaircutSolvent == on => Excess(acct, pot, vault) <= hist.inherited

(* The denominator of h is the sum of the positions' matured gains, so no  *)
(* conversion is ever refused by the checked subtraction.                  *)
MaturedTotalExact == pot.maturedTotal = SumOver([t \in Traders |-> acct[t].matured])

(* Without the haircut no balance is negative and closing at entry is paid *)
(* for.                                                                    *)
ClaimsBacked == TypeOK /\ DirectBacked

(* With it the pipeline of gains is counted exactly and the residual is    *)
(* really there.                                                           *)
HaircutSound == MaturedTotalExact /\ HaircutSolvent

(* A fill of t whose fees and funding alone take all of t's isolated       *)
(* bucket: what it loses beyond them is then charged as if t had none.     *)
FundingDue(a) == IF on THEN Max({0, FundingOwed(a)}) ELSE 0
DrainedByFill(t) ==
    \E k \in Traders, side \in {"buy", "sell"}, size \in Sizes, px \in FillPrices,
       fee \in FeeTerms, share \in Shares :
        \/ /\ ApplyFill(t, k, side, size, px, fee, share)
           /\ acct[t].iso <= fee.taker + FundingDue(acct[t])
        \/ /\ ApplyFill(k, t, side, size, px, fee, share)
           /\ acct[t].iso <= fee.maker + FundingDue(acct[t])

(* An isolated bucket protects the cross pool of its owner, also in the    *)
(* step that uses it up: only the owner's own withdrawals lower the pool,  *)
(* and a fill whose fees and funding drained the bucket before its loss    *)
(* was taken (the flag is sampled anew, lib.rs 6239).                      *)
IsolationProtectsCross ==
    [][\A t \in Traders :
         vault' = vault /\ acct[t].iso > 0 /\ acct'[t].cross < acct[t].cross
           => DrainedByFill(t)]_vars
=============================================================================
