----------------------------- MODULE Settlement -----------------------------
(***************************************************************************)
(* One market across the match -> settle gap.  Matching checks its limits  *)
(* against committed positions and open interest, and only queues fills;   *)
(* positions and open interest move when the fill reaches the head of the  *)
(* commitment ring and someone settles it.  In between, other instructions *)
(* (auto-deleverage, the stalled-rollup recovery, status changes) act on   *)
(* the same positions.                                                     *)
(*                                                                         *)
(* The ring is the queue FillRing is shown to implement.  The book is      *)
(* abstracted: a taker may cross any resting orders its checks admit, so a *)
(* match is a choice of makers, sizes and prices.  Of the delegations only *)
(* that of the book is here: the market and the ring stay on L1, where     *)
(* settlement needs them, and with the book alone on the rollup nobody can *)
(* match.  Rollup has the delegation of all three.                         *)
(***************************************************************************)
EXTENDS Integers, Sequences, FiniteSets, FiniteSetsExt, Functions

CONSTANTS
    Traders,
    Pools,         \* the LP pool's maker identity, or empty: no LP quotes
    Sizes,         \* fill sizes, base lots
    QuotePrices,   \* prices of LP quotes, in ticks
    OraclePrices,  \* prices the oracle can publish
    LpBand,        \* LP_MAX_FILL_DEVIATION_BPS, in ticks
    OiCap,         \* max_oi_base_lots, 0 = no cap
    BreakerLots,   \* gross open interest the insurance breaker admits, 0 = off
    Holds,         \* what can hold fills back besides the oracle (below)
    MaxBatch,      \* bound: makers crossed by one taker
    MaxFills       \* bound: fills matched in a behaviour

ASSUME SettlementAssumption ==
    /\ IsFiniteSet(Traders) /\ IsFiniteSet(Pools) /\ Traders \cap Pools = {}
    /\ Sizes \subseteq Nat \ {0}
    /\ QuotePrices \cup OraclePrices \subseteq Nat \ {0}
    /\ {LpBand, OiCap, BreakerLots, MaxBatch, MaxFills} \subseteq Nat
    /\ Holds \subseteq {"haircut", "lpSlots", "lpFees"}

VARIABLES
    pos,        \* signed position of every party, long > 0
    oi,         \* [long, short]: market.oi_long_lots, market.oi_short_lots
    queue,      \* fills matched and not yet settled
    inflight,   \* reduce-only maker lots reserved in the ring
    unsettled,  \* market.unsettled_fill_volume
    status,     \* market.status
    oracle,     \* market.oracle_price_ticks, 0 when older than the staleness limit
    held,       \* what refuses fills at the moment:
                \* "haircut": market.is_permissionless without market.haircut_enabled
                \* "lpSlots": other markets take up all of the pool's per_market slots
                \* "lpFees": the maker rebate of market.params exceeds the taker fee
    home,       \* where the book account is: "L1" or "ER"
    delegated,  \* market.book_delegated
    matched,    \* bound: fills matched so far
    forced,     \* history: a position was closed against insurance
    mixed       \* history: what a position's pending fills have met (below)

vars == <<pos, oi, queue, inflight, unsettled, status, oracle, held,
          home, delegated, matched, forced, mixed>>
er == <<held, home, delegated>>
env == <<oracle, er>>

-----------------------------------------------------------------------------
Parties == Traders \cup Pools
Sides == {"buy", "sell"}
Opposite(s) == IF s = "buy" THEN "sell" ELSE "buy"
Signed(s, n) == IF s = "buy" THEN n ELSE -n
Abs(n) == IF n < 0 THEN -n ELSE n
SatSub(a, b) == IF a > b THEN a - b ELSE 0
LongPart(n) == IF n > 0 THEN n ELSE 0
ShortPart(n) == IF n < 0 THEN -n ELSE 0

Statuses == {"Inactive", "Active", "PostOnly", "Paused", "Closed", "CloseOnly"}
Tradable == {"Active", "PostOnly", "CloseOnly"}

(* check_reduce_only: the lots of an order on side s that only reduce a    *)
(* position with `reducible` lots left; 0 rejects.                         *)
Reducible(p, s, reducible, want) ==
    IF pos[p] # 0 /\ (pos[p] > 0) = (s = "sell") THEN Min({want, reducible}) ELSE 0

(* update_oi for one position transition.                                  *)
UpdateOi(o, pre, post) ==
    [long  |-> SatSub(o.long, LongPart(pre)) + LongPart(post),
     short |-> SatSub(o.short, ShortPart(pre)) + ShortPart(post)]

(* price_within_band *)
WithinBand(o, px) == Abs(px - o) <= LpBand

Involves(f, p) == p \in {f.taker, f.maker}
PendingOf(q, p) == {i \in DOMAIN q : Involves(q[i], p)}

(* mixed[p] = 0: all pending fills of p are reduce-only maker fills;       *)
(* 1: there are others; 2: an instruction other than settlement moved the  *)
(* position while fills of it were pending.                                *)
MovedApart(ps) ==
    [p \in Traders |-> IF p \in ps /\ PendingOf(queue, p) # {} THEN 2 ELSE mixed[p]]

(* Lots of a sequence of fills or legs, and of the reduce-only ones of p.  *)
Volume(q) == SumFunctionOnSet([i \in DOMAIN q |-> q[i].size], DOMAIN q)
ReduceVolume(q, p) ==
    SumFunctionOnSet([i \in DOMAIN q |-> IF q[i].ro /\ q[i].maker = p THEN q[i].size ELSE 0],
                     DOMAIN q)

-----------------------------------------------------------------------------
Init ==
    /\ pos = [p \in Parties |-> 0]
    /\ oi = [long |-> 0, short |-> 0]
    /\ queue = <<>>
    /\ inflight = [p \in Traders |-> 0]
    /\ unsettled = 0
    /\ status = "Active"
    /\ oracle = 0
    /\ held \in SUBSET Holds
    /\ home = "L1" /\ delegated = FALSE
    /\ matched = 0 /\ forced = FALSE
    /\ mixed = [p \in Traders |-> 0]

(* The reduce-only gate of place_taker_order.  CloseOnly makes every order *)
(* reduce-only; the cap is the committed position, in-flight lots are not  *)
(* subtracted for the taker.                                               *)
TakerSize(t, s, ro, want) ==
    IF ro \/ status = "CloseOnly" THEN Reducible(t, s, Abs(pos[t]), want) ELSE want

OiSide(s) == IF s = "buy" THEN oi.long ELSE oi.short

(* Deliberately wrong: matched and unsettled fills are not counted.      *)
OiAdmitsSettledOnly(s, size) ==
    OiCap = 0 \/ OiSide(s) + size <= OiCap

(* The open-interest gate: settled, matched and requested lots.  It also   *)
(* applies to orders that only reduce.                                     *)
OiAdmits(s, size) ==
    OiCap = 0 \/ OiSide(s) + unsettled + size <= OiCap

(* Status, reduce-only and open-interest gates of place_taker_order.       *)
Admitted(t, s, ro, want) ==
    /\ status \in Tradable
    /\ TakerSize(t, s, ro, want) > 0
    /\ OiAdmits(s, TakerSize(t, s, ro, want))

(* Deliberately wrong: the cap ignores lots already in flight.           *)
WalkAdmitsStale(t, s, size, legs) ==
    /\ \A k \in DOMAIN legs : legs[k].maker # t
    /\ Volume(legs) <= size
    /\ \A p \in Traders :
         LET ro == ReduceVolume(legs, p)
         IN  ro <= Reducible(p, Opposite(s), Abs(pos[p]), ro)

(* The maker legs a walk may produce for a taker of `size` lots: own       *)
(* orders are skipped, a reduce-only maker is capped by its position less  *)
(* its in-flight lots, shared by all its orders in the walk.               *)
WalkAdmits(t, s, size, legs) ==
    /\ \A k \in DOMAIN legs : legs[k].maker # t
    /\ Volume(legs) <= size
    /\ \A p \in Traders :
         LET ro == ReduceVolume(legs, p)
         IN  ro <= Reducible(p, Opposite(s), SatSub(Abs(pos[p]), inflight[p]), ro)

(* place_taker_order, filled part: gates, walk, ring push, reservations.   *)
PlaceTakerOrder(t, s, ro, want, legs) ==
    LET fills == [k \in DOMAIN legs |->
                    [taker |-> t, side |-> s, maker |-> legs[k].maker,
                     size |-> legs[k].size, px |-> legs[k].px, ro |-> legs[k].ro]]
    IN  /\ matched + Len(legs) <= MaxFills
        /\ home = "L1"
        /\ Admitted(t, s, ro, want)
        /\ WalkAdmits(t, s, TakerSize(t, s, ro, want), legs)
        /\ queue' = queue \o fills
        /\ inflight' = [p \in Traders |->
                          inflight[p] + ReduceVolume(legs, p)]
        /\ unsettled' = unsettled + Volume(legs)
        /\ matched' = matched + Len(legs)
        /\ mixed' = [p \in Traders |->
                       IF \/ p = t
                          \/ \E k \in DOMAIN legs : legs[k].maker = p /\ ~legs[k].ro
                       THEN Max({mixed[p], 1}) ELSE mixed[p]]
        /\ UNCHANGED <<pos, oi, status, env, forced>>

(* OI-versus-insurance breaker at the end of both settlement handlers.     *)
BreakerStatus(o) ==
    IF status \notin {"Paused", "Closed"} /\ BreakerLots > 0 /\ o.long + o.short > BreakerLots
    THEN "Paused" ELSE status

(* reduce_flag_take and inflight_sub of the settled fill.                  *)
Released(f) ==
    IF f.ro THEN [inflight EXCEPT ![f.maker] = SatSub(@, f.size)] ELSE inflight

(* Both settlement handlers: pop the oldest fill, move both legs, then the *)
(* open interest leg by leg, release the reservations.                     *)
Settle(f) ==
    LET tNew == pos[f.taker] + Signed(f.side, f.size)
        mNew == pos[f.maker] - Signed(f.side, f.size)
        oiT  == UpdateOi(oi, pos[f.taker], tNew)
        oiM  == UpdateOi(oiT, pos[f.maker], mNew)
    IN  /\ queue' = Tail(queue)
        /\ pos' = [pos EXCEPT ![f.taker] = tNew, ![f.maker] = mNew]
        /\ oi' = oiM
        /\ unsettled' = SatSub(unsettled, f.size)
        /\ inflight' = Released(f)
        /\ status' = BreakerStatus(oiM)
        /\ mixed' = [p \in Traders |-> IF PendingOf(Tail(queue), p) = {} THEN 0 ELSE mixed[p]]
        /\ UNCHANGED <<env, matched, forced>>

(* Deliberately wrong: a paused market does not settle.                  *)
ApplyFillUnpaused ==
    /\ queue # <<>>
    /\ status # "Paused"
    /\ Head(queue).maker \in Traders
    /\ "haircut" \notin held
    /\ Settle(Head(queue))

(* apply_fill: any keeper; beside the commitment only the haircut engine   *)
(* decides, which a permissionless market must have switched on.  The      *)
(* haircut accounts of the positions can be opened by anyone.              *)
ApplyFill ==
    /\ queue # <<>>
    /\ Head(queue).maker \in Traders
    /\ "haircut" \notin held
    /\ Settle(Head(queue))

(* apply_lp_fill: the pool's fill must also be inside the band of a fresh  *)
(* oracle at the moment it is settled, the pool needs a slot for the       *)
(* market, and the taker fee has to pay for the rebate (the fee tier is an *)
(* optional account, so the market's own rates can always be used).        *)
LpSettleable(f) == oracle # 0 /\ WithinBand(oracle, f.px) /\ held \cap {"lpSlots", "lpFees"} = {}
ApplyLpFill ==
    /\ queue # <<>>
    /\ Head(queue).maker \in Pools
    /\ "haircut" \notin held
    /\ LpSettleable(Head(queue))
    /\ Settle(Head(queue))

Holding(new) ==
    /\ held' = new
    /\ UNCHANGED <<pos, oi, queue, inflight, unsettled, status, oracle, home, delegated,
                   matched, forced, mixed>>

(* initialize_haircut_state: the market's authority, once, for good.       *)
InitializeHaircutState == "haircut" \in held /\ Holding(held \ {"haircut"})

(* execute_param_update: a rebate above the fee is a legal parameter set.  *)
ExecuteParamUpdate(over) ==
    /\ "lpFees" \in Holds
    /\ Holding(IF over THEN held \cup {"lpFees"} ELSE held \ {"lpFees"})

(* The pool's positions in other markets take slots and free them; they    *)
(* cannot have all of them while this market has one.                      *)
OtherMarketsFill(full) ==
    /\ "lpSlots" \in Holds
    /\ full => \A p \in Pools : pos[p] = 0
    /\ Holding(IF full THEN held \cup {"lpSlots"} ELSE held \ {"lpSlots"})

(* reconcile_unsettled_fill_volume *)
ReconcileUnsettledFillVolume ==
    /\ queue = <<>>
    /\ unsettled' = 0
    /\ UNCHANGED <<pos, oi, queue, inflight, status, env, matched, forced, mixed>>

(* Deliberately wrong: the counterparty is closed whole, not by n lots.    *)
AutoDeleverageWhole(u, c, n) ==
    /\ status # "Paused"
    /\ u # c
    /\ pos[u] # 0 /\ pos[c] # 0 /\ (pos[u] > 0) # (pos[c] > 0)
    /\ n \in 1..Min({Abs(pos[u]), Abs(pos[c])})
    /\ LET uNew == IF pos[u] > 0 THEN pos[u] - n ELSE pos[u] + n
           cNew == 0
       IN  /\ pos' = [pos EXCEPT ![u] = uNew, ![c] = cNew]
           /\ oi' = UpdateOi(UpdateOi(oi, pos[u], uNew), pos[c], cNew)
    /\ mixed' = MovedApart({u, c})
    /\ UNCHANGED <<queue, inflight, unsettled, status, env, matched, forced>>

(* auto_deleverage: an underwater position is closed against one of the    *)
(* other side; both shrink by the same lots.  Which positions qualify is a *)
(* matter of prices and is left open.                                      *)
AutoDeleverage(u, c, n) ==
    /\ status # "Paused"
    /\ u # c
    /\ pos[u] # 0 /\ pos[c] # 0 /\ (pos[u] > 0) # (pos[c] > 0)
    /\ n \in 1..Min({Abs(pos[u]), Abs(pos[c])})
    /\ LET uNew == IF pos[u] > 0 THEN pos[u] - n ELSE pos[u] + n
           cNew == IF pos[c] > 0 THEN pos[c] - n ELSE pos[c] + n
       IN  /\ pos' = [pos EXCEPT ![u] = uNew, ![c] = cNew]
           /\ oi' = UpdateOi(UpdateOi(oi, pos[u], uNew), pos[c], cNew)
    /\ mixed' = MovedApart({u, c})
    /\ UNCHANGED <<queue, inflight, unsettled, status, env, matched, forced>>

(* force_reduce_position_oracle: a position trapped behind a delegated     *)
(* book and a rollup that shows no liveness is closed alone, against the   *)
(* insurance fund.  `dead` is force_undelegate_allowed.                    *)
ForceReducePositionOracle(p, dead) ==
    /\ delegated /\ home = "ER"
    /\ dead
    /\ pos[p] # 0
    /\ pos' = [pos EXCEPT ![p] = 0]
    /\ oi' = UpdateOi(oi, pos[p], 0)
    /\ forced' = TRUE
    /\ mixed' = MovedApart({p})
    /\ UNCHANGED <<queue, inflight, unsettled, status, env, matched>>

(* verify_market_invariants: no settlement and no heartbeat for too long   *)
(* (S7, `idle`) or unequal open interest (S5) pauses the market.           *)
VerifyMarketInvariants(idle) ==
    /\ idle \/ oi.long # oi.short
    /\ status' = IF status = "Closed" THEN status ELSE "Paused"
    /\ UNCHANGED <<pos, oi, queue, inflight, unsettled, env, matched, forced, mixed>>

(* set_market_status: anywhere but out of Closed.  Who may move it where   *)
(* is in Governance; the guardian's moves are among the authority's.       *)
SetMarketStatus(new) ==
    /\ status # "Closed"
    /\ status' = new
    /\ UNCHANGED <<pos, oi, queue, inflight, unsettled, env, matched, forced, mixed>>

(* delegate_market_book, the undelegation callback that hands the account  *)
(* back, and clear_book_delegation, which the authority may call whenever  *)
(* an empty book is back on L1.                                            *)
DelegateMarketBook ==
    /\ home = "L1"
    /\ home' = "ER" /\ delegated' = TRUE
    /\ UNCHANGED <<pos, oi, queue, inflight, unsettled, status, oracle, held,
                   matched, forced, mixed>>
ProcessUndelegation ==
    /\ home = "ER"
    /\ home' = "L1"
    /\ UNCHANGED <<pos, oi, queue, inflight, unsettled, status, oracle, held, delegated,
                   matched, forced, mixed>>
ClearBookDelegation ==
    /\ home = "L1"
    /\ delegated' = FALSE
    /\ status' = "CloseOnly"
    /\ UNCHANGED <<pos, oi, queue, inflight, unsettled, oracle, held, home,
                   matched, forced, mixed>>

(* update_oracle, and the staleness limit passing without one (a limit of 0 *)
(* is refused when a market is created).                                   *)
UpdateOracle(px) ==
    /\ oracle' = px
    /\ UNCHANGED <<pos, oi, queue, inflight, unsettled, status, er, matched, forced, mixed>>
OracleAges ==
    /\ oracle' = 0
    /\ UNCHANGED <<pos, oi, queue, inflight, unsettled, status, er, matched, forced, mixed>>

Legs == UNION {[1..n -> [maker : Traders, size : Sizes, px : {0}, ro : BOOLEAN]
                        \cup [maker : Pools, size : Sizes, px : QuotePrices, ro : {FALSE}]]
                 : n \in 1..MaxBatch}
Wants == 1..(MaxBatch * Max(Sizes))

(* Asking for more than is crossed makes the gates stricter and changes    *)
(* nothing else, so orders that are filled as far as they ask for suffice. *)
LegsOf == [want \in Wants |-> {legs \in Legs : Volume(legs) = want}]

(* Guards of PlaceTakerOrder are repeated where they spare TLC the         *)
(* enumeration of legs.                                                    *)
Match ==
    /\ matched < MaxFills /\ home = "L1"
    /\ \E t \in Traders, s \in Sides, ro \in BOOLEAN, want \in Wants :
          /\ Admitted(t, s, ro, want)
          /\ \E legs \in LegsOf[want] : PlaceTakerOrder(t, s, ro, want, legs)

Next ==
    \/ Match
    \/ ApplyFill
    \/ ApplyLpFill
    \/ ReconcileUnsettledFillVolume
    \/ \E u, c \in Traders : \E n \in 1..Abs(pos[u]) : AutoDeleverage(u, c, n)
    \/ \E p \in Traders, dead \in BOOLEAN : ForceReducePositionOracle(p, dead)
    \/ \E idle \in BOOLEAN : VerifyMarketInvariants(idle)
    \/ \E new \in Statuses : SetMarketStatus(new)
    \/ InitializeHaircutState
    \/ \E yes \in BOOLEAN : ExecuteParamUpdate(yes) \/ OtherMarketsFill(yes)
    \/ DelegateMarketBook
    \/ ProcessUndelegation
    \/ ClearBookDelegation
    \/ \E px \in OraclePrices : UpdateOracle(px)
    \/ OracleAges

Spec == Init /\ [][Next]_vars

(* Anyone may settle and a keeper keeps trying; nothing obliges anybody to *)
(* do anything else.                                                       *)
Fairness == WF_vars(ApplyFill \/ ApplyLpFill)
LiveSpec == Spec /\ Fairness

-----------------------------------------------------------------------------
(* Open interest as the positions have it.                                 *)
LongInterest == SumFunctionOnSet([p \in Parties |-> LongPart(pos[p])], Parties)
ShortInterest == SumFunctionOnSet([p \in Parties |-> ShortPart(pos[p])], Parties)

(* Every variable has its type; counters never go below zero.              *)
TypeOK ==
    /\ pos \in [Parties -> Int]
    /\ oi \in [long : Nat, short : Nat]
    /\ \A i \in DOMAIN queue :
          queue[i] \in [taker : Traders, side : Sides, maker : Parties, size : Sizes,
                        px : QuotePrices \cup {0}, ro : BOOLEAN]
    /\ inflight \in [Traders -> Nat] /\ unsettled \in Nat
    /\ status \in Statuses
    /\ oracle \in OraclePrices \cup {0}
    /\ held \subseteq Holds
    /\ home \in {"L1", "ER"} /\ delegated \in BOOLEAN
    /\ matched \in 0..MaxFills /\ forced \in BOOLEAN
    /\ mixed \in [Traders -> 0..2]

(* The market's open-interest counters are maintained incrementally by     *)
(* three different handlers with saturating subtraction; they never drift  *)
(* from the positions they count.  (update_oi)                             *)
OiMatchesPositions ==
    /\ oi.long = LongInterest
    /\ oi.short = ShortInterest

(* Settlement and auto-deleverage keep long and short open interest equal; *)
(* only the recovery that closes against insurance may part them.          *)
OiBalancedUnlessForced == ~forced => oi.long = oi.short

(* The market's open interest is that of its positions, leg for leg.       *)
OiExact == TypeOK /\ OiMatchesPositions /\ OiBalancedUnlessForced

(* max_oi_base_lots bounds open interest at every moment although intake   *)
(* checks it before fills settle: pipelined takers cannot overshoot.       *)
OiCapHolds == OiCap > 0 /\ ~forced => Max({oi.long, oi.short}) + unsettled <= OiCap

(* Across the match -> settle gap the reduce-only maker fills of a         *)
(* position never exceed it, as long as nothing else is moving it.         *)
ReduceOnlyMakerSafe == \A p \in Traders : mixed[p] = 0 => inflight[p] <= Abs(pos[p])

(* A ring on L1 keeps draining whatever happens to the market: pause,      *)
(* close, delegated book, deleveraging, a tripped breaker.  Fills of       *)
(* traders wait for nothing but the authority of a permissionless market,  *)
(* who has to switch the haircut engine on; with an LP fill at its head    *)
(* the ring also waits for the oracle to come back into the fill's band,   *)
(* for a slot of the pool and for a fee that pays the rebate.  (apply_fill,*)
(* apply_lp_fill)                                                          *)
FillsSettleOrWait ==
    []<>(\/ queue = <<>>
         \/ "haircut" \in held
         \/ Head(queue).maker \in Pools /\ ~LpSettleable(Head(queue)))

-----------------------------------------------------------------------------
(* What docs and comments say that the code does not do.                   *)

(* SETTLEMENT.md: a reduce-only order cannot flip a position, within a     *)
(* walk, across walks, or across the match -> settle gap.  Positions that  *)
(* liquidation or deleveraging moved in between are a documented residual  *)
(* and are left out.                                                       *)
Reduces(before, after) == before # 0 /\ before * after >= 0
ReduceOnlyNeverFlips ==
    [][queue # <<>> /\ queue' = Tail(queue) =>
         LET f == Head(queue)
         IN  f.ro /\ mixed[f.maker] < 2 => Reduces(pos[f.maker], pos'[f.maker])]_vars
=============================================================================
