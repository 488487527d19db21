----------------------------- MODULE Conditional -----------------------------
(***************************************************************************)
(* Conditional orders of one sub-account on one market: standalone         *)
(* triggers, brackets (a parent order and two triggers that cancel each    *)
(* other), TWAPs and icebergs.  The owner writes each of them once, into   *)
(* an account of its own; from then on any keeper may turn it into resting *)
(* orders, at a moment and with sibling accounts of the keeper's choice,   *)
(* while the oracle moves, orders are crossed, fills wait to be settled    *)
(* and the owner cancels or modifies.                                      *)
(*                                                                         *)
(* Every handler binds TraderState and position to the (trader, sub_index) *)
(* of the order, so one sub-account is modelled.  tick_size is 1.  The     *)
(* order tree, its capacity and order priorities are in MarketBook; the    *)
(* settlement ring is in FillRing.  A handler that returns an error leaves *)
(* no trace: the runtime reverts the accounts it wrote.                    *)
(***************************************************************************)
EXTENDS Integers, Sequences, FiniteSets, FiniteSetsExt, Functions

CONSTANTS
    TriggerIds,       \* trigger_id: 0 is an id like any other
    TwapIds, IcebergIds,
    TriggerTerms,     \* what owners ask for, one record per instruction call
    BracketTerms,
    TwapTerms,
    IcebergTerms,
    ModifyTerms,      \* what an order is changed into
    OraclePrices,     \* prices a refresh may bring; 0: never stamped
    InitPositions,    \* signed lots held at the start
    Backing,          \* collateral behind the position, quote lots
    ImBps, BpsDenom,  \* initial margin ratio
    MinLots,          \* min_base_lots
    Ttl,              \* REDUCE_ONLY_TRIGGER_ORDER_TTL_SLOTS
    MaxSlot,          \* bound on the clock
    MaxSeq,           \* bound on orders put on the book
    MaxPlaced,        \* bound on conditional orders placed
    MaxFills          \* bound on fills

Sides == {"buy", "sell"}
Directions == {"above", "below"}

ASSUME ConditionalAssumption ==
    /\ TriggerIds \subseteq Nat /\ OraclePrices \subseteq Nat
    /\ InitPositions \subseteq Int
    /\ TriggerTerms \subseteq [side : Sides, kind : Directions, ro : BOOLEAN, size : Nat, px : Nat,
                              limit : Nat, exp : Nat, cap : Nat]
    /\ BracketTerms \subseteq [side : Sides, size : Nat, limit : Nat, tpPx : Nat, tpLimit : Nat,
                              slPx : Nat, slLimit : Nat, exp : Nat]
    /\ TwapTerms \subseteq [side : Sides, slice : Nat, total : Nat, limit : Nat, interval : Nat,
                           end : Nat, cap : Nat]
    /\ IcebergTerms \subseteq [side : Sides, total : Nat, shown : Nat, limit : Nat, exp : Nat]
    /\ ModifyTerms \subseteq [size : Nat, px : Nat, ro : BOOLEAN, exp : Nat]
    /\ Backing \in Nat /\ ImBps \in Nat /\ MinLots \in Nat /\ Ttl \in Nat
    /\ BpsDenom \in Nat \ {0} /\ MaxSlot \in Nat \ {0}
    /\ MaxSeq \in Nat /\ MaxPlaced \in Nat /\ MaxFills \in Nat

VARIABLES
    now,        \* the slot
    oracle,     \* [px, fresh]: market.oracle_price_ticks and its age
    pos,        \* signed size of the position, as settled
    book,       \* the sub-account's resting orders
    seq,        \* order_seq_counter
    queue,      \* matched fills of the sub-account, oldest first
    trig, twap, ice,  \* the conditional-order accounts
    placed,     \* bound, and a number for each conditional order
    filled,     \* bound
    hist        \* history: legs fired per bracket; mixed, see ExitsNeverFlip

vars == <<now, oracle, pos, book, seq, queue, trig, twap, ice, placed, filled, hist>>
accounts == <<trig, twap, ice, placed>>
market == <<now, oracle, pos, queue, filled>>

-----------------------------------------------------------------------------
Abs(n) == IF n < 0 THEN -n ELSE n
SatSub(a, b) == IF a > b THEN a - b ELSE 0
CeilDiv(a, b) == (a + b - 1) \div b
Signed(side, n) == IF side = "buy" THEN n ELSE -n
Opposite(side) == IF side = "buy" THEN "sell" ELSE "buy"
PosSide == IF pos > 0 THEN "buy" ELSE "sell"
Closed == [closed |-> TRUE]          \* an account that does not exist
NoSibling == -1                      \* Option::None in the executor's accounts

(* The account contexts: a placement initialises an account that must not  *)
(* exist, the other instructions load one that does; a cancel closes it.   *)
TriggerVacant(id) == trig[id] = Closed
TriggerOpen(id) == trig[id] # Closed
TwapVacant(id) == twap[id] = Closed
TwapOpen(id) == twap[id] # Closed
IcebergVacant(id) == ice[id] = Closed
IcebergOpen(id) == ice[id] # Closed
LegsVacant(tp, sl) == tp # sl /\ TriggerVacant(tp) /\ TriggerVacant(sl)

(* Who an order came from: the kind and number of a conditional order.     *)
Tag(kind, n) == [kind |-> kind, n |-> n]
Plain == Tag("user", 0)

LotsOf(os) == SumFunctionOnSet([o \in os |-> o.size], os)
Expired(o) == o.exp > 0 /\ now > o.exp

-----------------------------------------------------------------------------
(* assert_intake_initial_margin and assert_open_position_budget: the       *)
(* position that would result, at the limit price, is covered by the       *)
(* collateral behind it.  A pure reduce is exempt when the caller passes   *)
(* the position; without it the whole order counts as an open.  One market *)
(* never exhausts the slots of a trader.                                   *)
ResultingSize(side, size, seen) ==
    IF ~seen \/ pos = 0 THEN size
    ELSE IF PosSide = side THEN Abs(pos) + size ELSE size - Abs(pos)

IntakeMargin(side, size, px, seen) ==
    \/ seen /\ pos # 0 /\ PosSide # side /\ size <= Abs(pos)
    \/ CeilDiv(ResultingSize(side, size, seen) * px * ImBps, BpsDenom) <= Backing

(* gate_injection_open: reduce-only orders pass.  The position account is  *)
(* optional for all but triggers, and the caller chooses.                  *)
GateInjectionOpen(side, size, px, ro, optional) ==
    \/ ro
    \/ IntakeMargin(side, size, px, TRUE)
    \/ optional /\ IntakeMargin(side, size, px, FALSE)

(* An order put straight on the book, with the next sequence number.       *)
Inject(side, px, size, ro, exp, tag) ==
    /\ seq < MaxSeq
    /\ seq' = seq + 1
    /\ book' = book \cup {[seq |-> seq', side |-> side, px |-> px, size |-> size,
                           ro |-> ro, exp |-> exp, tag |-> tag]}

-----------------------------------------------------------------------------
(* Triggers *)

(* A cap has to be on the far side of the price it caps.                   *)
CapSane(cap, side, px) == cap = 0 \/ (IF side = "buy" THEN cap >= px ELSE cap <= px)

LiveUntil(exp) == exp = 0 \/ exp > now
NotOver(exp) == exp = 0 \/ exp >= now

TriggerAdmits(t) ==
    /\ t.size > 0 /\ t.size >= MinLots
    /\ t.px > 0 /\ t.limit > 0
    /\ CapSane(t.cap, t.side, t.px)
    /\ LiveUntil(t.exp)

NewTrigger(t, sib, hasSib, pair) ==
    [side |-> t.side, kind |-> t.kind, ro |-> t.ro, size |-> t.size, px |-> t.px,
     limit |-> t.limit, exp |-> t.exp, cap |-> t.cap, active |-> TRUE,
     sib |-> sib, hasSib |-> hasSib, pair |-> pair]

PlaceTrigger(id, t) ==
    /\ placed < MaxPlaced /\ placed' = placed + 1
    /\ TriggerVacant(id)
    /\ TriggerAdmits(t)
    /\ trig' = [trig EXCEPT ![id] = NewTrigger(t, 0, FALSE, 0)]
    /\ UNCHANGED <<market, book, seq, twap, ice, hist>>

(* slippage_cap_breached *)
SlippageCapBreached(cap, side) ==
    cap # 0 /\ (IF side = "buy" THEN oracle.px > cap ELSE oracle.px < cap)

(* Deliberately wrong: the other leg need not point back.                  *)
IsOcoSiblingAny(id, other) == TriggerOpen(other) /\ other # id

(* is_oco_sibling: the two point at each other.                            *)
IsOcoSibling(id, other) ==
    TriggerOpen(other) /\ other = trig[id].sib /\ trig[other].sib = id

Fires(t) == IF t.kind = "below" THEN oracle.px <= t.px ELSE oracle.px >= t.px

(* Active, not expired, and the condition holds at a fresh oracle.         *)
ReadyToFire(id) ==
    /\ TriggerOpen(id) /\ trig[id].active
    /\ NotOver(trig[id].exp)
    /\ oracle.fresh
    /\ Fires(trig[id])

(* What is already resting against the position, expired or not.           *)
RestingExits(side) == LotsOf({o \in book : o.ro /\ o.side = side})

(* A reduce-only order is cut to what the position still has to give.      *)
EffectiveSize(t) ==
    IF t.ro THEN Min({t.size, SatSub(Abs(pos), RestingExits(t.side))}) ELSE t.size

(* The position a reduce-only trigger closes has to be there.              *)
BacksExit(t) == t.ro => pos # 0 /\ PosSide # t.side /\ t.size <= Abs(pos)

(* The fired trigger and, for a bracket leg, its sibling.                  *)
Disarm(id, sid) ==
    [i \in TriggerIds |->
        IF i = id \/ (trig[id].hasSib /\ i = sid) THEN [trig[i] EXCEPT !.active = FALSE]
        ELSE trig[i]]

CountLeg(n) ==
    IF n = 0 THEN hist.legs ELSE [hist.legs EXCEPT ![n] = @ + 1]

(* Any caller, with any account (or none) in the place of the sibling.     *)
ExecuteTrigger(id, sid) ==
    /\ ReadyToFire(id)
    /\ LET t == trig[id] IN
         /\ ~SlippageCapBreached(t.cap, t.side)
         /\ BacksExit(t)
         /\ EffectiveSize(t) > 0
         /\ GateInjectionOpen(t.side, EffectiveSize(t), t.limit, t.ro, FALSE)
         /\ t.hasSib => sid # NoSibling /\ IsOcoSibling(id, sid)
         /\ Inject(t.side, t.limit, EffectiveSize(t), t.ro,
                   IF t.ro THEN now + Ttl ELSE 0, Tag("trigger", t.pair))
         /\ trig' = Disarm(id, sid)
         /\ hist' = [hist EXCEPT !.legs = CountLeg(t.pair)]
    /\ UNCHANGED <<market, twap, ice, placed>>

(* The owner closes the account; a sibling is left as it is.               *)
CancelTrigger(id) ==
    /\ TriggerOpen(id)
    /\ trig' = [trig EXCEPT ![id] = Closed]
    /\ UNCHANGED <<market, book, seq, twap, ice, placed, hist>>

-----------------------------------------------------------------------------
(* Brackets *)

(* The target lies beyond the parent's price, the stop short of it.        *)
BracketAdmits(b) ==
    /\ b.size > 0 /\ b.size >= MinLots
    /\ {b.limit, b.tpPx, b.slPx, b.tpLimit, b.slLimit} \subseteq Nat \ {0}
    /\ LiveUntil(b.exp)
    /\ IF b.side = "buy" THEN b.tpPx > b.limit /\ b.slPx < b.limit
                         ELSE b.tpPx < b.limit /\ b.slPx > b.limit

(* A leg closes what the parent opens; it has no slippage cap.             *)
LegTerms(b, kind, px, limit) ==
    [side |-> Opposite(b.side), kind |-> kind, ro |-> TRUE, size |-> b.size,
     px |-> px, limit |-> limit, exp |-> b.exp, cap |-> 0]

PlaceBracket(tp, sl, b) ==
    LET target == LegTerms(b, IF b.side = "buy" THEN "above" ELSE "below", b.tpPx, b.tpLimit)
        stop   == LegTerms(b, IF b.side = "buy" THEN "below" ELSE "above", b.slPx, b.slLimit)
    IN  /\ placed < MaxPlaced /\ placed' = placed + 1
        /\ LegsVacant(tp, sl)
        /\ BracketAdmits(b)
        /\ GateInjectionOpen(b.side, b.size, b.limit, FALSE, TRUE)
        /\ Inject(b.side, b.limit, b.size, FALSE, 0, Plain)
        /\ trig' = [trig EXCEPT ![tp] = NewTrigger(target, sl, TRUE, placed'),
                                ![sl] = NewTrigger(stop, tp, TRUE, placed')]
        /\ UNCHANGED <<market, twap, ice, hist>>

-----------------------------------------------------------------------------
(* TWAPs *)

TwapAdmits(w) ==
    /\ w.slice > 0 /\ w.slice >= MinLots /\ w.total >= w.slice
    /\ w.limit > 0 /\ w.interval > 0
    /\ CapSane(w.cap, w.side, w.limit)
    /\ LiveUntil(w.end)

(* The clock of the first slice starts at 0, not at the placement.  slices *)
(* is a history variable: slot and lots of every slice.                    *)
NewTwap(w) ==
    [side |-> w.side, slice |-> w.slice, total |-> w.total, limit |-> w.limit,
     interval |-> w.interval, end |-> w.end, cap |-> w.cap,
     executed |-> 0, last |-> 0, active |-> TRUE, slices |-> <<>>]

PlaceTwap(id, w) ==
    /\ placed < MaxPlaced /\ placed' = placed + 1
    /\ TwapVacant(id)
    /\ TwapAdmits(w)
    /\ twap' = [twap EXCEPT ![id] = NewTwap(w)]
    /\ UNCHANGED <<market, book, seq, trig, ice, hist>>

SliceLots(w) == Min({w.slice, w.total - w.executed})

(* Deliberately wrong: missed intervals are made up for at once.           *)
AfterSliceCatchUp(w, lots) ==
    [w EXCEPT !.executed = @ + lots, !.last = @ + w.interval,
              !.active = w.executed + lots < w.total,
              !.slices = Append(@, [slot |-> now, lots |-> lots])]

AfterSlice(w, lots) ==
    [w EXCEPT !.executed = @ + lots, !.last = now,
              !.active = w.executed + lots < w.total,
              !.slices = Append(@, [slot |-> now, lots |-> lots])]

(* A slice that cannot go out now is refused and may be tried again.       *)
ExecuteTwapSlice(id) ==
    /\ TwapOpen(id) /\ twap[id].active
    /\ LET w == twap[id]
           remaining == w.total - w.executed
           lots == SliceLots(w)
       IN  /\ NotOver(w.end)
           /\ now >= w.last + w.interval
           /\ remaining > 0
           /\ lots >= MinLots \/ lots = remaining
           /\ oracle.fresh
           /\ ~SlippageCapBreached(w.cap, w.side)
           /\ GateInjectionOpen(w.side, lots, w.limit, FALSE, TRUE)
           /\ Inject(w.side, w.limit, lots, FALSE, 0, Plain)
           /\ twap' = [twap EXCEPT ![id] = AfterSlice(w, lots)]
    /\ UNCHANGED <<market, trig, ice, placed, hist>>

CancelTwap(id) ==
    /\ TwapOpen(id)
    /\ twap' = [twap EXCEPT ![id] = Closed]
    /\ UNCHANGED <<market, book, seq, trig, ice, placed, hist>>

-----------------------------------------------------------------------------
(* Icebergs *)

IcebergAdmits(i) ==
    /\ i.shown > 0 /\ i.shown <= i.total /\ i.shown >= MinLots
    /\ i.limit > 0
    /\ LiveUntil(i.exp)

NewIceberg(i, child, n) ==
    [side |-> i.side, limit |-> i.limit, total |-> i.total, shown |-> i.shown, exp |-> i.exp,
     remaining |-> i.total - i.shown, child |-> child, active |-> TRUE, n |-> n]

(* The first chunk goes out with the placement.                            *)
PlaceIceberg(id, i) ==
    /\ placed < MaxPlaced /\ placed' = placed + 1
    /\ IcebergVacant(id)
    /\ IcebergAdmits(i)
    /\ GateInjectionOpen(i.side, i.shown, i.limit, FALSE, TRUE)
    /\ Inject(i.side, i.limit, i.shown, FALSE, i.exp, Tag("ice", placed'))
    /\ ice' = [ice EXCEPT ![id] = NewIceberg(i, seq', placed')]
    /\ UNCHANGED <<market, trig, twap, hist>>

(* Deliberately wrong: an order smaller than a chunk is taken for used up. *)
ChildGonePartly(i) ==
    \A o \in book : ~(o.side = i.side /\ o.px = i.limit /\ o.seq = i.child /\ o.size = i.shown)

(* The last chunk is looked up under the id its price and number give.     *)
ChildGone(i) == \A o \in book : ~(o.side = i.side /\ o.px = i.limit /\ o.seq = i.child)

ReplenishIceberg(id) ==
    /\ IcebergOpen(id) /\ ice[id].active
    /\ LET i == ice[id]
           chunk == Min({i.shown, i.remaining})
       IN  /\ NotOver(i.exp)
           /\ i.remaining > 0
           /\ GateInjectionOpen(i.side, chunk, i.limit, FALSE, TRUE)
           /\ ChildGone(i)
           /\ Inject(i.side, i.limit, chunk, FALSE, i.exp, Tag("ice", i.n))
           /\ ice' = [ice EXCEPT ![id] =
                        [i EXCEPT !.remaining = @ - chunk, !.child = seq',
                                  !.active = i.remaining > chunk]]
    /\ UNCHANGED <<market, trig, twap, placed, hist>>

(* The account is closed; the chunk on the book stays.                     *)
CancelIceberg(id) ==
    /\ IcebergOpen(id)
    /\ ice' = [ice EXCEPT ![id] = Closed]
    /\ UNCHANGED <<market, book, seq, trig, twap, placed, hist>>

-----------------------------------------------------------------------------
(* The rest of the market, as far as these orders meet it.                 *)

CancelOrder(o) ==
    /\ book' = book \ {o}
    /\ UNCHANGED <<market, seq, accounts, hist>>

(* modify_order keeps the side and takes everything else from the caller,  *)
(* under a new number; it is no longer the order a conditional order put   *)
(* there.                                                                  *)
ModifyOrder(o, m) ==
    /\ m.size > 0 /\ m.size >= MinLots /\ m.px > 0 /\ LiveUntil(m.exp)
    /\ seq < MaxSeq
    /\ seq' = seq + 1
    /\ book' = (book \ {o}) \cup
               {[seq |-> seq', side |-> o.side, px |-> m.px, size |-> m.size,
                 ro |-> m.ro, exp |-> m.exp, tag |-> Plain]}
    /\ UNCHANGED <<market, accounts, hist>>

(* reap_expired_orders also takes an order in its last slot.               *)
ReapExpiredOrder(o) ==
    /\ o.exp # 0 /\ o.exp <= now
    /\ book' = book \ {o}
    /\ UNCHANGED <<market, seq, accounts, hist>>

ReducingLots(q) == [k \in DOMAIN q |-> IF q[k].ro THEN Abs(q[k].lots) ELSE 0]
InFlight == SumFunctionOnSet(ReducingLots(queue), DOMAIN queue)

(* Deliberately wrong: the position alone caps a reduce-only maker.        *)
ReducibleStale(o) == IF pos # 0 /\ PosSide # o.side THEN Abs(pos) ELSE 0

(* check_reduce_only on the position less what is matched and unsettled.   *)
Reducible(o) == IF pos # 0 /\ PosSide # o.side THEN SatSub(Abs(pos), InFlight) ELSE 0

Enqueue(f) ==
    /\ filled < MaxFills /\ filled' = filled + 1
    /\ queue' = Append(queue, f)
    /\ hist' = [hist EXCEPT !.mixed = @ \/ \E k \in DOMAIN queue : queue[k].ro # f.ro]

(* Somebody's taker order crosses n lots of a resting order.  Taker orders *)
(* of the owner's own would only add to the fills that are not reduce-only.*)
Cross(o, n) ==
    /\ ~Expired(o)
    /\ n \in 1..o.size
    /\ o.ro => n <= Reducible(o)
    /\ book' = IF n = o.size THEN book \ {o} ELSE (book \ {o}) \cup {[o EXCEPT !.size = @ - n]}
    /\ Enqueue([lots |-> Signed(o.side, n), ro |-> o.ro])
    /\ UNCHANGED <<now, oracle, pos, seq, accounts>>

(* apply_fill, strictly in order.                                          *)
Settle ==
    /\ queue # <<>>
    /\ pos' = pos + Head(queue).lots
    /\ queue' = Tail(queue)
    /\ hist' = [hist EXCEPT !.mixed = @ /\ Len(queue) > 1]
    /\ UNCHANGED <<now, oracle, book, seq, accounts, filled>>

RefreshOracle(px) ==
    /\ oracle' = [px |-> px, fresh |-> px # 0]
    /\ oracle' # oracle
    /\ UNCHANGED <<now, pos, queue, filled, book, seq, accounts, hist>>

OracleGoesStale ==
    /\ oracle.fresh
    /\ oracle' = [oracle EXCEPT !.fresh = FALSE]
    /\ UNCHANGED <<now, pos, queue, filled, book, seq, accounts, hist>>

Tick ==
    /\ now < MaxSlot
    /\ now' = now + 1
    /\ UNCHANGED <<oracle, pos, queue, filled, book, seq, accounts, hist>>

-----------------------------------------------------------------------------
Init ==
    /\ now = 1
    /\ oracle = [px |-> 0, fresh |-> FALSE]
    /\ pos \in InitPositions
    /\ book = {} /\ seq = 0 /\ queue = <<>>
    /\ trig = [id \in TriggerIds |-> Closed]
    /\ twap = [id \in TwapIds |-> Closed]
    /\ ice = [id \in IcebergIds |-> Closed]
    /\ placed = 0 /\ filled = 0
    /\ hist = [legs |-> [n \in 1..MaxPlaced |-> 0], mixed |-> FALSE]

Owner ==
    \/ \E id \in TriggerIds, t \in TriggerTerms : PlaceTrigger(id, t)
    \/ \E id \in TriggerIds : CancelTrigger(id)
    \/ \E tp, sl \in TriggerIds, b \in BracketTerms : PlaceBracket(tp, sl, b)
    \/ \E id \in TwapIds, w \in TwapTerms : PlaceTwap(id, w)
    \/ \E id \in TwapIds : CancelTwap(id)
    \/ \E id \in IcebergIds, i \in IcebergTerms : PlaceIceberg(id, i)
    \/ \E id \in IcebergIds : CancelIceberg(id)
    \/ \E o \in book : CancelOrder(o)
    \/ \E o \in book, m \in ModifyTerms : ModifyOrder(o, m)

Keeper ==
    \/ \E id \in TriggerIds, sid \in TriggerIds \cup {NoSibling} : ExecuteTrigger(id, sid)
    \/ \E id \in TwapIds : ExecuteTwapSlice(id)
    \/ \E id \in IcebergIds : ReplenishIceberg(id)
    \/ \E o \in book : ReapExpiredOrder(o)

Others ==
    \/ \E o \in book : \E n \in 1..o.size : Cross(o, n)
    \/ Settle
    \/ \E px \in OraclePrices : RefreshOracle(px)
    \/ OracleGoesStale
    \/ Tick

Next == Owner \/ Keeper \/ Others

Spec == Init /\ [][Next]_vars

-----------------------------------------------------------------------------
Triggers ==
    [side : Sides, kind : Directions, ro : BOOLEAN, size : Nat, px : Nat, limit : Nat,
     exp : Nat, cap : Nat, active : BOOLEAN, sib : Nat, hasSib : BOOLEAN, pair : Nat]

(* Types; a TWAP never runs past its total, and order numbers are unique.  *)
TypeOK ==
    /\ now \in 1..MaxSlot /\ seq \in 0..MaxSeq /\ placed \in 0..MaxPlaced /\ pos \in Int
    /\ oracle \in [px : Nat, fresh : BOOLEAN]
    /\ trig \in [TriggerIds -> Triggers \cup {Closed}]
    /\ \A o \in book : o.seq \in 1..seq /\ o.side \in Sides /\ o.size \in Nat \ {0}
    /\ \A o, p \in book : o.seq = p.seq => o = p
    /\ \A id \in TwapIds : twap[id] = Closed \/ twap[id].executed \in 0..twap[id].total
    /\ \A id \in IcebergIds : ice[id] = Closed \/ ice[id].remaining \in Nat
    /\ \A k \in DOMAIN queue : queue[k].lots \in Int /\ queue[k].ro \in BOOLEAN

(* Of the two exits of a bracket at most one ever reaches the book         *)
(* (execute_trigger_order), whatever accounts keepers pass as the sibling  *)
(* and whatever the owner closes and places under the same ids: a whipsaw  *)
(* cannot close a position twice.                                          *)
BracketExitsOnce == \A n \in DOMAIN hist.legs : hist.legs[n] <= 1

(* The accounts are well typed and no bracket has exited twice.            *)
AccountsSound == TypeOK /\ BracketExitsOnce

(* When a reduce-only trigger fires, all exits then resting on that side   *)
(* fit the settled position (execute_trigger_order's capacity clamp),      *)
(* however many triggers, brackets and modified orders rest already.       *)
FiredExitsFit ==
    \A o \in book' : o.seq > seq /\ o.tag.kind = "trigger" /\ o.ro =>
        LotsOf({p \in book' : p.ro /\ p.side = o.side}) <= Abs(pos)
ExitsFitAtFiring == [][FiredExitsFit]_vars

(* Settling reduce-only fills never takes a position through zero          *)
(* (check_reduce_only less reduce-in-flight lots), although triggers fire  *)
(* and takers cross against a position that is not settled yet; excepted   *)
(* are positions whose other fills were waiting at the same time.          *)
SettledExitReduces ==
    queue # <<>> /\ queue' = Tail(queue) /\ Head(queue).ro /\ ~hist.mixed =>
        Abs(pos') + Abs(Head(queue).lots) = Abs(pos)
ExitsNeverFlip == [][SettledExitReduces]_vars

(* Exits never overshoot: neither on the book nor at settlement.           *)
ExitsNeverOvershoot == ExitsFitAtFiring /\ ExitsNeverFlip

LotsSliced(s) == SumFunctionOnSet([i \in DOMAIN s |-> s[i].lots], DOMAIN s)

Paced(w) ==
    LET s == w.slices
    IN  /\ \A i, j \in DOMAIN s : i < j => s[j].slot - s[i].slot >= (j - i) * w.interval
        /\ \A i \in DOMAIN s : s[i].lots <= w.slice /\ (w.end = 0 \/ s[i].slot <= w.end)
        /\ LotsSliced(s) = w.executed
        /\ w.executed <= w.total

(* However late or often keepers call execute_twap_slice, the slices of a  *)
(* TWAP are at least an interval apart, none follows its end, and together *)
(* they are what it counts as executed.                                    *)
TwapPaced == \A id \in TwapIds : twap[id] # Closed => Paced(twap[id])

(* No more than the displayed size of an iceberg is ever on the book       *)
(* (replenish_iceberg), through partial crosses, cancels, expiry and ids   *)
(* used again, as long as its owner does not rewrite the chunk; and what   *)
(* is shown and what is still hidden never exceed the total.               *)
IcebergHidden ==
    \A id \in IcebergIds : ice[id] # Closed =>
        LET onBook == LotsOf({o \in book : o.tag = Tag("ice", ice[id].n)})
        IN  onBook <= ice[id].shown /\ onBook + ice[id].remaining <= ice[id].total
=============================================================================
