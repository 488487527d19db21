----------------------------- MODULE MarketBook -----------------------------
(***************************************************************************)
(* The resting book of one market: the hypertree account (book_state.rs)   *)
(* and the instructions that place, cross, cancel, replace, reap and       *)
(* retire orders.  The red-black tree is a set ordered by order id; the    *)
(* cached best pointers, the node arena and the sequence counter, which    *)
(* the header keeps beside the tree, are modelled as the code maintains    *)
(* them.  Margin, open-interest and position checks only refuse orders or  *)
(* cap their size, so they appear as a choice of the order or of `red`,    *)
(* the lots a reduce-only maker may still give.                            *)
(***************************************************************************)
EXTENDS Integers, Sequences, FiniteSets, FiniteSetsExt, SequencesExt

CONSTANTS
    Traders,
    LimitPrices,   \* limit prices in ticks
    BandPrices,    \* prices inside MAX_RESTING_ORDER_DEVIATION_BPS of the oracle
    OrderSizes,    \* order sizes in base lots
    MinLots,       \* market.params.min_base_lots
    MaxPrice,      \* MAX_PRICE_TICKS_ENCODABLE
    MaxSeq,        \* MAX_SEQ_ENCODABLE
    InitNodes,     \* MAX_NODES of a new book
    MaxNodes,      \* MAX_NODES_EXPANDED
    WalkLimit,     \* effective_batch_cap
    ScanFactor,    \* nodes scanned per match allowed (4 in the code)
    MaxCancels,    \* MAX_CANCELLATIONS_PER_INSTRUCTION
    MaxReap,       \* MAX_REAP_PER_CALL
    MarketStatuses,  \* statuses the authority uses
    RoFlags,       \* reduce-only bits a trader may set
    FlagSets,      \* combinations of "post", "ioc" and "fok" a taker may set
    LastSlot,      \* bound: last slot of a behaviour
    MaxArrivals    \* bound: orders submitted in a behaviour

Statuses == {"Inactive", "Active", "PostOnly", "Paused", "Closed", "CloseOnly"}

ASSUME BookAssumption ==
    /\ LimitPrices \subseteq Nat \ {0} /\ BandPrices \subseteq LimitPrices
    /\ OrderSizes \subseteq Nat \ {0}
    /\ MarketStatuses \subseteq Statuses /\ RoFlags \subseteq BOOLEAN
    /\ FlagSets \subseteq SUBSET {"post", "ioc", "fok"}
    /\ {MinLots, MaxPrice, MaxSeq, InitNodes, MaxNodes, WalkLimit, ScanFactor, MaxCancels,
        MaxReap, LastSlot, MaxArrivals} \subseteq Nat

(* The comment at MAX_PRICE_TICKS_ENCODABLE leaves this to the callers; a  *)
(* price above it is saturated in the order id and loses its rank.         *)
ASSUME PricesEncodable == \A p \in LimitPrices : p <= MaxPrice

VARIABLES
    book,      \* [orders, best, seq, nodes, free, active]: tree and header
    cap,       \* nodes the account has room for
    status,    \* market.status
    slot,      \* Clock slot
    arrivals,  \* history: orders submitted so far
    event      \* history: what the last step did, for the action properties

vars == <<book, cap, status, slot, arrivals, event>>

-----------------------------------------------------------------------------
Sides == {"bid", "ask"}
Opposite(s) == IF s = "bid" THEN "ask" ELSE "bid"
Tradable == {"Active", "PostOnly", "CloseOnly"}
Expiries == {0} \cup 1..(LastSlot - 1)
Nil == -1

SeqSpan == MaxSeq + 1

(* encode_order_id: price above, sequence below, the price inverted for    *)
(* bids, so the best order of either side has the smallest id.             *)
EncodeOrderId(px, seq, s) ==
    LET p == Min({px, MaxPrice})
    IN  (IF s = "bid" THEN MaxPrice - p ELSE p) * SeqSpan + (seq % SeqSpan)
Id(o) == EncodeOrderId(o.px, o.seq, o.side)

Side(b, s) == {o \in b.orders : o.side = s}
Lookup(b, s, id) == {o \in Side(b, s) : Id(o) = id}

(* Deliberately wrong: oldest first, whatever the price.                   *)
BestFirstByAge(b, s) ==
    SetToSortSeq(Side(b, s), LAMBDA x, y : x.seq < y.seq)

(* for_each_best_first starts at the cached best, or at the leftmost node  *)
(* when there is none, and follows successors: the i-th order it visits    *)
(* has i - 1 smaller ids before it.                                        *)
FromBest(b, s) == {o \in Side(b, s) : b.best[s] = Nil \/ Id(o) >= b.best[s]}
InIdOrder(S) ==
    [i \in 1..Cardinality(S) |->
        CHOOSE o \in S : Cardinality({x \in S : Id(x) < Id(o)}) = i - 1]
BestFirst(b, s) == InIdOrder(FromBest(b, s))

(* alloc_node and require_seq_encodable: what an insertion needs.          *)
Insertable(b, o) == o.seq <= MaxSeq /\ (b.free > 0 \/ b.nodes < cap)

(* insert_bid, insert_ask                                                  *)
InsertNode(b, o) ==
    [b EXCEPT !.orders = @ \cup {o},
              !.best[o.side] = IF @ = Nil \/ Id(o) < @ THEN Id(o) ELSE @,
              !.free = IF @ > 0 THEN @ - 1 ELSE @,
              !.nodes = IF b.free > 0 THEN @ ELSE @ + 1,
              !.active = @ + 1]

(* successor_index of the node about to go                                 *)
Successor(b, o) ==
    LET later == {Id(x) : x \in {y \in Side(b, o.side) : Id(y) > Id(o)}}
    IN  IF later = {} THEN Nil ELSE Min(later)

(* Deliberately wrong: the cached best is not moved on.                    *)
RemoveNodeStaleBest(b, o) ==
    [b EXCEPT !.orders = @ \ {o},
              !.best[o.side] = IF Side(b, o.side) = {o} THEN Nil ELSE @,
              !.free = @ + 1,
              !.active = @ - 1]

(* remove_bid_node, remove_ask_node                                        *)
RemoveNode(b, o) ==
    [b EXCEPT !.orders = @ \ {o},
              !.best[o.side] = IF @ = Id(o) THEN Successor(b, o) ELSE @,
              !.free = @ + 1,
              !.active = @ - 1]
RemoveAll(b, os) == FoldLeft(RemoveNode, b, os)

(* decrement_size_at; an order reduced to nothing is removed.              *)
Decrement(b, o, n) ==
    IF o.size = n THEN RemoveNode(b, o)
    ELSE [b EXCEPT !.orders = (@ \ {o}) \cup {[o EXCEPT !.size = @ - n]}]
FillAll(b, fills) == FoldLeft(LAMBDA c, f : Decrement(c, f.order, f.lots), b, fills)

(* An expired order is passed over by the matcher.                         *)
Expired(o) == o.exp > 0 /\ slot > o.exp

Crosses(limit, o) == IF o.side = "ask" THEN o.px <= limit ELSE o.px >= limit

-----------------------------------------------------------------------------
(* Phase 1 of place_taker_order, one resting order at a time.  w.left lots *)
(* are still wanted, w.fills holds the matches, w.cancels the own orders   *)
(* that self-trade prevention removes.                                     *)
WalkStart(size, red) ==
    [left |-> size, fills |-> <<>>, cancels |-> <<>>, red |-> red, scanned |-> 0,
     truncated |-> FALSE, aborted |-> FALSE, done |-> FALSE]

Capped(w, o) ==
    LET fill == Min({o.size, w.left})
    IN  IF o.ro THEN Min({fill, w.red[o.trader]}) ELSE fill

MeetOwn(w, o, stp) ==
    CASE stp = "oldest" -> [w EXCEPT !.cancels = Append(@, o)]
      [] stp = "both"   -> [w EXCEPT !.aborted = TRUE, !.done = TRUE]
      [] stp = "skip"   -> w

MeetOther(w, o) ==
    IF Capped(w, o) = 0 THEN w
    ELSE [w EXCEPT !.fills = Append(@, [order |-> o, lots |-> Capped(w, o)]),
                   !.left = @ - Capped(w, o),
                   !.red[o.trader] = IF o.ro THEN @ - Capped(w, o) ELSE @]

WalkStep(w, o, t, limit, stp) ==
    LET seen == [w EXCEPT !.scanned = @ + 1]
    IN  IF w.done THEN w
        ELSE IF seen.scanned > WalkLimit * ScanFactor \/ Len(w.fills) >= WalkLimit
             THEN [seen EXCEPT !.truncated = TRUE, !.done = TRUE]
        ELSE IF w.left = 0 \/ ~Crosses(limit, o) THEN [seen EXCEPT !.done = TRUE]
        ELSE IF Expired(o) THEN seen
        ELSE IF o.trader = t THEN MeetOwn(seen, o, stp)
        ELSE MeetOther(seen, o)

Walk(t, s, size, limit, stp, red) ==
    FoldLeft(LAMBDA w, o : WalkStep(w, o, t, limit, stp),
             WalkStart(size, red), BestFirst(book, Opposite(s)))

(* Deliberately wrong: a truncated walk still rests its residual.          *)
ResidualRestsTruncated(w, limit, flags) ==
    /\ w.left > 0 /\ w.left >= MinLots
    /\ "ioc" \notin flags
    /\ limit \in BandPrices

(* Phase 3: what rests of a taker order; dust is dropped.                  *)
ResidualRests(w, limit, flags) ==
    /\ w.left > 0 /\ w.left >= MinLots
    /\ "ioc" \notin flags
    /\ ~w.truncated
    /\ limit \in BandPrices

Order(t, s, px, size, exp, kind, ro, seq) ==
    [trader |-> t, side |-> s, px |-> px, size |-> size, exp |-> exp, kind |-> kind,
     ro |-> ro, seq |-> seq, at |-> arrivals + 1]

NoFills == <<>>
Event(op, by, fills, limit) == [op |-> op, by |-> by, fills |-> fills, limit |-> limit]

LiveExpiry(exp) == exp = 0 \/ exp > slot

(* A handler that takes the next sequence number.                          *)
Submit == arrivals < MaxArrivals /\ arrivals' = arrivals + 1
NextSeq == book.seq + 1

(* place_taker_order.  The residual keeps the caller's own flags.          *)
PlaceTakerOrder(t, s, size, limit, flags, stp, ro, exp, red) ==
    LET w    == Walk(t, s, size, limit, stp, red)
        b1   == RemoveAll([book EXCEPT !.seq = NextSeq], w.cancels)
        b2   == FillAll(b1, w.fills)
        rest == Order(t, s, limit, w.left, exp, "limit", ro, NextSeq)
    IN  /\ Submit
        /\ status \in Tradable
        /\ size >= MinLots
        /\ LiveExpiry(exp)
        /\ ~w.aborted
        /\ "post" \in flags => w.fills = <<>>
        /\ "fok" \in flags => w.left = 0
        /\ IF ResidualRests(w, limit, flags)
           THEN Insertable(b2, rest) /\ book' = InsertNode(b2, rest)
           ELSE book' = b2
        /\ event' = Event("taker", t, w.fills, limit)
        /\ UNCHANGED <<cap, status, slot>>

(* place_limit_core: rests without looking at the other side.              *)
PlaceLimitOrder(t, s, px, size, ro, exp) ==
    LET o == Order(t, s, px, size, exp, "limit", ro \/ status = "CloseOnly", NextSeq)
    IN  /\ Submit
        /\ status \in Tradable
        /\ size >= MinLots
        /\ LiveExpiry(exp)
        /\ px \in BandPrices
        /\ Insertable(book, o)
        /\ book' = InsertNode([book EXCEPT !.seq = NextSeq], o)
        /\ event' = Event("limit", t, NoFills, px)
        /\ UNCHANGED <<cap, status, slot>>

(* The resting half of liquidate_position: a close order in the holder's   *)
(* name, one per side at a time.                                           *)
InjectLiquidation(t, s, px, size) ==
    LET o == Order(t, s, px, size, 0, "liq", FALSE, NextSeq)
    IN  /\ Submit
        /\ status # "Paused"
        /\ ~\E x \in Side(book, s) : x.kind = "liq" /\ x.trader = t
        /\ Insertable(book, o)
        /\ book' = InsertNode([book EXCEPT !.seq = NextSeq], o)
        /\ event' = Event("liquidate", "keeper", NoFills, px)
        /\ UNCHANGED <<cap, status, slot>>

(* cancel_order_core *)
CancelOrder(t, s, id) ==
    \E o \in Lookup(book, s, id) :
        /\ o.trader = t
        /\ o.kind # "liq"
        /\ book' = RemoveNode(book, o)
        /\ event' = Event("cancel", t, NoFills, 0)
        /\ UNCHANGED <<cap, status, slot, arrivals>>

(* cancel_all: own orders, bids first, at most MaxCancels of them.         *)
CancelAll(t) ==
    LET Mine(s) == InIdOrder({o \in FromBest(book, s) : o.trader = t /\ o.kind # "liq"})
        all     == Mine("bid") \o Mine("ask")
    IN  /\ book' = RemoveAll(book, SubSeq(all, 1, Min({MaxCancels, Len(all)})))
        /\ event' = Event("cancel", t, NoFills, 0)
        /\ UNCHANGED <<cap, status, slot, arrivals>>

(* Deliberately wrong: an order without expiry is due.                     *)
ReapableGtc(o) == o.exp <= slot

(* reap_expired_orders: anyone may pass any ids; those of orders that are  *)
(* gone or not due are skipped.                                            *)
Reapable(o) == o.exp # 0 /\ o.exp <= slot
ReapExpiredOrders(ids) ==
    LET due == {o \in book.orders : Id(o) \in ids /\ Reapable(o)}
    IN  /\ Cardinality(ids) \in 1..MaxReap
        /\ book' = RemoveAll(book, SetToSeq(due))
        /\ event' = Event("reap", "keeper", NoFills, 0)
        /\ UNCHANGED <<cap, status, slot, arrivals>>

(* retire_liquidation_order: sequencer or authority.                       *)
RetireLiquidationOrder(s, id) ==
    \E o \in Lookup(book, s, id) :
        /\ o.kind = "liq"
        /\ book' = RemoveNode(book, o)
        /\ event' = Event("retire", "keeper", NoFills, 0)
        /\ UNCHANGED <<cap, status, slot, arrivals>>

(* modify_order: the owner's old order goes, an ordinary one takes its     *)
(* place with a new sequence number.                                       *)
ModifyOrder(t, s, id, px, size, ro, exp) ==
    \E old \in Lookup(book, s, id) :
        LET b == [RemoveNode(book, old) EXCEPT !.seq = NextSeq]
            o == Order(t, s, px, size, exp, "limit", ro, NextSeq)
        IN  /\ Submit
            /\ status \in {"Active", "PostOnly"}
            /\ size >= MinLots
            /\ LiveExpiry(exp)
            /\ px \in BandPrices
            /\ old.trader = t
            /\ Insertable(b, o)
            /\ book' = InsertNode(b, o)
            /\ event' = Event("modify", t, NoFills, px)
            /\ UNCHANGED <<cap, status, slot>>

(* expand_market_book *)
ExpandMarketBook(n) ==
    /\ n > 0 /\ cap + n <= MaxNodes
    /\ cap' = cap + n
    /\ event' = Event("expand", "authority", NoFills, 0)
    /\ UNCHANGED <<book, status, slot, arrivals>>

(* reseat_order_seq_counter: only on a completely empty book.              *)
ReseatOrderSeqCounter ==
    /\ book.active = 0 /\ book.orders = {}
    /\ book' = [book EXCEPT !.seq = 0]
    /\ event' = Event("reseat", "authority", NoFills, 0)
    /\ UNCHANGED <<cap, status, slot, arrivals>>

(* set_market_status, and the clock.                                       *)
SetMarketStatus(new) ==
    /\ status # "Closed" /\ status' = new
    /\ event' = Event("status", "authority", NoFills, 0)
    /\ UNCHANGED <<book, cap, slot, arrivals>>
Tick ==
    /\ slot < LastSlot /\ slot' = slot + 1
    /\ event' = Event("tick", "clock", NoFills, 0)
    /\ UNCHANGED <<book, cap, status, arrivals>>

(* init_market_book *)
Init ==
    /\ book = [orders |-> {}, best |-> [s \in Sides |-> Nil], seq |-> 0,
               nodes |-> 0, free |-> 0, active |-> 0]
    /\ cap = InitNodes
    /\ status = "Active"
    /\ slot = 0
    /\ arrivals = 0
    /\ event = Event("init", "authority", NoFills, 0)

(* Lots a reduce-only maker may still give; 0 also stands for a position   *)
(* account the taker did not pass.  Inputs without effect on a walk (caps  *)
(* of traders with no reduce-only order to meet, a self-trade mode with no *)
(* own order to meet) are left at one value.                               *)
Reds(t, s) ==
    {red \in [Traders -> 0..Max(OrderSizes)] :
        \A p \in Traders : red[p] # 0 =>
            p # t /\ \E o \in Side(book, Opposite(s)) : o.ro /\ o.trader = p}
StpModes(t, s) ==
    IF \E o \in Side(book, Opposite(s)) : o.trader = t THEN {"skip", "oldest", "both"}
    ELSE {"skip"}
Ids == {Id(o) : o \in book.orders}

Take ==
    \E t \in Traders, s \in Sides, size \in OrderSizes, limit \in LimitPrices, flags \in FlagSets,
       ro \in RoFlags, exp \in Expiries :
        \E stp \in StpModes(t, s), red \in Reds(t, s) :
            PlaceTakerOrder(t, s, size, limit, flags, stp, ro, exp, red)
Make ==
    \E t \in Traders, s \in Sides, px \in LimitPrices, size \in OrderSizes :
        \/ \E ro \in RoFlags, exp \in Expiries : PlaceLimitOrder(t, s, px, size, ro, exp)
        \/ \E ro \in RoFlags, exp \in Expiries, id \in Ids :
              ModifyOrder(t, s, id, px, size, ro, exp)
        \/ InjectLiquidation(t, s, px, size)
Leave ==
    \/ \E t \in Traders, s \in Sides, id \in Ids : CancelOrder(t, s, id)
    \/ \E t \in Traders : CancelAll(t)
    \/ \E ids \in SUBSET Ids : ReapExpiredOrders(ids)
    \/ \E s \in Sides, id \in Ids : RetireLiquidationOrder(s, id)

Next ==
    \/ Take
    \/ Make
    \/ Leave
    \/ \E n \in 1..MaxNodes : ExpandMarketBook(n)
    \/ ReseatOrderSeqCounter
    \/ \E new \in MarketStatuses : SetMarketStatus(new)
    \/ Tick

Spec == Init /\ [][Next]_vars

-----------------------------------------------------------------------------
OrderType == [trader : Traders, side : Sides, px : LimitPrices, size : Nat \ {0},
              exp : Expiries, kind : {"limit", "liq"}, ro : BOOLEAN,
              seq : Nat, at : Nat]

(* Every variable has its type.                                            *)
TypeOK ==
    /\ \A o \in book.orders : o \in OrderType
    /\ book.best \in [Sides -> Nat \cup {Nil}]
    /\ {book.seq, book.nodes, book.free, book.active, cap, arrivals} \subseteq Nat
    /\ status \in Statuses /\ slot \in 0..LastSlot

(* The cached best pointer is the best order of its side after any mix of  *)
(* insertions, fills, cancellations and batch removals; the matching walk  *)
(* starts there and would silently miss anything better.                   *)
BestCacheCorrect ==
    \A s \in Sides :
        book.best[s] = IF Side(book, s) = {} THEN Nil
                       ELSE Min({Id(o) : o \in Side(book, s)})

(* The node arena never leaks or double-frees: every node ever allocated   *)
(* holds one order or is on the free list, within the account's size.      *)
ArenaExact ==
    /\ book.active = Cardinality(book.orders)
    /\ book.active + book.free = book.nodes
    /\ book.nodes <= cap

(* Order ids identify one order across both sides, and ascending id is     *)
(* price-time priority by true arrival, although the 24-bit sequence is    *)
(* exhausted and reseated along the way.                                   *)
Outranks(x, y) ==
    \/ (IF x.side = "bid" THEN x.px > y.px ELSE x.px < y.px)
    \/ x.px = y.px /\ x.at < y.at
IdsRankOrders ==
    \A x, y \in book.orders : x # y =>
        /\ Id(x) # Id(y)
        /\ x.side = y.side => (Id(x) < Id(y) <=> Outranks(x, y))

(* The header of the book account and the ids agree with the orders in it. *)
HeaderExact == TypeOK /\ BestCacheCorrect /\ ArenaExact /\ IdsRankOrders

(* Orders of book that a step filled, shrank or removed.                   *)
Touched == {o \in book.orders : o \notin book'.orders}

(* Orders a taker t with this limit may not pass over.                     *)
MustMeet(t, limit, o) == Crosses(limit, o) /\ ~Expired(o) /\ o.trader # t /\ ~o.ro

(* A taker never fills an order while a better one it could have met keeps *)
(* lots: price-time priority holds for the walk, caps and skips included.  *)
FillsInPriority ==
    event'.op = "taker" =>
        \A i \in DOMAIN event'.fills :
            LET f == event'.fills[i].order
            IN  /\ Crosses(event'.limit, f) /\ f.trader # event'.by /\ ~Expired(f)
                /\ \A o \in Side(book, f.side) :
                      Outranks(o, f) /\ MustMeet(event'.by, event'.limit, o)
                        => o.at \notin {x.at : x \in book'.orders}
TakerRespectsPriority == [][FillsInPriority]_vars

(* A residual that comes to rest leaves no order it should have crossed:   *)
(* a truncated walk must drop it instead.                                  *)
RestsUncrossed ==
    event'.op = "taker" =>
        \A o \in book'.orders : o.at = arrivals' =>
            \A x \in Side(book', Opposite(o.side)) : ~MustMeet(o.trader, o.px, x)
ResidualUncrossed == [][RestsUncrossed]_vars

(* Nobody loses an order to somebody else except to a fill it crosses, to  *)
(* the reaper after its expiry, or, for a liquidation order, to the keeper.*)
LeaveForCause ==
    \A o \in Touched :
        \/ event'.by = o.trader
        \/ event'.op = "taker" /\ Crosses(event'.limit, o) /\ ~Expired(o)
        \/ event'.op = "reap" /\ o.exp # 0 /\ o.exp <= slot
        \/ event'.op = "retire" /\ o.kind = "liq"
OrdersLeaveForCause == [][LeaveForCause]_vars
=============================================================================
