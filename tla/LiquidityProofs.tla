-------------------------- MODULE LiquidityProofs ---------------------------
(***************************************************************************)
(* Proofs about what supplies a market with liquidity: the resting book    *)
(* (MarketBook), then the liquidity pool and the vaults (LpPool, Vaults).  *)
(*                                                                         *)
(* The book, for any traders, prices, sizes, bounds and number of steps:   *)
(* its header and order ids agree with the orders in it, a taker fills in  *)
(* price-time priority and rests uncrossed, orders leave only for cause.   *)
(* The order is: ids; a book by itself, and what inserting, removing and   *)
(* shrinking one order does to it; batches; the listing a walk follows;    *)
(* the walk; the instructions.                                             *)
(*                                                                         *)
(* The pools, for any depositors, LPs, markets, amounts, prices, profits,  *)
(* fees and number of steps: shares are exact, the copy vault is whole, a  *)
(* pool's NAV is backed by the cash paid in, and nobody who stays is       *)
(* diluted or charged twice.                                               *)
(***************************************************************************)
EXTENDS MarketBook, LpPool, Vaults, SumTheorems

-----------------------------------------------------------------------------
(* Order ids.                                                              *)

(* A price key above a sequence number orders by price first.              *)
LEMMA KeyOrder ==
    ASSUME NEW a \in Nat, NEW b \in Nat, NEW n \in Nat \ {0},
           NEW r \in Nat, NEW s \in Nat, r < n, s < n
    PROVE  /\ a * n + r \in Nat
           /\ a < b => a * n + r < b * n + s
           /\ a = b => (a * n + r < b * n + s <=> r < s)
           /\ a * n + r = b * n + s => a = b /\ r = s
<1>1. ASSUME NEW x \in Nat, NEW y \in Nat, x < y, NEW p \in Nat, NEW q \in Nat, p < n
      PROVE  x * n + p < y * n + q
  <2>1. x + 1 <= y /\ n \in Nat
    BY <1>1
  <2>2. (x + 1) * n <= y * n
    BY <2>1, MulMonotone
  <2>3. (x + 1) * n = x * n + n
    BY <2>1
  <2> DEFINE xn == x * n
             yn == y * n
  <2>4. xn \in Int /\ yn \in Int
    BY <2>1
  <2> HIDE DEF xn, yn
  <2>5. xn + n <= yn
    BY <2>2, <2>3 DEF xn, yn
  <2>6. xn + p < yn + q
    BY <2>4, <2>5, <1>1
  <2> QED BY <2>6 DEF xn, yn
<1>2. a * n \in Nat /\ b * n \in Nat
  OBVIOUS
<1> DEFINE an == a * n
           bn == b * n
<1> HIDE DEF an, bn
<1>3. a < b => an + r < bn + s
  BY <1>1 DEF an, bn
<1>4. b < a => bn + s < an + r
  BY <1>1 DEF an, bn
<1>5. a = b => an = bn
  BY DEF an, bn
<1>6. an \in Nat /\ bn \in Nat
  BY <1>2 DEF an, bn
<1>7. an + r = bn + s => a = b /\ r = s
  BY <1>3, <1>4, <1>5, <1>6
<1> QED BY <1>3, <1>5, <1>6, <1>7 DEF an, bn

PriceKey(px, s) == IF s = "bid" THEN MaxPrice - Min({px, MaxPrice}) ELSE Min({px, MaxPrice})

LEMMA BookConstants ==
    /\ MaxPrice \in Nat /\ MaxSeq \in Nat /\ MaxNodes \in Nat /\ InitNodes \in Nat
    /\ SeqSpan \in Nat \ {0} /\ LastSlot \in Nat /\ MaxArrivals \in Nat
    /\ MaxCancels \in Nat /\ WalkLimit \in Nat /\ ScanFactor \in Nat /\ MinLots \in Nat
    /\ LimitPrices \subseteq Nat \ {0} /\ BandPrices \subseteq LimitPrices
    /\ OrderSizes \subseteq Nat \ {0} /\ MarketStatuses \subseteq Statuses
    /\ RoFlags \subseteq BOOLEAN
BY BookAssumption DEF SeqSpan

(* The low part of an id that insert_bid accepts is the whole sequence     *)
(* number.                                                                 *)
LEMMA IdParts ==
    ASSUME NEW px \in Nat, NEW q \in Nat, q <= MaxSeq, NEW s
    PROVE  /\ PriceKey(px, s) \in Nat
           /\ EncodeOrderId(px, q, s) = PriceKey(px, s) * SeqSpan + q
           /\ q < SeqSpan
<1> DEFINE p == Min({px, MaxPrice})
<1>1. p = IF px <= MaxPrice THEN px ELSE MaxPrice
  BY BookConstants, MinOfTwo
<1>2. p \in Nat /\ p <= MaxPrice
  BY <1>1, BookConstants
<1>3. q \in Int /\ 0 <= q /\ q < SeqSpan /\ SeqSpan \in Nat \ {0}
  BY BookConstants DEF SeqSpan
<1>4. q % SeqSpan = q
  BY <1>3
<1> HIDE DEF p
<1>5. PriceKey(px, s) = IF s = "bid" THEN MaxPrice - p ELSE p
  BY DEF PriceKey, p
<1>6. EncodeOrderId(px, q, s) = PriceKey(px, s) * SeqSpan + q
  BY <1>4, <1>5 DEF EncodeOrderId, p
<1>7. PriceKey(px, s) \in Nat
  BY <1>2, <1>5, BookConstants
<1> QED BY <1>3, <1>6, <1>7

(* Keys rank encodable prices: a higher bid, a lower ask first.            *)
LEMMA KeysRank ==
    ASSUME NEW p \in LimitPrices, NEW q \in LimitPrices, NEW s \in Sides
    PROVE  /\ PriceKey(p, s) = PriceKey(q, s) <=> p = q
           /\ PriceKey(p, s) < PriceKey(q, s) <=> (IF s = "bid" THEN p > q ELSE p < q)
<1>1. p \in Nat /\ q \in Nat /\ MaxPrice \in Nat /\ p <= MaxPrice /\ q <= MaxPrice
  BY BookConstants, PricesEncodable
<1>2. Min({p, MaxPrice}) = p /\ Min({q, MaxPrice}) = q
  BY <1>1, MinOfTwo
<1>3. /\ PriceKey(p, s) = IF s = "bid" THEN MaxPrice - p ELSE p
      /\ PriceKey(q, s) = IF s = "bid" THEN MaxPrice - q ELSE q
  BY <1>2 DEF PriceKey
<1> QED BY <1>1, <1>3

-----------------------------------------------------------------------------
(* A book by itself, whatever step it is in the middle of: `b` is the      *)
(* variable or one of the books a batch passes through.                    *)
BookType == [orders : SUBSET OrderType, best : [Sides -> Nat \cup {Nil}], seq : Nat,
             nodes : Nat, free : Nat, active : Nat]

(* Sequence numbers fit the id and grow with arrival.                      *)
Ranked(b) ==
    /\ \A x \in b.orders : x.seq <= MaxSeq
    /\ \A x, y \in b.orders : x.at < y.at <=> x.seq < y.seq
    /\ \A x, y \in b.orders : x.at = y.at => x = y

(* The cached best of side s leads it.                                     *)
Leads(b, s) ==
    \/ Side(b, s) = {} /\ b.best[s] = Nil
    \/ \E o \in Side(b, s) : b.best[s] = Id(o) /\ \A x \in Side(b, s) : Id(o) <= Id(x)

Arena(b) ==
    /\ b.active = Cardinality(b.orders)
    /\ b.active + b.free = b.nodes

Good(b) ==
    /\ b \in BookType /\ IsFiniteSet(b.orders)
    /\ Ranked(b)
    /\ \A s \in Sides : Leads(b, s)
    /\ Arena(b)

(* Nothing rests that is younger than the counters say.                    *)
Aged(b, n) == \A x \in b.orders : x.at <= n /\ x.seq <= b.seq

BookInv ==
    /\ Good(book) /\ Aged(book, arrivals)
    /\ book.nodes <= cap
    /\ cap \in Nat /\ arrivals \in Nat /\ status \in Statuses /\ slot \in 0..LastSlot

DistinctIds(S) ==
    /\ \A x \in S : Id(x) \in Nat
    /\ \A x, y \in S : Id(x) = Id(y) => x = y

LEMMA OrderFields ==
    ASSUME NEW o \in OrderType
    PROVE  /\ o.trader \in Traders /\ o.side \in Sides /\ o.px \in LimitPrices
           /\ o.px \in Nat /\ o.size \in Nat \ {0} /\ o.exp \in Nat /\ o.ro \in BOOLEAN
           /\ o.seq \in Nat /\ o.at \in Nat
<1>1. o.px \in LimitPrices /\ o.exp \in Expiries
  BY DEF OrderType
<1>2. o.px \in Nat
  BY <1>1, BookConstants
<1>3. o.exp \in Nat
  BY <1>1, BookConstants DEF Expiries
<1> QED BY <1>1, <1>2, <1>3 DEF OrderType

LEMMA IdOf ==
    ASSUME NEW o \in OrderType, o.seq <= MaxSeq
    PROVE  /\ PriceKey(o.px, o.side) \in Nat
           /\ Id(o) = PriceKey(o.px, o.side) * SeqSpan + o.seq
           /\ Id(o) \in Nat
           /\ o.seq \in Nat /\ o.seq < SeqSpan
<1> DEFINE p == o.px
           q == o.seq
           s == o.side
<1>1. p \in Nat /\ q \in Nat /\ q <= MaxSeq
  BY OrderFields
<1> HIDE DEF p, q, s
<1>2. /\ PriceKey(p, s) \in Nat
      /\ EncodeOrderId(p, q, s) = PriceKey(p, s) * SeqSpan + q
      /\ q < SeqSpan
  BY <1>1, IdParts
<1>3. PriceKey(p, s) * SeqSpan + q \in Nat
  BY <1>1, <1>2, BookConstants
<1>4. Id(o) = EncodeOrderId(p, q, s)
  BY DEF Id, p, q, s
<1>5. Id(o) \in Nat
  BY <1>2, <1>3, <1>4
<1> QED BY <1>1, <1>2, <1>4, <1>5 DEF p, q, s

(* No two orders of a book share an id, on either side.                    *)
LEMMA IdsDiffer ==
    ASSUME NEW b, b \in BookType, Ranked(b)
    PROVE  DistinctIds(b.orders)
<1>1. b.orders \subseteq OrderType
  BY DEF BookType
<1>2. ASSUME NEW x \in b.orders PROVE Id(x) \in Nat
  BY <1>1, IdOf DEF Ranked
<1>3. ASSUME NEW x \in b.orders, NEW y \in b.orders, Id(x) = Id(y) PROVE x = y
  <2>1. x \in OrderType /\ y \in OrderType /\ x.seq <= MaxSeq /\ y.seq <= MaxSeq
    BY <1>1 DEF Ranked
  <2> DEFINE j == PriceKey(x.px, x.side)
             k == PriceKey(y.px, y.side)
             r == x.seq
             s == y.seq
  <2>2. j \in Nat /\ r \in Nat /\ r < SeqSpan /\ Id(x) = j * SeqSpan + r
    BY <2>1, IdOf
  <2>3. k \in Nat /\ s \in Nat /\ s < SeqSpan /\ Id(y) = k * SeqSpan + s
    BY <2>1, IdOf
  <2> HIDE DEF j, k, r, s
  <2>4. j * SeqSpan + r = k * SeqSpan + s
    BY <1>3, <2>2, <2>3
  <2>5. r = s
    BY <2>2, <2>3, <2>4, BookConstants, KeyOrder
  <2>6. ~(x.at < y.at) /\ ~(y.at < x.at)
    <3>1. ~(r < s) /\ ~(s < r)
      BY <2>2, <2>5
    <3> QED BY <3>1 DEF Ranked, r, s
  <2>7. x.at \in Nat /\ y.at \in Nat
    BY <2>1, OrderFields
  <2>8. x.at = y.at
    BY <2>6, <2>7
  <2> QED BY <2>8 DEF Ranked
<1> QED BY <1>2, <1>3 DEF DistinctIds

(* On one side, ids rank by price and then by arrival.                     *)
LEMMA IdsRank ==
    ASSUME NEW b, b \in BookType, Ranked(b),
           NEW x \in b.orders, NEW y \in b.orders, x # y, x.side = y.side
    PROVE  Id(x) < Id(y) <=> Outranks(x, y)
<1>1. x \in OrderType /\ y \in OrderType /\ x.seq <= MaxSeq /\ y.seq <= MaxSeq
  BY DEF Ranked, BookType
<1>2. x.px \in LimitPrices /\ y.px \in LimitPrices /\ x.side \in Sides /\ x.px \in Nat /\ y.px \in Nat
  BY <1>1, OrderFields
<1> DEFINE j == PriceKey(x.px, x.side)
           k == PriceKey(y.px, y.side)
           r == x.seq
           s == y.seq
           better == IF x.side = "bid" THEN x.px > y.px ELSE x.px < y.px
<1>3. j \in Nat /\ r \in Nat /\ r < SeqSpan /\ Id(x) = j * SeqSpan + r
  BY <1>1, IdOf
<1>4. k \in Nat /\ s \in Nat /\ s < SeqSpan /\ Id(y) = k * SeqSpan + s
  BY <1>1, IdOf
<1>5. (j = k <=> x.px = y.px) /\ (j < k <=> better)
  BY <1>2, KeysRank
<1>6. x.at < y.at <=> r < s
  BY DEF Ranked
<1> HIDE DEF j, k, r, s
<1>7. /\ j < k => j * SeqSpan + r < k * SeqSpan + s
      /\ k < j => k * SeqSpan + s < j * SeqSpan + r
      /\ j = k => (j * SeqSpan + r < k * SeqSpan + s <=> r < s)
  BY <1>3, <1>4, BookConstants, KeyOrder
<1>8. j * SeqSpan + r \in Nat /\ k * SeqSpan + s \in Nat
  BY <1>3, <1>4, BookConstants, KeyOrder
<1>9. Id(x) < Id(y) <=> j < k \/ (j = k /\ r < s)
  <2> DEFINE u == j * SeqSpan + r
             v == k * SeqSpan + s
  <2>1. /\ u \in Nat /\ v \in Nat
        /\ j < k => u < v
        /\ k < j => v < u
        /\ j = k => (u < v <=> r < s)
        /\ Id(x) = u /\ Id(y) = v
    BY <1>3, <1>4, <1>7, <1>8
  <2> HIDE DEF u, v
  <2> QED BY <2>1, <1>3, <1>4
<1> QED BY <1>5, <1>6, <1>9 DEF Outranks

-----------------------------------------------------------------------------
(* The tree primitives keep a good book good.                              *)

LEMMA LeastOf ==
    ASSUME NEW T \in SUBSET Nat, NEW m \in T, \A k \in T : m <= k
    PROVE  Min(T) = m
<1>1. PICK n \in T : n = Min(T) /\ \A y \in T : n =< y
  BY DEF Min
<1>2. n <= m /\ m <= n /\ m \in Nat /\ n \in Nat
  BY <1>1
<1> QED BY <1>1, <1>2

LEMMA MinOfIds ==
    ASSUME NEW T \in SUBSET Nat, T # {}
    PROVE  Min(T) \in T /\ \A k \in T : Min(T) <= k
<1>1. PICK m \in T : \A k \in T : m <= k
  BY SmallestNat
<1> QED BY <1>1, LeastOf

LEMMA GoodIds ==
    ASSUME NEW b, Good(b)
    PROVE  DistinctIds(b.orders)
BY IdsDiffer DEF Good

LEMMA GoodParts ==
    ASSUME NEW b, Good(b)
    PROVE  /\ b \in BookType /\ IsFiniteSet(b.orders) /\ b.orders \subseteq OrderType
           /\ b.best \in [Sides -> Nat \cup {Nil}]
           /\ b.seq \in Nat /\ b.nodes \in Nat /\ b.free \in Nat /\ b.active \in Nat
           /\ Cardinality(b.orders) \in Nat
           /\ DistinctIds(b.orders)
BY GoodIds, FS_CardinalityType DEF Good, BookType

(* What leads the side once the leader itself is gone.                     *)
LEMMA SuccessorLeads ==
    ASSUME NEW b, Good(b), NEW o \in b.orders, NEW c,
           c.orders = b.orders \ {o},
           c.best = [b.best EXCEPT ![o.side] =
                        IF b.best[o.side] = Id(o) THEN Successor(b, o) ELSE b.best[o.side]],
           NEW s \in Sides
    PROVE  Leads(c, s) /\ c.best[s] \in Nat \cup {Nil}
<1> USE GoodParts
<1>1. o \in OrderType /\ o.side \in Sides
  BY OrderFields
<1>2. Leads(b, s)
  BY DEF Good
<1>3. DistinctIds(b.orders)
  OBVIOUS
<1>4. CASE s # o.side
  <2>1. Side(c, s) = Side(b, s)
    BY <1>4 DEF Side
  <2>2. c.best[s] = b.best[s]
    BY <1>4, <1>1
  <2> QED BY <1>2, <2>1, <2>2 DEF Leads
<1>5. CASE s = o.side /\ b.best[s] # Id(o)
  <2>1. Side(c, s) = Side(b, s) \ {o} /\ o \in Side(b, s)
    BY <1>5 DEF Side
  <2>2. c.best[s] = b.best[s]
    BY <1>5, <1>1
  <2>3. PICK l \in Side(b, s) : b.best[s] = Id(l) /\ \A x \in Side(b, s) : Id(l) <= Id(x)
    BY <1>2, <2>1 DEF Leads
  <2>4. l # o
    BY <1>5, <2>3
  <2>5. l \in Side(c, s)
    BY <2>1, <2>4
  <2>6. \A x \in Side(c, s) : Id(l) <= Id(x)
    BY <2>1, <2>3
  <2>7. Leads(c, s)
    BY <2>2, <2>3, <2>5, <2>6 DEF Leads
  <2> QED BY <2>2, <2>7
<1>6. CASE s = o.side /\ b.best[s] = Id(o)
  <2> DEFINE later == {Id(x) : x \in {y \in Side(b, s) : Id(y) > Id(o)}}
  <2>1. Side(c, s) = Side(b, s) \ {o} /\ o \in Side(b, s)
    BY <1>6 DEF Side
  <2>2. c.best[s] = Successor(b, o)
    BY <1>6, <1>1
  <2>3. PICK l \in Side(b, s) : b.best[s] = Id(l) /\ \A x \in Side(b, s) : Id(l) <= Id(x)
    BY <1>2, <2>1 DEF Leads
  <2>4. \A x \in Side(b, s) : x \in b.orders
    BY DEF Side
  <2>5. l = o
    BY <1>3, <1>6, <2>3, <2>4 DEF DistinctIds
  <2>6. \A x \in Side(c, s) : x \in Side(b, s) /\ Id(x) > Id(o)
    <3> SUFFICES ASSUME NEW x \in Side(c, s) PROVE x \in Side(b, s) /\ Id(x) > Id(o)
      OBVIOUS
    <3>1. x \in Side(b, s) /\ x # o
      BY <2>1
    <3>2. Id(o) <= Id(x) /\ Id(x) # Id(o) /\ Id(x) \in Nat /\ Id(o) \in Nat
      BY <1>3, <2>3, <2>4, <2>5, <3>1 DEF DistinctIds
    <3> QED BY <3>1, <3>2
  <2>7. later = {Id(x) : x \in Side(c, s)}
    <3>1. Id(o) \in Nat
      BY <1>3 DEF DistinctIds
    <3>2. {y \in Side(b, s) : Id(y) > Id(o)} = Side(c, s)
      BY <2>1, <2>6, <3>1
    <3> QED BY <3>2
  <2>8. later \in SUBSET Nat
    BY <1>3, <2>4, <2>6, <2>7 DEF DistinctIds
  <2>9. Successor(b, o) = IF later = {} THEN Nil ELSE Min(later)
    BY <1>6 DEF Successor
  <2> HIDE DEF later
  <2>10. CASE later = {}
    <3>1. Side(c, s) = {}
      BY <2>7, <2>10
    <3> QED BY <2>2, <2>9, <2>10, <3>1 DEF Leads
  <2>11. CASE later # {}
    <3>1. Min(later) \in later /\ \A k \in later : Min(later) <= k
      BY <2>8, <2>11, MinOfIds
    <3>2. PICK m \in Side(c, s) : Id(m) = Min(later)
      BY <2>7, <3>1
    <3>3. \A x \in Side(c, s) : Id(m) <= Id(x)
      BY <2>7, <3>1, <3>2
    <3>4. c.best[s] = Id(m) /\ Id(m) \in Nat
      BY <2>2, <2>8, <2>9, <2>11, <3>1, <3>2
    <3> QED BY <3>2, <3>3, <3>4 DEF Leads
  <2> QED BY <2>10, <2>11
<1> QED BY <1>4, <1>5, <1>6

LEMMA RankedPart ==
    ASSUME NEW b, Ranked(b), NEW c, c.orders \subseteq b.orders
    PROVE  Ranked(c)
BY DEF Ranked

(* remove_bid_node, remove_ask_node                                        *)
Removed(b, c, S) ==
    /\ Good(c)
    /\ c.orders = b.orders \ S
    /\ c.seq = b.seq /\ c.nodes = b.nodes


LEMMA RemoveNodeIs ==
    ASSUME NEW b \in BookType, NEW o, o.side \in Sides
    PROVE  RemoveNode(b, o) =
             [orders |-> b.orders \ {o},
              best |-> [b.best EXCEPT ![o.side] =
                          IF b.best[o.side] = Id(o) THEN Successor(b, o) ELSE b.best[o.side]],
              seq |-> b.seq, nodes |-> b.nodes, free |-> b.free + 1, active |-> b.active - 1]
<1> DEFINE s == o.side
           top == IF b.best[s] = Id(o) THEN Successor(b, o) ELSE b.best[s]
           rest == b.orders \ {o}
           more == b.free + 1
           less == b.active - 1
           c == RemoveNode(b, o)
<1>1. c = [b EXCEPT !.orders = rest, !.best[s] = top, !.free = more, !.active = less]
  BY DEF RemoveNode
<1>2. s \in Sides
  OBVIOUS
<1> HIDE DEF s, top, rest, more, less, c
<1>3. c = [orders |-> rest, best |-> [b.best EXCEPT ![s] = top], seq |-> b.seq,
           nodes |-> b.nodes, free |-> more, active |-> less]
  BY <1>1, <1>2 DEF BookType
<1> QED BY <1>3 DEF s, top, rest, more, less, c

LEMMA RemoveGood ==
    ASSUME NEW b, Good(b), NEW o \in b.orders
    PROVE  Removed(b, RemoveNode(b, o), {o})
<1> USE GoodParts
<1> DEFINE c == RemoveNode(b, o)
           best == [b.best EXCEPT ![o.side] =
                       IF b.best[o.side] = Id(o) THEN Successor(b, o) ELSE b.best[o.side]]
<1>1. o \in OrderType /\ o.side \in Sides
  BY OrderFields
<1>2. c = [orders |-> b.orders \ {o}, best |-> best, seq |-> b.seq, nodes |-> b.nodes,
           free |-> b.free + 1, active |-> b.active - 1]
  BY <1>1, RemoveNodeIs
<1> HIDE DEF c
<1>3. /\ c.orders = b.orders \ {o} /\ c.best = best /\ c.seq = b.seq /\ c.nodes = b.nodes
      /\ c.free = b.free + 1 /\ c.active = b.active - 1
  BY <1>2
<1>4. \A s \in Sides : Leads(c, s) /\ c.best[s] \in Nat \cup {Nil}
  BY <1>3, SuccessorLeads
<1>5. c.best \in [Sides -> Nat \cup {Nil}]
  <2>1. DOMAIN c.best = Sides /\ c.best = [s \in Sides |-> c.best[s]]
    BY <1>3
  <2> DEFINE f == c.best
  <2> HIDE DEF f
  <2>2. f = [s \in Sides |-> f[s]] /\ \A s \in Sides : f[s] \in Nat \cup {Nil}
    BY <1>4, <2>1 DEF f
  <2>3. f \in [Sides -> Nat \cup {Nil}]
    BY <2>2
  <2> QED BY <2>3 DEF f
<1>6. /\ IsFiniteSet(c.orders)
      /\ Cardinality(c.orders) = Cardinality(b.orders) - 1
  <2>1. IsFiniteSet(b.orders) /\ o \in b.orders
    OBVIOUS
  <2>2. /\ IsFiniteSet(b.orders \ {o})
        /\ Cardinality(b.orders \ {o}) = Cardinality(b.orders) - 1
    BY ONLY <2>1, FS_RemoveElement
  <2> QED BY <1>3, <2>2
<1>7. b.active = Cardinality(b.orders) /\ b.active + b.free = b.nodes
  BY DEF Good, Arena
<1>8. Arena(c) /\ c.active \in Nat
  <2> DEFINE n == Cardinality(c.orders)
  <2>1. n \in Nat
    BY <1>6, FS_CardinalityType
  <2>2. c.active = n /\ c.active + c.free = c.nodes
    BY <1>3, <1>6, <1>7, <2>1
  <2> QED BY <2>1, <2>2 DEF Arena
<1>9. Ranked(c)
  BY <1>3, RankedPart DEF Good
<1>10. c \in BookType
  <2>1. c.orders \in SUBSET OrderType /\ c.seq \in Nat /\ c.nodes \in Nat /\ c.free \in Nat
    BY <1>3
  <2> QED BY <1>2, <1>3, <1>5, <1>8, <2>1 DEF BookType
<1> QED BY <1>3, <1>4, <1>6, <1>8, <1>9, <1>10 DEF Removed, Good, c

(* decrement_size_at: the order keeps its place with fewer lots.           *)
Shrunk(o, n) == [o EXCEPT !.size = @ - n]

LEMMA ShrunkOrder ==
    ASSUME NEW o \in OrderType, NEW n \in Nat, 0 < n, n < o.size, NEW r, r = Shrunk(o, n)
    PROVE  /\ r \in OrderType /\ r # o /\ r.at = o.at /\ r.seq = o.seq /\ r.side = o.side
           /\ r.px = o.px /\ r.trader = o.trader /\ r.exp = o.exp /\ r.ro = o.ro
           /\ r.kind = o.kind
           /\ Id(r) = Id(o)
<1>1. o.size \in Nat /\ o.size - n \in Nat \ {0} /\ o.size - n # o.size
  BY OrderFields
<1>2. r = [o EXCEPT !.size = o.size - n]
  BY DEF Shrunk
<1> DEFINE m == o.size - n
<1> HIDE DEF m
<1>3. r = [o EXCEPT !.size = m] /\ m \in Nat \ {0} /\ m # o.size
  BY <1>1, <1>2 DEF m
<1>4. /\ r \in OrderType /\ r.size = m /\ r.at = o.at /\ r.seq = o.seq /\ r.side = o.side
      /\ r.px = o.px /\ r.trader = o.trader /\ r.exp = o.exp /\ r.ro = o.ro
      /\ r.kind = o.kind
  BY <1>3 DEF OrderType
<1>5. r # o
  BY <1>3, <1>4
<1>6. Id(r) = Id(o)
  BY <1>4 DEF Id
<1> QED BY <1>4, <1>5, <1>6

LEMMA ShrinkGood ==
    ASSUME NEW b, Good(b), NEW o \in b.orders, NEW n \in Nat, 0 < n, n < o.size,
           NEW r, r = Shrunk(o, n),
           NEW c, c = [b EXCEPT !.orders = (b.orders \ {o}) \cup {r}]
    PROVE  /\ Good(c) /\ c.orders = (b.orders \ {o}) \cup {r}
           /\ c.seq = b.seq /\ c.nodes = b.nodes
<1> USE GoodParts
<1>1. /\ o \in OrderType /\ r \in OrderType /\ r # o /\ r.at = o.at /\ r.seq = o.seq
      /\ r.side = o.side /\ Id(r) = Id(o)
  <2>1. o \in OrderType
    OBVIOUS
  <2> QED BY <2>1, ShrunkOrder
<1> DEFINE left == (b.orders \ {o}) \cup {r}
<1>2. left \in SUBSET OrderType
  BY <1>1
<1>3. r \notin b.orders
  BY <1>1 DEF Good, Ranked
<1>4. IsFiniteSet(left) /\ Cardinality(left) = Cardinality(b.orders)
  <2>1. IsFiniteSet(b.orders) /\ o \in b.orders /\ Cardinality(b.orders) \in Nat
    OBVIOUS
  <2>2. /\ IsFiniteSet(b.orders \ {o})
        /\ Cardinality(b.orders \ {o}) = Cardinality(b.orders) - 1
    BY ONLY <2>1, FS_RemoveElement
  <2>3. r \notin b.orders \ {o}
    BY <1>3
  <2>4. /\ IsFiniteSet((b.orders \ {o}) \cup {r})
        /\ Cardinality((b.orders \ {o}) \cup {r}) = Cardinality(b.orders \ {o}) + 1
    BY ONLY <2>2, <2>3, FS_AddElement
  <2> QED BY <2>1, <2>2, <2>4
<1> HIDE DEF left
<1>5. c = [b EXCEPT !.orders = left]
  BY DEF left
<1>6. /\ c.orders = left /\ c.best = b.best /\ c.seq = b.seq /\ c.nodes = b.nodes
      /\ c.free = b.free /\ c.active = b.active /\ c \in BookType
  BY <1>2, <1>5 DEF BookType
<1>7. Ranked(c)
  <2>1. \A x \in c.orders : \E y \in b.orders : /\ x.at = y.at /\ x.seq = y.seq
                                                /\ (x = y /\ x # r /\ y # o) \/ (x = r /\ y = o)
    BY <1>1, <1>3, <1>6 DEF left
  <2>2. Ranked(b)
    BY DEF Good
  <2>3. \A x \in c.orders : x.seq <= MaxSeq
    BY <2>1, <2>2 DEF Ranked
  <2>4. ASSUME NEW x \in c.orders, NEW y \in c.orders
        PROVE  (x.at < y.at <=> x.seq < y.seq) /\ (x.at = y.at => x = y)
    <3>1. PICK u \in b.orders : /\ x.at = u.at /\ x.seq = u.seq
                                /\ (x = u /\ x # r /\ u # o) \/ (x = r /\ u = o)
      BY <2>1
    <3>2. PICK v \in b.orders : /\ y.at = v.at /\ y.seq = v.seq
                                /\ (y = v /\ y # r /\ v # o) \/ (y = r /\ v = o)
      BY <2>1
    <3>3. (u.at < v.at <=> u.seq < v.seq) /\ (u.at = v.at => u = v)
      BY <2>2 DEF Ranked
    <3>4. u = v => x = y
      BY <3>1, <3>2
    <3> QED BY <3>1, <3>2, <3>3, <3>4
  <2> QED BY <2>3, <2>4 DEF Ranked
<1>8. ASSUME NEW s \in Sides PROVE Leads(c, s)
  <2>1. Leads(b, s)
    BY DEF Good
  <2>2. CASE s # o.side
    <3>1. Side(c, s) = Side(b, s)
      BY <1>1, <1>6, <2>2 DEF Side, left
    <3> QED BY <1>6, <2>1, <3>1 DEF Leads
  <2>3. CASE s = o.side
    <3>1. Side(c, s) = (Side(b, s) \ {o}) \cup {r} /\ o \in Side(b, s)
      BY <1>1, <1>6, <2>3 DEF Side, left
    <3>2. PICK l \in Side(b, s) : b.best[s] = Id(l) /\ \A x \in Side(b, s) : Id(l) <= Id(x)
      BY <2>1, <3>1 DEF Leads
    <3> DEFINE m == IF l = o THEN r ELSE l
    <3>3. m \in Side(c, s) /\ Id(m) = Id(l)
      BY <1>1, <3>1
    <3>4. \A x \in Side(c, s) : \E y \in Side(b, s) : Id(x) = Id(y)
      BY <1>1, <3>1
    <3>5. \A x \in Side(c, s) : Id(l) <= Id(x)
      BY <3>2, <3>4
    <3> HIDE DEF m
    <3>6. c.best[s] = Id(m) /\ \A x \in Side(c, s) : Id(m) <= Id(x)
      BY <1>6, <3>2, <3>3, <3>5
    <3> QED BY <3>3, <3>6 DEF Leads
  <2> QED BY <2>2, <2>3
<1>9. Arena(c)
  BY <1>4, <1>6 DEF Good, Arena
<1>10. IsFiniteSet(c.orders)
  BY <1>4, <1>6
<1>11. Good(c)
  BY <1>6, <1>7, <1>8, <1>9, <1>10 DEF Good
<1> QED BY <1>6, <1>11 DEF left

LEMMA InsertNodeIs ==
    ASSUME NEW b \in BookType, NEW o, o.side \in Sides
    PROVE  InsertNode(b, o) =
             [orders |-> b.orders \cup {o},
              best |-> [b.best EXCEPT ![o.side] =
                          IF b.best[o.side] = Nil \/ Id(o) < b.best[o.side]
                          THEN Id(o) ELSE b.best[o.side]],
              seq |-> b.seq, nodes |-> IF b.free > 0 THEN b.nodes ELSE b.nodes + 1,
              free |-> IF b.free > 0 THEN b.free - 1 ELSE b.free, active |-> b.active + 1]
<1> DEFINE s == o.side
           top == IF b.best[s] = Nil \/ Id(o) < b.best[s] THEN Id(o) ELSE b.best[s]
           all == b.orders \cup {o}
           free == IF b.free > 0 THEN b.free - 1 ELSE b.free
           nodes == IF b.free > 0 THEN b.nodes ELSE b.nodes + 1
           more == b.active + 1
           c == InsertNode(b, o)
<1>1. c = [b EXCEPT !.orders = all, !.best[s] = top, !.free = free, !.nodes = nodes,
                    !.active = more]
  BY DEF InsertNode
<1>2. s \in Sides
  OBVIOUS
<1> HIDE DEF s, top, all, free, nodes, more, c
<1>3. c = [orders |-> all, best |-> [b.best EXCEPT ![s] = top], seq |-> b.seq,
           nodes |-> nodes, free |-> free, active |-> more]
  BY <1>1, <1>2 DEF BookType
<1> QED BY <1>3 DEF s, top, all, free, nodes, more, c

(* insert_bid, insert_ask                                                  *)
Younger(b, o) == \A x \in b.orders : x.at < o.at /\ x.seq < o.seq

LEMMA InsertGood ==
    ASSUME NEW b, Good(b), NEW o \in OrderType, o.seq <= MaxSeq, Younger(b, o), NEW limit \in Nat,
           b.free > 0 \/ b.nodes < limit, b.nodes <= limit,
           NEW c, c = InsertNode(b, o)
    PROVE  Good(c) /\ c.orders = b.orders \cup {o} /\ c.seq = b.seq /\ c.nodes <= limit
<1> USE GoodParts
<1> DEFINE best == [b.best EXCEPT ![o.side] =
                      IF b.best[o.side] = Nil \/ Id(o) < b.best[o.side]
                      THEN Id(o) ELSE b.best[o.side]]
<1>1. o.side \in Sides /\ o.at \in Nat /\ o.seq \in Nat /\ Id(o) \in Nat
  BY OrderFields, IdOf
<1>2. c = [orders |-> b.orders \cup {o}, best |-> best,
           seq |-> b.seq, nodes |-> IF b.free > 0 THEN b.nodes ELSE b.nodes + 1,
           free |-> IF b.free > 0 THEN b.free - 1 ELSE b.free, active |-> b.active + 1]
  BY <1>1, InsertNodeIs
<1>3. /\ c.orders = b.orders \cup {o} /\ c.best = best /\ c.seq = b.seq
      /\ c.nodes = IF b.free > 0 THEN b.nodes ELSE b.nodes + 1
      /\ c.free = IF b.free > 0 THEN b.free - 1 ELSE b.free
      /\ c.active = b.active + 1
  BY <1>2
<1>4. best \in [Sides -> Nat \cup {Nil}]
  <2>1. b.best \in [Sides -> Nat \cup {Nil}] /\ b.best[o.side] \in Nat \cup {Nil}
    BY <1>1
  <2> QED BY <1>1, <2>1
<1>5. c \in BookType
  <2>1. c.orders \in SUBSET OrderType /\ c.nodes \in Nat /\ c.free \in Nat /\ c.active \in Nat
    BY <1>3
  <2> HIDE DEF best
  <2> QED BY <1>2, <1>3, <1>4, <2>1 DEF BookType
<1>6. o \notin b.orders
  BY <1>1 DEF Younger
<1>7. IsFiniteSet(c.orders) /\ Cardinality(c.orders) = Cardinality(b.orders) + 1
  <2>1. IsFiniteSet(b.orders)
    OBVIOUS
  <2>2. /\ IsFiniteSet(b.orders \cup {o})
        /\ Cardinality(b.orders \cup {o}) = Cardinality(b.orders) + 1
    BY ONLY <2>1, <1>6, FS_AddElement
  <2> QED BY <1>3, <2>2
<1>8. Arena(c)
  <2>1. b.active = Cardinality(b.orders) /\ b.active + b.free = b.nodes
    BY DEF Good, Arena
  <2>2. c.active = Cardinality(c.orders)
    BY <1>3, <1>7, <2>1
  <2>3. c.active + c.free = c.nodes
    BY <1>3, <2>1
  <2> QED BY <2>2, <2>3 DEF Arena
<1>9. Ranked(c)
  <2>1. Ranked(b)
    BY DEF Good
  <2>2. ASSUME NEW x \in b.orders PROVE x.at < o.at /\ x.seq < o.seq /\ x.at \in Nat /\ x.seq \in Nat
    <3>1. x \in OrderType
      OBVIOUS
    <3> QED BY <3>1, OrderFields DEF Younger
  <2>3. \A x \in c.orders : x.seq <= MaxSeq
    BY <1>3, <2>1 DEF Ranked
  <2>4. ASSUME NEW x \in c.orders, NEW y \in c.orders
        PROVE  (x.at < y.at <=> x.seq < y.seq) /\ (x.at = y.at => x = y)
    <3>1. CASE x \in b.orders /\ y \in b.orders
      BY <2>1, <3>1 DEF Ranked
    <3>2. CASE x \in b.orders /\ y = o
      BY <1>1, <2>2, <3>2
    <3>3. CASE x = o /\ y \in b.orders
      BY <1>1, <2>2, <3>3
    <3>4. CASE x = o /\ y = o
      BY <1>1, <3>4
    <3> QED BY <1>3, <3>1, <3>2, <3>3, <3>4
  <2> QED BY <2>3, <2>4 DEF Ranked
<1>10. ASSUME NEW s \in Sides PROVE Leads(c, s)
  <2>1. Leads(b, s)
    BY DEF Good
  <2>2. CASE s # o.side
    <3>1. Side(c, s) = Side(b, s)
      BY <1>3, <2>2 DEF Side
    <3>2. c.best[s] = b.best[s]
      BY <1>1, <1>3, <2>2
    <3> QED BY <2>1, <3>1, <3>2 DEF Leads
  <2>3. CASE s = o.side
    <3>1. Side(c, s) = Side(b, s) \cup {o}
      BY <1>3, <2>3 DEF Side
    <3>2. c.best[s] = IF b.best[s] = Nil \/ Id(o) < b.best[s] THEN Id(o) ELSE b.best[s]
      BY <1>1, <1>3, <2>3
    <3>3. CASE Side(b, s) = {} /\ b.best[s] = Nil
      <4>1. Side(c, s) = {o} /\ c.best[s] = Id(o)
        BY <3>1, <3>2, <3>3
      <4> QED BY <1>1, <4>1 DEF Leads
    <3>4. CASE \E l \in Side(b, s) : b.best[s] = Id(l) /\ \A x \in Side(b, s) : Id(l) <= Id(x)
      <4>1. PICK l \in Side(b, s) : b.best[s] = Id(l) /\ \A x \in Side(b, s) : Id(l) <= Id(x)
        BY <3>4
      <4>2. \A x \in Side(b, s) : Id(x) \in Nat
        BY DEF Side, DistinctIds
      <4>3. b.best[s] # Nil
        BY <4>1, <4>2 DEF Nil
      <4>4. CASE Id(o) < Id(l)
        <5>1. c.best[s] = Id(o)
          BY <3>2, <4>1, <4>4
        <5>2. \A x \in Side(c, s) : Id(o) <= Id(x)
          BY <1>1, <3>1, <4>1, <4>2, <4>4
        <5> QED BY <3>1, <5>1, <5>2 DEF Leads
      <4>5. CASE ~(Id(o) < Id(l))
        <5>1. c.best[s] = Id(l)
          BY <3>2, <4>1, <4>3, <4>5
        <5>2. \A x \in Side(c, s) : Id(l) <= Id(x)
          BY <1>1, <3>1, <4>1, <4>2, <4>5
        <5> QED BY <3>1, <5>1, <5>2 DEF Leads
      <4> QED BY <4>4, <4>5
    <3> QED BY <2>1, <3>3, <3>4 DEF Leads
  <2> QED BY <2>2, <2>3
<1>11. c.nodes <= limit
  BY <1>3
<1> QED BY <1>3, <1>5, <1>7, <1>8, <1>9, <1>10, <1>11 DEF Good

-----------------------------------------------------------------------------
(* A fold over a sequence goes through its elements one by one.  The three *)
(* folds of the book are unfolded each by itself.                          *)

LEMMA MaxOfUpTo ==
    ASSUME NEW n \in Nat, NEW s \in SUBSET (1..n), s # {}
    PROVE  Max(s) \in s /\ \A y \in s : y <= Max(s)
<1> DEFINE T == {n - y : y \in s}
<1>1. T \in SUBSET Nat /\ T # {}
  <2>1. ASSUME NEW y \in s PROVE n - y \in Nat
    <3>1. y \in 1..n
      OBVIOUS
    <3> QED BY <3>1
  <2> QED BY <2>1
<1> HIDE DEF T
<1>2. PICK m \in T : \A k \in T : m <= k
  BY <1>1, SmallestNat
<1>3. PICK x \in s : m = n - x
  BY DEF T
<1>4. \A y \in s : x >= y
  <2> SUFFICES ASSUME NEW y \in s PROVE x >= y
    OBVIOUS
  <2>1. n - y \in T
    BY DEF T
  <2>2. n - x <= n - y
    BY <1>2, <1>3, <2>1
  <2> QED BY <2>2
<1>5. Max(s) \in s /\ \A y \in s : Max(s) >= y
  BY <1>4 DEF Max
<1> DEFINE top == Max(s)
<1> HIDE DEF top
<1>6. top \in s /\ \A y \in s : top >= y
  BY <1>5 DEF top
<1>7. \A y \in s : y <= top
  BY <1>6
<1> QED BY <1>6, <1>7 DEF top

LEMMA UpTo ==
    ASSUME NEW n \in Nat, NEW s \in SUBSET (1..(n + 1))
    PROVE  /\ n + 1 \in s => Max(s) = n + 1 /\ s \ {n + 1} \in SUBSET (1..n)
           /\ n + 1 \notin s => s \in SUBSET (1..n)
<1>1. n + 1 \in Nat /\ \A x \in 1..(n + 1) : x # n + 1 => x \in 1..n
  OBVIOUS
<1>2. ASSUME n + 1 \in s PROVE Max(s) = n + 1
  <2> DEFINE m == Max(s)
  <2>1. m \in s /\ n + 1 <= m
    BY <1>1, <1>2, MaxOfUpTo
  <2> HIDE DEF m
  <2>2. m = n + 1
    BY <2>1
  <2> QED BY <2>2 DEF m
<1> QED BY <1>1, <1>2

LEMMA Prefix ==
    ASSUME NEW n \in Nat, NEW k \in 1..n
    PROVE  /\ 1..k \in SUBSET (1..n) /\ 1..k # {} /\ Max(1..k) = k
           /\ (1..k) \ {k} = 1..(k - 1)
<1>1. k - 1 \in Nat /\ (k - 1) + 1 = k /\ k \in 1..k
  OBVIOUS
<1>2. Max(1..k) = k
  BY <1>1, UpTo
<1> QED BY <1>1, <1>2

RemoveRec(b, q, n, g) ==
    g = [s \in SUBSET (1..n) |->
            IF s = {} THEN b ELSE RemoveNode(g[s \ {Max(s)}], q[Max(s)])]

LEMMA RemoveRecExists ==
    ASSUME NEW b, NEW q, NEW n \in Nat
    PROVE  \E g : RemoveRec(b, q, n, g)
<1> DEFINE G == {k \in Nat : \E g : RemoveRec(b, q, k, g)}
<1>1. 0 \in G
  <2> DEFINE g == [s \in SUBSET (1..0) |-> b]
  <2>1. \A s \in SUBSET (1..0) : s = {}
    OBVIOUS
  <2>2. RemoveRec(b, q, 0, g)
    BY <2>1 DEF RemoveRec
  <2> QED BY <2>2
<1>2. ASSUME NEW k \in Nat, k \in G PROVE k + 1 \in G
  <2>1. PICK g : RemoveRec(b, q, k, g)
    BY <1>2
  <2> DEFINE h == [s \in SUBSET (1..(k + 1)) |->
                     IF s = {} THEN b
                     ELSE IF k + 1 \in s THEN RemoveNode(g[s \ {k + 1}], q[k + 1])
                     ELSE g[s]]
             next == [s \in SUBSET (1..(k + 1)) |->
                     IF s = {} THEN b ELSE RemoveNode(h[s \ {Max(s)}], q[Max(s)])]
  <2>2. \A s \in SUBSET (1..k) : g[s] = IF s = {} THEN b ELSE RemoveNode(g[s \ {Max(s)}], q[Max(s)])
    BY <2>1 DEF RemoveRec
  <2>3. \A s \in SUBSET (1..k) : s \in SUBSET (1..(k + 1)) /\ k + 1 \notin s
    OBVIOUS
  <2>4. \A s \in SUBSET (1..k) : h[s] = g[s]
    BY <2>2, <2>3
  <2>5. ASSUME NEW s \in SUBSET (1..(k + 1)) PROVE h[s] = next[s]
    <3>1. CASE s = {}
      BY <3>1
    <3>2. CASE k + 1 \in s
      <4>1. Max(s) = k + 1 /\ s \ {k + 1} \in SUBSET (1..k)
        BY <3>2, UpTo
      <4>2. h[s] = RemoveNode(g[s \ {k + 1}], q[k + 1])
        BY <3>2
      <4>3. h[s \ {k + 1}] = g[s \ {k + 1}]
        BY <2>4, <4>1
      <4>4. next[s] = RemoveNode(h[s \ {k + 1}], q[k + 1])
        BY <3>2, <4>1
      <4> QED BY <4>2, <4>3, <4>4
    <3>3. CASE s # {} /\ k + 1 \notin s
      <4>1. s \in SUBSET (1..k) /\ s \ {Max(s)} \in SUBSET (1..k)
        BY <3>3, UpTo
      <4>2. h[s] = RemoveNode(g[s \ {Max(s)}], q[Max(s)])
        BY <2>2, <2>4, <3>3, <4>1
      <4>3. h[s \ {Max(s)}] = g[s \ {Max(s)}]
        BY <2>4, <4>1
      <4>4. next[s] = RemoveNode(h[s \ {Max(s)}], q[Max(s)])
        BY <3>3
      <4> QED BY <4>2, <4>3, <4>4
    <3> QED BY <3>1, <3>2, <3>3
  <2>6. h = next
    BY <2>5
  <2>7. RemoveRec(b, q, k + 1, h)
    BY <2>6 DEF RemoveRec
  <2> QED BY <2>7
<1> HIDE DEF G
<1>3. Nat \subseteq G
  BY <1>1, <1>2, NatInduct
<1> QED BY <1>3 DEF G

LEMMA RemoveAllIs ==
    ASSUME NEW b, NEW q, NEW n \in Nat, DOMAIN q = 1..n
    PROVE  \E it : /\ it[0] = b
                   /\ \A k \in 1..n : it[k] = RemoveNode(it[k - 1], q[k])
                   /\ RemoveAll(b, q) = it[n]
<1> DEFINE f == CHOOSE g : RemoveRec(b, q, n, g)
           it == [k \in 0..n |-> f[1..k]]
<1>1. RemoveRec(b, q, n, f)
  BY RemoveRecExists
<1>2. RemoveAll(b, q) = f[1..n]
  BY DEF RemoveAll, FoldLeft, MapThenFoldSet, RemoveRec
<1> HIDE DEF f
<1>3. it[0] = b
  <2>1. 1..0 = {} /\ 1..0 \in SUBSET (1..n)
    OBVIOUS
  <2>2. f[{}] = b
    BY <1>1, <2>1 DEF RemoveRec
  <2> QED BY <2>1, <2>2
<1>4. ASSUME NEW k \in 1..n PROVE it[k] = RemoveNode(it[k - 1], q[k])
  <2>1. /\ 1..k \in SUBSET (1..n) /\ 1..k # {} /\ Max(1..k) = k
        /\ (1..k) \ {k} = 1..(k - 1)
    BY Prefix
  <2>2. f[1..k] = RemoveNode(f[1..(k - 1)], q[k])
    BY <1>1, <2>1 DEF RemoveRec
  <2>3. it[k] = f[1..k] /\ it[k - 1] = f[1..(k - 1)]
    OBVIOUS
  <2> QED BY <2>2, <2>3
<1>5. RemoveAll(b, q) = it[n]
  BY <1>2
<1> HIDE DEF it
<1> QED BY <1>3, <1>4, <1>5

FillRec(b, q, n, g) ==
    g = [s \in SUBSET (1..n) |->
            IF s = {} THEN b ELSE Decrement(g[s \ {Max(s)}], q[Max(s)].order, q[Max(s)].lots)]

LEMMA FillRecExists ==
    ASSUME NEW b, NEW q, NEW n \in Nat
    PROVE  \E g : FillRec(b, q, n, g)
<1> DEFINE G == {k \in Nat : \E g : FillRec(b, q, k, g)}
<1>1. 0 \in G
  <2> DEFINE g == [s \in SUBSET (1..0) |-> b]
  <2>1. \A s \in SUBSET (1..0) : s = {}
    OBVIOUS
  <2>2. FillRec(b, q, 0, g)
    BY <2>1 DEF FillRec
  <2> QED BY <2>2
<1>2. ASSUME NEW k \in Nat, k \in G PROVE k + 1 \in G
  <2>1. PICK g : FillRec(b, q, k, g)
    BY <1>2
  <2> DEFINE h == [s \in SUBSET (1..(k + 1)) |->
                     IF s = {} THEN b
                     ELSE IF k + 1 \in s THEN Decrement(g[s \ {k + 1}], q[k + 1].order, q[k + 1].lots)
                     ELSE g[s]]
             next == [s \in SUBSET (1..(k + 1)) |->
                     IF s = {} THEN b ELSE Decrement(h[s \ {Max(s)}], q[Max(s)].order, q[Max(s)].lots)]
  <2>2. \A s \in SUBSET (1..k) : g[s] = IF s = {} THEN b ELSE Decrement(g[s \ {Max(s)}], q[Max(s)].order, q[Max(s)].lots)
    BY <2>1 DEF FillRec
  <2>3. \A s \in SUBSET (1..k) : s \in SUBSET (1..(k + 1)) /\ k + 1 \notin s
    OBVIOUS
  <2>4. \A s \in SUBSET (1..k) : h[s] = g[s]
    BY <2>2, <2>3
  <2>5. ASSUME NEW s \in SUBSET (1..(k + 1)) PROVE h[s] = next[s]
    <3>1. CASE s = {}
      BY <3>1
    <3>2. CASE k + 1 \in s
      <4>1. Max(s) = k + 1 /\ s \ {k + 1} \in SUBSET (1..k)
        BY <3>2, UpTo
      <4>2. h[s] = Decrement(g[s \ {k + 1}], q[k + 1].order, q[k + 1].lots)
        BY <3>2
      <4>3. h[s \ {k + 1}] = g[s \ {k + 1}]
        BY <2>4, <4>1
      <4>4. next[s] = Decrement(h[s \ {k + 1}], q[k + 1].order, q[k + 1].lots)
        BY <3>2, <4>1
      <4> QED BY <4>2, <4>3, <4>4
    <3>3. CASE s # {} /\ k + 1 \notin s
      <4>1. s \in SUBSET (1..k) /\ s \ {Max(s)} \in SUBSET (1..k)
        BY <3>3, UpTo
      <4>2. h[s] = Decrement(g[s \ {Max(s)}], q[Max(s)].order, q[Max(s)].lots)
        BY <2>2, <2>4, <3>3, <4>1
      <4>3. h[s \ {Max(s)}] = g[s \ {Max(s)}]
        BY <2>4, <4>1
      <4>4. next[s] = Decrement(h[s \ {Max(s)}], q[Max(s)].order, q[Max(s)].lots)
        BY <3>3
      <4> QED BY <4>2, <4>3, <4>4
    <3> QED BY <3>1, <3>2, <3>3
  <2>6. h = next
    BY <2>5
  <2>7. FillRec(b, q, k + 1, h)
    BY <2>6 DEF FillRec
  <2> QED BY <2>7
<1> HIDE DEF G
<1>3. Nat \subseteq G
  BY <1>1, <1>2, NatInduct
<1> QED BY <1>3 DEF G

LEMMA FillAllIs ==
    ASSUME NEW b, NEW q, NEW n \in Nat, DOMAIN q = 1..n
    PROVE  \E it : /\ it[0] = b
                   /\ \A k \in 1..n : it[k] = Decrement(it[k - 1], q[k].order, q[k].lots)
                   /\ FillAll(b, q) = it[n]
<1> DEFINE f == CHOOSE g : FillRec(b, q, n, g)
           it == [k \in 0..n |-> f[1..k]]
<1>1. FillRec(b, q, n, f)
  BY FillRecExists
<1>2. FillAll(b, q) = f[1..n]
  BY DEF FillAll, FoldLeft, MapThenFoldSet, FillRec
<1> HIDE DEF f
<1>3. it[0] = b
  <2>1. 1..0 = {} /\ 1..0 \in SUBSET (1..n)
    OBVIOUS
  <2>2. f[{}] = b
    BY <1>1, <2>1 DEF FillRec
  <2> QED BY <2>1, <2>2
<1>4. ASSUME NEW k \in 1..n PROVE it[k] = Decrement(it[k - 1], q[k].order, q[k].lots)
  <2>1. /\ 1..k \in SUBSET (1..n) /\ 1..k # {} /\ Max(1..k) = k
        /\ (1..k) \ {k} = 1..(k - 1)
    BY Prefix
  <2>2. f[1..k] = Decrement(f[1..(k - 1)], q[k].order, q[k].lots)
    BY <1>1, <2>1 DEF FillRec
  <2>3. it[k] = f[1..k] /\ it[k - 1] = f[1..(k - 1)]
    OBVIOUS
  <2> QED BY <2>2, <2>3
<1>5. FillAll(b, q) = it[n]
  BY <1>2
<1> HIDE DEF it
<1> QED BY <1>3, <1>4, <1>5

WalkRec(b, q, t, limit, stp, n, g) ==
    g = [s \in SUBSET (1..n) |->
            IF s = {} THEN b ELSE WalkStep(g[s \ {Max(s)}], q[Max(s)], t, limit, stp)]

LEMMA WalkRecExists ==
    ASSUME NEW b, NEW q, NEW t, NEW limit, NEW stp, NEW n \in Nat
    PROVE  \E g : WalkRec(b, q, t, limit, stp, n, g)
<1> DEFINE G == {k \in Nat : \E g : WalkRec(b, q, t, limit, stp, k, g)}
<1>1. 0 \in G
  <2> DEFINE g == [s \in SUBSET (1..0) |-> b]
  <2>1. \A s \in SUBSET (1..0) : s = {}
    OBVIOUS
  <2>2. WalkRec(b, q, t, limit, stp, 0, g)
    BY <2>1 DEF WalkRec
  <2> QED BY <2>2
<1>2. ASSUME NEW k \in Nat, k \in G PROVE k + 1 \in G
  <2>1. PICK g : WalkRec(b, q, t, limit, stp, k, g)
    BY <1>2
  <2> DEFINE h == [s \in SUBSET (1..(k + 1)) |->
                     IF s = {} THEN b
                     ELSE IF k + 1 \in s THEN WalkStep(g[s \ {k + 1}], q[k + 1], t, limit, stp)
                     ELSE g[s]]
             next == [s \in SUBSET (1..(k + 1)) |->
                     IF s = {} THEN b ELSE WalkStep(h[s \ {Max(s)}], q[Max(s)], t, limit, stp)]
  <2>2. \A s \in SUBSET (1..k) : g[s] = IF s = {} THEN b ELSE WalkStep(g[s \ {Max(s)}], q[Max(s)], t, limit, stp)
    BY <2>1 DEF WalkRec
  <2>3. \A s \in SUBSET (1..k) : s \in SUBSET (1..(k + 1)) /\ k + 1 \notin s
    OBVIOUS
  <2>4. \A s \in SUBSET (1..k) : h[s] = g[s]
    BY <2>2, <2>3
  <2>5. ASSUME NEW s \in SUBSET (1..(k + 1)) PROVE h[s] = next[s]
    <3>1. CASE s = {}
      BY <3>1
    <3>2. CASE k + 1 \in s
      <4>1. Max(s) = k + 1 /\ s \ {k + 1} \in SUBSET (1..k)
        BY <3>2, UpTo
      <4>2. h[s] = WalkStep(g[s \ {k + 1}], q[k + 1], t, limit, stp)
        BY <3>2
      <4>3. h[s \ {k + 1}] = g[s \ {k + 1}]
        BY <2>4, <4>1
      <4>4. next[s] = WalkStep(h[s \ {k + 1}], q[k + 1], t, limit, stp)
        BY <3>2, <4>1
      <4> QED BY <4>2, <4>3, <4>4
    <3>3. CASE s # {} /\ k + 1 \notin s
      <4>1. s \in SUBSET (1..k) /\ s \ {Max(s)} \in SUBSET (1..k)
        BY <3>3, UpTo
      <4>2. h[s] = WalkStep(g[s \ {Max(s)}], q[Max(s)], t, limit, stp)
        BY <2>2, <2>4, <3>3, <4>1
      <4>3. h[s \ {Max(s)}] = g[s \ {Max(s)}]
        BY <2>4, <4>1
      <4>4. next[s] = WalkStep(h[s \ {Max(s)}], q[Max(s)], t, limit, stp)
        BY <3>3
      <4> QED BY <4>2, <4>3, <4>4
    <3> QED BY <3>1, <3>2, <3>3
  <2>6. h = next
    BY <2>5
  <2>7. WalkRec(b, q, t, limit, stp, k + 1, h)
    BY <2>6 DEF WalkRec
  <2> QED BY <2>7
<1> HIDE DEF G
<1>3. Nat \subseteq G
  BY <1>1, <1>2, NatInduct
<1> QED BY <1>3 DEF G

(* w is what the steps of the walk make of w0 along q.                     *)
Walked(w0, w, q, n, t, limit, stp) ==
    \E it : /\ it[0] = w0
            /\ \A k \in 1..n : it[k] = WalkStep(it[k - 1], q[k], t, limit, stp)
            /\ w = it[n]

LEMMA WalkIs ==
    ASSUME NEW t, NEW s, NEW size, NEW limit, NEW stp, NEW red,
           NEW q, q = BestFirst(book, Opposite(s)), NEW n \in Nat, DOMAIN q = 1..n
    PROVE  Walked(WalkStart(size, red), Walk(t, s, size, limit, stp, red), q, n, t, limit, stp)
<1> DEFINE b == WalkStart(size, red)
           f == CHOOSE g : WalkRec(b, q, t, limit, stp, n, g)
           it == [k \in 0..n |-> f[1..k]]
<1>1. WalkRec(b, q, t, limit, stp, n, f)
  BY WalkRecExists
<1>2. Walk(t, s, size, limit, stp, red) = f[1..n]
  BY DEF Walk, FoldLeft, MapThenFoldSet, WalkRec
<1> HIDE DEF f, b
<1>3. it[0] = b
  <2>1. 1..0 = {} /\ 1..0 \in SUBSET (1..n)
    OBVIOUS
  <2>2. f[{}] = b
    BY <1>1, <2>1 DEF WalkRec
  <2> QED BY <2>1, <2>2
<1>4. ASSUME NEW k \in 1..n PROVE it[k] = WalkStep(it[k - 1], q[k], t, limit, stp)
  <2>1. /\ 1..k \in SUBSET (1..n) /\ 1..k # {} /\ Max(1..k) = k
        /\ (1..k) \ {k} = 1..(k - 1)
    BY Prefix
  <2>2. f[1..k] = WalkStep(f[1..(k - 1)], q[k], t, limit, stp)
    BY <1>1, <2>1 DEF WalkRec
  <2>3. it[k] = f[1..k] /\ it[k - 1] = f[1..(k - 1)]
    OBVIOUS
  <2> QED BY <2>2, <2>3
<1>5. Walk(t, s, size, limit, stp, red) = it[n]
  BY <1>2
<1> HIDE DEF it
<1> QED BY <1>3, <1>4, <1>5 DEF b, Walked

-----------------------------------------------------------------------------
(* Batches.                                                                *)

(* n different orders of b.                                                *)
Batch(b, q, n) ==
    /\ DOMAIN q = 1..n
    /\ \A i \in 1..n : q[i] \in b.orders
    /\ \A i, j \in 1..n : q[i] = q[j] => i = j

LEMMA RemoveAllGood ==
    ASSUME NEW b, Good(b), NEW q, NEW n \in Nat, Batch(b, q, n)
    PROVE  Removed(b, RemoveAll(b, q), {q[i] : i \in 1..n})
<1>1. PICK it : /\ it[0] = b
                /\ \A k \in 1..n : it[k] = RemoveNode(it[k - 1], q[k])
                /\ RemoveAll(b, q) = it[n]
  BY RemoveAllIs DEF Batch
<1> DEFINE G == {k \in Nat : k <= n => Removed(b, it[k], {q[i] : i \in 1..k})}
<1>2. 0 \in G
  <2>1. {q[i] : i \in 1..0} = {}
    OBVIOUS
  <2>2. Removed(b, it[0], {q[i] : i \in 1..0})
    BY <1>1, <2>1 DEF Removed
  <2> QED BY <2>2
<1>3. ASSUME NEW k \in Nat, k \in G PROVE k + 1 \in G
  <2> SUFFICES ASSUME k + 1 <= n PROVE Removed(b, it[k + 1], {q[i] : i \in 1..(k + 1)})
    OBVIOUS
  <2> DEFINE c == it[k]
             o == q[k + 1]
             d == RemoveNode(c, o)
  <2>1. k + 1 \in 1..n /\ k <= n /\ (k + 1) - 1 = k
    OBVIOUS
  <2>2. it[k + 1] = d
    BY <1>1, <2>1
  <2>3. Good(c) /\ c.orders = b.orders \ {q[i] : i \in 1..k} /\ c.seq = b.seq /\ c.nodes = b.nodes
    BY <1>3, <2>1 DEF Removed
  <2>4. o \in b.orders /\ \A i \in 1..k : q[i] # o
    <3>1. \A i \in 1..k : i \in 1..n /\ i # k + 1
      BY <2>1
    <3> QED BY <2>1, <3>1 DEF Batch
  <2>5. o \in c.orders
    BY <2>3, <2>4
  <2> HIDE DEF c, o
  <2>6. Good(d) /\ d.orders = c.orders \ {o} /\ d.seq = c.seq /\ d.nodes = c.nodes
    BY <2>3, <2>5, RemoveGood DEF Removed
  <2>7. {q[i] : i \in 1..(k + 1)} = {q[i] : i \in 1..k} \cup {o}
    <3>1. \A i : i \in 1..(k + 1) <=> i \in 1..k \/ i = k + 1
      OBVIOUS
    <3> QED BY <3>1 DEF o
  <2>8. d.orders = b.orders \ {q[i] : i \in 1..(k + 1)}
    BY <2>3, <2>6, <2>7
  <2> HIDE DEF d
  <2> QED BY <2>2, <2>3, <2>6, <2>8 DEF Removed
<1> HIDE DEF G
<1>4. n \in G
  BY <1>2, <1>3, NatInduct
<1> QED BY <1>1, <1>4 DEF G

(* n fills of different orders of b, each for some of its lots.            *)
Fillable(b, f, n) ==
    /\ DOMAIN f = 1..n
    /\ \A i \in 1..n : f[i].order \in b.orders
    /\ \A i \in 1..n : f[i].lots \in Nat /\ 0 < f[i].lots /\ f[i].lots <= f[i].order.size
    /\ \A i, j \in 1..n : f[i].order = f[j].order => i = j

(* c is b after the first k of the fills f.                                *)
Filled(b, c, f, k) ==
    /\ Good(c) /\ c.seq = b.seq /\ c.nodes = b.nodes
    /\ \A o \in b.orders : (\A i \in 1..k : f[i].order # o) => o \in c.orders
    /\ \A x \in c.orders :
          \/ x \in b.orders /\ \A i \in 1..k : f[i].order # x
          \/ \E i \in 1..k : /\ f[i].lots < f[i].order.size
                             /\ x = Shrunk(f[i].order, f[i].lots)

LEMMA DecrementGood ==
    ASSUME NEW b, Good(b), NEW o \in b.orders, NEW m \in Nat, 0 < m, m <= o.size,
           NEW c, c = Decrement(b, o, m)
    PROVE  /\ Good(c) /\ c.seq = b.seq /\ c.nodes = b.nodes
           /\ c.orders = (b.orders \ {o}) \cup (IF m = o.size THEN {} ELSE {Shrunk(o, m)})
<1>0. o \in OrderType /\ o.size \in Nat
  BY GoodParts, OrderFields
<1>1. CASE m = o.size
  <2>1. c = RemoveNode(b, o)
    BY <1>1 DEF Decrement
  <2>2. Removed(b, c, {o})
    BY <2>1, RemoveGood
  <2> QED BY <1>1, <2>2 DEF Removed
<1>2. CASE m # o.size
  <2> DEFINE r == Shrunk(o, m)
  <2>1. c = [b EXCEPT !.orders = (b.orders \ {o}) \cup {r}]
    BY <1>2 DEF Decrement, Shrunk
  <2>2. m < o.size
    BY <1>0, <1>2
  <2> HIDE DEF r
  <2>3. r = Shrunk(o, m)
    BY DEF r
  <2>4. Good(c) /\ c.orders = (b.orders \ {o}) \cup {r} /\ c.seq = b.seq /\ c.nodes = b.nodes
    BY <2>1, <2>2, <2>3, ShrinkGood
  <2> QED BY <1>2, <2>3, <2>4
<1> QED BY <1>1, <1>2

LEMMA FillAllGood ==
    ASSUME NEW b, Good(b), NEW f, NEW n \in Nat, Fillable(b, f, n)
    PROVE  Filled(b, FillAll(b, f), f, n)
<1>1. PICK it : /\ it[0] = b
                /\ \A k \in 1..n : it[k] = Decrement(it[k - 1], f[k].order, f[k].lots)
                /\ FillAll(b, f) = it[n]
  BY FillAllIs DEF Fillable
<1> DEFINE G == {k \in Nat : k <= n => Filled(b, it[k], f, k)}
<1>2. 0 \in G
  <2>1. \A i \in 1..0 : FALSE
    OBVIOUS
  <2>2. Filled(b, it[0], f, 0)
    BY <1>1, <2>1 DEF Filled
  <2> QED BY <2>2
<1>3. ASSUME NEW k \in Nat, k \in G PROVE k + 1 \in G
  <2> SUFFICES ASSUME k + 1 <= n PROVE Filled(b, it[k + 1], f, k + 1)
    OBVIOUS
  <2> DEFINE c == it[k]
             o == f[k + 1].order
             m == f[k + 1].lots
             d == Decrement(c, o, m)
  <2>1. k + 1 \in 1..n /\ k <= n /\ (k + 1) - 1 = k
    OBVIOUS
  <2>2. it[k + 1] = d
    BY <1>1, <2>1
  <2>3. Filled(b, c, f, k)
    BY <1>3, <2>1
  <2>4. /\ o \in b.orders /\ m \in Nat /\ 0 < m /\ m <= o.size
        /\ \A i \in 1..k : f[i].order # o
    <3>1. \A i \in 1..k : i \in 1..n /\ i # k + 1
      BY <2>1
    <3> QED BY <2>1, <3>1 DEF Fillable
  <2>5. \A i : i \in 1..(k + 1) <=> i \in 1..k \/ i = k + 1
    OBVIOUS
  <2>6. f[k + 1].order = o /\ f[k + 1].lots = m
    OBVIOUS
  <2> HIDE DEF c, o, m, d
  <2>7. o \in c.orders /\ Good(c) /\ c.seq = b.seq /\ c.nodes = b.nodes
    BY <2>3, <2>4 DEF Filled
  <2>8. /\ Good(d) /\ d.seq = c.seq /\ d.nodes = c.nodes
        /\ d.orders = (c.orders \ {o}) \cup (IF m = o.size THEN {} ELSE {Shrunk(o, m)})
    BY <2>4, <2>7, DecrementGood DEF d
  <2>9. ASSUME NEW y \in b.orders, \A i \in 1..(k + 1) : f[i].order # y PROVE y \in d.orders
    <3>1. y # o /\ \A i \in 1..k : f[i].order # y
      BY <2>5, <2>6, <2>9
    <3>2. y \in c.orders
      BY <2>3, <3>1 DEF Filled
    <3> QED BY <2>8, <3>1, <3>2
  <2>10. ASSUME NEW x \in d.orders
         PROVE  \/ x \in b.orders /\ \A i \in 1..(k + 1) : f[i].order # x
                \/ \E i \in 1..(k + 1) : /\ f[i].lots < f[i].order.size
                                         /\ x = Shrunk(f[i].order, f[i].lots)
    <3>1. CASE x \in c.orders /\ x # o
      <4>1. \/ x \in b.orders /\ \A i \in 1..k : f[i].order # x
            \/ \E i \in 1..k : /\ f[i].lots < f[i].order.size
                               /\ x = Shrunk(f[i].order, f[i].lots)
        BY <2>3, <3>1 DEF Filled
      <4> QED BY <2>5, <2>6, <3>1, <4>1
    <3>2. CASE x = Shrunk(o, m) /\ m # o.size
      <4>1. o.size \in Nat
        BY <2>4, GoodParts, OrderFields
      <4>2. m < o.size
        BY <2>4, <3>2, <4>1
      <4> QED BY <2>5, <2>6, <3>2, <4>2
    <3> QED BY <2>8, <3>1, <3>2
  <2>11. Filled(b, d, f, k + 1)
    BY <2>7, <2>8, <2>9, <2>10 DEF Filled
  <2> QED BY <2>2, <2>11
<1> HIDE DEF G
<1>4. n \in G
  BY <1>2, <1>3, NatInduct
<1> QED BY <1>1, <1>4 DEF G

-----------------------------------------------------------------------------
(* The order in which a side is visited.                                   *)
Rank(S, o) == Cardinality({x \in S : Id(x) < Id(o)})

(* q lists S, every order once, by ascending id.                           *)
Lists(S, q, n) ==
    /\ n \in Nat /\ DOMAIN q = 1..n
    /\ \A i \in 1..n : q[i] \in S
    /\ \A o \in S : \E i \in 1..n : q[i] = o
    /\ \A i, j \in 1..n : i < j => Id(q[i]) < Id(q[j])
    /\ \A i, j \in 1..n : q[i] = q[j] => i = j

LEMMA RankGrows ==
    ASSUME NEW S, IsFiniteSet(S), DistinctIds(S), NEW x \in S, NEW y \in S, Id(x) < Id(y)
    PROVE  Rank(S, x) \in Nat /\ Rank(S, y) \in Nat /\ Rank(S, x) < Rank(S, y)
<1> DEFINE A == {z \in S : Id(z) < Id(x)}
           B == {z \in S : Id(z) < Id(y)}
<1>0. \A z \in S : Id(z) \in Nat
  BY DEF DistinctIds
<1>1. A \cup {x} \in SUBSET B /\ B \in SUBSET S /\ A \in SUBSET S
  BY <1>0
<1>2. x \notin A
  BY <1>0
<1>3. Rank(S, x) = Cardinality(A) /\ Rank(S, y) = Cardinality(B)
  BY DEF Rank
<1> HIDE DEF A, B
<1>4. IsFiniteSet(A) /\ IsFiniteSet(B)
  BY <1>1, FS_Subset
<1>5. Cardinality(A) \in Nat /\ Cardinality(B) \in Nat
  BY <1>4, FS_CardinalityType
<1>6. Cardinality(A \cup {x}) = Cardinality(A) + 1
  BY <1>2, <1>4, FS_AddElement
<1>7. Cardinality(A \cup {x}) <= Cardinality(B)
  BY <1>1, <1>4, FS_Subset
<1> QED BY <1>3, <1>5, <1>6, <1>7

LEMMA RanksFill ==
    ASSUME NEW S, IsFiniteSet(S), DistinctIds(S), NEW n, n = Cardinality(S)
    PROVE  /\ n \in Nat
           /\ \A o \in S : Rank(S, o) \in 0..(n - 1)
           /\ \A k \in 0..(n - 1) : \E o \in S : Rank(S, o) = k
<1> DEFINE r == [o \in S |-> Rank(S, o)]
           T == 0..(n - 1)
<1>0. n \in Nat
  BY FS_CardinalityType
<1>1. ASSUME NEW o \in S PROVE Rank(S, o) \in T
  <2> DEFINE A == {z \in S : Id(z) < Id(o)}
  <2>1. A \in SUBSET S /\ o \notin A
    BY DEF DistinctIds
  <2>2. Rank(S, o) = Cardinality(A)
    BY DEF Rank
  <2> HIDE DEF A
  <2>3. IsFiniteSet(A) /\ Cardinality(A) <= n /\ Cardinality(A) # n
    BY <2>1, FS_Subset
  <2>4. Cardinality(A) \in Nat
    BY <2>3, FS_CardinalityType
  <2> QED BY <1>0, <2>2, <2>3, <2>4
<1>2. ASSUME NEW x \in S, NEW y \in S, Rank(S, x) = Rank(S, y) PROVE x = y
  <2>1. ~(Id(x) < Id(y)) /\ ~(Id(y) < Id(x))
    <3>1. ASSUME Id(x) < Id(y) PROVE FALSE
      <4>1. Rank(S, x) \in Nat /\ Rank(S, x) < Rank(S, y)
        BY <3>1, RankGrows
      <4> QED BY <1>2, <4>1
    <3>2. ASSUME Id(y) < Id(x) PROVE FALSE
      <4>1. Rank(S, y) \in Nat /\ Rank(S, y) < Rank(S, x)
        BY <3>2, RankGrows
      <4> QED BY <1>2, <4>1
    <3> QED BY <3>1, <3>2
  <2>2. Id(x) \in Nat /\ Id(y) \in Nat
    BY DEF DistinctIds
  <2>3. Id(x) = Id(y)
    BY <2>1, <2>2
  <2> QED BY <2>3 DEF DistinctIds
<1>3. r \in Injection(S, T)
  <2>1. r \in [S -> T]
    BY <1>1
  <2>2. \A x, y \in S : r[x] = r[y] => x = y
    BY <1>2
  <2> HIDE DEF r, T
  <2> QED BY <2>1, <2>2 DEF Injection, IsInjective
<1>4. IsFiniteSet(T) /\ Cardinality(T) = n
  <2>1. 0 \in Int /\ n - 1 \in Int
    BY <1>0
  <2>2. IsFiniteSet(0..(n - 1)) /\ Cardinality(0..(n - 1)) = IF 0 > n - 1 THEN 0 ELSE (n - 1) - 0 + 1
    BY <2>1, FS_Interval
  <2> QED BY <1>0, <2>2
<1> HIDE DEF r, T
<1>5. r \in Surjection(S, T)
  BY <1>3, <1>4, FS_Injection
<1>6. \A k \in T : \E o \in S : r[o] = k
  BY <1>5 DEF Surjection
<1> QED BY <1>0, <1>1, <1>6 DEF r, T

LEMMA InIdOrderLists ==
    ASSUME NEW S, IsFiniteSet(S), DistinctIds(S), NEW q, q = InIdOrder(S),
           NEW n, n = Cardinality(S)
    PROVE  Lists(S, q, n)
<1>1. /\ n \in Nat
      /\ \A o \in S : Rank(S, o) \in 0..(n - 1)
      /\ \A k \in 0..(n - 1) : \E o \in S : Rank(S, o) = k
  BY RanksFill
<1>2. q = [i \in 1..n |-> CHOOSE o \in S : Rank(S, o) = i - 1]
  BY DEF InIdOrder, Rank
<1>3. ASSUME NEW i \in 1..n PROVE q[i] \in S /\ Rank(S, q[i]) = i - 1
  <2>1. i - 1 \in 0..(n - 1)
    BY <1>1
  <2>2. \E o \in S : Rank(S, o) = i - 1
    BY <1>1, <2>1
  <2>3. q[i] = CHOOSE o \in S : Rank(S, o) = i - 1
    BY <1>2
  <2> QED BY <2>2, <2>3
<1>4. ASSUME NEW i \in 1..n, NEW j \in 1..n, i < j PROVE Id(q[i]) < Id(q[j])
  <2>1. q[i] \in S /\ q[j] \in S /\ Rank(S, q[i]) = i - 1 /\ Rank(S, q[j]) = j - 1
    BY <1>3
  <2>2. Id(q[i]) \in Nat /\ Id(q[j]) \in Nat
    BY <2>1 DEF DistinctIds
  <2>3. ~(Id(q[j]) < Id(q[i]))
    <3>1. SUFFICES ASSUME Id(q[j]) < Id(q[i]) PROVE FALSE
      OBVIOUS
    <3>2. Rank(S, q[j]) < Rank(S, q[i])
      BY <2>1, <3>1, RankGrows
    <3> QED BY <1>4, <2>1, <3>2
  <2>4. Id(q[i]) # Id(q[j])
    <3>1. SUFFICES ASSUME Id(q[i]) = Id(q[j]) PROVE FALSE
      OBVIOUS
    <3>2. q[i] = q[j]
      BY <2>1, <3>1 DEF DistinctIds
    <3> QED BY <1>4, <2>1, <3>2
  <2> QED BY <2>2, <2>3, <2>4
<1>5. ASSUME NEW i \in 1..n, NEW j \in 1..n, q[i] = q[j] PROVE i = j
  <2>1. i - 1 = j - 1
    BY <1>3, <1>5
  <2> QED BY <2>1
<1>6. ASSUME NEW o \in S PROVE \E i \in 1..n : q[i] = o
  <2> DEFINE i == Rank(S, o) + 1
  <2>1. i \in 1..n /\ Rank(S, o) = i - 1
    BY <1>1
  <2>2. q[i] \in S /\ Rank(S, q[i]) = Rank(S, o)
    BY <1>3, <2>1
  <2>3. Id(q[i]) \in Nat /\ Id(o) \in Nat
    BY <2>2 DEF DistinctIds
  <2>4. ~(Id(q[i]) < Id(o)) /\ ~(Id(o) < Id(q[i]))
    <3>1. \A x, y \in S : Id(x) < Id(y) => Rank(S, x) \in Nat /\ Rank(S, x) < Rank(S, y)
      BY RankGrows
    <3>2. Rank(S, o) \in Nat
      BY <1>1
    <3> HIDE DEF i
    <3> QED BY <2>2, <3>1, <3>2
  <2>5. q[i] = o
    BY <2>2, <2>3, <2>4 DEF DistinctIds
  <2> QED BY <2>1, <2>5
<1>7. DOMAIN q = 1..n
  BY <1>2
<1> QED BY <1>1, <1>3, <1>4, <1>5, <1>6, <1>7 DEF Lists

-----------------------------------------------------------------------------
(* One step of the matching walk.                                          *)
FillType == [order : OrderType, lots : Nat]
WalkState ==
    [left : Nat, fills : Seq(FillType), cancels : Seq(OrderType), red : [Traders -> Nat],
     scanned : Nat, truncated : BOOLEAN, aborted : BOOLEAN, done : BOOLEAN]

(* What the walk found so far is as before.                                *)
SameFinds(w, v) == v.fills = w.fills /\ v.left = w.left /\ v.cancels = w.cancels

Stops(w, v, o, limit) ==
    /\ ~w.done /\ v.done /\ SameFinds(w, v)
    /\ v.truncated \/ v.aborted \/ w.left = 0 \/ ~Crosses(limit, o)
Passes(w, v, o, t) ==
    /\ ~w.done /\ ~v.done /\ SameFinds(w, v)
    /\ Expired(o) \/ o.trader = t \/ o.ro
CancelsOwn(w, v, o, t) ==
    /\ ~w.done /\ ~v.done /\ o.trader = t
    /\ v.fills = w.fills /\ v.left = w.left /\ v.cancels = Append(w.cancels, o)
Matches(w, v, o, t, limit, m) ==
    /\ ~w.done /\ ~v.done /\ w.left > 0
    /\ o.trader # t /\ Crosses(limit, o) /\ ~Expired(o)
    /\ 0 < m /\ m <= o.size /\ m <= w.left
    /\ ~o.ro => m = o.size \/ m = w.left
    /\ v.fills = Append(w.fills, [order |-> o, lots |-> m])
    /\ v.left = w.left - m /\ v.cancels = w.cancels

LEMMA WalkFields ==
    ASSUME NEW w \in WalkState
    PROVE  /\ w = [left |-> w.left, fills |-> w.fills, cancels |-> w.cancels, red |-> w.red,
                   scanned |-> w.scanned, truncated |-> w.truncated, aborted |-> w.aborted,
                   done |-> w.done]
           /\ w.left \in Nat /\ w.fills \in Seq(FillType) /\ w.cancels \in Seq(OrderType)
           /\ w.red \in [Traders -> Nat] /\ w.scanned \in Nat
           /\ w.truncated \in BOOLEAN /\ w.aborted \in BOOLEAN /\ w.done \in BOOLEAN
BY DEF WalkState

LEMMA CappedBounds ==
    ASSUME NEW w \in WalkState, NEW o \in OrderType, w.left > 0
    PROVE  /\ Capped(w, o) \in Nat /\ Capped(w, o) <= o.size /\ Capped(w, o) <= w.left
           /\ o.ro => Capped(w, o) <= w.red[o.trader] /\ w.red[o.trader] \in Nat
           /\ ~o.ro => Capped(w, o) > 0 /\ (Capped(w, o) = o.size \/ Capped(w, o) = w.left)
<1> DEFINE size == o.size
           left == w.left
           r == w.red[o.trader]
           fill == Min({size, left})
<1>1. size \in Nat \ {0} /\ left \in Nat /\ r \in Nat
  BY OrderFields, WalkFields
<1>2. fill = IF size <= left THEN size ELSE left
  BY <1>1, MinOfTwo
<1>3. fill \in Int
  BY <1>1, <1>2
<1>4. Capped(w, o) = IF o.ro THEN Min({fill, r}) ELSE fill
  BY DEF Capped
<1> HIDE DEF size, left, r, fill
<1>5. Min({fill, r}) = IF fill <= r THEN fill ELSE r
  BY <1>1, <1>3, MinOfTwo
<1>6. left > 0
  BY DEF left
<1>7. CASE o.ro
  <2> DEFINE m == Capped(w, o)
  <2> HIDE DEF m
  <2>1. m = IF fill <= r THEN fill ELSE r
    BY <1>4, <1>5, <1>7 DEF m
  <2>2. m \in Nat /\ m <= size /\ m <= left /\ m <= r
    BY <1>1, <1>2, <2>1
  <2> QED BY <1>1, <1>7, <2>2 DEF m, size, left, r
<1>8. CASE ~o.ro
  <2> DEFINE m == Capped(w, o)
  <2> HIDE DEF m
  <2>1. m = fill
    BY <1>4, <1>8 DEF m
  <2>2. m \in Nat /\ m <= size /\ m <= left /\ m > 0 /\ (m = size \/ m = left)
    BY <1>1, <1>2, <1>6, <2>1
  <2> QED BY <1>8, <2>2 DEF m, size, left
<1> QED BY <1>7, <1>8

(* The match itself.                                                       *)
LEMMA MeetOtherIs ==
    ASSUME NEW w \in WalkState, NEW o \in OrderType, w.left > 0, ~w.done,
           NEW t, NEW limit, o.trader # t, Crosses(limit, o), ~Expired(o),
           NEW v, v = MeetOther(w, o)
    PROVE  v \in WalkState /\ (Passes(w, v, o, t) \/ \E m \in Nat : Matches(w, v, o, t, limit, m))
<1> DEFINE m == Capped(w, o)
           p == o.trader
           r == IF o.ro THEN w.red[p] - m ELSE w.red[p]
           fills == Append(w.fills, [order |-> o, lots |-> m])
           left == w.left - m
<1>1. /\ m \in Nat /\ m <= o.size /\ m <= w.left
      /\ o.ro => m <= w.red[p] /\ w.red[p] \in Nat
      /\ ~o.ro => m > 0 /\ (m = o.size \/ m = w.left)
  BY CappedBounds
<1>2. p \in Traders /\ o.size \in Nat
  BY OrderFields
<1>3. CASE m = 0
  <2>1. v = w
    BY <1>3 DEF MeetOther
  <2>2. o.ro
    BY <1>1, <1>3
  <2> QED BY <2>1, <2>2 DEF Passes, SameFinds
<1>4. CASE m # 0
  <2>1. v = [w EXCEPT !.fills = fills, !.left = left, !.red[p] = r]
    BY <1>4 DEF MeetOther
  <2>2. w.red \in [Traders -> Nat] /\ w.red[p] \in Nat /\ w.left \in Nat
    BY <1>2, WalkFields
  <2>3. r \in Nat /\ left \in Nat
    BY <1>1, <2>2
  <2>4. fills \in Seq(FillType)
    <3>1. [order |-> o, lots |-> m] \in FillType
      BY <1>1 DEF FillType
    <3>2. w.fills \in Seq(FillType)
      BY WalkFields
    <3> QED BY <3>1, <3>2
  <2>5. Matches(w, v, o, t, limit, m) /\ v \in WalkState
    <3> HIDE DEF fills, left, r, p, m
    <3>1. v = [left |-> left, fills |-> fills, cancels |-> w.cancels, red |-> [w.red EXCEPT ![p] = r],
               scanned |-> w.scanned, truncated |-> w.truncated, aborted |-> w.aborted,
               done |-> w.done]
      BY <1>2, <2>1 DEF WalkState
    <3>2. [w.red EXCEPT ![p] = r] \in [Traders -> Nat]
      BY <2>2, <2>3
    <3>3. v \in WalkState
      BY <2>3, <2>4, <3>1, <3>2, WalkFields DEF WalkState
    <3>4. v.fills = fills /\ v.left = left /\ v.cancels = w.cancels /\ v.done = w.done
      BY <3>1
    <3>5. 0 < m
      BY <1>1, <1>4
    <3>6. Matches(w, v, o, t, limit, m)
      BY <1>1, <3>4, <3>5 DEF Matches, fills, left
    <3> QED BY <3>3, <3>6
  <2> QED BY <1>1, <2>5
<1> QED BY <1>3, <1>4

WalkMoves(w, v, o, t, limit) ==
    \/ w.done /\ v = w
    \/ Stops(w, v, o, limit)
    \/ Passes(w, v, o, t)
    \/ CancelsOwn(w, v, o, t)
    \/ \E m \in Nat : Matches(w, v, o, t, limit, m)

LEMMA WalkStepIs ==
    ASSUME NEW w \in WalkState, NEW o \in OrderType, NEW t, NEW limit,
           NEW stp \in {"skip", "oldest", "both"},
           NEW v, v = WalkStep(w, o, t, limit, stp)
    PROVE  v \in WalkState /\ WalkMoves(w, v, o, t, limit)
<1> DEFINE seen == [w EXCEPT !.scanned = @ + 1]
           full == seen.scanned > WalkLimit * ScanFactor \/ Len(w.fills) >= WalkLimit
<1>1. seen \in WalkState /\ SameFinds(w, seen) /\ seen.done = w.done
  <2>1. w.scanned + 1 \in Nat
    BY WalkFields
  <2> DEFINE n == w.scanned + 1
  <2> HIDE DEF n
  <2>2. seen = [w EXCEPT !.scanned = n] /\ n \in Nat
    BY <2>1 DEF n
  <2> DEFINE x == seen
  <2> HIDE DEF seen
  <2> QED BY <2>2 DEF WalkState, SameFinds
<1>2. v = IF w.done THEN w
          ELSE IF full THEN [seen EXCEPT !.truncated = TRUE, !.done = TRUE]
          ELSE IF w.left = 0 \/ ~Crosses(limit, o) THEN [seen EXCEPT !.done = TRUE]
          ELSE IF Expired(o) THEN seen
          ELSE IF o.trader = t THEN MeetOwn(seen, o, stp)
          ELSE MeetOther(seen, o)
  BY DEF WalkStep
<1> HIDE DEF seen, full
<1>3. CASE w.done
  BY <1>2, <1>3 DEF WalkMoves
<1>4. CASE ~w.done /\ full
  <2>1. v = [seen EXCEPT !.truncated = TRUE, !.done = TRUE]
    BY <1>2, <1>4
  <2>2. /\ v \in WalkState /\ v.fills = seen.fills /\ v.left = seen.left
        /\ v.cancels = seen.cancels /\ v.truncated /\ v.done
    BY <1>1, <2>1 DEF WalkState
  <2>3. Stops(w, v, o, limit)
    BY <1>1, <1>4, <2>2 DEF Stops, SameFinds
  <2> QED BY <2>2, <2>3 DEF WalkMoves
<1>5. CASE ~w.done /\ ~full /\ (w.left = 0 \/ ~Crosses(limit, o))
  <2>1. v = [seen EXCEPT !.done = TRUE]
    BY <1>2, <1>5
  <2>2. /\ v \in WalkState /\ v.fills = seen.fills /\ v.left = seen.left
        /\ v.cancels = seen.cancels /\ v.done
    BY <1>1, <2>1 DEF WalkState
  <2>3. Stops(w, v, o, limit)
    BY <1>1, <1>5, <2>2 DEF Stops, SameFinds
  <2> QED BY <2>2, <2>3 DEF WalkMoves
<1>6. CASE ~w.done /\ ~full /\ w.left # 0 /\ Crosses(limit, o) /\ Expired(o)
  <2>1. v = seen
    BY <1>2, <1>6
  <2>2. Passes(w, v, o, t)
    BY <1>1, <1>6, <2>1 DEF Passes
  <2> QED BY <1>1, <2>1, <2>2 DEF WalkMoves
<1>7. CASE ~w.done /\ ~full /\ w.left # 0 /\ Crosses(limit, o) /\ ~Expired(o) /\ o.trader = t
  <2>1. v = MeetOwn(seen, o, stp)
    BY <1>2, <1>7
  <2>2. CASE stp = "oldest"
    <3> DEFINE more == Append(seen.cancels, o)
    <3>1. v = [seen EXCEPT !.cancels = more]
      BY <2>1, <2>2 DEF MeetOwn
    <3>2. more \in Seq(OrderType)
      <4>1. seen.cancels \in Seq(OrderType)
        BY <1>1, WalkFields
      <4> QED BY <4>1
    <3>3. /\ v \in WalkState /\ v.fills = seen.fills /\ v.left = seen.left
          /\ v.cancels = more /\ v.done = seen.done
      <4> HIDE DEF more
      <4> QED BY <1>1, <3>1, <3>2 DEF WalkState
    <3>4. CancelsOwn(w, v, o, t)
      BY <1>1, <1>7, <3>3 DEF CancelsOwn, SameFinds
    <3> QED BY <3>3, <3>4 DEF WalkMoves
  <2>3. CASE stp = "both"
    <3>1. v = [seen EXCEPT !.aborted = TRUE, !.done = TRUE]
      BY <2>1, <2>3 DEF MeetOwn
    <3>2. /\ v \in WalkState /\ v.fills = seen.fills /\ v.left = seen.left
          /\ v.cancels = seen.cancels /\ v.aborted /\ v.done
      BY <1>1, <3>1 DEF WalkState
    <3>3. Stops(w, v, o, limit)
      BY <1>1, <1>7, <3>2 DEF Stops, SameFinds
    <3> QED BY <3>2, <3>3 DEF WalkMoves
  <2>4. CASE stp = "skip"
    <3>1. v = seen
      BY <2>1, <2>4 DEF MeetOwn
    <3>2. Passes(w, v, o, t)
      BY <1>1, <1>7, <3>1 DEF Passes
    <3> QED BY <1>1, <3>1, <3>2 DEF WalkMoves
  <2> QED BY <2>2, <2>3, <2>4
<1>8. CASE ~w.done /\ ~full /\ w.left # 0 /\ Crosses(limit, o) /\ ~Expired(o) /\ o.trader # t
  <2>1. v = MeetOther(seen, o)
    BY <1>2, <1>8
  <2>2. seen.left > 0 /\ ~seen.done
    <3>1. w.left \in Nat
      BY WalkFields
    <3> QED BY <1>1, <1>8, <3>1 DEF SameFinds
  <2>3. v \in WalkState /\ (Passes(seen, v, o, t) \/ \E m \in Nat : Matches(seen, v, o, t, limit, m))
    BY <1>1, <1>8, <2>1, <2>2, MeetOtherIs
  <2>4. Passes(seen, v, o, t) => Passes(w, v, o, t)
    BY <1>1 DEF Passes, SameFinds
  <2>5. \A m \in Nat : Matches(seen, v, o, t, limit, m) => Matches(w, v, o, t, limit, m)
    BY <1>1 DEF Matches, SameFinds
  <2> QED BY <2>3, <2>4, <2>5 DEF WalkMoves
<1>9. w.done \in BOOLEAN
  BY WalkFields
<1> QED BY <1>3, <1>4, <1>5, <1>6, <1>7, <1>8

-----------------------------------------------------------------------------
(* What the walk has found after the first k orders of q.                  *)
CancelsSeen(w, q, k, t) ==
    /\ \A i \in 1..Len(w.cancels) : w.cancels[i].trader = t /\ \E j \in 1..k : w.cancels[i] = q[j]
    /\ \A i, j \in 1..Len(w.cancels) : w.cancels[i] = w.cancels[j] => i = j

FairFill(f, t, limit) ==
    /\ f.order.trader # t /\ Crosses(limit, f.order) /\ ~Expired(f.order)
    /\ 0 < f.lots /\ f.lots <= f.order.size
FillsSeen(w, q, k, t, limit) ==
    /\ \A i \in 1..Len(w.fills) : FairFill(w.fills[i], t, limit) /\ \E j \in 1..k : w.fills[i].order = q[j]
    /\ \A i, j \in 1..Len(w.fills) : w.fills[i].order = w.fills[j].order => i = j

(* An order the taker could not pass over has given all its lots.          *)
FullyFilled(f, o) == \E i \in 1..Len(f) : f[i].order = o /\ f[i].lots = o.size
AllMet(f, q, l, t, limit) == \A j \in 1..l : MustMeet(t, limit, q[j]) => FullyFilled(f, q[j])

MetSoFar(w, q, k, t, limit) == ~w.done /\ w.left > 0 => AllMet(w.fills, q, k, t, limit)
MetBefore(w, q, k, t, limit) ==
    \A i \in 1..Len(w.fills), l \in 1..k :
        w.fills[i].order = q[l] => AllMet(w.fills, q, l - 1, t, limit)
StoppedAt(w, q, k, t, limit) ==
    w.done /\ ~w.truncated /\ ~w.aborted /\ w.left > 0 =>
        \E l \in 1..k : ~Crosses(limit, q[l]) /\ AllMet(w.fills, q, l - 1, t, limit)
PartialLast(w) ==
    \A i \in 1..Len(w.fills) :
        ~w.fills[i].order.ro /\ w.fills[i].lots < w.fills[i].order.size => w.left = 0

WalkInv(w, q, k, t, limit) ==
    /\ w \in WalkState
    /\ CancelsSeen(w, q, k, t)
    /\ FillsSeen(w, q, k, t, limit)
    /\ MetSoFar(w, q, k, t, limit)
    /\ MetBefore(w, q, k, t, limit)
    /\ StoppedAt(w, q, k, t, limit)
    /\ PartialLast(w)

LEMMA AppendIs ==
    ASSUME NEW T, NEW f \in Seq(T), NEW e \in T, NEW g, g = Append(f, e), NEW n, n = Len(f)
    PROVE  /\ n \in Nat /\ Len(g) = n + 1 /\ g[n + 1] = e
           /\ \A i \in 1..n : g[i] = f[i]
           /\ \A i : i \in 1..(n + 1) <=> i \in 1..n \/ i = n + 1
<1>1. n \in Nat
  OBVIOUS
<1>2. Len(g) = n + 1 /\ g[n + 1] = e /\ \A i \in 1..n : g[i] = f[i]
  OBVIOUS
<1>3. \A i : i \in 1..(n + 1) <=> i \in 1..n \/ i = n + 1
  BY <1>1
<1> QED BY <1>1, <1>2, <1>3

LEMMA NextUpTo ==
    ASSUME NEW k \in Nat
    PROVE  /\ \A i : i \in 1..(k + 1) <=> i \in 1..k \/ i = k + 1
           /\ \A i \in 1..k : i # k + 1
           /\ k + 1 \in 1..(k + 1)
OBVIOUS

(* A move that adds no fill and takes no lots.                             *)
LEMMA WalkKeepsFills ==
    ASSUME NEW q, NEW n, NEW S, Lists(S, q, n), NEW k \in Nat, k + 1 <= n, NEW t, NEW limit,
           NEW w, WalkInv(w, q, k, t, limit), NEW v \in WalkState,
           v.fills = w.fills, v.left = w.left
    PROVE  /\ FillsSeen(v, q, k + 1, t, limit)
           /\ MetBefore(v, q, k + 1, t, limit)
           /\ PartialLast(v)
<1>1. FillsSeen(v, q, k + 1, t, limit)
  <2>1. FillsSeen(w, q, k, t, limit)
    BY DEF WalkInv
  <2>2. \A j \in 1..k : j \in 1..(k + 1)
    BY NextUpTo
  <2>3. ASSUME NEW i \in 1..Len(v.fills)
        PROVE  FairFill(v.fills[i], t, limit) /\ \E j \in 1..(k + 1) : v.fills[i].order = q[j]
    BY <2>1, <2>2 DEF FillsSeen
  <2>4. \A i, j \in 1..Len(v.fills) : v.fills[i].order = v.fills[j].order => i = j
    BY <2>1 DEF FillsSeen
  <2> QED BY <2>3, <2>4 DEF FillsSeen
<1>2. PartialLast(v)
  BY DEF WalkInv, PartialLast
<1>3. ASSUME NEW i \in 1..Len(v.fills), NEW l \in 1..(k + 1), v.fills[i].order = q[l]
      PROVE  AllMet(v.fills, q, l - 1, t, limit)
  <2>1. PICK j \in 1..k : w.fills[i].order = q[j]
    BY <1>3 DEF WalkInv, FillsSeen
  <2>2. j \in 1..n /\ l \in 1..n
    BY DEF Lists
  <2>3. j = l
    BY <1>3, <2>1, <2>2 DEF Lists
  <2> QED BY <1>3, <2>3 DEF WalkInv, MetBefore
<1> QED BY <1>1, <1>2, <1>3 DEF MetBefore

LEMMA CancelsKept ==
    ASSUME NEW q, NEW k \in Nat, NEW t, NEW w, CancelsSeen(w, q, k, t), NEW v,
           v.cancels = w.cancels
    PROVE  CancelsSeen(v, q, k + 1, t)
BY NextUpTo DEF CancelsSeen

LEMMA WalkInvStep ==
    ASSUME NEW q, NEW n, NEW S, S \subseteq OrderType, Lists(S, q, n),
           NEW k \in Nat, k + 1 <= n, NEW t, NEW limit,
           NEW w, WalkInv(w, q, k, t, limit), NEW v \in WalkState,
           WalkMoves(w, v, q[k + 1], t, limit)
    PROVE  WalkInv(v, q, k + 1, t, limit)
<1> DEFINE o == q[k + 1]
<1>1. n \in Nat /\ k + 1 \in 1..n /\ o \in S /\ o \in OrderType
  <2>1. n \in Nat /\ k + 1 \in 1..n
    BY DEF Lists
  <2> QED BY <2>1 DEF Lists
<1>2. w \in WalkState /\ CancelsSeen(w, q, k, t)
  BY DEF WalkInv
<1>3. \A j \in 1..k : q[j] # o
  <2>1. \A j \in 1..k : j \in 1..n /\ j # k + 1
    BY <1>1
  <2> QED BY <1>1, <2>1 DEF Lists
<1> HIDE DEF o
<1>4. CASE w.done /\ v = w
  <2>1. FillsSeen(v, q, k + 1, t, limit) /\ MetBefore(v, q, k + 1, t, limit) /\ PartialLast(v)
    BY <1>4, WalkKeepsFills
  <2>2. CancelsSeen(v, q, k + 1, t)
    BY <1>2, <1>4, CancelsKept
  <2>3. StoppedAt(v, q, k + 1, t, limit)
    BY <1>4, NextUpTo DEF WalkInv, StoppedAt
  <2>4. MetSoFar(v, q, k + 1, t, limit)
    BY <1>4 DEF MetSoFar
  <2> QED BY <2>1, <2>2, <2>3, <2>4 DEF WalkInv
<1>5. CASE Stops(w, v, o, limit)
  <2>1. FillsSeen(v, q, k + 1, t, limit) /\ MetBefore(v, q, k + 1, t, limit) /\ PartialLast(v)
    BY <1>5, WalkKeepsFills DEF Stops, SameFinds
  <2>2. CancelsSeen(v, q, k + 1, t)
    BY <1>2, <1>5, CancelsKept DEF Stops, SameFinds
  <2>3. MetSoFar(v, q, k + 1, t, limit)
    BY <1>5 DEF MetSoFar, Stops
  <2>4. StoppedAt(v, q, k + 1, t, limit)
    <3> SUFFICES ASSUME ~v.truncated, ~v.aborted, v.left > 0
                 PROVE  \E l \in 1..(k + 1) : ~Crosses(limit, q[l]) /\ AllMet(v.fills, q, l - 1, t, limit)
      BY DEF StoppedAt
    <3>1. v.left = w.left /\ v.fills = w.fills /\ w.left \in Nat /\ ~w.done
      BY <1>2, <1>5, WalkFields DEF Stops, SameFinds
    <3>2. ~Crosses(limit, o)
      BY <1>5, <3>1 DEF Stops
    <3>3. AllMet(w.fills, q, k, t, limit)
      BY <3>1 DEF WalkInv, MetSoFar
    <3>4. (k + 1) - 1 = k
      OBVIOUS
    <3> QED BY <3>1, <3>2, <3>3, <3>4, NextUpTo DEF o
  <2> QED BY <2>1, <2>2, <2>3, <2>4 DEF WalkInv
<1>6. CASE Passes(w, v, o, t) \/ CancelsOwn(w, v, o, t)
  <2>0. /\ v.fills = w.fills /\ v.left = w.left /\ ~w.done /\ ~v.done
        /\ Expired(o) \/ o.trader = t \/ o.ro
    BY <1>6 DEF Passes, CancelsOwn, SameFinds
  <2>1. FillsSeen(v, q, k + 1, t, limit) /\ MetBefore(v, q, k + 1, t, limit) /\ PartialLast(v)
    BY <2>0, WalkKeepsFills
  <2>2. CancelsSeen(v, q, k + 1, t)
    <3>1. CASE Passes(w, v, o, t)
      BY <1>2, <3>1, CancelsKept DEF Passes, SameFinds
    <3>2. CASE CancelsOwn(w, v, o, t)
      <4> DEFINE c == w.cancels
                 d == v.cancels
                 m == Len(c)
      <4>1. c \in Seq(OrderType) /\ d = Append(c, o) /\ o.trader = t
        BY <1>2, <3>2, WalkFields DEF CancelsOwn
      <4>2. /\ \A i \in 1..m : c[i].trader = t /\ \E j \in 1..k : c[i] = q[j]
            /\ \A i, j \in 1..m : c[i] = c[j] => i = j
        BY <1>2 DEF CancelsSeen
      <4> HIDE DEF c, d
      <4>3. /\ m \in Nat /\ Len(d) = m + 1 /\ d[m + 1] = o
            /\ \A i \in 1..m : d[i] = c[i]
            /\ \A i : i \in 1..(m + 1) <=> i \in 1..m \/ i = m + 1
        BY <1>1, <4>1, AppendIs
      <4> HIDE DEF m
      <4>4. ASSUME NEW i \in 1..Len(d) PROVE d[i].trader = t /\ \E j \in 1..(k + 1) : d[i] = q[j]
        BY <4>1, <4>2, <4>3, NextUpTo DEF o
      <4>5. \A i \in 1..m : c[i] # o
        BY <1>3, <4>2
      <4>6. ASSUME NEW i \in 1..Len(d), NEW j \in 1..Len(d), d[i] = d[j] PROVE i = j
        BY <4>2, <4>3, <4>5, <4>6, SMTT(30)
      <4> QED BY <4>4, <4>6 DEF CancelsSeen, d
    <3> QED BY <1>6, <3>1, <3>2
  <2>3. StoppedAt(v, q, k + 1, t, limit)
    BY <2>0 DEF StoppedAt
  <2>4. MetSoFar(v, q, k + 1, t, limit)
    <3> SUFFICES ASSUME v.left > 0 PROVE AllMet(v.fills, q, k + 1, t, limit)
      BY DEF MetSoFar
    <3>1. AllMet(w.fills, q, k, t, limit)
      BY <2>0 DEF WalkInv, MetSoFar
    <3>2. ~MustMeet(t, limit, o)
      BY <2>0 DEF MustMeet
    <3> QED BY <2>0, <3>1, <3>2, NextUpTo DEF AllMet, o
  <2> QED BY <2>1, <2>2, <2>3, <2>4 DEF WalkInv
<1>7. CASE \E m \in Nat : Matches(w, v, o, t, limit, m)
  <2> PICK m \in Nat : Matches(w, v, o, t, limit, m)
    BY <1>7
  <2> DEFINE f == w.fills
             g == v.fills
             e == [order |-> o, lots |-> m]
             h == Len(f)
  <2>1. e \in FillType /\ e.order = o /\ e.lots = m
    BY <1>1 DEF FillType
  <2>2. f \in Seq(FillType) /\ g = Append(f, e)
    BY <1>2, WalkFields DEF Matches
  <2>3. /\ \A i \in 1..h : FairFill(f[i], t, limit) /\ \E j \in 1..k : f[i].order = q[j]
        /\ \A i, j \in 1..h : f[i].order = f[j].order => i = j
    BY DEF WalkInv, FillsSeen
  <2>4. FairFill(e, t, limit)
    BY <2>1 DEF Matches, FairFill
  <2>5. AllMet(f, q, k, t, limit)
    BY DEF Matches, WalkInv, MetSoFar
  <2>6. \A i \in 1..h, l \in 1..k : f[i].order = q[l] => AllMet(f, q, l - 1, t, limit)
    BY DEF WalkInv, MetBefore
  <2> HIDE DEF f, g, e
  <2>7. /\ h \in Nat /\ Len(g) = h + 1 /\ g[h + 1] = e
        /\ \A i \in 1..h : g[i] = f[i]
        /\ \A i : i \in 1..(h + 1) <=> i \in 1..h \/ i = h + 1
    BY <2>1, <2>2, AppendIs
  <2>8. \A x : FullyFilled(f, x) => FullyFilled(g, x)
    BY <2>7 DEF FullyFilled
  <2>9. ASSUME NEW l, AllMet(f, q, l, t, limit) PROVE AllMet(g, q, l, t, limit)
    <3> SUFFICES ASSUME NEW j \in 1..l, MustMeet(t, limit, q[j]) PROVE FullyFilled(g, q[j])
      BY DEF AllMet
    <3>1. FullyFilled(f, q[j])
      BY <2>9 DEF AllMet
    <3> QED BY <2>8, <3>1
  <2> HIDE DEF h
  <2>10. \A i \in 1..h : f[i].order # o
    BY <1>3, <2>3
  <2>11. FillsSeen(v, q, k + 1, t, limit)
    <3>1. ASSUME NEW i \in 1..Len(g)
          PROVE  FairFill(g[i], t, limit) /\ \E j \in 1..(k + 1) : g[i].order = q[j]
      BY <2>1, <2>3, <2>4, <2>7, NextUpTo DEF o
    <3>2. ASSUME NEW i \in 1..Len(g), NEW j \in 1..Len(g), g[i].order = g[j].order PROVE i = j
      BY <2>1, <2>3, <2>7, <2>10, <3>2, SMTT(30)
    <3> QED BY <3>1, <3>2 DEF FillsSeen, g
  <2>12. MetBefore(v, q, k + 1, t, limit)
    <3> SUFFICES ASSUME NEW i \in 1..Len(g), NEW l \in 1..(k + 1), g[i].order = q[l]
                 PROVE  AllMet(f, q, l - 1, t, limit)
      BY <2>9 DEF MetBefore, g
    <3>1. CASE i = h + 1
      <4>1. q[l] = o
        BY <2>1, <2>7, <3>1
      <4>2. l = k + 1
        BY <1>3, <4>1, NextUpTo
      <4>3. l - 1 = k
        BY <4>2
      <4> QED BY <2>5, <4>3
    <3>2. CASE i \in 1..h
      <4>1. f[i].order = q[l]
        BY <2>7, <3>2
      <4>2. q[l] # o
        BY <2>10, <3>2, <4>1
      <4>3. l \in 1..k
        BY <4>2, NextUpTo DEF o
      <4> QED BY <2>6, <3>2, <4>1, <4>3
    <3> QED BY <2>7, <3>1, <3>2
  <2>13. PartialLast(v)
    <3>1. w.left \in Nat /\ o.size \in Nat
      BY <1>1, <1>2, WalkFields, OrderFields
    <3>2. ASSUME NEW i \in 1..Len(g), ~g[i].order.ro, g[i].lots < g[i].order.size PROVE v.left = 0
      <4>1. CASE i = h + 1
        <5>1. ~o.ro /\ m < o.size
          BY <2>1, <2>7, <3>2, <4>1
        <5>2. m = w.left /\ v.left = w.left - m
          BY <3>1, <5>1 DEF Matches
        <5> QED BY <3>1, <5>2
      <4>2. CASE i \in 1..h
        <5>1. ~f[i].order.ro /\ f[i].lots < f[i].order.size
          BY <2>7, <3>2, <4>2
        <5>2. w.left = 0
          BY <4>2, <5>1 DEF WalkInv, PartialLast, f, h
        <5> QED BY <5>2 DEF Matches
      <4> QED BY <2>7, <4>1, <4>2
    <3> QED BY <3>2 DEF PartialLast, g
  <2>14. MetSoFar(v, q, k + 1, t, limit)
    <3> SUFFICES ASSUME v.left > 0 PROVE AllMet(g, q, k + 1, t, limit)
      BY DEF MetSoFar, g
    <3>1. AllMet(g, q, k, t, limit)
      BY <2>5, <2>9
    <3>2. ASSUME MustMeet(t, limit, o) PROVE FullyFilled(g, o)
      <4>1. ~o.ro /\ w.left \in Nat /\ v.left = w.left - m
        BY <1>2, <3>2, WalkFields DEF MustMeet, Matches
      <4>2. m = o.size
        BY <4>1 DEF Matches
      <4> QED BY <2>1, <2>7, <4>2 DEF FullyFilled
    <3> QED BY <3>1, <3>2, NextUpTo DEF AllMet, o
  <2>15. StoppedAt(v, q, k + 1, t, limit)
    BY DEF StoppedAt, Matches
  <2>16. CancelsSeen(v, q, k + 1, t)
    BY <1>2, CancelsKept DEF Matches
  <2> QED BY <2>11, <2>12, <2>13, <2>14, <2>15, <2>16 DEF WalkInv
<1> QED BY <1>4, <1>5, <1>6, <1>7 DEF WalkMoves, o

-----------------------------------------------------------------------------
(* The whole walk.                                                         *)

(* The cached best leads its side, so nothing is missed.                   *)
LEMMA BestFirstLists ==
    ASSUME NEW b, Good(b), NEW s \in Sides, NEW q, q = BestFirst(b, s),
           NEW n, n = Cardinality(Side(b, s))
    PROVE  Lists(Side(b, s), q, n)
<1> USE GoodParts
<1>1. Side(b, s) \in SUBSET b.orders
  BY DEF Side
<1>2. IsFiniteSet(Side(b, s))
  BY <1>1, FS_Subset
<1>3. DistinctIds(Side(b, s))
  BY <1>1 DEF DistinctIds
<1>4. Leads(b, s)
  BY DEF Good
<1>5. FromBest(b, s) = Side(b, s)
  BY <1>3, <1>4 DEF Leads, FromBest, DistinctIds
<1>6. q = InIdOrder(Side(b, s))
  BY <1>5 DEF BestFirst
<1> QED BY <1>2, <1>3, <1>6, InIdOrderLists

LEMMA WalkStarts ==
    ASSUME NEW size \in Nat, NEW red \in [Traders -> Nat], NEW q, NEW t, NEW limit,
           NEW w, w = WalkStart(size, red)
    PROVE  WalkInv(w, q, 0, t, limit)
<1>1. /\ w.left = size /\ w.fills = <<>> /\ w.cancels = <<>> /\ w.red = red
      /\ w.scanned = 0 /\ w.truncated = FALSE /\ w.aborted = FALSE /\ w.done = FALSE
  BY DEF WalkStart
<1>2. w \in WalkState
  BY DEF WalkStart, WalkState
<1>3. Len(w.fills) = 0 /\ Len(w.cancels) = 0
  BY <1>1
<1>4. \A i \in 1..0 : FALSE
  OBVIOUS
<1>5. CancelsSeen(w, q, 0, t) /\ FillsSeen(w, q, 0, t, limit)
  BY <1>3, <1>4 DEF CancelsSeen, FillsSeen
<1>6. MetSoFar(w, q, 0, t, limit) /\ MetBefore(w, q, 0, t, limit) /\ PartialLast(w)
  BY <1>3, <1>4 DEF MetSoFar, AllMet, MetBefore, PartialLast
<1>7. StoppedAt(w, q, 0, t, limit)
  BY <1>1 DEF StoppedAt
<1> QED BY <1>2, <1>5, <1>6, <1>7 DEF WalkInv

LEMMA WalkFinds ==
    ASSUME Good(book), NEW s \in Sides, NEW size \in Nat, NEW red \in [Traders -> Nat],
           NEW t, NEW limit, NEW stp \in {"skip", "oldest", "both"},
           NEW q, q = BestFirst(book, Opposite(s)),
           NEW n, n = Cardinality(Side(book, Opposite(s))),
           NEW w, w = Walk(t, s, size, limit, stp, red)
    PROVE  /\ Lists(Side(book, Opposite(s)), q, n)
           /\ WalkInv(w, q, n, t, limit)
<1> DEFINE S == Side(book, Opposite(s))
<1>1. Opposite(s) \in Sides
  BY DEF Opposite, Sides
<1>2. Lists(S, q, n)
  BY <1>1, BestFirstLists
<1>3. S \subseteq OrderType
  BY GoodParts DEF Side
<1>4. n \in Nat /\ DOMAIN q = 1..n
  BY <1>2 DEF Lists
<1> HIDE DEF S
<1>5. PICK it : /\ it[0] = WalkStart(size, red)
                /\ \A k \in 1..n : it[k] = WalkStep(it[k - 1], q[k], t, limit, stp)
                /\ w = it[n]
  <2>1. Walked(WalkStart(size, red), w, q, n, t, limit, stp)
    BY <1>4, WalkIs
  <2> QED BY <2>1 DEF Walked
<1> DEFINE G == {k \in Nat : k <= n => WalkInv(it[k], q, k, t, limit)}
<1>6. 0 \in G
  BY <1>5, WalkStarts
<1>7. ASSUME NEW k \in Nat, k \in G PROVE k + 1 \in G
  <2> SUFFICES ASSUME k + 1 <= n PROVE WalkInv(it[k + 1], q, k + 1, t, limit)
    OBVIOUS
  <2> DEFINE u == it[k]
             v == it[k + 1]
             o == q[k + 1]
  <2>1. k + 1 \in 1..n /\ (k + 1) - 1 = k /\ k <= n
    BY <1>4
  <2>2. v = WalkStep(u, o, t, limit, stp)
    BY <1>5, <2>1
  <2>3. WalkInv(u, q, k, t, limit)
    BY <1>7, <2>1
  <2>4. o \in OrderType
    BY <1>2, <1>3, <2>1 DEF Lists
  <2>5. u \in WalkState
    BY <2>3 DEF WalkInv
  <2> HIDE DEF u, v
  <2>6. v \in WalkState /\ WalkMoves(u, v, o, t, limit)
    BY <2>2, <2>4, <2>5, WalkStepIs
  <2>7. WalkInv(v, q, k + 1, t, limit)
    BY <1>2, <1>3, <2>3, <2>6, WalkInvStep
  <2> QED BY <2>7 DEF v
<1> HIDE DEF G
<1>8. n \in G
  BY <1>4, <1>6, <1>7, NatInduct
<1>9. WalkInv(w, q, n, t, limit)
  BY <1>4, <1>5, <1>8 DEF G
<1> QED BY <1>2, <1>9 DEF S

(* The book once the taker's own orders are cancelled and the matches are  *)
(* taken off it.                                                           *)
Served(b, c, w) ==
    /\ Good(c) /\ c.seq = b.seq + 1 /\ c.nodes = b.nodes
    /\ \A o \in b.orders :
          /\ \A i \in 1..Len(w.cancels) : w.cancels[i] # o
          /\ \A i \in 1..Len(w.fills) : w.fills[i].order # o
          => o \in c.orders
    /\ \A x \in c.orders :
          \/ x \in b.orders /\ \A i \in 1..Len(w.fills) : w.fills[i].order # x
          \/ \E i \in 1..Len(w.fills) : /\ w.fills[i].lots < w.fills[i].order.size
                                        /\ x = Shrunk(w.fills[i].order, w.fills[i].lots)

LEMMA Reseq ==
    ASSUME NEW b, Good(b), NEW m \in Nat, NEW c, c = [b EXCEPT !.seq = m]
    PROVE  /\ Good(c) /\ c.orders = b.orders /\ c.seq = m
           /\ c.nodes = b.nodes /\ c.free = b.free /\ c.active = b.active
<1>1. b \in BookType
  BY DEF Good
<1>2. /\ c \in BookType /\ c.orders = b.orders /\ c.seq = m /\ c.best = b.best
      /\ c.nodes = b.nodes /\ c.free = b.free /\ c.active = b.active
  BY <1>1 DEF BookType
<1>3. \A s \in Sides : Leads(c, s)
  <2>1. \A s \in Sides : Side(c, s) = Side(b, s)
    BY <1>2 DEF Side
  <2> QED BY <1>2, <2>1 DEF Good, Leads
<1>4. Ranked(c) /\ Arena(c) /\ IsFiniteSet(c.orders)
  BY <1>2 DEF Good, Ranked, Arena
<1> QED BY <1>2, <1>3, <1>4 DEF Good

LEMMA WalkServes ==
    ASSUME Good(book), NEW S, S \subseteq book.orders, NEW q, NEW n, Lists(S, q, n),
           NEW t, NEW limit, NEW w, WalkInv(w, q, n, t, limit),
           NEW c, c = FillAll(RemoveAll([book EXCEPT !.seq = NextSeq], w.cancels), w.fills)
    PROVE  Served(book, c, w)
<1> DEFINE b0 == [book EXCEPT !.seq = NextSeq]
           b1 == RemoveAll(b0, w.cancels)
           f == w.fills
           d == w.cancels
           gone == {d[i] : i \in 1..Len(d)}
<1>1. NextSeq = book.seq + 1 /\ NextSeq \in Nat
  BY GoodParts DEF NextSeq
<1>2. Good(b0) /\ b0.orders = book.orders /\ b0.seq = book.seq + 1 /\ b0.nodes = book.nodes
  BY <1>1, Reseq
<1>3. f \in Seq(FillType) /\ d \in Seq(OrderType)
  BY WalkFields DEF WalkInv
<1>4. Len(f) \in Nat /\ DOMAIN f = 1..Len(f) /\ Len(d) \in Nat /\ DOMAIN d = 1..Len(d)
  BY <1>3
<1>5. \A j \in 1..n : q[j] \in book.orders
  BY DEF Lists
<1>6. CancelsSeen(w, q, n, t) /\ FillsSeen(w, q, n, t, limit)
  BY DEF WalkInv
<1> HIDE DEF b0
<1>7. Batch(b0, d, Len(d))
  <2>1. ASSUME NEW i \in 1..Len(d) PROVE d[i] \in b0.orders
    BY <1>2, <1>5, <1>6 DEF CancelsSeen
  <2>2. \A i, j \in 1..Len(d) : d[i] = d[j] => i = j
    BY <1>6 DEF CancelsSeen
  <2> QED BY <1>4, <2>1, <2>2 DEF Batch
<1>8. Removed(b0, b1, gone)
  <2> HIDE DEF d
  <2> QED BY <1>2, <1>4, <1>7, RemoveAllGood DEF d
<1>9. Good(b1) /\ b1.orders = book.orders \ gone /\ b1.seq = book.seq + 1 /\ b1.nodes = book.nodes
  BY <1>2, <1>8 DEF Removed
<1>10. c = FillAll(b1, f)
  BY DEF b0
<1>11. ASSUME NEW i \in 1..Len(f) PROVE f[i].order \in b1.orders
  <2>1. f[i].order \in book.orders /\ f[i].order.trader # t
    BY <1>5, <1>6 DEF FillsSeen, FairFill
  <2>2. \A j \in 1..Len(d) : d[j].trader = t
    BY <1>6 DEF CancelsSeen
  <2>3. f[i].order \notin gone
    BY <2>1, <2>2
  <2> QED BY <1>9, <2>1, <2>3
<1> HIDE DEF b1
<1>12. Fillable(b1, f, Len(f))
  <2>1. ASSUME NEW i \in 1..Len(f)
        PROVE  f[i].lots \in Nat /\ 0 < f[i].lots /\ f[i].lots <= f[i].order.size
    <3>1. f[i] \in FillType
      BY <1>3
    <3>2. FairFill(f[i], t, limit)
      BY <1>6 DEF FillsSeen
    <3> QED BY <3>1, <3>2 DEF FillType, FairFill
  <2>2. \A i, j \in 1..Len(f) : f[i].order = f[j].order => i = j
    BY <1>6 DEF FillsSeen
  <2> QED BY <1>4, <1>11, <2>1, <2>2 DEF Fillable
<1>13. Filled(b1, c, f, Len(f))
  BY <1>4, <1>9, <1>10, <1>12, FillAllGood
<1>14. \A o \in book.orders : (\A i \in 1..Len(d) : d[i] # o) => o \in b1.orders
  BY <1>9
<1>15. \A x \in b1.orders : x \in book.orders
  BY <1>9
<1> QED BY <1>9, <1>13, <1>14, <1>15 DEF Filled, Served

-----------------------------------------------------------------------------
(* The steps.                                                              *)

(* A book that a step may leave behind.                                    *)
Fits(b, n, room) == Good(b) /\ Aged(b, n) /\ b.nodes <= room

(* Only orders that rested before, at most shrunk, are in c.               *)
Older(c) == \A x \in c.orders : x.at <= arrivals /\ x.seq <= book.seq

LEMMA InvParts ==
    ASSUME BookInv
    PROVE  /\ Good(book) /\ Aged(book, arrivals) /\ Fits(book, arrivals, cap) /\ Older(book)
           /\ cap \in Nat /\ arrivals \in Nat /\ book.seq \in Nat /\ book.nodes \in Nat
           /\ book.nodes <= cap /\ NextSeq = book.seq + 1 /\ NextSeq \in Nat
           /\ book.orders \subseteq OrderType
BY GoodParts DEF BookInv, Fits, Aged, Older, NextSeq

LEMMA OrderIs ==
    ASSUME BookInv, NEW t \in Traders, NEW s \in Sides, NEW px \in LimitPrices,
           NEW size \in Nat \ {0}, NEW exp \in Expiries, NEW kind \in {"limit", "liq"},
           NEW ro \in BOOLEAN, NEW o, o = Order(t, s, px, size, exp, kind, ro, NextSeq)
    PROVE  /\ o \in OrderType /\ o.at = arrivals + 1 /\ o.seq = book.seq + 1
           /\ o.trader = t /\ o.side = s /\ o.px = px
<1>1. arrivals + 1 \in Nat /\ NextSeq = book.seq + 1 /\ NextSeq \in Nat
  BY InvParts
<1> DEFINE a == arrivals + 1
           q == NextSeq
<1> HIDE DEF a, q
<1>2. o = [trader |-> t, side |-> s, px |-> px, size |-> size, exp |-> exp, kind |-> kind,
           ro |-> ro, seq |-> q, at |-> a]
  BY DEF Order, a, q
<1>3. a \in Nat /\ q \in Nat
  BY <1>1 DEF a, q
<1>4. o \in OrderType /\ o.at = a /\ o.seq = q /\ o.trader = t /\ o.side = s /\ o.px = px
  BY <1>2, <1>3 DEF OrderType
<1> QED BY <1>1, <1>4 DEF a, q

(* An order comes to rest.                                                 *)
LEMMA Rests ==
    ASSUME BookInv, NEW c, Good(c), c.seq = book.seq + 1, c.nodes <= cap, Older(c),
           NEW o \in OrderType, o.at = arrivals + 1, o.seq = book.seq + 1, o.seq <= MaxSeq,
           c.free > 0 \/ c.nodes < cap, NEW d, d = InsertNode(c, o)
    PROVE  Fits(d, arrivals + 1, cap) /\ d.orders = c.orders \cup {o}
<1>0. cap \in Nat /\ arrivals \in Nat /\ book.seq \in Nat
  BY InvParts
<1>1. \A x \in c.orders : x.at \in Nat /\ x.seq \in Nat
  BY GoodParts, OrderFields
<1>2. Younger(c, o)
  BY <1>0, <1>1 DEF Older, Younger
<1>3. Good(d) /\ d.orders = c.orders \cup {o} /\ d.seq = c.seq /\ d.nodes <= cap
  BY <1>0, <1>2, InsertGood
<1>4. \A x \in d.orders : x.at <= arrivals + 1 /\ x.seq <= d.seq
  BY <1>0, <1>1, <1>3 DEF Older
<1> QED BY <1>3, <1>4 DEF Fits, Aged

(* Orders leave and nothing else changes.                                  *)
LEMMA Leaves ==
    ASSUME BookInv, NEW S, NEW c, Removed(book, c, S)
    PROVE  Fits(c, arrivals, cap)
BY DEF Removed, BookInv, Aged, Fits

LEMMA ServedOlder ==
    ASSUME BookInv, NEW w \in WalkState, NEW c, Served(book, c, w),
           \A i \in 1..Len(w.fills) : w.fills[i].order \in book.orders /\ 0 < w.fills[i].lots
    PROVE  Older(c)
<1> SUFFICES ASSUME NEW x \in c.orders PROVE x.at <= arrivals /\ x.seq <= book.seq
  BY DEF Older
<1>1. CASE x \in book.orders
  BY <1>1, InvParts DEF Older
<1>2. CASE \E i \in 1..Len(w.fills) : /\ w.fills[i].lots < w.fills[i].order.size
                                      /\ x = Shrunk(w.fills[i].order, w.fills[i].lots)
  <2>1. PICK i \in 1..Len(w.fills) : /\ w.fills[i].lots < w.fills[i].order.size
                                     /\ x = Shrunk(w.fills[i].order, w.fills[i].lots)
    BY <1>2
  <2> DEFINE o == w.fills[i].order
             m == w.fills[i].lots
  <2>2. w.fills[i] \in FillType
    BY WalkFields
  <2>3. o \in OrderType /\ m \in Nat /\ 0 < m /\ m < o.size /\ x = Shrunk(o, m)
    BY <2>1, <2>2 DEF FillType
  <2>4. o \in book.orders
    OBVIOUS
  <2> HIDE DEF o, m
  <2>5. x.at = o.at /\ x.seq = o.seq
    BY <2>3, ShrunkOrder
  <2> QED BY <2>4, <2>5, InvParts DEF Older
<1> QED BY <1>1, <1>2 DEF Served

(* What a taker order leaves behind: c once the walk w has been applied,   *)
(* and on it the residual, if it rests.                                    *)
TakerDone(t, s, limit, w, q, n, c) ==
    /\ Lists(Side(book, Opposite(s)), q, n)
    /\ WalkInv(w, q, n, t, limit)
    /\ Served(book, c, w) /\ Older(c)
    /\ Fits(book', arrivals + 1, cap) /\ arrivals' = arrivals + 1
    /\ UNCHANGED <<cap, status, slot>>
    /\ event' = Event("taker", t, w.fills, limit)
    /\ \/ book'.orders = c.orders
       \/ \E o \in OrderType :
             /\ book'.orders = c.orders \cup {o}
             /\ o.at = arrivals + 1 /\ o.trader = t /\ o.side = s /\ o.px = limit
             /\ w.left > 0 /\ ~w.truncated /\ ~w.aborted

LEMMA TakerOutcome ==
    ASSUME BookInv, NEW t \in Traders, NEW s \in Sides, NEW size \in OrderSizes,
           NEW limit \in LimitPrices, NEW flags, NEW stp \in {"skip", "oldest", "both"},
           NEW ro \in BOOLEAN, NEW exp \in Expiries, NEW red \in [Traders -> Nat],
           PlaceTakerOrder(t, s, size, limit, flags, stp, ro, exp, red)
    PROVE  \E w, q, n, c : TakerDone(t, s, limit, w, q, n, c)
<1> DEFINE w == Walk(t, s, size, limit, stp, red)
           q == BestFirst(book, Opposite(s))
           n == Cardinality(Side(book, Opposite(s)))
           c == FillAll(RemoveAll([book EXCEPT !.seq = NextSeq], w.cancels), w.fills)
           rest == Order(t, s, limit, w.left, exp, "limit", ro, NextSeq)
           S == Side(book, Opposite(s))
<1>1. /\ ~w.aborted /\ arrivals' = arrivals + 1
      /\ IF ResidualRests(w, limit, flags)
         THEN Insertable(c, rest) /\ book' = InsertNode(c, rest)
         ELSE book' = c
      /\ event' = Event("taker", t, w.fills, limit)
      /\ UNCHANGED <<cap, status, slot>>
  BY DEF PlaceTakerOrder, Submit
<1> HIDE DEF w, q, n, c, rest
<1>2. Lists(S, q, n) /\ WalkInv(w, q, n, t, limit)
  <2>1. size \in Nat
    BY BookConstants
  <2> QED BY <2>1, InvParts, WalkFinds DEF w, q, n
<1>3. S \subseteq book.orders
  BY DEF Side
<1>4. Served(book, c, w)
  <2> HIDE DEF S
  <2> QED BY <1>2, <1>3, InvParts, WalkServes DEF c
<1>5. w \in WalkState /\ w.left \in Nat
  BY <1>2, WalkFields DEF WalkInv
<1>6. Older(c)
  <2>1. \A i \in 1..Len(w.fills) : w.fills[i].order \in book.orders /\ 0 < w.fills[i].lots
    BY <1>2, <1>3 DEF WalkInv, FillsSeen, FairFill, Lists
  <2> QED BY <1>4, <1>5, <2>1, ServedOlder
<1>7. Good(c) /\ c.seq = book.seq + 1 /\ c.nodes = book.nodes /\ c.nodes <= cap
  BY <1>4, InvParts DEF Served
<1>8. CASE ResidualRests(w, limit, flags)
  <2>1. Insertable(c, rest) /\ book' = InsertNode(c, rest) /\ w.left > 0 /\ ~w.truncated
    BY <1>1, <1>8 DEF ResidualRests
  <2>2. /\ rest \in OrderType /\ rest.at = arrivals + 1 /\ rest.seq = book.seq + 1
        /\ rest.trader = t /\ rest.side = s /\ rest.px = limit
    <3>1. w.left \in Nat \ {0}
      BY <1>5, <2>1
    <3> DEFINE left == w.left
               kind == "limit"
    <3>2. left \in Nat \ {0} /\ kind \in {"limit", "liq"} /\ rest = Order(t, s, limit, left, exp, kind, ro, NextSeq)
      BY <3>1 DEF rest
    <3> HIDE DEF left, kind
    <3> QED BY <3>2, OrderIs
  <2>3. rest.seq <= MaxSeq /\ (c.free > 0 \/ c.nodes < cap)
    BY <2>1 DEF Insertable
  <2> DEFINE d == InsertNode(c, rest)
  <2>4. Fits(d, arrivals + 1, cap) /\ d.orders = c.orders \cup {rest}
    BY <1>6, <1>7, <2>2, <2>3, Rests
  <2> HIDE DEF d
  <2>5. Fits(book', arrivals + 1, cap) /\ book'.orders = c.orders \cup {rest}
    BY <2>1, <2>4 DEF d
  <2>6. TakerDone(t, s, limit, w, q, n, c)
    BY <1>1, <1>2, <1>4, <1>6, <2>1, <2>2, <2>5 DEF TakerDone
  <2> QED BY <2>6
<1>9. CASE ~ResidualRests(w, limit, flags)
  <2>1. book' = c
    BY <1>1, <1>9
  <2>2. Fits(c, arrivals + 1, cap)
    <3>1. arrivals \in Nat /\ book.seq \in Nat
      BY InvParts
    <3>2. \A x \in c.orders : x.at \in Nat /\ x.seq \in Nat
      BY <1>7, GoodParts, OrderFields
    <3>3. Aged(c, arrivals + 1)
      BY <1>6, <1>7, <3>1, <3>2 DEF Older, Aged
    <3> QED BY <1>7, <3>3 DEF Fits
  <2>3. Fits(book', arrivals + 1, cap) /\ book'.orders = c.orders
    BY <2>1, <2>2
  <2>4. TakerDone(t, s, limit, w, q, n, c)
    BY <1>1, <1>2, <1>4, <1>6, <2>3 DEF TakerDone
  <2> QED BY <2>4
<1> QED BY <1>8, <1>9

(* What every step that is not a taker order must be shown to do.          *)
StepDone == BookInv' /\ event'.op # "taker" /\ LeaveForCause

LEMMA InvFrom ==
    ASSUME Fits(book', arrivals', cap'), cap' \in Nat, arrivals' \in Nat,
           status' \in Statuses, slot' \in 0..LastSlot
    PROVE  BookInv'
BY DEF BookInv, Fits

LEMMA BookKept ==
    ASSUME BookInv, UNCHANGED <<cap, status, slot, arrivals>>, Fits(book', arrivals, cap)
    PROVE  BookInv'
BY InvFrom DEF BookInv

LEMMA BookGrown ==
    ASSUME BookInv, UNCHANGED <<cap, status, slot>>, arrivals' = arrivals + 1,
           Fits(book', arrivals + 1, cap)
    PROVE  BookInv'
BY InvFrom DEF BookInv

LEMMA NothingLeaves ==
    ASSUME \A o \in book.orders : o \in book'.orders
    PROVE  LeaveForCause
BY DEF LeaveForCause, Touched

(* A fresh order on top of the book as it is.                              *)
LEMMA FreshRests ==
    ASSUME BookInv, NEW o \in OrderType, o.at = arrivals + 1, o.seq = book.seq + 1,
           Insertable(book, o), book' = InsertNode([book EXCEPT !.seq = NextSeq], o),
           arrivals' = arrivals + 1, UNCHANGED <<cap, status, slot>>
    PROVE  BookInv' /\ LeaveForCause
<1> DEFINE c == [book EXCEPT !.seq = NextSeq]
           d == InsertNode(c, o)
<1>1. /\ Good(c) /\ c.orders = book.orders /\ c.seq = book.seq + 1
      /\ c.nodes = book.nodes /\ c.free = book.free
  BY InvParts, Reseq
<1> HIDE DEF c
<1>2. c.nodes <= cap /\ Older(c)
  BY <1>1, InvParts DEF Older
<1>3. o.seq <= MaxSeq /\ (c.free > 0 \/ c.nodes < cap)
  BY <1>1 DEF Insertable
<1>4. Fits(d, arrivals + 1, cap) /\ d.orders = c.orders \cup {o}
  BY <1>1, <1>2, <1>3, Rests
<1>5. book' = d
  BY DEF c
<1> HIDE DEF d
<1>6. BookInv'
  BY <1>4, <1>5, BookGrown
<1>7. \A x \in book.orders : x \in book'.orders
  BY <1>1, <1>4, <1>5
<1> QED BY <1>6, <1>7, NothingLeaves

LEMMA LimitStep ==
    ASSUME BookInv, NEW t \in Traders, NEW s \in Sides, NEW px \in LimitPrices,
           NEW size \in OrderSizes, NEW ro \in RoFlags, NEW exp \in Expiries,
           PlaceLimitOrder(t, s, px, size, ro, exp)
    PROVE  StepDone
<1> DEFINE flag == ro \/ status = "CloseOnly"
           kind == "limit"
           o == Order(t, s, px, size, exp, kind, flag, NextSeq)
<1>1. /\ arrivals' = arrivals + 1 /\ Insertable(book, o)
      /\ book' = InsertNode([book EXCEPT !.seq = NextSeq], o)
      /\ event' = Event("limit", t, NoFills, px)
      /\ UNCHANGED <<cap, status, slot>>
  BY DEF PlaceLimitOrder, Submit
<1>2. flag \in BOOLEAN /\ kind \in {"limit", "liq"} /\ size \in Nat \ {0}
  BY BookConstants
<1>3. event'.op # "taker"
  BY <1>1 DEF Event
<1> HIDE DEF flag, kind
<1>4. o \in OrderType /\ o.at = arrivals + 1 /\ o.seq = book.seq + 1
  BY <1>2, OrderIs
<1> HIDE DEF o
<1> QED BY <1>1, <1>3, <1>4, FreshRests DEF StepDone

LEMMA LiquidationStep ==
    ASSUME BookInv, NEW t \in Traders, NEW s \in Sides, NEW px \in LimitPrices,
           NEW size \in OrderSizes, InjectLiquidation(t, s, px, size)
    PROVE  StepDone
<1> DEFINE flag == FALSE
           kind == "liq"
           never == 0
           o == Order(t, s, px, size, never, kind, flag, NextSeq)
<1>1. /\ arrivals' = arrivals + 1 /\ Insertable(book, o)
      /\ book' = InsertNode([book EXCEPT !.seq = NextSeq], o)
      /\ event' = Event("liquidate", "keeper", NoFills, px)
      /\ UNCHANGED <<cap, status, slot>>
  BY DEF InjectLiquidation, Submit
<1>2. flag \in BOOLEAN /\ kind \in {"limit", "liq"} /\ size \in Nat \ {0} /\ never \in Expiries
  BY BookConstants DEF Expiries
<1>3. event'.op # "taker"
  BY <1>1 DEF Event
<1> HIDE DEF flag, kind, never
<1>4. o \in OrderType /\ o.at = arrivals + 1 /\ o.seq = book.seq + 1
  BY <1>2, OrderIs
<1> HIDE DEF o
<1> QED BY <1>1, <1>3, <1>4, FreshRests DEF StepDone

LEMMA ModifyStep ==
    ASSUME BookInv, NEW t \in Traders, NEW s \in Sides, NEW id, NEW px \in LimitPrices,
           NEW size \in OrderSizes, NEW ro \in RoFlags, NEW exp \in Expiries,
           ModifyOrder(t, s, id, px, size, ro, exp)
    PROVE  StepDone
<1> DEFINE kind == "limit"
           o == Order(t, s, px, size, exp, kind, ro, NextSeq)
<1>1. PICK old \in Lookup(book, s, id) :
        /\ arrivals' = arrivals + 1 /\ old.trader = t
        /\ Insertable([RemoveNode(book, old) EXCEPT !.seq = NextSeq], o)
        /\ book' = InsertNode([RemoveNode(book, old) EXCEPT !.seq = NextSeq], o)
        /\ event' = Event("modify", t, NoFills, px)
        /\ UNCHANGED <<cap, status, slot>>
  BY DEF ModifyOrder, Submit
<1> DEFINE b == RemoveNode(book, old)
           c == [b EXCEPT !.seq = NextSeq]
           d == InsertNode(c, o)
<1>2. old \in book.orders
  BY DEF Lookup, Side
<1>3. Good(b) /\ b.orders = book.orders \ {old} /\ b.nodes = book.nodes
  BY <1>2, InvParts, RemoveGood DEF Removed
<1>4. ro \in BOOLEAN /\ kind \in {"limit", "liq"} /\ size \in Nat \ {0}
  BY BookConstants
<1>5. event'.op # "taker" /\ event'.by = t
  BY <1>1 DEF Event
<1> HIDE DEF kind, b
<1>6. o \in OrderType /\ o.at = arrivals + 1 /\ o.seq = book.seq + 1
  BY <1>4, OrderIs
<1>7. Good(c) /\ c.orders = book.orders \ {old} /\ c.seq = book.seq + 1 /\ c.nodes = book.nodes
  BY <1>3, InvParts, Reseq
<1> HIDE DEF o
<1>8. book' = d /\ Insertable(c, o)
  BY <1>1 DEF b
<1> HIDE DEF c
<1>9. c.nodes <= cap /\ Older(c)
  BY <1>7, InvParts DEF Older
<1>10. o.seq <= MaxSeq /\ (c.free > 0 \/ c.nodes < cap)
  BY <1>8 DEF Insertable
<1>11. Fits(d, arrivals + 1, cap) /\ d.orders = c.orders \cup {o}
  BY <1>6, <1>7, <1>9, <1>10, Rests
<1> HIDE DEF d
<1>12. BookInv'
  BY <1>1, <1>8, <1>11, BookGrown
<1>13. \A x \in Touched : x = old
  BY <1>7, <1>8, <1>11 DEF Touched
<1>14. LeaveForCause
  BY <1>1, <1>5, <1>13 DEF LeaveForCause
<1> QED BY <1>5, <1>12, <1>14 DEF StepDone

LEMMA CancelStep ==
    ASSUME BookInv, NEW t, NEW s, NEW id, CancelOrder(t, s, id)
    PROVE  StepDone
<1>1. PICK o \in Lookup(book, s, id) :
        /\ o.trader = t /\ book' = RemoveNode(book, o)
        /\ event' = Event("cancel", t, NoFills, 0)
        /\ UNCHANGED <<cap, status, slot, arrivals>>
  BY DEF CancelOrder
<1>2. o \in book.orders
  BY DEF Lookup, Side
<1>3. Removed(book, book', {o})
  BY <1>1, <1>2, InvParts, RemoveGood
<1>4. BookInv'
  BY <1>1, <1>3, Leaves, BookKept
<1>5. event'.op # "taker" /\ event'.by = t
  BY <1>1 DEF Event
<1>6. LeaveForCause
  BY <1>1, <1>3, <1>5 DEF LeaveForCause, Touched, Removed
<1> QED BY <1>4, <1>5, <1>6 DEF StepDone

LEMMA RetireStep ==
    ASSUME BookInv, NEW s, NEW id, RetireLiquidationOrder(s, id)
    PROVE  StepDone
<1>1. PICK o \in Lookup(book, s, id) :
        /\ o.kind = "liq" /\ book' = RemoveNode(book, o)
        /\ event' = Event("retire", "keeper", NoFills, 0)
        /\ UNCHANGED <<cap, status, slot, arrivals>>
  BY DEF RetireLiquidationOrder
<1>2. o \in book.orders
  BY DEF Lookup, Side
<1>3. Removed(book, book', {o})
  BY <1>1, <1>2, InvParts, RemoveGood
<1>4. BookInv'
  BY <1>1, <1>3, Leaves, BookKept
<1>5. event'.op = "retire"
  BY <1>1 DEF Event
<1>6. LeaveForCause
  BY <1>1, <1>3, <1>5 DEF LeaveForCause, Touched, Removed
<1> QED BY <1>4, <1>5, <1>6 DEF StepDone

(* d numbers n different members of S.                                     *)
Numbered(S, d, n) ==
    /\ n \in Nat /\ d \in [1..n -> S]
    /\ \A i, j \in 1..n : d[i] = d[j] => i = j

LEMMA NumberedSeq ==
    ASSUME NEW S, NEW d, NEW n, Numbered(S, d, n), NEW T, S \subseteq T
    PROVE  d \in Seq(T) /\ Len(d) = n /\ n \in Nat
<1>1. n \in Nat /\ d \in [1..n -> T] /\ DOMAIN d = 1..n
  BY DEF Numbered
<1>2. d \in Seq(T)
  BY <1>1, SeqDef
<1> QED BY <1>1, <1>2

(* One numbering after another.                                            *)
LEMMA Joined ==
    ASSUME NEW A, NEW B, A \cap B = {}, NEW p, NEW q, NEW n1, NEW n2,
           Numbered(A, p, n1), Numbered(B, q, n2)
    PROVE  Numbered(A \cup B, p \o q, n1 + n2) /\ Len(p \o q) = n1 + n2
<1> DEFINE all == p \o q
           N == n1 + n2
           C == A \cup B
<1>1. p \in Seq(C) /\ q \in Seq(C) /\ Len(p) = n1 /\ Len(q) = n2 /\ n1 \in Nat /\ n2 \in Nat
  <2>1. A \subseteq C /\ B \subseteq C
    OBVIOUS
  <2> HIDE DEF C
  <2>2. p \in Seq(C) /\ Len(p) = n1 /\ n1 \in Nat
    BY <2>1, NumberedSeq
  <2>3. q \in Seq(C) /\ Len(q) = n2 /\ n2 \in Nat
    BY <2>1, NumberedSeq
  <2> QED BY <2>2, <2>3
<1>2. /\ all \in Seq(C) /\ Len(all) = N
      /\ \A i \in 1..N : all[i] = IF i <= n1 THEN p[i] ELSE q[i - n1]
  BY <1>1, ConcatProperties
<1> HIDE DEF all
<1>3. N \in Nat /\ all \in [1..N -> C]
  BY <1>1, <1>2, LenProperties
<1>4. ASSUME NEW k \in 1..N, k <= n1 PROVE k \in 1..n1 /\ all[k] = p[k] /\ all[k] \in A
  <2>1. k \in 1..n1
    BY <1>1, <1>4
  <2> QED BY <1>2, <1>4, <2>1 DEF Numbered
<1>5. ASSUME NEW k \in 1..N, ~(k <= n1)
      PROVE  k - n1 \in 1..n2 /\ all[k] = q[k - n1] /\ all[k] \in B
  <2>1. k - n1 \in 1..n2
    BY <1>1, <1>5
  <2> QED BY <1>2, <1>5, <2>1 DEF Numbered
<1>6. ASSUME NEW i \in 1..N, NEW j \in 1..N, all[i] = all[j] PROVE i = j
  <2>1. CASE i <= n1 /\ j <= n1
    BY <1>4, <1>6, <2>1 DEF Numbered
  <2>2. CASE ~(i <= n1) /\ ~(j <= n1)
    <3> DEFINE x == i - n1
               y == j - n1
    <3>1. x \in 1..n2 /\ y \in 1..n2 /\ q[x] = q[y]
      BY <1>5, <1>6, <2>2
    <3>2. x = y => i = j
      BY <1>1, <1>3
    <3> HIDE DEF x, y
    <3> QED BY <3>1, <3>2 DEF Numbered
  <2>3. CASE i <= n1 /\ ~(j <= n1)
    BY <1>4, <1>5, <1>6, <2>3
  <2>4. CASE ~(i <= n1) /\ j <= n1
    BY <1>4, <1>5, <1>6, <2>4
  <2> QED BY <2>1, <2>2, <2>3, <2>4
<1>7. Numbered(C, all, N)
  BY <1>3, <1>6 DEF Numbered
<1> QED BY <1>2, <1>7 DEF all

(* The start of a numbering.                                               *)
LEMMA Shortened ==
    ASSUME NEW S, NEW d, NEW n, Numbered(S, d, n), NEW k \in Nat, k <= n
    PROVE  Numbered(S, SubSeq(d, 1, k), k)
<1> DEFINE e == SubSeq(d, 1, k)
<1>1. n \in Nat /\ \A i \in 1..k : i \in 1..n
  BY DEF Numbered
<1>2. \A i \in 1..k : d[i] \in S
  BY <1>1 DEF Numbered
<1>3. /\ SubSeq(d, 1, k) \in Seq(S)
      /\ Len(SubSeq(d, 1, k)) = IF 1 <= k THEN k - 1 + 1 ELSE 0
      /\ \A i \in 1..(k - 1 + 1) : SubSeq(d, 1, k)[i] = d[1 + i - 1]
  <2>1. 1 \in Int /\ k \in Int
    OBVIOUS
  <2> QED BY ONLY <2>1, <1>2, SubSeqProperties
<1>4. k - 1 + 1 = k /\ (~(1 <= k) => k = 0) /\ \A i \in 1..k : 1 + i - 1 = i
  OBVIOUS
<1> HIDE DEF e
<1>5. e \in Seq(S) /\ Len(e) = k /\ \A i \in 1..k : e[i] = d[i]
  BY <1>3, <1>4 DEF e
<1>6. e \in [1..k -> S]
  BY <1>5, LenProperties
<1>7. ASSUME NEW i \in 1..k, NEW j \in 1..k, e[i] = e[j] PROVE i = j
  <2>1. i \in 1..n /\ j \in 1..n /\ d[i] = d[j]
    BY <1>1, <1>5, <1>7
  <2> QED BY <2>1 DEF Numbered
<1>8. Numbered(S, e, k)
  BY <1>6, <1>7 DEF Numbered
<1> QED BY <1>8 DEF e

LEMMA InIdOrderNumbers ==
    ASSUME NEW S, IsFiniteSet(S), DistinctIds(S)
    PROVE  Numbered(S, InIdOrder(S), Cardinality(S))
<1> DEFINE n == Cardinality(S)
           q == InIdOrder(S)
<1>0. q = InIdOrder(S) /\ n = Cardinality(S)
  OBVIOUS
<1>1. Lists(S, q, n)
  <2> HIDE DEF q, n
  <2> QED BY <1>0, InIdOrderLists
<1> DEFINE F(i) == CHOOSE o \in S : Cardinality({x \in S : Id(x) < Id(o)}) = i - 1
<1>2. q = [i \in 1..n |-> F(i)]
  BY DEF InIdOrder
<1> HIDE DEF n, q, F
<1>3. q \in [1..n -> S]
  BY <1>1, <1>2 DEF Lists
<1>4. Numbered(S, q, n)
  BY <1>1, <1>3 DEF Lists, Numbered
<1> QED BY <1>4 DEF n, q

(* A batch of orders leaves.                                               *)
LEMMA BatchLeaves ==
    ASSUME BookInv, NEW q, NEW n \in Nat, Batch(book, q, n), book' = RemoveAll(book, q),
           UNCHANGED <<cap, status, slot, arrivals>>
    PROVE  BookInv' /\ \A o \in Touched : \E i \in 1..n : o = q[i]
<1> DEFINE S == {q[i] : i \in 1..n}
<1>1. Removed(book, book', S)
  BY InvParts, RemoveAllGood
<1>2. BookInv'
  <2> HIDE DEF S
  <2> QED BY <1>1, Leaves, BookKept
<1>3. \A o \in Touched : o \in S
  BY <1>1 DEF Touched, Removed
<1> QED BY <1>2, <1>3

LEMMA CancelAllStep ==
    ASSUME BookInv, NEW t, CancelAll(t)
    PROVE  StepDone
<1> DEFINE Own(s) == {o \in FromBest(book, s) : o.trader = t /\ o.kind # "liq"}
           A == Own("bid")
           B == Own("ask")
           all == InIdOrder(A) \o InIdOrder(B)
           k == Min({MaxCancels, Len(all)})
           d == SubSeq(all, 1, k)
           N == Cardinality(A) + Cardinality(B)
           C == A \cup B
<1>1. /\ book' = RemoveAll(book, d)
      /\ event' = Event("cancel", t, NoFills, 0)
      /\ UNCHANGED <<cap, status, slot, arrivals>>
  BY DEF CancelAll
<1>2. /\ A \subseteq book.orders /\ B \subseteq book.orders /\ A \cap B = {}
      /\ \A o \in C : o.trader = t
  BY DEF FromBest, Side
<1> HIDE DEF A, B
<1>3. IsFiniteSet(book.orders) /\ DistinctIds(book.orders)
  BY InvParts, GoodParts
<1>4. IsFiniteSet(A) /\ IsFiniteSet(B)
  BY <1>2, <1>3, FS_Subset
<1>5. DistinctIds(A) /\ DistinctIds(B)
  BY <1>2, <1>3 DEF DistinctIds
<1>6. Numbered(C, all, N) /\ Len(all) = N
  BY <1>2, <1>4, <1>5, InIdOrderNumbers, Joined
<1> HIDE DEF all, N, C
<1>7. N \in Nat /\ MaxCancels \in Nat
  BY <1>6, BookConstants DEF Numbered
<1>8. k = IF MaxCancels <= N THEN MaxCancels ELSE N
  BY <1>6, <1>7, MinOfTwo
<1>9. k \in Nat /\ k <= N
  BY <1>7, <1>8
<1> HIDE DEF k
<1>10. Numbered(C, d, k)
  BY <1>6, <1>9, Shortened
<1> HIDE DEF d
<1>11. C \subseteq book.orders
  BY <1>2 DEF C
<1>12. Batch(book, d, k)
  BY <1>10, <1>11 DEF Numbered, Batch
<1>13. BookInv' /\ \A o \in Touched : \E i \in 1..k : o = d[i]
  BY <1>1, <1>9, <1>12, BatchLeaves
<1>14. event'.op # "taker" /\ event'.by = t
  BY <1>1 DEF Event
<1>15. LeaveForCause
  BY <1>2, <1>10, <1>13, <1>14 DEF LeaveForCause, Numbered
<1> QED BY <1>13, <1>14, <1>15 DEF StepDone

(* SetToSeq lists a finite set, each member once.                          *)
LEMMA SetToSeqLists ==
    ASSUME NEW S, IsFiniteSet(S), NEW q, q = SetToSeq(S), NEW n, n = Cardinality(S)
    PROVE  /\ n \in Nat /\ DOMAIN q = 1..n
           /\ \A i \in 1..n : q[i] \in S
           /\ \A i, j \in 1..n : q[i] = q[j] => i = j
<1>1. n \in Nat /\ ExistsBijection(1..n, S)
  BY FS_CardinalityType
<1>2. \E f \in [1..n -> S] : IsInjective(f)
  BY <1>1 DEF ExistsBijection, Bijection, Injection, IsInjective
<1>3. q \in [1..n -> S] /\ IsInjective(q)
  BY <1>2 DEF SetToSeq
<1> QED BY <1>1, <1>3 DEF IsInjective

LEMMA ReapStep ==
    ASSUME BookInv, NEW ids, ReapExpiredOrders(ids)
    PROVE  StepDone
<1> DEFINE due == {o \in book.orders : Id(o) \in ids /\ Reapable(o)}
           q == SetToSeq(due)
           n == Cardinality(due)
<1>1. /\ book' = RemoveAll(book, q)
      /\ event' = Event("reap", "keeper", NoFills, 0)
      /\ UNCHANGED <<cap, status, slot, arrivals>>
  BY DEF ReapExpiredOrders
<1>2. due \subseteq book.orders /\ \A o \in due : o.exp # 0 /\ o.exp <= slot
  BY DEF Reapable
<1> HIDE DEF due
<1>3. IsFiniteSet(due)
  BY <1>2, InvParts, GoodParts, FS_Subset
<1>4. /\ n \in Nat /\ DOMAIN q = 1..n
      /\ \A i \in 1..n : q[i] \in due
      /\ \A i, j \in 1..n : q[i] = q[j] => i = j
  BY <1>3, SetToSeqLists
<1> HIDE DEF q, n
<1>5. Batch(book, q, n)
  BY <1>2, <1>4 DEF Batch
<1>6. BookInv' /\ \A o \in Touched : \E i \in 1..n : o = q[i]
  BY <1>1, <1>4, <1>5, BatchLeaves
<1>7. event'.op = "reap"
  BY <1>1 DEF Event
<1>8. LeaveForCause
  BY <1>2, <1>4, <1>6, <1>7 DEF LeaveForCause
<1> QED BY <1>6, <1>7, <1>8 DEF StepDone

LEMMA ExpandStep ==
    ASSUME BookInv, NEW n \in 1..MaxNodes, ExpandMarketBook(n)
    PROVE  StepDone
<1>1. /\ cap' = cap + n /\ event' = Event("expand", "authority", NoFills, 0)
      /\ UNCHANGED <<book, status, slot, arrivals>>
  BY DEF ExpandMarketBook
<1>2. cap' \in Nat /\ book.nodes <= cap'
  BY <1>1, InvParts, BookConstants
<1>3. BookInv'
  BY <1>1, <1>2 DEF BookInv
<1>4. LeaveForCause
  BY <1>1, NothingLeaves
<1>5. event'.op # "taker"
  BY <1>1 DEF Event
<1> QED BY <1>3, <1>4, <1>5 DEF StepDone

LEMMA ReseatStep ==
    ASSUME BookInv, ReseatOrderSeqCounter
    PROVE  StepDone
<1>1. /\ book.orders = {} /\ book' = [book EXCEPT !.seq = 0]
      /\ event' = Event("reseat", "authority", NoFills, 0)
      /\ UNCHANGED <<cap, status, slot, arrivals>>
  BY DEF ReseatOrderSeqCounter
<1>2. Good(book') /\ book'.orders = book.orders /\ book'.nodes = book.nodes
  <2> DEFINE m == 0
  <2>1. m \in Nat /\ book' = [book EXCEPT !.seq = m]
    BY <1>1
  <2> HIDE DEF m
  <2> QED BY <2>1, InvParts, Reseq
<1>3. Fits(book', arrivals, cap)
  BY <1>1, <1>2, InvParts DEF Fits, Aged
<1>4. BookInv'
  BY <1>1, <1>3, BookKept
<1>5. LeaveForCause
  BY <1>1, NothingLeaves
<1>6. event'.op # "taker"
  BY <1>1 DEF Event
<1> QED BY <1>4, <1>5, <1>6 DEF StepDone

LEMMA StatusStep ==
    ASSUME BookInv, NEW new \in MarketStatuses, SetMarketStatus(new)
    PROVE  StepDone
<1>1. /\ status' = new /\ event' = Event("status", "authority", NoFills, 0)
      /\ UNCHANGED <<book, cap, slot, arrivals>>
  BY DEF SetMarketStatus
<1>2. BookInv'
  BY <1>1, BookConstants DEF BookInv
<1>3. LeaveForCause
  BY <1>1, NothingLeaves
<1>4. event'.op # "taker"
  BY <1>1 DEF Event
<1> QED BY <1>2, <1>3, <1>4 DEF StepDone

LEMMA TickStep ==
    ASSUME BookInv, Tick
    PROVE  StepDone
<1>1. /\ slot < LastSlot /\ slot' = slot + 1 /\ event' = Event("tick", "clock", NoFills, 0)
      /\ UNCHANGED <<book, cap, status, arrivals>>
  BY DEF Tick
<1>2. slot' \in 0..LastSlot
  BY <1>1, BookConstants DEF BookInv
<1>3. BookInv'
  BY <1>1, <1>2 DEF BookInv
<1>4. LeaveForCause
  BY <1>1, NothingLeaves
<1>5. event'.op # "taker"
  BY <1>1 DEF Event
<1> QED BY <1>3, <1>4, <1>5 DEF StepDone

-----------------------------------------------------------------------------
(* The taker order.                                                        *)

(* x is what a fill left of a resting order.                               *)
Remnant(f, x) ==
    /\ f.order \in book.orders /\ f.lots < f.order.size
    /\ x.at = f.order.at /\ x.ro = f.order.ro

LEMMA TakerParts ==
    ASSUME BookInv, NEW s \in Sides, NEW t, NEW limit, NEW w, NEW q, NEW n, NEW c,
           TakerDone(t, s, limit, w, q, n, c)
    PROVE  /\ n \in Nat /\ DOMAIN q = 1..n /\ Len(w.fills) \in Nat
           /\ DOMAIN w.fills = 1..Len(w.fills) /\ w.left \in Nat
           /\ \A j \in 1..n : q[j] \in book.orders /\ q[j].side = Opposite(s)
           /\ \A i \in 1..Len(w.fills) : /\ FairFill(w.fills[i], t, limit)
                                         /\ w.fills[i].order \in book.orders
           /\ \A x \in c.orders :
                 \/ x \in book.orders /\ \A i \in 1..Len(w.fills) : w.fills[i].order # x
                 \/ \E i \in 1..Len(w.fills) : Remnant(w.fills[i], x)
<1>1. Lists(Side(book, Opposite(s)), q, n) /\ WalkInv(w, q, n, t, limit) /\ Served(book, c, w)
  BY DEF TakerDone
<1>2. w \in WalkState /\ w.fills \in Seq(FillType) /\ w.left \in Nat
  BY <1>1, WalkFields DEF WalkInv
<1>3. Len(w.fills) \in Nat /\ DOMAIN w.fills = 1..Len(w.fills)
  BY <1>2
<1>4. n \in Nat /\ DOMAIN q = 1..n
  BY <1>1 DEF Lists
<1>5. ASSUME NEW j \in 1..n PROVE q[j] \in book.orders /\ q[j].side = Opposite(s)
  BY <1>1 DEF Lists, Side
<1>6. ASSUME NEW i \in 1..Len(w.fills)
      PROVE  FairFill(w.fills[i], t, limit) /\ w.fills[i].order \in book.orders
  BY <1>1, <1>5 DEF WalkInv, FillsSeen
<1>7. ASSUME NEW x \in c.orders
      PROVE  \/ x \in book.orders /\ \A i \in 1..Len(w.fills) : w.fills[i].order # x
             \/ \E i \in 1..Len(w.fills) : Remnant(w.fills[i], x)
  <2>1. ASSUME NEW i \in 1..Len(w.fills), w.fills[i].lots < w.fills[i].order.size,
               x = Shrunk(w.fills[i].order, w.fills[i].lots)
        PROVE  Remnant(w.fills[i], x)
    <3> DEFINE f == w.fills[i]
    <3>1. f \in FillType /\ 0 < f.lots /\ f.order \in book.orders
      BY <1>2, <1>3, <1>6 DEF FairFill
    <3> HIDE DEF f
    <3>2. f.order \in OrderType /\ f.lots \in Nat
      BY <3>1 DEF FillType
    <3>3. f.lots < f.order.size /\ x = Shrunk(f.order, f.lots)
      BY <2>1 DEF f
    <3>4. x.at = f.order.at /\ x.ro = f.order.ro
      BY <3>1, <3>2, <3>3, ShrunkOrder
    <3>5. Remnant(f, x)
      BY <3>1, <3>3, <3>4 DEF Remnant
    <3> QED BY <3>5 DEF f
  <2> QED BY <1>1, <2>1 DEF Served
<1> QED BY <1>2, <1>3, <1>4, <1>5, <1>6, <1>7

(* An order filled to the last lot is gone, whatever else the order did.   *)
LEMMA FilledIsGone ==
    ASSUME BookInv, NEW s \in Sides, NEW t, NEW limit, NEW w, NEW q, NEW n, NEW c,
           TakerDone(t, s, limit, w, q, n, c), NEW o \in book.orders, FullyFilled(w.fills, o)
    PROVE  \A x \in book'.orders : x.at # o.at
<1>1. PICK k \in 1..Len(w.fills) : w.fills[k].order = o /\ w.fills[k].lots = o.size
  BY DEF FullyFilled
<1>2. \A x, y \in book.orders : x.at = y.at => x = y
  BY InvParts DEF Good, Ranked
<1>3. \A i, j \in 1..Len(w.fills) : w.fills[i].order = w.fills[j].order => i = j
  BY DEF TakerDone, WalkInv, FillsSeen
<1>4. o.at \in Nat /\ arrivals \in Nat /\ o.at <= arrivals /\ o.size \in Nat
  BY InvParts, OrderFields DEF Older
<1>5. ASSUME NEW x \in c.orders PROVE x.at # o.at
  <2>1. CASE x \in book.orders /\ \A i \in 1..Len(w.fills) : w.fills[i].order # x
    BY <1>1, <1>2, <2>1
  <2>2. ASSUME NEW i \in 1..Len(w.fills), Remnant(w.fills[i], x), x.at = o.at PROVE FALSE
    <3>1. w.fills[i].order \in book.orders /\ w.fills[i].order.at = o.at
      BY <2>2 DEF Remnant
    <3>2. w.fills[i].order = w.fills[k].order
      BY <1>1, <1>2, <3>1
    <3>3. i = k
      BY <1>3, <3>2
    <3>4. o.size < o.size
      BY <1>1, <2>2, <3>3 DEF Remnant
    <3> QED BY <1>4, <3>4
  <2> QED BY <2>1, <2>2, TakerParts
<1>6. CASE book'.orders = c.orders
  BY <1>5, <1>6
<1>7. CASE \E r \in OrderType : book'.orders = c.orders \cup {r} /\ r.at = arrivals + 1
  BY <1>4, <1>5, <1>7
<1> QED BY <1>6, <1>7 DEF TakerDone

LEMMA TakerLeaves ==
    ASSUME BookInv, NEW s \in Sides, NEW t, NEW limit, NEW w, NEW q, NEW n, NEW c,
           TakerDone(t, s, limit, w, q, n, c)
    PROVE  BookInv' /\ LeaveForCause
<1>1. BookInv'
  BY BookGrown DEF TakerDone
<1>2. event'.op = "taker" /\ event'.by = t /\ event'.limit = limit
  BY DEF TakerDone, Event
<1>3. ASSUME NEW o \in book.orders, o \notin book'.orders
      PROVE  o.trader = t \/ (Crosses(limit, o) /\ ~Expired(o))
  <2>1. o \notin c.orders
    BY <1>3 DEF TakerDone
  <2>2. \/ \E i \in 1..Len(w.cancels) : w.cancels[i] = o
        \/ \E i \in 1..Len(w.fills) : w.fills[i].order = o
    BY <2>1 DEF TakerDone, Served
  <2>3. ASSUME NEW i \in 1..Len(w.cancels), w.cancels[i] = o PROVE o.trader = t
    BY <2>3 DEF TakerDone, WalkInv, CancelsSeen
  <2>4. ASSUME NEW i \in 1..Len(w.fills), w.fills[i].order = o
        PROVE  Crosses(limit, o) /\ ~Expired(o)
    BY <2>4, TakerParts DEF FairFill
  <2>5. CASE \E i \in 1..Len(w.cancels) : w.cancels[i] = o
    BY <2>3, <2>5
  <2>6. CASE \E i \in 1..Len(w.fills) : w.fills[i].order = o
    BY <2>4, <2>6
  <2> QED BY <2>2, <2>5, <2>6
<1>4. LeaveForCause
  BY <1>2, <1>3 DEF LeaveForCause, Touched
<1> QED BY <1>1, <1>4

(* Positions in the walk follow rank.                                      *)
LEMMA RankPositions ==
    ASSUME BookInv, NEW s \in Sides, NEW t, NEW limit, NEW w, NEW q, NEW n, NEW c,
           TakerDone(t, s, limit, w, q, n, c), NEW j \in 1..n, NEW l \in 1..n
    PROVE  j < l <=> Outranks(q[j], q[l])
<1>1. Lists(Side(book, Opposite(s)), q, n) /\ n \in Nat
  BY TakerParts DEF TakerDone
<1> DEFINE x == q[j]
           y == q[l]
<1>2. x \in book.orders /\ y \in book.orders /\ x.side = y.side
  BY TakerParts
<1>3. x.px \in Nat /\ y.px \in Nat /\ x.at \in Nat /\ y.at \in Nat /\ Id(x) \in Nat /\ Id(y) \in Nat
  BY <1>2, InvParts, OrderFields, GoodParts DEF DistinctIds
<1>4. j < l => Id(x) < Id(y)
  BY <1>1 DEF Lists
<1>5. l < j => Id(y) < Id(x)
  BY <1>1 DEF Lists
<1>6. x = y => j = l
  BY <1>1 DEF Lists
<1>7. x # y => (Id(x) < Id(y) <=> Outranks(x, y))
  <2> HIDE DEF x, y
  <2> QED BY <1>2, InvParts, IdsRank DEF Good
<1>8. x = y => ~Outranks(x, y)
  BY <1>3 DEF Outranks
<1> HIDE DEF x, y
<1>9. j = l => x = y
  BY DEF x, y
<1>10. j \in Nat /\ l \in Nat
  BY <1>1
<1>11. j < l <=> Outranks(x, y)
  BY <1>3, <1>4, <1>5, <1>6, <1>7, <1>8, <1>9, <1>10
<1> QED BY <1>11 DEF x, y

LEMMA TakerPriority ==
    ASSUME BookInv, NEW s \in Sides, NEW t, NEW limit, NEW w, NEW q, NEW n, NEW c,
           TakerDone(t, s, limit, w, q, n, c)
    PROVE  FillsInPriority
<1>1. event'.by = t /\ event'.limit = limit /\ event'.fills = w.fills
  BY DEF TakerDone, Event
<1>2. ASSUME NEW i \in 1..Len(w.fills), NEW o \in Side(book, w.fills[i].order.side),
             Outranks(o, w.fills[i].order), MustMeet(t, limit, o)
      PROVE  \A x \in book'.orders : x.at # o.at
  <2>1. PICK l \in 1..n : w.fills[i].order = q[l]
    BY DEF TakerDone, WalkInv, FillsSeen
  <2>2. o \in Side(book, Opposite(s)) /\ o \in book.orders
    BY <2>1, TakerParts DEF Side
  <2>3. PICK j \in 1..n : q[j] = o
    BY <2>2 DEF TakerDone, Lists
  <2>4. j < l
    BY <1>2, <2>1, <2>3, RankPositions
  <2>5. j \in 1..(l - 1)
    BY <2>4, TakerParts
  <2>6. AllMet(w.fills, q, l - 1, t, limit)
    BY <2>1 DEF TakerDone, WalkInv, MetBefore
  <2>7. FullyFilled(w.fills, o)
    BY <1>2, <2>3, <2>5, <2>6 DEF AllMet
  <2> QED BY <2>2, <2>7, FilledIsGone
<1>3. ASSUME NEW i \in 1..Len(w.fills)
      PROVE  LET f == w.fills[i].order
             IN  /\ Crosses(limit, f) /\ f.trader # t /\ ~Expired(f)
                 /\ \A o \in Side(book, f.side) :
                       Outranks(o, f) /\ MustMeet(t, limit, o)
                         => o.at \notin {x.at : x \in book'.orders}
  <2>1. FairFill(w.fills[i], t, limit)
    BY TakerParts
  <2> QED BY <1>2, <2>1 DEF FairFill
<1>4. DOMAIN w.fills = 1..Len(w.fills)
  BY TakerParts
<1> QED BY <1>1, <1>3, <1>4 DEF FillsInPriority

(* A worse order of the same side does not cross either.                   *)
LEMMA WorseUncrossed ==
    ASSUME NEW x \in OrderType, NEW y \in OrderType, x.side = y.side, Outranks(x, y),
           NEW limit \in Nat, Crosses(limit, y)
    PROVE  Crosses(limit, x)
<1>1. x.px \in Nat /\ y.px \in Nat /\ x.side \in {"bid", "ask"}
  BY OrderFields DEF Sides
<1> QED BY <1>1 DEF Outranks, Crosses

LEMMA TakerUncrossed ==
    ASSUME BookInv, NEW s \in Sides, NEW t, NEW limit \in LimitPrices,
           NEW w, NEW q, NEW n, NEW c, TakerDone(t, s, limit, w, q, n, c)
    PROVE  RestsUncrossed
<1> SUFFICES ASSUME NEW o \in book'.orders, o.at = arrivals',
                    NEW x \in Side(book', Opposite(o.side)), MustMeet(o.trader, o.px, x)
             PROVE  FALSE
  BY DEF RestsUncrossed
<1>1. arrivals' = arrivals + 1 /\ arrivals \in Nat /\ Older(c)
  BY InvParts DEF TakerDone
<1>2. o \notin c.orders
  <2>1. o.at = arrivals + 1
    BY <1>1
  <2> QED BY <1>1, <2>1 DEF Older
<1>3. /\ o.trader = t /\ o.side = s /\ o.px = limit
      /\ w.left > 0 /\ ~w.truncated /\ ~w.aborted
      /\ \A y \in book'.orders : y \in c.orders \/ y = o
  BY <1>2 DEF TakerDone
<1>4. x \in book'.orders /\ x.side = Opposite(s) /\ MustMeet(t, limit, x)
  BY <1>3 DEF Side
<1>5. x \in c.orders
  <2>1. Opposite(s) # s
    BY DEF Opposite, Sides
  <2> QED BY <1>3, <1>4, <2>1
<1>6. limit \in Nat
  BY BookConstants
<1>7. CASE x \in book.orders /\ \A i \in 1..Len(w.fills) : w.fills[i].order # x
  <2>1. PICK j \in 1..n : q[j] = x
    BY <1>4, <1>7 DEF TakerDone, Lists, Side
  <2>2. ASSUME NEW k \in Nat, AllMet(w.fills, q, k, t, limit), j <= k PROVE FALSE
    <3>1. j \in 1..k
      BY <2>2, TakerParts
    <3> QED BY <1>4, <1>7, <2>1, <2>2, <3>1 DEF AllMet, FullyFilled
  <2>3. CASE ~w.done
    <3>1. AllMet(w.fills, q, n, t, limit)
      BY <1>3, <2>3 DEF TakerDone, WalkInv, MetSoFar
    <3>2. n \in Nat /\ j <= n
      BY TakerParts
    <3> QED BY <2>2, <3>1, <3>2
  <2>4. CASE w.done
    <3>1. PICK l \in 1..n : ~Crosses(limit, q[l]) /\ AllMet(w.fills, q, l - 1, t, limit)
      BY <1>3, <2>4 DEF TakerDone, WalkInv, StoppedAt
    <3>2. l - 1 \in Nat /\ n \in Nat
      BY TakerParts
    <3>3. ~(j <= l - 1)
      BY <2>2, <3>1, <3>2
    <3>4. j # l
      BY <1>4, <2>1, <3>1 DEF MustMeet
    <3>5. l < j
      BY <3>2, <3>3, <3>4
    <3>6. Outranks(q[l], x)
      BY <2>1, <3>5, RankPositions
    <3>7. q[l] \in OrderType /\ x \in OrderType /\ q[l].side = x.side
      BY <1>4, <1>7, InvParts, TakerParts
    <3>8. Crosses(limit, x)
      BY <1>4 DEF MustMeet
    <3> QED BY <1>6, <3>1, <3>6, <3>7, <3>8, WorseUncrossed
  <2> QED BY <2>3, <2>4
<1>8. ASSUME NEW i \in 1..Len(w.fills), Remnant(w.fills[i], x) PROVE FALSE
  <2>1. ~w.fills[i].order.ro /\ w.fills[i].lots < w.fills[i].order.size
    BY <1>4, <1>8 DEF Remnant, MustMeet
  <2>2. w.left = 0
    BY <2>1 DEF TakerDone, WalkInv, PartialLast
  <2> QED BY <1>3, <2>2
<1> QED BY <1>5, <1>7, <1>8, TakerParts

(* The inputs Take offers have the types the walk needs.                   *)
LEMMA TakeInputs ==
    ASSUME NEW t, NEW s, NEW stp \in StpModes(t, s), NEW red \in Reds(t, s),
           NEW size \in OrderSizes
    PROVE  stp \in {"skip", "oldest", "both"} /\ red \in [Traders -> Nat]
<1>1. stp \in {"skip", "oldest", "both"}
  BY DEF StpModes
<1> DEFINE m == Max(OrderSizes)
<1>2. red \in [Traders -> 0..m]
  BY DEF Reds
<1> HIDE DEF m
<1>3. \A k \in 0..m : k \in Nat
  OBVIOUS
<1>4. red \in [Traders -> Nat]
  BY <1>2, <1>3
<1> QED BY <1>1, <1>4

-----------------------------------------------------------------------------
(* Every step.                                                             *)
LEMMA StepKeeps ==
    ASSUME BookInv, Next
    PROVE  BookInv' /\ FillsInPriority /\ RestsUncrossed /\ LeaveForCause
<1>1. ASSUME StepDone PROVE BookInv' /\ FillsInPriority /\ RestsUncrossed /\ LeaveForCause
  BY <1>1 DEF StepDone, FillsInPriority, RestsUncrossed
<1>2. CASE Take
  <2>1. PICK t \in Traders, s \in Sides, size \in OrderSizes, limit \in LimitPrices,
             flags \in FlagSets, ro \in RoFlags, exp \in Expiries :
          \E stp \in StpModes(t, s), red \in Reds(t, s) :
              PlaceTakerOrder(t, s, size, limit, flags, stp, ro, exp, red)
    BY <1>2 DEF Take
  <2>2. PICK stp \in StpModes(t, s), red \in Reds(t, s) :
          PlaceTakerOrder(t, s, size, limit, flags, stp, ro, exp, red)
    BY <2>1
  <2>3. stp \in {"skip", "oldest", "both"} /\ red \in [Traders -> Nat] /\ ro \in BOOLEAN
    BY TakeInputs, BookConstants
  <2>4. PICK w, q, n, c : TakerDone(t, s, limit, w, q, n, c)
    BY <2>2, <2>3, TakerOutcome
  <2> QED BY <2>4, TakerLeaves, TakerPriority, TakerUncrossed
<1>3. CASE Make
  <2>1. PICK t \in Traders, s \in Sides, px \in LimitPrices, size \in OrderSizes :
          \/ \E ro \in RoFlags, exp \in Expiries : PlaceLimitOrder(t, s, px, size, ro, exp)
          \/ \E ro \in RoFlags, exp \in Expiries, id \in Ids :
                ModifyOrder(t, s, id, px, size, ro, exp)
          \/ InjectLiquidation(t, s, px, size)
    BY <1>3 DEF Make
  <2>2. StepDone
    BY <2>1, LimitStep, ModifyStep, LiquidationStep
  <2> QED BY <1>1, <2>2
<1>4. CASE Leave
  <2>1. StepDone
    BY <1>4, CancelStep, CancelAllStep, ReapStep, RetireStep DEF Leave
  <2> QED BY <1>1, <2>1
<1>5. CASE \/ \E n \in 1..MaxNodes : ExpandMarketBook(n)
           \/ ReseatOrderSeqCounter
           \/ \E new \in MarketStatuses : SetMarketStatus(new)
           \/ Tick
  <2>1. StepDone
    BY <1>5, ExpandStep, ReseatStep, StatusStep, TickStep
  <2> QED BY <1>1, <2>1
<1> QED BY <1>2, <1>3, <1>4, <1>5 DEF Next

LEMMA InitInv == Init => BookInv
<1> SUFFICES ASSUME Init PROVE BookInv
  OBVIOUS
<1>1. /\ book.orders = {} /\ book.best = [s \in Sides |-> Nil] /\ book.seq = 0
      /\ book.nodes = 0 /\ book.free = 0 /\ book.active = 0
      /\ cap = InitNodes /\ status = "Active" /\ slot = 0 /\ arrivals = 0
  BY DEF Init
<1>2. book \in BookType
  <2>1. [s \in Sides |-> Nil] \in [Sides -> Nat \cup {Nil}]
    OBVIOUS
  <2> DEFINE e == [s \in Sides |-> Nil]
             none == {}
  <2>2. book = [orders |-> none, best |-> e, seq |-> 0, nodes |-> 0, free |-> 0, active |-> 0]
    BY DEF Init
  <2>3. e \in [Sides -> Nat \cup {Nil}] /\ none \in SUBSET OrderType
    BY <2>1
  <2> HIDE DEF e, none
  <2> QED BY <2>2, <2>3 DEF BookType
<1>3. IsFiniteSet(book.orders) /\ Cardinality(book.orders) = 0
  BY <1>1, FS_EmptySet
<1>4. Ranked(book) /\ Aged(book, arrivals)
  BY <1>1 DEF Ranked, Aged
<1>5. \A s \in Sides : Leads(book, s)
  BY <1>1 DEF Leads, Side
<1>6. Arena(book)
  BY <1>1, <1>3 DEF Arena
<1>7. cap \in Nat /\ book.nodes <= cap /\ slot \in 0..LastSlot
  BY <1>1, BookConstants
<1>8. arrivals \in Nat /\ status \in Statuses
  BY <1>1 DEF Statuses
<1>9. Good(book)
  BY <1>2, <1>3, <1>4, <1>5, <1>6 DEF Good
<1> QED BY <1>4, <1>7, <1>8, <1>9 DEF BookInv

LEMMA NextInv == BookInv /\ [Next]_vars => BookInv'
<1> SUFFICES ASSUME BookInv, [Next]_vars PROVE BookInv'
  OBVIOUS
<1>1. CASE Next
  BY <1>1, StepKeeps
<1>2. CASE UNCHANGED vars
  BY <1>2 DEF BookInv, vars
<1> QED BY <1>1, <1>2

LEMMA InvImpliesHeader == BookInv => HeaderExact
<1> SUFFICES ASSUME BookInv PROVE HeaderExact
  OBVIOUS
<1>1. /\ Good(book) /\ book.orders \subseteq OrderType /\ DistinctIds(book.orders)
      /\ book.best \in [Sides -> Nat \cup {Nil}] /\ book.nodes <= cap
      /\ {book.seq, book.nodes, book.free, book.active, cap, arrivals} \subseteq Nat
  BY InvParts, GoodParts
<1>2. TypeOK
  BY <1>1 DEF TypeOK, BookInv
<1>3. ArenaExact
  BY <1>1 DEF ArenaExact, Good, Arena
<1>4. BestCacheCorrect
  <2> SUFFICES ASSUME NEW s \in Sides
               PROVE  book.best[s] = IF Side(book, s) = {} THEN Nil
                                     ELSE Min({Id(o) : o \in Side(book, s)})
    BY DEF BestCacheCorrect
  <2> DEFINE T == {Id(o) : o \in Side(book, s)}
  <2>1. Leads(book, s)
    BY <1>1 DEF Good
  <2>2. T \in SUBSET Nat
    BY <1>1 DEF DistinctIds, Side
  <2>3. CASE Side(book, s) = {}
    BY <2>1, <2>3 DEF Leads
  <2>4. CASE Side(book, s) # {}
    <3>1. PICK o \in Side(book, s) :
            book.best[s] = Id(o) /\ \A x \in Side(book, s) : Id(o) <= Id(x)
      BY <2>1, <2>4 DEF Leads
    <3>2. Id(o) \in T /\ \A k \in T : Id(o) <= k
      BY <3>1
    <3> HIDE DEF T
    <3>3. Min(T) = Id(o)
      BY <2>2, <3>2, LeastOf
    <3> QED BY <2>4, <3>1, <3>3 DEF T
  <2> QED BY <2>3, <2>4
<1>5. IdsRankOrders
  <2> SUFFICES ASSUME NEW x \in book.orders, NEW y \in book.orders, x # y
               PROVE  /\ Id(x) # Id(y)
                      /\ x.side = y.side => (Id(x) < Id(y) <=> Outranks(x, y))
    BY DEF IdsRankOrders
  <2>1. Id(x) # Id(y)
    BY <1>1 DEF DistinctIds
  <2>2. book \in BookType /\ Ranked(book)
    BY <1>1 DEF Good
  <2> QED BY <2>1, <2>2, IdsRank
<1> QED BY <1>2, <1>3, <1>4, <1>5 DEF HeaderExact

(* The inductive invariant of the book: in every reachable state the       *)
(* account's tree, cached best pointers, node arena and counters agree     *)
(* (init_market_book and every instruction that touches the book).         *)
THEOREM BookInvariance == Spec => []BookInv
BY InitInv, NextInv, PTL DEF Spec

(* The header of the book account and the order ids agree with the orders  *)
(* in the tree: cached best, node count, free list, price-time rank.       *)
THEOREM HeaderStaysExact == Spec => []HeaderExact
BY BookInvariance, InvImpliesHeader, PTL

LEMMA EveryStep ==
    BookInv /\ [Next]_vars =>
        [FillsInPriority]_vars /\ [RestsUncrossed]_vars /\ [LeaveForCause]_vars
BY StepKeeps

(* place_taker_order fills in price-time priority: nothing it fills was    *)
(* outranked by an order it could have met and left lots of.               *)
THEOREM TakersRespectPriority == Spec => TakerRespectsPriority
BY BookInvariance, EveryStep, PTL DEF Spec, TakerRespectsPriority

(* A residual that place_taker_order rests crosses nothing it should have  *)
(* met on the other side.                                                  *)
THEOREM ResidualsRestUncrossed == Spec => ResidualUncrossed
BY BookInvariance, EveryStep, PTL DEF Spec, ResidualUncrossed

(* Orders leave the book by their owner, a fill they cross, the reaper     *)
(* after expiry, or, for liquidation orders, the keeper.                   *)
THEOREM OrdersLeaveOnlyForCause == Spec => OrdersLeaveForCause
BY BookInvariance, EveryStep, PTL DEF Spec, OrdersLeaveForCause


-----------------------------------------------------------------------------
(* The arithmetic of shares.                                               *)

(* What is paid for some of the shares is a natural, no more than there is *)
(* and no more than their part.                                            *)
LEMMA PartOf ==
    ASSUME NEW burned \in Nat, NEW assets \in Nat, NEW shares \in Nat \ {0}, burned <= shares
    PROVE  /\ (burned * assets) \div shares \in Nat
           /\ (burned * assets) \div shares <= assets
           /\ shares * ((burned * assets) \div shares) <= burned * assets
<1> DEFINE paid == (burned * assets) \div shares
<1>1. burned * assets \in Nat /\ burned * assets <= shares * assets
  BY MulMonotone
<1>2. paid \in Nat /\ shares * paid <= burned * assets
  BY <1>1, DivNat, DivBounds
<1> HIDE DEF paid
<1>3. shares * paid <= shares * assets
  BY <1>1, <1>2
<1>4. paid <= assets
  BY <1>2, <1>3, MulCancel
<1> QED BY <1>2, <1>4 DEF paid

(* Shares minted for a deposit cost at least their worth.                  *)
LEMMA MintedBounds ==
    ASSUME NEW amount \in Nat, NEW shares \in Nat, NEW assets \in Nat,
           shares > 0 => assets > 0
    PROVE  /\ Minted(amount, shares, assets) \in Nat
           /\ shares > 0 => assets * Minted(amount, shares, assets) <= amount * shares
<1>1. CASE shares = 0
  BY <1>1 DEF Minted
<1>2. CASE shares > 0
  <2>1. amount * shares \in Nat /\ assets \in Nat \ {0}
    BY <1>2
  <2> QED BY <1>2, <2>1, DivNat, DivBounds DEF Minted
<1> QED BY <1>1, <1>2

-----------------------------------------------------------------------------
(* The strategy vault: its record and its total of shares.                 *)
VaultRecord ==
    [created : BOOLEAN, opened : BOOLEAN, fee : 0..FeeDenom, shares : Nat, hwm : Nat,
     collateral : Nat, open : BOOLEAN, er : BOOLEAN, resting : BOOLEAN]
CopyRecord == [created : BOOLEAN, shares : Nat, assets : Nat, tokens : Nat]

StrategyInv ==
    /\ vault \in VaultRecord
    /\ vaultPos \in [Holders -> Nat]
    /\ vault.shares = SumFunctionOnSet(vaultPos, Holders)

CopyInv ==
    /\ copy \in CopyRecord
    /\ copyPos \in [Depositors -> Nat]
    /\ copy.shares = SumFunctionOnSet(copyPos, Depositors)
    /\ CopyVaultWhole

VaultInv == StrategyInv /\ CopyInv

LEMMA HoldersFinite == IsFiniteSet(Holders) /\ IsFiniteSet(Depositors)
BY VaultAssumption, FS_AddElement DEF Holders

LEMMA VaultInitInv == ASSUME VaultInit PROVE VaultInv
<1>1. /\ SumFunctionOnSet([h \in Holders |-> 0], Holders) = 0
      /\ SumFunctionOnSet([d \in Depositors |-> 0], Depositors) = 0
  BY HoldersFinite, SumZero
<1>2. 0 \in 0..FeeDenom
  BY VaultAssumption
<1>3. StrategyInv
  BY <1>1, <1>2 DEF VaultInit, StrategyInv, VaultRecord
<1>4. CopyInv
  BY <1>1 DEF VaultInit, CopyInv, CopyRecord, CopyVaultWhole
<1> QED BY <1>3, <1>4 DEF VaultInv

(* Moving one holder's shares moves the total by as much.                  *)
LEMMA SharesMove ==
    ASSUME NEW S, IsFiniteSet(S), NEW f \in [S -> Nat], NEW g \in [S -> Nat], NEW x \in S,
           \A y \in S \ {x} : g[y] = f[y]
    PROVE  SumFunctionOnSet(g, S) = SumFunctionOnSet(f, S) - f[x] + g[x]
<1>1. \A y \in S : f[y] \in Int
  OBVIOUS
<1>2. g[x] \in Int
  OBVIOUS
<1> QED BY <1>1, <1>2, SumUpdate

(* A step that moves delta shares of one holder of the strategy vault.     *)
LEMMA HoldersMove ==
    ASSUME StrategyInv, NEW h \in Holders, NEW delta \in Int, vaultPos[h] + delta \in Nat,
           vault' \in VaultRecord, vault'.shares = vault.shares + delta,
           vaultPos' = [vaultPos EXCEPT ![h] = vaultPos[h] + delta]
    PROVE  StrategyInv'
<1>1. vaultPos \in [Holders -> Nat] /\ vaultPos' \in [Holders -> Nat]
  BY DEF StrategyInv
<1>2. /\ vaultPos'[h] = vaultPos[h] + delta
      /\ \A y \in Holders \ {h} : vaultPos'[y] = vaultPos[y]
  BY <1>1
<1>3. SumFunctionOnSet(vaultPos', Holders)
        = SumFunctionOnSet(vaultPos, Holders) - vaultPos[h] + vaultPos'[h]
  <2> DEFINE g == vaultPos'
  <2>1. g \in [Holders -> Nat] /\ \A y \in Holders \ {h} : g[y] = vaultPos[y]
    BY <1>1, <1>2
  <2>2. IsFiniteSet(Holders) /\ vaultPos \in [Holders -> Nat]
    BY <1>1, HoldersFinite
  <2> HIDE DEF g
  <2>3. SumFunctionOnSet(g, Holders) = SumFunctionOnSet(vaultPos, Holders) - vaultPos[h] + g[h]
    BY <2>1, <2>2, SharesMove
  <2> QED BY <2>3 DEF g
<1>4. vault.shares \in Nat /\ vaultPos[h] \in Nat
      /\ vault.shares = SumFunctionOnSet(vaultPos, Holders)
  BY <1>1 DEF StrategyInv, VaultRecord
<1>5. vault'.shares = SumFunctionOnSet(vaultPos', Holders)
  BY <1>2, <1>3, <1>4
<1> QED BY <1>1, <1>5 DEF StrategyInv

LEMMA DepositKeeps ==
    ASSUME StrategyInv, NEW d \in Depositors, NEW amount \in VaultAmounts,
           VaultDeposit(d, amount)
    PROVE  StrategyInv'
<1> DEFINE minted == Minted(amount, vault.shares, vault.collateral)
<1>0. amount \in Nat /\ d \in Holders /\ vault \in VaultRecord /\ vaultPos[d] \in Nat
  BY VaultAssumption DEF StrategyInv, Holders
<1>1. minted \in Nat
  <2>1. vault.shares > 0 => vault.collateral > 0
    BY <1>0 DEF VaultRecord, VaultDeposit, Drained
  <2> QED BY <1>0, <2>1, MintedBounds DEF VaultRecord
<1> HIDE DEF minted
<1>2. /\ vault' = [vault EXCEPT !.collateral = @ + amount, !.shares = @ + minted]
      /\ vaultPos' = [vaultPos EXCEPT ![d] = vaultPos[d] + minted]
  BY DEF VaultDeposit, minted
<1>3. vault' \in VaultRecord /\ vault'.shares = vault.shares + minted
  <2>1. vault.collateral + amount \in Nat /\ vault.shares + minted \in Nat
    BY <1>0, <1>1 DEF VaultRecord
  <2> QED BY <1>0, <1>2, <2>1 DEF VaultRecord
<1>4. vaultPos[d] + minted \in Nat /\ minted \in Int
  BY <1>0, <1>1
<1> QED BY <1>0, <1>2, <1>3, <1>4, HoldersMove

LEMMA WithdrawKeeps ==
    ASSUME StrategyInv, NEW h \in Holders, NEW burned \in 1 .. vaultPos[h],
           VaultWithdraw(h, burned)
    PROVE  StrategyInv'
<1> DEFINE amount == VaultAmount(burned)
<1>0. /\ vault \in VaultRecord /\ vaultPos[h] \in Nat /\ burned \in Nat
      /\ vault.shares \in Nat /\ vault.collateral \in Nat
  BY DEF StrategyInv, VaultRecord
<1>1. burned <= vault.shares /\ burned <= vaultPos[h] /\ vault.shares # 0
  <2>1. burned \in 1 .. Min({vaultPos[h], vault.shares})
    BY DEF VaultWithdraw
  <2>2. Min({vaultPos[h], vault.shares})
          = IF vaultPos[h] <= vault.shares THEN vaultPos[h] ELSE vault.shares
    BY <1>0, MinOfTwo
  <2> QED BY <1>0, <2>1, <2>2
<1>2. amount \in Nat /\ amount <= vault.collateral
  BY <1>0, <1>1, PartOf DEF VaultAmount
<1> HIDE DEF amount
<1>3. /\ vault' = [vault EXCEPT !.collateral = @ - amount, !.shares = @ - burned]
      /\ vaultPos' = [vaultPos EXCEPT ![h] = vaultPos[h] - burned]
  BY DEF VaultWithdraw, amount
<1>4. vault' \in VaultRecord /\ vault'.shares = vault.shares + (0 - burned)
  <2>1. vault.collateral - amount \in Nat /\ vault.shares - burned \in Nat
    BY <1>0, <1>1, <1>2
  <2>2. vault' \in VaultRecord /\ vault'.shares = vault.shares - burned
    BY <1>0, <1>3, <2>1 DEF VaultRecord
  <2> QED BY <1>0, <2>2
<1>5. /\ vaultPos[h] - burned = vaultPos[h] + (0 - burned)
      /\ vaultPos[h] + (0 - burned) \in Nat /\ 0 - burned \in Int
  BY <1>0, <1>1
<1> QED BY <1>0, <1>3, <1>4, <1>5, HoldersMove

LEMMA MulRearrange ==
    ASSUME NEW k \in Int, NEW c \in Int, NEW m \in Int, NEW u \in Int
    PROVE  k * ((c * m) * u) = (c * u) * (k * m)
OBVIOUS

(* The fee in shares, measured from the mark k, never brings a share below *)
(* the mark: collateral c, shares s, unit u.                               *)
LEMMA FeeArithmetic ==
    ASSUME NEW c \in Nat \ {0}, NEW s \in Nat \ {0}, NEW k \in Nat, NEW u \in Nat \ {0},
           NEW now \in Nat, s * now <= c * u, now > k,
           NEW gain \in Nat, u * gain <= (now - k) * s,
           NEW fee \in Nat, fee <= gain,
           NEW m \in Nat, c * m <= fee * s
    PROVE  k * (s + m) <= c * u
<1> DEFINE e == (now - k) * s
<1>2. e \in Nat /\ u * gain <= e
  OBVIOUS
<1> HIDE DEF e
<1>6. c * m <= gain * s
  <2>1. fee * s <= gain * s
    BY MulMonotone
  <2>2. c * m \in Int /\ gain * s \in Int /\ fee * s \in Int
    OBVIOUS
  <2> QED BY <2>1, <2>2
<1>7. (c * m) * u <= e * s
  <2>1. (c * m) * u <= (gain * s) * u
    <3>1. c * m \in Int /\ gain * s \in Int
      OBVIOUS
    <3> QED BY <1>6, <3>1, MulMonotone
  <2>2. (u * gain) * s <= e * s
    <3>1. u * gain \in Int
      OBVIOUS
    <3> QED BY <1>2, <3>1, MulMonotone
  <2>3. (gain * s) * u = (u * gain) * s
    OBVIOUS
  <2>4. (c * m) * u \in Int /\ (u * gain) * s \in Int /\ e * s \in Int
    BY <1>2
  <2> QED BY <2>1, <2>2, <2>3, <2>4
<1>8. k * s <= c * u /\ e <= c * u - k * s
  <2>1. k * s <= now * s
    BY MulMonotone
  <2>2. e = now * s - k * s
    BY DEF e
  <2>3. now * s = s * now /\ k * s \in Int /\ now * s \in Int /\ c * u \in Int
    OBVIOUS
  <2> QED BY <2>1, <2>2, <2>3
<1>9. (c * u) * (k * m) <= (c * u) * e
  <2> DEFINE x == (c * m) * u
             y == e * s
             w == c * u
  <2>0. x \in Int /\ y \in Int /\ w \in Nat /\ k * s \in Int /\ k * m \in Int
    BY <1>2
  <2>1. k * x <= k * y
    <3> HIDE DEF x, y
    <3> QED BY <1>7, <2>0, MulMonotone DEF x, y
  <2>2. k * y = (k * s) * e
    BY <1>2
  <2>3. (k * s) * e <= w * e
    <3>1. k * s <= w
      BY <1>8
    <3> HIDE DEF w
    <3> QED BY <1>2, <2>0, <3>1, MulMonotone
  <2>4. k * x = w * (k * m)
    BY MulRearrange
  <2>5. k * x \in Int /\ k * y \in Int /\ w * e \in Int
    BY <1>2, <2>0
  <2> HIDE DEF x, y, w
  <2>6. w * (k * m) <= w * e
    BY <2>1, <2>2, <2>3, <2>4, <2>5
  <2> QED BY <2>6 DEF w
<1>10. k * m <= e
  <2> DEFINE w == c * u
             v == k * m
  <2>1. w \in Nat \ {0} /\ v \in Int /\ w * v <= w * e
    BY <1>9
  <2> HIDE DEF w, v
  <2>2. v <= e
    BY <1>2, <2>1, MulCancel
  <2> QED BY <2>2 DEF v
<1>11. k * (s + m) <= c * u
  <2>1. k * (s + m) = k * s + k * m
    OBVIOUS
  <2>2. k * s \in Int /\ k * m \in Int /\ c * u \in Int
    OBVIOUS
  <2> QED BY <1>2, <1>8, <1>10, <2>1, <2>2
<1> QED BY <1>11

(* Settling the fee on a vault that has a mark and is above it.            *)
LEMMA FeeSharesBounds ==
    ASSUME StrategyInv, vault.shares > 0, vault.collateral > 0,
           PerShare(vault.collateral, vault.shares) > vault.hwm
    PROVE  /\ FeeShares(vault.hwm) \in Nat
           /\ PerShare(vault.collateral, vault.shares) \in Nat
           /\ vault.hwm * (vault.shares + FeeShares(vault.hwm)) <= vault.collateral * UsdUnit
<1> DEFINE c == vault.collateral
           s == vault.shares
           k == vault.hwm
           f == vault.fee
           now == PerShare(c, s)
           gain == ((now - k) * s) \div UsdUnit
           fee == (gain * f) \div FeeDenom
           m == (fee * s) \div c
<1>0. /\ c \in Nat \ {0} /\ s \in Nat \ {0} /\ k \in Nat /\ f \in Nat /\ f <= FeeDenom
      /\ UsdUnit \in Nat \ {0} /\ FeeDenom \in Nat \ {0}
  BY VaultAssumption DEF StrategyInv, VaultRecord
<1>1. m = FeeShares(vault.hwm) /\ now > k
  BY DEF FeeShares
<1>2. /\ now = (c * UsdUnit) \div s
      /\ gain = ((now - k) * s) \div UsdUnit
      /\ fee = (gain * f) \div FeeDenom
      /\ m = (fee * s) \div c
  BY DEF PerShare
<1> HIDE DEF now, gain, fee, m, c, s, k, f
<1>3. now \in Nat /\ s * now <= c * UsdUnit
  <2>1. c * UsdUnit \in Nat
    BY <1>0, <1>1, <1>2
  <2> QED BY <1>0, <1>2, <2>1, DivFacts
<1>4. gain \in Nat /\ UsdUnit * gain <= (now - k) * s
  <2> DEFINE p == (now - k) * s
  <2>1. p \in Nat
    BY <1>0, <1>1, <1>3
  <2>2. gain = p \div UsdUnit
    BY <1>0, <1>1, <1>2
  <2> HIDE DEF p
  <2>3. gain \in Nat /\ UsdUnit * gain <= p
    BY <1>0, <2>1, <2>2, DivFacts
  <2> QED BY <2>3 DEF p
<1>5. fee \in Nat /\ fee <= gain
  <2>1. fee = (f * gain) \div FeeDenom
    BY <1>0, <1>2, <1>4
  <2> QED BY <1>0, <1>4, <2>1, PartOf
<1>6. m \in Nat /\ c * m <= fee * s
  <2> DEFINE p == fee * s
  <2>1. p \in Nat
    BY <1>0, <1>5
  <2>2. m = p \div c
    BY <1>0, <1>1, <1>2
  <2> HIDE DEF p
  <2>3. m \in Nat /\ c * m <= p
    BY <1>0, <2>1, <2>2, DivFacts
  <2> QED BY <2>3 DEF p
<1>7. k * (s + m) <= c * UsdUnit
  BY <1>0, <1>1, <1>3, <1>4, <1>5, <1>6, FeeArithmetic
<1> QED BY <1>1, <1>3, <1>6, <1>7 DEF now, c, s, k

(* The value of a share is a natural.                                      *)
LEMMA PerShareNat ==
    ASSUME NEW c \in Nat, NEW s \in Nat \ {0}
    PROVE  PerShare(c, s) \in Nat
<1>1. c * UsdUnit \in Nat
  BY VaultAssumption
<1> QED BY <1>1, DivNat DEF PerShare

LEMMA FeeKeeps ==
    ASSUME StrategyInv, SettleVaultPerfFee
    PROVE  StrategyInv'
<1> DEFINE now == PerShare(vault.collateral, vault.shares)
           minted == FeeShares(vault.hwm)
<1>0. /\ vault \in VaultRecord /\ vaultPos \in [Holders -> Nat] /\ UsdUnit \in Nat
      /\ vault.shares \in Nat /\ vault.collateral \in Nat /\ vault.hwm \in Nat
  BY VaultAssumption DEF StrategyInv, VaultRecord
<1>1. CASE UNCHANGED vaultPos /\ \E k \in Nat : vault' = [vault EXCEPT !.hwm = k]
  <2>1. vault' \in VaultRecord /\ vault'.shares = vault.shares
    BY <1>0, <1>1 DEF VaultRecord
  <2> QED BY <1>0, <1>1, <2>1 DEF StrategyInv
<1>2. CASE vault.shares = 0
  BY <1>0, <1>1, <1>2 DEF SettleVaultPerfFee
<1>3. CASE vault.shares # 0
  <2>1. now \in Nat
    BY <1>0, <1>3, PerShareNat
  <2>2. CASE vault.hwm = 0 \/ minted = 0
    BY <1>1, <1>3, <2>1, <2>2 DEF SettleVaultPerfFee
  <2>3. CASE ~(vault.hwm = 0 \/ minted = 0)
    <3>1. vault.shares > 0 /\ vault.collateral > 0 /\ now > vault.hwm
      BY <1>0, <1>3, <2>3 DEF SettleVaultPerfFee
    <3>2. minted \in Nat
      BY <3>1, FeeSharesBounds
    <3>3. vault' = FeeSettled(minted) /\ vaultPos' = [vaultPos EXCEPT ![Strategist] = @ + minted]
      BY <1>3, <2>3 DEF SettleVaultPerfFee
    <3> HIDE DEF now, minted
    <3>4. vault' \in VaultRecord /\ vault'.shares = vault.shares + minted
      <4>1. vault.shares + minted \in Nat \ {0}
        BY <1>0, <3>1, <3>2
      <4>2. PerShare(vault.collateral, vault.shares + minted) \in Nat
        BY <1>0, <4>1, PerShareNat
      <4> QED BY <1>0, <3>3, <4>1, <4>2 DEF FeeSettled, VaultRecord
    <3>5. Strategist \in Holders /\ minted \in Int /\ vaultPos[Strategist] + minted \in Nat
      BY <1>0, <3>2 DEF Holders
    <3> QED BY <3>3, <3>4, <3>5, HoldersMove
  <2> QED BY <2>2, <2>3
<1> QED BY <1>2, <1>3

LEMMA FillsKeeps ==
    ASSUME StrategyInv, NEW pnl \in Pnls, VaultOrderFills(pnl)
    PROVE  StrategyInv'
<1> DEFINE c == IF vault.open THEN Max({vault.collateral + pnl, 0}) ELSE vault.collateral
<1>0. vault \in VaultRecord /\ pnl \in Int /\ vault.collateral \in Nat
  BY VaultAssumption DEF StrategyInv, VaultRecord
<1>1. c \in Nat
  <2>1. vault.collateral + pnl \in Int
    BY <1>0
  <2>2. Max({vault.collateral + pnl, 0})
          = IF vault.collateral + pnl >= 0 THEN vault.collateral + pnl ELSE 0
    BY <2>1, MaxOfTwo
  <2> QED BY <1>0, <2>1, <2>2
<1>2. vault' = [vault EXCEPT !.resting = FALSE, !.er = FALSE, !.open = ~@, !.collateral = c]
  BY DEF VaultOrderFills
<1> HIDE DEF c
<1>3. vault' \in VaultRecord /\ vault'.shares = vault.shares
  BY <1>0, <1>1, <1>2 DEF VaultRecord
<1> QED BY <1>3 DEF StrategyInv, VaultOrderFills

LEMMA StrategyStep ==
    ASSUME StrategyInv, StrategyNext
    PROVE  StrategyInv'
<1>0. vault \in VaultRecord
  BY DEF StrategyInv
<1>1. ASSUME NEW bps \in PerfFees, CreateVault(bps) PROVE StrategyInv'
  <2>1. bps \in 0..FeeDenom
    BY VaultAssumption
  <2>2. vault' \in VaultRecord /\ vault'.shares = vault.shares
    BY <1>0, <1>1, <2>1 DEF VaultRecord, CreateVault
  <2> QED BY <1>1, <2>2 DEF StrategyInv, CreateVault
<1>2. ASSUME VaultOpenTraderState PROVE StrategyInv'
  <2>1. vault' \in VaultRecord /\ vault'.shares = vault.shares
    BY <1>0, <1>2 DEF VaultRecord, VaultOpenTraderState
  <2> QED BY <1>2, <2>1 DEF StrategyInv, VaultOpenTraderState
<1>3. ASSUME NEW delegated \in BOOLEAN, VaultPlaceOrder(delegated) PROVE StrategyInv'
  <2>1. vault' \in VaultRecord /\ vault'.shares = vault.shares
    BY <1>0, <1>3 DEF VaultRecord, VaultPlaceOrder
  <2> QED BY <1>3, <2>1 DEF StrategyInv, VaultPlaceOrder
<1>4. ASSUME VaultCancelOrder PROVE StrategyInv'
  <2>1. vault' \in VaultRecord /\ vault'.shares = vault.shares
    BY <1>0, <1>4 DEF VaultRecord, VaultCancelOrder
  <2> QED BY <1>4, <2>1 DEF StrategyInv, VaultCancelOrder
<1> QED BY <1>1, <1>2, <1>3, <1>4, DepositKeeps, WithdrawKeeps, FillsKeeps, FeeKeeps
        DEF StrategyNext

-----------------------------------------------------------------------------
(* The copy vault.                                                         *)

(* A share buys and pays exactly a lot while assets equal shares.          *)
LEMMA CopyPrice ==
    ASSUME NEW n \in Nat, NEW shares \in Nat, NEW assets, assets = shares
    PROVE  /\ SharesOnDeposit(n, shares, assets) = n
           /\ shares # 0 => AssetsOnWithdraw(n, shares, assets) = n
BY DivExact DEF SharesOnDeposit, Minted, AssetsOnWithdraw

(* A step that moves delta shares of one depositor of the copy vault.      *)
LEMMA CopyMove ==
    ASSUME CopyInv, NEW d \in Depositors, NEW delta \in Int, copyPos[d] + delta \in Nat,
           copy' \in CopyRecord, copy'.shares = copy.shares + delta,
           copyPos' = [copyPos EXCEPT ![d] = copyPos[d] + delta],
           copy'.tokens >= copy'.assets, copy'.assets = copy'.shares
    PROVE  CopyInv'
<1>1. copyPos \in [Depositors -> Nat] /\ copyPos' \in [Depositors -> Nat]
  BY DEF CopyInv
<1>2. /\ copyPos'[d] = copyPos[d] + delta
      /\ \A y \in Depositors \ {d} : copyPos'[y] = copyPos[y]
  BY <1>1
<1>3. SumFunctionOnSet(copyPos', Depositors)
        = SumFunctionOnSet(copyPos, Depositors) - copyPos[d] + copyPos'[d]
  <2> DEFINE g == copyPos'
  <2>1. g \in [Depositors -> Nat] /\ \A y \in Depositors \ {d} : g[y] = copyPos[y]
    BY <1>1, <1>2
  <2>2. IsFiniteSet(Depositors) /\ copyPos \in [Depositors -> Nat]
    BY <1>1, HoldersFinite
  <2> HIDE DEF g
  <2>3. SumFunctionOnSet(g, Depositors) = SumFunctionOnSet(copyPos, Depositors) - copyPos[d] + g[d]
    BY <2>1, <2>2, SharesMove
  <2> QED BY <2>3 DEF g
<1>4. copy.shares \in Nat /\ copyPos[d] \in Nat
      /\ copy.shares = SumFunctionOnSet(copyPos, Depositors)
  BY <1>1 DEF CopyInv, CopyRecord
<1>5. copy'.shares = SumFunctionOnSet(copyPos', Depositors)
  BY <1>2, <1>3, <1>4
<1> QED BY <1>1, <1>5 DEF CopyInv, CopyVaultWhole

LEMMA CopyDepositKeeps ==
    ASSUME CopyInv, NEW d \in Depositors, NEW amount \in VaultAmounts,
           DepositToCopyVault(d, amount)
    PROVE  CopyInv'
<1>0. /\ copy \in CopyRecord /\ copyPos[d] \in Nat /\ amount \in Nat
      /\ copy.assets = copy.shares /\ copy.tokens >= copy.assets
      /\ copy.shares \in Nat /\ copy.tokens \in Nat
  BY VaultAssumption DEF CopyInv, CopyRecord, CopyVaultWhole
<1>1. SharesOnDeposit(amount, copy.shares, copy.assets) = amount
  BY <1>0, CopyPrice
<1>2. /\ copy' = [copy EXCEPT !.shares = @ + amount, !.assets = @ + amount, !.tokens = @ + amount]
      /\ copyPos' = [copyPos EXCEPT ![d] = copyPos[d] + amount]
  BY <1>1 DEF DepositToCopyVault
<1>3. /\ copy.shares + amount \in Nat /\ copy.assets + amount \in Nat
      /\ copy.tokens + amount \in Nat /\ copyPos[d] + amount \in Nat /\ amount \in Int
      /\ copy.tokens + amount >= copy.assets + amount
  BY <1>0
<1>4. /\ copy' \in CopyRecord /\ copy'.shares = copy.shares + amount
      /\ copy'.assets = copy'.shares /\ copy'.tokens >= copy'.assets
  BY <1>0, <1>2, <1>3 DEF CopyRecord
<1> QED BY <1>2, <1>3, <1>4, CopyMove

LEMMA CopyWithdrawKeeps ==
    ASSUME CopyInv, NEW d \in Depositors, NEW burned \in 1 .. copyPos[d],
           WithdrawFromCopyVault(d, burned)
    PROVE  CopyInv'
<1>0. /\ copy \in CopyRecord /\ copyPos[d] \in Nat /\ burned \in Nat
      /\ copy.assets = copy.shares /\ copy.tokens >= copy.assets
      /\ copy.shares \in Nat /\ copy.tokens \in Nat
  BY DEF CopyInv, CopyRecord, CopyVaultWhole
<1>1. burned <= copyPos[d] /\ burned <= copy.shares /\ copy.shares # 0
  BY <1>0 DEF WithdrawFromCopyVault
<1>2. AssetsOnWithdraw(burned, copy.shares, copy.assets) = burned
  BY <1>0, <1>1, CopyPrice
<1>3. copy.assets - burned \in Nat /\ copy.shares - burned \in Nat /\ copy.tokens - burned \in Nat
      /\ copy.tokens - burned >= copy.assets - burned
  BY <1>0, <1>1
<1>4. Max({copy.assets - burned, 0}) = copy.assets - burned
  <2>1. Max({copy.assets - burned, 0})
          = IF copy.assets - burned >= 0 THEN copy.assets - burned ELSE 0
    BY <1>3, MaxOfTwo
  <2> QED BY <1>3, <2>1
<1>5. /\ copy' = [copy EXCEPT !.shares = @ - burned, !.assets = copy.assets - burned,
                              !.tokens = @ - burned]
      /\ copyPos' = [copyPos EXCEPT ![d] = copyPos[d] - burned]
  BY <1>2, <1>4 DEF WithdrawFromCopyVault, CopyAfter
<1>6. /\ copy' \in CopyRecord /\ copy'.shares = copy.shares - burned
      /\ copy'.assets = copy'.shares /\ copy'.tokens >= copy'.assets
  BY <1>0, <1>3, <1>5 DEF CopyRecord
<1>7. /\ copyPos[d] - burned = copyPos[d] + (0 - burned) /\ copyPos[d] + (0 - burned) \in Nat
      /\ 0 - burned \in Int /\ copy.shares - burned = copy.shares + (0 - burned)
  BY <1>0, <1>1
<1> QED BY <1>5, <1>6, <1>7, CopyMove

LEMMA CopyStep ==
    ASSUME CopyInv, CopyNext
    PROVE  CopyInv'
<1>0. copy \in CopyRecord
  BY DEF CopyInv
<1>1. ASSUME CreateCopyVault PROVE CopyInv'
  BY <1>0, <1>1 DEF CopyInv, CopyRecord, CopyVaultWhole, CreateCopyVault
<1>2. ASSUME DonateTokens PROVE CopyInv'
  <2>1. copy.tokens \in Nat /\ copy.assets \in Nat /\ copy.tokens >= copy.assets
    BY DEF CopyInv, CopyRecord, CopyVaultWhole
  <2>2. copy.tokens + 1 \in Nat /\ copy.tokens + 1 >= copy.assets
    BY <2>1, SMTT(30)
  <2> QED BY <1>0, <1>2, <2>2, SMTT(30) DEF CopyInv, CopyRecord, CopyVaultWhole, DonateTokens
<1> QED BY <1>1, <1>2, CopyDepositKeeps, CopyWithdrawKeeps DEF CopyNext

(* The two vaults share no state but the bounds of the model.              *)
LEMMA VaultsApart ==
    /\ StrategyNext => UNCHANGED <<copy, copyPos>>
    /\ CopyNext => UNCHANGED <<vault, vaultPos>>
BY DEF StrategyNext, CopyNext, CreateVault, VaultOpenTraderState, VaultDeposit, VaultWithdraw,
       VaultPlaceOrder, VaultCancelOrder, VaultOrderFills, SettleVaultPerfFee,
       CreateCopyVault, DepositToCopyVault, WithdrawFromCopyVault, DonateTokens

LEMMA VaultStep ==
    ASSUME VaultInv, [VaultNext]_vaultVars
    PROVE  VaultInv'
<1>1. CASE StrategyNext
  <2>1. StrategyInv'
    BY <1>1, StrategyStep DEF VaultInv
  <2>2. CopyInv'
    BY <1>1, VaultsApart DEF VaultInv, CopyInv, CopyVaultWhole
  <2> QED BY <2>1, <2>2 DEF VaultInv
<1>2. CASE CopyNext
  <2>1. CopyInv'
    BY <1>2, CopyStep DEF VaultInv
  <2>2. StrategyInv'
    BY <1>2, VaultsApart DEF VaultInv, StrategyInv
  <2> QED BY <2>1, <2>2 DEF VaultInv
<1>3. CASE UNCHANGED vaultVars
  BY <1>3 DEF VaultInv, StrategyInv, CopyInv, CopyVaultWhole, vaultVars
<1> QED BY <1>1, <1>2, <1>3 DEF VaultNext

LEMMA VaultInvariance == VaultSpec => []VaultInv
<1>1. VaultInit => VaultInv
  BY VaultInitInv
<1>2. VaultInv /\ [VaultNext]_vaultVars => VaultInv'
  BY VaultStep
<1> QED BY <1>1, <1>2, PTL DEF VaultSpec

(* In every reachable state of every vault, with any depositors, deposits, *)
(* profits, fees and donations, the holders' shares add up to the vault's  *)
(* total (which withdraw_from_copy_vault subtracts unchecked), and the     *)
(* copy vault's tokens cover its assets at exactly one lot a share.        *)
THEOREM VaultSharesAreSound == VaultSpec => []SharesSound
<1>1. VaultInv => SharesSound
  BY DEF VaultInv, StrategyInv, CopyInv, SharesSound, VaultTypeOK, VaultRecord, CopyRecord
<1> QED BY <1>1, VaultInvariance, PTL

-----------------------------------------------------------------------------
(* What a step may do to those who stay.                                   *)

(* A deposit of a into c collateral and s shares, minting m.               *)
LEMMA EntryIsFair ==
    ASSUME NEW c \in Nat, NEW s \in Nat, NEW a \in Nat, NEW m \in Nat, c * m <= a * s
    PROVE  (c + a) * s >= c * (s + m)
<1>1. (c + a) * s = c * s + a * s /\ c * (s + m) = c * s + c * m
  OBVIOUS
<1>2. c * s \in Int /\ a * s \in Int /\ c * m \in Int
  OBVIOUS
<1> QED BY <1>1, <1>2

(* A withdrawal of a from c collateral for b of s shares.                  *)
LEMMA ExitIsFair ==
    ASSUME NEW c \in Nat, NEW s \in Nat, NEW a \in Nat, NEW b \in Nat, s * a <= b * c
    PROVE  (c - a) * s >= c * (s - b)
<1>1. (c - a) * s = c * s - s * a /\ c * (s - b) = c * s - b * c
  OBVIOUS
<1>2. c * s \in Int /\ s * a \in Int /\ b * c \in Int
  OBVIOUS
<1> QED BY <1>1, <1>2

Fair ==
    (/\ vault.shares > 0 /\ vault'.shares > 0 /\ vault'.collateral # vault.collateral
     /\ vault'.shares # vault.shares)
      => /\ vault'.collateral * vault.shares >= vault.collateral * vault'.shares
         /\ ~vault.open

MarkKept ==
    (vault.shares > 0 /\ vault'.shares > 0) =>
      /\ vault'.hwm >= vault.hwm
      /\ (vault'.shares > vault.shares /\ vault'.collateral = vault.collateral)
           => PerShare(vault'.collateral, vault'.shares) >= vault.hwm

LEMMA DepositFair ==
    ASSUME StrategyInv, NEW d \in Depositors, NEW amount \in VaultAmounts,
           VaultDeposit(d, amount)
    PROVE  Fair /\ MarkKept
<1> DEFINE c == vault.collateral
           s == vault.shares
           m == Minted(amount, s, c)
<1>0. amount \in Nat \ {0} /\ vault \in VaultRecord
  BY VaultAssumption DEF StrategyInv
<1>1. c \in Nat /\ s \in Nat /\ vault.hwm \in Nat
  BY <1>0 DEF VaultRecord
<1>2. m \in Nat /\ (s > 0 => c * m <= amount * s)
  <2>1. s > 0 => c > 0
    BY <1>1 DEF VaultDeposit, Drained
  <2> HIDE DEF c, s
  <2> QED BY <1>0, <1>1, <2>1, MintedBounds
<1>3. /\ vault'.collateral = c + amount /\ vault'.shares = s + m /\ vault'.hwm = vault.hwm
      /\ ~vault.open
  BY <1>0 DEF VaultDeposit, VaultRecord, FlatForEntry
<1> HIDE DEF m
<1>4. s > 0 => vault'.collateral * s >= c * vault'.shares
  <2> HIDE DEF c, s
  <2> QED BY <1>0, <1>1, <1>2, <1>3, EntryIsFair
<1>5. Fair
  BY <1>3, <1>4 DEF Fair
<1>6. MarkKept
  BY <1>0, <1>1, <1>3 DEF MarkKept
<1> QED BY <1>5, <1>6

LEMMA WithdrawFair ==
    ASSUME StrategyInv, NEW h \in Holders, NEW burned \in 1 .. vaultPos[h],
           VaultWithdraw(h, burned)
    PROVE  Fair /\ MarkKept
<1> DEFINE c == vault.collateral
           s == vault.shares
           amount == VaultAmount(burned)
<1>0. vault \in VaultRecord /\ vaultPos[h] \in Nat /\ burned \in Nat \ {0}
  BY DEF StrategyInv
<1>1. c \in Nat /\ s \in Nat /\ vault.hwm \in Nat
  BY <1>0 DEF VaultRecord
<1>2. burned <= s /\ s # 0
  <2>1. burned \in 1 .. Min({vaultPos[h], s})
    BY DEF VaultWithdraw
  <2>2. Min({vaultPos[h], s}) = IF vaultPos[h] <= s THEN vaultPos[h] ELSE s
    BY <1>0, <1>1, MinOfTwo
  <2> QED BY <1>0, <1>1, <2>1, <2>2
<1>3. amount \in Nat /\ s * amount <= burned * c
  <2>1. amount = (burned * c) \div s
    BY DEF VaultAmount
  <2> HIDE DEF amount, c, s
  <2> QED BY <1>0, <1>1, <1>2, <2>1, PartOf
<1>4. /\ vault'.collateral = c - amount /\ vault'.shares = s - burned /\ vault'.hwm = vault.hwm
      /\ ~vault.open
  BY <1>0 DEF VaultWithdraw, VaultRecord, FlatForExit
<1> HIDE DEF amount
<1>5. vault'.collateral * s >= c * vault'.shares
  <2> HIDE DEF c, s
  <2> QED BY <1>0, <1>1, <1>3, <1>4, ExitIsFair
<1>6. Fair
  BY <1>4, <1>5 DEF Fair
<1>7. MarkKept
  BY <1>0, <1>1, <1>4 DEF MarkKept
<1> QED BY <1>6, <1>7

LEMMA FeeFair ==
    ASSUME StrategyInv, SettleVaultPerfFee
    PROVE  Fair /\ MarkKept
<1> DEFINE c == vault.collateral
           s == vault.shares
           k == vault.hwm
           now == PerShare(c, s)
           m == FeeShares(k)
<1>0. vault \in VaultRecord
  BY DEF StrategyInv
<1>1. c \in Nat /\ s \in Nat /\ k \in Nat /\ UsdUnit \in Nat
  BY <1>0, VaultAssumption DEF VaultRecord
<1>2. vault'.collateral = c
  BY <1>0 DEF SettleVaultPerfFee, VaultRecord, FeeSettled
<1>3. Fair
  BY <1>2 DEF Fair
<1>4. CASE s = 0
  BY <1>1, <1>3, <1>4 DEF MarkKept
<1>5. CASE s # 0 /\ (k = 0 \/ m = 0)
  <2>1. now \in Nat
    BY <1>1, <1>5, PerShareNat
  <2>2. vault'.hwm = now /\ vault'.shares = s /\ (k = 0 \/ now > k)
    BY <1>0, <1>5 DEF SettleVaultPerfFee, VaultRecord
  <2> HIDE DEF now
  <2> QED BY <1>1, <1>3, <2>1, <2>2 DEF MarkKept
<1>6. CASE s # 0 /\ ~(k = 0 \/ m = 0)
  <2>1. s > 0 /\ c > 0 /\ now > k
    BY <1>1, <1>6 DEF SettleVaultPerfFee
  <2>2. m \in Nat /\ k * (s + m) <= c * UsdUnit
    BY <2>1, FeeSharesBounds
  <2>3. vault'.shares = s + m /\ vault'.hwm = PerShare(c, s + m)
    BY <1>0, <1>6 DEF SettleVaultPerfFee, VaultRecord, FeeSettled
  <2> HIDE DEF c, s, k, m
  <2>4. PerShare(c, s + m) >= k
    <3>1. s + m \in Nat \ {0} /\ c * UsdUnit \in Int /\ k \in Int
      BY <1>1, <2>1, <2>2
    <3> QED BY <2>2, <3>1, DivAtLeast DEF PerShare
  <2> QED BY <1>2, <1>3, <2>3, <2>4 DEF MarkKept, k
<1> QED BY <1>4, <1>5, <1>6, <1>3

LEMMA StrategyFair ==
    ASSUME StrategyInv, StrategyNext
    PROVE  Fair /\ MarkKept
<1>0. vault \in VaultRecord /\ vault.hwm \in Nat /\ vault.shares \in Nat
  BY DEF StrategyInv, VaultRecord
<1>1. ASSUME vault'.shares = vault.shares, vault'.hwm = vault.hwm PROVE Fair /\ MarkKept
  BY <1>0, <1>1 DEF Fair, MarkKept
<1>2. ASSUME NEW bps \in PerfFees, CreateVault(bps) PROVE Fair /\ MarkKept
  BY <1>0, <1>1, <1>2 DEF CreateVault, VaultRecord
<1>3. ASSUME VaultOpenTraderState PROVE Fair /\ MarkKept
  BY <1>0, <1>1, <1>3 DEF VaultOpenTraderState, VaultRecord
<1>4. ASSUME NEW delegated \in BOOLEAN, VaultPlaceOrder(delegated) PROVE Fair /\ MarkKept
  BY <1>0, <1>1, <1>4 DEF VaultPlaceOrder, VaultRecord
<1>5. ASSUME VaultCancelOrder PROVE Fair /\ MarkKept
  BY <1>0, <1>1, <1>5 DEF VaultCancelOrder, VaultRecord
<1>6. ASSUME NEW pnl \in Pnls, VaultOrderFills(pnl) PROVE Fair /\ MarkKept
  BY <1>0, <1>1, <1>6 DEF VaultOrderFills, VaultRecord
<1> QED BY <1>2, <1>3, <1>4, <1>5, <1>6, DepositFair, WithdrawFair, FeeFair DEF StrategyNext

(* Whoever stays in a vault is never diluted by another's deposit or       *)
(* withdrawal, with all roundings of the code, for any amounts; and the    *)
(* performance fee is never taken on a gain that was already charged: the  *)
(* mark does not fall while there are shares, nor a share below the mark.  *)
THEOREM VaultHoldersStayWhole == VaultSpec => VaultHoldersWhole
<1>1. VaultInv /\ VaultInv' /\ [VaultNext]_vaultVars => Fair /\ MarkKept
  <2> SUFFICES ASSUME VaultInv, [VaultNext]_vaultVars PROVE Fair /\ MarkKept
    OBVIOUS
  <2>1. CASE StrategyNext
    BY <2>1, StrategyFair DEF VaultInv
  <2>2. CASE UNCHANGED <<vault, vaultPos>>
    <3>1. vault.hwm \in Nat /\ vault.shares \in Nat
      BY DEF VaultInv, StrategyInv, VaultRecord
    <3> QED BY <2>2, <3>1 DEF Fair, MarkKept
  <2>3. CASE CopyNext
    BY <2>2, <2>3, VaultsApart
  <2>4. CASE UNCHANGED vaultVars
    BY <2>2, <2>4 DEF vaultVars
  <2> QED BY <2>1, <2>3, <2>4 DEF VaultNext
<1>2. VaultInv /\ VaultInv' => copy'.assets * copy.shares >= copy.assets * copy'.shares
  <2> SUFFICES ASSUME VaultInv, VaultInv'
               PROVE  copy'.assets * copy.shares >= copy.assets * copy'.shares
    OBVIOUS
  <2>1. copy.shares \in Nat /\ copy'.shares \in Nat
    BY DEF VaultInv, CopyInv, CopyRecord
  <2>2. copy.assets = copy.shares /\ copy'.assets = copy'.shares
    BY DEF VaultInv, CopyInv, CopyVaultWhole
  <2> QED BY <2>1, <2>2
<1>3. VaultInv /\ VaultInv' /\ [VaultNext]_vaultVars =>
        [/\ (/\ vault.shares > 0 /\ vault'.shares > 0 /\ vault'.collateral # vault.collateral
             /\ vault'.shares # vault.shares)
              => /\ vault'.collateral * vault.shares >= vault.collateral * vault'.shares
                 /\ ~vault.open
         /\ (copy.shares > 0 /\ copy'.shares > 0)
              => copy'.assets * copy.shares >= copy.assets * copy'.shares]_vaultVars
  BY <1>1, <1>2 DEF Fair
<1>4. VaultInv /\ VaultInv' /\ [VaultNext]_vaultVars =>
        [(vault.shares > 0 /\ vault'.shares > 0) =>
           /\ vault'.hwm >= vault.hwm
           /\ (vault'.shares > vault.shares /\ vault'.collateral = vault.collateral)
                => PerShare(vault'.collateral, vault'.shares) >= vault.hwm]_vaultVars
  BY <1>1 DEF MarkKept
<1> QED BY <1>3, <1>4, VaultInvariance, PTL
        DEF VaultSpec, VaultHoldersWhole, VaultNoDilution, FeeOnlyOnNewGain

-----------------------------------------------------------------------------
(* The liquidity pools: what a fill does to a pool's books.                *)

Inventory == [lots : Int, entry : Nat]

(* Stacking costs the holder at least what was paid: the entry is rounded  *)
(* up for a long and down for a short.                                     *)
LEMMA StackingCost ==
    ASSUME NEW l \in Int, NEW e \in Nat, NEW n \in Int, NEW px \in Nat, l * n > 0
    PROVE  /\ StackEntry(l, e, n, px) \in Nat
           /\ (l + n) * StackEntry(l, e, n, px) >= l * e + n * px
<1> DEFINE cost == e * Abs(l) + px * Abs(n)
           b == Abs(l + n)
           q == StackEntry(l, e, n, px)
<1>0. (l > 0 /\ n > 0) \/ (l < 0 /\ n < 0)
  BY SignOfProduct
<1>1. Abs(l) \in Nat /\ Abs(n) \in Nat /\ b \in Nat \ {0}
  BY <1>0 DEF Abs
<1>2. cost \in Nat
  <2>1. e * Abs(l) \in Nat /\ px * Abs(n) \in Nat
    BY <1>1
  <2> QED BY <2>1
<1>3. CASE l > 0
  <2>1. n > 0
    BY <1>0, <1>3
  <2>2. b = l + n /\ cost = e * l + px * n
    BY <1>3, <2>1 DEF Abs
  <2>3. q = CeilDivide(cost, b)
    BY <1>3 DEF StackEntry
  <2> HIDE DEF q, cost, b
  <2>4. q \in Nat /\ b * q >= cost
    BY <1>1, <1>2, <2>3, CeilFacts DEF CeilDivide
  <2>5. e * l = l * e /\ px * n = n * px
    OBVIOUS
  <2> QED BY <2>2, <2>4, <2>5 DEF q
<1>4. CASE l < 0
  <2>1. n < 0
    BY <1>0, <1>4
  <2>2. b = -(l + n) /\ cost = e * (-l) + px * (-n)
    BY <1>4, <2>1 DEF Abs
  <2>3. q = cost \div b
    BY <1>4 DEF StackEntry
  <2> HIDE DEF q, cost, b
  <2>4. q \in Nat /\ b * q <= cost
    BY <1>1, <1>2, <2>3, DivFacts
  <2>5. cost = -(l * e + n * px)
    BY <2>2
  <2>6. b * q = -((l + n) * q)
    BY <2>2, <2>4
  <2>7. (l + n) * q \in Int /\ l * e + n * px \in Int
    BY <2>4
  <2> QED BY <2>4, <2>5, <2>6, <2>7 DEF q
<1> QED BY <1>0, <1>3, <1>4

(* A fill of n lots at px: the position stays typed, and what the          *)
(* inventory cost grows by no less than what was paid and realized.        *)
LEMMA FillCost ==
    ASSUME NEW p \in Inventory, NEW n \in Int, NEW px \in Nat
    PROVE  /\ InventoryAfter(p, n, px) \in Inventory
           /\ RealizedOn(p, n, px) \in Int
           /\ InventoryAfter(p, n, px).lots * InventoryAfter(p, n, px).entry
                >= p.lots * p.entry + n * px + RealizedOn(p, n, px)
<1> DEFINE l == p.lots
           e == p.entry
           q == InventoryAfter(p, n, px)
           r == RealizedOn(p, n, px)
<1>0. l \in Int /\ e \in Nat
  BY DEF Inventory
<1> SUFFICES q \in Inventory /\ r \in Int /\ q.lots * q.entry >= l * e + n * px + r
  OBVIOUS
<1>1. /\ q.lots = l + n
      /\ q.entry = IF l + n = 0 THEN 0 ELSE IF l * (l + n) <= 0 THEN px
                   ELSE IF l * n > 0 THEN StackEntry(l, e, n, px) ELSE e
      /\ q = [lots |-> q.lots, entry |-> q.entry]
  BY DEF InventoryAfter
<1>2. l * n >= 0 => r = 0
  BY DEF RealizedOn
<1>3. ASSUME l * n < 0
      PROVE  r = IF Abs(n) <= Abs(l) THEN (-n) * (px - e) ELSE l * (px - e)
  <2>1. (l > 0 /\ n < 0) \/ (l < 0 /\ n > 0)
    BY <1>0, <1>3, SignOfProduct
  <2>2. Abs(n) \in Int /\ Abs(l) \in Int
    BY <1>0 DEF Abs
  <2>3. Min({Abs(n), Abs(l)}) = IF Abs(n) <= Abs(l) THEN Abs(n) ELSE Abs(l)
    BY <2>2, MinOfTwo
  <2>4. r = (IF l > 0 THEN 1 ELSE -1) * Min({Abs(n), Abs(l)}) * (px - e)
    <3>1. l * n \in Int
      BY <1>0
    <3> QED BY <1>3, <3>1 DEF RealizedOn
  <2>5. (IF l > 0 THEN 1 ELSE -1) * Min({Abs(n), Abs(l)}) = IF Abs(n) <= Abs(l) THEN -n ELSE l
    BY <1>0, <2>1, <2>2, <2>3 DEF Abs
  <2> QED BY <2>4, <2>5
<1> HIDE DEF l, e, q, r
<1>4. r \in Int
  <2>1. l * n \in Int
    BY <1>0
  <2>2. (-n) * (px - e) \in Int /\ l * (px - e) \in Int
    BY <1>0
  <2> QED BY <1>2, <1>3, <2>1, <2>2
<1>5. ASSUME q.entry \in Nat, (l + n) * q.entry >= l * e + n * px + r
      PROVE  q \in Inventory /\ r \in Int /\ q.lots * q.entry >= l * e + n * px + r
  <2>1. l + n \in Int
    BY <1>0
  <2> QED BY <1>1, <1>4, <1>5, <2>1 DEF Inventory
<1>6. CASE l * n > 0
  <2>1. (l > 0 /\ n > 0) \/ (l < 0 /\ n < 0)
    BY <1>0, <1>6, SignOfProduct
  <2>2. l + n # 0 /\ ((l > 0 /\ l + n > 0) \/ (l < 0 /\ l + n < 0))
    BY <1>0, <2>1
  <2>3. l * (l + n) > 0 /\ l * (l + n) \in Int
    <3>1. l + n \in Int
      BY <1>0
    <3> QED BY <1>0, <2>2, <3>1, SignOfProduct
  <2>4. q.entry = StackEntry(l, e, n, px)
    BY <1>1, <1>6, <2>2, <2>3
  <2>5. q.entry \in Nat /\ (l + n) * q.entry >= l * e + n * px
    BY <1>0, <1>6, <2>4, StackingCost
  <2>6. l * e + n * px + r = l * e + n * px
    <3>1. r = 0
      BY <1>0, <1>2, <1>6
    <3>2. l * e + n * px \in Int
      BY <1>0
    <3> QED BY <3>1, <3>2
  <2> QED BY <1>5, <2>5, <2>6
<1>7. CASE l * n = 0
  <2>1. (l = 0 \/ n = 0) /\ r = 0
    BY <1>0, <1>2, <1>7, SignOfProduct
  <2>2. CASE l = 0
    <3>1. l * (l + n) <= 0 /\ l * e = 0
      BY <1>0, <2>2
    <3>2. q.entry = IF n = 0 THEN 0 ELSE px
      BY <1>0, <1>1, <2>2, <3>1
    <3>3. n * px \in Int /\ 0 * px = 0 /\ 0 * 0 = 0
      OBVIOUS
    <3>4. (l + n) * q.entry = n * px
      BY <1>0, <2>2, <3>2, <3>3
    <3>5. q.entry \in Nat
      BY <3>2
    <3> QED BY <1>5, <2>1, <3>1, <3>3, <3>4, <3>5
  <2>3. CASE l # 0 /\ n = 0
    <3>1. l * (l + n) > 0 /\ l + n = l
      <4>1. l + n = l
        BY <1>0, <2>3
      <4> QED BY <1>0, <2>3, <4>1, SignOfProduct
    <3>2. l * (l + n) \in Int /\ ~(l * n > 0)
      BY <1>0, <1>7
    <3>3. q.entry = e
      BY <1>0, <1>1, <2>3, <3>1, <3>2
    <3>4. n * px = 0 /\ l * e \in Int
      BY <1>0, <2>3
    <3> QED BY <1>0, <1>5, <2>1, <3>1, <3>3, <3>4
  <2> QED BY <2>1, <2>2, <2>3
<1>8. CASE l * n < 0
  <2>1. (l > 0 /\ n < 0) \/ (l < 0 /\ n > 0)
    BY <1>0, <1>8, SignOfProduct
  <2>2. CASE Abs(n) <= Abs(l)
    <3>1. r = (-n) * (px - e)
      BY <1>3, <1>8, <2>2
    <3>2. (l + n) * e = l * e + n * px + r
      BY <1>0, <3>1, ClosingCost
    <3>3. CASE l + n = 0
      <4>1. q.entry = 0 /\ (l + n) * e = 0 /\ (l + n) * q.entry = 0
        BY <1>0, <1>1, <3>3
      <4> QED BY <1>5, <3>2, <4>1
    <3>4. CASE l + n # 0
      <4>1. (l > 0 /\ l + n > 0) \/ (l < 0 /\ l + n < 0)
        BY <1>0, <2>1, <2>2, <3>4 DEF Abs
      <4>2. l + n \in Int
        BY <1>0
      <4>3. l * (l + n) > 0 /\ l * (l + n) \in Int /\ l * n \in Int
        BY <1>0, <4>1, <4>2, SignOfProduct
      <4>4. q.entry = e
        BY <1>1, <1>8, <3>4, <4>3
      <4>5. (l + n) * e \in Int
        BY <1>0
      <4> QED BY <1>0, <1>5, <3>2, <4>4, <4>5
    <3> QED BY <3>3, <3>4
  <2>3. CASE ~(Abs(n) <= Abs(l))
    <3>1. r = l * (px - e)
      BY <1>3, <1>8, <2>3
    <3>2. (l + n) * px = l * e + n * px + r
      BY <1>0, <3>1, ClosingCost
    <3>3. (l > 0 /\ l + n < 0) \/ (l < 0 /\ l + n > 0)
      BY <1>0, <2>1, <2>3 DEF Abs
    <3>4. l + n \in Int
      BY <1>0
    <3>5. l * (l + n) < 0 /\ l * (l + n) \in Int
      BY <1>0, <3>3, <3>4, SignOfProduct
    <3>6. q.entry = px
      BY <1>1, <3>3, <3>4, <3>5
    <3>7. (l + n) * px \in Int
      BY <3>4
    <3> QED BY <1>5, <3>2, <3>6, <3>7
  <2> QED BY <2>2, <2>3
<1>9. l * n \in Int
  BY <1>0
<1> QED BY <1>6, <1>7, <1>8, <1>9

-----------------------------------------------------------------------------
Account == [capital : Nat, pnl : Int, shares : Nat, inv : [Markets -> Inventory]]
Share == [shares : Nat, since : Nat]
Quote == [n : Int, px : Nat, slot : Nat]
LpFill == [m : Markets, n : Int, px : Nat]

(* Cost, and the marked value, are integers.                               *)
LEMMA CostInt ==
    ASSUME NEW acct \in Account
    PROVE  Cost(acct) \in Int /\ Nav(acct) \in Int
<1>1. \A m \in Markets : [k \in Markets |-> acct.inv[k].lots * acct.inv[k].entry][m] \in Int
  <2> SUFFICES ASSUME NEW m \in Markets PROVE acct.inv[m].lots * acct.inv[m].entry \in Int
    OBVIOUS
  <2>1. acct.inv[m].lots \in Int /\ acct.inv[m].entry \in Int
    BY DEF Account, Inventory
  <2> QED BY <2>1
<1>2. Cost(acct) \in Int
  BY <1>1, LpAssumption, SumInt DEF Cost
<1> QED BY <1>2 DEF Account, Nav

(* Booking a fill of n lots at px: the NAV over cost falls by n * px.      *)
LEMMA BookedBacked ==
    ASSUME NEW acct \in Account, NEW m \in Markets, NEW n \in Int, NEW px \in Nat
    PROVE  /\ Booked(acct, m, n, px) \in Account
           /\ Booked(acct, m, n, px).shares = acct.shares
           /\ Nav(Booked(acct, m, n, px)) - Cost(Booked(acct, m, n, px))
                <= Nav(acct) - Cost(acct) - n * px
<1> DEFINE p == acct.inv[m]
           q == InventoryAfter(p, n, px)
           r == RealizedOn(p, n, px)
           after == Booked(acct, m, n, px)
           f == [k \in Markets |-> acct.inv[k].lots * acct.inv[k].entry]
           g == [k \in Markets |-> after.inv[k].lots * after.inv[k].entry]
<1>0. p \in Inventory /\ acct.inv \in [Markets -> Inventory]
  BY DEF Account
<1>1. q \in Inventory /\ r \in Int /\ q.lots * q.entry >= p.lots * p.entry + n * px + r
  BY <1>0, FillCost
<1>2. after = [acct EXCEPT !.inv[m] = q, !.pnl = @ + r]
  BY DEF Booked
<1> HIDE DEF q, r, after
<1>3. /\ after \in Account /\ after.shares = acct.shares
      /\ after.capital = acct.capital /\ after.pnl = acct.pnl + r
      /\ after.inv[m] = q /\ \A k \in Markets \ {m} : after.inv[k] = acct.inv[k]
  <2>1. acct.pnl + r \in Int
    BY <1>1 DEF Account
  <2> QED BY <1>0, <1>1, <1>2, <2>1 DEF Account
<1>4. /\ f[m] = p.lots * p.entry /\ g[m] = q.lots * q.entry
      /\ \A k \in Markets \ {m} : g[k] = f[k]
  BY <1>3
<1>5. \A k \in Markets : f[k] \in Int /\ g[k] \in Int
  <2> SUFFICES ASSUME NEW k \in Markets PROVE f[k] \in Int /\ g[k] \in Int
    OBVIOUS
  <2>1. /\ acct.inv[k].lots \in Int /\ acct.inv[k].entry \in Int
        /\ after.inv[k].lots \in Int /\ after.inv[k].entry \in Int
    BY <1>3 DEF Account, Inventory
  <2> QED BY <2>1
<1>6. Cost(acct) = SumFunctionOnSet(f, Markets) /\ Cost(after) = SumFunctionOnSet(g, Markets)
  BY DEF Cost
<1> HIDE DEF f, g
<1>7. SumFunctionOnSet(g, Markets) = SumFunctionOnSet(f, Markets) - f[m] + g[m]
  <2>1. IsFiniteSet(Markets)
    BY LpAssumption
  <2>2. \A k \in Markets : f[k] \in Int
    BY <1>5
  <2>3. g[m] \in Int
    BY <1>5
  <2>4. \A k \in Markets \ {m} : g[k] = f[k]
    BY <1>4
  <2> QED BY <2>1, <2>2, <2>3, <2>4, SumUpdate
<1>8. Nav(after) = Nav(acct) + r
  BY <1>1, <1>3 DEF Nav, Account
<1>9. g[m] >= f[m] + n * px + r
  BY <1>1, <1>4
<1>10. Nav(acct) \in Int /\ Cost(acct) \in Int /\ n * px \in Int /\ f[m] \in Int /\ g[m] \in Int
  BY <1>5, CostInt
<1>11. Nav(after) - Cost(after) <= Nav(acct) - Cost(acct) - n * px
  BY <1>1, <1>6, <1>7, <1>8, <1>9, <1>10
<1> QED BY <1>3, <1>11 DEF after

(* Money paid out leaves the NAV, whether of capital or of profit.         *)
LEMMA PaidOutLeaves ==
    ASSUME NEW acct \in Account, NEW amount \in Nat
    PROVE  /\ PaidOut(acct, amount) \in Account
           /\ PaidOut(acct, amount).shares = acct.shares
           /\ PaidOut(acct, amount).inv = acct.inv
           /\ Nav(PaidOut(acct, amount)) = Nav(acct) - amount
<1> DEFINE c == acct.capital
           principal == Min({amount, c})
<1>0. c \in Nat /\ acct.pnl \in Int
  BY DEF Account
<1>1. principal = IF amount <= c THEN amount ELSE c
  BY <1>0, MinOfTwo
<1>2. principal \in Nat /\ c - principal \in Nat /\ acct.pnl - (amount - principal) \in Int
  BY <1>0, <1>1
<1>3. PaidOut(acct, amount)
        = [acct EXCEPT !.capital = c - principal, !.pnl = acct.pnl - (amount - principal)]
  BY DEF PaidOut
<1> HIDE DEF principal
<1>4. /\ PaidOut(acct, amount) \in Account
      /\ PaidOut(acct, amount).shares = acct.shares /\ PaidOut(acct, amount).inv = acct.inv
      /\ PaidOut(acct, amount).capital = c - principal
      /\ PaidOut(acct, amount).pnl = acct.pnl - (amount - principal)
  BY <1>2, <1>3 DEF Account
<1> QED BY <1>0, <1>2, <1>4 DEF Nav

-----------------------------------------------------------------------------
(* The invariant of the pools.                                             *)
LpTyped ==
    /\ mode \in {"unset", "singleton", "per_market"}
    /\ pool \in [Pools -> Account]
    /\ lpPos \in [Pools -> [LPs -> Share]]
    /\ oracle \in [Markets -> Prices \cup {NoOracle}]
    /\ quotes \in [Markets -> Seq(Quote)]
    /\ pending \in Seq(LpFill)
    /\ lpSlot \in Nat
    /\ flow \in [Pools -> Int]

Held(p) == SumFunctionOnSet([l \in LPs |-> lpPos[p][l].shares], LPs)
SharesExact == \A p \in Pools : pool[p].shares = Held(p)

(* The lock tells which system may have shares.                            *)
LockHolds == \A p \in Pools : pool[p].shares # 0 => mode = SystemOf(p)

LpInv == LpTyped /\ SharesExact /\ NavBacked /\ LockHolds

LEMMA LpInitInv == ASSUME LpInit PROVE LpInv
<1>0. MinHold \in Nat /\ IsFiniteSet(Markets) /\ IsFiniteSet(LPs)
  BY LpAssumption
<1> DEFINE empty == [capital |-> 0, pnl |-> 0, shares |-> 0, inv |-> [m \in Markets |-> Flat]]
<1>1. empty \in Account /\ Flat \in Inventory
  BY DEF Account, Inventory, Flat
<1>2. Cost(empty) = 0
  <2>1. \A k \in Markets : [m \in Markets |-> empty.inv[m].lots * empty.inv[m].entry][k] = 0
    BY DEF Flat
  <2> QED BY <1>0, <2>1, SumZero DEF Cost
<1>3. \A p \in Pools : pool[p] = empty /\ flow[p] = 0
  BY DEF LpInit
<1>4. NavBacked
  BY <1>2, <1>3 DEF NavBacked, Nav
<1>5. SharesExact
  <2> SUFFICES ASSUME NEW p \in Pools PROVE Held(p) = 0
    BY <1>3 DEF SharesExact
  <2>1. \A k \in LPs : [l \in LPs |-> lpPos[p][l].shares][k] = 0
    BY DEF LpInit
  <2> QED BY <1>0, <2>1, SumZero DEF Held
<1>6. LockHolds
  BY <1>3 DEF LockHolds
<1>7. LpTyped
  <2>1. [shares |-> 0, since |-> 0] \in Share
    BY DEF Share
  <2>2. <<>> \in Seq(Quote) /\ <<>> \in Seq(LpFill)
    BY EmptySeq
  <2>3. pool \in [Pools -> Account]
    BY <1>1 DEF LpInit
  <2> QED BY <1>0, <2>1, <2>2, <2>3 DEF LpInit, LpTyped
<1> QED BY <1>4, <1>5, <1>6, <1>7 DEF LpInv

(* A step that changes one pool's account, its shares apart, and the cash  *)
(* that flowed, keeps the pools backed when that pool stays backed.        *)
LEMMA OnePool ==
    ASSUME LpInv, NEW p \in Pools, NEW acct \in Account, NEW cash \in Int,
           pool' = [pool EXCEPT ![p] = acct], flow' = [flow EXCEPT ![p] = cash],
           Nav(acct) - Cost(acct) <= cash
    PROVE  pool' \in [Pools -> Account] /\ flow' \in [Pools -> Int] /\ NavBacked'
<1>1. pool \in [Pools -> Account] /\ flow \in [Pools -> Int]
  BY DEF LpInv, LpTyped
<1>2. pool' \in [Pools -> Account] /\ flow' \in [Pools -> Int]
  BY <1>1
<1>3. \A k \in Pools : Nav(pool'[k]) - Cost(pool'[k]) <= flow'[k]
  <2> SUFFICES ASSUME NEW k \in Pools PROVE Nav(pool'[k]) - Cost(pool'[k]) <= flow'[k]
    OBVIOUS
  <2>1. CASE k = p
    BY <1>1, <2>1
  <2>2. CASE k # p
    <3>1. pool'[k] = pool[k] /\ flow'[k] = flow[k]
      BY <1>1, <2>2
    <3> QED BY <3>1 DEF LpInv, NavBacked
  <2> QED BY <2>1, <2>2
<1>4. NavBacked'
  BY <1>3 DEF NavBacked, Nav, Cost
<1> QED BY <1>2, <1>4

(* A step that changes the shares of one LP by as much as its pool's.      *)
LEMMA OneHolder ==
    ASSUME LpInv, NEW p \in Pools, NEW l \in LPs, NEW share \in Share, NEW acct \in Account,
           pool' = [pool EXCEPT ![p] = acct],
           lpPos' = [lpPos EXCEPT ![p][l] = share],
           acct.shares - pool[p].shares = share.shares - lpPos[p][l].shares
    PROVE  lpPos' \in [Pools -> [LPs -> Share]] /\ SharesExact'
<1>1. pool \in [Pools -> Account] /\ lpPos \in [Pools -> [LPs -> Share]]
  BY DEF LpInv, LpTyped
<1>2. lpPos' \in [Pools -> [LPs -> Share]]
  BY <1>1
<1>3. ASSUME NEW k \in Pools PROVE pool'[k].shares = Held(k)'
  <2>0. pool[k].shares = Held(k)
    BY DEF LpInv, SharesExact
  <2>1. CASE k # p
    <3>1. pool'[k] = pool[k] /\ lpPos'[k] = lpPos[k]
      BY <1>1, <2>1
    <3> QED BY <2>0, <3>1 DEF Held
  <2>2. CASE k = p
    <3> DEFINE f == [x \in LPs |-> lpPos[p][x].shares]
               g == [x \in LPs |-> lpPos'[p][x].shares]
    <3>1. lpPos'[p] = [lpPos[p] EXCEPT ![l] = share] /\ pool'[p] = acct
      BY <1>1
    <3>2. /\ f[l] = lpPos[p][l].shares /\ g[l] = share.shares
          /\ \A x \in LPs \ {l} : g[x] = f[x]
      BY <1>1, <3>1
    <3>3. f[l] \in Nat /\ g[l] \in Nat /\ \A x \in LPs : f[x] \in Int
      BY <1>1, <3>2 DEF Share
    <3>4. Held(p) = SumFunctionOnSet(f, LPs) /\ Held(p)' = SumFunctionOnSet(g, LPs)
      BY DEF Held
    <3> HIDE DEF f, g
    <3>5. SumFunctionOnSet(g, LPs) = SumFunctionOnSet(f, LPs) - f[l] + g[l]
      <4>1. IsFiniteSet(LPs)
        BY LpAssumption
      <4>2. \A x \in LPs : f[x] \in Int
        BY <3>3
      <4>3. g[l] \in Int
        BY <3>3
      <4>4. \A x \in LPs \ {l} : g[x] = f[x]
        BY <3>2
      <4> QED BY <4>1, <4>2, <4>3, <4>4, SumUpdate
    <3>6. acct.shares \in Nat /\ pool[p].shares \in Nat
      BY <1>1 DEF Account
    <3>7. pool'[p].shares = Held(p)'
      BY <2>0, <2>2, <3>1, <3>2, <3>3, <3>4, <3>5, <3>6
    <3> QED BY <2>2, <3>7
  <2> QED BY <2>1, <2>2
<1>4. SharesExact'
  BY <1>3 DEF SharesExact
<1> QED BY <1>2, <1>4

(* What the inventory is worth at the oracle is an integer.                *)
LEMMA MtmInt ==
    ASSUME LpInv, NEW acct \in Account
    PROVE  Mtm(acct) \in Int
<1> DEFINE f == [m \in Markets |-> acct.inv[m].lots * (oracle[m] - acct.inv[m].entry)]
<1>1. \A m \in Markets : oracle[m] \in Int
  BY LpAssumption DEF LpInv, LpTyped, NoOracle
<1>2. \A m \in Open(acct) : f[m] \in Int
  <2> SUFFICES ASSUME NEW m \in Markets PROVE f[m] \in Int
    BY DEF Open
  <2>1. acct.inv[m].lots \in Int /\ oracle[m] - acct.inv[m].entry \in Int
    BY <1>1 DEF Account, Inventory
  <2> QED BY <2>1
<1>3. IsFiniteSet(Open(acct))
  BY LpAssumption, FS_Subset DEF Open
<1>4. SumFunctionOnSet(f, Open(acct)) \in Int
  <2> HIDE DEF f
  <2> QED BY <1>2, <1>3, SumInt
<1> QED BY <1>4 DEF Mtm

(* The pool of a system may mint only under that system's lock.            *)
LEMMA LockOnDeposit ==
    ASSUME LpInv, NEW p \in Pools, ModeAdmits(p), NEW acct,
           pool' = [pool EXCEPT ![p] = acct],
           mode' = IF mode = "unset" THEN SystemOf(p) ELSE mode
    PROVE  LockHolds' /\ mode' \in {"unset", "singleton", "per_market"}
<1>1. pool \in [Pools -> Account] /\ mode \in {"unset", "singleton", "per_market"}
  BY DEF LpInv, LpTyped
<1>2. mode' = SystemOf(p) /\ SystemOf(p) \in {"singleton", "per_market"}
  BY DEF ModeAdmits, SystemOf
<1>3. \A k \in Pools : pool[k].shares # 0 => mode = SystemOf(k) /\ mode # "unset"
  BY DEF LpInv, LockHolds, SystemOf
<1>4. \A k \in Pools : pool'[k].shares # 0 => mode' = SystemOf(k)
  <2> SUFFICES ASSUME NEW k \in Pools, pool'[k].shares # 0 PROVE mode' = SystemOf(k)
    OBVIOUS
  <2>1. CASE k = p
    BY <1>2, <2>1
  <2>2. CASE k # p
    BY <1>1, <1>3, <2>2
  <2> QED BY <2>1, <2>2
<1> QED BY <1>2, <1>4 DEF LockHolds, SystemOf

LEMMA LpDepositKeeps ==
    ASSUME LpInv, NEW p \in Pools, NEW l \in LPs, NEW amount \in Amounts, Deposit(p, l, amount)
    PROVE  /\ LpInv'
           /\ pool[p].shares > 0 =>
                /\ pool'[p].inv = pool[p].inv
                /\ (Nav(pool'[p]) + Mtm(pool[p])) * pool[p].shares
                     >= (Nav(pool[p]) + Mtm(pool[p])) * pool'[p].shares
           /\ \A k \in Pools \ {p} : pool'[k] = pool[k]
<1> DEFINE acct == pool[p]
           minted == SharesFor(acct, amount)
           after == [acct EXCEPT !.capital = @ + amount, !.shares = @ + minted]
           share == [shares |-> lpPos[p][l].shares + minted, since |-> lpSlot]
           cash == flow[p] + amount
           en == EntryNav(acct)
           s == acct.shares
<1>0. /\ amount \in Nat /\ acct \in Account /\ lpPos[p][l] \in Share /\ lpSlot \in Nat
      /\ flow[p] \in Int /\ pool \in [Pools -> Account] /\ lpPos \in [Pools -> [LPs -> Share]]
  BY LpAssumption DEF LpInv, LpTyped
<1>1. s \in Nat /\ acct.capital \in Nat /\ acct.pnl \in Int /\ lpPos[p][l].shares \in Nat
  BY <1>0 DEF Account, Share
<1>2. en \in Int /\ Nav(acct) \in Int /\ Cost(acct) \in Int /\ Mtm(acct) \in Int
      /\ en = Nav(acct) + Mtm(acct)
  BY <1>0, MtmInt, CostInt DEF EntryNav
<1>3. minted \in Nat /\ (s > 0 => en \in Nat /\ en * minted <= amount * s)
  <2>1. CASE s = 0
    BY <1>0, <2>1 DEF SharesFor
  <2>2. CASE s # 0
    <3>1. en \in Nat \ {0}
      BY <1>1, <1>2, <2>2 DEF Deposit
    <3>2. minted = (amount * s) \div en
      BY <2>2 DEF SharesFor
    <3>3. amount * s \in Nat
      BY <1>0, <1>1
    <3> HIDE DEF minted, en, s
    <3> QED BY <3>1, <3>2, <3>3, DivFacts
  <2> QED BY <2>1, <2>2
<1>4. /\ pool' = [pool EXCEPT ![p] = after] /\ flow' = [flow EXCEPT ![p] = cash]
      /\ lpPos' = [lpPos EXCEPT ![p][l] = share]
  <2>1. pool' = [pool EXCEPT ![p].capital = @ + amount, ![p].shares = @ + minted]
    BY DEF Deposit
  <2>2. lpPos' = [lpPos EXCEPT ![p][l] = [shares |-> @.shares + minted, since |-> lpSlot]]
    BY DEF Deposit
  <2>3. flow' = [flow EXCEPT ![p] = @ + amount]
    BY DEF Deposit
  <2> HIDE DEF minted
  <2> QED BY <1>0, <2>1, <2>2, <2>3 DEF Account
<1> HIDE DEF minted, en
<1>5. /\ after \in Account /\ after.inv = acct.inv /\ after.shares = s + minted
      /\ after.capital = acct.capital + amount /\ after.pnl = acct.pnl
  <2>1. acct.capital + amount \in Nat /\ s + minted \in Nat
    BY <1>0, <1>1, <1>3
  <2> QED BY <1>0, <2>1 DEF Account
<1>6. share \in Share /\ share.shares = lpPos[p][l].shares + minted /\ cash \in Int
  BY <1>0, <1>1, <1>3 DEF Share
<1>7. Nav(after) = Nav(acct) + amount /\ Cost(after) = Cost(acct)
  BY <1>0, <1>1, <1>5 DEF Nav, Cost
<1>8. Nav(after) - Cost(after) <= cash
  <2>1. Nav(acct) - Cost(acct) <= flow[p]
    BY DEF LpInv, NavBacked
  <2> HIDE DEF after
  <2> QED BY <1>0, <1>2, <1>7, <2>1
<1>9. /\ mode' = IF mode = "unset" THEN SystemOf(p) ELSE mode
      /\ ModeAdmits(p) /\ UNCHANGED <<oracle, quotes, pending, lpSlot>>
  BY DEF Deposit
<1> HIDE DEF after, share, cash
<1>10. pool' \in [Pools -> Account] /\ flow' \in [Pools -> Int] /\ NavBacked'
  BY <1>4, <1>5, <1>6, <1>8, OnePool
<1>11. lpPos' \in [Pools -> [LPs -> Share]] /\ SharesExact'
  <2>1. after.shares - pool[p].shares = share.shares - lpPos[p][l].shares
    BY <1>1, <1>3, <1>5, <1>6
  <2> QED BY <1>4, <1>5, <1>6, <2>1, OneHolder
<1>12. LockHolds' /\ mode' \in {"unset", "singleton", "per_market"}
  BY <1>4, <1>9, LockOnDeposit
<1>13. LpInv'
  BY <1>9, <1>10, <1>11, <1>12 DEF LpInv, LpTyped
<1>14. pool'[p] = after /\ \A k \in Pools \ {p} : pool'[k] = pool[k]
  BY <1>0, <1>4
<1>15. s > 0 => (Nav(after) + Mtm(acct)) * s >= (Nav(acct) + Mtm(acct)) * after.shares
  <2> SUFFICES ASSUME s > 0 PROVE (en + amount) * s >= en * (s + minted)
    <3>1. Nav(after) + Mtm(acct) = en + amount
      BY <1>0, <1>2, <1>7
    <3> QED BY <1>2, <1>5, <3>1
  <2> HIDE DEF s
  <2> QED BY <1>0, <1>1, <1>3, EntryIsFair
<1> QED BY <1>5, <1>13, <1>14, <1>15

(* What is paid for a part of the shares, at the exit price.               *)
LEMMA ExitPart ==
    ASSUME NEW burned \in Nat, NEW s \in Nat \ {0}, NEW xn \in Nat, NEW en \in Int, xn <= en,
           NEW amount, amount = (burned * xn) \div s
    PROVE  amount \in Nat /\ s * amount <= burned * en
<1>1. burned * xn \in Nat
  OBVIOUS
<1>2. amount \in Nat /\ s * amount <= burned * xn
  BY <1>1, DivFacts
<1>3. burned * xn <= burned * en
  BY MulMonotone
<1>4. burned * xn \in Int /\ burned * en \in Int /\ s * amount \in Int
  BY <1>2
<1> QED BY <1>2, <1>3, <1>4

LEMMA LpWithdrawKeeps ==
    ASSUME LpInv, NEW p \in Pools, NEW l \in LPs, NEW burned, NEW mark,
           Withdraw(p, l, burned, mark)
    PROVE  /\ LpInv'
           /\ (Nav(pool'[p]) + Mtm(pool[p])) * pool[p].shares
                >= (Nav(pool[p]) + Mtm(pool[p])) * pool'[p].shares
           /\ \A k \in Pools \ {p} : pool'[k] = pool[k]
<1> DEFINE acct == pool[p]
           s == acct.shares
           xn == ExitNav(acct)
           en == EntryNav(acct)
           amount == (burned * xn) \div s
           paid == PaidOut(acct, amount)
           after == [paid EXCEPT !.shares = @ - burned]
           share == [lpPos[p][l] EXCEPT !.shares = @ - burned]
           cash == flow[p] - amount
<1>0. /\ acct \in Account /\ lpPos[p][l] \in Share /\ flow[p] \in Int
      /\ pool \in [Pools -> Account] /\ lpPos \in [Pools -> [LPs -> Share]]
  BY DEF LpInv, LpTyped
<1>1. s \in Nat /\ acct.capital \in Nat /\ acct.pnl \in Int /\ lpPos[p][l].shares \in Nat
  BY <1>0 DEF Account, Share
<1>2. Nav(acct) \in Int /\ Cost(acct) \in Int /\ Mtm(acct) \in Int
      /\ en = Nav(acct) + Mtm(acct)
  BY <1>0, MtmInt, CostInt DEF EntryNav
<1>3. xn \in Nat /\ xn <= en
  <2>1. Min({Mtm(acct), 0}) = IF Mtm(acct) <= 0 THEN Mtm(acct) ELSE 0
    BY <1>2, MinOfTwo
  <2>2. xn > 0
    BY DEF Withdraw
  <2>3. xn = Nav(acct) + Min({Mtm(acct), 0})
    BY DEF ExitNav
  <2> HIDE DEF xn, en
  <2> QED BY <1>2, <2>1, <2>2, <2>3
<1>4. burned \in Nat \ {0} /\ burned <= lpPos[p][l].shares /\ burned <= s /\ s # 0
  <2>1. burned \in 1 .. lpPos[p][l].shares
    BY DEF Withdraw, OwnShares
  <2>2. lpPos[p][l].shares <= Held(p)
    <3> DEFINE f == [x \in LPs |-> lpPos[p][x].shares]
    <3>1. \A x \in LPs : f[x] \in Nat
      BY <1>0 DEF Share
    <3>2. f[l] = lpPos[p][l].shares /\ Held(p) = SumFunctionOnSet(f, LPs)
      BY DEF Held
    <3> HIDE DEF f
    <3>3. IsFiniteSet(LPs)
      BY LpAssumption
    <3>4. f[l] <= SumFunctionOnSet(f, LPs)
      BY <3>1, <3>3, SumNat
    <3> QED BY <3>2, <3>4
  <2>3. s = Held(p)
    BY DEF LpInv, SharesExact
  <2> QED BY <1>1, <2>1, <2>2, <2>3
<1>5. amount \in Nat /\ s * amount <= burned * en
  <2>1. amount = (burned * xn) \div s /\ en \in Int
    BY <1>2
  <2> HIDE DEF amount, xn, s, en
  <2> QED BY <1>1, <1>3, <1>4, <2>1, ExitPart
<1>6. /\ pool' = [pool EXCEPT ![p] = after] /\ flow' = [flow EXCEPT ![p] = cash]
      /\ lpPos' = [lpPos EXCEPT ![p][l] = share]
      /\ UNCHANGED <<mode, oracle, quotes, pending, lpSlot>>
  <2>1. /\ pool' = [pool EXCEPT ![p] = after]
        /\ lpPos' = [lpPos EXCEPT ![p][l].shares = @ - burned]
        /\ flow' = [flow EXCEPT ![p] = @ - amount]
        /\ UNCHANGED <<mode, oracle, quotes, pending, lpSlot>>
    BY DEF Withdraw
  <2> HIDE DEF amount, after
  <2> QED BY <1>0, <2>1 DEF Share
<1> HIDE DEF amount, xn, en
<1>7. /\ paid \in Account /\ paid.shares = s /\ paid.inv = acct.inv
      /\ Nav(paid) = Nav(acct) - amount
  BY <1>0, <1>5, PaidOutLeaves
<1> HIDE DEF paid
<1>8. /\ after \in Account /\ after.shares = s - burned /\ after.inv = acct.inv
      /\ after.capital = paid.capital /\ after.pnl = paid.pnl
  <2>1. s - burned \in Nat
    BY <1>1, <1>4
  <2> QED BY <1>7, <2>1 DEF Account
<1>9. share \in Share /\ share.shares = lpPos[p][l].shares - burned /\ cash \in Int
  <2>1. lpPos[p][l].shares - burned \in Nat
    BY <1>1, <1>4
  <2> QED BY <1>0, <1>5, <2>1 DEF Share
<1>10. Nav(after) = Nav(acct) - amount /\ Cost(after) = Cost(acct)
  BY <1>7, <1>8 DEF Nav, Cost
<1>11. Nav(after) - Cost(after) <= cash
  <2>1. Nav(acct) - Cost(acct) <= flow[p]
    BY DEF LpInv, NavBacked
  <2> HIDE DEF after
  <2> QED BY <1>0, <1>2, <1>5, <1>10, <2>1
<1> HIDE DEF after, share, cash
<1>12. pool' \in [Pools -> Account] /\ flow' \in [Pools -> Int] /\ NavBacked'
  BY <1>6, <1>8, <1>9, <1>11, OnePool
<1>13. lpPos' \in [Pools -> [LPs -> Share]] /\ SharesExact'
  <2>1. after.shares - pool[p].shares = share.shares - lpPos[p][l].shares
    BY <1>1, <1>4, <1>8, <1>9
  <2> QED BY <1>6, <1>8, <1>9, <2>1, OneHolder
<1>14. pool'[p] = after /\ \A k \in Pools \ {p} : pool'[k] = pool[k]
  BY <1>0, <1>6
<1>15. LockHolds'
  <2> SUFFICES ASSUME NEW k \in Pools, pool'[k].shares # 0 PROVE mode = SystemOf(k)
    BY <1>6 DEF LockHolds, SystemOf
  <2>1. pool[k].shares # 0
    BY <1>4, <1>14
  <2> QED BY <2>1 DEF LpInv, LockHolds
<1>16. LpInv'
  BY <1>6, <1>12, <1>13, <1>15 DEF LpInv, LpTyped
<1>17. (Nav(after) + Mtm(acct)) * s >= (Nav(acct) + Mtm(acct)) * after.shares
  <2>1. Nav(after) + Mtm(acct) = en - amount
    BY <1>2, <1>5, <1>10
  <2>2. en \in Nat
    BY <1>2, <1>3
  <2> HIDE DEF s
  <2>3. (en - amount) * s >= en * (s - burned)
    BY <1>1, <1>4, <1>5, <2>2, ExitIsFair
  <2> QED BY <1>2, <1>8, <2>1, <2>3
<1> QED BY <1>14, <1>16, <1>17

(* Fills change no shares: what is left to show is that the pool filled    *)
(* stays backed.                                                           *)
LEMMA FillKeepsShares ==
    ASSUME LpInv, NEW p \in Pools, NEW acct, pool' = [pool EXCEPT ![p] = acct],
           acct.shares = pool[p].shares, UNCHANGED <<mode, lpPos>>
    PROVE  SharesExact' /\ LockHolds' /\ \A k \in Pools : pool'[k].shares = pool[k].shares
<1>1. pool \in [Pools -> Account]
  BY DEF LpInv, LpTyped
<1>2. \A k \in Pools : pool'[k].shares = pool[k].shares
  BY <1>1
<1> QED BY <1>2, SMTT(30) DEF LpInv, SharesExact, Held, LockHolds, SystemOf

LEMMA RecordFillKeeps ==
    ASSUME LpInv, NEW m \in Markets, NEW n \in Signed, NEW px \in Prices,
           RecordLpMarketFill(m, n, px)
    PROVE  LpInv' /\ \A k \in Pools : pool'[k].shares = pool[k].shares
<1> DEFINE acct == pool[m]
           after == Booked(acct, m, n, px)
           cash == flow[m] - n * px
<1>0. /\ m \in Pools /\ n \in Int /\ px \in Nat /\ acct \in Account /\ flow[m] \in Int
  BY LpAssumption, SMTT(30) DEF Signed, Pools, LpInv, LpTyped
<1>1. /\ pool' = [pool EXCEPT ![m] = after] /\ flow' = [flow EXCEPT ![m] = cash]
      /\ UNCHANGED <<mode, lpPos, oracle, quotes, pending, lpSlot>>
  BY DEF RecordLpMarketFill
<1>2. /\ after \in Account /\ after.shares = acct.shares
      /\ Nav(after) - Cost(after) <= Nav(acct) - Cost(acct) - n * px
  BY <1>0, BookedBacked
<1>3. cash \in Int /\ n * px \in Int
  BY <1>0
<1>4. Nav(after) - Cost(after) <= cash
  <2>1. Nav(acct) - Cost(acct) <= flow[m]
    BY <1>0 DEF LpInv, NavBacked
  <2>2. /\ Nav(acct) \in Int /\ Cost(acct) \in Int /\ Nav(after) \in Int /\ Cost(after) \in Int
    BY <1>0, <1>2, CostInt
  <2> HIDE DEF after
  <2> QED BY <1>0, <1>2, <1>3, <2>1, <2>2
<1> HIDE DEF after, cash
<1>5. pool' \in [Pools -> Account] /\ flow' \in [Pools -> Int] /\ NavBacked'
  BY <1>0, <1>1, <1>2, <1>3, <1>4, OnePool
<1>6. SharesExact' /\ LockHolds' /\ \A k \in Pools : pool'[k].shares = pool[k].shares
  BY <1>0, <1>1, <1>2, FillKeepsShares
<1> QED BY <1>1, <1>5, <1>6 DEF LpInv, LpTyped

(* The rebate is a natural no larger than the taker's purse.               *)
LEMMA RebateInPurse ==
    ASSUME NEW notional \in Nat, NEW purse \in Nat
    PROVE  Rebate(notional, purse) \in Nat /\ Rebate(notional, purse) <= purse
<1> DEFINE a == (notional * RebateBps) \div Bps
           b == (notional * FeeBps) \div Bps
<1>1. a \in Nat /\ b \in Nat
  <2>1. Bps \in Nat \ {0} /\ RebateBps \in Nat /\ FeeBps \in Nat
    BY LpAssumption
  <2>2. notional * RebateBps \in Nat /\ notional * FeeBps \in Nat
    BY <2>1
  <2> QED BY <2>1, <2>2, DivNat
<1> HIDE DEF a, b
<1>2. PICK x \in {a, b, purse} : \A y \in {a, b, purse} : x <= y
  <2>1. CASE a <= b /\ a <= purse
    BY <1>1, <2>1
  <2>2. CASE b <= a /\ b <= purse
    BY <1>1, <2>2
  <2>3. CASE purse <= a /\ purse <= b
    BY <1>1, <2>3
  <2> QED BY <1>1, <2>1, <2>2, <2>3
<1>3. Min({a, b, purse}) \in {a, b, purse} /\ \A y \in {a, b, purse} : Min({a, b, purse}) <= y
  BY <1>2 DEF Min
<1>4. Rebate(notional, purse) = Min({a, b, purse})
  BY DEF Rebate, a, b
<1> QED BY <1>1, <1>3, <1>4

LEMMA ApplyFillKeeps ==
    ASSUME LpInv, NEW purse \in Purse, ApplyLpFill(purse)
    PROVE  LpInv' /\ \A k \in Pools : pool'[k].shares = pool[k].shares
<1> DEFINE f == Head(pending)
           acct == pool[Singleton]
           rebate == Rebate(Abs(f.n) * f.px, purse)
           paid == [acct EXCEPT !.capital = @ + rebate]
           after == Booked(paid, f.m, f.n, f.px)
           cash == flow[Singleton] - f.n * f.px + Min({rebate, purse})
<1>0. /\ Singleton \in Pools /\ acct \in Account /\ flow[Singleton] \in Int
      /\ purse \in Nat /\ pending \in Seq(LpFill) /\ pending # <<>>
  BY LpAssumption DEF Pools, LpInv, LpTyped, ApplyLpFill
<1>1. f \in LpFill /\ Tail(pending) \in Seq(LpFill)
  BY <1>0, HeadTailProperties
<1>2. f.m \in Markets /\ f.n \in Int /\ f.px \in Nat
  BY <1>1 DEF LpFill
<1>3. rebate \in Nat /\ rebate <= purse
  <2>1. Abs(f.n) \in Nat
    BY <1>2 DEF Abs
  <2>2. Abs(f.n) * f.px \in Nat
    BY <1>2, <2>1
  <2> QED BY <1>0, <2>2, RebateInPurse
<1>4. Min({rebate, purse}) = rebate
  <2>1. Min({rebate, purse}) = IF rebate <= purse THEN rebate ELSE purse
    BY <1>0, <1>3, MinOfTwo
  <2> QED BY <1>3, <2>1
<1>5. /\ pool' = [pool EXCEPT ![Singleton] = after]
      /\ flow' = [flow EXCEPT ![Singleton] = cash]
      /\ pending' = Tail(pending) /\ UNCHANGED <<mode, lpPos, oracle, quotes, lpSlot>>
  <2>1. pool' = [pool EXCEPT ![Singleton] = after]
    BY DEF ApplyLpFill
  <2>2. flow' = [flow EXCEPT ![Singleton] = cash]
    BY DEF ApplyLpFill
  <2>3. pending' = Tail(pending) /\ UNCHANGED <<mode, lpPos, oracle, quotes, lpSlot>>
    BY DEF ApplyLpFill
  <2> QED BY <2>1, <2>2, <2>3
<1> HIDE DEF rebate, f
<1>6. /\ paid \in Account /\ paid.shares = acct.shares /\ paid.inv = acct.inv
      /\ paid.capital = acct.capital + rebate /\ paid.pnl = acct.pnl
  <2>1. acct.capital + rebate \in Nat
    BY <1>0, <1>3 DEF Account
  <2> QED BY <1>0, <2>1 DEF Account
<1>7. Nav(paid) = Nav(acct) + rebate /\ Cost(paid) = Cost(acct)
  BY <1>0, <1>3, <1>6 DEF Nav, Cost, Account
<1> HIDE DEF paid
<1>8. /\ after \in Account /\ after.shares = acct.shares
      /\ Nav(after) - Cost(after) <= Nav(paid) - Cost(paid) - f.n * f.px
  BY <1>2, <1>6, BookedBacked
<1>9. cash \in Int /\ Nav(after) - Cost(after) <= cash
  <2> DEFINE paidFor == f.n * f.px
  <2>1. Nav(acct) - Cost(acct) <= flow[Singleton] /\ paidFor \in Int
    BY <1>0, <1>2 DEF LpInv, NavBacked
  <2>2. /\ Nav(acct) \in Int /\ Cost(acct) \in Int /\ Nav(after) \in Int /\ Cost(after) \in Int
    BY <1>0, <1>8, CostInt
  <2>3. cash = flow[Singleton] - paidFor + rebate
    BY <1>4
  <2>4. Nav(after) - Cost(after) <= Nav(paid) - Cost(paid) - paidFor
    BY <1>8
  <2> HIDE DEF after, cash, paidFor
  <2>5. Nav(after) - Cost(after) <= (Nav(acct) + rebate) - Cost(acct) - paidFor
    BY <1>7, <2>4
  <2> QED BY <1>0, <1>3, <2>1, <2>2, <2>3, <2>5, SMTT(30)
<1> HIDE DEF after, cash
<1>10. pool' \in [Pools -> Account] /\ flow' \in [Pools -> Int] /\ NavBacked'
  BY <1>0, <1>5, <1>8, <1>9, OnePool
<1>11. SharesExact' /\ LockHolds' /\ \A k \in Pools : pool'[k].shares = pool[k].shares
  BY <1>0, <1>5, <1>8, FillKeepsShares
<1> QED BY <1>1, <1>5, <1>10, <1>11 DEF LpInv, LpTyped

-----------------------------------------------------------------------------
(* The quoter posts typed quotes.                                          *)
LEMMA TruncInt ==
    ASSUME NEW a \in Int, NEW b \in Nat \ {0}
    PROVE  Trunc(a, b) \in Int
<1>1. a \div b \in Int /\ (-a) \div b \in Int
  BY DivBounds
<1> QED BY <1>1 DEF Trunc

LEMMA ClampInt ==
    ASSUME NEW x \in Int, NEW b \in Int
    PROVE  Clamp(x, b) \in Int
<1>1. Min({x, b}) \in Int
  BY MinOfTwo
<1>2. -b \in Int
  OBVIOUS
<1>3. Max({-b, Min({x, b})}) \in Int
  BY <1>1, <1>2, MaxOfTwo
<1> QED BY <1>3 DEF Clamp

LEMMA BpsPrice ==
    ASSUME NEW px \in Nat, NEW bps \in Int
    PROVE  ApplyBpsSigned(px, bps) \in Nat
<1>1. px * bps \in Int /\ Bps \in Nat \ {0}
  BY LpAssumption
<1>2. Trunc(px * bps, Bps) \in Int
  BY <1>1, TruncInt
<1>3. px + Trunc(px * bps, Bps) \in Int
  BY <1>2
<1>4. Max({px + Trunc(px * bps, Bps), 0}) \in Nat
  BY <1>3, MaxOfTwo
<1> QED BY <1>4 DEF ApplyBpsSigned

LEMMA QuotesTyped ==
    ASSUME LpInv, NEW m \in Markets, NEW px \in Prices \cup {NoOracle}
    PROVE  GenerateQuotes(m, px) \in Seq(Quote)
<1> DEFINE acct == pool[Singleton]
           capital == acct.capital
           lots == ((capital * Growth) \div Bps) \div px
           fair == ApplyBpsSigned(px, Skew(m))
           bid  == [n |-> lots, px |-> ApplyBpsSigned(fair, -Spread), slot |-> lpSlot]
           ask  == [n |-> -lots, px |-> ApplyBpsSigned(fair, Spread), slot |-> lpSlot]
<1>0. /\ acct \in Account /\ px \in Nat /\ lpSlot \in Nat
      /\ Bps \in Nat \ {0} /\ Growth \in Nat /\ Spread \in Nat /\ Lambda \in Nat
  BY LpAssumption, SMTT(30) DEF LpInv, LpTyped, Pools, NoOracle
<1>1. <<>> \in Seq(Quote)
  BY EmptySeq
<1>2. CASE capital # 0 /\ px # 0
  <2>1. capital \in Nat \ {0} /\ px \in Nat \ {0}
    BY <1>0, <1>2 DEF Account
  <2>2. lots \in Nat
    <3>1. capital * Growth \in Nat
      BY <1>0, <2>1
    <3>2. (capital * Growth) \div Bps \in Nat
      BY <1>0, <3>1, DivNat
    <3> QED BY <2>1, <3>2, DivNat
  <2>3. Skew(m) \in Int
    <3>1. NetSigned(m) \in Int
      <4>1. acct.inv[m].lots \in Int /\ acct.inv[m].entry \in Int
        BY <1>0 DEF Account, Inventory
      <4> QED BY <4>1 DEF NetSigned
    <3>2. NetSigned(m) * Bps \in Int
      BY <1>0, <3>1
    <3>3. Trunc(NetSigned(m) * Bps, capital) \in Int
      BY <2>1, <3>2, TruncInt
    <3> DEFINE inv == Clamp(Trunc(NetSigned(m) * Bps, capital), Bps)
    <3>4. inv \in Int
      BY <1>0, <3>3, ClampInt
    <3> HIDE DEF inv
    <3>5. Lambda * inv \in Int
      BY <1>0, <3>4
    <3>6. Trunc(Lambda * inv, Bps) \in Int
      BY <1>0, <3>5, TruncInt
    <3>7. Clamp(Trunc(Lambda * inv, Bps), Bps) \in Int
      BY <1>0, <3>6, ClampInt
    <3>8. -Clamp(Trunc(Lambda * inv, Bps), Bps) \in Int
      BY <3>7
    <3> QED BY <3>8 DEF Skew, inv
  <2>4. fair \in Nat
    BY <1>0, <2>3, BpsPrice
  <2>5. ApplyBpsSigned(fair, -Spread) \in Nat /\ ApplyBpsSigned(fair, Spread) \in Nat
    <3>1. -Spread \in Int /\ Spread \in Int
      BY <1>0
    <3> QED BY <2>4, <3>1, BpsPrice
  <2> HIDE DEF lots, fair
  <2>6. bid \in Quote /\ ask \in Quote
    BY <1>0, <2>2, <2>5 DEF Quote
  <2>7. Posted(bid, m) \in Seq(Quote) /\ Posted(ask, m) \in Seq(Quote)
    <3> HIDE DEF bid, ask
    <3> QED BY <1>1, <2>6 DEF Posted
  <2>8. Posted(bid, m) \o Posted(ask, m) \in Seq(Quote)
    BY <2>7, ConcatProperties
  <2>9. GenerateQuotes(m, px) = Posted(bid, m) \o Posted(ask, m)
    BY <1>2 DEF GenerateQuotes, NoOracle, lots, fair
  <2> QED BY <2>8, <2>9
<1>3. CASE ~(capital # 0 /\ px # 0)
  <2>1. GenerateQuotes(m, px) = <<>>
    BY <1>3 DEF GenerateQuotes, NoOracle
  <2> QED BY <1>1, <2>1
<1> QED BY <1>2, <1>3

(* A step that leaves the pools' accounts alone.                           *)
LEMMA BooksUntouched ==
    ASSUME LpInv, UNCHANGED <<mode, pool, lpPos, flow>>, LpTyped'
    PROVE  LpInv' /\ \A k \in Pools : pool'[k].shares = pool[k].shares
BY DEF LpInv, SharesExact, Held, NavBacked, Nav, Cost, LockHolds, SystemOf

LEMMA QuoteStepsKeep ==
    ASSUME LpInv, NEW m \in Markets,
           \/ \E px \in Prices \cup {NoOracle} : LpRefreshQuotes(m, px)
           \/ \E n \in Signed, px \in PostPrices : LpPostMakerOrder(m, n, px)
           \/ \E n \in Sizes : \E i \in 1 .. Len(quotes[m]) : TakerCrosses(m, i, n)
    PROVE  LpInv' /\ \A k \in Pools : pool'[k].shares = pool[k].shares
<1>0. quotes \in [Markets -> Seq(Quote)] /\ pending \in Seq(LpFill) /\ lpSlot \in Nat
      /\ quotes[m] \in Seq(Quote)
  BY DEF LpInv, LpTyped
<1>1. ASSUME NEW px \in Prices \cup {NoOracle}, LpRefreshQuotes(m, px)
      PROVE  LpInv' /\ \A k \in Pools : pool'[k].shares = pool[k].shares
  <2>1. GenerateQuotes(m, px) \in Seq(Quote)
    BY QuotesTyped
  <2>2. quotes' = [quotes EXCEPT ![m] = GenerateQuotes(m, px)]
    BY <1>1 DEF LpRefreshQuotes
  <2>3. quotes' \in [Markets -> Seq(Quote)]
    BY <1>0, <2>1, <2>2
  <2>4. UNCHANGED <<mode, pool, lpPos, oracle, pending, lpSlot, flow>>
    BY <1>1 DEF LpRefreshQuotes
  <2>5. LpTyped'
    BY <2>3, <2>4 DEF LpInv, LpTyped
  <2> QED BY <2>4, <2>5, BooksUntouched
<1>2. ASSUME NEW n \in Signed, NEW px \in PostPrices, LpPostMakerOrder(m, n, px)
      PROVE  LpInv' /\ \A k \in Pools : pool'[k].shares = pool[k].shares
  <2> DEFINE q == [n |-> n, px |-> px, slot |-> lpSlot]
  <2>1. n \in Int /\ px \in Nat
    BY LpAssumption DEF Signed
  <2>2. q \in Quote
    BY <1>0, <2>1 DEF Quote
  <2>3. quotes' = [quotes EXCEPT ![m] = Append(quotes[m], q)]
    BY <1>2 DEF LpPostMakerOrder
  <2> HIDE DEF q
  <2>4. Append(quotes[m], q) \in Seq(Quote)
    BY <1>0, <2>2, AppendProperties
  <2>5. quotes' \in [Markets -> Seq(Quote)]
    BY <1>0, <2>3, <2>4
  <2>6. UNCHANGED <<mode, pool, lpPos, oracle, pending, lpSlot, flow>>
    BY <1>2 DEF LpPostMakerOrder
  <2>7. LpTyped'
    BY <2>5, <2>6 DEF LpInv, LpTyped
  <2> QED BY <2>6, <2>7, BooksUntouched
<1>3. ASSUME NEW n \in Sizes, NEW i \in 1 .. Len(quotes[m]), TakerCrosses(m, i, n)
      PROVE  LpInv' /\ \A k \in Pools : pool'[k].shares = pool[k].shares
  <2> DEFINE s == quotes[m]
             q == s[i]
             signed == IF q.n > 0 THEN n ELSE -n
             rest == IF n = Abs(q.n) THEN RemoveAt(s, i) ELSE [s EXCEPT ![i].n = @ - signed]
             fill == [m |-> m, n |-> signed, px |-> q.px]
  <2>1. n \in Nat /\ q \in Quote /\ Len(s) \in Nat
    BY <1>0, LpAssumption, ElementOfSeq, LenProperties
  <2>2. signed \in Int /\ q.n - signed \in Int /\ q.px \in Nat
    BY <2>1 DEF Quote
  <2>3. fill \in LpFill
    BY <2>2 DEF LpFill
  <2>4. /\ pending' = Append(pending, fill) /\ quotes' = [quotes EXCEPT ![m] = rest]
        /\ UNCHANGED <<mode, pool, lpPos, oracle, lpSlot, flow>>
    <3>1. pending' = Append(pending, fill) /\ UNCHANGED <<mode, pool, lpPos, oracle, lpSlot, flow>>
      BY <1>3 DEF TakerCrosses
    <3>2. quotes' = [quotes EXCEPT ![m] = rest]
      BY <1>0, <1>3 DEF TakerCrosses
    <3> QED BY <3>1, <3>2
  <2> HIDE DEF signed, fill
  <2>5. pending' \in Seq(LpFill)
    BY <1>0, <2>3, <2>4, AppendProperties
  <2>6. rest \in Seq(Quote)
    <3>1. RemoveAt(s, i) \in Seq(Quote)
      BY <1>0, <2>1, SubSeqProperties, ConcatProperties DEF RemoveAt
    <3>2. [q EXCEPT !.n = @ - signed] \in Quote
      BY <2>1, <2>2 DEF Quote
    <3>3. [s EXCEPT ![i].n = @ - signed] = [s EXCEPT ![i] = [q EXCEPT !.n = @ - signed]]
      BY <1>0
    <3>4. [s EXCEPT ![i] = [q EXCEPT !.n = @ - signed]] \in Seq(Quote)
      BY <1>0, <3>2, ExceptSeq
    <3> QED BY <3>1, <3>3, <3>4
  <2> HIDE DEF rest
  <2>7. quotes' \in [Markets -> Seq(Quote)]
    BY <1>0, <2>4, <2>6
  <2>8. LpTyped'
    BY <2>4, <2>5, <2>7 DEF LpInv, LpTyped
  <2> QED BY <2>4, <2>8, BooksUntouched
<1> QED BY <1>1, <1>2, <1>3

(* The step of another pool than k, or of k: what a step may do to it.     *)
LpFair ==
    \A p \in Pools :
      (/\ pool'[p].shares # pool[p].shares
       /\ pool[p].shares > 0 /\ pool'[p].shares > 0)
        => (Nav(pool'[p]) + Mtm(pool[p])) * pool[p].shares
              >= (Nav(pool[p]) + Mtm(pool[p])) * pool'[p].shares

LEMMA LpStep ==
    ASSUME LpInv, [LpNext]_lpVars
    PROVE  LpInv' /\ LpFair
<1>1. ASSUME LpInv', \A k \in Pools : pool'[k].shares = pool[k].shares PROVE LpInv' /\ LpFair
  BY <1>1 DEF LpFair
<1>2. ASSUME NEW p \in Pools, NEW l \in LPs, NEW amount \in Amounts, Deposit(p, l, amount)
      PROVE  LpInv' /\ LpFair
  BY <1>2, LpDepositKeeps DEF LpFair
<1>3. ASSUME NEW p \in Pools, NEW l \in LPs, NEW burned, NEW mark, Withdraw(p, l, burned, mark)
      PROVE  LpInv' /\ LpFair
  BY <1>3, LpWithdrawKeeps DEF LpFair
<1>4. Singleton \in Pools /\ \A m \in Markets : m \in Pools
  BY DEF Pools
<1>5. ASSUME NEW m \in Markets, NEW px \in Prices \cup {NoOracle}, MoveOracle(m, px)
      PROVE  LpInv' /\ LpFair
  <2>1. UNCHANGED <<mode, pool, lpPos, quotes, pending, lpSlot, flow>>
    BY <1>5 DEF MoveOracle
  <2>2. oracle' \in [Markets -> Prices \cup {NoOracle}]
    BY <1>5 DEF LpInv, LpTyped, MoveOracle
  <2>3. LpTyped'
    BY <2>1, <2>2 DEF LpInv, LpTyped
  <2> QED BY <1>1, <2>1, <2>3, BooksUntouched
<1>6. ASSUME LpTick PROVE LpInv' /\ LpFair
  <2>1. UNCHANGED <<mode, pool, lpPos, oracle, quotes, pending, flow>> /\ lpSlot' = lpSlot + 1
    BY <1>6 DEF LpTick
  <2>2. lpSlot' \in Nat
    BY <2>1 DEF LpInv, LpTyped
  <2>3. LpTyped'
    BY <2>1, <2>2 DEF LpInv, LpTyped
  <2> QED BY <1>1, <2>1, <2>3, BooksUntouched
<1>7. ASSUME UNCHANGED lpVars PROVE LpInv' /\ LpFair
  <2>1. UNCHANGED <<mode, pool, lpPos, oracle, quotes, pending, lpSlot, flow>>
    BY <1>7 DEF lpVars
  <2>2. LpTyped'
    BY <2>1 DEF LpInv, LpTyped
  <2> QED BY <1>1, <2>1, <2>2, BooksUntouched
<1> QED BY <1>1, <1>2, <1>3, <1>4, <1>5, <1>6, <1>7, RecordFillKeeps, ApplyFillKeeps, QuoteStepsKeep
        DEF LpNext, LpDeposit, LpMarketDeposit, LpWithdraw, LpMarketWithdraw

LEMMA LpInvariance == LpSpec => []LpInv
<1>1. LpInit => LpInv
  BY LpInitInv
<1>2. LpInv /\ [LpNext]_lpVars => LpInv'
  BY LpStep
<1> QED BY <1>1, <1>2, PTL DEF LpSpec

(* In every reachable state, for any number of markets, LPs, fills and any *)
(* prices: the LPs' shares add up to each pool's total, no pool's NAV at   *)
(* cost exceeds the cash it took in less what it paid out (rounding of     *)
(* stacked entries, rebates and payouts included), and only one of the two *)
(* pool systems ever has shares.                                           *)
THEOREM LpAccountsAreSound == LpSpec => []LpAccountsSound
<1>1. LpInv => LpAccountsSound
  <2> SUFFICES ASSUME LpInv PROVE LpAccountsSound
    OBVIOUS
  <2>1. LpTypeOK
    BY DEF LpInv, LpTyped, SharesExact, Held, LpTypeOK, Account, Inventory, Share
  <2>2. OneLpSystem
    BY LpAssumption DEF LpInv, LockHolds, OneLpSystem, SystemOf, Pools
  <2> QED BY <2>1, <2>2 DEF LpInv, LpAccountsSound
<1> QED BY <1>1, LpInvariance, PTL

(* A deposit or a withdrawal never lowers what the shares of the other LPs *)
(* are worth at the oracle, for any inventory, price, amount and rounding. *)
THEOREM LpsAreNotDiluted == LpSpec => LpNoDilution
<1>1. LpInv /\ [LpNext]_lpVars =>
        [\A p \in Pools :
          (/\ pool'[p].shares # pool[p].shares
           /\ pool[p].shares > 0 /\ pool'[p].shares > 0)
            => (Nav(pool'[p]) + Mtm(pool[p])) * pool[p].shares
                  >= (Nav(pool[p]) + Mtm(pool[p])) * pool'[p].shares]_lpVars
  BY LpStep DEF LpFair
<1> QED BY <1>1, LpInvariance, PTL DEF LpSpec, LpNoDilution
=============================================================================
