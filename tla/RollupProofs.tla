---------------------------- MODULE RollupProofs ----------------------------
(***************************************************************************)
(* A market's accounts come and go between Solana and the rollup, may come *)
(* back older than they were, and still nothing that was settled is        *)
(* settled again and the escape of a delegated book stays armed, for every *)
(* timeout, cap and number of orders.                                      *)
(*                                                                         *)
(* NothingLost is not inductive: it says little about the copy L1 holds of *)
(* an account that is away, which a lost commit makes the account itself.  *)
(* The invariant asks of every such copy what it asks of the account       *)
(* (GoodMarket, GoodBook, GoodRing), bounds the cursors by MaxFills, and   *)
(* keeps resting, cancelled and matched orders apart.                      *)
(*                                                                         *)
(* The second half is about Reservation: margin reserved on the rollup     *)
(* stays behind on L1, for any accounts, amounts and attestations.         *)
(***************************************************************************)
EXTENDS Rollup, Reservation, SumTheorems

Rings == [settled : Nat, q : Seq(Nat)]

(* What every copy of an account satisfies, current or stale: a settlement *)
(* needs market and ring on L1, so no copy misses one.                     *)
GoodMarket(m) == m \in MarketType /\ m.seq = Len(applied)
GoodBook(b) == b \subseteq 1..placed
GoodRing(r) ==
    /\ r \in Rings
    /\ r.settled = Len(applied)
    /\ Len(applied) + Len(r.q) <= MaxFills
    /\ Range(r.q) \subseteq 1..placed

Shape ==
    /\ home \in [Accounts -> {"L1", "ER"}]
    /\ live = [market |-> live.market, book |-> live.book, ring |-> live.ring]
    /\ snap = [a \in Accounts |-> snap[a]]
    /\ open \in BOOLEAN /\ lagged \in BOOLEAN /\ legacy \in BOOLEAN
    /\ placed \in 0..MaxPlaced /\ gone \subseteq 1..placed
    /\ applied \in Seq(Nat)

CopiesGood ==
    /\ GoodMarket(live.market) /\ GoodBook(live.book) /\ GoodRing(live.ring)
    /\ home.market = "ER" => GoodMarket(snap.market)
    /\ home.book = "ER" => GoodBook(snap.book)
    /\ home.ring = "ER" => GoodRing(snap.ring)

(* Every order is in one place only.                                       *)
LotsApart ==
    ~lagged =>
        /\ live.book \cap gone = {} /\ live.book \cap Range(Lots) = {}
        /\ live.book \cup gone \cup Range(Lots) = 1..placed
        /\ Cardinality(live.book) + Cardinality(gone) + Len(Lots) = placed

RollupInv == Shape /\ CopiesGood /\ LotsApart /\ CounterExact /\ EscapeArmed

-----------------------------------------------------------------------------
(* What a settlement moves from the ring to the history stays in order.    *)
LEMMA HeadMoves ==
    ASSUME NEW S, NEW s \in Seq(S), NEW q \in Seq(S), q # <<>>
    PROVE  Append(s, Head(q)) \o Tail(q) = s \o q
<1>1. Head(q) \in S /\ Tail(q) \in Seq(S) /\ <<Head(q)>> \in Seq(S)
  BY HeadTailProperties
<1>2. <<Head(q)>> \o Tail(q) = q
  BY HeadTailProperties
<1>3. Append(s, Head(q)) = s \o <<Head(q)>>
  BY <1>1, AppendIsConcat
<1>4. (s \o <<Head(q)>>) \o Tail(q) = s \o (<<Head(q)>> \o Tail(q))
  BY <1>1, ConcatAssociative
<1> QED BY <1>2, <1>3, <1>4

(* A fill that joins the ring joins the lots.                              *)
LEMMA LotJoins ==
    ASSUME NEW S, NEW s \in Seq(S), NEW q \in Seq(S), NEW o \in S
    PROVE  /\ Range(s \o Append(q, o)) = Range(s \o q) \cup {o}
           /\ Len(s \o Append(q, o)) = Len(s \o q) + 1
           /\ Range(Append(q, o)) = Range(q) \cup {o}
<1>1. <<o>> \in Seq(S) /\ Append(q, o) = q \o <<o>>
  BY AppendIsConcat
<1>7. Append(q, o) \in Seq(S)
  OBVIOUS
<1>2. Range(<<o>>) = {o}
  <2>1. Range(<<o>>) = {<<o>>[k] : k \in 1..Len(<<o>>)}
    BY <1>1, RangeEquality
  <2>2. Len(<<o>>) = 1 /\ <<o>>[1] = o /\ 1..1 = {1}
    OBVIOUS
  <2> QED BY <2>1, <2>2
<1>3. Range(Append(q, o)) = Range(q) \cup {o}
  <2>1. Range(q \o <<o>>) = Range(q) \cup Range(<<o>>)
    BY <1>1, RangeConcatenation, ZenonT(40)
  <2> QED BY <1>1, <1>2, <2>1, Zenon
<1>4. Range(s \o Append(q, o)) = Range(s) \cup Range(Append(q, o))
  BY <1>7, RangeConcatenation, ZenonT(40)
<1>6. Range(s \o q) = Range(s) \cup Range(q)
  BY RangeConcatenation, ZenonT(40)
<1>5. Len(s \o Append(q, o)) = Len(s \o q) + 1
  BY <1>7
<1> QED BY <1>3, <1>4, <1>5, <1>6

(* Taking the oldest entry off a ring leaves older entries only.           *)
LEMMA RangeTail ==
    ASSUME NEW S, NEW q \in Seq(S), q # <<>>
    PROVE  Range(Tail(q)) \subseteq Range(q) /\ Len(Tail(q)) = Len(q) - 1 /\ Tail(q) \in Seq(S)
<1>1. Head(q) \in S /\ Tail(q) \in Seq(S) /\ Len(Tail(q)) = Len(q) - 1
      /\ \A k \in 1..Len(Tail(q)) : Tail(q)[k] = q[k + 1]
  BY HeadTailProperties
<1>2. Range(Tail(q)) = {Tail(q)[k] : k \in 1..Len(Tail(q))} /\ Range(q) = {q[k] : k \in 1..Len(q)}
  BY <1>1, RangeEquality
<1>3. \A k \in 1..Len(Tail(q)) : k + 1 \in 1..Len(q)
  BY <1>1
<1> QED BY <1>1, <1>2, <1>3

-----------------------------------------------------------------------------
LEMMA RollupInit == ASSUME RollupAssumption, Init PROVE RollupInv
<1>1. Shape
  <2>1. home \in [Accounts -> {"L1", "ER"}] /\ snap = [a \in Accounts |-> snap[a]]
    BY DEF Init
  <2>2. applied \in Seq(Nat)
    BY DEF Init
  <2>3. live = [market |-> live.market, book |-> live.book, ring |-> live.ring]
    BY DEF Init
  <2>4. placed \in 0..MaxPlaced /\ gone \subseteq 1..placed
    BY DEF Init, RollupAssumption
  <2>5. open \in BOOLEAN /\ lagged \in BOOLEAN /\ legacy \in BOOLEAN
    BY DEF Init
  <2> QED BY <2>1, <2>2, <2>3, <2>4, <2>5 DEF Shape
<1>2. Range(live.ring.q) = {} /\ Range(Lots) = {} /\ Len(Lots) = 0 /\ live.ring.q \in Seq(Nat)
      /\ Len(applied) = 0 /\ Len(live.ring.q) = 0
  <2>1. live.ring.q = <<>> /\ applied = <<>>
    BY DEF Init
  <2>2. Lots = <<>>
    BY <2>1 DEF Lots, Pending
  <2>3. Range(<<>>) = {}
    BY DEF Range
  <2> QED BY <2>1, <2>2, <2>3
<1>3. CopiesGood
  <2>1. GoodMarket(live.market)
    BY <1>2 DEF Init, GoodMarket, MarketType, Ages, Unset, MaxAge, RollupAssumption
  <2>2. GoodRing(live.ring) /\ GoodBook(live.book)
    BY <1>2 DEF Init, GoodRing, GoodBook, Rings, RollupAssumption
  <2>3. home.market = "L1" /\ home.ring = "L1" /\ (home.book = "ER" => snap.book = live.book)
    BY DEF Init, Accounts
  <2> QED BY <2>1, <2>2, <2>3 DEF CopiesGood
<1>4. LotsApart
  BY <1>2, FS_EmptySet DEF Init, LotsApart
<1>5. CounterExact
  BY <1>2 DEF Init, CounterExact, Market, Pending
<1>6. EscapeArmed
  BY DEF Init, EscapeArmed, Accounts
<1> QED BY <1>1, <1>3, <1>4, <1>5, <1>6 DEF RollupInv

-----------------------------------------------------------------------------
(* Steps that leave orders and fills where they are.                       *)
LEMMA LotsStay ==
    ASSUME LotsApart, CounterExact,
           live'.book = live.book, live'.ring.q = live.ring.q,
           live'.market.unsettled = live.market.unsettled,
           placed' = placed, gone' = gone, applied' = applied, lagged' = lagged
    PROVE  LotsApart' /\ CounterExact'
<1>1. Lots' = Lots /\ Pending' = Pending
  BY DEF Lots, Pending
<1> QED BY <1>1 DEF LotsApart, CounterExact, Market

(* Steps that count no settlement and no order keep good copies good.      *)
LEMMA CopiesStay ==
    ASSUME placed' = placed, applied' = applied
    PROVE  /\ \A m : GoodMarket(m) => GoodMarket(m)'
           /\ \A b : GoodBook(b) => GoodBook(b)'
           /\ \A r : GoodRing(r) => GoodRing(r)'
  BY DEF GoodMarket, GoodBook, GoodRing

LEMMA LiveFields ==
    ASSUME Shape
    PROVE  /\ DOMAIN live = {"market", "book", "ring"} /\ Accounts = {"market", "book", "ring"}
           /\ DOMAIN home = Accounts /\ DOMAIN snap = Accounts
<1>1. DOMAIN [market |-> live.market, book |-> live.book, ring |-> live.ring] = {"market", "book", "ring"}
  OBVIOUS
<1>2. DOMAIN [a \in Accounts |-> snap[a]] = Accounts
  OBVIOUS
<1> QED BY <1>1, <1>2 DEF Shape, Accounts

LEMMA PlaceLimitOrderKeeps == ASSUME RollupAssumption, RollupInv, PlaceLimitOrder PROVE RollupInv'
<1>1. /\ Shape /\ CopiesGood /\ LotsApart /\ CounterExact /\ EscapeArmed
      /\ placed \in Nat /\ MaxPlaced \in Nat
  BY DEF RollupInv, Shape, RollupAssumption
<1> DEFINE o == placed + 1
<1>2. /\ placed < MaxPlaced /\ placed' = o /\ o \in Nat
      /\ home' = home /\ snap' = snap /\ open' = open /\ gone' = gone /\ applied' = applied
      /\ lagged' = lagged /\ legacy' = legacy
  BY <1>1 DEF PlaceLimitOrder
<1>3. /\ live'.book = live.book \cup {o} /\ live'.ring = live.ring /\ live'.market = live.market
      /\ live' = [market |-> live'.market, book |-> live'.book, ring |-> live'.ring]
  BY <1>1 DEF PlaceLimitOrder, Shape
<1>4. 1..o = (1..placed) \cup {o} /\ o \notin 1..placed
  BY <1>1
<1> HIDE DEF o
<1>5. Shape'
  <2>1. gone' \subseteq 1..placed'
    BY <1>1, <1>2, <1>4 DEF Shape
  <2>2. placed' \in 0..MaxPlaced
    BY <1>1, <1>2 DEF o
  <2> QED BY <1>1, <1>2, <1>3, <2>1, <2>2 DEF Shape
<1>6. CopiesGood'
  <2>1. \A m : GoodMarket(m) => GoodMarket(m)'
    BY <1>2 DEF GoodMarket
  <2>2. \A b : GoodBook(b) => GoodBook(b)'
    BY <1>2, <1>4 DEF GoodBook
  <2>3. \A r : GoodRing(r) => GoodRing(r)'
    BY <1>2, <1>4 DEF GoodRing
  <2>4. GoodBook(live.book)' /\ GoodRing(live.ring)' /\ GoodMarket(live.market)'
    BY <1>1, <1>2, <1>3, <1>4, <2>1, <2>3 DEF CopiesGood, GoodBook, GoodMarket, GoodRing
  <2>5. /\ home.market = "ER" => GoodMarket(snap.market)'
        /\ home.book = "ER" => GoodBook(snap.book)'
        /\ home.ring = "ER" => GoodRing(snap.ring)'
    BY <1>1, <1>2, <1>4 DEF CopiesGood, GoodBook, GoodMarket, GoodRing
  <2> QED BY <1>2, <2>4, <2>5 DEF CopiesGood
<1>7. Lots' = Lots /\ Pending' = Pending
  BY <1>2, <1>3 DEF Lots, Pending
<1>8. LotsApart'
  <2>1. SUFFICES ASSUME ~lagged' PROVE LotsApart'
    BY DEF LotsApart
  <2>2. /\ live.book \cap gone = {} /\ live.book \cap Range(Lots) = {}
        /\ live.book \cup gone \cup Range(Lots) = 1..placed
        /\ Cardinality(live.book) + Cardinality(gone) + Len(Lots) = placed
    BY <1>1, <1>2, <2>1 DEF LotsApart
  <2>3. IsFiniteSet(1..placed)
    BY <1>1, FS_Interval
  <2>4. IsFiniteSet(live.book) /\ IsFiniteSet(gone)
    BY <2>2, <2>3, FS_Subset
  <2>5. o \notin live.book /\ o \notin gone /\ o \notin Range(Lots)
    BY <1>4, <2>2
  <2>6. Cardinality(live.book \cup {o}) = Cardinality(live.book) + 1
    BY <2>4, <2>5, FS_AddElement
  <2>7. Cardinality(live.book) \in Nat /\ Cardinality(gone) \in Nat
    BY <2>4, FS_CardinalityType
  <2>8. Len(Lots) \in Nat
    BY <1>1, LenProperties, ConcatProperties DEF Lots, Pending, Shape, CopiesGood, GoodRing, Rings
  <2>9. Cardinality(live'.book) + Cardinality(gone') + Len(Lots') = placed'
    BY <1>1, <1>2, <1>3, <1>7, <2>2, <2>6, <2>7, <2>8 DEF o
  <2> QED BY <1>2, <1>3, <1>4, <1>7, <2>2, <2>5, <2>9 DEF LotsApart
<1>9. CounterExact'
  BY <1>1, <1>2, <1>3, <1>7 DEF CounterExact, Market
<1>10. EscapeArmed'
  BY <1>1, <1>2, <1>3 DEF EscapeArmed, Market
<1> QED BY <1>5, <1>6, <1>8, <1>9, <1>10 DEF RollupInv

LEMMA CancelOrderKeeps ==
    ASSUME RollupAssumption, RollupInv, NEW o, CancelOrder(o)
    PROVE  RollupInv'
<1>1. /\ Shape /\ CopiesGood /\ LotsApart /\ CounterExact /\ EscapeArmed
      /\ placed \in Nat /\ MaxPlaced \in Nat
  BY DEF RollupInv, Shape, RollupAssumption
<1>2. /\ placed' = placed /\ gone' = gone \cup {o} /\ o \in live.book
      /\ home' = home /\ snap' = snap /\ open' = open /\ applied' = applied
      /\ lagged' = lagged /\ legacy' = legacy
  BY <1>1 DEF CancelOrder
<1>3. /\ live'.book = live.book \ {o} /\ live'.ring = live.ring /\ live'.market = live.market
      /\ live' = [market |-> live'.market, book |-> live'.book, ring |-> live'.ring]
  BY <1>1 DEF CancelOrder, Shape
<1>4. live.book \subseteq 1..placed
  BY <1>1 DEF CopiesGood, GoodBook
<1>5. Shape'
  BY <1>1, <1>2, <1>3, <1>4 DEF Shape
<1>6. CopiesGood'
  BY <1>1, <1>2, <1>3 DEF CopiesGood, GoodMarket, GoodBook, GoodRing
<1>7. Lots' = Lots /\ Pending' = Pending
  BY <1>2, <1>3 DEF Lots, Pending
<1>8. LotsApart'
  <2>1. SUFFICES ASSUME ~lagged' PROVE LotsApart'
    BY DEF LotsApart
  <2>2. /\ live.book \cap gone = {} /\ live.book \cap Range(Lots) = {}
        /\ live.book \cup gone \cup Range(Lots) = 1..placed
        /\ Cardinality(live.book) + Cardinality(gone) + Len(Lots) = placed
    BY <1>1, <1>2, <2>1 DEF LotsApart
  <2>3. IsFiniteSet(1..placed)
    BY <1>1, FS_Interval
  <2>4. IsFiniteSet(live.book) /\ IsFiniteSet(gone)
    BY <2>2, <2>3, FS_Subset
  <2>5. o \notin gone /\ o \notin Range(Lots)
    BY <1>2, <2>2
  <2>6. Cardinality(live.book \ {o}) = Cardinality(live.book) - 1
    BY <1>2, <2>4, FS_RemoveElement
  <2>10. Cardinality(gone \cup {o}) = Cardinality(gone) + 1
    BY <2>4, <2>5, FS_AddElement
  <2>7. Cardinality(live.book) \in Nat /\ Cardinality(gone) \in Nat
    BY <2>4, FS_CardinalityType
  <2>8. Len(Lots) \in Nat
    BY <1>1, LenProperties, ConcatProperties DEF Lots, Pending, Shape, CopiesGood, GoodRing, Rings
  <2>9. Cardinality(live'.book) + Cardinality(gone') + Len(Lots') = placed'
    BY <1>1, <1>2, <1>3, <1>7, <2>2, <2>6, <2>7, <2>8, <2>10
  <2> QED BY <1>2, <1>3, <1>4, <1>7, <2>2, <2>5, <2>9 DEF LotsApart
<1>9. CounterExact'
  BY <1>1, <1>2, <1>3, <1>7 DEF CounterExact, Market
<1>10. EscapeArmed'
  BY <1>1, <1>2, <1>3 DEF EscapeArmed, Market
<1> QED BY <1>5, <1>6, <1>8, <1>9, <1>10 DEF RollupInv

LEMMA PlaceTakerOrderKeeps ==
    ASSUME RollupAssumption, RollupInv, NEW o, PlaceTakerOrder(o)
    PROVE  RollupInv'
<1>1. /\ Shape /\ CopiesGood /\ LotsApart /\ CounterExact /\ EscapeArmed
      /\ placed \in Nat /\ MaxPlaced \in Nat /\ MaxFills \in Nat /\ VolumeCap \in Nat
  BY DEF RollupInv, Shape, RollupAssumption
<1>2. /\ placed' = placed /\ gone' = gone /\ o \in live.book /\ home' = home /\ snap' = snap
      /\ open' = open /\ applied' = applied /\ lagged' = lagged /\ legacy' = legacy
      /\ Len(applied) + Len(live.ring.q) < MaxFills /\ live.market.unsettled + 1 <= VolumeCap
      /\ live' = [live EXCEPT !.book = @ \ {o}, !.ring.q = Append(@, o), !.market.unsettled = @ + 1]
  BY <1>1 DEF PlaceTakerOrder, history, Pending, Market
<1> DEFINE q == live.ring.q
           m == live.market
           r == live.ring
<1>3. /\ live'.book = live.book \ {o} /\ live'.ring = [r EXCEPT !.q = Append(@, o)]
      /\ live'.market = [m EXCEPT !.unsettled = @ + 1]
      /\ live' = [market |-> live'.market, book |-> live'.book, ring |-> live'.ring]
  BY <1>1, <1>2 DEF Shape
<1>4. live.book \subseteq 1..placed /\ o \in Nat /\ o \in 1..placed
  BY <1>1, <1>2 DEF CopiesGood, GoodBook
<1>5. Shape'
  BY <1>1, <1>2, <1>3, <1>4 DEF Shape
<1>6. r \in Rings /\ q \in Seq(Nat) /\ r.settled = Len(applied) /\ Range(q) \subseteq 1..placed
      /\ m \in MarketType /\ m.seq = Len(applied) /\ applied \in Seq(Nat)
  BY <1>1 DEF CopiesGood, GoodRing, GoodMarket, Rings, Shape
<1>7. /\ Range(applied \o Append(q, o)) = Range(applied \o q) \cup {o}
      /\ Len(applied \o Append(q, o)) = Len(applied \o q) + 1
      /\ Range(Append(q, o)) = Range(q) \cup {o}
  BY <1>4, <1>6, LotJoins
<1>8. Append(q, o) \in Seq(Nat) /\ Len(Append(q, o)) = Len(q) + 1 /\ Len(q) \in Nat /\ Len(applied) \in Nat
  BY <1>4, <1>6
<1>9. live'.ring.q = Append(q, o) /\ live'.ring.settled = r.settled /\ live'.ring \in Rings
  BY <1>3, <1>6, <1>8 DEF Rings
<1>10. GoodRing(live.ring)'
  <2>1. Len(applied) + (Len(q) + 1) <= MaxFills
    BY <1>1, <1>2, <1>8, SMTT(30)
  <2>2. Range(Append(q, o)) \subseteq 1..placed
    BY <1>4, <1>6, <1>7
  <2>3. Len(applied) + Len(live'.ring.q) <= MaxFills
    BY <1>8, <1>9, <2>1
  <2> QED BY <1>2, <1>6, <1>9, <2>2, <2>3 DEF GoodRing
<1>17. m.unsettled \in Nat /\ m.unsettled + 1 \in 0..VolumeCap
  BY <1>1, <1>2, <1>6, SMTT(30) DEF MarketType
<1>11. GoodMarket(live.market)' /\ live'.market.unsettled = m.unsettled + 1
       /\ live'.market.delegated = m.delegated /\ live'.market.delegAge = m.delegAge
  <2> HIDE DEF m
  <2>1. live'.market \in MarketType /\ live'.market.seq = m.seq /\ live'.market.unsettled = m.unsettled + 1
        /\ live'.market.delegated = m.delegated /\ live'.market.delegAge = m.delegAge
    BY <1>3, <1>6, <1>17 DEF MarketType
  <2> QED BY <1>2, <1>6, <2>1 DEF GoodMarket
<1>12. CopiesGood'
  BY <1>1, <1>2, <1>3, <1>10, <1>11 DEF CopiesGood, GoodMarket, GoodBook, GoodRing
<1> DEFINE L == applied \o q
<1>13. Lots = L /\ Lots' = applied \o Append(q, o) /\ Pending = q /\ Pending' = Append(q, o)
  BY <1>2, <1>9 DEF Lots, Pending
<1>14. LotsApart'
  <2>1. SUFFICES ASSUME ~lagged' PROVE LotsApart'
    BY DEF LotsApart
  <2>2. /\ live.book \cap gone = {} /\ live.book \cap Range(L) = {}
        /\ live.book \cup gone \cup Range(L) = 1..placed
        /\ Cardinality(live.book) + Cardinality(gone) + Len(L) = placed
    BY <1>1, <1>2, <1>13, <2>1 DEF LotsApart
  <2>3. IsFiniteSet(1..placed)
    BY <1>1, FS_Interval
  <2>4. IsFiniteSet(live.book) /\ IsFiniteSet(gone)
    BY <2>2, <2>3, FS_Subset
  <2>6. Cardinality(live.book \ {o}) = Cardinality(live.book) - 1
    BY <1>2, <2>4, FS_RemoveElement
  <2>7. Cardinality(live.book) \in Nat /\ Cardinality(gone) \in Nat
    BY <2>4, FS_CardinalityType
  <2>8. Len(L) \in Nat
    BY <1>6
  <2>9. Cardinality(live'.book) + Cardinality(gone') + Len(Lots') = placed'
    BY <1>1, <1>2, <1>3, <1>7, <1>13, <2>2, <2>6, <2>7, <2>8
  <2>10. Range(Lots') = Range(L) \cup {o}
    BY <1>7, <1>13
  <2> QED BY <1>2, <1>3, <1>4, <2>2, <2>9, <2>10 DEF LotsApart
<1>15. CounterExact'
  BY <1>1, <1>2, <1>8, <1>11, <1>13 DEF CounterExact, Market
<1>16. EscapeArmed'
  BY <1>1, <1>2, <1>11 DEF EscapeArmed, Market
<1> QED BY <1>5, <1>12, <1>14, <1>15, <1>16 DEF RollupInv

(* A settlement runs on L1 only, so there is no copy that misses it.       *)
LEMMA ApplyFillKeeps ==
    ASSUME RollupAssumption, RollupInv, NEW stays \in BOOLEAN, ApplyFill(stays)
    PROVE  RollupInv'
<1>1. /\ Shape /\ CopiesGood /\ LotsApart /\ CounterExact /\ EscapeArmed
      /\ placed \in Nat /\ MaxPlaced \in Nat /\ MaxFills \in Nat /\ VolumeCap \in Nat
      /\ CensorTimeout \in Nat
  BY DEF RollupInv, Shape, RollupAssumption
<1> DEFINE q == live.ring.q
           m == live.market
           r == live.ring
           h == Head(q)
<1>2. /\ placed' = placed /\ gone' = gone /\ home' = home /\ snap' = snap
      /\ open' = stays /\ applied' = Append(applied, h) /\ lagged' = lagged /\ legacy' = legacy
      /\ home.market = "L1" /\ home.ring = "L1" /\ q # <<>>
      /\ live' = [live EXCEPT !.ring.settled = @ + 1, !.ring.q = Tail(@), !.market.seq = @ + 1,
                              !.market.unsettled = ReleaseVolume(@), !.market.settleAge = 0]
  BY <1>1 DEF ApplyFill, OnL1, Pending
<1>3. /\ live'.book = live.book
      /\ live'.ring = [r EXCEPT !.settled = @ + 1, !.q = Tail(@)]
      /\ live'.market = [m EXCEPT !.seq = @ + 1, !.unsettled = ReleaseVolume(@), !.settleAge = 0]
      /\ live' = [market |-> live'.market, book |-> live'.book, ring |-> live'.ring]
  BY <1>1, <1>2 DEF Shape
<1>6. r \in Rings /\ q \in Seq(Nat) /\ r.settled = Len(applied) /\ Range(q) \subseteq 1..placed
      /\ m \in MarketType /\ m.seq = Len(applied) /\ applied \in Seq(Nat)
      /\ Len(applied) + Len(q) <= MaxFills
  BY <1>1 DEF CopiesGood, GoodRing, GoodMarket, Rings, Shape
<1>7. Range(Tail(q)) \subseteq Range(q) /\ Len(Tail(q)) = Len(q) - 1 /\ Tail(q) \in Seq(Nat)
  BY <1>2, <1>6, RangeTail
<1>4. Len(q) \in Nat /\ Len(q) > 0
  BY <1>2, <1>6, EmptySeq
<1>19. h \in Nat
  BY <1>2, <1>6, HeadTailProperties
<1>8. Len(q) \in Nat /\ Len(q) > 0 /\ h \in Nat /\ Append(applied, h) \in Seq(Nat)
      /\ Len(applied) \in Nat /\ Len(Append(applied, h)) = Len(applied) + 1
  BY <1>4, <1>6, <1>19
<1>5. Shape'
  <2>1. open' \in BOOLEAN
    BY <1>2
  <2> QED BY <1>1, <1>2, <1>3, <1>8, <2>1 DEF Shape
<1>9. live'.ring.q = Tail(q) /\ live'.ring.settled = r.settled + 1 /\ live'.ring \in Rings
  <2>1. r.settled \in Nat /\ r.settled + 1 \in Nat
    BY <1>6, <1>8
  <2> HIDE DEF q, r
  <2>2. live'.ring.q = Tail(r.q) /\ live'.ring.settled = r.settled + 1
    BY <1>3, <1>6 DEF Rings
  <2> QED BY <1>3, <1>6, <1>7, <2>1, <2>2 DEF Rings, q, r
<1>10. GoodRing(live.ring)'
  <2>3. Len(applied') = Len(applied) + 1 /\ Len(live'.ring.q) = Len(q) - 1
    BY <1>2, <1>7, <1>8, <1>9
  <2>1. Len(applied') + Len(live'.ring.q) <= MaxFills
    <3> DEFINE a == Len(applied)
               b == Len(q)
               c == Len(applied')
               d == Len(live'.ring.q)
    <3>1. a \in Nat /\ b \in Nat /\ MaxFills \in Nat /\ a + b <= MaxFills /\ c = a + 1 /\ d = b - 1
      BY <1>1, <1>6, <1>8, <2>3
    <3> HIDE DEF a, b, c, d
    <3>2. c + d <= MaxFills
      BY <3>1
    <3> QED BY <3>2 DEF c, d
  <2>2. live'.ring.settled = Len(applied')
    BY <1>2, <1>6, <1>8, <1>9
  <2> QED BY <1>2, <1>6, <1>7, <1>9, <2>1, <2>2 DEF GoodRing
<1>11. /\ live'.market.unsettled = ReleaseVolume(m.unsettled)
       /\ live'.market.delegated = m.delegated /\ live'.market.delegAge = m.delegAge
       /\ m.unsettled \in 0..VolumeCap /\ ReleaseVolume(m.unsettled) \in 0..VolumeCap
  <2>1. m.unsettled \in 0..VolumeCap /\ m \in MarketType
    BY <1>6 DEF MarketType
  <2>2. ReleaseVolume(m.unsettled) \in 0..VolumeCap
    BY <1>1, <2>1 DEF ReleaseVolume
  <2> HIDE DEF m
  <2>3. /\ live'.market.unsettled = ReleaseVolume(m.unsettled)
        /\ live'.market.delegated = m.delegated /\ live'.market.delegAge = m.delegAge
    BY <1>3, <2>1 DEF MarketType
  <2> QED BY <2>1, <2>2, <2>3
<1>17. Len(applied) + 1 \in 0..MaxFills /\ 0 \in Ages
  BY <1>1, <1>6, <1>8 DEF Ages, MaxAge
<1>18. GoodMarket(live.market)'
  <2>1. m \in MarketType /\ m.seq = Len(applied)
    BY <1>6
  <2> DEFINE w == live'.market
             u == ReleaseVolume(m.unsettled)
  <2>2. w = [m EXCEPT !.seq = @ + 1, !.unsettled = u, !.settleAge = 0] /\ u \in 0..VolumeCap
    BY <1>3, <1>11
  <2> HIDE DEF m, u, w
  <2>3. w = [unsettled |-> u, seq |-> Len(applied) + 1, delegated |-> m.delegated,
             delegAge |-> m.delegAge, settleAge |-> 0, beatAge |-> m.beatAge]
    BY <2>1, <2>2 DEF MarketType
  <2>4. w \in MarketType /\ w.seq = Len(applied) + 1
    BY <1>17, <2>1, <2>2, <2>3 DEF MarketType
  <2>5. Len(applied') = Len(applied) + 1
    BY <1>2, <1>8
  <2> QED BY <2>4, <2>5 DEF GoodMarket, w
<1>12. CopiesGood'
  BY <1>1, <1>2, <1>3, <1>10, <1>18 DEF CopiesGood, GoodBook
<1>13. Lots' = Lots /\ Pending = q /\ Pending' = Tail(q)
  <2>1. Pending = q /\ Pending' = Tail(q)
    BY <1>9 DEF Pending
  <2> HIDE DEF q, h
  <2>2. Append(applied, Head(q)) \o Tail(q) = applied \o q
    BY <1>2, <1>6, HeadMoves
  <2>3. applied' = Append(applied, Head(q))
    BY <1>2 DEF h
  <2> QED BY <2>1, <2>2, <2>3 DEF Lots
<1>14. LotsApart'
  BY <1>1, <1>2, <1>3, <1>13 DEF LotsApart
<1>15. CounterExact'
  BY <1>1, <1>2, <1>7, <1>8, <1>11, <1>13 DEF CounterExact, Market, ReleaseVolume
<1>16. EscapeArmed'
  BY <1>1, <1>2, <1>11 DEF EscapeArmed, Market
<1> QED BY <1>5, <1>12, <1>14, <1>15, <1>16 DEF RollupInv

LEMMA ReconcileKeeps ==
    ASSUME RollupAssumption, RollupInv, ReconcileUnsettledFillVolume
    PROVE  RollupInv'
<1>1. /\ Shape /\ CopiesGood /\ LotsApart /\ CounterExact /\ EscapeArmed /\ VolumeCap \in Nat
  BY DEF RollupInv, RollupAssumption
<1>2. /\ placed' = placed /\ gone' = gone /\ home' = home /\ snap' = snap
      /\ open' = open /\ applied' = applied /\ lagged' = lagged /\ legacy' = legacy
      /\ live.ring.q = <<>> /\ live' = [live EXCEPT !.market.unsettled = 0]
  BY DEF ReconcileUnsettledFillVolume, history, Pending
<1>3. /\ live'.book = live.book /\ live'.ring = live.ring
      /\ live'.market = [live.market EXCEPT !.unsettled = 0]
      /\ live' = [market |-> live'.market, book |-> live'.book, ring |-> live'.ring]
  BY <1>1, <1>2 DEF Shape
<1>4. live.market \in MarketType /\ live.market.seq = Len(applied)
  BY <1>1 DEF CopiesGood, GoodMarket
<1>5. GoodMarket(live.market)' /\ live'.market.unsettled = 0
      /\ live'.market.delegated = live.market.delegated /\ live'.market.delegAge = live.market.delegAge
  BY <1>1, <1>2, <1>3, <1>4 DEF GoodMarket, MarketType
<1>6. Shape'
  BY <1>1, <1>2, <1>3 DEF Shape
<1>7. CopiesGood'
  BY <1>1, <1>2, <1>3, <1>5 DEF CopiesGood, GoodMarket, GoodBook, GoodRing
<1>8. Lots' = Lots /\ Pending' = <<>>
  BY <1>2, <1>3 DEF Lots, Pending
<1>9. LotsApart' /\ CounterExact'
  BY <1>1, <1>2, <1>3, <1>5, <1>8 DEF LotsApart, CounterExact, Market
<1>10. EscapeArmed'
  BY <1>1, <1>2, <1>5 DEF EscapeArmed, Market
<1> QED BY <1>6, <1>7, <1>9, <1>10 DEF RollupInv

-----------------------------------------------------------------------------
(* Steps that rewrite fields of the market other than volume and nonce.    *)
LEMMA MarketStamped ==
    ASSUME RollupInv, NEW m, live' = [live EXCEPT !.market = m],
           m \in MarketType, m.seq = live.market.seq, m.unsettled = live.market.unsettled,
           placed' = placed, gone' = gone, applied' = applied, lagged' = lagged
    PROVE  /\ LotsApart' /\ CounterExact'
           /\ live'.market = m /\ live'.book = live.book /\ live'.ring = live.ring
           /\ live' = [market |-> live'.market, book |-> live'.book, ring |-> live'.ring]
           /\ GoodMarket(live.market)' /\ GoodBook(live.book)' /\ GoodRing(live.ring)'
<1>1. Shape /\ CopiesGood /\ LotsApart /\ CounterExact
  BY DEF RollupInv
<1>2. /\ live'.market = m /\ live'.book = live.book /\ live'.ring = live.ring
      /\ live' = [market |-> live'.market, book |-> live'.book, ring |-> live'.ring]
  BY <1>1 DEF Shape
<1>3. LotsApart' /\ CounterExact'
  BY <1>1, <1>2, LotsStay
<1>4. GoodMarket(live.market)'
  BY <1>1, <1>2 DEF CopiesGood, GoodMarket
<1>5. GoodBook(live.book)' /\ GoodRing(live.ring)'
  BY <1>1, <1>2 DEF CopiesGood, GoodBook, GoodRing
<1> QED BY <1>2, <1>3, <1>4, <1>5

LEMMA MarketFacts ==
    ASSUME RollupAssumption, RollupInv
    PROVE  /\ live.market \in MarketType /\ 0 \in Ages /\ Unset \in Ages /\ 0 # Unset
           /\ TRUE \in BOOLEAN /\ FALSE \in BOOLEAN
<1>1. live.market \in MarketType
  BY DEF RollupInv, CopiesGood, GoodMarket
<1>2. 0 \in Ages /\ Unset \in Ages /\ 0 # Unset
  BY DEF Ages, Unset, MaxAge, RollupAssumption
<1> QED BY <1>1, <1>2

LEMMA DelegateMarketBookKeeps ==
    ASSUME RollupAssumption, RollupInv, DelegateMarketBook PROVE RollupInv'
<1>1. /\ Shape /\ CopiesGood /\ EscapeArmed
  BY DEF RollupInv
<1> DEFINE m == [live.market EXCEPT !.delegated = TRUE, !.delegAge = 0]
<1>2. /\ placed' = placed /\ gone' = gone /\ open' = open /\ applied' = applied
      /\ lagged' = lagged /\ legacy' = legacy /\ home.market = "L1" /\ home.book = "L1"
      /\ home' = [home EXCEPT !["book"] = "ER"] /\ snap' = [snap EXCEPT !["book"] = live.book]
      /\ live' = [live EXCEPT !.market = m]
  BY <1>1 DEF DelegateMarketBook, HandOver, OnL1, history, Shape
<1>3. m \in MarketType /\ m.seq = live.market.seq /\ m.unsettled = live.market.unsettled
      /\ m.delegated = TRUE /\ m.delegAge = 0
  BY MarketFacts DEF MarketType
<1> HIDE DEF m
<1>4. /\ LotsApart' /\ CounterExact'
      /\ live'.market = m /\ live'.book = live.book /\ live'.ring = live.ring
      /\ live' = [market |-> live'.market, book |-> live'.book, ring |-> live'.ring]
      /\ GoodMarket(live.market)' /\ GoodBook(live.book)' /\ GoodRing(live.ring)'
  BY <1>2, <1>3, MarketStamped
<1>5. /\ home' \in [Accounts -> {"L1", "ER"}] /\ home'.market = "L1" /\ home'.ring = home.ring
      /\ home'.book = "ER"
      /\ snap' = [a \in Accounts |-> snap'[a]] /\ snap'.book = live.book /\ snap'.ring = snap.ring
  BY <1>1, <1>2, LiveFields DEF Shape
<1>6. Shape'
  BY <1>1, <1>2, <1>4, <1>5 DEF Shape
<1>7. CopiesGood'
  BY <1>1, <1>2, <1>4, <1>5 DEF CopiesGood, GoodBook, GoodRing
<1>8. EscapeArmed'
  BY <1>3, <1>4, <1>5, MarketFacts DEF EscapeArmed, Market, Unset
<1> QED BY <1>4, <1>6, <1>7, <1>8 DEF RollupInv

LEMMA DelegateFillCommitmentKeeps ==
    ASSUME RollupInv, DelegateFillCommitment PROVE RollupInv'
<1>1. Shape /\ CopiesGood /\ EscapeArmed /\ LotsApart /\ CounterExact
  BY DEF RollupInv
<1>2. /\ placed' = placed /\ gone' = gone /\ open' = open /\ applied' = applied
      /\ lagged' = lagged /\ legacy' = legacy /\ live' = live
      /\ home' = [home EXCEPT !["ring"] = "ER"] /\ snap' = [snap EXCEPT !["ring"] = live.ring]
  BY DEF DelegateFillCommitment, HandOver, history
<1>3. /\ home' \in [Accounts -> {"L1", "ER"}] /\ home'.market = home.market /\ home'.book = home.book
      /\ snap' = [a \in Accounts |-> snap'[a]] /\ snap'.ring = live.ring
      /\ snap'.market = snap.market /\ snap'.book = snap.book
  BY <1>1, <1>2, LiveFields DEF Shape
<1>4. LotsApart' /\ CounterExact'
  BY <1>1, <1>2, LotsStay
<1>5. Shape'
  BY <1>1, <1>2, <1>3 DEF Shape
<1>6. CopiesGood'
  BY <1>1, <1>2, <1>3 DEF CopiesGood, GoodMarket, GoodBook, GoodRing
<1>7. EscapeArmed'
  BY <1>1, <1>2, <1>3 DEF EscapeArmed, Market
<1> QED BY <1>4, <1>5, <1>6, <1>7 DEF RollupInv

LEMMA DelegateMarketKeeps == ASSUME RollupInv, DelegateMarket PROVE RollupInv'
<1>1. Shape /\ CopiesGood /\ EscapeArmed /\ LotsApart /\ CounterExact
  BY DEF RollupInv
<1>2. /\ placed' = placed /\ gone' = gone /\ open' = open /\ applied' = applied
      /\ lagged' = lagged /\ legacy' = legacy /\ live' = live
      /\ home' = [home EXCEPT !["market"] = "ER"] /\ snap' = [snap EXCEPT !["market"] = live.market]
  BY DEF DelegateMarket, HandOver, history
<1>3. /\ home' \in [Accounts -> {"L1", "ER"}] /\ home'.ring = home.ring /\ home'.book = home.book
      /\ snap' = [a \in Accounts |-> snap'[a]] /\ snap'.market = live.market
      /\ snap'.ring = snap.ring /\ snap'.book = snap.book
  BY <1>1, <1>2, LiveFields DEF Shape
<1>4. LotsApart' /\ CounterExact'
  BY <1>1, <1>2, LotsStay
<1>5. Shape'
  BY <1>1, <1>2, <1>3 DEF Shape
<1>6. CopiesGood'
  BY <1>1, <1>2, <1>3 DEF CopiesGood, GoodMarket, GoodBook, GoodRing
<1>7. EscapeArmed'
  BY <1>1, <1>2, <1>3 DEF EscapeArmed, Market
<1> QED BY <1>4, <1>5, <1>6, <1>7 DEF RollupInv

LEMMA CommitKeeps == ASSUME RollupInv, NEW a \in Accounts, Commit(a) PROVE RollupInv'
<1>1. Shape /\ CopiesGood /\ EscapeArmed /\ LotsApart /\ CounterExact
  BY DEF RollupInv
<1>2. /\ placed' = placed /\ gone' = gone /\ open' = open /\ applied' = applied
      /\ lagged' = lagged /\ legacy' = legacy /\ live' = live /\ home' = home
      /\ snap' = [snap EXCEPT ![a] = live[a]]
  BY DEF Commit, history
<1>3. /\ snap' = [b \in Accounts |-> snap'[b]]
      /\ \A b \in Accounts : snap'[b] = IF b = a THEN live[b] ELSE snap[b]
  BY <1>1, <1>2, LiveFields DEF Shape
<1>8. /\ snap'.market \in {snap.market, live.market} /\ snap'.book \in {snap.book, live.book}
      /\ snap'.ring \in {snap.ring, live.ring}
  BY <1>3 DEF Accounts
<1>4. LotsApart' /\ CounterExact'
  BY <1>1, <1>2, LotsStay
<1>5. Shape'
  BY <1>1, <1>2, <1>3 DEF Shape
<1>6. CopiesGood'
  BY <1>1, <1>2, <1>8 DEF CopiesGood, GoodMarket, GoodBook, GoodRing
<1>7. EscapeArmed'
  BY <1>1, <1>2, <1>8 DEF EscapeArmed, Market
<1> QED BY <1>4, <1>5, <1>6, <1>7 DEF RollupInv

(* Whichever copy comes back, current or committed, is a good one; a copy  *)
(* that differs from the account it replaces is remembered as a lag.       *)
LEMMA UndelegateKeeps ==
    ASSUME RollupInv, NEW a \in Accounts, NEW final \in BOOLEAN, Undelegate(a, final)
    PROVE  RollupInv'
<1>1. Shape /\ CopiesGood /\ EscapeArmed /\ LotsApart /\ CounterExact
  BY DEF RollupInv
<1> DEFINE back == IF final THEN live[a] ELSE snap[a]
<1>2. /\ placed' = placed /\ gone' = gone /\ open' = open /\ applied' = applied
      /\ home[a] = "ER" /\ home' = [home EXCEPT ![a] = "L1"]
      /\ snap' = [snap EXCEPT ![a] = Absent] /\ live' = [live EXCEPT ![a] = back]
      /\ lagged' = (lagged \/ back # live[a]) /\ legacy' = (legacy /\ a # "book")
  BY DEF Undelegate
<1>3. back \in {live[a], snap[a]}
  OBVIOUS
<1> HIDE DEF back
<1>4. /\ home' \in [Accounts -> {"L1", "ER"}]
      /\ \A b \in Accounts : home'[b] = IF b = a THEN "L1" ELSE home[b]
      /\ snap' = [b \in Accounts |-> snap'[b]]
      /\ \A b \in Accounts : b # a => snap'[b] = snap[b]
  BY <1>1, <1>2, LiveFields DEF Shape
<1>5. /\ live' = [market |-> live'.market, book |-> live'.book, ring |-> live'.ring]
      /\ \A b \in Accounts : live'[b] = IF b = a THEN back ELSE live[b]
  BY <1>1, <1>2 DEF Shape, Accounts
<1>6. Shape'
  <2>1. lagged' \in BOOLEAN /\ legacy' \in BOOLEAN
    BY <1>1, <1>2 DEF Shape
  <2> QED BY <1>1, <1>2, <1>4, <1>5, <2>1 DEF Shape
<1>7. /\ GoodMarket(live.market)' /\ GoodBook(live.book)' /\ GoodRing(live.ring)'
  <2>1. GoodMarket(live.market)'
    <3>1. live'.market = live.market \/ (home.market = "ER" /\ live'.market = snap.market)
      BY <1>2, <1>3, <1>5 DEF Accounts
    <3> QED BY <3>1, <1>1, <1>2 DEF CopiesGood, GoodMarket
  <2>2. GoodBook(live.book)'
    <3>1. live'.book = live.book \/ (home.book = "ER" /\ live'.book = snap.book)
      BY <1>2, <1>3, <1>5 DEF Accounts
    <3> QED BY <3>1, <1>1, <1>2 DEF CopiesGood, GoodBook
  <2>3. GoodRing(live.ring)'
    <3>1. live'.ring = live.ring \/ (home.ring = "ER" /\ live'.ring = snap.ring)
      BY <1>2, <1>3, <1>5 DEF Accounts
    <3> QED BY <3>1, <1>1, <1>2 DEF CopiesGood, GoodRing
  <2> QED BY <2>1, <2>2, <2>3
<1>8. /\ home'.market = "ER" => home.market = "ER" /\ snap'.market = snap.market
      /\ home'.book = "ER" => home.book = "ER" /\ snap'.book = snap.book /\ a # "book"
      /\ home'.ring = "ER" => home.ring = "ER" /\ snap'.ring = snap.ring
  BY <1>4 DEF Accounts
<1>9. CopiesGood'
  BY <1>1, <1>2, <1>7, <1>8 DEF CopiesGood, GoodMarket, GoodBook, GoodRing
<1>10. LotsApart' /\ CounterExact'
  <2>1. CASE lagged'
    BY <2>1 DEF LotsApart, CounterExact
  <2>2. CASE ~lagged'
    <3>1. ~lagged /\ back = live[a]
      BY <1>2, <2>2
    <3>2. live' = live
      BY <1>1, <1>5, <3>1 DEF Shape, Accounts
    <3>3. lagged' = lagged
      BY <1>1, <2>2, <3>1, <1>6 DEF Shape
    <3> QED BY <1>1, <1>2, <3>2, <3>3, LotsStay
  <2> QED BY <2>1, <2>2
<1>11. EscapeArmed'
  <2>1. live'.market = live.market \/ (home.market = "ER" /\ live'.market = snap.market)
    BY <1>2, <1>3, <1>5 DEF Accounts
  <2>2. home'.book = "ER" /\ ~legacy' => home.book = "ER" /\ ~legacy
    BY <1>2, <1>8
  <2> QED BY <1>1, <1>8, <2>1, <2>2 DEF EscapeArmed, Market
<1> QED BY <1>6, <1>9, <1>10, <1>11 DEF RollupInv

(* clear_book_delegation, er_heartbeat, stamp_book_liveness_baseline: only *)
(* the first disarms the escape, and only with the book at home.           *)
LEMMA StampsKeep ==
    ASSUME RollupAssumption, RollupInv,
           ClearBookDelegation \/ ErHeartbeat \/ StampBookLivenessBaseline
    PROVE  RollupInv'
<1>1. Shape /\ CopiesGood /\ EscapeArmed
  BY DEF RollupInv
<1>2. /\ placed' = placed /\ gone' = gone /\ open' = open /\ applied' = applied
      /\ lagged' = lagged /\ legacy' = legacy /\ home' = home /\ snap' = snap
  BY DEF ClearBookDelegation, ErHeartbeat, StampBookLivenessBaseline, history
<1>3. PICK m : /\ live' = [live EXCEPT !.market = m]
               /\ m \in MarketType /\ m.seq = live.market.seq /\ m.unsettled = live.market.unsettled
               /\ home.book = "ER" =>
                     /\ m.delegated = live.market.delegated
                     /\ m.delegAge # Unset \/ m.delegAge = live.market.delegAge
  <2>1. CASE ClearBookDelegation
    <3> DEFINE m == [live.market EXCEPT !.delegated = FALSE, !.delegAge = Unset]
    <3>1. live' = [live EXCEPT !.market = m] /\ home.book = "L1"
      BY <1>1, <2>1 DEF ClearBookDelegation, OnL1, Shape
    <3>2. m \in MarketType /\ m.seq = live.market.seq /\ m.unsettled = live.market.unsettled
      BY MarketFacts DEF MarketType
    <3> QED BY <3>1, <3>2
  <2>2. CASE ErHeartbeat
    <3> DEFINE m == [live.market EXCEPT !.beatAge = 0]
    <3>1. live' = [live EXCEPT !.market = m]
      BY <1>1, <2>2 DEF ErHeartbeat, Shape
    <3>2. m \in MarketType /\ m.seq = live.market.seq /\ m.unsettled = live.market.unsettled
          /\ m.delegated = live.market.delegated /\ m.delegAge = live.market.delegAge
      BY MarketFacts DEF MarketType
    <3> QED BY <3>1, <3>2
  <2>3. CASE StampBookLivenessBaseline
    <3> DEFINE m == [live.market EXCEPT !.delegAge = 0]
    <3>1. live' = [live EXCEPT !.market = m]
      BY <1>1, <2>3 DEF StampBookLivenessBaseline, Shape
    <3>2. m \in MarketType /\ m.seq = live.market.seq /\ m.unsettled = live.market.unsettled
          /\ m.delegated = live.market.delegated /\ m.delegAge # Unset
      BY MarketFacts DEF MarketType
    <3> QED BY <3>1, <3>2
  <2> QED BY <2>1, <2>2, <2>3
<1>4. /\ LotsApart' /\ CounterExact'
      /\ live'.market = m /\ live'.book = live.book /\ live'.ring = live.ring
      /\ live' = [market |-> live'.market, book |-> live'.book, ring |-> live'.ring]
      /\ GoodMarket(live.market)' /\ GoodBook(live.book)' /\ GoodRing(live.ring)'
  BY <1>2, <1>3, MarketStamped
<1>5. Shape'
  BY <1>1, <1>2, <1>4 DEF Shape
<1>6. CopiesGood'
  BY <1>1, <1>2, <1>4 DEF CopiesGood, GoodMarket, GoodBook, GoodRing
<1>7. EscapeArmed'
  BY <1>1, <1>2, <1>3, <1>4 DEF EscapeArmed, Market
<1> QED BY <1>4, <1>5, <1>6, <1>7 DEF RollupInv

LEMMA ForceReduceKeeps == ASSUME RollupInv, ForceReducePositionOracle PROVE RollupInv'
<1>1. Shape /\ CopiesGood /\ EscapeArmed /\ LotsApart /\ CounterExact
  BY DEF RollupInv
<1>2. /\ placed' = placed /\ gone' = gone /\ open' = FALSE /\ applied' = applied
      /\ lagged' = lagged /\ legacy' = legacy /\ home' = home /\ snap' = snap /\ live' = live
  BY DEF ForceReducePositionOracle, history
<1>3. LotsApart' /\ CounterExact'
  BY <1>1, <1>2, LotsStay
<1>4. Shape'
  <2>1. open' \in BOOLEAN
    BY <1>2
  <2> QED BY <1>1, <1>2, <2>1 DEF Shape
<1>5. CopiesGood' /\ EscapeArmed'
  BY <1>1, <1>2 DEF CopiesGood, GoodMarket, GoodBook, GoodRing, EscapeArmed, Market
<1> QED BY <1>3, <1>4, <1>5 DEF RollupInv

(* A slot passes: ages grow, an unset stamp stays unset.                   *)
LEMMA OlderKeeps ==
    ASSUME RollupAssumption, NEW m \in MarketType
    PROVE  /\ Older(m) \in MarketType
           /\ Older(m).seq = m.seq /\ Older(m).unsettled = m.unsettled
           /\ Older(m).delegated = m.delegated
           /\ m.delegAge # Unset => Older(m).delegAge # Unset
<1> DEFINE Age(n) == IF n = Unset THEN n ELSE Min({n + 1, MaxAge})
<1>1. Older(m) = [m EXCEPT !.delegAge = Age(m.delegAge), !.settleAge = Age(m.settleAge),
                           !.beatAge = Age(m.beatAge)]
  BY DEF Older, MarketType
<1>2. ASSUME NEW n \in Ages PROVE Age(n) \in Ages /\ (n # Unset => Age(n) # Unset)
  <2>1. MaxAge \in Nat
    BY DEF MaxAge, RollupAssumption
  <2>2. CASE n = Unset
    BY <2>2
  <2>3. CASE n # Unset
    <3>1. n \in 0..MaxAge /\ n + 1 \in Int
      BY <2>1, <2>3 DEF Ages
    <3>2. Min({n + 1, MaxAge}) = IF n + 1 <= MaxAge THEN n + 1 ELSE MaxAge
      BY <2>1, <3>1, MinOfTwo
    <3>3. Min({n + 1, MaxAge}) \in 0..MaxAge
      BY <2>1, <3>1, <3>2
    <3>4. \A k \in 0..MaxAge : k # Unset
      BY DEF Unset
    <3> QED BY <2>3, <3>3, <3>4 DEF Ages
  <2> QED BY <2>2, <2>3
<1> HIDE DEF Age
<1>3. m.delegAge \in Ages /\ m.settleAge \in Ages /\ m.beatAge \in Ages
  BY DEF MarketType
<1>4. /\ Age(m.delegAge) \in Ages /\ Age(m.settleAge) \in Ages /\ Age(m.beatAge) \in Ages
      /\ m.delegAge # Unset => Age(m.delegAge) # Unset
  BY <1>2, <1>3
<1> QED BY <1>1, <1>4 DEF MarketType

LEMMA TickKeeps == ASSUME RollupAssumption, RollupInv, Tick PROVE RollupInv'
<1>1. Shape /\ CopiesGood /\ EscapeArmed
  BY DEF RollupInv
<1> DEFINE m == Older(live.market)
<1>2. /\ placed' = placed /\ gone' = gone /\ open' = open /\ applied' = applied
      /\ lagged' = lagged /\ legacy' = legacy /\ home' = home
      /\ live' = [live EXCEPT !.market = m]
      /\ snap' = IF home.market = "ER" THEN [snap EXCEPT !.market = Older(snap.market)] ELSE snap
  BY <1>1 DEF Tick, history, Shape
<1>3. live.market \in MarketType /\ (home.market = "ER" => snap.market \in MarketType)
  BY <1>1 DEF CopiesGood, GoodMarket
<1>4. /\ m \in MarketType /\ m.seq = live.market.seq /\ m.unsettled = live.market.unsettled
      /\ m.delegated = live.market.delegated
      /\ live.market.delegAge # Unset => m.delegAge # Unset
  BY <1>3, OlderKeeps
<1> HIDE DEF m
<1>5. /\ LotsApart' /\ CounterExact'
      /\ live'.market = m /\ live'.book = live.book /\ live'.ring = live.ring
      /\ live' = [market |-> live'.market, book |-> live'.book, ring |-> live'.ring]
      /\ GoodMarket(live.market)' /\ GoodBook(live.book)' /\ GoodRing(live.ring)'
  BY <1>2, <1>4, MarketStamped
<1>6. /\ snap' = [a \in Accounts |-> snap'[a]] /\ snap'.ring = snap.ring /\ snap'.book = snap.book
      /\ home.market = "ER" => snap'.market = Older(snap.market)
  BY <1>1, <1>2, LiveFields DEF Shape
<1>7. home.market = "ER" =>
        /\ snap'.market \in MarketType /\ snap'.market.seq = snap.market.seq
        /\ snap'.market.delegated = snap.market.delegated
        /\ snap.market.delegAge # Unset => snap'.market.delegAge # Unset
  BY <1>3, <1>6, OlderKeeps
<1>8. Shape'
  BY <1>1, <1>2, <1>5, <1>6 DEF Shape
<1>9. CopiesGood'
  <2>1. home'.market = "ER" => GoodMarket(snap.market)'
    BY <1>1, <1>2, <1>7 DEF CopiesGood, GoodMarket
  <2>2. /\ home'.book = "ER" => GoodBook(snap.book)'
        /\ home'.ring = "ER" => GoodRing(snap.ring)'
    BY <1>1, <1>2, <1>6 DEF CopiesGood, GoodBook, GoodRing
  <2> QED BY <1>5, <2>1, <2>2 DEF CopiesGood
<1>10. EscapeArmed'
  BY <1>1, <1>2, <1>4, <1>5, <1>7 DEF EscapeArmed, Market
<1> QED BY <1>5, <1>8, <1>9, <1>10 DEF RollupInv

-----------------------------------------------------------------------------
LEMMA RollupStep == ASSUME RollupAssumption, RollupInv, [Next]_vars PROVE RollupInv'
<1>1. CASE UNCHANGED vars
  <2>1. /\ home' = home /\ live' = live /\ snap' = snap /\ open' = open /\ placed' = placed
        /\ gone' = gone /\ applied' = applied /\ lagged' = lagged /\ legacy' = legacy
    BY <1>1 DEF vars
  <2>2. Lots' = Lots /\ Pending' = Pending
    BY <2>1 DEF Lots, Pending
  <2> QED BY <2>1, <2>2 DEF RollupInv, Shape, CopiesGood, GoodMarket, GoodBook, GoodRing, LotsApart,
                            CounterExact, EscapeArmed, Market
<1>2. CASE PlaceLimitOrder
  BY <1>2, PlaceLimitOrderKeeps
<1>3. CASE \E o \in 1..MaxPlaced : CancelOrder(o)
  BY <1>3, CancelOrderKeeps
<1>4. CASE \E o \in 1..MaxPlaced : PlaceTakerOrder(o)
  BY <1>4, PlaceTakerOrderKeeps
<1>5. CASE Settle
  BY <1>5, ApplyFillKeeps DEF Settle
<1>6. CASE ReconcileUnsettledFillVolume
  BY <1>6, ReconcileKeeps
<1>7. CASE DelegateMarketBook
  BY <1>7, DelegateMarketBookKeeps
<1>8. CASE DelegateFillCommitment
  BY <1>8, DelegateFillCommitmentKeeps
<1>9. CASE DelegateMarket
  BY <1>9, DelegateMarketKeeps
<1>10. CASE \E a \in Accounts : Commit(a)
  BY <1>10, CommitKeeps
<1>11. CASE \E a \in Accounts, final \in BOOLEAN : Undelegate(a, final)
  BY <1>11, UndelegateKeeps
<1>12. CASE ClearBookDelegation \/ ErHeartbeat \/ StampBookLivenessBaseline
  BY <1>12, StampsKeep
<1>13. CASE ForceReducePositionOracle
  BY <1>13, ForceReduceKeeps
<1>14. CASE Tick
  BY <1>14, TickKeeps
<1> QED
  BY <1>1, <1>2, <1>3, <1>4, <1>5, <1>6, <1>7, <1>8, <1>9, <1>10, <1>11, <1>12, <1>13, <1>14 DEF Next

(* Every reachable state satisfies the invariant.                          *)
LEMMA RollupInvariance == Spec => []RollupInv
<1>1. Init => RollupInv
  BY RollupAssumption, RollupInit
<1>2. RollupInv /\ [Next]_vars => RollupInv'
  BY RollupAssumption, RollupStep
<1> QED BY <1>1, <1>2, PTL DEF Spec

(* Through delegations, commits and stale returns in any order, the ring's *)
(* cursor and the market's nonce count exactly the fills that were applied *)
(* (apply_fill after process_undelegation), and unless an account came     *)
(* back old every order is resting, cancelled, pending or settled, once.   *)
THEOREM SettlementSurvivesTheRollup == Spec => []NothingLost
<1>1. RollupInv => NothingLost
  <2> SUFFICES ASSUME RollupInv PROVE NothingLost
    OBVIOUS
  <2>1. Shape /\ CopiesGood /\ LotsApart /\ CounterExact /\ MaxFills \in Nat
    BY RollupAssumption DEF RollupInv, RollupAssumption
  <2>2. LotsConserved
    BY <2>1 DEF LotsApart, LotsConserved
  <2>3. SettlementDurable
    BY <2>1 DEF CopiesGood, GoodRing, GoodMarket, SettlementDurable, Market
  <2>4. \A r : GoodRing(r) => RingType(r)
    <3> SUFFICES ASSUME NEW r, GoodRing(r) PROVE RingType(r)
      OBVIOUS
    <3>1. r.q \in Seq(Nat) /\ applied \in Seq(Nat) /\ r.settled = Len(applied)
          /\ Len(applied) + Len(r.q) <= MaxFills /\ Range(r.q) \subseteq 1..placed
      BY <2>1 DEF GoodRing, Rings, Shape
    <3>2. Len(r.q) \in Nat /\ Len(applied) \in Nat
      BY <3>1, LenProperties
    <3> DEFINE n == Len(applied)
               k == Len(r.q)
    <3>3. n \in Nat /\ k \in Nat /\ n + k <= MaxFills
      BY <3>1, <3>2
    <3> HIDE DEF n, k
    <3>4. n \in 0..MaxFills
      BY <2>1, <3>3
    <3> QED BY <3>1, <3>4 DEF RingType, n
  <2>5. TypeOK
    BY <2>1, <2>4 DEF TypeOK, Shape, CopiesGood, GoodMarket, GoodBook, Market
  <2> QED BY <2>1, <2>2, <2>3, <2>5 DEF NothingLost
<1> QED BY <1>1, RollupInvariance, PTL

(* A book this program handed over always has its escape armed, in the     *)
(* market account and in any copy of it that may come back.                *)
THEOREM EscapeStaysArmed == Spec => []EscapeArmed
<1>1. RollupInv => EscapeArmed
  BY DEF RollupInv
<1> QED BY <1>1, RollupInvariance, PTL

-----------------------------------------------------------------------------
(* The margin that the rollup reserves, on L1.  A reset outlives what was  *)
(* sent before it because everything in flight is at most one epoch ahead  *)
(* of the chain; the flag in trader_state and the attestation agree, so a  *)
(* path that only asks the flag leaves nothing reserved behind; nothing is *)
(* in flight about an account whose attestation is yet to be created.      *)
InFlight == wire \cup ({tx} \ {None})

ResTypes ==
    /\ coll \in [TraderAccounts -> Nat] /\ iso \in [TraderAccounts -> Nat]
    /\ reserved \in [TraderAccounts -> Nat] /\ epoch \in [TraderAccounts -> Nat]
    /\ backed \in [TraderAccounts -> Nat] /\ resets \in [TraderAccounts -> Nat]
    /\ exposed \in [TraderAccounts -> BOOLEAN] /\ ready \in [TraderAccounts -> BOOLEAN]
    /\ active \in [TraderAccounts -> BOOLEAN]
    /\ sameWallet \in BOOLEAN /\ bookDelegated \in BOOLEAN
    /\ l1Copy = None \/ l1Copy \in [TraderAccounts -> Nat]
    /\ vault \in 0..MaxVault /\ ordered \in 0..MaxOrders /\ faults \in 0..MaxFaults

FlagAgrees ==
    \A a \in TraderAccounts :
        /\ active[a] <=> reserved[a] > 0
        /\ reserved[a] > 0 => ready[a]

(* The cranker's memory is about accounts that have an attestation.        *)
CrankerSound ==
    /\ late \subseteq TraderAccounts
    /\ known \subseteq {a \in TraderAccounts : ready[a]}
    /\ DOMAIN want \subseteq TraderAccounts
    /\ \A a \in DOMAIN want : want[a] \in Nat
    /\ wire \subseteq Attestations
    /\ tx # None => tx \in Attestations
    /\ \A m \in InFlight : ready[m.acct]

(* What is in flight is of this generation or an earlier one, and at most  *)
(* one epoch ahead.                                                        *)
EpochsAhead ==
    \A m \in InFlight :
        /\ m.epoch <= epoch[m.acct] + 1
        /\ m.gen <= resets[m.acct]
        /\ m.gen < resets[m.acct] => m.epoch <= epoch[m.acct]

ResInv == ResTypes /\ FlagAgrees /\ CrankerSound /\ EpochsAhead

LEMMA ResInitInv == ASSUME ResInit PROVE ResInv
<1>1. MaxVault \in Nat /\ MaxOrders \in Nat /\ MaxFaults \in Nat
  BY ReservationAssumption
<1>2. ResTypes
  <2>1. /\ Zero \in [TraderAccounts -> Nat] /\ Never \in [TraderAccounts -> BOOLEAN]
        /\ 0 \in 0..MaxVault /\ 0 \in 0..MaxOrders /\ 0 \in 0..MaxFaults
    BY <1>1 DEF Zero, Never
  <2> QED BY <2>1 DEF ResInit, ResTypes
<1>3. FlagAgrees
  BY DEF ResInit, FlagAgrees, Zero, Never
<1>4. CrankerSound /\ EpochsAhead
  BY DEF ResInit, CrankerSound, EpochsAhead, InFlight
<1> QED BY <1>2, <1>3, <1>4 DEF ResInv

(* Moves of collateral, orders and positions touch neither attestation nor *)
(* cranker.                                                                *)
LEMMA BalanceStepKeeps ==
    ASSUME ResInv,
           UNCHANGED <<ready, reserved, epoch, active, resets, scene, cranker>>,
           coll' \in [TraderAccounts -> Nat], iso' \in [TraderAccounts -> Nat],
           backed' \in [TraderAccounts -> Nat], exposed' \in [TraderAccounts -> BOOLEAN],
           vault' \in 0..MaxVault, ordered' \in 0..MaxOrders
    PROVE  ResInv'
<1>1. ResTypes'
  BY DEF ResInv, ResTypes, cranker, scene
<1>2. FlagAgrees'
  BY DEF ResInv, FlagAgrees
<1>3. CrankerSound' /\ EpochsAhead'
  BY DEF ResInv, CrankerSound, EpochsAhead, InFlight, cranker
<1> QED BY <1>1, <1>2, <1>3 DEF ResInv

(* The owner's paths keep every balance a natural.                         *)
LEMMA OwnerKeeps == ASSUME ResInv, Owner PROVE ResInv'
<1>0. /\ ResTypes /\ FlagAgrees /\ MaxVault \in Nat /\ Amounts \subseteq Nat
      /\ Floors \subseteq Nat
  BY ReservationAssumption DEF ResInv
<1>1. ASSUME NEW c \in [TraderAccounts -> Nat], NEW i \in [TraderAccounts -> Nat],
             NEW v \in 0..MaxVault, Moves(c, i, v)
      PROVE  ResInv'
  <2>1. /\ coll' = c /\ iso' = i /\ vault' = v
        /\ UNCHANGED <<exposed, ready, reserved, epoch, active, resets>>
        /\ UNCHANGED <<backed, scene, cranker, ordered>>
    BY <1>1 DEF Moves
  <2>2. /\ backed' \in [TraderAccounts -> Nat] /\ exposed' \in [TraderAccounts -> BOOLEAN]
        /\ ordered' \in 0..MaxOrders
    BY <1>0, <2>1 DEF ResTypes, FlagAgrees
  <2> QED BY <2>1, <2>2, BalanceStepKeeps
<1>2. ASSUME NEW a \in TraderAccounts, NEW n \in Amounts, DepositCollateral(a, n)
      PROVE  ResInv'
  <2>1. /\ [coll EXCEPT ![a] = @ + n] \in [TraderAccounts -> Nat]
        /\ vault + n \in 0..MaxVault /\ iso \in [TraderAccounts -> Nat]
    BY <1>0, <1>2 DEF ResTypes, DepositCollateral
  <2> QED BY <1>1, <1>2, <2>1 DEF DepositCollateral
<1>3. ASSUME NEW a \in TraderAccounts, NEW n \in Amounts, n <= coll[a], TakeOut(a, n)
      PROVE  ResInv'
  <2>1. /\ [coll EXCEPT ![a] = @ - n] \in [TraderAccounts -> Nat]
        /\ vault - n \in 0..MaxVault /\ iso \in [TraderAccounts -> Nat]
    BY <1>0, <1>3 DEF ResTypes, TakeOut
  <2> QED BY <1>1, <1>3, <2>1 DEF TakeOut
<1>4. ASSUME NEW a \in TraderAccounts, NEW b \in TraderAccounts, NEW n \in Amounts,
             a # b, n <= coll[a],
             Moves([coll EXCEPT ![a] = @ - n, ![b] = @ + n], iso, vault)
      PROVE  ResInv'
  <2>1. /\ [coll EXCEPT ![a] = @ - n, ![b] = @ + n] \in [TraderAccounts -> Nat]
        /\ vault \in 0..MaxVault /\ iso \in [TraderAccounts -> Nat]
    BY <1>0, <1>4 DEF ResTypes
  <2> QED BY <1>1, <1>4, <2>1
<1>5. ASSUME NEW a \in TraderAccounts, NEW n \in Amounts, SetPositionIsolated(a, n)
      PROVE  ResInv'
  <2>1. /\ [coll EXCEPT ![a] = @ - n] \in [TraderAccounts -> Nat]
        /\ [iso EXCEPT ![a] = n] \in [TraderAccounts -> Nat] /\ vault \in 0..MaxVault
    BY <1>0, <1>5 DEF ResTypes, SetPositionIsolated
  <2> QED BY <1>1, <1>5, <2>1 DEF SetPositionIsolated
<1>6. ASSUME NEW a \in TraderAccounts, SetPositionCross(a) PROVE ResInv'
  <2>1. /\ [coll EXCEPT ![a] = @ + iso[a]] \in [TraderAccounts -> Nat]
        /\ [iso EXCEPT ![a] = 0] \in [TraderAccounts -> Nat] /\ vault \in 0..MaxVault
    BY <1>0, <1>6 DEF ResTypes
  <2> QED BY <1>1, <1>6, <2>1 DEF SetPositionCross
<1>7. ASSUME NEW a \in TraderAccounts, NEW b \in TraderAccounts, NEW n \in Amounts,
             NEW floor \in Floors, SweepCollateral(a, b, n, floor)
      PROVE  ResInv'
  <2>1. a # b /\ Moves([coll EXCEPT ![a] = @ - n, ![b] = @ + n], iso, vault)
    BY <1>7 DEF SweepCollateral
  <2>2. n <= coll[a]
    <3>1. \A r \in ResolveErReserved(a) : r \in Nat
      BY <1>0 DEF ResolveErReserved, ResTypes
    <3>2. coll[a] \in Nat /\ n \in Nat /\ floor \in Nat
      BY <1>0 DEF ResTypes
    <3> QED BY <1>7, <3>1, <3>2 DEF SweepCollateral, CheckSimpleWithdraw
  <2> QED BY <1>4, <2>1, <2>2
<1>8. ASSUME NEW a \in TraderAccounts, NEW n \in Amounts, NEW floor \in Floors,
             \/ PartialWithdrawCollateral(a, n, floor)
             \/ PartialWithdrawCollateralXdomain(a, n, floor)
      PROVE  ResInv'
  BY <1>3, <1>8 DEF PartialWithdrawCollateral, PartialWithdrawCollateralXdomain,
       PartialWithdrawCore
<1>9. ASSUME NEW a \in TraderAccounts, NEW n \in Amounts,
             WithdrawCollateral(a, n) \/ WithdrawCollateralXdomain(a, n)
      PROVE  ResInv'
  BY <1>3, <1>9 DEF WithdrawCollateral, WithdrawCollateralXdomain, CheckSimpleWithdraw
<1>10. ASSUME NEW a \in TraderAccounts, NEW b \in TraderAccounts, NEW n \in Amounts,
              Transfer(a, b, n)
       PROVE  ResInv'
  <2>1. a # b /\ Moves([coll EXCEPT ![a] = @ - n, ![b] = @ + n], iso, vault) /\ n <= coll[a]
    BY <1>10 DEF Transfer, CheckSimpleWithdraw
  <2> QED BY <1>4, <2>1
<1> QED BY <1>2, <1>5, <1>6, <1>7, <1>8, <1>9, <1>10 DEF Owner

(* Orders come and go, fills settle.                                       *)
LEMMA RollsKeeps == ASSUME ResInv, Rolls PROVE ResInv'
<1>0. /\ ResTypes /\ FlagAgrees /\ MaxOrders \in Nat /\ Amounts \subseteq Nat
      /\ Margins \subseteq Nat
  BY ReservationAssumption DEF ResInv
<1>1. ASSUME NEW a \in TraderAccounts, NEW m \in Margins, PlaceOrder(a, m) PROVE ResInv'
  <2>1. /\ backed' = [backed EXCEPT ![a] = @ + m] /\ ordered' = ordered + 1
        /\ ordered < MaxOrders /\ UNCHANGED <<l1, scene, cranker>>
    BY <1>1 DEF PlaceOrder
  <2>2. backed' \in [TraderAccounts -> Nat] /\ ordered' \in 0..MaxOrders
    BY <1>0, <2>1 DEF ResTypes, FlagAgrees
  <2>3. /\ coll' \in [TraderAccounts -> Nat] /\ iso' \in [TraderAccounts -> Nat]
        /\ exposed' \in [TraderAccounts -> BOOLEAN] /\ vault' \in 0..MaxVault
        /\ UNCHANGED <<ready, reserved, epoch, active, resets, scene, cranker>>
    BY <1>0, <2>1 DEF ResTypes, l1
  <2> QED BY <2>2, <2>3, BalanceStepKeeps
<1>2. ASSUME NEW a \in TraderAccounts, NEW m \in Margins, m <= backed[a],
             backed' = [backed EXCEPT ![a] = @ - m],
             coll' \in [TraderAccounts -> Nat], exposed' \in [TraderAccounts -> BOOLEAN],
             UNCHANGED <<iso, ready, reserved, epoch, active, vault, resets>>,
             UNCHANGED <<scene, cranker, ordered>>
      PROVE  ResInv'
  <2>1. backed' \in [TraderAccounts -> Nat]
    BY <1>0, <1>2 DEF ResTypes, FlagAgrees
  <2>2. iso' \in [TraderAccounts -> Nat] /\ vault' \in 0..MaxVault /\ ordered' \in 0..MaxOrders
    BY <1>0, <1>2 DEF ResTypes
  <2> QED BY <1>2, <2>1, <2>2, BalanceStepKeeps
<1>3. ASSUME NEW a \in TraderAccounts, NEW m \in Margins, OrderGone(a, m) PROVE ResInv'
  <2>1. /\ coll' \in [TraderAccounts -> Nat] /\ exposed' \in [TraderAccounts -> BOOLEAN]
        /\ UNCHANGED <<iso, ready, reserved, epoch, active, vault, resets>>
    BY <1>0, <1>3 DEF ResTypes, OrderGone, l1
  <2> QED BY <1>2, <1>3, <2>1 DEF OrderGone
<1>4. ASSUME NEW a \in TraderAccounts, NEW m \in Margins, NEW loss \in {0} \cup Amounts,
             SettleFill(a, m, loss)
      PROVE  ResInv'
  <2>1. coll' \in [TraderAccounts -> Nat] /\ exposed' \in [TraderAccounts -> BOOLEAN]
    BY <1>0, <1>4 DEF ResTypes, SettleFill
  <2> QED BY <1>2, <1>4, <2>1 DEF SettleFill
<1> QED BY <1>1, <1>3, <1>4 DEF Rolls

(* The book goes to the rollup and comes back, in one state or another.    *)
LEMMA MovingKeeps == ASSUME ResInv, Moving PROVE ResInv'
<1>0. /\ ResTypes /\ FlagAgrees /\ CrankerSound /\ EpochsAhead /\ MaxFaults \in Nat
  BY ReservationAssumption DEF ResInv
<1>1. /\ backed' = backed \/ (l1Copy # None /\ backed' = l1Copy)
      /\ l1Copy' = None \/ l1Copy' = backed
      /\ bookDelegated' = bookDelegated \/ bookDelegated' \in BOOLEAN
      /\ faults' = faults \/ (faults < MaxFaults /\ faults' = faults + 1)
      /\ UNCHANGED <<coll, iso, exposed, ready, reserved, epoch, active, vault, resets>>
      /\ UNCHANGED <<sameWallet, ordered, want, tx, known, wire, late>>
  BY DEF Moving, DelegateBook, CommitBook, ReturnBook, LoseCommit, ClearDelegation, Fault, l1,
       cranker
<1>2. ResTypes'
  BY <1>0, <1>1 DEF ResTypes
<1>3. FlagAgrees' /\ CrankerSound' /\ EpochsAhead'
  BY <1>0, <1>1 DEF FlagAgrees, CrankerSound, EpochsAhead, InFlight
<1> QED BY <1>2, <1>3 DEF ResInv

(* An attestation that lands writes reservation and flag together, and     *)
(* moves the epoch of its account forward.                                 *)
LEMMA AttestKeeps ==
    ASSUME ResInv, NEW m \in InFlight, AttestErReservedMargin(m),
           InFlight' \subseteq InFlight, wire' \subseteq InFlight,
           tx' # None => tx' \in InFlight', DOMAIN want' \subseteq DOMAIN want,
           \A a \in DOMAIN want' : want'[a] = want[a],
           known' \subseteq known \cup {m.acct}, late' \subseteq late \cup {m.acct},
           faults' = faults
    PROVE  ResInv'
<1>0. /\ ResTypes /\ FlagAgrees /\ CrankerSound /\ EpochsAhead
      /\ InFlight \subseteq Attestations
  BY DEF ResInv, CrankerSound, InFlight
<1>1. m.acct \in TraderAccounts /\ m.amount \in Nat /\ m.epoch \in Nat /\ ready[m.acct]
  BY <1>0 DEF Attestations, CrankerSound
<1>2. /\ m.epoch > epoch[m.acct] /\ epoch' = [epoch EXCEPT ![m.acct] = m.epoch]
      /\ reserved' = [reserved EXCEPT ![m.acct] = m.amount]
      /\ active' = [active EXCEPT ![m.acct] = (m.amount > 0)]
      /\ UNCHANGED <<coll, iso, exposed, ready, vault, resets, backed, scene, ordered>>
  BY DEF AttestErReservedMargin, AdvanceEpoch
<1>3. ResTypes'
  BY <1>0, <1>1, <1>2 DEF ResTypes, scene
<1>4. FlagAgrees'
  BY <1>0, <1>1, <1>2 DEF FlagAgrees, ResTypes
<1>5. CrankerSound'
  <2>1. late' \subseteq TraderAccounts /\ known' \subseteq {a \in TraderAccounts : ready'[a]}
    BY <1>0, <1>1, <1>2 DEF CrankerSound
  <2>2. /\ DOMAIN want' \subseteq TraderAccounts
        /\ \A a \in DOMAIN want' : want'[a] \in Nat
    BY <1>0, <1>2 DEF CrankerSound
  <2>3. wire' \subseteq Attestations /\ (tx' # None => tx' \in Attestations)
        /\ \A k \in InFlight' : ready'[k.acct]
    BY <1>0, <1>2 DEF CrankerSound
  <2> QED BY <2>1, <2>2, <2>3 DEF CrankerSound
<1>6. EpochsAhead'
  <2> SUFFICES ASSUME NEW k \in InFlight'
               PROVE  /\ k.epoch <= epoch'[k.acct] + 1
                      /\ k.gen <= resets'[k.acct]
                      /\ k.gen < resets'[k.acct] => k.epoch <= epoch'[k.acct]
    BY DEF EpochsAhead
  <2>1. k \in InFlight /\ k.acct \in TraderAccounts /\ k.epoch \in Nat /\ k.gen \in Nat
    BY <1>0 DEF Attestations
  <2>2. epoch'[k.acct] >= epoch[k.acct] /\ epoch[k.acct] \in Nat /\ epoch'[k.acct] \in Nat
    BY <1>0, <1>1, <1>2, <2>1 DEF ResTypes
  <2> QED BY <1>0, <1>2, <2>1, <2>2 DEF EpochsAhead
<1> QED BY <1>3, <1>4, <1>5, <1>6 DEF ResInv

(* The cranker's own steps leave L1 as it is; a new transaction is one     *)
(* epoch ahead and of the present generation.                              *)
LEMMA CrankerStepKeeps ==
    ASSUME ResInv, UNCHANGED <<l1, backed, scene, ordered>>,
           late' \subseteq TraderAccounts, known' \subseteq {a \in TraderAccounts : ready[a]},
           DOMAIN want' \subseteq TraderAccounts,
           \A a \in DOMAIN want' : want'[a] \in Nat,
           faults' \in 0..MaxFaults,
           wire' \subseteq InFlight,
           \/ tx' = None
           \/ tx' = tx
           \/ \E a \in DOMAIN want : ready[a] /\ tx' = NextAttestation(a)
    PROVE  ResInv'
<1>0. /\ ResTypes /\ FlagAgrees /\ CrankerSound /\ EpochsAhead
      /\ InFlight \subseteq Attestations
  BY DEF ResInv, CrankerSound, InFlight
<1>1. /\ UNCHANGED <<coll, iso, exposed, ready, reserved, epoch, active, vault, resets>>
      /\ UNCHANGED <<backed, scene, ordered>>
  BY DEF l1
<1>2. ResTypes' /\ FlagAgrees'
  <2>1. ResTypes'
    BY <1>0, <1>1 DEF ResTypes, scene
  <2>2. FlagAgrees'
    BY <1>0, <1>1 DEF FlagAgrees
  <2> QED BY <2>1, <2>2
<1>3. ASSUME NEW a \in DOMAIN want, ready[a]
      PROVE  /\ NextAttestation(a) \in Attestations /\ NextAttestation(a).acct = a /\ ready[a]
             /\ NextAttestation(a).epoch = epoch[a] + 1 /\ NextAttestation(a).gen = resets[a]
             /\ a \in TraderAccounts
  <2>1. /\ a \in TraderAccounts /\ want[a] \in Nat /\ epoch[a] + 1 \in Nat /\ resets[a] \in Nat
    BY <1>0 DEF CrankerSound, ResTypes
  <2> QED BY <1>3, <2>1 DEF NextAttestation, Attestations
<1>4. \A m \in InFlight' : m \in InFlight \/ \E a \in DOMAIN want : ready[a] /\ m = NextAttestation(a)
  BY DEF InFlight
<1>5. CrankerSound'
  <2>1. wire' \subseteq Attestations /\ (tx' # None => tx' \in Attestations)
    BY <1>0, <1>3 DEF CrankerSound
  <2>2. \A m \in InFlight' : ready'[m.acct]
    BY <1>0, <1>1, <1>3, <1>4 DEF CrankerSound
  <2> QED BY <1>1, <2>1, <2>2 DEF CrankerSound
<1>6. EpochsAhead'
  <2> SUFFICES ASSUME NEW m \in InFlight'
               PROVE  /\ m.epoch <= epoch'[m.acct] + 1
                      /\ m.gen <= resets'[m.acct]
                      /\ m.gen < resets'[m.acct] => m.epoch <= epoch'[m.acct]
    BY DEF EpochsAhead
  <2>1. CASE m \in InFlight
    BY <1>0, <1>1, <2>1 DEF EpochsAhead
  <2>2. CASE \E a \in DOMAIN want : ready[a] /\ m = NextAttestation(a)
    BY <1>0, <1>1, <1>3, <2>2 DEF ResTypes
  <2> QED BY <1>4, <2>1, <2>2
<1> QED BY <1>2, <1>5, <1>6 DEF ResInv

LEMMA DoneFacts ==
    ASSUME NEW a
    PROVE  /\ DOMAIN Done(a) \subseteq DOMAIN want
           /\ \A b \in DOMAIN Done(a) : Done(a)[b] = want[b]
BY DEF Done, Restrict

(* What the cranker does by itself, and what reaches the chain late.       *)
LEMMA CrankerKeeps ==
    ASSUME ResInv,
           \/ Crank
           \/ SkipMarket \/ ReadStaleCopy \/ \E a \in TraderAccounts : FetchFails(a)
           \/ TimedOut \/ Restart \/ \E m \in wire : LandsLate(m)
    PROVE  ResInv'
<1>0. /\ ResTypes /\ FlagAgrees /\ CrankerSound /\ MaxFaults \in Nat
  BY ReservationAssumption DEF ResInv
<1>1. /\ late \subseteq TraderAccounts /\ known \subseteq {a \in TraderAccounts : ready[a]}
      /\ DOMAIN want \subseteq TraderAccounts
      /\ (\A a \in DOMAIN want : want[a] \in Nat)
      /\ faults \in 0..MaxFaults /\ wire \subseteq InFlight
  BY <1>0 DEF CrankerSound, ResTypes, InFlight
<1>2. \A a : /\ DOMAIN Done(a) \subseteq TraderAccounts
             /\ \A b \in DOMAIN Done(a) : Done(a)[b] \in Nat
  BY <1>1, DoneFacts
<1>3. CASE StartPass \/ SkipMarket \/ ReadStaleCopy
  <2>1. PICK seen \in [TraderAccounts -> Nat] : Pass(seen)
    BY <1>0, <1>3 DEF StartPass, SkipMarket, ReadStaleCopy, Zero, ResTypes
  <2>2. faults' \in 0..MaxFaults
    BY <1>0, <1>1, <1>3 DEF StartPass, SkipMarket, ReadStaleCopy, Fault
  <2> DEFINE S == {b \in TraderAccounts : seen[b] > 0} \cup known
  <2>3. /\ want' = [a \in S |-> seen[a]]
        /\ UNCHANGED <<l1, backed, scene, tx, known, wire, late, ordered>>
    BY <2>1 DEF Pass
  <2>4. S \subseteq TraderAccounts
    BY <1>1
  <2>5. DOMAIN want' \subseteq TraderAccounts /\ \A a \in DOMAIN want' : want'[a] \in Nat
    BY <2>3, <2>4
  <2> QED BY <1>1, <2>2, <2>3, <2>5, CrankerStepKeeps
<1>4. ASSUME NEW a \in TraderAccounts, Fetch(a) \/ FetchFails(a) PROVE ResInv'
  <2>1. /\ a \in DOMAIN want
        /\ UNCHANGED <<l1, backed, scene, wire, late, ordered>>
        /\ faults' \in 0..MaxFaults
    BY <1>0, <1>1, <1>4 DEF Fetch, FetchFails, Fault
  <2>2. CASE Skip(a)
    <3>1. known' = known /\ want' = Done(a) /\ tx' = tx
      BY <2>2 DEF Skip
    <3> QED BY <1>1, <1>2, <2>1, <3>1, CrankerStepKeeps
  <2>3. CASE ready[a] /\ known' = Remember(a, want[a]) /\ want' = Done(a) /\ tx' = tx
    <3>1. known' \subseteq {b \in TraderAccounts : ready[b]}
      BY <1>1, <2>3 DEF Remember
    <3> QED BY <1>1, <1>2, <2>1, <2>3, <3>1, CrankerStepKeeps
  <2>4. CASE ready[a] /\ tx' = NextAttestation(a) /\ known' = known /\ want' = want
    BY <1>1, <2>1, <2>4, CrankerStepKeeps
  <2> QED BY <1>4, <2>2, <2>3, <2>4 DEF Fetch, FetchFails
<1>5. CASE Confirmed
  <2>1. /\ tx # None /\ AttestErReservedMargin(tx) /\ known' = Remember(tx.acct, tx.amount)
        /\ want' = Done(tx.acct) /\ tx' = None /\ UNCHANGED <<wire, late, faults>>
    BY <1>5 DEF Confirmed
  <2>2. tx \in InFlight /\ InFlight' \subseteq InFlight /\ wire' \subseteq InFlight
    BY <2>1 DEF InFlight
  <2>3. known' \subseteq known \cup {tx.acct}
    BY <2>1 DEF Remember
  <2> QED BY <2>1, <2>2, <2>3, DoneFacts, AttestKeeps
<1>6. CASE Rejected
  <2>1. /\ want' = Done(tx.acct) /\ tx' = None
        /\ UNCHANGED <<l1, backed, scene, known, wire, late, faults, ordered>>
    BY <1>6 DEF Rejected
  <2> QED BY <1>1, <1>2, <2>1, CrankerStepKeeps
<1>7. CASE TimedOut
  <2>1. /\ tx # None /\ want' = Done(tx.acct) /\ tx' = None /\ wire' = wire \cup {tx}
        /\ faults' = faults + 1 /\ faults < MaxFaults
        /\ UNCHANGED <<l1, backed, scene, known, late, ordered>>
    BY <1>7 DEF TimedOut, Fault
  <2>2. wire' \subseteq InFlight /\ faults' \in 0..MaxFaults
    BY <1>0, <1>1, <2>1 DEF InFlight
  <2> QED BY <1>1, <1>2, <2>1, <2>2, CrankerStepKeeps
<1>8. CASE Restart
  <2>1. /\ want' = [a \in {} |-> 0] /\ known' = {a \in TraderAccounts : reserved[a] > 0}
        /\ tx' = None /\ late' = {} /\ wire' = IF tx = None THEN wire ELSE wire \cup {tx}
        /\ faults' = faults + 1 /\ faults < MaxFaults
        /\ UNCHANGED <<l1, backed, scene, ordered>>
    BY <1>8 DEF Restart, Fault
  <2>2. wire' \subseteq InFlight /\ faults' \in 0..MaxFaults
    BY <1>0, <1>1, <2>1 DEF InFlight
  <2>3. known' \subseteq {a \in TraderAccounts : ready[a]} /\ DOMAIN want' = {}
        /\ late' \subseteq TraderAccounts
    BY <1>0, <2>1 DEF FlagAgrees
  <2> QED BY <2>1, <2>2, <2>3, CrankerStepKeeps
<1>9. ASSUME NEW m \in wire, LandsLate(m) PROVE ResInv'
  <2>1. /\ AttestErReservedMargin(m) /\ wire' = wire \ {m} /\ late' = late \cup {m.acct}
        /\ UNCHANGED <<want, tx, known, faults>>
    BY <1>9 DEF LandsLate
  <2>2. /\ m \in InFlight /\ InFlight' \subseteq InFlight /\ wire' \subseteq InFlight
        /\ (tx' # None => tx' \in InFlight')
    BY <2>1 DEF InFlight
  <2> QED BY <2>1, <2>2, AttestKeeps
<1> QED BY <1>3, <1>4, <1>5, <1>6, <1>7, <1>8, <1>9 DEF Crank

(* Creating an attestation finds nothing in flight, resetting one leaves   *)
(* everything in flight behind the epoch.                                  *)
LEMMA CreateAndResetKeep ==
    ASSUME ResInv, NEW a \in TraderAccounts,
           InitErMarginAttestation(a) \/ ResetErMarginAttestation(a)
    PROVE  ResInv'
<1>0. /\ ResTypes /\ FlagAgrees /\ CrankerSound /\ EpochsAhead
      /\ InFlight \subseteq Attestations
  BY DEF ResInv, CrankerSound, InFlight
<1>1. CASE InitErMarginAttestation(a)
  <2>1. /\ ~ready[a] /\ ready' = [ready EXCEPT ![a] = TRUE]
        /\ reserved' = [reserved EXCEPT ![a] = 0] /\ epoch' = [epoch EXCEPT ![a] = 0]
        /\ UNCHANGED <<coll, iso, exposed, active, vault, resets>>
        /\ UNCHANGED <<backed, scene, ordered, want, tx, known, wire, late, faults>>
    BY <1>1 DEF InitErMarginAttestation, cranker
  <2>2. ResTypes'
    BY <1>0, <2>1 DEF ResTypes, scene
  <2>3. FlagAgrees'
    <3>1. reserved[a] = 0
      BY <1>0, <2>1 DEF FlagAgrees, ResTypes
    <3> QED BY <1>0, <2>1, <3>1 DEF FlagAgrees, ResTypes
  <2>4. InFlight' = InFlight /\ \A m \in InFlight : m.acct \in TraderAccounts /\ m.acct # a
    BY <1>0, <2>1 DEF InFlight, CrankerSound, Attestations
  <2>5. \A b \in TraderAccounts : ready[b] => ready'[b]
    BY <1>0, <2>1 DEF ResTypes
  <2>6. CrankerSound'
    BY <1>0, <2>1, <2>4, <2>5 DEF CrankerSound
  <2>7. EpochsAhead'
    BY <1>0, <2>1, <2>4 DEF EpochsAhead, ResTypes
  <2> QED BY <2>2, <2>3, <2>6, <2>7 DEF ResInv
<1>2. CASE ResetErMarginAttestation(a)
  <2>1. /\ reserved' = [reserved EXCEPT ![a] = 0] /\ epoch' = [epoch EXCEPT ![a] = @ + 1]
        /\ active' = [active EXCEPT ![a] = FALSE] /\ resets' = [resets EXCEPT ![a] = @ + 1]
        /\ UNCHANGED <<coll, iso, exposed, ready, vault>>
        /\ UNCHANGED <<backed, scene, ordered, want, tx, known, wire, late, faults>>
    BY <1>2 DEF ResetErMarginAttestation, cranker
  <2>2. ResTypes'
    BY <1>0, <2>1 DEF ResTypes, scene
  <2>3. FlagAgrees'
    BY <1>0, <2>1 DEF FlagAgrees, ResTypes
  <2>4. InFlight' = InFlight
    BY <2>1 DEF InFlight
  <2>5. CrankerSound'
    BY <1>0, <2>1, <2>4 DEF CrankerSound
  <2>6. EpochsAhead'
    <3> SUFFICES ASSUME NEW m \in InFlight
                 PROVE  /\ m.epoch <= epoch'[m.acct] + 1
                        /\ m.gen <= resets'[m.acct]
                        /\ m.gen < resets'[m.acct] => m.epoch <= epoch'[m.acct]
      BY <2>4 DEF EpochsAhead
    <3>1. m.acct \in TraderAccounts /\ m.epoch \in Nat /\ m.gen \in Nat
      BY <1>0 DEF Attestations
    <3>2. /\ epoch[m.acct] \in Nat /\ resets[m.acct] \in Nat
          /\ epoch'[m.acct] = IF m.acct = a THEN epoch[m.acct] + 1 ELSE epoch[m.acct]
          /\ resets'[m.acct] = IF m.acct = a THEN resets[m.acct] + 1 ELSE resets[m.acct]
      BY <1>0, <2>1, <3>1 DEF ResTypes
    <3> QED BY <1>0, <3>1, <3>2 DEF EpochsAhead
  <2> QED BY <2>2, <2>3, <2>5, <2>6 DEF ResInv
<1> QED BY <1>1, <1>2

LEMMA ResInductive == ResInv /\ [ResNext]_resVars => ResInv'
<1> SUFFICES ASSUME ResInv, [ResNext]_resVars PROVE ResInv'
  OBVIOUS
<1>1. CASE UNCHANGED resVars
  BY <1>1 DEF ResInv, ResTypes, FlagAgrees, CrankerSound, EpochsAhead, InFlight, resVars, l1,
       cranker, scene
<1> QED BY <1>1, OwnerKeeps, RollsKeeps, MovingKeeps, CrankerKeeps, CreateAndResetKeep DEF ResNext

(* No attestation sent before a reset can land after it, whatever timed    *)
(* out, was given up or sent again, and the cranker only ever remembers    *)
(* accounts that have an attestation (reset_er_margin_attestation,         *)
(* attest_er_reserved_margin, attestation_cranker.mjs).                    *)
THEOREM AttestationsAreSound == ResSpec => []AttestationsSound
<1>1. ResInit => ResInv
  BY ResInitInv
<1>2. ResInv => AttestationsSound
  <2> SUFFICES ASSUME ResInv PROVE AttestationsSound
    OBVIOUS
  <2>1. ResTypes /\ CrankerSound /\ EpochsAhead /\ InFlight \subseteq Attestations
    BY DEF ResInv, CrankerSound, InFlight
  <2>2. ResTypeOK
    BY <2>1 DEF ResTypeOK, ResTypes, CrankerSound, InFlight
  <2>3. ResetSticks
    <3> SUFFICES ASSUME NEW m \in InFlight, m.gen < resets[m.acct]
                 PROVE  ~(m.epoch > epoch[m.acct])
      BY DEF ResetSticks, AdvanceEpoch, InFlight
    <3>1. m.epoch \in Nat /\ epoch[m.acct] \in Nat /\ m.epoch <= epoch[m.acct]
      BY <2>1 DEF EpochsAhead, Attestations, ResTypes
    <3> QED BY <3>1
  <2> QED BY <2>2, <2>3 DEF AttestationsSound
<1> QED BY <1>1, <1>2, ResInductive, PTL DEF ResSpec

(* A settled loss leaves the account for somebody else's; it is the one    *)
(* step that lowers what the accounts claim against the vault.             *)
LEMMA LossLowersClaims ==
    ASSUME ResInv, NEW a \in TraderAccounts, NEW m, NEW loss \in Nat \ {0}, SettleFill(a, m, loss)
    PROVE  Claims' # Claims
<1>0. /\ coll \in [TraderAccounts -> Nat] /\ iso \in [TraderAccounts -> Nat] /\ vault \in Nat
      /\ IsFiniteSet(TraderAccounts)
  BY ReservationAssumption DEF ResInv, ResTypes
<1>1. coll' = [coll EXCEPT ![a] = @ - loss] /\ iso' = iso /\ vault' = vault
  BY DEF SettleFill
<1> DEFINE before == SumFunctionOnSet(coll, TraderAccounts)
           after == SumFunctionOnSet(coll', TraderAccounts)
           rest == SumFunctionOnSet(iso, TraderAccounts)
<1>2. before \in Int /\ rest \in Int
  BY <1>0, SumInt
<1>3. after = before - coll[a] + coll'[a]
  <2>1. /\ \A y \in TraderAccounts : coll[y] \in Int
        /\ coll'[a] \in Int /\ \A y \in TraderAccounts \ {a} : coll'[y] = coll[y]
    BY <1>0, <1>1
  <2>2. a \in TraderAccounts /\ IsFiniteSet(TraderAccounts)
    BY <1>0
  <2> QED BY ONLY <2>1, <2>2, SumUpdate
<1>4. coll'[a] = coll[a] - loss /\ coll[a] \in Int
  BY <1>0, <1>1
<1>5. Claims = before + rest - vault /\ Claims' = after + rest - vault
  BY <1>1 DEF Claims, Sum
<1> HIDE DEF before, after, rest
<1> QED BY <1>0, <1>2, <1>3, <1>4, <1>5

(* Each path out of an account leaves its reservation behind.              *)
LEMMA LeavesReservedStep ==
    ASSUME ResInv, [ResNext]_resVars
    PROVE  [\A a \in TraderAccounts :
              coll'[a] < coll[a] /\ Claims' = Claims => coll'[a] >= reserved[a]]_resVars
<1>1. SUFFICES ASSUME ResNext, NEW a \in TraderAccounts, coll'[a] < coll[a], Claims' = Claims
               PROVE  coll'[a] >= reserved[a]
  BY DEF resVars
<1>2. /\ coll \in [TraderAccounts -> Nat] /\ reserved[a] \in Nat /\ coll[a] \in Nat
      /\ iso \in [TraderAccounts -> Nat] /\ Amounts \subseteq Nat \ {0} /\ Floors \subseteq Nat
  BY ReservationAssumption DEF ResInv, ResTypes
<1>3. ~active[a] => reserved[a] = 0
  BY <1>2 DEF ResInv, FlagAgrees
<1>4. \A r \in ResolveErReserved(a) : r = reserved[a]
  BY <1>3 DEF ResolveErReserved
<1>5. ASSUME NEW b \in TraderAccounts, NEW n \in Amounts, TakeOut(b, n)
      PROVE  b = a /\ coll'[a] = coll[a] - n /\ n \in Nat
  <2>1. coll' = [coll EXCEPT ![b] = @ - n] /\ n \in Nat
    BY <1>2, <1>5 DEF TakeOut, Moves
  <2> QED BY <1>1, <1>2, <2>1
<1>6. ASSUME NEW b \in TraderAccounts, NEW c \in TraderAccounts, NEW n \in Amounts, b # c,
             Moves([coll EXCEPT ![b] = @ - n, ![c] = @ + n], iso, vault)
      PROVE  b = a /\ coll'[a] = coll[a] - n /\ n \in Nat
  <2>1. coll' = [coll EXCEPT ![b] = @ - n, ![c] = @ + n] /\ n \in Nat
    BY <1>2, <1>6 DEF Moves
  <2>2. a = c => coll'[a] = coll[a] + n
    BY <1>2, <1>6, <2>1
  <2>3. a # c /\ a # b => coll'[a] = coll[a]
    BY <1>2, <2>1
  <2>4. a = b => coll'[a] = coll[a] - n
    BY <1>2, <1>6, <2>1
  <2> QED BY <1>1, <1>2, <2>1, <2>2, <2>3, <2>4
<1>7. ASSUME Owner PROVE coll'[a] >= reserved[a]
  <2>1. ASSUME NEW b \in TraderAccounts, NEW n \in Amounts, DepositCollateral(b, n) PROVE FALSE
    <3>1. coll' = [coll EXCEPT ![b] = @ + n] /\ n \in Nat
      BY <1>2, <2>1 DEF DepositCollateral, Moves
    <3> QED BY <1>1, <1>2, <3>1
  <2>2. ASSUME NEW b \in TraderAccounts, NEW n \in Amounts,
               WithdrawCollateral(b, n) \/ WithdrawCollateralXdomain(b, n)
        PROVE  coll'[a] >= reserved[a]
    <3>1. b = a /\ coll'[a] = coll[a] - n /\ n \in Nat
      BY <1>5, <2>2 DEF WithdrawCollateral, WithdrawCollateralXdomain
    <3> QED BY <1>2, <1>3, <2>2, <3>1
            DEF WithdrawCollateral, WithdrawCollateralXdomain, CheckSimpleWithdraw
  <2>3. ASSUME NEW b \in TraderAccounts, NEW n \in Amounts, NEW floor \in Floors,
               \/ PartialWithdrawCollateral(b, n, floor)
               \/ PartialWithdrawCollateralXdomain(b, n, floor)
        PROVE  coll'[a] >= reserved[a]
    <3>1. b = a /\ coll'[a] = coll[a] - n /\ n \in Nat
      BY <1>5, <2>3 DEF PartialWithdrawCollateral, PartialWithdrawCollateralXdomain,
           PartialWithdrawCore
    <3>2. floor \in Nat
      BY <1>2
    <3> QED BY <1>2, <1>3, <2>3, <3>1, <3>2 DEF PartialWithdrawCollateral,
              PartialWithdrawCollateralXdomain, PartialWithdrawCore
  <2>4. ASSUME NEW b \in TraderAccounts, NEW c \in TraderAccounts, NEW n \in Amounts,
               Transfer(b, c, n)
        PROVE  coll'[a] >= reserved[a]
    <3>1. b = a /\ coll'[a] = coll[a] - n /\ n \in Nat
      BY <1>6, <2>4 DEF Transfer
    <3>2. PICK r \in ResolveErReserved(b) : CheckSimpleWithdraw(coll[b], n, r)
      BY <2>4 DEF Transfer
    <3> QED BY <1>2, <1>4, <3>1, <3>2 DEF CheckSimpleWithdraw
  <2>5. ASSUME NEW b \in TraderAccounts, NEW c \in TraderAccounts, NEW n \in Amounts,
               NEW floor \in Floors, SweepCollateral(b, c, n, floor)
        PROVE  coll'[a] >= reserved[a]
    <3>1. b = a /\ coll'[a] = coll[a] - n /\ n \in Nat
      BY <1>6, <2>5 DEF SweepCollateral
    <3>2. PICK r \in ResolveErReserved(b) :
            IF exposed[b] THEN coll[b] - n - r >= floor
            ELSE floor = 0 /\ CheckSimpleWithdraw(coll[b], n, r)
      BY <2>5 DEF SweepCollateral
    <3>3. floor \in Nat /\ r = reserved[a]
      BY <1>2, <1>4, <3>1
    <3> QED BY <1>2, <3>1, <3>2, <3>3 DEF CheckSimpleWithdraw
  <2>6. ASSUME NEW b \in TraderAccounts, NEW n \in Amounts, SetPositionIsolated(b, n)
        PROVE  coll'[a] >= reserved[a]
    <3>1. coll' = [coll EXCEPT ![b] = @ - n] /\ n \in Nat /\ n <= coll[b] /\ ~active[b]
      BY <1>2, <2>6 DEF SetPositionIsolated, Moves
    <3>2. b = a
      BY <1>1, <1>2, <3>1
    <3> QED BY <1>2, <1>3, <3>1, <3>2
  <2>7. ASSUME NEW b \in TraderAccounts, SetPositionCross(b) PROVE FALSE
    <3>1. coll' = [coll EXCEPT ![b] = @ + iso[b]] /\ iso[b] \in Nat
      BY <1>2, <2>7 DEF SetPositionCross, Moves
    <3> QED BY <1>1, <1>2, <3>1
  <2> QED BY <1>7, <2>1, <2>2, <2>3, <2>4, <2>5, <2>6, <2>7 DEF Owner
<1>8. ASSUME Rolls PROVE FALSE
  <2>1. ASSUME NEW b \in TraderAccounts, NEW m \in Margins, PlaceOrder(b, m) \/ OrderGone(b, m)
        PROVE  FALSE
    <3>1. coll' = coll
      BY <2>1 DEF PlaceOrder, OrderGone, l1
    <3> QED BY <1>1, <1>2, <3>1
  <2>2. ASSUME NEW b \in TraderAccounts, NEW m \in Margins, NEW loss \in {0} \cup Amounts,
               SettleFill(b, m, loss)
        PROVE  FALSE
    <3>1. coll' = [coll EXCEPT ![b] = @ - loss]
      BY <2>2 DEF SettleFill
    <3>2. CASE loss = 0
      BY <1>1, <1>2, <3>1, <3>2
    <3>3. CASE loss # 0
      <4>1. loss \in Nat \ {0}
        BY <1>2, <3>3
      <4> QED BY <1>1, <2>2, <4>1, LossLowersClaims
    <3> QED BY <3>2, <3>3
  <2> QED BY <1>8, <2>1, <2>2 DEF Rolls
<1>9. ASSUME NEW b, NEW m,
             \/ Crank \/ SkipMarket \/ ReadStaleCopy \/ FetchFails(b)
             \/ TimedOut \/ Restart \/ LandsLate(m) \/ Moving
             \/ InitErMarginAttestation(b) \/ ResetErMarginAttestation(b)
      PROVE  coll' = coll
  <2>1. CASE Crank \/ SkipMarket \/ ReadStaleCopy \/ FetchFails(b) \/ TimedOut \/ Restart
    BY <2>1 DEF Crank, StartPass, SkipMarket, ReadStaleCopy, Pass, Fetch, FetchFails, Confirmed,
         Rejected, TimedOut, Restart, AttestErReservedMargin, l1
  <2>2. CASE Moving
    BY <2>2 DEF Moving, DelegateBook, CommitBook, ReturnBook, LoseCommit, ClearDelegation, l1
  <2>3. CASE LandsLate(m) \/ InitErMarginAttestation(b) \/ ResetErMarginAttestation(b)
    BY <2>3 DEF LandsLate, AttestErReservedMargin, InitErMarginAttestation,
         ResetErMarginAttestation
  <2> QED BY <1>9, <2>1, <2>2, <2>3
<1> QED BY <1>1, <1>2, <1>7, <1>8, <1>9 DEF ResNext

(* Whatever attestations, resets and restarts fall in between: no path by  *)
(* which an owner takes collateral out of an account leaves less than the  *)
(* rollup has reserved (withdraw, partial withdraw, transfer, sweep,       *)
(* isolate, each strict or with the attestation).                          *)
THEOREM OwnersLeaveReserved == ResSpec => OwnerLeavesReserved
<1>1. ResInit => ResInv
  BY ResInitInv
<1>2. ResInv /\ [ResNext]_resVars =>
        [\A a \in TraderAccounts :
           coll'[a] < coll[a] /\ Claims' = Claims => coll'[a] >= reserved[a]]_resVars
  BY LeavesReservedStep
<1> QED BY <1>1, <1>2, ResInductive, PTL DEF ResSpec, OwnerLeavesReserved
=============================================================================
