------------------------- MODULE ConditionalProofs --------------------------
(***************************************************************************)
(* Proofs about Conditional, for any ids, terms, prices, margins and any   *)
(* number of orders, placements, fills and slots: a bracket exits once,    *)
(* the slices of a TWAP keep their pace, an iceberg shows no more than its *)
(* displayed size, and reduce-only exits neither outgrow the position they *)
(* close nor take it through zero.                                         *)
(***************************************************************************)
EXTENDS Conditional, SumTheorems

Tags == [kind : {"user", "trigger", "ice"}, n : Nat]
Orders == [seq : Nat, side : Sides, px : Nat, size : Nat \ {0}, ro : BOOLEAN, exp : Nat, tag : Tags]
Slices == [slot : Nat, lots : Nat]
Twaps == [side : Sides, slice : Nat \ {0}, total : Nat, limit : Nat, interval : Nat, end : Nat,
          cap : Nat, executed : Nat, last : Nat, active : BOOLEAN, slices : Seq(Slices)]
Icebergs == [side : Sides, limit : Nat, total : Nat, shown : Nat \ {0}, exp : Nat, remaining : Nat,
             child : Nat, active : BOOLEAN, n : Nat]
Fills == [lots : Int, ro : BOOLEAN]

(* The resting orders are numbered, each with a number of its own.         *)
BookTyped ==
    /\ book \subseteq Orders /\ IsFiniteSet(book)
    /\ \A o \in book : o.seq \in 1..seq
    /\ \A o, p \in book : o.seq = p.seq => o = p

Typed ==
    /\ now \in 1..MaxSlot /\ seq \in 0..MaxSeq /\ placed \in 0..MaxPlaced /\ pos \in Int
    /\ oracle \in [px : Nat, fresh : BOOLEAN]
    /\ BookTyped
    /\ trig \in [TriggerIds -> Triggers \cup {Closed}]
    /\ twap \in [TwapIds -> Twaps \cup {Closed}]
    /\ ice \in [IcebergIds -> Icebergs \cup {Closed}]
    /\ queue \in Seq(Fills)
    /\ hist \in [legs : [1..MaxPlaced -> Nat], mixed : BOOLEAN]

-----------------------------------------------------------------------------
(* What happens to the book: an order arrives, orders leave, an order is   *)
(* partly crossed.                                                         *)
LEMMA OrderArrives ==
    ASSUME BookTyped, seq \in Nat, seq' = seq + 1, NEW kept, kept \subseteq book,
           NEW o \in Orders, o.seq = seq + 1, book' = kept \cup {o}
    PROVE  BookTyped' /\ o \notin kept /\ \A p \in book' : p.seq > seq => p = o
<1>1. /\ book \subseteq Orders /\ IsFiniteSet(book) /\ \A p \in book : p.seq \in 1..seq
      /\ \A p, q \in book : p.seq = q.seq => p = q
  BY DEF BookTyped
<1>2. \A p \in kept : p \in book /\ p.seq \in 1..seq /\ p.seq \in 1..(seq + 1) /\ p.seq # o.seq /\ ~(p.seq > seq)
  BY <1>1
<1>3. IsFiniteSet(book')
  <2>1. IsFiniteSet(kept)
    BY <1>1, FS_Subset
  <2> QED BY <2>1, FS_AddElement
<1>4. o.seq \in 1..(seq + 1) /\ o.seq > seq
  OBVIOUS
<1>5. \A p \in book' : p.seq \in 1..seq'
  BY <1>2, <1>4
<1>6. \A p, q \in book' : p.seq = q.seq => p = q
  BY <1>1, <1>2
<1>7. book' \subseteq Orders
  BY <1>1
<1>8. BookTyped'
  BY <1>3, <1>5, <1>6, <1>7 DEF BookTyped
<1> QED BY <1>2, <1>8

LEMMA OrdersLeave ==
    ASSUME BookTyped, seq' = seq, book' \subseteq book
    PROVE  BookTyped'
<1>1. IsFiniteSet(book')
  BY FS_Subset DEF BookTyped
<1> QED BY <1>1 DEF BookTyped

LEMMA OrderShrinks ==
    ASSUME BookTyped, seq' = seq, NEW o \in book, NEW p \in Orders, p.seq = o.seq,
           book' = (book \ {o}) \cup {p}
    PROVE  BookTyped'
<1>1. IsFiniteSet(book \ {o})
  BY FS_RemoveElement DEF BookTyped
<1>2. IsFiniteSet(book')
  BY <1>1, FS_AddElement
<1> QED BY <1>2 DEF BookTyped

(* The parts of the state as facts.                                        *)
LEMMA Fields ==
    ASSUME Typed, ConditionalAssumption
    PROVE  /\ now \in Nat /\ seq \in Nat /\ placed \in Nat /\ pos \in Int /\ BookTyped
           /\ MaxSlot \in Nat /\ MaxSeq \in Nat /\ MaxPlaced \in Nat /\ MinLots \in Nat /\ Ttl \in Nat
           /\ now <= MaxSlot /\ seq <= MaxSeq /\ placed <= MaxPlaced
           /\ \A id \in TriggerIds : id \in Nat
           /\ \A id \in TriggerIds : trig[id] # Closed => trig[id] \in Triggers
           /\ \A id \in TwapIds : twap[id] # Closed => twap[id] \in Twaps
           /\ \A id \in IcebergIds : ice[id] # Closed => ice[id] \in Icebergs
           /\ \A o \in book : o \in Orders
           /\ hist.legs \in [1..MaxPlaced -> Nat] /\ hist.mixed \in BOOLEAN
BY DEF Typed, ConditionalAssumption, BookTyped

LEMMA TermsTyped ==
    ASSUME ConditionalAssumption
    PROVE  /\ \A t \in TriggerTerms : /\ t.side \in Sides /\ t.kind \in Directions /\ t.ro \in BOOLEAN
                                      /\ t.size \in Nat /\ t.px \in Nat /\ t.limit \in Nat
                                      /\ t.exp \in Nat /\ t.cap \in Nat
           /\ \A b \in BracketTerms : /\ b.side \in Sides /\ b.size \in Nat /\ b.limit \in Nat
                                      /\ b.tpPx \in Nat /\ b.tpLimit \in Nat
                                      /\ b.slPx \in Nat /\ b.slLimit \in Nat /\ b.exp \in Nat
           /\ \A w \in TwapTerms : /\ w.side \in Sides /\ w.slice \in Nat /\ w.total \in Nat
                                   /\ w.limit \in Nat /\ w.interval \in Nat /\ w.end \in Nat /\ w.cap \in Nat
           /\ \A i \in IcebergTerms : /\ i.side \in Sides /\ i.total \in Nat /\ i.shown \in Nat
                                      /\ i.limit \in Nat /\ i.exp \in Nat
           /\ \A m \in ModifyTerms : m.size \in Nat /\ m.px \in Nat /\ m.ro \in BOOLEAN /\ m.exp \in Nat
BY DEF ConditionalAssumption
-----------------------------------------------------------------------------
(* An order put on the book.                                               *)
NewOrder(side, px, size, ro, exp, tag) ==
    [seq |-> seq + 1, side |-> side, px |-> px, size |-> size, ro |-> ro, exp |-> exp, tag |-> tag]

Arrived(o) ==
    /\ o \in Orders /\ o.seq = seq + 1 /\ seq' = seq + 1 /\ seq' \in 0..MaxSeq
    /\ book' = book \cup {o} /\ o \notin book
    /\ BookTyped' /\ \A p \in book' : p.seq > seq => p = o

Placed(side, px, size, ro, exp, tag) ==
    \E o : /\ Arrived(o) /\ o.side = side /\ o.px = px /\ o.size = size /\ o.ro = ro
           /\ o.exp = exp /\ o.tag = tag

Placeable(side, px, size, ro, exp, tag) ==
    /\ side \in Sides /\ px \in Nat /\ size \in Nat \ {0} /\ ro \in BOOLEAN /\ exp \in Nat /\ tag \in Tags
    /\ Inject(side, px, size, ro, exp, tag)

LEMMA InjectFacts ==
    ASSUME Typed, ConditionalAssumption, NEW side, NEW px, NEW size, NEW ro, NEW exp, NEW tag,
           Placeable(side, px, size, ro, exp, tag)
    PROVE  Placed(side, px, size, ro, exp, tag)
<1> DEFINE o == NewOrder(side, px, size, ro, exp, tag)
<1>0. /\ side \in Sides /\ px \in Nat /\ size \in Nat \ {0} /\ ro \in BOOLEAN /\ exp \in Nat /\ tag \in Tags
      /\ Inject(side, px, size, ro, exp, tag)
  BY DEF Placeable
<1>1. seq \in Nat /\ seq <= MaxSeq /\ MaxSeq \in Nat /\ BookTyped
  BY Fields
<1>2. /\ o.side = side /\ o.px = px /\ o.size = size /\ o.ro = ro /\ o.exp = exp /\ o.tag = tag
      /\ o.seq = seq + 1
  BY DEF NewOrder
<1>3. o \in Orders
  BY <1>0, <1>1 DEF NewOrder, Orders
<1>4. seq' = seq + 1 /\ seq < MaxSeq /\ book' = book \cup {o}
  BY <1>0 DEF Inject, NewOrder
<1>5. seq' \in 0..MaxSeq
  BY <1>1, <1>4
<1> HIDE DEF o
<1>6. BookTyped' /\ o \notin book /\ \A p \in book' : p.seq > seq => p = o
  BY <1>1, <1>2, <1>3, <1>4, OrderArrives
<1>7. Arrived(o)
  BY <1>2, <1>3, <1>4, <1>5, <1>6 DEF Arrived
<1> QED BY <1>2, <1>7 DEF Placed

LEMMA TagsTyped ==
    ASSUME NEW n \in Nat
    PROVE  /\ Tag("trigger", n) \in Tags /\ Tag("ice", n) \in Tags /\ Plain \in Tags
           /\ Tag("trigger", n).kind = "trigger" /\ Tag("ice", n).kind = "ice" /\ Plain.kind = "user"
           /\ Tag("trigger", n).n = n /\ Tag("ice", n).n = n
BY DEF Tag, Plain, Tags

(* Lots of a set of resting orders.                                        *)
LEMMA LotsFacts ==
    ASSUME BookTyped, NEW S, S \subseteq book
    PROVE  IsFiniteSet(S) /\ LotsOf(S) \in Nat
<1> DEFINE f == [o \in S |-> o.size]
<1>1. IsFiniteSet(S)
  BY FS_Subset DEF BookTyped
<1>2. \A o \in S : f[o] \in Nat
  BY DEF BookTyped, Orders
<1> HIDE DEF f
<1>3. SumFunctionOnSet(f, S) \in Nat
  BY <1>1, <1>2, SumNat
<1> QED BY <1>1, <1>3 DEF LotsOf, f

LEMMA LotsWith ==
    ASSUME BookTyped, NEW S, S \subseteq book, NEW o \in Orders, o \notin S, NEW T, T = S \cup {o}
    PROVE  LotsOf(T) = LotsOf(S) + o.size
<1> DEFINE f == [p \in S |-> p.size]
           g == [p \in T |-> p.size]
<1>1. IsFiniteSet(S)
  BY FS_Subset DEF BookTyped
<1>2. \A p \in T : p.size \in Int
  BY DEF BookTyped, Orders
<1>3. LotsOf(S) = SumFunctionOnSet(f, S) /\ LotsOf(T) = SumFunctionOnSet(g, T)
  BY DEF LotsOf
<1>4. (\A p \in T : g[p] = p.size) /\ (\A p \in S : f[p] = p.size)
  OBVIOUS
<1> HIDE DEF f, g
<1>5. (\A p \in S : f[p] = g[p]) /\ g[o] = o.size /\ (\A p \in T : g[p] \in Int)
  BY <1>2, <1>4
<1>6. SumFunctionOnSet(f, S) = SumFunctionOnSet(g, S)
  BY <1>1, <1>5, SumCongruent
<1>7. SumFunctionOnSet(g, T) = SumFunctionOnSet(g, S) + g[o]
  BY <1>1, <1>5, SumWith
<1> QED BY <1>3, <1>5, <1>6, <1>7

LEMMA AbsNat == ASSUME NEW n \in Int PROVE Abs(n) \in Nat
BY DEF Abs

LEMMA RestingNat ==
    ASSUME BookTyped, NEW side
    PROVE  RestingExits(side) \in Nat
<1> DEFINE S == {o \in book : o.ro /\ o.side = side}
<1>1. S \subseteq book
  OBVIOUS
<1> HIDE DEF S
<1>2. LotsOf(S) \in Nat
  BY <1>1, LotsFacts
<1> QED BY <1>2 DEF RestingExits, S

(* A reduce-only trigger leaves room for what rests on its side.           *)
LEMMA EffectiveFacts ==
    ASSUME Typed, ConditionalAssumption, NEW t \in Triggers, EffectiveSize(t) > 0
    PROVE  /\ EffectiveSize(t) \in Nat \ {0} /\ EffectiveSize(t) <= t.size
           /\ t.ro => EffectiveSize(t) + RestingExits(t.side) <= Abs(pos)
<1>1. t.size \in Nat /\ t.ro \in BOOLEAN /\ BookTyped /\ pos \in Int
  BY Fields DEF Triggers
<1> DEFINE r == RestingExits(t.side)
           a == Abs(pos)
           z == t.size
           e == EffectiveSize(t)
<1>2. r \in Nat /\ a \in Nat /\ z \in Nat
  BY <1>1, RestingNat, AbsNat
<1>3. e = IF t.ro THEN Min({z, SatSub(a, r)}) ELSE z
  BY DEF EffectiveSize
<1> HIDE DEF r, a, z, e
<1>4. CASE t.ro
  <2>1. SatSub(a, r) \in Int
    BY <1>2 DEF SatSub
  <2>2. e = IF z <= SatSub(a, r) THEN z ELSE SatSub(a, r)
    BY <1>2, <1>3, <1>4, <2>1, MinOfTwo
  <2>3. e > 0
    BY DEF e
  <2>4. e \in Nat \ {0} /\ e <= z /\ e + r <= a
    BY <1>2, <2>2, <2>3 DEF SatSub
  <2> QED BY <2>4 DEF e, z, a, r
<1>5. CASE ~t.ro
  <2>1. e = z /\ e > 0
    BY <1>3, <1>5 DEF e
  <2>2. e \in Nat \ {0} /\ e <= z
    BY <1>2, <2>1
  <2> QED BY <1>5, <2>2 DEF e, z
<1> QED BY <1>1, <1>4, <1>5
-----------------------------------------------------------------------------
(* Every step keeps the types.                                             *)
IsTerms(t) ==
    /\ t.side \in Sides /\ t.kind \in Directions /\ t.ro \in BOOLEAN /\ t.size \in Nat
    /\ t.px \in Nat /\ t.limit \in Nat /\ t.exp \in Nat /\ t.cap \in Nat

IsLeg(x, sib, pair) == x \in Triggers /\ x.sib = sib /\ x.hasSib /\ x.pair = pair

LEMMA NewTriggerFacts ==
    ASSUME NEW t, IsTerms(t), NEW sib \in Nat, NEW pair, pair \in Nat
    PROVE  /\ NewTrigger(t, 0, FALSE, 0) \in Triggers
           /\ NewTrigger(t, 0, FALSE, 0).pair = 0
           /\ IsLeg(NewTrigger(t, sib, TRUE, pair), sib, pair)
BY DEF NewTrigger, Triggers, IsTerms, IsLeg

Idle(t) == [t EXCEPT !.active = FALSE]

LEMMA IdleFacts ==
    ASSUME NEW t \in Triggers
    PROVE  /\ Idle(t) \in Triggers /\ ~Idle(t).active
           /\ Idle(t).sib = t.sib /\ Idle(t).hasSib = t.hasSib /\ Idle(t).pair = t.pair
BY DEF Idle, Triggers

LEMMA QuietTyped ==
    ASSUME Typed, UNCHANGED <<book, seq, trig, twap, ice, hist>>,
           now' \in 1..MaxSlot, placed' = placed, pos' \in Int,
           oracle' \in [px : Nat, fresh : BOOLEAN], queue' \in Seq(Fills)
    PROVE  Typed'
<1>1. BookTyped'
  BY OrdersLeave DEF Typed
<1> QED BY <1>1 DEF Typed

LEMMA PlaceTriggerTyped ==
    ASSUME Typed, ConditionalAssumption, NEW id \in TriggerIds, NEW t \in TriggerTerms,
           PlaceTrigger(id, t)
    PROVE  Typed'
<1> DEFINE x == NewTrigger(t, 0, FALSE, 0)
<1>1. IsTerms(t)
  BY TermsTyped DEF IsTerms
<1>2. x \in Triggers
  BY <1>1, NewTriggerFacts
<1>3. placed \in Nat /\ MaxPlaced \in Nat /\ trig \in [TriggerIds -> Triggers \cup {Closed}]
  BY Fields DEF Typed
<1>4. /\ placed' = placed + 1 /\ placed < MaxPlaced
      /\ trig' = [trig EXCEPT ![id] = x]
      /\ UNCHANGED <<now, oracle, pos, queue, book, seq, twap, ice, hist>>
  BY DEF PlaceTrigger, market
<1> HIDE DEF x
<1>5. trig' \in [TriggerIds -> Triggers \cup {Closed}] /\ placed' \in 0..MaxPlaced
  BY <1>2, <1>3, <1>4
<1>6. BookTyped'
  BY <1>4, OrdersLeave DEF Typed
<1> QED BY <1>4, <1>5, <1>6 DEF Typed

LEMMA CancelTriggerTyped ==
    ASSUME Typed, NEW id \in TriggerIds, CancelTrigger(id)
    PROVE  Typed'
<1>1. /\ trig' = [trig EXCEPT ![id] = Closed]
      /\ UNCHANGED <<now, oracle, pos, queue, book, seq, twap, ice, placed, hist>>
  BY DEF CancelTrigger, market
<1>4. trig \in [TriggerIds -> Triggers \cup {Closed}]
  BY DEF Typed
<1>2. trig' \in [TriggerIds -> Triggers \cup {Closed}]
  BY <1>1, <1>4
<1>3. BookTyped'
  BY <1>1, OrdersLeave DEF Typed
<1> QED BY <1>1, <1>2, <1>3 DEF Typed

(* What a bracket leaves: an order and two triggers that name each other   *)
(* under a number that no account bears yet.                               *)
Bracketed(tp, sl, o, x, y) ==
    /\ Arrived(o) /\ o.tag = Plain /\ tp # sl
    /\ placed' = placed + 1 /\ placed' \in 0..MaxPlaced
    /\ IsLeg(x, sl, placed + 1) /\ IsLeg(y, tp, placed + 1)
    /\ trig' = [trig EXCEPT ![tp] = x, ![sl] = y]
    /\ UNCHANGED <<now, oracle, pos, queue, filled, twap, ice, hist>>

LEMMA PlaceBracketFacts ==
    ASSUME Typed, ConditionalAssumption, NEW tp \in TriggerIds, NEW sl \in TriggerIds,
           NEW b \in BracketTerms, PlaceBracket(tp, sl, b)
    PROVE  \E o, x, y : Bracketed(tp, sl, o, x, y)
<1> DEFINE target == LegTerms(b, IF b.side = "buy" THEN "above" ELSE "below", b.tpPx, b.tpLimit)
           stop   == LegTerms(b, IF b.side = "buy" THEN "below" ELSE "above", b.slPx, b.slLimit)
           x == NewTrigger(target, sl, TRUE, placed + 1)
           y == NewTrigger(stop, tp, TRUE, placed + 1)
<1>1. /\ b.side \in Sides /\ b.size \in Nat /\ b.limit \in Nat /\ b.tpPx \in Nat /\ b.tpLimit \in Nat
      /\ b.slPx \in Nat /\ b.slLimit \in Nat /\ b.exp \in Nat
  BY TermsTyped
<1>2. placed \in Nat /\ placed + 1 \in Nat /\ MaxPlaced \in Nat /\ tp \in Nat /\ sl \in Nat
  <2>1. placed \in Nat /\ MaxPlaced \in Nat /\ \A id \in TriggerIds : id \in Nat
    BY Fields
  <2> QED BY <2>1
<1>3. IsTerms(target) /\ IsTerms(stop)
  BY <1>1 DEF IsTerms, LegTerms, Sides, Directions, Opposite
<1>4. /\ placed < MaxPlaced /\ placed' = placed + 1 /\ tp # sl /\ BracketAdmits(b)
      /\ Inject(b.side, b.limit, b.size, FALSE, 0, Plain)
      /\ trig' = [trig EXCEPT ![tp] = x, ![sl] = y]
      /\ UNCHANGED <<now, oracle, pos, queue, filled, twap, ice, hist>>
  <2>1. /\ placed < MaxPlaced /\ placed' = placed + 1 /\ LegsVacant(tp, sl) /\ BracketAdmits(b)
        /\ Inject(b.side, b.limit, b.size, FALSE, 0, Plain)
        /\ UNCHANGED <<market, twap, ice, hist>>
    BY Zenon DEF PlaceBracket
  <2>2. trig' = [trig EXCEPT ![tp] = NewTrigger(target, sl, TRUE, placed'),
                             ![sl] = NewTrigger(stop, tp, TRUE, placed')]
    BY Zenon DEF PlaceBracket
  <2> HIDE DEF target, stop
  <2>3. trig' = [trig EXCEPT ![tp] = x, ![sl] = y]
    BY <2>1, <2>2
  <2> QED BY <2>1, <2>3 DEF LegsVacant, market
<1> HIDE DEF target, stop
<1>5. IsLeg(x, sl, placed + 1) /\ IsLeg(y, tp, placed + 1)
  BY <1>2, <1>3, NewTriggerFacts
<1>6. b.size \in Nat \ {0} /\ placed' \in 0..MaxPlaced
  BY <1>1, <1>2, <1>4 DEF BracketAdmits
<1>7. \E o : Arrived(o) /\ o.tag = Plain
  <2>1. Plain \in Tags /\ 0 \in Nat
    BY TagsTyped
  <2> DEFINE s == b.side
             p == b.limit
             z == b.size
             r == FALSE
  <2>2. /\ s \in Sides /\ p \in Nat /\ z \in Nat \ {0} /\ r \in BOOLEAN
        /\ Inject(s, p, z, r, 0, Plain)
    BY <1>1, <1>4, <1>6
  <2> HIDE DEF s, p, z, r
  <2>4. Placeable(s, p, z, r, 0, Plain)
    BY <2>1, <2>2 DEF Placeable
  <2>3. Placed(s, p, z, r, 0, Plain)
    BY <2>4, InjectFacts
  <2> QED BY <2>3 DEF Placed
<1> HIDE DEF x, y
<1>8. PICK o : Arrived(o) /\ o.tag = Plain
  BY <1>7
<1>9. Bracketed(tp, sl, o, x, y)
  BY <1>4, <1>5, <1>6, <1>8 DEF Bracketed
<1> QED BY <1>9

LEMMA BracketedTyped ==
    ASSUME Typed, NEW tp \in TriggerIds, NEW sl \in TriggerIds, NEW o, NEW x, NEW y,
           Bracketed(tp, sl, o, x, y)
    PROVE  Typed'
<1>1. /\ trig \in [TriggerIds -> Triggers \cup {Closed}] /\ x \in Triggers /\ y \in Triggers
      /\ trig' = [trig EXCEPT ![tp] = x, ![sl] = y]
  BY DEF Typed, Bracketed, IsLeg
<1>2. trig' \in [TriggerIds -> Triggers \cup {Closed}]
  BY <1>1
<1>3. BookTyped' /\ seq' \in 0..MaxSeq
  BY DEF Bracketed, Arrived
<1> QED BY <1>2, <1>3 DEF Typed, Bracketed

(* What a fired trigger leaves: an order that fits, and neither it nor the *)
(* sibling it names armed any more.                                        *)
Fired(id, sid, o) ==
    /\ trig[id] # Closed /\ trig[id] \in Triggers /\ trig[id].active
    /\ Arrived(o) /\ o.side = trig[id].side /\ (o.ro <=> trig[id].ro)
    /\ o.tag = Tag("trigger", trig[id].pair)
    /\ o.ro => o.size + RestingExits(o.side) <= Abs(pos)
    /\ trig[id].hasSib => sid \in TriggerIds /\ trig[sid] # Closed /\ sid = trig[id].sib
    /\ trig' = Disarm(id, sid)
    /\ hist' = [legs |-> CountLeg(trig[id].pair), mixed |-> hist.mixed]
    /\ UNCHANGED <<now, oracle, pos, queue, filled, twap, ice, placed>>

LEMMA ExecuteTriggerFacts ==
    ASSUME Typed, ConditionalAssumption, NEW id \in TriggerIds,
           NEW sid \in TriggerIds \cup {NoSibling}, ExecuteTrigger(id, sid)
    PROVE  \E o : Fired(id, sid, o)
<1> DEFINE t == trig[id]
           e == EffectiveSize(t)
           x == IF t.ro THEN now + Ttl ELSE 0
           g == Tag("trigger", t.pair)
<1>1. t # Closed /\ t.active
  BY DEF ExecuteTrigger, ReadyToFire, TriggerOpen
<1>2. t \in Triggers /\ now \in Nat /\ Ttl \in Nat
  BY <1>1, Fields
<1>3. /\ e > 0 /\ Inject(t.side, t.limit, e, t.ro, x, g)
      /\ t.hasSib => sid # NoSibling /\ IsOcoSibling(id, sid)
      /\ trig' = Disarm(id, sid) /\ hist' = [hist EXCEPT !.legs = CountLeg(t.pair)]
      /\ UNCHANGED <<now, oracle, pos, queue, filled, twap, ice, placed>>
  BY DEF ExecuteTrigger, market
<1>4. hist' = [legs |-> CountLeg(t.pair), mixed |-> hist.mixed]
  <2>1. hist \in [legs : [1..MaxPlaced -> Nat], mixed : BOOLEAN]
    BY DEF Typed
  <2>2. hist' = [hist EXCEPT !.legs = CountLeg(t.pair)]
    BY <1>3
  <2> DEFINE c == CountLeg(t.pair)
  <2> HIDE DEF c
  <2> QED BY <2>1, <2>2 DEF c
<1>5. t.side \in Sides /\ t.limit \in Nat /\ t.ro \in BOOLEAN /\ t.pair \in Nat
  BY <1>2 DEF Triggers
<1>6. x \in Nat /\ g \in Tags
  BY <1>2, <1>5, TagsTyped
<1>7. e \in Nat \ {0} /\ (t.ro => e + RestingExits(t.side) <= Abs(pos))
  BY <1>2, <1>3, EffectiveFacts
<1>8. t.hasSib => sid \in TriggerIds /\ trig[sid] # Closed /\ sid = t.sib
  BY <1>3 DEF IsOcoSibling, TriggerOpen
<1> HIDE DEF e, x, g
<1>9. Placed(t.side, t.limit, e, t.ro, x, g)
  <2> DEFINE s == t.side
             p == t.limit
             r == t.ro
  <2>1. s \in Sides /\ p \in Nat /\ r \in BOOLEAN /\ Inject(s, p, e, r, x, g)
    BY <1>3, <1>5
  <2> HIDE DEF s, p, r
  <2>3. Placeable(s, p, e, r, x, g)
    BY <1>6, <1>7, <2>1 DEF Placeable
  <2>2. Placed(s, p, e, r, x, g)
    BY <2>3, InjectFacts
  <2> QED BY <2>2 DEF s, p, r
<1>10. PICK o : Arrived(o) /\ o.side = t.side /\ o.size = e /\ o.ro = t.ro /\ o.tag = g
  BY <1>9 DEF Placed
<1>11. o.ro => o.size + RestingExits(o.side) <= Abs(pos)
  BY <1>7, <1>10
<1>12. Fired(id, sid, o)
  BY <1>1, <1>2, <1>3, <1>4, <1>8, <1>10, <1>11 DEF Fired, g
<1> QED BY <1>12

Disarmed(i, id, sid) ==
    trig'[i] # Closed =>
        /\ trig[i] # Closed /\ trig[i] \in Triggers /\ trig'[i] \in Triggers
        /\ trig'[i].sib = trig[i].sib /\ (trig'[i].hasSib <=> trig[i].hasSib)
        /\ trig'[i].pair = trig[i].pair /\ (trig'[i].active => trig[i].active)
        /\ trig'[i].active => i # id /\ (trig[id].hasSib => i # sid)

LEMMA DisarmFacts ==
    ASSUME Typed, ConditionalAssumption, NEW id \in TriggerIds, NEW sid, NEW o, Fired(id, sid, o)
    PROVE  /\ trig' \in [TriggerIds -> Triggers \cup {Closed}]
           /\ \A i \in TriggerIds : Disarmed(i, id, sid)
<1> DEFINE off(i) == i = id \/ (trig[id].hasSib /\ i = sid)
<1>1. trig' = [i \in TriggerIds |-> IF off(i) THEN Idle(trig[i]) ELSE trig[i]]
  BY DEF Fired, Disarm, Idle
<1>2. \A i \in TriggerIds : off(i) => trig[i] # Closed /\ trig[i] \in Triggers
  BY Fields DEF Fired
<1>3. \A i \in TriggerIds : trig[i] \in Triggers \cup {Closed}
  BY DEF Typed
<1>4. \A i \in TriggerIds : off(i) =>
        /\ Idle(trig[i]) \in Triggers /\ ~Idle(trig[i]).active
        /\ Idle(trig[i]).sib = trig[i].sib /\ (Idle(trig[i]).hasSib <=> trig[i].hasSib)
        /\ Idle(trig[i]).pair = trig[i].pair
  BY <1>2, IdleFacts
<1>5. \A i \in TriggerIds : trig'[i] = IF off(i) THEN Idle(trig[i]) ELSE trig[i]
  BY <1>1
<1>6. trig' \in [TriggerIds -> Triggers \cup {Closed}]
  BY <1>1, <1>3, <1>4
<1>7. ASSUME NEW i \in TriggerIds, trig'[i] # Closed
      PROVE  /\ trig[i] # Closed /\ trig[i] \in Triggers /\ trig'[i] \in Triggers
             /\ trig'[i].sib = trig[i].sib /\ (trig'[i].hasSib <=> trig[i].hasSib)
             /\ trig'[i].pair = trig[i].pair /\ (trig'[i].active => trig[i].active)
             /\ trig'[i].active => i # id /\ (trig[id].hasSib => i # sid)
  <2>1. CASE off(i)
    <3>1. trig'[i] = Idle(trig[i])
      BY <1>5, <2>1
    <3> QED BY <1>2, <1>4, <2>1, <3>1
  <2>2. CASE ~off(i)
    <3>1. trig'[i] = trig[i]
      BY <1>5, <2>2
    <3> QED BY <1>3, <1>7, <2>2, <3>1
  <2> QED BY <2>1, <2>2
<1>8. \A i \in TriggerIds : Disarmed(i, id, sid)
  BY <1>7 DEF Disarmed
<1> QED BY <1>6, <1>8

LEMMA FiredTyped ==
    ASSUME Typed, ConditionalAssumption, NEW id \in TriggerIds, NEW sid, NEW o, Fired(id, sid, o)
    PROVE  Typed'
<1>1. trig' \in [TriggerIds -> Triggers \cup {Closed}]
  BY DisarmFacts
<1>2. BookTyped' /\ seq' \in 0..MaxSeq
  BY DEF Fired, Arrived
<1>3. hist.legs \in [1..MaxPlaced -> Nat] /\ hist.mixed \in BOOLEAN
  BY Fields
<1>4. CountLeg(trig[id].pair) \in [1..MaxPlaced -> Nat]
  <2> DEFINE n == trig[id].pair
             l == hist.legs
  <2>1. CountLeg(n) = IF n = 0 THEN l ELSE [l EXCEPT ![n] = l[n] + 1]
    BY DEF CountLeg
  <2>2. l \in [1..MaxPlaced -> Nat]
    BY <1>3
  <2> HIDE DEF n, l
  <2>3. [l EXCEPT ![n] = l[n] + 1] \in [1..MaxPlaced -> Nat]
    <3>1. CASE n \in 1..MaxPlaced
      <4>1. l[n] + 1 \in Nat
        BY <2>2, <3>1
      <4> QED BY <2>2, <4>1
    <3>2. CASE n \notin 1..MaxPlaced
      BY <2>2, <3>2
    <3> QED BY <3>1, <3>2
  <2> QED BY <2>1, <2>2, <2>3 DEF n
<1>5. hist' \in [legs : [1..MaxPlaced -> Nat], mixed : BOOLEAN]
  BY <1>3, <1>4 DEF Fired
<1>6. UNCHANGED <<now, oracle, pos, queue, twap, ice, placed>>
  BY DEF Fired
<1> QED BY <1>1, <1>2, <1>5, <1>6 DEF Typed

LEMMA PlaceTwapTyped ==
    ASSUME Typed, ConditionalAssumption, NEW id \in TwapIds, NEW w \in TwapTerms, PlaceTwap(id, w)
    PROVE  /\ Typed' /\ NewTwap(w) \in Twaps /\ twap' = [twap EXCEPT ![id] = NewTwap(w)]
           /\ UNCHANGED <<trig, ice, book, seq, queue, pos, hist>> /\ placed' = placed + 1
<1> DEFINE x == NewTwap(w)
<1>1. /\ w.side \in Sides /\ w.slice \in Nat /\ w.total \in Nat /\ w.limit \in Nat
      /\ w.interval \in Nat /\ w.end \in Nat /\ w.cap \in Nat
  BY TermsTyped
<1>2. /\ placed' = placed + 1 /\ placed < MaxPlaced /\ TwapAdmits(w)
      /\ twap' = [twap EXCEPT ![id] = x]
      /\ UNCHANGED <<now, oracle, pos, queue, book, seq, trig, ice, hist>>
  BY DEF PlaceTwap, market
<1>3. x \in Twaps
  <2>1. w.slice \in Nat \ {0} /\ <<>> \in Seq(Slices)
    BY <1>1, <1>2, EmptySeq DEF TwapAdmits
  <2> QED BY <1>1, <2>1 DEF NewTwap, Twaps
<1> HIDE DEF x
<1>4. placed \in Nat /\ MaxPlaced \in Nat /\ twap \in [TwapIds -> Twaps \cup {Closed}]
  BY Fields DEF Typed
<1>5. twap' \in [TwapIds -> Twaps \cup {Closed}] /\ placed' \in 0..MaxPlaced
  BY <1>2, <1>3, <1>4
<1>6. BookTyped'
  BY <1>2, OrdersLeave DEF Typed
<1>7. Typed'
  BY <1>2, <1>5, <1>6 DEF Typed
<1> QED BY <1>2, <1>3, <1>7 DEF x

LEMMA CancelTwapTyped ==
    ASSUME Typed, NEW id \in TwapIds, CancelTwap(id)
    PROVE  /\ Typed' /\ twap' = [twap EXCEPT ![id] = Closed]
           /\ UNCHANGED <<trig, ice, book, seq, queue, pos, placed, hist>>
<1>1. /\ twap' = [twap EXCEPT ![id] = Closed]
      /\ UNCHANGED <<now, oracle, pos, queue, book, seq, trig, ice, placed, hist>>
  BY DEF CancelTwap, market
<1>2. twap \in [TwapIds -> Twaps \cup {Closed}]
  BY DEF Typed
<1>3. twap' \in [TwapIds -> Twaps \cup {Closed}]
  BY <1>1, <1>2
<1>4. BookTyped'
  BY <1>1, OrdersLeave DEF Typed
<1>5. Typed'
  BY <1>1, <1>3, <1>4 DEF Typed
<1> QED BY <1>1, <1>5

Sliced(w, lots, x) ==
    /\ x \in Twaps /\ x.slice = w.slice /\ x.total = w.total /\ x.interval = w.interval
    /\ x.end = w.end /\ x.executed = w.executed + lots /\ x.last = now
    /\ x.slices = Append(w.slices, [slot |-> now, lots |-> lots])

LEMMA AfterSliceFacts ==
    ASSUME NEW w \in Twaps, NEW lots, lots \in Nat, now \in Nat
    PROVE  Sliced(w, lots, AfterSlice(w, lots))
<1> DEFINE e == w.executed + lots
           a == w.executed + lots < w.total
           s == Append(w.slices, [slot |-> now, lots |-> lots])
<1>1. w.executed \in Nat /\ w.slices \in Seq(Slices) /\ [slot |-> now, lots |-> lots] \in Slices
  BY DEF Twaps, Slices
<1>2. e \in Nat /\ s \in Seq(Slices)
  BY <1>1
<1>3. AfterSlice(w, lots) = [w EXCEPT !.executed = e, !.last = now, !.active = a, !.slices = s]
  BY DEF AfterSlice
<1>4. a \in BOOLEAN
  OBVIOUS
<1> HIDE DEF e, a, s
<1>5. AfterSlice(w, lots) =
        [side |-> w.side, slice |-> w.slice, total |-> w.total, limit |-> w.limit,
         interval |-> w.interval, end |-> w.end, cap |-> w.cap,
         executed |-> e, last |-> now, active |-> a, slices |-> s]
  BY <1>3 DEF Twaps
<1>6. AfterSlice(w, lots) \in Twaps
  BY <1>2, <1>4, <1>5 DEF Twaps
<1> QED BY <1>5, <1>6 DEF Sliced, e, s

(* What a slice leaves.                                                    *)
SliceOut(id, lots, x) ==
    /\ twap[id] # Closed /\ twap[id] \in Twaps
    /\ lots \in Nat \ {0} /\ lots <= twap[id].slice /\ twap[id].executed + lots <= twap[id].total
    /\ twap[id].end = 0 \/ now <= twap[id].end
    /\ now >= twap[id].last + twap[id].interval
    /\ Sliced(twap[id], lots, x) /\ twap' = [twap EXCEPT ![id] = x]
    /\ \E o : Arrived(o) /\ o.tag = Plain
    /\ UNCHANGED <<now, oracle, pos, queue, filled, trig, ice, placed, hist>>

LEMMA TwapSliceFacts ==
    ASSUME Typed, ConditionalAssumption, NEW id \in TwapIds, ExecuteTwapSlice(id)
    PROVE  \E lots, x : SliceOut(id, lots, x)
<1> DEFINE w == twap[id]
           lots == SliceLots(w)
           x == AfterSlice(w, lots)
<1>1. w # Closed
  BY DEF ExecuteTwapSlice, TwapOpen
<1>2. w \in Twaps /\ now \in Nat
  BY <1>1, Fields
<1>3. /\ NotOver(w.end) /\ now >= w.last + w.interval /\ w.total - w.executed > 0
      /\ Inject(w.side, w.limit, lots, FALSE, 0, Plain)
      /\ twap' = [twap EXCEPT ![id] = x]
      /\ UNCHANGED <<now, oracle, pos, queue, filled, trig, ice, placed, hist>>
  BY DEF ExecuteTwapSlice, market
<1>4. /\ w.slice \in Nat \ {0} /\ w.total \in Nat /\ w.executed \in Nat /\ w.side \in Sides
      /\ w.limit \in Nat /\ w.end \in Nat
  BY <1>2 DEF Twaps
<1>5. lots \in Nat \ {0} /\ lots <= w.slice /\ w.executed + lots <= w.total
  <2> DEFINE a == w.slice
             b == w.total - w.executed
  <2>1. a \in Int /\ b \in Int /\ a > 0 /\ b > 0
    BY <1>3, <1>4
  <2>2. lots = Min({a, b})
    BY DEF SliceLots
  <2> HIDE DEF a, b
  <2>3. Min({a, b}) = IF a <= b THEN a ELSE b
    BY <2>1, MinOfTwo
  <2> HIDE DEF lots
  <2>4. lots \in Nat \ {0} /\ lots <= a /\ lots <= b
    BY <2>1, <2>2, <2>3
  <2> QED BY <1>4, <2>4 DEF a, b
<1>6. w.end = 0 \/ now <= w.end
  BY <1>2, <1>3, <1>4 DEF NotOver
<1> HIDE DEF lots
<1>7. Sliced(w, lots, x)
  <2> HIDE DEF w
  <2> QED BY <1>2, <1>5, AfterSliceFacts
<1>8. \E o : Arrived(o) /\ o.tag = Plain
  <2>1. Plain \in Tags /\ 0 \in Nat
    BY TagsTyped
  <2> DEFINE s == w.side
             p == w.limit
             r == FALSE
  <2>2. s \in Sides /\ p \in Nat /\ r \in BOOLEAN /\ Inject(s, p, lots, r, 0, Plain)
    BY <1>3, <1>4
  <2> HIDE DEF s, p, r
  <2>4. Placeable(s, p, lots, r, 0, Plain)
    BY <1>5, <2>1, <2>2 DEF Placeable
  <2>3. Placed(s, p, lots, r, 0, Plain)
    BY <2>4, InjectFacts
  <2> QED BY <2>3 DEF Placed
<1> HIDE DEF x
<1>9. SliceOut(id, lots, x)
  BY <1>1, <1>2, <1>3, <1>5, <1>6, <1>7, <1>8 DEF SliceOut
<1> QED BY <1>9

LEMMA SliceTyped ==
    ASSUME Typed, NEW id \in TwapIds, NEW lots, NEW x, SliceOut(id, lots, x)
    PROVE  Typed'
<1>1. twap \in [TwapIds -> Twaps \cup {Closed}] /\ x \in Twaps /\ twap' = [twap EXCEPT ![id] = x]
  BY DEF Typed, SliceOut, Sliced
<1>2. twap' \in [TwapIds -> Twaps \cup {Closed}]
  BY <1>1
<1>3. BookTyped' /\ seq' \in 0..MaxSeq
  BY DEF SliceOut, Arrived
<1>4. UNCHANGED <<now, oracle, pos, queue, filled, trig, ice, placed, hist>>
  BY DEF SliceOut
<1> QED BY <1>2, <1>3, <1>4 DEF Typed

(* What a chunk of an iceberg leaves: x is the account and o its order.    *)
Chunk(id, o, x) ==
    /\ x \in Icebergs /\ Arrived(o) /\ o.tag = Tag("ice", x.n) /\ x.child = seq + 1
    /\ o.side = x.side /\ o.px = x.limit /\ o.size <= x.shown
    /\ ice' = [ice EXCEPT ![id] = x]
    /\ UNCHANGED <<now, oracle, pos, queue, filled, trig, twap, hist>>

FirstChunk(id, o, x) ==
    /\ Chunk(id, o, x) /\ x.n = placed + 1 /\ o.size + x.remaining <= x.total
    /\ placed' = placed + 1 /\ placed' \in 0..MaxPlaced

NextChunk(id, o, x) ==
    /\ ice[id] # Closed /\ ice[id] \in Icebergs /\ ChildGone(ice[id])
    /\ Chunk(id, o, x) /\ x.n = ice[id].n /\ x.total = ice[id].total
    /\ o.size + x.remaining = ice[id].remaining
    /\ placed' = placed

LEMMA PlaceIcebergFacts ==
    ASSUME Typed, ConditionalAssumption, NEW id \in IcebergIds, NEW i \in IcebergTerms,
           PlaceIceberg(id, i)
    PROVE  \E o, x : FirstChunk(id, o, x)
<1> DEFINE x == NewIceberg(i, seq + 1, placed + 1)
           g == Tag("ice", placed + 1)
<1>1. i.side \in Sides /\ i.total \in Nat /\ i.shown \in Nat /\ i.limit \in Nat /\ i.exp \in Nat
  BY TermsTyped
<1>2. placed \in Nat /\ MaxPlaced \in Nat /\ seq \in Nat
  BY Fields
<1>3. /\ placed < MaxPlaced /\ placed' = placed + 1 /\ IcebergAdmits(i)
      /\ Inject(i.side, i.limit, i.shown, FALSE, i.exp, Tag("ice", placed'))
      /\ ice' = [ice EXCEPT ![id] = NewIceberg(i, seq', placed')]
      /\ UNCHANGED <<now, oracle, pos, queue, filled, trig, twap, hist>>
  BY DEF PlaceIceberg, market
<1>4. seq' = seq + 1
  BY <1>3 DEF Inject
<1>5. i.shown \in Nat \ {0} /\ i.shown <= i.total /\ placed' \in 0..MaxPlaced
  BY <1>1, <1>2, <1>3 DEF IcebergAdmits
<1>6. /\ x \in Icebergs /\ x.n = placed + 1 /\ x.child = seq + 1 /\ x.side = i.side
      /\ x.limit = i.limit /\ x.shown = i.shown /\ i.shown + x.remaining = x.total
  BY <1>1, <1>2, <1>5 DEF NewIceberg, Icebergs
<1>7. /\ Inject(i.side, i.limit, i.shown, FALSE, i.exp, g) /\ ice' = [ice EXCEPT ![id] = x]
  BY <1>3, <1>4
<1>8. g \in Tags
  BY <1>2, TagsTyped
<1> HIDE DEF x, g
<1>9. \E o : Arrived(o) /\ o.tag = g /\ o.side = i.side /\ o.px = i.limit /\ o.size = i.shown
  <2> DEFINE s == i.side
             p == i.limit
             z == i.shown
             u == i.exp
             r == FALSE
  <2>1. /\ s \in Sides /\ p \in Nat /\ z \in Nat \ {0} /\ u \in Nat /\ r \in BOOLEAN
        /\ Inject(s, p, z, r, u, g)
    BY <1>1, <1>5, <1>7
  <2> HIDE DEF s, p, z, u, r
  <2>3. Placeable(s, p, z, r, u, g)
    BY <1>8, <2>1 DEF Placeable
  <2>2. Placed(s, p, z, r, u, g)
    BY <2>3, InjectFacts
  <2> QED BY <2>2 DEF Placed, s, p, z
<1>10. PICK o : Arrived(o) /\ o.tag = g /\ o.side = i.side /\ o.px = i.limit /\ o.size = i.shown
  BY <1>9
<1>11. o.size <= x.shown /\ o.size + x.remaining <= x.total
  BY <1>1, <1>6, <1>10 DEF Icebergs
<1>12. Chunk(id, o, x)
  BY <1>3, <1>6, <1>7, <1>10, <1>11 DEF Chunk, g
<1> QED BY <1>3, <1>5, <1>6, <1>11, <1>12 DEF FirstChunk

LEMMA RefilledRecord ==
    ASSUME NEW i \in Icebergs, NEW r, NEW c, NEW a, NEW x,
           x = [i EXCEPT !.remaining = r, !.child = c, !.active = a]
    PROVE  x = [side |-> i.side, limit |-> i.limit, total |-> i.total, shown |-> i.shown, exp |-> i.exp,
                remaining |-> r, child |-> c, active |-> a, n |-> i.n]
BY DEF Icebergs

LEMMA ReplenishFacts ==
    ASSUME Typed, ConditionalAssumption, NEW id \in IcebergIds, ReplenishIceberg(id)
    PROVE  \E o, x : NextChunk(id, o, x)
<1> DEFINE i == ice[id]
           chunk == Min({i.shown, i.remaining})
           rest == i.remaining - chunk
           more == i.remaining > chunk
           x == [i EXCEPT !.remaining = rest, !.child = seq + 1, !.active = more]
           g == Tag("ice", i.n)
<1>1. i # Closed
  BY DEF ReplenishIceberg, IcebergOpen
<1>2. i \in Icebergs /\ seq \in Nat
  BY <1>1, Fields
<1>3. /\ i.remaining > 0 /\ ChildGone(i)
      /\ Inject(i.side, i.limit, chunk, FALSE, i.exp, g)
      /\ ice' = [ice EXCEPT ![id] = [i EXCEPT !.remaining = rest, !.child = seq', !.active = more]]
      /\ placed' = placed
      /\ UNCHANGED <<now, oracle, pos, queue, filled, trig, twap, hist>>
  BY DEF ReplenishIceberg, market
<1>4. seq' = seq + 1
  BY <1>3 DEF Inject
<1>5. /\ i.shown \in Nat \ {0} /\ i.remaining \in Nat /\ i.side \in Sides /\ i.limit \in Nat
      /\ i.exp \in Nat /\ i.n \in Nat /\ i.total \in Nat
  BY <1>2 DEF Icebergs
<1>6. /\ chunk \in Nat \ {0} /\ chunk <= i.shown /\ rest \in Nat /\ chunk + rest = i.remaining
  <2> DEFINE a == i.shown
             b == i.remaining
  <2>1. a \in Int /\ b \in Int /\ a > 0 /\ b > 0
    BY <1>3, <1>5
  <2> HIDE DEF a, b
  <2>2. Min({a, b}) = IF a <= b THEN a ELSE b
    BY <2>1, MinOfTwo
  <2>3. /\ Min({a, b}) \in Nat \ {0} /\ Min({a, b}) <= a /\ b - Min({a, b}) \in Nat
        /\ Min({a, b}) + (b - Min({a, b})) = b
    BY <2>1, <2>2
  <2> QED BY <2>3 DEF a, b
<1>7. more \in BOOLEAN /\ g \in Tags
  BY <1>5, TagsTyped
<1>8. ice' = [ice EXCEPT ![id] = x]
  BY <1>3, <1>4
<1> HIDE DEF chunk, rest, more, g
<1>9. x = [side |-> i.side, limit |-> i.limit, total |-> i.total, shown |-> i.shown, exp |-> i.exp,
           remaining |-> rest, child |-> seq + 1, active |-> more, n |-> i.n]
  <2> HIDE DEF i
  <2> QED BY <1>2, RefilledRecord
<1>10. /\ x \in Icebergs /\ x.n = i.n /\ x.child = seq + 1 /\ x.side = i.side /\ x.limit = i.limit
       /\ x.shown = i.shown /\ x.total = i.total /\ x.remaining = rest
  <2> HIDE DEF x, i
  <2> QED BY <1>2, <1>5, <1>6, <1>7, <1>9 DEF Icebergs
<1> HIDE DEF x
<1>11. \E o : Arrived(o) /\ o.tag = g /\ o.side = i.side /\ o.px = i.limit /\ o.size = chunk
  <2> DEFINE s == i.side
             p == i.limit
             u == i.exp
             r == FALSE
  <2>1. s \in Sides /\ p \in Nat /\ u \in Nat /\ r \in BOOLEAN /\ Inject(s, p, chunk, r, u, g)
    BY <1>3, <1>5
  <2> HIDE DEF s, p, u, r
  <2>3. Placeable(s, p, chunk, r, u, g)
    BY <1>6, <1>7, <2>1 DEF Placeable
  <2>2. Placed(s, p, chunk, r, u, g)
    BY <2>3, InjectFacts
  <2> QED BY <2>2 DEF Placed, s, p
<1>12. PICK o : Arrived(o) /\ o.tag = g /\ o.side = i.side /\ o.px = i.limit /\ o.size = chunk
  BY <1>11
<1>13. Chunk(id, o, x)
  BY <1>3, <1>6, <1>8, <1>10, <1>12 DEF Chunk, g
<1>14. o.size + x.remaining = i.remaining
  BY <1>6, <1>10, <1>12
<1> QED BY <1>1, <1>2, <1>3, <1>10, <1>13, <1>14 DEF NextChunk

LEMMA ChunkTyped ==
    ASSUME Typed, NEW id \in IcebergIds, NEW o, NEW x, Chunk(id, o, x), placed' \in 0..MaxPlaced
    PROVE  Typed'
<1>1. ice \in [IcebergIds -> Icebergs \cup {Closed}] /\ x \in Icebergs /\ ice' = [ice EXCEPT ![id] = x]
  BY DEF Typed, Chunk
<1>2. ice' \in [IcebergIds -> Icebergs \cup {Closed}]
  BY <1>1
<1>3. BookTyped' /\ seq' \in 0..MaxSeq
  BY DEF Chunk, Arrived
<1>4. UNCHANGED <<now, oracle, pos, queue, filled, trig, twap, hist>>
  BY DEF Chunk
<1> QED BY <1>2, <1>3, <1>4 DEF Typed

LEMMA CancelIcebergTyped ==
    ASSUME Typed, NEW id \in IcebergIds, CancelIceberg(id)
    PROVE  /\ Typed' /\ ice' = [ice EXCEPT ![id] = Closed]
           /\ UNCHANGED <<trig, twap, book, seq, queue, pos, placed, hist>>
<1>1. /\ ice' = [ice EXCEPT ![id] = Closed]
      /\ UNCHANGED <<now, oracle, pos, queue, book, seq, trig, twap, placed, hist>>
  BY DEF CancelIceberg, market
<1>2. ice \in [IcebergIds -> Icebergs \cup {Closed}]
  BY DEF Typed
<1>3. ice' \in [IcebergIds -> Icebergs \cup {Closed}]
  BY <1>1, <1>2
<1>4. BookTyped'
  BY <1>1, OrdersLeave DEF Typed
<1>5. Typed'
  BY <1>1, <1>3, <1>4 DEF Typed
<1> QED BY <1>1, <1>5
(* Orders that leave the book, are rewritten by the owner or are crossed.  *)
Gone(o) ==
    /\ o \in book /\ book' = book \ {o} /\ BookTyped'
    /\ UNCHANGED <<now, oracle, pos, queue, filled, seq, trig, twap, ice, placed, hist>>

LEMMA GoneFacts ==
    ASSUME Typed, NEW o \in book, CancelOrder(o) \/ ReapExpiredOrder(o)
    PROVE  Gone(o)
<1>1. /\ book' = book \ {o}
      /\ UNCHANGED <<now, oracle, pos, queue, filled, seq, trig, twap, ice, placed, hist>>
  BY DEF CancelOrder, ReapExpiredOrder, market, accounts
<1>2. BookTyped'
  BY <1>1, OrdersLeave DEF Typed
<1> QED BY <1>1, <1>2 DEF Gone

Rewritten(o, p) ==
    /\ o \in book /\ p \in Orders /\ p.tag = Plain /\ p.seq = seq + 1
    /\ seq' = seq + 1 /\ seq' \in 0..MaxSeq
    /\ book' = (book \ {o}) \cup {p} /\ BookTyped'
    /\ \A q \in book' : q.seq > seq => q = p
    /\ UNCHANGED <<now, oracle, pos, queue, filled, trig, twap, ice, placed, hist>>

LEMMA ModifyFacts ==
    ASSUME Typed, ConditionalAssumption, NEW o \in book, NEW m \in ModifyTerms, ModifyOrder(o, m)
    PROVE  \E p : Rewritten(o, p)
<1> DEFINE p == [seq |-> seq + 1, side |-> o.side, px |-> m.px, size |-> m.size,
                 ro |-> m.ro, exp |-> m.exp, tag |-> Plain]
           kept == book \ {o}
<1>1. m.size \in Nat /\ m.px \in Nat /\ m.ro \in BOOLEAN /\ m.exp \in Nat
  BY TermsTyped
<1>2. seq \in Nat /\ MaxSeq \in Nat /\ BookTyped /\ o \in Orders
  BY Fields
<1>3. /\ m.size > 0 /\ seq < MaxSeq /\ seq' = seq + 1 /\ book' = kept \cup {p}
      /\ UNCHANGED <<now, oracle, pos, queue, filled, trig, twap, ice, placed, hist>>
  BY DEF ModifyOrder, market, accounts
<1>4. seq' \in 0..MaxSeq /\ o.side \in Sides /\ m.size \in Nat \ {0} /\ Plain \in Tags
  BY <1>1, <1>2, <1>3, TagsTyped DEF Orders
<1>5. p \in Orders /\ p.tag = Plain /\ p.seq = seq + 1
  BY <1>1, <1>2, <1>4 DEF Orders
<1>6. kept \subseteq book
  OBVIOUS
<1> HIDE DEF p, kept
<1>7. BookTyped' /\ \A q \in book' : q.seq > seq => q = p
  BY <1>2, <1>3, <1>5, <1>6, OrderArrives
<1>8. Rewritten(o, p)
  BY <1>3, <1>4, <1>5, <1>7 DEF Rewritten, kept
<1> QED BY <1>8

(* n lots of o are crossed: o leaves the book, or p stays in its place;    *)
(* f is the fill.                                                          *)
Crossed(o, n, p, f) ==
    /\ o \in book /\ o \in Orders /\ n \in Nat \ {0}
    /\ p \in Orders /\ p.seq = o.seq /\ p.tag = o.tag /\ p.side = o.side /\ p.px = o.px
    /\ p.size <= o.size
    /\ book' = book \ {o} \/ book' = (book \ {o}) \cup {p}
    /\ BookTyped'
    /\ o.ro => n <= Reducible(o)
    /\ f \in Fills /\ f.lots = Signed(o.side, n) /\ f.ro = o.ro
    /\ queue' = Append(queue, f)
    /\ hist' = [legs |-> hist.legs, mixed |-> hist.mixed \/ \E k \in DOMAIN queue : queue[k].ro # f.ro]
    /\ UNCHANGED <<now, oracle, pos, seq, trig, twap, ice, placed>>

LEMMA CrossFacts ==
    ASSUME Typed, ConditionalAssumption, NEW o \in book, NEW n \in 1..o.size, Cross(o, n)
    PROVE  \E p, f : Crossed(o, n, p, f)
<1> DEFINE z == o.size - n
           f == [lots |-> Signed(o.side, n), ro |-> o.ro]
<1>1. BookTyped /\ o \in Orders
  BY Fields
<1>2. o.size \in Nat \ {0} /\ o.side \in Sides /\ o.ro \in BOOLEAN
  BY <1>1 DEF Orders
<1>3. n \in Nat \ {0} /\ n <= o.size
  BY <1>2
<1>4. /\ o.ro => n <= Reducible(o)
      /\ book' = IF n = o.size THEN book \ {o} ELSE (book \ {o}) \cup {[o EXCEPT !.size = z]}
      /\ Enqueue(f)
      /\ UNCHANGED <<now, oracle, pos, seq, trig, twap, ice, placed>>
  BY DEF Cross, accounts
<1>5. f \in Fills /\ f.lots = Signed(o.side, n) /\ f.ro = o.ro
  BY <1>2, <1>3 DEF Fills, Signed
<1> HIDE DEF f
<1>6. queue' = Append(queue, f)
  BY <1>4 DEF Enqueue
<1>7. hist' = [legs |-> hist.legs, mixed |-> hist.mixed \/ \E k \in DOMAIN queue : queue[k].ro # f.ro]
  <2> DEFINE m == hist.mixed \/ \E k \in DOMAIN queue : queue[k].ro # f.ro
  <2>1. hist' = [hist EXCEPT !.mixed = m]
    BY <1>4 DEF Enqueue
  <2>2. hist \in [legs : [1..MaxPlaced -> Nat], mixed : BOOLEAN]
    BY DEF Typed
  <2> HIDE DEF m
  <2>3. hist' = [legs |-> hist.legs, mixed |-> m]
    BY <2>1, <2>2
  <2> QED BY <2>3 DEF m
<1>8. CASE n = o.size
  <2>1. book' = book \ {o}
    BY <1>4, <1>8
  <2>2. BookTyped'
    BY <1>1, <1>4, <2>1, OrdersLeave
  <2>3. Crossed(o, n, o, f)
    BY <1>1, <1>2, <1>3, <1>4, <1>5, <1>6, <1>7, <2>1, <2>2 DEF Crossed
  <2> QED BY <2>3
<1>9. CASE n # o.size
  <2> DEFINE p == [o EXCEPT !.size = z]
  <2>1. z \in Nat \ {0} /\ z <= o.size
    BY <1>2, <1>3, <1>9
  <2>2. book' = (book \ {o}) \cup {p}
    BY <1>4, <1>9
  <2> HIDE DEF z
  <2>3. p \in Orders /\ p.seq = o.seq /\ p.tag = o.tag /\ p.side = o.side /\ p.px = o.px /\ p.size = z
    BY <1>1, <2>1 DEF Orders
  <2> HIDE DEF p
  <2>4. BookTyped'
    BY <1>1, <1>4, <2>2, <2>3, OrderShrinks
  <2>5. p.size <= o.size
    BY <2>1, <2>3
  <2>6. Crossed(o, n, p, f)
    BY <1>1, <1>3, <1>4, <1>5, <1>6, <1>7, <2>2, <2>3, <2>4, <2>5 DEF Crossed
  <2> QED BY <2>6
<1> QED BY <1>8, <1>9

LEMMA CrossedTyped ==
    ASSUME Typed, NEW o, NEW n, NEW p, NEW f, Crossed(o, n, p, f)
    PROVE  Typed'
<1>1. queue' \in Seq(Fills)
  <2>1. queue \in Seq(Fills) /\ f \in Fills /\ queue' = Append(queue, f)
    BY DEF Typed, Crossed
  <2> QED BY <2>1
<1>2. hist' \in [legs : [1..MaxPlaced -> Nat], mixed : BOOLEAN]
  <2> DEFINE m == hist.mixed \/ \E k \in DOMAIN queue : queue[k].ro # f.ro
  <2>1. hist' = [legs |-> hist.legs, mixed |-> m]
    BY DEF Crossed
  <2>2. m \in BOOLEAN
    BY Zenon
  <2>3. hist \in [legs : [1..MaxPlaced -> Nat], mixed : BOOLEAN]
    BY DEF Typed
  <2> HIDE DEF m
  <2> QED BY <2>1, <2>2, <2>3
<1>3. BookTyped' /\ UNCHANGED <<now, oracle, pos, seq, trig, twap, ice, placed>>
  BY DEF Crossed
<1> QED BY <1>1, <1>2, <1>3 DEF Typed

(* One fill settles, the oracle or the clock moves.                        *)
SettledHead ==
    /\ queue # <<>> /\ pos' = pos + Head(queue).lots /\ queue' = Tail(queue)
    /\ hist' = [legs |-> hist.legs, mixed |-> hist.mixed /\ Len(queue) > 1]
    /\ UNCHANGED <<now, oracle, book, seq, trig, twap, ice, placed>>

LEMMA SettleFacts ==
    ASSUME Typed, Settle
    PROVE  SettledHead /\ Typed'
<1> DEFINE m == hist.mixed /\ Len(queue) > 1
<1>1. /\ queue # <<>> /\ pos' = pos + Head(queue).lots /\ queue' = Tail(queue)
      /\ hist' = [hist EXCEPT !.mixed = m]
      /\ UNCHANGED <<now, oracle, book, seq, trig, twap, ice, placed>>
  BY DEF Settle, accounts
<1>2. hist \in [legs : [1..MaxPlaced -> Nat], mixed : BOOLEAN] /\ queue \in Seq(Fills) /\ pos \in Int
  BY DEF Typed
<1>3. m \in BOOLEAN
  BY Zenon
<1>4. SettledHead
  <2>1. hist' = [legs |-> hist.legs, mixed |-> m]
    <3> HIDE DEF m
    <3> QED BY <1>1, <1>2
  <2> QED BY <1>1, <2>1 DEF SettledHead
<1>5. hist' \in [legs : [1..MaxPlaced -> Nat], mixed : BOOLEAN]
  <2> HIDE DEF m
  <2> QED BY <1>1, <1>2, <1>3
<1>6. queue' \in Seq(Fills) /\ Head(queue) \in Fills
  BY <1>1, <1>2
<1>7. pos' \in Int
  BY <1>1, <1>2, <1>6 DEF Fills
<1>8. BookTyped'
  BY <1>1, OrdersLeave DEF Typed
<1>9. Typed'
  BY <1>1, <1>5, <1>6, <1>7, <1>8 DEF Typed
<1> QED BY <1>4, <1>9

LEMMA MarketMovesTyped ==
    ASSUME Typed, ConditionalAssumption,
           (\E px \in OraclePrices : RefreshOracle(px)) \/ OracleGoesStale \/ Tick
    PROVE  /\ Typed'
           /\ UNCHANGED <<pos, queue, filled, book, seq, trig, twap, ice, placed, hist>>
<1>1. UNCHANGED <<pos, queue, filled, book, seq, trig, twap, ice, placed, hist>>
  BY DEF RefreshOracle, OracleGoesStale, Tick, accounts
<1>2. oracle' \in [px : Nat, fresh : BOOLEAN]
  <2>1. oracle \in [px : Nat, fresh : BOOLEAN]
    BY DEF Typed
  <2>2. ASSUME NEW px \in OraclePrices, RefreshOracle(px) PROVE oracle' \in [px : Nat, fresh : BOOLEAN]
    <3> DEFINE b == px # 0
    <3>1. oracle' = [px |-> px, fresh |-> b] /\ px \in Nat /\ b \in BOOLEAN
      BY <2>2 DEF RefreshOracle, ConditionalAssumption
    <3> HIDE DEF b
    <3> QED BY <3>1
  <2>3. CASE OracleGoesStale
    BY <2>1, <2>3 DEF OracleGoesStale
  <2>4. CASE Tick
    BY <2>1, <2>4 DEF Tick
  <2> QED BY <2>2, <2>3, <2>4
<1>3. now' \in 1..MaxSlot
  <2>1. now \in 1..MaxSlot /\ MaxSlot \in Nat
    BY DEF Typed, ConditionalAssumption
  <2>2. now' = now \/ (now < MaxSlot /\ now' = now + 1)
    BY DEF RefreshOracle, OracleGoesStale, Tick
  <2> QED BY <2>1, <2>2
<1>4. pos' \in Int /\ queue' \in Seq(Fills)
  BY <1>1 DEF Typed
<1>5. Typed'
  BY <1>1, <1>2, <1>3, <1>4, QuietTyped
<1> QED BY <1>1, <1>5
-----------------------------------------------------------------------------
(* Brackets.  Legs of one bracket name each other, and an armed leg's      *)
(* bracket has not exited: so the leg that fires takes the other with it.  *)
Armed(i) == trig[i] # Closed /\ trig[i].pair > 0

PairsInv ==
    /\ \A i \in TriggerIds : Armed(i) => trig[i].pair <= placed /\ trig[i].hasSib
    /\ \A i \in TriggerIds : Armed(i) /\ trig[i].active => hist.legs[trig[i].pair] = 0
    /\ \A i, j \in TriggerIds :
         Armed(i) /\ Armed(j) /\ i # j /\ trig[i].pair = trig[j].pair => trig[i].sib = j
    /\ \A n \in 1..MaxPlaced : hist.legs[n] <= 1 /\ (n > placed => hist.legs[n] = 0)

(* Accounts may vanish and placements of other kinds may be counted.       *)
LEMMA PairsKept ==
    ASSUME PairsInv, Typed, placed' \in Nat, placed' >= placed, hist'.legs = hist.legs,
           \A i \in TriggerIds : trig'[i] = trig[i] \/ ~Armed(i)'
    PROVE  PairsInv'
<1>1. placed \in Nat
  BY DEF Typed
<1>2. \A i \in TriggerIds : Armed(i)' => Armed(i) /\ trig'[i] = trig[i]
  BY DEF Armed
<1>3. \A i \in TriggerIds : Armed(i)' => trig'[i].pair <= placed' /\ trig'[i].hasSib
  <2>1. \A i \in TriggerIds : trig[i] # Closed => trig[i].pair \in Nat
    BY DEF Typed, Triggers
  <2> QED BY <1>1, <1>2, <2>1 DEF PairsInv, Armed
<1>4. \A i \in TriggerIds : Armed(i)' /\ trig'[i].active => hist'.legs[trig'[i].pair] = 0
  BY <1>2 DEF PairsInv
<1>5. \A i, j \in TriggerIds :
         Armed(i)' /\ Armed(j)' /\ i # j /\ trig'[i].pair = trig'[j].pair => trig'[i].sib = j
  BY <1>2 DEF PairsInv
<1>6. \A n \in 1..MaxPlaced : hist'.legs[n] <= 1 /\ (n > placed' => hist'.legs[n] = 0)
  BY <1>1 DEF PairsInv
<1> QED BY <1>3, <1>4, <1>5, <1>6 DEF PairsInv

LEMMA PairsBracketed ==
    ASSUME PairsInv, Typed, ConditionalAssumption, NEW tp \in TriggerIds, NEW sl \in TriggerIds,
           NEW o, NEW x, NEW y, Bracketed(tp, sl, o, x, y)
    PROVE  PairsInv'
<1>1. placed \in Nat /\ MaxPlaced \in Nat /\ placed' = placed + 1 /\ placed + 1 \in 1..MaxPlaced
  <2>1. placed \in Nat /\ MaxPlaced \in Nat
    BY Fields
  <2>2. placed' = placed + 1 /\ placed' \in 0..MaxPlaced
    BY DEF Bracketed
  <2> QED BY <2>1, <2>2
<1>2. /\ trig \in [TriggerIds -> Triggers \cup {Closed}] /\ tp # sl
      /\ trig' = [trig EXCEPT ![tp] = x, ![sl] = y] /\ hist' = hist
  BY DEF Bracketed, Typed
<1>3. trig'[tp] = x /\ trig'[sl] = y /\ \A i \in TriggerIds \ {tp, sl} : trig'[i] = trig[i]
  BY <1>2
<1>4. x.pair = placed + 1 /\ y.pair = placed + 1 /\ x.hasSib /\ y.hasSib /\ x.sib = sl /\ y.sib = tp
  BY DEF Bracketed, IsLeg
<1>5. \A i \in TriggerIds : Armed(i) => trig[i].pair \in Nat /\ trig[i].pair <= placed /\ trig[i].hasSib
  BY <1>2 DEF PairsInv, Armed, Triggers
<1>6. \A i \in TriggerIds \ {tp, sl} : Armed(i)' => Armed(i) /\ trig'[i] = trig[i]
  BY <1>3 DEF Armed
<1>7. \A i \in TriggerIds : Armed(i)' => trig'[i].pair <= placed' /\ trig'[i].hasSib
  BY <1>1, <1>3, <1>4, <1>5, <1>6
<1>8. hist.legs[placed + 1] = 0
  BY <1>1 DEF PairsInv
<1>9. \A i \in TriggerIds : Armed(i)' /\ trig'[i].active => hist'.legs[trig'[i].pair] = 0
  <2>1. \A i \in TriggerIds \ {tp, sl} : Armed(i)' /\ trig'[i].active => hist'.legs[trig'[i].pair] = 0
    BY <1>2, <1>6 DEF PairsInv
  <2>2. hist'.legs[trig'[tp].pair] = 0 /\ hist'.legs[trig'[sl].pair] = 0
    BY <1>2, <1>3, <1>4, <1>8
  <2> QED BY <2>1, <2>2
<1>10. \A i, j \in TriggerIds :
         Armed(i)' /\ Armed(j)' /\ i # j /\ trig'[i].pair = trig'[j].pair => trig'[i].sib = j
  <2>1. \A i \in TriggerIds \ {tp, sl} : Armed(i)' => trig'[i].pair # placed + 1
    BY <1>1, <1>5, <1>6
  <2>2. \A i, j \in TriggerIds \ {tp, sl} :
         Armed(i)' /\ Armed(j)' /\ i # j /\ trig'[i].pair = trig'[j].pair => trig'[i].sib = j
    BY <1>6 DEF PairsInv
  <2>3. ASSUME NEW i \in TriggerIds, NEW j \in TriggerIds, Armed(i)', Armed(j)', i # j,
               trig'[i].pair = trig'[j].pair
        PROVE  trig'[i].sib = j
    <3>1. CASE i \in {tp, sl}
      <4>1. trig'[j].pair = placed + 1
        BY <1>3, <1>4, <2>3, <3>1
      <4>2. j \in {tp, sl}
        BY <2>1, <2>3, <4>1
      <4> QED BY <1>3, <1>4, <2>3, <3>1, <4>2
    <3>2. CASE j \in {tp, sl}
      <4>1. trig'[i].pair = placed + 1
        BY <1>3, <1>4, <2>3, <3>2
      <4>2. i \in {tp, sl}
        BY <2>1, <2>3, <4>1
      <4> QED BY <1>3, <1>4, <2>3, <3>2, <4>2
    <3>3. CASE i \notin {tp, sl} /\ j \notin {tp, sl}
      BY <2>2, <2>3, <3>3
    <3> QED BY <3>1, <3>2, <3>3
  <2> QED BY <2>3
<1>11. \A n \in 1..MaxPlaced : hist'.legs[n] <= 1 /\ (n > placed' => hist'.legs[n] = 0)
  BY <1>1, <1>2 DEF PairsInv
<1> QED BY <1>7, <1>9, <1>10, <1>11 DEF PairsInv

LEMMA PairBound ==
    ASSUME PairsInv, Typed, ConditionalAssumption, NEW i \in TriggerIds, Armed(i)
    PROVE  trig[i].pair \in 1..MaxPlaced
<1> DEFINE t == trig[i]
<1>1. t # Closed /\ t.pair > 0
  BY DEF Armed
<1>2. t \in Triggers /\ placed \in Nat /\ MaxPlaced \in Nat /\ placed <= MaxPlaced
  BY <1>1, Fields
<1>3. t.pair <= placed
  BY DEF PairsInv
<1> HIDE DEF t
<1>4. t.pair \in Nat
  BY <1>2 DEF Triggers
<1> QED BY <1>1, <1>2, <1>3, <1>4 DEF t

LEMMA PairsFired ==
    ASSUME PairsInv, Typed, ConditionalAssumption, NEW id \in TriggerIds, NEW sid, NEW o,
           Fired(id, sid, o)
    PROVE  PairsInv'
<1> DEFINE n == trig[id].pair
           l == hist.legs
           m == hist'.legs
<1>1. placed' = placed /\ placed \in Nat /\ MaxPlaced \in Nat /\ placed <= MaxPlaced
  BY Fields DEF Fired
<1>2. trig[id] # Closed /\ trig[id].active /\ n \in Nat /\ (trig[id].hasSib => sid = trig[id].sib)
  BY DEF Fired, Triggers
<1>3. m = (IF n = 0 THEN l ELSE [l EXCEPT ![n] = l[n] + 1]) /\ l \in [1..MaxPlaced -> Nat]
  BY Fields DEF Fired, CountLeg
<1>4. n > 0 => n \in 1..MaxPlaced /\ l[n] = 0 /\ trig[id].hasSib
  <2>1. n > 0 => Armed(id)
    BY <1>2 DEF Armed
  <2>2. n > 0 => n <= placed /\ l[n] = 0 /\ trig[id].hasSib
    BY <1>2, <2>1 DEF PairsInv
  <2> HIDE DEF n
  <2> QED BY <1>1, <1>2, <2>2
<1>5. \A i \in TriggerIds : Armed(i)' =>
        /\ Armed(i) /\ trig'[i].pair = trig[i].pair /\ trig'[i].sib = trig[i].sib
        /\ trig'[i].hasSib <=> trig[i].hasSib
        /\ trig'[i].active => trig[i].active /\ i # id /\ (trig[id].hasSib => i # sid)
  <2>1. SUFFICES ASSUME NEW i \in TriggerIds, Armed(i)'
                 PROVE  /\ Armed(i) /\ trig'[i].pair = trig[i].pair /\ trig'[i].sib = trig[i].sib
                        /\ trig'[i].hasSib <=> trig[i].hasSib
                        /\ trig'[i].active => trig[i].active /\ i # id /\ (trig[id].hasSib => i # sid)
    OBVIOUS
  <2>2. trig'[i] # Closed /\ trig'[i].pair > 0
    BY <2>1 DEF Armed
  <2>3. /\ trig[i] # Closed /\ trig'[i].pair = trig[i].pair /\ trig'[i].sib = trig[i].sib
        /\ trig'[i].hasSib <=> trig[i].hasSib
        /\ trig'[i].active => trig[i].active
        /\ trig'[i].active => i # id /\ (trig[id].hasSib => i # sid)
    <3>1. Disarmed(i, id, sid)
      BY <2>1, DisarmFacts
    <3> QED BY <2>2, <3>1 DEF Disarmed
  <2>4. Armed(i)
    BY <2>2, <2>3 DEF Armed
  <2> QED BY <2>3, <2>4
<1>6. \A i \in TriggerIds : Armed(i)' => trig'[i].pair <= placed' /\ trig'[i].hasSib
  BY <1>1, <1>5 DEF PairsInv
<1>7. \A i, j \in TriggerIds :
         Armed(i)' /\ Armed(j)' /\ i # j /\ trig'[i].pair = trig'[j].pair => trig'[i].sib = j
  BY <1>5 DEF PairsInv
<1>8. ASSUME NEW i \in TriggerIds, Armed(i)', trig'[i].active
      PROVE  trig[i].pair # n /\ l[trig[i].pair] = 0
  <2>1. Armed(i) /\ trig[i].active /\ i # id /\ (trig[id].hasSib => i # sid)
    BY <1>5, <1>8
  <2>2. l[trig[i].pair] = 0
    BY <2>1 DEF PairsInv
  <2>3. trig[i].pair = n => FALSE
    <3>1. trig[i].pair = n => Armed(id)
      BY <1>2, <2>1 DEF Armed
    <3>2. trig[i].pair = n => trig[id].sib = i
      BY <2>1, <3>1 DEF PairsInv
    <3> QED BY <1>2, <1>4, <2>1, <3>1, <3>2 DEF Armed
  <2> QED BY <2>2, <2>3
<1>9. \A i \in TriggerIds : Armed(i)' /\ trig'[i].active => m[trig'[i].pair] = 0
  <2>2. \A k \in 1..MaxPlaced : k # n => m[k] = l[k]
    BY <1>3
  <2>3. \A i \in TriggerIds : Armed(i) => trig[i].pair \in 1..MaxPlaced
    BY PairBound
  <2> HIDE DEF m, l, n
  <2> QED BY <1>5, <1>8, <2>2, <2>3
<1>10. \A k \in 1..MaxPlaced : m[k] <= 1 /\ (k > placed' => m[k] = 0)
  <2>1. \A k \in 1..MaxPlaced : l[k] <= 1 /\ (k > placed => l[k] = 0)
    BY DEF PairsInv
  <2>2. n > 0 => n <= placed
    BY <1>2 DEF PairsInv, Armed
  <2> HIDE DEF m, l, n
  <2> QED BY <1>1, <1>2, <1>3, <1>4, <2>1, <2>2
<1> QED BY <1>6, <1>7, <1>9, <1>10 DEF PairsInv

-----------------------------------------------------------------------------
(* TWAPs.  The clock of an account is the slot of its last slice.          *)
LastKept(w) == w.slices = <<>> \/ w.last = w.slices[Len(w.slices)].slot

TwapInv == \A id \in TwapIds : twap[id] # Closed => Paced(twap[id]) /\ LastKept(twap[id])

LEMMA OneMoreInterval ==
    ASSUME NEW k \in Int, NEW d \in Int
    PROVE  (k + 1) * d = k * d + d
OBVIOUS

(* a is an earlier slice, b the last one, c the new one, k steps apart.    *)
LEMMA GapGrows ==
    ASSUME NEW a \in Nat, NEW b \in Nat, NEW c \in Nat, NEW k \in Nat, NEW d \in Nat,
           b - a >= k * d, c >= b + d
    PROVE  c - a >= (k + 1) * d
<1>1. (k + 1) * d = k * d + d
  BY OneMoreInterval
<1> DEFINE p == k * d
<1>2. p \in Int /\ b - a >= p
  OBVIOUS
<1> HIDE DEF p
<1>3. c - a >= p + d
  BY <1>2
<1> QED BY <1>1, <1>3 DEF p

LEMMA AppendFacts ==
    ASSUME NEW T, NEW s \in Seq(T), NEW e, e \in T, NEW t, t = Append(s, e)
    PROVE  /\ Len(s) \in Nat /\ DOMAIN s = 1..Len(s) /\ DOMAIN t = 1..(Len(s) + 1)
           /\ \A i \in 1..Len(s) : t[i] = s[i]
           /\ t[Len(s) + 1] = e /\ Len(t) = Len(s) + 1 /\ t # <<>>
OBVIOUS

LEMMA SlicedGaps ==
    ASSUME NEW s \in Seq(Slices), NEW d \in Nat, NEW e \in Slices, NEW t, t = Append(s, e),
           \A i, j \in DOMAIN s : i < j => s[j].slot - s[i].slot >= (j - i) * d,
           s = <<>> \/ e.slot >= s[Len(s)].slot + d
    PROVE  \A i, j \in DOMAIN t : i < j => t[j].slot - t[i].slot >= (j - i) * d
<1> DEFINE n == Len(s)
<1>1. /\ n \in Nat /\ DOMAIN s = 1..n /\ DOMAIN t = 1..(n + 1)
      /\ \A i \in 1..n : t[i] = s[i]
      /\ t[n + 1] = e
  BY AppendFacts
<1>2. \A i \in 1..n : s[i].slot \in Nat
  <2>1. \A i \in 1..n : s[i] \in Slices
    OBVIOUS
  <2> QED BY <2>1 DEF Slices
<1>3. s = <<>> => n = 0
  OBVIOUS
<1> HIDE DEF n
<1>4. SUFFICES ASSUME NEW i \in DOMAIN t, NEW j \in DOMAIN t, i < j
               PROVE  t[j].slot - t[i].slot >= (j - i) * d
  OBVIOUS
<1>5. CASE j \in 1..n
  <2>1. i \in 1..n
    BY <1>1, <1>4, <1>5
  <2> QED BY <1>1, <1>4, <1>5, <2>1
<1>6. CASE j = n + 1
  <2> DEFINE a == s[i].slot
             b == s[n].slot
             c == e.slot
             k == n - i
  <2>1. i \in 1..n /\ n \in 1..n /\ n # 0 /\ s # <<>>
    BY <1>1, <1>3, <1>4, <1>6
  <2>2. a \in Nat /\ b \in Nat /\ c \in Nat /\ k \in Nat
    <3>1. c \in Nat
      BY DEF Slices
    <3> QED BY <1>1, <1>2, <2>1, <3>1
  <2>3. c >= b + d
    BY <2>1 DEF n
  <2>4. b - a >= k * d
    <3>1. CASE i < n
      BY <1>1, <2>1, <3>1
    <3>2. CASE i = n
      <4>1. k = 0 /\ b - a = 0
        BY <1>1, <2>2, <3>2
      <4>2. 0 * d = 0
        OBVIOUS
      <4> QED BY <4>1, <4>2
    <3> QED BY <1>1, <2>1, <3>1, <3>2
  <2>5. t[i].slot = a /\ t[j].slot = c /\ j - i = k + 1
    BY <1>1, <1>6, <2>1
  <2> HIDE DEF a, b, c, k
  <2>6. c - a >= (k + 1) * d
    BY <2>2, <2>3, <2>4, GapGrows
  <2> QED BY <2>5, <2>6
<1> QED BY <1>1, <1>5, <1>6

LEMMA SlicedLots ==
    ASSUME NEW s \in Seq(Slices), NEW e \in Slices, NEW t, t = Append(s, e)
    PROVE  LotsSliced(t) = LotsSliced(s) + e.lots /\ LotsSliced(s) \in Nat
<1> DEFINE n == Len(s)
           f == [i \in 1..n |-> s[i].lots]
           g == [i \in 1..(n + 1) |-> t[i].lots]
<1>1. /\ n \in Nat /\ DOMAIN s = 1..n /\ DOMAIN t = 1..(n + 1)
      /\ \A i \in 1..n : t[i] = s[i]
      /\ t[n + 1] = e
  BY AppendFacts
<1>2. e.lots \in Nat /\ \A i \in 1..n : s[i].lots \in Nat
  <2>1. \A i \in 1..n : s[i] \in Slices
    OBVIOUS
  <2> QED BY <2>1 DEF Slices
<1>3. LotsSliced(s) = SumFunctionOnSet(f, 1..n) /\ LotsSliced(t) = SumFunctionOnSet(g, 1..(n + 1))
  BY <1>1 DEF LotsSliced
<1> HIDE DEF n
<1>4. (\A i \in 1..n : f[i] \in Nat /\ f[i] = g[i]) /\ g[n + 1] = e.lots
  BY <1>1, <1>2
<1>5. \A i \in 1..(n + 1) : g[i] \in Int
  BY <1>1, <1>2
<1> HIDE DEF f, g
<1>6. IsFiniteSet(1..n)
  BY <1>1, FS_Interval
<1>7. SumFunctionOnSet(g, 1..(n + 1)) = SumFunctionOnSet(g, 1..n) + g[n + 1]
  BY <1>1, <1>5, SumNext
<1>8. SumFunctionOnSet(f, 1..n) = SumFunctionOnSet(g, 1..n)
  BY <1>4, <1>6, SumCongruent
<1>9. SumFunctionOnSet(f, 1..n) \in Nat
  BY <1>4, <1>6, SumNat
<1> QED BY <1>3, <1>4, <1>7, <1>8, <1>9

LEMMA PacedNext ==
    ASSUME NEW w \in Twaps, Paced(w), LastKept(w), now \in Nat, NEW lots, lots \in Nat,
           lots <= w.slice, w.executed + lots <= w.total, w.end = 0 \/ now <= w.end,
           now >= w.last + w.interval, NEW x, Sliced(w, lots, x)
    PROVE  Paced(x) /\ LastKept(x)
<1> DEFINE s == w.slices
           t == x.slices
           e == [slot |-> now, lots |-> lots]
           d == w.interval
<1>1. s \in Seq(Slices) /\ d \in Nat /\ e \in Slices /\ w.executed \in Nat
  BY DEF Twaps, Slices
<1>2. /\ t = Append(s, e) /\ x.slice = w.slice /\ x.total = w.total /\ x.interval = d
      /\ x.end = w.end /\ x.executed = w.executed + lots /\ x.last = now
  BY DEF Sliced
<1>3. e.slot = now /\ e.lots = lots
  OBVIOUS
<1>4. /\ \A i, j \in DOMAIN s : i < j => s[j].slot - s[i].slot >= (j - i) * d
      /\ \A i \in DOMAIN s : s[i].lots <= w.slice /\ (w.end = 0 \/ s[i].slot <= w.end)
      /\ LotsSliced(s) = w.executed
  BY DEF Paced
<1>5. s = <<>> \/ e.slot >= s[Len(s)].slot + d
  BY <1>3 DEF LastKept
<1> HIDE DEF s, t, e, d
<1>6. \A i, j \in DOMAIN t : i < j => t[j].slot - t[i].slot >= (j - i) * d
  BY <1>1, <1>2, <1>4, <1>5, SlicedGaps
<1>7. /\ DOMAIN t = 1..(Len(s) + 1) /\ DOMAIN s = 1..Len(s) /\ Len(s) \in Nat /\ Len(t) = Len(s) + 1
      /\ \A i \in 1..Len(s) : t[i] = s[i]
      /\ t[Len(s) + 1] = e /\ t # <<>>
  BY <1>1, <1>2, AppendFacts
<1>8. \A i \in DOMAIN t : t[i].lots <= w.slice /\ (w.end = 0 \/ t[i].slot <= w.end)
  BY <1>3, <1>4, <1>7
<1>9. LotsSliced(t) = w.executed + lots
  BY <1>1, <1>2, <1>3, <1>4, SlicedLots
<1>10. Paced(x)
  BY <1>2, <1>6, <1>8, <1>9 DEF Paced, t
<1>11. LastKept(x)
  BY <1>2, <1>3, <1>7 DEF LastKept, t
<1> QED BY <1>10, <1>11

LEMMA NewPaced ==
    ASSUME NEW w \in TwapTerms, ConditionalAssumption
    PROVE  Paced(NewTwap(w)) /\ LastKept(NewTwap(w))
<1> DEFINE x == NewTwap(w)
           f == [i \in DOMAIN <<>> |-> (<<>>)[i].lots]
<1>1. x.slices = <<>> /\ x.executed = 0 /\ x.total = w.total
  BY DEF NewTwap
<1>2. w.total \in Nat
  BY TermsTyped
<1>3. DOMAIN <<>> = {}
  OBVIOUS
<1>4. LotsSliced(<<>>) = SumFunctionOnSet(f, {})
  BY <1>3 DEF LotsSliced
<1> HIDE DEF f
<1>5. LotsSliced(<<>>) = 0
  BY <1>4, SumEmpty
<1> HIDE DEF x
<1> QED BY <1>1, <1>2, <1>3, <1>5 DEF Paced, LastKept, x

LEMMA TwapSet ==
    ASSUME TwapInv, Typed, NEW id \in TwapIds, NEW x, twap' = [twap EXCEPT ![id] = x],
           x = Closed \/ (Paced(x) /\ LastKept(x))
    PROVE  TwapInv'
<1>1. twap \in [TwapIds -> Twaps \cup {Closed}]
  BY DEF Typed
<1>2. twap'[id] = x /\ \A i \in TwapIds \ {id} : twap'[i] = twap[i]
  BY <1>1
<1>3. \A y : (Paced(y)' <=> Paced(y)) /\ (LastKept(y)' <=> LastKept(y))
  BY DEF Paced, LastKept, LotsSliced
<1> QED BY <1>2, <1>3 DEF TwapInv

-----------------------------------------------------------------------------
(* Icebergs.  An order that bears the number of an open iceberg is its     *)
(* last chunk, so replenishing finds it as long as it is on the book.      *)
Shows(o, i) ==
    /\ o.seq = i.child /\ o.side = i.side /\ o.px = i.limit
    /\ o.size <= i.shown /\ o.size + i.remaining <= i.total

Chunks(b, n) == {o \in b : o.tag = Tag("ice", n)}

IceInv ==
    /\ \A o \in book : o.tag.kind = "ice" => o.tag.n <= placed
    /\ \A id \in IcebergIds : ice[id] # Closed =>
         /\ ice[id].n <= placed /\ ice[id].remaining <= ice[id].total
         /\ \A o \in Chunks(book, ice[id].n) : Shows(o, ice[id])
    /\ \A i, j \in IcebergIds : ice[i] # Closed /\ ice[j] # Closed /\ ice[i].n = ice[j].n => i = j

(* p is what is left of o.                                                 *)
LeftOf(p, o) ==
    p.tag = o.tag /\ p.seq = o.seq /\ p.side = o.side /\ p.px = o.px /\ p.size <= o.size

LEMMA LeftShows ==
    ASSUME NEW o \in Orders, NEW p \in Orders, LeftOf(p, o), NEW i \in Icebergs, Shows(o, i)
    PROVE  Shows(p, i)
<1>1. /\ o.size \in Nat /\ p.size \in Nat /\ i.shown \in Nat /\ i.remaining \in Nat /\ i.total \in Nat
  BY DEF Orders, Icebergs
<1> QED BY <1>1 DEF LeftOf, Shows

LEMMA IceKept ==
    ASSUME IceInv, Typed, Typed', ConditionalAssumption, placed' >= placed,
           \A id \in IcebergIds : ice'[id] = ice[id] \/ ice'[id] = Closed,
           \A p \in book' : p.tag.kind = "ice" => \E o \in book : LeftOf(p, o)
    PROVE  IceInv'
<1>1. placed \in Nat /\ placed' \in Nat
  BY DEF Typed
<1>2. (\A o \in book : o \in Orders) /\ (\A p \in book' : p \in Orders)
  BY DEF Typed, BookTyped
<1>3. \A p \in book' : p.tag.kind = "ice" => p.tag.n \in Nat /\ p.tag.n <= placed
  BY <1>2 DEF IceInv, LeftOf, Orders, Tags
<1>4. \A p \in book' : p.tag.kind = "ice" => p.tag.n <= placed'
  BY <1>1, <1>3
<1>5. ASSUME NEW id \in IcebergIds, ice'[id] # Closed
      PROVE  /\ ice'[id].n <= placed' /\ ice'[id].remaining <= ice'[id].total
             /\ \A p \in Chunks(book', ice'[id].n) : Shows(p, ice'[id])
  <2> DEFINE i == ice[id]
  <2>1. ice'[id] = i /\ i # Closed
    BY <1>5
  <2>2. i \in Icebergs
    BY <2>1, Fields
  <2>3. i.n <= placed /\ i.remaining <= i.total /\ \A o \in Chunks(book, i.n) : Shows(o, i)
    BY <2>1 DEF IceInv
  <2>4. i.n <= placed'
    BY <1>1, <2>2, <2>3 DEF Icebergs
  <2>5. ASSUME NEW p \in Chunks(book', i.n) PROVE Shows(p, i)
    <3> DEFINE g == Tag("ice", i.n)
    <3>1. p \in book' /\ p.tag = g
      BY DEF Chunks
    <3>2. g.kind = "ice"
      BY DEF Tag
    <3> HIDE DEF g
    <3>3. PICK o \in book : LeftOf(p, o)
      BY <3>1, <3>2
    <3>4. o.tag = g
      BY <3>1, <3>3 DEF LeftOf
    <3>5. o \in Chunks(book, i.n)
      BY <3>4 DEF Chunks, g
    <3>6. Shows(o, i)
      BY <2>3, <3>5
    <3> HIDE DEF i
    <3> QED BY <1>2, <2>2, <3>1, <3>3, <3>6, LeftShows
  <2> HIDE DEF i
  <2> QED BY <2>1, <2>3, <2>4, <2>5
<1>6. \A i, j \in IcebergIds :
        ice'[i] # Closed /\ ice'[j] # Closed /\ ice'[i].n = ice'[j].n => i = j
  BY DEF IceInv
<1>7. \A id \in IcebergIds : ice'[id] # Closed =>
        /\ ice'[id].n <= placed' /\ ice'[id].remaining <= ice'[id].total
        /\ \A p \in Chunks(book', ice'[id].n) : Shows(p, ice'[id])
  BY <1>5
<1> QED BY <1>4, <1>6, <1>7 DEF IceInv

LEMMA TagInjective ==
    ASSUME NEW a, NEW b, Tag("ice", a) = Tag("ice", b)
    PROVE  a = b
<1>1. Tag("ice", a).n = a /\ Tag("ice", b).n = b
  BY DEF Tag
<1> QED BY <1>1

(* A chunk of an iceberg whose earlier chunks have left the book.          *)
LEMMA IceChunk ==
    ASSUME IceInv, Typed, ConditionalAssumption, NEW id \in IcebergIds, NEW o, NEW x, Chunk(id, o, x),
           placed' \in Nat, placed' >= placed, x.n <= placed', Chunks(book, x.n) = {},
           o.size + x.remaining <= x.total,
           \A i \in IcebergIds \ {id} : ice[i] # Closed => ice[i].n # x.n
    PROVE  IceInv'
<1>1. /\ o \in Orders /\ book' = book \cup {o} /\ o.tag = Tag("ice", x.n) /\ o.seq = seq + 1
      /\ x \in Icebergs /\ x.child = seq + 1 /\ o.side = x.side /\ o.px = x.limit /\ o.size <= x.shown
      /\ ice' = [ice EXCEPT ![id] = x]
  BY DEF Chunk, Arrived
<1>2. ice \in [IcebergIds -> Icebergs \cup {Closed}] /\ placed \in Nat
  BY DEF Typed
<1>3. ice'[id] = x /\ \A i \in IcebergIds \ {id} : ice'[i] = ice[i]
  BY <1>1, <1>2
<1>4. Tag("ice", x.n).n = x.n /\ Tag("ice", x.n).kind = "ice"
  BY DEF Tag
<1>5. \A p \in book' : p.tag.kind = "ice" => p.tag.n <= placed'
  <2>1. \A p \in book : p.tag.kind = "ice" => p.tag.n \in Nat /\ p.tag.n <= placed
    BY DEF IceInv, Typed, BookTyped, Orders, Tags
  <2> QED BY <1>1, <1>2, <1>4, <2>1
<1>6. x.n \in Nat /\ x.remaining \in Nat /\ x.total \in Nat /\ o.size \in Nat
  BY <1>1 DEF Icebergs, Orders
<1>7. x.remaining <= x.total
  BY <1>6
<1>8. Chunks(book', x.n) = {o}
  <2>1. Chunks(book', x.n) = {p \in book \cup {o} : p.tag = Tag("ice", x.n)}
    BY <1>1 DEF Chunks, Tag
  <2> QED BY <1>1, <2>1 DEF Chunks
<1>9. Shows(o, x)
  BY <1>1 DEF Shows
<1>10. ASSUME NEW i \in IcebergIds, i # id, ice'[i] # Closed
       PROVE  /\ ice'[i].n <= placed' /\ ice'[i].remaining <= ice'[i].total /\ ice'[i].n # x.n
              /\ \A p \in Chunks(book', ice'[i].n) : Shows(p, ice'[i])
  <2> DEFINE y == ice[i]
  <2>1. ice'[i] = y /\ y # Closed /\ y.n # x.n
    BY <1>3, <1>10
  <2>2. y \in Icebergs
    BY <2>1, Fields
  <2>3. y.n <= placed /\ y.remaining <= y.total /\ \A p \in Chunks(book, y.n) : Shows(p, y)
    BY <2>1 DEF IceInv
  <2>4. y.n <= placed'
    BY <1>2, <2>2, <2>3 DEF Icebergs
  <2>5. o.tag # Tag("ice", y.n)
    BY <1>1, <2>1, TagInjective
  <2>6. Chunks(book', y.n) = {p \in book \cup {o} : p.tag = Tag("ice", y.n)}
    BY <1>1, <2>1 DEF Chunks, Tag
  <2>7. Chunks(book', y.n) = Chunks(book, y.n)
    BY <2>5, <2>6 DEF Chunks
  <2> HIDE DEF y
  <2> QED BY <2>1, <2>3, <2>4, <2>7
<1>11. \A i \in IcebergIds : ice'[i] # Closed =>
        /\ ice'[i].n <= placed' /\ ice'[i].remaining <= ice'[i].total
        /\ \A p \in Chunks(book', ice'[i].n) : Shows(p, ice'[i])
  BY <1>3, <1>7, <1>8, <1>9, <1>10
<1>13. \A i, j \in IcebergIds :
        ice'[i] # Closed /\ ice'[j] # Closed /\ ice'[i].n = ice'[j].n => i = j
  <2>1. \A i, j \in IcebergIds \ {id} :
          ice'[i] # Closed /\ ice'[j] # Closed /\ ice'[i].n = ice'[j].n => i = j
    BY <1>3 DEF IceInv
  <2> QED BY <1>3, <1>10, <2>1
<1> QED BY <1>5, <1>11, <1>13 DEF IceInv

LEMMA IceFirst ==
    ASSUME IceInv, Typed, ConditionalAssumption, NEW id \in IcebergIds, NEW o, NEW x,
           FirstChunk(id, o, x)
    PROVE  IceInv'
<1>1. /\ Chunk(id, o, x) /\ x.n = placed + 1 /\ placed' = placed + 1
      /\ o.size + x.remaining <= x.total
  BY DEF FirstChunk
<1>2. placed \in Nat
  BY Fields
<1>3. Chunks(book, x.n) = {}
  <2>1. ASSUME NEW p \in Chunks(book, x.n) PROVE FALSE
    <3>1. p \in book /\ p.tag = Tag("ice", x.n)
      BY DEF Chunks
    <3>2. p.tag.kind = "ice" /\ p.tag.n = placed + 1
      BY <1>1, <3>1 DEF Tag
    <3>3. p.tag.n <= placed
      BY <3>1, <3>2 DEF IceInv
    <3> QED BY <1>2, <3>2, <3>3
  <2> QED BY <2>1
<1>4. \A i \in IcebergIds \ {id} : ice[i] # Closed => ice[i].n # x.n
  <2>1. \A i \in IcebergIds : ice[i] # Closed => ice[i].n <= placed
    BY DEF IceInv
  <2> QED BY <1>1, <1>2, <2>1
<1>5. placed' \in Nat /\ placed' >= placed /\ x.n <= placed'
  BY <1>1, <1>2
<1> QED BY <1>1, <1>3, <1>4, <1>5, IceChunk

LEMMA IceNext ==
    ASSUME IceInv, Typed, ConditionalAssumption, NEW id \in IcebergIds, NEW o, NEW x,
           NextChunk(id, o, x)
    PROVE  IceInv'
<1> DEFINE i == ice[id]
<1>1. /\ Chunk(id, o, x) /\ x.n = i.n /\ x.total = i.total /\ placed' = placed
      /\ o.size + x.remaining = i.remaining /\ i # Closed /\ ChildGone(i)
  BY DEF NextChunk
<1>2. placed \in Nat
  BY Fields
<1>3. i.n <= placed /\ i.remaining <= i.total /\ \A p \in Chunks(book, i.n) : Shows(p, i)
  BY <1>1 DEF IceInv
<1>4. Chunks(book, x.n) = {}
  <2>1. ASSUME NEW p \in Chunks(book, x.n) PROVE FALSE
    <3>1. p \in book /\ Shows(p, i)
      BY <1>1, <1>3 DEF Chunks
    <3> QED BY <1>1, <3>1 DEF ChildGone, Shows
  <2> QED BY <2>1
<1>5. \A j \in IcebergIds \ {id} : ice[j] # Closed => ice[j].n # x.n
  BY <1>1 DEF IceInv
<1>6. o.size + x.remaining <= x.total
  BY <1>1, <1>3
<1>7. placed' \in Nat /\ placed' >= placed /\ x.n <= placed'
  BY <1>1, <1>2, <1>3
<1> QED BY <1>1, <1>4, <1>5, <1>6, <1>7, IceChunk

(* A set with at most one order has at most its size.                      *)
LEMMA LotsOne ==
    ASSUME BookTyped, NEW S, S \subseteq book, \A o, p \in S : o = p, S # {}
    PROVE  \E o \in S : LotsOf(S) = o.size
<1>1. PICK o \in S : S = {o}
  OBVIOUS
<1>2. o \in Orders
  BY DEF BookTyped
<1>3. LotsOf(S) = LotsOf({}) + o.size
  BY <1>1, <1>2, LotsWith
<1>4. LotsOf({}) = 0
  BY SumEmpty DEF LotsOf
<1>5. o.size \in Nat
  BY <1>2 DEF Orders
<1> QED BY <1>3, <1>4, <1>5

LEMMA IceInvHides ==
    ASSUME IceInv, Typed, ConditionalAssumption
    PROVE  IcebergHidden
<1> SUFFICES ASSUME NEW id \in IcebergIds, ice[id] # Closed
             PROVE  /\ LotsOf(Chunks(book, ice[id].n)) <= ice[id].shown
                    /\ LotsOf(Chunks(book, ice[id].n)) + ice[id].remaining <= ice[id].total
  BY DEF IcebergHidden, Chunks
<1> DEFINE i == ice[id]
           S == Chunks(book, i.n)
<1>1. BookTyped /\ i \in Icebergs
  BY Fields
<1>2. S \subseteq book /\ i.remaining <= i.total /\ \A p \in S : Shows(p, i)
  BY DEF IceInv, Chunks
<1>3. i.shown \in Nat /\ i.remaining \in Nat /\ i.total \in Nat
  BY <1>1 DEF Icebergs
<1> HIDE DEF S, i
<1>4. CASE S = {}
  <2>1. LotsOf(S) = 0
    BY <1>4, SumEmpty DEF LotsOf
  <2>2. LotsOf(S) <= i.shown /\ LotsOf(S) + i.remaining <= i.total
    BY <1>2, <1>3, <2>1
  <2> QED BY <2>2 DEF i, S
<1>5. CASE S # {}
  <2>1. \A o, p \in S : o = p
    BY <1>1, <1>2 DEF Shows, BookTyped
  <2>2. PICK o \in S : LotsOf(S) = o.size
    BY <1>1, <1>2, <1>5, <2>1, LotsOne
  <2>3. o.size <= i.shown /\ o.size + i.remaining <= i.total
    BY <1>2 DEF Shows
  <2> QED BY <2>2, <2>3 DEF i, S
<1> QED BY <1>4, <1>5

-----------------------------------------------------------------------------
(* Fills.  While only exits wait, all of them reduce the position and      *)
(* together they do not exceed it.                                         *)
FlightOf(q) == SumFunctionOnSet(ReducingLots(q), DOMAIN q)
ExitLots(f) == IF f.ro THEN Abs(f.lots) ELSE 0
Reduces(p, f) == (p > 0 /\ f.lots < 0) \/ (p < 0 /\ f.lots > 0)
NoExits(q) == \A k \in DOMAIN q : ~q[k].ro
OnlyExits(p, q) == \A k \in DOMAIN q : q[k].ro /\ Reduces(p, q[k])

FillInv == hist.mixed \/ NoExits(queue) \/ (OnlyExits(pos, queue) /\ FlightOf(queue) <= Abs(pos))

LEMMA ExitLotsNat == ASSUME NEW f \in Fills PROVE ExitLots(f) \in Nat
<1>1. f.lots \in Int
  BY DEF Fills
<1> QED BY <1>1, AbsNat DEF ExitLots

LEMMA FlightFacts ==
    ASSUME NEW q \in Seq(Fills)
    PROVE  FlightOf(q) \in Nat /\ \A k \in DOMAIN q : ExitLots(q[k]) <= FlightOf(q)
<1> DEFINE n == Len(q)
           r == ReducingLots(q)
<1>1. n \in Nat /\ DOMAIN q = 1..n /\ \A k \in 1..n : q[k] \in Fills
  OBVIOUS
<1>2. \A k \in DOMAIN q : r[k] = ExitLots(q[k])
  BY DEF ReducingLots, ExitLots
<1>3. FlightOf(q) = SumFunctionOnSet(r, 1..n)
  BY <1>1 DEF FlightOf
<1> HIDE DEF r, n
<1>4. \A k \in 1..n : r[k] \in Nat
  BY <1>1, <1>2, ExitLotsNat
<1>5. IsFiniteSet(1..n)
  BY <1>1, FS_Interval
<1>6. SumFunctionOnSet(r, 1..n) \in Nat /\ \A k \in 1..n : r[k] <= SumFunctionOnSet(r, 1..n)
  BY <1>4, <1>5, SumNat
<1> QED BY <1>1, <1>2, <1>3, <1>6

LEMMA FlightAppend ==
    ASSUME NEW q \in Seq(Fills), NEW f \in Fills, NEW t, t = Append(q, f)
    PROVE  FlightOf(t) = FlightOf(q) + ExitLots(f)
<1> DEFINE n == Len(q)
           r == ReducingLots(q)
           s == ReducingLots(t)
<1>1. /\ n \in Nat /\ DOMAIN q = 1..n /\ DOMAIN t = 1..(n + 1) /\ t[n + 1] = f
      /\ \A k \in 1..n : t[k] = q[k]
  BY AppendFacts
<1>2. \A k \in 1..n : q[k] \in Fills
  OBVIOUS
<1>3. (\A k \in 1..n : r[k] = ExitLots(q[k])) /\ (\A k \in 1..(n + 1) : s[k] = ExitLots(t[k]))
  BY <1>1 DEF ReducingLots, ExitLots
<1>4. FlightOf(q) = SumFunctionOnSet(r, 1..n) /\ FlightOf(t) = SumFunctionOnSet(s, 1..(n + 1))
  BY <1>1 DEF FlightOf
<1> HIDE DEF n, r, s
<1>5. (\A k \in 1..n : r[k] = s[k]) /\ s[n + 1] = ExitLots(f)
  BY <1>1, <1>3
<1>6. \A k \in 1..(n + 1) : s[k] \in Int
  <2>1. \A k \in 1..(n + 1) : t[k] \in Fills
    BY <1>1, <1>2
  <2>2. \A g \in Fills : ExitLots(g) \in Int
    BY ExitLotsNat
  <2>3. \A k \in 1..(n + 1) : s[k] = ExitLots(t[k])
    BY <1>3
  <2> QED BY <2>1, <2>2, <2>3
<1>7. IsFiniteSet(1..n)
  BY <1>1, FS_Interval
<1>8. SumFunctionOnSet(r, 1..n) = SumFunctionOnSet(s, 1..n)
  BY <1>5, <1>7, SumCongruent
<1>9. SumFunctionOnSet(s, 1..(n + 1)) = SumFunctionOnSet(s, 1..n) + s[n + 1]
  BY <1>1, <1>6, SumNext
<1> QED BY <1>4, <1>5, <1>8, <1>9

LEMMA TailFacts ==
    ASSUME NEW T, NEW q \in Seq(T), q # <<>>, NEW t, t = Tail(q), NEW n, n = Len(t)
    PROVE  /\ n \in Nat /\ DOMAIN q = 1..(n + 1) /\ DOMAIN t = 1..n /\ Len(q) = n + 1
           /\ \A k \in 1..n : t[k] = q[k + 1]
           /\ Head(q) = q[1] /\ 1 \in DOMAIN q /\ t \in Seq(T)
OBVIOUS

LEMMA FlightTail ==
    ASSUME NEW q \in Seq(Fills), q # <<>>, NEW t, t = Tail(q)
    PROVE  FlightOf(q) = ExitLots(Head(q)) + FlightOf(t)
<1> DEFINE n == Len(t)
           r == ReducingLots(q)
           s == ReducingLots(t)
<1>1. /\ n \in Nat /\ DOMAIN q = 1..(n + 1) /\ DOMAIN t = 1..n
      /\ \A k \in 1..n : t[k] = q[k + 1]
      /\ Head(q) = q[1]
  BY TailFacts
<1>2. \A k \in 1..(n + 1) : q[k] \in Fills
  BY <1>1
<1>3. (\A k \in 1..(n + 1) : r[k] = ExitLots(q[k])) /\ (\A k \in 1..n : s[k] = ExitLots(t[k]))
  BY <1>1 DEF ReducingLots, ExitLots
<1>4. FlightOf(q) = SumFunctionOnSet(r, 1..(n + 1)) /\ FlightOf(t) = SumFunctionOnSet(s, 1..n)
  BY <1>1 DEF FlightOf
<1> HIDE DEF n, r, s
<1>5. \A k \in 1..(n + 1) : r[k] \in Int
  <2>1. \A k \in 1..(n + 1) : ExitLots(q[k]) \in Nat
    BY <1>2, ExitLotsNat
  <2> QED BY <1>3, <2>1
<1>6. \A k \in 1..n : s[k] = r[k + 1]
  <2>1. \A k \in 1..n : k + 1 \in 1..(n + 1)
    BY <1>1
  <2> QED BY <1>1, <1>3, <2>1
<1>7. SumFunctionOnSet(r, 1..(n + 1)) = r[1] + SumFunctionOnSet(s, 1..n)
  BY <1>1, <1>5, <1>6, SumShift
<1>8. r[1] = ExitLots(Head(q))
  <2>1. 1 \in 1..(n + 1)
    BY <1>1
  <2> QED BY <1>1, <1>3, <2>1
<1> QED BY <1>4, <1>7, <1>8

LEMMA FillKept ==
    ASSUME FillInv, UNCHANGED <<pos, queue>>, hist'.mixed = hist.mixed
    PROVE  FillInv'
BY DEF FillInv

(* A fill that reduces p and fits it moves p towards zero.                 *)
LEMMA ReduceStep ==
    ASSUME NEW p \in Int, NEW x \in Int, (p > 0 /\ x < 0) \/ (p < 0 /\ x > 0), Abs(x) <= Abs(p)
    PROVE  /\ Abs(p + x) + Abs(x) = Abs(p) /\ Abs(x) > 0
           /\ p > 0 => p + x >= 0
           /\ p < 0 => p + x <= 0
BY DEF Abs

LEMMA FillSettled ==
    ASSUME FillInv, Typed, SettledHead
    PROVE  FillInv' /\ SettledExitReduces
<1> DEFINE h == Head(queue)
           t == Tail(queue)
           n == Len(t)
           q == queue
<1>1. /\ q # <<>> /\ pos' = pos + h.lots /\ queue' = t
      /\ hist' = [legs |-> hist.legs, mixed |-> hist.mixed /\ Len(q) > 1]
  BY DEF SettledHead
<1>2. q \in Seq(Fills) /\ pos \in Int
  BY DEF Typed
<1>3. /\ n \in Nat /\ DOMAIN q = 1..(n + 1) /\ DOMAIN t = 1..n /\ Len(q) = n + 1
      /\ \A k \in 1..n : t[k] = q[k + 1]
      /\ h = q[1] /\ 1 \in DOMAIN q /\ t \in Seq(Fills)
  BY <1>1, <1>2, TailFacts
<1>4. h \in Fills /\ h.lots \in Int
  <2>1. h \in Fills
    BY <1>2, <1>3
  <2> QED BY <2>1 DEF Fills
<1>5. hist'.mixed <=> (hist.mixed /\ Len(q) > 1)
  BY <1>1
<1>6. FlightOf(q) = ExitLots(h) + FlightOf(t)
  BY <1>1, <1>2, FlightTail
<1>7. /\ FlightOf(t) \in Nat /\ ExitLots(h) \in Nat
      /\ \A k \in 1..n : ExitLots(t[k]) <= FlightOf(t)
  BY <1>3, <1>4, FlightFacts, ExitLotsNat
<1> HIDE DEF h, t, n, q
<1>8. CASE hist.mixed
  <2>1. CASE n = 0
    <3>1. NoExits(t)
      BY <1>3, <2>1 DEF NoExits
    <3> QED BY <1>1, <1>8, <3>1 DEF FillInv, SettledExitReduces
  <2>2. CASE n # 0
    <3>1. hist'.mixed
      BY <1>3, <1>5, <1>8, <2>2
    <3> QED BY <1>8, <3>1 DEF FillInv, SettledExitReduces
  <2> QED BY <2>1, <2>2
<1>9. CASE NoExits(q)
  <2>1. ~h.ro
    BY <1>3, <1>9 DEF NoExits
  <2>2. NoExits(t)
    <3>1. \A k \in 1..n : k + 1 \in 1..(n + 1)
      BY <1>3
    <3> QED BY <1>3, <1>9, <3>1 DEF NoExits
  <2> QED BY <1>1, <2>1, <2>2 DEF FillInv, SettledExitReduces, h
<1>10. CASE OnlyExits(pos, q) /\ FlightOf(q) <= Abs(pos)
  <2> DEFINE x == h.lots
             y == pos + h.lots
  <2>1. h.ro /\ Reduces(pos, h)
    BY <1>3, <1>10 DEF OnlyExits
  <2>2. ExitLots(h) = Abs(x)
    BY <2>1 DEF ExitLots
  <2>3. Abs(pos) \in Nat /\ Abs(x) \in Nat /\ Abs(y) \in Nat
    <3>1. pos \in Int /\ x \in Int /\ y \in Int
      BY <1>2, <1>4
    <3> HIDE DEF x, y
    <3> QED BY <3>1, AbsNat
  <2>4. Abs(x) <= Abs(pos)
    BY <1>6, <1>7, <1>10, <2>2, <2>3
  <2>5. (pos > 0 /\ x < 0) \/ (pos < 0 /\ x > 0)
    BY <2>1 DEF Reduces
  <2>6. x \in Int
    BY <1>4
  <2> HIDE DEF x
  <2>7. /\ Abs(pos + x) + Abs(x) = Abs(pos)
        /\ pos > 0 => pos + x >= 0
        /\ pos < 0 => pos + x <= 0
    BY <1>2, <2>4, <2>5, <2>6, ReduceStep
  <2>8. y = pos + x
    BY DEF x
  <2>9. FlightOf(t) <= Abs(y)
    BY <1>6, <1>7, <1>10, <2>2, <2>3, <2>7, <2>8
  <2>10. ASSUME NEW k \in DOMAIN t PROVE t[k].ro /\ Reduces(y, t[k])
    <3>1. k \in 1..n /\ k + 1 \in DOMAIN q /\ t[k] = q[k + 1]
      BY <1>3
    <3>2. t[k].ro /\ Reduces(pos, t[k])
      BY <1>10, <3>1 DEF OnlyExits
    <3>3. t[k].lots \in Int
      <4>1. t[k] \in Fills
        BY <1>3, <3>1
      <4> QED BY <4>1 DEF Fills
    <3>4. Abs(t[k].lots) <= Abs(y)
      <4>1. ExitLots(t[k]) = Abs(t[k].lots) /\ Abs(t[k].lots) \in Nat
        BY <3>2, <3>3, AbsNat DEF ExitLots
      <4> QED BY <1>7, <2>3, <2>9, <3>1, <4>1
    <3> DEFINE z == t[k].lots
    <3>5. z \in Int /\ z # 0 /\ Abs(z) <= Abs(y) /\ y \in Int
      BY <1>2, <1>4, <3>2, <3>3, <3>4 DEF Reduces
    <3> HIDE DEF z, y
    <3>6. y # 0
      BY <3>5 DEF Abs
    <3>7. (pos > 0 /\ z < 0) \/ (pos < 0 /\ z > 0)
      BY <3>2 DEF Reduces, z
    <3>8. (y > 0 /\ z < 0) \/ (y < 0 /\ z > 0)
      BY <1>2, <2>7, <2>8, <3>5, <3>6, <3>7
    <3> QED BY <3>2, <3>8 DEF Reduces, z
  <2>11. OnlyExits(y, t)
    BY <2>10 DEF OnlyExits
  <2>12. FillInv'
    BY <1>1, <2>9, <2>11 DEF FillInv
  <2>13. Abs(pos') + Abs(h.lots) = Abs(pos)
    BY <1>1, <2>7 DEF x
  <2> QED BY <2>12, <2>13 DEF SettledExitReduces, h
<1> QED BY <1>8, <1>9, <1>10 DEF FillInv, q

LEMMA FillCrossed ==
    ASSUME FillInv, Typed, NEW o, NEW n, NEW p, NEW f, Crossed(o, n, p, f)
    PROVE  FillInv'
<1> DEFINE q == queue
           t == Append(queue, f)
<1>1. /\ q \in Seq(Fills) /\ f \in Fills /\ queue' = t /\ pos' = pos /\ pos \in Int
      /\ n \in Nat \ {0} /\ f.lots = Signed(o.side, n) /\ f.ro = o.ro /\ o \in Orders
      /\ o.ro => n <= Reducible(o)
  BY DEF Typed, Crossed
<1>2. hist'.mixed <=> hist.mixed \/ \E k \in DOMAIN q : q[k].ro # f.ro
  BY DEF Crossed
<1>3. /\ Len(q) \in Nat /\ DOMAIN q = 1..Len(q) /\ DOMAIN t = 1..(Len(q) + 1) /\ t[Len(q) + 1] = f
      /\ \A k \in 1..Len(q) : t[k] = q[k]
  BY <1>1, AppendFacts
<1>4. FlightOf(t) = FlightOf(q) + ExitLots(f) /\ FlightOf(q) \in Nat
  BY <1>1, FlightAppend, FlightFacts
<1>5. InFlight = FlightOf(q)
  BY DEF InFlight, FlightOf
<1>6. f.ro \in BOOLEAN /\ \A k \in DOMAIN q : q[k].ro \in BOOLEAN
  <2>1. \A k \in DOMAIN q : q[k] \in Fills
    BY <1>1, <1>3
  <2> QED BY <1>1, <2>1 DEF Fills
<1> HIDE DEF q, t
<1>7. CASE hist'.mixed
  BY <1>7 DEF FillInv
<1>8. CASE ~hist'.mixed /\ ~f.ro
  <2>1. \A k \in DOMAIN q : ~q[k].ro
    BY <1>2, <1>6, <1>8
  <2>2. NoExits(t)
    BY <1>3, <1>8, <2>1 DEF NoExits
  <2> QED BY <1>1, <2>2 DEF FillInv
<1>9. CASE ~hist'.mixed /\ f.ro
  <2>1. ~hist.mixed /\ \A k \in DOMAIN q : q[k].ro
    BY <1>2, <1>6, <1>9
  <2>2. OnlyExits(pos, q)
    BY <2>1 DEF FillInv, NoExits, OnlyExits, q
  <2> DEFINE a == Abs(pos)
             c == FlightOf(q)
  <2>3. a \in Nat /\ c \in Nat /\ pos # 0 /\ PosSide # o.side /\ n <= SatSub(a, c)
    <3>1. n <= Reducible(o) /\ n > 0
      BY <1>1, <1>9
    <3>2. pos # 0 /\ PosSide # o.side
      BY <1>1, <3>1 DEF Reducible
    <3> QED BY <1>1, <1>4, <1>5, <3>1, <3>2, AbsNat DEF Reducible
  <2>4. c + n <= a
    <3> HIDE DEF a, c
    <3> QED BY <1>1, <2>3 DEF SatSub
  <2>5. o.side \in Sides
    BY <1>1 DEF Orders
  <2>6. Reduces(pos, f)
    BY <1>1, <2>3, <2>5 DEF Reduces, Signed, PosSide, Sides
  <2>7. ExitLots(f) = n
    BY <1>1, <1>9 DEF ExitLots, Signed, Abs
  <2>8. FlightOf(t) <= Abs(pos)
    BY <1>4, <2>4, <2>7
  <2>9. OnlyExits(pos, t)
    BY <1>3, <1>9, <2>2, <2>6 DEF OnlyExits
  <2> QED BY <1>1, <2>8, <2>9 DEF FillInv
<1> QED BY <1>7, <1>8, <1>9

-----------------------------------------------------------------------------
(* What never changes hands in a step that another part of the state makes.*)
LEMMA TwapKept == ASSUME TwapInv, twap' = twap PROVE TwapInv'
<1>1. \A y : (Paced(y)' <=> Paced(y)) /\ (LastKept(y)' <=> LastKept(y))
  BY DEF Paced, LastKept, LotsSliced
<1> QED BY <1>1 DEF TwapInv

LEMMA NothingSettled ==
    ASSUME Typed, queue' = queue \/ \E f \in Fills : queue' = Append(queue, f)
    PROVE  SettledExitReduces
<1>1. queue \in Seq(Fills)
  BY DEF Typed
<1>2. queue # <<>> => queue' # Tail(queue)
  <2>1. queue # <<>> => Len(Tail(queue)) < Len(queue)
    BY <1>1
  <2>2. \A f \in Fills : Len(Append(queue, f)) = Len(queue) + 1 /\ Len(queue) \in Nat
    BY <1>1
  <2> QED BY <2>1, <2>2
<1> QED BY <1>2 DEF SettledExitReduces

(* No order arrives but those of a plain kind.                             *)
BookQuiet == \A p \in book' : p \in book \/ p.tag = Plain

LEMMA QuietFits ==
    ASSUME Typed, BookQuiet
    PROVE  FiredExitsFit /\ \A p \in book' : p.tag.kind = "ice" => p \in book
<1>1. Plain.kind = "user"
  BY DEF Plain, Tag
<1>2. \A p \in book : p.seq \in 1..seq /\ seq \in Nat
  BY DEF Typed, BookTyped
<1>3. \A p \in book' : p.seq > seq => p.tag = Plain
  BY <1>2 DEF BookQuiet
<1> QED BY <1>1, <1>3 DEF FiredExitsFit, BookQuiet

LEMMA IceQuiet ==
    ASSUME IceInv, Typed, Typed', ConditionalAssumption, placed' >= placed, BookQuiet,
           \A id \in IcebergIds : ice'[id] = ice[id] \/ ice'[id] = Closed
    PROVE  IceInv'
<1>1. \A p \in book : LeftOf(p, p)
  <2>1. \A p \in book : p \in Orders
    BY DEF Typed, BookTyped
  <2>2. \A p \in book : p.size \in Nat
    BY <2>1 DEF Orders
  <2> QED BY <2>2 DEF LeftOf
<1>2. \A p \in book' : p.tag.kind = "ice" => \E o \in book : LeftOf(p, o)
  BY <1>1, QuietFits
<1> QED BY <1>2, IceKept

(* A fired exit fits beside what rests already.                            *)
LEMMA FiredFits ==
    ASSUME Typed, ConditionalAssumption, NEW id \in TriggerIds, NEW sid, NEW o, Fired(id, sid, o)
    PROVE  FiredExitsFit
<1> DEFINE S == {p \in book : p.ro /\ p.side = o.side}
           T == {p \in book' : p.ro /\ p.side = o.side}
<1>1. /\ o \in Orders /\ o \notin book /\ book' = book \cup {o}
      /\ \A p \in book' : p.seq > seq => p = o
      /\ o.ro => o.size + RestingExits(o.side) <= Abs(pos)
  BY DEF Fired, Arrived
<1>2. SUFFICES ASSUME o.ro PROVE LotsOf(T) <= Abs(pos)
  BY <1>1 DEF FiredExitsFit
<1>3. BookTyped /\ S \subseteq book /\ o \notin S /\ T = S \cup {o}
  BY <1>1, <1>2, Fields
<1>4. RestingExits(o.side) = LotsOf(S)
  BY DEF RestingExits
<1> HIDE DEF S, T
<1>5. LotsOf(T) = LotsOf(S) + o.size /\ LotsOf(S) \in Nat
  BY <1>1, <1>3, LotsWith, LotsFacts
<1>6. o.size \in Nat
  BY <1>1 DEF Orders
<1> QED BY <1>1, <1>2, <1>4, <1>5, <1>6

-----------------------------------------------------------------------------
(* The inductive invariant, and what a step keeps and does.                *)
ConditionalInv == Typed /\ PairsInv /\ TwapInv /\ IceInv /\ FillInv

Kept == ConditionalInv' /\ FiredExitsFit /\ SettledExitReduces

LEMMA ConditionalInit ==
    ASSUME Init, ConditionalAssumption
    PROVE  ConditionalInv
<1>1. BookTyped
  BY FS_EmptySet DEF Init, BookTyped
<1>2. Typed
  <2>1. now \in 1..MaxSlot /\ seq \in 0..MaxSeq /\ placed \in 0..MaxPlaced /\ pos \in Int
    BY DEF Init, ConditionalAssumption
  <2>2. oracle \in [px : Nat, fresh : BOOLEAN]
    BY DEF Init
  <2>3. /\ trig \in [TriggerIds -> Triggers \cup {Closed}] /\ twap \in [TwapIds -> Twaps \cup {Closed}]
        /\ ice \in [IcebergIds -> Icebergs \cup {Closed}]
    BY DEF Init
  <2>4. queue \in Seq(Fills)
    BY EmptySeq DEF Init
  <2>5. hist \in [legs : [1..MaxPlaced -> Nat], mixed : BOOLEAN]
    BY DEF Init
  <2> QED BY <1>1, <2>1, <2>2, <2>3, <2>4, <2>5 DEF Typed
<1>3. PairsInv
  BY DEF Init, PairsInv, Armed
<1>4. TwapInv
  BY DEF Init, TwapInv
<1>5. IceInv
  BY DEF Init, IceInv
<1>6. FillInv
  BY DEF Init, FillInv, NoExits
<1> QED BY <1>2, <1>3, <1>4, <1>5, <1>6 DEF ConditionalInv

LEMMA PlaceTriggerKeeps ==
    ASSUME ConditionalInv, ConditionalAssumption, NEW id \in TriggerIds, NEW t \in TriggerTerms,
           PlaceTrigger(id, t)
    PROVE  Kept
<1> DEFINE x == NewTrigger(t, 0, FALSE, 0)
<1> USE DEF ConditionalInv
<1>1. Typed'
  BY PlaceTriggerTyped
<1>2. /\ placed' = placed + 1 /\ trig' = [trig EXCEPT ![id] = x]
      /\ UNCHANGED <<pos, queue, book, seq, twap, ice, hist>>
  BY DEF PlaceTrigger, market
<1>3. placed \in Nat /\ trig \in [TriggerIds -> Triggers \cup {Closed}]
  BY DEF Typed
<1>4. x.pair = 0
  <2>1. IsTerms(t)
    BY TermsTyped DEF IsTerms
  <2> QED BY <2>1, NewTriggerFacts
<1> HIDE DEF x
<1>5. placed' \in Nat /\ placed' >= placed
  BY <1>2, <1>3
<1>6. \A i \in TriggerIds : trig'[i] = trig[i] \/ ~Armed(i)'
  BY <1>2, <1>3, <1>4 DEF Armed
<1>7. PairsInv'
  BY <1>2, <1>5, <1>6, PairsKept
<1>8. BookQuiet
  BY <1>2 DEF BookQuiet
<1>9. IceInv'
  BY <1>1, <1>2, <1>5, <1>8, IceQuiet
<1>10. TwapInv' /\ FillInv'
  BY <1>2, TwapKept, FillKept
<1>11. FiredExitsFit /\ SettledExitReduces
  BY <1>2, <1>8, QuietFits, NothingSettled
<1> QED BY <1>1, <1>7, <1>9, <1>10, <1>11 DEF Kept

LEMMA CancelTriggerKeeps ==
    ASSUME ConditionalInv, ConditionalAssumption, NEW id \in TriggerIds, CancelTrigger(id)
    PROVE  Kept
<1> USE DEF ConditionalInv
<1>1. Typed'
  BY CancelTriggerTyped
<1>2. /\ trig' = [trig EXCEPT ![id] = Closed]
      /\ UNCHANGED <<pos, queue, book, seq, twap, ice, placed, hist>>
  BY DEF CancelTrigger, market
<1>3. placed' \in Nat /\ placed' >= placed /\ trig \in [TriggerIds -> Triggers \cup {Closed}]
  BY <1>2 DEF Typed
<1>4. \A i \in TriggerIds : trig'[i] = trig[i] \/ ~Armed(i)'
  BY <1>2, <1>3 DEF Armed
<1>5. PairsInv'
  BY <1>2, <1>3, <1>4, PairsKept
<1>6. BookQuiet
  BY <1>2 DEF BookQuiet
<1>7. IceInv'
  BY <1>1, <1>2, <1>3, <1>6, IceQuiet
<1>8. TwapInv' /\ FillInv'
  BY <1>2, TwapKept, FillKept
<1>9. FiredExitsFit /\ SettledExitReduces
  BY <1>2, <1>6, QuietFits, NothingSettled
<1> QED BY <1>1, <1>5, <1>7, <1>8, <1>9 DEF Kept

LEMMA PlaceBracketKeeps ==
    ASSUME ConditionalInv, ConditionalAssumption, NEW tp \in TriggerIds, NEW sl \in TriggerIds,
           NEW b \in BracketTerms, PlaceBracket(tp, sl, b)
    PROVE  Kept
<1> USE DEF ConditionalInv
<1>1. PICK o, x, y : Bracketed(tp, sl, o, x, y)
  BY PlaceBracketFacts
<1>2. Typed'
  BY <1>1, BracketedTyped
<1>3. /\ placed' = placed + 1 /\ UNCHANGED <<pos, queue, twap, ice, hist>>
      /\ book' = book \cup {o} /\ o.tag = Plain
  BY <1>1 DEF Bracketed, Arrived
<1>4. PairsInv'
  BY <1>1, PairsBracketed
<1>5. placed' >= placed
  BY <1>3 DEF Typed
<1>6. BookQuiet
  BY <1>3 DEF BookQuiet
<1>7. IceInv'
  BY <1>2, <1>3, <1>5, <1>6, IceQuiet
<1>8. TwapInv' /\ FillInv'
  BY <1>3, TwapKept, FillKept
<1>9. FiredExitsFit /\ SettledExitReduces
  BY <1>3, <1>6, QuietFits, NothingSettled
<1> QED BY <1>2, <1>4, <1>7, <1>8, <1>9 DEF Kept

LEMMA ExecuteTriggerKeeps ==
    ASSUME ConditionalInv, ConditionalAssumption, NEW id \in TriggerIds,
           NEW sid \in TriggerIds \cup {NoSibling}, ExecuteTrigger(id, sid)
    PROVE  Kept
<1> USE DEF ConditionalInv
<1>1. PICK o : Fired(id, sid, o)
  BY ExecuteTriggerFacts
<1>2. Typed'
  BY <1>1, FiredTyped
<1>3. PairsInv'
  BY <1>1, PairsFired
<1>4. /\ UNCHANGED <<pos, queue, twap, ice, placed>> /\ hist'.mixed = hist.mixed
      /\ book' = book \cup {o} /\ o.tag = Tag("trigger", trig[id].pair)
  BY <1>1 DEF Fired, Arrived
<1>5. IceInv'
  <2>1. o.tag.kind # "ice"
    BY <1>4 DEF Tag
  <2>2. \A p \in book : p \in Orders
    BY DEF Typed, BookTyped
  <2>3. \A p \in book : LeftOf(p, p)
    <3>1. \A p \in book : p.size \in Nat
      BY <2>2 DEF Orders
    <3> QED BY <3>1 DEF LeftOf
  <2>4. \A p \in book' : p.tag.kind = "ice" => \E q \in book : LeftOf(p, q)
    BY <1>4, <2>1, <2>3
  <2>5. placed' >= placed
    BY <1>4 DEF Typed
  <2> QED BY <1>2, <1>4, <2>4, <2>5, IceKept
<1>6. TwapInv' /\ FillInv'
  BY <1>4, TwapKept, FillKept
<1>7. FiredExitsFit
  BY <1>1, FiredFits
<1>8. SettledExitReduces
  BY <1>4, NothingSettled
<1> QED BY <1>2, <1>3, <1>5, <1>6, <1>7, <1>8 DEF Kept

(* A TWAP account is written; nothing else of these orders is but a plain  *)
(* order.                                                                  *)
LEMMA TwapStepKeeps ==
    ASSUME ConditionalInv, ConditionalAssumption, Typed', TwapInv', BookQuiet,
           placed' = placed \/ placed' = placed + 1, UNCHANGED <<trig, ice, queue, pos, hist>>
    PROVE  Kept
<1> USE DEF ConditionalInv
<1>1. placed' \in Nat /\ placed' >= placed
  BY DEF Typed
<1>2. PairsInv'
  BY <1>1, PairsKept
<1>3. IceInv'
  BY <1>1, IceQuiet
<1>4. FillInv'
  BY FillKept
<1>5. FiredExitsFit /\ SettledExitReduces
  BY QuietFits, NothingSettled
<1> QED BY <1>2, <1>3, <1>4, <1>5 DEF Kept

LEMMA PlaceTwapKeeps ==
    ASSUME ConditionalInv, ConditionalAssumption, NEW id \in TwapIds, NEW w \in TwapTerms,
           PlaceTwap(id, w)
    PROVE  Kept
<1> USE DEF ConditionalInv
<1>1. /\ Typed' /\ twap' = [twap EXCEPT ![id] = NewTwap(w)]
      /\ UNCHANGED <<trig, ice, book, queue, pos, hist>> /\ placed' = placed + 1
  BY PlaceTwapTyped
<1>2. Paced(NewTwap(w)) /\ LastKept(NewTwap(w))
  BY NewPaced
<1>3. TwapInv'
  BY <1>1, <1>2, TwapSet
<1>4. BookQuiet
  BY <1>1 DEF BookQuiet
<1> QED BY <1>1, <1>3, <1>4, TwapStepKeeps

LEMMA CancelTwapKeeps ==
    ASSUME ConditionalInv, ConditionalAssumption, NEW id \in TwapIds, CancelTwap(id)
    PROVE  Kept
<1> USE DEF ConditionalInv
<1>1. /\ Typed' /\ twap' = [twap EXCEPT ![id] = Closed]
      /\ UNCHANGED <<trig, ice, book, queue, pos, placed, hist>>
  BY CancelTwapTyped
<1>2. TwapInv'
  BY <1>1, TwapSet
<1>3. BookQuiet
  BY <1>1 DEF BookQuiet
<1> QED BY <1>1, <1>2, <1>3, TwapStepKeeps

LEMMA TwapSliceKeeps ==
    ASSUME ConditionalInv, ConditionalAssumption, NEW id \in TwapIds, ExecuteTwapSlice(id)
    PROVE  Kept
<1> USE DEF ConditionalInv
<1>1. PICK lots, x : SliceOut(id, lots, x)
  BY TwapSliceFacts
<1>2. Typed'
  BY <1>1, SliceTyped
<1> DEFINE w == twap[id]
<1>3. /\ w # Closed /\ w \in Twaps /\ lots \in Nat /\ lots <= w.slice /\ w.executed + lots <= w.total
      /\ w.end = 0 \/ now <= w.end
      /\ now >= w.last + w.interval
      /\ Sliced(w, lots, x) /\ twap' = [twap EXCEPT ![id] = x]
      /\ UNCHANGED <<trig, ice, queue, pos, placed, hist>>
  BY <1>1 DEF SliceOut
<1>4. Paced(w) /\ LastKept(w) /\ now \in Nat
  BY <1>3, Fields DEF TwapInv
<1> HIDE DEF w
<1>5. Paced(x) /\ LastKept(x)
  BY <1>3, <1>4, PacedNext
<1>6. TwapInv'
  BY <1>3, <1>5, TwapSet
<1>7. BookQuiet
  BY <1>1 DEF SliceOut, Arrived, BookQuiet
<1> QED BY <1>2, <1>3, <1>6, <1>7, TwapStepKeeps

LEMMA ChunkKeeps ==
    ASSUME ConditionalInv, ConditionalAssumption, NEW id \in IcebergIds, NEW o, NEW x, Chunk(id, o, x),
           placed' = placed \/ placed' = placed + 1, placed' \in 0..MaxPlaced, IceInv'
    PROVE  Kept
<1> USE DEF ConditionalInv
<1>1. Typed'
  BY ChunkTyped
<1>2. /\ UNCHANGED <<trig, twap, queue, pos, hist>> /\ o.tag = Tag("ice", x.n)
      /\ \A p \in book' : p.seq > seq => p = o
  BY DEF Chunk, Arrived
<1>3. placed' \in Nat /\ placed' >= placed
  BY DEF Typed
<1>4. PairsInv'
  BY <1>2, <1>3, PairsKept
<1>5. TwapInv' /\ FillInv'
  BY <1>2, TwapKept, FillKept
<1>6. o.tag.kind # "trigger"
  BY <1>2 DEF Tag
<1>7. FiredExitsFit
  BY <1>2, <1>6 DEF FiredExitsFit
<1>8. SettledExitReduces
  BY <1>2, NothingSettled
<1> QED BY <1>1, <1>4, <1>5, <1>7, <1>8 DEF Kept

LEMMA PlaceIcebergKeeps ==
    ASSUME ConditionalInv, ConditionalAssumption, NEW id \in IcebergIds, NEW i \in IcebergTerms,
           PlaceIceberg(id, i)
    PROVE  Kept
<1> USE DEF ConditionalInv
<1>1. PICK o, x : FirstChunk(id, o, x)
  BY PlaceIcebergFacts
<1>2. IceInv'
  BY <1>1, IceFirst
<1>3. Chunk(id, o, x) /\ placed' = placed + 1 /\ placed' \in 0..MaxPlaced
  BY <1>1 DEF FirstChunk
<1> QED BY <1>2, <1>3, ChunkKeeps

LEMMA ReplenishKeeps ==
    ASSUME ConditionalInv, ConditionalAssumption, NEW id \in IcebergIds, ReplenishIceberg(id)
    PROVE  Kept
<1> USE DEF ConditionalInv
<1>1. PICK o, x : NextChunk(id, o, x)
  BY ReplenishFacts
<1>2. IceInv'
  BY <1>1, IceNext
<1>3. Chunk(id, o, x) /\ placed' = placed
  BY <1>1 DEF NextChunk
<1>4. placed' \in 0..MaxPlaced
  BY <1>3 DEF Typed
<1> QED BY <1>2, <1>3, <1>4, ChunkKeeps

(* Only the book, the oracle or the clock changes, or an iceberg is closed.*)
LEMMA QuietKeeps ==
    ASSUME ConditionalInv, ConditionalAssumption, Typed', BookQuiet,
           UNCHANGED <<trig, twap, queue, pos, placed, hist>>,
           \A id \in IcebergIds : ice'[id] = ice[id] \/ ice'[id] = Closed
    PROVE  Kept
<1> USE DEF ConditionalInv
<1>1. placed' \in Nat /\ placed' >= placed
  BY DEF Typed
<1>2. PairsInv'
  BY <1>1, PairsKept
<1>3. IceInv'
  BY <1>1, IceQuiet
<1>4. TwapInv' /\ FillInv'
  BY TwapKept, FillKept
<1>5. FiredExitsFit /\ SettledExitReduces
  BY QuietFits, NothingSettled
<1> QED BY <1>2, <1>3, <1>4, <1>5 DEF Kept

LEMMA CancelIcebergKeeps ==
    ASSUME ConditionalInv, ConditionalAssumption, NEW id \in IcebergIds, CancelIceberg(id)
    PROVE  Kept
<1>1. /\ Typed' /\ ice' = [ice EXCEPT ![id] = Closed]
      /\ UNCHANGED <<trig, twap, book, queue, pos, placed, hist>>
  BY CancelIcebergTyped DEF ConditionalInv
<1>2. \A i \in IcebergIds : ice'[i] = ice[i] \/ ice'[i] = Closed
  BY <1>1 DEF ConditionalInv, Typed
<1>3. BookQuiet
  BY <1>1 DEF BookQuiet
<1> QED BY <1>1, <1>2, <1>3, QuietKeeps

LEMMA GoneKeeps ==
    ASSUME ConditionalInv, ConditionalAssumption, NEW o \in book, CancelOrder(o) \/ ReapExpiredOrder(o)
    PROVE  Kept
<1>1. Gone(o)
  BY GoneFacts DEF ConditionalInv
<1>2. /\ BookTyped' /\ book' \subseteq book
      /\ UNCHANGED <<now, oracle, pos, queue, seq, trig, twap, ice, placed, hist>>
  BY <1>1 DEF Gone
<1>3. Typed'
  BY <1>2 DEF ConditionalInv, Typed
<1>4. BookQuiet
  BY <1>2 DEF BookQuiet
<1> QED BY <1>2, <1>3, <1>4, QuietKeeps

LEMMA ModifyKeeps ==
    ASSUME ConditionalInv, ConditionalAssumption, NEW o \in book, NEW m \in ModifyTerms, ModifyOrder(o, m)
    PROVE  Kept
<1>1. PICK p : Rewritten(o, p)
  BY ModifyFacts DEF ConditionalInv
<1>2. /\ BookTyped' /\ book' = (book \ {o}) \cup {p} /\ p.tag = Plain /\ seq' \in 0..MaxSeq
      /\ UNCHANGED <<now, oracle, pos, queue, trig, twap, ice, placed, hist>>
  BY <1>1 DEF Rewritten
<1>3. Typed'
  BY <1>2 DEF ConditionalInv, Typed
<1>4. BookQuiet
  BY <1>2 DEF BookQuiet
<1> QED BY <1>2, <1>3, <1>4, QuietKeeps

LEMMA MarketMovesKeep ==
    ASSUME ConditionalInv, ConditionalAssumption,
           (\E px \in OraclePrices : RefreshOracle(px)) \/ OracleGoesStale \/ Tick
    PROVE  Kept
<1>1. Typed' /\ UNCHANGED <<pos, queue, book, trig, twap, ice, placed, hist>>
  BY MarketMovesTyped DEF ConditionalInv
<1>2. BookQuiet
  BY <1>1 DEF BookQuiet
<1> QED BY <1>1, <1>2, QuietKeeps

LEMMA CrossKeeps ==
    ASSUME ConditionalInv, ConditionalAssumption, NEW o \in book, NEW n \in 1..o.size, Cross(o, n)
    PROVE  Kept
<1> USE DEF ConditionalInv
<1>1. PICK p, f : Crossed(o, n, p, f)
  BY CrossFacts
<1>2. Typed'
  BY <1>1, CrossedTyped
<1>3. /\ UNCHANGED <<trig, twap, ice, placed>> /\ hist'.legs = hist.legs
      /\ queue' = Append(queue, f) /\ f \in Fills /\ o \in Orders /\ p \in Orders
      /\ \A q \in book' : q \in book \/ q = p
      /\ p.seq = o.seq
  BY <1>1 DEF Crossed
<1>4. placed' \in Nat /\ placed' >= placed
  BY <1>3 DEF Typed
<1>5. PairsInv'
  BY <1>3, <1>4, PairsKept
<1>6. FillInv'
  BY <1>1, FillCrossed
<1>7. IceInv'
  <2>1. LeftOf(p, o)
    BY <1>1 DEF Crossed, LeftOf
  <2>2. \A q \in book : LeftOf(q, q)
    <3>1. \A q \in book : q \in Orders
      BY DEF Typed, BookTyped
    <3>2. \A q \in book : q.size \in Nat
      BY <3>1 DEF Orders
    <3> QED BY <3>2 DEF LeftOf
  <2>3. \A q \in book' : q.tag.kind = "ice" => \E r \in book : LeftOf(q, r)
    BY <1>3, <2>1, <2>2
  <2> QED BY <1>2, <1>3, <1>4, <2>3, IceKept
<1>8. TwapInv'
  BY <1>3, TwapKept
<1>9. FiredExitsFit
  <2>1. seq \in Nat /\ \A q \in book : q.seq \in 1..seq
    BY DEF Typed, BookTyped
  <2>2. \A q \in book' : ~(q.seq > seq)
    BY <1>3, <2>1
  <2> QED BY <2>2 DEF FiredExitsFit
<1>10. SettledExitReduces
  BY <1>3, NothingSettled
<1> QED BY <1>2, <1>5, <1>6, <1>7, <1>8, <1>9, <1>10 DEF Kept

LEMMA SettleKeeps ==
    ASSUME ConditionalInv, ConditionalAssumption, Settle
    PROVE  Kept
<1> USE DEF ConditionalInv
<1>1. SettledHead /\ Typed'
  BY SettleFacts
<1>2. UNCHANGED <<trig, twap, ice, placed, book>> /\ hist'.legs = hist.legs
  BY <1>1 DEF SettledHead
<1>3. placed' \in Nat /\ placed' >= placed
  BY <1>2 DEF Typed
<1>4. PairsInv'
  BY <1>2, <1>3, PairsKept
<1>5. FillInv' /\ SettledExitReduces
  BY <1>1, FillSettled
<1>6. BookQuiet
  BY <1>2 DEF BookQuiet
<1>7. IceInv' /\ FiredExitsFit
  BY <1>1, <1>2, <1>3, <1>6, IceQuiet, QuietFits
<1>8. TwapInv'
  BY <1>2, TwapKept
<1> QED BY <1>1, <1>4, <1>5, <1>7, <1>8 DEF Kept

(* A step that changes nothing keeps everything.                           *)
LEMMA StutterKeeps ==
    ASSUME ConditionalInv, ConditionalAssumption, UNCHANGED vars
    PROVE  Kept
<1>1. UNCHANGED <<now, oracle, pos, book, seq, queue, trig, twap, ice, placed, hist>>
  BY DEF vars
<1>2. Typed'
  <2>1. BookTyped'
    BY <1>1, OrdersLeave DEF ConditionalInv, Typed
  <2> QED BY <1>1, <2>1 DEF ConditionalInv, Typed
<1>3. BookQuiet
  BY <1>1 DEF BookQuiet
<1> QED BY <1>1, <1>2, <1>3, QuietKeeps

LEMMA StepKeeps ==
    ASSUME ConditionalInv, ConditionalAssumption, [Next]_vars
    PROVE  Kept
<1>1. CASE Owner
  BY <1>1, PlaceTriggerKeeps, CancelTriggerKeeps, PlaceBracketKeeps, PlaceTwapKeeps, CancelTwapKeeps,
     PlaceIcebergKeeps, CancelIcebergKeeps, GoneKeeps, ModifyKeeps DEF Owner
<1>2. CASE Keeper
  BY <1>2, ExecuteTriggerKeeps, TwapSliceKeeps, ReplenishKeeps, GoneKeeps DEF Keeper
<1>3. CASE Others
  BY <1>3, CrossKeeps, SettleKeeps, MarketMovesKeep DEF Others
<1>4. CASE UNCHANGED vars
  BY <1>4, StutterKeeps
<1> QED BY <1>1, <1>2, <1>3, <1>4 DEF Next

-----------------------------------------------------------------------------
(* What the invariant says of the accounts.                                *)
LEMMA InvSound ==
    ASSUME ConditionalInv, ConditionalAssumption
    PROVE  AccountsSound /\ TwapPaced /\ IcebergHidden
<1> USE DEF ConditionalInv
<1>1. TwapPaced
  BY DEF TwapInv, TwapPaced
<1>2. IcebergHidden
  BY IceInvHides
<1>3. BracketExitsOnce
  BY Fields DEF PairsInv, BracketExitsOnce
<1>4. TypeOK
  <2>1. /\ now \in 1..MaxSlot /\ seq \in 0..MaxSeq /\ placed \in 0..MaxPlaced /\ pos \in Int
        /\ oracle \in [px : Nat, fresh : BOOLEAN]
        /\ trig \in [TriggerIds -> Triggers \cup {Closed}]
    BY DEF Typed
  <2>2. \A o \in book : o.seq \in 1..seq /\ o.side \in Sides /\ o.size \in Nat \ {0}
    <3>1. \A o \in book : o \in Orders /\ o.seq \in 1..seq
      BY DEF Typed, BookTyped
    <3> QED BY <3>1 DEF Orders
  <2>3. \A o, p \in book : o.seq = p.seq => o = p
    BY DEF Typed, BookTyped
  <2>4. \A id \in TwapIds : twap[id] = Closed \/ twap[id].executed \in 0..twap[id].total
    <3>1. \A id \in TwapIds : twap[id] # Closed => twap[id] \in Twaps /\ twap[id].executed <= twap[id].total
      BY Fields DEF TwapInv, Paced
    <3>2. \A id \in TwapIds : twap[id] # Closed => twap[id].executed \in Nat /\ twap[id].total \in Nat
      BY <3>1 DEF Twaps
    <3> QED BY <3>1, <3>2
  <2>5. \A id \in IcebergIds : ice[id] = Closed \/ ice[id].remaining \in Nat
    <3>1. \A id \in IcebergIds : ice[id] # Closed => ice[id] \in Icebergs
      BY Fields
    <3> QED BY <3>1 DEF Icebergs
  <2>6. \A k \in DOMAIN queue : queue[k].lots \in Int /\ queue[k].ro \in BOOLEAN
    <3>1. \A k \in DOMAIN queue : queue[k] \in Fills
      BY DEF Typed
    <3> QED BY <3>1 DEF Fills
  <2> QED BY <2>1, <2>2, <2>3, <2>4, <2>5, <2>6 DEF TypeOK
<1> QED BY <1>1, <1>2, <1>3, <1>4 DEF AccountsSound

(* The invariant holds throughout.                                         *)
THEOREM ConditionalInvariance == Spec => []ConditionalInv
<1>1. Init => ConditionalInv
  BY ConditionalInit, ConditionalAssumption
<1>2. ConditionalInv /\ [Next]_vars => ConditionalInv'
  BY StepKeeps, ConditionalAssumption DEF Kept
<1> QED BY <1>1, <1>2, PTL DEF Spec

(* The accounts are well typed and no bracket exits twice, whatever        *)
(* accounts keepers pass to execute_trigger_order as the sibling and       *)
(* however ids are closed and placed again.                                *)
THEOREM AccountsStaySound == Spec => []AccountsSound
<1>1. ConditionalInv => AccountsSound
  BY InvSound, ConditionalAssumption
<1> QED BY <1>1, ConditionalInvariance, PTL

(* The slices execute_twap_slice puts out are an interval apart, none      *)
(* after the end, and add up to what the account counts.                   *)
THEOREM TwapKeepsPace == Spec => []TwapPaced
<1>1. ConditionalInv => TwapPaced
  BY InvSound, ConditionalAssumption
<1> QED BY <1>1, ConditionalInvariance, PTL

(* replenish_iceberg never has more than the displayed size on the book,   *)
(* nor more shown and hidden than the total.                               *)
THEOREM IcebergStaysHidden == Spec => []IcebergHidden
<1>1. ConditionalInv => IcebergHidden
  BY InvSound, ConditionalAssumption
<1> QED BY <1>1, ConditionalInvariance, PTL

(* A reduce-only trigger that fires fits the position beside all exits     *)
(* that rest already (execute_trigger_order), and settling the fills of    *)
(* exits (apply_fill after check_reduce_only) never turns the position.    *)
THEOREM ExitsFit == Spec => ExitsNeverOvershoot
<1>1. ConditionalInv /\ [Next]_vars => [FiredExitsFit]_vars
  BY StepKeeps, ConditionalAssumption DEF Kept
<1>2. ConditionalInv /\ [Next]_vars => [SettledExitReduces]_vars
  BY StepKeeps, ConditionalAssumption DEF Kept
<1>3. Spec => ExitsFitAtFiring
  BY <1>1, ConditionalInvariance, PTL DEF Spec, ExitsFitAtFiring
<1>4. Spec => ExitsNeverFlip
  BY <1>2, ConditionalInvariance, PTL DEF Spec, ExitsNeverFlip
<1> QED BY <1>3, <1>4, PTL DEF ExitsNeverOvershoot
=============================================================================
