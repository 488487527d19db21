-------------------------- MODULE SettlementProofs --------------------------
(***************************************************************************)
(* Proofs about Settlement, for any traders, pools, sizes, prices, limits  *)
(* and any number of fills: open interest is exact and within its cap, and *)
(* reduce-only maker fills fit the position they reduce across the gap     *)
(* between matching and settlement.                                        *)
(***************************************************************************)
EXTENDS Settlement, SumTheorems

FillRecord == [taker : Traders, side : Sides, maker : Parties, size : Sizes,
               px : QuotePrices \cup {0}, ro : BOOLEAN]

(* What the matcher commits: nobody meets himself, and only a trader's     *)
(* order is reduce-only.                                                   *)
Committed == {f \in FillRecord : f.taker # f.maker /\ (f.ro => f.maker \in Traders)}

Typed ==
    /\ pos \in [Parties -> Int]
    /\ oi \in [long : Nat, short : Nat]
    /\ queue \in Seq(Committed)
    /\ inflight \in [Traders -> Nat] /\ unsettled \in Nat
    /\ status \in Statuses
    /\ oracle \in OraclePrices \cup {0}
    /\ held \subseteq Holds
    /\ home \in {"L1", "ER"} /\ delegated \in BOOLEAN
    /\ matched \in 0..MaxFills /\ forced \in BOOLEAN
    /\ mixed \in [Traders -> 0..2]

(* The counters of what is matched and not settled are those of the queue. *)
GapExact ==
    /\ unsettled = Volume(queue)
    /\ \A p \in Traders : inflight[p] = ReduceVolume(queue, p)

CapKept ==
    OiCap > 0 /\ ~forced => oi.long + unsettled <= OiCap /\ oi.short + unsettled <= OiCap

(* A position that only reduce-only maker fills are moving: they fit it,   *)
(* and all of them reduce it.                                              *)
Reducing(p) ==
    /\ inflight[p] <= Abs(pos[p])
    /\ \A i \in DOMAIN queue : Involves(queue[i], p) =>
          queue[i].ro /\ queue[i].maker = p /\ ((pos[p] > 0) <=> (queue[i].side = "buy"))
GapSafe == \A p \in Traders : mixed[p] = 0 => Reducing(p)

Inv ==
    Typed /\ OiMatchesPositions /\ OiBalancedUnlessForced /\ GapExact /\ CapKept /\ GapSafe

LEMMA PartiesFinite == IsFiniteSet(Parties)
BY SettlementAssumption, FS_Union DEF Parties

-----------------------------------------------------------------------------
(* Volumes of sequences.                                                   *)

(* Anything with a size, a maker and a reduce-only mark.                   *)
IsSized(q) == \A i \in DOMAIN q : q[i].size \in Nat

LEMMA VolumeNat ==
    ASSUME NEW n \in Nat, NEW q, DOMAIN q = 1..n, IsSized(q), NEW p
    PROVE  Volume(q) \in Nat /\ ReduceVolume(q, p) \in Nat
<1> DEFINE f == [i \in DOMAIN q |-> q[i].size]
           g == [i \in DOMAIN q |-> IF q[i].ro /\ q[i].maker = p THEN q[i].size ELSE 0]
<1>1. IsFiniteSet(1..n)
  BY FS_Interval
<1>2. \A i \in 1..n : f[i] \in Nat /\ g[i] \in Nat
  BY DEF IsSized
<1>3. Volume(q) = SumFunctionOnSet(f, 1..n) /\ ReduceVolume(q, p) = SumFunctionOnSet(g, 1..n)
  BY DEF Volume, ReduceVolume
<1> HIDE DEF f, g
<1>4. SumFunctionOnSet(f, 1..n) \in Nat
  BY <1>1, <1>2, SumNat
<1>5. SumFunctionOnSet(g, 1..n) \in Nat
  BY <1>1, <1>2, SumNat
<1> QED BY <1>3, <1>4, <1>5

(* A reduce-only lot of p counts in its volume; without one it is zero.    *)
LEMMA ReduceVolumeOf ==
    ASSUME NEW n \in Nat, NEW q, DOMAIN q = 1..n, IsSized(q), NEW p
    PROVE  /\ \A i \in 1..n : q[i].ro /\ q[i].maker = p => q[i].size <= ReduceVolume(q, p)
           /\ (\A i \in 1..n : ~(q[i].ro /\ q[i].maker = p)) => ReduceVolume(q, p) = 0
<1> DEFINE g == [i \in DOMAIN q |-> IF q[i].ro /\ q[i].maker = p THEN q[i].size ELSE 0]
<1>1. IsFiniteSet(1..n)
  BY FS_Interval
<1>2. \A i \in 1..n : /\ g[i] \in Nat
                      /\ g[i] = IF q[i].ro /\ q[i].maker = p THEN q[i].size ELSE 0
  BY DEF IsSized
<1>3. ReduceVolume(q, p) = SumFunctionOnSet(g, 1..n)
  BY DEF ReduceVolume
<1> HIDE DEF g
<1>4. \A i \in 1..n : g[i] <= SumFunctionOnSet(g, 1..n)
  BY <1>1, <1>2, SumNat
<1>5. (\A i \in 1..n : g[i] = 0) => SumFunctionOnSet(g, 1..n) = 0
  BY <1>1, SumZero
<1> QED BY <1>2, <1>3, <1>4, <1>5

(* What is known of a sequence of committed fills.                         *)
LEMMA FillsSized ==
    ASSUME NEW q \in Seq(Committed)
    PROVE  /\ Len(q) \in Nat /\ DOMAIN q = 1..Len(q)
           /\ \A i \in 1..Len(q) : q[i] \in Committed /\ q[i].size \in Nat \ {0}
           /\ IsSized(q)
<1>1. Len(q) \in Nat /\ DOMAIN q = 1..Len(q)
  BY LenProperties
<1>2. \A i \in 1..Len(q) : q[i] \in Committed
  BY ElementOfSeq
<1>3. \A f \in Committed : f.size \in Nat \ {0}
  BY SettlementAssumption DEF Committed, FillRecord
<1> QED BY <1>1, <1>2, <1>3 DEF IsSized

(* Popping the head takes its lots off.                                    *)
LEMMA VolumeTail ==
    ASSUME NEW q \in Seq(Committed), q # <<>>, NEW p
    PROVE  /\ Volume(q) = Head(q).size + Volume(Tail(q))
           /\ ReduceVolume(q, p) =
                (IF Head(q).ro /\ Head(q).maker = p THEN Head(q).size ELSE 0)
                  + ReduceVolume(Tail(q), p)
<1> DEFINE n == Len(q) - 1
           t == Tail(q)
           f == [i \in DOMAIN q |-> q[i].size]
           g == [i \in DOMAIN q |-> IF q[i].ro /\ q[i].maker = p THEN q[i].size ELSE 0]
           ft == [i \in DOMAIN t |-> t[i].size]
           gt == [i \in DOMAIN t |-> IF t[i].ro /\ t[i].maker = p THEN t[i].size ELSE 0]
<1>1. n \in Nat /\ DOMAIN q = 1..(n + 1) /\ DOMAIN t = 1..n
  BY HeadTailProperties, LenProperties, EmptySeq
<1>2. \A i \in 1..n : t[i] = q[i + 1] /\ i + 1 \in 1..(n + 1)
  BY <1>1, HeadTailProperties
<1>3. Head(q) = q[1] /\ 1 \in 1..(n + 1)
  BY <1>1
<1>4. \A i \in 1..(n + 1) : q[i].size \in Nat
  BY <1>1, FillsSized DEF IsSized
<1>5. \A i \in 1..(n + 1) : f[i] \in Int /\ g[i] \in Int
  BY <1>1, <1>4
<1>6. \A i \in 1..n : ft[i] = f[i + 1]
  BY <1>1, <1>2
<1>7. \A i \in 1..n : gt[i] = g[i + 1]
  BY <1>1, <1>2
<1>8. /\ f[1] = Head(q).size
      /\ g[1] = IF Head(q).ro /\ Head(q).maker = p THEN Head(q).size ELSE 0
  BY <1>1, <1>3
<1>9. /\ Volume(q) = SumFunctionOnSet(f, 1..(n + 1)) /\ Volume(t) = SumFunctionOnSet(ft, 1..n)
      /\ ReduceVolume(q, p) = SumFunctionOnSet(g, 1..(n + 1))
      /\ ReduceVolume(t, p) = SumFunctionOnSet(gt, 1..n)
  BY <1>1 DEF Volume, ReduceVolume
<1> HIDE DEF n, t, f, g, ft, gt
<1>10. SumFunctionOnSet(f, 1..(n + 1)) = f[1] + SumFunctionOnSet(ft, 1..n)
  BY <1>1, <1>5, <1>6, SumShift
<1>11. SumFunctionOnSet(g, 1..(n + 1)) = g[1] + SumFunctionOnSet(gt, 1..n)
  BY <1>1, <1>5, <1>7, SumShift
<1> QED BY <1>8, <1>9, <1>10, <1>11 DEF t

(* Fills made of legs carry the lots of the legs.                          *)
LEMMA VolumeConcat ==
    ASSUME NEW q \in Seq(Committed), NEW r \in Seq(Committed), NEW legs, NEW p,
           DOMAIN legs = DOMAIN r,
           \A k \in DOMAIN r : /\ r[k].size = legs[k].size /\ r[k].ro = legs[k].ro
                               /\ r[k].maker = legs[k].maker
    PROVE  /\ Volume(q \o r) = Volume(q) + Volume(legs)
           /\ ReduceVolume(q \o r, p) = ReduceVolume(q, p) + ReduceVolume(legs, p)
<1> DEFINE n == Len(q)
           m == Len(r)
           c == q \o r
           f == [i \in DOMAIN q |-> q[i].size]
           g == [i \in DOMAIN q |-> IF q[i].ro /\ q[i].maker = p THEN q[i].size ELSE 0]
           fl == [i \in DOMAIN legs |-> legs[i].size]
           gl == [i \in DOMAIN legs |-> IF legs[i].ro /\ legs[i].maker = p THEN legs[i].size ELSE 0]
           fc == [i \in DOMAIN c |-> c[i].size]
           gc == [i \in DOMAIN c |-> IF c[i].ro /\ c[i].maker = p THEN c[i].size ELSE 0]
<1>1. /\ n \in Nat /\ m \in Nat /\ DOMAIN q = 1..n /\ DOMAIN r = 1..m
      /\ DOMAIN c = 1..(n + m) /\ DOMAIN legs = 1..m
  BY ConcatProperties, LenProperties
<1>2. /\ \A i \in 1..n : c[i] = q[i] /\ i \in 1..(n + m)
      /\ \A j \in 1..m : c[n + j] = r[j] /\ n + j \in 1..(n + m)
  <2>1. Len(c) = n + m /\ \A i \in 1..Len(c) : c[i] = IF i <= n THEN q[i] ELSE r[i - n]
    BY ConcatProperties
  <2>2. ASSUME NEW i \in 1..n PROVE c[i] = q[i] /\ i \in 1..(n + m)
    BY <1>1, <2>1
  <2>3. ASSUME NEW j \in 1..m PROVE c[n + j] = r[j] /\ n + j \in 1..(n + m)
    <3>1. n + j \in 1..(n + m) /\ ~(n + j <= n) /\ (n + j) - n = j
      BY <1>1
    <3> QED BY <2>1, <3>1
  <2> QED BY <2>2, <2>3
<1>3. /\ \A i \in 1..n : q[i].size \in Nat
      /\ \A j \in 1..m : r[j].size \in Nat
  BY FillsSized
<1>3a. \A i \in 1..(n + m) : fc[i] \in Int /\ gc[i] \in Int
  <2>1. c \in Seq(Committed) /\ Len(c) = n + m
    BY ConcatProperties
  <2>2. \A i \in 1..(n + m) : c[i].size \in Nat
    BY <2>1, FillsSized
  <2> QED BY <1>1, <2>2
<1>4. \A i \in 1..n : fc[i] = f[i] /\ f[i] \in Int
  BY <1>1, <1>2, <1>3
<1>5. \A i \in 1..n : gc[i] = g[i] /\ g[i] \in Int
  BY <1>1, <1>2, <1>3
<1>6. \A j \in 1..m : fc[n + j] = fl[j] /\ fl[j] \in Int
  <2> SUFFICES ASSUME NEW j \in 1..m PROVE fc[n + j] = fl[j] /\ fl[j] \in Int
    OBVIOUS
  <2>1. fl[j] = r[j].size /\ r[j].size \in Int
    BY <1>1, <1>3
  <2>2. fc[n + j] = c[n + j].size /\ c[n + j] = r[j]
    BY <1>1, <1>2
  <2> QED BY <2>1, <2>2
<1>7. \A j \in 1..m : gc[n + j] = gl[j] /\ gl[j] \in Int
  <2> SUFFICES ASSUME NEW j \in 1..m PROVE gc[n + j] = gl[j] /\ gl[j] \in Int
    OBVIOUS
  <2>1. gl[j] = (IF r[j].ro /\ r[j].maker = p THEN r[j].size ELSE 0) /\ r[j].size \in Int
    BY <1>1, <1>3
  <2>2. /\ gc[n + j] = IF c[n + j].ro /\ c[n + j].maker = p THEN c[n + j].size ELSE 0
        /\ c[n + j] = r[j]
    BY <1>1, <1>2
  <2> QED BY <2>1, <2>2
<1>8. /\ Volume(c) = SumFunctionOnSet(fc, 1..(n + m)) /\ Volume(q) = SumFunctionOnSet(f, 1..n)
      /\ Volume(legs) = SumFunctionOnSet(fl, 1..m)
  BY <1>1 DEF Volume
<1>9. /\ ReduceVolume(c, p) = SumFunctionOnSet(gc, 1..(n + m))
      /\ ReduceVolume(q, p) = SumFunctionOnSet(g, 1..n)
      /\ ReduceVolume(legs, p) = SumFunctionOnSet(gl, 1..m)
  BY <1>1 DEF ReduceVolume
<1> HIDE DEF n, m, c, f, g, fl, gl, fc, gc
<1>10. IsFiniteSet(1..n)
  BY <1>1, FS_Interval
<1>11. SumFunctionOnSet(fc, 1..n) = SumFunctionOnSet(f, 1..n)
  BY <1>4, <1>10, SumCongruent
<1>12. SumFunctionOnSet(gc, 1..n) = SumFunctionOnSet(g, 1..n)
  BY <1>5, <1>10, SumCongruent
<1> DEFINE t == n + m
<1>13. n \in Nat /\ m \in Nat /\ t = n + m
  BY <1>1
<1>14. \A i \in 1..t : fc[i] \in Int /\ gc[i] \in Int
  BY <1>3a
<1> HIDE DEF t
<1>15. SumFunctionOnSet(fc, 1..t) = SumFunctionOnSet(fc, 1..n) + SumFunctionOnSet(fl, 1..m)
  <2>1. \A j \in 1..m : fl[j] = fc[n + j]
    BY <1>6
  <2>2. \A i \in 1..t : fc[i] \in Int
    BY <1>14
  <2>3. Continues(fc, n, fl, m, t)
    BY <1>13, <2>1, <2>2 DEF Continues
  <2> QED BY <2>3, SumConcat
<1>16. SumFunctionOnSet(gc, 1..t) = SumFunctionOnSet(gc, 1..n) + SumFunctionOnSet(gl, 1..m)
  <2>1. \A j \in 1..m : gl[j] = gc[n + j]
    BY <1>7
  <2>2. \A i \in 1..t : gc[i] \in Int
    BY <1>14
  <2>3. Continues(gc, n, gl, m, t)
    BY <1>13, <2>1, <2>2 DEF Continues
  <2> QED BY <2>3, SumConcat
<1> QED BY <1>8, <1>9, <1>11, <1>12, <1>15, <1>16 DEF c, t

-----------------------------------------------------------------------------
(* Open interest under a change of two positions, or of one.               *)

LEMMA RegroupFour ==
    ASSUME NEW a \in Int, NEW b \in Int, NEW c \in Int, NEW d \in Int, NEW o \in Int,
           NEW k, k = c + d - a - b
    PROVE  o - a - b + c + d = o + k
OBVIOUS

LEMMA PartsNat ==
    ASSUME NEW n \in Int
    PROVE  LongPart(n) \in Nat /\ ShortPart(n) \in Nat /\ LongPart(n) - ShortPart(n) = n
BY DEF LongPart, ShortPart

LEMMA InterestTwo ==
    ASSUME NEW f \in [Parties -> Int], NEW g \in [Parties -> Int],
           NEW a \in Parties, NEW b \in Parties, a # b,
           \A p \in Parties \ {a, b} : g[p] = f[p]
    PROVE  LET L(h) == SumFunctionOnSet([p \in Parties |-> LongPart(h[p])], Parties)
               S(h) == SumFunctionOnSet([p \in Parties |-> ShortPart(h[p])], Parties)
           IN  /\ L(f) \in Nat /\ S(f) \in Nat
               /\ LongPart(f[a]) + LongPart(f[b]) <= L(f)
               /\ ShortPart(f[a]) + ShortPart(f[b]) <= S(f)
               /\ L(g) = L(f) - LongPart(f[a]) - LongPart(f[b]) + LongPart(g[a]) + LongPart(g[b])
               /\ S(g) = S(f) - ShortPart(f[a]) - ShortPart(f[b]) + ShortPart(g[a]) + ShortPart(g[b])
<1> DEFINE lf == [p \in Parties |-> LongPart(f[p])]
           sf == [p \in Parties |-> ShortPart(f[p])]
           lg == [p \in Parties |-> LongPart(g[p])]
           sg == [p \in Parties |-> ShortPart(g[p])]
<1>1. \A p \in Parties : lf[p] = LongPart(f[p]) /\ sf[p] = ShortPart(f[p])
                         /\ lg[p] = LongPart(g[p]) /\ sg[p] = ShortPart(g[p])
  OBVIOUS
<1>2. \A p \in Parties : lf[p] \in Nat /\ sf[p] \in Nat /\ lg[p] \in Nat /\ sg[p] \in Nat
  BY PartsNat
<1>3. \A p \in Parties \ {a, b} : lg[p] = lf[p] /\ sg[p] = sf[p]
  OBVIOUS
<1> HIDE DEF lf, sf, lg, sg
<1>4. SumFunctionOnSet(lf, Parties) \in Nat /\ SumFunctionOnSet(sf, Parties) \in Nat
  BY <1>2, PartiesFinite, SumNat
<1>5. lf[a] + lf[b] <= SumFunctionOnSet(lf, Parties)
  BY <1>2, PartiesFinite, SumOfTwo
<1>6. sf[a] + sf[b] <= SumFunctionOnSet(sf, Parties)
  BY <1>2, PartiesFinite, SumOfTwo
<1>7. SumFunctionOnSet(lg, Parties) = SumFunctionOnSet(lf, Parties) - lf[a] - lf[b] + lg[a] + lg[b]
  <2>1. (\A p \in Parties : lf[p] \in Int) /\ lg[a] \in Int /\ lg[b] \in Int
    BY <1>2
  <2> QED BY <2>1, <1>3, PartiesFinite, SumUpdateTwo
<1>8. SumFunctionOnSet(sg, Parties) = SumFunctionOnSet(sf, Parties) - sf[a] - sf[b] + sg[a] + sg[b]
  <2>1. (\A p \in Parties : sf[p] \in Int) /\ sg[a] \in Int /\ sg[b] \in Int
    BY <1>2
  <2> QED BY <2>1, <1>3, PartiesFinite, SumUpdateTwo
<1> QED BY <1>1, <1>4, <1>5, <1>6, <1>7, <1>8 DEF lf, sf, lg, sg

LEMMA InterestOne ==
    ASSUME NEW f \in [Parties -> Int], NEW g \in [Parties -> Int],
           NEW a \in Parties, \A p \in Parties \ {a} : g[p] = f[p]
    PROVE  LET L(h) == SumFunctionOnSet([p \in Parties |-> LongPart(h[p])], Parties)
               S(h) == SumFunctionOnSet([p \in Parties |-> ShortPart(h[p])], Parties)
           IN  /\ L(f) \in Nat /\ S(f) \in Nat
               /\ LongPart(f[a]) <= L(f) /\ ShortPart(f[a]) <= S(f)
               /\ L(g) = L(f) - LongPart(f[a]) + LongPart(g[a])
               /\ S(g) = S(f) - ShortPart(f[a]) + ShortPart(g[a])
<1> DEFINE lf == [p \in Parties |-> LongPart(f[p])]
           sf == [p \in Parties |-> ShortPart(f[p])]
           lg == [p \in Parties |-> LongPart(g[p])]
           sg == [p \in Parties |-> ShortPart(g[p])]
<1>1. \A p \in Parties : lf[p] = LongPart(f[p]) /\ sf[p] = ShortPart(f[p])
                         /\ lg[p] = LongPart(g[p]) /\ sg[p] = ShortPart(g[p])
  OBVIOUS
<1>2. \A p \in Parties : lf[p] \in Nat /\ sf[p] \in Nat /\ lg[p] \in Nat /\ sg[p] \in Nat
  BY PartsNat
<1>3. \A p \in Parties \ {a} : lg[p] = lf[p] /\ sg[p] = sf[p]
  OBVIOUS
<1> HIDE DEF lf, sf, lg, sg
<1>4. SumFunctionOnSet(lf, Parties) \in Nat /\ lf[a] <= SumFunctionOnSet(lf, Parties)
  BY <1>2, PartiesFinite, SumNat
<1>5. SumFunctionOnSet(sf, Parties) \in Nat /\ sf[a] <= SumFunctionOnSet(sf, Parties)
  BY <1>2, PartiesFinite, SumNat
<1>6. (\A p \in Parties : lf[p] \in Int /\ sf[p] \in Int) /\ lg[a] \in Int /\ sg[a] \in Int
  BY <1>2
<1>7. SumFunctionOnSet(lg, Parties) = SumFunctionOnSet(lf, Parties) - lf[a] + lg[a]
  BY <1>3, <1>6, PartiesFinite, SumUpdate
<1>8. SumFunctionOnSet(sg, Parties) = SumFunctionOnSet(sf, Parties) - sf[a] + sg[a]
  BY <1>3, <1>6, PartiesFinite, SumUpdate
<1> QED BY <1>1, <1>4, <1>5, <1>7, <1>8 DEF lf, sf, lg, sg

(* Two legs: the counters follow the positions exactly.                    *)
LEMMA OiTwoLegs ==
    ASSUME Typed, OiMatchesPositions, NEW a \in Parties, NEW b \in Parties, a # b,
           pos' \in [Parties -> Int], \A p \in Parties \ {a, b} : pos'[p] = pos[p],
           oi' = UpdateOi(UpdateOi(oi, pos[a], pos'[a]), pos[b], pos'[b])
    PROVE  /\ oi' \in [long : Nat, short : Nat] /\ OiMatchesPositions'
           /\ oi'.long = oi.long - LongPart(pos[a]) - LongPart(pos[b])
                          + LongPart(pos'[a]) + LongPart(pos'[b])
           /\ oi'.short = oi.short - ShortPart(pos[a]) - ShortPart(pos[b])
                          + ShortPart(pos'[a]) + ShortPart(pos'[b])
<1> DEFINE f == pos
           g == pos'
           x == g[a]
           y == g[b]
<1>1. f \in [Parties -> Int] /\ oi.long \in Nat /\ oi.short \in Nat
  BY DEF Typed
<1>2. /\ g \in [Parties -> Int] /\ g[a] = x /\ g[b] = y /\ x \in Int /\ y \in Int
      /\ \A p \in Parties \ {a, b} : g[p] = f[p]
  BY <1>1
<1> DEFINE LI(h) == SumFunctionOnSet([p \in Parties |-> LongPart(h[p])], Parties)
           SI(h) == SumFunctionOnSet([p \in Parties |-> ShortPart(h[p])], Parties)
<1>3. oi.long = LI(f) /\ oi.short = SI(f)
  BY DEF OiMatchesPositions, LongInterest, ShortInterest
<1>4. (OiMatchesPositions)' <=> oi'.long = LI(g) /\ oi'.short = SI(g)
  BY DEF OiMatchesPositions, LongInterest, ShortInterest
<1>5. /\ LongPart(f[a]) \in Nat /\ LongPart(f[b]) \in Nat
      /\ ShortPart(f[a]) \in Nat /\ ShortPart(f[b]) \in Nat
      /\ LongPart(x) \in Nat /\ LongPart(y) \in Nat /\ ShortPart(x) \in Nat /\ ShortPart(y) \in Nat
  BY <1>1, <1>2, PartsNat
<1>6. /\ oi'.long = SatSub(SatSub(oi.long, LongPart(f[a])) + LongPart(x), LongPart(f[b])) + LongPart(y)
      /\ oi'.short = SatSub(SatSub(oi.short, ShortPart(f[a])) + ShortPart(x), ShortPart(f[b])) + ShortPart(y)
      /\ oi' = [long |-> oi'.long, short |-> oi'.short]
  BY DEF UpdateOi
<1> HIDE DEF f, g, x, y
<1>7. /\ LongPart(f[a]) + LongPart(f[b]) <= LI(f)
      /\ ShortPart(f[a]) + ShortPart(f[b]) <= SI(f)
      /\ LI(g) = LI(f) - LongPart(f[a]) - LongPart(f[b]) + LongPart(g[a]) + LongPart(g[b])
      /\ SI(g) = SI(f) - ShortPart(f[a]) - ShortPart(f[b]) + ShortPart(g[a]) + ShortPart(g[b])
  BY <1>1, <1>2, InterestTwo
<1> HIDE DEF LI, SI
<1>8. oi'.long = oi.long - LongPart(f[a]) - LongPart(f[b]) + LongPart(x) + LongPart(y)
  <2> DEFINE A == LongPart(f[a])
             B == LongPart(f[b])
             C == LongPart(x)
             D == LongPart(y)
  <2>1. /\ oi.long \in Nat /\ A \in Nat /\ B \in Nat /\ C \in Nat /\ D \in Nat
        /\ A + B <= oi.long /\ oi'.long = SatSub(SatSub(oi.long, A) + C, B) + D
    BY <1>1, <1>3, <1>5, <1>6, <1>7
  <2> HIDE DEF A, B, C, D
  <2>2. oi'.long = oi.long - A - B + C + D
    BY <2>1 DEF SatSub
  <2> QED BY <2>2 DEF A, B, C, D
<1>9. oi'.short = oi.short - ShortPart(f[a]) - ShortPart(f[b]) + ShortPart(x) + ShortPart(y)
  <2> DEFINE A == ShortPart(f[a])
             B == ShortPart(f[b])
             C == ShortPart(x)
             D == ShortPart(y)
  <2>1. /\ oi.short \in Nat /\ A \in Nat /\ B \in Nat /\ C \in Nat /\ D \in Nat
        /\ A + B <= oi.short /\ oi'.short = SatSub(SatSub(oi.short, A) + C, B) + D
    BY <1>1, <1>3, <1>5, <1>6, <1>7
  <2> HIDE DEF A, B, C, D
  <2>2. oi'.short = oi.short - A - B + C + D
    BY <2>1 DEF SatSub
  <2> QED BY <2>2 DEF A, B, C, D
<1>10. oi'.long = LI(g) /\ oi'.short = SI(g)
  BY <1>2, <1>3, <1>7, <1>8, <1>9
<1>11. oi'.long \in Nat /\ oi'.short \in Nat
  BY <1>1, <1>3, <1>5, <1>7, <1>8, <1>9
<1>12. oi' \in [long : Nat, short : Nat]
  BY <1>6, <1>11
<1> QED BY <1>4, <1>8, <1>9, <1>10, <1>12 DEF f, g, x, y

(* One leg, the recovery's.                                                *)
LEMMA OiOneLeg ==
    ASSUME Typed, OiMatchesPositions, NEW a \in Parties,
           pos' = [pos EXCEPT ![a] = 0], oi' = UpdateOi(oi, pos[a], 0)
    PROVE  /\ pos' \in [Parties -> Int]
           /\ \A p \in Parties \ {a} : pos'[p] = pos[p]
           /\ oi' \in [long : Nat, short : Nat] /\ OiMatchesPositions'
<1> DEFINE f == pos
           g == pos'
<1>1. f \in [Parties -> Int] /\ oi.long \in Nat /\ oi.short \in Nat
  BY DEF Typed
<1>2. g \in [Parties -> Int] /\ g[a] = 0 /\ \A p \in Parties \ {a} : g[p] = f[p]
  BY <1>1
<1> DEFINE LI(h) == SumFunctionOnSet([p \in Parties |-> LongPart(h[p])], Parties)
           SI(h) == SumFunctionOnSet([p \in Parties |-> ShortPart(h[p])], Parties)
<1>3. oi.long = LI(f) /\ oi.short = SI(f)
  BY DEF OiMatchesPositions, LongInterest, ShortInterest
<1>4. (OiMatchesPositions)' <=> oi'.long = LI(g) /\ oi'.short = SI(g)
  BY DEF OiMatchesPositions, LongInterest, ShortInterest
<1>5. LongPart(f[a]) \in Nat /\ ShortPart(f[a]) \in Nat /\ LongPart(0) = 0 /\ ShortPart(0) = 0
  BY <1>1, PartsNat DEF LongPart, ShortPart
<1>6. /\ oi'.long = SatSub(oi.long, LongPart(f[a])) + 0
      /\ oi'.short = SatSub(oi.short, ShortPart(f[a])) + 0
      /\ oi' = [long |-> oi'.long, short |-> oi'.short]
  BY <1>5 DEF UpdateOi
<1> HIDE DEF f, g
<1>7. /\ LongPart(f[a]) <= LI(f) /\ ShortPart(f[a]) <= SI(f)
      /\ LI(g) = LI(f) - LongPart(f[a]) + LongPart(g[a])
      /\ SI(g) = SI(f) - ShortPart(f[a]) + ShortPart(g[a])
  BY <1>1, <1>2, InterestOne
<1> HIDE DEF LI, SI
<1>8. oi'.long = LI(g) /\ oi'.short = SI(g) /\ oi'.long \in Nat /\ oi'.short \in Nat
  BY <1>1, <1>2, <1>3, <1>5, <1>6, <1>7 DEF SatSub
<1>9. oi' \in [long : Nat, short : Nat]
  BY <1>6, <1>8
<1> QED BY <1>2, <1>4, <1>8, <1>9 DEF f, g

-----------------------------------------------------------------------------
(* The invariant is inductive.                                             *)

LEMMA InitInv == Init => Inv
<1> SUFFICES ASSUME Init PROVE Inv
  OBVIOUS
<1> USE DEF Init
<1>1. Typed
  <2>1. <<>> \in Seq(Committed)
    BY EmptySeq
  <2>2. matched \in 0..MaxFills
    BY SettlementAssumption
  <2>3. pos \in [Parties -> Int] /\ inflight \in [Traders -> Nat] /\ mixed \in [Traders -> 0..2]
    OBVIOUS
  <2>4. oi \in [long : Nat, short : Nat] /\ unsettled \in Nat
    OBVIOUS
  <2> QED BY <2>1, <2>2, <2>3, <2>4 DEF Typed, Statuses
<1> DEFINE lp == [p \in Parties |-> LongPart(pos[p])]
           sp == [p \in Parties |-> ShortPart(pos[p])]
<1>2. \A p \in Parties : lp[p] = 0 /\ sp[p] = 0
  BY DEF LongPart, ShortPart
<1>3. LongInterest = SumFunctionOnSet(lp, Parties) /\ ShortInterest = SumFunctionOnSet(sp, Parties)
  BY DEF LongInterest, ShortInterest
<1> HIDE DEF lp, sp
<1>4. OiMatchesPositions /\ OiBalancedUnlessForced
  BY <1>2, <1>3, PartiesFinite, SumZero DEF OiMatchesPositions, OiBalancedUnlessForced
<1>5. GapExact
  <2>1. DOMAIN queue = {}
    BY EmptySeq
  <2>2. Volume(queue) = 0 /\ \A p \in Traders : ReduceVolume(queue, p) = 0
    BY <2>1, SumEmpty DEF Volume, ReduceVolume
  <2> QED BY <2>2 DEF GapExact
<1>6. CapKept
  BY SettlementAssumption DEF CapKept
<1>7. GapSafe
  <2>1. DOMAIN queue = {}
    BY EmptySeq
  <2>2. ASSUME NEW p \in Traders PROVE Reducing(p)
    <3>1. inflight[p] <= Abs(pos[p])
      BY DEF Abs, Parties
    <3> QED BY <2>1, <3>1 DEF Reducing
  <2> QED BY <2>2 DEF GapSafe
<1> QED BY <1>1, <1>4, <1>5, <1>6, <1>7 DEF Inv

(* Moving d lots from one party to another raises neither side's interest  *)
(* by more than |d|, and both by the same.                                 *)
LEMMA TransferParts ==
    ASSUME NEW a \in Int, NEW b \in Int, NEW d \in Int, NEW z \in Nat, d = z \/ d = -z
    PROVE  /\ LongPart(a + d) + LongPart(b - d) - LongPart(a) - LongPart(b) <= z
           /\ LongPart(a + d) + LongPart(b - d) - LongPart(a) - LongPart(b)
                = ShortPart(a + d) + ShortPart(b - d) - ShortPart(a) - ShortPart(b)
BY DEF LongPart, ShortPart

(* A fill of z lots that reduces position a, which r + z pending lots fit: *)
(* the rest fits what is left, on the same side while there is a rest.     *)
LEMMA ReduceArith ==
    ASSUME NEW a \in Int, NEW r \in Nat, NEW z \in Nat \ {0}, NEW s \in Sides,
           r + z <= Abs(a), (a > 0) <=> (s = "buy")
    PROVE  /\ r <= Abs(a - Signed(s, z))
           /\ r > 0 => ((a - Signed(s, z) > 0) <=> (s = "buy"))
BY DEF Abs, Signed, Sides

(* What is known of a fill.                                                *)
LEMMA FillFacts ==
    ASSUME NEW f \in Committed
    PROVE  /\ f.taker \in Traders /\ f.taker \in Parties /\ f.maker \in Parties
           /\ f.taker # f.maker /\ f.side \in Sides /\ f.size \in Nat \ {0}
           /\ f.ro \in BOOLEAN /\ (f.ro => f.maker \in Traders)
BY SettlementAssumption DEF Committed, FillRecord, Parties

LEMMA SettleKeeps ==
    ASSUME Inv, queue # <<>>, Settle(Head(queue))
    PROVE  Inv'
<1> DEFINE f == Head(queue)
           a == f.taker
           b == f.maker
           z == f.size
           d == Signed(f.side, z)
<1>0. Typed /\ OiMatchesPositions /\ OiBalancedUnlessForced /\ GapExact /\ CapKept /\ GapSafe
  BY DEF Inv
<1>1. queue \in Seq(Committed) /\ f \in Committed /\ Tail(queue) \in Seq(Committed)
  <2>1. queue \in Seq(Committed)
    BY <1>0 DEF Typed
  <2> QED BY <2>1, HeadTailProperties
<1>2. /\ a \in Traders /\ a \in Parties /\ b \in Parties /\ a # b /\ f.side \in Sides
      /\ z \in Nat \ {0} /\ f.ro \in BOOLEAN /\ (f.ro => b \in Traders)
  BY <1>1, FillFacts
<1>3. d \in Int /\ (d = z \/ d = -z)
  BY <1>2 DEF Signed
<1>4. pos \in [Parties -> Int] /\ pos[a] \in Int /\ pos[b] \in Int
  BY <1>0, <1>2 DEF Typed
<1>5. /\ queue' = Tail(queue)
      /\ pos' = [pos EXCEPT ![a] = pos[a] + d, ![b] = pos[b] - d]
      /\ oi' = UpdateOi(UpdateOi(oi, pos[a], pos[a] + d), pos[b], pos[b] - d)
      /\ unsettled' = SatSub(unsettled, z) /\ inflight' = Released(f)
      /\ status' = BreakerStatus(oi')
      /\ mixed' = [p \in Traders |-> IF PendingOf(Tail(queue), p) = {} THEN 0 ELSE mixed[p]]
      /\ oracle' = oracle /\ held' = held /\ home' = home /\ delegated' = delegated
      /\ matched' = matched /\ forced' = forced
  BY DEF Settle, env, er
<1> DEFINE x == pos[a] + d
           y == pos[b] - d
<1>6. x \in Int /\ y \in Int
  BY <1>3, <1>4
<1>7. /\ pos' \in [Parties -> Int] /\ pos'[a] = x /\ pos'[b] = y
      /\ \A p \in Parties \ {a, b} : pos'[p] = pos[p]
      /\ oi' \in [long : Nat, short : Nat] /\ OiMatchesPositions'
      /\ oi'.long = oi.long - LongPart(pos[a]) - LongPart(pos[b]) + LongPart(x) + LongPart(y)
      /\ oi'.short = oi.short - ShortPart(pos[a]) - ShortPart(pos[b]) + ShortPart(x) + ShortPart(y)
  <2>1. /\ pos' = [pos EXCEPT ![a] = x, ![b] = y]
        /\ oi' = UpdateOi(UpdateOi(oi, pos[a], x), pos[b], y)
    BY <1>5
  <2>2. a \in Parties /\ b \in Parties /\ a # b
    BY <1>2
  <2> HIDE DEF x, y, a, b, d
  <2>3. /\ pos' \in [Parties -> Int] /\ pos'[a] = x /\ pos'[b] = y
        /\ \A p \in Parties \ {a, b} : pos'[p] = pos[p]
    BY <1>4, <1>6, <2>1, <2>2
  <2>4. oi' = UpdateOi(UpdateOi(oi, pos[a], pos'[a]), pos[b], pos'[b])
    BY <2>1, <2>3
  <2> QED BY <1>0, <2>2, <2>3, <2>4, OiTwoLegs
<1>8. /\ LongPart(x) + LongPart(y) - LongPart(pos[a]) - LongPart(pos[b]) <= z
      /\ LongPart(x) + LongPart(y) - LongPart(pos[a]) - LongPart(pos[b])
           = ShortPart(x) + ShortPart(y) - ShortPart(pos[a]) - ShortPart(pos[b])
  <2> HIDE DEF a, b, d, z
  <2> QED BY <1>2, <1>3, <1>4, TransferParts
<1>9. oi.long \in Nat /\ oi.short \in Nat /\ oi'.long \in Nat /\ oi'.short \in Nat
  BY <1>0, <1>7 DEF Typed
<1>9a. \E k \in Int : k <= z /\ oi'.long = oi.long + k /\ oi'.short = oi.short + k
  <2> DEFINE A == LongPart(pos[a])
             B == LongPart(pos[b])
             C == LongPart(x)
             D == LongPart(y)
             E == ShortPart(pos[a])
             F == ShortPart(pos[b])
             G == ShortPart(x)
             H == ShortPart(y)
  <2>1. /\ A \in Nat /\ B \in Nat /\ C \in Nat /\ D \in Nat
        /\ E \in Nat /\ F \in Nat /\ G \in Nat /\ H \in Nat
    <3> HIDE DEF x, y, a, b
    <3> QED BY <1>4, <1>6, PartsNat
  <2>2. C + D - A - B <= z /\ C + D - A - B = G + H - E - F
    BY <1>8
  <2>3. oi'.long = oi.long - A - B + C + D /\ oi'.short = oi.short - E - F + G + H
    BY <1>7
  <2> HIDE DEF A, B, C, D, E, F, G, H
  <2> DEFINE k == C + D - A - B
             l == oi'.long
             s == oi'.short
  <2>4. k \in Int /\ k <= z
    BY <2>1, <2>2
  <2>5. l = oi.long - A - B + C + D /\ l \in Nat /\ s = oi.short - E - F + G + H /\ s \in Nat
    BY <1>9, <2>3
  <2> DEFINE v == oi.long
             w == oi.short
  <2>6. /\ l = v - A - B + C + D /\ s = w - E - F + G + H /\ v \in Int /\ w \in Int
        /\ k = C + D - A - B /\ k = G + H - E - F
    BY <1>9, <2>2, <2>5
  <2> HIDE DEF l, s, v, w, k
  <2>7. v - A - B + C + D = v + k
    BY <2>1, <2>6, RegroupFour
  <2>8. w - E - F + G + H = w + k
    BY <2>1, <2>6, RegroupFour
  <2>9. l = v + k /\ s = w + k
    BY <2>6, <2>7, <2>8
  <2> QED BY <2>4, <2>9 DEF l, s, v, w
<1>10. /\ Volume(queue) = z + Volume(Tail(queue)) /\ Volume(Tail(queue)) \in Nat
       /\ \A p \in Traders :
            /\ ReduceVolume(queue, p) =
                 (IF f.ro /\ b = p THEN z ELSE 0) + ReduceVolume(Tail(queue), p)
            /\ ReduceVolume(Tail(queue), p) \in Nat
  <2> DEFINE q == queue
  <2>1. \A p : /\ Volume(q) = z + Volume(Tail(q))
               /\ ReduceVolume(q, p) = (IF f.ro /\ b = p THEN z ELSE 0) + ReduceVolume(Tail(q), p)
    BY <1>1, VolumeTail
  <2> DEFINE r == Tail(queue)
  <2>2. r \in Seq(Committed)
    BY <1>1
  <2> HIDE DEF r
  <2>3. Len(r) \in Nat /\ DOMAIN r = 1..Len(r) /\ IsSized(r)
    BY <2>2, FillsSized
  <2>4. \A p : Volume(r) \in Nat /\ ReduceVolume(r, p) \in Nat
    BY <2>3, VolumeNat
  <2> QED BY <2>1, <2>4 DEF r
<1>11. GapExact'
  <2>1. unsettled' = Volume(Tail(queue))
    BY <1>0, <1>2, <1>5, <1>10 DEF GapExact, SatSub
  <2>2. ASSUME NEW p \in Traders PROVE inflight'[p] = ReduceVolume(Tail(queue), p)
    <3>1. inflight \in [Traders -> Nat] /\ inflight[p] = ReduceVolume(queue, p)
      BY <1>0 DEF Typed, GapExact
    <3>2. CASE f.ro /\ b = p
      <4>1. inflight'[p] = SatSub(inflight[p], z)
        BY <1>2, <1>5, <3>1, <3>2 DEF Released
      <4> DEFINE v == inflight[p]
                 w == ReduceVolume(Tail(queue), p)
      <4>2. v = z + w /\ w \in Nat /\ z \in Nat
        BY <1>2, <1>10, <3>1, <3>2
      <4> HIDE DEF v, w, z
      <4>3. SatSub(v, z) = w
        BY <4>2 DEF SatSub
      <4> QED BY <4>1, <4>3 DEF v, w
    <3>3. CASE ~(f.ro /\ b = p)
      <4>1. inflight'[p] = inflight[p]
        BY <1>2, <1>5, <3>1, <3>3 DEF Released
      <4> QED BY <1>10, <3>1, <3>3, <4>1
    <3> QED BY <3>2, <3>3
  <2> QED BY <1>5, <2>1, <2>2 DEF GapExact
<1>12. Typed'
  <2>1. inflight' \in [Traders -> Nat]
    <3>1. inflight \in [Traders -> Nat]
      BY <1>0 DEF Typed
    <3> QED BY <3>1, <1>2, <1>5 DEF Released, SatSub
  <2>2. unsettled' \in Nat
    BY <1>5, <1>10, <1>11 DEF GapExact
  <2>3. status' \in Statuses
    <3>1. status' \in {"Paused", status} /\ status \in Statuses
      BY <1>0, <1>5 DEF BreakerStatus, Typed
    <3> QED BY <3>1 DEF Statuses
  <2>4. mixed' \in [Traders -> 0..2]
    <3>1. mixed \in [Traders -> 0..2] /\ 0 \in 0..2
      BY <1>0 DEF Typed
    <3> QED BY <1>5, <3>1
  <2>5. /\ oracle' \in OraclePrices \cup {0} /\ held' \subseteq Holds
        /\ home' \in {"L1", "ER"} /\ delegated' \in BOOLEAN
        /\ matched' \in 0..MaxFills /\ forced' \in BOOLEAN
    BY <1>0, <1>5 DEF Typed
  <2>6. queue' \in Seq(Committed)
    BY <1>1, <1>5, SMTT(30)
  <2> QED BY <1>7, <2>1, <2>2, <2>3, <2>4, <2>5, <2>6 DEF Typed
<1>13. OiBalancedUnlessForced'
  <2>1. oi'.long - oi.long = oi'.short - oi.short
    BY <1>9, <1>9a
  <2>2. oi.long \in Nat /\ oi.short \in Nat /\ oi'.long \in Nat /\ oi'.short \in Nat
    BY <1>7, <1>9
  <2> QED BY <1>0, <1>5, <2>1, <2>2 DEF OiBalancedUnlessForced
<1>14. CapKept'
  <2>1. oi'.long <= oi.long + z /\ oi'.short <= oi.short + z
    BY <1>2, <1>9, <1>9a
  <2>2. unsettled = z + unsettled' /\ unsettled' \in Nat
    BY <1>0, <1>5, <1>10, <1>11 DEF GapExact
  <2>3. oi'.long \in Nat /\ oi'.short \in Nat
    BY <1>7
  <2>4. OiCap > 0 /\ ~forced' => oi.long + unsettled <= OiCap /\ oi.short + unsettled <= OiCap
    BY <1>0, <1>5 DEF CapKept
  <2>5. OiCap \in Nat /\ z \in Nat /\ oi.long \in Nat /\ oi.short \in Nat
    BY <1>2, <1>9, SettlementAssumption
  <2> HIDE DEF z
  <2> QED BY <2>1, <2>2, <2>3, <2>4, <2>5, SMTT(30) DEF CapKept
<1>15. GapSafe'
  <2> DEFINE r == Tail(queue)
  <2>1. /\ Len(r) \in Nat /\ DOMAIN r = 1..Len(r) /\ IsSized(r)
        /\ \A i \in DOMAIN r : r[i] \in Committed /\ r[i].size \in Nat \ {0}
    BY <1>1, FillsSized
  <2>2. \A i \in DOMAIN r : i + 1 \in DOMAIN queue /\ r[i] = queue[i + 1]
    <3>1. Len(r) = Len(queue) - 1 /\ \A i \in 1..Len(r) : r[i] = queue[i + 1]
      BY <1>1, HeadTailProperties
    <3>2. DOMAIN queue = 1..Len(queue) /\ Len(queue) \in Nat
      BY <1>1, LenProperties
    <3> QED BY <2>1, <3>1, <3>2
  <2>3. 1 \in DOMAIN queue /\ queue[1] = f
    <3>1. DOMAIN queue = 1..Len(queue) /\ Len(queue) \in Nat /\ Len(queue) # 0
      BY <1>1, LenProperties, EmptySeq
    <3> QED BY <3>1
  <2> SUFFICES ASSUME NEW p \in Traders, mixed'[p] = 0 PROVE Reducing(p)'
    BY DEF GapSafe
  <2>4. inflight'[p] = ReduceVolume(r, p) /\ inflight'[p] \in Nat /\ p \in Parties /\ pos'[p] \in Int
    <3>1. p \in Parties
      BY DEF Parties
    <3>2. inflight'[p] = ReduceVolume(r, p)
      BY <1>5, <1>11 DEF GapExact
    <3>3. inflight'[p] \in Nat
      BY <1>12 DEF Typed
    <3>4. pos'[p] \in Int
      BY <1>7, <3>1
    <3> QED BY <3>1, <3>2, <3>3, <3>4
  <2>5. Abs(pos'[p]) \in Nat
    BY <2>4 DEF Abs
  <2>6. CASE PendingOf(r, p) = {}
    <3>1. \A i \in DOMAIN r : ~Involves(r[i], p)
      BY <2>6 DEF PendingOf
    <3>2. \A i \in 1..Len(r) : ~(r[i].ro /\ r[i].maker = p)
      BY <2>1, <3>1 DEF Involves
    <3> HIDE DEF r
    <3>3. ReduceVolume(r, p) = 0
      BY <2>1, <3>2, ReduceVolumeOf
    <3>4. queue' = r
      BY <1>5 DEF r
    <3> QED BY <2>4, <2>5, <3>1, <3>3, <3>4 DEF Reducing
  <2>7. CASE PendingOf(r, p) # {}
    <3>1. mixed[p] = 0
      BY <1>5, <2>7
    <3>2. Reducing(p)
      BY <1>0, <3>1 DEF GapSafe
    <3>3. \A i \in DOMAIN r : Involves(r[i], p) =>
            r[i].ro /\ r[i].maker = p /\ ((pos[p] > 0) <=> (r[i].side = "buy"))
      BY <2>2, <3>2 DEF Reducing
    <3>4. CASE ~Involves(f, p)
      <4>1. pos'[p] = pos[p]
        BY <1>7, <2>4, <3>4 DEF Involves
      <4>2. inflight'[p] = inflight[p]
        <5>1. inflight \in [Traders -> Nat] /\ b # p
          BY <1>0, <3>4, SMTT(30) DEF Typed, Involves
        <5> QED BY <5>1, <1>5 DEF Released
      <4> QED BY <1>5, <3>2, <3>3, <4>1, <4>2 DEF Reducing
    <3>5. CASE Involves(f, p)
      <4>1. f.ro /\ b = p /\ ((pos[p] > 0) <=> (f.side = "buy")) /\ inflight[p] <= Abs(pos[p])
        BY <2>3, <3>2, <3>5 DEF Reducing
      <4>2. inflight[p] = z + inflight'[p]
        <5>1. inflight[p] = ReduceVolume(queue, p)
          BY <1>0 DEF GapExact
        <5> QED BY <1>10, <2>4, <4>1, <5>1
      <4>3. pos'[p] = pos[p] - d
        BY <1>7, <4>1
      <4> DEFINE u == pos[p]
                 w == inflight'[p]
                 s == f.side
      <4>4. u \in Int /\ w \in Nat /\ w + z <= Abs(u) /\ ((u > 0) <=> (s = "buy")) /\ s \in Sides
        BY <1>2, <1>4, <2>4, <4>1, <4>2
      <4>5. /\ w <= Abs(u - Signed(s, z))
            /\ w > 0 => ((u - Signed(s, z) > 0) <=> (s = "buy"))
        <5> HIDE DEF u, w, s, z
        <5> QED BY <1>2, <4>4, ReduceArith
      <4>6. ASSUME NEW i \in DOMAIN r, Involves(r[i], p)
            PROVE  r[i].ro /\ r[i].maker = p /\ ((pos'[p] > 0) <=> (r[i].side = "buy"))
        <5>1. r[i].ro /\ r[i].maker = p /\ ((pos[p] > 0) <=> (r[i].side = "buy"))
          BY <3>3, <4>6
        <5>2. r[i].size <= ReduceVolume(r, p) /\ r[i].size \in Nat \ {0}
          <6> HIDE DEF r
          <6> QED BY <2>1, <5>1, ReduceVolumeOf
        <5>3. w > 0
          BY <2>4, <5>2
        <5> QED BY <4>1, <4>3, <4>5, <5>1, <5>3
      <4> QED BY <1>5, <4>3, <4>5, <4>6 DEF Reducing
    <3> QED BY <3>4, <3>5
  <2> QED BY <2>6, <2>7
<1> QED BY <1>7, <1>11, <1>12, <1>13, <1>14, <1>15 DEF Inv

(* Moving positions other than by settlement: those with pending fills are *)
(* marked, the others have nothing in flight.                              *)
LEMMA MovedApartKeeps ==
    ASSUME Inv, NEW ps, mixed' = MovedApart(ps), queue' = queue, inflight' = inflight,
           pos' \in [Parties -> Int], \A p \in Traders \ ps : pos'[p] = pos[p]
    PROVE  GapSafe' /\ mixed' \in [Traders -> 0..2]
<1>0. Typed /\ GapExact /\ GapSafe
  BY DEF Inv
<1>1. mixed' \in [Traders -> 0..2]
  BY <1>0 DEF MovedApart, Typed
<1>2. ASSUME NEW p \in Traders, mixed'[p] = 0 PROVE Reducing(p)'
  <2>1. CASE p \in ps /\ PendingOf(queue, p) = {}
    <3>1. \A i \in DOMAIN queue : ~Involves(queue[i], p)
      BY <2>1 DEF PendingOf
    <3>2. queue \in Seq(Committed)
      BY <1>0 DEF Typed
    <3>3. Len(queue) \in Nat /\ DOMAIN queue = 1..Len(queue) /\ IsSized(queue)
      BY <3>2, FillsSized
    <3>4. \A i \in 1..Len(queue) : ~(queue[i].ro /\ queue[i].maker = p)
      BY <3>1, <3>3 DEF Involves
    <3>5. ReduceVolume(queue, p) = 0
      BY <3>3, <3>4, ReduceVolumeOf
    <3>6. inflight'[p] = 0
      BY <1>0, <3>5 DEF GapExact
    <3>7. Abs(pos'[p]) \in Nat
      BY DEF Abs, Parties
    <3> QED BY <3>1, <3>6, <3>7 DEF Reducing
  <2>2. CASE p \in ps /\ PendingOf(queue, p) # {}
    BY <1>2, <2>2 DEF MovedApart
  <2>3. CASE p \notin ps
    <3>1. mixed[p] = 0 /\ pos'[p] = pos[p]
      BY <1>2, <2>3 DEF MovedApart
    <3>2. Reducing(p)
      BY <1>0, <3>1 DEF GapSafe
    <3> QED BY <3>1, <3>2 DEF Reducing
  <2> QED BY <2>1, <2>2, <2>3
<1> QED BY <1>1, <1>2 DEF GapSafe

(* Two opposite positions shrinking by n: n lots less on either side.      *)
LEMMA ShrinkParts ==
    ASSUME NEW a \in Int, NEW b \in Int, NEW n \in Nat, a # 0, b # 0, (a > 0) # (b > 0),
           n <= Abs(a), n <= Abs(b),
           NEW x, NEW y, x = (IF a > 0 THEN a - n ELSE a + n), y = (IF b > 0 THEN b - n ELSE b + n)
    PROVE  /\ x \in Int /\ y \in Int
           /\ LongPart(x) + LongPart(y) - LongPart(a) - LongPart(b) = -n
           /\ ShortPart(x) + ShortPart(y) - ShortPart(a) - ShortPart(b) = -n
BY DEF Abs, LongPart, ShortPart

LEMMA AutoDeleverageKeeps ==
    ASSUME Inv, NEW u \in Traders, NEW c \in Traders, NEW n, AutoDeleverage(u, c, n)
    PROVE  Inv'
<1>0. Typed /\ OiMatchesPositions /\ OiBalancedUnlessForced /\ GapExact /\ CapKept /\ GapSafe
  BY DEF Inv
<1> DEFINE a == pos[u]
           b == pos[c]
           x == IF pos[u] > 0 THEN pos[u] - n ELSE pos[u] + n
           y == IF pos[c] > 0 THEN pos[c] - n ELSE pos[c] + n
<1>1. /\ u # c /\ a # 0 /\ b # 0 /\ (a > 0) # (b > 0) /\ n \in 1..Min({Abs(a), Abs(b)})
      /\ pos' = [pos EXCEPT ![u] = x, ![c] = y]
      /\ oi' = UpdateOi(UpdateOi(oi, a, x), b, y)
      /\ mixed' = MovedApart({u, c})
      /\ queue' = queue /\ inflight' = inflight /\ unsettled' = unsettled /\ status' = status
      /\ oracle' = oracle /\ held' = held /\ home' = home /\ delegated' = delegated
      /\ matched' = matched /\ forced' = forced
  BY DEF AutoDeleverage, env, er
<1>2. a \in Int /\ b \in Int /\ pos \in [Parties -> Int] /\ u \in Parties /\ c \in Parties
  BY <1>0 DEF Typed, Parties
<1>3. n \in Nat /\ n <= Abs(a) /\ n <= Abs(b)
  <2>1. Abs(a) \in Int /\ Abs(b) \in Int
    BY <1>2 DEF Abs
  <2>2. Min({Abs(a), Abs(b)}) = IF Abs(a) <= Abs(b) THEN Abs(a) ELSE Abs(b)
    BY <2>1, MinOfTwo
  <2> QED BY <1>1, <2>1, <2>2
<1>4. /\ x \in Int /\ y \in Int
      /\ LongPart(x) + LongPart(y) - LongPart(a) - LongPart(b) = -n
      /\ ShortPart(x) + ShortPart(y) - ShortPart(a) - ShortPart(b) = -n
  <2>1. /\ a \in Int /\ b \in Int /\ a # 0 /\ b # 0 /\ (a > 0) # (b > 0)
        /\ x = (IF a > 0 THEN a - n ELSE a + n) /\ y = (IF b > 0 THEN b - n ELSE b + n)
    BY <1>1, <1>2
  <2> HIDE DEF a, b, x, y
  <2> QED BY <1>3, <2>1, ShrinkParts
<1>5. /\ pos' \in [Parties -> Int] /\ pos'[u] = x /\ pos'[c] = y
      /\ \A p \in Parties \ {u, c} : pos'[p] = pos[p]
  <2> HIDE DEF x, y
  <2> QED BY <1>1, <1>2, <1>4
<1>6. /\ oi' \in [long : Nat, short : Nat] /\ OiMatchesPositions'
      /\ oi'.long = oi.long - LongPart(a) - LongPart(b) + LongPart(x) + LongPart(y)
      /\ oi'.short = oi.short - ShortPart(a) - ShortPart(b) + ShortPart(x) + ShortPart(y)
  <2>1. oi' = UpdateOi(UpdateOi(oi, pos[u], pos'[u]), pos[c], pos'[c])
    <3> HIDE DEF x, y
    <3> QED BY <1>1, <1>5
  <2> HIDE DEF x, y
  <2> QED BY <1>0, <1>1, <1>2, <1>5, <2>1, OiTwoLegs
<1>7. /\ oi.long \in Nat /\ oi.short \in Nat /\ oi'.long \in Nat /\ oi'.short \in Nat
      /\ oi'.long = oi.long - n /\ oi'.short = oi.short - n
  <2> DEFINE A == LongPart(a)
             B == LongPart(b)
             C == LongPart(x)
             D == LongPart(y)
             E == ShortPart(a)
             F == ShortPart(b)
             G == ShortPart(x)
             H == ShortPart(y)
  <2>1. /\ A \in Nat /\ B \in Nat /\ C \in Nat /\ D \in Nat
        /\ E \in Nat /\ F \in Nat /\ G \in Nat /\ H \in Nat
    <3> HIDE DEF x, y, a, b
    <3> QED BY <1>2, <1>4, PartsNat
  <2>2. C + D - A - B = -n /\ G + H - E - F = -n
    BY <1>4
  <2>3. oi'.long = oi.long - A - B + C + D /\ oi'.short = oi.short - E - F + G + H
    BY <1>6
  <2>4. oi.long \in Nat /\ oi.short \in Nat /\ oi'.long \in Nat /\ oi'.short \in Nat
    BY <1>0, <1>6 DEF Typed
  <2> HIDE DEF A, B, C, D, E, F, G, H
  <2> DEFINE l == oi'.long
             s == oi'.short
  <2>5. l = oi.long - A - B + C + D /\ l \in Nat /\ s = oi.short - E - F + G + H /\ s \in Nat
    BY <2>3, <2>4
  <2> HIDE DEF l, s
  <2>6. l = oi.long - n
    BY <1>3, <2>1, <2>2, <2>4, <2>5
  <2>7. s = oi.short - n
    BY <1>3, <2>1, <2>2, <2>4, <2>5
  <2> QED BY <2>4, <2>6, <2>7 DEF l, s
<1>8. GapSafe' /\ mixed' \in [Traders -> 0..2]
  <2>1. \A p \in Traders \ {u, c} : pos'[p] = pos[p]
    BY <1>5 DEF Parties
  <2> HIDE DEF x, y
  <2> QED BY <1>1, <1>5, <2>1, MovedApartKeeps
<1>9. Typed'
  <2> HIDE DEF x, y
  <2> QED BY <1>0, <1>1, <1>5, <1>6, <1>8 DEF Typed
<1>10. GapExact'
  BY <1>0, <1>1 DEF GapExact
<1>11. OiBalancedUnlessForced'
  BY <1>0, <1>1, <1>3, <1>7 DEF OiBalancedUnlessForced
<1>12. CapKept'
  <2>1. OiCap > 0 /\ ~forced' => oi.long + unsettled <= OiCap /\ oi.short + unsettled <= OiCap
    BY <1>0, <1>1 DEF CapKept
  <2>2. OiCap \in Nat /\ unsettled \in Nat /\ unsettled' = unsettled
    BY <1>0, <1>1, SettlementAssumption DEF Typed
  <2> QED BY <1>3, <1>7, <2>1, <2>2 DEF CapKept
<1> QED BY <1>6, <1>8, <1>9, <1>10, <1>11, <1>12 DEF Inv

LEMMA ForceReduceKeeps ==
    ASSUME Inv, NEW p \in Traders, NEW dead, ForceReducePositionOracle(p, dead)
    PROVE  Inv'
<1>0. Typed /\ OiMatchesPositions /\ GapExact
  BY DEF Inv
<1>1. /\ pos' = [pos EXCEPT ![p] = 0] /\ oi' = UpdateOi(oi, pos[p], 0)
      /\ forced' = TRUE /\ mixed' = MovedApart({p})
      /\ queue' = queue /\ inflight' = inflight /\ unsettled' = unsettled /\ status' = status
      /\ oracle' = oracle /\ held' = held /\ home' = home /\ delegated' = delegated /\ matched' = matched
  BY DEF ForceReducePositionOracle, env, er
<1>2. p \in Parties
  BY DEF Parties
<1>3. /\ pos' \in [Parties -> Int] /\ \A r \in Parties \ {p} : pos'[r] = pos[r]
      /\ oi' \in [long : Nat, short : Nat] /\ OiMatchesPositions'
  BY <1>0, <1>1, <1>2, OiOneLeg
<1>4. GapSafe' /\ mixed' \in [Traders -> 0..2]
  <2>1. \A r \in Traders \ {p} : pos'[r] = pos[r]
    BY <1>3 DEF Parties
  <2> QED BY <1>1, <1>3, <2>1, MovedApartKeeps
<1>5. Typed'
  BY <1>0, <1>1, <1>3, <1>4 DEF Typed
<1>6. GapExact' /\ OiBalancedUnlessForced' /\ CapKept'
  BY <1>0, <1>1 DEF GapExact, OiBalancedUnlessForced, CapKept
<1> QED BY <1>3, <1>4, <1>5, <1>6 DEF Inv

(* The lots an order on side s may take from a position of u lots.         *)
LEMMA ReducibleArith ==
    ASSUME Typed, NEW p \in Traders, NEW s \in Sides, NEW v \in Nat, NEW r \in Nat
    PROVE  /\ Reducible(p, s, r, v) \in Nat /\ Reducible(p, s, r, v) <= v
           /\ v <= Reducible(p, s, r, v) /\ v > 0 =>
                v <= r /\ ((pos[p] > 0) <=> (s = "sell"))
<1>1. Min({v, r}) = IF v <= r THEN v ELSE r
  BY MinOfTwo
<1> QED BY <1>1 DEF Reducible

(* The fills a walk of the book commits.                                   *)
LEMMA LegFacts ==
    ASSUME NEW legs \in Legs
    PROVE  /\ Len(legs) \in Nat /\ DOMAIN legs = 1..Len(legs) /\ IsSized(legs)
           /\ \A k \in DOMAIN legs :
                /\ legs[k].maker \in Parties /\ legs[k].size \in Sizes
                /\ legs[k].px \in QuotePrices \cup {0} /\ legs[k].ro \in BOOLEAN
                /\ legs[k].ro => legs[k].maker \in Traders
<1> DEFINE Leg == [maker : Traders, size : Sizes, px : {0}, ro : BOOLEAN]
                    \cup [maker : Pools, size : Sizes, px : QuotePrices, ro : {FALSE}]
<1>1. PICK n \in 1..MaxBatch : legs \in [1..n -> Leg]
  BY DEF Legs
<1>2. n \in Nat
  BY SettlementAssumption
<1>3. legs \in Seq(Leg) /\ Len(legs) = n
  <2> HIDE DEF Leg
  <2> QED BY <1>1, <1>2, FunctionSeq
<1>4. \A l \in Leg : /\ l.maker \in Parties /\ l.size \in Sizes
                     /\ l.px \in QuotePrices \cup {0} /\ l.ro \in BOOLEAN
                     /\ l.ro => l.maker \in Traders
  BY DEF Parties
<1>5. \A k \in DOMAIN legs : legs[k] \in Leg
  <2> HIDE DEF Leg
  <2> QED BY <1>1
<1> HIDE DEF Leg
<1>6. IsSized(legs)
  BY <1>4, <1>5, SettlementAssumption DEF IsSized
<1> QED BY <1>1, <1>2, <1>3, <1>4, <1>5, <1>6

LEMMA PlaceTakerOrderKeeps ==
    ASSUME Inv, NEW t \in Traders, NEW s \in Sides, NEW ro, NEW want, NEW legs \in Legs,
           Volume(legs) = want, PlaceTakerOrder(t, s, ro, want, legs)
    PROVE  Inv'
<1> DEFINE fills == [k \in DOMAIN legs |->
                       [taker |-> t, side |-> s, maker |-> legs[k].maker,
                        size |-> legs[k].size, px |-> legs[k].px, ro |-> legs[k].ro]]
<1>0. Typed /\ OiMatchesPositions /\ OiBalancedUnlessForced /\ GapExact /\ CapKept /\ GapSafe
  BY DEF Inv
<1>1. /\ matched + Len(legs) <= MaxFills
      /\ Admitted(t, s, ro, want) /\ WalkAdmits(t, s, TakerSize(t, s, ro, want), legs)
      /\ queue' = queue \o fills
      /\ inflight' = [p \in Traders |-> inflight[p] + ReduceVolume(legs, p)]
      /\ unsettled' = unsettled + Volume(legs)
      /\ matched' = matched + Len(legs)
      /\ mixed' = [p \in Traders |->
                     IF \/ p = t
                        \/ \E k \in DOMAIN legs : legs[k].maker = p /\ ~legs[k].ro
                     THEN Max({mixed[p], 1}) ELSE mixed[p]]
      /\ pos' = pos /\ oi' = oi /\ status' = status /\ forced' = forced
      /\ oracle' = oracle /\ held' = held /\ home' = home /\ delegated' = delegated
  BY DEF PlaceTakerOrder, env, er
<1>2. /\ Len(legs) \in Nat /\ DOMAIN legs = 1..Len(legs) /\ IsSized(legs)
      /\ \A k \in DOMAIN legs :
           /\ legs[k].maker \in Parties /\ legs[k].size \in Sizes
           /\ legs[k].px \in QuotePrices \cup {0} /\ legs[k].ro \in BOOLEAN
           /\ legs[k].ro => legs[k].maker \in Traders
  BY LegFacts
<1>3. \A k \in DOMAIN legs : legs[k].maker # t
  BY <1>1 DEF WalkAdmits
<1>4. fills \in Seq(Committed) /\ DOMAIN fills = DOMAIN legs
  <2>1. ASSUME NEW k \in DOMAIN legs PROVE fills[k] \in Committed
    BY <1>2, <1>3 DEF Committed, FillRecord
  <2>2. DOMAIN fills = 1..Len(legs) /\ fills = [k \in 1..Len(legs) |-> fills[k]]
    BY <1>2
  <2> HIDE DEF fills
  <2>3. \A k \in 1..Len(legs) : fills[k] \in Committed
    BY <1>2, <2>1
  <2> QED BY <1>2, <2>2, <2>3, FunctionSeq
<1>5. \A k \in DOMAIN fills :
        /\ fills[k].size = legs[k].size /\ fills[k].ro = legs[k].ro
        /\ fills[k].maker = legs[k].maker /\ fills[k].taker = t /\ fills[k].side = s
  OBVIOUS
<1> HIDE DEF fills
<1>6. \A p : Volume(legs) \in Nat /\ ReduceVolume(legs, p) \in Nat
  BY <1>2, VolumeNat
<1>7. queue \in Seq(Committed) /\ queue \o fills \in Seq(Committed)
  <2>1. queue \in Seq(Committed)
    BY <1>0 DEF Typed
  <2> QED BY <1>4, <2>1, ConcatProperties
<1>8. \A p : /\ Volume(queue \o fills) = Volume(queue) + Volume(legs)
             /\ ReduceVolume(queue \o fills, p) = ReduceVolume(queue, p) + ReduceVolume(legs, p)
  BY <1>4, <1>5, <1>7, VolumeConcat
<1>9. inflight \in [Traders -> Nat] /\ unsettled \in Nat /\ mixed \in [Traders -> 0..2]
  BY <1>0 DEF Typed
<1>10. \A p \in Traders : Max({mixed[p], 1}) \in 1..2
  <2> TAKE p \in Traders
  <2>1. mixed[p] \in 0..2
    BY <1>9
  <2>2. Max({mixed[p], 1}) = IF mixed[p] >= 1 THEN mixed[p] ELSE 1
    BY <2>1, MaxOfTwo
  <2> QED BY <2>1, <2>2
<1>11. Typed'
  <2>1. inflight' \in [Traders -> Nat] /\ unsettled' \in Nat
    BY <1>1, <1>6, <1>9
  <2>2. mixed' \in [Traders -> 0..2]
    <3>1. \A p \in Traders : Max({mixed[p], 1}) \in 0..2 /\ mixed[p] \in 0..2
      BY <1>9, <1>10
    <3> QED BY <1>1, <3>1
  <2>3. matched' \in 0..MaxFills
    <3>1. matched \in 0..MaxFills
      BY <1>0 DEF Typed
    <3> QED BY <1>1, <1>2, <3>1, SettlementAssumption
  <2> QED BY <1>0, <1>1, <1>7, <2>1, <2>2, <2>3 DEF Typed
<1>12. OiMatchesPositions'
  BY <1>0, <1>1 DEF OiMatchesPositions, LongInterest, ShortInterest
<1>13. OiBalancedUnlessForced'
  BY <1>0, <1>1 DEF OiBalancedUnlessForced
<1>14. GapExact'
  BY <1>0, <1>1, <1>8 DEF GapExact
<1>15. CapKept'
  <2> DEFINE size == TakerSize(t, s, ro, want)
  <2>1. size \in Nat
    <3>1. want \in Nat /\ pos[t] \in Int
      BY <1>0, <1>6 DEF Typed, Parties
    <3>2. Abs(pos[t]) \in Nat
      BY <3>1 DEF Abs
    <3>3. Reducible(t, s, Abs(pos[t]), want) \in Nat
      BY <1>0, <3>1, <3>2, ReducibleArith
    <3> QED BY <3>1, <3>3 DEF TakerSize
  <2>2. Volume(legs) <= size /\ (OiCap = 0 \/ OiSide(s) + unsettled + size <= OiCap)
    BY <1>1 DEF WalkAdmits, Admitted, OiAdmits
  <2> HIDE DEF size
  <2>3. oi.long \in Nat /\ oi.short \in Nat /\ OiCap \in Nat
    BY <1>0, SettlementAssumption DEF Typed
  <2>4. ~forced => OiSide(s) = oi.long /\ OiSide(s) = oi.short
    BY <1>0 DEF OiBalancedUnlessForced, OiSide
  <2>5. OiCap > 0 /\ ~forced => oi.long + unsettled + size <= OiCap /\ oi.short + unsettled + size <= OiCap
    BY <2>2, <2>3, <2>4
  <2>6. OiCap > 0 /\ ~forced =>
          oi.long + (unsettled + Volume(legs)) <= OiCap /\ oi.short + (unsettled + Volume(legs)) <= OiCap
    <3> DEFINE v == Volume(legs)
    <3>1. v \in Nat /\ v <= size
      BY <1>6, <2>2
    <3> HIDE DEF v
    <3>2. OiCap > 0 /\ ~forced =>
            oi.long + (unsettled + v) <= OiCap /\ oi.short + (unsettled + v) <= OiCap
      BY <1>9, <2>1, <2>3, <2>5, <3>1
    <3> QED BY <3>2 DEF v
  <2> QED BY <1>1, <2>6 DEF CapKept
<1>16. GapSafe'
  <2> SUFFICES ASSUME NEW p \in Traders, mixed'[p] = 0 PROVE Reducing(p)'
    BY DEF GapSafe
  <2> DEFINE Others == p = t \/ \E k \in DOMAIN legs : legs[k].maker = p /\ ~legs[k].ro
  <2>0. mixed'[p] = IF Others THEN Max({mixed[p], 1}) ELSE mixed[p]
    BY <1>1
  <2>1. p # t /\ (\A k \in DOMAIN legs : legs[k].maker = p => legs[k].ro) /\ mixed[p] = 0
    <3>1. ~Others /\ mixed[p] = 0
      <4> HIDE DEF Others
      <4> QED BY <1>10, <2>0
    <3> QED BY <3>1
  <2>2. Reducing(p)
    BY <1>0, <2>1 DEF GapSafe
  <2> DEFINE v == ReduceVolume(legs, p)
             r == SatSub(Abs(pos[p]), inflight[p])
  <2>3. v \in Nat /\ v <= Reducible(p, Opposite(s), r, v)
    BY <1>1, <1>6 DEF WalkAdmits
  <2>4. pos[p] \in Int /\ Abs(pos[p]) \in Nat /\ inflight[p] \in Nat /\ r \in Nat
    <3>1. pos[p] \in Int
      BY <1>0 DEF Typed, Parties
    <3> QED BY <1>9, <3>1 DEF Abs, SatSub
  <2>5. v > 0 => v <= r /\ ((pos[p] > 0) <=> (s = "buy"))
    <3>1. Opposite(s) \in Sides /\ ((Opposite(s) = "sell") <=> (s = "buy"))
      BY DEF Opposite, Sides
    <3> HIDE DEF v, r
    <3>2. v > 0 => v <= r /\ ((pos[p] > 0) <=> (Opposite(s) = "sell"))
      BY <1>0, <2>3, <2>4, <3>1, ReducibleArith
    <3> QED BY <3>1, <3>2
  <2>6. inflight'[p] <= Abs(pos'[p])
    <3>1. inflight'[p] = inflight[p] + v /\ Abs(pos'[p]) = Abs(pos[p])
      BY <1>1
    <3>2. inflight[p] <= Abs(pos[p])
      BY <2>2 DEF Reducing
    <3> DEFINE w == Abs(pos[p])
    <3>3. r = (IF w > inflight[p] THEN w - inflight[p] ELSE 0) /\ w \in Nat /\ inflight[p] <= w
      BY <2>4, <3>2 DEF SatSub
    <3> HIDE DEF v, r, w
    <3>4. inflight[p] + v <= w
      BY <2>3, <2>4, <2>5, <3>3
    <3> QED BY <3>1, <3>4 DEF w
  <2>7. ASSUME NEW k \in DOMAIN fills, Involves(fills[k], p)
        PROVE  fills[k].ro /\ fills[k].maker = p /\ ((pos[p] > 0) <=> (fills[k].side = "buy"))
    <3>1. legs[k].maker = p /\ legs[k].ro /\ k \in DOMAIN legs
      BY <1>4, <1>5, <2>1, <2>7 DEF Involves
    <3>2. legs[k].size <= v /\ legs[k].size \in Nat \ {0}
      <4>1. legs[k].size \in Nat \ {0} /\ k \in 1..Len(legs)
        BY <1>2, <3>1, SettlementAssumption
      <4>2. \A i \in 1..Len(legs) : legs[i].ro /\ legs[i].maker = p => legs[i].size <= v
        BY <1>2, ReduceVolumeOf
      <4> QED BY <3>1, <4>1, <4>2
    <3>3. v > 0
      <4> HIDE DEF v
      <4> QED BY <2>3, <3>2
    <3> QED BY <1>5, <2>5, <3>1, <3>3
  <2>8. ASSUME NEW i \in DOMAIN (queue \o fills), Involves((queue \o fills)[i], p)
        PROVE  /\ (queue \o fills)[i].ro /\ (queue \o fills)[i].maker = p
               /\ (pos[p] > 0) <=> ((queue \o fills)[i].side = "buy")
    <3> DEFINE n == Len(queue)
               c == queue \o fills
    <3>1. /\ Len(c) = n + Len(fills) /\ DOMAIN c = 1..Len(c) /\ n \in Nat /\ Len(fills) \in Nat
          /\ DOMAIN queue = 1..n /\ DOMAIN fills = 1..Len(fills)
          /\ \A j \in 1..Len(c) : c[j] = IF j <= n THEN queue[j] ELSE fills[j - n]
      BY <1>4, <1>7, ConcatProperties, LenProperties
    <3>2. CASE i <= n
      <4>1. i \in DOMAIN queue /\ c[i] = queue[i]
        BY <3>1, <3>2
      <4> QED BY <2>2, <2>8, <4>1 DEF Reducing
    <3>3. CASE ~(i <= n)
      <4>1. i - n \in DOMAIN fills /\ c[i] = fills[i - n]
        BY <3>1, <3>3
      <4> QED BY <2>7, <2>8, <4>1
    <3> QED BY <3>2, <3>3
  <2> QED BY <1>1, <2>6, <2>8 DEF Reducing
<1> QED BY <1>11, <1>12, <1>13, <1>14, <1>15, <1>16 DEF Inv

(* The steps that touch neither positions, open interest nor the ring.     *)
LEMMA QuietStepsKeep ==
    ASSUME Inv, pos' = pos, oi' = oi, queue' = queue, inflight' = inflight,
           unsettled' = unsettled, matched' = matched, forced' = forced, mixed' = mixed,
           status' \in Statuses, oracle' \in OraclePrices \cup {0},
           held' \subseteq Holds,
           home' \in {"L1", "ER"}, delegated' \in BOOLEAN
    PROVE  Inv'
<1>0. Typed /\ OiMatchesPositions /\ OiBalancedUnlessForced /\ GapExact /\ CapKept /\ GapSafe
  BY DEF Inv
<1>1. Typed'
  BY <1>0 DEF Typed
<1>2. OiMatchesPositions' /\ OiBalancedUnlessForced' /\ CapKept'
  BY <1>0 DEF OiMatchesPositions, LongInterest, ShortInterest, OiBalancedUnlessForced, CapKept
<1>3. GapExact' /\ GapSafe'
  BY <1>0 DEF GapExact, GapSafe, Reducing
<1> QED BY <1>1, <1>2, <1>3 DEF Inv

LEMMA StepKeeps == Inv /\ [Next]_vars => Inv'
<1> SUFFICES ASSUME Inv, [Next]_vars PROVE Inv'
  OBVIOUS
<1>0. /\ Typed /\ GapExact
      /\ status \in Statuses /\ oracle \in OraclePrices \cup {0} /\ held \subseteq Holds
      /\ home \in {"L1", "ER"} /\ delegated \in BOOLEAN
  BY DEF Inv, Typed
<1>1. CASE Match
  <2>1. PICK t \in Traders, s \in Sides, ro \in BOOLEAN, want \in Wants :
          \E legs \in LegsOf[want] : PlaceTakerOrder(t, s, ro, want, legs)
    BY <1>1 DEF Match
  <2>2. PICK legs \in LegsOf[want] : PlaceTakerOrder(t, s, ro, want, legs)
    BY <2>1
  <2>3. legs \in Legs /\ Volume(legs) = want
    BY <2>2 DEF LegsOf
  <2> QED BY <2>2, <2>3, PlaceTakerOrderKeeps
<1>2. CASE ApplyFill \/ ApplyLpFill
  BY <1>2, SettleKeeps DEF ApplyFill, ApplyLpFill
<1>3. CASE ReconcileUnsettledFillVolume
  <2>1. Volume(queue) = 0
    <3>1. queue = <<>> /\ DOMAIN queue = {}
      BY <1>3, EmptySeq DEF ReconcileUnsettledFillVolume
    <3> QED BY <3>1, SumEmpty DEF Volume
  <2>2. unsettled' = unsettled
    BY <1>0, <1>3, <2>1 DEF ReconcileUnsettledFillVolume, GapExact
  <2> QED BY <1>0, <1>3, <2>2, QuietStepsKeep DEF ReconcileUnsettledFillVolume, env, er
<1>4. CASE \E u, c \in Traders : \E n \in 1..Abs(pos[u]) : AutoDeleverage(u, c, n)
  BY <1>4, AutoDeleverageKeeps
<1>5. CASE \E p \in Traders, dead \in BOOLEAN : ForceReducePositionOracle(p, dead)
  BY <1>5, ForceReduceKeeps
<1>6. CASE \E idle \in BOOLEAN : VerifyMarketInvariants(idle)
  <2>1. status' \in Statuses
    BY <1>0, <1>6 DEF VerifyMarketInvariants, Statuses
  <2> QED BY <1>0, <1>6, <2>1, QuietStepsKeep DEF VerifyMarketInvariants, env, er
<1>7. CASE \E new \in Statuses : SetMarketStatus(new)
  BY <1>0, <1>7, QuietStepsKeep DEF SetMarketStatus, env, er
<1>8. CASE DelegateMarketBook
  BY <1>0, <1>8, QuietStepsKeep DEF DelegateMarketBook
<1>9. CASE ProcessUndelegation
  BY <1>0, <1>9, QuietStepsKeep DEF ProcessUndelegation
<1>10. CASE ClearBookDelegation
  <2>1. status' \in Statuses
    BY <1>10 DEF ClearBookDelegation, Statuses
  <2> QED BY <1>0, <1>10, <2>1, QuietStepsKeep DEF ClearBookDelegation
<1>11. CASE (\E px \in OraclePrices : UpdateOracle(px)) \/ OracleAges
  BY <1>0, <1>11, QuietStepsKeep DEF UpdateOracle, OracleAges, er
<1>12. CASE InitializeHaircutState \/ (\E yes \in BOOLEAN : ExecuteParamUpdate(yes)
                                                            \/ OtherMarketsFill(yes))
  <2>1. PICK new \in SUBSET Holds : Holding(new)
    <3>1. CASE InitializeHaircutState
      BY <1>0, <3>1 DEF InitializeHaircutState
    <3>2. CASE \E yes \in BOOLEAN : ExecuteParamUpdate(yes)
      BY <1>0, <3>2 DEF ExecuteParamUpdate
    <3>3. CASE \E yes \in BOOLEAN : OtherMarketsFill(yes)
      BY <1>0, <3>3 DEF OtherMarketsFill
    <3> QED BY <1>12, <3>1, <3>2, <3>3
  <2> QED BY <1>0, <2>1, QuietStepsKeep DEF Holding
<1>13. CASE UNCHANGED vars
  BY <1>0, <1>13, QuietStepsKeep DEF vars
<1> QED
  BY <1>1, <1>2, <1>3, <1>4, <1>5, <1>6, <1>7, <1>8, <1>9, <1>10, <1>11, <1>12, <1>13 DEF Next

LEMMA Invariance == Spec => []Inv
BY InitInv, StepKeeps, PTL DEF Spec

-----------------------------------------------------------------------------
(* The three invariants of the gap.                                        *)

(* Open interest, which settlement, deleveraging and the recovery maintain *)
(* by saturating increments, is at all times the sum of the positions'     *)
(* long and short parts; the saturation never bites.  (update_oi)          *)
THEOREM OpenInterestIsExact == Spec => []OiExact
<1>1. Inv => OiExact
  <2> SUFFICES ASSUME Inv PROVE OiExact
    OBVIOUS
  <2>1. Typed /\ OiMatchesPositions /\ OiBalancedUnlessForced
    BY DEF Inv
  <2>2. \A i \in DOMAIN queue : queue[i] \in FillRecord
    <3>1. queue \in Seq(Committed)
      BY <2>1 DEF Typed
    <3>2. \A i \in DOMAIN queue : queue[i] \in Committed
      BY <3>1, FillsSized
    <3> QED BY <3>2 DEF Committed
  <2>3. TypeOK
    BY <2>1, <2>2 DEF Typed, TypeOK, FillRecord
  <2> QED BY <2>1, <2>3 DEF OiExact
<1> QED BY <1>1, Invariance, PTL

(* However many takers are matched before anything settles, open interest  *)
(* and what is matched stay within max_oi_base_lots.  (place_taker_order)  *)
THEOREM OpenInterestIsCapped == Spec => []OiCapHolds
<1>1. Inv => OiCapHolds
  <2> SUFFICES ASSUME Inv, OiCap > 0, ~forced PROVE Max({oi.long, oi.short}) + unsettled <= OiCap
    BY DEF OiCapHolds
  <2>1. oi.long \in Nat /\ oi.short \in Nat
    BY DEF Inv, Typed
  <2>2. Max({oi.long, oi.short}) = IF oi.long >= oi.short THEN oi.long ELSE oi.short
    BY <2>1, MaxOfTwo
  <2>3. oi.long + unsettled <= OiCap /\ oi.short + unsettled <= OiCap
    BY DEF Inv, CapKept
  <2> QED BY <2>2, <2>3
<1> QED BY <1>1, Invariance, PTL

(* The reduce-only maker lots in the ring fit the position they are to     *)
(* reduce, unless something else moves it meanwhile.  (inflight_sub)       *)
THEOREM ReduceOnlyFitsThePosition == Spec => []ReduceOnlyMakerSafe
<1>1. Inv => ReduceOnlyMakerSafe
  BY DEF Inv, GapSafe, Reducing, ReduceOnlyMakerSafe
<1> QED BY <1>1, Invariance, PTL
=============================================================================
