---------------------------- MODULE LedgerProofs ----------------------------
(***************************************************************************)
(* The vault covers the claims: for any number of traders, any sizes,      *)
(* prices, fees, contribution rate and funding steps, no order of the      *)
(* ledger's handlers mints money.                                          *)
(*                                                                         *)
(* Handlers work on a copy m of the claims.  Each stage of one is shown to *)
(* keep the copy well typed (Books) and to change two measures in a known  *)
(* way: what is owed out of the vault (Held) and the cost of the open      *)
(* positions (BasisOf).  A fill moves the two legs' cost and realized PnL  *)
(* by at least the traded value on one side and minus that on the other,   *)
(* because entries are rounded against the trader, so both cancel.         *)
(***************************************************************************)
EXTENDS Ledger, SumTheorems

Pots == [fund : Nat, fees : Nat, residual : Nat, maturedTotal : Nat, dust : Nat]
Books == [acct : [Traders -> Accounts], pot : Pots, uncovered : Nat]

BasisOf(a) == SumOver([t \in Traders |-> a[t].lots * a[t].entry])
MaturedOf(a) == SumOver([t \in Traders |-> a[t].matured])
Held(m) == Collateral(m.acct) + m.pot.fund + m.pot.fees

(* Positions and matured gains are the same in both account maps.          *)
SamePositions(a, b) ==
    \A s \in Traders : a[s].lots = b[s].lots /\ a[s].entry = b[s].entry /\ a[s].matured = b[s].matured

(* From a to b, an isolated bucket has protected the cross pool.           *)
Protects(a, b) == \A s \in Traders : a[s].iso > 0 => b[s].cross >= a[s].cross

-----------------------------------------------------------------------------
LEMMA MeasuresInt ==
    ASSUME LedgerAssumption, NEW a \in [Traders -> Accounts]
    PROVE  Collateral(a) \in Nat /\ BasisOf(a) \in Int /\ MaturedOf(a) \in Nat
           /\ \A t \in Traders : a[t].matured <= MaturedOf(a)
<1>1. IsFiniteSet(Traders)
  BY DEF LedgerAssumption
<1>2. \A t \in Traders : /\ a[t].cross \in Nat /\ a[t].iso \in Nat /\ a[t].lots \in Int
                         /\ a[t].entry \in Nat /\ a[t].matured \in Nat
  BY DEF Accounts
<1>3. Collateral(a) \in Nat
  <2> DEFINE f == [t \in Traders |-> a[t].cross + a[t].iso]
  <2>1. \A t \in Traders : f[t] \in Nat
    BY <1>2
  <2> HIDE DEF f
  <2>2. SumFunctionOnSet(f, Traders) \in Nat
    BY <1>1, <2>1, SumNat
  <2> QED BY <2>2 DEF Collateral, SumOver, f
<1>4. BasisOf(a) \in Int
  <2> DEFINE f == [t \in Traders |-> a[t].lots * a[t].entry]
  <2>1. \A t \in Traders : f[t] \in Int
    BY <1>2
  <2> HIDE DEF f
  <2>2. SumFunctionOnSet(f, Traders) \in Int
    BY <1>1, <2>1, SumInt
  <2> QED BY <2>2 DEF BasisOf, SumOver, f
<1>5. MaturedOf(a) \in Nat /\ \A t \in Traders : a[t].matured <= MaturedOf(a)
  <2> DEFINE f == [t \in Traders |-> a[t].matured]
  <2>1. \A t \in Traders : f[t] = a[t].matured
    OBVIOUS
  <2> HIDE DEF f
  <2>2. \A t \in Traders : f[t] \in Nat
    BY <1>2, <2>1
  <2>3. SumFunctionOnSet(f, Traders) \in Nat /\ \A t \in Traders : f[t] <= SumFunctionOnSet(f, Traders)
    BY <1>1, <2>2, SumNat
  <2>4. MaturedOf(a) = SumFunctionOnSet(f, Traders)
    BY DEF MaturedOf, SumOver, f
  <2> QED BY <2>1, <2>3, <2>4
<1> QED BY <1>3, <1>4, <1>5

(* When one account changes, the totals change by what it changes by.      *)
LEMMA AccountMoves ==
    ASSUME LedgerAssumption, NEW a \in [Traders -> Accounts], NEW b \in [Traders -> Accounts],
           NEW t \in Traders, \A s \in Traders \ {t} : b[s] = a[s]
    PROVE  /\ Collateral(b) = Collateral(a) - (a[t].cross + a[t].iso) + (b[t].cross + b[t].iso)
           /\ BasisOf(b) = BasisOf(a) - a[t].lots * a[t].entry + b[t].lots * b[t].entry
           /\ MaturedOf(b) = MaturedOf(a) - a[t].matured + b[t].matured
<1>1. IsFiniteSet(Traders)
  BY DEF LedgerAssumption
<1>2. /\ \A s \in Traders : /\ a[s].cross \in Nat /\ a[s].iso \in Nat /\ a[s].lots \in Int
                            /\ a[s].entry \in Nat /\ a[s].matured \in Nat
      /\ \A s \in Traders : /\ b[s].cross \in Nat /\ b[s].iso \in Nat /\ b[s].lots \in Int
                            /\ b[s].entry \in Nat /\ b[s].matured \in Nat
  BY DEF Accounts
<1>3. Collateral(b) = Collateral(a) - (a[t].cross + a[t].iso) + (b[t].cross + b[t].iso)
  <2> DEFINE f == [s \in Traders |-> a[s].cross + a[s].iso]
             g == [s \in Traders |-> b[s].cross + b[s].iso]
  <2>1. /\ \A s \in Traders : f[s] \in Int
        /\ \A s \in Traders \ {t} : g[s] = f[s]
        /\ g[t] \in Int /\ f[t] = a[t].cross + a[t].iso /\ g[t] = b[t].cross + b[t].iso
    BY <1>2
  <2> HIDE DEF f, g
  <2>2. SumFunctionOnSet(g, Traders) = SumFunctionOnSet(f, Traders) - f[t] + g[t]
    BY <1>1, <2>1, SumUpdate
  <2>3. Collateral(a) = SumFunctionOnSet(f, Traders) /\ Collateral(b) = SumFunctionOnSet(g, Traders)
    BY DEF Collateral, SumOver, f, g
  <2> QED BY <2>1, <2>2, <2>3
<1>4. BasisOf(b) = BasisOf(a) - a[t].lots * a[t].entry + b[t].lots * b[t].entry
  <2> DEFINE f == [s \in Traders |-> a[s].lots * a[s].entry]
             g == [s \in Traders |-> b[s].lots * b[s].entry]
  <2>4. \A s \in Traders : f[s] \in Int
    BY <1>2
  <2>5. \A s \in Traders : g[s] \in Int
    BY <1>2
  <2>6. f[t] = a[t].lots * a[t].entry /\ g[t] = b[t].lots * b[t].entry
    OBVIOUS
  <2>7. \A s \in Traders \ {t} : g[s] = f[s]
    OBVIOUS
  <2> HIDE DEF f, g
  <2>2. SumFunctionOnSet(g, Traders) = SumFunctionOnSet(f, Traders) - f[t] + g[t]
    BY <1>1, <2>4, <2>5, <2>7, SumUpdate
  <2>3. BasisOf(a) = SumFunctionOnSet(f, Traders) /\ BasisOf(b) = SumFunctionOnSet(g, Traders)
    BY DEF BasisOf, SumOver, f, g
  <2> QED BY <2>2, <2>3, <2>6
<1>5. MaturedOf(b) = MaturedOf(a) - a[t].matured + b[t].matured
  <2> DEFINE f == [s \in Traders |-> a[s].matured]
             g == [s \in Traders |-> b[s].matured]
  <2>1. /\ \A s \in Traders : f[s] \in Int
        /\ \A s \in Traders \ {t} : g[s] = f[s]
        /\ g[t] \in Int /\ f[t] = a[t].matured /\ g[t] = b[t].matured
    BY <1>2
  <2> HIDE DEF f, g
  <2>2. SumFunctionOnSet(g, Traders) = SumFunctionOnSet(f, Traders) - f[t] + g[t]
    BY <1>1, <2>1, SumUpdate
  <2>3. MaturedOf(a) = SumFunctionOnSet(f, Traders) /\ MaturedOf(b) = SumFunctionOnSet(g, Traders)
    BY DEF MaturedOf, SumOver, f, g
  <2> QED BY <2>1, <2>2, <2>3
<1> QED BY <1>3, <1>4, <1>5

LEMMA PositionsCount ==
    ASSUME LedgerAssumption, NEW a \in [Traders -> Accounts], NEW b \in [Traders -> Accounts],
           SamePositions(a, b)
    PROVE  BasisOf(a) = BasisOf(b) /\ MaturedOf(a) = MaturedOf(b)
<1>1. [t \in Traders |-> a[t].lots * a[t].entry] = [t \in Traders |-> b[t].lots * b[t].entry]
  BY DEF SamePositions
<1>2. [t \in Traders |-> a[t].matured] = [t \in Traders |-> b[t].matured]
  BY DEF SamePositions
<1> QED BY <1>1, <1>2 DEF BasisOf, MaturedOf

LEMMA ProtectsChain ==
    ASSUME NEW a \in [Traders -> Accounts], NEW b \in [Traders -> Accounts],
           NEW c \in [Traders -> Accounts], Protects(a, b), Protects(b, c),
           \A s \in Traders : \/ b[s].iso = a[s].iso /\ b[s].cross = a[s].cross
                              \/ c[s].cross = b[s].cross
    PROVE  Protects(a, c)
<1> SUFFICES ASSUME NEW s \in Traders, a[s].iso > 0
             PROVE  c[s].cross >= a[s].cross
  BY DEF Protects
<1>1. CASE b[s].iso = a[s].iso /\ b[s].cross = a[s].cross
  BY <1>1 DEF Protects
<1>2. CASE c[s].cross = b[s].cross
  BY <1>2 DEF Protects
<1> QED BY <1>1, <1>2

-----------------------------------------------------------------------------
(* The fields of a copy of the claims.                                     *)
LEMMA BooksFields ==
    ASSUME NEW m \in Books
    PROVE  /\ m.acct \in [Traders -> Accounts] /\ m.pot \in Pots /\ m.uncovered \in Nat
           /\ m.pot.fund \in Nat /\ m.pot.fees \in Nat /\ m.pot.residual \in Nat
           /\ m.pot.maturedTotal \in Nat /\ m.pot.dust \in Nat
           /\ m = [acct |-> m.acct, pot |-> m.pot, uncovered |-> m.uncovered]
           /\ \A s \in Traders :
                /\ m.acct[s] \in Accounts
                /\ m.acct[s].cross \in Nat /\ m.acct[s].iso \in Nat /\ m.acct[s].lots \in Int
                /\ m.acct[s].entry \in Nat /\ m.acct[s].anchor \in Int
                /\ m.acct[s].reserve \in Nat /\ m.acct[s].matured \in Nat
BY DEF Books, Pots, Accounts

LEMMA HeldNat ==
    ASSUME LedgerAssumption, NEW m \in Books
    PROVE  Held(m) \in Nat
<1>1. m.acct \in [Traders -> Accounts] /\ m.pot.fund \in Nat /\ m.pot.fees \in Nat
  BY BooksFields
<1>2. Collateral(m.acct) \in Nat
  BY <1>1, MeasuresInt
<1> QED BY <1>1, <1>2 DEF Held

LEMMA BucketNat ==
    ASSUME NEW m \in Books, NEW t \in Traders, NEW isolated
    PROVE  Bucket(m, t, isolated) \in Nat
BY BooksFields DEF Bucket

(* Writing one bucket: the collateral changes by the difference, nothing   *)
(* else does.                                                              *)
LEMMA SetBucketFacts ==
    ASSUME LedgerAssumption, NEW m \in Books, NEW t \in Traders, NEW isolated, NEW v \in Nat,
           NEW w, w = SetBucket(m, t, isolated, v)
    PROVE  /\ w \in Books /\ w.pot = m.pot /\ w.uncovered = m.uncovered
           /\ \A s \in Traders \ {t} : w.acct[s] = m.acct[s]
           /\ w.acct[t] \in {[m.acct[t] EXCEPT !.iso = v], [m.acct[t] EXCEPT !.cross = v]}
           /\ w.acct[t].anchor = m.acct[t].anchor
           /\ w.acct[t].iso = (IF isolated THEN v ELSE m.acct[t].iso)
           /\ Collateral(w.acct) = (Collateral(m.acct) - Bucket(m, t, isolated)) + v
           /\ SamePositions(m.acct, w.acct)
           /\ (isolated <=> Isolated(m, t)) => Protects(m.acct, w.acct)
<1>1. /\ m.acct \in [Traders -> Accounts] /\ m.pot \in Pots /\ m.uncovered \in Nat
      /\ m = [acct |-> m.acct, pot |-> m.pot, uncovered |-> m.uncovered]
      /\ \A s \in Traders :
           /\ m.acct[s] \in Accounts
           /\ m.acct[s].cross \in Nat /\ m.acct[s].iso \in Nat
  BY BooksFields
<1> DEFINE x == IF isolated THEN [m.acct[t] EXCEPT !.iso = v] ELSE [m.acct[t] EXCEPT !.cross = v]
           b == [m.acct EXCEPT ![t] = x]
<1>2. x \in Accounts
  BY <1>1 DEF Accounts
<1>3. w = [m EXCEPT !.acct = b]
  BY <1>1 DEF SetBucket
<1>4. /\ x.lots = m.acct[t].lots /\ x.entry = m.acct[t].entry /\ x.matured = m.acct[t].matured
      /\ x.anchor = m.acct[t].anchor
      /\ IF isolated THEN x.iso = v /\ x.cross = m.acct[t].cross
                     ELSE x.cross = v /\ x.iso = m.acct[t].iso
  BY <1>1 DEF Accounts
<1>9. x \in {[m.acct[t] EXCEPT !.iso = v], [m.acct[t] EXCEPT !.cross = v]}
  OBVIOUS
<1> HIDE DEF x
<1>5. b \in [Traders -> Accounts] /\ b[t] = x /\ \A s \in Traders \ {t} : b[s] = m.acct[s]
  BY <1>1, <1>2
<1> HIDE DEF b
<1>6. w.acct = b /\ w.pot = m.pot /\ w.uncovered = m.uncovered /\ w \in Books
  BY <1>1, <1>3, <1>5 DEF Books
<1>7. Collateral(b) = (Collateral(m.acct) - Bucket(m, t, isolated)) + v
  <2>1. Collateral(b) = Collateral(m.acct) - (m.acct[t].cross + m.acct[t].iso) + (x.cross + x.iso)
    BY <1>1, <1>5, AccountMoves
  <2>2. Collateral(m.acct) \in Int
    BY <1>1, MeasuresInt
  <2>3. x.cross \in Nat /\ x.iso \in Nat
    BY <1>2 DEF Accounts
  <2>4. CASE isolated
    <3>1. Bucket(m, t, isolated) = m.acct[t].iso /\ x.iso = v /\ x.cross = m.acct[t].cross
      BY <1>4, <2>4 DEF Bucket
    <3> QED BY <1>1, <2>1, <2>2, <3>1
  <2>5. CASE ~isolated
    <3>1. Bucket(m, t, isolated) = m.acct[t].cross /\ x.cross = v /\ x.iso = m.acct[t].iso
      BY <1>4, <2>5 DEF Bucket
    <3> QED BY <1>1, <2>1, <2>2, <3>1
  <2> QED BY <2>4, <2>5
<1>8. SamePositions(m.acct, b)
  <2> SUFFICES ASSUME NEW s \in Traders
               PROVE  m.acct[s].lots = b[s].lots /\ m.acct[s].entry = b[s].entry
                      /\ m.acct[s].matured = b[s].matured
    BY DEF SamePositions
  <2> QED BY <1>4, <1>5
<1>10. ASSUME isolated <=> Isolated(m, t) PROVE Protects(m.acct, b)
  <2> SUFFICES ASSUME NEW s \in Traders, m.acct[s].iso > 0
               PROVE  b[s].cross >= m.acct[s].cross
    BY DEF Protects
  <2>1. CASE s # t
    BY <1>1, <1>5, <2>1
  <2>2. CASE s = t
    <3>1. isolated
      BY <1>10, <2>2 DEF Isolated
    <3> QED BY <1>1, <1>4, <1>5, <2>2, <3>1
  <2> QED BY <2>1, <2>2
<1>11. w.acct[t].anchor = m.acct[t].anchor /\ w.acct[t].iso = (IF isolated THEN v ELSE m.acct[t].iso)
  BY <1>4, <1>5, <1>6
<1> QED BY <1>5, <1>6, <1>7, <1>8, <1>9, <1>10, <1>11

-----------------------------------------------------------------------------
(* Arithmetic of the fees.                                                 *)
LEMMA MinOfThree ==
    ASSUME NEW a \in Int, NEW b \in Int, NEW c \in Int, NEW z, z = Min({a, b, c})
    PROVE  (z = a \/ z = b \/ z = c) /\ z <= a /\ z <= b /\ z <= c
<1>1. \E x \in {a, b, c} : \A y \in {a, b, c} : x <= y
  <2>1. CASE a <= b /\ a <= c
    BY <2>1
  <2>2. CASE b <= a /\ b <= c
    BY <2>2
  <2>3. CASE c <= a /\ c <= b
    BY <2>3
  <2> QED BY <2>1, <2>2, <2>3
<1> DEFINE S == {a, b, c}
<1>2. Min(S) \in S /\ \A y \in S : Min(S) <= y
  BY <1>1 DEF Min
<1> QED BY <1>2

LEMMA SatSubFacts ==
    ASSUME NEW a \in Int, NEW b \in Int
    PROVE  SatSub(a, b) \in Nat /\ SatSub(a, b) = IF a > b THEN a - b ELSE 0
BY DEF SatSub

(* The contribution rate takes at most the whole.                          *)
LEMMA PercentBound ==
    ASSUME NEW n \in Nat, NEW p \in 0..100, NEW q, q = (n * p) \div 100
    PROVE  q \in Nat /\ q <= n
<1>1. n * p \in Nat /\ n * p <= n * 100
  BY MulMonotone
<1> DEFINE z == n * p
<1> HIDE DEF z
<1>2. q = z \div 100 /\ z \in Nat /\ z <= n * 100
  BY <1>1 DEF z
<1> QED BY <1>2

(* Insurance and fee shares are credited at most what the two sides paid   *)
(* beyond the rebate.                                                      *)
LEMMA FeeArithmetic ==
    ASSUME NEW taker \in Nat, NEW maker \in Nat, NEW cut \in Nat, NEW paid \in Nat, NEW kPaid \in Nat,
           NEW rebate \in Nat, paid <= taker, kPaid <= maker, cut <= taker, rebate <= cut, rebate <= paid,
           NEW net, net = SatSub(SatSub(SatSub(taker + maker, cut), taker - paid), maker - kPaid)
    PROVE  net \in Nat /\ net <= paid + kPaid - rebate
BY DEF SatSub

LEMMA AccrualArithmetic ==
    ASSUME NEW net \in Nat, NEW rebate \in Nat, NEW contribution \in Nat, contribution <= net,
           NEW share \in Nat
    PROVE  /\ AccruedShares(net, rebate, contribution, share) \in Nat
           /\ contribution + AccruedShares(net, rebate, contribution, share) <= net
<1> DEFINE z == SatSub(SatSub(net, rebate), contribution)
<1>1. z \in Nat /\ (contribution + z <= net \/ z = 0)
  BY DEF SatSub
<1> HIDE DEF z
<1>2. Min({share, z}) = IF share <= z THEN share ELSE z
  BY <1>1, MinOfTwo
<1>3. AccruedShares(net, rebate, contribution, share) = Min({share, z})
  BY DEF AccruedShares, z
<1> QED BY <1>1, <1>2, <1>3

(* The rebate is no more than the taker's fee and than what was collected. *)
LEMMA RebateFacts ==
    ASSUME NEW fee \in [taker : Nat, rebate : Nat, maker : Nat], NEW paid \in Nat
    PROVE  /\ RebateOf(fee, paid) \in Nat /\ RebateOf(fee, paid) <= paid
           /\ RebateOf(fee, paid) <= Min({fee.rebate, fee.taker})
           /\ Min({fee.rebate, fee.taker}) \in Nat /\ Min({fee.rebate, fee.taker}) <= fee.taker
<1>1. fee.rebate \in Nat /\ fee.taker \in Nat
  OBVIOUS
<1> DEFINE r == fee.rebate
           k == fee.taker
<1> HIDE DEF r, k
<1>2. r \in Nat /\ k \in Nat
  BY <1>1 DEF r, k
<1>4. Min({r, k}) = IF r <= k THEN r ELSE k
  BY <1>2, MinOfTwo
<1> DEFINE y == Min({r, k, paid})
           z == Min({r, k})
<1> HIDE DEF y, z
<1>3. y = Min({r, k, paid}) /\ r \in Int /\ k \in Int /\ paid \in Int
  BY <1>2 DEF y
<1>6. (y = r \/ y = k \/ y = paid) /\ y <= r /\ y <= k /\ y <= paid
  <2>1. \A z1 : z1 = Min({r, k, paid}) => (z1 = r \/ z1 = k \/ z1 = paid) /\ z1 <= r /\ z1 <= k /\ z1 <= paid
    BY <1>2, MinOfThree
  <2> QED BY <1>3, <2>1
<1>7. z = IF r <= k THEN r ELSE k
  BY <1>4 DEF z
<1>5. y \in Nat /\ y <= paid /\ y <= z /\ z \in Nat /\ z <= k
  BY <1>2, <1>6, <1>7
<1> QED BY <1>5 DEF RebateOf, y, z, r, k

LEMMA SamePositionsChain ==
    ASSUME NEW a, NEW b, NEW c, SamePositions(a, b), SamePositions(b, c)
    PROVE  SamePositions(a, c)
BY DEF SamePositions

(* A bucket pays no more than the fee of its side.                         *)
FeesTaken(m, w, t, k, fee) ==
    /\ \A s \in Traders : w.acct[s].anchor = m.acct[s].anchor
    /\ \A s \in Traders \ {t, k} : w.acct[s].iso = m.acct[s].iso
    /\ w.acct[t].iso >= m.acct[t].iso - fee.taker
    /\ w.acct[k].iso >= m.acct[k].iso - fee.maker

(* Fees only move money between buckets, fund and shares, and lose some.   *)
LEMMA ChargeFeesFacts ==
    ASSUME LedgerAssumption, NEW m \in Books, NEW t \in Traders, NEW k \in Traders, t # k,
           NEW fee \in [taker : Nat, rebate : Nat, maker : Nat], NEW share \in Nat,
           NEW w, w = ChargeFees(m, t, k, fee, share)
    PROVE  /\ w \in Books /\ Held(w) <= Held(m) /\ w.uncovered = m.uncovered
           /\ w.pot.residual = m.pot.residual /\ w.pot.maturedTotal = m.pot.maturedTotal
           /\ w.pot.dust = m.pot.dust
           /\ SamePositions(m.acct, w.acct) /\ Protects(m.acct, w.acct)
           /\ FeesTaken(m, w, t, k, fee)
<1> DEFINE tIso    == Isolated(m, t)
           kIso    == Isolated(m, k)
           tHas    == Bucket(m, t, tIso)
           kHad    == Bucket(m, k, kIso)
           paid    == Min({fee.taker, tHas})
           rebate  == RebateOf(fee, paid)
           cut     == Min({fee.rebate, fee.taker})
           kPaid   == Min({fee.maker, kHad + rebate})
           net     == SatSub(SatSub(SatSub(fee.taker + fee.maker, cut), fee.taker - paid), fee.maker - kPaid)
           contribution == (net * ContributionPct) \div 100
           accrued == AccruedShares(net, rebate, contribution, share)
           first   == SetBucket(m, t, tIso, tHas - paid)
           moved   == SetBucket(first, k, kIso, (kHad + rebate) - kPaid)
<1>1. w = [moved EXCEPT !.pot.fund = @ + contribution, !.pot.fees = @ + accrued]
  BY DEF ChargeFees
<1>2. fee.taker \in Nat /\ fee.rebate \in Nat /\ fee.maker \in Nat
  OBVIOUS
<1>3. tHas \in Nat /\ kHad \in Nat
  BY BucketNat
<1>4. paid \in Nat /\ paid <= fee.taker /\ paid <= tHas
  <2> HIDE DEF tHas
  <2>1. paid = IF fee.taker <= tHas THEN fee.taker ELSE tHas
    BY <1>2, <1>3, MinOfTwo
  <2> QED BY <1>2, <1>3, <2>1
<1> HIDE DEF paid
<1>5. rebate \in Nat /\ rebate <= paid /\ rebate <= cut /\ cut \in Nat /\ cut <= fee.taker
  BY <1>4, RebateFacts
<1> HIDE DEF rebate, cut
<1>6. kPaid \in Nat /\ kPaid <= fee.maker /\ kPaid <= kHad + rebate
  <2> HIDE DEF kHad
  <2>1. kHad + rebate \in Int
    BY <1>3, <1>5
  <2>2. kPaid = IF fee.maker <= kHad + rebate THEN fee.maker ELSE kHad + rebate
    BY <1>2, <2>1, MinOfTwo
  <2> QED BY <1>2, <1>3, <1>5, <2>2
<1> HIDE DEF kPaid
<1>7. net \in Nat /\ net <= paid + kPaid - rebate
  BY <1>2, <1>4, <1>5, <1>6, FeeArithmetic
<1> HIDE DEF net
<1>8. contribution \in Nat /\ contribution <= net
  BY <1>7, PercentBound DEF LedgerAssumption
<1> HIDE DEF contribution
<1>9. accrued \in Nat /\ contribution + accrued <= net
  BY <1>5, <1>7, <1>8, AccrualArithmetic
<1> HIDE DEF accrued
<1>10. tHas - paid \in Nat /\ (kHad + rebate) - kPaid \in Nat
  <2> HIDE DEF tHas, kHad
  <2> QED BY <1>3, <1>4, <1>5, <1>6
<1>11. /\ first \in Books /\ first.pot = m.pot /\ first.uncovered = m.uncovered
       /\ \A s \in Traders \ {t} : first.acct[s] = m.acct[s]
       /\ first.acct[t].anchor = m.acct[t].anchor
       /\ first.acct[t].iso = (IF tIso THEN tHas - paid ELSE m.acct[t].iso)
       /\ Collateral(first.acct) = (Collateral(m.acct) - tHas) + (tHas - paid)
       /\ SamePositions(m.acct, first.acct) /\ Protects(m.acct, first.acct)
  BY <1>10, SetBucketFacts
<1> HIDE DEF first
<1>12. Bucket(first, k, kIso) = kHad /\ (kIso <=> Isolated(first, k))
  BY <1>11 DEF Bucket, Isolated
<1>13. /\ moved \in Books /\ moved.pot = first.pot /\ moved.uncovered = first.uncovered
       /\ \A s \in Traders \ {k} : moved.acct[s] = first.acct[s]
       /\ moved.acct[k].anchor = first.acct[k].anchor
       /\ moved.acct[k].iso = (IF kIso THEN (kHad + rebate) - kPaid ELSE first.acct[k].iso)
       /\ Collateral(moved.acct) = (Collateral(first.acct) - Bucket(first, k, kIso)) + ((kHad + rebate) - kPaid)
       /\ SamePositions(first.acct, moved.acct) /\ Protects(first.acct, moved.acct)
  <2> HIDE DEF kHad, kIso
  <2> QED BY <1>10, <1>11, <1>12, SetBucketFacts
<1> HIDE DEF moved
<1>14. moved.acct \in [Traders -> Accounts] /\ first.acct \in [Traders -> Accounts] /\ m.acct \in [Traders -> Accounts]
  BY <1>11, <1>13, BooksFields
<1>15. SamePositions(m.acct, moved.acct) /\ Protects(m.acct, moved.acct)
  <2> DEFINE a == m.acct
             b == first.acct
             c == moved.acct
  <2>1. /\ a \in [Traders -> Accounts] /\ b \in [Traders -> Accounts] /\ c \in [Traders -> Accounts]
        /\ SamePositions(a, b) /\ SamePositions(b, c) /\ Protects(a, b) /\ Protects(b, c)
    BY <1>11, <1>13, <1>14
  <2>4. \A s \in Traders : (b[s].iso = a[s].iso /\ b[s].cross = a[s].cross) \/ c[s].cross = b[s].cross
    BY <1>11, <1>13
  <2> HIDE DEF a, b, c
  <2>2. SamePositions(a, c)
    BY <2>1, SamePositionsChain
  <2>3. Protects(a, c)
    BY <2>1, <2>4, ProtectsChain
  <2> QED BY <2>2, <2>3 DEF a, c
<1>16. /\ moved.pot = m.pot /\ moved.pot \in Pots /\ m.pot.fund \in Nat /\ m.pot.fees \in Nat
       /\ moved = [acct |-> moved.acct, pot |-> moved.pot, uncovered |-> moved.uncovered]
       /\ moved.uncovered \in Nat
  BY <1>11, <1>13, BooksFields
<1> DEFINE p == [m.pot EXCEPT !.fund = m.pot.fund + contribution, !.fees = m.pot.fees + accrued]
<1>17. p \in Pots /\ p.fund = m.pot.fund + contribution /\ p.fees = m.pot.fees + accrued
       /\ p.residual = m.pot.residual /\ p.maturedTotal = m.pot.maturedTotal /\ p.dust = m.pot.dust
  <2>1. m.pot.fund + contribution \in Nat /\ m.pot.fees + accrued \in Nat
    BY <1>8, <1>9, <1>16
  <2> DEFINE q == m.pot
             x == m.pot.fund + contribution
             y == m.pot.fees + accrued
  <2>2. q \in Pots
    BY <1>16
  <2> HIDE DEF q, x, y
  <2>3. p = [q EXCEPT !.fund = x, !.fees = y] /\ x \in Nat /\ y \in Nat
    BY <2>1 DEF q, x, y
  <2>4. p \in Pots /\ p.fund = x /\ p.fees = y
        /\ p.residual = q.residual /\ p.maturedTotal = q.maturedTotal /\ p.dust = q.dust
    BY <2>2, <2>3 DEF Pots
  <2> QED BY <2>4 DEF q, x, y
<1>18. w = [acct |-> moved.acct, pot |-> p, uncovered |-> moved.uncovered]
  BY <1>1, <1>16 DEF Pots
<1> HIDE DEF p
<1>19. w \in Books /\ w.acct = moved.acct /\ w.pot = p /\ w.uncovered = m.uncovered
  BY <1>11, <1>13, <1>14, <1>16, <1>17, <1>18 DEF Books
<1>20. Held(w) <= Held(m)
  <2> HIDE DEF kHad, tHas
  <2> DEFINE c0 == Collateral(m.acct)
             c1 == Collateral(moved.acct)
  <2>1. c0 \in Int
    BY <1>14, MeasuresInt
  <2>2. c1 = ((c0 - tHas) + (tHas - paid)) - kHad + ((kHad + rebate) - kPaid)
    BY <1>11, <1>12, <1>13
  <2>3. Held(m) = c0 + m.pot.fund + m.pot.fees
    BY DEF Held
  <2>4. Held(w) = c1 + (m.pot.fund + contribution) + (m.pot.fees + accrued)
    BY <1>17, <1>19 DEF Held
  <2> HIDE DEF c0, c1
  <2> QED BY <1>3, <1>4, <1>5, <1>6, <1>7, <1>8, <1>9, <1>16, <2>1, <2>2, <2>3, <2>4
<1>21. FeesTaken(m, w, t, k, fee)
  <2>1. m.acct[t].iso \in Nat /\ m.acct[k].iso \in Nat
    BY BooksFields
  <2>2. (tIso => tHas = m.acct[t].iso) /\ (kIso => kHad = m.acct[k].iso)
    BY DEF Bucket
  <2>3. /\ moved.acct[t].iso = (IF tIso THEN tHas - paid ELSE m.acct[t].iso)
        /\ moved.acct[k].iso = (IF kIso THEN (kHad + rebate) - kPaid ELSE m.acct[k].iso)
    BY <1>11, <1>13
  <2> HIDE DEF tIso, kIso, tHas, kHad
  <2>4. moved.acct[t].iso >= m.acct[t].iso - fee.taker /\ moved.acct[k].iso >= m.acct[k].iso - fee.maker
    BY <1>2, <1>4, <1>5, <1>6, <2>1, <2>2, <2>3
  <2>5. /\ \A s \in Traders : moved.acct[s].anchor = m.acct[s].anchor
        /\ \A s \in Traders \ {t, k} : moved.acct[s].iso = m.acct[s].iso
    BY <1>11, <1>13
  <2> QED BY <1>19, <2>4, <2>5 DEF FeesTaken
<1> QED BY <1>15, <1>17, <1>19, <1>20, <1>21

-----------------------------------------------------------------------------
(* Writing an account or the pot of a copy.                                *)
PutAccount(m, t, x) == [m EXCEPT !.acct[t] = x]
PutPot(m, p) == [m EXCEPT !.pot = p]

LEMMA AccountWritten ==
    ASSUME NEW m \in Books, NEW t \in Traders, NEW x \in Accounts,
           NEW w, w = PutAccount(m, t, x)
    PROVE  /\ w \in Books /\ w.pot = m.pot /\ w.uncovered = m.uncovered
           /\ w.acct \in [Traders -> Accounts] /\ w.acct[t] = x
           /\ \A s \in Traders \ {t} : w.acct[s] = m.acct[s]
<1>1. /\ m.acct \in [Traders -> Accounts] /\ m.pot \in Pots /\ m.uncovered \in Nat
      /\ m = [acct |-> m.acct, pot |-> m.pot, uncovered |-> m.uncovered]
  BY BooksFields
<1> DEFINE b == [m.acct EXCEPT ![t] = x]
<1>2. w = [acct |-> b, pot |-> m.pot, uncovered |-> m.uncovered]
  BY <1>1 DEF PutAccount
<1>3. b \in [Traders -> Accounts] /\ b[t] = x /\ \A s \in Traders \ {t} : b[s] = m.acct[s]
  BY <1>1
<1> HIDE DEF b
<1>4. w.acct = b /\ w.pot = m.pot /\ w.uncovered = m.uncovered /\ w \in Books
  BY <1>1, <1>2, <1>3 DEF Books
<1> QED BY <1>3, <1>4

LEMMA PotWritten ==
    ASSUME NEW m \in Books, NEW p \in Pots, NEW w, w = PutPot(m, p)
    PROVE  w \in Books /\ w.pot = p /\ w.acct = m.acct /\ w.uncovered = m.uncovered
<1>1. /\ m.acct \in [Traders -> Accounts] /\ m.uncovered \in Nat
      /\ m = [acct |-> m.acct, pot |-> m.pot, uncovered |-> m.uncovered]
  BY BooksFields
<1>2. w = [acct |-> m.acct, pot |-> p, uncovered |-> m.uncovered]
  BY <1>1 DEF PutPot
<1> QED BY <1>1, <1>2 DEF Books

LEMMA ProtectsItself ==
    ASSUME NEW a \in [Traders -> Accounts], NEW b \in [Traders -> Accounts],
           \A s \in Traders : b[s].iso = a[s].iso /\ b[s].cross = a[s].cross
    PROVE  Protects(a, b)
<1>1. \A s \in Traders : a[s].cross \in Nat
  BY DEF Accounts
<1> QED BY <1>1 DEF Protects

-----------------------------------------------------------------------------
(* Funding moves money between a bucket and the residual.                  *)
LEMMA RouteFundingFacts ==
    ASSUME NEW owed, NEW bucket, NEW residual, owed \in Int, bucket \in Nat, residual \in Nat,
           NEW to, to = RouteFunding(owed, bucket, residual)
    PROVE  /\ to.bucket \in Nat /\ to.residual \in Nat
           /\ to.bucket + to.residual = bucket + residual
           /\ to.bucket >= bucket - (IF owed > 0 THEN owed ELSE 0)
<1>1. CASE owed > 0
  <2> DEFINE paid == Min({owed, bucket})
  <2>1. paid = IF owed <= bucket THEN owed ELSE bucket
    BY MinOfTwo
  <2> HIDE DEF paid
  <2>2. to = [bucket |-> bucket - paid, residual |-> residual + paid]
    BY <1>1 DEF RouteFunding, paid
  <2>3. to.bucket = bucket - paid /\ to.residual = residual + paid
    BY <2>2
  <2> QED BY <1>1, <2>1, <2>3
<1>2. CASE ~ (owed > 0)
  <2> DEFINE due == -owed
             got == Min({due, residual})
  <2>1. due \in Nat
    BY <1>2
  <2> HIDE DEF due
  <2>2. got = IF due <= residual THEN due ELSE residual
    BY <2>1, MinOfTwo
  <2> HIDE DEF got
  <2>3. to = [bucket |-> bucket + got, residual |-> residual - got]
    BY <1>2 DEF RouteFunding, got, due
  <2>4. to.bucket = bucket + got /\ to.residual = residual - got
    BY <2>3
  <2> QED BY <2>1, <2>2, <2>4
<1> QED BY <1>1, <1>2

LEMMA FundingOwedInt ==
    ASSUME LedgerAssumption, index \in Int, NEW a \in Accounts
    PROVE  FundingOwed(a) \in Int
<1>1. a.lots \in Int /\ a.anchor \in Int /\ FundingOne \in Nat \ {0}
  BY DEF Accounts, LedgerAssumption
<1> DEFINE n == Abs(a.lots)
           d == index - a.anchor
<1>2. n \in Int /\ d \in Int
  BY <1>1 DEF Abs
<1> HIDE DEF n, d
<1>3. n * d \in Int
  BY <1>2
<1> DEFINE scaled == (n * d) \div FundingOne
<1>4. scaled \in Int
  BY <1>1, <1>3, DivBounds
<1> HIDE DEF scaled
<1>5. FundingOwed(a) = IF a.lots > 0 THEN scaled ELSE -scaled
  BY SMTT(30) DEF FundingOwed, scaled, n, d
<1> QED BY <1>4, <1>5

(* A bucket pays no more funding than is owed.                             *)
Due(a) == Max({0, FundingOwed(a)})
FundingTaken(m, w, t) ==
    /\ \A s \in Traders \ {t} : w.acct[s] = m.acct[s]
    /\ w.acct[t].iso >= m.acct[t].iso - Due(m.acct[t])

LEMMA DueFacts ==
    ASSUME LedgerAssumption, index \in Int, NEW a \in Accounts
    PROVE  Due(a) \in Nat /\ Due(a) = (IF FundingOwed(a) > 0 THEN FundingOwed(a) ELSE 0)
<1> DEFINE x == FundingOwed(a)
<1>1. x \in Int
  BY FundingOwedInt
<1> HIDE DEF x
<1> DEFINE z == Max({0, x})
<1>2. z = (IF 0 >= x THEN 0 ELSE x)
  BY <1>1, MaxOfTwo
<1>3. Due(a) = z
  BY Zenon DEF Due, x
<1> HIDE DEF z
<1>4. z \in Nat /\ z = (IF x > 0 THEN x ELSE 0)
  BY <1>1, <1>2
<1> QED BY <1>3, <1>4 DEF x

LEMMA SettlePositionFundingFacts ==
    ASSUME LedgerAssumption, index \in Int, NEW m \in Books, NEW t \in Traders,
           NEW w, w = SettlePositionFunding(m, t)
    PROVE  /\ w \in Books /\ w.uncovered = m.uncovered
           /\ Held(w) + w.pot.residual = Held(m) + m.pot.residual
           /\ w.pot.maturedTotal = m.pot.maturedTotal /\ w.pot.dust = m.pot.dust
           /\ SamePositions(m.acct, w.acct) /\ Protects(m.acct, w.acct)
           /\ FundingTaken(m, w, t)
<1> DEFINE iso == Isolated(m, t)
           had == Bucket(m, t, iso)
           to  == RouteFunding(FundingOwed(m.acct[t]), had, m.pot.residual)
           put == SetBucket(m, t, iso, to.bucket)
           routed == IF m.acct[t].lots = 0 THEN m ELSE [put EXCEPT !.pot.residual = to.residual]
<1>1. w = [routed EXCEPT !.acct[t].anchor = index]
  BY DEF SettlePositionFunding
<1>2. /\ m.acct \in [Traders -> Accounts] /\ m.acct[t] \in Accounts /\ m.pot \in Pots
      /\ m.pot.residual \in Nat /\ m.pot.fund \in Nat /\ m.pot.fees \in Nat
  BY BooksFields
<1>3. FundingOwed(m.acct[t]) \in Int /\ had \in Nat
  BY <1>2, FundingOwedInt, BucketNat
<1>4. /\ to.bucket \in Nat /\ to.residual \in Nat /\ to.bucket + to.residual = had + m.pot.residual
      /\ to.bucket >= had - Due(m.acct[t])
  <2> DEFINE r == m.pot.residual
             owed == FundingOwed(m.acct[t])
  <2>1. r \in Nat /\ owed \in Int /\ had \in Nat
    BY <1>2, <1>3
  <2> HIDE DEF had, r, owed
  <2>2. to = RouteFunding(owed, had, r)
    BY DEF r, owed
  <2> HIDE DEF to
  <2>3. to.bucket \in Nat /\ to.residual \in Nat /\ to.bucket + to.residual = had + r
        /\ to.bucket >= had - (IF owed > 0 THEN owed ELSE 0)
    <3>1. \A y : y = RouteFunding(owed, had, r) =>
                   /\ y.bucket \in Nat /\ y.residual \in Nat /\ y.bucket + y.residual = had + r
                   /\ y.bucket >= had - (IF owed > 0 THEN owed ELSE 0)
      BY <2>1, RouteFundingFacts
    <3> QED BY <2>2, <3>1
  <2>4. Due(m.acct[t]) = (IF owed > 0 THEN owed ELSE 0)
    BY <1>2, DueFacts DEF owed
  <2> QED BY <2>3, <2>4 DEF r
<1> HIDE DEF to
<1>5. /\ put \in Books /\ put.pot = m.pot /\ put.uncovered = m.uncovered
      /\ \A s \in Traders \ {t} : put.acct[s] = m.acct[s]
      /\ put.acct[t].iso = (IF iso THEN to.bucket ELSE m.acct[t].iso)
      /\ Collateral(put.acct) = (Collateral(m.acct) - had) + to.bucket
      /\ SamePositions(m.acct, put.acct) /\ Protects(m.acct, put.acct)
  BY <1>4, SetBucketFacts
<1> HIDE DEF put
<1>6. /\ routed \in Books /\ routed.uncovered = m.uncovered
      /\ Held(routed) + routed.pot.residual = Held(m) + m.pot.residual
      /\ routed.pot.maturedTotal = m.pot.maturedTotal /\ routed.pot.dust = m.pot.dust
      /\ SamePositions(m.acct, routed.acct) /\ Protects(m.acct, routed.acct)
      /\ FundingTaken(m, routed, t)
  <2>0. /\ m.acct[t].iso \in Nat /\ Due(m.acct[t]) \in Nat
        /\ iso => had = m.acct[t].iso
    BY <1>2, BooksFields, DueFacts DEF Bucket
  <2>1. CASE m.acct[t].lots = 0
    <3>1. routed = m
      BY <2>1
    <3>2. SamePositions(m.acct, m.acct)
      BY DEF SamePositions
    <3>3. Protects(m.acct, m.acct)
      BY <1>2, ProtectsItself
    <3>4. FundingTaken(m, m, t)
      BY <2>0 DEF FundingTaken
    <3> QED BY <3>1, <3>2, <3>3, <3>4
  <2>2. CASE m.acct[t].lots # 0
    <3> DEFINE p == [m.pot EXCEPT !.residual = to.residual]
    <3>1. p \in Pots /\ p.fund = m.pot.fund /\ p.fees = m.pot.fees /\ p.residual = to.residual
          /\ p.maturedTotal = m.pot.maturedTotal /\ p.dust = m.pot.dust
      BY <1>2, <1>4 DEF Pots
    <3>2. routed = PutPot(put, p)
      BY <1>5, <2>2, BooksFields DEF PutPot
    <3> HIDE DEF p
    <3> HIDE DEF routed
    <3>3. routed \in Books /\ routed.pot = p /\ routed.acct = put.acct /\ routed.uncovered = put.uncovered
      BY <1>5, <3>1, <3>2, PotWritten
    <3>4. Collateral(m.acct) \in Int
      BY <1>2, MeasuresInt
    <3>5. /\ Held(routed) = Collateral(put.acct) + m.pot.fund + m.pot.fees
          /\ Held(m) = Collateral(m.acct) + m.pot.fund + m.pot.fees
          /\ routed.pot.residual = to.residual
      BY <3>1, <3>3 DEF Held
    <3>6. Held(routed) + routed.pot.residual = Held(m) + m.pot.residual
      <4> HIDE DEF had
      <4> QED BY <1>2, <1>3, <1>4, <1>5, <3>4, <3>5
    <3>7. FundingTaken(m, routed, t)
      <4>1. put.acct[t].iso >= m.acct[t].iso - Due(m.acct[t])
        <5> HIDE DEF iso, had
        <5> QED BY <1>4, <1>5, <2>0
      <4> QED BY <1>5, <3>3, <4>1 DEF FundingTaken
    <3> QED BY <1>5, <3>1, <3>3, <3>6, <3>7
  <2> QED BY <2>1, <2>2
<1> HIDE DEF routed
<1> DEFINE x == [routed.acct[t] EXCEPT !.anchor = index]
<1>7. /\ routed.acct \in [Traders -> Accounts] /\ routed.acct[t] \in Accounts
      /\ routed = [acct |-> routed.acct, pot |-> routed.pot, uncovered |-> routed.uncovered]
  BY <1>6, BooksFields
<1>8. /\ x \in Accounts /\ x.cross = routed.acct[t].cross /\ x.iso = routed.acct[t].iso
      /\ x.lots = routed.acct[t].lots /\ x.entry = routed.acct[t].entry
      /\ x.matured = routed.acct[t].matured
  BY <1>7 DEF Accounts
<1>9. w = PutAccount(routed, t, x)
  BY <1>1, <1>7 DEF PutAccount
<1> HIDE DEF x
<1>10. /\ w \in Books /\ w.pot = routed.pot /\ w.uncovered = routed.uncovered
       /\ w.acct \in [Traders -> Accounts] /\ w.acct[t] = x
       /\ \A s \in Traders \ {t} : w.acct[s] = routed.acct[s]
  BY <1>6, <1>8, <1>9, AccountWritten
<1>11. \A s \in Traders : /\ w.acct[s].cross = routed.acct[s].cross /\ w.acct[s].iso = routed.acct[s].iso
                          /\ w.acct[s].lots = routed.acct[s].lots /\ w.acct[s].entry = routed.acct[s].entry
                          /\ w.acct[s].matured = routed.acct[s].matured
  BY <1>8, <1>10
<1>12. Collateral(w.acct) = Collateral(routed.acct)
  <2>1. [s \in Traders |-> w.acct[s].cross + w.acct[s].iso]
          = [s \in Traders |-> routed.acct[s].cross + routed.acct[s].iso]
    BY <1>11
  <2> QED BY <2>1 DEF Collateral
<1>13. Held(w) = Held(routed)
  BY <1>10, <1>12 DEF Held
<1>14. SamePositions(routed.acct, w.acct)
  BY <1>11 DEF SamePositions
<1>15. Protects(routed.acct, w.acct)
  BY <1>7, <1>10, <1>11, ProtectsItself
<1>16. SamePositions(m.acct, w.acct)
  BY <1>6, <1>14, SamePositionsChain
<1>17. Protects(m.acct, w.acct)
  <2> DEFINE a == m.acct
             b == routed.acct
             c == w.acct
  <2>1. /\ a \in [Traders -> Accounts] /\ b \in [Traders -> Accounts] /\ c \in [Traders -> Accounts]
        /\ Protects(a, b) /\ Protects(b, c) /\ \A s \in Traders : c[s].cross = b[s].cross
    BY <1>2, <1>6, <1>7, <1>10, <1>11, <1>15
  <2> HIDE DEF a, b, c
  <2>2. Protects(a, c)
    BY <2>1, ProtectsChain
  <2> QED BY <2>2 DEF a, c
<1>18. FundingTaken(m, w, t)
  BY <1>6, <1>10, <1>11 DEF FundingTaken
<1> QED BY <1>6, <1>10, <1>13, <1>16, <1>17, <1>18, SMTT(30)

-----------------------------------------------------------------------------
(* A position stacked by n lots costs at least what both parts cost: the   *)
(* entry of a long is rounded up, of a short down.                         *)
LEMMA StackingCost ==
    ASSUME NEW l \in Int, NEW e \in Nat, NEW n \in Int, NEW px \in Nat, l * n > 0
    PROVE  /\ StackedEntry(l, e, n, px) \in Nat
           /\ (l + n) * StackedEntry(l, e, n, px) >= l * e + n * px
<1> DEFINE cost == e * Abs(l) + px * Abs(n)
           b == Abs(l + n)
           q == StackedEntry(l, e, n, px)
<1>0. (l > 0 /\ n > 0) \/ (l < 0 /\ n < 0)
  BY SignOfProduct
<1>1. Abs(l) \in Nat /\ Abs(n) \in Nat /\ b \in Nat \ {0}
  BY <1>0 DEF Abs
<1>2. cost \in Nat
  <2>1. e * Abs(l) \in Nat /\ px * Abs(n) \in Nat
    BY <1>1
  <2> QED BY <2>1
<1>3. CASE l > 0
  <2>1. n > 0
    BY <1>0, <1>3
  <2>2. b = l + n /\ cost = e * l + px * n
    BY <1>3, <2>1 DEF Abs
  <2>3. q = (cost + b - 1) \div b
    BY <1>3 DEF StackedEntry, CeilDiv
  <2> HIDE DEF q, cost, b
  <2>4. q \in Nat /\ b * q >= cost
    BY <1>1, <1>2, <2>3, CeilFacts
  <2>5. e * l = l * e /\ px * n = n * px
    OBVIOUS
  <2> QED BY <2>2, <2>4, <2>5 DEF q
<1>4. CASE l < 0
  <2>1. n < 0
    BY <1>0, <1>4
  <2>2. b = -(l + n) /\ cost = e * (-l) + px * (-n)
    BY <1>4, <2>1 DEF Abs
  <2>3. q = cost \div b
    BY <1>4 DEF StackedEntry
  <2> HIDE DEF q, cost, b
  <2>4. q \in Nat /\ b * q <= cost
    BY <1>1, <1>2, <2>3, DivFacts
  <2>5. cost = -(l * e + n * px)
    BY <2>2
  <2>6. b * q = -((l + n) * q)
    BY <2>2, <2>4
  <2>7. (l + n) * q \in Int /\ l * e + n * px \in Int
    BY <2>4
  <2> QED BY <2>4, <2>5, <2>6, <2>7 DEF q
<1> QED BY <1>0, <1>3, <1>4

(* A fill of n lots at px: the cost of the position grows by no less than  *)
(* the traded value plus what it realizes.                                 *)
Costs(a, n, px, q, r) ==
    /\ q \in Accounts /\ r \in Int
    /\ q.cross = a.cross /\ q.iso = a.iso /\ q.matured = a.matured /\ q.reserve = a.reserve
    /\ q.lots * q.entry >= a.lots * a.entry + n * px + r

LEMMA FillCost ==
    ASSUME index \in Int, NEW a, a \in Accounts, NEW n, n \in Int, n # 0, NEW px, px \in Nat,
           NEW q, q = ApplyFillToPosition(a, n, px), NEW r, r = RealizedPnl(a, n, px)
    PROVE  Costs(a, n, px, q, r)
<1> DEFINE l == a.lots
           e == a.entry
           opens == l = 0 \/ l * (l + n) < 0
<1>0. l \in Int /\ e \in Nat /\ a.anchor \in Int /\ l + n \in Int
  BY DEF Accounts
<1>1. /\ q.lots = l + n
      /\ q.entry = IF opens THEN px ELSE IF l + n = 0 THEN 0
                   ELSE IF l * n > 0 THEN StackedEntry(l, e, n, px) ELSE e
      /\ q.cross = a.cross /\ q.iso = a.iso /\ q.matured = a.matured /\ q.reserve = a.reserve
      /\ q.anchor \in {index, a.anchor}
      /\ q = [a EXCEPT !.lots = q.lots, !.entry = q.entry, !.anchor = q.anchor]
  BY DEF ApplyFillToPosition, Accounts
<1>2. l * n >= 0 => r = 0
  BY DEF RealizedPnl
<1>3. ASSUME l * n < 0
      PROVE  r = IF Abs(n) <= Abs(l) THEN (-n) * (px - e) ELSE l * (px - e)
  <2>1. (l > 0 /\ n < 0) \/ (l < 0 /\ n > 0)
    BY <1>0, <1>3, SignOfProduct
  <2> DEFINE c == Min({Abs(n), Abs(l)})
  <2>2. Abs(n) \in Int /\ Abs(l) \in Int
    BY <1>0 DEF Abs
  <2>3. c = IF Abs(n) <= Abs(l) THEN Abs(n) ELSE Abs(l)
    BY <2>2, MinOfTwo
  <2>4. r = IF l > 0 THEN c * (px - e) ELSE c * (e - px)
    <3>1. l * n \in Int
      BY <1>0
    <3> QED BY <1>3, <3>1 DEF RealizedPnl
  <2> HIDE DEF c, l, e
  <2>5. c \in Int /\ c = IF Abs(n) <= Abs(l) THEN (IF n < 0 THEN -n ELSE n) ELSE (IF l < 0 THEN -l ELSE l)
    BY <1>0, <2>2, <2>3 DEF Abs
  <2>6. CASE l > 0
    <3>1. r = c * (px - e) /\ n < 0
      BY <1>0, <2>1, <2>4, <2>6
    <3>2. c = IF Abs(n) <= Abs(l) THEN -n ELSE l
      BY <1>0, <2>5, <2>6, <3>1
    <3> QED BY <3>1, <3>2
  <2>7. CASE l < 0
    <3>1. r = c * (e - px) /\ n > 0
      BY <1>0, <2>1, <2>4, <2>7
    <3>2. c = IF Abs(n) <= Abs(l) THEN n ELSE -l
      BY <1>0, <2>5, <2>7, <3>1
    <3>3. n * (e - px) = (-n) * (px - e) /\ (-l) * (e - px) = l * (px - e)
      BY <1>0
    <3> QED BY <3>1, <3>2, <3>3
  <2> QED BY <2>1, <2>6, <2>7
<1> HIDE DEF l, e
<1>4. r \in Int
  <2>1. l * n \in Int
    BY <1>0
  <2>2. (-n) * (px - e) \in Int /\ l * (px - e) \in Int
    BY <1>0
  <2> QED BY <1>2, <1>3, <2>1, <2>2
<1> SUFFICES q.entry \in Nat /\ (l + n) * q.entry >= l * e + n * px + r
  <2>1. ASSUME q.entry \in Nat PROVE q \in Accounts
    <3>1. q.lots \in Int /\ q.anchor \in Int
      BY <1>0, <1>1
    <3> QED BY <1>1, <2>1, <3>1 DEF Accounts
  <2> QED BY <1>1, <1>4, <2>1 DEF l, e, Costs
<1>6. CASE l * n > 0
  <2>1. (l > 0 /\ n > 0) \/ (l < 0 /\ n < 0)
    BY <1>0, <1>6, SignOfProduct
  <2>2. l + n # 0 /\ l # 0 /\ ((l > 0 /\ l + n > 0) \/ (l < 0 /\ l + n < 0))
    BY <1>0, <2>1
  <2>3. l * (l + n) > 0 /\ l * (l + n) \in Int
    BY <1>0, <2>2, SignOfProduct
  <2>4. q.entry = StackedEntry(l, e, n, px)
    BY <1>1, <1>6, <2>2, <2>3
  <2>5. q.entry \in Nat /\ (l + n) * q.entry >= l * e + n * px
    <3>1. /\ StackedEntry(l, e, n, px) \in Nat
          /\ (l + n) * StackedEntry(l, e, n, px) >= l * e + n * px
      BY <1>0, <1>6, StackingCost
    <3> QED BY <2>4, <3>1
  <2>6. l * e + n * px + r = l * e + n * px
    <3>1. r = 0
      BY <1>0, <1>2, <1>6
    <3>2. l * e + n * px \in Int
      BY <1>0
    <3> QED BY <3>1, <3>2
  <2> QED BY <2>5, <2>6
<1>7. CASE l * n = 0
  <2>1. l = 0 /\ r = 0
    BY <1>0, <1>2, <1>7, SignOfProduct
  <2>2. q.entry = px
    BY <1>1, <2>1
  <2>3. l + n = n /\ l * e = 0 /\ n * px \in Int
    BY <1>0, <2>1
  <2>4. l * e + n * px + r = n * px
    <3> DEFINE v == n * px
               u == l * e
    <3>1. u = 0 /\ v \in Int /\ r = 0
      BY <2>1, <2>3
    <3> HIDE DEF u, v
    <3>2. u + v + r = v
      BY <3>1
    <3> QED BY <3>2 DEF u, v
  <2> QED BY <2>2, <2>3, <2>4
<1>8. CASE l * n < 0
  <2>1. (l > 0 /\ n < 0) \/ (l < 0 /\ n > 0)
    BY <1>0, <1>8, SignOfProduct
  <2>2. CASE Abs(n) <= Abs(l)
    <3>1. r = (-n) * (px - e)
      BY <1>3, <1>8, <2>2
    <3>2. (l + n) * e = l * e + n * px + r
      BY <1>0, <3>1, ClosingCost
    <3>3. CASE l + n = 0
      <4>1. l * (l + n) = 0 /\ l # 0
        BY <1>0, <2>1, <3>3
      <4>2. q.entry = 0 /\ (l + n) * e = 0 /\ (l + n) * q.entry = 0
        BY <1>0, <1>1, <3>3, <4>1
      <4> QED BY <3>2, <4>2
    <3>4. CASE l + n # 0
      <4>1. (l > 0 /\ l + n > 0) \/ (l < 0 /\ l + n < 0)
        BY <1>0, <2>1, <2>2, <3>4 DEF Abs
      <4>3. l * (l + n) > 0 /\ l * (l + n) \in Int /\ l * n \in Int /\ l # 0
        BY <1>0, <4>1, SignOfProduct
      <4>4. q.entry = e
        BY <1>1, <1>8, <3>4, <4>3
      <4>5. (l + n) * e \in Int
        BY <1>0
      <4> QED BY <1>0, <3>2, <4>4, <4>5
    <3> QED BY <3>3, <3>4
  <2>3. CASE ~(Abs(n) <= Abs(l))
    <3>1. r = l * (px - e)
      BY <1>3, <1>8, <2>3
    <3>2. (l + n) * px = l * e + n * px + r
      BY <1>0, <3>1, ClosingCost
    <3>3. (l > 0 /\ l + n < 0) \/ (l < 0 /\ l + n > 0)
      BY <1>0, <2>1, <2>3 DEF Abs
    <3>5. l * (l + n) < 0
      BY <1>0, <3>3, SignOfProduct
    <3>6. q.entry = px
      BY <1>1, <3>5
    <3>7. (l + n) * px \in Int
      BY <1>0
    <3> QED BY <3>2, <3>6, <3>7
  <2> QED BY <2>2, <2>3
<1> QED
  <2>1. l * n \in Int
    BY <1>0
  <2> QED BY <1>6, <1>7, <1>8, <2>1

-----------------------------------------------------------------------------
(* The fund never pays more than it has; in the direct regime, what it     *)
(* does not pay is remembered.                                             *)
LEMMA CoverBadDebtFacts ==
    ASSUME NEW m \in Books, NEW shortfall, shortfall \in Nat,
           NEW w, w = CoverBadDebt(m, shortfall)
    PROVE  /\ w \in Books /\ w.acct = m.acct /\ w.pot.fees = m.pot.fees
           /\ w.pot.residual = m.pot.residual /\ w.pot.maturedTotal = m.pot.maturedTotal
           /\ w.pot.dust = m.pot.dust
           /\ w.pot.fund <= m.pot.fund
           /\ on => w.uncovered = m.uncovered
           /\ ~on => w.pot.fund - w.uncovered = m.pot.fund - m.uncovered - shortfall
<1> DEFINE fund == m.pot.fund
           unc == m.uncovered
           covered == IF permissionless THEN 0 ELSE Min({shortfall, fund})
           u == IF on THEN unc ELSE unc + shortfall - covered
           p == [m.pot EXCEPT !.fund = fund - covered]
<1>1. /\ m.pot \in Pots /\ fund \in Nat /\ unc \in Nat /\ m.acct \in [Traders -> Accounts]
      /\ m = [acct |-> m.acct, pot |-> m.pot, uncovered |-> m.uncovered]
  BY BooksFields
<1>2. covered \in Nat /\ covered <= shortfall /\ covered <= fund
  <2> HIDE DEF fund
  <2>1. Min({shortfall, fund}) = IF shortfall <= fund THEN shortfall ELSE fund
    BY <1>1, MinOfTwo
  <2> QED BY <1>1, <2>1
<1>3. w = [acct |-> m.acct, pot |-> p, uncovered |-> u]
  BY <1>1 DEF CoverBadDebt
<1> HIDE DEF covered
<1>4. fund - covered \in Nat /\ fund - covered <= fund
  <2> HIDE DEF fund
  <2> QED BY <1>1, <1>2
<1>5. /\ p \in Pots /\ p.fund = fund - covered /\ p.fees = m.pot.fees
      /\ p.residual = m.pot.residual /\ p.maturedTotal = m.pot.maturedTotal /\ p.dust = m.pot.dust
  BY <1>1, <1>4 DEF Pots
<1>6. /\ u \in Nat /\ (on => u = unc) /\ (~on => u = unc + shortfall - covered)
  <2> HIDE DEF unc, fund
  <2> QED BY <1>1, <1>2
<1> HIDE DEF p, u
<1>7. w \in Books /\ w.acct = m.acct /\ w.pot = p /\ w.uncovered = u
  BY <1>1, <1>3, <1>5, <1>6 DEF Books
<1>8. ~on => (fund - covered) - u = fund - unc - shortfall
  <2> HIDE DEF unc, fund
  <2> QED BY <1>1, <1>2, <1>6
<1> QED BY <1>4, <1>5, <1>6, <1>7, <1>8

(* Realizing a profit or a loss.                                           *)
Realized(m, t, pnl, w) ==
    /\ w \in Books /\ SamePositions(m.acct, w.acct) /\ Protects(m.acct, w.acct)
    /\ \A s \in Traders \ {t} : w.acct[s].iso = m.acct[s].iso /\ w.acct[s].cross = m.acct[s].cross
    /\ w.pot.maturedTotal = m.pot.maturedTotal /\ w.pot.dust = m.pot.dust
    /\ on => w.uncovered = m.uncovered
    /\ on => Held(w) + w.pot.residual <= Held(m) + m.pot.residual
    /\ ~on => Held(w) - w.uncovered = Held(m) - m.uncovered + pnl

LEMMA RealizePnlFacts ==
    ASSUME LedgerAssumption, NEW m \in Books, NEW t \in Traders, NEW isolated,
           isolated <=> Isolated(m, t), NEW pnl, pnl \in Int,
           NEW w, w = RealizePnl(m, t, isolated, pnl)
    PROVE  Realized(m, t, pnl, w)
<1> DEFINE has  == Bucket(m, t, isolated)
           loss == -pnl
           lost == Min({loss, has})
           put == SetBucket(m, t, isolated, has - lost)
           paid == CoverBadDebt(put, Shortfall(loss, has))
<1>1. /\ has \in Nat /\ m.acct \in [Traders -> Accounts] /\ m.pot \in Pots
      /\ m.pot.fund \in Nat /\ m.pot.fees \in Nat /\ m.pot.residual \in Nat /\ m.uncovered \in Nat
      /\ Collateral(m.acct) \in Nat
  BY BucketNat, BooksFields, MeasuresInt
<1>2. w = IF pnl >= 0
          THEN IF on THEN [m EXCEPT !.acct[t].reserve = @ + pnl] ELSE SetBucket(m, t, isolated, has + pnl)
          ELSE IF on THEN [paid EXCEPT !.pot.residual = @ + lost] ELSE paid
  BY DEF RealizePnl
<1> HIDE DEF has
<1>3. CASE pnl >= 0 /\ on
  <2> DEFINE x == [m.acct[t] EXCEPT !.reserve = m.acct[t].reserve + pnl]
  <2>0. m.acct[t] \in Accounts /\ m.acct[t].reserve \in Nat /\ m.acct[t].reserve + pnl \in Nat
    BY <1>3, BooksFields
  <2>1. x \in Accounts /\ x.cross = m.acct[t].cross /\ x.iso = m.acct[t].iso
        /\ x.lots = m.acct[t].lots /\ x.entry = m.acct[t].entry /\ x.matured = m.acct[t].matured
    BY <2>0 DEF Accounts
  <2>2. w = PutAccount(m, t, x)
    BY <1>2, <1>3, BooksFields DEF PutAccount
  <2> HIDE DEF x
  <2>3. /\ w \in Books /\ w.pot = m.pot /\ w.uncovered = m.uncovered
        /\ w.acct \in [Traders -> Accounts] /\ w.acct[t] = x
        /\ \A s \in Traders \ {t} : w.acct[s] = m.acct[s]
    BY <2>1, <2>2, AccountWritten
  <2>4. \A s \in Traders : /\ w.acct[s].cross = m.acct[s].cross /\ w.acct[s].iso = m.acct[s].iso
                           /\ w.acct[s].lots = m.acct[s].lots /\ w.acct[s].entry = m.acct[s].entry
                           /\ w.acct[s].matured = m.acct[s].matured
    BY <2>1, <2>3
  <2>5. Collateral(w.acct) = Collateral(m.acct)
    <3>1. [s \in Traders |-> w.acct[s].cross + w.acct[s].iso]
            = [s \in Traders |-> m.acct[s].cross + m.acct[s].iso]
      BY <2>4
    <3> QED BY <3>1 DEF Collateral
  <2>6. Held(w) = Held(m)
    BY <2>3, <2>5 DEF Held
  <2>7. Held(m) + m.pot.residual \in Int
    BY <1>1 DEF Held
  <2>8. SamePositions(m.acct, w.acct)
    BY <2>4 DEF SamePositions
  <2>9. Protects(m.acct, w.acct)
    BY <1>1, <2>3, <2>4, ProtectsItself
  <2>10. Held(w) + w.pot.residual <= Held(m) + m.pot.residual
    BY <2>3, <2>6, <2>7
  <2> QED BY <1>3, <2>3, <2>4, <2>8, <2>9, <2>10 DEF Realized
<1>4. CASE pnl >= 0 /\ ~on
  <2>1. has + pnl \in Nat
    BY <1>1, <1>4
  <2>2. w = SetBucket(m, t, isolated, has + pnl)
    BY <1>2, <1>4
  <2>3. /\ w \in Books /\ w.pot = m.pot /\ w.uncovered = m.uncovered
        /\ \A s \in Traders \ {t} : w.acct[s] = m.acct[s]
        /\ Collateral(w.acct) = (Collateral(m.acct) - has) + (has + pnl)
        /\ SamePositions(m.acct, w.acct) /\ Protects(m.acct, w.acct)
    BY <2>1, <2>2, SetBucketFacts DEF has
  <2>4. Held(w) - w.uncovered = Held(m) - m.uncovered + pnl
    BY <1>1, <2>3 DEF Held
  <2> QED BY <1>4, <2>3, <2>4 DEF Realized
<1>5. CASE ~ (pnl >= 0)
  <2>1. loss \in Nat
    BY <1>5
  <2>2. lost = IF loss <= has THEN loss ELSE has
    BY <1>1, <2>1, MinOfTwo
  <2>3. lost \in Nat /\ has - lost \in Nat /\ Shortfall(loss, has) = loss - lost /\ loss - lost \in Nat
    <3>1. Shortfall(loss, has) = loss - lost
      BY DEF Shortfall
    <3> HIDE DEF lost, loss
    <3> QED BY <1>1, <2>1, <2>2, <3>1
  <2> HIDE DEF lost
  <2>4. /\ put \in Books /\ put.pot = m.pot /\ put.uncovered = m.uncovered
        /\ \A s \in Traders \ {t} : put.acct[s] = m.acct[s]
        /\ Collateral(put.acct) = (Collateral(m.acct) - has) + (has - lost)
        /\ SamePositions(m.acct, put.acct) /\ Protects(m.acct, put.acct)
    BY <2>3, SetBucketFacts DEF has
  <2> HIDE DEF put
  <2>5. /\ paid \in Books /\ paid.acct = put.acct /\ paid.pot.fees = put.pot.fees
        /\ paid.pot.residual = put.pot.residual /\ paid.pot.maturedTotal = put.pot.maturedTotal
        /\ paid.pot.dust = put.pot.dust
        /\ paid.pot.fund <= put.pot.fund
        /\ on => paid.uncovered = put.uncovered
        /\ ~on => paid.pot.fund - paid.uncovered = put.pot.fund - put.uncovered - (loss - lost)
    <3> DEFINE short == Shortfall(loss, has)
    <3>1. short \in Nat /\ short = loss - lost /\ paid = CoverBadDebt(put, short)
      BY <2>3
    <3> HIDE DEF short, paid, loss
    <3>2. /\ paid \in Books /\ paid.acct = put.acct /\ paid.pot.fees = put.pot.fees
          /\ paid.pot.residual = put.pot.residual /\ paid.pot.maturedTotal = put.pot.maturedTotal
          /\ paid.pot.dust = put.pot.dust
          /\ paid.pot.fund <= put.pot.fund
          /\ on => paid.uncovered = put.uncovered
          /\ ~on => paid.pot.fund - paid.uncovered = put.pot.fund - put.uncovered - short
      <4>1. put \in Books /\ short \in Nat
        BY <2>4, <3>1
      <4>2. \A y : y = CoverBadDebt(put, short) =>
             /\ y \in Books /\ y.acct = put.acct /\ y.pot.fees = put.pot.fees
             /\ y.pot.residual = put.pot.residual /\ y.pot.maturedTotal = put.pot.maturedTotal
             /\ y.pot.dust = put.pot.dust
             /\ y.pot.fund <= put.pot.fund
             /\ on => y.uncovered = put.uncovered
             /\ ~on => y.pot.fund - y.uncovered = put.pot.fund - put.uncovered - short
        BY <4>1, CoverBadDebtFacts, ZenonT(60)
      <4> QED BY <3>1, <4>2
    <3> QED BY <3>1, <3>2
  <2> HIDE DEF paid
  <2>6. paid.pot \in Pots /\ paid.pot.fund \in Nat /\ paid.pot.fees \in Nat /\ paid.uncovered \in Nat
        /\ paid.pot.residual \in Nat
    BY <2>5, BooksFields
  <2>7. CASE ~on
    <3>1. w = paid
      BY <1>2, <1>5, <2>7
    <3>2. Held(w) - w.uncovered = Held(m) - m.uncovered + pnl
      <4> DEFINE c0 == Collateral(m.acct)
                 c1 == Collateral(put.acct)
      <4>1. Held(w) = c1 + paid.pot.fund + m.pot.fees /\ Held(m) = c0 + m.pot.fund + m.pot.fees
        BY <2>4, <2>5, <3>1 DEF Held
      <4>2. c1 = (c0 - has) + (has - lost) /\ c0 \in Int
        BY <1>1, <2>4
      <4>3. paid.pot.fund - paid.uncovered = m.pot.fund - m.uncovered - (loss - lost)
        BY <2>4, <2>5, <2>7
      <4> DEFINE f0 == m.pot.fund
                 f1 == paid.pot.fund
                 u0 == m.uncovered
                 u1 == paid.uncovered
                 g == m.pot.fees
                 d == -pnl
      <4>4. /\ Held(w) = c1 + f1 + g /\ Held(m) = c0 + f0 + g /\ w.uncovered = u1
            /\ c1 = (c0 - has) + (has - lost) /\ c0 \in Int
            /\ f1 - u1 = f0 - u0 - (d - lost) /\ d \in Int /\ pnl = -d
            /\ f0 \in Nat /\ f1 \in Nat /\ u0 \in Nat /\ u1 \in Nat /\ g \in Nat /\ has \in Nat /\ lost \in Nat
        BY <1>1, <2>3, <2>6, <3>1, <4>1, <4>2, <4>3
      <4> HIDE DEF c0, c1, f0, f1, u0, u1, g, d
      <4>5. Held(w) - u1 = Held(m) - u0 + pnl
        BY <4>4
      <4> QED BY <4>4, <4>5 DEF u0
    <3> QED BY <2>4, <2>5, <2>7, <3>1, <3>2 DEF Realized
  <2>8. CASE on
    <3> DEFINE p == [paid.pot EXCEPT !.residual = paid.pot.residual + lost]
    <3>1. paid.pot.residual + lost \in Nat
      BY <2>3, <2>6
    <3>2. p \in Pots /\ p.fund = paid.pot.fund /\ p.fees = paid.pot.fees
          /\ p.residual = paid.pot.residual + lost
          /\ p.maturedTotal = paid.pot.maturedTotal /\ p.dust = paid.pot.dust
      BY <2>6, <3>1 DEF Pots
    <3>3. w = PutPot(paid, p)
      BY <1>2, <1>5, <2>5, <2>8, BooksFields DEF PutPot
    <3> HIDE DEF p
    <3>4. w \in Books /\ w.pot = p /\ w.acct = paid.acct /\ w.uncovered = paid.uncovered
      BY <2>5, <3>2, <3>3, PotWritten
    <3>5. Held(w) + w.pot.residual <= Held(m) + m.pot.residual
      <4> DEFINE c0 == Collateral(m.acct)
                 c1 == Collateral(put.acct)
      <4>1. Held(w) = c1 + paid.pot.fund + m.pot.fees /\ Held(m) = c0 + m.pot.fund + m.pot.fees
        BY <2>4, <2>5, <3>2, <3>4 DEF Held
      <4>2. c1 = (c0 - has) + (has - lost) /\ c0 \in Int
        BY <1>1, <2>4
      <4>3. paid.pot.fund <= m.pot.fund /\ w.pot.residual = m.pot.residual + lost
        BY <2>4, <2>5, <3>2, <3>4
      <4> HIDE DEF c0, c1
      <4> QED BY <1>1, <2>3, <2>6, <4>1, <4>2, <4>3
    <3> QED BY <2>4, <2>5, <2>8, <3>2, <3>4, <3>5 DEF Realized
  <2> QED BY <2>7, <2>8
<1> QED BY <1>3, <1>4, <1>5

-----------------------------------------------------------------------------
(* One leg of a fill: collateral stays, the cost of the positions grows by *)
(* no less than the traded value plus what the leg realizes.               *)
Value(n, px) == n * px
Leg(m, t, n, px) == PutAccount(m, t, ApplyFillToPosition(m.acct[t], n, px))
Legs(m, t, k, n, px) == [m EXCEPT !.acct[t] = ApplyFillToPosition(@, n, px),
                                  !.acct[k] = ApplyFillToPosition(@, -n, px)]
LegWritten(m, t, n, px, w) ==
    /\ w \in Books /\ w.pot = m.pot /\ w.uncovered = m.uncovered
    /\ \A s \in Traders \ {t} : w.acct[s] = m.acct[s]
    /\ \A s \in Traders : w.acct[s].iso = m.acct[s].iso /\ w.acct[s].cross = m.acct[s].cross
    /\ Held(w) = Held(m) /\ MaturedOf(w.acct) = MaturedOf(m.acct)
    /\ Value(n, px) \in Int /\ RealizedPnl(m.acct[t], n, px) \in Int
    /\ BasisOf(w.acct) >= BasisOf(m.acct) + Value(n, px) + RealizedPnl(m.acct[t], n, px)

LEMMA LegFacts ==
    ASSUME LedgerAssumption, index \in Int, NEW m \in Books, NEW t \in Traders,
           NEW n, n \in Int, n # 0, NEW px, px \in Nat,
           NEW w, w = Leg(m, t, n, px)
    PROVE  LegWritten(m, t, n, px, w)
<1> DEFINE a == m.acct[t]
           q == ApplyFillToPosition(a, n, px)
           r == RealizedPnl(a, n, px)
           v == Value(n, px)
<1>1. a \in Accounts /\ m.acct \in [Traders -> Accounts]
  BY BooksFields
<1>2. v \in Int /\ v = n * px
  BY DEF Value
<1> HIDE DEF a, r, v
<1>3. r = RealizedPnl(a, n, px) /\ w = PutAccount(m, t, q)
  BY DEF a, r, Leg
<1>4. /\ q \in Accounts /\ r \in Int
      /\ q.cross = a.cross /\ q.iso = a.iso /\ q.matured = a.matured
      /\ q.lots * q.entry >= a.lots * a.entry + n * px + r
  <2> HIDE DEF q
  <2>0. q = ApplyFillToPosition(a, n, px) /\ r = RealizedPnl(a, n, px)
    BY <1>3 DEF q
  <2>1. a \in Accounts
    BY <1>1
  <2>2. Costs(a, n, px, q, r)
    BY <2>0, <2>1, FillCost
  <2> QED BY <2>2 DEF Costs
<1> HIDE DEF q
<1>5. /\ w \in Books /\ w.pot = m.pot /\ w.uncovered = m.uncovered
      /\ w.acct \in [Traders -> Accounts] /\ w.acct[t] = q
      /\ \A s \in Traders \ {t} : w.acct[s] = m.acct[s]
  BY <1>3, <1>4, AccountWritten
<1>6. \A s \in Traders : w.acct[s].iso = m.acct[s].iso /\ w.acct[s].cross = m.acct[s].cross
  BY <1>4, <1>5 DEF a
<1>7. /\ Collateral(w.acct) = Collateral(m.acct) - (a.cross + a.iso) + (q.cross + q.iso)
      /\ BasisOf(w.acct) = BasisOf(m.acct) - a.lots * a.entry + q.lots * q.entry
      /\ MaturedOf(w.acct) = MaturedOf(m.acct) - a.matured + q.matured
  BY <1>1, <1>5, AccountMoves DEF a
<1>8. /\ Collateral(m.acct) \in Int /\ BasisOf(m.acct) \in Int /\ MaturedOf(m.acct) \in Int
  BY <1>1, MeasuresInt
<1>9. a.cross \in Int /\ a.iso \in Int /\ a.matured \in Int /\ a.lots \in Int /\ a.entry \in Int
      /\ q.lots \in Int /\ q.entry \in Int
  BY <1>1, <1>4 DEF Accounts
<1>10. Collateral(w.acct) = Collateral(m.acct) /\ MaturedOf(w.acct) = MaturedOf(m.acct)
  BY <1>4, <1>7, <1>8, <1>9
<1>11. Held(w) = Held(m)
  BY <1>5, <1>10 DEF Held
<1>12. BasisOf(w.acct) >= BasisOf(m.acct) + v + r
  <2> DEFINE x == a.lots * a.entry
             y == q.lots * q.entry
             z == BasisOf(m.acct)
  <2>1. x \in Int /\ y \in Int /\ z \in Int
    BY <1>8, <1>9
  <2>2. y >= x + v + r /\ BasisOf(w.acct) = z - x + y
    BY <1>2, <1>4, <1>7
  <2> HIDE DEF x, y, z
  <2>3. BasisOf(w.acct) >= z + v + r
    BY <1>2, <1>4, <2>1, <2>2
  <2> QED BY <2>3 DEF z
<1> QED BY <1>2, <1>4, <1>5, <1>6, <1>10, <1>11, <1>12 DEF a, r, v, LegWritten

(* Both legs: what one side's cost gains by the traded value the other     *)
(* side's loses.                                                           *)
LegsWritten(m, t, k, n, px, w) ==
    /\ w \in Books /\ w.pot = m.pot /\ w.uncovered = m.uncovered
    /\ \A s \in Traders : w.acct[s].iso = m.acct[s].iso /\ w.acct[s].cross = m.acct[s].cross
    /\ Held(w) = Held(m) /\ MaturedOf(w.acct) = MaturedOf(m.acct)
    /\ RealizedPnl(m.acct[t], n, px) \in Int /\ RealizedPnl(m.acct[k], -n, px) \in Int
    /\ BasisOf(w.acct) >= BasisOf(m.acct) + RealizedPnl(m.acct[t], n, px)
                            + RealizedPnl(m.acct[k], -n, px)

LEMMA LegsFacts ==
    ASSUME LedgerAssumption, index \in Int, NEW m \in Books, NEW t \in Traders, NEW k \in Traders, t # k,
           NEW n, n \in Int, n # 0, NEW px, px \in Nat,
           NEW w, w = Legs(m, t, k, n, px)
    PROVE  LegsWritten(m, t, k, n, px, w)
<1> DEFINE r1 == RealizedPnl(m.acct[t], n, px)
           o == -n
           r2 == RealizedPnl(m.acct[k], o, px)
           one == Leg(m, t, n, px)
           v1 == Value(n, px)
           v2 == Value(o, px)
           two == Leg(one, k, o, px)
<1>1. /\ one \in Books /\ one.pot = m.pot /\ one.uncovered = m.uncovered
      /\ \A s \in Traders \ {t} : one.acct[s] = m.acct[s]
      /\ \A s \in Traders : one.acct[s].iso = m.acct[s].iso /\ one.acct[s].cross = m.acct[s].cross
      /\ Held(one) = Held(m) /\ MaturedOf(one.acct) = MaturedOf(m.acct)
      /\ v1 \in Int /\ r1 \in Int /\ BasisOf(one.acct) >= BasisOf(m.acct) + v1 + r1
  <2> HIDE DEF one
  <2>1. one = Leg(m, t, n, px)
    BY DEF one
  <2>2. LegWritten(m, t, n, px, one)
    BY <2>1, LegFacts
  <2> QED BY <2>2 DEF LegWritten
<1>2. m.acct \in [Traders -> Accounts] /\ m = [acct |-> m.acct, pot |-> m.pot, uncovered |-> m.uncovered]
  BY BooksFields
<1>3. w = two
  <2>1. one.acct = [m.acct EXCEPT ![t] = ApplyFillToPosition(m.acct[t], n, px)]
        /\ one = [acct |-> one.acct, pot |-> m.pot, uncovered |-> m.uncovered]
    BY <1>2 DEF PutAccount, Leg
  <2>2. one.acct[k] = m.acct[k]
    BY <1>1
  <2>3. two = [acct |-> [one.acct EXCEPT ![k] = ApplyFillToPosition(m.acct[k], o, px)],
               pot |-> m.pot, uncovered |-> m.uncovered]
    <3>1. two = PutAccount(one, k, ApplyFillToPosition(m.acct[k], o, px))
      BY <2>2 DEF Leg
    <3> HIDE DEF one, two
    <3> QED BY <2>1, <3>1 DEF PutAccount
  <2>4. w = [acct |-> [[m.acct EXCEPT ![t] = ApplyFillToPosition(m.acct[t], n, px)]
                         EXCEPT ![k] = ApplyFillToPosition(m.acct[k], o, px)],
             pot |-> m.pot, uncovered |-> m.uncovered]
    BY <1>2 DEF Legs
  <2> QED BY <2>1, <2>3, <2>4
<1>4. one.acct[k] = m.acct[k] /\ o \in Int /\ o # 0
  BY <1>1
<1>5. /\ two \in Books /\ two.pot = one.pot /\ two.uncovered = one.uncovered
      /\ \A s \in Traders : two.acct[s].iso = one.acct[s].iso /\ two.acct[s].cross = one.acct[s].cross
      /\ Held(two) = Held(one) /\ MaturedOf(two.acct) = MaturedOf(one.acct)
      /\ v2 \in Int /\ r2 \in Int /\ BasisOf(two.acct) >= BasisOf(one.acct) + v2 + r2
  <2>1. /\ two = Leg(one, k, o, px)
        /\ r2 = RealizedPnl(one.acct[k], o, px)
    BY <1>4
  <2> HIDE DEF one, two, r2, o
  <2>2. one \in Books
    BY <1>1
  <2>3. LegWritten(one, k, o, px, two)
    BY <1>4, <2>1, <2>2, LegFacts
  <2> QED BY <2>1, <2>3 DEF LegWritten
<1>6. v1 + v2 = 0
  BY DEF Value
<1>7. BasisOf(m.acct) \in Int /\ BasisOf(one.acct) \in Int /\ BasisOf(two.acct) \in Int
  <2> HIDE DEF one, two
  <2>1. one.acct \in [Traders -> Accounts] /\ two.acct \in [Traders -> Accounts]
    BY <1>1, <1>5, BooksFields
  <2> QED BY <1>2, <2>1, MeasuresInt
<1> HIDE DEF one, two, v1, v2, r1, r2, o
<1>8. BasisOf(two.acct) >= BasisOf(m.acct) + r1 + r2
  BY <1>1, <1>5, <1>6, <1>7
<1> QED BY <1>1, <1>3, <1>5, <1>8 DEF r1, r2, o, LegsWritten

-----------------------------------------------------------------------------
(* A settled fill, before the positions move: fees, then funding with the  *)
(* haircut on.                                                             *)
Funded(t, k, fee, share) ==
    LET charged == ChargeFees(Claims, t, k, fee, share)
    IN  IF on THEN SettlePositionFunding(SettlePositionFunding(charged, t), k) ELSE charged

(* The most a fill of t against k takes from the bucket of s before the    *)
(* positions move; a larger one is still there then.                       *)
FeeOf(t, k, fee, s) == IF s = t THEN fee.taker ELSE IF s = k THEN fee.maker ELSE 0
Toll(t, k, fee, s) == IF s \in {t, k} THEN FeeOf(t, k, fee, s) + FundingDue(acct[s]) ELSE 0
OutlivesToll(t, k, fee, w) ==
    \A s \in Traders : acct[s].iso > Toll(t, k, fee, s)
                         => w.acct[s].iso > 0 /\ w.acct[s].cross >= acct[s].cross

LEMMA FundingOfBoth ==
    ASSUME LedgerAssumption, index \in Int, NEW t \in Traders, NEW k \in Traders, t # k,
           NEW c \in Books, NEW f \in Books, NEW g \in Books,
           FundingTaken(c, f, t), Protects(c.acct, f.acct),
           FundingTaken(f, g, k), Protects(f.acct, g.acct), NEW s \in Traders
    PROVE  /\ g.acct[s].iso >= c.acct[s].iso - Due(c.acct[s])
           /\ c.acct[s].iso > 0 => g.acct[s].cross >= c.acct[s].cross
           /\ s \notin {t, k} => g.acct[s] = c.acct[s]
<1>1. /\ c.acct[s] \in Accounts /\ c.acct[s].iso \in Nat /\ c.acct[s].cross \in Nat
      /\ g.acct[s].iso \in Nat
  BY BooksFields
<1>2. Due(c.acct[s]) \in Nat
  BY <1>1, DueFacts
<1>3. CASE s = t
  BY <1>3 DEF FundingTaken, Protects
<1>4. CASE s # t
  <2>1. f.acct[s] = c.acct[s]
    BY <1>4 DEF FundingTaken
  <2>2. CASE s = k
    BY <2>1, <2>2 DEF FundingTaken, Protects
  <2>3. CASE s # k
    <3>1. g.acct[s] = c.acct[s]
      BY <2>1, <2>3 DEF FundingTaken
    <3> QED BY <1>1, <1>2, <3>1
  <2> QED BY <2>2, <2>3
<1> QED BY <1>3, <1>4

IsFunded(t, k, fee, w) ==
    /\ OutlivesToll(t, k, fee, w)
    /\ w \in Books /\ w.uncovered = Claims.uncovered
    /\ w.pot.maturedTotal = Claims.pot.maturedTotal /\ w.pot.dust = Claims.pot.dust
    /\ Held(w) + w.pot.residual <= Held(Claims) + Claims.pot.residual
    /\ ~on => Held(w) <= Held(Claims)
    /\ SamePositions(Claims.acct, w.acct)

LEMMA FundedFacts ==
    ASSUME LedgerAssumption, index \in Int, Claims \in Books, NEW t \in Traders, NEW k \in Traders, t # k,
           NEW fee \in [taker : Nat, rebate : Nat, maker : Nat], NEW share \in Nat,
           NEW w, w = Funded(t, k, fee, share)
    PROVE  IsFunded(t, k, fee, w)
<1> DEFINE m == Claims
           c == ChargeFees(m, t, k, fee, share)
           f == SettlePositionFunding(c, t)
           g == SettlePositionFunding(f, k)
<1>1. w = IF on THEN g ELSE c
  BY DEF Funded
<1>2. m \in Books
  OBVIOUS
<1> HIDE DEF m
<1>3. /\ c \in Books /\ Held(c) <= Held(m) /\ c.uncovered = m.uncovered
      /\ c.pot.residual = m.pot.residual /\ c.pot.maturedTotal = m.pot.maturedTotal
      /\ c.pot.dust = m.pot.dust
      /\ SamePositions(m.acct, c.acct) /\ Protects(m.acct, c.acct) /\ FeesTaken(m, c, t, k, fee)
  BY <1>2, ChargeFeesFacts
<1> HIDE DEF c
<1>4. /\ f \in Books /\ f.uncovered = c.uncovered
      /\ Held(f) + f.pot.residual = Held(c) + c.pot.residual
      /\ f.pot.maturedTotal = c.pot.maturedTotal /\ f.pot.dust = c.pot.dust
      /\ SamePositions(c.acct, f.acct) /\ Protects(c.acct, f.acct) /\ FundingTaken(c, f, t)
  BY <1>3, SettlePositionFundingFacts
<1> HIDE DEF f
<1>5. /\ g \in Books /\ g.uncovered = f.uncovered
      /\ Held(g) + g.pot.residual = Held(f) + f.pot.residual
      /\ g.pot.maturedTotal = f.pot.maturedTotal /\ g.pot.dust = f.pot.dust
      /\ SamePositions(f.acct, g.acct) /\ Protects(f.acct, g.acct) /\ FundingTaken(f, g, k)
  BY <1>4, SettlePositionFundingFacts
<1> HIDE DEF g
<1>6. /\ Held(m) \in Int /\ Held(c) \in Int /\ m.pot.residual \in Int
  <2>1. /\ m.acct \in [Traders -> Accounts] /\ m.pot.fund \in Nat /\ m.pot.fees \in Nat /\ m.pot.residual \in Nat
        /\ c.acct \in [Traders -> Accounts] /\ c.pot.fund \in Nat /\ c.pot.fees \in Nat
    BY <1>2, <1>3, BooksFields
  <2>2. Collateral(m.acct) \in Nat /\ Collateral(c.acct) \in Nat
    BY <2>1, MeasuresInt
  <2> QED BY <2>1, <2>2 DEF Held
<1>7. Held(c) + c.pot.residual <= Held(m) + m.pot.residual
  BY <1>3, <1>6
<1>8. SamePositions(m.acct, g.acct)
  <2>1. SamePositions(m.acct, f.acct)
    BY <1>3, <1>4, SamePositionsChain
  <2> QED BY <1>5, <2>1, SamePositionsChain
<1>9. OutlivesToll(t, k, fee, w)
  <2> SUFFICES ASSUME NEW s \in Traders, acct[s].iso > Toll(t, k, fee, s)
               PROVE  w.acct[s].iso > 0 /\ w.acct[s].cross >= acct[s].cross
    BY DEF OutlivesToll
  <2>1. acct[s] = m.acct[s]
    BY DEF m, Claims
  <2>2. /\ m.acct[s] \in Accounts /\ m.acct[s].iso \in Nat /\ m.acct[s].cross \in Nat
        /\ c.acct[s] \in Accounts /\ c.acct[s].iso \in Nat /\ c.acct[s].cross \in Nat
    BY <1>2, <1>3, BooksFields
  <2>3. g.acct[s].iso \in Nat /\ g.acct[s].cross \in Nat
    BY <1>5, BooksFields
  <2>4. FundingOwed(c.acct[s]) = FundingOwed(m.acct[s])
    <3>1. c.acct[s].lots = m.acct[s].lots /\ c.acct[s].anchor = m.acct[s].anchor
      BY <1>3 DEF SamePositions, FeesTaken
    <3> QED BY <3>1 DEF FundingOwed
  <2>5. Due(c.acct[s]) = Due(m.acct[s]) /\ Due(m.acct[s]) \in Nat
    BY <2>2, <2>4, DueFacts DEF Due
  <2>6. c.acct[s].iso >= m.acct[s].iso - FeeOf(t, k, fee, s) /\ FeeOf(t, k, fee, s) \in Nat
    BY <1>3, <2>2 DEF FeeOf, FeesTaken
  <2>7. m.acct[s].iso > 0 => c.acct[s].cross >= m.acct[s].cross
    BY <1>3 DEF Protects
  <2>8. /\ s \in {t, k} => Toll(t, k, fee, s) = FeeOf(t, k, fee, s) + (IF on THEN Due(m.acct[s]) ELSE 0)
        /\ s \notin {t, k} => Toll(t, k, fee, s) = 0 /\ FeeOf(t, k, fee, s) = 0
    BY <2>1 DEF Toll, FundingDue, Due, FeeOf
  <2> HIDE DEF c
  <2>9. CASE on
    <3>1. w = g
      BY <1>1, <2>9
    <3>2. /\ g.acct[s].iso >= c.acct[s].iso - Due(c.acct[s])
          /\ c.acct[s].iso > 0 => g.acct[s].cross >= c.acct[s].cross
          /\ s \notin {t, k} => g.acct[s] = c.acct[s]
      BY <1>3, <1>4, <1>5, FundingOfBoth
    <3>3. CASE s \in {t, k}
      <4> DEFINE i0 == m.acct[s].iso
                 i1 == c.acct[s].iso
                 i2 == g.acct[s].iso
                 charge == FeeOf(t, k, fee, s)
                 due == Due(m.acct[s])
      <4>1. /\ i0 \in Nat /\ i1 \in Nat /\ i2 \in Nat /\ charge \in Nat /\ due \in Nat
            /\ i1 >= i0 - charge /\ i2 >= i1 - due /\ i0 > charge + due
        BY <2>1, <2>2, <2>3, <2>5, <2>6, <2>8, <2>9, <3>2, <3>3
      <4> HIDE DEF i0, i1, i2, charge, due
      <4>2. i0 > 0 /\ i1 > 0 /\ i2 > 0
        BY <4>1
      <4>3. c.acct[s].cross >= m.acct[s].cross /\ g.acct[s].cross >= c.acct[s].cross
        BY <2>7, <3>2, <4>2 DEF i0, i1
      <4>4. g.acct[s].cross >= m.acct[s].cross
        BY <2>2, <2>3, <4>3
      <4> QED BY <2>1, <3>1, <4>2, <4>4 DEF i2
    <3>4. CASE s \notin {t, k}
      BY <2>1, <2>2, <2>6, <2>7, <2>8, <3>1, <3>2, <3>4
    <3> QED BY <3>3, <3>4
  <2>10. CASE ~on
    <3>1. w = c
      BY <1>1, <2>10
    <3> QED BY <2>1, <2>2, <2>6, <2>7, <2>8, <2>10, <3>1
  <2> QED BY <2>9, <2>10
<1>10. CASE on
  BY <1>1, <1>3, <1>4, <1>5, <1>7, <1>8, <1>9, <1>10 DEF m, IsFunded
<1>11. CASE ~on
  BY <1>1, <1>3, <1>7, <1>9, <1>11 DEF m, IsFunded
<1> QED BY <1>10, <1>11

(* A settled fill mints nothing in either regime: without the haircut,     *)
(* claims less the cost of the positions less the debt nobody covered do   *)
(* not grow; with it, claims and residual together do not.                 *)
FillSettled(w) ==
    /\ w \in Books
    /\ w.pot.maturedTotal = Claims.pot.maturedTotal /\ MaturedOf(w.acct) = MaturedOf(Claims.acct)
    /\ on => w.uncovered = Claims.uncovered
    /\ on => Held(w) + w.pot.residual <= Held(Claims) + Claims.pot.residual
    /\ ~on => Held(w) - BasisOf(w.acct) - w.uncovered
                <= Held(Claims) - BasisOf(Claims.acct) - Claims.uncovered

(* The loss of a fill stays in a bucket that outlives fees and funding.    *)
LossesStay(t, k, fee, w) ==
    \A s \in Traders : acct[s].iso > Toll(t, k, fee, s) => w.acct[s].cross >= acct[s].cross

LEMMA SettledFacts ==
    ASSUME LedgerAssumption, index \in Int, Claims \in Books, NEW t \in Traders, NEW k \in Traders, t # k,
           NEW n, n \in Int, n # 0, NEW px, px \in Nat,
           NEW fee, fee \in [taker : Nat, rebate : Nat, maker : Nat], NEW share, share \in Nat,
           NEW w, w = Settled(t, k, n, px, fee, share)
    PROVE  FillSettled(w) /\ LossesStay(t, k, fee, w)
<1> DEFINE m == Claims
           f == Funded(t, k, fee, share)
           l == Legs(f, t, k, n, px)
           fIso == Isolated(f, t)
           kIso == Isolated(f, k)
           r1 == RealizedPnl(f.acct[t], n, px)
           r2 == RealizedPnl(f.acct[k], -n, px)
           x == RealizePnl(l, t, fIso, r1)
<1>1. w = RealizePnl(x, k, kIso, r2)
  BY DEF Settled, Funded, Legs
<1>2. IsFunded(t, k, fee, f)
  BY FundedFacts
<1>3. /\ f \in Books /\ f.uncovered = m.uncovered
      /\ f.pot.maturedTotal = m.pot.maturedTotal
      /\ Held(f) + f.pot.residual <= Held(m) + m.pot.residual
      /\ ~on => Held(f) <= Held(m)
      /\ SamePositions(m.acct, f.acct) /\ OutlivesToll(t, k, fee, f)
  BY <1>2 DEF IsFunded
<1>4. m \in Books
  OBVIOUS
<1> HIDE DEF m, f
<1>5. LegsWritten(f, t, k, n, px, l)
  BY <1>3, LegsFacts
<1> HIDE DEF l
<1>6. /\ l \in Books /\ l.pot = f.pot /\ l.uncovered = f.uncovered
      /\ \A s \in Traders : l.acct[s].iso = f.acct[s].iso /\ l.acct[s].cross = f.acct[s].cross
      /\ Held(l) = Held(f) /\ MaturedOf(l.acct) = MaturedOf(f.acct)
      /\ r1 \in Int /\ r2 \in Int /\ BasisOf(l.acct) >= BasisOf(f.acct) + r1 + r2
  BY <1>5 DEF LegsWritten
<1>7. (fIso <=> Isolated(l, t)) /\ (kIso <=> Isolated(l, k))
  BY <1>6 DEF Isolated
<1> HIDE DEF r1, r2, fIso, kIso
<1>8. Realized(l, t, r1, x)
  BY <1>6, <1>7, RealizePnlFacts
<1> HIDE DEF x
<1>9. /\ x \in Books /\ SamePositions(l.acct, x.acct) /\ Protects(l.acct, x.acct)
      /\ \A s \in Traders \ {t} : x.acct[s].iso = l.acct[s].iso /\ x.acct[s].cross = l.acct[s].cross
      /\ x.pot.maturedTotal = l.pot.maturedTotal
      /\ on => x.uncovered = l.uncovered
      /\ on => Held(x) + x.pot.residual <= Held(l) + l.pot.residual
      /\ ~on => Held(x) - x.uncovered = Held(l) - l.uncovered + r1
  BY <1>8 DEF Realized
<1>10. kIso <=> Isolated(x, k)
  BY <1>7, <1>9 DEF Isolated
<1>11. Realized(x, k, r2, w)
  BY <1>1, <1>6, <1>9, <1>10, RealizePnlFacts
<1>12. /\ w \in Books /\ SamePositions(x.acct, w.acct) /\ Protects(x.acct, w.acct)
       /\ \A s \in Traders \ {k} : w.acct[s].iso = x.acct[s].iso /\ w.acct[s].cross = x.acct[s].cross
       /\ w.pot.maturedTotal = x.pot.maturedTotal
       /\ on => w.uncovered = x.uncovered
       /\ on => Held(w) + w.pot.residual <= Held(x) + x.pot.residual
       /\ ~on => Held(w) - w.uncovered = Held(x) - x.uncovered + r2
  BY <1>11 DEF Realized
<1>13. /\ m.acct \in [Traders -> Accounts] /\ f.acct \in [Traders -> Accounts]
       /\ l.acct \in [Traders -> Accounts] /\ x.acct \in [Traders -> Accounts]
       /\ w.acct \in [Traders -> Accounts]
  BY <1>3, <1>4, <1>6, <1>9, <1>12, BooksFields, SMTT(30)
<1>14. LossesStay(t, k, fee, w)
  <2> SUFFICES ASSUME NEW s \in Traders, acct[s].iso > Toll(t, k, fee, s)
               PROVE  w.acct[s].cross >= acct[s].cross
    BY DEF LossesStay
  <2>1. l.acct[s].iso > 0 /\ l.acct[s].cross >= acct[s].cross
    BY <1>3, <1>6 DEF OutlivesToll
  <2>2. /\ acct[s].cross \in Nat /\ l.acct[s].cross \in Nat /\ x.acct[s].cross \in Nat
        /\ w.acct[s].cross \in Nat
    <3>1. acct[s] = m.acct[s]
      BY DEF m, Claims
    <3> QED BY <1>4, <1>6, <1>9, <1>12, <3>1, BooksFields
  <2>3. CASE s = t
    <3>1. w.acct[s].cross = x.acct[s].cross
      BY <1>12, <2>3
    <3>2. x.acct[s].cross >= l.acct[s].cross
      BY <1>9, <2>1 DEF Protects
    <3> QED BY <2>1, <2>2, <3>1, <3>2
  <2>4. CASE s # t
    <3>1. x.acct[s].iso = l.acct[s].iso /\ x.acct[s].cross = l.acct[s].cross
      BY <1>9, <2>4
    <3>2. w.acct[s].cross >= x.acct[s].cross
      BY <1>12, <2>1, <3>1 DEF Protects
    <3> QED BY <2>1, <2>2, <3>1, <3>2
  <2> QED BY <2>3, <2>4
<1>15. /\ BasisOf(f.acct) = BasisOf(m.acct) /\ BasisOf(x.acct) = BasisOf(l.acct)
       /\ BasisOf(w.acct) = BasisOf(x.acct)
       /\ MaturedOf(f.acct) = MaturedOf(m.acct) /\ MaturedOf(x.acct) = MaturedOf(l.acct)
       /\ MaturedOf(w.acct) = MaturedOf(x.acct)
  BY <1>3, <1>9, <1>12, <1>13, PositionsCount
<1>16. /\ BasisOf(m.acct) \in Int /\ BasisOf(w.acct) \in Int
       /\ Held(m) \in Int /\ Held(f) \in Int /\ Held(x) \in Int /\ Held(w) \in Int
       /\ m.uncovered \in Int /\ x.uncovered \in Int /\ w.uncovered \in Int
       /\ m.pot.residual \in Int /\ f.pot.residual \in Int /\ x.pot.residual \in Int /\ w.pot.residual \in Int
  <2>1. BasisOf(m.acct) \in Int /\ BasisOf(w.acct) \in Int
    BY <1>13, MeasuresInt
  <2> QED BY <1>3, <1>4, <1>9, <1>12, <2>1, HeldNat, BooksFields
<1>17. w.pot.maturedTotal = m.pot.maturedTotal /\ MaturedOf(w.acct) = MaturedOf(m.acct)
  BY <1>3, <1>6, <1>9, <1>12, <1>15
<1>18. CASE on
  <2>1. Held(w) + w.pot.residual <= Held(m) + m.pot.residual
    BY <1>3, <1>6, <1>9, <1>12, <1>16, <1>18
  <2>2. w.uncovered = m.uncovered
    BY <1>3, <1>6, <1>9, <1>12, <1>18
  <2> QED BY <1>12, <1>14, <1>17, <1>18, <2>1, <2>2 DEF FillSettled, m
<1>19. CASE ~on
  <2> DEFINE b0 == BasisOf(m.acct)
             b1 == BasisOf(w.acct)
             u0 == m.uncovered
             u1 == x.uncovered
             u2 == w.uncovered
             h0 == Held(m)
             h1 == Held(f)
             h2 == Held(x)
             h3 == Held(w)
  <2>1. /\ b0 \in Int /\ b1 \in Int /\ u0 \in Int /\ u1 \in Int /\ u2 \in Int
        /\ h0 \in Int /\ h1 \in Int /\ h2 \in Int /\ h3 \in Int /\ r1 \in Int /\ r2 \in Int
        /\ h1 <= h0 /\ h2 - u1 = h1 - u0 + r1 /\ h3 - u2 = h2 - u1 + r2
        /\ b1 >= b0 + r1 + r2
    BY <1>3, <1>6, <1>9, <1>12, <1>15, <1>16, <1>19
  <2> HIDE DEF b0, b1, u0, u1, u2, h0, h1, h2, h3
  <2>2. h3 - b1 - u2 <= h0 - b0 - u0
    BY <2>1
  <2>3. Held(w) - BasisOf(w.acct) - w.uncovered <= Held(m) - BasisOf(m.acct) - m.uncovered
    BY <2>2 DEF b0, b1, u0, u2, h0, h3
  <2> QED BY <1>12, <1>14, <1>17, <1>19, <2>3 DEF FillSettled, m
<1> QED BY <1>18, <1>19

-----------------------------------------------------------------------------
(* The inductive invariant, and what a step may not lower besides.  How    *)
(* far the claims are from being covered is one number in each regime.     *)
LedgerInv == TypeOK /\ DirectBacked /\ HaircutSolvent /\ MaturedTotalExact

Uncovered == Held(Claims) - BasisOf(acct) - hist.house - hist.uncovered - vault
Overstated == Held(Claims) + pot.residual - hist.inherited - vault

CrossKept ==
    vault' = vault => \A t \in Traders :
        acct[t].iso > 0 => acct'[t].cross >= acct[t].cross \/ DrainedByFill(t)

(* The state's fields.                                                     *)
StateTyped ==
    /\ acct \in [Traders -> Accounts] /\ pot \in Pots /\ vault \in Nat /\ index \in Int
    /\ on \in BOOLEAN
    /\ hist \in [uncovered : Nat, house : Int, inherited : Nat]
    /\ hist.uncovered \in Nat /\ hist.house \in Int /\ hist.inherited \in Nat
    /\ pot.fund \in Nat /\ pot.fees \in Nat /\ pot.residual \in Nat
    /\ pot.maturedTotal \in Nat /\ pot.dust \in Nat
    /\ \A t \in Traders :
         /\ acct[t] \in Accounts
         /\ acct[t].cross \in Nat /\ acct[t].iso \in Nat /\ acct[t].lots \in Int
         /\ acct[t].entry \in Nat /\ acct[t].anchor \in Int
         /\ acct[t].reserve \in Nat /\ acct[t].matured \in Nat
    /\ Claims \in Books /\ Claims.acct = acct /\ Claims.pot = pot
    /\ Claims.uncovered = hist.uncovered

LEMMA StateFields == TypeOK => StateTyped
<1> SUFFICES ASSUME TypeOK PROVE StateTyped
  OBVIOUS
<1>1. /\ acct \in [Traders -> Accounts] /\ pot \in Pots /\ vault \in Nat
      /\ on \in BOOLEAN
      /\ hist \in [uncovered : Nat, house : Int, inherited : Nat]
  BY LedgerAssumption DEF TypeOK, Pots, LedgerAssumption
<1>2. index \in Int
  BY LedgerAssumption DEF TypeOK, LedgerAssumption
<1>3. hist.uncovered \in Nat /\ hist.house \in Int /\ hist.inherited \in Nat
  BY <1>1
<1>4. /\ pot.fund \in Nat /\ pot.fees \in Nat /\ pot.residual \in Nat
      /\ pot.maturedTotal \in Nat /\ pot.dust \in Nat
  BY <1>1 DEF Pots
<1>5. \A t \in Traders :
                /\ acct[t] \in Accounts
                /\ acct[t].cross \in Nat /\ acct[t].iso \in Nat /\ acct[t].lots \in Int
                /\ acct[t].entry \in Nat /\ acct[t].anchor \in Int
                /\ acct[t].reserve \in Nat /\ acct[t].matured \in Nat
  BY <1>1 DEF Accounts
<1>6. /\ Claims \in Books /\ Claims.acct = acct /\ Claims.pot = pot
      /\ Claims.uncovered = hist.uncovered
  BY <1>1, <1>3 DEF Claims, Books
<1> QED BY <1>1, <1>2, <1>3, <1>4, <1>5, <1>6 DEF StateTyped

(* The totals, and the invariants as statements about them.                *)
StateMeasured ==
    /\ Collateral(acct) \in Nat /\ BasisOf(acct) \in Int /\ MaturedOf(acct) \in Nat
    /\ Held(Claims) = Collateral(acct) + pot.fund + pot.fees
    /\ Uncovered \in Int /\ Overstated \in Int
    /\ Uncovered = (Collateral(acct) + pot.fund + pot.fees) - BasisOf(acct) - hist.house
                      - hist.uncovered - vault
    /\ Overstated = (Collateral(acct) + pot.fund + pot.fees) + pot.residual - hist.inherited - vault
    /\ DirectBacked <=> (~on => Uncovered <= 0)
    /\ HaircutSolvent <=> (on => Overstated <= 0)
    /\ MaturedTotalExact <=> pot.maturedTotal = MaturedOf(acct)

LEMMA Measured == TypeOK => StateMeasured
<1> SUFFICES ASSUME TypeOK PROVE StateMeasured
  OBVIOUS
<1>0. StateTyped
  BY StateFields
<1> DEFINE c == Collateral(acct)
           b == BasisOf(acct)
           h == hist.house
           u == hist.uncovered
           i == hist.inherited
           f == pot.fund
           e == pot.fees
           r == pot.residual
<1>1. c \in Nat /\ b \in Int /\ MaturedOf(acct) \in Nat
  BY <1>0, LedgerAssumption, MeasuresInt DEF StateTyped
<1>2. h \in Int /\ u \in Nat /\ i \in Nat /\ f \in Nat /\ e \in Nat /\ r \in Nat /\ vault \in Nat
  BY <1>0 DEF StateTyped
<1>3. Held(Claims) = c + f + e
  BY <1>0 DEF Held, StateTyped
<1>4. Uncovered = (c + f + e) - b - h - u - vault /\ Overstated = (c + f + e) + r - i - vault
  BY <1>3 DEF Uncovered, Overstated
<1>5. DirectBacked <=> (~on => c + f + e - b - h <= vault + u)
  BY DEF DirectBacked, Basis, BasisOf
<1>6. HaircutSolvent <=> (on => c + f + e + r - vault <= i)
  BY DEF HaircutSolvent, Excess
<1>7. MaturedTotalExact <=> pot.maturedTotal = MaturedOf(acct)
  BY DEF MaturedTotalExact, MaturedOf
<1> HIDE DEF c, b, h, u, i, f, e, r
<1>8. Uncovered \in Int /\ Overstated \in Int
  BY <1>1, <1>2, <1>4
<1>9. (Uncovered <= 0) <=> (c + f + e - b - h <= vault + u)
  BY <1>1, <1>2, <1>4
<1>10. (Overstated <= 0) <=> (c + f + e + r - vault <= i)
  BY <1>1, <1>2, <1>4
<1> QED BY <1>1, <1>3, <1>4, <1>5, <1>6, <1>7, <1>8, <1>9, <1>10
       DEF c, b, f, e, h, u, i, r, StateMeasured

LEMMA MeasuredNext == TypeOK' => StateMeasured'
BY Measured, PTL

LEMMA FieldsNext == TypeOK' => StateTyped'
BY StateFields, PTL

(* A step of one regime that brings the claims no further from being       *)
(* covered keeps the invariant.                                            *)
LEMMA Conserves ==
    ASSUME LedgerInv, TypeOK', on' = on,
           pot'.maturedTotal - MaturedOf(acct') = pot.maturedTotal - MaturedOf(acct),
           ~on => Uncovered' <= Uncovered,
           on => Overstated' <= Overstated
    PROVE  LedgerInv'
<1>1. TypeOK /\ DirectBacked /\ HaircutSolvent /\ MaturedTotalExact
  BY DEF LedgerInv
<1>2. /\ MaturedOf(acct) \in Nat /\ Uncovered \in Int /\ Overstated \in Int
      /\ (~on => Uncovered <= 0) /\ (on => Overstated <= 0) /\ pot.maturedTotal = MaturedOf(acct)
  BY <1>1, Measured DEF StateMeasured
<1>3. /\ MaturedOf(acct') \in Nat /\ Uncovered' \in Int /\ Overstated' \in Int
      /\ DirectBacked' <=> (~on' => Uncovered' <= 0)
      /\ HaircutSolvent' <=> (on' => Overstated' <= 0)
      /\ MaturedTotalExact' <=> pot'.maturedTotal = MaturedOf(acct')
  BY MeasuredNext DEF StateMeasured
<1>4. pot'.maturedTotal \in Nat
  BY FieldsNext DEF StateTyped
<1>5. pot'.maturedTotal = MaturedOf(acct')
  BY <1>2, <1>3, <1>4
<1>6. (~on => Uncovered' <= 0) /\ (on => Overstated' <= 0)
  BY <1>2, <1>3
<1> QED BY <1>3, <1>5, <1>6 DEF LedgerInv

-----------------------------------------------------------------------------
(* Steps that write one account.                                           *)
SetAccount(a, t, x) == [a EXCEPT ![t] = x]

OneWritten(a, t, x, b) ==
    /\ b \in [Traders -> Accounts] /\ b[t] = x /\ \A s \in Traders \ {t} : b[s] = a[s]
    /\ Collateral(b) = Collateral(a) - (a[t].cross + a[t].iso) + (x.cross + x.iso)
    /\ BasisOf(b) = BasisOf(a) - a[t].lots * a[t].entry + x.lots * x.entry
    /\ MaturedOf(b) = MaturedOf(a) - a[t].matured + x.matured

LEMMA OneAccount ==
    ASSUME NEW a, a \in [Traders -> Accounts], NEW t \in Traders, NEW x, x \in Accounts,
           NEW b, b = SetAccount(a, t, x)
    PROVE  OneWritten(a, t, x, b)
<1>1. b \in [Traders -> Accounts] /\ b[t] = x /\ \A s \in Traders \ {t} : b[s] = a[s]
  BY DEF SetAccount
<1>2. /\ Collateral(b) = Collateral(a) - (a[t].cross + a[t].iso) + (b[t].cross + b[t].iso)
      /\ BasisOf(b) = BasisOf(a) - a[t].lots * a[t].entry + b[t].lots * b[t].entry
      /\ MaturedOf(b) = MaturedOf(a) - a[t].matured + b[t].matured
  BY <1>1, LedgerAssumption, AccountMoves
<1> QED BY <1>1, <1>2 DEF OneWritten

(* Writing a bucket or moving gains, the position as it was.               *)
LEMMA OneAccountKeeps ==
    ASSUME NEW a, a \in [Traders -> Accounts], NEW t \in Traders, NEW x, x \in Accounts,
           x.lots = a[t].lots, x.entry = a[t].entry,
           NEW b, b = SetAccount(a, t, x)
    PROVE  OneWritten(a, t, x, b) /\ BasisOf(b) = BasisOf(a)
<1>1. OneWritten(a, t, x, b)
  BY OneAccount
<1>2. BasisOf(a) \in Int /\ a[t].lots \in Int /\ a[t].entry \in Int
  <2>1. a[t] \in Accounts
    OBVIOUS
  <2>2. BasisOf(a) \in Int
    BY LedgerAssumption, MeasuresInt
  <2> QED BY <2>1, <2>2 DEF Accounts
<1> DEFINE v == a[t].lots * a[t].entry
<1>3. v \in Int
  BY <1>2
<1>4. BasisOf(b) = BasisOf(a) - v + v
  BY <1>1 DEF OneWritten
<1> HIDE DEF v
<1>5. BasisOf(b) = BasisOf(a)
  BY <1>2, <1>3, <1>4
<1> QED BY <1>1, <1>5

(* A step that leaves positions and history alone and moves money between  *)
(* claims and the vault keeps the invariant if the claims gain no more     *)
(* than the vault does.                                                    *)
LEMMA Moves ==
    ASSUME LedgerInv, TypeOK', on' = on, hist' = hist, BasisOf(acct') = BasisOf(acct),
           pot'.maturedTotal - MaturedOf(acct') = pot.maturedTotal - MaturedOf(acct),
           ~on => (Collateral(acct') + pot'.fund + pot'.fees) - vault'
                    <= (Collateral(acct) + pot.fund + pot.fees) - vault,
           on => (Collateral(acct') + pot'.fund + pot'.fees + pot'.residual) - vault'
                    <= (Collateral(acct) + pot.fund + pot.fees + pot.residual) - vault
    PROVE  LedgerInv'
<1>1. TypeOK /\ StateTyped /\ StateMeasured
  BY StateFields, Measured DEF LedgerInv
<1>2. StateMeasured' /\ StateTyped'
  BY MeasuredNext, FieldsNext
<1>3. ~on => Uncovered' <= Uncovered
  BY <1>1, <1>2 DEF StateMeasured, StateTyped
<1>4. on => Overstated' <= Overstated
  BY <1>1, <1>2 DEF StateMeasured, StateTyped
<1> QED BY <1>3, <1>4, Conserves

(* The same when the pot is left alone as well.                            *)
LEMMA Transfers ==
    ASSUME LedgerInv, TypeOK', on' = on, hist' = hist, pot' = pot, BasisOf(acct') = BasisOf(acct),
           MaturedOf(acct') = MaturedOf(acct),
           Collateral(acct') - vault' <= Collateral(acct) - vault
    PROVE  LedgerInv'
<1>1. TypeOK /\ StateTyped /\ StateMeasured
  BY StateFields, Measured DEF LedgerInv
<1>2. StateMeasured' /\ StateTyped'
  BY MeasuredNext, FieldsNext
<1>3. /\ (Collateral(acct') + pot'.fund + pot'.fees) - vault'
           <= (Collateral(acct) + pot.fund + pot.fees) - vault
      /\ (Collateral(acct') + pot'.fund + pot'.fees + pot'.residual) - vault'
           <= (Collateral(acct) + pot.fund + pot.fees + pot.residual) - vault
  BY <1>1, <1>2 DEF StateMeasured, StateTyped
<1> QED BY <1>3, Moves

(* Deposits and withdrawals change the owner's pool and the vault alike.   *)
LEMMA DepositCollateralKeeps ==
    ASSUME LedgerInv, NEW t \in Traders, NEW d \in Amounts, DepositCollateral(t, d)
    PROVE  LedgerInv' /\ CrossKept
<1>1. TypeOK /\ StateTyped /\ StateMeasured
  BY StateFields, Measured DEF LedgerInv
<1>2. d \in Nat \ {0}
  BY LedgerAssumption DEF LedgerAssumption
<1> DEFINE x == [acct[t] EXCEPT !.cross = acct[t].cross + d]
<1>3. acct[t] \in Accounts /\ acct[t].cross \in Nat /\ acct \in [Traders -> Accounts]
      /\ acct[t].iso \in Nat /\ acct[t].matured \in Nat
  BY <1>1 DEF StateTyped
<1>4. /\ x \in Accounts /\ x.cross = acct[t].cross + d /\ x.iso = acct[t].iso
      /\ x.lots = acct[t].lots /\ x.entry = acct[t].entry /\ x.matured = acct[t].matured
  BY <1>2, <1>3 DEF Accounts
<1>5. acct' = SetAccount(acct, t, x)
  BY DEF DepositCollateral, SetAccount
<1> HIDE DEF x
<1>6. OneWritten(acct, t, x, acct') /\ BasisOf(acct') = BasisOf(acct)
  BY <1>3, <1>4, <1>5, OneAccountKeeps
<1>7. /\ vault' = vault + d /\ vault + d <= MaxVault /\ pot' = pot /\ hist' = hist /\ on' = on
      /\ permissionless' = permissionless /\ index' = index /\ filled' = filled
  BY DEF DepositCollateral, fixed
<1>8. TypeOK'
  BY <1>1, <1>2, <1>6, <1>7, LedgerAssumption DEF TypeOK, OneWritten, LedgerAssumption
<1>9. Collateral(acct') = Collateral(acct) + d /\ MaturedOf(acct') = MaturedOf(acct)
  BY <1>1, <1>2, <1>3, <1>4, <1>6 DEF OneWritten, StateMeasured
<1>10. Collateral(acct') - vault' <= Collateral(acct) - vault /\ vault' # vault
  BY <1>1, <1>2, <1>7, <1>9 DEF StateMeasured, StateTyped
<1>11. LedgerInv'
  BY <1>6, <1>7, <1>8, <1>9, <1>10, Transfers
<1> QED BY <1>10, <1>11 DEF CrossKept

LEMMA TakeOutKeeps ==
    ASSUME LedgerInv, NEW t \in Traders, NEW d \in Amounts, TakeOut(t, d)
    PROVE  LedgerInv' /\ CrossKept
<1>1. TypeOK /\ StateTyped /\ StateMeasured
  BY StateFields, Measured DEF LedgerInv
<1>2. d \in Nat \ {0} /\ d <= acct[t].cross /\ d <= vault
  BY LedgerAssumption DEF LedgerAssumption, TakeOut, Withdrawable
<1> DEFINE x == [acct[t] EXCEPT !.cross = acct[t].cross - d]
<1>3. acct[t] \in Accounts /\ acct[t].cross \in Nat /\ acct \in [Traders -> Accounts]
      /\ acct[t].iso \in Nat /\ acct[t].matured \in Nat
  BY <1>1 DEF StateTyped
<1>4. /\ x \in Accounts /\ x.cross = acct[t].cross - d /\ x.iso = acct[t].iso
      /\ x.lots = acct[t].lots /\ x.entry = acct[t].entry /\ x.matured = acct[t].matured
  <2>1. acct[t].cross - d \in Nat
    BY <1>2, <1>3
  <2> QED BY <1>3, <2>1 DEF Accounts
<1>5. acct' = SetAccount(acct, t, x)
  BY DEF TakeOut, SetAccount
<1> HIDE DEF x
<1>6. OneWritten(acct, t, x, acct') /\ BasisOf(acct') = BasisOf(acct)
  BY <1>3, <1>4, <1>5, OneAccountKeeps
<1>7. /\ vault' = vault - d /\ pot' = pot /\ hist' = hist /\ on' = on
      /\ permissionless' = permissionless /\ index' = index /\ filled' = filled
  BY DEF TakeOut, fixed
<1>8. TypeOK'
  BY <1>1, <1>2, <1>6, <1>7, LedgerAssumption DEF TypeOK, OneWritten, LedgerAssumption
<1>9. Collateral(acct') = Collateral(acct) - d /\ MaturedOf(acct') = MaturedOf(acct)
  BY <1>1, <1>2, <1>3, <1>4, <1>6 DEF OneWritten, StateMeasured
<1>10. Collateral(acct') - vault' <= Collateral(acct) - vault /\ vault' # vault
  BY <1>1, <1>2, <1>7, <1>9 DEF StateMeasured, StateTyped
<1>11. LedgerInv'
  BY <1>6, <1>7, <1>8, <1>9, <1>10, Transfers
<1> QED BY <1>10, <1>11 DEF CrossKept

(* Isolating collateral and returning it move it between two buckets of    *)
(* one trader, of which one was or becomes empty.                          *)
LEMMA SetPositionIsolatedKeeps ==
    ASSUME LedgerInv, NEW t \in Traders, NEW d \in Amounts, SetPositionIsolated(t, d)
    PROVE  LedgerInv' /\ CrossKept
<1>1. TypeOK /\ StateTyped /\ StateMeasured
  BY StateFields, Measured DEF LedgerInv
<1>2. d \in Nat \ {0} /\ d <= acct[t].cross /\ acct[t].iso = 0
  BY LedgerAssumption DEF LedgerAssumption, SetPositionIsolated
<1> DEFINE x == [acct[t] EXCEPT !.cross = acct[t].cross - d, !.iso = d]
<1>3. acct[t] \in Accounts /\ acct[t].cross \in Nat /\ acct \in [Traders -> Accounts]
      /\ acct[t].iso \in Nat /\ acct[t].matured \in Nat
  BY <1>1 DEF StateTyped
<1>4. /\ x \in Accounts /\ x.cross = acct[t].cross - d /\ x.iso = d
      /\ x.lots = acct[t].lots /\ x.entry = acct[t].entry /\ x.matured = acct[t].matured
  <2>1. acct[t].cross - d \in Nat
    BY <1>2, <1>3
  <2> QED BY <1>2, <1>3, <2>1 DEF Accounts
<1>5. acct' = SetAccount(acct, t, x)
  BY <1>3 DEF SetPositionIsolated, SetAccount
<1> HIDE DEF x
<1>6. OneWritten(acct, t, x, acct') /\ BasisOf(acct') = BasisOf(acct)
  BY <1>3, <1>4, <1>5, OneAccountKeeps
<1>7. /\ vault' = vault /\ pot' = pot /\ hist' = hist /\ on' = on
      /\ permissionless' = permissionless /\ index' = index /\ filled' = filled
  BY DEF SetPositionIsolated, fixed
<1>8. TypeOK'
  BY <1>1, <1>6, <1>7 DEF TypeOK, OneWritten
<1>9. Collateral(acct') = Collateral(acct) /\ MaturedOf(acct') = MaturedOf(acct)
  BY <1>1, <1>2, <1>3, <1>4, <1>6 DEF OneWritten, StateMeasured
<1>10. Collateral(acct') - vault' <= Collateral(acct) - vault
  BY <1>1, <1>7, <1>9 DEF StateMeasured, StateTyped
<1>11. LedgerInv'
  BY <1>6, <1>7, <1>8, <1>9, <1>10, Transfers
<1>12. CrossKept
  BY <1>1, <1>2, <1>6 DEF CrossKept, OneWritten, StateTyped
<1> QED BY <1>11, <1>12

LEMMA SetPositionCrossKeeps ==
    ASSUME LedgerInv, NEW t \in Traders, SetPositionCross(t)
    PROVE  LedgerInv' /\ CrossKept
<1>1. TypeOK /\ StateTyped /\ StateMeasured
  BY StateFields, Measured DEF LedgerInv
<1> DEFINE x == [acct[t] EXCEPT !.cross = acct[t].cross + acct[t].iso, !.iso = 0]
<1>3. acct[t] \in Accounts /\ acct[t].cross \in Nat /\ acct \in [Traders -> Accounts]
      /\ acct[t].iso \in Nat /\ acct[t].matured \in Nat
  BY <1>1 DEF StateTyped
<1>4. /\ x \in Accounts /\ x.cross = acct[t].cross + acct[t].iso /\ x.iso = 0
      /\ x.lots = acct[t].lots /\ x.entry = acct[t].entry /\ x.matured = acct[t].matured
  <2>1. acct[t].cross + acct[t].iso \in Nat
    BY <1>3
  <2> QED BY <1>3, <2>1 DEF Accounts
<1>5. acct' = SetAccount(acct, t, x)
  BY <1>3 DEF SetPositionCross, SetAccount
<1> HIDE DEF x
<1>6. OneWritten(acct, t, x, acct') /\ BasisOf(acct') = BasisOf(acct)
  BY <1>3, <1>4, <1>5, OneAccountKeeps
<1>7. /\ vault' = vault /\ pot' = pot /\ hist' = hist /\ on' = on
      /\ permissionless' = permissionless /\ index' = index /\ filled' = filled
  BY DEF SetPositionCross, fixed
<1>8. TypeOK'
  BY <1>1, <1>6, <1>7 DEF TypeOK, OneWritten
<1>9. Collateral(acct') = Collateral(acct) /\ MaturedOf(acct') = MaturedOf(acct)
  BY <1>1, <1>3, <1>4, <1>6 DEF OneWritten, StateMeasured
<1>10. Collateral(acct') - vault' <= Collateral(acct) - vault
  BY <1>1, <1>7, <1>9 DEF StateMeasured, StateTyped
<1>11. LedgerInv'
  BY <1>6, <1>7, <1>8, <1>9, <1>10, Transfers
<1>12. CrossKept
  BY <1>1, <1>4, <1>6 DEF CrossKept, OneWritten, StateTyped
<1> QED BY <1>11, <1>12

-----------------------------------------------------------------------------
(* Steps that write the pot: the fund, fee shares and the residual.        *)
LEMMA AccountsStay ==
    ASSUME StateTyped, acct' = acct
    PROVE  CrossKept
BY DEF StateTyped, CrossKept

LEMMA InsuranceKeeps ==
    ASSUME LedgerInv, NEW d \in Amounts, WithdrawInsuranceFund(d) \/ DepositInsuranceFund(d)
    PROVE  LedgerInv' /\ CrossKept
<1>1. TypeOK /\ StateTyped /\ StateMeasured
  BY StateFields, Measured DEF LedgerInv
<1>2. d \in Nat \ {0} /\ PauseThreshold \in Nat /\ MaxVault \in Nat
  BY LedgerAssumption DEF LedgerAssumption
<1>3. \E e \in Int : /\ pot' = [pot EXCEPT !.fund = pot.fund + e] /\ pot.fund + e \in Nat
                     /\ vault' = vault + e /\ vault + e \in 0..MaxVault
  <2>1. pot.fund \in Nat /\ vault \in 0..MaxVault
    BY <1>1 DEF StateTyped, TypeOK
  <2>2. CASE WithdrawInsuranceFund(d)
    <3>1. /\ pot' = [pot EXCEPT !.fund = pot.fund - d] /\ vault' = vault - d
          /\ pot.fund >= d + PauseThreshold /\ vault >= d
      BY <2>2 DEF WithdrawInsuranceFund
    <3>2. /\ -d \in Int /\ pot.fund - d = pot.fund + (-d) /\ vault - d = vault + (-d)
          /\ pot.fund - d \in Nat /\ vault - d \in 0..MaxVault
      BY <1>2, <2>1, <3>1
    <3> QED BY <3>1, <3>2
  <2>3. CASE DepositInsuranceFund(d)
    <3>1. /\ pot' = [pot EXCEPT !.fund = pot.fund + d] /\ vault' = vault + d
          /\ vault + d <= MaxVault
      BY <2>3 DEF DepositInsuranceFund
    <3>2. d \in Int /\ pot.fund + d \in Nat /\ vault + d \in 0..MaxVault
      BY <1>2, <2>1, <3>1
    <3> QED BY <3>1, <3>2
  <2> QED BY <2>2, <2>3
<1>4. PICK e \in Int : /\ pot' = [pot EXCEPT !.fund = pot.fund + e] /\ pot.fund + e \in Nat
                       /\ vault' = vault + e /\ vault + e \in 0..MaxVault
  BY <1>3
<1>5. /\ acct' = acct /\ hist' = hist /\ on' = on
      /\ permissionless' = permissionless /\ index' = index /\ filled' = filled
  BY DEF WithdrawInsuranceFund, DepositInsuranceFund, fixed
<1>6. /\ pot' \in Pots /\ pot'.fund = pot.fund + e /\ pot'.fees = pot.fees
      /\ pot'.residual = pot.residual /\ pot'.maturedTotal = pot.maturedTotal
  BY <1>1, <1>4 DEF StateTyped, Pots
<1>7. TypeOK'
  BY <1>1, <1>4, <1>5, <1>6 DEF TypeOK, Pots
<1>8. BasisOf(acct') = BasisOf(acct) /\ MaturedOf(acct') = MaturedOf(acct) /\ Collateral(acct') = Collateral(acct)
  BY <1>5
<1>9. /\ (Collateral(acct') + pot'.fund + pot'.fees) - vault'
           <= (Collateral(acct) + pot.fund + pot.fees) - vault
      /\ (Collateral(acct') + pot'.fund + pot'.fees + pot'.residual) - vault'
           <= (Collateral(acct) + pot.fund + pot.fees + pot.residual) - vault
  BY <1>1, <1>4, <1>6, <1>8 DEF StateMeasured, StateTyped
<1>10. LedgerInv'
  BY <1>5, <1>6, <1>7, <1>8, <1>9, Moves
<1> QED BY <1>1, <1>5, <1>10, AccountsStay

LEMMA ClaimFeeAccrualKeeps ==
    ASSUME LedgerInv, ClaimFeeAccrual
    PROVE  LedgerInv' /\ CrossKept
<1>1. TypeOK /\ StateTyped /\ StateMeasured
  BY StateFields, Measured DEF LedgerInv
<1>2. /\ pot' = [pot EXCEPT !.fees = 0] /\ vault' = vault - pot.fees /\ vault - pot.fees >= pot.fund
      /\ acct' = acct /\ hist' = hist /\ on' = on
      /\ permissionless' = permissionless /\ index' = index /\ filled' = filled
  BY DEF ClaimFeeAccrual, fixed
<1>3. /\ pot' \in Pots /\ pot'.fund = pot.fund /\ pot'.fees = 0
      /\ pot'.residual = pot.residual /\ pot'.maturedTotal = pot.maturedTotal
  BY <1>1, <1>2 DEF StateTyped, Pots
<1>4. vault' \in 0..MaxVault
  <2>1. pot.fund \in Nat /\ pot.fees \in Nat /\ vault \in 0..MaxVault /\ MaxVault \in Nat
    BY <1>1, LedgerAssumption DEF StateTyped, TypeOK, LedgerAssumption
  <2> QED BY <1>2, <2>1
<1>7. TypeOK'
  BY <1>1, <1>2, <1>3, <1>4 DEF TypeOK, Pots
<1>8. BasisOf(acct') = BasisOf(acct) /\ MaturedOf(acct') = MaturedOf(acct) /\ Collateral(acct') = Collateral(acct)
  BY <1>2
<1>9. /\ (Collateral(acct') + pot'.fund + pot'.fees) - vault'
           <= (Collateral(acct) + pot.fund + pot.fees) - vault
      /\ (Collateral(acct') + pot'.fund + pot'.fees + pot'.residual) - vault'
           <= (Collateral(acct) + pot.fund + pot.fees + pot.residual) - vault
  BY <1>1, <1>2, <1>3, <1>8 DEF StateMeasured, StateTyped
<1>10. LedgerInv'
  BY <1>2, <1>3, <1>7, <1>8, <1>9, Moves
<1> QED BY <1>1, <1>2, <1>10, AccountsStay

LEMMA CrankFundingKeeps ==
    ASSUME LedgerInv, NEW d \in IndexSteps, CrankFunding(d)
    PROVE  LedgerInv' /\ CrossKept
<1>1. TypeOK /\ StateTyped /\ StateMeasured
  BY StateFields, Measured DEF LedgerInv
<1>2. /\ pot' = pot /\ vault' = vault /\ acct' = acct /\ hist' = hist /\ on' = on
      /\ permissionless' = permissionless /\ filled' = filled
      /\ index' = index + d /\ Abs(index + d) <= MaxIndex
  BY DEF CrankFunding, fixed
<1>3. index' \in -MaxIndex..MaxIndex
  <2>1. index \in Int /\ d \in Int /\ MaxIndex \in Nat
    BY <1>1, LedgerAssumption DEF StateTyped, LedgerAssumption
  <2> QED BY <1>2, <2>1 DEF Abs
<1>4. TypeOK'
  BY <1>1, <1>2, <1>3 DEF TypeOK
<1>5. BasisOf(acct') = BasisOf(acct) /\ MaturedOf(acct') = MaturedOf(acct) /\ Collateral(acct') = Collateral(acct)
  BY <1>2
<1>6. Collateral(acct') - vault' <= Collateral(acct) - vault
  BY <1>1, <1>2, <1>5 DEF StateMeasured, StateTyped
<1>7. LedgerInv'
  BY <1>2, <1>4, <1>5, <1>6, Transfers
<1> QED BY <1>1, <1>2, <1>7, AccountsStay

(* Dust goes from the residual to the fund.                                *)
LEMMA FlushHaircutDustKeeps ==
    ASSUME LedgerInv, FlushHaircutDust
    PROVE  LedgerInv' /\ CrossKept
<1>1. TypeOK /\ StateTyped /\ StateMeasured
  BY StateFields, Measured DEF LedgerInv
<1>2. /\ pot' = [pot EXCEPT !.fund = pot.fund + pot.dust, !.dust = 0, !.residual = pot.residual - pot.dust]
      /\ pot.residual >= pot.dust /\ vault' = vault /\ on
      /\ acct' = acct /\ hist' = hist /\ on' = on
      /\ permissionless' = permissionless /\ index' = index /\ filled' = filled
  BY DEF FlushHaircutDust, fixed
<1>3. /\ pot' \in Pots /\ pot'.fund = pot.fund + pot.dust /\ pot'.fees = pot.fees
      /\ pot'.residual = pot.residual - pot.dust /\ pot'.maturedTotal = pot.maturedTotal
  <2>1. pot.fund + pot.dust \in Nat /\ pot.residual - pot.dust \in Nat /\ pot \in Pots
    BY <1>1, <1>2 DEF StateTyped
  <2> QED BY <1>2, <2>1 DEF Pots
<1>7. TypeOK'
  BY <1>1, <1>2, <1>3 DEF TypeOK, Pots
<1>8. BasisOf(acct') = BasisOf(acct) /\ MaturedOf(acct') = MaturedOf(acct) /\ Collateral(acct') = Collateral(acct)
  BY <1>2
<1>9. (Collateral(acct') + pot'.fund + pot'.fees + pot'.residual) - vault'
           <= (Collateral(acct) + pot.fund + pot.fees + pot.residual) - vault
  BY <1>1, <1>2, <1>3, <1>8 DEF StateMeasured, StateTyped
<1>10. LedgerInv'
  BY <1>2, <1>3, <1>7, <1>8, <1>9, Moves
<1> QED BY <1>1, <1>2, <1>10, AccountsStay

(* The authority's own inputs: what they over-state is remembered.         *)
LEMMA SeedResidualKeeps ==
    ASSUME LedgerInv, NEW d \in SeedSteps, SeedResidual(d)
    PROVE  LedgerInv' /\ CrossKept
<1>1. TypeOK /\ StateTyped /\ StateMeasured
  BY StateFields, Measured DEF LedgerInv
<1> DEFINE x == Excess(acct, pot', vault)
           i == hist.inherited
           z == Max({i, x})
<1>2. /\ pot' = [pot EXCEPT !.residual = pot.residual + d] /\ pot.residual + d \in 0..MaxResidual
      /\ hist' = [hist EXCEPT !.inherited = z] /\ on
      /\ acct' = acct /\ vault' = vault /\ on' = on
      /\ permissionless' = permissionless /\ index' = index /\ filled' = filled
  BY DEF SeedResidual, fixed
<1>3. /\ pot' \in Pots /\ pot'.fund = pot.fund /\ pot'.fees = pot.fees
      /\ pot'.residual = pot.residual + d /\ pot'.maturedTotal = pot.maturedTotal
      /\ pot.residual + d \in Nat
  <2>1. pot.residual + d \in Nat /\ pot \in Pots
    BY <1>1, <1>2, LedgerAssumption DEF StateTyped, LedgerAssumption
  <2> QED BY <1>2, <2>1 DEF Pots
<1>4. x = (Collateral(acct) + pot.fund + pot.fees + pot'.residual) - vault /\ x \in Int /\ i \in Nat
  BY <1>1, <1>3 DEF Excess, StateMeasured, StateTyped
<1> HIDE DEF x
<1>5. z = (IF i >= x THEN i ELSE x)
  <2> HIDE DEF i
  <2> QED BY <1>4, MaxOfTwo
<1>6. z \in Nat /\ z >= x /\ hist' \in [uncovered : Nat, house : Int, inherited : Nat] /\ hist'.inherited = z
  <2>1. z \in Nat /\ z >= x
    BY <1>4, <1>5
  <2> QED BY <1>1, <1>2, <2>1 DEF StateTyped
<1>7. TypeOK'
  BY <1>1, <1>2, <1>3, <1>6 DEF TypeOK, Pots
<1>8. StateMeasured' /\ StateTyped'
  BY <1>7, MeasuredNext, FieldsNext
<1>9. BasisOf(acct') = BasisOf(acct) /\ MaturedOf(acct') = MaturedOf(acct) /\ Collateral(acct') = Collateral(acct)
  BY <1>2
<1>10. pot'.maturedTotal = MaturedOf(acct')
  BY <1>1, <1>3, <1>9 DEF LedgerInv, StateMeasured
<1>11. Overstated' <= 0
  <2>1. Overstated' = (Collateral(acct') + pot'.fund + pot'.fees) + pot'.residual - hist'.inherited - vault'
    BY <1>8 DEF StateMeasured
  <2> HIDE DEF z
  <2> QED BY <1>1, <1>2, <1>3, <1>4, <1>6, <1>9, <2>1 DEF StateMeasured, StateTyped
<1>12. LedgerInv'
  BY <1>2, <1>7, <1>8, <1>10, <1>11 DEF LedgerInv, StateMeasured
<1> QED BY <1>1, <1>2, <1>12, AccountsStay

LEMMA InitializeHaircutStateKeeps ==
    ASSUME LedgerInv, NEW seed \in Amounts \cup {0}, InitializeHaircutState(seed)
    PROVE  LedgerInv' /\ CrossKept
<1>1. TypeOK /\ StateTyped /\ StateMeasured
  BY StateFields, Measured DEF LedgerInv
<1> DEFINE x == Excess(acct, pot', vault)
           z == Max({0, x})
<1>2. /\ pot' = [pot EXCEPT !.residual = seed]
      /\ hist' = [uncovered |-> 0, house |-> 0, inherited |-> z]
      /\ acct' = acct /\ vault' = vault /\ on' = TRUE
      /\ permissionless' = permissionless /\ index' = index /\ filled' = filled
  BY DEF InitializeHaircutState, fixed
<1>3. /\ pot' \in Pots /\ pot'.fund = pot.fund /\ pot'.fees = pot.fees
      /\ pot'.residual = seed /\ pot'.maturedTotal = pot.maturedTotal /\ seed \in Nat
  <2>1. seed \in Nat /\ pot \in Pots
    BY <1>1, LedgerAssumption DEF StateTyped, LedgerAssumption
  <2> QED BY <1>2, <2>1 DEF Pots
<1>4. x = (Collateral(acct) + pot.fund + pot.fees + pot'.residual) - vault /\ x \in Int
  BY <1>1, <1>3 DEF Excess, StateMeasured, StateTyped
<1> HIDE DEF x
<1>5. z = (IF 0 >= x THEN 0 ELSE x)
  BY <1>4, MaxOfTwo
<1>6. z \in Nat /\ z >= x /\ hist' \in [uncovered : Nat, house : Int, inherited : Nat] /\ hist'.inherited = z
  <2>1. z \in Nat /\ z >= x
    BY <1>4, <1>5
  <2> QED BY <1>2, <2>1
<1>7. TypeOK'
  BY <1>1, <1>2, <1>3, <1>6 DEF TypeOK, Pots
<1>8. StateMeasured' /\ StateTyped'
  BY <1>7, MeasuredNext, FieldsNext
<1>9. BasisOf(acct') = BasisOf(acct) /\ MaturedOf(acct') = MaturedOf(acct) /\ Collateral(acct') = Collateral(acct)
  BY <1>2
<1>10. pot'.maturedTotal = MaturedOf(acct')
  BY <1>1, <1>3, <1>9 DEF LedgerInv, StateMeasured
<1>11. Overstated' <= 0
  <2>1. Overstated' = (Collateral(acct') + pot'.fund + pot'.fees) + pot'.residual - hist'.inherited - vault'
    BY <1>8 DEF StateMeasured
  <2> HIDE DEF z
  <2> QED BY <1>1, <1>2, <1>3, <1>4, <1>6, <1>9, <2>1 DEF StateMeasured, StateTyped
<1>12. LedgerInv'
  BY <1>2, <1>7, <1>8, <1>10, <1>11 DEF LedgerInv, StateMeasured
<1> QED BY <1>1, <1>2, <1>12, AccountsStay

-----------------------------------------------------------------------------
(* Steps that write a settled copy of the claims.                          *)
LEMMA WriteKeeps ==
    ASSUME LedgerInv, NEW w, FillSettled(w), Write(w), filled' \in 0..MaxFills,
           UNCHANGED <<vault, on, fixed, index>>
    PROVE  LedgerInv'
<1>1. TypeOK /\ StateTyped /\ StateMeasured
  BY StateFields, Measured DEF LedgerInv
<1>2. /\ acct' = w.acct /\ pot' = w.pot /\ hist' = [hist EXCEPT !.uncovered = w.uncovered]
      /\ vault' = vault /\ on' = on /\ permissionless' = permissionless /\ index' = index
  BY DEF Write, fixed
<1>3. /\ w \in Books
      /\ w.pot.maturedTotal = pot.maturedTotal /\ MaturedOf(w.acct) = MaturedOf(acct)
      /\ on => w.uncovered = hist.uncovered
      /\ on => Held(w) + w.pot.residual <= Held(Claims) + pot.residual
      /\ ~on => Held(w) - BasisOf(w.acct) - w.uncovered
                  <= Held(Claims) - BasisOf(acct) - hist.uncovered
  BY <1>1 DEF FillSettled, StateTyped
<1>4. /\ w.acct \in [Traders -> Accounts] /\ w.pot \in Pots /\ w.uncovered \in Nat
  BY <1>3, BooksFields
<1>5. /\ hist' \in [uncovered : Nat, house : Int, inherited : Nat]
      /\ hist'.uncovered = w.uncovered /\ hist'.house = hist.house /\ hist'.inherited = hist.inherited
  BY <1>1, <1>2, <1>4 DEF StateTyped
<1>6. TypeOK'
  BY <1>1, <1>2, <1>4, <1>5 DEF TypeOK, Pots
<1>7. StateMeasured' /\ StateTyped'
  BY <1>6, MeasuredNext, FieldsNext
<1>8. Held(w) = Collateral(acct') + pot'.fund + pot'.fees
  BY <1>2 DEF Held
<1>9. ~on => Uncovered' <= Uncovered
  BY <1>1, <1>2, <1>3, <1>5, <1>7, <1>8 DEF StateMeasured, StateTyped
<1>10. on => Overstated' <= Overstated
  BY <1>1, <1>2, <1>3, <1>5, <1>7, <1>8 DEF StateMeasured, StateTyped
<1> QED BY <1>2, <1>3, <1>6, <1>9, <1>10, Conserves

LEMMA ApplyFillKeeps ==
    ASSUME LedgerInv, NEW t \in Traders, NEW k \in Traders, NEW side \in {"buy", "sell"},
           NEW size \in Sizes, NEW px \in FillPrices, NEW fee \in FeeTerms, NEW share \in Shares,
           ApplyFill(t, k, side, size, px, fee, share)
    PROVE  LedgerInv' /\ CrossKept
<1>1. TypeOK /\ StateTyped
  BY StateFields DEF LedgerInv
<1> DEFINE n == Signed(side, size)
           w == Settled(t, k, n, px, fee, share)
<1>2. /\ n \in Int /\ n # 0 /\ px \in Nat /\ fee \in [taker : Nat, rebate : Nat, maker : Nat] /\ share \in Nat
  <2>1. size \in Nat \ {0} /\ px \in Nat
    BY LedgerAssumption DEF LedgerAssumption
  <2>2. fee \in [taker : Nat, rebate : Nat, maker : Nat] /\ share \in Nat
    BY LedgerAssumption DEF LedgerAssumption
  <2> QED BY <2>1, <2>2 DEF Signed
<1>3. /\ t # k /\ Write(w) /\ filled < MaxFills /\ filled' = filled + 1
      /\ UNCHANGED <<vault, on, fixed, index>>
  BY DEF ApplyFill
<1> HIDE DEF n
<1>4. index \in Int /\ Claims \in Books
  BY <1>1 DEF StateTyped
<1>5. FillSettled(w) /\ LossesStay(t, k, fee, w)
  BY <1>2, <1>3, <1>4, LedgerAssumption, SettledFacts
<1> HIDE DEF w
<1>6. filled' \in 0..MaxFills
  BY <1>1, <1>3, LedgerAssumption DEF TypeOK, LedgerAssumption
<1>7. LedgerInv'
  BY <1>3, <1>5, <1>6, WriteKeeps
<1>8. CrossKept
  <2> SUFFICES ASSUME NEW s \in Traders, acct[s].iso > 0, ~ (acct'[s].cross >= acct[s].cross)
               PROVE  DrainedByFill(s)
    BY DEF CrossKept
  <2>1. acct' = w.acct
    BY <1>3 DEF Write
  <2>2. ~ (acct[s].iso > Toll(t, k, fee, s))
    BY <1>5, <2>1 DEF LossesStay
  <2>3. acct[s] \in Accounts /\ acct[s].iso \in Nat
    BY <1>1 DEF StateTyped, Accounts
  <2>4. FundingDue(acct[s]) \in Nat
    BY <1>4, <2>3, LedgerAssumption, DueFacts DEF FundingDue, Due
  <2>5. s \in {t, k} /\ acct[s].iso <= FeeOf(t, k, fee, s) + FundingDue(acct[s])
    BY <1>2, <2>2, <2>3, <2>4 DEF Toll, FeeOf
  <2>6. CASE s = t
    <3>1. acct[t].iso <= fee.taker + FundingDue(acct[t])
      BY <2>5, <2>6 DEF FeeOf
    <3> QED BY <2>6, <3>1, Zenon DEF DrainedByFill
  <2>7. CASE s = k
    <3>1. acct[k].iso <= fee.maker + FundingDue(acct[k])
      BY <1>3, <2>5, <2>7 DEF FeeOf
    <3> QED BY <2>7, <3>1, Zenon DEF DrainedByFill
  <2> QED BY <2>5, <2>6, <2>7
<1> QED BY <1>7, <1>8

LEMMA SettleFundingKeeps ==
    ASSUME LedgerInv, NEW t \in Traders, SettleFunding(t)
    PROVE  LedgerInv' /\ CrossKept
<1>1. TypeOK /\ StateTyped
  BY StateFields DEF LedgerInv
<1> DEFINE m == Claims
           w == SettlePositionFunding(m, t)
<1>2. on /\ Write(w) /\ filled' = filled /\ UNCHANGED <<vault, on, fixed, index>>
  BY DEF SettleFunding
<1>3. index \in Int /\ m \in Books
  BY <1>1 DEF StateTyped
<1> HIDE DEF m
<1>4. /\ w \in Books /\ w.uncovered = m.uncovered
      /\ Held(w) + w.pot.residual = Held(m) + m.pot.residual
      /\ w.pot.maturedTotal = m.pot.maturedTotal
      /\ SamePositions(m.acct, w.acct) /\ Protects(m.acct, w.acct)
  BY <1>3, LedgerAssumption, SettlePositionFundingFacts
<1> HIDE DEF w
<1>5. MaturedOf(m.acct) = MaturedOf(w.acct)
  <2>1. m.acct \in [Traders -> Accounts] /\ w.acct \in [Traders -> Accounts]
    BY <1>3, <1>4, BooksFields
  <2> QED BY <1>4, <2>1, LedgerAssumption, PositionsCount
<1>6. Held(m) + m.pot.residual \in Int
  BY <1>3, HeldNat, LedgerAssumption, BooksFields
<1>7. FillSettled(w)
  BY <1>2, <1>4, <1>5, <1>6 DEF FillSettled, m
<1>8. filled' \in 0..MaxFills
  BY <1>1, <1>2 DEF TypeOK
<1>9. LedgerInv'
  BY <1>2, <1>7, <1>8, WriteKeeps
<1>10. CrossKept
  <2>1. acct' = w.acct /\ m.acct = acct
    BY <1>2 DEF Write, m, Claims
  <2> QED BY <1>4, <2>1 DEF Protects, CrossKept
<1> QED BY <1>9, <1>10

-----------------------------------------------------------------------------
(* The pipeline of gains.                                                  *)
LEMMA MaturePositionKeeps ==
    ASSUME LedgerInv, NEW t \in Traders, NEW d, MaturePosition(t, d)
    PROVE  LedgerInv' /\ CrossKept
<1>1. TypeOK /\ StateTyped /\ StateMeasured
  BY StateFields, Measured DEF LedgerInv
<1>2. acct[t] \in Accounts /\ acct[t].cross \in Nat /\ acct \in [Traders -> Accounts]
      /\ acct[t].iso \in Nat /\ acct[t].matured \in Nat /\ acct[t].reserve \in Nat
  BY <1>1 DEF StateTyped
<1>3. d \in Nat /\ d <= acct[t].reserve
  BY <1>2 DEF MaturePosition
<1> DEFINE x == [acct[t] EXCEPT !.reserve = acct[t].reserve - d, !.matured = acct[t].matured + d]
<1>4. /\ x \in Accounts /\ x.cross = acct[t].cross /\ x.iso = acct[t].iso
      /\ x.lots = acct[t].lots /\ x.entry = acct[t].entry /\ x.matured = acct[t].matured + d
  <2>1. acct[t].reserve - d \in Nat /\ acct[t].matured + d \in Nat
    BY <1>2, <1>3
  <2> QED BY <1>2, <2>1 DEF Accounts
<1>5. acct' = SetAccount(acct, t, x)
  BY <1>2 DEF MaturePosition, SetAccount
<1> HIDE DEF x
<1>6. OneWritten(acct, t, x, acct') /\ BasisOf(acct') = BasisOf(acct)
  BY <1>2, <1>4, <1>5, OneAccountKeeps
<1>7. /\ vault' = vault /\ pot' = [pot EXCEPT !.maturedTotal = pot.maturedTotal + d] /\ hist' = hist /\ on' = on
      /\ permissionless' = permissionless /\ index' = index /\ filled' = filled
  BY DEF MaturePosition, fixed
<1>8. /\ pot' \in Pots /\ pot'.fund = pot.fund /\ pot'.fees = pot.fees
      /\ pot'.residual = pot.residual /\ pot'.maturedTotal = pot.maturedTotal + d
  <2>1. pot.maturedTotal + d \in Nat /\ pot \in Pots
    BY <1>1, <1>3 DEF StateTyped
  <2> QED BY <1>7, <2>1 DEF Pots
<1>9. TypeOK'
  BY <1>1, <1>6, <1>7, <1>8 DEF TypeOK, OneWritten, Pots
<1>10. Collateral(acct') = Collateral(acct) /\ MaturedOf(acct') = MaturedOf(acct) + d
  BY <1>1, <1>2, <1>3, <1>4, <1>6 DEF OneWritten, StateMeasured
<1>11. /\ (Collateral(acct') + pot'.fund + pot'.fees) - vault'
           <= (Collateral(acct) + pot.fund + pot.fees) - vault
       /\ (Collateral(acct') + pot'.fund + pot'.fees + pot'.residual) - vault'
           <= (Collateral(acct) + pot.fund + pot.fees + pot.residual) - vault
  BY <1>1, <1>7, <1>8, <1>10 DEF StateMeasured, StateTyped
<1>12. pot'.maturedTotal - MaturedOf(acct') = pot.maturedTotal - MaturedOf(acct)
  BY <1>1, <1>3, <1>8, <1>10 DEF StateMeasured, StateTyped
<1>13. LedgerInv'
  BY <1>6, <1>7, <1>9, <1>11, <1>12, Moves
<1>14. CrossKept
  BY <1>1, <1>4, <1>6 DEF CrossKept, OneWritten, StateTyped
<1> QED BY <1>13, <1>14

LEMMA ReleaseGainKeeps ==
    ASSUME LedgerInv, NEW t \in Traders, NEW d \in Amounts, ReleaseGainToHaircut(t, d)
    PROVE  LedgerInv' /\ CrossKept
<1>1. TypeOK /\ StateTyped /\ StateMeasured
  BY StateFields, Measured DEF LedgerInv
<1> DEFINE iso == Isolated(Claims, t)
           had == Bucket(Claims, t, iso)
           w == SetBucket(Claims, t, iso, had - d)
<1>2. /\ d <= had /\ acct' = [w.acct EXCEPT ![t].reserve = @ + d]
      /\ vault' = vault /\ pot' = pot /\ hist' = hist /\ on' = on
      /\ permissionless' = permissionless /\ index' = index /\ filled' = filled
  BY DEF ReleaseGainToHaircut, fixed
<1>3. d \in Nat \ {0} /\ had \in Nat /\ Claims \in Books
  BY <1>1, LedgerAssumption, BucketNat DEF LedgerAssumption, StateTyped
<1>4. had - d \in Nat
  <2> HIDE DEF had
  <2> QED BY <1>2, <1>3
<1>5. /\ w \in Books
      /\ Collateral(w.acct) = (Collateral(acct) - had) + (had - d)
      /\ SamePositions(acct, w.acct) /\ Protects(acct, w.acct)
  BY <1>1, <1>3, <1>4, LedgerAssumption, SetBucketFacts DEF StateTyped
<1> HIDE DEF w
<1> DEFINE b == w.acct
           x == [b[t] EXCEPT !.reserve = b[t].reserve + d]
<1>6. b \in [Traders -> Accounts] /\ b[t] \in Accounts /\ b[t].reserve + d \in Nat
      /\ b[t].cross \in Nat /\ b[t].iso \in Nat /\ b[t].matured \in Nat
  BY <1>3, <1>5, BooksFields
<1>7. acct' = SetAccount(b, t, x)
  BY <1>2, <1>6 DEF SetAccount
<1> HIDE DEF b
<1>8. /\ x \in Accounts /\ x.cross = b[t].cross /\ x.iso = b[t].iso
      /\ x.lots = b[t].lots /\ x.entry = b[t].entry /\ x.matured = b[t].matured
  BY <1>6 DEF Accounts
<1> HIDE DEF x
<1>9. OneWritten(b, t, x, acct') /\ BasisOf(acct') = BasisOf(b)
  BY <1>6, <1>7, <1>8, OneAccountKeeps
<1>10. BasisOf(b) = BasisOf(acct) /\ MaturedOf(b) = MaturedOf(acct)
  <2>1. SamePositions(acct, b) /\ acct \in [Traders -> Accounts]
    BY <1>1, <1>5 DEF b, StateTyped
  <2> QED BY <1>6, <2>1, LedgerAssumption, PositionsCount
<1>11. Collateral(b) \in Nat /\ MaturedOf(b) \in Nat
  BY <1>6, LedgerAssumption, MeasuresInt
<1>12. Collateral(acct') = Collateral(b) /\ MaturedOf(acct') = MaturedOf(acct) /\ BasisOf(acct') = BasisOf(acct)
  BY <1>6, <1>8, <1>9, <1>10, <1>11 DEF OneWritten
<1>13. TypeOK'
  BY <1>1, <1>2, <1>9 DEF TypeOK, OneWritten
<1>14. Collateral(acct') - vault' <= Collateral(acct) - vault
  <2>1. Collateral(b) = (Collateral(acct) - had) + (had - d)
    BY <1>5 DEF b
  <2> HIDE DEF had
  <2> QED BY <1>1, <1>2, <1>3, <1>12, <2>1 DEF StateMeasured, StateTyped
<1>15. LedgerInv'
  BY <1>2, <1>12, <1>13, <1>14, Transfers
<1>16. Protects(acct, b)
  BY <1>5 DEF b
<1>17. \A s \in Traders : acct'[s].iso = b[s].iso /\ acct'[s].cross = b[s].cross
  BY <1>8, <1>9 DEF OneWritten
<1>18. CrossKept
  BY <1>16, <1>17 DEF CrossKept, Protects
<1> QED BY <1>15, <1>18

(* A conversion credits no more than the residual and than the gain.       *)
LEMMA HaircutArithmetic ==
    ASSUME NEW mat \in Nat \ {0}, NEW total \in Nat, mat <= total, NEW hd \in Nat \ {0},
           NEW least \in Nat, least <= total,
           NEW h, h = (least * hd) \div total, NEW c, c = (mat * h) \div hd
    PROVE  c \in Nat /\ c <= least /\ c <= mat
<1>1. total \in Nat \ {0} /\ least * hd \in Nat
  OBVIOUS
<1>2. h \in Nat /\ total * h <= least * hd
  BY <1>1, DivFacts
<1>3. mat * h \in Nat
  BY <1>2
<1>4. c \in Nat /\ hd * c <= mat * h
  BY <1>3, DivFacts
<1>5. h * mat <= h * total
  BY <1>1, <1>2, MulMonotone
<1>6. hd * c <= hd * least
  <2>1. mat * h = h * mat /\ total * h = h * total /\ least * hd = hd * least
    BY <1>2
  <2>2. hd * c \in Int /\ h * mat \in Int /\ h * total \in Int /\ hd * least \in Int
    BY <1>2, <1>4
  <2> QED BY <1>2, <1>4, <1>5, <2>1, <2>2
<1>7. c <= least
  BY <1>4, <1>6, MulCancel
<1>8. total * h <= total * hd
  <2>1. hd * least <= hd * total
    BY MulMonotone
  <2>2. least * hd = hd * least /\ total * hd = hd * total
    OBVIOUS
  <2>3. total * h \in Int /\ hd * least \in Int /\ hd * total \in Int
    BY <1>2
  <2> QED BY <1>2, <2>1, <2>2, <2>3
<1>9. h <= hd
  BY <1>1, <1>2, <1>8, MulCancel
<1>10. hd * c <= hd * mat
  <2>1. mat * h <= mat * hd
    BY <1>2, <1>9, MulMonotone
  <2>2. mat * hd = hd * mat
    OBVIOUS
  <2>3. hd * c \in Int /\ mat * h \in Int /\ hd * mat \in Int
    BY <1>2, <1>4
  <2> QED BY <1>4, <2>1, <2>2, <2>3
<1>11. c <= mat
  BY <1>4, <1>10, MulCancel
<1> QED BY <1>4, <1>7, <1>11

LEMMA CreditFacts ==
    ASSUME LedgerInv, NEW t \in Traders, acct[t].matured > 0
    PROVE  /\ Credit(t) \in Nat /\ Credit(t) <= pot.residual /\ Credit(t) <= acct[t].matured
           /\ acct[t].matured <= pot.maturedTotal
<1>1. TypeOK /\ StateTyped /\ StateMeasured
  BY StateFields, Measured DEF LedgerInv
<1> DEFINE mat == acct[t].matured
           total == pot.maturedTotal
           res == pot.residual
           least == Min({res, total})
           h == (least * HDenom) \div total
           c == (mat * h) \div HDenom
<1>2. mat \in Nat \ {0} /\ total \in Nat /\ res \in Nat /\ acct \in [Traders -> Accounts]
  BY <1>1 DEF StateTyped
<1>3. mat <= total
  <2>1. acct[t].matured <= MaturedOf(acct)
    BY <1>2, LedgerAssumption, MeasuresInt
  <2>2. pot.maturedTotal = MaturedOf(acct)
    BY <1>1 DEF LedgerInv, StateMeasured
  <2> QED BY <2>1, <2>2
<1>4. HDenom \in Nat \ {0}
  BY LedgerAssumption DEF LedgerAssumption
<1>5. Credit(t) = c
  BY <1>2, <1>3 DEF Credit, ComputeH
<1> HIDE DEF mat, total, res
<1>6. least = IF res <= total THEN res ELSE total
  BY <1>2, MinOfTwo
<1>7. least \in Nat /\ least <= total /\ least <= res
  BY <1>2, <1>6
<1> HIDE DEF least
<1>8. c \in Nat /\ c <= least /\ c <= mat
  BY <1>2, <1>3, <1>4, <1>7, HaircutArithmetic
<1> HIDE DEF c
<1>9. c <= res
  BY <1>2, <1>7, <1>8
<1> QED BY <1>3, <1>5, <1>8, <1>9 DEF mat, total, res

LEMMA ConvertPositionKeeps ==
    ASSUME LedgerInv, NEW t \in Traders, ConvertPosition(t)
    PROVE  LedgerInv' /\ CrossKept
<1>1. TypeOK /\ StateTyped /\ StateMeasured
  BY StateFields, Measured DEF LedgerInv
<1> DEFINE iso == Isolated(Claims, t)
           had == Bucket(Claims, t, iso)
           c == Credit(t)
           w == SetBucket(Claims, t, iso, had + c)
<1>2. /\ on /\ acct[t].matured > 0 /\ acct' = [w.acct EXCEPT ![t].matured = 0]
      /\ pot' = [pot EXCEPT !.maturedTotal = pot.maturedTotal - acct[t].matured,
                            !.dust = pot.dust + acct[t].matured - c,
                            !.residual = pot.residual - c]
      /\ vault' = vault /\ hist' = hist /\ on' = on
      /\ permissionless' = permissionless /\ index' = index /\ filled' = filled
  BY DEF ConvertPosition, fixed
<1>3. had \in Nat /\ Claims \in Books
  BY <1>1, BucketNat DEF StateTyped
<1>4. c \in Nat /\ c <= pot.residual /\ c <= acct[t].matured /\ acct[t].matured <= pot.maturedTotal
  BY <1>2, CreditFacts
<1> HIDE DEF c
<1>5. had + c \in Nat
  <2> HIDE DEF had
  <2> QED BY <1>3, <1>4
<1>6. /\ w \in Books
      /\ Collateral(w.acct) = (Collateral(acct) - had) + (had + c)
      /\ SamePositions(acct, w.acct) /\ Protects(acct, w.acct)
  BY <1>1, <1>3, <1>5, LedgerAssumption, SetBucketFacts DEF StateTyped
<1> HIDE DEF w
<1> DEFINE b == w.acct
           x == [b[t] EXCEPT !.matured = 0]
<1>7. b \in [Traders -> Accounts] /\ b[t] \in Accounts
      /\ b[t].cross \in Nat /\ b[t].iso \in Nat /\ b[t].matured \in Nat
  BY <1>6, BooksFields
<1>8. acct' = SetAccount(b, t, x)
  BY <1>2, <1>7 DEF SetAccount
<1>9. SamePositions(acct, b) /\ Protects(acct, b) /\ Collateral(b) = (Collateral(acct) - had) + (had + c)
  BY <1>6
<1> HIDE DEF b
<1>10. /\ x \in Accounts /\ x.cross = b[t].cross /\ x.iso = b[t].iso
       /\ x.lots = b[t].lots /\ x.entry = b[t].entry /\ x.matured = 0
  BY <1>7 DEF Accounts
<1> HIDE DEF x
<1>11. OneWritten(b, t, x, acct') /\ BasisOf(acct') = BasisOf(b)
  BY <1>7, <1>8, <1>10, OneAccountKeeps
<1>12. BasisOf(b) = BasisOf(acct) /\ MaturedOf(b) = MaturedOf(acct) /\ b[t].matured = acct[t].matured
  <2>1. acct \in [Traders -> Accounts]
    BY <1>1 DEF StateTyped
  <2>2. b[t].matured = acct[t].matured
    BY <1>9 DEF SamePositions
  <2> QED BY <1>7, <1>9, <2>1, <2>2, LedgerAssumption, PositionsCount
<1>13. Collateral(b) \in Nat /\ MaturedOf(b) \in Nat
  BY <1>7, LedgerAssumption, MeasuresInt
<1>14. /\ Collateral(acct') = Collateral(b) /\ BasisOf(acct') = BasisOf(acct)
       /\ MaturedOf(acct') = MaturedOf(acct) - acct[t].matured
  BY <1>7, <1>10, <1>11, <1>12, <1>13 DEF OneWritten
<1>15. /\ pot' \in Pots /\ pot'.fund = pot.fund /\ pot'.fees = pot.fees
       /\ pot'.residual = pot.residual - c /\ pot'.maturedTotal = pot.maturedTotal - acct[t].matured
  <2>1. /\ pot.maturedTotal - acct[t].matured \in Nat /\ pot.residual - c \in Nat
        /\ pot.dust + acct[t].matured - c \in Nat /\ pot \in Pots
    BY <1>1, <1>4 DEF StateTyped
  <2> QED BY <1>2, <2>1 DEF Pots
<1>16. TypeOK'
  BY <1>1, <1>2, <1>11, <1>15 DEF TypeOK, OneWritten, Pots
<1>17. pot'.maturedTotal - MaturedOf(acct') = pot.maturedTotal - MaturedOf(acct)
  BY <1>1, <1>7, <1>12, <1>14, <1>15 DEF StateMeasured, StateTyped
<1>18. (Collateral(acct') + pot'.fund + pot'.fees + pot'.residual) - vault'
           <= (Collateral(acct) + pot.fund + pot.fees + pot.residual) - vault
  <2> HIDE DEF had
  <2> QED BY <1>1, <1>2, <1>3, <1>4, <1>9, <1>14, <1>15 DEF StateMeasured, StateTyped
<1>19. LedgerInv'
  BY <1>2, <1>14, <1>16, <1>17, <1>18, Moves
<1>20. \A s \in Traders : acct'[s].iso = b[s].iso /\ acct'[s].cross = b[s].cross
  BY <1>10, <1>11 DEF OneWritten
<1>21. CrossKept
  BY <1>9, <1>20 DEF CrossKept, Protects
<1> QED BY <1>19, <1>21

-----------------------------------------------------------------------------
(* The reward of a liquidation only moves collateral.                      *)
LEMMA LiquidationRewardKeeps ==
    ASSUME LedgerInv, NEW t \in Traders, NEW k \in Traders, NEW d \in Amounts, NEW limit \in Marks,
           LiquidationReward(t, k, d, limit)
    PROVE  LedgerInv' /\ CrossKept
<1>1. TypeOK /\ StateTyped /\ StateMeasured
  BY StateFields, Measured DEF LedgerInv
<1> DEFINE iso == Isolated(Claims, t)
           had == Bucket(Claims, t, iso)
           equity == SatSub(had + acct[t].lots * (limit - acct[t].entry), 0)
           paid == Min({d, had, equity})
           w == SetBucket(Claims, t, iso, had - paid)
<1>2. /\ t # k /\ acct' = [w.acct EXCEPT ![k].cross = @ + paid]
      /\ vault' = vault /\ pot' = pot /\ hist' = hist /\ on' = on
      /\ permissionless' = permissionless /\ index' = index /\ filled' = filled
  BY DEF LiquidationReward, fixed
<1>3. d \in Nat /\ limit \in Nat /\ had \in Nat /\ Claims \in Books
      /\ acct[t].lots \in Int /\ acct[t].entry \in Nat
  BY <1>1, LedgerAssumption, BucketNat DEF LedgerAssumption, StateTyped
<1> HIDE DEF had
<1>4. equity \in Nat
  <2> DEFINE g == acct[t].lots * (limit - acct[t].entry)
  <2>1. g \in Int
    BY <1>3
  <2> HIDE DEF g
  <2>2. had + g \in Int
    BY <1>3, <2>1
  <2> DEFINE y == had + g
  <2>3. y \in Int
    BY <2>2
  <2> HIDE DEF y
  <2>4. SatSub(y, 0) \in Nat
    BY <2>3 DEF SatSub
  <2> QED BY <2>4 DEF y, g
<1> HIDE DEF equity
<1>5. paid \in Nat /\ paid <= had
  <2>0. d \in Int /\ had \in Int /\ equity \in Int
    BY <1>3, <1>4
  <2>1. \A z : z = Min({d, had, equity}) => (z = d \/ z = had \/ z = equity) /\ z <= d /\ z <= had /\ z <= equity
    BY <2>0, MinOfThree
  <2> HIDE DEF paid
  <2>2. paid = Min({d, had, equity})
    BY DEF paid
  <2> QED BY <1>3, <1>4, <2>1, <2>2
<1> HIDE DEF paid
<1>6. had - paid \in Nat
  BY <1>3, <1>5
<1>7. /\ w \in Books
      /\ Collateral(w.acct) = (Collateral(acct) - had) + (had - paid)
      /\ SamePositions(acct, w.acct) /\ Protects(acct, w.acct)
  BY <1>1, <1>3, <1>6, LedgerAssumption, SetBucketFacts DEF StateTyped, had
<1> DEFINE b == w.acct
           x == [b[k] EXCEPT !.cross = b[k].cross + paid]
<1> HIDE DEF w
<1>8. b \in [Traders -> Accounts] /\ b[k] \in Accounts /\ b[k].cross + paid \in Nat
      /\ b[k].cross \in Nat /\ b[k].iso \in Nat /\ b[k].matured \in Nat
  BY <1>5, <1>7, BooksFields
<1>9. acct' = SetAccount(b, k, x)
  BY <1>2, <1>8 DEF SetAccount
<1>10. /\ SamePositions(acct, b) /\ Protects(acct, b) /\ Collateral(b) = (Collateral(acct) - had) + (had - paid)
  BY <1>7
<1> HIDE DEF b
<1>11. /\ x \in Accounts /\ x.cross = b[k].cross + paid /\ x.iso = b[k].iso
       /\ x.lots = b[k].lots /\ x.entry = b[k].entry /\ x.matured = b[k].matured
  BY <1>8 DEF Accounts
<1> HIDE DEF x
<1>12. OneWritten(b, k, x, acct') /\ BasisOf(acct') = BasisOf(b)
  BY <1>8, <1>9, <1>11, OneAccountKeeps
<1>13. BasisOf(b) = BasisOf(acct) /\ MaturedOf(b) = MaturedOf(acct)
  <2>1. acct \in [Traders -> Accounts]
    BY <1>1 DEF StateTyped
  <2> QED BY <1>8, <1>10, <2>1, LedgerAssumption, PositionsCount
<1>14. Collateral(b) \in Nat /\ MaturedOf(b) \in Nat
  BY <1>8, LedgerAssumption, MeasuresInt
<1>15. /\ Collateral(acct') = Collateral(b) + paid /\ MaturedOf(acct') = MaturedOf(acct)
       /\ BasisOf(acct') = BasisOf(acct)
  BY <1>5, <1>8, <1>11, <1>12, <1>13, <1>14 DEF OneWritten
<1>16. TypeOK'
  BY <1>1, <1>2, <1>12 DEF TypeOK, OneWritten
<1>17. Collateral(acct') - vault' <= Collateral(acct) - vault
  BY <1>1, <1>2, <1>3, <1>5, <1>10, <1>15 DEF StateMeasured, StateTyped
<1>18. LedgerInv'
  BY <1>2, <1>15, <1>16, <1>17, Transfers
<1>19. \A s \in Traders : acct'[s].iso = b[s].iso /\ acct'[s].cross >= b[s].cross
  <2>1. \A s \in Traders : b[s].cross \in Nat
    BY <1>8 DEF Accounts
  <2> QED BY <1>5, <1>11, <1>12, <2>1 DEF OneWritten
<1>20. CrossKept
  <2> SUFFICES ASSUME NEW s \in Traders, acct[s].iso > 0
               PROVE  acct'[s].cross >= acct[s].cross
    BY DEF CrossKept
  <2>1. acct'[s].iso = b[s].iso /\ acct'[s].cross >= b[s].cross
    BY <1>19
  <2>2. b[s].cross >= acct[s].cross
    BY <1>10, <2>1 DEF Protects
  <2>3. b[s].cross \in Nat /\ acct[s].cross \in Nat /\ acct'[s].cross \in Nat
    BY <1>1, <1>8, <1>12 DEF Accounts, StateTyped, OneWritten
  <2> QED BY <2>1, <2>2, <2>3
<1> QED BY <1>18, <1>20

(* Closing one leg against the fund only moves money between the two.      *)
Closed(bucket, fund, to) ==
    to.bucket \in Nat /\ to.fund \in Nat /\ to.bucket + to.fund = bucket + fund

LEMMA ForceCloseFacts ==
    ASSUME NEW pnl, pnl \in Int, NEW bucket, bucket \in Nat, NEW fund, fund \in Nat,
           NEW to, to = ForceClose(pnl, bucket, fund)
    PROVE  Closed(bucket, fund, to)
<1> SUFFICES to.bucket \in Nat /\ to.fund \in Nat /\ to.bucket + to.fund = bucket + fund
  BY DEF Closed
<1>1. CASE pnl > 0
  <2> DEFINE paid == Min({pnl, fund})
  <2>1. paid = IF pnl <= fund THEN pnl ELSE fund
    BY MinOfTwo
  <2> HIDE DEF paid
  <2>2. to = [bucket |-> bucket + paid, fund |-> fund - paid]
    BY <1>1 DEF ForceClose, paid
  <2> QED BY <1>1, <2>1, <2>2
<1>2. CASE ~ (pnl > 0)
  <2> DEFINE due == -pnl
             got == Min({due, bucket})
             paid == -got
  <2>1. due \in Nat
    BY <1>2
  <2> HIDE DEF due
  <2>2. got = IF due <= bucket THEN due ELSE bucket
    BY <2>1, MinOfTwo
  <2> HIDE DEF got
  <2>3. to = [bucket |-> bucket + paid, fund |-> fund - paid]
    BY <1>2 DEF ForceClose, got, due
  <2>4. to.bucket = bucket + paid /\ to.fund = fund - paid
    BY <2>3
  <2> QED BY <2>1, <2>2, <2>4
<1> QED BY <1>1, <1>2

LEMMA ForceReducePositionOracleKeeps ==
    ASSUME LedgerInv, NEW t \in Traders, NEW mark \in Marks, ForceReducePositionOracle(t, mark)
    PROVE  LedgerInv' /\ CrossKept
<1>1. TypeOK /\ StateTyped /\ StateMeasured
  BY StateFields, Measured DEF LedgerInv
<1> DEFINE a == acct[t]
           iso == Isolated(Claims, t)
           had == Bucket(Claims, t, iso)
           pnl == a.lots * (mark - a.entry)
           fund == pot.fund
           to == ForceClose(pnl, had, fund)
           x == [a EXCEPT !.cross = IF iso THEN @ + to.bucket ELSE to.bucket, !.iso = 0,
                          !.lots = 0, !.entry = 0, !.anchor = index]
<1>2. /\ acct' = SetAccount(acct, t, x)
      /\ pot' = [pot EXCEPT !.fund = to.fund]
      /\ hist' = IF on THEN hist ELSE [hist EXCEPT !.house = hist.house + a.lots * a.entry]
      /\ vault' = vault /\ on' = on
      /\ permissionless' = permissionless /\ index' = index /\ filled' = filled
  BY DEF ForceReducePositionOracle, SetAccount, fixed
<1>3. /\ a \in Accounts /\ a.lots \in Int /\ a.entry \in Nat /\ a.cross \in Nat /\ a.iso \in Nat
      /\ a.matured \in Nat /\ mark \in Nat /\ index \in Int /\ fund \in Nat /\ had \in Nat
      /\ acct \in [Traders -> Accounts]
  BY <1>1, LedgerAssumption, BucketNat DEF LedgerAssumption, StateTyped
<1>4. had = IF iso THEN a.iso ELSE a.cross
  BY <1>1 DEF Bucket, StateTyped
<1>5. iso <=> a.iso > 0
  BY <1>1 DEF Isolated, StateTyped
<1> HIDE DEF had, iso, a, fund
<1>6. pnl \in Int
  BY <1>3
<1> HIDE DEF pnl
<1>7. to.bucket \in Nat /\ to.fund \in Nat /\ to.bucket + to.fund = had + fund
  <2>1. pnl \in Int /\ had \in Nat /\ fund \in Nat
    BY <1>3, <1>6
  <2>2. Closed(had, fund, to)
    BY <2>1, ForceCloseFacts
  <2> HIDE DEF to
  <2> QED BY <2>2 DEF Closed
<1> HIDE DEF to
<1>8. /\ x \in Accounts /\ x.iso = 0 /\ x.lots = 0 /\ x.entry = 0 /\ x.matured = a.matured
      /\ x.cross = IF iso THEN a.cross + to.bucket ELSE to.bucket
  <2> DEFINE y == IF iso THEN a.cross + to.bucket ELSE to.bucket
  <2>1. y \in Nat
    BY <1>3, <1>7
  <2>2. x = [a EXCEPT !.cross = y, !.iso = 0, !.lots = 0, !.entry = 0, !.anchor = index]
    OBVIOUS
  <2> HIDE DEF x, y
  <2>3. /\ x \in Accounts /\ x.iso = 0 /\ x.lots = 0 /\ x.entry = 0 /\ x.matured = a.matured
        /\ x.cross = y
    <3>1. /\ a = [cross |-> a.cross, iso |-> a.iso, lots |-> a.lots, entry |-> a.entry,
                  anchor |-> a.anchor, reserve |-> a.reserve, matured |-> a.matured]
          /\ a.reserve \in Nat
      BY <1>3 DEF Accounts
    <3>2. x = [cross |-> y, iso |-> 0, lots |-> 0, entry |-> 0,
               anchor |-> index, reserve |-> a.reserve, matured |-> a.matured]
      BY <2>2, <3>1
    <3> QED BY <1>3, <2>1, <3>1, <3>2 DEF Accounts
  <2> QED BY <2>3 DEF y
<1> HIDE DEF x
<1>9. OneWritten(acct, t, x, acct')
  BY <1>2, <1>3, <1>8, OneAccount
<1> DEFINE v == a.lots * a.entry
<1>10. v \in Int
  BY <1>3
<1>11. /\ Collateral(acct') = Collateral(acct) - (a.cross + a.iso) + (x.cross + x.iso)
       /\ BasisOf(acct') = BasisOf(acct) - v + x.lots * x.entry
       /\ MaturedOf(acct') = MaturedOf(acct) - a.matured + x.matured
       /\ acct' \in [Traders -> Accounts]
  BY <1>9 DEF OneWritten, a
<1>12. x.lots * x.entry = 0
  BY <1>8
<1>13. hist' = IF on THEN hist ELSE [hist EXCEPT !.house = hist.house + v]
  BY <1>2
<1> HIDE DEF v
<1>14. /\ MaturedOf(acct') = MaturedOf(acct) /\ BasisOf(acct') = BasisOf(acct) - v
       /\ Collateral(acct') = (Collateral(acct) - had) + to.bucket
  BY <1>1, <1>3, <1>4, <1>5, <1>7, <1>8, <1>10, <1>11, <1>12 DEF StateMeasured
<1>15. /\ pot' \in Pots /\ pot'.fund = to.fund /\ pot'.fees = pot.fees
       /\ pot'.residual = pot.residual /\ pot'.maturedTotal = pot.maturedTotal
  BY <1>1, <1>2, <1>7 DEF Pots, StateTyped
<1>16. /\ hist' \in [uncovered : Nat, house : Int, inherited : Nat]
       /\ hist'.inherited = hist.inherited /\ hist'.uncovered = hist.uncovered
       /\ ~on => hist'.house = hist.house + v
  <2>1. hist \in [uncovered : Nat, house : Int, inherited : Nat] /\ hist.house + v \in Int
    BY <1>1, <1>10 DEF StateTyped
  <2> QED BY <1>13, <2>1
<1>17. TypeOK'
  BY <1>1, <1>2, <1>11, <1>15, <1>16 DEF TypeOK, Pots
<1>18. StateMeasured' /\ StateTyped'
  BY <1>17, MeasuredNext, FieldsNext
<1>19. ~on => Uncovered' <= Uncovered
  BY <1>1, <1>2, <1>3, <1>7, <1>10, <1>14, <1>15, <1>16, <1>18 DEF StateMeasured, StateTyped, fund
<1>20. on => Overstated' <= Overstated
  BY <1>1, <1>2, <1>3, <1>7, <1>14, <1>15, <1>16, <1>18 DEF StateMeasured, StateTyped, fund
<1>21. LedgerInv'
  BY <1>2, <1>14, <1>15, <1>17, <1>19, <1>20, Conserves
<1>22. CrossKept
  <2> SUFFICES ASSUME NEW s \in Traders, acct[s].iso > 0
               PROVE  acct'[s].cross >= acct[s].cross
    BY DEF CrossKept
  <2>1. acct[s].cross \in Nat
    BY <1>1 DEF StateTyped
  <2>2. CASE s = t
    <3>1. iso
      BY <2>2 DEF iso, Isolated, Claims
    <3> QED BY <1>3, <1>7, <1>8, <1>9, <2>2, <3>1 DEF OneWritten, a
  <2>3. CASE s # t
    BY <1>9, <2>1, <2>3 DEF OneWritten
  <2> QED BY <2>2, <2>3
<1> QED BY <1>21, <1>22

-----------------------------------------------------------------------------
(* Auto-deleveraging.  The part of the collateral taken is at most all of  *)
(* it, and a leg that shrinks by n lots costs n times its entry less.      *)
LEMMA PartOfCollateral ==
    ASSUME NEW has \in Nat, NEW l \in Nat \ {0}, NEW n \in Nat, n <= l,
           NEW loss, loss = (has * n) \div l
    PROVE  loss \in Nat /\ loss <= has
<1>1. has * n \in Nat /\ has * n <= has * l
  BY MulMonotone
<1>2. loss \in Nat /\ l * loss <= has * n
  BY <1>1, DivFacts
<1>3. l * loss <= l * has
  <2>1. has * l = l * has /\ l * loss \in Int /\ l * has \in Int
    BY <1>2
  <2> QED BY <1>1, <1>2, <2>1
<1>4. loss <= has
  BY <1>2, <1>3, MulCancel
<1> QED BY <1>2, <1>4

Shrinks(a, n, q) ==
    /\ q \in Accounts /\ q.cross = a.cross /\ q.iso = a.iso /\ q.matured = a.matured
    /\ Value(n, a.entry) \in Int
    /\ q.lots * q.entry = a.lots * a.entry + (IF a.lots > 0 THEN -Value(n, a.entry) ELSE Value(n, a.entry))

LEMMA ShrunkFacts ==
    ASSUME NEW a, a \in Accounts, a.lots # 0, NEW n, n \in Nat, NEW q, q = Shrunk(a, n)
    PROVE  Shrinks(a, n, q)
<1> DEFINE l == a.lots
           e == a.entry
           r == IF l > 0 THEN l - n ELSE l + n
           f == IF r = 0 THEN 0 ELSE e
<1>1. l \in Int /\ e \in Nat /\ l # 0
  BY DEF Accounts
<1>2. r \in Int /\ f \in Nat
  BY <1>1
<1>3. q = [a EXCEPT !.lots = r, !.entry = f]
  BY DEF Shrunk
<1>4. q \in Accounts /\ q.cross = a.cross /\ q.iso = a.iso /\ q.matured = a.matured
      /\ q.lots = r /\ q.entry = f
  <2> HIDE DEF r, f
  <2> QED BY <1>2, <1>3 DEF Accounts
<1>5. r * f = r * e
  <2> HIDE DEF l, e
  <2>1. CASE r = 0
    BY <1>1, <2>1
  <2>2. CASE r # 0
    BY <1>1, <2>2
  <2> QED BY <2>1, <2>2
<1>6. Value(n, e) \in Int /\ Value(n, e) = n * e
  <2> HIDE DEF e
  <2> QED BY <1>1 DEF Value
<1>7. r * e = l * e + (IF l > 0 THEN -(n * e) ELSE n * e)
  <2> HIDE DEF l, e
  <2>1. (l - n) * e = l * e + (-(n * e)) /\ (l + n) * e = l * e + n * e
    BY <1>1
  <2> QED BY <2>1
<1> HIDE DEF r, f
<1> QED BY <1>4, <1>5, <1>6, <1>7 DEF Shrinks

(* The bankruptcy price is a price.                                        *)
LEMMA BankruptcyPriceNat ==
    ASSUME NEW a, a \in Accounts, a.lots # 0, NEW has, has \in Nat
    PROVE  BankruptcyPrice(a, has) \in Nat
<1> DEFINE l == Abs(a.lots)
           p == CeilDiv(has, l)
           e == a.entry
<1>1. a.lots \in Int /\ e \in Nat /\ l \in Nat \ {0}
  BY DEF Accounts, Abs
<1> HIDE DEF l
<1>2. p \in Nat
  <2>1. p = (has + l - 1) \div l
    BY DEF CeilDiv
  <2> QED BY <1>1, <2>1, CeilFacts
<1> HIDE DEF p, e
<1> DEFINE y == SatSub(e, p)
<1>3. y \in Nat
  BY <1>1, <1>2 DEF SatSub
<1> HIDE DEF y
<1>4. Max({y, 1}) = IF y >= 1 THEN y ELSE 1
  BY <1>3, MaxOfTwo
<1>5. BankruptcyPrice(a, has) = IF a.lots > 0 THEN Max({y, 1}) ELSE e + p
  BY DEF BankruptcyPrice, y, p, e, l
<1> QED BY <1>1, <1>2, <1>3, <1>4, <1>5

(* What the counter leg is paid: at most the collateral taken, and at most *)
(* its gain at the bankruptcy price.                                       *)
LEMMA CounterGainFacts ==
    ASSUME NEW a, a \in Accounts, NEW n, n \in Nat, NEW bp, bp \in Nat, NEW loss, loss \in Nat,
           IF a.lots > 0 THEN bp > a.entry ELSE bp < a.entry
    PROVE  /\ CounterGain(a, n, bp, loss) \in Nat /\ CounterGain(a, n, bp, loss) <= loss
           /\ CounterGain(a, n, bp, loss)
                <= IF a.lots > 0 THEN Value(n, bp) - Value(n, a.entry) ELSE Value(n, a.entry) - Value(n, bp)
<1> DEFINE e == a.entry
           d == IF a.lots > 0 THEN SatSub(bp, e) ELSE SatSub(e, bp)
           g == n * d
           z == Min({g, loss})
<1>1. e \in Nat /\ a.lots \in Int
  BY DEF Accounts
<1>2. d = (IF a.lots > 0 THEN bp - e ELSE e - bp) /\ d \in Nat
  BY <1>1 DEF SatSub
<1>3. CounterGain(a, n, bp, loss) = z
  BY DEF CounterGain
<1> HIDE DEF e, d
<1>4. g \in Nat
  BY <1>2
<1>5. g = IF a.lots > 0 THEN n * bp - n * e ELSE n * e - n * bp
  <2>1. n * (bp - e) = n * bp - n * e /\ n * (e - bp) = n * e - n * bp
    BY <1>1
  <2> QED BY <1>2, <2>1
<1> HIDE DEF g
<1>6. z = IF g <= loss THEN g ELSE loss
  BY <1>4, MinOfTwo
<1> HIDE DEF z
<1>7. z \in Nat /\ z <= loss /\ z <= g
  BY <1>4, <1>6
<1>8. g = IF a.lots > 0 THEN Value(n, bp) - Value(n, e) ELSE Value(n, e) - Value(n, bp)
  BY <1>5 DEF Value
<1>9. z <= IF a.lots > 0 THEN Value(n, bp) - Value(n, e) ELSE Value(n, e) - Value(n, bp)
  BY <1>7, <1>8
<1> QED BY <1>3, <1>7, <1>9 DEF e

(* What the bankruptcy price charges beyond the collateral taken.          *)
LEMMA DebtRemembered ==
    ASSUME NEW n, n \in Nat, NEW e, e \in Nat, NEW bp, bp \in Nat, NEW loss, loss \in Nat
    PROVE  /\ Value(n, e) \in Int /\ Value(n, bp) \in Int
           /\ SatSub(n * Abs(e - bp), loss) \in Nat
           /\ (Value(n, e) - Value(n, bp)) - loss <= SatSub(n * Abs(e - bp), loss)
           /\ (Value(n, bp) - Value(n, e)) - loss <= SatSub(n * Abs(e - bp), loss)
<1> DEFINE d == Abs(e - bp)
           v == n * d
           x == n * e
           y == n * bp
<1>1. d \in Nat /\ e - bp <= d /\ bp - e <= d
  BY DEF Abs
<1>2. x \in Int /\ y \in Int /\ Value(n, e) = x /\ Value(n, bp) = y
  BY DEF Value
<1> HIDE DEF d
<1>3. v \in Nat
  BY <1>1
<1>4. x - y <= v /\ y - x <= v
  <2>1. n * (e - bp) <= n * d /\ n * (bp - e) <= n * d
    BY <1>1, MulMonotone
  <2>2. n * (e - bp) = x - y /\ n * (bp - e) = y - x
    OBVIOUS
  <2> QED BY <2>1, <2>2
<1> HIDE DEF v, x, y
<1>5. SatSub(v, loss) \in Nat /\ v - loss <= SatSub(v, loss)
  BY <1>3 DEF SatSub
<1>6. (x - y) - loss <= SatSub(v, loss) /\ (y - x) - loss <= SatSub(v, loss)
  BY <1>2, <1>3, <1>4, <1>5
<1> QED BY <1>2, <1>5, <1>6 DEF v, d

LEMMA AutoDeleverageKeeps ==
    ASSUME LedgerInv, NEW u \in Traders, NEW c \in Traders, NEW n \in Sizes, NEW mark \in Marks,
           AutoDeleverage(u, c, n, mark)
    PROVE  LedgerInv' /\ CrossKept
<1>1. TypeOK /\ StateTyped /\ StateMeasured
  BY StateFields, Measured DEF LedgerInv
<1> DEFINE uIso == Isolated(Claims, u)
           cIso == Isolated(Claims, c)
           has  == Bucket(Claims, u, uIso)
           cHas == Bucket(Claims, c, cIso)
           bp   == BankruptcyPrice(acct[u], has)
           lost == (has * n) \div Abs(acct[u].lots)
           gain == CounterGain(acct[c], n, bp, lost)
           one  == SetBucket(Claims, u, uIso, has - lost)
           paid == SetBucket(one, c, cIso, cHas + gain)
           debt == SatSub(n * Abs(acct[u].entry - bp), lost)
<1>2. /\ u # c /\ acct[u].lots * acct[c].lots < 0
      /\ n <= Min({Abs(acct[u].lots), Abs(acct[c].lots)})
      /\ IF acct[c].lots > 0 THEN bp > acct[c].entry ELSE bp < acct[c].entry
      /\ acct' = [paid.acct EXCEPT ![u] = Shrunk(@, n), ![c] = Shrunk(@, n)]
      /\ hist' = IF on THEN hist ELSE [hist EXCEPT !.uncovered = hist.uncovered + debt]
      /\ pot' = pot /\ vault' = vault /\ on' = on
      /\ permissionless' = permissionless /\ index' = index /\ filled' = filled
  BY DEF AutoDeleverage, fixed
<1>3. /\ n \in Nat /\ has \in Nat /\ cHas \in Nat /\ Claims \in Books /\ acct \in [Traders -> Accounts]
      /\ acct[u] \in Accounts /\ acct[c] \in Accounts /\ acct[u].lots \in Int /\ acct[c].lots \in Int
      /\ acct[u].entry \in Nat /\ acct[c].entry \in Nat
  BY <1>1, LedgerAssumption, BucketNat DEF LedgerAssumption, StateTyped
<1>4. (acct[u].lots > 0 /\ acct[c].lots < 0) \/ (acct[u].lots < 0 /\ acct[c].lots > 0)
  BY <1>2, <1>3, SignOfProduct
<1>5. Abs(acct[u].lots) \in Nat \ {0} /\ n <= Abs(acct[u].lots)
  <2> DEFINE l == Abs(acct[u].lots)
             k == Abs(acct[c].lots)
  <2>1. l \in Nat \ {0} /\ k \in Nat
    BY <1>3, <1>4 DEF Abs
  <2>2. n <= Min({l, k})
    BY <1>2
  <2> HIDE DEF l, k
  <2>3. Min({l, k}) = IF l <= k THEN l ELSE k
    BY <2>1, MinOfTwo
  <2>4. n <= l
    BY <1>3, <2>1, <2>2, <2>3
  <2> QED BY <2>1, <2>4 DEF l
<1> HIDE DEF has, cHas
<1>6. lost \in Nat /\ lost <= has
  BY <1>3, <1>5, PartOfCollateral
<1> HIDE DEF lost
<1>7. bp \in Nat
  BY <1>3, <1>4, BankruptcyPriceNat
<1> HIDE DEF bp
<1>8. /\ gain \in Nat /\ gain <= lost
      /\ gain <= IF acct[c].lots > 0 THEN Value(n, bp) - Value(n, acct[c].entry)
                                     ELSE Value(n, acct[c].entry) - Value(n, bp)
  <2>1. IF acct[c].lots > 0 THEN bp > acct[c].entry ELSE bp < acct[c].entry
    BY <1>2
  <2> DEFINE a == acct[c]
  <2>2. a \in Accounts /\ IF a.lots > 0 THEN bp > a.entry ELSE bp < a.entry
    BY <1>3, <2>1
  <2> HIDE DEF a
  <2>3. /\ CounterGain(a, n, bp, lost) \in Nat /\ CounterGain(a, n, bp, lost) <= lost
        /\ CounterGain(a, n, bp, lost)
             <= IF a.lots > 0 THEN Value(n, bp) - Value(n, a.entry) ELSE Value(n, a.entry) - Value(n, bp)
    BY <1>3, <1>6, <1>7, <2>2, CounterGainFacts
  <2> QED BY <2>3 DEF a
<1> HIDE DEF gain
<1>9. /\ Value(n, acct[u].entry) \in Int /\ Value(n, bp) \in Int /\ debt \in Nat
      /\ (Value(n, acct[u].entry) - Value(n, bp)) - lost <= debt
      /\ (Value(n, bp) - Value(n, acct[u].entry)) - lost <= debt
  <2> DEFINE e == acct[u].entry
  <2>1. e \in Nat
    BY <1>3
  <2> HIDE DEF e
  <2>2. /\ Value(n, e) \in Int /\ Value(n, bp) \in Int
        /\ SatSub(n * Abs(e - bp), lost) \in Nat
        /\ (Value(n, e) - Value(n, bp)) - lost <= SatSub(n * Abs(e - bp), lost)
        /\ (Value(n, bp) - Value(n, e)) - lost <= SatSub(n * Abs(e - bp), lost)
    BY <1>3, <1>6, <1>7, <2>1, DebtRemembered
  <2> QED BY <2>2 DEF e
<1> HIDE DEF debt
<1>10. has - lost \in Nat /\ cHas + gain \in Nat
  BY <1>3, <1>6, <1>8
<1>11. /\ one \in Books /\ one.pot = pot
       /\ \A s \in Traders \ {u} : one.acct[s] = acct[s]
       /\ Collateral(one.acct) = (Collateral(acct) - has) + (has - lost)
       /\ SamePositions(acct, one.acct) /\ Protects(acct, one.acct)
  BY <1>1, <1>3, <1>10, LedgerAssumption, SetBucketFacts DEF StateTyped, has
<1> HIDE DEF one
<1>12. Bucket(one, c, cIso) = cHas /\ (cIso <=> Isolated(one, c))
  BY <1>1, <1>2, <1>11 DEF Bucket, Isolated, cHas, StateTyped
<1>13. /\ paid \in Books
       /\ \A s \in Traders \ {c} : paid.acct[s] = one.acct[s]
       /\ Collateral(paid.acct) = (Collateral(one.acct) - cHas) + (cHas + gain)
       /\ SamePositions(one.acct, paid.acct) /\ Protects(one.acct, paid.acct)
  <2> HIDE DEF cIso
  <2> QED BY <1>10, <1>11, <1>12, LedgerAssumption, SetBucketFacts
<1> DEFINE b == paid.acct
           a1 == one.acct
<1> HIDE DEF paid
<1>14. b \in [Traders -> Accounts] /\ a1 \in [Traders -> Accounts]
  BY <1>11, <1>13, BooksFields
<1>15. /\ acct' = [b EXCEPT ![u] = Shrunk(b[u], n), ![c] = Shrunk(b[c], n)]
       /\ Collateral(b) = (Collateral(a1) - cHas) + (cHas + gain)
       /\ Collateral(a1) = (Collateral(acct) - has) + (has - lost)
       /\ SamePositions(acct, a1) /\ SamePositions(a1, b) /\ Protects(acct, a1) /\ Protects(a1, b)
  BY <1>2, <1>11, <1>13, <1>14
<1>42. \A s \in Traders : (a1[s].iso = acct[s].iso /\ a1[s].cross = acct[s].cross) \/ b[s].cross = a1[s].cross
  BY <1>2, <1>11, <1>13
<1> HIDE DEF b, a1
<1>16. SamePositions(acct, b)
  BY <1>15, SamePositionsChain
<1>17. Protects(acct, b)
  BY <1>3, <1>14, <1>15, <1>42, ProtectsChain
<1>18. /\ b[u] \in Accounts /\ b[c] \in Accounts
       /\ b[u].lots = acct[u].lots /\ b[u].entry = acct[u].entry
       /\ b[c].lots = acct[c].lots /\ b[c].entry = acct[c].entry
  BY <1>14, <1>16 DEF SamePositions
<1> DEFINE x == Shrunk(b[u], n)
           y == Shrunk(b[c], n)
           d == SetAccount(b, u, x)
<1>19. Shrinks(b[u], n, x)
  <2>1. b[u] \in Accounts /\ b[u].lots # 0
    BY <1>3, <1>4, <1>18
  <2> QED BY <1>3, <2>1, ShrunkFacts
<1>20. Shrinks(b[c], n, y)
  <2>1. b[c] \in Accounts /\ b[c].lots # 0
    BY <1>3, <1>4, <1>18
  <2> QED BY <1>3, <2>1, ShrunkFacts
<1>21. acct' = SetAccount(d, c, y)
  BY <1>15 DEF SetAccount
<1> HIDE DEF x, y
<1>22. OneWritten(b, u, x, d)
  <2>1. x \in Accounts
    BY <1>19 DEF Shrinks
  <2> QED BY <1>14, <2>1, OneAccount
<1> HIDE DEF d
<1>23. d \in [Traders -> Accounts] /\ d[c] = b[c]
  BY <1>2, <1>22 DEF OneWritten
<1>24. OneWritten(d, c, y, acct')
  <2>1. y \in Accounts
    BY <1>20 DEF Shrinks
  <2> QED BY <1>21, <1>23, <2>1, OneAccount
<1> DEFINE p0 == b[u].lots * b[u].entry
           p1 == x.lots * x.entry
           q0 == b[c].lots * b[c].entry
           q1 == y.lots * y.entry
           vu == Value(n, acct[u].entry)
           vc == Value(n, acct[c].entry)
           vb == Value(n, bp)
<1>25. /\ p1 = p0 + (IF acct[u].lots > 0 THEN -vu ELSE vu) /\ vu \in Int
       /\ q1 = q0 + (IF acct[c].lots > 0 THEN -vc ELSE vc) /\ vc \in Int
  BY <1>18, <1>19, <1>20 DEF Shrinks
<1>26. p0 \in Int /\ q0 \in Int
  BY <1>3, <1>18
<1>27. BasisOf(d) = BasisOf(b) - p0 + p1 /\ BasisOf(acct') = BasisOf(d) - q0 + q1
  BY <1>22, <1>23, <1>24 DEF OneWritten
<1>28. /\ Collateral(d) = Collateral(b) /\ Collateral(acct') = Collateral(d)
       /\ MaturedOf(d) = MaturedOf(b) /\ MaturedOf(acct') = MaturedOf(d)
  <2>1. /\ Collateral(b) \in Nat /\ MaturedOf(b) \in Nat /\ Collateral(d) \in Nat /\ MaturedOf(d) \in Nat
    BY <1>14, <1>23, LedgerAssumption, MeasuresInt
  <2>2. /\ b[u].cross \in Nat /\ b[u].iso \in Nat /\ b[u].matured \in Nat
        /\ b[c].cross \in Nat /\ b[c].iso \in Nat /\ b[c].matured \in Nat
    BY <1>18 DEF Accounts
  <2>3. /\ x.cross = b[u].cross /\ x.iso = b[u].iso /\ x.matured = b[u].matured
        /\ y.cross = b[c].cross /\ y.iso = b[c].iso /\ y.matured = b[c].matured
    BY <1>19, <1>20 DEF Shrinks
  <2>4. /\ Collateral(d) = Collateral(b) - (b[u].cross + b[u].iso) + (x.cross + x.iso)
        /\ MaturedOf(d) = MaturedOf(b) - b[u].matured + x.matured
    BY <1>22 DEF OneWritten
  <2>5. /\ Collateral(acct') = Collateral(d) - (b[c].cross + b[c].iso) + (y.cross + y.iso)
        /\ MaturedOf(acct') = MaturedOf(d) - b[c].matured + y.matured
    BY <1>23, <1>24 DEF OneWritten
  <2> QED BY <2>1, <2>2, <2>3, <2>4, <2>5
<1>29. BasisOf(b) = BasisOf(acct) /\ MaturedOf(b) = MaturedOf(acct)
  BY <1>3, <1>14, <1>16, LedgerAssumption, PositionsCount
<1> HIDE DEF p0, p1, q0, q1, vu, vc, vb
<1>30. Collateral(acct') = Collateral(acct) - lost + gain
  BY <1>1, <1>3, <1>6, <1>8, <1>15, <1>28 DEF StateMeasured
<1>31. /\ hist' \in [uncovered : Nat, house : Int, inherited : Nat]
       /\ hist'.inherited = hist.inherited /\ hist'.house = hist.house
       /\ ~on => hist'.uncovered = hist.uncovered + debt
  <2>1. hist \in [uncovered : Nat, house : Int, inherited : Nat] /\ hist.uncovered + debt \in Nat
    BY <1>1, <1>9 DEF StateTyped
  <2> QED BY <1>2, <2>1
<1>32. TypeOK'
  BY <1>1, <1>2, <1>24, <1>31 DEF TypeOK, OneWritten
<1>33. StateMeasured' /\ StateTyped'
  BY <1>32, MeasuredNext, FieldsNext
<1>34. gain - lost <= (p1 - p0) + (q1 - q0) + debt
  <2>1. /\ vb \in Int /\ (vu - vb) - lost <= debt /\ (vb - vu) - lost <= debt
        /\ gain <= IF acct[c].lots > 0 THEN vb - vc ELSE vc - vb
    BY <1>8, <1>9 DEF vu, vb, vc
  <2>2. CASE acct[u].lots > 0 /\ acct[c].lots < 0
    <3>1. p1 = p0 - vu /\ q1 = q0 + vc /\ gain <= vc - vb
      BY <1>3, <1>25, <1>26, <2>1, <2>2
    <3> QED BY <1>6, <1>8, <1>9, <1>25, <1>26, <2>1, <3>1
  <2>3. CASE acct[u].lots < 0 /\ acct[c].lots > 0
    <3>1. p1 = p0 + vu /\ q1 = q0 - vc /\ gain <= vb - vc
      BY <1>3, <1>25, <1>26, <2>1, <2>3
    <3> QED BY <1>6, <1>8, <1>9, <1>25, <1>26, <2>1, <3>1
  <2> QED BY <1>4, <2>2, <2>3
<1>35. p1 \in Int /\ q1 \in Int
  BY <1>25, <1>26, SMTT(30)
<1>36. BasisOf(acct') = BasisOf(acct) + (p1 - p0) + (q1 - q0)
  BY <1>1, <1>26, <1>27, <1>29, <1>35, SMTT(30) DEF StateMeasured
<1>37. ~on => Uncovered' <= Uncovered
  BY <1>1, <1>2, <1>6, <1>8, <1>9, <1>26, <1>30, <1>31, <1>33, <1>34, <1>35, <1>36,
     SMTT(30) DEF StateMeasured, StateTyped
<1>38. on => Overstated' <= Overstated
  BY <1>1, <1>2, <1>6, <1>8, <1>30, <1>31, <1>33 DEF StateMeasured, StateTyped
<1>39. LedgerInv'
  BY <1>2, <1>28, <1>29, <1>32, <1>37, <1>38, Conserves
<1>40. \A s \in Traders : acct'[s].iso = b[s].iso /\ acct'[s].cross = b[s].cross
  <2>1. \A s \in Traders : d[s].iso = b[s].iso /\ d[s].cross = b[s].cross
    BY <1>19, <1>22 DEF OneWritten, Shrinks
  <2>2. \A s \in Traders : acct'[s].iso = d[s].iso /\ acct'[s].cross = d[s].cross
    BY <1>20, <1>23, <1>24 DEF OneWritten, Shrinks
  <2> QED BY <2>1, <2>2
<1>41. CrossKept
  BY <1>17, <1>40 DEF CrossKept, Protects
<1> QED BY <1>39, <1>41

-----------------------------------------------------------------------------
LEMMA LedgerInit == Init => LedgerInv
<1> SUFFICES ASSUME Init PROVE LedgerInv
  OBVIOUS
<1> USE LedgerAssumption
<1>1. NewAccount \in Accounts /\ NewAccount.cross = 0 /\ NewAccount.iso = 0 /\ NewAccount.lots = 0
      /\ NewAccount.entry = 0 /\ NewAccount.matured = 0
  BY DEF NewAccount, Accounts
<1>2. acct \in [Traders -> Accounts] /\ \A t \in Traders : acct[t] = NewAccount
  BY <1>1 DEF Init
<1>3. /\ pot \in Pots /\ pot.fund = 0 /\ pot.fees = 0 /\ pot.residual = 0 /\ pot.maturedTotal = 0
      /\ hist \in [uncovered : Nat, house : Int, inherited : Nat]
      /\ hist.uncovered = 0 /\ hist.house = 0 /\ hist.inherited = 0
      /\ vault = 0 /\ on = FALSE /\ index = 0 /\ filled = 0 /\ permissionless \in BOOLEAN
  BY DEF Init, Pots
<1>4. 0 \in 0..MaxVault /\ 0 \in 0..MaxFills /\ 0 \in -MaxIndex..MaxIndex
  BY DEF LedgerAssumption
<1>5. TypeOK
  BY <1>2, <1>3, <1>4 DEF TypeOK, Pots
<1>6. IsFiniteSet(Traders)
  BY DEF LedgerAssumption
<1>7. Collateral(acct) = 0
  <2> DEFINE f == [t \in Traders |-> acct[t].cross + acct[t].iso]
  <2>1. \A t \in Traders : f[t] = 0
    BY <1>1, <1>2
  <2> HIDE DEF f
  <2>2. SumFunctionOnSet(f, Traders) = 0
    BY <1>6, <2>1, SumZero
  <2> QED BY <2>2 DEF Collateral, SumOver, f
<1>8. BasisOf(acct) = 0
  <2> DEFINE f == [t \in Traders |-> acct[t].lots * acct[t].entry]
  <2>1. \A t \in Traders : f[t] = 0
    BY <1>1, <1>2
  <2> HIDE DEF f
  <2>2. SumFunctionOnSet(f, Traders) = 0
    BY <1>6, <2>1, SumZero
  <2> QED BY <2>2 DEF BasisOf, SumOver, f
<1>9. MaturedOf(acct) = 0
  <2> DEFINE f == [t \in Traders |-> acct[t].matured]
  <2>1. \A t \in Traders : f[t] = 0
    BY <1>1, <1>2
  <2> HIDE DEF f
  <2>2. SumFunctionOnSet(f, Traders) = 0
    BY <1>6, <2>1, SumZero
  <2> QED BY <2>2 DEF MaturedOf, SumOver, f
<1>10. StateMeasured
  BY <1>5, Measured
<1>11. Uncovered <= 0 /\ pot.maturedTotal = MaturedOf(acct)
  BY <1>3, <1>7, <1>8, <1>9, <1>10 DEF StateMeasured
<1> QED BY <1>3, <1>5, <1>10, <1>11 DEF LedgerInv, StateMeasured

(* Every step of the ledger keeps the invariant and the isolation.         *)
LEMMA LedgerStep ==
    ASSUME LedgerInv, [Next]_vars
    PROVE  LedgerInv' /\ [CrossKept]_vars
<1>1. CASE UNCHANGED vars
  <2>1. LedgerInv'
    BY <1>1 DEF LedgerInv, vars, TypeOK, DirectBacked, HaircutSolvent, MaturedTotalExact, Basis, Collateral,
                Excess, SumOver
  <2> QED BY <1>1, <2>1
<1>2. ASSUME NEW t \in Traders, NEW k \in Traders, NEW side \in {"buy", "sell"}, NEW size \in Sizes,
             NEW px \in FillPrices, NEW fee \in FeeTerms, NEW share \in Shares,
             ApplyFill(t, k, side, size, px, fee, share)
      PROVE  LedgerInv' /\ CrossKept
  BY <1>2, ApplyFillKeeps
<1>3. ASSUME NEW t \in Traders, NEW a \in Amounts,
             \/ DepositCollateral(t, a)
             \/ WithdrawCollateral(t, a)
             \/ PartialWithdrawCollateral(t, a)
             \/ SetPositionIsolated(t, a)
             \/ ReleaseGainToHaircut(t, a)
      PROVE  LedgerInv' /\ CrossKept
  <2>1. CASE DepositCollateral(t, a)
    BY <2>1, DepositCollateralKeeps
  <2>2. CASE WithdrawCollateral(t, a) \/ PartialWithdrawCollateral(t, a)
    <3>1. TakeOut(t, a)
      BY <2>2 DEF WithdrawCollateral, PartialWithdrawCollateral
    <3> QED BY <3>1, TakeOutKeeps
  <2>3. CASE SetPositionIsolated(t, a)
    BY <2>3, SetPositionIsolatedKeeps
  <2>4. CASE ReleaseGainToHaircut(t, a)
    BY <2>4, ReleaseGainKeeps
  <2> QED BY <1>3, <2>1, <2>2, <2>3, <2>4
<1>4. ASSUME NEW t \in Traders, SetPositionCross(t) \/ SettleFunding(t) \/ ConvertPosition(t)
      PROVE  LedgerInv' /\ CrossKept
  BY <1>4, SetPositionCrossKeeps, SettleFundingKeeps, ConvertPositionKeeps
<1>5. ASSUME NEW t \in Traders, NEW k \in Traders, NEW a \in Amounts, NEW limit \in Marks,
             LiquidationReward(t, k, a, limit)
      PROVE  LedgerInv' /\ CrossKept
  BY <1>5, LiquidationRewardKeeps
<1>6. ASSUME NEW u \in Traders, NEW c \in Traders, NEW n \in Sizes, NEW mark \in Marks,
             AutoDeleverage(u, c, n, mark)
      PROVE  LedgerInv' /\ CrossKept
  BY <1>6, AutoDeleverageKeeps
<1>7. ASSUME NEW t \in Traders, NEW mark \in Marks, ForceReducePositionOracle(t, mark)
      PROVE  LedgerInv' /\ CrossKept
  BY <1>7, ForceReducePositionOracleKeeps
<1>8. ASSUME NEW t \in Traders, NEW d, MaturePosition(t, d)
      PROVE  LedgerInv' /\ CrossKept
  BY <1>8, MaturePositionKeeps
<1>9. ASSUME NEW a \in Amounts, WithdrawInsuranceFund(a) \/ DepositInsuranceFund(a)
      PROVE  LedgerInv' /\ CrossKept
  BY <1>9, InsuranceKeeps
<1>10. ASSUME NEW d \in SeedSteps, SeedResidual(d)
       PROVE  LedgerInv' /\ CrossKept
  BY <1>10, SeedResidualKeeps
<1>11. ASSUME ClaimFeeAccrual PROVE LedgerInv' /\ CrossKept
  BY <1>11, ClaimFeeAccrualKeeps
<1>12. ASSUME NEW d \in IndexSteps, CrankFunding(d) PROVE LedgerInv' /\ CrossKept
  BY <1>12, CrankFundingKeeps
<1>13. ASSUME NEW seed \in Amounts \cup {0}, InitializeHaircutState(seed)
       PROVE  LedgerInv' /\ CrossKept
  BY <1>13, InitializeHaircutStateKeeps
<1>14. ASSUME FlushHaircutDust PROVE LedgerInv' /\ CrossKept
  BY <1>14, FlushHaircutDustKeeps
<1>15. CASE Next
  <2>1. LedgerInv' /\ CrossKept
    BY <1>2, <1>3, <1>4, <1>5, <1>6, <1>7, <1>8, <1>9, <1>10, <1>11, <1>12, <1>13, <1>14, <1>15 DEF Next
  <2> QED BY <2>1
<1> QED BY <1>1, <1>15

LEMMA LedgerInvariance == Spec => []LedgerInv
<1>1. LedgerInv /\ [Next]_vars => LedgerInv'
  BY LedgerStep
<1> QED BY LedgerInit, <1>1, PTL DEF Spec

(* Without the haircut, no order of fills, fees, deleveraging, recoveries, *)
(* deposits and withdrawals makes the claims on the vault exceed what it   *)
(* holds by more than the bad debt nobody covered, and no balance goes     *)
(* below zero.                                                             *)
THEOREM VaultCoversTheClaims == Spec => []ClaimsBacked
<1>1. LedgerInv => ClaimsBacked
  BY DEF LedgerInv, ClaimsBacked
<1> QED BY <1>1, LedgerInvariance, PTL

(* With the haircut, the residual that pays converted gains and funding    *)
(* receipts is always in the vault, up to what the authority over-stated,  *)
(* and the denominator of h is the sum of the matured gains.               *)
THEOREM HaircutIsSolvent == Spec => []HaircutSound
<1>1. LedgerInv => HaircutSound
  BY DEF LedgerInv, HaircutSound
<1> QED BY <1>1, LedgerInvariance, PTL

(* An isolated bucket protects its owner's cross pool, also in the step    *)
(* that uses it up: fees, funding, losses, deleveraging and rewards of the *)
(* position come out of the bucket alone, unless the fees and the funding  *)
(* of one fill leave nothing of it before the loss of that fill is taken.  *)
THEOREM IsolationIsKept == Spec => IsolationProtectsCross
<1>1. LedgerInv /\ [Next]_vars =>
        [\A t \in Traders :
           vault' = vault /\ acct[t].iso > 0 /\ acct'[t].cross < acct[t].cross
             => DrainedByFill(t)]_vars
  <2> SUFFICES ASSUME LedgerInv, Next, ~ UNCHANGED vars,
                      NEW t \in Traders, vault' = vault, acct[t].iso > 0, acct'[t].cross < acct[t].cross
               PROVE  DrainedByFill(t)
    OBVIOUS
  <2>1. LedgerInv' /\ CrossKept
    BY LedgerStep
  <2>2. acct[t].cross \in Nat /\ acct'[t].cross \in Nat
    BY <2>1 DEF LedgerInv, TypeOK, Accounts
  <2> QED BY <2>1, <2>2 DEF CrossKept
<1> QED BY <1>1, LedgerInvariance, PTL DEF Spec, IsolationProtectsCross
=============================================================================
