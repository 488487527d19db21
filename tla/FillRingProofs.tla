--------------------------- MODULE FillRingProofs ---------------------------
(***************************************************************************)
(* Proofs about FillRing for every ring capacity, set of traders and set   *)
(* of sizes.  The inductive invariant RingInv is about the ring, the       *)
(* sequence counter and the two histories; FullInv adds the counters kept  *)
(* beside the ring and the outbox.  Last comes the refinement: the ring    *)
(* implements FillQueue.                                                   *)
(***************************************************************************)
EXTENDS FillRing, SumTheorems

SlotValues == {NoCommit} \cup {Commit(f, i) : f \in Fill, i \in Nat}

RingTypes ==
    /\ cap \in Nat \ {0}
    /\ produced \in Nat /\ settled \in Nat
    /\ settled <= produced /\ produced - settled <= cap
    /\ slots \in [0..(cap - 1) -> SlotValues]
    /\ pushed \in [0..(produced - 1) -> [fill : Fill, ro : BOOLEAN, out : BOOLEAN]]
    /\ applied \in [0..(settled - 1) -> Fill]

(* Each pending fill is the content of its slot.                           *)
PendingHeld == \A i \in Pending : slots[i % cap] = Commit(pushed[i].fill, i)

(* A slot no pending fill maps to is clear.                                *)
OthersClear ==
    \A s \in 0..(cap - 1) : (\A i \in Pending : i % cap # s) => slots[s] = NoCommit

RingInv ==
    /\ RingTypes
    /\ PendingHeld
    /\ OthersClear
    /\ ExactlyOnceFifo
    /\ SeqTracksRing

-----------------------------------------------------------------------------
(* A residue is a slot index.                                              *)
LEMMA ModRange == \A a \in Nat, c \in Nat \ {0} : a % c \in 0..(c - 1)
OBVIOUS

(* Two indices less than one capacity apart never share a slot: the        *)
(* arithmetic behind ring_push's backpressure.                             *)
LEMMA ModDistinct ==
    ASSUME NEW c \in Nat \ {0}, NEW a \in Nat, NEW b \in Nat, a < b, b < a + c
    PROVE  a % c # b % c
<1> DEFINE qa == a \div c
           qb == b \div c
<1>1. qa \in Int /\ qb \in Int
  OBVIOUS
<1>2. a = c * qa + (a % c) /\ b = c * qb + (b % c)
  OBVIOUS
<1>3. SUFFICES ASSUME a % c = b % c PROVE FALSE
  OBVIOUS
<1>4. b - a = c * qb - c * qa
  BY <1>1, <1>2, <1>3
<1>5. c * qb - c * qa = c * (qb - qa)
  BY <1>1
<1> HIDE DEF qa, qb
<1>6. CASE qb - qa >= 1
  <2>1. c * (qb - qa) >= c
    BY <1>1, <1>6
  <2> QED BY <2>1, <1>4, <1>5
<1>7. CASE qb - qa <= 0
  <2>1. c * (qb - qa) <= 0
    BY <1>1, <1>7
  <2> QED BY <2>1, <1>4, <1>5
<1> QED BY <1>1, <1>6, <1>7

(* The same, without an order on the two indices.                          *)
LEMMA ModInjective ==
    ASSUME NEW c \in Nat \ {0}, NEW lo \in Nat,
           NEW a \in lo..(lo + c - 1), NEW b \in lo..(lo + c - 1), a % c = b % c
    PROVE  a = b
<1>0. a \in Nat /\ b \in Nat /\ a < b + c /\ b < a + c
  OBVIOUS
<1>1. ~(a < b)
  BY <1>0, ModDistinct
<1>2. ~(b < a)
  BY <1>0, ModDistinct
<1> QED BY <1>0, <1>1, <1>2

-----------------------------------------------------------------------------
(* A cleared ring is well typed.                                           *)
LEMMA EmptySlotsType == \A c \in Int : EmptySlots(c) \in [0..(c - 1) -> SlotValues]
<1>1. NoCommit \in SlotValues
  BY DEF SlotValues
<1> HIDE DEF NoCommit
<1> QED BY <1>1 DEF EmptySlots

(* A fresh ring satisfies the invariant.                                   *)
LEMMA InitRing == ASSUME RingAssumption, Init PROVE RingInv
<1>1. cap \in Nat \ {0}
  BY DEF Init, RingAssumption
<1>2. RingTypes
  BY <1>1 DEF Init, RingTypes, EmptySlots, SlotValues
<1>3. PendingHeld /\ OthersClear
  BY <1>1 DEF Init, PendingHeld, OthersClear, Pending, EmptySlots
<1>4. ExactlyOnceFifo /\ SeqTracksRing
  BY DEF Init, ExactlyOnceFifo, SeqTracksRing
<1> QED BY <1>2, <1>3, <1>4 DEF RingInv

(* The produce block writes only slots whose tenant is settled.            *)
LEMMA PushKeeps ==
    ASSUME RingInv,
           NEW t \in Traders, NEW n \in Nat, NEW batch \in [1..n -> Entries(t)],
           NEW withOutbox \in BOOLEAN,
           Len(batch) = n,
           PlaceTakerOrder(batch, withOutbox)
    PROVE  RingInv'
<1>0. /\ cap \in Nat \ {0} /\ produced \in Nat /\ settled \in Nat
      /\ settled <= produced /\ produced - settled <= cap
      /\ slots \in [0..(cap - 1) -> SlotValues]
      /\ PendingHeld /\ OthersClear /\ ExactlyOnceFifo /\ SeqTracksRing
  BY DEF RingInv, RingTypes
<1>1. /\ n \in Nat \ {0}
      /\ produced' = produced + n /\ settled' = settled /\ cap' = cap
      /\ produced + n - settled <= cap
      /\ lastSeq' = lastSeq /\ applied' = applied
  BY <1>0 DEF PlaceTakerOrder, RingRoom, Depth
<1>1a. Pending = settled..(produced - 1) /\ Pending' = settled..(produced + n - 1)
  BY <1>0, <1>1 DEF Pending
<1>2. \A k \in 1..n : batch[k].fill \in Fill /\ batch[k].ro \in BOOLEAN
  BY DEF Entries
<1>3. pushed' = [i \in 0..(produced + n - 1) |->
                    IF i < produced THEN pushed[i]
                    ELSE [fill |-> batch[i - produced + 1].fill,
                          ro   |-> batch[i - produced + 1].ro,
                          out  |-> withOutbox]]
  BY DEF PlaceTakerOrder, RingRoom
<1>3a. \A i \in 0..(produced - 1) : pushed'[i] = pushed[i]
  BY <1>0, <1>1, <1>3
<1>3b. \A i \in produced..(produced + n - 1) :
         pushed'[i].fill = batch[i - produced + 1].fill
  BY <1>0, <1>1, <1>3
<1>4. pushed' \in [0..(produced' - 1) -> [fill : Fill, ro : BOOLEAN, out : BOOLEAN]]
  <2>1. pushed \in [0..(produced - 1) -> [fill : Fill, ro : BOOLEAN, out : BOOLEAN]]
    BY DEF RingInv, RingTypes
  <2>2. \A i \in 0..(produced + n - 1) :
          (IF i < produced THEN pushed[i]
           ELSE [fill |-> batch[i - produced + 1].fill,
                 ro   |-> batch[i - produced + 1].ro,
                 out  |-> withOutbox]) \in [fill : Fill, ro : BOOLEAN, out : BOOLEAN]
    <3> SUFFICES ASSUME NEW i \in 0..(produced + n - 1)
                 PROVE  (IF i < produced THEN pushed[i]
                         ELSE [fill |-> batch[i - produced + 1].fill,
                               ro   |-> batch[i - produced + 1].ro,
                               out  |-> withOutbox])
                            \in [fill : Fill, ro : BOOLEAN, out : BOOLEAN]
      OBVIOUS
    <3>1. CASE i < produced
      BY <1>0, <2>1, <3>1
    <3>2. CASE ~(i < produced)
      <4>1. i - produced + 1 \in 1..n
        BY <1>0, <3>2
      <4> QED BY <1>2, <3>2, <4>1
    <3> QED BY <3>1, <3>2
  <2>3. pushed' \in [0..(produced + n - 1) -> [fill : Fill, ro : BOOLEAN, out : BOOLEAN]]
    BY <1>3, <2>2, Zenon
  <2>4. produced' - 1 = produced + n - 1
    BY <1>0, <1>1
  <2> QED BY <2>3, <2>4
<1>5. slots' = WriteSlots(batch)
  BY DEF PlaceTakerOrder, RingRoom
<1>6. \A s \in 0..(cap - 1) : \A k \in 1..n :
        (produced + k - 1) % cap = s =>
            slots'[s] = Commit(batch[k].fill, produced + k - 1)
  <2> SUFFICES ASSUME NEW s \in 0..(cap - 1), NEW k \in 1..n,
                      (produced + k - 1) % cap = s
               PROVE  slots'[s] = Commit(batch[k].fill, produced + k - 1)
    OBVIOUS
  <2>1. k \in IndexIn(batch, s, cap)
    BY DEF IndexIn
  <2>2. \A j \in IndexIn(batch, s, cap) : j = k
    <3> SUFFICES ASSUME NEW j \in IndexIn(batch, s, cap) PROVE j = k
      OBVIOUS
    <3>1. j \in 1..n /\ (produced + j - 1) % cap = s
      BY DEF IndexIn
    <3>2. /\ produced + j - 1 \in settled..(settled + cap - 1)
          /\ produced + k - 1 \in settled..(settled + cap - 1)
      BY <1>0, <1>1, <3>1
    <3>3. produced + j - 1 = produced + k - 1
      BY <1>0, <3>1, <3>2, ModInjective
    <3> QED BY <1>0, <3>1, <3>3
  <2> QED BY <1>5, <2>1, <2>2 DEF WriteSlots
<1>7. \A s \in 0..(cap - 1) :
        (\A k \in 1..n : (produced + k - 1) % cap # s) => slots'[s] = slots[s]
  BY <1>5 DEF WriteSlots, IndexIn
<1>8. \A i \in Pending :
        \A k \in 1..n : (produced + k - 1) % cap # i % cap
  <2> SUFFICES ASSUME NEW i \in Pending, NEW k \in 1..n
               PROVE  (produced + k - 1) % cap # i % cap
    OBVIOUS
  <2>1. /\ i \in Nat /\ i < produced + k - 1
        /\ produced + k - 1 \in Nat
        /\ produced + k - 1 < i + cap
    BY <1>0, <1>1, <1>1a
  <2> QED BY <1>0, <2>1, ModDistinct
<1>9. slots' \in [0..(cap' - 1) -> SlotValues]
  <2>1. slots' = [s \in 0..(cap - 1) |-> slots'[s]]
    BY <1>5 DEF WriteSlots
  <2>2. \A s \in 0..(cap - 1) : slots'[s] \in SlotValues
    <3> SUFFICES ASSUME NEW s \in 0..(cap - 1) PROVE slots'[s] \in SlotValues
      OBVIOUS
    <3>1. CASE \E k \in 1..n : (produced + k - 1) % cap = s
      <4> PICK k \in 1..n : (produced + k - 1) % cap = s
        BY <3>1
      <4>1. slots'[s] = Commit(batch[k].fill, produced + k - 1)
        BY <1>6
      <4>2. produced + k - 1 \in Nat
        BY <1>0
      <4> QED BY <4>1, <4>2, <1>2 DEF SlotValues
    <3>2. CASE \A k \in 1..n : (produced + k - 1) % cap # s
      BY <3>2, <1>0, <1>7
    <3> QED BY <3>1, <3>2
  <2> QED BY <1>0, <1>1, <2>1, <2>2
<1>10. PendingHeld'
  <2> SUFFICES ASSUME NEW i \in Pending'
               PROVE  slots'[i % cap'] = Commit(pushed'[i].fill, i)
    BY DEF PendingHeld
  <2>0. i \in settled..(produced + n - 1) /\ i \in Nat /\ i % cap \in 0..(cap - 1)
    BY <1>0, <1>1a, ModRange
  <2>1. CASE i < produced
    <3>1. i \in Pending
      BY <1>0, <1>1a, <2>0, <2>1
    <3>2. slots'[i % cap] = slots[i % cap]
      BY <2>0, <3>1, <1>7, <1>8
    <3>3. pushed'[i] = pushed[i]
      BY <1>0, <2>0, <2>1, <1>3a
    <3> QED BY <1>0, <3>1, <3>2, <3>3, <1>1 DEF PendingHeld
  <2>2. CASE i >= produced
    <3> DEFINE k == i - produced + 1
    <3>1. k \in 1..n /\ produced + k - 1 = i
      BY <1>0, <2>0, <2>2
    <3>2. slots'[i % cap] = Commit(batch[k].fill, i)
      BY <1>0, <3>1, <2>0, <1>6
    <3>3. pushed'[i].fill = batch[k].fill
      BY <1>0, <2>0, <2>2, <1>3b
    <3> QED BY <3>2, <3>3, <1>1
  <2> QED BY <1>0, <2>0, <2>1, <2>2
<1>11. OthersClear'
  <2> SUFFICES ASSUME NEW s \in 0..(cap - 1), \A i \in Pending' : i % cap # s
               PROVE  slots'[s] = NoCommit
    BY <1>1 DEF OthersClear
  <2>1. \A i \in Pending : i % cap # s
    <3>1. Pending \subseteq Pending'
      BY <1>0, <1>1, <1>1a
    <3> QED BY <3>1
  <2>2. \A k \in 1..n : (produced + k - 1) % cap # s
    <3> SUFFICES ASSUME NEW k \in 1..n PROVE (produced + k - 1) % cap # s
      OBVIOUS
    <3>1. produced + k - 1 \in Pending'
      BY <1>0, <1>1, <1>1a
    <3> QED BY <3>1
  <2> QED BY <1>0, <2>1, <2>2, <1>7 DEF OthersClear
<1>12. ExactlyOnceFifo'
  BY <1>0, <1>1, <1>3a DEF ExactlyOnceFifo
<1>13. SeqTracksRing'
  BY <1>0, <1>1 DEF SeqTracksRing
<1>14. RingTypes'
  BY <1>0, <1>1, <1>4, <1>9 DEF RingInv, RingTypes
<1> QED BY <1>10, <1>11, <1>12, <1>13, <1>14 DEF RingInv

(* verify-and-pop applies the oldest crossed fill and frees its slot only. *)
LEMMA PopKeeps ==
    ASSUME RingInv, NEW f \in Fill, NEW seq,
           VerifyAndPop(f), AdvanceSettlementSeq(seq), RecordApplied(f),
           UNCHANGED <<cap, produced, pushed>>
    PROVE  RingInv'
<1>0. /\ cap \in Nat \ {0} /\ produced \in Nat /\ settled \in Nat
      /\ settled <= produced /\ produced - settled <= cap
      /\ slots \in [0..(cap - 1) -> SlotValues]
      /\ pushed \in [0..(produced - 1) -> [fill : Fill, ro : BOOLEAN, out : BOOLEAN]]
      /\ applied \in [0..(settled - 1) -> Fill]
      /\ PendingHeld /\ OthersClear /\ ExactlyOnceFifo /\ SeqTracksRing
  BY DEF RingInv, RingTypes
<1>1. /\ settled < produced
      /\ settled' = settled + 1 /\ produced' = produced /\ cap' = cap
      /\ pushed' = pushed /\ lastSeq' = lastSeq + 1
      /\ slots[settled % cap] = Commit(f, settled)
      /\ slots' = [slots EXCEPT ![settled % cap] = NoCommit]
  BY <1>0 DEF VerifyAndPop, AdvanceSettlementSeq, Depth
<1>2. /\ Pending = settled..(produced - 1)
      /\ Pending' = (settled + 1)..(produced - 1)
      /\ settled \in Pending
  BY <1>0, <1>1 DEF Pending
<1>3. f = pushed[settled].fill
  <2>1. slots[settled % cap] = Commit(pushed[settled].fill, settled)
    BY <1>0, <1>2 DEF PendingHeld
  <2> QED BY <1>1, <2>1 DEF Commit
<1>4. settled % cap \in 0..(cap - 1)
  BY <1>0, ModRange
<1>5. \A i \in Pending' : i % cap # settled % cap
  <2> SUFFICES ASSUME NEW i \in Pending' PROVE i % cap # settled % cap
    OBVIOUS
  <2>1. i \in Nat /\ settled < i /\ i < settled + cap
    BY <1>0, <1>1, <1>2
  <2> QED BY <1>0, <2>1, ModDistinct
<1>6. applied' = [i \in 0..settled |-> IF i < settled THEN applied[i] ELSE f]
  BY DEF RecordApplied
<1>7. RingTypes'
  <2>1. slots' \in [0..(cap - 1) -> SlotValues]
    BY <1>0, <1>1 DEF SlotValues
  <2>2. applied' \in [0..settled -> Fill]
    BY <1>0, <1>6
  <2>3. settled' - 1 = settled
    BY <1>0, <1>1
  <2>4. settled' \in Nat /\ settled' <= produced' /\ produced' - settled' <= cap'
    BY <1>0, <1>1
  <2> QED BY <1>0, <1>1, <2>1, <2>2, <2>3, <2>4 DEF RingTypes
<1>8. PendingHeld'
  <2> SUFFICES ASSUME NEW i \in Pending'
               PROVE  slots'[i % cap] = Commit(pushed[i].fill, i)
    BY <1>1 DEF PendingHeld
  <2>0. i \in Pending /\ i \in Nat
    BY <1>0, <1>2
  <2>1. i \in Pending /\ i \in Nat /\ i % cap \in 0..(cap - 1)
    BY <1>0, <2>0, ModRange
  <2>2. slots'[i % cap] = slots[i % cap]
    BY <1>0, <1>1, <1>5, <2>1
  <2> QED BY <1>0, <2>1, <2>2 DEF PendingHeld
<1>9. OthersClear'
  <2> SUFFICES ASSUME NEW s \in 0..(cap - 1), \A i \in Pending' : i % cap # s
               PROVE  slots'[s] = NoCommit
    BY <1>1 DEF OthersClear
  <2>1. CASE s = settled % cap
    BY <1>0, <1>1, <2>1
  <2>2. CASE s # settled % cap
    <3>1. \A i \in Pending : i = settled \/ i \in Pending'
      BY <1>0, <1>2
    <3>2. \A i \in Pending : i % cap # s
      BY <2>2, <3>1
    <3> QED BY <1>0, <1>1, <2>2, <3>2 DEF OthersClear
  <2> QED BY <2>1, <2>2
<1>10. ExactlyOnceFifo'
  <2> SUFFICES ASSUME NEW i \in 0..settled PROVE applied'[i] = pushed[i].fill
    BY <1>0, <1>1 DEF ExactlyOnceFifo
  <2>1. CASE i < settled
    BY <1>0, <1>6, <2>1 DEF ExactlyOnceFifo
  <2>2. CASE i = settled
    BY <1>0, <1>3, <1>6, <2>2
  <2> QED BY <1>0, <2>1, <2>2
<1>11. SeqTracksRing'
  BY <1>0, <1>1 DEF SeqTracksRing
<1> QED BY <1>7, <1>8, <1>9, <1>10, <1>11 DEF RingInv

(* Growing a drained ring leaves nothing to remap.                         *)
LEMMA GrowKeeps ==
    ASSUME RingInv, NEW extra \in Nat, GrowFillCommitment(extra)
    PROVE  RingInv'
<1>0. /\ cap \in Nat \ {0} /\ produced \in Nat /\ settled \in Nat
      /\ produced = settled /\ ExactlyOnceFifo /\ SeqTracksRing
  BY DEF RingInv, RingTypes, GrowFillCommitment, Drained
<1>1. /\ cap' = cap + extra /\ slots' = EmptySlots(cap + extra)
      /\ produced' = produced /\ settled' = settled /\ lastSeq' = lastSeq
      /\ pushed' = pushed /\ applied' = applied
  BY DEF GrowFillCommitment, marketVars
<1>2. Pending' = {}
  BY <1>0, <1>1 DEF Pending
<1>3. RingTypes'
  <2>1. EmptySlots(cap + extra) \in [0..(cap + extra - 1) -> SlotValues]
    BY <1>0, EmptySlotsType, SMTT(30)
  <2>2. cap + extra \in Nat \ {0}
    BY <1>0
  <2> QED BY <1>0, <1>1, <2>1, <2>2 DEF RingInv, RingTypes
<1>4. PendingHeld' /\ OthersClear'
  BY <1>0, <1>1, <1>2 DEF PendingHeld, OthersClear, EmptySlots
<1>5. ExactlyOnceFifo' /\ SeqTracksRing'
  BY <1>0, <1>1 DEF ExactlyOnceFifo, SeqTracksRing
<1> QED BY <1>3, <1>4, <1>5 DEF RingInv

(* The other handlers leave the ring and its histories alone.              *)
LEMMA FrameKeeps ==
    ASSUME RingInv,
           UNCHANGED <<cap, slots, produced, settled, lastSeq, pushed, applied>>
    PROVE  RingInv'
BY DEF RingInv, RingTypes, PendingHeld, OthersClear, Pending, ExactlyOnceFifo,
       SeqTracksRing

(* Every step of the ring, whoever takes it, preserves the invariant.      *)
LEMMA RingInductive == ASSUME RingInv, [Next]_vars PROVE RingInv'
<1>1. CASE \E batch \in Batches, withOutbox \in BOOLEAN :
              PlaceTakerOrder(batch, withOutbox)
  <2>1. PICK batch \in Batches, withOutbox \in BOOLEAN :
              PlaceTakerOrder(batch, withOutbox)
    BY <1>1
  <2>2. PICK n \in 1..EffectiveBatchCap, t \in Traders : batch \in [1..n -> Entries(t)]
    BY <2>1 DEF Batches
  <2>3. n \in Nat /\ Len(batch) = n
    BY <2>2
  <2> QED BY <2>1, <2>2, <2>3, PushKeeps
<1>2. CASE \E f \in Fill, seq \in 0..(MaxProduced + 1) : ApplyFill(f, seq)
  BY <1>2, PopKeeps DEF ApplyFill
<1>3. CASE \E f \in Fill, seq \in 0..(MaxProduced + 1) : ApplyLpFill(f, seq)
  BY <1>3, PopKeeps DEF ApplyLpFill
<1>4. CASE \E extra \in 1..MaxCap : GrowFillCommitment(extra)
  BY <1>4, GrowKeeps
<1>5. CASE ReconcileUnsettledFillVolume
  BY <1>5, FrameKeeps DEF ReconcileUnsettledFillVolume, ringVars
<1>6. CASE InitFillOutbox
  BY <1>6, FrameKeeps DEF InitFillOutbox, ringVars
<1>7. CASE \E extra \in 1..MaxCap : GrowFillOutbox(extra)
  BY <1>7, FrameKeeps DEF GrowFillOutbox, ringVars, marketVars
<1>8. CASE UNCHANGED vars
  BY <1>8, FrameKeeps DEF vars, ringVars, marketVars
<1> QED BY <1>1, <1>2, <1>3, <1>4, <1>5, <1>6, <1>7, <1>8 DEF Next

(* The invariant says what PendingIntact says: the pending index of a slot *)
(* is unique, so the CHOOSE there is determined.                           *)
LEMMA RingInvIntact == ASSUME RingInv PROVE PendingIntact
<1>0. /\ cap \in Nat \ {0} /\ produced \in Nat /\ settled \in Nat
      /\ produced - settled <= cap /\ PendingHeld /\ OthersClear
  BY DEF RingInv, RingTypes
<1> SUFFICES ASSUME NEW s \in 0..(cap - 1), \E i \in Pending : i % cap = s
             PROVE  slots[s] = LET i == CHOOSE i \in Pending : i % cap = s
                               IN  Commit(pushed[i].fill, i)
  BY <1>0 DEF PendingIntact, OthersClear
<1> DEFINE j == CHOOSE i \in Pending : i % cap = s
<1>1. j \in Pending /\ j % cap = s
  OBVIOUS
<1> QED BY <1>0, <1>1 DEF PendingHeld

-----------------------------------------------------------------------------
(* Settlement applies exactly the fills the matcher crossed, once each and *)
(* in matching order, for every capacity and every history of batches,     *)
(* settlements and growth.  (ring_push, ring_settle, grow_fill_commitment) *)
THEOREM FillsSettleExactlyOnce == Spec => []ExactlyOnceFifo
<1>1. Init => RingInv
  BY InitRing, RingAssumption
<1>2. RingInv /\ [Next]_vars => RingInv'
  BY RingInductive
<1>3. RingInv => ExactlyOnceFifo
  BY DEF RingInv
<1> QED BY <1>1, <1>2, <1>3, PTL DEF Spec

(* No pending commitment is ever overwritten or moved.                     *)
THEOREM PendingNeverLost == Spec => []PendingIntact
<1>1. Init => RingInv
  BY InitRing, RingAssumption
<1>2. RingInv /\ [Next]_vars => RingInv'
  BY RingInductive
<1>3. RingInv => PendingIntact
  BY RingInvIntact
<1> QED BY <1>1, <1>2, <1>3, PTL DEF Spec

(* The settlement nonce is the ring's settled cursor.                      *)
THEOREM NonceIsCursor == Spec => []SeqTracksRing
<1>1. Init => RingInv
  BY InitRing, RingAssumption
<1>2. RingInv /\ [Next]_vars => RingInv'
  BY RingInductive
<1>3. RingInv => SeqTracksRing
  BY DEF RingInv
<1> QED BY <1>1, <1>2, <1>3, PTL DEF Spec

-----------------------------------------------------------------------------
(* What is kept beside the commitments.                                    *)

(* The reservations and flags, the volume counter, and what they need: a   *)
(* reduce-only maker is a trader, never the pool.                          *)
CountersInv ==
    /\ inflight \in [Traders -> Nat] /\ unsettled \in Nat /\ maxBatch \in Nat
    /\ flags \in [0..(cap - 1) -> BOOLEAN]
    /\ \A i \in Pending : pushed[i].ro => pushed[i].fill.maker \in Traders
    /\ InflightExact
    /\ UnsettledExact

(* The outbox.  Its mirrored cursors never meet again after the first fill *)
(* went through it, so it is only ever resized while it carries nothing;   *)
(* while it carries a pending fill it is at least as large as the ring.    *)
OutboxInv ==
    /\ outCap \in Nat /\ outProduced \in Nat /\ outSettled \in Nat
    /\ outbox \in [0..(outCap - 1) -> {NoCommit} \cup Fill]
    /\ outCap = 0 => outProduced = outSettled
    /\ outProduced = outSettled => \A i \in Pending : ~pushed[i].out
    /\ \A i \in Pending : pushed[i].out => outCap >= cap
    /\ OutboxDelivers

IsSized(e, n) == \A k \in 1..n : e[k].fill.size \in Nat

LEMMA VolumeNat ==
    ASSUME NEW n \in Nat, NEW e, Len(e) = n, IsSized(e, n), NEW p
    PROVE  Volume(e) \in Nat /\ ReduceVolume(e, p) \in Nat
<1> DEFINE f == [k \in 1..n |-> e[k].fill.size]
           g == [k \in 1..n |-> IF e[k].ro /\ e[k].fill.maker = p THEN e[k].fill.size ELSE 0]
<1>1. IsFiniteSet(1..n)
  BY FS_Interval
<1>2. \A k \in 1..n : f[k] \in Nat /\ g[k] \in Nat
  BY DEF IsSized
<1>3. Volume(e) = SumFunctionOnSet(f, 1..n) /\ ReduceVolume(e, p) = SumFunctionOnSet(g, 1..n)
  BY DEF Volume, ReduceVolume
<1> HIDE DEF f, g
<1>4. SumFunctionOnSet(f, 1..n) \in Nat
  BY <1>1, <1>2, SumNat
<1>5. SumFunctionOnSet(g, 1..n) \in Nat
  BY <1>1, <1>2, SumNat
<1> QED BY <1>3, <1>4, <1>5

(* The oldest entry leaves.                                                *)
LEMMA VolumeTail ==
    ASSUME NEW n \in Nat, NEW m, m = n + 1, NEW e, NEW d, Len(e) = m, Len(d) = n, IsSized(e, m),
           \A k \in 1..n : d[k] = e[k + 1], NEW p
    PROVE  /\ Volume(e) = e[1].fill.size + Volume(d)
           /\ ReduceVolume(e, p) =
                (IF e[1].ro /\ e[1].fill.maker = p THEN e[1].fill.size ELSE 0)
                  + ReduceVolume(d, p)
<1> DEFINE f == [k \in 1..(n + 1) |-> e[k].fill.size]
           g == [k \in 1..(n + 1) |-> IF e[k].ro /\ e[k].fill.maker = p THEN e[k].fill.size ELSE 0]
           fd == [k \in 1..n |-> d[k].fill.size]
           gd == [k \in 1..n |-> IF d[k].ro /\ d[k].fill.maker = p THEN d[k].fill.size ELSE 0]
<1>1. \A k \in 1..(n + 1) : f[k] \in Int /\ g[k] \in Int
  BY DEF IsSized
<1>2. \A k \in 1..n : k + 1 \in 1..(n + 1)
  OBVIOUS
<1>3. \A k \in 1..n : fd[k] = f[k + 1]
  BY <1>2
<1>4. \A k \in 1..n : gd[k] = g[k + 1]
  BY <1>2
<1>5. /\ f[1] = e[1].fill.size
      /\ g[1] = IF e[1].ro /\ e[1].fill.maker = p THEN e[1].fill.size ELSE 0
  OBVIOUS
<1>6. /\ Volume(e) = SumFunctionOnSet(f, 1..(n + 1)) /\ Volume(d) = SumFunctionOnSet(fd, 1..n)
      /\ ReduceVolume(e, p) = SumFunctionOnSet(g, 1..(n + 1))
      /\ ReduceVolume(d, p) = SumFunctionOnSet(gd, 1..n)
  BY DEF Volume, ReduceVolume
<1> HIDE DEF f, g, fd, gd
<1>7. SumFunctionOnSet(f, 1..(n + 1)) = f[1] + SumFunctionOnSet(fd, 1..n)
  BY <1>1, <1>3, SumShift
<1>8. SumFunctionOnSet(g, 1..(n + 1)) = g[1] + SumFunctionOnSet(gd, 1..n)
  BY <1>1, <1>4, SumShift
<1> QED BY <1>5, <1>6, <1>7, <1>8

(* d is e with the fills of b appended.                                    *)
Appends(d, e, b) ==
    LET n == Len(e)
        m == Len(b)
    IN  /\ n \in Nat /\ m \in Nat /\ Len(d) = n + m /\ IsSized(d, n + m)
        /\ \A k \in 1..n : d[k] = e[k]
        /\ \A k \in 1..m : d[n + k].fill = b[k].fill /\ d[n + k].ro = b[k].ro

LEMMA VolumeConcat ==
    ASSUME NEW e, NEW b, NEW d, Appends(d, e, b), NEW p
    PROVE  /\ Volume(d) = Volume(e) + Volume(b)
           /\ ReduceVolume(d, p) = ReduceVolume(e, p) + ReduceVolume(b, p)
<1> DEFINE n == Len(e)
           m == Len(b)
           t == n + m
<1>0. /\ n \in Nat /\ m \in Nat /\ Len(d) = t /\ IsSized(d, t)
      /\ \A k \in 1..n : d[k] = e[k]
      /\ \A k \in 1..m : d[n + k].fill = b[k].fill /\ d[n + k].ro = b[k].ro
  BY DEF Appends
<1> DEFINE fe == [k \in 1..n |-> e[k].fill.size]
           ge == [k \in 1..n |-> IF e[k].ro /\ e[k].fill.maker = p THEN e[k].fill.size ELSE 0]
           fb == [k \in 1..m |-> b[k].fill.size]
           gb == [k \in 1..m |-> IF b[k].ro /\ b[k].fill.maker = p THEN b[k].fill.size ELSE 0]
           fd == [k \in 1..t |-> d[k].fill.size]
           gd == [k \in 1..t |-> IF d[k].ro /\ d[k].fill.maker = p THEN d[k].fill.size ELSE 0]
<1>1. \A k \in 1..t : fd[k] \in Int /\ gd[k] \in Int
  BY <1>0 DEF IsSized
<1>2. (\A k \in 1..n : k \in 1..t) /\ \A k \in 1..m : n + k \in 1..t
  BY <1>0
<1>3. \A k \in 1..n : fd[k] = fe[k]
  BY <1>0, <1>2
<1>4. \A k \in 1..n : gd[k] = ge[k]
  BY <1>0, <1>2
<1>5. \A k \in 1..m : fb[k] = fd[n + k]
  BY <1>0, <1>2
<1>6. \A k \in 1..m : gb[k] = gd[n + k]
  <2> TAKE k \in 1..m
  <2>1. n + k \in 1..t /\ d[n + k].fill = b[k].fill /\ d[n + k].ro = b[k].ro
    BY <1>0, <1>2
  <2> QED BY <2>1
<1>7. /\ Volume(e) = SumFunctionOnSet(fe, 1..n) /\ Volume(b) = SumFunctionOnSet(fb, 1..m)
      /\ Volume(d) = SumFunctionOnSet(fd, 1..t)
      /\ ReduceVolume(e, p) = SumFunctionOnSet(ge, 1..n)
      /\ ReduceVolume(b, p) = SumFunctionOnSet(gb, 1..m)
      /\ ReduceVolume(d, p) = SumFunctionOnSet(gd, 1..t)
  BY <1>0 DEF Volume, ReduceVolume
<1>8. n \in Nat /\ m \in Nat /\ t = n + m
  BY <1>0
<1> HIDE DEF n, m, t, fe, ge, fb, gb, fd, gd
<1>9. IsFiniteSet(1..n)
  BY <1>8, FS_Interval
<1>10. SumFunctionOnSet(fd, 1..n) = SumFunctionOnSet(fe, 1..n)
  BY <1>3, <1>9, SumCongruent
<1>11. SumFunctionOnSet(gd, 1..n) = SumFunctionOnSet(ge, 1..n)
  BY <1>4, <1>9, SumCongruent
<1>12. SumFunctionOnSet(fd, 1..t) = SumFunctionOnSet(fd, 1..n) + SumFunctionOnSet(fb, 1..m)
  <2>1. \A k \in 1..t : fd[k] \in Int
    BY <1>1
  <2>2. Continues(fd, n, fb, m, t)
    BY <1>5, <1>8, <2>1 DEF Continues
  <2> QED BY <2>2, SumConcat
<1>13. SumFunctionOnSet(gd, 1..t) = SumFunctionOnSet(gd, 1..n) + SumFunctionOnSet(gb, 1..m)
  <2>1. \A k \in 1..t : gd[k] \in Int
    BY <1>1
  <2>2. Continues(gd, n, gb, m, t)
    BY <1>6, <1>8, <2>1 DEF Continues
  <2> QED BY <2>2, SumConcat
<1> QED BY <1>7, <1>10, <1>11, <1>12, <1>13

Crossed == [fill : Fill, ro : BOOLEAN, out : BOOLEAN]

LEMMA EntryFacts ==
    ASSUME NEW n \in Nat, NEW e \in [1..n -> Crossed]
    PROVE  Len(e) = n /\ IsSized(e, n)
<1>1. Len(e) = n
  BY FunctionSeq
<1>2. \A c \in Crossed : c.fill.size \in Nat
  BY RingAssumption DEF Crossed, Fill
<1> QED BY <1>1, <1>2 DEF IsSized

LEMMA RingFacts ==
    ASSUME RingInv
    PROVE  /\ cap \in Nat \ {0} /\ produced \in Nat /\ settled \in Nat
           /\ settled <= produced /\ produced - settled <= cap
           /\ pushed \in [0..(produced - 1) -> Crossed]
           /\ Pending = settled..(produced - 1) /\ Depth = produced - settled
           /\ \A i \in Pending : i \in Nat /\ i % cap \in 0..(cap - 1)
           /\ PendingHeld /\ OthersClear
<1>1. /\ cap \in Nat \ {0} /\ produced \in Nat /\ settled \in Nat
      /\ settled <= produced /\ produced - settled <= cap
      /\ pushed \in [0..(produced - 1) -> Crossed]
      /\ Pending = settled..(produced - 1) /\ Depth = produced - settled
      /\ PendingHeld /\ OthersClear
  BY DEF RingInv, RingTypes, Pending, Depth, Crossed
<1>2. \A i \in Pending : i \in Nat
  BY <1>1
<1> QED BY <1>1, <1>2, ModRange

LEMMA CountersInit == ASSUME Init, RingInv PROVE CountersInv
<1>0. produced = 0 /\ settled = 0 /\ cap \in Nat \ {0} /\ Pending = {} /\ Depth = 0
  <2>1. produced = 0 /\ settled = 0 /\ cap \in Nat \ {0}
    BY RingFacts DEF Init
  <2> QED BY <2>1 DEF Pending, Depth
<1>1. /\ inflight \in [Traders -> Nat] /\ unsettled \in Nat /\ maxBatch \in Nat
      /\ flags \in [0..(cap - 1) -> BOOLEAN]
  BY DEF Init, EmptyFlags
<1> DEFINE e == PendingEntries
<1>2. e = <<>> /\ Len(e) = 0
  <2>1. e \in [1..0 -> Crossed]
    BY <1>0 DEF PendingEntries
  <2> QED BY <2>1, FunctionSeq, EmptySeq
<1> HIDE DEF e
<1>3. 1..Len(e) = {}
  BY <1>2
<1>4. Volume(e) = 0 /\ \A p \in Traders : ReduceVolume(e, p) = 0
  BY <1>3, SumEmpty DEF Volume, ReduceVolume
<1>5. UnsettledExact /\ InflightExact
  BY <1>0, <1>4 DEF UnsettledExact, InflightExact, Init, EmptyFlags, e
<1> QED BY <1>0, <1>1, <1>5 DEF CountersInv

(* Settling the oldest fill releases exactly what matching reserved for it.*)
LEMMA CountersPop ==
    ASSUME RingInv, RingInv', CountersInv, NEW f \in Fill, VerifyAndPop(f),
           \/ ReleaseInflight(f) /\ f.maker \in Traders
           \/ UNCHANGED <<flags, inflight>> /\ f.maker = LpPool,
           ReleaseVolume(f.size), UNCHANGED <<cap, produced, pushed, maxBatch>>
    PROVE  CountersInv'
<1>0. /\ cap \in Nat \ {0} /\ produced \in Nat /\ settled \in Nat
      /\ settled <= produced /\ produced - settled <= cap
      /\ pushed \in [0..(produced - 1) -> Crossed]
      /\ Pending = settled..(produced - 1) /\ Depth = produced - settled
      /\ \A i \in Pending : i \in Nat /\ i % cap \in 0..(cap - 1)
      /\ PendingHeld /\ OthersClear
  BY RingFacts
<1>1. /\ settled < produced /\ settled' = settled + 1 /\ produced' = produced /\ cap' = cap
      /\ pushed' = pushed /\ maxBatch' = maxBatch
      /\ slots[settled % cap] = Commit(f, settled)
  BY <1>0 DEF VerifyAndPop, Depth
<1>2. /\ Pending' = (settled + 1)..(produced - 1) /\ settled \in Pending
      /\ Depth' = produced - (settled + 1) /\ \A i \in Pending : i = settled \/ i \in Pending'
  BY <1>0, <1>1 DEF Pending, Depth
<1>3. pushed[settled].fill = f /\ settled % cap \in 0..(cap - 1)
  <2>1. slots[settled % cap] = Commit(pushed[settled].fill, settled)
    BY <1>0, <1>2 DEF PendingHeld
  <2>2. settled % cap \in 0..(cap - 1)
    BY <1>0, <1>2
  <2>3. <<f, settled>> = <<pushed[settled].fill, settled>>
    BY <1>1, <2>1 DEF Commit
  <2> QED BY <2>2, <2>3
<1> DEFINE s0 == settled % cap
           ro == pushed[settled].ro
<1>4. \A i \in Pending' : i \in Pending /\ i % cap # s0
  <2> SUFFICES ASSUME NEW i \in Pending' PROVE i \in Pending /\ i % cap # s0
    OBVIOUS
  <2>1. i \in Nat /\ settled < i /\ i < settled + cap /\ i \in Pending
    BY <1>0, <1>1, <1>2
  <2> QED BY <1>0, <2>1, ModDistinct
<1>5. ro \in BOOLEAN /\ (ro => f.maker \in Traders) /\ (flags[s0] <=> ro)
  <2>1. ro \in BOOLEAN
    <3>1. settled \in 0..(produced - 1)
      BY <1>0, <1>1
    <3> QED BY <1>0, <3>1 DEF Crossed
  <2>2. ro => f.maker \in Traders
    BY <1>2, <1>3 DEF CountersInv
  <2>3. flags[s0] <=> \E i \in Pending : i % cap = s0 /\ pushed[i].ro
    BY <1>3 DEF CountersInv, InflightExact
  <2>4. \A i \in Pending : i % cap = s0 => i = settled
    BY <1>2, <1>4
  <2> QED BY <1>2, <2>1, <2>2, <2>3, <2>4
<1>6. inflight \in [Traders -> Nat] /\ unsettled \in Nat /\ maxBatch \in Nat
      /\ flags \in [0..(cap - 1) -> BOOLEAN]
  BY DEF CountersInv
<1>7. /\ flags' \in [0..(cap - 1) -> BOOLEAN] /\ inflight' \in [Traders -> Nat]
      /\ \A s \in 0..(cap - 1) : flags'[s] <=> s # s0 /\ flags[s]
      /\ \A p \in Traders :
           inflight'[p] = IF ro /\ f.maker = p
                          THEN IF inflight[p] > f.size THEN inflight[p] - f.size ELSE 0
                          ELSE inflight[p]
  <2>0. f.size \in Nat
    BY RingAssumption DEF Fill
  <2>1. CASE ro
    <3>1. ReleaseInflight(f) /\ f.maker \in Traders
      BY <1>5, <2>1, RingAssumption
    <3>2. /\ flags' = [flags EXCEPT ![s0] = FALSE]
          /\ inflight' = [inflight EXCEPT ![f.maker] =
                             IF inflight[f.maker] > f.size THEN inflight[f.maker] - f.size ELSE 0]
      BY <1>5, <2>1, <3>1 DEF ReleaseInflight
    <3>3. /\ flags' \in [0..(cap - 1) -> BOOLEAN]
          /\ \A s \in 0..(cap - 1) : flags'[s] <=> s # s0 /\ flags[s]
      BY <1>6, <3>2
    <3>4. /\ inflight' \in [Traders -> Nat]
          /\ \A p \in Traders :
               inflight'[p] = IF f.maker = p
                              THEN IF inflight[p] > f.size THEN inflight[p] - f.size ELSE 0
                              ELSE inflight[p]
      <4> DEFINE v == IF inflight[f.maker] > f.size THEN inflight[f.maker] - f.size ELSE 0
      <4>1. v \in Nat /\ inflight' = [inflight EXCEPT ![f.maker] = v]
        BY <1>6, <2>0, <3>1, <3>2
      <4> HIDE DEF v
      <4>2. /\ inflight' \in [Traders -> Nat]
            /\ \A p \in Traders : inflight'[p] = IF f.maker = p THEN v ELSE inflight[p]
        BY <1>6, <3>1, <4>1
      <4> QED BY <4>2 DEF v
    <3> QED BY <2>1, <3>3, <3>4
  <2>2. CASE ~ro
    <3>1. flags' = flags /\ inflight' = inflight
      BY <1>5, <2>2 DEF ReleaseInflight
    <3> QED BY <1>5, <1>6, <2>2, <3>1
  <2> QED BY <2>1, <2>2, <1>5
<1> DEFINE e == PendingEntries
           d == PendingEntries'
           n == produced - (settled + 1)
<1>8. n \in Nat /\ n + 1 = Depth /\ n = Depth' /\ Depth \in Nat
  BY <1>0, <1>1, <1>2
<1> DEFINE m == n + 1
<1>9. /\ Len(e) = m /\ IsSized(e, m) /\ m = n + 1
      /\ \A k \in 1..m : e[k] = pushed[settled + k - 1]
  <2>1. m \in Nat /\ m = produced - settled
    BY <1>0, <1>8
  <2>2. /\ e \in [1..m -> Crossed]
        /\ \A k \in 1..m : e[k] = pushed[settled + k - 1]
    BY <1>0, <1>8, <2>1 DEF PendingEntries
  <2> HIDE DEF e, m
  <2>3. Len(e) = m /\ IsSized(e, m)
    BY <2>1, <2>2, EntryFacts
  <2> QED BY <2>2, <2>3 DEF m
<1>10. /\ Len(d) = n /\ IsSized(d, n)
       /\ \A k \in 1..n : d[k] = pushed[(settled + 1) + k - 1]
  <2>1. /\ d \in [1..n -> Crossed]
        /\ \A k \in 1..n : d[k] = pushed[(settled + 1) + k - 1]
    BY <1>0, <1>1, <1>8 DEF PendingEntries
  <2> HIDE DEF e, n, d
  <2>2. Len(d) = n /\ IsSized(d, n)
    BY <1>8, <2>1, EntryFacts
  <2> QED BY <2>1, <2>2
<1>11. \A k \in 1..n : d[k] = e[k + 1]
  <2> TAKE k \in 1..n
  <2>1. k + 1 \in 1..m /\ settled + (k + 1) - 1 = (settled + 1) + k - 1
    BY <1>0, <1>8
  <2> HIDE DEF e, n, d, m
  <2> QED BY <1>9, <1>10, <2>1
<1>12. e[1].fill = f /\ e[1].ro = ro
  <2>1. 1 \in 1..m /\ settled + 1 - 1 = settled
    BY <1>0, <1>8
  <2> HIDE DEF e, n, d, m
  <2> QED BY <1>3, <1>9, <2>1
<1> HIDE DEF e, d, n, m
<1>13. \A p : /\ Volume(e) = f.size + Volume(d)
              /\ ReduceVolume(e, p) = (IF ro /\ f.maker = p THEN f.size ELSE 0) + ReduceVolume(d, p)
              /\ Volume(d) \in Nat /\ ReduceVolume(d, p) \in Nat
  <2> TAKE p
  <2>1. /\ Volume(e) = e[1].fill.size + Volume(d)
        /\ ReduceVolume(e, p) =
             (IF e[1].ro /\ e[1].fill.maker = p THEN e[1].fill.size ELSE 0) + ReduceVolume(d, p)
    <3>1. n \in Nat /\ m = n + 1 /\ Len(e) = m /\ Len(d) = n /\ IsSized(e, m)
      BY <1>8, <1>9, <1>10
    <3> QED BY <1>11, <3>1, VolumeTail, SMTT(30)
  <2>2. Volume(d) \in Nat /\ ReduceVolume(d, p) \in Nat
    BY <1>8, <1>10, VolumeNat
  <2> QED BY <1>12, <2>1, <2>2
<1>14. f.size \in Nat
  BY RingAssumption DEF Fill
<1>15. UnsettledExact' /\ unsettled' \in Nat
  <2>1. unsettled = Volume(e)
    BY DEF CountersInv, UnsettledExact, e
  <2>2. unsettled' = IF unsettled > f.size THEN unsettled - f.size ELSE 0
    BY DEF ReleaseVolume
  <2>3. unsettled' = Volume(d)
    BY <1>6, <1>13, <1>14, <2>1, <2>2
  <2> QED BY <1>13, <2>3 DEF UnsettledExact, d
<1>16. InflightExact'
  <2>1. ASSUME NEW p \in Traders PROVE inflight'[p] = ReduceVolume(d, p)
    <3>1. inflight[p] = ReduceVolume(e, p) /\ inflight[p] \in Nat
      BY <1>6 DEF CountersInv, InflightExact, e
    <3>2. /\ ReduceVolume(e, p) = (IF ro /\ f.maker = p THEN f.size ELSE 0) + ReduceVolume(d, p)
          /\ ReduceVolume(d, p) \in Nat
      BY <1>13
    <3>3. CASE ro /\ f.maker = p
      BY <1>7, <1>14, <3>1, <3>2, <3>3
    <3>4. CASE ~(ro /\ f.maker = p)
      BY <1>7, <3>1, <3>2, <3>4
    <3> QED BY <3>3, <3>4
  <2>2. ASSUME NEW s \in 0..(cap - 1)
        PROVE  flags'[s] <=> \E i \in Pending' : i % cap = s /\ pushed[i].ro
    <3>1. flags[s] <=> \E i \in Pending : i % cap = s /\ pushed[i].ro
      BY DEF CountersInv, InflightExact
    <3>2. flags'[s] <=> s # s0 /\ flags[s]
      BY <1>7
    <3> QED BY <1>2, <1>4, <3>1, <3>2
  <2> QED BY <1>1, <2>1, <2>2 DEF InflightExact, d
<1>17. \A i \in Pending' : pushed'[i].ro => pushed'[i].fill.maker \in Traders
  BY <1>1, <1>4 DEF CountersInv
<1> QED BY <1>1, <1>6, <1>7, <1>15, <1>16, <1>17 DEF CountersInv

(* What the produce block appends to the history.                          *)
LEMMA PushedFacts ==
    ASSUME RingInv, NEW t \in Traders, NEW n \in Nat, NEW batch \in [1..n -> Entries(t)],
           NEW withOutbox, Len(batch) = n, PlaceTakerOrder(batch, withOutbox)
    PROVE  /\ n > 0 /\ produced' = produced + n /\ settled' = settled /\ cap' = cap
           /\ produced + n - settled <= cap
           /\ Pending' = settled..(produced + n - 1)
           /\ \A i \in 0..(produced - 1) : pushed'[i] = pushed[i]
           /\ \A k \in 1..n : /\ pushed'[produced + k - 1].fill = batch[k].fill
                              /\ pushed'[produced + k - 1].ro = batch[k].ro
                              /\ pushed'[produced + k - 1].out = withOutbox
<1>0. produced \in Nat /\ settled \in Nat /\ Depth = produced - settled
  BY RingFacts
<1>1. /\ n > 0 /\ produced' = produced + n /\ settled' = settled /\ cap' = cap
      /\ produced + n - settled <= cap
  BY <1>0, RingFacts DEF PlaceTakerOrder, RingRoom
<1>2. pushed' = [i \in 0..(produced + n - 1) |->
                    IF i < produced THEN pushed[i]
                    ELSE [fill |-> batch[i - produced + 1].fill,
                          ro   |-> batch[i - produced + 1].ro,
                          out  |-> withOutbox]]
  BY DEF PlaceTakerOrder
<1>3. \A i \in 0..(produced - 1) : pushed'[i] = pushed[i]
  BY <1>0, <1>1, <1>2
<1>4. ASSUME NEW k \in 1..n
      PROVE  /\ pushed'[produced + k - 1].fill = batch[k].fill
             /\ pushed'[produced + k - 1].ro = batch[k].ro
             /\ pushed'[produced + k - 1].out = withOutbox
  <2> DEFINE i == produced + k - 1
  <2>1. i \in 0..(produced + n - 1) /\ ~(i < produced) /\ i - produced + 1 = k
    BY <1>0, <1>1
  <2> HIDE DEF i
  <2>2. pushed'[i] = [fill |-> batch[k].fill, ro |-> batch[k].ro, out |-> withOutbox]
    BY <1>2, <2>1
  <2> QED BY <2>2 DEF i
<1> QED BY <1>0, <1>1, <1>3, <1>4 DEF Pending

LEMMA CountersPush ==
    ASSUME RingInv, RingInv', CountersInv,
           NEW t \in Traders, NEW n \in Nat, NEW batch \in [1..n -> Entries(t)],
           NEW withOutbox \in BOOLEAN, Len(batch) = n, PlaceTakerOrder(batch, withOutbox)
    PROVE  CountersInv'
<1>0. /\ cap \in Nat \ {0} /\ produced \in Nat /\ settled \in Nat
      /\ settled <= produced /\ produced - settled <= cap
      /\ pushed \in [0..(produced - 1) -> Crossed]
      /\ Pending = settled..(produced - 1) /\ Depth = produced - settled
      /\ \A i \in Pending : i \in Nat /\ i % cap \in 0..(cap - 1)
  BY RingFacts
<1>1. /\ n > 0 /\ produced' = produced + n /\ settled' = settled /\ cap' = cap
      /\ produced + n - settled <= cap /\ Pending' = settled..(produced + n - 1)
      /\ \A i \in 0..(produced - 1) : pushed'[i] = pushed[i]
      /\ \A k \in 1..n : /\ pushed'[produced + k - 1].fill = batch[k].fill
                         /\ pushed'[produced + k - 1].ro = batch[k].ro
  BY PushedFacts
<1>2. /\ flags' = WriteFlags(batch) /\ inflight' = InflightAfter(batch)
      /\ unsettled' = unsettled + Volume(batch) /\ maxBatch' = maxBatch
  BY DEF PlaceTakerOrder
<1>3. /\ inflight \in [Traders -> Nat] /\ unsettled \in Nat /\ maxBatch \in Nat
      /\ flags \in [0..(cap - 1) -> BOOLEAN]
  BY DEF CountersInv
<1>4. \A k \in 1..n : /\ batch[k].fill \in Fill /\ batch[k].ro \in BOOLEAN
                      /\ batch[k].ro => batch[k].fill.maker \in Traders
  BY DEF Entries
<1>5. IsSized(batch, n)
  BY <1>4, RingAssumption DEF IsSized, Fill
<1>6. \A i \in Pending' : i \in Pending \/ \E k \in 1..n : i = produced + k - 1
  <2> SUFFICES ASSUME NEW i \in Pending', i \notin Pending PROVE \E k \in 1..n : i = produced + k - 1
    OBVIOUS
  <2> DEFINE j == i - produced + 1
  <2>1. j \in 1..n /\ i = produced + j - 1
    BY <1>0, <1>1
  <2> HIDE DEF j
  <2> QED BY <2>1
<1>7. Pending \subseteq Pending' /\ \A k \in 1..n : produced + k - 1 \in Pending'
  BY <1>0, <1>1, SMTT(30)
<1>8. \A i \in Pending : i \in 0..(produced - 1) /\ pushed'[i] = pushed[i]
  BY <1>0, <1>1
<1> DEFINE e == PendingEntries
           d == PendingEntries'
           m == produced - settled
           w == m + n
<1>9. m \in Nat /\ Depth = m /\ Depth' = w /\ w \in Nat /\ w = m + n
  BY <1>0, <1>1 DEF Depth
<1>10. /\ e \in [1..m -> Crossed] /\ \A k \in 1..m : e[k] = pushed[settled + k - 1]
  BY <1>0, <1>9 DEF PendingEntries
<1>11. pushed' \in [0..(produced + n - 1) -> Crossed]
  <2>1. pushed' \in [0..(produced' - 1) -> Crossed]
    BY DEF RingInv, RingTypes, Crossed
  <2>2. produced' - 1 = produced + n - 1
    BY <1>0, <1>1
  <2> QED BY <2>1, <2>2
<1>12. d \in [1..w -> Crossed] /\ \A k \in 1..w : d[k] = pushed'[settled + k - 1]
  <2>1. d = [k \in 1..w |-> pushed'[settled + k - 1]]
    BY <1>1, <1>9 DEF PendingEntries
  <2>2. \A k \in 1..w : settled + k - 1 \in 0..(produced + n - 1)
    BY <1>0, <1>9
  <2> HIDE DEF d, m, w
  <2> DEFINE g == pushed'
  <2>3. \A k \in 1..w : g[settled + k - 1] \in Crossed
    BY <1>11, <2>2
  <2>4. d = [k \in 1..w |-> g[settled + k - 1]]
    BY <2>1
  <2> HIDE DEF g
  <2>5. d \in [1..w -> Crossed] /\ \A k \in 1..w : d[k] = g[settled + k - 1]
    BY <2>3, <2>4
  <2> QED BY <2>5 DEF g
<1>13. \A k \in 1..m : d[k] = e[k]
  <2> TAKE k \in 1..m
  <2>1. k \in 1..w /\ settled + k - 1 \in 0..(produced - 1)
    BY <1>0, <1>9
  <2> HIDE DEF e, d, m, w
  <2> QED BY <1>1, <1>10, <1>12, <2>1
<1>14. \A k \in 1..n : d[m + k].fill = batch[k].fill /\ d[m + k].ro = batch[k].ro
  <2> TAKE k \in 1..n
  <2>1. m + k \in 1..w /\ settled + (m + k) - 1 = produced + k - 1
    BY <1>0, <1>9
  <2> HIDE DEF e, d, m, w
  <2> QED BY <1>1, <1>12, <2>1
<1> HIDE DEF e, d, m, w
<1>15. Len(e) = m /\ Len(d) = w /\ IsSized(d, w) /\ IsSized(e, m)
  BY <1>9, <1>10, <1>12, EntryFacts
<1>16. \A p : /\ Volume(d) = Volume(e) + Volume(batch)
              /\ ReduceVolume(d, p) = ReduceVolume(e, p) + ReduceVolume(batch, p)
              /\ Volume(batch) \in Nat /\ ReduceVolume(batch, p) \in Nat
  <2> TAKE p
  <2>1. /\ Volume(d) = Volume(e) + Volume(batch)
        /\ ReduceVolume(d, p) = ReduceVolume(e, p) + ReduceVolume(batch, p)
    <3>1. Appends(d, e, batch)
      BY <1>9, <1>13, <1>14, <1>15 DEF Appends
    <3> QED BY <3>1, VolumeConcat
  <2>2. Volume(batch) \in Nat /\ ReduceVolume(batch, p) \in Nat
    BY <1>5, VolumeNat
  <2> QED BY <2>1, <2>2
<1>17. UnsettledExact' /\ unsettled' \in Nat
  <2>1. unsettled = Volume(e)
    BY DEF CountersInv, UnsettledExact, e
  <2>2. unsettled' = unsettled + Volume(batch)
    BY <1>2
  <2>3. unsettled' = Volume(d) /\ Volume(batch) \in Nat /\ unsettled \in Nat
    BY <1>3, <1>16, <2>1, <2>2
  <2>4. unsettled' \in Nat
    BY <2>2, <2>3
  <2> QED BY <2>3, <2>4 DEF UnsettledExact, d
<1>18. /\ inflight' \in [Traders -> Nat]
       /\ \A p \in Traders : inflight'[p] = ReduceVolume(d, p)
  <2>1. \A p \in Traders : inflight[p] = ReduceVolume(e, p)
    BY DEF CountersInv, InflightExact, e
  <2>2. inflight' = [p \in Traders |-> inflight[p] + ReduceVolume(batch, p)]
    BY <1>2 DEF InflightAfter
  <2> QED BY <1>3, <1>16, <2>1, <2>2
<1>19. /\ flags' \in [0..(cap - 1) -> BOOLEAN]
       /\ \A s \in 0..(cap - 1) :
            flags'[s] <=> \E i \in Pending' : i % cap = s /\ pushed'[i].ro
  <2>1. flags' = [s \in 0..(cap - 1) |-> flags[s] \/ \E k \in IndexIn(batch, s, cap) : batch[k].ro]
    BY <1>2 DEF WriteFlags
  <2>2. \A s : \A k : k \in IndexIn(batch, s, cap) <=> k \in 1..n /\ (produced + k - 1) % cap = s
    BY DEF IndexIn
  <2>3. ASSUME NEW s \in 0..(cap - 1)
        PROVE  flags'[s] <=> \E i \in Pending' : i % cap = s /\ pushed'[i].ro
    <3>1. flags[s] <=> \E i \in Pending : i % cap = s /\ pushed[i].ro
      BY DEF CountersInv, InflightExact
    <3>2. flags'[s] <=> flags[s] \/ \E k \in IndexIn(batch, s, cap) : batch[k].ro
      BY <2>1
    <3>3. ASSUME flags'[s] PROVE \E i \in Pending' : i % cap = s /\ pushed'[i].ro
      <4>1. CASE flags[s]
        BY <1>7, <1>8, <3>1, <4>1
      <4>2. CASE \E k \in IndexIn(batch, s, cap) : batch[k].ro
        <5>1. PICK k \in 1..n : (produced + k - 1) % cap = s /\ batch[k].ro
          BY <2>2, <4>2
        <5>2. produced + k - 1 \in Pending' /\ pushed'[produced + k - 1].ro
          BY <1>1, <1>7, <5>1
        <5> QED BY <5>1, <5>2
      <4> QED BY <3>2, <3>3, <4>1, <4>2
    <3>4. ASSUME NEW i \in Pending', i % cap = s, pushed'[i].ro PROVE flags'[s]
      <4>1. CASE i \in Pending
        BY <1>8, <3>1, <3>2, <3>4, <4>1
      <4>2. CASE \E k \in 1..n : i = produced + k - 1
        <5>1. PICK k \in 1..n : i = produced + k - 1
          BY <4>2
        <5>2. k \in IndexIn(batch, s, cap) /\ batch[k].ro
          BY <1>1, <2>2, <3>4, <5>1
        <5> QED BY <3>2, <5>2
      <4> QED BY <1>6, <4>1, <4>2
    <3> QED BY <3>3, <3>4
  <2>4. flags' \in [0..(cap - 1) -> BOOLEAN]
    <3>1. \A s \in 0..(cap - 1) : (flags[s] \/ \E k \in IndexIn(batch, s, cap) : batch[k].ro) \in BOOLEAN
      OBVIOUS
    <3> QED BY <2>1, <3>1, Zenon
  <2> QED BY <2>3, <2>4
<1>20. \A i \in Pending' : pushed'[i].ro => pushed'[i].fill.maker \in Traders
  <2> SUFFICES ASSUME NEW i \in Pending', pushed'[i].ro PROVE pushed'[i].fill.maker \in Traders
    OBVIOUS
  <2>1. CASE i \in Pending
    BY <1>8, <2>1 DEF CountersInv
  <2>2. CASE \E k \in 1..n : i = produced + k - 1
    <3>1. PICK k \in 1..n : i = produced + k - 1
      BY <2>2
    <3>2. pushed'[i].fill = batch[k].fill /\ batch[k].ro
      BY <1>1, <3>1
    <3> QED BY <1>4, <3>2
  <2> QED BY <1>6, <2>1, <2>2
<1>21. InflightExact'
  BY <1>1, <1>18, <1>19 DEF InflightExact, d
<1> QED BY <1>1, <1>2, <1>3, <1>17, <1>18, <1>19, <1>20, <1>21 DEF CountersInv

LEMMA NothingPending ==
    ASSUME NEW e \in [1..0 -> Crossed], NEW p
    PROVE  Volume(e) = 0 /\ ReduceVolume(e, p) = 0
<1>1. Len(e) = 0
  BY FunctionSeq
<1>2. 1..Len(e) = {}
  BY <1>1
<1> QED BY <1>2, SumEmpty DEF Volume, ReduceVolume

LEMMA CountersGrow ==
    ASSUME RingInv, RingInv', CountersInv, NEW extra \in Nat, GrowFillCommitment(extra)
    PROVE  CountersInv'
<1>0. cap \in Nat \ {0} /\ produced \in Nat /\ settled = produced /\ Depth = 0
  BY RingFacts DEF GrowFillCommitment, Drained
<1>1. /\ cap' = cap + extra /\ flags' = EmptyFlags(cap + extra)
      /\ inflight' = [p \in Traders |-> 0]
      /\ produced' = produced /\ settled' = settled /\ pushed' = pushed
      /\ unsettled' = unsettled /\ maxBatch' = maxBatch
  BY DEF GrowFillCommitment, marketVars
<1>2. Pending' = {} /\ Depth' = 0
  BY <1>0, <1>1 DEF Pending, Depth
<1> DEFINE e == PendingEntries
           d == PendingEntries'
<1>3. d = e /\ e \in [1..0 -> Crossed]
  BY <1>0, <1>1, <1>2 DEF PendingEntries
<1> HIDE DEF e, d
<1>4. UnsettledExact'
  <2>1. unsettled = Volume(e)
    BY DEF CountersInv, UnsettledExact, e
  <2> QED BY <1>1, <1>3, <2>1 DEF UnsettledExact, d
<1>5. InflightExact'
  <2>1. \A p \in Traders : inflight'[p] = ReduceVolume(d, p)
    BY <1>1, <1>3, NothingPending
  <2>2. \A s \in 0..((cap + extra) - 1) : flags'[s] = FALSE
    BY <1>1 DEF EmptyFlags
  <2> QED BY <1>1, <1>2, <2>1, <2>2 DEF InflightExact, d
<1>6. flags' \in [0..(cap' - 1) -> BOOLEAN]
  BY <1>1 DEF EmptyFlags
<1> QED BY <1>1, <1>2, <1>4, <1>5, <1>6 DEF CountersInv

LEMMA CountersReconcile ==
    ASSUME RingInv, CountersInv, ReconcileUnsettledFillVolume
    PROVE  unsettled' = unsettled
<1>1. Depth = 0
  BY RingFacts DEF ReconcileUnsettledFillVolume, Drained
<1> DEFINE e == PendingEntries
<1>2. e \in [1..0 -> Crossed] /\ unsettled = Volume(e)
  BY <1>1 DEF PendingEntries, CountersInv, UnsettledExact
<1> HIDE DEF e
<1>3. unsettled = 0
  BY <1>2, NothingPending
<1> QED BY <1>3 DEF ReconcileUnsettledFillVolume

LEMMA CountersFrame ==
    ASSUME RingInv, CountersInv, maxBatch' \in Nat,
           UNCHANGED <<cap, flags, inflight, produced, settled, unsettled, pushed>>
    PROVE  CountersInv'
BY DEF CountersInv, InflightExact, UnsettledExact, Pending, PendingEntries, Depth

-----------------------------------------------------------------------------
(* The outbox.                                                             *)

LEMMA OutboxInit == ASSUME Init, RingInv PROVE OutboxInv
<1>1. Pending = {}
  BY DEF Init, Pending
<1>2. outbox \in [0..(0 - 1) -> {NoCommit} \cup Fill]
  <2>1. outbox = <<>> /\ DOMAIN <<>> = {}
    BY EmptySeq DEF Init
  <2>2. 0..(0 - 1) = {}
    OBVIOUS
  <2>3. <<>> \in Seq({NoCommit} \cup Fill)
    BY EmptySeq
  <2>4. <<>> \in [1..Len(<<>>) -> {NoCommit} \cup Fill] /\ Len(<<>>) = 0
    BY <2>3, LenProperties, EmptySeq
  <2>5. <<>> \in [1..0 -> {NoCommit} \cup Fill] /\ 1..0 = 0..(0 - 1)
    BY <2>4
  <2> QED BY <2>1, <2>5
<1> QED BY <1>1, <1>2 DEF Init, OutboxInv, OutboxDelivers

LEMMA OutboxPush ==
    ASSUME RingInv, RingInv', OutboxInv,
           NEW t \in Traders, NEW n \in Nat, NEW batch \in [1..n -> Entries(t)],
           NEW withOutbox, Len(batch) = n, PlaceTakerOrder(batch, withOutbox)
    PROVE  OutboxInv'
<1>0. /\ cap \in Nat \ {0} /\ produced \in Nat /\ settled \in Nat
      /\ settled <= produced /\ produced - settled <= cap
      /\ Pending = settled..(produced - 1)
  BY RingFacts
<1>1. /\ n > 0 /\ produced' = produced + n /\ settled' = settled /\ cap' = cap
      /\ produced + n - settled <= cap /\ Pending' = settled..(produced + n - 1)
      /\ \A i \in 0..(produced - 1) : pushed'[i] = pushed[i]
      /\ \A k \in 1..n : pushed'[produced + k - 1].fill = batch[k].fill
  BY PushedFacts
<1>1a. \A k \in 1..n : pushed'[produced + k - 1].out = withOutbox
  BY PushedFacts
<1>2. outCap' = outCap
  BY DEF PlaceTakerOrder
<1>3. /\ outCap \in Nat /\ outProduced \in Nat /\ outSettled \in Nat
      /\ outbox \in [0..(outCap - 1) -> {NoCommit} \cup Fill]
      /\ outCap = 0 => outProduced = outSettled
      /\ outProduced = outSettled => \A i \in Pending : ~pushed[i].out
      /\ \A i \in Pending : pushed[i].out => outCap >= cap
      /\ \A i \in Pending : pushed[i].out => outbox[i % outCap] = pushed[i].fill
  BY DEF OutboxInv, OutboxDelivers
<1>4. \A k \in 1..n : batch[k].fill \in Fill
  BY DEF Entries
<1>5. \A i \in Pending' : (i \in Pending /\ pushed'[i] = pushed[i])
                          \/ \E k \in 1..n : i = produced + k - 1
  <2> SUFFICES ASSUME NEW i \in Pending', i \notin Pending PROVE \E k \in 1..n : i = produced + k - 1
    BY <1>0, <1>1
  <2> DEFINE j == i - produced + 1
  <2>1. j \in 1..n /\ i = produced + j - 1
    BY <1>0, <1>1, SMTT(30)
  <2> HIDE DEF j
  <2> QED BY <2>1
<1>6. CASE withOutbox
  <2>1. /\ outCap \in Nat \ {0} /\ outCap >= cap /\ outbox' = WriteOutbox(batch)
        /\ outProduced' = produced + n /\ outSettled' = settled
    BY <1>3, <1>6 DEF PlaceTakerOrder
  <2>2. outProduced' # outSettled' /\ outProduced' \in Nat /\ outSettled' \in Nat
    BY <1>0, <1>1, <2>1
  <2>3. outbox' = [s \in 0..(outCap - 1) |->
                     IF IndexIn(batch, s, outCap) = {} THEN outbox[s]
                     ELSE batch[CHOOSE k \in IndexIn(batch, s, outCap) : TRUE].fill]
    BY <2>1 DEF WriteOutbox
  <2>4. \A s : \A k : k \in IndexIn(batch, s, outCap)
                        <=> k \in 1..n /\ (produced + k - 1) % outCap = s
    BY DEF IndexIn
  <2>5. outbox' \in [0..(outCap - 1) -> {NoCommit} \cup Fill]
    <3>1. ASSUME NEW s \in 0..(outCap - 1)
          PROVE  (IF IndexIn(batch, s, outCap) = {} THEN outbox[s]
                  ELSE batch[CHOOSE k \in IndexIn(batch, s, outCap) : TRUE].fill)
                     \in {NoCommit} \cup Fill
      <4>1. CASE IndexIn(batch, s, outCap) = {}
        BY <1>3, <4>1
      <4>2. CASE IndexIn(batch, s, outCap) # {}
        <5> DEFINE k == CHOOSE k \in IndexIn(batch, s, outCap) : TRUE
        <5>1. k \in IndexIn(batch, s, outCap)
          BY <4>2
        <5>2. k \in 1..n
          BY <2>4, <5>1
        <5> HIDE DEF k
        <5>3. batch[k].fill \in Fill
          BY <1>4, <5>2
        <5> QED BY <4>2, <5>3 DEF k
      <4> QED BY <4>1, <4>2
    <3> QED BY <2>3, <3>1, Zenon
  <2>6. ASSUME NEW i \in Pending', pushed'[i].out PROVE outbox'[i % outCap] = pushed'[i].fill
    <3>0. i \in Nat /\ i % outCap \in 0..(outCap - 1)
      <4>1. i \in Nat
        BY <1>0, <1>1
      <4> QED BY <2>1, <4>1, ModRange
    <3>1. CASE i \in Pending /\ pushed'[i] = pushed[i]
      <4>1. ASSUME NEW k \in 1..n PROVE (produced + k - 1) % outCap # i % outCap
        <5>1. /\ i < produced + k - 1 /\ produced + k - 1 \in Nat
              /\ produced + k - 1 < i + outCap
          <6>1. /\ produced + n - settled <= cap /\ cap <= outCap /\ settled <= i /\ i < produced
            BY <1>0, <1>1, <2>1, <3>1
          <6> QED BY <1>0, <2>1, <3>0, <6>1
        <5> QED BY <2>1, <3>0, <5>1, ModDistinct
      <4>2. IndexIn(batch, i % outCap, outCap) = {}
        BY <2>4, <4>1
      <4>3. outbox'[i % outCap] = outbox[i % outCap]
        BY <2>3, <3>0, <4>2
      <4> QED BY <1>3, <2>6, <3>1, <4>3
    <3>2. CASE \E k \in 1..n : i = produced + k - 1
      <4>1. PICK k \in 1..n : i = produced + k - 1
        BY <3>2
      <4>2. k \in IndexIn(batch, i % outCap, outCap)
        BY <2>4, <4>1
      <4>3. ASSUME NEW j \in IndexIn(batch, i % outCap, outCap) PROVE j = k
        <5>1. j \in 1..n /\ (produced + j - 1) % outCap = i % outCap
          BY <2>4
        <5>2. /\ produced + j - 1 \in settled..(settled + outCap - 1)
              /\ produced + k - 1 \in settled..(settled + outCap - 1)
          <6>1. produced + n - settled <= cap /\ cap <= outCap /\ j \in 1..n
            BY <1>1, <2>1, <5>1
          <6> QED BY <1>0, <2>1, <6>1
        <5>3. produced + j - 1 = produced + k - 1
          BY <1>0, <2>1, <4>1, <5>1, <5>2, ModInjective
        <5> QED BY <1>0, <5>1, <5>3
      <4>4. (CHOOSE j \in IndexIn(batch, i % outCap, outCap) : TRUE) = k
        BY <4>2, <4>3
      <4>5. outbox'[i % outCap] = batch[k].fill
        BY <2>3, <3>0, <4>2, <4>4
      <4> QED BY <1>1, <4>1, <4>5
    <3> QED BY <1>5, <3>1, <3>2
  <2> QED BY <1>1, <1>2, <2>1, <2>2, <2>5, <2>6 DEF OutboxInv, OutboxDelivers
<1>7. CASE ~withOutbox
  <2>1. outbox' = outbox /\ outProduced' = outProduced /\ outSettled' = outSettled
    BY <1>7 DEF PlaceTakerOrder
  <2>2. \A i \in Pending' : pushed'[i].out => i \in Pending /\ pushed'[i] = pushed[i]
    BY <1>1a, <1>5, <1>7
  <2>3. \A i \in Pending' : pushed'[i].out =>
           outCap' >= cap' /\ outbox'[i % outCap'] = pushed'[i].fill
    BY <1>1, <1>2, <1>3, <2>1, <2>2
  <2>4. outProduced' = outSettled' => \A i \in Pending' : ~pushed'[i].out
    BY <1>3, <2>1, <2>2
  <2>5. outbox' \in [0..(outCap' - 1) -> {NoCommit} \cup Fill]
    BY <1>2, <1>3, <2>1
  <2> QED BY <1>2, <1>3, <2>1, <2>3, <2>4, <2>5 DEF OutboxInv, OutboxDelivers
<1> QED BY <1>6, <1>7

(* Settling or growing the ring only takes fills away from the pending.    *)
LEMMA OutboxShrinks ==
    ASSUME OutboxInv, UNCHANGED <<outVars, pushed>>, Pending' \subseteq Pending,
           cap' = cap \/ Pending' = {}
    PROVE  OutboxInv'
<1>1. /\ outCap' = outCap /\ outbox' = outbox /\ outProduced' = outProduced
      /\ outSettled' = outSettled /\ pushed' = pushed
  BY DEF outVars
<1> QED BY <1>1 DEF OutboxInv, OutboxDelivers

LEMMA OutboxCreated == ASSUME RingInv, OutboxInv, InitFillOutbox PROVE OutboxInv'
<1> DEFINE c == IF cap < OutboxInitCap THEN cap ELSE OutboxInitCap
<1>0. cap \in Nat /\ c \in Nat
  BY RingFacts, RingAssumption
<1>1. /\ outCap = 0 /\ outCap' = c /\ outbox' = [s \in 0..(c - 1) |-> NoCommit]
      /\ outProduced' = 0 /\ outSettled' = 0
      /\ cap' = cap /\ pushed' = pushed /\ produced' = produced /\ settled' = settled
  BY DEF InitFillOutbox, ringVars
<1>2. Pending' = Pending /\ \A i \in Pending : ~pushed[i].out
  BY <1>1 DEF Pending, OutboxInv
<1> HIDE DEF c
<1>3. outbox' \in [0..(outCap' - 1) -> {NoCommit} \cup Fill]
  BY <1>1
<1> QED BY <1>0, <1>1, <1>2, <1>3 DEF OutboxInv, OutboxDelivers

LEMMA OutboxGrown ==
    ASSUME RingInv, OutboxInv, NEW extra \in Nat, GrowFillOutbox(extra)
    PROVE  OutboxInv'
<1>1. /\ outProduced = outSettled /\ outCap > 0 /\ outCap' = outCap + extra
      /\ outbox' = [s \in 0..(outCap + extra - 1) |-> IF s < outCap THEN outbox[s] ELSE NoCommit]
      /\ outProduced' = outProduced /\ outSettled' = outSettled
      /\ cap' = cap /\ pushed' = pushed /\ produced' = produced /\ settled' = settled
  BY DEF GrowFillOutbox, OutboxGrowGate, ringVars
<1>2. Pending' = Pending /\ \A i \in Pending : ~pushed[i].out
  BY <1>1 DEF Pending, OutboxInv
<1>3. outCap \in Nat /\ outbox \in [0..(outCap - 1) -> {NoCommit} \cup Fill]
  BY DEF OutboxInv
<1>4. outbox' \in [0..(outCap' - 1) -> {NoCommit} \cup Fill]
  <2>1. \A s \in 0..(outCap + extra - 1) : s < outCap => s \in 0..(outCap - 1)
    BY <1>3
  <2> HIDE DEF NoCommit
  <2> QED BY <1>1, <1>3, <2>1
<1> QED BY <1>1, <1>2, <1>3, <1>4 DEF OutboxInv, OutboxDelivers

-----------------------------------------------------------------------------
(* The whole account family: ring, counters, outbox.                       *)
FullInv == RingInv /\ CountersInv /\ OutboxInv

LEMMA FullInit == Init => FullInv
BY InitRing, RingAssumption, CountersInit, OutboxInit DEF FullInv

LEMMA FullInductive == FullInv /\ [Next]_vars => FullInv'
<1> SUFFICES ASSUME FullInv, [Next]_vars PROVE FullInv'
  OBVIOUS
<1>0. RingInv /\ CountersInv /\ OutboxInv /\ RingInv'
  BY RingInductive DEF FullInv
<1>a. maxBatch \in Nat /\ cap \in Nat
  BY <1>0, RingFacts DEF CountersInv
<1>1. CASE \E batch \in Batches, withOutbox \in BOOLEAN :
              PlaceTakerOrder(batch, withOutbox)
  <2>1. PICK batch \in Batches, withOutbox \in BOOLEAN :
              PlaceTakerOrder(batch, withOutbox)
    BY <1>1
  <2>2. PICK n \in 1..EffectiveBatchCap, t \in Traders : batch \in [1..n -> Entries(t)]
    BY <2>1 DEF Batches
  <2>3. n \in Nat /\ Len(batch) = n
    BY <2>2
  <2>4. CountersInv'
    BY <1>0, <2>1, <2>2, <2>3, CountersPush
  <2>5. OutboxInv'
    BY <1>0, <2>1, <2>2, <2>3, OutboxPush
  <2> QED BY <1>0, <2>4, <2>5 DEF FullInv
<1>2. CASE \E f \in Fill, seq \in 0..(MaxProduced + 1) : ApplyFill(f, seq) \/ ApplyLpFill(f, seq)
  <2>1. PICK f \in Fill, seq \in 0..(MaxProduced + 1) : ApplyFill(f, seq) \/ ApplyLpFill(f, seq)
    BY <1>2
  <2>2. /\ VerifyAndPop(f) /\ ReleaseVolume(f.size)
        /\ cap' = cap /\ produced' = produced /\ pushed' = pushed /\ maxBatch' = maxBatch
        /\ UNCHANGED outVars
    BY <2>1 DEF ApplyFill, ApplyLpFill
  <2>3. \/ ReleaseInflight(f) /\ f.maker \in Traders
        \/ UNCHANGED <<flags, inflight>> /\ f.maker = LpPool
    BY <2>1 DEF ApplyFill, ApplyLpFill
  <2>4. CountersInv'
    BY <1>0, <2>2, <2>3, CountersPop
  <2>5. Pending' \subseteq Pending
    <3>1. settled' = settled + 1 /\ settled \in Nat /\ produced \in Nat
      BY <1>0, <2>2, RingFacts DEF VerifyAndPop
    <3> QED BY <2>2, <3>1 DEF Pending
  <2>6. OutboxInv'
    BY <1>0, <2>2, <2>5, OutboxShrinks
  <2> QED BY <1>0, <2>4, <2>6 DEF FullInv
<1>3. CASE \E extra \in 1..MaxCap : GrowFillCommitment(extra)
  <2>1. PICK extra \in 1..MaxCap : GrowFillCommitment(extra)
    BY <1>3
  <2>2. extra \in Nat
    OBVIOUS
  <2>3. CountersInv'
    BY <1>0, <2>1, <2>2, CountersGrow
  <2>4. Pending' = {} /\ UNCHANGED <<outVars, pushed>>
    <3>1. produced = settled /\ produced' = produced /\ settled' = settled /\ produced \in Nat
      BY <1>0, <2>1, RingFacts DEF GrowFillCommitment, Drained
    <3> QED BY <2>1, <3>1 DEF Pending, GrowFillCommitment
  <2>5. OutboxInv'
    BY <1>0, <2>4, OutboxShrinks
  <2> QED BY <1>0, <2>3, <2>5 DEF FullInv
<1>4. CASE ReconcileUnsettledFillVolume
  <2>1. unsettled' = unsettled
    BY <1>0, <1>4, CountersReconcile
  <2>2. /\ UNCHANGED <<ringVars, lastSeq, maxBatch, outVars, pushed, applied>>
    BY <1>4 DEF ReconcileUnsettledFillVolume
  <2>3. CountersInv'
    BY <1>0, <1>a, <2>1, <2>2, CountersFrame DEF ringVars
  <2>4. OutboxInv'
    BY <1>0, <2>2, OutboxShrinks DEF ringVars, Pending
  <2> QED BY <1>0, <2>3, <2>4 DEF FullInv
<1>5. CASE InitFillOutbox
  <2>1. CountersInv'
    BY <1>0, <1>a, <1>5, CountersFrame DEF InitFillOutbox, ringVars
  <2> QED BY <1>0, <1>5, <2>1, OutboxCreated DEF FullInv
<1>6. CASE \E extra \in 1..MaxCap : GrowFillOutbox(extra)
  <2>1. PICK extra \in 1..MaxCap : GrowFillOutbox(extra)
    BY <1>6
  <2>2. extra \in Nat
    OBVIOUS
  <2>3. CountersInv'
    BY <1>0, <1>a, <2>1, CountersFrame DEF GrowFillOutbox, ringVars, marketVars
  <2>4. OutboxInv'
    BY <1>0, <2>1, <2>2, OutboxGrown
  <2> QED BY <1>0, <2>3, <2>4 DEF FullInv
<1>7. CASE UNCHANGED vars
  <2>1. CountersInv'
    BY <1>0, <1>a, <1>7, CountersFrame DEF vars, ringVars, marketVars
  <2>2. OutboxInv'
    BY <1>0, <1>7, OutboxShrinks DEF vars, ringVars, Pending
  <2> QED BY <1>0, <2>1, <2>2 DEF FullInv
<1> QED BY <1>1, <1>2, <1>3, <1>4, <1>5, <1>6, <1>7 DEF Next

LEMMA FullInvariance == Spec => []FullInv
BY FullInit, FullInductive, PTL DEF Spec

(* Everything kept beside the ring agrees with it at all times: the nonce  *)
(* with the settled cursor, every position's reservation and every slot's  *)
(* flag with the pending reduce-only fills, market.unsettled_fill_volume   *)
(* with the pending lots.  (inflight_add, inflight_sub, reduce_flag_take)  *)
THEOREM CountersFollowTheRing == Spec => []CountersExact
<1>1. FullInv => CountersExact
  <2> SUFFICES ASSUME FullInv PROVE CountersExact
    OBVIOUS
  <2>0. /\ RingInv /\ CountersInv /\ OutboxInv /\ RingTypes /\ SeqTracksRing
    BY DEF FullInv, RingInv
  <2>1. /\ cap \in Nat \ {0} /\ produced \in Nat /\ settled \in Nat
        /\ settled <= produced /\ produced - settled <= cap
        /\ pushed \in [0..(produced - 1) -> Crossed]
        /\ Pending = settled..(produced - 1) /\ Depth = produced - settled
        /\ PendingHeld /\ OthersClear
    BY <2>0, RingFacts
  <2>2. slots \in [0..(cap - 1) -> {NoCommit} \cup (Fill \X (0..(produced - 1)))]
    <3>1. ASSUME NEW s \in 0..(cap - 1)
          PROVE  slots[s] \in {NoCommit} \cup (Fill \X (0..(produced - 1)))
      <4>1. CASE \E i \in Pending : i % cap = s
        <5>1. PICK i \in Pending : i % cap = s
          BY <4>1
        <5>2. slots[s] = Commit(pushed[i].fill, i) /\ i \in 0..(produced - 1)
          <6>1. slots[i % cap] = Commit(pushed[i].fill, i)
            BY <2>1 DEF PendingHeld
          <6>2. i \in 0..(produced - 1)
            BY <2>1
          <6> QED BY <5>1, <6>1, <6>2
        <5>3. pushed[i].fill \in Fill
          BY <2>1, <5>2 DEF Crossed
        <5> QED BY <5>2, <5>3 DEF Commit
      <4>2. CASE \A i \in Pending : i % cap # s
        BY <2>1, <4>2 DEF OthersClear
      <4> QED BY <4>1, <4>2
    <3>2. slots = [s \in 0..(cap - 1) |-> slots[s]]
      BY <2>0 DEF RingTypes
    <3> QED BY <3>1, <3>2, Zenon
  <2>3. TypeOK
    <3>1. settled \in 0..produced /\ Depth <= cap /\ lastSeq \in Nat
      BY <2>0, <2>1 DEF SeqTracksRing
    <3>2. applied \in [0..(settled - 1) -> Fill]
      BY <2>0 DEF RingTypes
    <3>3. flags \in [0..(cap - 1) -> BOOLEAN] /\ inflight \in [Traders -> Nat]
          /\ unsettled \in Nat /\ maxBatch \in Nat
      BY <2>0 DEF CountersInv
    <3>4. /\ outCap \in Nat /\ outProduced \in Nat /\ outSettled \in Nat
          /\ outbox \in [0..(outCap - 1) -> {NoCommit} \cup Fill]
      BY <2>0 DEF OutboxInv
    <3>5. pushed \in [0..(produced - 1) -> [fill : Fill, ro : BOOLEAN, out : BOOLEAN]]
      BY <2>1 DEF Crossed
    <3> QED BY <2>1, <2>2, <3>1, <3>2, <3>3, <3>4, <3>5 DEF TypeOK
  <2> QED BY <2>0, <2>3 DEF CountersExact, CountersInv
<1> QED BY <1>1, FullInvariance, PTL

(* A fill that went through the outbox can be read there until it is       *)
(* settled, whatever batches, resizes and ring growths come in between.    *)
(* (outbox_push, grow_fill_outbox)                                         *)
THEOREM OutboxKeepsPendingFills == Spec => []OutboxDelivers
<1>1. FullInv => OutboxDelivers
  BY DEF FullInv, OutboxInv
<1> QED BY <1>1, FullInvariance, PTL

-----------------------------------------------------------------------------
(* The ring implements the abstract queue.                                 *)

(* Read out of the slots in cursor order, the pending fills are those the  *)
(* matcher crossed.                                                        *)
QueueReads ==
    /\ PendingFills \in [1..Depth -> Fill]
    /\ \A k \in 1..Depth : PendingFills[k] = pushed[settled + k - 1].fill
    /\ AppliedFills \in [1..settled -> Fill]
    /\ \A k \in 1..settled : AppliedFills[k] = applied[k - 1]

LEMMA QueueIsRead == RingInv => QueueReads
<1> SUFFICES ASSUME RingInv PROVE QueueReads
  OBVIOUS
<1>0. /\ cap \in Nat \ {0} /\ produced \in Nat /\ settled \in Nat
      /\ settled <= produced /\ produced - settled <= cap
      /\ pushed \in [0..(produced - 1) -> Crossed]
      /\ Pending = settled..(produced - 1) /\ Depth = produced - settled
      /\ PendingHeld
  BY RingFacts
<1>1. ASSUME NEW k \in 1..Depth
      PROVE  /\ slots[(settled + k - 1) % cap][1] = pushed[settled + k - 1].fill
             /\ pushed[settled + k - 1].fill \in Fill
  <2> DEFINE i == settled + k - 1
  <2>1. i \in Pending /\ i \in 0..(produced - 1)
    BY <1>0
  <2> HIDE DEF i
  <2>2. slots[i % cap] = Commit(pushed[i].fill, i)
    BY <1>0, <2>1 DEF PendingHeld
  <2>3. pushed[i].fill \in Fill
    BY <1>0, <2>1 DEF Crossed
  <2> QED BY <2>2, <2>3 DEF Commit, i
<1>2. \A k \in 1..Depth : PendingFills[k] = pushed[settled + k - 1].fill
  BY <1>1 DEF PendingFills
<1>3. PendingFills \in [1..Depth -> Fill]
  <2>1. \A k \in 1..Depth : slots[(settled + k - 1) % cap][1] \in Fill
    BY <1>1
  <2> QED BY <2>1, Zenon DEF PendingFills
<1>4. applied \in [0..(settled - 1) -> Fill]
  BY DEF RingInv, RingTypes
<1>5. AppliedFills \in [1..settled -> Fill] /\ \A k \in 1..settled : AppliedFills[k] = applied[k - 1]
  BY <1>0, <1>4 DEF AppliedFills
<1> QED BY <1>2, <1>3, <1>5 DEF QueueReads

LEMMA QueueIsReadNext == RingInv' => QueueReads'
BY QueueIsRead, PTL

LEMMA SequencesEqual ==
    ASSUME NEW S, NEW n \in Nat, NEW f \in [1..n -> S], NEW g \in Seq(S), Len(g) = n,
           \A k \in 1..n : g[k] = f[k]
    PROVE  g = f
<1>1. g \in [1..n -> S]
  BY LenProperties
<1> QED BY <1>1

(* A sequence that keeps its beginning.                                    *)
LEMMA SequenceExtends ==
    ASSUME NEW S, NEW n \in Nat, NEW m \in Nat, n < m, NEW f \in [1..n -> S],
           NEW g \in [1..m -> S], \A k \in 1..n : g[k] = f[k]
    PROVE  Len(g) > Len(f) /\ SubSeq(g, 1, Len(f)) = f /\ \A k \in 1..Len(g) : g[k] \in S
<1>1. f \in Seq(S) /\ Len(f) = n /\ g \in Seq(S) /\ Len(g) = m
  BY FunctionSeq
<1> DEFINE h == SubSeq(g, 1, n)
<1>2. h \in Seq(S) /\ Len(h) = n /\ \A k \in 1..n : h[k] = g[k]
  <2>1. /\ h \in Seq(S)
        /\ Len(h) = IF 1 <= n THEN n - 1 + 1 ELSE 0
        /\ \A k \in 1..(n - 1 + 1) : h[k] = g[1 + k - 1]
    BY <1>1, SubSeqProperties
  <2> QED BY <2>1
<1> HIDE DEF h
<1>3. h = f
  BY <1>2, SequencesEqual
<1> QED BY <1>1, <1>3 DEF h

(* A sequence that loses its head.                                         *)
LEMMA SequencePops ==
    ASSUME NEW S, NEW n \in Nat, NEW m, m = n + 1, NEW f \in [1..m -> S],
           NEW g \in [1..n -> S], \A k \in 1..n : g[k] = f[k + 1]
    PROVE  f # <<>> /\ g = Tail(f) /\ Head(f) = f[1]
<1>1. f \in Seq(S) /\ Len(f) = m /\ m \in Nat
  BY FunctionSeq
<1>2. f # <<>>
  BY <1>1, EmptySeq
<1> DEFINE h == Tail(f)
<1>3. h \in Seq(S) /\ Len(h) = n /\ \A k \in 1..n : h[k] = g[k]
  BY <1>1, <1>2, HeadTailProperties
<1> HIDE DEF h
<1>4. h = g
  BY <1>3, SequencesEqual
<1> QED BY <1>1, <1>2, <1>4 DEF h

(* A sequence that gains a last element.                                   *)
LEMMA SequenceAppends ==
    ASSUME NEW S, NEW n \in Nat, NEW m, m = n + 1, NEW f \in [1..n -> S],
           NEW g \in [1..m -> S], \A k \in 1..n : g[k] = f[k]
    PROVE  g = Append(f, g[m])
<1>1. f \in Seq(S) /\ Len(f) = n /\ m \in Nat /\ g[m] \in S
  BY FunctionSeq
<1> DEFINE h == Append(f, g[m])
<1>2. h \in Seq(S) /\ Len(h) = m /\ \A k \in 1..m : h[k] = g[k]
  <2>1. h \in Seq(S) /\ Len(h) = n + 1 /\ h[n + 1] = g[m] /\ \A k \in 1..n : h[k] = f[k]
    BY <1>1, AppendProperties
  <2>2. \A k \in 1..m : k \in 1..n \/ k = m
    OBVIOUS
  <2> HIDE DEF h
  <2> QED BY <2>1, <2>2
<1> HIDE DEF h
<1>3. h = g
  BY <1>1, <1>2, SequencesEqual
<1> QED BY <1>3 DEF h

LEMMA QueueInit == Init => Queue!Init
<1> SUFFICES ASSUME Init PROVE PendingFills = <<>> /\ AppliedFills = <<>>
  BY DEF Queue!Init
<1>1. RingInv
  BY InitRing, RingAssumption
<1>2. QueueReads /\ Depth = 0 /\ settled = 0
  BY <1>1, QueueIsRead, RingFacts DEF Init
<1>3. PendingFills \in [1..0 -> Fill] /\ AppliedFills \in [1..0 -> Fill]
  BY <1>2 DEF QueueReads
<1>4. /\ PendingFills \in Seq(Fill) /\ Len(PendingFills) = 0
      /\ AppliedFills \in Seq(Fill) /\ Len(AppliedFills) = 0
  BY <1>3, FunctionSeq
<1> QED BY <1>4, EmptySeq

LEMMA QueueStep == RingInv /\ RingInv' /\ [Next]_vars => [Queue!Next]_Queue!qvars
<1> SUFFICES ASSUME RingInv, RingInv', [Next]_vars
             PROVE  Queue!Match \/ Queue!Settle \/ UNCHANGED <<PendingFills, AppliedFills>>
  BY DEF Queue!Next, Queue!qvars
<1>0. /\ cap \in Nat \ {0} /\ produced \in Nat /\ settled \in Nat
      /\ settled <= produced /\ Depth = produced - settled
      /\ pushed \in [0..(produced - 1) -> Crossed]
  BY RingFacts
<1>r. QueueReads /\ QueueReads'
  BY QueueIsRead, QueueIsReadNext
<1> DEFINE f == PendingFills
           g == PendingFills'
           a == AppliedFills
           b == AppliedFills'
<1>1. CASE \E batch \in Batches, withOutbox \in BOOLEAN :
              PlaceTakerOrder(batch, withOutbox)
  <2>1. PICK batch \in Batches, withOutbox \in BOOLEAN :
              PlaceTakerOrder(batch, withOutbox)
    BY <1>1
  <2>2. PICK n \in 1..EffectiveBatchCap, t \in Traders : batch \in [1..n -> Entries(t)]
    BY <2>1 DEF Batches
  <2>3. n \in Nat /\ Len(batch) = n
    BY <2>2
  <2>4. /\ n > 0 /\ produced' = produced + n /\ settled' = settled
        /\ \A i \in 0..(produced - 1) : pushed'[i] = pushed[i]
    BY <2>1, <2>2, <2>3, PushedFacts
  <2> DEFINE d == produced - settled
             e == produced + n - settled
  <2>5. d \in Nat /\ e \in Nat /\ d < e /\ Depth = d /\ Depth' = e
    BY <1>0, <2>3, <2>4 DEF Depth
  <2>6. f \in [1..d -> Fill] /\ g \in [1..e -> Fill]
    BY <1>r, <2>5 DEF QueueReads
  <2>7. \A k \in 1..d : g[k] = f[k]
    <3> TAKE k \in 1..d
    <3>1. f[k] = pushed[settled + k - 1].fill
      BY <1>r, <2>5 DEF QueueReads
    <3>2. g[k] = pushed'[settled + k - 1].fill
      <4>1. k \in 1..e
        BY <2>5
      <4> QED BY <1>r, <2>4, <2>5, <4>1 DEF QueueReads
    <3>3. settled + k - 1 \in 0..(produced - 1)
      BY <1>0
    <3> QED BY <2>4, <3>1, <3>2, <3>3
  <2> HIDE DEF d, e, f, g
  <2>8. Len(g) > Len(f) /\ SubSeq(g, 1, Len(f)) = f /\ \A k \in 1..Len(g) : g[k] \in Fill
    BY <2>5, <2>6, <2>7, SequenceExtends
  <2>9. b = a
    <3>1. applied' = applied
      BY <2>1 DEF PlaceTakerOrder
    <3> QED BY <2>4, <3>1 DEF AppliedFills
  <2>10. Queue!Match
    BY <2>8, <2>9 DEF Queue!Match, f, g
  <2> QED BY <2>10
<1>2. CASE \E h \in Fill, seq \in 0..(MaxProduced + 1) : ApplyFill(h, seq) \/ ApplyLpFill(h, seq)
  <2>1. PICK h \in Fill, seq \in 0..(MaxProduced + 1) : ApplyFill(h, seq) \/ ApplyLpFill(h, seq)
    BY <1>2
  <2>2. /\ VerifyAndPop(h) /\ RecordApplied(h) /\ produced' = produced /\ pushed' = pushed
    BY <2>1 DEF ApplyFill, ApplyLpFill
  <2>3. settled' = settled + 1 /\ settled < produced
    BY <1>0, <2>2 DEF VerifyAndPop
  <2> DEFINE n == produced - (settled + 1)
             m == n + 1
             s == settled + 1
  <2>4. n \in Nat /\ m = n + 1 /\ Depth = m /\ Depth' = n /\ s = settled + 1 /\ settled' = s
    BY <1>0, <2>2, <2>3 DEF Depth
  <2>5. f \in [1..m -> Fill] /\ g \in [1..n -> Fill] /\ a \in [1..settled -> Fill] /\ b \in [1..s -> Fill]
    BY <1>r, <2>4 DEF QueueReads
  <2>6. \A k \in 1..m : f[k] = pushed[settled + k - 1].fill
    BY <1>r, <2>4 DEF QueueReads
  <2>7. \A k \in 1..n : g[k] = pushed[s + k - 1].fill
    BY <1>r, <2>2, <2>4 DEF QueueReads
  <2>8. \A k \in 1..n : g[k] = f[k + 1]
    <3> TAKE k \in 1..n
    <3>1. k + 1 \in 1..m /\ settled + (k + 1) - 1 = s + k - 1
      BY <1>0, <2>4
    <3> HIDE DEF f, g, n, m, s
    <3> QED BY <2>6, <2>7, <3>1
  <2>9. (\A k \in 1..settled : a[k] = applied[k - 1]) /\ \A k \in 1..s : b[k] = applied'[k - 1]
    BY <1>r, <2>4 DEF QueueReads
  <2>10. applied' = [i \in 0..settled |-> IF i < settled THEN applied[i] ELSE h]
    BY <2>2 DEF RecordApplied
  <2>11. \A k \in 1..settled : b[k] = a[k]
    <3> TAKE k \in 1..settled
    <3>1. k \in 1..s /\ k - 1 \in 0..settled /\ k - 1 < settled
      BY <1>0
    <3> HIDE DEF a, b, s
    <3> QED BY <2>9, <2>10, <3>1
  <2>12. b[s] = h
    <3>1. s \in 1..s /\ s - 1 \in 0..settled /\ ~(s - 1 < settled)
      BY <1>0
    <3> HIDE DEF a, b, s
    <3> QED BY <2>9, <2>10, <3>1
  <2> HIDE DEF f, g, a, b, n, m, s
  <2>13. f # <<>> /\ g = Tail(f) /\ Head(f) = f[1]
    BY <2>4, <2>5, <2>8, SequencePops
  <2>14. b = Append(a, b[s])
    BY <1>0, <2>4, <2>5, <2>11, SequenceAppends
  <2>15. f[1] = h
    <3>1. settled + 1 - 1 = settled /\ 1 \in 1..m /\ settled \in Pending
      BY <1>0, <2>3, <2>4 DEF Pending
    <3>2. slots[settled % cap] = Commit(pushed[settled].fill, settled)
      BY <3>1, RingFacts DEF PendingHeld
    <3>3. slots[settled % cap] = Commit(h, settled)
      BY <2>2 DEF VerifyAndPop
    <3>4. pushed[settled].fill = h
      BY <3>2, <3>3 DEF Commit
    <3> QED BY <2>6, <3>1, <3>4
  <2>16. Queue!Settle
    BY <2>12, <2>13, <2>14, <2>15 DEF Queue!Settle, f, g, a, b
  <2> QED BY <2>16
<1>3. CASE \E extra \in 1..MaxCap : GrowFillCommitment(extra)
  <2>1. /\ produced = settled /\ produced' = produced /\ settled' = settled /\ applied' = applied
    BY <1>3 DEF GrowFillCommitment, Drained
  <2>2. Depth = 0 /\ Depth' = 0
    BY <1>0, <2>1 DEF Depth
  <2>3. f = <<>> /\ g = <<>>
    <3>1. f \in [1..0 -> Fill] /\ g \in [1..0 -> Fill]
      BY <1>r, <2>2 DEF QueueReads
    <3> HIDE DEF f, g
    <3>2. f \in Seq(Fill) /\ Len(f) = 0 /\ g \in Seq(Fill) /\ Len(g) = 0
      BY <3>1, FunctionSeq
    <3> QED BY <3>2, EmptySeq
  <2>4. a = b
    BY <2>1 DEF AppliedFills
  <2> QED BY <2>3, <2>4
<1>4. CASE \/ ReconcileUnsettledFillVolume \/ InitFillOutbox
           \/ (\E extra \in 1..MaxCap : GrowFillOutbox(extra)) \/ UNCHANGED vars
  <2>1. UNCHANGED <<cap, slots, produced, settled, applied>>
    BY <1>4 DEF ReconcileUnsettledFillVolume, InitFillOutbox, GrowFillOutbox, vars, ringVars
  <2> QED BY <2>1 DEF PendingFills, AppliedFills, Depth
<1> QED BY <1>1, <1>2, <1>3, <1>4 DEF Next

(* The ring with its wrapping slots, cursors and growth implements the     *)
(* unbounded queue between matching and settlement: every step appends a   *)
(* batch, takes the oldest fill, or changes nothing a settler can see.     *)
THEOREM RingImplementsQueue == Spec => QueueSpec
<1>1. Spec => []RingInv
  <2>1. Init => RingInv
    BY InitRing, RingAssumption
  <2>2. RingInv /\ [Next]_vars => RingInv'
    BY RingInductive
  <2> QED BY <2>1, <2>2, PTL DEF Spec
<1> QED BY <1>1, QueueInit, QueueStep, PTL DEF Spec, QueueSpec, Queue!Spec
=============================================================================
