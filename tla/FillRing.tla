------------------------------ MODULE FillRing ------------------------------
(***************************************************************************)
(* The per-market fill-commitment ring and the fill outbox that mirrors    *)
(* it.  The matcher (place_taker_order) pushes one commitment per crossed  *)
(* fill, settlement (apply_fill, apply_lp_fill) recomputes the commitment  *)
(* of the fill it is asked to apply and pops the oldest entry.  Cursors    *)
(* are absolute (u64 in the code, far from overflow here); the entry of    *)
(* index i lives in slot i % cap.  Every handler is one transaction: it    *)
(* either takes effect as a whole or reverts, so a rejected call is a      *)
(* stuttering step and is not written as an action.                        *)
(***************************************************************************)
EXTENDS Integers, FiniteSets, Sequences, FiniteSetsExt, Functions

CONSTANTS
    Traders,        \* traders with positions (one position per trader)
    LpPool,         \* the liquidity pool's maker identity (lp_exposure PDA)
    Sizes,          \* fill sizes in base lots
    RingCapLimit,   \* FILL_RING_CAP
    LogSafeBatch,   \* MAX_MATCH_BATCH_ORDERS: fills that fit the program log
    OutboxInitCap,  \* FILL_OUTBOX_INIT_CAP
    InflightSlots,  \* FILL_INFLIGHT_SLOTS: positions the in-flight map can hold
    MaxCap,         \* bound: largest capacity the model grows to
    MaxProduced     \* bound: fills produced in a behaviour

ASSUME RingAssumption ==
    /\ LpPool \notin Traders
    /\ Sizes \subseteq Nat \ {0}
    /\ RingCapLimit \in Nat \ {0}
    /\ LogSafeBatch \in Nat \ {0}
    /\ OutboxInitCap \in Nat \ {0}
    /\ InflightSlots \in Nat
    /\ MaxCap \in Nat
    /\ MaxProduced \in Nat

VARIABLES
    cap,        \* ring capacity (account header)
    slots,      \* commitment slots
    flags,      \* per-slot "this fill was a reduce-only maker fill"
    inflight,   \* position -> reduce-only lots matched and not yet settled
    produced,   \* absolute index of the next fill to commit
    settled,    \* absolute index of the next fill to settle
    lastSeq,    \* market.last_settlement_seq
    unsettled,  \* market.unsettled_fill_volume
    maxBatch,   \* market.max_batch_orders (0: unset)
    outCap,     \* outbox capacity, 0 while the account does not exist
    outbox,     \* outbox slots
    outProduced, outSettled,  \* the cursors mirrored in the outbox header
    pushed,     \* history: what the matcher crossed, by index
    applied     \* history: what settlement applied, by index

ringVars == <<cap, slots, flags, inflight, produced, settled>>
marketVars == <<lastSeq, unsettled, maxBatch>>
outVars == <<outCap, outbox, outProduced, outSettled>>
vars == <<ringVars, marketVars, outVars, pushed, applied>>

-----------------------------------------------------------------------------
(* A fill is what the preimage binds.  The reduce-only mark of the maker   *)
(* order is not part of the preimage; it travels in `flags`.               *)
Fill == {f \in [taker : Traders, maker : Traders \cup {LpPool}, size : Sizes] :
            f.taker # f.maker}

(* keccak(fill_preimage(...)): injective, and bound to the absolute index. *)
Commit(f, i) == <<f, i>>
NoCommit == <<>>

EmptySlots(c) == [s \in 0..(c - 1) |-> NoCommit]
EmptyFlags(c) == [s \in 0..(c - 1) |-> FALSE]

(* ring_depth *)
Depth == produced - settled
Drained == produced = settled

(* effective_batch_cap: how many resting orders one taker may cross.       *)
EffectiveBatchCap ==
    LET c == IF maxBatch = 0 THEN LogSafeBatch ELSE maxBatch
    IN  IF c < RingCapLimit THEN c ELSE RingCapLimit

-----------------------------------------------------------------------------
(* A matched batch is a sequence of [fill, ro] crossed by one taker, in    *)
(* walk order; entry k gets absolute index produced + k - 1.               *)
IndexIn(batch, s, c) ==
    {k \in 1..Len(batch) : (produced + k - 1) % c = s}

WriteSlots(batch) ==
    [s \in 0..(cap - 1) |->
        IF IndexIn(batch, s, cap) = {} THEN slots[s]
        ELSE LET k == CHOOSE k \in IndexIn(batch, s, cap) : TRUE
             IN  Commit(batch[k].fill, produced + k - 1)]

(* reduce_flag_set for the reduce-only makers; buffer_push leaves the flag *)
(* byte of the other slots as it finds it.                                 *)
WriteFlags(batch) ==
    [s \in 0..(cap - 1) |->
        flags[s] \/ \E k \in IndexIn(batch, s, cap) : batch[k].ro]

WriteOutbox(batch) ==
    [s \in 0..(outCap - 1) |->
        IF IndexIn(batch, s, outCap) = {} THEN outbox[s]
        ELSE LET k == CHOOSE k \in IndexIn(batch, s, outCap) : TRUE
             IN  batch[k].fill]

(* Lots of a sequence of entries, and of the reduce-only ones of maker p.  *)
Volume(batch) ==
    SumFunctionOnSet([k \in 1..Len(batch) |-> batch[k].fill.size], 1..Len(batch))
ReduceVolume(batch, p) ==
    SumFunctionOnSet([k \in 1..Len(batch) |->
                        IF batch[k].ro /\ batch[k].fill.maker = p THEN batch[k].fill.size ELSE 0],
                     1..Len(batch))

(* inflight_add for every reduce-only maker of the batch.                  *)
InflightAfter(batch) ==
    [p \in Traders |-> inflight[p] + ReduceVolume(batch, p)]
InflightFits(m) == Cardinality({p \in Traders : m[p] > 0}) <= InflightSlots

-----------------------------------------------------------------------------
(* init_fill_commitment: the authority picks any capacity in its range.    *)
Init ==
    /\ cap \in LogSafeBatch..RingCapLimit
    /\ slots = EmptySlots(cap)
    /\ flags = EmptyFlags(cap)
    /\ inflight = [p \in Traders |-> 0]
    /\ produced = 0 /\ settled = 0
    /\ lastSeq = 0 /\ unsettled = 0 /\ maxBatch = 0
    /\ outCap = 0 /\ outbox = <<>> /\ outProduced = 0 /\ outSettled = 0
    /\ pushed = <<>> /\ applied = <<>>

(* Deliberately wrong: only the first push of a batch is checked.          *)
RingRoomForFirst(n) == Depth < cap
(* ring_push refuses when the ring is full; a batch that meets a full ring *)
(* half way reverts as a whole.                                            *)
RingRoom(n) == Depth + n <= cap

(* The produce block of place_taker_order: the ring account is required,   *)
(* the outbox is whatever the caller passed, but is required above the     *)
(* log-safe batch and must cover the ring.  A Full ring, a full in-flight  *)
(* map or a too-small outbox reverts the whole order.                      *)
PlaceTakerOrder(batch, withOutbox) ==
    /\ Len(batch) \in 1..EffectiveBatchCap
    /\ produced + Len(batch) <= MaxProduced
    /\ IF withOutbox THEN outCap > 0 /\ outCap >= cap
                     ELSE EffectiveBatchCap <= LogSafeBatch
    /\ RingRoom(Len(batch))
    /\ InflightFits(InflightAfter(batch))
    /\ slots' = WriteSlots(batch)
    /\ flags' = WriteFlags(batch)
    /\ inflight' = InflightAfter(batch)
    /\ produced' = produced + Len(batch)
    /\ unsettled' = unsettled + Volume(batch)
    /\ IF withOutbox
       THEN /\ outbox' = WriteOutbox(batch)
            /\ outProduced' = produced + Len(batch)
            /\ outSettled' = settled
       ELSE UNCHANGED <<outbox, outProduced, outSettled>>
    /\ pushed' = [i \in 0..(produced + Len(batch) - 1) |->
                    IF i < produced THEN pushed[i]
                    ELSE [fill |-> batch[i - produced + 1].fill,
                          ro   |-> batch[i - produced + 1].ro,
                          out  |-> withOutbox]]
    /\ UNCHANGED <<cap, settled, lastSeq, maxBatch, outCap, applied>>

(* Deliberately wrong: the slot only has to be occupied.                 *)
VerifyAndPopBlind(f) ==
    /\ Depth > 0
    /\ slots[settled % cap] # NoCommit
    /\ slots' = [slots EXCEPT ![settled % cap] = NoCommit]
    /\ settled' = settled + 1

(* buffer_settle: the recomputed commitment must be the oldest pending one.*)
VerifyAndPop(f) ==
    /\ Depth > 0
    /\ slots[settled % cap] = Commit(f, settled)
    /\ slots' = [slots EXCEPT ![settled % cap] = NoCommit]
    /\ settled' = settled + 1

(* advance_settlement_seq *)
AdvanceSettlementSeq(seq) ==
    /\ seq = lastSeq + 1
    /\ lastSeq' = seq

ReleaseVolume(size) ==
    unsettled' = IF unsettled > size THEN unsettled - size ELSE 0

RecordApplied(f) ==
    applied' = [i \in 0..settled |-> IF i < settled THEN applied[i] ELSE f]

(* Deliberately wrong: the slot's flag survives its settlement.          *)
ReleaseInflightKeepFlag(f) ==
    IF flags[settled % cap] /\ f.maker \in Traders
    THEN /\ UNCHANGED flags
         /\ inflight' = [inflight EXCEPT ![f.maker] =
                            IF @ > f.size THEN @ - f.size ELSE 0]
    ELSE UNCHANGED <<flags, inflight>>

(* reduce_flag_take, then inflight_sub (saturating; 0 frees the map slot). *)
ReleaseInflight(f) ==
    IF flags[settled % cap]
    THEN /\ flags' = [flags EXCEPT ![settled % cap] = FALSE]
         /\ inflight' = [inflight EXCEPT ![f.maker] =
                            IF @ > f.size THEN @ - f.size ELSE 0]
    ELSE UNCHANGED <<flags, inflight>>

(* apply_fill: any caller, any claimed fill and sequence number; both      *)
(* parties are traders.                                                    *)
ApplyFill(f, seq) ==
    /\ f.maker \in Traders
    /\ AdvanceSettlementSeq(seq)
    /\ VerifyAndPop(f)
    /\ ReleaseInflight(f)
    /\ ReleaseVolume(f.size)
    /\ RecordApplied(f)
    /\ UNCHANGED <<cap, produced, maxBatch, outVars, pushed>>

(* apply_lp_fill: the pool is the maker.  It shares the ring and the       *)
(* sequence, and never looks at the reduce flags.                          *)
ApplyLpFill(f, seq) ==
    /\ f.maker = LpPool
    /\ VerifyAndPop(f)
    /\ AdvanceSettlementSeq(seq)
    /\ ReleaseVolume(f.size)
    /\ RecordApplied(f)
    /\ UNCHANGED <<cap, flags, inflight, produced, maxBatch, outVars, pushed>>

(* Deliberately wrong: fills may still be pending.                       *)
GrowFillCommitmentUndrained(extra) ==
    /\ extra > 0
    /\ cap + extra <= MaxCap
    /\ cap' = cap + extra
    /\ slots' = EmptySlots(cap + extra)
    /\ flags' = EmptyFlags(cap + extra)
    /\ inflight' = [p \in Traders |-> 0]
    /\ UNCHANGED <<produced, settled, marketVars, outVars, pushed, applied>>

(* grow_fill_commitment: drained only; clears slots, flags and the map.    *)
GrowFillCommitment(extra) ==
    /\ extra > 0
    /\ Drained
    /\ cap + extra <= MaxCap
    /\ cap' = cap + extra
    /\ slots' = EmptySlots(cap + extra)
    /\ flags' = EmptyFlags(cap + extra)
    /\ inflight' = [p \in Traders |-> 0]
    /\ UNCHANGED <<produced, settled, marketVars, outVars, pushed, applied>>

(* reconcile_unsettled_fill_volume: permissionless, drained only.          *)
ReconcileUnsettledFillVolume ==
    /\ Drained
    /\ unsettled' = 0
    /\ UNCHANGED <<ringVars, lastSeq, maxBatch, outVars, pushed, applied>>

(* init_fill_outbox: sized from the ring, up to one CPI's worth of slots.  *)
InitFillOutbox ==
    LET c == IF cap < OutboxInitCap THEN cap ELSE OutboxInitCap
    IN  /\ outCap = 0
        /\ outCap' = c
        /\ outbox' = [s \in 0..(c - 1) |-> NoCommit]
        /\ outProduced' = 0 /\ outSettled' = 0
        /\ maxBatch' = cap
        /\ UNCHANGED <<ringVars, lastSeq, unsettled, pushed, applied>>

(* Deliberately wrong: the outbox may be resized with fills in it.         *)
OutboxGrowAlways == outCap > 0

(* grow_fill_outbox: gated on the cursors mirrored in the outbox itself;   *)
(* keeps the old slots and zero-fills the new ones.                        *)
OutboxGrowGate == outProduced = outSettled
GrowFillOutbox(extra) ==
    /\ extra > 0
    /\ outCap > 0
    /\ OutboxGrowGate
    /\ outCap + extra <= MaxCap
    /\ outCap' = outCap + extra
    /\ outbox' = [s \in 0..(outCap + extra - 1) |->
                    IF s < outCap THEN outbox[s] ELSE NoCommit]
    /\ UNCHANGED <<ringVars, marketVars, outProduced, outSettled, pushed, applied>>

Entries(t) == {e \in [fill : {f \in Fill : f.taker = t}, ro : BOOLEAN] :
                  e.ro => e.fill.maker \in Traders}
Batches == UNION {[1..n -> Entries(t)] : n \in 1..EffectiveBatchCap, t \in Traders}

Next ==
    \/ \E batch \in Batches, withOutbox \in BOOLEAN : PlaceTakerOrder(batch, withOutbox)
    \/ \E f \in Fill, seq \in 0..(MaxProduced + 1) : ApplyFill(f, seq)
    \/ \E f \in Fill, seq \in 0..(MaxProduced + 1) : ApplyLpFill(f, seq)
    \/ \E extra \in 1..MaxCap : GrowFillCommitment(extra)
    \/ ReconcileUnsettledFillVolume
    \/ InitFillOutbox
    \/ \E extra \in 1..MaxCap : GrowFillOutbox(extra)

Spec == Init /\ [][Next]_vars

-----------------------------------------------------------------------------
Pending == settled..(produced - 1)

(* What was crossed and not settled, oldest first.                         *)
PendingEntries == [k \in 1..Depth |-> pushed[settled + k - 1]]

(* Every variable has its type and the cursors bound the live region.      *)
TypeOK ==
    /\ cap \in Nat \ {0}
    /\ produced \in Nat /\ settled \in 0..produced /\ Depth <= cap
    /\ slots \in [0..(cap - 1) -> {NoCommit} \cup (Fill \X (0..(produced - 1)))]
    /\ flags \in [0..(cap - 1) -> BOOLEAN]
    /\ inflight \in [Traders -> Nat]
    /\ lastSeq \in Nat /\ unsettled \in Nat /\ maxBatch \in Nat
    /\ outCap \in Nat /\ outProduced \in Nat /\ outSettled \in Nat
    /\ outbox \in [0..(outCap - 1) -> {NoCommit} \cup Fill]
    /\ pushed \in [0..(produced - 1) -> [fill : Fill, ro : BOOLEAN, out : BOOLEAN]]
    /\ applied \in [0..(settled - 1) -> Fill]

(* Backpressure: no push ever lands on a commitment that still waits to be *)
(* settled, whatever mix of batches, settlements and ring growth came      *)
(* before; a consumed slot is cleared.  (ring_push / ring_settle)          *)
PendingIntact ==
    \A s \in 0..(cap - 1) :
        slots[s] = IF \E i \in Pending : i % cap = s
                   THEN LET i == CHOOSE i \in Pending : i % cap = s
                        IN  Commit(pushed[i].fill, i)
                   ELSE NoCommit

(* Settlement applies exactly the fills the matcher crossed, once each and *)
(* in the order they were crossed, although anyone may call apply_fill     *)
(* with any claimed fill.                                                  *)
ExactlyOnceFifo ==
    /\ settled <= produced
    /\ \A i \in 0..(settled - 1) : applied[i] = pushed[i].fill

(* The shared settlement nonce of apply_fill and apply_lp_fill never runs  *)
(* ahead of or behind the ring, so the next sequence number a cranker must *)
(* present is always derivable from the ring.                              *)
SeqTracksRing == lastSeq = settled

(* The in-flight reservation of a position is exactly the reduce-only lots *)
(* of its pending fills and each pending slot carries its own flag: nothing*)
(* leaks when slots are reused or when LP fills are settled in between.    *)
InflightExact ==
    /\ \A p \in Traders : inflight[p] = ReduceVolume(PendingEntries, p)
    /\ \A s \in 0..(cap - 1) :
          flags[s] <=> \E i \in Pending : i % cap = s /\ pushed[i].ro

(* market.unsettled_fill_volume is the volume of the pending fills, which  *)
(* is what the open-interest cap at order intake relies on.                *)
UnsettledExact == unsettled = Volume(PendingEntries)

(* What is kept beside the commitments follows them: the nonce, the        *)
(* reservations with their flags, the volume counter, and every type.      *)
CountersExact == TypeOK /\ SeqTracksRing /\ InflightExact /\ UnsettledExact

(* A fill delivered through the outbox stays readable there until it is    *)
(* settled: no later batch and no resize overwrites or moves it.           *)
OutboxDelivers ==
    \A i \in Pending : pushed[i].out => outbox[i % outCap] = pushed[i].fill

-----------------------------------------------------------------------------
(* The abstract queue a ring implements: the pending fills, read out of    *)
(* the physical slots in cursor order, and what was applied so far.        *)
PendingFills == [k \in 1..Depth |-> slots[(settled + k - 1) % cap][1]]
AppliedFills == [k \in 1..settled |-> applied[k - 1]]
Queue == INSTANCE FillQueue WITH Fills <- Fill, queue <- PendingFills, done <- AppliedFills
QueueSpec == Queue!Spec
=============================================================================
