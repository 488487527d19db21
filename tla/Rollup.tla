------------------------------- MODULE Rollup -------------------------------
(***************************************************************************)
(* A market's accounts between Solana and the ephemeral rollup.  The       *)
(* market, the book and the fill-commitment ring are delegated, committed  *)
(* and returned one by one.  An instruction runs where all the accounts it *)
(* writes are: a delegated account is owned by the delegation program on   *)
(* L1, so L1 instructions that need it fail, and the rollup refuses to     *)
(* write what is not delegated.  Positions and collateral never leave L1,  *)
(* so settlement and recovery only run there.                              *)
(*                                                                         *)
(* live[a] is the account where it is being written; snap[a] is what L1    *)
(* last received of it while it is away.  An account may come back in its  *)
(* final state or, after a lost or forced commit, in the committed one.    *)
(*                                                                         *)
(* Slots are kept as ages, capped just above the longest timeout: the code *)
(* only ever compares the time since a stamp with a timeout.               *)
(***************************************************************************)
EXTENDS Integers, Sequences, FiniteSets, FiniteSetsExt, SequencesExt

CONSTANTS
    StallTimeout,   \* FORCE_UNDELEGATE_TIMEOUT_SLOTS
    CensorTimeout,  \* CENSORSHIP_ESCAPE_TIMEOUT_SLOTS
    VolumeCap,      \* room under max_oi_base_lots that settled lots leave
    MaxPlaced,      \* bound: resting orders, of one lot each, in a behaviour
    MaxFills,       \* bound: fills settled or pending
    Absent          \* no copy: the account is on L1

ASSUME RollupAssumption ==
    /\ StallTimeout \in Nat /\ CensorTimeout \in Nat
    /\ StallTimeout <= CensorTimeout
    /\ VolumeCap \in Nat \ {0} /\ MaxPlaced \in Nat /\ MaxFills \in Nat

VARIABLES
    home,     \* where each account is: "L1" or "ER"
    live,     \* [market, book, ring]: contents, where the account is
    snap,     \* contents L1 holds of a delegated account
    open,     \* some trader holds a position in this market
    placed,   \* history: resting orders placed so far, also the last order's name
    gone,     \* history: orders cancelled
    applied,  \* history: orders whose fill was settled, in order
    lagged,   \* history: an account came back older than it was
    legacy    \* history: the book was delegated before the program kept
              \* book_delegated and book_delegated_at_slot, and is still away

vars == <<home, live, snap, open, placed, gone, applied, lagged, legacy>>
history == <<placed, gone, applied, legacy>>

-----------------------------------------------------------------------------
Accounts == {"market", "book", "ring"}
Unset == -1
MaxAge == CensorTimeout + 1
Ages == {Unset} \cup 0..MaxAge

Market == live.market
Pending == live.ring.q

(* Where an instruction that writes the accounts of S can run.             *)
Together(S) == \E d \in {"L1", "ER"} : \A a \in S : home[a] = d
OnL1(S) == \A a \in S : home[a] = "L1"

Older(m) ==
    LET Age(n) == IF n = Unset THEN n ELSE Min({n + 1, MaxAge})
    IN  [m EXCEPT !.delegAge = Age(@), !.settleAge = Age(@), !.beatAge = Age(@)]

(* Deliberately wrong: a heartbeat keeps the escape shut for ever.         *)
ForceUndelegateAllowedStallOnly(m) ==
    LET signs == {m.settleAge, m.beatAge, m.delegAge} \ {Unset}
    IN  signs # {} /\ Min(signs) > StallTimeout

(* force_undelegate_allowed: no sign of life at all for the stall timeout, *)
(* or no settlement for the censorship timeout, whatever the heartbeat.    *)
ForceUndelegateAllowed(m) ==
    LET settles == {m.settleAge, m.delegAge} \ {Unset}
        signs   == settles \cup ({m.beatAge} \ {Unset})
    IN  \/ signs # {} /\ Min(signs) > StallTimeout
        \/ settles # {} /\ Min(settles) > CensorTimeout

(* A new market, or one whose book was already on the rollup, with a       *)
(* position open, when the trailing fields were added: they read as zero.  *)
Init ==
    /\ legacy \in BOOLEAN
    /\ home = [a \in Accounts |-> IF legacy /\ a = "book" THEN "ER" ELSE "L1"]
    /\ live = [market |-> [unsettled |-> 0, seq |-> 0, delegated |-> FALSE,
                           delegAge |-> Unset, settleAge |-> Unset, beatAge |-> Unset],
               book   |-> {},
               ring   |-> [settled |-> 0, q |-> <<>>]]
    /\ snap = [a \in Accounts |-> IF home[a] = "ER" THEN live[a] ELSE Absent]
    /\ open = legacy
    /\ placed = 0 /\ gone = {} /\ applied = <<>>
    /\ lagged = FALSE

-----------------------------------------------------------------------------
(* Trading, wherever the accounts are.                                     *)

(* place_limit_order writes the market and the book.                       *)
PlaceLimitOrder ==
    /\ placed < MaxPlaced
    /\ Together({"market", "book"})
    /\ live' = [live EXCEPT !.book = @ \cup {placed + 1}]
    /\ placed' = placed + 1
    /\ UNCHANGED <<home, snap, open, gone, applied, lagged, legacy>>

(* cancel_order writes the book and reads the market; on the rollup an     *)
(* undelegated market is a readable clone.                                 *)
CancelOrder(o) ==
    /\ o \in live.book
    /\ home.book = "ER" \/ OnL1({"market"})
    /\ live' = [live EXCEPT !.book = @ \ {o}]
    /\ gone' = gone \cup {o}
    /\ UNCHANGED <<home, snap, open, placed, applied, lagged, legacy>>

(* place_taker_order: takes a lot off the book, commits the fill to the    *)
(* ring and reserves its volume on the market, under the volume cap.       *)
PlaceTakerOrder(o) ==
    /\ o \in live.book /\ Len(applied) + Len(Pending) < MaxFills
    /\ Together(Accounts)
    /\ Market.unsettled + 1 <= VolumeCap
    /\ live' = [live EXCEPT !.book = @ \ {o},
                            !.ring.q = Append(@, o),
                            !.market.unsettled = @ + 1]
    /\ UNCHANGED <<home, snap, open, history, lagged>>

ReleaseVolume(n) == IF n > 0 THEN n - 1 ELSE 0

(* Deliberately wrong: the ring's owner is not looked at, so the copy L1   *)
(* has of a delegated ring is settled.                                     *)
ApplyFillAnyOwner(stays) ==
    LET away == home.ring = "ER"
        ring == IF away THEN snap.ring ELSE live.ring
        pop  == [settled |-> ring.settled + 1, q |-> Tail(ring.q)]
    IN  /\ OnL1({"market"})
        /\ ring.q # <<>>
        /\ IF away
           THEN /\ snap' = [snap EXCEPT !.ring = pop]
                /\ live' = [live EXCEPT !.market.seq = @ + 1,
                                        !.market.unsettled = ReleaseVolume(@),
                                        !.market.settleAge = 0]
           ELSE /\ UNCHANGED snap
                /\ live' = [live EXCEPT !.ring = pop,
                                        !.market.seq = @ + 1,
                                        !.market.unsettled = ReleaseVolume(@),
                                        !.market.settleAge = 0]
        /\ applied' = Append(applied, Head(ring.q))
        /\ open' = stays
        /\ UNCHANGED <<home, placed, gone, lagged, legacy>>

(* apply_fill: writes the market, the ring and positions.                  *)
ApplyFill(stays) ==
    /\ OnL1({"market", "ring"})
    /\ Pending # <<>>
    /\ live' = [live EXCEPT !.ring.settled = @ + 1,
                            !.ring.q = Tail(@),
                            !.market.seq = @ + 1,
                            !.market.unsettled = ReleaseVolume(@),
                            !.market.settleAge = 0]
    /\ applied' = Append(applied, Head(Pending))
    /\ open' = stays
    /\ UNCHANGED <<home, snap, placed, gone, lagged, legacy>>

(* Deliberately wrong: the drained check is inverted.                      *)
ReconcileInverted ==
    /\ Together({"market", "ring"})
    /\ Pending # <<>>
    /\ live' = [live EXCEPT !.market.unsettled = 0]
    /\ UNCHANGED <<home, snap, open, history, lagged>>

(* reconcile_unsettled_fill_volume                                         *)
ReconcileUnsettledFillVolume ==
    /\ Together({"market", "ring"})
    /\ Pending = <<>>
    /\ live' = [live EXCEPT !.market.unsettled = 0]
    /\ UNCHANGED <<home, snap, open, history, lagged>>

-----------------------------------------------------------------------------
(* Delegation.                                                             *)

(* cpi_delegate: L1 keeps the contents it hands over.                      *)
HandOver(a, contents) ==
    /\ home[a] = "L1"
    /\ home' = [home EXCEPT ![a] = "ER"]
    /\ snap' = [snap EXCEPT ![a] = contents]

(* delegate_market_book stamps the market, which must be on L1 for it.     *)
DelegateMarketBook ==
    /\ OnL1({"market"})
    /\ HandOver("book", live.book)
    /\ live' = [live EXCEPT !.market.delegated = TRUE, !.market.delegAge = 0]
    /\ UNCHANGED <<open, history, lagged>>

(* delegate_fill_commitment reads the market on L1.                        *)
DelegateFillCommitment ==
    /\ OnL1({"market"})
    /\ HandOver("ring", live.ring)
    /\ UNCHANGED <<live, open, history, lagged>>

DelegateMarket ==
    /\ HandOver("market", live.market)
    /\ UNCHANGED <<live, open, history, lagged>>

(* commit_market_book, commit_fill_commitment and the validator's own      *)
(* periodic commits, the only ones a market gets.                          *)
Commit(a) ==
    /\ home[a] = "ER"
    /\ snap' = [snap EXCEPT ![a] = live[a]]
    /\ UNCHANGED <<home, live, open, history, lagged>>

(* commit_and_undelegate_* and process_undelegation.  No instruction asks  *)
(* for the market; the validator may still return it.                      *)
Undelegate(a, final) ==
    LET back == IF final THEN live[a] ELSE snap[a]
    IN  /\ home[a] = "ER"
        /\ home' = [home EXCEPT ![a] = "L1"]
        /\ live' = [live EXCEPT ![a] = back]
        /\ snap' = [snap EXCEPT ![a] = Absent]
        /\ lagged' = (lagged \/ back # live[a])
        /\ legacy' = (legacy /\ a # "book")
        /\ UNCHANGED <<open, placed, gone, applied>>

(* Deliberately wrong: the book's owner is not looked at.                  *)
ClearBookDelegationAnyOwner ==
    /\ OnL1({"market"})
    /\ live.book = {}
    /\ live' = [live EXCEPT !.market.delegated = FALSE, !.market.delegAge = Unset]
    /\ UNCHANGED <<home, snap, open, history, lagged>>

(* clear_book_delegation: the authority, once an empty book is back.       *)
ClearBookDelegation ==
    /\ OnL1({"market", "book"})
    /\ live.book = {}
    /\ live' = [live EXCEPT !.market.delegated = FALSE, !.market.delegAge = Unset]
    /\ UNCHANGED <<home, snap, open, history, lagged>>

-----------------------------------------------------------------------------
(* Signs of life and the escape.                                           *)

(* er_heartbeat: the sequencer, wherever the market is.                    *)
ErHeartbeat ==
    /\ live' = [live EXCEPT !.market.beatAge = 0]
    /\ UNCHANGED <<home, snap, open, history, lagged>>

(* stamp_book_liveness_baseline: anyone, for a legacy book.                *)
StampBookLivenessBaseline ==
    /\ OnL1({"market"}) /\ home.book = "ER"
    /\ Market.delegAge = Unset
    /\ live' = [live EXCEPT !.market.delegAge = 0]
    /\ UNCHANGED <<home, snap, open, history, lagged>>

(* force_reduce_position_oracle: anyone, with a fresh oracle price at hand.*)
(* (force_undelegate_market_book runs the same gate and then always        *)
(* fails, so it changes nothing.)                                          *)
ForceReducePositionOracle ==
    /\ OnL1({"market"}) /\ home.book = "ER"
    /\ Market.delegated
    /\ ForceUndelegateAllowed(Market)
    /\ open
    /\ open' = FALSE
    /\ UNCHANGED <<home, live, snap, history, lagged>>

Tick ==
    /\ live' = [live EXCEPT !.market = Older(@)]
    /\ snap' = IF home.market = "ER" THEN [snap EXCEPT !.market = Older(@)] ELSE snap
    /\ UNCHANGED <<home, open, history, lagged>>

Settle == \E stays \in BOOLEAN : ApplyFill(stays)

Next ==
    \/ PlaceLimitOrder
    \/ \E o \in 1..MaxPlaced : CancelOrder(o)
    \/ \E o \in 1..MaxPlaced : PlaceTakerOrder(o)
    \/ Settle
    \/ ReconcileUnsettledFillVolume
    \/ DelegateMarketBook
    \/ DelegateFillCommitment
    \/ DelegateMarket
    \/ \E a \in Accounts : Commit(a)
    \/ \E a \in Accounts, final \in BOOLEAN : Undelegate(a, final)
    \/ ClearBookDelegation
    \/ ErHeartbeat
    \/ StampBookLivenessBaseline
    \/ ForceReducePositionOracle
    \/ Tick

Spec == Init /\ [][Next]_vars

(* Slots pass.  Settlement, reconciliation and the escape are open to      *)
(* anyone, so somebody keeps trying them; nobody else is obliged to act.   *)
Fairness ==
    /\ WF_vars(Tick)
    /\ WF_vars(Settle)
    /\ WF_vars(ReconcileUnsettledFillVolume)
    /\ WF_vars(ForceReducePositionOracle)
LiveSpec == Spec /\ Fairness

-----------------------------------------------------------------------------
MarketType == [unsettled : 0..VolumeCap, seq : 0..MaxFills, delegated : BOOLEAN,
               delegAge : Ages, settleAge : Ages, beatAge : Ages]
RingType(r) == r.settled \in 0..MaxFills /\ Range(r.q) \subseteq 1..placed

(* Every variable has its type, the copies L1 holds of delegated accounts  *)
(* included; counters never go below zero.                                 *)
TypeOK ==
    /\ home \in [Accounts -> {"L1", "ER"}]
    /\ Market \in MarketType /\ live.book \subseteq 1..placed /\ RingType(live.ring)
    /\ home.market = "ER" => snap.market \in MarketType
    /\ home.book = "ER" => snap.book \subseteq 1..placed
    /\ home.ring = "ER" => RingType(snap.ring)
    /\ open \in BOOLEAN /\ lagged \in BOOLEAN /\ legacy \in BOOLEAN
    /\ placed \in 0..MaxPlaced /\ gone \subseteq 1..placed

(* What was settled stays settled: whatever mix of delegations, commits    *)
(* and stale returns, the cursor of the ring and the nonce of the market   *)
(* both count exactly the fills that were applied, so no fill is settled   *)
(* again after a rollback.                                                 *)
SettlementDurable ==
    /\ live.ring.settled = Len(applied)
    /\ Market.seq = Len(applied)

(* Unless an account came back old, every order ever placed is in exactly  *)
(* one place: resting, cancelled, waiting in the ring or settled.          *)
Lots == applied \o Pending
LotsConserved ==
    ~lagged =>
        /\ live.book \cup gone \cup Range(Lots) = 1..placed
        /\ Cardinality(live.book) + Cardinality(gone) + Len(Lots) = placed

(* Unless an account came back old, the reserved volume is the volume of   *)
(* the pending fills although counter and ring travel separately.          *)
CounterExact == ~lagged => Market.unsettled = Len(Pending)

(* Nothing is settled twice, lost or doubled on the way between the chains.*)
NothingLost == TypeOK /\ SettlementDurable /\ LotsConserved /\ CounterExact

(* A book handed over by this program always has its escape armed:         *)
(* whichever copy of the market comes back says that the book is delegated *)
(* and since when.                                                         *)
EscapeArmed ==
    home.book = "ER" /\ ~legacy =>
        /\ Market.delegated /\ Market.delegAge # Unset
        /\ home.market = "ER" => snap.market.delegated /\ snap.market.delegAge # Unset

(* A counter that leads the ring after a partial commit blocks new orders, *)
(* but never for good: once everything is back, the ring drains and the    *)
(* counter is reset.                                                       *)
Bricked == Market.unsettled >= VolumeCap /\ Len(Pending) < VolumeCap
CounterRecovers == <>[](\A a \in Accounts : home[a] = "L1") => []<>(~Bricked)

(* A position behind a book that never comes back is closed by the escape, *)
(* heartbeats or not, as long as the market itself is on L1.  A legacy     *)
(* book is left out: stamp_book_liveness_baseline starts its clock, but    *)
(* the escape also wants book_delegated, which only a delegation sets.     *)
TrapEnds == <>[](home.book = "ER" /\ home.market = "L1" /\ ~legacy) => []<>(~open)
=============================================================================
