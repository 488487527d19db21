---------------------------- MODULE Reservation -----------------------------
(***************************************************************************)
(* Collateral is withdrawn on L1 while the orders it backs rest on the     *)
(* rollup.  What ties the two together is an attestation per trader        *)
(* account: an off-chain cranker reads the rollup's book and ring, and     *)
(* writes the margin they reserve to L1, where every path that takes       *)
(* collateral out has to leave it behind.                                  *)
(*                                                                         *)
(* Modelled are the attestation instructions, the withdrawal, transfer,    *)
(* sweep and isolation gates, and the cranker with its memory of live      *)
(* reservations, reads that fail or find an old copy of the book,          *)
(* transactions that time out and land later, and restarts.                *)
(* The margin a position itself needs depends on prices and is left open   *)
(* (`floor`); so is when orders are placed, cancelled, filled and settled. *)
(***************************************************************************)
EXTENDS Integers, FiniteSets, FiniteSetsExt, Functions

CONSTANTS
    TraderAccounts,     \* trader_state accounts
    Amounts,      \* what an owner moves at once
    Margins,      \* initial margin of an order
    Floors,       \* max(IM_required, notional floor) of open positions
    MaxVault,     \* bound: deposits stop here
    MaxOrders,    \* bound: orders of a behaviour
    MaxResets,    \* bound: attestation resets of a behaviour
    MaxFaults,    \* bound: failed reads, transactions given up, lost commits, restarts
    None

ASSUME ReservationAssumption ==
    /\ IsFiniteSet(TraderAccounts)
    /\ Amounts \cup Margins \subseteq Nat \ {0}
    /\ Floors \subseteq Nat
    /\ {MaxVault, MaxOrders, MaxResets, MaxFaults} \subseteq Nat
    /\ None \notin TraderAccounts

VARIABLES
    coll,      \* collateral_quote_lots
    iso,       \* collateral of the isolated position
    exposed,   \* open_positions > 0
    ready,     \* er_margin_ready: the attestation account exists
    reserved,  \* reserved_margin_quote_lots
    epoch,     \* epoch of the attestation
    active,    \* er_active
    backed,    \* margin of resting orders and unsettled fills
    bookDelegated, \* market.book_delegated
    l1Copy,    \* while the book, ring and outbox are on the rollup: what their
               \* accounts on L1 still hold of `backed`; None when they are back
    sameWallet,\* are the accounts main and sub of one wallet?
    vault,
    want,      \* cranker: what the current pass still has to attest
    tx,        \* cranker: the transaction it is waiting for
    known,     \* cranker: liveReservations
    wire,      \* attestations it gave up on that may still land
    resets,    \* history: resets of an account so far
    late,      \* history: accounts written by an attestation given up on,
               \* since the cranker last read the chain
    ordered,   \* bound
    faults   \* bound

l1      == <<coll, iso, exposed, ready, reserved, epoch, active, vault, resets>>
cranker == <<want, tx, known, wire, late, faults>>
scene   == <<sameWallet, bookDelegated, l1Copy>>
resVars == <<l1, backed, scene, cranker, ordered>>

Sum(f) == SumFunctionOnSet(f, TraderAccounts)
Attestations == [acct : TraderAccounts, amount : Nat, epoch : Nat, gen : Nat]

-----------------------------------------------------------------------------
(* Attestation instructions.                                               *)
InitErMarginAttestation(a) ==
    /\ ~ready[a]
    /\ ready' = [ready EXCEPT ![a] = TRUE]
    /\ reserved' = [reserved EXCEPT ![a] = 0]
    /\ epoch' = [epoch EXCEPT ![a] = 0]
    /\ UNCHANGED <<coll, iso, exposed, active, vault, resets>>
    /\ UNCHANGED <<backed, scene, cranker, ordered>>

AdvanceEpoch(current, proposed) == proposed > current

AttestErReservedMargin(m) ==
    /\ AdvanceEpoch(epoch[m.acct], m.epoch)
    /\ epoch' = [epoch EXCEPT ![m.acct] = m.epoch]
    /\ reserved' = [reserved EXCEPT ![m.acct] = m.amount]
    /\ active' = [active EXCEPT ![m.acct] = m.amount > 0]
    /\ UNCHANGED <<coll, iso, exposed, ready, vault, resets, backed, scene, ordered>>

(* Deliberately wrong: the reset keeps the epoch.                          *)
ResetErMarginAttestationKeepsEpoch(a) ==
    /\ ready[a]
    /\ Sum(resets) < MaxResets
    /\ reserved' = [reserved EXCEPT ![a] = 0]
    /\ active' = [active EXCEPT ![a] = FALSE]
    /\ resets' = [resets EXCEPT ![a] = @ + 1]
    /\ UNCHANGED <<coll, iso, exposed, ready, epoch, vault>>
    /\ UNCHANGED <<backed, scene, cranker, ordered>>

ResetErMarginAttestation(a) ==
    /\ ready[a]
    /\ Sum(resets) < MaxResets
    /\ reserved' = [reserved EXCEPT ![a] = 0]
    /\ epoch' = [epoch EXCEPT ![a] = @ + 1]
    /\ active' = [active EXCEPT ![a] = FALSE]
    /\ resets' = [resets EXCEPT ![a] = @ + 1]
    /\ UNCHANGED <<coll, iso, exposed, ready, vault, backed, scene, cranker, ordered>>

-----------------------------------------------------------------------------
(* Collateral in, and the paths out.                                       *)
Moves(newColl, newIso, newVault) ==
    /\ coll' = newColl
    /\ iso' = newIso
    /\ vault' = newVault
    /\ UNCHANGED <<exposed, ready, reserved, epoch, active, resets>>
    /\ UNCHANGED <<backed, scene, cranker, ordered>>

DepositCollateral(a, n) ==
    /\ vault + n <= MaxVault
    /\ Moves([coll EXCEPT ![a] = @ + n], iso, vault + n)

CheckSimpleWithdraw(c, n, r) == n <= c /\ c - n >= r

(* resolve_er_reserved: the owner may pass the attestation or leave it out *)
(* while the account is not active.                                        *)
ResolveErReserved(a) ==
    (IF ready[a] THEN {reserved[a]} ELSE {}) \cup (IF active[a] THEN {} ELSE {0})

TakeOut(a, n) == n <= vault /\ Moves([coll EXCEPT ![a] = @ - n], iso, vault - n)

WithdrawCollateral(a, n) ==
    /\ ~active[a]
    /\ ~exposed[a]
    /\ n <= coll[a]
    /\ TakeOut(a, n)

WithdrawCollateralXdomain(a, n) ==
    /\ ready[a]
    /\ ~exposed[a]
    /\ CheckSimpleWithdraw(coll[a], n, reserved[a])
    /\ TakeOut(a, n)

(* partial_withdraw_core, entered with a reservation of 0 by the strict    *)
(* instruction and with the attested one by the other.                     *)
PartialWithdrawCore(a, n, floor, r) ==
    /\ n <= coll[a]
    /\ exposed[a] \/ floor = 0
    /\ coll[a] - n >= floor + r
    /\ TakeOut(a, n)
PartialWithdrawCollateral(a, n, floor) == ~active[a] /\ PartialWithdrawCore(a, n, floor, 0)
PartialWithdrawCollateralXdomain(a, n, floor) ==
    ready[a] /\ PartialWithdrawCore(a, n, floor, reserved[a])

(* transfer_main_to_sub, transfer_sub_to_main *)
Transfer(a, b, n) ==
    /\ sameWallet /\ a # b
    /\ ~exposed[a]
    /\ \E r \in ResolveErReserved(a) : CheckSimpleWithdraw(coll[a], n, r)
    /\ Moves([coll EXCEPT ![a] = @ - n, ![b] = @ + n], iso, vault)

(* Deliberately wrong: with positions open only their margin stays behind. *)
SweepCollateralPositionsOnly(a, b, n, floor) ==
    /\ ~sameWallet /\ a # b
    /\ \E r \in ResolveErReserved(a) :
         IF exposed[a] THEN coll[a] - n >= floor
         ELSE floor = 0 /\ CheckSimpleWithdraw(coll[a], n, r)
    /\ Moves([coll EXCEPT ![a] = @ - n, ![b] = @ + n], iso, vault)

SweepCollateral(a, b, n, floor) ==
    /\ ~sameWallet /\ a # b
    /\ \E r \in ResolveErReserved(a) :
         IF exposed[a] THEN coll[a] - n - r >= floor
         ELSE floor = 0 /\ CheckSimpleWithdraw(coll[a], n, r)
    /\ Moves([coll EXCEPT ![a] = @ - n, ![b] = @ + n], iso, vault)

SetPositionIsolated(a, n) ==
    /\ ~active[a]
    /\ exposed[a] /\ iso[a] = 0
    /\ n <= coll[a]
    /\ Moves([coll EXCEPT ![a] = @ - n], [iso EXCEPT ![a] = n], vault)
SetPositionCross(a) ==
    /\ iso[a] > 0
    /\ Moves([coll EXCEPT ![a] = @ + iso[a]], [iso EXCEPT ![a] = 0], vault)

-----------------------------------------------------------------------------
(* The book's side.  Intake wants the attestation account while the book   *)
(* is delegated and, unless the order reduces a position, the initial      *)
(* margin of this order alone.                                             *)
PlaceOrder(a, m) ==
    /\ ordered < MaxOrders
    /\ bookDelegated => ready[a]
    /\ exposed[a] \/ coll[a] >= m
    /\ backed' = [backed EXCEPT ![a] = @ + m]
    /\ ordered' = ordered + 1
    /\ UNCHANGED <<l1, scene, cranker>>

(* An order leaves the book, or its fill is settled and moves a position;  *)
(* a settlement may cost the account collateral.                           *)
OrderGone(a, m) ==
    /\ m <= backed[a]
    /\ backed' = [backed EXCEPT ![a] = @ - m]
    /\ UNCHANGED <<l1, scene, cranker, ordered>>
SettleFill(a, m, loss) ==
    /\ m <= backed[a]
    /\ backed' = [backed EXCEPT ![a] = @ - m]
    /\ exposed' \in {[exposed EXCEPT ![a] = b] : b \in BOOLEAN}
    /\ coll' = [coll EXCEPT ![a] = @ - loss]
    /\ loss <= coll[a]
    /\ UNCHANGED <<iso, ready, reserved, epoch, active, vault, resets>>
    /\ UNCHANGED <<scene, cranker, ordered>>

-----------------------------------------------------------------------------
(* The book, with whatever rests on it, its ring and its outbox go to the  *)
(* rollup (delegate_market_book asks nothing of the owners of its orders), *)
(* are committed to L1 from time to time, and come back in their final     *)
(* state or, after a lost commit, in the committed one.  The flag stays    *)
(* until the authority clears it, which needs a book without orders; fills *)
(* may still be pending, and `backed` does not tell the two apart.         *)
Fault == faults < MaxFaults /\ faults' = faults + 1
DelegateBook ==
    /\ l1Copy = None
    /\ l1Copy' = backed
    /\ bookDelegated' = TRUE
    /\ UNCHANGED <<l1, backed, sameWallet, cranker, ordered>>
CommitBook ==
    /\ l1Copy # None
    /\ l1Copy' = backed
    /\ UNCHANGED <<l1, backed, sameWallet, bookDelegated, cranker, ordered>>
ReturnBook ==
    /\ l1Copy # None
    /\ l1Copy' = None
    /\ UNCHANGED <<l1, backed, sameWallet, bookDelegated, cranker, ordered>>
LoseCommit ==
    /\ l1Copy # None
    /\ l1Copy' = None
    /\ backed' = l1Copy
    /\ Fault
    /\ UNCHANGED <<l1, sameWallet, bookDelegated, want, tx, known, wire, late, ordered>>
ClearDelegation ==
    /\ l1Copy = None
    /\ bookDelegated' = FALSE
    /\ UNCHANGED <<l1, backed, sameWallet, l1Copy, cranker, ordered>>

-----------------------------------------------------------------------------
Zero == [a \in TraderAccounts |-> 0]
Never == [a \in TraderAccounts |-> FALSE]

(* The cranker.  A pass reads all orders and unsettled fills at once, adds *)
(* what it remembers as live and no longer sees, and then attests account  *)
(* by account, each time waiting for its transaction.                      *)
Idle == tx = None /\ DOMAIN want = {}
Pass(seen) ==
    /\ Idle
    /\ want' = [a \in {b \in TraderAccounts : seen[b] > 0} \cup known |-> seen[a]]
    /\ UNCHANGED <<l1, backed, scene, tx, known, wire, late, ordered>>
StartPass == Pass(backed) /\ UNCHANGED faults

(* A market that cannot be read or decoded is left out of the pass, which  *)
(* goes on with the rest: what it remembers is no longer seen.  A rollup   *)
(* that does not answer leaves it with the copy on L1.                     *)
SkipMarket == Pass(Zero) /\ Fault
ReadStaleCopy == l1Copy # None /\ Pass(l1Copy) /\ Fault

Remember(a, n) == IF n > 0 THEN known \cup {a} ELSE known \ {a}
Done(a) == Restrict(want, DOMAIN want \ {a})

(* Deliberately wrong: the transaction repeats the epoch on chain.         *)
NextAttestationStale(a) ==
    [acct |-> a, amount |-> want[a], epoch |-> epoch[a], gen |-> resets[a]]
NextAttestation(a) ==
    [acct |-> a, amount |-> want[a], epoch |-> epoch[a] + 1, gen |-> resets[a]]

(* The account on chain: missing, nothing to do, or a transaction with the *)
(* next epoch.                                                             *)
Skip(a) == want' = Done(a) /\ UNCHANGED <<known, tx>>
Fetch(a) ==
    /\ tx = None
    /\ a \in DOMAIN want
    /\ \/ ~ready[a] /\ Skip(a)
       \/ /\ ready[a] /\ reserved[a] = want[a]
          /\ known' = Remember(a, want[a])
          /\ want' = Done(a)
          /\ UNCHANGED tx
       \/ /\ ready[a] /\ reserved[a] # want[a]
          /\ tx' = NextAttestation(a)
          /\ UNCHANGED <<known, want>>
    /\ UNCHANGED <<l1, backed, scene, wire, late, faults, ordered>>

(* A fetch that fails for any other reason passes for a missing account.   *)
FetchFails(a) ==
    /\ tx = None
    /\ a \in DOMAIN want
    /\ Skip(a)
    /\ Fault
    /\ UNCHANGED <<l1, backed, scene, wire, late, ordered>>

(* The transaction lands and is confirmed, or fails.                       *)
Confirmed ==
    /\ tx # None
    /\ AttestErReservedMargin(tx)
    /\ known' = Remember(tx.acct, tx.amount)
    /\ want' = Done(tx.acct)
    /\ tx' = None
    /\ UNCHANGED <<wire, late, faults>>
Rejected ==
    /\ tx # None
    /\ ~AdvanceEpoch(epoch[tx.acct], tx.epoch)
    /\ want' = Done(tx.acct)
    /\ tx' = None
    /\ UNCHANGED <<l1, backed, scene, known, wire, late, faults, ordered>>

(* It is given up, and may land later or never.                            *)
TimedOut ==
    /\ tx # None
    /\ Fault
    /\ wire' = wire \cup {tx}
    /\ want' = Done(tx.acct)
    /\ tx' = None
    /\ UNCHANGED <<l1, backed, scene, known, late, ordered>>
LandsLate(m) ==
    /\ AttestErReservedMargin(m)
    /\ wire' = wire \ {m}
    /\ late' = late \cup {m.acct}
    /\ UNCHANGED <<want, tx, known, faults>>

(* reconcileStartup *)
Restart ==
    /\ want' = [a \in {} |-> 0]
    /\ known' = {a \in TraderAccounts : reserved[a] > 0}
    /\ tx' = None
    /\ late' = {}
    /\ wire' = IF tx = None THEN wire ELSE wire \cup {tx}
    /\ Fault
    /\ UNCHANGED <<l1, backed, scene, ordered>>

-----------------------------------------------------------------------------
ResInit ==
    /\ coll = Zero /\ iso = Zero /\ reserved = Zero /\ epoch = Zero /\ backed = Zero
    /\ exposed = Never /\ ready = Never /\ active = Never
    /\ resets = Zero
    /\ sameWallet \in BOOLEAN
    /\ bookDelegated = FALSE /\ l1Copy = None
    /\ vault = 0 /\ ordered = 0 /\ faults = 0
    /\ want = [a \in {} |-> 0] /\ tx = None /\ known = {} /\ wire = {} /\ late = {}

Owner ==
    \/ \E a \in TraderAccounts, n \in Amounts :
         \/ DepositCollateral(a, n)
         \/ WithdrawCollateral(a, n)
         \/ WithdrawCollateralXdomain(a, n)
         \/ SetPositionIsolated(a, n)
         \/ \E floor \in Floors :
              \/ PartialWithdrawCollateral(a, n, floor)
              \/ PartialWithdrawCollateralXdomain(a, n, floor)
         \/ \E b \in TraderAccounts :
              \/ Transfer(a, b, n)
              \/ \E floor \in Floors : SweepCollateral(a, b, n, floor)
    \/ \E a \in TraderAccounts : SetPositionCross(a)

Rolls ==
    \E a \in TraderAccounts, m \in Margins :
      \/ PlaceOrder(a, m)
      \/ OrderGone(a, m)
      \/ \E loss \in {0} \cup Amounts : SettleFill(a, m, loss)

Moving ==
    \/ DelegateBook
    \/ CommitBook
    \/ ReturnBook
    \/ LoseCommit
    \/ ClearDelegation

Crank == StartPass \/ (\E a \in TraderAccounts : Fetch(a)) \/ Confirmed \/ Rejected

ResNext ==
    \/ Owner
    \/ Rolls
    \/ Moving
    \/ Crank
    \/ SkipMarket \/ ReadStaleCopy \/ (\E a \in TraderAccounts : FetchFails(a))
    \/ TimedOut \/ Restart \/ (\E m \in wire : LandsLate(m))
    \/ \E a \in TraderAccounts : InitErMarginAttestation(a) \/ ResetErMarginAttestation(a)

(* The cranker loops for ever; it reads the market where it is, and what   *)
(* it sends is confirmed or refused, except for finitely many faults.      *)
ResSpec == ResInit /\ [][ResNext]_resVars /\ WF_resVars(Crank)

-----------------------------------------------------------------------------
(* Balances are amounts on every path, and in-flight attestations are      *)
(* about existing accounts.                                                *)
ResTypeOK ==
    /\ {coll, iso, reserved, epoch, backed, resets} \subseteq [TraderAccounts -> Nat]
    /\ {exposed, ready, active} \subseteq [TraderAccounts -> BOOLEAN]
    /\ sameWallet \in BOOLEAN /\ bookDelegated \in BOOLEAN
    /\ l1Copy = None \/ l1Copy \in [TraderAccounts -> Nat]
    /\ vault \in 0..MaxVault
    /\ ordered \in 0..MaxOrders /\ faults \in 0..MaxFaults
    /\ late \subseteq TraderAccounts
    /\ known \subseteq {a \in TraderAccounts : ready[a]}
    /\ DOMAIN want \subseteq TraderAccounts
    /\ wire \cup ({tx} \ {None}) \subseteq Attestations

(* Whatever path the owner takes, through whichever account and however    *)
(* attestations, resets and restarts fall in between: a step that only     *)
(* moves collateral leaves an account that lost some with its reservation. *)
(* (withdraw, partial withdraw, transfer, sweep, isolate)                  *)
Claims == Sum(coll) + Sum(iso) - vault
OwnerLeavesReserved ==
    [][\A a \in TraderAccounts :
         coll'[a] < coll[a] /\ Claims' = Claims => coll'[a] >= reserved[a]]_resVars

(* Once the authority has reset an attestation, nothing sent before can    *)
(* still pass the epoch check.  (reset_er_margin_attestation)              *)
ResetSticks ==
    \A m \in wire \cup ({tx} \ {None}) :
      m.gen < resets[m.acct] => ~AdvanceEpoch(epoch[m.acct], m.epoch)

(* What the chain and the wire hold about an account is sound: types, and  *)
(* no attestation from before a reset that could still land.               *)
AttestationsSound == ResTypeOK /\ ResetSticks

(* The reservation catches up with the orders: margin that stays reserved  *)
(* on the book is attested for good, through time-outs, late landings,     *)
(* resets, restarts, unread markets and stale copies.  An owner whose      *)
(* order was placed before the book was delegated need not have an         *)
(* attestation account; the cranker passes it over until it has.           *)
(* (attestation_cranker.mjs)                                               *)
ReservationCatchesUp ==
    \A a \in TraderAccounts, n \in Margins :
      <>[](backed[a] = n /\ ready[a]) => <>[](reserved[a] = n)

(* Once the orders are gone the collateral is free again, unless an        *)
(* attestation the cranker had given up on landed behind its back.         *)
ReservationFreed ==
    \A a \in TraderAccounts :
      <>[](backed[a] = 0 /\ a \notin late) => <>[](reserved[a] = 0)

(* Reservations follow the orders, up and down.                            *)
ReservationsFollowOrders == ReservationCatchesUp /\ ReservationFreed

(* "Anything previously live but no longer wanted must be attested to      *)
(* zero."  (attestation_cranker.mjs:261)                                   *)
ReservationAlwaysFreed ==
    \A a \in TraderAccounts : <>[](backed[a] = 0) => <>[](reserved[a] = 0)
=============================================================================
