# A TLA+ model of flash-book

flash-book (program `clober`) is a perpetual-futures exchange on Solana. Orders
rest in an on-chain book that is usually delegated to a MagicBlock ephemeral
rollup (ER); matching happens there, positions and collateral stay on L1. A
match therefore only *commits* a fill, and somebody settles it later, somewhere
else. Most of what can go wrong lives in that gap, and so does most of this
development.

`lib.rs` below is `src/programs/clober/src/lib.rs`; other files are named
relative to that directory.

## 1. Inventory

| Component | State | Operations | Interacts with | Correct when |
|---|---|---|---|---|
| Fill-commitment ring (`matcher/fill_commitment.rs`) | capacity, slots, reduce flags, in-flight map, `produced`/`settled` cursors | init, push (taker), pop (apply_fill, apply_lp_fill), grow, reconcile | matcher, settlement, rollup | every crossed fill settles once, in order, with the terms it was crossed at |
| Fill outbox (`matcher/fill_outbox.rs`) | slots, mirrored cursors | init, write, grow | matcher, off-chain sequencer | a delivered fill is readable until it is settled |
| Resting book (`book_state.rs`) | tree, cached best pointers, node arena, order-sequence counter | insert, remove, decrement, expand, reseat | every order instruction | caches and arena agree with the tree, ids rank orders |
| Matching engine (`place_taker_order`) | none of its own | walk with budgets, expiry, self-trade prevention, reduce-only caps | book, ring, market | price-time priority, no crossed residual, limits hold for what is still unsettled |
| Settlement (`apply_fill`, `apply_lp_fill`) | positions, open interest, nonce | settle, breaker | ring, market, collateral, insurance | counters follow positions, a committed fill is refused for named reasons only |
| Liquidation, deleveraging (`liquidate_position`, `auto_deleverage`) | positions, injected orders | inject, retire, reduce pairs | book, settlement | a liquidation order leaves only by fill or retirement |
| Rollup lifecycle (`er.rs`, lib.rs 548–1240) | account owners, liveness stamps | delegate, commit, return, heartbeat, stamp, clear, force-reduce | everything | nothing settled twice, no lot lost, no trader trapped |
| Market status, governance (lib.rs 7041–7960) | status, params, proposals, authority | set status, guardian, timelock, transfer, burn | intake | restrictions only tighten by whom they may; Closed stays closed |
| Collateral, withdrawals, attestation (lib.rs 3790–5250) | collateral, buckets, reserved margin, epochs | deposit, withdraw (4 paths), attest, transfer, isolate | vault, rollup | the vault covers every claim; withdrawals respect what the rollup has reserved |
| Insurance, fees, haircut, funding | balances, indices | contribute, cover, accrue, claim, convert | collateral | value is conserved |
| LP pools and quoter (`matcher/lp_quoter.rs`, lib.rs 2900–3640, 8800–9400) | capital, shares, inventory, the mode lock, quotes | deposit, withdraw, refresh or post quotes, settle, record a fill | book, ring, oracle | shares are backed, nobody who stays is diluted, one system at a time |
| Vaults, copy vaults (`matcher/vault_math.rs`) | shares, collateral, high-water mark | create, deposit, withdraw, trade, fee | collateral, book | no dilution, no gain charged twice |
| Red-black slab (`hypertree/`) | nodes, roots, free list | insert, remove, look up, walk, validate | book, rollup | an ordered index; no slot lost or handed out twice |
| Conditional orders (trigger, TWAP, iceberg, bracket, basket), JIT offers | order accounts | place, keeper-execute, cancel | book | each executes at most for its size, and not after a cancel |
| Committee (`matcher/committee.rs`) | members, threshold, jail bits, last batch | rotate, commit batch, slash | sequencer | no gap, no unpunishable fork, no honest member jailed |
| Oracle adapters, envelope (`matcher/envelope.rs`) | price, publish time, gate memory, source lock, mark | direct, quorum, Pyth and Lazer updates, lock, settle mark | settlement, liquidation, LP | an accepted move is survivable, no print is replayed, the mark is fresh |
| Session keys, permissions, crankers | expiry | - | - | authorisation only |

What makes the system hard to test: settlement runs against state that moved
since the match; anyone may call most cranks, in any order; three accounts that
belong together travel between two chains one at a time and may come back old;
fixed-capacity structures wrap, fill up and are resized while in use; time
enters through expiries, staleness limits and two escape timeouts. `PROJECT.json`
lists these hazards one by one with their lines.

## 2. Modules

| Module | What it models |
|---|---|
| `FillQueue` | abstract specification: a FIFO of fills, `Match` appends, `Settle` moves the head to `done` |
| `FillRing` | the ring and the outbox at slot level |
| `Settlement` | one market between match and settlement: positions, open interest, reservations, status, oracle |
| `MarketBook` | the book account and all instructions that place, cross, cancel, replace, reap and retire orders |
| `Rollup` | market, book and ring between L1 and the rollup |
| `Ledger` | the money of a market: collateral, buckets, positions with their entries, fees, funding, insurance, haircut, vault |
| `Reservation` | margin attestation between the rollup and L1, the paths out of an account, and the attestation cranker |
| `OrderIndex` | abstract specification: per side, the resting ids in the order the matcher meets them |
| `Hypertree` | the node slab: two red-black trees and a free list, and the check of a book that returns from the rollup |
| `Conditional` | triggers, brackets, TWAPs and icebergs between owner, keepers, oracle and settlement |
| `LpPool` | the single LP pool and the per-market pools, their quotes and settled fills |
| `Vaults` | strategy vault and copy vault |
| `Governance` | authority, guardian, status, timelocked parameters |
| `OracleFeed` | oracle price, envelope gate, source lock, mark |
| `Committee` | sequencer committee, batches, slashing |
| `SumTheorems` | lemmas on sums over finite sets, division and rounding, which the proof modules share |
| `FillRingProofs`, `SettlementProofs`, `RollupProofs`, `LedgerProofs`, `LiquidityProofs`, `GovernanceProofs`, `ConditionalProofs` | TLAPS proofs: ring and outbox; positions and open interest; accounts between two chains and margin attestation; money; the resting book, LP pools and vaults; governance, committee and oracle; conditional orders |
| `MC*` | instances for TLC; `MCPools` composes `LpPool` and `Vaults`, `MCGovernance` composes `Governance`, `OracleFeed` and `Committee` |

The modules meet at named seams: `FillRing` implements the queue that `Settlement`,
`Rollup` and `Conditional` use; `Hypertree` implements the ordered index that
`MarketBook` uses as a set of orders; `LpPool` settles the fills whose place in the
ring is in `Settlement`; `Governance` says who may move the status that
`Settlement` and `MarketBook` take as given; `OracleFeed` is where the price of
`Settlement`, `LpPool` and `Conditional` comes from.

A Solana instruction takes effect as a whole or reverts, so an action is a whole
handler and a rejected call is a stuttering step that is not written down. A
definition whose comment begins *Deliberately wrong* is a mutated handler: it is
used only to show that a property notices that bug and is not part of any
next-state relation.

### FillRing

`slots`, `flags`, `inflight`, `cap`, `produced`, `settled` are the ring account;
`outCap`, `outbox`, `outProduced`, `outSettled` the outbox; `lastSeq`,
`unsettled`, `maxBatch` three fields of the market. A commitment is the pair of a
fill and its index, the content of the keccak preimage (`fill_preimage`); hashes
are taken to be collision free. `pushed` and `applied` are history variables.
`PlaceTakerOrder` is the produce block of the taker instruction (all fills of a
batch or none, in-flight map full ⇒ revert, outbox optional while the batch is
log-safe). `ApplyFill` and `ApplyLpFill` take *any* claimed fill and nonce, as any
caller may. Absolute cursors are u64 and are not wrapped.

`QueueSpec` states that the ring implements `FillQueue` with the refinement
mapping "read the pending commitments out of the slots in cursor order".

### Settlement

The ring is the queue `FillRing` implements, the book is a choice of makers. The
reduce-only logic (`check_reduce_only`, in-flight reservations), the OI-cap check
at intake with `unsettled_fill_volume`, `update_oi`, the insurance breaker, LP
price band and staleness, `auto_deleverage`, `force_reduce_position_oracle`,
`verify_market_invariants`, the effect of `set_market_status` (who may call it is in
`Governance`) and the status part of `clear_book_delegation` are handlers. `held` is
what refuses a committed fill beside the oracle: a permissionless market whose
authority has not started the haircut engine (lib.rs 5568, 9206), and for LP fills a
pool whose per-market slots are all taken (20840) and a rebate above the taker fee
(9313); `initialize_haircut_state`, parameter updates and fills of other markets change
it. Amounts of PnL, fees and margin refuse orders or move money and are not here. `mixed` is a history variable that says whether
something other than reduce-only maker fills is moving a position with pending
fills; `forced` that a position was closed against insurance.

### MarketBook

The red-black tree is a set of orders ordered by id (`Hypertree` has the tree); what
the header keeps beside it - best pointers, arena counts, sequence - is updated
the way `insert_*`, `remove_*_node` and `alloc_node` do. `EncodeOrderId` packs
price and sequence with saturation. `FromBest` and `InIdOrder` are
`for_each_best_first`: the walk starts at the cached best and the i-th order it meets
has i - 1 smaller ids before it, so a stale best pointer would hide orders in the
model as it would in the code. `Walk`, `RemoveAll` and `FillAll` are folds over such
sequences. `event` is a history variable for action properties; the `VIEW` of the
instances leaves it out, since no action reads it.

### Rollup

`home[a]` says where account `a` is written, `live[a]` is its contents there, and
`snap[a]` what L1 last received of it. An instruction runs where all accounts it
writes are (`Together`), settlement and recovery only on L1. `Undelegate(a, final)`
returns the account in its final or in its last committed state. Stamps are kept
as ages, capped just above the longest timeout, because the code only compares
the time since a stamp with a timeout. One clock is used for both chains. The
initial states include a market whose book was delegated before the program had
the trailing fields `book_delegated_at_slot` and `book_delegated`.

### Ledger

`acct[t]` holds a trader's cross pool, the isolated bucket of the position, its
signed size, entry price and funding anchor, and the two stages of the haircut
pipeline (reserve, matured). `pot` holds what is shared: insurance fund, accrued
fee shares, residual, the denominator of h, dust. `vault` is the token balance,
which only deposits, withdrawals and claims move. A handler is written as the
chain of steps of the code on a copy `m` of the claims, because each step samples
balances the one before it has changed: fees, funding of both legs, both
positions, then the PnL of each leg with its bad debt (`ChargeFees`,
`SettlePositionFunding`, `ApplyFillToPosition`, `RealizePnl`, `CoverBadDebt`).

Without the haircut a gain is credited at once, and what backs it is the loss of
somebody who may not have closed yet. `DirectBacked` therefore values every
position at its entry: claims minus the cost basis never exceed the vault plus the
bad debt that neither bucket nor fund covered (history `uncovered`), with the leg
the fund takes over in a forced reduction on the books of the house (`house`).
With the haircut, gains wait in the reserve and `HaircutSolvent` is the identity
of `haircut.rs`, V = C + I + Residual, as an inequality; `inherited` is how far
the residual the authority typed in exceeded it.

Left open: which margin assessments pass (they only refuse), when a reserve has
warmed up, the size of funding-index changes, the gates of the recovery (see
`Rollup`) and of rollup reservations. Fee terms, prices and marks are chosen from
small sets. The negative-fee branch is unreachable (lib.rs 5751) and left out. LP
capital is outside the vault, so `apply_lp_fill` is not an action here.

### Reservation

`backed[a]` is the margin that the orders and unsettled fills of a trader account
reserve on the rollup; `ready`, `reserved`, `epoch`, `active` are the attestation
and its flag in `trader_state`. Every instruction that takes collateral out of the
account is an action: two strict and two cross-domain withdrawals, transfers
between main and sub-account, the sweep between wallets, isolation. The cranker
(`sequencer/attestation_cranker.mjs`) is a process of its own: `want` is the rest
of the current pass, `tx` the transaction it waits for, `known` its
`liveReservations` map, `wire` what it gave up on. A pass reads the rollup once
and the chain account by account, so both may have moved when the attestation
lands. Intake wants the attestation only while `book_delegated` is set, and the book
goes to the rollup with whatever rests on it: an owner without an attestation is
passed over by the cranker until it has one. `l1Copy` is what L1 holds of book and
ring while they are away. A pass may fail to read or decode a market and go on
without it, or, when the rollup does not answer, read that copy
(attestation_cranker.mjs 127, 191, 245, 251): in both cases it attests accounts it
remembers and does not see to zero although they are live. These, failed fetches,
time-outs, lost commits and restarts are `Fault`s, of which a behaviour has finitely
many; a market that can never be decoded, or a cranker without an endpoint of the
rollup, is a fault that does not end and is excluded by that. What positions themselves
need is any member of `Floors`. `resets` and `late` are history variables.

### Hypertree and OrderIndex

`book` is the header and the slab: for each slot left, right, parent, colour and
id, the two roots, the cached bests, the free-list head, the bump pointer and the
number of live nodes. Insertion, removal with its swap and the double-black cases,
rotations, lookup and the best-first walk are operators over the slab, written
case by case as `red_black_tree.rs` does, with NIL links read as black. A freed
slot keeps its free-list link in `left`, as `free_list.rs` does. `walk` records
what `for_each_best_first` visits after each operation; `ImplementsIndex` states
that this is an `OrderIndex`. `Undelegate` brings the book back with one link,
index or colour changed, if `validate_node_links` lets it land. Of that check the
third root, of seats, is left out, since only the initialisation writes it, as NIL
(book_state.rs 836), and so is the range check of the colour byte: a colour of the
model is one of the two. Lookup and walks recurse, so this module is for TLC only.

### Conditional

`trig`, `twap` and `ice` are the order accounts of one sub-account, `book` its
resting orders, `queue` its fills between match and settlement. The owner places,
cancels, modifies and uses ids again; keepers fire triggers with any account as
the sibling, send slices and replenish; others cross, settle, reap, move the
oracle. `hist` counts how often each bracket has exited and remembers whether other
fills of the position were waiting.

### LpPool

`pool[p]` is capital, realized profit, shares and inventory of the single pool and
of each market's pool; `mode` is the lock that lets one of the two systems mint
shares; `quotes` the pool's orders on the book; `pending` matched LP fills. Deposits are
priced at NAV marked to the oracle, withdrawals without unrealized profit and after
a hold time. `GenerateQuotes` has the inventory skew and the growth limit of
`lp_quoter.rs` for one level; a refresh does not ask how old the oracle is, so it may
use any earlier price. `apply_lp_fill` refuses a rebate above the fee; its refusals for
a haircut engine that is off and for a pool without a slot are in `Settlement` and only
delay. `flow` is a history variable: cash in less cash out; for `record_lp_market_fill`,
which keeps books and moves no tokens, it counts what the entry stands for.

### Vaults

`vault` is the strategy vault with the trader state of its PDA, `copy` the copy
vault with the balance of its token account, to which anyone may send tokens.
Entries and exits, the strategist's orders, closed positions with their result, and
`settle_vault_perf_fee` with the high-water mark are actions.

### Governance

`authority`, `guardian`, `transfer` (pending two-step handover) and `update`
(pending parameter change) belong to a market; `book` says where the book account is
and whether orders rest in it, which teardown asks. Every instruction is signed by
some key. Of the parameters the model keeps one measurement primitive, the staleness
bound and the two margin ratios; a parameter hash is the parameters. `offered` and
`announced` are history variables.

### OracleFeed

`oracle`, `mark`, `env` (the envelope account) and `feed` (source and nonce) are the
accounts, `prints` what publishers have signed: a print stays valid and anyone may
submit it at any time. `ProveEnvelope` is `prove_envelope` with its three probe
sizes; its funding term has the form of the price term and is left out. A bound of zero
(age, confidence, dispersion) switches its gate off, as in the code. Scaling of prices
and the conversion of microseconds are left out: prices are in ticks and times in
seconds. `apply_fill` also moves the mark, by the price of the fill and within a band round
the oracle (lib.rs 6520, 6590); that is not an action here, and what is said of the mark is about `settle_mark`. `made` is a history
variable: when the price was really made.

### Committee

`committee` is epoch, validators, threshold and jailed slots, `chain` the last
batch, `signed` all signatures in existence. Faulty validators sign any header of any epoch,
members or not, on any root; the others sign one header per height on the root they know. Digests are collision free.

## 3. Runs

| Run | Properties | Bounds |
|---|---|---|
| `fill_ring` | `PendingIntact`, `ExactlyOnceFifo`: no pending commitment is overwritten, orphaned or settled out of turn; `CountersExact`: nonce, reservations and volume counter follow the ring; `OutboxDelivers`; `QueueSpec`: refinement to `FillQueue` | batches of 2 on rings of 1-4 slots and 4 fills: full ring inside a batch, wrap-around, every resize, in-flight map of one entry full |
| `settlement` | `OiExact`: open interest follows positions and stays balanced; `OiCapHolds` although intake checks before settlement; `ReduceOnlyMakerSafe`; `FillsSettleOrWait`: a committed fill settles, or waits for the haircut engine or, as an LP fill, for oracle, slot or fee terms | 2 traders and a pool, an oracle in the band, outside it and stale, and either 3 fills of 1 or 2 lots in batches of up to 2 (cap 3: two pipelined fills can exceed it, a position of one lot can be reduced twice, the breaker trips) or 2 fills of 1 lot with every hold set and lifted at any time |
| `book` | `HeaderExact`: best cache, arena and id ranking; `TakerRespectsPriority`; `ResidualUncrossed`; `OrdersLeaveForCause` | 3 orders, sequence limit 3 (used to the last number, and reseated), arena of 1 node growing to 2 (full), match budget 1 and scan budget 2, slots before, at and after an expiry |
| `hypertree` | `TreesSound`: structure, red-black rules, lookup; `OwnBookLands`; `ImplementsIndex`: refinement to `OrderIndex` | slab of 10 slots, 11 ids, 3 operations from an empty book and from three books of 7 to 9 nodes, one thinned out to black nodes only, where a removal is handed up to the root |
| `rollup` | `NothingLost`: what was settled stays settled, no lot is lost or doubled, counter and ring agree; `EscapeArmed`; `CounterRecovers`; `TrapEnds` | 2 orders, 2 fills, timeouts 0 and 1, volume cap 1: the counter can be ahead of and behind the ring, each account can be returned old |
| `ledger` | `ClaimsBacked`, `HaircutSound`: claims on the vault stay covered in both regimes and no balance goes below zero; `IsolationProtectsCross`: a bucket shields the cross pool also in the step that uses it up | 2 traders, 2 fills of 1 or 2 lots at two prices: open, stack with a rounded average, shrink, close and flip; a vault of 2 lots, so that fees, losses and rewards meet empty buckets; one funding step of 1.5 lots, marks beyond bankruptcy on both sides; haircut enabled at any time |
| `reservation` | `OwnerLeavesReserved`: no owner path takes reserved margin; `AttestationsSound`: nothing sent before a reset lands after it; `ReservationsFollowOrders`: up and down, once the faults have stopped, for accounts that have an attestation | 2 accounts of one or two wallets with an order, one reset and a vault of 2 lots or two faults (an old and a new attestation race for one epoch), or one account alone with 2 orders and two faults of any kind; the book delegated and returned at any time |
| `conditional` | `AccountsSound`: a bracket exits once; `ExitsNeverOvershoot`: exits fit the position when they fire and never flip it when they settle; `TwapPaced`; `IcebergHidden` | 2 conditional orders out of a stop, an entry, a bracket, a TWAP of 3 lots in slices of 2, an iceberg of 4 showing 2; 3 resting orders, 2 fills, 3 slots, a position of 2 and 3 trigger ids, so that ids are used again and siblings are confused |
| `pools` | `LpAccountsSound`: shares are backed by cash and belong to one system; `LpNoDilution`; `VaultHoldersWhole`: nobody who stays is diluted, no gain is charged twice; `SharesSound` | 2 LPs with two deposits of 2 or 5, 2 fills of one lot, one oracle move between two prices; 2 depositors, 3 deposits, 4 trades with loss and gain, fees of a quarter and a half, one donation: shares that do not divide evenly |
| `governance` | `AuthorityByConsent`, `NoticeGiven`; `UpdateSurvivable`, `PricesGenuine`; `SlashingSound`, `CommitsHaveHonestSigner` | 3 keys, timelock 1 with the clock to 2, so that a proposal is replaced, vetoed and executed late; two prices, two confidences, envelopes of one and two slots and notionals to 40, two prints; 4 validators of whom 2 are faulty, committees of two to four, 2 epochs, 4 signatures, three batches, two of one height |
| `reduce_only_flip`, `reservation_forgotten` | statements of docs or comments the code does not satisfy; see section 6 | |

A property whose name joins several parts is their conjunction; each part is a
definition of its own with its comment, and the type invariant of the module is
always among them. The systems composed in `pools` and in `governance` share no
variable, so a behaviour drives one of them while the others stay as they were
created: their product would only repeat the same states. Four signatures do not make
two quorums of three: a fork is met in the committee of two, and for larger ones there
is `SlashingIsSound`. The bound of `MarkAgeBounded`, like those of the other gates, is
not zero in the run; the theorem covers zero.

The bounds are the smallest at which every guard is met from both sides, with one
exception: an order refused because the sequence is exhausted needs one order more
than `book` affords, and is covered by the theorems, where the limit is any natural.
Every action fires in a passing run. Deadlock checking is off because the bounds on
orders and fills stop every behaviour eventually. Symmetry is used over traders,
LPs and keys where no liveness is checked and no constant tells them apart.

**Fairness.** `Settlement` assumes weak fairness of the two settlement
instructions together: they are permissionless (lib.rs 5456, 9105) and the sequencer keeps
cranking them. `Rollup` assumes it of time, settlement, reconciliation and the
forced reduction, which anyone may call. Nothing is assumed of the sequencer, the
validator, the authority or the oracle: an account may stay away for ever, which
is why `CounterRecovers` and `TrapEnds` are conditional on where the accounts
finally are, and why `FillsSettleOrWait` names what a fill may wait for. `Reservation`
assumes that the cranker's loop keeps running, reads the market where it is, and that
its transactions are confirmed or refused, but for finitely many faults. Within `TrapEnds` a fresh oracle price is assumed to be available. Keepers
of conditional orders and of LP quotes, publishers and governance keys are obliged
to nothing, so those modules make safety claims only.

## 4. Proofs

Every theorem is about the specification TLC runs, for every value of the
constants. Bounds such as `MaxFills` or `MaxProduced` stay in the guards but are any
natural, so nothing rests on their size. The assumptions are the named `ASSUME`s of
the modules: amounts, sizes and prices are naturals, positive where the code refuses
zero, denominators are positive, special values are not members of the sets they
stand beside, and the sets that are summed over (traders, depositors, LPs, markets)
are finite.

| Module | Theorem | States |
|---|---|---|
| `FillRingProofs` | `PendingNeverLost` | `[]PendingIntact` |
| | `FillsSettleExactlyOnce` | `[]ExactlyOnceFifo` |
| | `NonceIsCursor` | `[]SeqTracksRing` |
| | `CountersFollowTheRing` | `[]CountersExact` |
| | `OutboxKeepsPendingFills` | `[]OutboxDelivers` |
| | `RingImplementsQueue` | `Spec => QueueSpec`, the refinement of `FillQueue` |
| `SettlementProofs` | `OpenInterestIsExact` | `[]OiExact` |
| | `OpenInterestIsCapped` | `[]OiCapHolds` |
| | `ReduceOnlyFitsThePosition` | `[]ReduceOnlyMakerSafe` |
| `RollupProofs` | `SettlementSurvivesTheRollup` | `[]NothingLost` |
| | `EscapeStaysArmed` | `[]EscapeArmed` |
| | `AttestationsAreSound` | `[]AttestationsSound` |
| | `OwnersLeaveReserved` | `OwnerLeavesReserved` (action property) |
| `LedgerProofs` | `VaultCoversTheClaims` | `[]ClaimsBacked` |
| | `HaircutIsSolvent` | `[]HaircutSound` |
| | `IsolationIsKept` | `IsolationProtectsCross` (action property) |
| `LiquidityProofs` | `BookInvariance` | `[]BookInv`, the inductive invariant of `MarketBook` |
| | `HeaderStaysExact` | `[]HeaderExact` |
| | `TakersRespectPriority` | `TakerRespectsPriority` (action property) |
| | `ResidualsRestUncrossed` | `ResidualUncrossed` (action property) |
| | `OrdersLeaveOnlyForCause` | `OrdersLeaveForCause` (action property) |
| | `LpAccountsAreSound` | `[]LpAccountsSound` |
| | `LpsAreNotDiluted` | `LpNoDilution` (action property) |
| | `VaultSharesAreSound` | `[]SharesSound` |
| | `VaultHoldersStayWhole` | `VaultHoldersWhole` (action property) |
| `GovernanceProofs` | `AuthorityMovesByConsent` | `AuthorityByConsent` (action property) |
| | `ParametersChangeOnNotice` | `NoticeGiven` (action property) |
| | `SlashingIsSound` | `[]SlashingSound` |
| | `CommitsAreWitnessed` | `CommitsHaveHonestSigner` (action property) |
| | `PricesAreGenuine` | `PricesGenuine` (invariants and action properties) |
| | `AcceptedMoveIsSurvivable` | `UpdateSurvivable` (action property) |
| `ConditionalProofs` | `AccountsStaySound` | `[]AccountsSound` |
| | `TwapKeepsPace` | `[]TwapPaced` |
| | `IcebergStaysHidden` | `[]IcebergHidden` |
| | `ExitsFit` | `ExitsNeverOvershoot` (two action properties) |

**Ring.** That the head commitment is the fill pushed at index `settled` needs that no
push in between landed on its slot, which needs the cursor distance to be at most the
capacity; a resize needs that slots outside the live region are empty. `RingInv`
conjoins the types (`RingTypes`), "every pending index is in its slot"
(`PendingHeld`), "every other slot is clear" (`OthersClear`) and the two properties.
The arithmetic core is `ModInjective`: indices less than one capacity apart have
different residues. The counters are sums over the pending entries; a push appends to
that sequence and a settlement takes its head off, and the sum lemmas say what that
does. The outbox needs that it is at least as large as what can be pending and that a
pending fill written to it is in its slot. The refinement then follows: a taker's
batch is a `Match` of the abstract queue, a settlement its `Settle`, a resize,
reconciliation or any other step a stutter, read off the slots.

**Settlement.** Open interest is exact because `update_oi` changes each side by exactly
what the step does to the positions (`OiMatchesPositions`, a sum with one or two
changed summands). The cap is inductive only together with the volume counter being
the sum of the queue (`GapExact`), since settlement trades one for the other; the
reduce-only claim only together with what each pending maker fill will do to its
position (`GapSafe`).

**Rollup.** `NothingLost` says little about the copy L1 holds of an account that is away,
and a lost commit makes that copy the account. `RollupInv` asks the same of every copy
(`CopiesGood`), bounds the cursors, and keeps resting, cancelled and matched orders
apart (`LotsApart`).

**Reservation.** A reset outlives what was sent before it because everything in flight is at
most one epoch ahead of the chain (`EpochsAhead`), which needs that no account is created
under an attestation already in flight (`CrankerSound`). The strict paths ask only for
the flag in `trader_state`, so flag and attestation have to agree (`FlagAgrees`).

**Ledger.** A handler works on a copy `m` of the claims. Each stage (fees, funding, the
two legs, realized PnL, bad debt) has a lemma that says it keeps the copy well typed
and how it changes two measures: what is owed out of the vault and the cost of the
open positions. Entries are rounded against the trader, so the legs of a fill move
cost plus realized PnL by at most zero together; `ClosingCost` and `SignOfProduct` in
`SumTheorems` are the arithmetic of it. `LedgerInv` conjoins `TypeOK`, `DirectBacked`,
`HaircutSolvent` and `MaturedTotalExact`; the last is what makes the checked
subtraction of a conversion succeed. For `IsolationIsKept` each stage also says what it
leaves of a bucket: fees take at most the fee of the side (`FeesTaken`), funding at most
what is owed (`FundingTaken`), so a bucket larger than the two is still there when the
loss is routed (`OutlivesToll`).

**Book.** `HeaderExact` is not inductive: that a new order takes its place by id needs that
its sequence number is above every resting one, and the counter is reseated to zero along
the way. `BookInv` therefore says that sequence numbers fit the id and grow with arrival
(`Ranked`), that nothing rests that is younger than the counters (`Aged`), that each side is
led by its cached best (`Leads`), and that the arena adds up (`Arena`). `Ranked` makes ids
injective and ascending id the same as price-time priority (`IdsDiffer`, `IdsRank`), by the
arithmetic of a price key above a sequence number; this is where the assumption
`PricesEncodable` is used: prices do not exceed `MAX_PRICE_TICKS_ENCODABLE`, which
book_state.rs 205 leaves to the callers, and above which two prices share one key. The
invariant is stated for a book by itself (`Good`), because batches and the taker
pass through books that no state shows: inserting, removing and shrinking one order
keep it, and a fold over a batch of different orders keeps it order by order.

The taker's walk is a fold, unfolded into its chain of intermediate results; `WalkInv` says
what it has found after k orders: cancelled orders are the taker's own, filled ones are
crossed, alive and different, every order that had to be met before a fill is filled to the last
lot, the walk stops only for lack of lots, on a budget, on an abort or at an order that
does not cross, and only the last fill is partial unless a reduce-only cap was
met. The sequence walked lists the whole other side by ascending id (`InIdOrderLists`, by
counting smaller ids; `BestFirstLists`, from `Leads`). The three action properties follow from
`TakerDone`, which describes the step: an order that outranks a filled one comes earlier in
the walk, so it was filled and is gone; an order the residual should have met is either before the
stop, and filled, or behind an order that does not cross, and then does not cross either.

**Pools and vaults.** Deposits round shares down and withdrawals round cash down, so
value per share never falls for those who stay; the lemmas are products of naturals
and one division each. `NavBacked` needs the settled cost of the inventory of each
market, summed over markets.

**Governance and committee.** Consent and notice need that whatever is pending on chain is
on record (`OfferOnRecord`, `NoticeOnRecord`). That no honest validator is jailed needs the
history of its signatures over all rotations; that a fork names more than a third of
the committee is the counting argument behind `is_valid_bft_config`.

**Oracle.** Per source, what a print has to be newer than is newer than every print used
(`FeedInv`). That three probed sizes are enough for `prove_envelope` is interpolation: up
to the breakpoint the requirement is constant and the cost grows (`SmallSurvives`);
beyond it the probe at the largest size bounds the slope of the cost by that of the
requirement, and two ceilings and a floor lose at most three lots (`LargeSurvives`).

**Conditional orders.** `ConditionalInv` has one part for each kind of order. `PairsInv`: two
open triggers of one bracket name each other, and while one is armed the bracket has
not exited. A trigger that was placed under a closed leg's id may be disarmed in that
leg's place, but no leg of the same bracket stays armed, because legs that bear one
number name each other and a number is never given again. `TwapInv`: the
clock of the account is the slot of its last slice, so one comparison with that clock
keeps all pairs of slices apart. `IceInv`: any order on the book that bears an open
iceberg's number has the side, price and number under which `replenish_iceberg` looks
its last chunk up, so a chunk that is found to be gone leaves none of its kind behind.
`FillInv`: while only exits wait in the queue, each of them reduces the position and
their lots together do not exceed it; this is what `check_reduce_only` on the position
less the lots in flight keeps, and settling the head takes the same lots off both
sides. Each action is first reduced to its effect (`Bracketed`, `Fired`, `SliceOut`,
`FirstChunk`, `NextChunk`, `Crossed`...), and the parts of the invariant are shown from
the effects.

**Sums.** The provers cannot use an induction principle that takes a predicate. `SumTheorems`
therefore inducts in first-order form: a set of naturals has a least element, so a set
of subsets that contains every set all of whose proper subsets it contains is all of
them. From it follow what adding, removing or changing one summand does.

Only model-checked:

* liveness, which is outside TLAPS: `FillsSettleOrWait`, `CounterRecovers`,
  `TrapEnds`, `ReservationsFollowOrders`;
* `TreesSound`, `OwnBookLands` and `ImplementsIndex` of `Hypertree`: lookup, rebalancing and
  walks recurse over a linked slab, and TLAPS 1.4.5 has no backend for a module with
  `RECURSIVE` operators.

## 5. State of the development

Every invariant and every action property that a passing run checks is also a theorem, except
those of `Hypertree`. What could be added:

1. `Hypertree` with its recursion replaced by paths (a node's ancestors as a sequence), in
   which the two rotations and the double-black cases could be shown to keep the order of
   ids; until then `MarketBook` rests on `ImplementsIndex` for books of up to ten nodes.
2. Ladder and basket orders and JIT offers, which use the primitives of `MarketBook` and
   are listed in section 7.

## 6. Where code and text disagree

Shown by a run:

* **A reduce-only fill flips a position** (`reduce_only_flip`). The cap of a crossed
  reduce-only maker is its position less the in-flight lots of its reduce-only maker
  fills (lib.rs 1942). A taker fill of the same trader that waits in the ring is not
  subtracted, so the position can be gone when the maker fill settles, although
  `docs/SETTLEMENT.md` 204-206 excludes it "across the match→settle gap". The cap of a
  reduce-only taker (lib.rs 1768) ignores the same fills.
* **A forgotten reservation** (`reservation_forgotten`): an attestation that times
  out, lands later and whose orders are gone by the next pass is neither in the book
  nor in `liveReservations` (attestation_cranker.mjs 286), so the collateral stays
  reserved until the cranker restarts; hence the history variable `late` in
  `ReservationFreed`.

Noted while reading, visible in the models but without a run:

* `place_limit_core` asks for the owner's attestation account only while
  `book_delegated` is set, and `delegate_market_book` (lib.rs 548) takes a book with
  orders in it, although lib.rs 14790 says that the account exists "before any ER order
  can rest" and attestation_cranker.mjs 270 that such a trader "cannot have placed on a
  delegated book". The cranker warns and passes the owner over, whose margin is not
  reserved; hence `ready` in `ReservationCatchesUp`.
* `clear_book_delegation` writes CloseOnly without reading the status (lib.rs 7139), so
  a closed market is open again, which lib.rs 7167 calls terminal.
* A bucket that the fees or the funding of a fill drain to exactly zero no longer
  counts as isolated when the PnL of the same fill is routed (lib.rs 6239), so that loss
  reaches the cross pool; `docs/MARGIN_MATH.md` 417-419 says it cannot "via the fill
  path". `IsolationProtectsCross` names this fill as the one exception
  (`DrainedByFill`).
* In the slot of its expiry an order is still matched (lib.rs 2063) and already reaped
  (2598), although the reaper skips "a live order" (lib.rs 2562).
  `OrdersLeaveForCause` takes the reaper's own bound.
* The residual of a taker on a CloseOnly market rests with the caller's flags, not
  reduce-only (lib.rs 2478 against 14841).
* Intake on the rollup checks the margin of each order alone (lib.rs 14941), so
  orders resting together can reserve more than the collateral; the attestation
  then blocks withdrawals but does not stop the fills. The lag between an order and
  its attestation is accepted by `ER_TRUST_BOUNDARY.md` 124.
* A batch matched without the outbox leaves a gap in the stream that
  `fill_outbox.rs` 184-188 promises (`[last_seen_produced .. produced)`).
* `force_reduce_position_oracle` closes one leg, so `oi_long_lots ==
  oi_short_lots` ("should hold by construction", lib.rs 7032) fails afterwards and
  `verify_market_invariants` pauses the market; hence `OiBalancedUnlessForced`.
* Committed fills wait although `docs/SETTLEMENT.md` 73-75 says settlement can never
  reject a committed fill. A permissionless market is Active from its creation and takes
  orders, but settles nothing before its authority has started the haircut engine
  (lib.rs 5568, 9206; 13803). An LP fill at the head is refused while the oracle is stale
  or out of band (9211), while other markets have all slots of the pool (20840), and while
  the rebate exceeds the fee (9313), and everything behind it waits. Hence what
  `FillsSettleOrWait` names.
* When the rollup does not answer, the cranker reads the copy on L1 (191-200) and
  attests live accounts it does not see there to zero (262-263); until the next good
  pass their collateral can leave.
* `lp_refresh_quotes` asks that the oracle has a price, not how old it is (lib.rs 8975).
* With open interest at its cap, CloseOnly admits no reduce-only taker (lib.rs
  1804 against 7109).
* `stamp_book_liveness_baseline` promises to free traders behind a book delegated
  before the upgrade, but such a market reads `book_delegated` as false and
  `force_reduce_position_oracle` requires it (lib.rs 707); hence `~legacy` in
  `TrapEnds`.
* The recovery "can NEVER fire on a live/heartbeating market" (lib.rs 680), but the
  censorship backstop ignores the heartbeat by design.
* The gate of `grow_fill_outbox` (lib.rs 1343) compares cursors only the matcher
  mirrors, so a drained ring can leave the outbox closed to growth, although
  lib.rs 1319-1325 claims the same gate as the ring.
* `flush_haircut_dust` is refused while the residual is smaller than the dust
  (lib.rs 14037), and `release_gain_to_haircut` lowers collateral without raising
  the residual: value waits, none is created.
* The cached h is refreshed by maturing and converting (lib.rs 13880) but not by
  `accrue_haircut_loss`, `settle_funding` or the flush, so the consistency check of
  `verify_haircut_invariants` can fail in between; no payment uses the cache.
* Deleveraging closes the bankrupt leg at a price rounded away from its entry but
  takes only the proportional collateral; the difference is recorded nowhere
  (`uncovered` keeps it in the model).
* When book and ring come back from different commits, a lot matched on the rollup
  can rest again in an older book; hence `~lagged` in `LotsConserved` and
  `CounterExact`.
* The owner of a liquidation order cannot cancel it (lib.rs 15072-15076) but can
  remove it with `modify_order` or by trading against it with cancel-oldest
  (lib.rs 2209).
* A position stays trapped when the market is delegated with the book, which matching
  on the rollup needs (`ER_TRUST_BOUNDARY.md` 181): `force_reduce_position_oracle`
  (lib.rs 687) writes the market on L1, where its comment (lib.rs 669-671) assumes it
  still lives.
* A trigger whose slippage bound is broken is to deactivate (lib.rs 11335-11338,
  extended_state.rs 48-51), but the handler returns an error (lib.rs 11358), which
  undoes the deactivation: the trigger stays armed.
* `cancel_trigger_order` on one leg of a bracket leaves the other leg unable to fire.
* `modify_order` gives the visible chunk of an iceberg a new sequence number, so the
  iceberg no longer finds it and shows a second chunk; `modify_order` also skips the
  intake gate that lib.rs 22631-22635 calls the gate of every path that opens exposure.
* Expired reduce-only orders count against the capacity of a trigger until they are
  reaped.
* The LP refresh rests its ladder without a crossing check, and its inventory cap reads
  settled inventory only (lib.rs 9038-9050), so pending fills can carry the pool past it.
* An LP pool whose last share was withdrawn with value left gives that value to the next
  depositor; the strategy vault sets its high-water mark at the first crystallisation;
  shares of the copy vault are always priced one to one.
* A pending authority transfer survives a round trip: A proposes B, transfers to C, C
  transfers back, B accepts (lib.rs 7719-7727 compares the proposer with the current
  authority only).
* A guardian can still tighten the status of a burned market, and an automatic pause of
  it is permanent (lib.rs 7849-7861).
* `execute_param_update` does not repeat the checks on the stress tier, the restore
  buffer and the cover of the fund that the setters make (state.rs 510-526 "can never").
* `prove_envelope` evaluates three notionals where its comment speaks of every one;
  hence the allowance `Rounding` in `UpdateSurvivable`.
* `update_oracle_quorum` documents the oldest publish time as the accepted one (lib.rs
  6825-6827) and stores the current time, so `settle_mark` can use a price of up to two
  staleness bounds; the confidence stored next to the median is the largest of three.
* Evidence of equivocation in an earlier epoch is void after a rotation.

## 7. Not modelled

* Wide fixed-point formulas, which the repository proves with Kani and Lean: health and
  margin requirements, the computation of the funding rate, the warm-up curve, the side
  accrual multipliers.
* Byte formats and signatures: Pyth and Lazer accounts, fill and batch digests.
* Authorisation without state of its own: session keys, delegates, permission accounts.
* Basket and ladder orders, which place several orders the book model already has; JIT
  offers, which only tighten the limit of a liquidation order.
* Setters of one number: stress tier, restore buffer, correlation group, breaker
  multiple, fee tiers.
* `force_undelegate_market_book`, which evaluates its liveness gate and then always rejects
  (lib.rs 646-655): the gate itself is modelled where it is used, in the forced reduction.
* Events and logs, rent, and account sizes except where a capacity is one.
