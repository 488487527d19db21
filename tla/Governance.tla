----------------------------- MODULE Governance -----------------------------
(* Who may change a market, and after what notice: the authority key and   *)
(* its direct, two-step and final transfer, the restrict-only guardian,    *)
(* the market status with its automatic pauses and the teardown of a       *)
(* delegated book, and the timelocked parameter update                     *)
(* (programs/clober/src/lib.rs, the market-governance instructions).       *)
(*                                                                         *)
(* Every action is signed by a key of Keys; the default key signs nothing. *)
(* Of MarketParams the model keeps one measurement primitive, the          *)
(* staleness bound and the two margin ratios; keccak(params) is params.    *)
EXTENDS Integers, FiniteSets

CONSTANTS
    Keys,        \* keys that can sign
    NoKey,       \* Pubkey::default()
    Lots,        \* values of the measurement primitives
    Bounds,      \* values of oracle_staleness_max_seconds
    HealBounds,  \* MIN_HEAL_STALENESS_SECONDS..MAX_HEAL_STALENESS_SECONDS
    Ratios,      \* values of the margin ratios
    HalfRatio,   \* 5_000 bps
    Timelock,    \* PARAM_UPDATE_TIMELOCK_SECONDS
    MaxTime      \* bound: the clock stops here

ASSUME GovernanceAssumption ==
    /\ NoKey \notin Keys
    /\ Lots \subseteq Nat /\ Bounds \subseteq Nat /\ Ratios \subseteq Nat
    /\ HealBounds \subseteq Bounds \ {0}
    /\ HalfRatio \in Nat /\ Timelock \in Nat \ {0} /\ MaxTime \in Nat

VARIABLES
    authority,  \* market.authority
    guardian,   \* MarketGuardianAccount.guardian
    status,     \* market.status
    flagged,    \* market.book_delegated
    book,       \* the book account on L1: empty, resting, or with the rollup
    params,     \* market.params
    transfer,   \* {} or the pending authority transfer
    update,     \* {} or the pending parameter update
    now,        \* Clock::unix_timestamp
    offered,    \* history: {<<holder, key>>} offers of the role not withdrawn
    announced   \* history: {<<params, time>>} the announcement that stands

govVars == <<authority, guardian, status, flagged, book, params, transfer, update, now,
             offered, announced>>
roles == <<authority, guardian, transfer, offered>>
rules == <<params, update, announced>>
venue == <<status, flagged, book>>

Statuses == {"Inactive", "Active", "PostOnly", "Paused", "Closed", "CloseOnly"}
Rank(s) ==
    CASE s = "Inactive" -> 0 [] s = "Active" -> 1 [] s = "PostOnly" -> 2
      [] s = "Paused" -> 3 [] s = "Closed" -> 4 [] s = "CloseOnly" -> 5

ParamSet == [lot : Lots, stale : Bounds, mm : Ratios, im : Ratios]

(* validate_market_params: primitives are fixed, staleness cannot be       *)
(* switched off, margins are ordered and bounded.  The other fields have   *)
(* constant upper bounds of the same form.                                 *)
ValidateMarketParams(cur, new) ==
    /\ new.lot = cur.lot
    /\ new.stale > 0
    /\ new.mm <= new.im
    /\ new.mm < HalfRatio /\ new.im < HalfRatio

-----------------------------------------------------------------------------
(* write_market_genesis; initialize_market does not check the margins, and *)
(* a market older than its staleness check may have the gate off.          *)
GovInit ==
    /\ authority \in Keys
    /\ guardian = NoKey
    /\ status = "Active"
    /\ flagged = FALSE
    /\ book = "empty"
    /\ params \in ParamSet
    /\ transfer = {} /\ update = {}
    /\ now = 0
    /\ offered = {} /\ announced = {}

-----------------------------------------------------------------------------
(* Status.                                                                 *)
(* The guardian, if not also the authority, only moves up the live ladder. *)
GuardianRestricts(new) ==
    /\ status \in {"Active", "PostOnly", "Paused"}
    /\ new \in {"PostOnly", "Paused", "Closed"}
    /\ Rank(new) > Rank(status)

SetMarketStatus(k, new) ==
    /\ status # "Closed"
    /\ \/ k = authority
       \/ k = guardian /\ GuardianRestricts(new)
    /\ status' = new
    /\ UNCHANGED <<roles, rules, flagged, book, now>>

(* The book is back under the program and empty; neither the status nor    *)
(* the flag is looked at.                                                  *)
ClearBookDelegation(k) ==
    /\ k = authority
    /\ book = "empty"
    /\ flagged' = FALSE
    /\ status' = "CloseOnly"
    /\ UNCHANGED <<roles, rules, book, now>>

DelegateMarketBook(k) ==
    /\ k = authority
    /\ book # "rollup"
    /\ book' = "rollup"
    /\ flagged' = TRUE
    /\ UNCHANGED <<roles, rules, status, now>>

(* commit_and_undelegate_market_book on the rollup: the flag stays         *)
BookReturns ==
    /\ book = "rollup"
    /\ book' \in {"empty", "resting"}
    /\ UNCHANGED <<roles, rules, status, flagged, now>>

(* An order rests.  Limit, vault and LP orders want an open status and a   *)
(* liquidation one that is not paused, but a trigger that fires rests its  *)
(* order without looking: any status is covered by it.                     *)
OrderRests ==
    /\ book = "empty"
    /\ book' = "resting"
    /\ UNCHANGED <<roles, rules, status, flagged, now>>

(* The last orders are cancelled, reaped or matched away.                  *)
BookEmpties ==
    /\ book = "resting"
    /\ book' = "empty"
    /\ UNCHANGED <<roles, rules, status, flagged, now>>

(* The OI-vs-insurance breaker at the end of apply_fill and apply_lp_fill  *)
OiInsuranceBreaker ==
    /\ status \notin {"Paused", "Closed"}
    /\ status' = "Paused"
    /\ UNCHANGED <<roles, rules, flagged, book, now>>

(* verify_market_invariants on a stalled rollup or unbalanced interest     *)
VerifyMarketInvariants ==
    /\ status # "Closed"
    /\ status' = "Paused"
    /\ UNCHANGED <<roles, rules, flagged, book, now>>

-----------------------------------------------------------------------------
(* Keys.                                                                   *)
SetGuardian(k, g) ==
    /\ k = authority
    /\ guardian' = g
    /\ UNCHANGED <<authority, transfer, offered, rules, venue, now>>

TransferMarketAuthority(k, new) ==
    /\ k = authority
    /\ authority' = new
    /\ UNCHANGED <<guardian, transfer, offered, rules, venue, now>>

(* One pending account per market: a later proposal overwrites it.         *)
ProposeAuthorityTransfer(k, new) ==
    /\ k = authority
    /\ transfer' = {[to |-> new, by |-> k]}
    /\ offered' = {<<k, new>>}
    /\ UNCHANGED <<authority, guardian, rules, venue, now>>

(* Deliberately wrong: any standing offer may be accepted.                 *)
AcceptableAny(t) == t.to # authority

(* accept_authority_transfer: the proposer must still be the authority.    *)
Acceptable(t) == t.by = authority

AcceptAuthorityTransfer(k) ==
    \E t \in transfer :
        /\ k = t.to
        /\ Acceptable(t)
        /\ authority' = t.to
        /\ transfer' = {}
        /\ offered' = {}
        /\ UNCHANGED <<guardian, rules, venue, now>>

CancelAuthorityTransfer(k) ==
    /\ k = authority
    /\ transfer # {}
    /\ transfer' = {}
    /\ offered' = {}
    /\ UNCHANGED <<authority, guardian, rules, venue, now>>

BurnMarketAuthority(k) ==
    /\ k = authority
    /\ authority' = NoKey
    /\ UNCHANGED <<guardian, transfer, offered, rules, venue, now>>

-----------------------------------------------------------------------------
(* Parameters.                                                             *)
(* update_market_params: only a staleness gate that is off, only to a sane *)
(* bound, and nothing else.                                                *)
Heal(cur, new) ==
    /\ cur.stale = 0
    /\ new.stale \in HealBounds
    /\ [new EXCEPT !.stale = cur.stale] = cur

UpdateMarketParams(k, new) ==
    /\ k = authority
    /\ Heal(params, new)
    /\ params' = new
    /\ UNCHANGED <<roles, update, announced, venue, now>>

(* Deliberately wrong: a new proposal keeps the old clock.                 *)
EtaOfKeeps(t) ==
    IF update = {} THEN t + Timelock ELSE (CHOOSE u \in update : TRUE).eta

(* The eta of a proposal: re-proposing restarts the clock.                 *)
EtaOf(t) == t + Timelock

ProposeParamUpdate(k, new) ==
    /\ k = authority
    /\ ValidateMarketParams(params, new)
    /\ update' = {[hash |-> new, eta |-> EtaOf(now)]}
    /\ announced' = {<<new, now>>}
    /\ UNCHANGED <<roles, params, venue, now>>

(* execute_param_update: matured, the announced hash, validated again.     *)
Matured(u, new) == now >= u.eta /\ new = u.hash

ExecuteParamUpdate(k, new) ==
    \E u \in update :
        /\ k = authority
        /\ Matured(u, new)
        /\ ValidateMarketParams(params, new)
        /\ params' = new
        /\ update' = {}
        /\ announced' = {}
        /\ UNCHANGED <<roles, venue, now>>

Withdrawn ==
    /\ update # {}
    /\ update' = {}
    /\ announced' = {}
    /\ UNCHANGED <<roles, params, venue, now>>

CancelParamUpdate(k) == k = authority /\ Withdrawn

GuardianVetoParamUpdate(k) == k = guardian /\ Withdrawn

GovTick ==
    /\ now < MaxTime
    /\ now' = now + 1
    /\ UNCHANGED <<roles, rules, venue>>

GovNext ==
    \/ \E k \in Keys :
        \/ \E s \in Statuses : SetMarketStatus(k, s)
        \/ ClearBookDelegation(k)
        \/ DelegateMarketBook(k)
        \/ \E g \in Keys \cup {NoKey} : SetGuardian(k, g)
        \/ AcceptAuthorityTransfer(k)
        \/ CancelAuthorityTransfer(k)
        \/ BurnMarketAuthority(k)
        \/ CancelParamUpdate(k)
        \/ GuardianVetoParamUpdate(k)
        \/ \E n \in Keys :
            \/ TransferMarketAuthority(k, n)
            \/ ProposeAuthorityTransfer(k, n)
        \/ \E p \in ParamSet :
            \/ UpdateMarketParams(k, p)
            \/ ProposeParamUpdate(k, p)
            \/ ExecuteParamUpdate(k, p)
    \/ BookReturns
    \/ OrderRests
    \/ BookEmpties
    \/ OiInsuranceBreaker
    \/ VerifyMarketInvariants
    \/ GovTick

GovSpec == GovInit /\ [][GovNext]_govVars

-----------------------------------------------------------------------------
(* Type of the governance state; a pending update is always one the        *)
(* validation passes and has a future eta.                                 *)
GovTypeOK ==
    /\ authority \in Keys \cup {NoKey} /\ guardian \in Keys \cup {NoKey}
    /\ status \in Statuses /\ flagged \in BOOLEAN
    /\ book \in {"empty", "resting", "rollup"}
    /\ params \in ParamSet
    /\ transfer \subseteq [to : Keys, by : Keys] /\ Cardinality(transfer) <= 1
    /\ update \subseteq [hash : ParamSet, eta : Timelock..(MaxTime + Timelock)]
    /\ Cardinality(update) <= 1
    /\ now \in 0..MaxTime

(* The authority changes only to a key its present holder chose: at once,  *)
(* by burning it, or by an offer of the role the holder itself made and    *)
(* nobody has withdrawn or replaced (propose/accept_authority_transfer     *)
(* against every other key rotation).                                      *)
HandoverConsented ==
    [][authority' # authority =>
        \/ authority' = NoKey
        \/ TransferMarketAuthority(authority, authority')
        \/ <<authority, authority'>> \in offered]_govVars

(* burn_market_authority is final: whatever is pending or delegated at     *)
(* that moment, nobody becomes authority again, no parameter or key        *)
(* changes, and the status can only be tightened, by the guardian or a     *)
(* breaker.                                                                *)
BurnIsFinal ==
    [][authority = NoKey =>
        /\ authority' = NoKey
        /\ UNCHANGED <<params, guardian, flagged>>
        /\ status' # status => status' \in {"PostOnly", "Paused", "Closed"}
        /\ status = "Closed" => status' = "Closed"]_govVars

(* The role is typed, moves by consent and ends with its burning.          *)
AuthorityByConsent == []GovTypeOK /\ HandoverConsented /\ BurnIsFinal

(* Apart from switching a disabled staleness gate on, the parameters only  *)
(* become what was announced a whole timelock ago and has stood since: not *)
(* cancelled, vetoed, replaced or executed before; the measurement         *)
(* primitives never change                                                 *)
(* (propose/execute/cancel_param_update, guardian_veto_param_update).      *)
NoticeGiven ==
    [][params' # params =>
        /\ params'.lot = params.lot
        /\ \/ Heal(params, params')
           \/ \E t \in 0..now : t + Timelock <= now /\ <<params', t>> \in announced]_govVars
=============================================================================
