-------------------------- MODULE GovernanceProofs --------------------------
(***************************************************************************)
(* Proofs about what the market authority controls: Governance, for any    *)
(* set of keys, parameter values and timelock, Committee, for any          *)
(* validators, any faulty ones among them, any committees and thresholds,  *)
(* and OracleFeed, for any prices, envelopes and staleness bounds.         *)
(*                                                                         *)
(* Neither handover by consent nor notice of a parameter change is         *)
(* inductive: both need that what is pending on chain is always what the   *)
(* present holder offered, or what was announced, and when.  That no       *)
(* honest validator is jailed needs the history of its signatures, one     *)
(* header per epoch and height over all rotations; that a fork names more  *)
(* than a third of the committee is the counting argument behind           *)
(* is_valid_bft_config.                                                    *)
(***************************************************************************)
EXTENDS Governance, Committee, OracleFeed, SumTheorems

(* Every pending transfer is an offer that stands.                         *)
OfferOnRecord == \A t \in transfer : <<t.by, t.to>> \in offered

(* Every pending update was announced a timelock before its eta.           *)
NoticeOnRecord ==
    \A u \in update : \E t \in 0..now : u.eta = t + Timelock /\ <<u.hash, t>> \in announced

GovInv == GovTypeOK /\ OfferOnRecord /\ NoticeOnRecord

(* The pending account holds one proposal at most.                         *)
LEMMA AtMostOne ==
    ASSUME NEW S, S = {} \/ \E x : S = {x}
    PROVE  Cardinality(S) <= 1
<1>1. CASE S = {}
  BY <1>1, FS_EmptySet
<1>2. CASE \E x : S = {x}
  BY <1>2, FS_Singleton
<1> QED BY <1>1, <1>2

(* The state initialize_market leaves satisfies the invariant.             *)
LEMMA GovInitInv == ASSUME GovInit PROVE GovInv
<1>1. Cardinality(transfer) <= 1 /\ Cardinality(update) <= 1
  BY AtMostOne DEF GovInit
<1>2. now \in 0..MaxTime
  BY GovernanceAssumption DEF GovInit
<1>3. OfferOnRecord /\ NoticeOnRecord
  BY DEF GovInit, OfferOnRecord, NoticeOnRecord
<1>4. GovTypeOK
  BY <1>1, <1>2, Zenon DEF GovInit, GovTypeOK, Statuses
<1> QED BY <1>3, <1>4 DEF GovInv

(* Steps on the status and the book.                                       *)
VenueStep ==
    /\ UNCHANGED <<roles, rules, now>>
    /\ status' \in Statuses /\ flagged' \in BOOLEAN
    /\ book' \in {"empty", "resting", "rollup"}

LEMMA VenueStepKeeps == ASSUME GovInv, VenueStep PROVE GovInv'
BY DEF GovInv, GovTypeOK, OfferOnRecord, NoticeOnRecord, VenueStep, roles, rules

LEMMA VenueActions ==
    ASSUME GovInv, NEW k \in Keys, NEW s \in Statuses,
           \/ SetMarketStatus(k, s) \/ ClearBookDelegation(k) \/ DelegateMarketBook(k)
           \/ BookReturns \/ OrderRests \/ BookEmpties
           \/ OiInsuranceBreaker \/ VerifyMarketInvariants
    PROVE  VenueStep
<1>0. status \in Statuses /\ flagged \in BOOLEAN /\ book \in {"empty", "resting", "rollup"}
  BY DEF GovInv, GovTypeOK
<1>1. {"Paused", "CloseOnly"} \subseteq Statuses
  BY DEF Statuses
<1> QED BY <1>0, <1>1 DEF VenueStep, SetMarketStatus, ClearBookDelegation, DelegateMarketBook,
                    BookReturns, OrderRests, BookEmpties, OiInsuranceBreaker,
                    VerifyMarketInvariants

(* Steps on the keys leave the parameters and their proposal alone.        *)
LEMMA RoleStepKeeps ==
    ASSUME GovInv, UNCHANGED <<rules, venue, now>>,
           authority' \in Keys \cup {NoKey}, guardian' \in Keys \cup {NoKey},
           \/ UNCHANGED <<transfer, offered>>
           \/ transfer' = {}
           \/ \E k, n \in Keys : transfer' = {[to |-> n, by |-> k]} /\ offered' = {<<k, n>>}
    PROVE  GovInv'
<1>0. Cardinality(transfer') <= 1
  BY AtMostOne DEF GovInv, GovTypeOK
<1>1. transfer' \subseteq [to : Keys, by : Keys]
  BY DEF GovInv, GovTypeOK
<1>2. OfferOnRecord'
  <2>1. CASE UNCHANGED <<transfer, offered>>
    BY <2>1 DEF GovInv, OfferOnRecord
  <2>2. CASE transfer' = {}
    BY <2>2 DEF OfferOnRecord
  <2>3. CASE \E k, n \in Keys :
               transfer' = {[to |-> n, by |-> k]} /\ offered' = {<<k, n>>}
    BY <2>3 DEF OfferOnRecord
  <2> QED BY <2>1, <2>2, <2>3
<1>3. NoticeOnRecord'
  BY DEF GovInv, NoticeOnRecord, rules
<1>4. GovTypeOK'
  BY <1>0, <1>1 DEF GovInv, GovTypeOK, rules, venue
<1> QED BY <1>2, <1>3, <1>4 DEF GovInv

LEMMA RoleActions ==
    ASSUME GovInv, NEW k \in Keys, NEW g \in Keys \cup {NoKey}, NEW n \in Keys,
           \/ SetGuardian(k, g) \/ AcceptAuthorityTransfer(k) \/ CancelAuthorityTransfer(k)
           \/ BurnMarketAuthority(k) \/ TransferMarketAuthority(k, n)
           \/ ProposeAuthorityTransfer(k, n)
    PROVE  GovInv'
<1>0. /\ authority \in Keys \cup {NoKey} /\ guardian \in Keys \cup {NoKey}
      /\ transfer \subseteq [to : Keys, by : Keys]
  BY DEF GovInv, GovTypeOK
<1>1. CASE SetGuardian(k, g)
  BY <1>0, <1>1, RoleStepKeeps DEF SetGuardian
<1>2. CASE AcceptAuthorityTransfer(k)
  BY <1>0, <1>2, RoleStepKeeps DEF AcceptAuthorityTransfer
<1>3. CASE CancelAuthorityTransfer(k)
  BY <1>0, <1>3, RoleStepKeeps DEF CancelAuthorityTransfer
<1>4. CASE BurnMarketAuthority(k)
  BY <1>0, <1>4, RoleStepKeeps DEF BurnMarketAuthority
<1>5. CASE TransferMarketAuthority(k, n)
  BY <1>0, <1>5, RoleStepKeeps DEF TransferMarketAuthority
<1>6. CASE ProposeAuthorityTransfer(k, n)
  BY <1>0, <1>6, RoleStepKeeps DEF ProposeAuthorityTransfer
<1> QED BY <1>1, <1>2, <1>3, <1>4, <1>5, <1>6

(* Steps on the parameters: heal, propose, execute, cancel, veto.          *)
LEMMA RuleActions ==
    ASSUME GovInv, NEW k \in Keys, NEW p \in ParamSet,
           \/ UpdateMarketParams(k, p) \/ ProposeParamUpdate(k, p) \/ ExecuteParamUpdate(k, p)
           \/ CancelParamUpdate(k) \/ GuardianVetoParamUpdate(k)
    PROVE  GovInv'
<1>0. /\ now \in 0..MaxTime /\ Timelock \in Nat /\ MaxTime \in Nat
      /\ update \subseteq [hash : ParamSet, eta : Timelock..(MaxTime + Timelock)]
      /\ GovTypeOK /\ OfferOnRecord /\ NoticeOnRecord
  BY GovernanceAssumption DEF GovInv, GovTypeOK
<1>1. UNCHANGED <<roles, venue, now>>
  BY DEF UpdateMarketParams, ProposeParamUpdate, ExecuteParamUpdate, CancelParamUpdate,
         GuardianVetoParamUpdate, Withdrawn
<1>2. params' \in ParamSet
  BY <1>0 DEF GovTypeOK, UpdateMarketParams, ProposeParamUpdate, ExecuteParamUpdate,
         CancelParamUpdate, GuardianVetoParamUpdate, Withdrawn
<1>3. \/ UNCHANGED <<update, announced>>
      \/ update' = {}
      \/ update' = {[hash |-> p, eta |-> now + Timelock]} /\ announced' = {<<p, now>>}
  BY DEF UpdateMarketParams, ProposeParamUpdate, ExecuteParamUpdate, CancelParamUpdate,
         GuardianVetoParamUpdate, Withdrawn, EtaOf
<1>4. now + Timelock \in Timelock..(MaxTime + Timelock)
  BY <1>0
<1>5. update' \subseteq [hash : ParamSet, eta : Timelock..(MaxTime + Timelock)]
  BY <1>0, <1>3, <1>4
<1>5a. Cardinality(update') <= 1
  BY <1>0, <1>3, AtMostOne DEF GovTypeOK
<1>6. NoticeOnRecord'
  BY <1>0, <1>1, <1>3 DEF NoticeOnRecord
<1>7. OfferOnRecord'
  BY <1>0, <1>1 DEF OfferOnRecord, roles
<1>8. GovTypeOK'
  BY <1>0, <1>1, <1>2, <1>5, <1>5a DEF GovTypeOK, roles, venue
<1> QED BY <1>6, <1>7, <1>8 DEF GovInv

LEMMA TickKeeps == ASSUME GovInv, GovTick PROVE GovInv'
<1>0. /\ now \in 0..MaxTime /\ MaxTime \in Nat /\ now < MaxTime /\ now' = now + 1
      /\ UNCHANGED <<roles, rules, venue>>
  BY GovernanceAssumption DEF GovInv, GovTypeOK, GovTick
<1>1. 0..now \subseteq 0..now' /\ now' \in 0..MaxTime
  BY <1>0
<1>2. NoticeOnRecord'
  BY <1>0, <1>1 DEF GovInv, NoticeOnRecord, rules
<1> QED BY <1>0, <1>1, <1>2 DEF GovInv, GovTypeOK, OfferOnRecord, roles, rules, venue

LEMMA GovInductive == ASSUME GovInv, [GovNext]_govVars PROVE GovInv'
<1>1. CASE \E k \in Keys :
        \/ \E s \in Statuses : SetMarketStatus(k, s)
        \/ ClearBookDelegation(k)
        \/ DelegateMarketBook(k)
  <2>1. "Active" \in Statuses
    BY DEF Statuses
  <2> QED BY <1>1, <2>1, VenueActions, VenueStepKeeps
<1>2. CASE \E k \in Keys :
        \/ \E g \in Keys \cup {NoKey} : SetGuardian(k, g)
        \/ AcceptAuthorityTransfer(k)
        \/ CancelAuthorityTransfer(k)
        \/ BurnMarketAuthority(k)
        \/ \E n \in Keys : TransferMarketAuthority(k, n) \/ ProposeAuthorityTransfer(k, n)
  BY <1>2, RoleActions
<1>3. CASE \E k \in Keys :
        \/ CancelParamUpdate(k)
        \/ GuardianVetoParamUpdate(k)
        \/ \E p \in ParamSet : \/ UpdateMarketParams(k, p)
                               \/ ProposeParamUpdate(k, p)
                               \/ ExecuteParamUpdate(k, p)
  BY <1>3, RuleActions DEF GovInv, GovTypeOK
<1>4. CASE \/ BookReturns \/ OrderRests \/ BookEmpties \/ OiInsuranceBreaker
           \/ VerifyMarketInvariants
  <2>1. UNCHANGED <<roles, rules, now>> /\ VenueStep
    BY <1>4 DEF BookReturns, OrderRests, BookEmpties, OiInsuranceBreaker,
                VerifyMarketInvariants, VenueStep, GovInv, GovTypeOK, Statuses
  <2> QED BY <2>1, VenueStepKeeps
<1>5. CASE GovTick
  BY <1>5, TickKeeps
<1>6. CASE UNCHANGED govVars
  BY <1>6 DEF govVars, GovInv, GovTypeOK, OfferOnRecord, NoticeOnRecord
<1> QED BY <1>1, <1>2, <1>3, <1>4, <1>5, <1>6 DEF GovNext

-----------------------------------------------------------------------------
(* In every state the authority changes hands only with its holder's       *)
(* consent.                                                                *)
LEMMA HandoverStep ==
    ASSUME GovInv, [GovNext]_govVars, authority' # authority
    PROVE  \/ authority' = NoKey
           \/ TransferMarketAuthority(authority, authority')
           \/ <<authority, authority'>> \in offered
<1>1. \E k \in Keys : \/ AcceptAuthorityTransfer(k)
                      \/ BurnMarketAuthority(k)
                      \/ \E n \in Keys : TransferMarketAuthority(k, n)
  BY DEF GovNext, govVars, roles, SetMarketStatus, ClearBookDelegation, DelegateMarketBook,
         SetGuardian, CancelAuthorityTransfer, CancelParamUpdate, GuardianVetoParamUpdate,
         ProposeAuthorityTransfer, UpdateMarketParams, ProposeParamUpdate,
         ExecuteParamUpdate, BookReturns, OrderRests, BookEmpties, OiInsuranceBreaker,
         VerifyMarketInvariants, GovTick, Withdrawn
<1>2. ASSUME NEW k \in Keys, AcceptAuthorityTransfer(k)
      PROVE  <<authority, authority'>> \in offered
  <2>1. PICK t \in transfer : t.by = authority /\ authority' = t.to
    BY <1>2 DEF AcceptAuthorityTransfer, Acceptable
  <2> QED BY <2>1 DEF GovInv, OfferOnRecord
<1>3. ASSUME NEW k \in Keys, NEW n \in Keys, TransferMarketAuthority(k, n)
      PROVE  TransferMarketAuthority(authority, authority')
  BY <1>3 DEF TransferMarketAuthority
<1> QED BY <1>1, <1>2, <1>3 DEF BurnMarketAuthority

(* Nobody signs for the burned key: what is left are the guardian, the     *)
(* breakers, the book and the clock.                                       *)
LEMMA BurnedStep ==
    ASSUME GovInv, [GovNext]_govVars, authority = NoKey
    PROVE  /\ authority' = NoKey
           /\ UNCHANGED <<params, guardian, flagged>>
           /\ status' # status => status' \in {"PostOnly", "Paused", "Closed"}
           /\ status = "Closed" => status' = "Closed"
<1>0. NoKey \notin Keys /\ transfer \subseteq [to : Keys, by : Keys]
  BY GovernanceAssumption DEF GovInv, GovTypeOK
<1>1. \A k \in Keys : k # authority
  BY <1>0
<1>2. \A t \in transfer : t.by # authority
  BY <1>0
<1>3. \/ \E k \in Keys : \/ \E s \in Statuses : SetMarketStatus(k, s)
                         \/ GuardianVetoParamUpdate(k)
      \/ BookReturns \/ OrderRests \/ BookEmpties \/ OiInsuranceBreaker
      \/ VerifyMarketInvariants \/ GovTick \/ UNCHANGED govVars
  BY <1>1, <1>2 DEF GovNext, ClearBookDelegation, DelegateMarketBook,
         SetGuardian, CancelAuthorityTransfer, CancelParamUpdate,
         ProposeAuthorityTransfer, UpdateMarketParams, ProposeParamUpdate,
         ExecuteParamUpdate, AcceptAuthorityTransfer, Acceptable, BurnMarketAuthority,
         TransferMarketAuthority
<1>4. ASSUME NEW k \in Keys, NEW s \in Statuses, SetMarketStatus(k, s)
      PROVE  /\ s \in {"PostOnly", "Paused", "Closed"} /\ status # "Closed" /\ status' = s
             /\ UNCHANGED <<authority, params, guardian, flagged>>
  BY <1>1, <1>4 DEF SetMarketStatus, GuardianRestricts, roles, rules
<1> QED BY <1>3, <1>4 DEF GuardianVetoParamUpdate, Withdrawn, BookReturns, OrderRests,
         BookEmpties, OiInsuranceBreaker, VerifyMarketInvariants, GovTick, govVars,
         roles, rules, venue

(* The parameters change by healing or by an announcement that has stood   *)
(* for a timelock.                                                         *)
LEMMA NoticeStep ==
    ASSUME GovInv, [GovNext]_govVars, params' # params
    PROVE  /\ params'.lot = params.lot
           /\ \/ Heal(params, params')
              \/ \E t \in 0..now : t + Timelock <= now /\ <<params', t>> \in announced
<1>0. now \in Nat /\ Timelock \in Nat /\ params \in ParamSet
  BY GovernanceAssumption DEF GovInv, GovTypeOK
<1>1. \E k \in Keys, p \in ParamSet : UpdateMarketParams(k, p) \/ ExecuteParamUpdate(k, p)
  BY DEF GovNext, govVars, rules, SetMarketStatus, ClearBookDelegation, DelegateMarketBook,
         SetGuardian, CancelAuthorityTransfer, CancelParamUpdate, GuardianVetoParamUpdate,
         ProposeAuthorityTransfer, AcceptAuthorityTransfer, BurnMarketAuthority,
         TransferMarketAuthority, ProposeParamUpdate, BookReturns, OrderRests, BookEmpties,
         OiInsuranceBreaker, VerifyMarketInvariants, GovTick, Withdrawn
<1>2. ASSUME NEW k \in Keys, NEW p \in ParamSet, UpdateMarketParams(k, p)
      PROVE  params'.lot = params.lot /\ Heal(params, params')
  <2>1. params' = p /\ Heal(params, p)
    BY <1>2 DEF UpdateMarketParams
  <2>2. [p EXCEPT !.stale = params.stale].lot = p.lot
    BY DEF ParamSet
  <2> QED BY <2>1, <2>2 DEF Heal
<1>3. ASSUME NEW k \in Keys, NEW p \in ParamSet, ExecuteParamUpdate(k, p)
      PROVE  /\ params'.lot = params.lot
             /\ \E t \in 0..now : t + Timelock <= now /\ <<params', t>> \in announced
  <2>1. PICK u \in update : now >= u.eta /\ p = u.hash /\ p.lot = params.lot /\ params' = p
    BY <1>3 DEF ExecuteParamUpdate, Matured, ValidateMarketParams
  <2>2. PICK t \in 0..now : u.eta = t + Timelock /\ <<u.hash, t>> \in announced
    BY DEF GovInv, NoticeOnRecord
  <2> QED BY <1>0, <2>1, <2>2
<1> QED BY <1>1, <1>2, <1>3

-----------------------------------------------------------------------------
(* The authority moves by its holder's consent and ends with its burning,  *)
(* whatever is proposed, withdrawn, paused or vetoed in between            *)
(* (propose/accept_authority_transfer, burn_market_authority).             *)
THEOREM AuthorityMovesByConsent == GovSpec => AuthorityByConsent
<1>1. GovInit => GovInv
  BY GovInitInv
<1>2. GovInv /\ [GovNext]_govVars => GovInv'
  BY GovInductive
<1>3. GovInv => GovTypeOK
  BY DEF GovInv
<1>4. GovInv /\ [GovNext]_govVars =>
        [authority' # authority =>
            \/ authority' = NoKey
            \/ TransferMarketAuthority(authority, authority')
            \/ <<authority, authority'>> \in offered]_govVars
  BY HandoverStep
<1>5. GovInv /\ [GovNext]_govVars =>
        [authority = NoKey =>
            /\ authority' = NoKey
            /\ UNCHANGED <<params, guardian, flagged>>
            /\ status' # status => status' \in {"PostOnly", "Paused", "Closed"}
            /\ status = "Closed" => status' = "Closed"]_govVars
  BY BurnedStep
<1> QED BY <1>1, <1>2, <1>3, <1>4, <1>5, PTL
        DEF GovSpec, AuthorityByConsent, HandoverConsented, BurnIsFinal

(* No parameter changes without a whole timelock of notice during which    *)
(* the announcement stood (propose/execute/cancel_param_update,            *)
(* guardian_veto_param_update).                                            *)
THEOREM ParametersChangeOnNotice == GovSpec => NoticeGiven
<1>1. GovInit => GovInv
  BY GovInitInv
<1>2. GovInv /\ [GovNext]_govVars => GovInv'
  BY GovInductive
<1>3. GovInv /\ [GovNext]_govVars =>
        [params' # params =>
            /\ params'.lot = params.lot
            /\ \/ Heal(params, params')
               \/ \E t \in 0..now :
                    t + Timelock <= now /\ <<params', t>> \in announced]_govVars
  BY NoticeStep
<1> QED BY <1>1, <1>2, <1>3, PTL DEF GovSpec, NoticeGiven

-----------------------------------------------------------------------------
(* The committee, once appointed, is a list of distinct validators with a  *)
(* threshold of more than two thirds of them.                              *)
Appointed ==
    /\ committee = [epoch |-> committee.epoch, validators |-> committee.validators,
                    threshold |-> committee.threshold, jailed |-> committee.jailed]
    /\ committee.validators \in Seq(Validators)
    /\ committee.threshold \in Nat
    /\ committee.epoch \in 0..MaxEpoch
    /\ committee.epoch > 0 =>
          /\ IsInjective(committee.validators)
          /\ IsValidBftConfig(Len(committee.validators), committee.threshold)

Recorded ==
    /\ chain.root \in Roots /\ chain.seq \in {b.seq : b \in Batches} \cup {0}
    /\ signed \subseteq Validators \X Headers

(* A validator that follows the protocol never signs a height twice.       *)
HonestSignsOnce ==
    \A v \in Validators \ Faulty : \A g, h \in Headers :
        /\ <<v, g>> \in signed /\ <<v, h>> \in signed
        /\ g.epoch = h.epoch /\ g.seq = h.seq
        => g = h

ComInv == Appointed /\ Recorded /\ HonestSignsOnce /\ NoHonestJailed

LEMMA SignedAreHeaders == ASSUME Recorded PROVE SignedHeaders \subseteq Headers
BY DEF Recorded, SignedHeaders

LEMMA HeaderFields ==
    ASSUME NEW h \in Headers
    PROVE  /\ h.epoch \in 1..MaxEpoch /\ h.root \in Roots
           /\ h.seq \in {b.seq : b \in Batches} /\ h.seq \in Nat
BY CommitteeAssumption DEF Headers, Roots

(* The account as set_sequencer_committee first creates it.                *)
LEMMA ComInitInv == ASSUME ComInit PROVE ComInv
BY CommitteeAssumption DEF ComInit, ComInv, Appointed, Recorded, HonestSignsOnce,
                           NoHonestJailed, Roots

LEMMA RotateKeeps ==
    ASSUME ComInv, NEW vs \in Committees, NEW t \in Thresholds, SetSequencerCommittee(vs, t)
    PROVE  ComInv'
<1>1. /\ committee' = [epoch |-> committee.epoch + 1, validators |-> vs,
                       threshold |-> t, jailed |-> {}]
      /\ IsValidBftConfig(Len(vs), t) /\ IsInjective(vs)
      /\ committee.epoch < MaxEpoch /\ UNCHANGED <<chain, signed>>
  BY DEF SetSequencerCommittee, Rotated, ValidatorsValidSet
<1>2. vs \in Seq(Validators) /\ t \in Nat /\ MaxEpoch \in Nat
  BY CommitteeAssumption
<1>3. Appointed'
  BY <1>1, <1>2 DEF ComInv, Appointed
<1>4. Recorded' /\ HonestSignsOnce'
  BY <1>1 DEF ComInv, Recorded, HonestSignsOnce
<1>5. NoHonestJailed'
  BY <1>1 DEF NoHonestJailed
<1> QED BY <1>3, <1>4, <1>5 DEF ComInv

LEMMA CommitKeeps ==
    ASSUME ComInv, NEW h \in SignedHeaders, CommitBatch(h)
    PROVE  ComInv'
<1>1. h \in Headers
  BY SignedAreHeaders DEF ComInv
<1>2. chain' = [seq |-> h.seq, root |-> h.root] /\ UNCHANGED <<committee, signed>>
  BY DEF CommitBatch
<1>3. Recorded'
  BY <1>1, <1>2, HeaderFields DEF ComInv, Recorded
<1> QED BY <1>2, <1>3 DEF ComInv, Appointed, HonestSignsOnce, NoHonestJailed

LEMMA SlashKeeps ==
    ASSUME ComInv, NEW i \in DOMAIN committee.validators,
           NEW a \in SignedHeaders, NEW b \in SignedHeaders, SlashEquivocation(i, a, b)
    PROVE  ComInv'
<1>0. a \in Headers /\ b \in Headers
  BY SignedAreHeaders DEF ComInv
<1>1. /\ a.epoch = b.epoch /\ a.seq = b.seq /\ a # b
      /\ <<committee.validators[i], a>> \in signed
      /\ <<committee.validators[i], b>> \in signed
      /\ committee' = [committee EXCEPT !.jailed = @ \cup {i}]
      /\ UNCHANGED <<chain, signed>>
  BY DEF SlashEquivocation, IsEquivocation
<1>2. committee.validators[i] \in Validators
  BY DEF ComInv, Appointed
<1>3. committee.validators[i] \in Faulty
  BY <1>0, <1>1, <1>2 DEF ComInv, HonestSignsOnce
<1>4. /\ committee'.epoch = committee.epoch
      /\ committee'.validators = committee.validators
      /\ committee'.threshold = committee.threshold
      /\ committee'.jailed = committee.jailed \cup {i}
      /\ committee' = [epoch |-> committee'.epoch, validators |-> committee'.validators,
                       threshold |-> committee'.threshold, jailed |-> committee'.jailed]
  BY <1>1 DEF ComInv, Appointed
<1>5. NoHonestJailed'
  BY <1>3, <1>4 DEF ComInv, NoHonestJailed
<1>6. Appointed'
  BY <1>4 DEF ComInv, Appointed
<1> QED BY <1>1, <1>5, <1>6 DEF ComInv, Recorded, HonestSignsOnce

LEMMA SignKeeps ==
    ASSUME ComInv, NEW v \in Validators, NEW h \in Headers, Sign(v, h)
    PROVE  ComInv'
<1>1. signed' = signed \cup {<<v, h>>} /\ UNCHANGED <<committee, chain>>
  BY DEF Sign
<1>2. v \notin Faulty =>
        \A g \in Headers : <<v, g>> \in signed => g.epoch # h.epoch \/ g.seq # h.seq
  <2>1. \A g \in Headers : <<v, g>> \in signed => g \in SignedHeaders
    BY DEF SignedHeaders
  <2> QED BY <2>1 DEF Sign
<1>3. HonestSignsOnce'
  <2> SUFFICES ASSUME NEW w \in Validators \ Faulty, NEW f \in Headers, NEW g \in Headers,
                      <<w, f>> \in signed', <<w, g>> \in signed',
                      f.epoch = g.epoch, f.seq = g.seq
               PROVE  f = g
    BY DEF HonestSignsOnce
  <2>1. \A e \in Headers : <<w, e>> \in signed' => <<w, e>> \in signed \/ (w = v /\ e = h)
    BY <1>1
  <2> QED BY <1>2, <2>1 DEF ComInv, HonestSignsOnce
<1>4. Recorded'
  BY <1>1 DEF ComInv, Recorded
<1> QED BY <1>1, <1>3, <1>4 DEF ComInv, Appointed, NoHonestJailed

LEMMA ComInductive == ASSUME ComInv, [ComNext]_comVars PROVE ComInv'
<1>1. CASE UNCHANGED comVars
  BY <1>1 DEF comVars, ComInv, Appointed, Recorded, HonestSignsOnce, NoHonestJailed
<1> QED BY <1>1, RotateKeeps, CommitKeeps, SlashKeeps, SignKeeps DEF ComNext

-----------------------------------------------------------------------------
(* A list of distinct validators has as many members as slots.             *)
LEMMA MembersCounted ==
    ASSUME NEW vs \in Seq(Validators), IsInjective(vs)
    PROVE  IsFiniteSet(Range(vs)) /\ Cardinality(Range(vs)) = Len(vs)
<1>1. Len(vs) \in Nat /\ DOMAIN vs = 1..Len(vs)
  OBVIOUS
<1>2. vs \in [1..Len(vs) -> Range(vs)]
  BY <1>1 DEF Range
<1>3. vs \in Surjection(1..Len(vs), Range(vs))
  BY <1>1, <1>2 DEF Surjection, Range
<1>4. vs \in Injection(1..Len(vs), Range(vs))
  BY <1>1, <1>2 DEF Injection, IsInjective
<1>5. IsFiniteSet(1..Len(vs)) /\ Cardinality(1..Len(vs)) = Len(vs)
  BY <1>1, FS_Interval
<1> QED BY <1>3, <1>4, <1>5, FS_Surjection

(* Two quorums of more than two thirds share more than a third.            *)
LEMMA QuorumsOverlap ==
    ASSUME NEW U, IsFiniteSet(U), NEW A \in SUBSET U, NEW B \in SUBSET U, NEW t \in Nat,
           3 * t > 2 * Cardinality(U), Cardinality(A) >= t, Cardinality(B) >= t
    PROVE  3 * Cardinality(A \cap B) > Cardinality(U)
<1>1. /\ IsFiniteSet(A) /\ IsFiniteSet(B) /\ IsFiniteSet(A \cup B) /\ IsFiniteSet(A \cap B)
      /\ Cardinality(A \cup B) <= Cardinality(U)
  <2>1. A \cup B \in SUBSET U /\ A \cap B \in SUBSET U
    OBVIOUS
  <2> QED BY <2>1, FS_Subset
<1>2. Cardinality(A \cup B) = Cardinality(A) + Cardinality(B) - Cardinality(A \cap B)
  BY <1>1, FS_Union
<1>3. /\ Cardinality(U) \in Nat /\ Cardinality(A) \in Nat /\ Cardinality(B) \in Nat
      /\ Cardinality(A \cap B) \in Nat /\ Cardinality(A \cup B) \in Nat
  BY <1>1, FS_CardinalityType
<1> QED BY <1>1, <1>2, <1>3

LEMMA CulpritsNamed == ASSUME ComInv PROVE ForkNamesCulprits
<1> SUFFICES ASSUME NEW g \in SignedHeaders, NEW h \in SignedHeaders,
                    g.epoch = committee.epoch,
                    Cardinality(SignedBy(g) \cap Members) >= committee.threshold,
                    Cardinality(SignedBy(h) \cap Members) >= committee.threshold
             PROVE  3 * Cardinality(SignedBy(g) \cap SignedBy(h) \cap Members)
                        > Len(committee.validators)
  BY DEF ForkNamesCulprits
<1>1. committee.epoch > 0
  <2>1. g \in Headers
    BY SignedAreHeaders DEF ComInv
  <2> QED BY <2>1, HeaderFields, CommitteeAssumption
<1>2. /\ committee.validators \in Seq(Validators) /\ IsInjective(committee.validators)
      /\ committee.threshold \in Nat /\ 3 * committee.threshold > 2 * Len(committee.validators)
  BY <1>1 DEF ComInv, Appointed, IsValidBftConfig
<1>3. IsFiniteSet(Members) /\ Cardinality(Members) = Len(committee.validators)
  BY <1>2, MembersCounted DEF Members
<1> DEFINE A == SignedBy(g) \cap Members
           B == SignedBy(h) \cap Members
<1>4. 3 * Cardinality(A \cap B) > Cardinality(Members)
  <2>1. A \in SUBSET Members /\ B \in SUBSET Members
    OBVIOUS
  <2> HIDE DEF A, B
  <2>2. Cardinality(A) >= committee.threshold /\ Cardinality(B) >= committee.threshold
    BY DEF A, B
  <2> QED BY <1>2, <1>3, <2>1, <2>2, QuorumsOverlap
<1>5. A \cap B = SignedBy(g) \cap SignedBy(h) \cap Members
  OBVIOUS
<1> QED BY <1>3, <1>4, <1>5

LEMMA ComInvSound == ASSUME ComInv PROVE SlashingSound
<1>1. committee.jailed \subseteq Nat
  <2>1. committee.validators \in Seq(Validators)
    BY DEF ComInv, Appointed
  <2> QED BY <2>1 DEF ComInv, NoHonestJailed
<1>2. ComTypeOK
  BY <1>1 DEF ComInv, Appointed, Recorded, ComTypeOK
<1> QED BY <1>2, CulpritsNamed DEF SlashingSound, ComInv

(* A quorum of unjailed slots contains one that is not faulty, unless the  *)
(* faulty ones alone make a quorum.                                        *)
LEMMA CommitStep ==
    ASSUME ComInv, [ComNext]_comVars, chain' # chain
    PROVE  \/ Cardinality({i \in DOMAIN committee.validators :
                  committee.validators[i] \in Faulty /\ i \notin committee.jailed})
                >= committee.threshold
           \/ \E h \in SignedHeaders : h.root = chain'.root /\ h.seq = chain'.seq
                /\ h.prev = chain.root /\ SignedBy(h) \ Faulty # {}
<1>1. PICK h \in SignedHeaders : CommitBatch(h)
  BY DEF ComNext, comVars, SetSequencerCommittee, SlashEquivocation, Sign
<1> DEFINE quorum == {i \in DOMAIN committee.validators :
                        i \notin committee.jailed /\ <<committee.validators[i], h>> \in signed}
           bad == {i \in DOMAIN committee.validators :
                        committee.validators[i] \in Faulty /\ i \notin committee.jailed}
<1>2. /\ h.prev = chain.root /\ chain' = [seq |-> h.seq, root |-> h.root]
      /\ Cardinality(quorum) >= committee.threshold
  BY <1>1 DEF CommitBatch, AttestationMeetsThreshold
<1>3. CASE \E i \in quorum : committee.validators[i] \notin Faulty
  <2>1. PICK i \in quorum : committee.validators[i] \notin Faulty
    BY <1>3
  <2>2. committee.validators[i] \in Validators
    BY DEF ComInv, Appointed
  <2>3. committee.validators[i] \in SignedBy(h) \ Faulty
    BY <2>1, <2>2 DEF SignedBy
  <2> QED BY <1>2, <2>3
<1>4. CASE \A i \in quorum : committee.validators[i] \in Faulty
  <2>1. quorum \in SUBSET bad
    BY <1>4
  <2>2. IsFiniteSet(DOMAIN committee.validators)
    <3>1. /\ Len(committee.validators) \in Nat
          /\ DOMAIN committee.validators = 1..Len(committee.validators)
      BY DEF ComInv, Appointed
    <3>2. IsFiniteSet(1..Len(committee.validators))
      BY <3>1, FS_Interval
    <3> QED BY <3>1, <3>2
  <2>3. IsFiniteSet(bad)
    <3>1. bad \in SUBSET DOMAIN committee.validators
      OBVIOUS
    <3> QED BY <2>2, <3>1, FS_Subset
  <2> HIDE DEF bad, quorum
  <2>4. Cardinality(quorum) <= Cardinality(bad) /\ IsFiniteSet(quorum)
    BY <2>1, <2>3, FS_Subset
  <2>5. /\ Cardinality(bad) \in Nat /\ Cardinality(quorum) \in Nat
        /\ committee.threshold \in Nat
    BY <2>3, <2>4, FS_CardinalityType DEF ComInv, Appointed
  <2>6. Cardinality(bad) >= committee.threshold
    BY <1>2, <2>4, <2>5
  <2> QED BY <2>6 DEF bad
<1> QED BY <1>3, <1>4

-----------------------------------------------------------------------------
(* Slashing reaches the guilty and nobody else, for every committee and    *)
(* every history of rotations and signatures (slash_equivocation,          *)
(* is_valid_bft_config).                                                   *)
THEOREM SlashingIsSound == ComSpec => []SlashingSound
<1>1. ComInit => ComInv
  BY ComInitInv
<1>2. ComInv /\ [ComNext]_comVars => ComInv'
  BY ComInductive
<1>3. ComInv => SlashingSound
  BY ComInvSound
<1> QED BY <1>1, <1>2, <1>3, PTL DEF ComSpec

(* Faulty validators short of a threshold cannot commit a batch alone      *)
(* (commit_batch, attestation_meets_threshold).                            *)
THEOREM CommitsAreWitnessed == ComSpec => CommitsHaveHonestSigner
<1>1. ComInit => ComInv
  BY ComInitInv
<1>2. ComInv /\ [ComNext]_comVars => ComInv'
  BY ComInductive
<1>3. ComInv /\ [ComNext]_comVars =>
        [chain' # chain =>
            \/ Cardinality({i \in DOMAIN committee.validators :
                    committee.validators[i] \in Faulty /\ i \notin committee.jailed})
                  >= committee.threshold
            \/ \E h \in SignedHeaders : h.root = chain'.root /\ h.seq = chain'.seq
                  /\ h.prev = chain.root /\ SignedBy(h) \ Faulty # {}]_comVars
  BY CommitStep
<1> QED BY <1>1, <1>2, <1>3, PTL DEF ComSpec, CommitsHaveHonestSigner

-----------------------------------------------------------------------------
(* The oracle feed.  A print is used once because, per source, whatever    *)
(* has to be newer than the oracle or the nonce is newer than every print  *)
(* used; the mark is of bounded age because the direct paths store at most *)
(* a staleness bound more than the age of the price; a move is survivable  *)
(* because the envelope of any market that was observed has been proven.   *)
Envelopes ==
    [cap : Nat, win : Nat, mm : Nat, fee : Nat, locked : BOOLEAN, seen : Nat, px : Nat]

FeedInv ==
    /\ FeedTypeOK
    /\ env \in Envelopes
    /\ feed \in [source : {"pyth", "lazer"}, nonce : Nat]
    /\ clock \in 1..MaxClock
    /\ made \in Nat /\ oracle.pub <= clock
    /\ MaxAge = 0 \/ oracle.pub - made <= MaxAge
    /\ applied \in 0..clock /\ rewound = FALSE
    /\ feed.source = "pyth" => applied <= oracle.pub
    /\ feed.source = "lazer" => applied = feed.nonce
    /\ GateSeesOracle
    /\ env.cap # 0 => ProveEnvelope(env)

(* The proof of an envelope is about its four parameters only.             *)
LEMMA ReconfiguredFacts ==
    ASSUME env \in Envelopes, NEW e \in EnvelopeParams, ProveEnvelope(e)
    PROVE  /\ Reconfigured(e) \in Envelopes
           /\ Reconfigured(e).locked = env.locked
           /\ Reconfigured(e).seen = env.seen /\ Reconfigured(e).px = env.px
           /\ Reconfigured(e).cap \in 1..MaxCap
           /\ ProveEnvelope(Reconfigured(e))
<1> DEFINE r == Reconfigured(e)
<1>1. e.cap \in Nat /\ e.win \in Nat /\ e.mm \in Nat /\ e.fee \in Nat
  BY FeedAssumption DEF EnvelopeParams
<1>2. r = [cap |-> e.cap, win |-> e.win, mm |-> e.mm, fee |-> e.fee, locked |-> env.locked,
           seen |-> env.seen, px |-> env.px]
  BY DEF Reconfigured
<1>3. r \in Envelopes /\ r.cap = e.cap /\ r.win = e.win /\ r.mm = e.mm /\ r.fee = e.fee
      /\ r.locked = env.locked /\ r.seen = env.seen /\ r.px = env.px
  <2> HIDE DEF r
  <2> QED BY <1>1, <1>2 DEF Envelopes
<1> HIDE DEF r
<1>4. PriceBudget(r) = PriceBudget(e) /\ Breakpoint(r) = Breakpoint(e)
  BY <1>3 DEF PriceBudget, Breakpoint
<1>5. Probes(r) = Probes(e)
  BY <1>4 DEF Probes
<1>6. \A n : Loss(r, n) = Loss(e, n) /\ LiqFee(r, n) = LiqFee(e, n) /\ MmReq(r, n) = MmReq(e, n)
  BY <1>3, <1>4 DEF Loss, LiqFee, MmReq
<1>7. ProveEnvelope(r) /\ r.cap \in 1..MaxCap
  BY <1>3, <1>5, <1>6 DEF ProveEnvelope
<1> QED BY <1>3, <1>7 DEF r

(* A price the gate admits is the one it measures the next move from.      *)
LEMMA ObservedFacts ==
    ASSUME FeedInv, NEW new \in Prices, env.cap # 0, GateAdmits(new)
    PROVE  /\ Observed(new) \in Envelopes
           /\ Observed(new).locked = env.locked /\ Observed(new).cap = env.cap
           /\ Observed(new).seen \in 0..clock
           /\ Observed(new).px = new
           /\ ProveEnvelope(Observed(new))
<1> DEFINE r == Observed(new)
<1>0. env \in Envelopes /\ new \in Nat /\ clock \in 1..MaxClock /\ env.seen \in 0..clock
  BY FeedAssumption DEF FeedInv, FeedTypeOK
<1>1. CASE env.seen # 0 /\ clock = env.seen
  BY <1>0, <1>1 DEF GateAdmits, FeedInv, Observed
<1>2. CASE ~(env.seen # 0 /\ clock = env.seen)
  <2>1. r = [cap |-> env.cap, win |-> env.win, mm |-> env.mm, fee |-> env.fee,
             locked |-> env.locked, seen |-> clock, px |-> new]
    BY <1>0, <1>2 DEF Envelopes, Observed
  <2>2. r \in Envelopes /\ r.cap = env.cap /\ r.win = env.win /\ r.mm = env.mm
        /\ r.fee = env.fee /\ r.locked = env.locked /\ r.seen = clock /\ r.px = new
    BY <1>0, <2>1 DEF Envelopes
  <2> HIDE DEF r
  <2>3. PriceBudget(r) = PriceBudget(env) /\ Breakpoint(r) = Breakpoint(env)
    BY <2>2 DEF PriceBudget, Breakpoint
  <2>4. Probes(r) = Probes(env)
    BY <2>3 DEF Probes
  <2>5. \A n : /\ Loss(r, n) = Loss(env, n) /\ LiqFee(r, n) = LiqFee(env, n)
               /\ MmReq(r, n) = MmReq(env, n)
    BY <2>2, <2>3 DEF Loss, LiqFee, MmReq
  <2>6. ProveEnvelope(env)
    BY DEF FeedInv
  <2>7. ProveEnvelope(r)
    BY <2>2, <2>4, <2>5, <2>6 DEF ProveEnvelope
  <2> QED BY <1>0, <2>2, <2>7 DEF r
<1> QED BY <1>1, <1>2

LEMMA FeedInitInv == ASSUME FeedInit PROVE FeedInv
<1>1. env = [cap |-> 0, win |-> 0, mm |-> 0, fee |-> 0, locked |-> FALSE, seen |-> 0, px |-> 0]
      /\ clock = 1 /\ prints = {} /\ made = 0 /\ applied = 0 /\ rewound = FALSE
      /\ oracle \in [px : Prices, conf : {0}, pub : {0}]
      /\ mark = [px |-> oracle.px, at |-> 0]
      /\ feed \in [source : {"pyth", "lazer"}, nonce : {0}]
  BY DEF FeedInit
<1>2. MaxClock \in Nat \ {0} /\ MaxAge \in Nat /\ MaxCap \in Nat
  BY FeedAssumption
<1>3. FeedTypeOK
  BY <1>1, <1>2 DEF FeedTypeOK
<1> QED BY <1>1, <1>2, <1>3 DEF FeedInv, Envelopes, GateSeesOracle

(* What the invariant says of a step that changes none of the price, the   *)
(* publish time, the print last used and the clock.                        *)
LEMMA QuietStepKeeps ==
    ASSUME FeedInv, oracle' = oracle, feed' = feed, clock' = clock, made' = made,
           applied' = applied, rewound' = rewound,
           mark' \in [px : Prices, at : 0..MaxClock],
           prints' \subseteq [px : Prices, conf : Confs, at : 1..MaxClock],
           env' \in Envelopes, env'.seen = env.seen, env'.px = env.px, env'.cap \in 0..MaxCap,
           env'.cap # 0 => ProveEnvelope(env'), env.cap # 0 => env'.cap # 0
    PROVE  FeedInv'
<1>1. FeedTypeOK'
  BY DEF FeedInv, FeedTypeOK
<1>2. GateSeesOracle'
  BY DEF FeedInv, GateSeesOracle
<1> QED BY <1>1, <1>2 DEF FeedInv

LEMMA WriteDirectKeeps ==
    ASSUME FeedInv, NEW p \in Prices, NEW c \in Confs, NEW t \in 0..clock,
           Recent(t), env.cap # 0, WriteDirect(p, c, t)
    PROVE  FeedInv'
<1>0. /\ GateAdmits(p) /\ env' = Observed(p)
      /\ oracle' = [px |-> p, conf |-> c, pub |-> clock] /\ made' = t
      /\ UNCHANGED <<mark, feed, prints, clock, applied, rewound>>
  BY DEF WriteDirect
<1>1. /\ env' \in Envelopes /\ env'.cap = env.cap /\ env'.seen \in 0..clock /\ env'.px = p
      /\ ProveEnvelope(env')
  BY <1>0, ObservedFacts
<1>2. FeedTypeOK'
  BY <1>0, <1>1 DEF FeedInv, FeedTypeOK
<1>3. GateSeesOracle'
  BY <1>0, <1>1 DEF GateSeesOracle
<1>4. /\ oracle'.pub = clock /\ clock' = clock /\ feed' = feed /\ applied' = applied
      /\ rewound' = rewound /\ made' = t
  BY <1>0
<1> QED BY <1>1, <1>2, <1>3, <1>4 DEF FeedInv, Recent

LEMMA WritePrintKeeps ==
    ASSUME FeedInv, NEW p \in prints, WritePrint(p), applied < p.at,
           feed' \in [source : {"pyth", "lazer"}, nonce : Nat], feed'.nonce \in 0..MaxClock,
           feed'.source = "lazer" => p.at = feed'.nonce
    PROVE  FeedInv'
<1>0. p.px \in Prices /\ p.conf \in Confs /\ p.at \in 1..MaxClock
  BY DEF FeedInv, FeedTypeOK
<1>1. /\ GateAdmits(p.px) /\ env' = Observed(p.px) /\ env.cap # 0 /\ p.at <= clock
      /\ oracle' = [px |-> p.px, conf |-> p.conf, pub |-> p.at] /\ made' = p.at
      /\ applied' = p.at /\ rewound' = (rewound \/ p.at <= applied)
      /\ UNCHANGED <<mark, prints, clock>>
  BY DEF WritePrint
<1>2. /\ env' \in Envelopes /\ env'.cap = env.cap /\ env'.seen \in 0..clock
      /\ env'.px = p.px /\ ProveEnvelope(env')
  BY <1>0, <1>1, ObservedFacts
<1>3. oracle'.px = p.px /\ oracle'.pub = p.at
      /\ oracle' \in [px : Prices, conf : Confs \cup {0}, pub : 0..MaxClock]
  BY <1>0, <1>1
<1>4. FeedTypeOK'
  BY <1>0, <1>1, <1>2, <1>3 DEF FeedInv, FeedTypeOK
<1>5. GateSeesOracle'
  BY <1>2, <1>3 DEF GateSeesOracle
<1>6. rewound' = FALSE
  <2>1. applied \in Int /\ rewound = FALSE /\ ~(p.at <= applied)
    BY <1>0 DEF FeedInv
  <2> QED BY <1>1, <2>1
<1>7. MaxAge \in Nat
  BY FeedAssumption
<1> QED BY <1>0, <1>1, <1>2, <1>3, <1>4, <1>5, <1>6, <1>7 DEF FeedInv

LEMMA FeedInductive == FeedInv /\ [FeedNext]_feedVars => FeedInv'
<1> SUFFICES ASSUME FeedInv, [FeedNext]_feedVars PROVE FeedInv'
  OBVIOUS
<1>0. /\ env \in Envelopes /\ env.cap \in 0..MaxCap /\ (env.cap # 0 => ProveEnvelope(env))
      /\ mark \in [px : Prices, at : 0..MaxClock]
      /\ prints \subseteq [px : Prices, conf : Confs, at : 1..MaxClock]
      /\ clock \in 1..MaxClock /\ oracle.px \in Prices
  BY DEF FeedInv, FeedTypeOK
<1>1. CASE UNCHANGED feedVars
  BY <1>0, <1>1, QuietStepKeeps DEF feedVars
<1>2. ASSUME NEW e \in EnvelopeParams, SetEnvelopeConfig(e) PROVE FeedInv'
  <2>1. env' = Reconfigured(e) /\ ProveEnvelope(e)
        /\ UNCHANGED <<oracle, mark, feed, prints, clock, made, applied, rewound>>
    BY <1>2 DEF SetEnvelopeConfig
  <2>2. /\ env' \in Envelopes /\ env'.seen = env.seen /\ env'.px = env.px
        /\ env'.cap \in 1..MaxCap /\ ProveEnvelope(env')
    BY <1>0, <2>1, ReconfiguredFacts
  <2>3. MaxCap \in Nat
    BY FeedAssumption
  <2> QED BY <1>0, <2>1, <2>2, <2>3, QuietStepKeeps
<1>3. CASE LockOracleSource
  <2>1. env' = [env EXCEPT !.locked = TRUE] /\ env.cap # 0
        /\ UNCHANGED <<oracle, mark, feed, prints, clock, made, applied, rewound>>
    BY <1>3 DEF LockOracleSource
  <2>2. /\ env' \in Envelopes /\ env'.seen = env.seen /\ env'.px = env.px
        /\ env'.cap = env.cap /\ env'.win = env.win /\ env'.mm = env.mm /\ env'.fee = env.fee
    BY <1>0, <2>1 DEF Envelopes
  <2>3. PriceBudget(env') = PriceBudget(env) /\ Breakpoint(env') = Breakpoint(env)
    BY <2>2 DEF PriceBudget, Breakpoint
  <2>4. Probes(env') = Probes(env)
    BY <2>3 DEF Probes
  <2>5. \A n : /\ Loss(env', n) = Loss(env, n) /\ LiqFee(env', n) = LiqFee(env, n)
               /\ MmReq(env', n) = MmReq(env, n)
    BY <2>2, <2>3 DEF Loss, LiqFee, MmReq
  <2>6. ProveEnvelope(env')
    BY <1>0, <2>1, <2>2, <2>4, <2>5 DEF ProveEnvelope
  <2> QED BY <1>0, <2>1, <2>2, <2>6, QuietStepKeeps
<1>4. ASSUME NEW p \in Prices, NEW c \in Confs, NEW t \in 0..clock,
             UpdateOracle(p, c, t) \/ \E low, high \in Prices : UpdateOracleQuorum(low, p, high, c, t)
      PROVE  FeedInv'
  BY <1>4, WriteDirectKeeps DEF UpdateOracle, UpdateOracleQuorum, DirectOpen
<1>5. ASSUME NEW p \in Prices, NEW c \in Confs, Publish(p, c) PROVE FeedInv'
  <2>1. prints' = prints \cup {[px |-> p, conf |-> c, at |-> clock]}
        /\ UNCHANGED <<oracle, mark, env, feed, clock, made, applied, rewound>>
    BY <1>5 DEF Publish
  <2> QED BY <1>0, <2>1, QuietStepKeeps
<1>6. ASSUME NEW p \in prints, UpdateOracleFromPyth(p) PROVE FeedInv'
  <2>1. feed.source = "pyth" /\ p.at > oracle.pub /\ WritePrint(p) /\ feed' = feed
    BY <1>6 DEF UpdateOracleFromPyth, NewerForPyth
  <2>2. p.at \in Nat /\ oracle.pub \in Nat /\ applied \in Nat /\ applied <= oracle.pub
    BY <1>0, <2>1 DEF FeedInv, FeedTypeOK
  <2>3. feed' \in [source : {"pyth", "lazer"}, nonce : Nat] /\ feed'.nonce \in 0..MaxClock
        /\ feed'.source = "pyth"
    BY <2>1 DEF FeedInv, FeedTypeOK
  <2> QED BY <2>1, <2>2, <2>3, WritePrintKeeps
<1>7. ASSUME NEW p \in prints, UpdateOracleFromLazer(p) PROVE FeedInv'
  <2>1. /\ feed.source = "lazer" /\ p.at > feed.nonce /\ WritePrint(p)
        /\ feed' = [feed EXCEPT !.nonce = p.at]
    BY <1>7 DEF UpdateOracleFromLazer
  <2>2. p.at \in 1..MaxClock /\ feed.nonce = applied
    BY <1>0, <2>1 DEF FeedInv
  <2>3. feed' \in [source : {"pyth", "lazer"}, nonce : Nat] /\ feed'.nonce = p.at
    BY <2>1, <2>2 DEF FeedInv
  <2>4. MaxClock \in Nat
    BY FeedAssumption
  <2> QED BY <2>1, <2>2, <2>3, <2>4, WritePrintKeeps
<1>8. CASE SettleMark
  <2>1. mark' = [px |-> oracle.px, at |-> clock]
        /\ UNCHANGED <<oracle, env, feed, prints, clock, made, applied, rewound>>
    BY <1>8 DEF SettleMark
  <2> QED BY <1>0, <2>1, QuietStepKeeps
<1>9. CASE FeedTick
  <2>1. clock < MaxClock /\ clock' = clock + 1
        /\ UNCHANGED <<oracle, mark, env, feed, prints, made, applied, rewound>>
    BY <1>9 DEF FeedTick
  <2>2. FeedTypeOK' /\ GateSeesOracle'
    BY <1>0, <2>1 DEF FeedInv, FeedTypeOK, GateSeesOracle
  <2>3. env' \in Envelopes /\ (env'.cap # 0 => ProveEnvelope(env'))
    BY <1>0, <2>1
  <2>4. MaxClock \in Nat /\ MaxAge \in Nat
    BY FeedAssumption
  <2>5. clock' \in 1..MaxClock /\ oracle'.pub <= clock' /\ applied' \in 0..clock'
    BY <1>0, <2>1, <2>4 DEF FeedInv, FeedTypeOK
  <2>6. oracle' = oracle /\ feed' = feed /\ made' = made /\ applied' = applied /\ rewound' = rewound
    BY <2>1
  <2> HIDE DEF GateSeesOracle
  <2> QED BY <2>2, <2>3, <2>5, <2>6 DEF FeedInv
<1> QED BY <1>1, <1>2, <1>3, <1>4, <1>5, <1>6, <1>7, <1>8, <1>9 DEF FeedNext

(* Once locked, the source stays locked and only a print moves the price.  *)
LEMMA LockedStep ==
    ASSUME FeedInv, [FeedNext]_feedVars
    PROVE  [env.locked =>
              /\ env'.locked
              /\ oracle'.px # oracle.px =>
                   \E p \in prints : p.px = oracle'.px /\ p.at = oracle'.pub]_feedVars
<1>0. env \in Envelopes /\ prints \subseteq [px : Prices, conf : Confs, at : 1..MaxClock]
  BY DEF FeedInv, FeedTypeOK
<1>1. SUFFICES ASSUME env.locked, FeedNext
               PROVE  env'.locked /\ (oracle'.px # oracle.px =>
                        \E p \in prints : p.px = oracle'.px /\ p.at = oracle'.pub)
  BY DEF feedVars
<1>2. ASSUME NEW e \in EnvelopeParams, SetEnvelopeConfig(e)
      PROVE  env'.locked /\ oracle' = oracle
  BY <1>1, <1>2 DEF SetEnvelopeConfig, Reconfigured
<1>3. LockOracleSource => env'.locked /\ oracle' = oracle
  BY <1>0 DEF LockOracleSource, Envelopes
<1>4. ASSUME NEW p \in prints, UpdateOracleFromPyth(p) \/ UpdateOracleFromLazer(p)
      PROVE  env'.locked /\ p.px = oracle'.px /\ p.at = oracle'.pub
  <2>1. /\ GateAdmits(p.px) /\ env' = Observed(p.px) /\ env.cap # 0
        /\ oracle' = [px |-> p.px, conf |-> p.conf, pub |-> p.at]
    BY <1>4 DEF UpdateOracleFromPyth, UpdateOracleFromLazer, WritePrint
  <2>2. p.px \in Prices
    BY <1>0
  <2>3. env'.locked = env.locked
    BY <2>1, <2>2, ObservedFacts
  <2> QED BY <1>1, <2>1, <2>3
<1>5. ASSUME NEW p \in Prices, NEW c \in Confs, NEW t \in 0..clock,
             UpdateOracle(p, c, t) \/ \E low, high \in Prices : UpdateOracleQuorum(low, p, high, c, t)
      PROVE  FALSE
  BY <1>1, <1>5 DEF UpdateOracle, UpdateOracleQuorum, DirectOpen
<1>6. ASSUME NEW p, NEW c, Publish(p, c) \/ SettleMark \/ FeedTick
      PROVE  env' = env /\ oracle' = oracle
  BY <1>6 DEF Publish, SettleMark, FeedTick
<1> QED BY <1>1, <1>2, <1>3, <1>4, <1>5, <1>6 DEF FeedNext

(* Only settle_mark writes the mark, and within the staleness bound.       *)
LEMMA MarkStep ==
    ASSUME FeedInv, [FeedNext]_feedVars
    PROVE  [mark' # mark /\ MaxAge > 0 =>
              clock - made <= MaxAge + Max({MaxAge, FeedAge})]_feedVars
<1>1. SUFFICES ASSUME FeedNext, mark' # mark, MaxAge > 0
               PROVE  clock - made <= MaxAge + Max({MaxAge, FeedAge})
  BY DEF feedVars
<1>2. SettleMark
  BY <1>1 DEF FeedNext, SetEnvelopeConfig, LockOracleSource, UpdateOracle, UpdateOracleQuorum,
       WriteDirect, Publish, UpdateOracleFromPyth, UpdateOracleFromLazer, WritePrint, FeedTick
<1>3. clock - oracle.pub <= MaxAge /\ oracle.pub - made <= MaxAge
  BY <1>1, <1>2, FeedAssumption DEF SettleMark, MarkFresh, Recent, FeedInv
<1>4. clock \in Int /\ oracle.pub \in Int /\ made \in Int /\ MaxAge \in Int /\ FeedAge \in Int
  BY FeedAssumption DEF FeedInv, FeedTypeOK
<1>5. Max({MaxAge, FeedAge}) = IF MaxAge >= FeedAge THEN MaxAge ELSE FeedAge
  BY <1>4, MaxOfTwo
<1> QED BY <1>3, <1>4, <1>5

(* The oracle's price is measured by the gate whoever wrote it, no signed  *)
(* price is used twice or out of order, a locked market takes signed       *)
(* prices only, and the mark settle_mark leaves is never older than two    *)
(* staleness bounds where there is one, in any order of updates, locks and *)
(* settlements                                                             *)
(* (update_oracle*, lock_oracle_source, settle_mark).                      *)
THEOREM PricesAreGenuine == FeedSpec => PricesGenuine
<1>1. FeedInit => FeedInv
  BY FeedInitInv
<1>2. FeedInv => FeedTypeOK /\ GateSeesOracle /\ NoReplay
  BY DEF FeedInv, NoReplay
<1>3. FeedInv /\ [FeedNext]_feedVars =>
        [env.locked =>
           /\ env'.locked
           /\ oracle'.px # oracle.px =>
                \E p \in prints : p.px = oracle'.px /\ p.at = oracle'.pub]_feedVars
  BY LockedStep
<1>4. FeedInv /\ [FeedNext]_feedVars =>
        [mark' # mark /\ MaxAge > 0 =>
           clock - made <= MaxAge + Max({MaxAge, FeedAge})]_feedVars
  BY MarkStep
<1> QED BY <1>1, <1>2, <1>3, <1>4, FeedInductive, PTL
        DEF FeedSpec, PricesGenuine, LockedMeansSigned, MarkAgeBounded

-----------------------------------------------------------------------------
(* An accepted move is survivable.  prove_envelope tests three sizes; what *)
(* lies between them follows because loss, fee and margin are linear but   *)
(* for rounding: up to the breakpoint the margin is the floor and the cost *)
(* only grows, beyond it the margin's slope is at least that of the cost.  *)
LEMMA CeilDivFacts ==
    ASSUME NEW p \in Nat, NEW d \in Nat \ {0}
    PROVE  CeilDiv(p, d) \in Nat /\ p <= d * CeilDiv(p, d) /\ d * CeilDiv(p, d) < p + d
<1> DEFINE q == p \div d
           r == p % d
<1>1. q \in Nat /\ d * q <= p /\ p < d * q + d
  BY DivNat, DivBounds
<1>2. r \in Nat /\ p = d * q + r
  OBVIOUS
<1>3. CASE r = 0
  <2>1. CeilDiv(p, d) = q
    BY <1>1, <1>3 DEF CeilDiv
  <2> QED BY <1>1, <1>2, <1>3, <2>1
<1>4. CASE r # 0
  <2>1. CeilDiv(p, d) = q + 1
    BY <1>4 DEF CeilDiv
  <2> HIDE DEF q, r
  <2>2. d * (q + 1) = d * q + d
    BY <1>1
  <2> QED BY <1>1, <1>2, <1>4, <2>1, <2>2
<1> QED BY <1>3, <1>4

(* A number below another and a multiple is below it by whole multiples.   *)
LEMMA BelowMultiple ==
    ASSUME NEW d \in Nat \ {0}, NEW x \in Int, NEW y \in Int, d * x < d * y
    PROVE  x < y
OBVIOUS

LEMMA CeilDivMonotone ==
    ASSUME NEW p \in Nat, NEW r \in Nat, NEW d \in Nat \ {0}, p <= r
    PROVE  CeilDiv(p, d) <= CeilDiv(r, d)
<1> DEFINE a == CeilDiv(p, d)
           b == CeilDiv(r, d)
<1>1. a \in Nat /\ b \in Nat /\ d * a < p + d /\ r <= d * b
  BY CeilDivFacts
<1> HIDE DEF a, b
<1>2. d * a < d * (b + 1)
  <2>1. d * (b + 1) = d * b + d /\ d * a \in Int /\ d * b \in Int
    BY <1>1
  <2> QED BY <1>1, <2>1
<1>3. a < b + 1
  BY <1>1, <1>2, BelowMultiple
<1> QED BY <1>1, <1>3 DEF a, b

(* A loss within the budget of the window, as a share of the notional.     *)
LEMMA LossWithinBudget ==
    ASSUME NEW n \in Nat, NEW d \in Nat, NEW last \in Nat \ {0}, NEW budget \in Nat,
           NEW u \in Nat \ {0}, d * u <= budget * last
    PROVE  CeilDiv(n * d, last) <= CeilDiv(n * budget, u)
<1> DEFINE a == CeilDiv(n * d, last)
           b == CeilDiv(n * budget, u)
<1>0. n * d \in Nat /\ n * budget \in Nat
  OBVIOUS
<1>1. a \in Nat /\ b \in Nat /\ last * a < n * d + last /\ n * budget <= u * b
  BY <1>0, CeilDivFacts
<1> HIDE DEF a, b
<1>2. u * (last * a) < u * (n * d + last)
  BY <1>0, <1>1
<1>3. n * (d * u) <= n * (budget * last)
  BY MulMonotone
<1>4. last * (n * budget) <= last * (u * b)
  BY <1>0, <1>1, MulMonotone
<1>5. (u * last) * a < (u * last) * (b + 1)
  <2>1. u * (n * d + last) = n * (d * u) + u * last
    OBVIOUS
  <2>2. n * (budget * last) = last * (n * budget)
    OBVIOUS
  <2>3. last * (u * b) + u * last = (u * last) * (b + 1)
    BY <1>1
  <2>4. u * (last * a) = (u * last) * a
    BY <1>1
  <2> QED BY <1>1, <1>2, <1>3, <1>4, <2>1, <2>2, <2>3, <2>4
<1>6. u * last \in Nat \ {0}
  OBVIOUS
<1>7. a < b + 1
  BY <1>1, <1>5, <1>6, BelowMultiple
<1> QED BY <1>1, <1>7 DEF a, b

(* The part of the liquidation fee that grows with the notional.           *)
PropFee(e, n) == CeilDiv(CeilDiv(n * (Unit + PriceBudget(e)), Unit) * e.fee, Unit)
PropMm(e, n) == (n * e.mm) \div Unit

LEMMA BudgetNat == ASSUME NEW e \in Envelopes PROVE PriceBudget(e) \in Nat
BY DEF Envelopes, PriceBudget

LEMMA LossFacts ==
    ASSUME NEW e \in Envelopes, NEW n \in Nat
    PROVE  /\ Loss(e, n) \in Nat
           /\ n * PriceBudget(e) <= Unit * Loss(e, n)
           /\ Unit * Loss(e, n) < n * PriceBudget(e) + Unit
<1>1. n * PriceBudget(e) \in Nat /\ Unit \in Nat \ {0}
  BY BudgetNat, FeedAssumption
<1> QED BY <1>1, CeilDivFacts DEF Loss

(* The two roundings of the fee, for a price budget b and a fee rate f.    *)
LEMMA TwoCeilings ==
    ASSUME NEW n \in Nat, NEW b \in Nat, NEW f \in Nat, NEW u \in Nat \ {0},
           NEW i \in Nat, NEW p \in Nat,
           n * (u + b) <= u * i, u * i < n * (u + b) + u, i * f <= u * p, u * p < i * f + u
    PROVE  /\ n * ((u + b) * f) <= u * (u * p)
           /\ u * (u * p) < n * ((u + b) * f) + u * f + u * u
<1> DEFINE w == n * (u + b)
<1>0. w \in Nat /\ w <= u * i /\ u * i < w + u
  OBVIOUS
<1>1. n * ((u + b) * f) = w * f
  OBVIOUS
<1> HIDE DEF w
<1>2. w * f <= (u * i) * f /\ (u * i) * f <= (w + u) * f
  <2>1. u * i \in Int /\ u * i <= w + u
    BY <1>0
  <2> QED BY <1>0, <2>1, MulMonotone
<1>3. u * (i * f) <= u * (u * p)
  <2>1. i * f \in Int /\ u * p \in Int
    OBVIOUS
  <2> QED BY <2>1, MulMonotone
<1>4. u * (u * p) < u * (i * f + u)
  OBVIOUS
<1>5. u * (i * f) = (u * i) * f /\ (w + u) * f = w * f + u * f /\ u * (i * f + u) = u * (i * f) + u * u
  BY <1>0
<1> QED BY <1>0, <1>1, <1>2, <1>3, <1>4, <1>5

LEMMA PropFeeFacts ==
    ASSUME NEW e \in Envelopes, NEW n \in Nat
    PROVE  /\ PropFee(e, n) \in Nat
           /\ n * ((Unit + PriceBudget(e)) * e.fee) <= Unit * (Unit * PropFee(e, n))
           /\ Unit * (Unit * PropFee(e, n))
                < n * ((Unit + PriceBudget(e)) * e.fee) + Unit * e.fee + Unit * Unit
<1> DEFINE b == PriceBudget(e)
           f == e.fee
           i == CeilDiv(n * (Unit + b), Unit)
           p == PropFee(e, n)
<1>1. b \in Nat /\ f \in Nat /\ Unit \in Nat \ {0}
  BY BudgetNat, FeedAssumption DEF Envelopes
<1> HIDE DEF b, f
<1>2. n * (Unit + b) \in Nat
  BY <1>1
<1>3. i \in Nat /\ n * (Unit + b) <= Unit * i /\ Unit * i < n * (Unit + b) + Unit
  BY <1>1, <1>2, CeilDivFacts
<1> HIDE DEF i
<1>4. i * f \in Nat /\ p = CeilDiv(i * f, Unit)
  BY <1>1, <1>3 DEF PropFee, b, f, i
<1>5. p \in Nat /\ i * f <= Unit * p /\ Unit * p < i * f + Unit
  BY <1>1, <1>4, CeilDivFacts
<1> HIDE DEF p
<1>6. /\ n * ((Unit + b) * f) <= Unit * (Unit * p)
      /\ Unit * (Unit * p) < n * ((Unit + b) * f) + Unit * f + Unit * Unit
  BY <1>1, <1>3, <1>5, TwoCeilings
<1> QED BY <1>5, <1>6 DEF p, b, f

LEMMA LiqFeeIs ==
    ASSUME NEW e \in Envelopes, NEW n \in Nat
    PROVE  LiqFee(e, n) = IF PropFee(e, n) >= MinLiq THEN PropFee(e, n) ELSE MinLiq
<1>1. PropFee(e, n) \in Int /\ MinLiq \in Int
  BY PropFeeFacts, FeedAssumption
<1>2. LiqFee(e, n) = Max({PropFee(e, n), MinLiq})
  BY DEF LiqFee, PropFee
<1> QED BY <1>1, <1>2, MaxOfTwo

LEMMA MmReqIs ==
    ASSUME NEW e \in Envelopes, NEW n \in Nat
    PROVE  /\ PropMm(e, n) \in Nat
           /\ Unit * PropMm(e, n) <= n * e.mm
           /\ n * e.mm < Unit * PropMm(e, n) + Unit
           /\ MmReq(e, n) = IF PropMm(e, n) >= MinMm THEN PropMm(e, n) ELSE MinMm
<1>1. n * e.mm \in Nat /\ Unit \in Nat \ {0} /\ MinMm \in Int
  BY FeedAssumption DEF Envelopes
<1>2. PropMm(e, n) \in Nat /\ Unit * PropMm(e, n) <= n * e.mm
      /\ n * e.mm < Unit * PropMm(e, n) + Unit
  <2> DEFINE p == n * e.mm
             q == p \div Unit
  <2>1. p \in Nat /\ p \in Int /\ Unit \in Nat \ {0}
    BY <1>1
  <2> HIDE DEF p
  <2>2. q \in Nat /\ Unit * q <= p /\ p < Unit * q + Unit
    BY <2>1, DivNat, DivBounds
  <2> QED BY <2>2 DEF PropMm, p
<1>3. MmReq(e, n) = Max({PropMm(e, n), MinMm})
  BY DEF MmReq, PropMm
<1> QED BY <1>1, <1>2, <1>3, MaxOfTwo

(* The breakpoint is where the proportional requirement meets the floor.   *)
LEMMA BreakpointFacts ==
    ASSUME NEW e \in Envelopes, e.mm > 0
    PROVE  /\ Breakpoint(e) \in Nat
           /\ e.mm * Breakpoint(e) <= MinMm * Unit
           /\ MinMm * Unit < e.mm * Breakpoint(e) + e.mm
<1>1. MinMm * Unit \in Nat /\ e.mm \in Nat \ {0}
  BY FeedAssumption DEF Envelopes
<1> DEFINE p == MinMm * Unit
           d == e.mm
           q == p \div d
<1>2. p \in Nat /\ p \in Int /\ d \in Nat \ {0}
  BY <1>1
<1> HIDE DEF p, d
<1>3. q \in Nat /\ d * q <= p /\ p < d * q + d
  BY <1>2, DivNat, DivBounds
<1> QED BY <1>3 DEF Breakpoint, p, d

(* Up to the breakpoint cost grows and the requirement is at its floor.    *)
LEMMA SmallSurvives ==
    ASSUME NEW e \in Envelopes, ProveEnvelope(e), NEW n \in 1..Breakpoint(e)
    PROVE  Loss(e, n) + LiqFee(e, n) <= MmReq(e, n)
<1> DEFINE b == Breakpoint(e)
<1>1. b \in Nat /\ e.mm * b <= MinMm * Unit /\ e.mm \in Nat /\ e.fee \in Nat
  BY BreakpointFacts DEF ProveEnvelope, Envelopes
<1>2. n \in Nat /\ b \in Nat /\ n <= b /\ b # 0
  BY <1>1
<1>3. PriceBudget(e) \in Nat /\ Unit \in Nat \ {0} /\ MinMm \in Nat /\ MinLiq \in Nat
  BY BudgetNat, FeedAssumption
<1>4. Loss(e, b) + LiqFee(e, b) <= MmReq(e, b)
  BY <1>2 DEF ProveEnvelope, Probes
<1> HIDE DEF b
<1>5. Loss(e, n) <= Loss(e, b)
  <2>1. n * PriceBudget(e) <= b * PriceBudget(e) /\ n * PriceBudget(e) \in Nat
        /\ b * PriceBudget(e) \in Nat
    BY <1>2, <1>3, MulMonotone
  <2> QED BY <1>3, <2>1, CeilDivMonotone DEF Loss
<1>6. PropFee(e, n) <= PropFee(e, b)
  <2> DEFINE v == Unit + PriceBudget(e)
             i == CeilDiv(n * v, Unit)
             j == CeilDiv(b * v, Unit)
  <2>1. v \in Nat
    BY <1>3
  <2> HIDE DEF v
  <2>2. n * v <= b * v /\ n * v \in Nat /\ b * v \in Nat
    BY <1>2, <2>1, MulMonotone
  <2>3. i <= j /\ i \in Nat /\ j \in Nat
    BY <1>3, <2>2, CeilDivMonotone, CeilDivFacts
  <2> HIDE DEF i, j
  <2>4. i * e.fee <= j * e.fee /\ i * e.fee \in Nat /\ j * e.fee \in Nat
    BY <1>1, <2>3, MulMonotone
  <2>5. CeilDiv(i * e.fee, Unit) <= CeilDiv(j * e.fee, Unit)
    BY <1>3, <2>4, CeilDivMonotone
  <2> QED BY <2>5 DEF PropFee, v, i, j
<1>7. LiqFee(e, n) <= LiqFee(e, b)
  <2>1. PropFee(e, n) \in Nat /\ PropFee(e, b) \in Nat
    BY <1>2, PropFeeFacts
  <2>2. /\ LiqFee(e, n) = IF PropFee(e, n) >= MinLiq THEN PropFee(e, n) ELSE MinLiq
        /\ LiqFee(e, b) = IF PropFee(e, b) >= MinLiq THEN PropFee(e, b) ELSE MinLiq
    BY <1>2, LiqFeeIs
  <2> QED BY <1>3, <1>6, <2>1, <2>2
<1>8. MmReq(e, b) = MinMm
  <2>1. PropMm(e, b) \in Nat /\ Unit * PropMm(e, b) <= b * e.mm
        /\ MmReq(e, b) = IF PropMm(e, b) >= MinMm THEN PropMm(e, b) ELSE MinMm
    BY <1>2, MmReqIs
  <2>2. Unit * PropMm(e, b) <= Unit * MinMm
    <3>1. b * e.mm = e.mm * b /\ MinMm * Unit = Unit * MinMm
      BY <1>1, <1>2, <1>3
    <3> QED BY <1>1, <1>2, <1>3, <2>1, <3>1
  <2>3. PropMm(e, b) <= MinMm
    BY <1>3, <2>1, <2>2, MulCancel
  <2> QED BY <1>3, <2>1, <2>3
<1>9. MmReq(e, n) >= MinMm /\ MmReq(e, n) \in Nat
  BY <1>2, <1>3, MmReqIs
<1>10. Loss(e, n) \in Nat /\ Loss(e, b) \in Nat /\ LiqFee(e, n) \in Nat /\ LiqFee(e, b) \in Nat
  BY <1>2, <1>3, LossFacts, LiqFeeIs, PropFeeFacts
<1> QED BY <1>3, <1>4, <1>5, <1>7, <1>8, <1>9, <1>10

(* Beyond the breakpoint: from the largest account, the slope of cost.     *)
LEMMA SlopeOfCost ==
    ASSUME NEW u \in Nat \ {0}, NEW b \in Nat, NEW g \in Nat, NEW m \in Nat, NEW N \in Nat \ {0},
           NEW l \in Nat, NEW p \in Nat, NEW k \in Nat,
           N * b <= u * l, N * g <= u * (u * p), l + p <= k, u * k <= N * m
    PROVE  u * b + g <= u * m
<1>1. u * (N * b) <= u * (u * l)
  <2>1. N * b \in Int /\ u * l \in Int
    OBVIOUS
  <2> QED BY <2>1, MulMonotone
<1>2. u * (l + p) <= u * k
  BY MulMonotone
<1>3. u * (u * (l + p)) <= u * (u * k)
  <2>1. u * (l + p) \in Int /\ u * k \in Int
    OBVIOUS
  <2> QED BY <1>2, <2>1, MulMonotone
<1>4. u * (u * k) <= u * (N * m)
  <2>1. u * k \in Int /\ N * m \in Int
    OBVIOUS
  <2> QED BY <2>1, MulMonotone
<1>5. u * (u * (l + p)) = u * (u * l) + u * (u * p)
  OBVIOUS
<1>6. N * (u * b + g) = u * (N * b) + N * g /\ N * (u * m) = u * (N * m)
  OBVIOUS
<1>7. N * (u * b + g) <= N * (u * m)
  BY <1>1, <1>3, <1>4, <1>5, <1>6
<1>8. u * b + g \in Int /\ u * m \in Int
  OBVIOUS
<1> QED BY <1>7, <1>8, MulCancel

(* With that slope loss and fee exceed the requirement by rounding only.   *)
LEMMA LargeFeeCovered ==
    ASSUME NEW u \in Nat \ {0}, NEW b \in Nat, NEW g \in Nat, NEW m \in Nat, NEW n \in Nat,
           NEW l \in Nat, NEW p \in Nat, NEW k \in Nat,
           u * b + g <= u * m, u * l < n * b + u, u * (u * p) < n * g + 2 * (u * u),
           n * m < u * k + u
    PROVE  l + p <= k + 3
<1>1. n * (u * b + g) <= n * (u * m)
  <2>1. u * b + g \in Int /\ u * m \in Int
    OBVIOUS
  <2> QED BY <2>1, MulMonotone
<1>2. u * (u * l) < u * (n * b + u)
  OBVIOUS
<1>3. u * (n * m) < u * (u * k + u)
  OBVIOUS
<1>4. /\ n * (u * b + g) = u * (n * b) + n * g /\ n * (u * m) = u * (n * m)
      /\ u * (n * b + u) = u * (n * b) + u * u /\ u * (u * k + u) = u * (u * k) + u * u
  OBVIOUS
<1>5. u * (u * l) + u * (u * p) < u * (u * k) + 4 * (u * u)
  BY <1>1, <1>2, <1>3, <1>4
<1>6. /\ u * (u * l) + u * (u * p) = (u * u) * (l + p)
      /\ u * (u * k) + 4 * (u * u) = (u * u) * (k + 4)
  OBVIOUS
<1>7. u * u \in Nat \ {0} /\ (u * u) * (l + p) < (u * u) * (k + 4)
  BY <1>5, <1>6
<1>8. l + p < k + 4
  BY <1>7, BelowMultiple
<1> QED BY <1>8

(* The same for the smallest fee q: it fits at the breakpoint c, where the *)
(* requirement is about the floor, and the margin's slope is the steeper.  *)
LEMMA LargeMinCovered ==
    ASSUME NEW u \in Nat \ {0}, NEW b \in Nat, NEW m \in Nat, NEW n \in Nat,
           NEW l \in Nat, NEW q \in Nat, NEW c \in Nat, NEW k \in Nat,
           b <= m, m < u, c < n, c * b + u * q < m * c + m, u * l < n * b + u,
           n * m < u * k + u
    PROVE  l + q <= k + 3
<1>1. (c + 1) * (m - b) <= n * (m - b)
  <2>1. c + 1 <= n /\ m - b \in Nat
    OBVIOUS
  <2> QED BY <2>1, MulMonotone
<1>2. (c + 1) * (m - b) = (m * c + m) - (c * b) - b /\ n * (m - b) = n * m - n * b
  OBVIOUS
<1>3. u * q < n * m - n * b + b
  <2>1. u * q \in Int /\ c * b \in Int /\ m * c \in Int /\ n * m \in Int /\ n * b \in Int
    OBVIOUS
  <2> QED BY <1>1, <1>2, <2>1
<1>4. u * q + u * l < u * k + 3 * u
  <2>1. u * q \in Int /\ u * l \in Int /\ u * k \in Int /\ n * m \in Int /\ n * b \in Int
    OBVIOUS
  <2> QED BY <1>3, <2>1
<1>5. u * q + u * l = u * (l + q) /\ u * k + 3 * u = u * (k + 3)
  OBVIOUS
<1>6. l + q < k + 3
  BY <1>4, <1>5, BelowMultiple
<1> QED BY <1>6

LEMMA LargeSurvives ==
    ASSUME NEW e \in Envelopes, ProveEnvelope(e), NEW n \in 1..MaxNotional, n > Breakpoint(e)
    PROVE  Loss(e, n) + LiqFee(e, n) <= MmReq(e, n) + 3
<1> DEFINE N == MaxNotional
           c == Breakpoint(e)
           b == PriceBudget(e)
           g == (Unit + b) * e.fee
<1>1. /\ Unit \in Nat \ {0} /\ MinMm \in Nat /\ MinLiq \in Nat /\ N \in Nat /\ b \in Nat
      /\ e.mm \in Nat /\ e.fee \in Nat /\ e.mm > 0 /\ e.mm < Unit /\ e.fee < Unit
  BY BudgetNat, FeedAssumption DEF ProveEnvelope, Envelopes
<1>2. c \in Nat /\ e.mm * c <= MinMm * Unit /\ MinMm * Unit < e.mm * c + e.mm
  BY <1>1, BreakpointFacts
<1>3. n \in Nat \ {0} /\ n <= N /\ c < n /\ N \in Nat \ {0}
  BY <1>1, <1>2
<1>4. g \in Nat
  BY <1>1
<1>5. Loss(e, N) + LiqFee(e, N) <= MmReq(e, N)
  BY <1>3 DEF ProveEnvelope, Probes
<1>6. c # 0 => Loss(e, c) + LiqFee(e, c) <= MmReq(e, c)
  BY DEF ProveEnvelope, Probes
<1> HIDE DEF N, c, b, g
(* The requirement beyond the breakpoint is the proportional one. *)
<1>7. ASSUME NEW k \in Nat, c < k PROVE MmReq(e, k) = PropMm(e, k)
  <2>1. /\ PropMm(e, k) \in Nat /\ k * e.mm < Unit * PropMm(e, k) + Unit
        /\ MmReq(e, k) = IF PropMm(e, k) >= MinMm THEN PropMm(e, k) ELSE MinMm
    BY <1>7, MmReqIs
  <2>2. (c + 1) * e.mm <= k * e.mm
    <3>1. c + 1 \in Int /\ k \in Int /\ c + 1 <= k
      BY <1>2, <1>7
    <3> QED BY <1>1, <3>1, MulMonotone
  <2>3. (c + 1) * e.mm = e.mm * c + e.mm /\ MinMm * Unit = Unit * MinMm
        /\ Unit * PropMm(e, k) + Unit = Unit * (PropMm(e, k) + 1)
    <3> DEFINE x == PropMm(e, k)
               y == e.mm
    <3>1. x \in Nat /\ y \in Nat /\ c \in Nat /\ Unit \in Nat /\ MinMm \in Nat
      BY <1>1, <1>2, <2>1
    <3> HIDE DEF x, y
    <3>2. (c + 1) * y = y * c + y
      BY <3>1
    <3>3. MinMm * Unit = Unit * MinMm
      BY <3>1
    <3>4. Unit * x + Unit = Unit * (x + 1)
      BY <3>1
    <3> QED BY <3>2, <3>3, <3>4 DEF x, y
  <2>4. Unit * MinMm < Unit * (PropMm(e, k) + 1)
    <3>1. k * e.mm \in Int /\ e.mm * c \in Int /\ Unit * MinMm \in Int
          /\ Unit * (PropMm(e, k) + 1) \in Int
      BY <1>1, <1>2, <1>7, <2>1
    <3> QED BY <1>1, <1>2, <2>1, <2>2, <2>3, <3>1
  <2>5. MinMm < PropMm(e, k) + 1
    BY <1>1, <2>1, <2>4, BelowMultiple
  <2> QED BY <1>1, <2>1, <2>5
<1> DEFINE lN == Loss(e, N)
           pN == PropFee(e, N)
           kN == PropMm(e, N)
           l == Loss(e, n)
           p == PropFee(e, n)
           k == PropMm(e, n)
<1>8. /\ lN \in Nat /\ N * b <= Unit * lN
      /\ l \in Nat /\ Unit * l < n * b + Unit
  BY <1>3, LossFacts DEF b
<1>9. /\ pN \in Nat /\ N * g <= Unit * (Unit * pN)
      /\ p \in Nat /\ Unit * (Unit * p) < n * g + Unit * e.fee + Unit * Unit
  BY <1>3, PropFeeFacts DEF b, g
<1>10. /\ kN \in Nat /\ Unit * kN <= N * e.mm
       /\ k \in Nat /\ n * e.mm < Unit * k + Unit
       /\ MmReq(e, N) = kN /\ MmReq(e, n) = k
  <2>1. N \in Nat /\ c < N /\ n \in Nat
    BY <1>2, <1>3
  <2> QED BY <1>3, <1>7, <2>1, MmReqIs
<1>11. /\ LiqFee(e, N) = IF pN >= MinLiq THEN pN ELSE MinLiq
       /\ LiqFee(e, n) = IF p >= MinLiq THEN p ELSE MinLiq
  BY <1>3, LiqFeeIs
<1>12. lN + pN <= kN /\ lN + MinLiq <= kN
  BY <1>1, <1>5, <1>8, <1>9, <1>10, <1>11
<1> DEFINE m == e.mm
<1>13. m \in Nat /\ m < Unit /\ m > 0
  BY <1>1
<1> HIDE DEF lN, pN, kN, l, p, k, m
<1>14. l + p <= k + 3
  <2>1. Unit * kN <= N * m /\ n * m < Unit * k + Unit
    BY <1>10 DEF m
  <2>2. Unit * b + g <= Unit * m
    BY <1>1, <1>3, <1>4, <1>8, <1>9, <1>10, <1>12, <1>13, <2>1, SlopeOfCost
  <2>3. Unit * (Unit * p) < n * g + 2 * (Unit * Unit)
    <3>1. Unit * e.fee <= Unit * Unit
      BY <1>1, MulMonotone
    <3>2. Unit * e.fee \in Int /\ Unit * Unit \in Int /\ n * g \in Int /\ Unit * (Unit * p) \in Int
      BY <1>1, <1>3, <1>4, <1>9
    <3> QED BY <1>9, <3>1, <3>2
  <2> QED BY <1>1, <1>3, <1>4, <1>8, <1>9, <1>10, <1>13, <2>1, <2>2, <2>3, LargeFeeCovered
<1>15. l + MinLiq <= k + 3
  <2>1. Unit * kN <= N * m /\ n * m < Unit * k + Unit
    BY <1>10 DEF m
  <2>2. b <= m
    <3>1. Unit * lN <= Unit * kN
      BY <1>1, <1>8, <1>10, <1>12, MulMonotone
    <3>2. N * b <= N * m
      <4>1. N * b \in Int /\ Unit * lN \in Int /\ Unit * kN \in Int /\ N * m \in Int
        BY <1>1, <1>8, <1>10, <1>13
      <4> QED BY <1>8, <2>1, <3>1, <4>1
    <3> QED BY <1>1, <1>3, <1>13, <3>2, MulCancel
  <2>3. c # 0
    <3> SUFFICES ASSUME c = 0 PROVE FALSE
      OBVIOUS
    <3>1. MinMm * Unit < m
      BY <1>2, <1>13 DEF m
    <3>2. MinMm = 0
      BY <1>1, <1>13, <3>1
    <3>3. 1 \in Probes(e)
      BY DEF Probes
    <3>4. Loss(e, 1) + LiqFee(e, 1) <= MmReq(e, 1)
      BY <3>3 DEF ProveEnvelope
    <3>5. MmReq(e, 1) = 0
      <4>1. PropMm(e, 1) \in Nat /\ Unit * PropMm(e, 1) <= m
            /\ MmReq(e, 1) = IF PropMm(e, 1) >= MinMm THEN PropMm(e, 1) ELSE MinMm
        BY <1>1, MmReqIs DEF m
      <4>2. Unit * PropMm(e, 1) < Unit * 1
        BY <1>1, <1>13, <4>1
      <4>3. PropMm(e, 1) < 1
        BY <1>1, <4>1, <4>2, BelowMultiple
      <4> QED BY <3>2, <4>1, <4>3
    <3>6. Loss(e, 1) \in Nat /\ b <= Unit * Loss(e, 1) /\ LiqFee(e, 1) \in Nat
      <4>1. 1 \in Nat /\ 1 * b = b
        BY <1>1
      <4>2. Loss(e, 1) \in Nat /\ 1 * b <= Unit * Loss(e, 1)
        BY <4>1, LossFacts DEF b
      <4>3. PropFee(e, 1) \in Nat
        BY <4>1, PropFeeFacts
      <4> QED BY <1>1, <4>1, <4>2, <4>3, LiqFeeIs
    <3>7. Loss(e, 1) = 0
      BY <3>4, <3>5, <3>6
    <3>8. b >= 1
      BY DEF b, PriceBudget, ProveEnvelope, Envelopes
    <3> QED BY <1>1, <3>6, <3>7, <3>8
  <2>4. c * b + Unit * MinLiq < m * c + m
    <3> DEFINE lc == Loss(e, c)
               kc == PropMm(e, c)
    <3>1. lc \in Nat /\ c * b <= Unit * lc
      BY <1>2, LossFacts DEF b
    <3>2. kc \in Nat /\ Unit * kc <= c * m
          /\ MmReq(e, c) = IF kc >= MinMm THEN kc ELSE MinMm
      BY <1>2, MmReqIs DEF m
    <3>3. LiqFee(e, c) >= MinLiq /\ LiqFee(e, c) \in Nat
      BY <1>1, <1>2, LiqFeeIs, PropFeeFacts
    <3>4. kc <= MinMm
      <4>1. Unit * kc <= Unit * MinMm
        <5>1. c * m = e.mm * c /\ MinMm * Unit = Unit * MinMm
          BY <1>1, <1>2 DEF m
        <5>2. Unit * kc \in Int /\ c * m \in Int /\ Unit * MinMm \in Int
          BY <1>1, <1>2, <1>13, <3>2
        <5> QED BY <1>2, <3>2, <5>1, <5>2
      <4> QED BY <1>1, <3>2, <4>1, MulCancel
    <3>5. lc + MinLiq <= MinMm
      BY <1>1, <1>6, <2>3, <3>1, <3>2, <3>3, <3>4
    <3> HIDE DEF lc, kc
    <3>6. Unit * (lc + MinLiq) <= Unit * MinMm
      BY <1>1, <3>1, <3>5, MulMonotone
    <3>7. Unit * (lc + MinLiq) = Unit * lc + Unit * MinLiq /\ Unit * MinMm = MinMm * Unit
      BY <1>1, <3>1
    <3>8. MinMm * Unit < m * c + m
      BY <1>2 DEF m
    <3>9. c * b \in Int /\ Unit * lc \in Int /\ Unit * MinLiq \in Int /\ MinMm * Unit \in Int
          /\ m * c + m \in Int
      BY <1>1, <1>2, <1>13, <3>1
    <3> QED BY <3>1, <3>6, <3>7, <3>8, <3>9
  <2> QED BY <1>1, <1>2, <1>3, <1>8, <1>10, <1>13, <2>1, <2>2, <2>4, LargeMinCovered
<1> QED
  <2>1. LiqFee(e, n) = p \/ LiqFee(e, n) = MinLiq
    BY <1>11 DEF p
  <2> QED BY <1>10, <1>14, <1>15, <2>1 DEF l, p, k

(* What the gate admits moves the price by no more than the proven budget. *)
LEMMA AdmittedMove ==
    ASSUME FeedInv, env.seen # 0, NEW new \in Prices, GateAdmits(new), new # oracle.px
    PROVE  Abs(new - oracle.px) * Unit <= PriceBudget(env) * oracle.px
<1>1. /\ env.px = oracle.px /\ env \in Envelopes /\ clock \in Nat /\ env.seen \in 0..clock
      /\ oracle.px \in Nat \ {0} /\ new \in Nat
  BY FeedAssumption DEF FeedInv, FeedTypeOK, GateSeesOracle
<1>2. clock > env.seen /\ Abs(new - env.px) * Unit <= env.cap * AccrualDt(env) * env.px
  BY <1>1 DEF GateAdmits, GatePriceMove
<1> DEFINE d == AccrualDt(env)
           w == env.win
           c == env.cap
           x == oracle.px
<1>3. clock - env.seen \in Nat /\ w \in Nat /\ c \in Nat /\ x \in Nat
  BY <1>1, <1>2 DEF Envelopes
<1>4. d \in Nat /\ d <= w
  <2>1. d = IF clock - env.seen <= w THEN clock - env.seen ELSE w
    BY <1>3, MinOfTwo DEF AccrualDt
  <2> QED BY <1>3, <2>1
<1> HIDE DEF d, w, c
<1>5. c * d <= c * w
  BY <1>3, <1>4, MulMonotone
<1>6. (c * d) * x <= (c * w) * x
  <2>1. c * d \in Int /\ c * w \in Int
    BY <1>3, <1>4
  <2> QED BY <1>3, <1>5, <2>1, MulMonotone
<1>7. Abs(new - x) * Unit <= (c * d) * x /\ PriceBudget(env) = c * w
  BY <1>1, <1>2 DEF PriceBudget, c, d, w
<1>8. Abs(new - x) * Unit \in Int /\ (c * d) * x \in Int /\ (c * w) * x \in Int
  BY <1>1, <1>3, <1>4, FeedAssumption DEF Abs
<1> QED BY <1>6, <1>7, <1>8

LEMMA SurvivableStep ==
    ASSUME FeedInv, [FeedNext]_feedVars
    PROVE  [oracle'.px # oracle.px /\ env.seen # 0 =>
              \A n \in 1..MaxNotional :
                  CeilDiv(n * Abs(oracle'.px - oracle.px), oracle.px) + LiqFee(env, n)
                      <= MmReq(env, n) + Rounding]_feedVars
<1>1. SUFFICES ASSUME FeedNext, oracle'.px # oracle.px, env.seen # 0, NEW n \in 1..MaxNotional
               PROVE  CeilDiv(n * Abs(oracle'.px - oracle.px), oracle.px) + LiqFee(env, n)
                          <= MmReq(env, n) + Rounding
  BY DEF feedVars
<1>2. oracle'.px \in Prices /\ GateAdmits(oracle'.px)
  <2>1. ASSUME NEW p \in Prices, NEW c \in Confs, NEW t \in 0..clock,
               UpdateOracle(p, c, t) \/ \E low, high \in Prices : UpdateOracleQuorum(low, p, high, c, t)
        PROVE  oracle'.px = p /\ GateAdmits(p)
    BY <2>1 DEF UpdateOracle, UpdateOracleQuorum, WriteDirect
  <2>2. ASSUME NEW p \in prints, UpdateOracleFromPyth(p) \/ UpdateOracleFromLazer(p)
        PROVE  oracle'.px = p.px /\ GateAdmits(p.px) /\ p.px \in Prices
    BY <2>2 DEF UpdateOracleFromPyth, UpdateOracleFromLazer, WritePrint, FeedInv, FeedTypeOK
  <2>3. ASSUME NEW p, NEW c, NEW e,
               SetEnvelopeConfig(e) \/ LockOracleSource \/ Publish(p, c) \/ SettleMark \/ FeedTick
        PROVE  oracle' = oracle
    BY <2>3 DEF SetEnvelopeConfig, LockOracleSource, Publish, SettleMark, FeedTick
  <2> QED BY <1>1, <2>1, <2>2, <2>3 DEF FeedNext
<1> DEFINE x == oracle.px
           d == Abs(oracle'.px - x)
<1>3. /\ x \in Nat \ {0} /\ d \in Nat /\ n \in Nat /\ Unit \in Nat \ {0}
      /\ env \in Envelopes /\ ProveEnvelope(env)
  <2>1. x \in Nat \ {0} /\ oracle'.px \in Nat /\ MaxNotional \in Nat /\ Unit \in Nat \ {0}
    BY <1>2, FeedAssumption DEF FeedInv, FeedTypeOK
  <2>2. env.cap # 0 /\ env \in Envelopes
    BY <1>1 DEF FeedInv, FeedTypeOK
  <2> QED BY <2>1, <2>2 DEF Abs, FeedInv
<1>4. d * Unit <= PriceBudget(env) * x
  BY <1>1, <1>2, AdmittedMove
<1>5. PriceBudget(env) \in Nat
  BY <1>3, BudgetNat
<1> HIDE DEF x, d
<1>6. CeilDiv(n * d, x) <= Loss(env, n)
  BY <1>3, <1>4, <1>5, LossWithinBudget DEF Loss
<1>7. Loss(env, n) + LiqFee(env, n) <= MmReq(env, n) + 3
  <2>1. Breakpoint(env) \in Nat
    BY <1>3, BreakpointFacts DEF ProveEnvelope
  <2>2. CASE n <= Breakpoint(env)
    <3>1. Loss(env, n) + LiqFee(env, n) <= MmReq(env, n)
      BY <1>1, <1>3, <2>1, <2>2, SmallSurvives
    <3>2. Loss(env, n) \in Nat /\ MmReq(env, n) \in Nat /\ PropFee(env, n) \in Nat /\ MinLiq \in Nat
      BY <1>3, LossFacts, MmReqIs, PropFeeFacts, FeedAssumption
    <3>3. LiqFee(env, n) \in Nat
      BY <1>3, <3>2, LiqFeeIs
    <3> QED BY <3>1, <3>2, <3>3
  <2>3. CASE n > Breakpoint(env)
    BY <1>1, <1>3, <2>3, LargeSurvives
  <2> QED BY <1>3, <2>1, <2>2, <2>3
<1>8. /\ CeilDiv(n * d, x) \in Nat /\ Loss(env, n) \in Nat /\ LiqFee(env, n) \in Nat
      /\ MmReq(env, n) \in Nat
  <2>1. n * d \in Nat
    BY <1>3
  <2>2. CeilDiv(n * d, x) \in Nat
    BY <1>3, <2>1, CeilDivFacts
  <2>3. Loss(env, n) \in Nat /\ PropFee(env, n) \in Nat /\ PropMm(env, n) \in Nat
    BY <1>3, LossFacts, MmReqIs, PropFeeFacts
  <2>4. MinLiq \in Nat /\ MinMm \in Nat
    BY FeedAssumption
  <2> QED BY <1>3, <2>2, <2>3, <2>4, LiqFeeIs, MmReqIs
<1>9. CeilDiv(n * d, x) + LiqFee(env, n) <= MmReq(env, n) + 3
  BY <1>6, <1>7, <1>8
<1> QED BY <1>9 DEF Rounding, x, d

(* Whatever an accepted update costs a position of any size, liquidation   *)
(* fee included, its maintenance margin covers, but for three lots of      *)
(* rounding: three probed sizes are enough, for every envelope that passes *)
(* and after any gap or reconfiguration (prove_envelope, gate_price_move). *)
THEOREM AcceptedMoveIsSurvivable == FeedSpec => UpdateSurvivable
<1>1. FeedInit => FeedInv
  BY FeedInitInv
<1>2. FeedInv /\ [FeedNext]_feedVars =>
        [oracle'.px # oracle.px /\ env.seen # 0 =>
              \A n \in 1..MaxNotional :
                  CeilDiv(n * Abs(oracle'.px - oracle.px), oracle.px) + LiqFee(env, n)
                      <= MmReq(env, n) + Rounding]_feedVars
  BY SurvivableStep
<1> QED BY <1>1, <1>2, FeedInductive, PTL DEF FeedSpec, UpdateSurvivable
=============================================================================
