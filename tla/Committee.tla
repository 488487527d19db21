----------------------------- MODULE Committee ------------------------------
(* The sequencer committee: rotation, permissionless batch commits under a *)
(* BFT quorum of signatures, and slashing of validators that signed two    *)
(* batches of one height (set_sequencer_committee, commit_batch and        *)
(* slash_equivocation in programs/clober/src/lib.rs, matcher/committee.rs).*)
(*                                                                         *)
(* A batch header is [epoch, seq, prev, root]; its digest is the header    *)
(* itself.  A signature once made can be used by anyone at any time.       *)
EXTENDS Integers, Sequences, FiniteSets, SequencesExt

CONSTANTS
    Validators,  \* validator keys
    Faulty,      \* those that sign anything; the others follow the protocol
    Committees,  \* validator lists the authority appoints
    Thresholds,  \* thresholds the authority asks for
    Batches,     \* [seq, root] of the batches validators may sign
    ZeroRoot,    \* [0u8; 32]
    MaxEpoch,    \* bound: rotations
    MaxSigned    \* bound: signatures made

ASSUME CommitteeAssumption ==
    /\ Faulty \subseteq Validators
    /\ Committees \subseteq Seq(Validators)
    /\ \A b \in Batches : b.seq \in Nat \ {0}
    /\ Thresholds \subseteq Nat /\ MaxEpoch \in Nat /\ MaxSigned \in Nat

VARIABLES
    committee,  \* SequencerCommittee: epoch, validators, threshold, jailed slots
    chain,      \* BatchAttestationAccount: last_batch_seq, last_state_root
    signed      \* {<<validator, header>>}: the signatures that exist

comVars == <<committee, chain, signed>>

Roots == {b.root : b \in Batches} \cup {ZeroRoot}
Headers == {[epoch |-> e, prev |-> r, seq |-> b.seq, root |-> b.root] :
                e \in 1..MaxEpoch, r \in Roots, b \in Batches}

-----------------------------------------------------------------------------
(* matcher/committee.rs *)
(* Deliberately wrong: a plain majority is enough.                         *)
IsValidBftConfigMajority(n, t) == n >= 1 /\ t \in 1..n /\ 2 * t > n

IsValidBftConfig(n, t) == n >= 1 /\ t \in 1..n /\ 3 * t > 2 * n

ValidatorsValidSet(vs) == IsInjective(vs)

(* Deliberately wrong: one signature short is enough.                      *)
AttestationMeetsThresholdAlmost(slots) == Cardinality(slots) + 1 >= committee.threshold

(* The attestors, given by slot, are distinct members and enough of them   *)
AttestationMeetsThreshold(slots) == Cardinality(slots) >= committee.threshold

IsEquivocation(a, b) == a.epoch = b.epoch /\ a.seq = b.seq /\ a # b

Members == Range(committee.validators)
SignedHeaders == {s[2] : s \in signed}
SignedBy(h) == {v \in Validators : <<v, h>> \in signed}

-----------------------------------------------------------------------------
ComInit ==
    /\ committee = [epoch |-> 0, validators |-> <<>>, threshold |-> 0, jailed |-> {}]
    /\ chain = [seq |-> 0, root |-> ZeroRoot]
    /\ signed = {}

Rotated(vs, t) ==
    [epoch |-> committee.epoch + 1, validators |-> vs, threshold |-> t, jailed |-> {}]

(* Signed by the market authority *)
SetSequencerCommittee(vs, t) ==
    /\ committee.epoch < MaxEpoch
    /\ IsValidBftConfig(Len(vs), t)
    /\ ValidatorsValidSet(vs)
    /\ committee' = Rotated(vs, t)
    /\ UNCHANGED <<chain, signed>>

(* Permissionless: any quorum of valid signatures by unjailed slots        *)
CommitBatch(h) ==
    /\ h.epoch = committee.epoch
    /\ h.seq > chain.seq
    /\ h.prev = chain.root
    /\ AttestationMeetsThreshold(
           {i \in DOMAIN committee.validators :
                i \notin committee.jailed /\ <<committee.validators[i], h>> \in signed})
    /\ chain' = [seq |-> h.seq, root |-> h.root]
    /\ UNCHANGED <<committee, signed>>

(* Permissionless: two signatures of the validator at slot i               *)
SlashEquivocation(i, a, b) ==
    /\ a.epoch = committee.epoch
    /\ i \notin committee.jailed
    /\ IsEquivocation(a, b)
    /\ {<<committee.validators[i], a>>, <<committee.validators[i], b>>} \subseteq signed
    /\ committee' = [committee EXCEPT !.jailed = @ \cup {i}]
    /\ UNCHANGED <<chain, signed>>

(* A faulty validator signs any header at any time, a member or not.  One  *)
(* that is not signs for the committee it sits in, on the last root and    *)
(* above the last height, one header per height.                           *)
Sign(v, h) ==
    /\ Cardinality(signed) < MaxSigned
    /\ <<v, h>> \notin signed
    /\ \/ v \in Faulty
       \/ /\ v \in Members /\ h.epoch = committee.epoch /\ h.prev = chain.root
          /\ h.seq > chain.seq
          /\ \A g \in SignedHeaders : <<v, g>> \in signed => g.epoch # h.epoch \/ g.seq # h.seq
    /\ signed' = signed \cup {<<v, h>>}
    /\ UNCHANGED <<committee, chain>>

ComNext ==
    \/ \E vs \in Committees, t \in Thresholds : SetSequencerCommittee(vs, t)
    \/ \E h \in SignedHeaders : CommitBatch(h)
    \/ \E i \in DOMAIN committee.validators, a, b \in SignedHeaders : SlashEquivocation(i, a, b)
    \/ \E v \in Validators, h \in Headers : Sign(v, h)

ComSpec == ComInit /\ [][ComNext]_comVars

-----------------------------------------------------------------------------
(* Type of the committee state; the appointed validators are distinct.     *)
ComTypeOK ==
    /\ committee.epoch \in 0..MaxEpoch
    /\ committee.jailed \subseteq Nat
    /\ committee.epoch > 0 => IsInjective(committee.validators)
    /\ chain.root \in Roots /\ chain.seq \in {b.seq : b \in Batches} \cup {0}
    /\ signed \subseteq Validators \X Headers

(* Slashing only ever hits a validator that broke the protocol: no         *)
(* combination of signatures over heights, roots and rotations lets anyone *)
(* jail one that signed a single header per height, and a rotation does    *)
(* not pass a jailed slot on to whoever sits in it next.                   *)
NoHonestJailed ==
    \A i \in committee.jailed :
        i \in DOMAIN committee.validators /\ committee.validators[i] \in Faulty

(* If two headers of one height both have a quorum, more than a third of   *)
(* the committee signed both and can be jailed for it: a fork is never     *)
(* free (is_valid_bft_config, attestation_meets_threshold).                *)
ForkNamesCulprits ==
    \A g, h \in SignedHeaders :
        LET both == SignedBy(g) \cap SignedBy(h) \cap Members IN
        /\ g # h /\ g.seq = h.seq /\ g.epoch = committee.epoch /\ h.epoch = committee.epoch
        /\ Cardinality(SignedBy(g) \cap Members) >= committee.threshold
        /\ Cardinality(SignedBy(h) \cap Members) >= committee.threshold
        => 3 * Cardinality(both) > Len(committee.validators)

(* Slashing reaches the guilty and nobody else.                            *)
SlashingSound == ComTypeOK /\ NoHonestJailed /\ ForkNamesCulprits

(* The chain only grows by batches some validator that follows the         *)
(* protocol has signed, as long as those that do not, or are jailed, are   *)
(* fewer than the threshold.                                               *)
CommitsHaveHonestSigner ==
    [][chain' # chain =>
        \/ Cardinality({i \in DOMAIN committee.validators :
                committee.validators[i] \in Faulty /\ i \notin committee.jailed})
              >= committee.threshold
        \/ \E h \in SignedHeaders : h.root = chain'.root /\ h.seq = chain'.seq
              /\ h.prev = chain.root /\ SignedBy(h) \ Faulty # {}]_comVars
=============================================================================
