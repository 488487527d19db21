---------------------------- MODULE MCGovernance ----------------------------
(* Governance, OracleFeed and Committee for TLC: what the market authority  *)
(* controls.  The three share no variable, so a behaviour drives one of     *)
(* them while the others are as they were created.                          *)
EXTENDS Governance, OracleFeed, Committee, TLC

CONSTANTS v1, v2, v3, v4, r1, r2

KeySymmetry == Permutations(Keys)

MCBatches == {[seq |-> 1, root |-> r2], [seq |-> 1, root |-> r1], [seq |-> 2, root |-> r2]}

(* Two faulty validators, alone in one committee, a minority in the others;*)
(* <<v1, v1>> is a list the code refuses.                                  *)
MCCommittees == {<<v1, v2, v3, v4>>, <<v4, v1, v2>>, <<v3, v4>>, <<v1, v1>>}

allVars == <<govVars, feedVars, comVars>>

GovIdle == GovInit /\ params = [lot |-> 1, stale |-> 0, mm |-> 1, im |-> 2]
FeedIdle == FeedInit /\ feed.source = "pyth" /\ oracle.px = Min(Prices)
ComIdle == ComInit

MCInit == GovInit /\ FeedInit /\ ComInit /\ params.lot = 1 /\ (GovIdle \/ FeedIdle)

MCNext ==
    \/ FeedIdle /\ ComIdle /\ GovNext /\ UNCHANGED <<feedVars, comVars>>
    \/ GovIdle /\ ComIdle /\ FeedNext /\ UNCHANGED <<govVars, comVars>>
    \/ GovIdle /\ FeedIdle /\ ComNext /\ UNCHANGED <<govVars, feedVars>>

MCSpec == MCInit /\ [][MCNext]_allVars
=============================================================================
