---------------------------- MODULE MCSettlement ----------------------------
(* Settlement for TLC.  A behaviour either matches many fills of several   *)
(* sizes where nothing but a stale oracle holds them back, or a few of one *)
(* lot where everything that can hold them comes and goes.  Of statuses    *)
(* that settlement and intake treat alike the first kind has only one.  No *)
(* symmetry: liveness is checked.                                          *)
EXTENDS Settlement

CONSTANT HeldFills  \* bound: fills matched where they may be held back

VARIABLE scope

mcVars == <<vars, scope>>

Many ==
    /\ held = {}
    /\ oracle \in {0} \cup QuotePrices
    /\ status \notin {"Inactive", "PostOnly"}
Few  == matched <= HeldFills /\ \A i \in DOMAIN queue : queue[i].size = 1

MCInit ==
    /\ Init
    /\ \/ scope = "many" /\ Many
       \/ scope = "few" /\ Few

MCNext ==
    /\ Next
    /\ UNCHANGED scope
    /\ scope = "many" => Many'
    /\ scope = "few" => Few'

MCSpec == MCInit /\ [][MCNext]_mcVars /\ Fairness
=============================================================================
