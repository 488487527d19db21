--------------------------- MODULE MCReservation ----------------------------
(* Reservation for TLC.  Either several accounts with one order and a      *)
(* bound on deposits and faults together, or one account alone with more   *)
(* orders and faults and without resets.                                   *)
EXTENDS Reservation

CONSTANT Solo  \* an account

Several == ordered <= 1 /\ (vault <= 1 \/ faults <= 1)
Alone ==
    /\ vault <= 1
    /\ resets = Zero
    /\ \A b \in TraderAccounts \ {Solo} : coll[b] = 0 /\ ~ready[b] /\ backed[b] = 0

MCNext == ResNext /\ (Several \/ Alone)'

MCSpec == ResInit /\ [][MCNext]_resVars /\ WF_resVars(Crank)
=============================================================================
