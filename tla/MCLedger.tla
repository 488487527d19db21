------------------------------ MODULE MCLedger ------------------------------
(* Ledger for TLC: a taker fee that pays a rebate, and a maker fee.        *)
EXTENDS Ledger, TLC
MCFeeTerms == {[taker |-> 2, rebate |-> 1, maker |-> 0],
               [taker |-> 0, rebate |-> 0, maker |-> 1]}
MCSeedSteps == {-1}
Symmetry == Permutations(Traders)
=============================================================================
