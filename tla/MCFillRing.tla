----------------------------- MODULE MCFillRing -----------------------------
EXTENDS FillRing, TLC

TraderSymmetry == Permutations(Traders)
=============================================================================
