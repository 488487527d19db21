---------------------------- MODULE MCMarketBook ----------------------------
EXTENDS MarketBook, TLC

TraderSymmetry == Permutations(Traders)

(* The event is read by action properties only; states that differ in     *)
(* nothing else have the same successors.                                  *)
BookView == <<book, cap, status, slot, arrivals>>

RestOrRevert == {{}, {"fok"}, {"post"}}
=============================================================================
