--------------------------- MODULE MCConditional ---------------------------
(* Conditional for TLC: a stop and an entry, a bracket around price 2, a   *)
(* TWAP of three lots and an iceberg of four.                             *)
EXTENDS Conditional
Stop == [side |-> "sell", kind |-> "below", ro |-> TRUE, size |-> 2, px |-> 3,
         limit |-> 1, exp |-> 0, cap |-> 2]
Entry == [side |-> "buy", kind |-> "above", ro |-> FALSE, size |-> 1, px |-> 2,
          limit |-> 2, exp |-> 2, cap |-> 0]
MCTriggerTerms == {Stop, Entry}
MCBracketTerms == {[side |-> "buy", size |-> 1, limit |-> 2, tpPx |-> 3, tpLimit |-> 3,
                    slPx |-> 1, slLimit |-> 1, exp |-> 0]}
MCTwapTerms == {[side |-> "sell", slice |-> 2, total |-> 3, limit |-> 2, interval |-> 1,
                 end |-> 3, cap |-> 0]}
MCIcebergTerms == {[side |-> "buy", total |-> 4, shown |-> 2, limit |-> 2, exp |-> 0]}
MCModifyTerms == {[size |-> 1, px |-> 2, ro |-> TRUE, exp |-> 0]}
=============================================================================
