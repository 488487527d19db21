---------------------------- MODULE MCHypertree ----------------------------
EXTENDS Hypertree

Adds(s, ids) == [n \in DOMAIN ids |-> <<"add", s, ids[n]>>]
Drops(s, ids) == [n \in DOMAIN ids |-> <<"drop", s, ids[n]>>]

(* An empty book; a bid side filled in ascending order with one ask among  *)
(* it; one filled from both ends; one thinned out to seven black nodes,    *)
(* where a removal is passed on to the root.                               *)
MCHistories ==
    {<<>>,
     Adds("bid", <<1, 2, 3, 4>>) \o Adds("ask", <<5>>) \o Adds("bid", <<6, 7, 8, 9>>),
     Adds("bid", <<9, 1, 8, 2, 7, 3, 6, 4>>),
     Adds("bid", <<1, 2, 3, 4, 5, 6, 7, 8, 9, 10>>) \o Drops("bid", <<10, 9, 8>>)}
=============================================================================
