------------------------------ MODULE OrderIndex ------------------------------
(***************************************************************************)
(* What the book asks of the hypertree: per side, the resting order ids in *)
(* the order the matcher meets them.  An order enters at the place of its  *)
(* id, leaves from wherever it is, and nothing else moves.  A book written *)
(* elsewhere may have lost orders on its way back, once; it never brings   *)
(* the others in another order.                                            *)
(***************************************************************************)
EXTENDS Integers, Sequences, SequencesExt

CONSTANTS Sides, Ids

VARIABLES
    index,    \* [side -> the ids of the side, best first]
    op,       \* the last operation asked for
    foreign   \* the book has come back changed

Init ==
    /\ index \in [Sides -> Seq(Ids)]
    /\ foreign = FALSE /\ op = <<"none">>
    /\ \A s \in Sides : \A m, n \in DOMAIN index[s] : m < n => index[s][m] < index[s][n]

Add(s, id) ==
    /\ ~Contains(index[s], id)
    /\ index' = [index EXCEPT ![s] = SelectSeq(@, LAMBDA x : x < id) \o <<id>>
                                        \o SelectSeq(@, LAMBDA x : x > id)]
    /\ op' = <<"add", s, id>>
    /\ UNCHANGED foreign

Drop(s, id) ==
    /\ Contains(index[s], id)
    /\ index' = [index EXCEPT ![s] = SelectSeq(@, LAMBDA x : x # id)]
    /\ op' = <<"drop", s, id>>
    /\ UNCHANGED foreign

Lose ==
    /\ ~foreign /\ foreign' = TRUE /\ op' = <<"none">>
    /\ \A s \in Sides : index'[s] = SelectSeq(index[s], LAMBDA x : Contains(index'[s], x))

Next == (\E s \in Sides, id \in Ids : Add(s, id) \/ Drop(s, id)) \/ Lose

Spec == Init /\ [][Next]_<<index, op, foreign>>
=============================================================================
