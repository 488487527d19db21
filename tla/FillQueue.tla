------------------------------ MODULE FillQueue ------------------------------
(***************************************************************************)
(* What matching and settlement promise each other: an unbounded queue of  *)
(* crossed fills.  Matching appends a batch atomically, settlement takes   *)
(* the oldest fill.  Nothing else may add, drop, reorder or repeat a fill. *)
(***************************************************************************)
EXTENDS Integers, Sequences

CONSTANT Fills

VARIABLES queue,  \* fills crossed and not yet settled, oldest first
          done    \* fills settled, in order

qvars == <<queue, done>>

Init == queue = <<>> /\ done = <<>>

(* A taker crosses one or more resting orders.                             *)
Match ==
    /\ Len(queue') > Len(queue)
    /\ SubSeq(queue', 1, Len(queue)) = queue
    /\ \A k \in 1..Len(queue') : queue'[k] \in Fills
    /\ UNCHANGED done

Settle ==
    /\ queue # <<>>
    /\ queue' = Tail(queue)
    /\ done' = Append(done, Head(queue))

Next == Match \/ Settle

Spec == Init /\ [][Next]_qvars
=============================================================================
