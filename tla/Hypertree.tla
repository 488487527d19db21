------------------------------ MODULE Hypertree ------------------------------
(***************************************************************************)
(* The slab under a market book: two red-black trees and a free list that  *)
(* share one array of nodes (hypertree/red_black_tree.rs, free_list.rs and *)
(* the handle of book_state.rs).  Nodes are addressed by slot number, NIL  *)
(* is the empty link, a node's payload is its order id.  The operators     *)
(* take and return the slab and the root, as the code's methods do on      *)
(* `data` and `root_index`; max_index is not kept, the book passes NIL and *)
(* drops it.                                                               *)
(*                                                                         *)
(* The book also comes back from the rollup, where someone else wrote it:  *)
(* Undelegate gives one link or colour any value and lets                  *)
(* validate_node_links decide whether the book lands.                      *)
(***************************************************************************)
EXTENDS Integers, Sequences, FiniteSets, FiniteSetsExt, SequencesExt

CONSTANTS
    Cap,        \* nodes the account has room for
    Ids,        \* order ids
    Histories,  \* sequences of <<"add" or "drop", side, id>> that built the book
    MaxOps      \* bound: operations after that

Sides == {"bid", "ask"}

ASSUME HypertreeAssumption ==
    /\ Cap \in Nat \ {0} /\ Ids \subseteq Nat \ {0} /\ MaxOps \in Nat
    /\ \A h \in Histories : \A n \in DOMAIN h : h[n] \in {"add", "drop"} \X Sides \X Ids

VARIABLES
    book,      \* [slab, root, best, free, bump, active]: header and dynamic region
    walk,      \* history: per side, the ids for_each_best_first visits
    tampered,  \* history: a changed book has come back from the rollup
    op,        \* history: the last operation asked for
    ops        \* bound: operations so far

vars == <<book, walk, tampered, op, ops>>

NIL == -1
Slots == 0..(Cap - 1)
Colors == {"black", "red"}
Zeroed == [left |-> 0, right |-> 0, parent |-> 0, color |-> "black", id |-> 0]

-----------------------------------------------------------------------------
(* Accessors; t is [slab, root].  NIL has NIL links and is black.          *)
Left(t, i) == IF i = NIL THEN NIL ELSE t.slab[i].left
Right(t, i) == IF i = NIL THEN NIL ELSE t.slab[i].right
Parent(t, i) == IF i = NIL THEN NIL ELSE t.slab[i].parent
Color(t, i) == IF i = NIL THEN "black" ELSE t.slab[i].color
SetLeft(t, i, j) == IF i = NIL THEN t ELSE [t EXCEPT !.slab[i].left = j]
SetRight(t, i, j) == IF i = NIL THEN t ELSE [t EXCEPT !.slab[i].right = j]
SetParent(t, i, j) == IF i = NIL THEN t ELSE [t EXCEPT !.slab[i].parent = j]
SetColor(t, i, c) == IF i = NIL THEN t ELSE [t EXCEPT !.slab[i].color = c]
IsLeftChild(t, i) == i # t.root /\ Left(t, Parent(t, i)) = i
ChildIndex(t, i) == IF Left(t, i) # NIL THEN Left(t, i) ELSE Right(t, i)
Sibling(t, i, p) == IF Left(t, p) = i THEN Right(t, p) ELSE Left(t, p)
IsInternal(t, i) == Left(t, i) # NIL /\ Right(t, i) # NIL

(* p takes the place of g below g's parent and at the root.                *)
Promote(t, g, p, gg) ==
    LET t1 == IF gg # NIL /\ Left(t, gg) = g THEN SetLeft(t, gg, p) ELSE t
        t2 == IF gg # NIL /\ Right(t1, gg) = g THEN SetRight(t1, gg, p) ELSE t1
    IN  [t2 EXCEPT !.root = IF @ = g THEN p ELSE @]

RotateLeft(t, g) ==
    LET p == Right(t, g)
        y == Left(t, p)
        gg == Parent(t, g)
        up == [t EXCEPT !.slab[p].parent = gg, !.slab[p].left = g]
    IN  Promote([SetParent(up, y, g) EXCEPT !.slab[g].parent = p, !.slab[g].right = y],
                g, p, gg)

RotateRight(t, g) ==
    LET p == Left(t, g)
        y == Right(t, p)
        gg == Parent(t, g)
        up == [t EXCEPT !.slab[p].parent = gg, !.slab[p].right = g]
    IN  Promote([SetParent(up, y, g) EXCEPT !.slab[g].parent = p, !.slab[g].left = y],
                g, p, gg)

-----------------------------------------------------------------------------
(* Walks.                                                                  *)
RECURSIVE Leftmost(_, _)
Leftmost(t, i) == IF Left(t, i) = NIL THEN i ELSE Leftmost(t, Left(t, i))

RECURSIVE FirstRightTurn(_, _)
FirstRightTurn(t, i) ==
    IF Parent(t, i) = NIL \/ IsLeftChild(t, i) THEN Parent(t, i)
    ELSE FirstRightTurn(t, Parent(t, i))

(* successor_index                                                         *)
Successor(t, i) ==
    IF Right(t, i) # NIL THEN Leftmost(t, Right(t, i)) ELSE FirstRightTurn(t, i)

RECURSIVE WalkFrom(_, _)
WalkFrom(t, i) == IF i = NIL THEN <<>> ELSE <<i>> \o WalkFrom(t, Successor(t, i))

RECURSIVE LookupFrom(_, _, _)
LookupFrom(t, i, id) ==
    IF i = NIL \/ t.slab[i].id = id THEN i
    ELSE LookupFrom(t, IF t.slab[i].id > id THEN Left(t, i) ELSE Right(t, i), id)

(* insert_node_no_fix: down to the node that has no child on id's side.    *)
RECURSIVE InsertionPoint(_, _, _)
InsertionPoint(t, i, id) ==
    LET child == IF id > t.slab[i].id THEN Right(t, i) ELSE Left(t, i)
    IN  IF child = NIL THEN i ELSE InsertionPoint(t, child, id)

InsertNodeNoFix(t, i, id) ==
    LET p == InsertionPoint(t, t.root, id)
        linked == IF t.slab[p].id < id THEN SetRight(t, p, i) ELSE SetLeft(t, p, i)
    IN  [linked EXCEPT !.slab[i] = [left |-> NIL, right |-> NIL, parent |-> p,
                                    color |-> "red", id |-> id]]

-----------------------------------------------------------------------------
(* insert_fix: one round; next is the node to go on with, or NIL.          *)
InsertFix(t, i) ==
    LET p == Parent(t, i)
        g == Parent(t, p)
        uncle == IF Left(t, g) = p THEN Right(t, g) ELSE Left(t, g)
        pLeft == IsLeftChild(t, p)
        iLeft == IsLeftChild(t, i)
        gColor == Color(t, g)
        Done(x) == [t |-> x, next |-> NIL]
    IN  CASE t.root = i -> Done(SetColor(t, i, "black"))
          [] t.root # i /\ Color(t, p) = "black" -> Done(t)
          [] t.root # i /\ Color(t, p) = "red" /\ Color(t, uncle) = "red" ->
               [t |-> SetColor(SetColor(SetColor(t, p, "black"), uncle, "black"), g, "red"),
                next |-> g]
          [] OTHER ->
               IF g = NIL THEN Done(SetColor(t, p, "black"))
               ELSE IF pLeft = iLeft
               THEN LET r == IF pLeft THEN RotateRight(t, g) ELSE RotateLeft(t, g)
                    IN  Done(SetColor(SetColor(r, g, "red"), p, gColor))
               ELSE LET r == IF pLeft THEN RotateRight(RotateLeft(t, p), g)
                             ELSE RotateLeft(RotateRight(t, p), g)
                    IN  Done(SetColor(SetColor(r, i, gColor), g, Color(t, i)))

RECURSIVE InsertFixLoop(_, _)
InsertFixLoop(t, i) ==
    LET r == InsertFix(t, i) IN IF r.next = NIL THEN r.t ELSE InsertFixLoop(r.t, r.next)

TreeInsert(t, i, id) ==
    IF t.root = NIL
    THEN [root |-> i, slab |-> [t.slab EXCEPT ![i] =
              [left |-> NIL, right |-> NIL, parent |-> NIL, color |-> "black", id |-> id]]]
    ELSE InsertFixLoop(InsertNodeNoFix(t, i, id), i)

-----------------------------------------------------------------------------
(* swap_node_with_successor: i and its successor j change places and       *)
(* colours; their payloads stay where they are.                            *)
SwapWithSuccessor(t, i, j) ==
    LET a == t.slab[i]
        b == t.slab[j]
        above == IF IsLeftChild(t, i) THEN SetLeft(t, a.parent, j) ELSE SetRight(t, a.parent, j)
        both == IF IsLeftChild(t, j) THEN SetLeft(above, b.parent, i)
                ELSE SetRight(above, b.parent, i)
        moved == [both EXCEPT !.slab[i] = [b EXCEPT !.id = a.id],
                              !.slab[j] = [a EXCEPT !.id = b.id]]
        below == SetParent(SetParent(SetParent(SetParent(moved,
                     a.left, j), b.left, i), a.right, j), b.right, i)
        fixed == IF b.parent = i
                 THEN SetRight(SetParent(SetParent(below, i, j), j, a.parent), j, i)
                 ELSE below
    IN  [fixed EXCEPT !.root = IF @ = i THEN j ELSE @]

(* update_parent_child: i, which has one child at most, is taken out.      *)
UpdateParentChild(t, i) ==
    LET p == Parent(t, i)
        c == ChildIndex(t, i)
        lifted == SetParent(t, c, p)
        cut == IF IsLeftChild(lifted, i) THEN SetLeft(lifted, p, c) ELSE SetRight(lifted, p, c)
    IN  [cut EXCEPT !.root = IF @ = i THEN c ELSE @]

(* remove_fix: one round for the doubly black node c below p; next is the  *)
(* pair to go on with, or <<NIL, NIL>>.                                    *)
RemoveFix(t, c, p) ==
    LET s == Sibling(t, c, p)
        sl == Left(t, s)
        sr == Right(t, s)
        sLeft == IsLeftChild(t, s)
        pColor == Color(t, p)
        near == IF sLeft THEN sr ELSE sl
        far == IF sLeft THEN sl ELSE sr
        Toward(x, i) == IF sLeft THEN RotateRight(x, i) ELSE RotateLeft(x, i)
        Away(x, i) == IF sLeft THEN RotateLeft(x, i) ELSE RotateRight(x, i)
        Done(x) == [t |-> x, next |-> <<NIL, NIL>>]
    IN  CASE t.root = c -> Done(t)
          [] t.root # c /\ Color(t, s) = "black" /\ Color(t, far) = "red" ->
               Done(Toward(SetColor(SetColor(SetColor(t, far, "black"), p, "black"), s, pColor),
                           p))
          [] t.root # c /\ Color(t, s) = "black" /\ Color(t, far) # "red"
               /\ Color(t, near) = "red" ->
               Done(Toward(Away(SetColor(SetColor(SetColor(t, near, pColor), p, "black"),
                                         s, "black"), s), p))
          [] t.root # c /\ Color(t, s) = "black" /\ "red" \notin {Color(t, sl), Color(t, sr)} ->
               IF pColor = "black"
               THEN [t |-> SetColor(t, s, "red"), next |-> <<p, Parent(t, p)>>]
               ELSE Done(SetColor(SetColor(t, s, "red"), p, "black"))
          [] OTHER ->
               [t |-> SetColor(SetColor(Toward(t, p), p, "red"), s, "black"),
                next |-> <<c, p>>]

RECURSIVE RemoveFixLoop(_, _, _)
RemoveFixLoop(t, c, p) ==
    LET r == RemoveFix(t, c, p)
    IN  IF r.next = <<NIL, NIL>> THEN r.t ELSE RemoveFixLoop(r.t, r.next[1], r.next[2])

(* Deliberately wrong: a removed black node is not made up for.            *)
RemoveByIndexUnfixed(t, i) ==
    LET s == IF IsInternal(t, i) THEN SwapWithSuccessor(t, i, Leftmost(t, Right(t, i))) ELSE t
    IN  UpdateParentChild(s, i)

(* remove_by_index                                                         *)
RemoveByIndex(t, i) ==
    LET s == IF IsInternal(t, i) THEN SwapWithSuccessor(t, i, Leftmost(t, Right(t, i))) ELSE t
        c == ChildIndex(s, i)
        out == UpdateParentChild(s, i)
    IN  IF "red" \in {Color(s, i), Color(s, Left(s, i)), Color(s, Right(s, i))}
        THEN SetColor(out, c, "black")
        ELSE RemoveFixLoop(out, c, Parent(s, i))

-----------------------------------------------------------------------------
(* The handle: header and slab together.                                   *)
Tree(b, s) == [slab |-> b.slab, root |-> b.root[s]]

(* alloc_node: the head of the free list, or the next unused slot.         *)
HasRoom(b) == b.free # NIL \/ b.bump < Cap
AllocNode(b) ==
    IF b.free # NIL
    THEN [idx |-> b.free, b |-> [b EXCEPT !.free = b.slab[b.free].left, !.slab[b.free].left = 0]]
    ELSE [idx |-> b.bump, b |-> [b EXCEPT !.bump = @ + 1]]

(* free_node: the slot is zeroed and becomes the head of the free list,    *)
(* whose link lies where a node keeps its left child.                      *)
FreeNode(b, i) ==
    IF b.free = i THEN b
    ELSE [b EXCEPT !.slab[i] = [Zeroed EXCEPT !.left = b.free], !.free = i]

(* insert_bid, insert_ask                                                  *)
InsertOrder(b, s, id) ==
    LET a == AllocNode(b)
        t == TreeInsert(Tree(a.b, s), a.idx, id)
        best == b.best[s]
    IN  [a.b EXCEPT !.slab = t.slab, !.root[s] = t.root, !.active = @ + 1,
                    !.best[s] = IF best = NIL \/ id < t.slab[best].id THEN a.idx ELSE best]

(* Deliberately wrong: an inner node's successor leaves in its place, its  *)
(* payload not having been copied.                                         *)
RemoveOrderSuccessor(b, s, i) ==
    LET t0 == Tree(b, s)
        j == IF IsInternal(t0, i) THEN Leftmost(t0, Right(t0, i)) ELSE i
        best == IF b.best[s] = j THEN Successor(t0, j) ELSE b.best[s]
        t == RemoveByIndex(t0, j)
    IN  FreeNode([b EXCEPT !.slab = t.slab, !.root[s] = t.root, !.best[s] = best,
                           !.active = @ - 1], j)

(* remove_bid_node, remove_ask_node: the next best is found before the     *)
(* tree changes.                                                           *)
RemoveOrder(b, s, i) ==
    LET best == IF b.best[s] = i THEN Successor(Tree(b, s), i) ELSE b.best[s]
        t == RemoveByIndex(Tree(b, s), i)
    IN  FreeNode([b EXCEPT !.slab = t.slab, !.root[s] = t.root, !.best[s] = best,
                           !.active = @ - 1], i)

(* lookup_bid_by_order_id, lookup_ask_by_order_id                          *)
Lookup(b, s, id) == LookupFrom(Tree(b, s), b.root[s], id)

(* for_each_best_first                                                     *)
BestFirst(b, s) ==
    IF b.root[s] = NIL THEN <<>>
    ELSE WalkFrom(Tree(b, s), IF b.best[s] # NIL THEN b.best[s]
                              ELSE Leftmost(Tree(b, s), b.root[s]))
IdsBestFirst(b, s) ==
    LET w == BestFirst(b, s) IN [n \in DOMAIN w |-> b.slab[w[n]].id]
Walks(b) == [s \in Sides |-> IdsBestFirst(b, s)]

-----------------------------------------------------------------------------
(* validate_node_links, on what the rollup committed.                      *)
InSlab(i) == i \in Slots

(* The depth-first walk: no slot twice, every child points back.  The      *)
(* walk fails by returning a set with NIL in it.                           *)
RECURSIVE Visit(_, _, _)
Visit(slab, stack, seen) ==
    IF stack = <<>> \/ NIL \in seen THEN seen
    ELSE LET i == Last(stack)
             kids == SelectSeq(<<slab[i].left, slab[i].right>>, LAMBDA k : k # NIL)
         IN  IF i \in seen \/ \E n \in DOMAIN kids : slab[kids[n]].parent # i
             THEN {NIL}
             ELSE Visit(slab, Front(stack) \o kids, seen \cup {i})

VisitTree(b, s, seen) ==
    IF b.root[s] = NIL \/ NIL \in seen THEN seen
    ELSE IF ~InSlab(b.root[s]) \/ b.slab[b.root[s]].parent # NIL THEN {NIL}
    ELSE Visit(b.slab, <<b.root[s]>>, seen)

RECURSIVE VisitFree(_, _, _)
VisitFree(slab, i, seen) ==
    IF i = NIL \/ NIL \in seen THEN seen
    ELSE IF ~InSlab(i) \/ i \in seen THEN {NIL}
    ELSE VisitFree(slab, slab[i].left, seen \cup {i})

BestIsLeftmost(b) ==
    \A s \in Sides : b.best[s] = IF b.root[s] = NIL THEN NIL
                                 ELSE Leftmost(Tree(b, s), b.root[s])
BumpCovers(b, used) == b.bump <= Cap /\ \A i \in used : i < b.bump

(* Deliberately wrong: a full slab is refused.                             *)
ValidateNodeLinksStrictBump(b) ==
    LET live == VisitTree(b, "ask", VisitTree(b, "bid", {}))
        used == VisitFree(b.slab, b.free, live)
    IN  /\ \A i \in Slots : {b.slab[i].left, b.slab[i].right, b.slab[i].parent}
                              \subseteq Slots \cup {NIL}
        /\ NIL \notin live
        /\ NIL \notin used /\ \A i \in used : i + 1 < b.bump

(* validate_node_links.  Left out: the root of the seats, which only       *)
(* init writes, as NIL (a third tree that is always empty), and the        *)
(* range check of the colour byte: a colour here is one of the two.        *)
ValidateNodeLinks(b) ==
    LET live == VisitTree(b, "ask", VisitTree(b, "bid", {}))
        used == VisitFree(b.slab, b.free, live)
    IN  /\ \A i \in Slots : {b.slab[i].left, b.slab[i].right, b.slab[i].parent}
                              \subseteq Slots \cup {NIL}
        /\ NIL \notin live
        /\ BestIsLeftmost(b)
        /\ NIL \notin used
        /\ BumpCovers(b, used)

-----------------------------------------------------------------------------
(* write_disc_and_init_header                                              *)
EmptyBook ==
    [slab |-> [i \in Slots |-> Zeroed], root |-> [s \in Sides |-> NIL],
     best |-> [s \in Sides |-> NIL], free |-> NIL, bump |-> 0, active |-> 0]

Built(h) ==
    FoldLeft(LAMBDA b, o : IF o[1] = "add" THEN InsertOrder(b, o[2], o[3])
                           ELSE RemoveOrder(b, o[2], Lookup(b, o[2], o[3])), EmptyBook, h)

Init ==
    /\ \E h \in Histories : book = Built(h) /\ walk = Walks(Built(h))
    /\ tampered = FALSE /\ op = <<"none">> /\ ops = 0

Live(s, id) == Lookup(book, s, id) # NIL
Becomes(b) == book' = b /\ walk' = Walks(b)
Step == ops < MaxOps /\ ops' = ops + 1

InsertId(s, id) ==
    /\ Step /\ HasRoom(book)
    /\ \A x \in Sides : ~Live(x, id)
    /\ Becomes(InsertOrder(book, s, id)) /\ op' = <<"add", s, id>>
    /\ UNCHANGED tampered

RemoveId(s, id) ==
    /\ Step /\ Live(s, id)
    /\ Becomes(RemoveOrder(book, s, Lookup(book, s, id)))
    /\ op' = <<"drop", s, id>>
    /\ UNCHANGED tampered

(* What a commit may have done to the account: any one link, header index  *)
(* or colour of a slot that has been in use.                               *)
Tamperings(b) ==
    LET Idx == Slots \cup {NIL}
        Used == 0..(b.bump - 1)
    IN  {[b EXCEPT !.slab[i].left = j] : i \in Used, j \in Idx}
        \cup {[b EXCEPT !.slab[i].right = j] : i \in Used, j \in Idx}
        \cup {[b EXCEPT !.slab[i].parent = j] : i \in Used, j \in Idx}
        \cup {[b EXCEPT !.root[s] = j] : s \in Sides, j \in Idx}
        \cup {[b EXCEPT !.best[s] = j] : s \in Sides, j \in Idx}
        \cup {[b EXCEPT !.free = j] : j \in Idx}
        \cup {[b EXCEPT !.bump = j] : j \in 0..Cap}
        \cup {[b EXCEPT !.slab[i].color = c] : i \in Used, c \in Colors}

(* process_undelegation: the book lands only if its links validate.        *)
Undelegate ==
    /\ Step /\ ~tampered
    /\ \E b \in Tamperings(book) :
          ValidateNodeLinks(b) /\ b # book /\ Becomes(b)
    /\ tampered' = TRUE /\ op' = <<"none">>

Next == (\E s \in Sides, id \in Ids : InsertId(s, id) \/ RemoveId(s, id)) \/ Undelegate

Spec == Init /\ [][Next]_vars
-----------------------------------------------------------------------------
Reachable(b) == VisitTree(b, "ask", VisitTree(b, "bid", {}))

(* Every slot number, link and count is in range.                          *)
TypeOK ==
    /\ book.slab \in [Slots -> [left : Slots \cup {NIL}, right : Slots \cup {NIL},
                                parent : Slots \cup {NIL}, color : Colors, id : Ids \cup {0}]]
    /\ book.root \in [Sides -> Slots \cup {NIL}] /\ book.best \in [Sides -> Slots \cup {NIL}]
    /\ book.free \in Slots \cup {NIL}
    /\ book.bump \in 0..Cap /\ book.active \in 0..Cap
    /\ walk \in [Sides -> Seq(Ids)]
    /\ op \in {<<"none">>} \cup {"add", "drop"} \X Sides \X Ids
    /\ tampered \in BOOLEAN /\ ops \in 0..MaxOps

(* The two trees and the free list are acyclic, share no slot and lie      *)
(* below the bump pointer, and each cached best is the leftmost node, so   *)
(* every walk of the code ends and no slot is handed out twice.  This is   *)
(* also true after a tampered book has passed validate_node_links and been *)
(* worked on, whatever colours it came with.                               *)
StructureSound ==
    LET live == Reachable(book)
        used == VisitFree(book.slab, book.free, live)
    IN  /\ NIL \notin used
        /\ tampered \/ Cardinality(live) = book.active
        /\ BumpCovers(book, used)
        /\ BestIsLeftmost(book)

RECURSIVE BlackHeight(_, _)
BlackHeight(t, i) ==
    IF i = NIL THEN 0
    ELSE BlackHeight(t, Parent(t, i)) + (IF Color(t, i) = "black" THEN 1 ELSE 0)

(* verify_rb_tree, for a book only this program wrote: the root is black,  *)
(* no red node has a red child, and every node with an empty link has the  *)
(* same number of black nodes above it, so a lookup costs O(log n).        *)
RedBlackRules ==
    tampered \/ \A s \in Sides :
        LET t == Tree(book, s)
            nodes == Range(BestFirst(book, s))
            ends == {i \in nodes : ~IsInternal(t, i)}
        IN  /\ Color(t, t.root) = "black"
            /\ \A i \in nodes : Color(t, i) = "red" =>
                   Color(t, Left(t, i)) = "black" /\ Color(t, Right(t, i)) = "black"
            /\ Cardinality({BlackHeight(t, i) : i \in ends}) <= 1

(* Every order a walk meets is found by its id, at the slot the walk met   *)
(* it in, on its own side only: cancels and fills act on the right node.   *)
LookupAgrees ==
    \A s \in Sides :
        LET w == BestFirst(book, s)
        IN  /\ \A n \in DOMAIN w : Lookup(book, s, book.slab[w[n]].id) = w[n]
            /\ {id \in Ids : Live(s, id)} = Range(walk[s])

(* The slab is what the code relies on: typed, sound, balanced, searchable.*)
TreesSound == TypeOK /\ StructureSound /\ RedBlackRules /\ LookupAgrees

(* validate_node_links never refuses a book that the program itself wrote: *)
(* "this NEVER rejects a valid book" (book_state.rs).                      *)
OwnBookLands == ValidateNodeLinks(book)

(* The walk from the cached best gives the orders of a side by id, each    *)
(* insertion adds one entry at its place and each removal takes one out:   *)
(* rotations, swaps and slot reuse never lose, repeat or reorder an order. *)
Index == INSTANCE OrderIndex WITH index <- walk, foreign <- tampered
ImplementsIndex == Index!Spec
=============================================================================
