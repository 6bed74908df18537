----------------------------- MODULE SplayTree -----------------------------
(***************************************************************************)
(* The interval splay tree of src/splay.cpp and src/splay.h.               *)
(*                                                                         *)
(* A tree is <<>> (NULL) or <<left, node, right>>, a node the half-open    *)
(* interval [start, end) node_make writes in it (its context pointer is    *)
(* carried along and decides nothing).  The pointer surgery of the         *)
(* top-down splay becomes two sequences of the trees linked so far: those  *)
(* below the address, hung from dummy.next, and those above it, hung from  *)
(* dummy.prev.  Every operation runs in one call with the tree as its only *)
(* state, so an operation is one action.                                   *)
(*                                                                         *)
(* The agent declares a tree root and a lock for this class and calls none *)
(* of its operations; the specification is of the class as it stands.      *)
(***************************************************************************)
EXTENDS Integers, Sequences

CONSTANT Addr      \* the addresses intervals start and end at, integers

VARIABLES
    root,          \* *root
    asked,         \* the last operation and its argument
    answer         \* the nodes it gave back

vars == <<root, asked, answer>>

Interval == [start : Addr, end : Addr]

Nil == <<>>
Left(t) == t[1]
Node(t) == t[2]
Right(t) == t[3]

RECURSIVE InOrder(_)

\* The nodes of a tree, from the left.
InOrder(t) ==
    IF t = Nil THEN <<>> ELSE InOrder(Left(t)) \o <<Node(t)>> \o InOrder(Right(t))

Nodes(t) == {InOrder(t)[i] : i \in 1..Len(InOrder(t))}

-----------------------------------------------------------------------------
RECURSIVE HangRight(_, _), HangLeft(_, _)

\* RIGHT(ltree_max) = t: each tree of the list is the right child of the one before.
HangRight(ltree, t) ==
    IF ltree = <<>> THEN t
    ELSE <<Left(ltree[1]), Node(ltree[1]), HangRight(Tail(ltree), t)>>

\* LEFT(rtree_min) = t.
HangLeft(rtree, t) ==
    IF rtree = <<>> THEN t
    ELSE <<HangLeft(Tail(rtree), t), Node(rtree[1]), Right(rtree[1])>>

\* The end of interval_tree_splay: the new root over what was linked on both sides.
Assemble(t, ltree, rtree) ==
    <<HangRight(ltree, Left(t)), Node(t), HangLeft(rtree, Right(t))>>

\* The two rotations at the root.
RotateRight(t) ==
    LET y == Left(t) IN <<Left(y), Node(y), <<Right(y), Node(t), Right(t)>>>>

RotateLeft(t) ==
    LET y == Right(t) IN <<<<Left(t), Node(t), Left(y)>>, Node(y), Right(y)>>

RECURSIVE SplayFrom(_, _, _, _)

\* The loop of interval_tree_splay: it stops at a node that holds addr or that has no
\* child on the side of addr.
SplayFrom(t, addr, ltree, rtree) ==
    IF addr < Node(t).start
    THEN IF Left(t) = Nil THEN Assemble(t, ltree, rtree)
         ELSE LET u == IF addr < Node(Left(t)).start THEN RotateRight(t) ELSE t IN
              IF Left(u) = Nil THEN Assemble(u, ltree, rtree)
              ELSE SplayFrom(Left(u), addr, ltree, Append(rtree, u))
    ELSE IF addr >= Node(t).end
    THEN IF Right(t) = Nil THEN Assemble(t, ltree, rtree)
         ELSE LET u == IF addr >= Node(Right(t)).end THEN RotateLeft(t) ELSE t IN
              IF Right(u) = Nil THEN Assemble(u, ltree, rtree)
              ELSE SplayFrom(Right(u), addr, Append(ltree, u), rtree)
    ELSE Assemble(t, ltree, rtree)

interval_tree_splay(t, addr) ==
    IF t = Nil THEN Nil ELSE SplayFrom(t, addr, <<>>, <<>>)

node_make(start, end) == [start |-> start, end |-> end]

-----------------------------------------------------------------------------
Init ==
    /\ root = Nil
    /\ asked = <<>>
    /\ answer = {}

interval_tree_lookup(addr) ==
    LET t == interval_tree_splay(root, addr)
        hit == t # Nil /\ Node(t).start <= addr /\ addr < Node(t).end
    IN /\ root' = t
       /\ answer' = IF hit THEN {Node(t)} ELSE {}

\* Refused (1) when the interval is empty or overlaps one of the tree; the splays of
\* the tree stay.
interval_tree_insert(node) ==
    LET r == interval_tree_splay(root, node.start)
        t == interval_tree_splay(Right(r), Node(r).start)
        before == node.end <= Node(r).start
        after == Node(r).end <= node.start /\ (t = Nil \/ node.end <= Node(t).start)
    IN \/ /\ node.start >= node.end
          /\ answer' = {}
          /\ UNCHANGED root
       \/ /\ node.start < node.end
          /\ root = Nil
          /\ root' = <<Nil, node, Nil>>
          /\ answer' = {node}
       \/ /\ node.start < node.end
          /\ root # Nil
          /\ root' = IF before THEN <<Left(r), node, <<Nil, Node(r), Right(r)>>>>
                     ELSE IF after THEN <<<<Left(r), Node(r), Nil>>, node, t>>
                     ELSE <<Left(r), Node(r), t>>
          /\ answer' = IF before \/ after THEN {node} ELSE {}

\* The tree cut at addr: what ends at or before addr, and the rest.
SplitLow(t, addr) ==
    LET s == interval_tree_splay(t, addr) IN
    IF Node(s).end <= addr THEN [below |-> <<Left(s), Node(s), Nil>>, rest |-> Right(s)]
    ELSE [below |-> Left(s), rest |-> <<Nil, Node(s), Right(s)>>]

(* Variant for validation: an interval that starts where the deleted range ends goes too. *)
SplitHighInclusive(t, addr) ==
    LET s == interval_tree_splay(t, addr) IN
    IF t = Nil THEN [cut |-> Nil, above |-> Nil]
    ELSE IF addr < Node(s).start
         THEN [cut |-> Left(s), above |-> <<Nil, Node(s), Right(s)>>]
    ELSE [cut |-> <<Left(s), Node(s), Nil>>, above |-> Right(s)]

\* A tree cut at addr: what starts before addr, and the rest.
SplitHigh(t, addr) ==
    LET s == interval_tree_splay(t, addr) IN
    IF t = Nil THEN [cut |-> Nil, above |-> Nil]
    ELSE IF addr <= Node(s).start
         THEN [cut |-> Left(s), above |-> <<Nil, Node(s), Right(s)>>]
    ELSE [cut |-> <<Left(s), Node(s), Nil>>, above |-> Right(s)]

\* The left piece brought to its greatest node, with the right piece under it.
Combine(ltree, rtree, addr) ==
    LET s == interval_tree_splay(ltree, addr) IN
    IF ltree = Nil THEN rtree
    ELSE IF rtree = Nil THEN ltree
    ELSE <<Left(s), Node(s), rtree>>

\* That the ends are in order is asked of the caller; the code does not test it.
interval_tree_delete(node) ==
    /\ node.start <= node.end
    /\ \/ /\ root = Nil
          /\ answer' = {}
          /\ UNCHANGED root
       \/ /\ root # Nil
          /\ LET low == SplitLow(root, node.start)
                 high == SplitHigh(low.rest, node.end)
             IN /\ root' = Combine(low.below, high.above, node.end)
                /\ answer' = Nodes(high.cut)

Next ==
    \/ \E start, end \in Addr :
          \/ /\ interval_tree_insert(node_make(start, end))
             /\ asked' = <<"insert", node_make(start, end)>>
          \/ /\ interval_tree_delete(node_make(start, end))
             /\ asked' = <<"delete", node_make(start, end)>>
    \/ \E addr \in Addr : interval_tree_lookup(addr) /\ asked' = <<"lookup", addr>>

Spec == Init /\ [][Next]_vars

-----------------------------------------------------------------------------
(* The tree implements the interval set: an insert is refused exactly when *)
(* it is empty or overlaps, a delete removes and returns exactly the       *)
(* intervals that overlap, a lookup finds the interval holding the         *)
(* address, and no rebalancing loses or invents an interval.               *)
Abstract == INSTANCE IntervalSet WITH held <- Nodes(root)

ImplementsIntervalSet == Abstract!Spec

=============================================================================
