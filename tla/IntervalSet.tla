---------------------------- MODULE IntervalSet ----------------------------
(***************************************************************************)
(* What the interval tree of the agent promises: a set of half-open        *)
(* address intervals no two of which overlap, with the answers its three   *)
(* operations give.  SplayTree implements it.                              *)
(***************************************************************************)
EXTENDS Integers

CONSTANT Addr      \* integers

VARIABLES
    held,      \* the intervals in the set
    asked,     \* the last operation and its argument
    answer     \* what it gave back

vars == <<held, asked, answer>>

Interval == [start : Addr, end : Addr]

Overlaps(i, j) == i.start < j.end /\ j.start < i.end

Touched(i) == {j \in held : Overlaps(i, j)}

Init ==
    /\ held = {}
    /\ asked = <<>>
    /\ answer = {}

Insert(i) ==
    LET fits == i.start < i.end /\ Touched(i) = {} IN
    /\ asked' = <<"insert", i>>
    /\ held' = IF fits THEN held \cup {i} ELSE held
    /\ answer' = IF fits THEN {i} ELSE {}

\* Asked of the caller: the ends are in order.
Delete(i) ==
    /\ i.start <= i.end
    /\ asked' = <<"delete", i>>
    /\ held' = held \ Touched(i)
    /\ answer' = Touched(i)

Lookup(a) ==
    /\ held' = held
    /\ asked' = <<"lookup", a>>
    /\ answer' = {j \in held : j.start <= a /\ a < j.end}

Next ==
    \/ \E i \in Interval : Insert(i) \/ Delete(i)
    \/ \E a \in Addr : Lookup(a)

Spec == Init /\ [][Next]_vars

=============================================================================
