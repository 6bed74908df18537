----------------------------- MODULE MCCodeCache ------------------------------
(* CodeCache with regions of which one overlaps the other two.              *)
EXTENDS CodeCache

const_Regions == {[start |-> 0, end |-> 1], [start |-> 2, end |-> 3],
                  [start |-> 1, end |-> 2]}
const_EarlierCode == {[method |-> "m", start |-> 0, end |-> 1, state |-> "before"]}
=============================================================================
