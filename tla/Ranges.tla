-------------------------------- MODULE Ranges --------------------------------
(***************************************************************************)
(* RangeSet of range.h as operators: a std::map from the start of a range  *)
(* to its end and its data. A range includes its end. The template members *)
(* isDisjointRange and getRangesIntersect cannot be instantiated (they     *)
(* call start() and end(), which Range does not have) and have no caller.  *)
(***************************************************************************)
EXTENDS Integers

EmptyRanges == [s \in {} |-> [end |-> s, data |-> s]]

(* The element before upper_bound(key): the greatest start that is not      *)
(* above key.                                                               *)
IsLast(rs, key, s) ==
  /\ s \in DOMAIN rs /\ s <= key
  /\ \A r \in DOMAIN rs : r <= key => r <= s

(* Variant for validation: the end is taken for exclusive.                  *)
HasDataBeforeEnd(rs, key) ==
  \E s \in DOMAIN rs : IsLast(rs, key, s) /\ key < rs[s].end

(* getRange and getData find something for key.                             *)
HasData(rs, key) ==
  \E s \in DOMAIN rs : IsLast(rs, key, s) /\ key <= rs[s].end

(* What getData finds.                                                      *)
GetData(rs, key) == rs[CHOOSE s \in DOMAIN rs : IsLast(rs, key, s)].data

(* insert: emplace keeps a range that is there already. It never refuses.   *)
Insert(rs, start, end, data) ==
  [s \in DOMAIN rs \cup {start} |->
     IF s \in DOMAIN rs THEN rs[s] ELSE [end |-> end, data |-> data]]

Without(rs, start) == [s \in DOMAIN rs \ {start} |-> rs[s]]

(* remove(start) succeeds when a lookup of start finds a range that starts  *)
(* there.                                                                   *)
CanRemove(rs, start) == start \in DOMAIN rs /\ HasData(rs, start)

(* Variant for validation: upper_bound in place of lower_bound.             *)
RangesInsideAfter(rs, start, end) ==
  {s \in DOMAIN rs :
     s > start /\ \A r \in DOMAIN rs : start < r /\ r <= s => rs[r].end <= end}

(* getRangesInside: the starts from start on, up to the first range that    *)
(* ends after end.                                                          *)
RangesInside(rs, start, end) ==
  {s \in DOMAIN rs :
     s >= start /\ \A r \in DOMAIN rs : start <= r /\ r <= s => rs[r].end <= end}

(* remove(start, end) succeeds when exactly this range lies inside.         *)
CanRemoveRange(rs, start, end) ==
  RangesInside(rs, start, end) = {start} /\ rs[start].end = end
=============================================================================
