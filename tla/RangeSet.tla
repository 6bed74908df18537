------------------------------- MODULE RangeSet -------------------------------
(***************************************************************************)
(* A RangeSet (range.h) under any sequence of insert, remove(start) and    *)
(* remove(start, end), against the set of ranges that it should hold.      *)
(*                                                                         *)
(* insert has its test for overlapping ranges commented out: the caller    *)
(* inserts disjoint ranges only, as CodeCacheManager::addMethod assumes.   *)
(***************************************************************************)
EXTENDS Ranges

CONSTANTS
  Keys,     \* the addresses, numbers
  Data      \* what a range can be mapped to

ASSUME KeysAssumption == Keys \subseteq Int

VARIABLES
  start_map,  \* _start_map
  held        \* the ranges inserted and not removed since

rangeVars == <<start_map, held>>

Entry == [start : Keys, end : Keys, data : Data]

RangeInit == start_map = EmptyRanges /\ held = {}

Meets(e, f) == e.start <= f.end /\ f.start <= e.end

insert(e) ==
  /\ e.start <= e.end
  /\ \A f \in held : ~Meets(e, f)
  /\ start_map' = Insert(start_map, e.start, e.end, e.data)
  /\ held' = held \cup {e}

(* remove(start); it answers false and changes nothing for other starts.    *)
remove(start) ==
  /\ CanRemove(start_map, start)
  /\ start_map' = Without(start_map, start)
  /\ held' = {e \in held : e.start # start}

(* Variant for validation: any range inside is taken for the one meant.     *)
removeFirstInside(start, end) ==
  /\ RangesInside(start_map, start, end) # {}
  /\ start_map' = Without(start_map,
                    CHOOSE s \in RangesInside(start_map, start, end) : TRUE)
  /\ held' = {e \in held : e.start # start \/ e.end # end}

(* remove(start, end).                                                      *)
removeRange(start, end) ==
  /\ CanRemoveRange(start_map, start, end)
  /\ start_map' = Without(start_map, start)
  /\ held' = {e \in held : e.start # start \/ e.end # end}

RangeNext ==
  \/ \E e \in Entry : insert(e)
  \/ \E start \in Keys : remove(start)
  \/ \E start, end \in Keys : removeRange(start, end)

RangeSpec == RangeInit /\ [][RangeNext]_rangeVars

-----------------------------------------------------------------------------
(* Properties.                                                              *)

(* The map holds the ranges it should hold, each under its start.           *)
HoldsWhatWasInserted ==
  /\ held \subseteq Entry
  /\ DOMAIN start_map = {e.start : e \in held}
  /\ \A e \in held : start_map[e.start] = [end |-> e.end, data |-> e.data]

(* getData, which looks at one range only, finds an address exactly when    *)
(* some range covers it, and gives the data of that range: the last range   *)
(* that starts below is the right one to look at.                           *)
LookupFindsCover ==
  \A key \in Keys :
    /\ HasData(start_map, key) <=> \E e \in held : e.start <= key /\ key <= e.end
    /\ \A e \in held : e.start <= key /\ key <= e.end => GetData(start_map, key) = e.data

(* getRangesInside: "return all the ranges which can fully fall into        *)
(* [start, end]".                                                           *)
InsideIsAll ==
  \A start, end \in Keys :
    start <= end =>
      RangesInside(start_map, start, end)
        = {e.start : e \in {f \in held : start <= f.start /\ f.end <= end}}
=============================================================================
