----------------------------- MODULE TableProofs -----------------------------
(***************************************************************************)
(* The tables of MCTables, each for every value of its constants: the      *)
(* range set, the line tables built on it, the context tree and the black  *)
(* list.                                                                   *)
(***************************************************************************)
EXTENDS RangeSet, LineTables, ContextTree, BlackList,
        SequenceTheorems, FiniteSetTheorems, WellFoundedInduction, TLAPS

(***************************************************************************)
(* The range set: the map holds what was inserted, and its two searches,   *)
(* each of which looks at neighbouring starts only, are right, because the *)
(* ranges stay disjoint.                                                   *)
(***************************************************************************)

(* The ranges held are not empty and do not meet.                           *)
Disjoint ==
  \A e \in held :
    /\ e.start <= e.end
    /\ \A f \in held : e # f => ~Meets(e, f)

RangeIInv == HoldsWhatWasInserted /\ Disjoint

-----------------------------------------------------------------------------
(* Two ranges with one start are the same: start is a key of held.          *)
LEMMA StartsAreKeys ==
  ASSUME RangeIInv, NEW e \in held, NEW f \in held, e.start = f.start
  PROVE  e = f
<1>1. e \in Entry /\ f \in Entry
  BY DEF RangeIInv, HoldsWhatWasInserted
<1>2. e.start <= e.end /\ f.start <= f.end
  BY DEF RangeIInv, Disjoint
<1>3. e.start \in Int /\ e.end \in Int /\ f.start \in Int /\ f.end \in Int
  BY <1>1, KeysAssumption DEF Entry
<1>4. Meets(e, f)
  BY <1>2, <1>3 DEF Meets
<1> QED
  BY <1>4 DEF RangeIInv, Disjoint

(* What the map has for a range.                                            *)
LEMMA MapFields ==
  ASSUME RangeIInv, NEW e \in held
  PROVE  /\ e.start \in DOMAIN start_map
         /\ start_map[e.start].end = e.end
         /\ start_map[e.start].data = e.data
<1>1. start_map[e.start] = [end |-> e.end, data |-> e.data]
  BY DEF RangeIInv, HoldsWhatWasInserted
<1>2. [end |-> e.end, data |-> e.data].end = e.end
  OBVIOUS
<1>3. [end |-> e.end, data |-> e.data].data = e.data
  OBVIOUS
<1>4. e.start \in DOMAIN start_map
  BY DEF RangeIInv, HoldsWhatWasInserted
<1> QED
  BY <1>1, <1>2, <1>3, <1>4

(* The initial map is empty.                                                *)
LEMMA RangeInitHolds ==
  ASSUME RangeInit
  PROVE  RangeIInv
<1>1. held = {} /\ DOMAIN start_map = {}
  BY DEF RangeInit, EmptyRanges
<1> QED
  BY <1>1 DEF RangeIInv, HoldsWhatWasInserted, Disjoint

(* insert of a range that meets no other.                                   *)
LEMMA InsertStep ==
  ASSUME RangeIInv, NEW e \in Entry, insert(e)
  PROVE  RangeIInv'
<1>1. /\ e.start <= e.end
      /\ \A f \in held : ~Meets(e, f)
      /\ start_map' = Insert(start_map, e.start, e.end, e.data)
      /\ held' = held \cup {e}
  BY DEF insert
<1>2. /\ held \subseteq Entry
      /\ DOMAIN start_map = {f.start : f \in held}
      /\ \A f \in held : start_map[f.start] = [end |-> f.end, data |-> f.data]
      /\ \A f \in held : f.start <= f.end
      /\ \A f, g \in held : f # g => ~Meets(f, g)
  BY DEF RangeIInv, HoldsWhatWasInserted, Disjoint
<1>3. \A f \in Entry : f.start \in Int /\ f.end \in Int
  BY KeysAssumption DEF Entry
<1>4. \A f \in held : f.start # e.start
  <2> SUFFICES ASSUME NEW f \in held, f.start = e.start PROVE FALSE
    OBVIOUS
  <2>1. f.start \in Int /\ f.end \in Int /\ e.start \in Int /\ e.end \in Int
    BY <1>2, <1>3
  <2>2. Meets(e, f)
    BY <1>1, <1>2, <2>1 DEF Meets
  <2> QED
    BY <1>1, <2>2
<1>5. e.start \notin DOMAIN start_map
  BY <1>2, <1>4
<1>6. /\ DOMAIN start_map' = DOMAIN start_map \cup {e.start}
      /\ start_map'[e.start] = [end |-> e.end, data |-> e.data]
      /\ \A s \in DOMAIN start_map : start_map'[s] = start_map[s]
  BY <1>1, <1>5 DEF Insert
<1>7. HoldsWhatWasInserted'
  <2>1. held' \subseteq Entry
    BY <1>1, <1>2
  <2>2. DOMAIN start_map' = {f.start : f \in held'}
    BY <1>1, <1>2, <1>6
  <2>3. ASSUME NEW f \in held'
        PROVE  start_map'[f.start] = [end |-> f.end, data |-> f.data]
    <3>1. CASE f = e
      BY <1>6, <3>1
    <3>2. CASE f \in held
      BY <1>2, <1>6, <3>2
    <3> QED
      BY <1>1, <3>1, <3>2
  <2> QED
    BY <2>1, <2>2, <2>3 DEF HoldsWhatWasInserted
<1>8. Disjoint'
  <2>1. \A f \in held : ~Meets(f, e)
    BY <1>1 DEF Meets
  <2> QED
    BY <1>1, <1>2, <2>1 DEF Disjoint, Meets
<1> QED
  BY <1>7, <1>8 DEF RangeIInv

(* A step that takes the range that starts at s, and no other, away.        *)
LEMMA RemoveStep ==
  ASSUME RangeIInv, NEW s,
         start_map' = Without(start_map, s),
         held' = {e \in held : e.start # s}
  PROVE  RangeIInv'
<1>1. /\ held \subseteq Entry
      /\ DOMAIN start_map = {f.start : f \in held}
      /\ \A f \in held : start_map[f.start] = [end |-> f.end, data |-> f.data]
  BY DEF RangeIInv, HoldsWhatWasInserted
<1>2. /\ DOMAIN start_map' = DOMAIN start_map \ {s}
      /\ \A r \in DOMAIN start_map : r # s => start_map'[r] = start_map[r]
  BY DEF Without
<1>3. DOMAIN start_map' = {f.start : f \in held'}
  BY <1>1, <1>2
<1>4. HoldsWhatWasInserted'
  BY <1>1, <1>2, <1>3 DEF HoldsWhatWasInserted
<1>5. Disjoint'
  BY DEF RangeIInv, Disjoint, Meets
<1> QED
  BY <1>4, <1>5 DEF RangeIInv

(* Every operation preserves the invariant.                                 *)
LEMMA RangeNextStep ==
  ASSUME RangeIInv, [RangeNext]_rangeVars
  PROVE  RangeIInv'
<1>1. ASSUME NEW e \in Entry, insert(e) PROVE RangeIInv'
  BY <1>1, InsertStep
<1>2. ASSUME NEW start \in Keys, remove(start) PROVE RangeIInv'
  BY <1>2, RemoveStep DEF remove
<1>3. ASSUME NEW start \in Keys, NEW end \in Keys, removeRange(start, end) PROVE RangeIInv'
  <2>1. start \in DOMAIN start_map /\ start_map[start].end = end
    BY <1>3 DEF removeRange, CanRemoveRange, RangesInside
  <2>2. \A e \in held : e.start = start => e.end = end
    BY <2>1, MapFields
  <2>3. held' = {e \in held : e.start # start}
    BY <1>3, <2>2 DEF removeRange
  <2>4. start_map' = Without(start_map, start)
    BY <1>3 DEF removeRange
  <2> QED
    BY <2>3, <2>4, RemoveStep
<1>4. CASE UNCHANGED rangeVars
  BY <1>4 DEF rangeVars, RangeIInv, HoldsWhatWasInserted, Disjoint, Meets
<1> QED
  BY <1>1, <1>2, <1>3, <1>4 DEF RangeNext

(* The invariant of RangeSet, for all keys and data.                        *)
THEOREM RangeInductive == RangeSpec => []RangeIInv
<1>1. RangeInit => RangeIInv
  BY RangeInitHolds
<1>2. RangeIInv /\ [RangeNext]_rangeVars => RangeIInv'
  BY RangeNextStep
<1> QED
  BY <1>1, <1>2, PTL DEF RangeSpec

-----------------------------------------------------------------------------
(* The map rs has the ranges of P, which are not empty and do not meet.     *)
Matches(rs, P) ==
  /\ \A e \in P : e.start \in Int /\ e.end \in Int /\ e.start <= e.end
  /\ \A e, f \in P : e # f => ~Meets(e, f)
  /\ DOMAIN rs = {e.start : e \in P}
  /\ \A e \in P : rs[e.start].end = e.end /\ rs[e.start].data = e.data

(* The last start at or below a key that a range covers is the start of     *)
(* that range: the lookup, which looks at one range, is right.              *)
LEMMA LookupMatches ==
  ASSUME NEW rs, NEW P, Matches(rs, P), NEW key \in Int
  PROVE  /\ HasData(rs, key) <=> \E e \in P : e.start <= key /\ key <= e.end
         /\ \A e \in P : e.start <= key /\ key <= e.end => GetData(rs, key) = e.data
<1>1. /\ \A f \in P : f.start \in Int /\ f.end \in Int /\ f.start <= f.end
      /\ \A f, g \in P : f # g => ~Meets(f, g)
      /\ DOMAIN rs = {f.start : f \in P}
      /\ \A f \in P : rs[f.start].end = f.end /\ rs[f.start].data = f.data
  BY DEF Matches
<1>2. ASSUME NEW e \in P, e.start <= key, key <= e.end
      PROVE  HasData(rs, key) /\ GetData(rs, key) = e.data
  <2>1. ASSUME NEW r \in DOMAIN rs, r <= key PROVE r <= e.start
    <3>1. PICK f \in P : f.start = r
      BY <1>1
    <3> QED
      BY <1>1, <1>2, <2>1, <3>1 DEF Meets
  <2>2. IsLast(rs, key, e.start)
    BY <1>1, <1>2, <2>1 DEF IsLast
  <2>3. HasData(rs, key)
    BY <1>1, <1>2, <2>2 DEF HasData
  <2>4. \A s : IsLast(rs, key, s) => s = e.start
    BY <1>1, <2>2 DEF IsLast
  <2>5. (CHOOSE s \in DOMAIN rs : IsLast(rs, key, s)) = e.start
    BY <1>1, <2>2, <2>4
  <2> QED
    BY <1>1, <2>3, <2>5 DEF GetData
<1>3. ASSUME HasData(rs, key) PROVE \E e \in P : e.start <= key /\ key <= e.end
  <2>1. PICK s \in DOMAIN rs : IsLast(rs, key, s) /\ key <= rs[s].end
    BY <1>3 DEF HasData
  <2>2. PICK e \in P : e.start = s
    BY <1>1
  <2> QED
    BY <1>1, <2>1, <2>2 DEF IsLast
<1> QED
  BY <1>2, <1>3

(* The lookup of RangeSet.                                                  *)
LEMMA LookupIsRight ==
  ASSUME RangeIInv
  PROVE  LookupFindsCover
<1>1. \A e \in held : e.start \in Int /\ e.end \in Int
  BY KeysAssumption DEF RangeIInv, HoldsWhatWasInserted, Entry
<1>2. \A e \in held : start_map[e.start].end = e.end /\ start_map[e.start].data = e.data
  BY MapFields
<1>3. Matches(start_map, held)
  BY <1>1, <1>2 DEF Matches, RangeIInv, HoldsWhatWasInserted, Disjoint
<1>4. \A key \in Keys : key \in Int
  BY KeysAssumption
<1> QED
  BY <1>3, <1>4, LookupMatches DEF LookupFindsCover

(* The search for the ranges inside, which stops at the first that ends     *)
(* later, misses none.                                                      *)
LEMMA InsideIsRight ==
  ASSUME RangeIInv
  PROVE  InsideIsAll
<1> SUFFICES ASSUME NEW start \in Keys, NEW end \in Keys, start <= end
             PROVE  RangesInside(start_map, start, end)
                      = {e.start : e \in {f \in held : start <= f.start /\ f.end <= end}}
  BY DEF InsideIsAll
<1>1. /\ held \subseteq Entry
      /\ DOMAIN start_map = {f.start : f \in held}
      /\ \A f \in held : start_map[f.start] = [end |-> f.end, data |-> f.data]
  BY DEF RangeIInv, HoldsWhatWasInserted
<1>2. \A f \in held : f.start \in Int /\ f.end \in Int
  BY <1>1, KeysAssumption DEF Entry
<1>3. start \in Int /\ end \in Int
  BY KeysAssumption
<1>4. ASSUME NEW s \in RangesInside(start_map, start, end)
      PROVE  \E e \in held : e.start = s /\ start <= e.start /\ e.end <= end
  <2>1. s \in DOMAIN start_map /\ s >= start /\ (s <= s => start_map[s].end <= end)
    BY DEF RangesInside
  <2>2. PICK e \in held : e.start = s
    BY <1>1, <2>1
  <2> QED
    BY <1>2, <1>3, <2>1, <2>2, MapFields
<1>5. ASSUME NEW e \in held, start <= e.start, e.end <= end
      PROVE  e.start \in RangesInside(start_map, start, end)
  <2>1. ASSUME NEW r \in DOMAIN start_map, start <= r, r <= e.start
        PROVE  start_map[r].end <= end
    <3>1. PICK f \in held : f.start = r
      BY <1>1
    <3>2. f.start <= f.end /\ e.start <= e.end /\ (f # e => ~Meets(f, e))
      BY DEF RangeIInv, Disjoint
    <3>3. f.end <= end
      BY <1>2, <1>3, <1>5, <2>1, <3>1, <3>2 DEF Meets
    <3> QED
      BY <3>1, <3>3, MapFields
  <2>2. e.start \in DOMAIN start_map
    BY <1>1
  <2> QED
    BY <1>2, <1>3, <1>5, <2>1, <2>2 DEF RangesInside
<1> QED
  BY <1>4, <1>5

-----------------------------------------------------------------------------
(* The map holds the ranges it should hold, after every sequence of calls.  *)
THEOREM HoldsWhatWasInsertedAlways == RangeSpec => []HoldsWhatWasInserted
<1>1. RangeIInv => HoldsWhatWasInserted
  BY DEF RangeIInv
<1> QED
  BY <1>1, RangeInductive, PTL

(* getData finds an address exactly when a range covers it.                 *)
THEOREM LookupFindsCoverAlways == RangeSpec => []LookupFindsCover
<1>1. RangeIInv => LookupFindsCover
  BY LookupIsRight
<1> QED
  BY <1>1, RangeInductive, PTL

(* getRangesInside returns all the ranges that fall into [start, end].      *)
THEOREM InsideIsAllAlways == RangeSpec => []InsideIsAll
<1>1. RangeIInv => InsideIsAll
  BY InsideIsRight
<1> QED
  BY <1>1, RangeInductive, PTL

-----------------------------------------------------------------------------
(***************************************************************************)
(* The line tables: each is a range set whose ranges follow one another,   *)
(* so the lookup finds the range that covers a key; the search of the      *)
(* callbacks and the dump come to the same range.                          *)
(***************************************************************************)

(* And it is a map of finitely many.                                        *)
Holds(rs, P) == Matches(rs, P) /\ rs = [s \in DOMAIN rs |-> rs[s]] /\ IsFiniteSet(DOMAIN rs)

(* The map of no range.                                                     *)
LEMMA EmptyHolds == Holds(EmptyRanges, {})
<1>1. /\ DOMAIN EmptyRanges = {}
      /\ EmptyRanges = [s \in DOMAIN EmptyRanges |-> EmptyRanges[s]]
  BY DEF EmptyRanges
<1> QED
  BY <1>1, FS_EmptySet DEF Holds, Matches

(* A map that holds nothing is the empty one.                               *)
LEMMA HoldsNothing ==
  ASSUME NEW rs, Holds(rs, {})
  PROVE  rs = EmptyRanges
<1>1. DOMAIN rs = {} /\ rs = [s \in DOMAIN rs |-> rs[s]]
  BY DEF Holds, Matches
<1> QED
  BY <1>1 DEF EmptyRanges

(* A range that meets no other can be inserted.                             *)
LEMMA InsertHolds ==
  ASSUME NEW rs, NEW P, Holds(rs, P), NEW start \in Int, NEW end \in Int, start <= end, NEW data,
         \A f \in P : ~Meets([start |-> start, end |-> end, data |-> data], f)
  PROVE  Holds(Insert(rs, start, end, data),
               P \cup {[start |-> start, end |-> end, data |-> data]})
<1> DEFINE e == [start |-> start, end |-> end, data |-> data]
           new == Insert(rs, start, end, data)
<1>1. e.start = start /\ e.end = end /\ e.data = data
  OBVIOUS
<1>2. \A f \in P : ~Meets(e, f)
  OBVIOUS
<1> HIDE DEF e
<1>3. /\ \A f \in P : f.start \in Int /\ f.end \in Int /\ f.start <= f.end
      /\ \A f, g \in P : f # g => ~Meets(f, g)
      /\ DOMAIN rs = {f.start : f \in P}
      /\ \A f \in P : rs[f.start].end = f.end /\ rs[f.start].data = f.data
      /\ IsFiniteSet(DOMAIN rs)
  BY DEF Holds, Matches
<1>4. \A f \in P : f.start # start
  BY <1>1, <1>2, <1>3 DEF Meets
<1>5. /\ DOMAIN new = DOMAIN rs \cup {start}
      /\ new[start] = [end |-> end, data |-> data]
      /\ \A s \in DOMAIN rs : new[s] = rs[s]
      /\ new = [s \in DOMAIN new |-> new[s]]
  BY <1>3, <1>4 DEF Insert
<1> HIDE DEF new
<1>6. new[start].end = end /\ new[start].data = data
  BY <1>5
<1>7. \A f \in P \cup {e} : f.start \in Int /\ f.end \in Int /\ f.start <= f.end
  BY <1>1, <1>3
<1>8. \A f, g \in P \cup {e} : f # g => ~Meets(f, g)
  BY <1>1, <1>2, <1>3 DEF Meets
<1>9. DOMAIN new = {f.start : f \in P \cup {e}}
  BY <1>1, <1>3, <1>5
<1>10. \A f \in P \cup {e} : new[f.start].end = f.end /\ new[f.start].data = f.data
  BY <1>1, <1>3, <1>5, <1>6
<1>11. IsFiniteSet(DOMAIN new)
  BY <1>3, <1>5, FS_AddElement
<1>12. Holds(new, P \cup {e})
  BY <1>5, <1>7, <1>8, <1>9, <1>10, <1>11 DEF Holds, Matches
<1> QED
  BY <1>12 DEF e, new

(* A lookup finds the range that covers the key.                            *)
LEMMA LookupHolds ==
  ASSUME NEW rs, NEW P, Holds(rs, P), NEW key \in Int
  PROVE  /\ HasData(rs, key) <=> \E e \in P : e.start <= key /\ key <= e.end
         /\ \A e \in P : e.start <= key /\ key <= e.end => GetData(rs, key) = e.data
  BY LookupMatches DEF Holds

-----------------------------------------------------------------------------
(* A set of numbers that is not empty has a least element.                  *)
LEMMA Least ==
  ASSUME NEW S, S \subseteq Nat, S # {}
  PROVE  \E x \in S : \A y \in S : x <= y
<1>1. PICK x \in S : \A y \in S : ~(<<y, x>> \in OpToRel(<, Nat))
  BY NatLessThanWellFounded, WFMin, Zenon
<1>2. \A y \in S : ~(y < x)
  BY <1>1 DEF OpToRel
<1> QED
  BY <1>2

(* Min finds it.                                                            *)
LEMMA MinIsLeast ==
  ASSUME NEW S, S \subseteq Nat, S # {}
  PROVE  Min(S) \in S /\ \A y \in S : Min(S) <= y
  BY Least DEF Min

(* A finite set of numbers can be listed in ascending order.                *)
LEMMA AscendingExists ==
  ASSUME NEW S, S \subseteq Nat, IsFiniteSet(S)
  PROVE  \E q \in [1..Cardinality(S) -> S] : StrictlyIncreasing(q)
<1> DEFINE Listed(T) == \E q \in [1..Cardinality(T) -> T] : StrictlyIncreasing(q)
           Bad == {n \in Nat : \E T \in SUBSET Nat : IsFiniteSet(T) /\ Cardinality(T) = n /\ ~Listed(T)}
<1>1. SUFFICES ASSUME ~Listed(S) PROVE FALSE
  OBVIOUS
<1>2. Cardinality(S) \in Bad
  BY <1>1, FS_CardinalityType
<1> HIDE DEF Listed
<1>3. PICK n \in Bad : \A m \in Bad : n <= m
  <2>1. Bad \subseteq Nat /\ Bad # {}
    BY <1>2
  <2> HIDE DEF Bad
  <2> QED
    BY <2>1, Least
<1>4. PICK T \in SUBSET Nat : IsFiniteSet(T) /\ Cardinality(T) = n /\ ~Listed(T)
  OBVIOUS
<1>5. CASE T = {}
  <2> DEFINE q == [i \in 1..0 |-> 0]
  <2>1. q \in [1..0 -> T] /\ StrictlyIncreasing(q)
    BY DEF StrictlyIncreasing
  <2>2. Cardinality(T) = 0
    BY <1>5, FS_EmptySet
  <2> QED
    BY <1>4, <2>1, <2>2 DEF Listed
<1>6. CASE T # {}
  <2>1. PICK x \in T : \A y \in T : x <= y
    BY <1>6, Least
  <2> DEFINE U == T \ {x}
  <2>2. IsFiniteSet(U) /\ Cardinality(U) = n - 1
    BY <1>4, <2>1, FS_RemoveElement
  <2>3. n - 1 \in Nat
    BY <2>2, FS_CardinalityType
  <2>4. Listed(U)
    <3>1. n - 1 \notin Bad
      BY <1>3
    <3> QED
      BY <2>2, <2>3, <3>1
  <2>5. PICK q \in [1..(n - 1) -> U] : StrictlyIncreasing(q)
    BY <2>2, <2>4 DEF Listed
  <2> DEFINE r == [i \in 1..n |-> IF i = 1 THEN x ELSE q[i - 1]]
  <2>6. r \in [1..n -> T]
    <3> SUFFICES ASSUME NEW i \in 1..n PROVE (IF i = 1 THEN x ELSE q[i - 1]) \in T
      OBVIOUS
    <3> QED
      BY <2>3, <2>5
  <2>7. ASSUME NEW i \in 1..n, NEW j \in 1..n, i < j PROVE r[i] < r[j]
    <3>1. j - 1 \in 1..(n - 1) /\ r[j] = q[j - 1]
      BY <2>3, <2>7
    <3>2. CASE i = 1
      <4>1. q[j - 1] \in T /\ q[j - 1] # x
        BY <2>5, <3>1
      <4> QED
        <5>1. q[j - 1] \in Nat /\ x \in Nat /\ x <= q[j - 1]
          BY <2>1, <4>1
        <5> QED
          BY <3>1, <3>2, <4>1, <5>1
    <3>3. CASE i # 1
      <4>1. i - 1 \in 1..(n - 1) /\ r[i] = q[i - 1] /\ i - 1 < j - 1
        BY <2>3, <2>7, <3>3
      <4> QED
        BY <2>5, <3>1, <4>1 DEF StrictlyIncreasing
    <3> QED
      BY <3>2, <3>3
  <2>8. StrictlyIncreasing(r)
    BY <2>7 DEF StrictlyIncreasing
  <2> QED
    BY <1>4, <2>6, <2>8 DEF Listed
<1> QED
  BY <1>5, <1>6

(* Ascending lists every element.                                           *)
LEMMA AscendingListsAll ==
  ASSUME NEW S, S \subseteq Nat, IsFiniteSet(S)
  PROVE  /\ Ascending(S) \in [1..Cardinality(S) -> S]
         /\ \A x \in S : \E i \in 1..Cardinality(S) : Ascending(S)[i] = x
<1> DEFINE n == Cardinality(S)
           q == Ascending(S)
<1>1. q \in [1..n -> S] /\ StrictlyIncreasing(q)
  BY AscendingExists DEF Ascending
<1>2. n \in Nat
  BY FS_CardinalityType
<1> HIDE DEF n, q
<1>3. \A i, j \in 1..n : q[i] = q[j] => i = j
  <2> SUFFICES ASSUME NEW i \in 1..n, NEW j \in 1..n, q[i] = q[j], i # j PROVE FALSE
    OBVIOUS
  <2>1. q[i] \in Nat /\ q[j] \in Nat /\ (i < j \/ j < i)
    <3>1. q[i] \in S /\ q[j] \in S
      BY <1>1
    <3>2. i < j \/ j < i
      BY <1>2
    <3> QED
      BY <3>1, <3>2
  <2> QED
    BY <1>1, <2>1 DEF StrictlyIncreasing
<1>4. q \in Injection(1..n, S)
  BY <1>1, <1>3 DEF Injection, IsInjective
<1>5. IsFiniteSet(1..n) /\ Cardinality(1..n) = n
  BY <1>2, FS_Interval
<1>6. q \in Surjection(1..n, S)
  BY <1>4, <1>5, FS_Injection DEF n
<1> QED
  BY <1>1, <1>6 DEF Surjection, n, q

-----------------------------------------------------------------------------
(* The shape of the inputs and of the loops' state.                         *)
LineEntry == [start : Nat, line : Nat \ {0}]
MapEntry == [start : Nat, location : Nat]

LineShape ==
  /\ line_table \in Seq(LineEntry)
  /\ \A i, j \in 1..Len(line_table) : i <= j => line_table[i].start <= line_table[j].start
  /\ end_location \in Nat
  /\ \A i \in 1..Len(line_table) : line_table[i].start <= end_location
  /\ map \in Seq(MapEntry)
  /\ \A i \in 1..Len(map) : map[i].start > StartAddr
  /\ \A i, j \in 1..Len(map) : i < j => map[i].start < map[j].start
  /\ entry \in Nat /\ entry >= 1
  /\ stage \in {"new", "bci_loop", "method", "addr_loop", "compiled"}

(* The ranges of the first n entries of the line table that are not empty.  *)
BciPiece(i) == [start |-> line_table[i].start, end |-> BciEnd(i), data |-> line_table[i].line]
BciPieces(n) == {BciPiece(i) : i \in {h \in 1..n : line_table[h].start <= BciEnd(h)}}

(* The first n pieces of the code.                                          *)
AddrPiece(i) ==
  [start |-> Piece(i).start, end |-> Piece(i).end, data |-> GetData(bci2line, Piece(i).location)]
AddrPieces(n) == {AddrPiece(i) : i \in 1..n}

(* The locations of the first n entries of the map have lines.              *)
Known(n) == \A i \in 1..n : HasData(bci2line, map[i].location)

(* How far the loops have got.                                              *)
BciSoFar ==
  /\ stage = "new" => bci2line = EmptyRanges /\ entry = 1
  /\ stage = "bci_loop" => entry <= Len(line_table) + 1 /\ Holds(bci2line, BciPieces(entry - 1))
  /\ stage \in {"method", "addr_loop", "compiled"} =>
       bci2line = EmptyRanges \/ Holds(bci2line, BciPieces(Len(line_table)))

AddrSoFar ==
  /\ stage \in {"new", "bci_loop", "method"} => addr2line = EmptyRanges
  /\ stage = "addr_loop" => 
       entry <= Len(map) + 1 /\ Holds(addr2line, AddrPieces(entry - 1)) /\ Known(entry - 1)
  /\ stage = "compiled" =>
       \E n \in 0..Len(map) :
         /\ Holds(addr2line, AddrPieces(n)) /\ Known(n)
         /\ n = Len(map) \/ addr2line = EmptyRanges \/ ~HasData(bci2line, map[n + 1].location)

LineIInv == LineShape /\ BciSoFar /\ AddrSoFar

-----------------------------------------------------------------------------
(* A function on 1..n is a sequence.                                        *)
LEMMA FunctionIsSeq ==
  ASSUME NEW S, NEW n \in Nat, NEW f \in [1..n -> S]
  PROVE  f \in Seq(S) /\ Len(f) = n
  BY SeqDef, LenProperties

(* What the inputs are.                                                     *)
LEMMA LineInitHolds ==
  ASSUME LineInit
  PROVE  LineIInv
<1>1. PICK s \in BoundedSeq(0..MaxBci, MaxEntries) :
        Increasing(s) /\ line_table = [i \in DOMAIN s |-> [start |-> s[i], line |-> i]]
  BY DEF LineInit, LineTable
<1>2. PICK m \in Nat : s \in [1..m -> 0..MaxBci]
  BY LineAssumption DEF BoundedSeq, SeqOf
<1>3. line_table \in [1..m -> LineEntry]
  BY <1>1, <1>2, LineAssumption DEF LineEntry
<1>4. line_table \in Seq(LineEntry) /\ Len(line_table) = m
  BY <1>2, <1>3, FunctionIsSeq
<1>5. \A i \in 1..m : line_table[i].start = s[i]
  BY <1>1, <1>2
<1>6. \A i, j \in 1..Len(line_table) : i <= j => line_table[i].start <= line_table[j].start
  BY <1>1, <1>2, <1>4, <1>5 DEF Increasing
<1>7. PICK a \in BoundedSeq(1..CodeSize, MaxMap), b \in [1..MaxMap -> 0..MaxBci] :
        StrictlyIncreasing(a) /\ map = [i \in DOMAIN a |-> [start |-> a[i], location |-> b[i]]]
  BY DEF LineInit, AddrMaps
<1>8. PICK k \in 0..MaxMap : a \in [1..k -> 1..CodeSize]
  BY DEF BoundedSeq, SeqOf
<1>9. map \in [1..k -> MapEntry]
  <2>1. \A i \in 1..k : a[i] \in Nat /\ b[i] \in Nat
    BY <1>8, LineAssumption
  <2> QED
    BY <1>7, <1>8, <2>1 DEF MapEntry
<1>10. map \in Seq(MapEntry) /\ Len(map) = k
  <2>1. k \in Nat
    BY LineAssumption
  <2> QED
    BY <1>9, <2>1, FunctionIsSeq
<1>11. \A i \in 1..k : map[i].start = a[i] /\ a[i] \in 1..CodeSize
  BY <1>7, <1>8
<1>12. /\ \A i \in 1..Len(map) : map[i].start > StartAddr
       /\ \A i, j \in 1..Len(map) : i < j => map[i].start < map[j].start
  BY <1>7, <1>8, <1>10, <1>11 DEF StrictlyIncreasing, StartAddr
<1>13. /\ end_location \in Nat /\ stage = "new" /\ entry = 1
       /\ bci2line = EmptyRanges /\ addr2line = EmptyRanges
       /\ \A i \in DOMAIN line_table : line_table[i].start <= end_location
  BY LineAssumption DEF LineInit
<1>14. LineShape
  BY <1>3, <1>4, <1>6, <1>10, <1>12, <1>13 DEF LineShape
<1> QED
  BY <1>13, <1>14 DEF LineIInv, BciSoFar, AddrSoFar

(* The ranges of the line table follow one another.                         *)
LEMMA BciOrder ==
  ASSUME LineShape, NEW i \in 1..Len(line_table)
  PROVE  /\ line_table[i].start \in Nat /\ BciEnd(i) \in Int
         /\ \A j \in 1..Len(line_table) : i < j => BciEnd(i) < line_table[j].start
<1>1. \A j \in 1..Len(line_table) : line_table[j].start \in Nat
  <2>1. \A j \in 1..Len(line_table) : line_table[j] \in LineEntry
    BY ElementOfSeq DEF LineShape
  <2> QED
    BY <2>1 DEF LineEntry
<1>2. Len(line_table) \in Nat /\ end_location \in Nat
  BY LenProperties DEF LineShape
<1>3. BciEnd(i) \in Int
  BY <1>1, <1>2 DEF BciEnd
<1>4. ASSUME NEW j \in 1..Len(line_table), i < j PROVE BciEnd(i) < line_table[j].start
  <2>1. i + 1 \in 1..Len(line_table) /\ i + 1 <= j /\ i < Len(line_table)
    BY <1>2, <1>4
  <2>2. line_table[i + 1].start <= line_table[j].start
    BY <2>1 DEF LineShape
  <2>3. BciEnd(i) = line_table[i + 1].start - 1
    BY <2>1 DEF BciEnd
  <2> QED
    BY <1>1, <2>1, <2>2, <2>3
<1> QED
  BY <1>1, <1>3, <1>4

(* So do the pieces of the code.                                            *)
LEMMA AddrOrder ==
  ASSUME LineShape, NEW i \in 1..Len(map)
  PROVE  /\ Piece(i).start \in Nat /\ Piece(i).end \in Nat /\ Piece(i).start <= Piece(i).end
         /\ Piece(i).location = map[i].location /\ Piece(i).location \in Nat
         /\ \A j \in 1..Len(map) : i < j => Piece(i).end < Piece(j).start
<1>1. \A j \in 1..Len(map) : map[j].start \in Nat /\ map[j].location \in Nat
  <2>1. \A j \in 1..Len(map) : map[j] \in MapEntry
    BY ElementOfSeq DEF LineShape
  <2> QED
    BY <2>1 DEF MapEntry
<1>2. Len(map) \in Nat
  BY LenProperties DEF LineShape
<1>3. \A j \in 1..Len(map) : /\ Piece(j).start = IF j = 1 THEN 0 ELSE map[j - 1].start
                             /\ Piece(j).end = map[j].start - 1
                             /\ Piece(j).location = map[j].location
  BY DEF Piece, StartAddr
<1>4. \A j \in 1..Len(map) : map[j].start > 0
  BY DEF LineShape, StartAddr
<1>5. Piece(i).start \in Nat /\ Piece(i).start <= Piece(i).end
  <2>1. CASE i = 1
    BY <1>1, <1>3, <1>4, <2>1
  <2>2. CASE i # 1
    <3>1. i - 1 \in 1..Len(map) /\ i - 1 < i
      BY <1>2, <2>2
    <3>2. map[i - 1].start < map[i].start
      BY <3>1 DEF LineShape
    <3> QED
      BY <1>1, <1>3, <2>2, <3>1, <3>2
  <2> QED
    BY <2>1, <2>2
<1>6. Piece(i).end \in Nat
  BY <1>1, <1>3, <1>4
<1>7. ASSUME NEW j \in 1..Len(map), i < j PROVE Piece(i).end < Piece(j).start
  <2>1. j # 1 /\ j - 1 \in 1..Len(map) /\ i <= j - 1
    BY <1>2, <1>7
  <2>2. map[i].start <= map[j - 1].start
    <3>1. CASE i = j - 1
      BY <1>1, <3>1
    <3>2. CASE i < j - 1
      <4>1. map[i].start < map[j - 1].start
        BY <2>1, <3>2 DEF LineShape
      <4> QED
        BY <1>1, <2>1, <4>1
    <3> QED
      BY <2>1, <3>1, <3>2
  <2> QED
    BY <1>1, <1>3, <2>1, <2>2
<1> QED
  BY <1>1, <1>3, <1>5, <1>6, <1>7

(* Entry n + 1 of the line table enters its range, or is skipped.           *)
LEMMA BciNext ==
  ASSUME LineShape, NEW rs, NEW n \in Nat, n + 1 <= Len(line_table), Holds(rs, BciPieces(n))
  PROVE  Holds(IF BciEnd(n + 1) < line_table[n + 1].start THEN rs
               ELSE Insert(rs, line_table[n + 1].start, BciEnd(n + 1), line_table[n + 1].line),
               BciPieces(n + 1))
<1> DEFINE k == n + 1
<1>1. k \in 1..Len(line_table) /\ k - 1 = n /\ 1..k = 1..n \cup {k}
  <2>1. Len(line_table) \in Nat
    BY LenProperties DEF LineShape
  <2> QED
    BY <2>1
<1> HIDE DEF k
<1>2. /\ line_table[k].start \in Int /\ BciEnd(k) \in Int
  BY <1>1, BciOrder
<1>3. CASE BciEnd(k) < line_table[k].start
  <2>1. BciPieces(k) = BciPieces(n)
    BY <1>1, <1>2, <1>3 DEF BciPieces
  <2> QED
    BY <1>3, <2>1 DEF k
<1>4. CASE ~(BciEnd(k) < line_table[k].start)
  <2>1. line_table[k].start <= BciEnd(k)
    BY <1>2, <1>4
  <2>2. BciPieces(k) = BciPieces(n) \cup {BciPiece(k)}
    BY <1>1, <2>1 DEF BciPieces
  <2>3. ASSUME NEW f \in BciPieces(n) PROVE ~Meets(BciPiece(k), f)
    <3>1. PICK i \in 1..n : f = BciPiece(i)
      BY DEF BciPieces
    <3>2. i \in 1..Len(line_table) /\ i < k
      BY <1>1
    <3>3. BciEnd(i) < line_table[k].start /\ BciEnd(i) \in Int
      BY <1>1, <3>2, BciOrder
    <3> QED
      BY <1>2, <2>1, <3>1, <3>3 DEF Meets, BciPiece
  <2>4. Holds(Insert(rs, line_table[k].start, BciEnd(k), line_table[k].line), BciPieces(k))
    BY <1>2, <2>1, <2>2, <2>3, InsertHolds DEF BciPiece
  <2> QED
    BY <1>4, <2>4 DEF k
<1> QED
  BY <1>3, <1>4

(* Piece n + 1 of the code enters its range.                                *)
LEMMA AddrNext ==
  ASSUME LineShape, NEW rs, NEW n \in Nat, n + 1 <= Len(map), Holds(rs, AddrPieces(n))
  PROVE  Holds(Insert(rs, Piece(n + 1).start, Piece(n + 1).end,
                      GetData(bci2line, Piece(n + 1).location)), AddrPieces(n + 1))
<1> DEFINE k == n + 1
<1>1. k \in 1..Len(map) /\ k - 1 = n /\ 1..k = 1..n \cup {k}
  <2>1. Len(map) \in Nat
    BY LenProperties DEF LineShape
  <2> QED
    BY <2>1
<1> HIDE DEF k
<1>2. Piece(k).start \in Int /\ Piece(k).end \in Int /\ Piece(k).start <= Piece(k).end
  BY <1>1, AddrOrder
<1>3. AddrPieces(k) = AddrPieces(n) \cup {AddrPiece(k)}
  BY <1>1 DEF AddrPieces
<1>4. ASSUME NEW f \in AddrPieces(n) PROVE ~Meets(AddrPiece(k), f)
  <2>1. PICK i \in 1..n : f = AddrPiece(i)
    BY DEF AddrPieces
  <2>2. i \in 1..Len(map) /\ i < k
    BY <1>1
  <2>3. Piece(i).end < Piece(k).start /\ Piece(i).end \in Int
    BY <1>1, <2>2, AddrOrder
  <2> QED
    BY <1>2, <2>1, <2>3 DEF Meets, AddrPiece
<1>5. Holds(Insert(rs, Piece(k).start, Piece(k).end, GetData(bci2line, Piece(k).location)),
            AddrPieces(k))
  BY <1>2, <1>3, <1>4, InsertHolds DEF AddrPiece
<1> QED
  BY <1>5 DEF k

(* Before the first round.                                                  *)
LEMMA NoPieces ==
  ASSUME LineShape
  PROVE  BciPieces(0) = {} /\ AddrPieces(0) = {} /\ Known(0)
  BY DEF BciPieces, AddrPieces, Known

(* The inputs stay; so do the pieces.                                       *)
LEMMA SameInputs ==
  ASSUME UNCHANGED <<line_table, end_location, map, native>>
  PROVE  /\ \A n : BciPieces(n)' = BciPieces(n)
         /\ bci2line' = bci2line => \A n : AddrPieces(n)' = AddrPieces(n)
         /\ bci2line' = bci2line => \A n : Known(n)' = Known(n)
  BY DEF BciPieces, BciPiece, BciEnd, AddrPieces, AddrPiece, Piece, Known

(* Every step of the two loops preserves the invariant.                     *)
LEMMA LineNextStep ==
  ASSUME LineIInv, [LineNext]_lineVars
  PROVE  LineIInv'
<1>1. LineShape /\ BciSoFar /\ AddrSoFar
  BY DEF LineIInv
<1>2. UNCHANGED <<line_table, end_location, map, native>>
  BY DEF LineNext, lineVars, LoadBCILineTable, BciRound, BciDone, LoadAddrLocationMap, AddrRound,
         AddrDone
<1>3. Len(line_table) \in Nat /\ Len(map) \in Nat /\ entry \in Nat /\ entry >= 1
  BY <1>1, LenProperties DEF LineShape
<1>4. /\ entry' \in Nat /\ entry' >= 1
      /\ stage' \in {"new", "bci_loop", "method", "addr_loop", "compiled"}
  BY <1>1, <1>3 DEF LineNext, lineVars, LoadBCILineTable, BciRound, BciDone, LoadAddrLocationMap,
     AddrRound, AddrDone, LineShape
<1>5. LineShape'
  BY <1>1, <1>2, <1>4 DEF LineShape
<1>6. /\ \A n : BciPieces(n)' = BciPieces(n)
      /\ bci2line' = bci2line => \A n : AddrPieces(n)' = AddrPieces(n)
      /\ bci2line' = bci2line => \A n : Known(n)' = Known(n)
  BY <1>2, SameInputs
<1>7. CASE LoadBCILineTable
  <2>1. /\ stage = "new" /\ stage' \in {"method", "bci_loop"}
        /\ UNCHANGED <<bci2line, addr2line, entry>> /\ bci2line = EmptyRanges /\ entry = 1
        /\ addr2line = EmptyRanges
    BY <1>1, <1>7 DEF LoadBCILineTable, BciSoFar, AddrSoFar
  <2>2. Holds(bci2line, BciPieces(0))
    BY <1>1, <2>1, NoPieces, EmptyHolds
  <2>3. entry' - 1 = 0 /\ entry' <= Len(line_table') + 1 /\ Holds(bci2line', BciPieces(entry' - 1))
    BY <1>2, <1>3, <2>1, <2>2
  <2>4. BciSoFar'
    <3>1. Holds(bci2line, BciPieces(entry - 1))'
      BY <1>2, <2>1, <2>3 DEF Holds, Matches, BciPieces, BciPiece, BciEnd
    <3> QED
      BY <2>1, <2>3, <3>1 DEF BciSoFar
  <2>5. AddrSoFar'
    BY <2>1 DEF AddrSoFar
  <2> QED
    BY <1>5, <2>4, <2>5 DEF LineIInv
<1>8. CASE BciRound
  <2> PICK n : n = entry - 1
    OBVIOUS
  <2>1. /\ stage = "bci_loop" /\ stage' = "bci_loop" /\ entry' = entry + 1 /\ n + 1 = entry
        /\ n \in Nat /\ n + 1 <= Len(line_table) /\ addr2line' = addr2line
        /\ bci2line' = IF BciEnd(n + 1) < line_table[n + 1].start THEN bci2line
                       ELSE Insert(bci2line, line_table[n + 1].start, BciEnd(n + 1),
                                   line_table[n + 1].line)
    BY <1>3, <1>8 DEF BciRound
  <2>2. Holds(bci2line, BciPieces(n))
    BY <1>1, <2>1 DEF BciSoFar
  <2>3. Holds(bci2line', BciPieces(n + 1))
    BY <1>1, <2>1, <2>2, BciNext
  <2> PICK m : m = n + 1
    OBVIOUS
  <2>4. entry' - 1 = m /\ entry' <= Len(line_table') + 1
    BY <1>2, <1>3, <2>1
  <2>5. Holds(bci2line', BciPieces(m)')
    BY <1>6, <2>3
  <2>6. Holds(bci2line', BciPieces(entry - 1)')
    BY <2>4, <2>5
  <2>7. BciSoFar'
    BY <2>1, <2>4, <2>6 DEF BciSoFar
  <2>8. AddrSoFar'
    BY <1>1, <2>1 DEF AddrSoFar
  <2> QED
    BY <1>5, <2>7, <2>8 DEF LineIInv
<1>9. CASE BciDone
  <2>1. /\ stage = "bci_loop" /\ stage' = "method" /\ entry > Len(line_table)
        /\ UNCHANGED <<bci2line, addr2line, entry>> /\ addr2line = EmptyRanges
        /\ entry <= Len(line_table) + 1 /\ Holds(bci2line, BciPieces(entry - 1))
    BY <1>1, <1>9 DEF BciDone, BciSoFar, AddrSoFar
  <2>2. entry - 1 = Len(line_table)
    BY <1>3, <2>1
  <2>3. Holds(bci2line, BciPieces(Len(line_table)))
    BY <2>1, <2>2
  <2>4. Holds(bci2line, BciPieces(Len(line_table)))'
    BY <1>2, <1>6, <2>1, <2>3
  <2>5. BciSoFar'
    BY <2>1, <2>4 DEF BciSoFar
  <2>6. AddrSoFar'
    BY <2>1 DEF AddrSoFar
  <2> QED
    BY <1>5, <2>5, <2>6 DEF LineIInv
<1>10. ASSUME UNCHANGED bci2line, stage \in {"method", "addr_loop", "compiled"},
             stage' \in {"method", "addr_loop", "compiled"}
      PROVE  BciSoFar'
  <2>1. bci2line = EmptyRanges \/ Holds(bci2line, BciPieces(Len(line_table)))
    BY <1>1, <1>10 DEF BciSoFar
  <2>2. Holds(bci2line, BciPieces(Len(line_table))) => Holds(bci2line, BciPieces(Len(line_table)))'
    BY <1>2, <1>6, <1>10
  <2> QED
    BY <1>10, <2>1, <2>2 DEF BciSoFar
<1>11. CASE LoadAddrLocationMap
  <2>1. /\ stage = "method" /\ stage' \in {"compiled", "addr_loop"} /\ entry' = 1
        /\ UNCHANGED <<bci2line, addr2line>> /\ addr2line = EmptyRanges
    BY <1>1, <1>11 DEF LoadAddrLocationMap, AddrSoFar
  <2>2. BciSoFar'
    BY <1>10, <2>1
  <2>3. Holds(addr2line', AddrPieces(0)') /\ Known(0)'
    BY <1>1, <1>6, <2>1, NoPieces, EmptyHolds
  <2>4. AddrSoFar'
    <3>1. entry' - 1 = 0 /\ entry' <= Len(map') + 1 /\ 0 \in 0..Len(map')
      BY <1>2, <1>3, <2>1
    <3>2. Holds(addr2line, AddrPieces(entry - 1))' /\ Known(entry - 1)'
      BY <2>3, <3>1
    <3> QED
      BY <2>1, <2>3, <3>1, <3>2 DEF AddrSoFar
  <2> QED
    BY <1>5, <2>2, <2>4 DEF LineIInv
<1>12. CASE AddrRound
  <2> PICK n : n = entry - 1
    OBVIOUS
  <2>1. /\ stage = "addr_loop" /\ stage' = "addr_loop" /\ entry' = entry + 1 /\ n + 1 = entry
        /\ n \in Nat /\ n + 1 <= Len(map) /\ bci2line' = bci2line
        /\ addr2line' = Insert(addr2line, Piece(n + 1).start, Piece(n + 1).end,
                               GetData(bci2line, Piece(n + 1).location))
    BY <1>3, <1>12 DEF AddrRound
  <2>2. Holds(addr2line, AddrPieces(n))
    BY <1>1, <2>1 DEF AddrSoFar
  <2>3. Holds(addr2line', AddrPieces(n + 1))
    BY <1>1, <2>1, <2>2, AddrNext
  <2>9. Known(n + 1)
    <3>1. HasData(bci2line, map[n + 1].location)
      <4>1. HasData(bci2line, Piece(entry).location) /\ entry \in 1..Len(map)
        BY <1>3, <1>12 DEF AddrRound
      <4> QED
        BY <1>1, <2>1, <4>1, AddrOrder
    <3>2. Known(n)
      BY <1>1, <2>1 DEF AddrSoFar
    <3>3. \A i \in 1..(n + 1) : i \in 1..n \/ i = n + 1
      BY <2>1
    <3> QED
      BY <3>1, <3>2, <3>3 DEF Known
  <2> PICK m : m = n + 1
    OBVIOUS
  <2>4. entry' - 1 = m /\ entry' <= Len(map') + 1
    BY <1>2, <1>3, <2>1
  <2>5. Holds(addr2line', AddrPieces(m)') /\ Known(m)'
    BY <1>6, <2>1, <2>3, <2>9
  <2>6. Holds(addr2line, AddrPieces(entry - 1))' /\ Known(entry - 1)'
    BY <2>4, <2>5
  <2>7. AddrSoFar'
    BY <2>1, <2>4, <2>6 DEF AddrSoFar
  <2>8. BciSoFar'
    BY <1>10, <2>1
  <2> QED
    BY <1>5, <2>7, <2>8 DEF LineIInv
<1>13. CASE AddrDone
  <2> PICK n : n = entry - 1
    OBVIOUS
  <2>1. /\ stage = "addr_loop" /\ stage' = "compiled" /\ UNCHANGED <<bci2line, addr2line, entry>>
        /\ n \in 0..Len(map) /\ n + 1 = entry
        /\ entry <= Len(map) => ~HasData(bci2line, Piece(entry).location)
        /\ Holds(addr2line, AddrPieces(n)) /\ Known(n)
    BY <1>1, <1>3, <1>13 DEF AddrDone, AddrSoFar
  <2>2. Holds(addr2line', AddrPieces(n)') /\ Known(n)'
    BY <1>6, <2>1
  <2>3. n = Len(map) \/ ~HasData(bci2line, map[n + 1].location)
    <3>1. n = Len(map) \/ entry \in 1..Len(map)
      BY <1>3, <2>1
    <3> QED
      BY <1>1, <2>1, <3>1, AddrOrder
  <2>4. /\ n \in 0..Len(map')
        /\ n = Len(map') \/ ~HasData(bci2line', map'[n + 1].location)
    BY <1>2, <2>1, <2>3
  <2>5. AddrSoFar'
    BY <2>1, <2>2, <2>4 DEF AddrSoFar
  <2>6. BciSoFar'
    BY <1>10, <2>1
  <2> QED
    BY <1>5, <2>5, <2>6 DEF LineIInv
<1>14. CASE UNCHANGED lineVars
  BY <1>14 DEF lineVars, LineIInv, LineShape, BciSoFar, AddrSoFar, BciPieces, BciPiece, BciEnd,
     AddrPieces, AddrPiece, Piece, Known
<1> QED
  BY <1>7, <1>8, <1>9, <1>11, <1>12, <1>13, <1>14 DEF LineNext

(* The invariant of the line tables, for all tables and maps of any size.   *)
THEOREM LineInductive == LineSpec => []LineIInv
  BY LineInitHolds, LineNextStep, PTL DEF LineSpec

-----------------------------------------------------------------------------
(* The entry at which the search of the callbacks stops covers the          *)
(* location.                                                                *)
LEMMA SearchFindsCover ==
  ASSUME LineShape, Len(line_table) > 0, NEW location \in line_table[1].start .. end_location
  PROVE  \E e \in BciPieces(Len(line_table)) :
           e.start <= location /\ location <= e.end /\ e.data = SearchLine(location)
<1> DEFINE L == Len(line_table)
           later == {j \in 2..L : location < line_table[j].start}
           k == IF later = {} THEN L ELSE Min(later) - 1
<1>1. L \in Nat /\ L > 0
  BY LenProperties DEF LineShape
<1>2. \A j \in 1..L : line_table[j].start \in Nat
  BY BciOrder
<1>3. end_location \in Nat /\ location \in Int /\ line_table[1].start <= location
      /\ location <= end_location
  BY <1>1, <1>2 DEF LineShape
<1>4. later = {} \/ (Min(later) \in later /\ \A y \in later : Min(later) <= y)
  <2>1. later \subseteq Nat
    BY <1>1
  <2> HIDE DEF later
  <2> QED
    BY <2>1, MinIsLeast
<1>5. SearchLine(location) = line_table[k].line
  BY DEF SearchLine
<1> HIDE DEF L
<1>6. k \in 1..L /\ line_table[k].start <= location
  <2>1. CASE later = {}
    <3>1. k = L
      BY <2>1
    <3>2. L = 1 \/ (L \in 2..L /\ L \notin later)
      BY <1>1, <2>1
    <3>3. line_table[L].start <= location
      <4>1. line_table[L].start \in Nat
        BY <1>1, <1>2
      <4> QED
        BY <1>3, <3>2, <4>1
    <3> QED
      BY <1>1, <3>1, <3>3
  <2>2. CASE later # {}
    <3> PICK m : m = Min(later)
      OBVIOUS
    <3>1. m \in 2..L /\ location < line_table[m].start /\ \A y \in later : m <= y
      BY <1>4, <2>2
    <3>2. k = m - 1 /\ k \in 1..L
      BY <1>1, <2>2, <3>1
    <3>3. k = 1 \/ (k \in 2..L /\ k \notin later)
      <4>1. k \in Int /\ ~(m <= k)
        BY <3>1, <3>2
      <4> HIDE DEF k, later
      <4> QED
        BY <3>1, <3>2, <4>1
    <3> HIDE DEF k
    <3> QED
      BY <1>2, <1>3, <3>2, <3>3
  <2> QED
    BY <2>1, <2>2
<1>7. location <= BciEnd(k)
  <2>1. CASE later = {}
    BY <1>3, <2>1 DEF BciEnd, L
  <2>2. CASE later # {}
    <3> PICK m : m = Min(later)
      OBVIOUS
    <3>1. m \in 2..L /\ location < line_table[m].start
      BY <1>4, <2>2
    <3>2. k = m - 1 /\ k + 1 = m /\ k < L
      BY <1>1, <2>2, <3>1
    <3> HIDE DEF k
    <3>3. BciEnd(k) = line_table[m].start - 1
      BY <3>2 DEF BciEnd, L
    <3>4. line_table[m].start \in Nat
      BY <1>1, <1>2, <3>1
    <3> QED
      BY <1>3, <3>1, <3>3, <3>4
  <2> QED
    BY <2>1, <2>2
<1> HIDE DEF k
<1>8. line_table[k].start <= BciEnd(k)
  <2>1. line_table[k].start \in Nat /\ BciEnd(k) \in Int
    BY <1>6, BciOrder DEF L
  <2> QED
    BY <1>3, <1>6, <1>7, <2>1
<1>9. BciPiece(k) \in BciPieces(L)
  BY <1>6, <1>8 DEF BciPieces
<1> QED
  BY <1>5, <1>6, <1>7, <1>9 DEF BciPiece, L

(* The table of a method, once it is filled.                                *)
LEMMA BciHolds ==
  ASSUME LineIInv, stage \notin {"new", "bci_loop"}, bci2line # EmptyRanges
  PROVE  Holds(bci2line, BciPieces(Len(line_table))) /\ Len(line_table) > 0
<1>1. LineShape /\ Holds(bci2line, BciPieces(Len(line_table)))
  BY DEF LineIInv, LineShape, BciSoFar
<1>2. Len(line_table) # 0
  BY <1>1, NoPieces, HoldsNothing
<1>3. Len(line_table) \in Nat
  BY <1>1, LenProperties DEF LineShape
<1> QED
  BY <1>1, <1>2, <1>3

(* Every location of a method from its first entry on: the search of the    *)
(* callbacks and the range table name the same line.                        *)
LEMMA LookupsAgreeStep ==
  ASSUME LineIInv
  PROVE  LookupsAgree
<1> SUFFICES ASSUME stage \notin {"new", "bci_loop"}, bci2line # EmptyRanges,
                    NEW location \in line_table[1].start .. end_location
             PROVE  HasData(bci2line, location) /\ GetData(bci2line, location) = SearchLine(location)
  BY DEF LookupsAgree
<1>1. Holds(bci2line, BciPieces(Len(line_table))) /\ Len(line_table) > 0
  BY BciHolds
<1>2. PICK e \in BciPieces(Len(line_table)) :
        e.start <= location /\ location <= e.end /\ e.data = SearchLine(location)
  BY <1>1, SearchFindsCover DEF LineIInv
<1>3. location \in Int
  <2>1. 1 \in 1..Len(line_table)
    BY <1>1, LenProperties DEF LineIInv, LineShape
  <2>2. line_table[1].start \in Nat /\ end_location \in Nat
    BY <2>1, BciOrder DEF LineIInv, LineShape
  <2> QED
    BY <2>2
<1> QED
  BY <1>1, <1>2, <1>3, LookupHolds

-----------------------------------------------------------------------------
(* The table of a compiled method, if all its locations have lines.         *)
LEMMA AddrHolds ==
  ASSUME LineIInv, stage = "compiled", addr2line # EmptyRanges,
         \A i \in DOMAIN map : HasData(bci2line, map[i].location)
  PROVE  Holds(addr2line, AddrPieces(Len(map)))
<1>1. PICK n \in 0..Len(map) :
        /\ Holds(addr2line, AddrPieces(n))
        /\ n = Len(map) \/ addr2line = EmptyRanges \/ ~HasData(bci2line, map[n + 1].location)
  BY DEF LineIInv, AddrSoFar
<1>2. Len(map) \in Nat /\ DOMAIN map = 1..Len(map)
  BY LenProperties DEF LineIInv, LineShape
<1>3. n = Len(map) \/ n + 1 \in 1..Len(map)
  <2>1. \A L \in Nat : \A k \in 0..L : k = L \/ k + 1 \in 1..L
    OBVIOUS
  <2> QED
    BY <1>2, <2>1
<1> QED
  BY <1>1, <1>2, <1>3

(* The first piece that ends at or behind an address covers it; no piece    *)
(* covers an address behind the last entry.                                 *)
LEMMA AddressesHaveLinesStep ==
  ASSUME LineIInv
  PROVE  AddressesHaveLines
<1> SUFFICES ASSUME stage = "compiled", addr2line # EmptyRanges,
                    \A i \in DOMAIN map : HasData(bci2line, map[i].location),
                    NEW a \in StartAddr .. (StartAddr + CodeSize - 1)
             PROVE  LET after == {i \in DOMAIN map : a < map[i].start}
                    IN  Addr2Line(a) = IF after = {} THEN 0
                                       ELSE GetData(bci2line, map[Min(after)].location)
  BY DEF AddressesHaveLines
<1> DEFINE after == {i \in DOMAIN map : a < map[i].start}
<1>1. LineShape /\ AddrSoFar
  BY DEF LineIInv
<1>2. a \in Nat /\ 0 <= a
  BY LineAssumption DEF StartAddr
<1>3. Len(map) \in Nat /\ DOMAIN map = 1..Len(map)
  BY <1>1, LenProperties DEF LineShape
<1>4. Holds(addr2line, AddrPieces(Len(map)))
  BY AddrHolds
<1>5. \A i \in 1..Len(map) : /\ map[i].start \in Nat
                             /\ Piece(i).start = IF i = 1 THEN 0 ELSE map[i - 1].start
                             /\ Piece(i).end = map[i].start - 1
                             /\ Piece(i).location = map[i].location
  <2>1. \A i \in 1..Len(map) : map[i] \in MapEntry
    BY <1>1, ElementOfSeq DEF LineShape
  <2> QED
    BY <2>1 DEF MapEntry, Piece, StartAddr
<1>6. CASE after = {}
  <2>1. ASSUME NEW e \in AddrPieces(Len(map)) PROVE ~(a <= e.end)
    <3>1. PICK i \in 1..Len(map) : e = AddrPiece(i)
      BY DEF AddrPieces
    <3>2. e.end = map[i].start - 1
      BY <1>5, <3>1 DEF AddrPiece
    <3>3. ~(a < map[i].start)
      BY <1>3, <1>6
    <3> QED
      BY <1>2, <1>5, <3>2, <3>3
  <2>2. ~HasData(addr2line, a)
    BY <1>2, <1>4, <2>1, LookupHolds
  <2> QED
    BY <1>6, <2>2 DEF Addr2Line
<1>7. CASE after # {}
  <2> PICK m : m = Min(after)
    OBVIOUS
  <2>1. m \in after /\ \A y \in after : m <= y
    <3>1. after \subseteq Nat
      BY <1>3
    <3> HIDE DEF after
    <3> QED
      BY <1>7, <3>1, MinIsLeast
  <2>2. m \in 1..Len(map) /\ a < map[m].start
    BY <1>3, <2>1
  <2>3. AddrPiece(m) \in AddrPieces(Len(map))
    BY <2>2 DEF AddrPieces
  <2>4. a <= Piece(m).end
    BY <1>2, <1>5, <2>2
  <2>5. Piece(m).start <= a
    <3>1. CASE m = 1
      BY <1>2, <1>5, <2>2, <3>1
    <3>2. CASE m # 1
      <4> PICK j : j = m - 1
        OBVIOUS
      <4>1. j \in 1..Len(map) /\ ~(m <= j)
        BY <1>3, <2>2, <3>2
      <4>2. ~(a < map[j].start)
        <5>1. j \notin after
          BY <2>1, <4>1
        <5> QED
          BY <1>3, <4>1, <5>1
      <4>3. Piece(m).start = map[j].start
        BY <1>5, <2>2, <3>2
      <4> QED
        BY <1>2, <1>5, <4>1, <4>2, <4>3
    <3> QED
      BY <3>1, <3>2
  <2>6. HasData(addr2line, a) /\ GetData(addr2line, a) = GetData(bci2line, Piece(m).location)
    <3>1. AddrPiece(m).start <= a /\ a <= AddrPiece(m).end
          /\ AddrPiece(m).data = GetData(bci2line, Piece(m).location)
      BY <2>4, <2>5 DEF AddrPiece
    <3> QED
      BY <1>2, <1>4, <2>3, <3>1, LookupHolds
  <2> QED
    BY <1>5, <1>7, <2>2, <2>6 DEF Addr2Line
<1> QED
  BY <1>6, <1>7

-----------------------------------------------------------------------------
(* The ranges that are dumped are those of the table.                       *)
LEMMA ChildrenAreRanges ==
  ASSUME NEW rs, DOMAIN rs \subseteq Nat, IsFiniteSet(DOMAIN rs)
  PROVE  ToSet(RangeChildren(rs))
           = {[start |-> s, end |-> rs[s].end, data |-> rs[s].data] : s \in DOMAIN rs}
<1> PICK n, q : n = Cardinality(DOMAIN rs) /\ q = Ascending(DOMAIN rs)
  OBVIOUS
<1>1. q \in [1..n -> DOMAIN rs] /\ \A s \in DOMAIN rs : \E i \in 1..n : q[i] = s
  BY AscendingListsAll
<1>2. RangeChildren(rs) = [i \in 1..n |-> [start |-> q[i], end |-> rs[q[i]].end,
                                           data |-> rs[q[i]].data]]
  BY <1>1 DEF RangeChildren
<1>3. ToSet(RangeChildren(rs))
        = {[start |-> q[i], end |-> rs[q[i]].end, data |-> rs[q[i]].data] : i \in 1..n}
  BY <1>2 DEF ToSet
<1> DEFINE R(s) == [start |-> s, end |-> rs[s].end, data |-> rs[s].data]
<1>4. ToSet(RangeChildren(rs)) = {R(q[i]) : i \in 1..n}
  BY <1>3
<1> HIDE DEF R
<1>5. {R(q[i]) : i \in 1..n} = {R(s) : s \in DOMAIN rs}
  BY <1>1
<1> QED
  BY <1>4, <1>5 DEF R

(* The lines that the table and the dumped children of one type give.       *)
Covering(rs, k) == {rs[s].data : s \in {r \in DOMAIN rs : r <= k /\ k <= rs[r].end}}

(* A table gives a key at most one line, the one its lookup gives.          *)
LEMMA CoveringIsLookup ==
  ASSUME NEW rs, NEW P, Holds(rs, P), NEW k \in Int
  PROVE  Covering(rs, k) = IF HasData(rs, k) THEN {GetData(rs, k)} ELSE {}
<1>1. /\ DOMAIN rs = {e.start : e \in P}
      /\ \A e \in P : rs[e.start].end = e.end /\ rs[e.start].data = e.data
  BY DEF Holds, Matches
<1>2. Covering(rs, k) = {e.data : e \in {f \in P : f.start <= k /\ k <= f.end}}
  BY <1>1 DEF Covering
<1>3. /\ HasData(rs, k) <=> \E e \in P : e.start <= k /\ k <= e.end
      /\ \A e \in P : e.start <= k /\ k <= e.end => GetData(rs, k) = e.data
  BY LookupHolds
<1> QED
  BY <1>2, <1>3

(* The children of one table.                                               *)
LEMMA ToLineChildren ==
  ASSUME NEW type, NEW rs
  PROVE  /\ ToLine(type, rs) \in Seq({[type |-> type, ranges |-> RangeChildren(rs)]})
         /\ ToSet(ToLine(type, rs))
              = IF rs = EmptyRanges THEN {} ELSE {[type |-> type, ranges |-> RangeChildren(rs)]}
<1> DEFINE c == [type |-> type, ranges |-> RangeChildren(rs)]
<1>1. CASE rs = EmptyRanges
  <2>1. ToLine(type, rs) = << >>
    BY <1>1 DEF ToLine
  <2>2. ToSet(<< >>) = {}
    BY DEF ToSet
  <2> QED
    BY <1>1, <2>1, <2>2
<1>2. CASE rs # EmptyRanges
  <2>1. ToLine(type, rs) = <<c>>
    BY <1>2 DEF ToLine
  <2> HIDE DEF c
  <2>2. <<c>> \in Seq({c}) /\ DOMAIN <<c>> = 1..1 /\ <<c>>[1] = c
    OBVIOUS
  <2>3. ToSet(<<c>>) = {c}
    BY <2>2 DEF ToSet
  <2> QED
    BY <1>2, <2>1, <2>2, <2>3 DEF c
<1> QED
  BY <1>1, <1>2

(* Children of which those of one type are the table's.                     *)
LEMMA DumpedIsCovering ==
  ASSUME NEW children, NEW type, NEW rs, NEW k \in Int,
         DOMAIN rs \subseteq Nat, IsFiniteSet(DOMAIN rs),
         {d \in ToSet(children) : d.type = type} = ToSet(ToLine(type, rs))
  PROVE  DumpedLine(children, type, k) = Covering(rs, k)
<1> DEFINE U == UNION {ToSet(c.ranges) : c \in {d \in ToSet(children) : d.type = type}}
<1>1. U = {[start |-> s, end |-> rs[s].end, data |-> rs[s].data] : s \in DOMAIN rs}
  <2>1. CASE rs = EmptyRanges
    <3>1. DOMAIN rs = {}
      BY <2>1 DEF EmptyRanges
    <3> QED
      BY <2>1, <3>1, ToLineChildren
  <2>2. CASE rs # EmptyRanges
    <3>1. U = ToSet(RangeChildren(rs))
      <4>1. {d \in ToSet(children) : d.type = type}
              = {[type |-> type, ranges |-> RangeChildren(rs)]}
        BY <2>2, ToLineChildren
      <4> DEFINE c == [type |-> type, ranges |-> RangeChildren(rs)]
      <4>2. c.ranges = RangeChildren(rs)
        OBVIOUS
      <4>3. U = UNION {ToSet(d.ranges) : d \in {c}}
        BY <4>1
      <4> HIDE DEF c, U
      <4> QED
        BY <4>2, <4>3
    <3> QED
      BY <3>1, ChildrenAreRanges
  <2> QED
    BY <2>1, <2>2
<1>2. DumpedLine(children, type, k) = {r.data : r \in {q \in U : q.start <= k /\ k <= q.end}}
  BY DEF DumpedLine
<1> HIDE DEF U
<1> DEFINE R(s) == [start |-> s, end |-> rs[s].end, data |-> rs[s].data]
<1>3. U = {R(s) : s \in DOMAIN rs}
  BY <1>1
<1>4. \A s : R(s).start = s /\ R(s).end = rs[s].end /\ R(s).data = rs[s].data
  OBVIOUS
<1> HIDE DEF R
<1>5. {r.data : r \in {q \in U : q.start <= k /\ k <= q.end}}
        = {rs[s].data : s \in {t \in DOMAIN rs : t <= k /\ k <= rs[t].end}}
  BY <1>3, <1>4
<1> QED
  BY <1>2, <1>5 DEF Covering

(* The two tables' children under one roof.                                 *)
LEMMA ChildrenByType ==
  ASSUME NEW rsA, NEW rsB
  PROVE  LET both == ToLine("addr2line", rsA) \o ToLine("bci2line", rsB)
         IN  /\ {d \in ToSet(both) : d.type = "addr2line"} = ToSet(ToLine("addr2line", rsA))
             /\ {d \in ToSet(both) : d.type = "bci2line"} = ToSet(ToLine("bci2line", rsB))
<1> DEFINE a == [type |-> "addr2line", ranges |-> RangeChildren(rsA)]
           b == [type |-> "bci2line", ranges |-> RangeChildren(rsB)]
           sa == ToLine("addr2line", rsA)
           sb == ToLine("bci2line", rsB)
<1>1. /\ sa \in Seq({a}) /\ ToSet(sa) = IF rsA = EmptyRanges THEN {} ELSE {a}
      /\ sb \in Seq({b}) /\ ToSet(sb) = IF rsB = EmptyRanges THEN {} ELSE {b}
  BY ToLineChildren
<1>2. a.type = "addr2line" /\ b.type = "bci2line"
  OBVIOUS
<1> HIDE DEF a, b, sa, sb
<1>3. sa \in Seq({a, b}) /\ sb \in Seq({a, b})
  BY <1>1, SeqDef
<1>4. ToSet(sa \o sb) = ToSet(sa) \cup ToSet(sb)
  <2>1. Range(sa \o sb) = Range(sa) \cup Range(sb)
    BY <1>3, RangeConcatenation
  <2>2. \A s : Range(s) = ToSet(s)
    BY DEF Range, ToSet
  <2> QED
    BY <2>1, <2>2
<1>5. "addr2line" # "bci2line"
  OBVIOUS
<1>6. /\ {d \in ToSet(sa \o sb) : d.type = "addr2line"} = ToSet(sa)
      /\ {d \in ToSet(sa \o sb) : d.type = "bci2line"} = ToSet(sb)
  BY <1>1, <1>2, <1>4, <1>5
<1> QED
  BY <1>6 DEF sa, sb

(* Where the tables start.                                                  *)
LEMMA StartsAreNumbers ==
  ASSUME LineIInv, stage = "compiled"
  PROVE  /\ \E P : Holds(bci2line, P) /\ \A e \in P : e.data # 0
         /\ \E P : Holds(addr2line, P) /\ \A e \in P : e.data # 0
         /\ DOMAIN bci2line \subseteq Nat /\ DOMAIN addr2line \subseteq Nat
<1>1. LineShape /\ BciSoFar /\ AddrSoFar
  BY DEF LineIInv
<1>2. /\ \E P : Holds(bci2line, P) /\ \A e \in P : e.data # 0
      /\ DOMAIN bci2line \subseteq Nat
  <2>1. CASE bci2line = EmptyRanges
    <3>1. DOMAIN bci2line = {} /\ Holds(bci2line, {})
      BY <2>1, EmptyHolds DEF EmptyRanges
    <3> QED
      BY <3>1
  <2>2. CASE Holds(bci2line, BciPieces(Len(line_table)))
    <3>1. ASSUME NEW e \in BciPieces(Len(line_table)) PROVE e.start \in Nat /\ e.data # 0
      <4>1. PICK i \in 1..Len(line_table) : e = BciPiece(i)
        BY DEF BciPieces
      <4>2. line_table[i] \in LineEntry
        BY <1>1, ElementOfSeq DEF LineShape
      <4> QED
        BY <4>1, <4>2 DEF BciPiece, LineEntry
    <3> QED
      BY <2>2, <3>1 DEF Holds, Matches
  <2> QED
    BY <1>1, <2>1, <2>2 DEF BciSoFar
<1>3. PICK n \in 0..Len(map) : Holds(addr2line, AddrPieces(n)) /\ Known(n)
  BY <1>1 DEF AddrSoFar
<1>4. ASSUME NEW e \in AddrPieces(n) PROVE e.start \in Nat /\ e.data # 0
  <2>1. PICK i \in 1..n : e = AddrPiece(i)
    BY DEF AddrPieces
  <2>2. i \in 1..Len(map)
    BY <1>1, LenProperties DEF LineShape
  <2>3. Piece(i).start \in Nat /\ Piece(i).location = map[i].location /\ Piece(i).location \in Nat
    BY <1>1, <2>2, AddrOrder
  <2>4. HasData(bci2line, Piece(i).location)
    BY <1>3, <2>3 DEF Known
  <2>5. GetData(bci2line, Piece(i).location) # 0
    <3>1. PICK P : Holds(bci2line, P) /\ \A f \in P : f.data # 0
      BY <1>2
    <3>2. Piece(i).location \in Int
      BY <2>3
    <3> QED
      BY <2>4, <3>1, <3>2, LookupHolds
  <2> QED
    BY <2>1, <2>3, <2>5 DEF AddrPiece
<1>5. DOMAIN addr2line = {e.start : e \in AddrPieces(n)}
  BY <1>3 DEF Holds, Matches
<1>6. DOMAIN addr2line \subseteq Nat
  BY <1>4, <1>5
<1> QED
  BY <1>2, <1>3, <1>4, <1>6

(* The dump of a compiled method says what the lookups say.                 *)
LEMMA DumpSaysTheSameStep ==
  ASSUME LineIInv
  PROVE  DumpSaysTheSame
<1> SUFFICES ASSUME stage = "compiled"
    PROVE  /\ \A a \in StartAddr .. (StartAddr + CodeSize - 1) :
                DumpedLine(CompiledMethodXML.children, "addr2line", a) = {Addr2Line(a)} \ {0}
           /\ \A b \in 0..MaxBci :
                \A xml \in {CompiledMethodXML.children, InterpretMethodXML.children} :
                  DumpedLine(xml, "bci2line", b)
                    = IF HasData(bci2line, b) THEN {GetData(bci2line, b)} ELSE {}
           /\ CompiledMethodXML.start_line
                = IF addr2line = EmptyRanges THEN InterpretMethodXML.start_line
                  ELSE Addr2Line(StartAddr)
  BY DEF DumpSaysTheSame
<1>1. /\ CompiledMethodXML.children = ToLine("addr2line", addr2line) \o ToLine("bci2line", bci2line)
      /\ InterpretMethodXML.children = ToLine("bci2line", bci2line)
  BY DEF CompiledMethodXML, InterpretMethodXML
<1>2. DOMAIN bci2line \subseteq Nat /\ DOMAIN addr2line \subseteq Nat
  BY StartsAreNumbers
<1>3. PICK P : Holds(bci2line, P)
  BY StartsAreNumbers
<1>4. PICK Q : Holds(addr2line, Q) /\ \A e \in Q : e.data # 0
  BY StartsAreNumbers
<1>5. IsFiniteSet(DOMAIN bci2line) /\ IsFiniteSet(DOMAIN addr2line)
  BY <1>3, <1>4 DEF Holds, Matches
<1>6. ASSUME NEW a \in StartAddr .. (StartAddr + CodeSize - 1)
      PROVE  DumpedLine(CompiledMethodXML.children, "addr2line", a) = {Addr2Line(a)} \ {0}
  <2>1. a \in Int
    BY LineAssumption DEF StartAddr
  <2>2. DumpedLine(CompiledMethodXML.children, "addr2line", a) = Covering(addr2line, a)
    BY <1>1, <1>2, <1>5, <2>1, ChildrenByType, DumpedIsCovering
  <2>3. Covering(addr2line, a) = IF HasData(addr2line, a) THEN {GetData(addr2line, a)} ELSE {}
    BY <1>4, <2>1, CoveringIsLookup
  <2>4. HasData(addr2line, a) => GetData(addr2line, a) # 0
    BY <1>4, <2>1, LookupHolds
  <2> QED
    BY <2>2, <2>3, <2>4 DEF Addr2Line
<1>7. ASSUME NEW b \in 0..MaxBci,
             NEW xml \in {CompiledMethodXML.children, InterpretMethodXML.children}
      PROVE  DumpedLine(xml, "bci2line", b)
               = IF HasData(bci2line, b) THEN {GetData(bci2line, b)} ELSE {}
  <2>1. b \in Int
    BY LineAssumption
  <2>2. {d \in ToSet(xml) : d.type = "bci2line"} = ToSet(ToLine("bci2line", bci2line))
    <3>1. CASE xml = CompiledMethodXML.children
      BY <1>1, <3>1, ChildrenByType
    <3>2. CASE xml = InterpretMethodXML.children
      <4>1. \A d \in ToSet(ToLine("bci2line", bci2line)) : d.type = "bci2line"
        <5> DEFINE c == [type |-> "bci2line", ranges |-> RangeChildren(bci2line)]
        <5>1. c.type = "bci2line"
          OBVIOUS
        <5>2. ToSet(ToLine("bci2line", bci2line)) \subseteq {c}
          BY ToLineChildren
        <5> HIDE DEF c
        <5> QED
          BY <5>1, <5>2
      <4> QED
        BY <1>1, <3>2, <4>1
    <3> QED
      BY <3>1, <3>2
  <2>3. DumpedLine(xml, "bci2line", b) = Covering(bci2line, b)
    BY <1>2, <1>5, <2>1, <2>2, DumpedIsCovering
  <2> QED
    BY <1>3, <2>1, <2>3, CoveringIsLookup
<1>8. CompiledMethodXML.start_line
        = IF addr2line = EmptyRanges THEN InterpretMethodXML.start_line ELSE Addr2Line(StartAddr)
  BY DEF CompiledMethodXML, InterpretMethodXML, StartLine
<1> QED
  BY <1>6, <1>7, <1>8

(* The callbacks and the range table name the same line for every location, *)
(* whatever the line number table.                                          *)
THEOREM LookupsAgreeAlways == LineSpec => []LookupsAgree
  BY LineInductive, LookupsAgreeStep, PTL

(* addr2line knows every address in front of the last entry of the map, and *)
(* gives the line of the next entry.                                        *)
THEOREM AddressesHaveLinesAlways == LineSpec => []AddressesHaveLines
  BY LineInductive, AddressesHaveLinesStep, PTL

(* The XML of a method says of every address and location what the lookups  *)
(* say.                                                                     *)
THEOREM DumpSaysTheSameAlways == LineSpec => []DumpSaysTheSame
  BY LineInductive, DumpSaysTheSameStep, PTL

-----------------------------------------------------------------------------
(***************************************************************************)
(* The context tree: the contexts are the paths the client followed, each  *)
(* once, and their metrics are what the samples of the path added.         *)
(***************************************************************************)

Metric == [i : Nat, r : Nat]

ContextShape ==
    /\ metric_info_list \in Seq(MetricType)
    /\ id_counter \in Nat \ {0}
    /\ DOMAIN context_map = 0..(id_counter - 1)
    /\ \A id \in DOMAIN context_map :
          /\ context_map[id].metrics \in Seq(Metric)
          /\ Len(context_map[id].metrics) <= Len(metric_info_list)
    /\ DOMAIN path = DOMAIN context_map
    /\ \A id \in DOMAIN path : path[id] \in Seq(Frames)

(* The tree is the tree of the paths.                                       *)
IsTree ==
    /\ context_map[0].parent = NoParent /\ path[0] = <<>>
    /\ \A id \in DOMAIN context_map \ {0} :
          /\ context_map[id].parent \in 0..(id - 1)
          /\ context_map[id].frame \in Frames
          /\ path[id] = Append(path[context_map[id].parent], context_map[id].frame)
    /\ \A a, b \in DOMAIN path : path[a] = path[b] => a = b

(* The field of a value that its metric uses, and the other one.            *)
Amount(k, v) == IF metric_info_list[k] = "INT" THEN v.i ELSE v.r
Rest(k, v) == IF metric_info_list[k] = "INT" THEN v.r ELSE v.i

Key(id, k) == <<path[id], k - 1>>
Slots(id) == 1..Len(context_map[id].metrics)

(* What the metrics hold is what the samples added.                         *)
Totals ==
    /\ \A id \in DOMAIN context_map : \A k \in Slots(id) :
          LET v == context_map[id].metrics[k] IN
          /\ Rest(k, v) = 0
          /\ Amount(k, v) # 0 <=> Key(id, k) \in DOMAIN total
          /\ Amount(k, v) # 0 => total[Key(id, k)] = Amount(k, v)
    /\ \A key \in DOMAIN total :
          \E id \in DOMAIN context_map : \E k \in Slots(id) : key = Key(id, k)

ContextIInv == ContextShape /\ IsTree /\ Totals

-----------------------------------------------------------------------------
(* A tree with the root alone.                                              *)
RootAlone ==
    /\ metric_info_list \in Seq(MetricType) /\ context_map = NewTree /\ id_counter = 1
    /\ path = [id \in {0} |-> <<>>] /\ total = <<>>

LEMMA EmptyTree == RootAlone => ContextIInv
<1> SUFFICES ASSUME RootAlone PROVE ContextIInv
  OBVIOUS
<1>0. /\ metric_info_list \in Seq(MetricType) /\ context_map = NewTree /\ id_counter = 1
      /\ path = [id \in {0} |-> <<>>] /\ total = <<>>
  BY DEF RootAlone
<1>1. /\ DOMAIN context_map = {0} /\ DOMAIN path = {0} /\ path[0] = <<>>
      /\ context_map[0] = Context(NoParent, RootFrame)
  BY <1>0 DEF NewTree
<1>2. context_map[0].metrics = <<>> /\ context_map[0].parent = NoParent
  BY <1>1 DEF Context, NoMetrics
<1>3. /\ <<>> \in Seq(Metric) /\ Len(<<>>) = 0 /\ <<>> \in Seq(Frames)
      /\ Len(metric_info_list) \in Nat
  BY <1>0, EmptySeq, LenProperties
<1>4. 0..(id_counter - 1) = {0}
  BY <1>0
<1>5. ContextShape
  <2>1. \A id \in DOMAIN context_map :
          /\ context_map[id].metrics \in Seq(Metric)
          /\ Len(context_map[id].metrics) <= Len(metric_info_list)
    <3>1. context_map[0].metrics \in Seq(Metric)
      BY <1>2, <1>3, Zenon
    <3>2. Len(context_map[0].metrics) = 0
      BY <1>2, <1>3, Zenon
    <3>3. 0 <= Len(metric_info_list)
      BY <1>3
    <3> QED
      BY <1>1, <3>1, <3>2, <3>3, Zenon
  <2>2. \A id \in DOMAIN path : path[id] \in Seq(Frames)
    BY <1>1, <1>3
  <2>3. id_counter \in Nat \ {0} /\ DOMAIN context_map = 0..(id_counter - 1)
    BY <1>0, <1>1, <1>4
  <2> QED
    BY <1>0, <1>1, <2>1, <2>2, <2>3 DEF ContextShape
<1>6. IsTree
  BY <1>1, <1>2 DEF IsTree
<1>7. Totals
  <2>1. Slots(0) = {} /\ DOMAIN total = {}
    BY <1>0, <1>2, <1>3 DEF Slots
  <2> QED
    BY <1>1, <2>1 DEF Totals
<1> QED
  BY <1>5, <1>6, <1>7 DEF ContextIInv

LEMMA EmptyTreeNext == RootAlone' => ContextIInv'
  BY EmptyTree, PTL

LEMMA ContextInitHolds ==
  ASSUME ContextInit
  PROVE  ContextIInv
  BY EmptyTree, EmptySeq DEF ContextInit, RootAlone

(* increment: the slot grows, the others keep what they had.                *)
LEMMA IncrementSlot ==
  ASSUME NEW list \in Seq(Metric), NEW idx \in Nat, NEW val \in Metric
  PROVE  LET new == increment(list, idx, val)
             old == IF idx < Len(list) THEN list[idx + 1] ELSE Zero
         IN  /\ new \in Seq(Metric)
             /\ Len(new) = IF idx < Len(list) THEN Len(list) ELSE idx + 1
             /\ new[idx + 1] = Plus(old, val)
             /\ \A k \in 1..Len(new) :
                   k # idx + 1 => new[k] = IF k <= Len(list) THEN list[k] ELSE Zero
<1> DEFINE n == IF idx < Len(list) THEN Len(list) ELSE idx + 1
           resized == Resize(list, idx + 1)
           old == IF idx < Len(list) THEN list[idx + 1] ELSE Zero
           new == increment(list, idx, val)
<1>1. /\ Len(list) \in Nat
      /\ n \in Nat /\ idx + 1 \in 1..n
  BY LenProperties
<1>2. \A k \in 1..Len(list) : list[k] \in Metric
  BY ElementOfSeq
<1>3. Zero \in Metric
  BY DEF Zero, Metric
<1>4. resized = [k \in 1..n |-> IF k <= Len(list) THEN list[k] ELSE Zero]
  BY <1>1 DEF Resize
<1>5. resized[idx + 1] = old
  BY <1>1, <1>4
<1>6. Plus(old, val) \in Metric
  <2>1. old \in Metric
    BY <1>1, <1>2, <1>3
  <2> HIDE DEF old
  <2> QED
    BY <2>1 DEF Plus, Metric
<1>7. /\ new = [resized EXCEPT ![idx + 1] = Plus(old, val)]
  BY <1>5 DEF increment
<1> HIDE DEF n, old, new
<1>8. \A k \in 1..n : resized[k] = (IF k <= Len(list) THEN list[k] ELSE Zero) /\ resized[k] \in Metric
  BY <1>1, <1>2, <1>3, <1>4
<1>9. new \in [1..n -> Metric] /\ new[idx + 1] = Plus(old, val)
  BY <1>1, <1>4, <1>6, <1>7, <1>8
<1>10. new \in Seq(Metric) /\ Len(new) = n
  BY <1>1, <1>9, SeqDef, LenProperties
<1>11. \A k \in 1..n : k # idx + 1 => new[k] = resized[k]
  BY <1>1, <1>4, <1>7
<1> QED
  BY <1>8, <1>9, <1>10, <1>11 DEF n, old, new

(* Frames are equal when their fields are.                                  *)
LEMMA FramesCompare ==
  ASSUME NEW f \in Frames, NEW g \in Frames
  PROVE  contextRefEqual(f, g) <=> f = g
  BY DEF Frames, Frame, contextRefEqual

(* addContext finds the context of the frame under parent, or adds it.      *)
LEMMA AddContext ==
  ASSUME ContextIInv, NEW parent \in DOMAIN context_map, NEW frame \in Frames
  PROVE  LET added == addContext(context_map, id_counter, parent, frame) IN
         \/ /\ added.id \in DOMAIN context_map \ {0}
            /\ context_map[added.id].parent = parent /\ context_map[added.id].frame = frame
            /\ added.contexts = context_map /\ added.counter = id_counter
         \/ /\ added.id = id_counter /\ added.counter = id_counter + 1
            /\ added.contexts = Put(context_map, id_counter, Context(parent, frame))
            /\ \A id \in DOMAIN context_map \ {0} :
                  ~(context_map[id].parent = parent /\ context_map[id].frame = frame)
<1> DEFINE found == findChild(context_map, parent, frame)
<1>1. parent # NoParent
  BY DEF ContextIInv, ContextShape, NoParent
<1>2. \A id \in DOMAIN context_map \ {0} : context_map[id].frame \in Frames
  BY DEF ContextIInv, IsTree
<1>3. \A id : id \in found <=> /\ id \in DOMAIN context_map \ {0}
                               /\ context_map[id].parent = parent
                               /\ context_map[id].frame = frame
  BY <1>1, <1>2, FramesCompare DEF findChild, ContextIInv, IsTree
<1>4. CASE found # {}
  <2>1. (CHOOSE id \in found : TRUE) \in found
    BY <1>4
  <2> QED
    BY <1>3, <1>4, <2>1 DEF addContext
<1>5. CASE found = {}
  BY <1>3, <1>5 DEF addContext
<1> QED
  BY <1>4, <1>5

(* What a sample changes, in both cases.                                    *)
SampleOf(id, parent, frame, idx, list, val) ==
    /\ id \in Nat \ {0} /\ parent \in 0..(id - 1) /\ parent \in DOMAIN context_map
    /\ id_counter' \in Nat \ {0}
    /\ DOMAIN context_map' = 0..(id_counter' - 1)
    /\ DOMAIN context_map' = DOMAIN context_map \cup {id}
    /\ \A a \in DOMAIN context_map : a # id => context_map'[a] = context_map[a]
    /\ context_map'[id].parent = parent /\ context_map'[id].frame = frame
    /\ context_map'[id].metrics = increment(list, idx, val)
    /\ list = IF id \in DOMAIN context_map THEN context_map[id].metrics ELSE <<>>
    /\ DOMAIN path' = DOMAIN context_map'
    /\ \A a \in DOMAIN context_map : path'[a] = path[a]
    /\ path'[id] = Append(path[parent], frame)
    /\ \A a \in DOMAIN context_map : path[a] = path'[id] => a = id

LEMMA SampleEffect ==
  ASSUME ContextIInv, NEW parent \in DOMAIN context_map, NEW frame \in Frames,
         NEW idx \in Nat, NEW n \in Values, Sample(parent, frame, idx, n)
  PROVE  \E id, list :
           SampleOf(id, parent, frame, idx, list,
                    IF metric_info_list[idx + 1] = "INT" THEN [Zero EXCEPT !.i = n]
                    ELSE [Zero EXCEPT !.r = n])
<1> DEFINE added == addContext(context_map, id_counter, parent, frame)
           val == IF metric_info_list[idx + 1] = "INT" THEN [Zero EXCEPT !.i = n]
                  ELSE [Zero EXCEPT !.r = n]
<1>1. /\ context_map' = [added.contexts EXCEPT ![added.id].metrics = increment(@, idx, val)]
      /\ id_counter' = added.counter
      /\ path' = Put(path, added.id, Append(path[parent], frame))
  BY DEF Sample
<1> PICK id : id = added.id
  OBVIOUS
<1>2. /\ id_counter \in Nat \ {0} /\ DOMAIN context_map = 0..(id_counter - 1)
      /\ DOMAIN path = DOMAIN context_map
  BY DEF ContextIInv, ContextShape
<1>3. \/ /\ id \in DOMAIN context_map \ {0}
         /\ context_map[id].parent = parent /\ context_map[id].frame = frame
         /\ added.contexts = context_map /\ added.counter = id_counter
      \/ /\ id = id_counter /\ added.counter = id_counter + 1
         /\ added.contexts = Put(context_map, id_counter, Context(parent, frame))
         /\ \A a \in DOMAIN context_map \ {0} :
               ~(context_map[a].parent = parent /\ context_map[a].frame = frame)
  BY AddContext
<1> HIDE DEF added, val
<1>4. /\ DOMAIN path' = DOMAIN path \cup {id} /\ path'[id] = Append(path[parent], frame)
      /\ \A a \in DOMAIN path : a # id => path'[a] = path[a]
  BY <1>1 DEF Put
<1>5. ASSUME NEW a \in DOMAIN context_map, path[a] = Append(path[parent], frame)
      PROVE  a # 0 /\ context_map[a].parent = parent /\ context_map[a].frame = frame
  <2>1. path[parent] \in Seq(Frames) /\ path[a] \in Seq(Frames)
    BY <1>2 DEF ContextIInv, ContextShape
  <2>2. Append(path[parent], frame) # <<>>
    BY <2>1, AppendProperties
  <2>3. a # 0
    BY <1>5, <2>2 DEF ContextIInv, IsTree
  <2>4. /\ context_map[a].parent \in 0..(a - 1) /\ context_map[a].frame \in Frames
        /\ path[a] = Append(path[context_map[a].parent], context_map[a].frame)
    BY <2>3 DEF ContextIInv, IsTree
  <2>5. context_map[a].parent \in DOMAIN context_map
    BY <1>2, <2>4
  <2>6. path[context_map[a].parent] \in Seq(Frames)
    BY <1>2, <2>5 DEF ContextIInv, ContextShape
  <2>7. path[context_map[a].parent] = path[parent] /\ context_map[a].frame = frame
    <3> DEFINE p == path[context_map[a].parent]
               q == path[parent]
               f == context_map[a].frame
    <3>1. p \in Seq(Frames) /\ q \in Seq(Frames) /\ f \in Frames /\ Append(p, f) = Append(q, frame)
      BY <1>5, <2>1, <2>4, <2>6
    <3> HIDE DEF p, q, f
    <3>2. p = q /\ f = frame
      BY <3>1, AppendInjective
    <3> QED
      BY <3>2 DEF p, q, f
  <2> QED
    BY <1>2, <2>3, <2>5, <2>7 DEF ContextIInv, IsTree
<1>6. CASE /\ id \in DOMAIN context_map \ {0}
           /\ context_map[id].parent = parent /\ context_map[id].frame = frame
           /\ added.contexts = context_map /\ added.counter = id_counter
  <2>1. /\ parent \in 0..(id - 1) /\ path[id] = Append(path[parent], frame)
    BY <1>6 DEF ContextIInv, IsTree
  <2>2. context_map' = [context_map EXCEPT ![id].metrics = increment(@, idx, val)]
    BY <1>1, <1>6
  <2>3. /\ DOMAIN context_map' = DOMAIN context_map
        /\ \A a \in DOMAIN context_map : a # id => context_map'[a] = context_map[a]
        /\ context_map'[id] = [context_map[id] EXCEPT !.metrics = increment(@, idx, val)]
    BY <1>6, <2>2
  <2>4. /\ context_map'[id].parent = parent /\ context_map'[id].frame = frame
        /\ context_map'[id].metrics = increment(context_map[id].metrics, idx, val)
    BY <1>6, <2>3 DEF ContextIInv
  <2>5. \A a \in DOMAIN context_map : path'[a] = path[a]
    BY <1>2, <1>4, <1>6, <2>1
  <2>6. \A a \in DOMAIN context_map : path[a] = path'[id] => a = id
    BY <1>2, <1>4, <1>6, <2>1 DEF ContextIInv, IsTree
  <2>7. id \in Nat \ {0} /\ id_counter' = id_counter /\ DOMAIN path' = DOMAIN path
    BY <1>1, <1>2, <1>4, <1>6
  <2>8. SampleOf(id, parent, frame, idx, context_map[id].metrics, val)
    BY <1>2, <1>4, <1>6, <2>1, <2>3, <2>4, <2>5, <2>6, <2>7 DEF SampleOf
  <2> QED
    BY <2>8 DEF val
<1>7. CASE /\ id = id_counter /\ added.counter = id_counter + 1
           /\ added.contexts = Put(context_map, id_counter, Context(parent, frame))
           /\ \A a \in DOMAIN context_map \ {0} :
                 ~(context_map[a].parent = parent /\ context_map[a].frame = frame)
  <2>1. id \notin DOMAIN context_map /\ id \in Nat \ {0} /\ parent \in 0..(id - 1)
    BY <1>2, <1>7
  <2> PICK wider : wider = Put(context_map, id, Context(parent, frame))
    OBVIOUS
  <2>2. /\ DOMAIN wider = DOMAIN context_map \cup {id}
        /\ wider[id] = Context(parent, frame)
        /\ \A a \in DOMAIN context_map : a # id => wider[a] = context_map[a]
    BY DEF Put
  <2>3. context_map' = [wider EXCEPT ![id].metrics = increment(@, idx, val)]
    BY <1>1, <1>7
  <2>4. /\ DOMAIN context_map' = DOMAIN context_map \cup {id}
        /\ \A a \in DOMAIN context_map : a # id => context_map'[a] = context_map[a]
        /\ context_map'[id] = [wider[id] EXCEPT !.metrics = increment(@, idx, val)]
    BY <2>1, <2>2, <2>3
  <2>5. /\ context_map'[id].parent = parent /\ context_map'[id].frame = frame
        /\ context_map'[id].metrics = increment(<<>>, idx, val)
    BY <2>2, <2>4 DEF Context, NoMetrics
  <2>6. \A a \in DOMAIN context_map : path'[a] = path[a] /\ path[a] # path'[id]
    BY <1>2, <1>4, <1>5, <1>7, <2>1
  <2>7. id_counter' \in Nat \ {0} /\ DOMAIN context_map' = 0..(id_counter' - 1)
    BY <1>1, <1>2, <1>7, <2>4
  <2>8. DOMAIN path' = DOMAIN context_map'
    BY <1>2, <1>4, <2>4
  <2>9. SampleOf(id, parent, frame, idx, <<>>, val)
    BY <1>4, <2>1, <2>4, <2>5, <2>6, <2>7, <2>8 DEF SampleOf
  <2> QED
    BY <2>9 DEF val
<1> QED
  BY <1>3, <1>6, <1>7

(* The value in slot k of a list, zero behind its end.                      *)
Slot(list, k) == IF k <= Len(list) THEN list[k] ELSE Zero

(* Before the sample every slot of its context, and every slot it does not  *)
(* have, holds the total of its key.                                        *)
LEMMA SlotsBefore ==
  ASSUME ContextIInv, NEW id, NEW parent, NEW frame, NEW idx, NEW list, NEW val,
         SampleOf(id, parent, frame, idx, list, val)
  PROVE  /\ list \in Seq(Metric) /\ Len(list) <= Len(metric_info_list)
         /\ \A k \in Nat \ {0} :
               LET key == <<path'[id], k - 1>>
                   v == Slot(list, k)
               IN  /\ Rest(k, v) = 0
                   /\ Amount(k, v) # 0 <=> key \in DOMAIN total
                   /\ Amount(k, v) # 0 => total[key] = Amount(k, v)
<1>1. list \in Seq(Metric) /\ Len(list) <= Len(metric_info_list)
  <2>1. CASE id \in DOMAIN context_map
    BY <2>1 DEF SampleOf, ContextIInv, ContextShape
  <2>2. CASE id \notin DOMAIN context_map
    <3>1. list = <<>>
      BY <2>2 DEF SampleOf
    <3>2. Len(metric_info_list) \in Nat
      BY LenProperties DEF ContextIInv, ContextShape
    <3>3. <<>> \in Seq(Metric) /\ Len(<<>>) = 0
      BY EmptySeq
    <3> QED
      BY <3>1, <3>2, <3>3
  <2> QED
    BY <2>1, <2>2
<1>2. Len(list) \in Nat
  BY <1>1, LenProperties
<1> SUFFICES ASSUME NEW k \in Nat \ {0}
             PROVE  /\ Rest(k, Slot(list, k)) = 0
                    /\ Amount(k, Slot(list, k)) # 0 <=> <<path'[id], k - 1>> \in DOMAIN total
                    /\ Amount(k, Slot(list, k)) # 0 =>
                          total[<<path'[id], k - 1>>] = Amount(k, Slot(list, k))
  BY <1>1
<1>3. ASSUME id \in DOMAIN context_map
      PROVE  list = context_map[id].metrics /\ path'[id] = path[id]
  BY <1>3 DEF SampleOf
<1>4. CASE k <= Len(list)
  <2>1. id \in DOMAIN context_map
    <3> SUFFICES ASSUME list = <<>> PROVE FALSE
      BY DEF SampleOf
    <3>1. Len(list) = 0
      BY EmptySeq
    <3> QED
      BY <1>4, <3>1
  <2>2. k \in Slots(id) /\ Key(id, k) = <<path'[id], k - 1>>
    BY <1>2, <1>3, <1>4, <2>1 DEF Slots, Key
  <2>3. Slot(list, k) = context_map[id].metrics[k]
    BY <1>3, <1>4, <2>1 DEF Slot
  <2> QED
    BY <2>1, <2>2, <2>3 DEF ContextIInv, Totals
<1>5. CASE ~(k <= Len(list))
  <2>1. Slot(list, k) = Zero /\ Zero.i = 0 /\ Zero.r = 0
    BY <1>5 DEF Slot, Zero
  <2>2. Rest(k, Slot(list, k)) = 0 /\ Amount(k, Slot(list, k)) = 0
    BY <2>1 DEF Rest, Amount
  <2>3. <<path'[id], k - 1>> \notin DOMAIN total
    <3> SUFFICES ASSUME <<path'[id], k - 1>> \in DOMAIN total PROVE FALSE
      OBVIOUS
    <3>1. PICK a \in DOMAIN context_map : \E h \in Slots(a) : <<path'[id], k - 1>> = Key(a, h)
      BY DEF ContextIInv, Totals
    <3>2. PICK h \in Slots(a) : <<path'[id], k - 1>> = Key(a, h)
      BY <3>1
    <3>3. path[a] = path'[id] /\ k - 1 = h - 1 /\ h \in Int
      BY <3>2 DEF Key, Slots
    <3>4. a = id
      BY <3>3 DEF SampleOf
    <3>5. h \in 1..Len(list)
      BY <1>3, <3>2, <3>4 DEF Slots
    <3> QED
      BY <1>2, <1>5, <3>3, <3>5
  <2> QED
    BY <2>2, <2>3
<1> QED
  BY <1>4, <1>5

(* A sample keeps the tree.                                                 *)
LEMMA SampleKeepsTree ==
  ASSUME ContextIInv, NEW id, NEW parent, NEW frame \in Frames, NEW idx, NEW list, NEW val,
         SampleOf(id, parent, frame, idx, list, val)
  PROVE  IsTree' /\ \A a \in DOMAIN path' : path'[a] \in Seq(Frames)
<1>1. /\ DOMAIN path = DOMAIN context_map
      /\ \A a \in DOMAIN context_map : path[a] \in Seq(Frames)
      /\ 0 \in DOMAIN context_map
  BY DEF ContextIInv, ContextShape
<1>2. /\ id # 0 /\ parent \in DOMAIN context_map /\ parent \in 0..(id - 1)
      /\ DOMAIN context_map' = DOMAIN context_map \cup {id}
      /\ \A a \in DOMAIN context_map : a # id => context_map'[a] = context_map[a]
      /\ context_map'[id].parent = parent /\ context_map'[id].frame = frame
      /\ DOMAIN path' = DOMAIN context_map'
      /\ \A a \in DOMAIN context_map : path'[a] = path[a]
      /\ path'[id] = Append(path[parent], frame)
      /\ \A a \in DOMAIN context_map : path[a] = path'[id] => a = id
  BY DEF SampleOf
<1>3. \A a \in DOMAIN path' : path'[a] \in Seq(Frames)
  <2>1. path'[id] \in Seq(Frames)
    BY <1>1, <1>2, AppendProperties
  <2> QED
    BY <1>1, <1>2, <2>1
<1>4. context_map'[0].parent = NoParent /\ path'[0] = <<>>
  BY <1>1, <1>2 DEF ContextIInv, IsTree
<1>5. ASSUME NEW a \in DOMAIN context_map' \ {0}
      PROVE  /\ context_map'[a].parent \in 0..(a - 1)
             /\ context_map'[a].frame \in Frames
             /\ path'[a] = Append(path'[context_map'[a].parent], context_map'[a].frame)
  <2>1. CASE a = id
    BY <1>2, <2>1
  <2>2. CASE a # id
    <3>1. a \in DOMAIN context_map \ {0} /\ context_map'[a] = context_map[a] /\ path'[a] = path[a]
      BY <1>2, <1>5, <2>2
    <3>2. /\ context_map[a].parent \in 0..(a - 1)
          /\ context_map[a].frame \in Frames
          /\ path[a] = Append(path[context_map[a].parent], context_map[a].frame)
      BY <3>1 DEF ContextIInv, IsTree
    <3>3. context_map[a].parent \in DOMAIN context_map
      BY <3>1, <3>2 DEF ContextIInv, ContextShape
    <3> QED
      BY <1>2, <3>1, <3>2, <3>3
  <2> QED
    BY <2>1, <2>2
<1>6. \A a, b \in DOMAIN path' : path'[a] = path'[b] => a = b
  <2>1. \A a, b \in DOMAIN context_map : path[a] = path[b] => a = b
    BY <1>1 DEF ContextIInv, IsTree
  <2> QED
    BY <1>2, <2>1
<1> QED
  BY <1>3, <1>4, <1>5, <1>6 DEF IsTree

(* A sample adds its value to one slot of one context, and to one total.    *)
LEMMA SampleKeepsTotals ==
  ASSUME ContextIInv, NEW parent, NEW frame \in Frames, NEW id, NEW list,
         NEW idx \in Nat, idx < Len(metric_info_list), NEW val \in Metric, NEW n \in Nat \ {0},
         Amount(idx + 1, val) = n, Rest(idx + 1, val) = 0,
         SampleOf(id, parent, frame, idx, list, val),
         metric_info_list' = metric_info_list,
         LET key == <<path'[id], idx>>
         IN  total' = Put(total, key, (IF key \in DOMAIN total THEN total[key] ELSE 0) + n)
  PROVE  /\ Totals'
         /\ \A a \in DOMAIN context_map' :
               /\ context_map'[a].metrics \in Seq(Metric)
               /\ Len(context_map'[a].metrics) <= Len(metric_info_list)
<1> DEFINE key == <<path'[id], idx>>
           old == IF key \in DOMAIN total THEN total[key] ELSE 0
           new == context_map'[id].metrics
<1>1. /\ list \in Seq(Metric) /\ Len(list) <= Len(metric_info_list)
      /\ \A k \in Nat \ {0} :
            /\ Rest(k, Slot(list, k)) = 0
            /\ Amount(k, Slot(list, k)) # 0 <=> <<path'[id], k - 1>> \in DOMAIN total
            /\ Amount(k, Slot(list, k)) # 0 =>
                  total[<<path'[id], k - 1>>] = Amount(k, Slot(list, k))
  BY SlotsBefore
<1>2. new = increment(list, idx, val)
  BY DEF SampleOf
<1>3. /\ Len(list) \in Nat /\ new \in Seq(Metric) /\ Len(new) \in Nat
      /\ Len(new) = IF idx < Len(list) THEN Len(list) ELSE idx + 1
      /\ new[idx + 1] = Plus(Slot(list, idx + 1), val)
      /\ \A k \in 1..Len(new) : k # idx + 1 => new[k] = Slot(list, k)
  <2>1. Len(list) \in Nat
    BY <1>1, LenProperties
  <2>2. /\ new \in Seq(Metric)
        /\ Len(new) = IF idx < Len(list) THEN Len(list) ELSE idx + 1
        /\ new[idx + 1] = Plus(IF idx < Len(list) THEN list[idx + 1] ELSE Zero, val)
        /\ \A k \in 1..Len(new) :
              k # idx + 1 => new[k] = IF k <= Len(list) THEN list[k] ELSE Zero
    <3> HIDE DEF new
    <3>1. LET inc == increment(list, idx, val)
          IN  /\ inc \in Seq(Metric)
              /\ Len(inc) = IF idx < Len(list) THEN Len(list) ELSE idx + 1
              /\ inc[idx + 1] = Plus(IF idx < Len(list) THEN list[idx + 1] ELSE Zero, val)
              /\ \A k \in 1..Len(inc) :
                    k # idx + 1 => inc[k] = IF k <= Len(list) THEN list[k] ELSE Zero
      BY <1>1, IncrementSlot
    <3> QED
      BY <1>2, <3>1
  <2>3. Slot(list, idx + 1) = IF idx < Len(list) THEN list[idx + 1] ELSE Zero
    BY <2>1 DEF Slot
  <2> QED
    BY <2>1, <2>2, <2>3, LenProperties DEF Slot
<1>4. /\ DOMAIN total' = DOMAIN total \cup {key} /\ total'[key] = old + n
      /\ \A x \in DOMAIN total : x # key => total'[x] = total[x]
  BY DEF Put
<1>5. /\ DOMAIN context_map' = DOMAIN context_map \cup {id}
      /\ \A a \in DOMAIN context_map : a # id => context_map'[a] = context_map[a]
      /\ \A a \in DOMAIN context_map : path'[a] = path[a]
      /\ \A a \in DOMAIN context_map : path[a] = path'[id] => a = id
      /\ id \in DOMAIN context_map => list = context_map[id].metrics
  BY DEF SampleOf
<1> HIDE DEF old, new
<1>6. \A a \in DOMAIN context_map' :
        /\ context_map'[a].metrics \in Seq(Metric)
        /\ Len(context_map'[a].metrics) <= Len(metric_info_list)
  <2>1. Len(metric_info_list) \in Nat
    BY LenProperties DEF ContextIInv, ContextShape
  <2>2. Len(new) <= Len(metric_info_list)
    BY <1>1, <1>3, <2>1
  <2>3. \A a \in DOMAIN context_map :
          /\ context_map[a].metrics \in Seq(Metric)
          /\ Len(context_map[a].metrics) <= Len(metric_info_list)
    BY DEF ContextIInv, ContextShape
  <2> QED
    BY <1>3, <1>5, <2>2, <2>3 DEF new
<1>7. ASSUME NEW a \in DOMAIN context_map', NEW k \in 1..Len(context_map'[a].metrics)
      PROVE  LET v == context_map'[a].metrics[k] IN
             /\ Rest(k, v) = 0
             /\ Amount(k, v) # 0 <=> <<path'[a], k - 1>> \in DOMAIN total'
             /\ Amount(k, v) # 0 => total'[<<path'[a], k - 1>>] = Amount(k, v)
  <2>1. CASE a # id
    <3>1. a \in DOMAIN context_map /\ context_map'[a] = context_map[a] /\ path'[a] = path[a]
      BY <1>5, <2>1
    <3>2. path[a] # path'[id]
      BY <1>5, <2>1, <3>1
    <3>3. <<path[a], k - 1>> # key
      BY <3>2
    <3>4. /\ Rest(k, context_map[a].metrics[k]) = 0
          /\ Amount(k, context_map[a].metrics[k]) # 0 <=> <<path[a], k - 1>> \in DOMAIN total
          /\ Amount(k, context_map[a].metrics[k]) # 0 =>
                total[<<path[a], k - 1>>] = Amount(k, context_map[a].metrics[k])
      BY <1>7, <3>1 DEF ContextIInv, Totals, Slots, Key
    <3>5. /\ <<path[a], k - 1>> \in DOMAIN total' <=> <<path[a], k - 1>> \in DOMAIN total
          /\ <<path[a], k - 1>> \in DOMAIN total =>
                total'[<<path[a], k - 1>>] = total[<<path[a], k - 1>>]
      BY <1>4, <3>3
    <3> QED
      BY <3>1, <3>4, <3>5
  <2>2. CASE a = id /\ k # idx + 1
    <3>1. k \in 1..Len(new) /\ k \in Nat \ {0} /\ context_map'[a].metrics[k] = Slot(list, k)
      BY <1>3, <1>7, <2>2 DEF new
    <3>2. <<path'[id], k - 1>> # key
      BY <2>2, <3>1
    <3>3. /\ <<path'[id], k - 1>> \in DOMAIN total' <=> <<path'[id], k - 1>> \in DOMAIN total
          /\ <<path'[id], k - 1>> \in DOMAIN total =>
                total'[<<path'[id], k - 1>>] = total[<<path'[id], k - 1>>]
      BY <1>4, <3>2
    <3>4. /\ Rest(k, Slot(list, k)) = 0
          /\ Amount(k, Slot(list, k)) # 0 <=> <<path'[id], k - 1>> \in DOMAIN total
          /\ Amount(k, Slot(list, k)) # 0 =>
                total[<<path'[id], k - 1>>] = Amount(k, Slot(list, k))
      BY <1>1, <3>1
    <3> QED
      BY <2>2, <3>1, <3>3, <3>4
  <2>3. CASE a = id /\ k = idx + 1
    <3> DEFINE before == Slot(list, idx + 1)
    <3>1. /\ Rest(idx + 1, before) = 0
          /\ Amount(idx + 1, before) # 0 <=> key \in DOMAIN total
          /\ Amount(idx + 1, before) # 0 => total[key] = Amount(idx + 1, before)
      <4> DEFINE k1 == idx + 1
      <4>1. k1 \in Nat \ {0} /\ k1 - 1 = idx
        OBVIOUS
      <4> HIDE DEF k1
      <4>2. <<path'[id], k1 - 1>> = key
        BY <4>1
      <4>3. /\ Rest(k1, Slot(list, k1)) = 0
            /\ Amount(k1, Slot(list, k1)) # 0 <=> <<path'[id], k1 - 1>> \in DOMAIN total
            /\ Amount(k1, Slot(list, k1)) # 0 =>
                  total[<<path'[id], k1 - 1>>] = Amount(k1, Slot(list, k1))
        BY <1>1, <4>1
      <4> QED
        BY <4>2, <4>3 DEF k1
    <3>2. old = Amount(idx + 1, before)
      BY <3>1 DEF old
    <3>3. before \in Metric
      <4>1. Zero \in Metric
        BY DEF Zero, Metric
      <4>2. \A h \in 1..Len(list) : list[h] \in Metric
        BY <1>1, ElementOfSeq
      <4> QED
        BY <1>3, <4>1, <4>2 DEF Slot
    <3>4. context_map'[a].metrics[k] = Plus(before, val)
      BY <1>3, <2>3 DEF new
    <3> HIDE DEF before
    <3>5. /\ Amount(idx + 1, Plus(before, val)) = Amount(idx + 1, before) + n
          /\ Rest(idx + 1, Plus(before, val)) = 0
          /\ Amount(idx + 1, before) \in Nat
      BY <3>1, <3>3 DEF Amount, Rest, Plus, Metric
    <3>6. <<path'[a], k - 1>> = key
      BY <2>3
    <3> QED
      BY <1>4, <2>3, <3>2, <3>4, <3>5, <3>6
  <2> QED
    BY <2>1, <2>2, <2>3
<1>8. ASSUME NEW x \in DOMAIN total'
      PROVE  \E a \in DOMAIN context_map' : \E k \in 1..Len(context_map'[a].metrics) :
               x = <<path'[a], k - 1>>
  <2>1. CASE x = key
    <3>1. idx + 1 \in 1..Len(context_map'[id].metrics) /\ idx + 1 - 1 = idx
      BY <1>3 DEF new
    <3>2. x = <<path'[id], (idx + 1) - 1>>
      BY <2>1, <3>1
    <3> QED
      BY <1>5, <3>1, <3>2
  <2>2. CASE x \in DOMAIN total
    <3>1. PICK a \in DOMAIN context_map : \E k \in Slots(a) : x = Key(a, k)
      BY <2>2 DEF ContextIInv, Totals
    <3>2. PICK k \in 1..Len(context_map[a].metrics) : x = <<path[a], k - 1>>
      BY <3>1 DEF Slots, Key
    <3>3. k \in 1..Len(context_map'[a].metrics)
      <4>1. CASE a # id
        BY <1>5, <4>1
      <4>2. CASE a = id
        BY <1>3, <1>5, <4>2 DEF new
      <4> QED
        BY <4>1, <4>2
    <3> QED
      BY <1>5, <3>2, <3>3
  <2> QED
    BY <1>4, <2>1, <2>2
<1>9. Totals'
  BY <1>7, <1>8 DEF Totals, Slots, Key, Amount, Rest
<1> QED
  BY <1>6, <1>9

LEMMA SampleStep ==
  ASSUME ContextIInv, NEW parent \in DOMAIN context_map, NEW frame \in Frames,
         NEW idx \in Nat, NEW n \in Values, Sample(parent, frame, idx, n)
  PROVE  ContextIInv'
<1> DEFINE val == IF metric_info_list[idx + 1] = "INT" THEN [Zero EXCEPT !.i = n]
                  ELSE [Zero EXCEPT !.r = n]
           added == addContext(context_map, id_counter, parent, frame)
<1>1. n \in Nat \ {0}
  BY ContextAssumption
<1>2. val \in Metric /\ Amount(idx + 1, val) = n /\ Rest(idx + 1, val) = 0
  BY <1>1 DEF Metric, Amount, Rest, Zero
<1>3. PICK id, list : SampleOf(id, parent, frame, idx, list, val)
  BY SampleEffect
<1>4. path'[id] = Append(path[parent], frame)
  BY <1>3 DEF SampleOf
<1>5. /\ idx < Len(metric_info_list) /\ metric_info_list' = metric_info_list
      /\ LET key == <<Append(path[parent], frame), idx>>
         IN  total' = Put(total, key, (IF key \in DOMAIN total THEN total[key] ELSE 0) + n)
  BY DEF Sample, getNumMetrics
<1> HIDE DEF val
<1>6. /\ Totals'
      /\ \A a \in DOMAIN context_map' :
            /\ context_map'[a].metrics \in Seq(Metric)
            /\ Len(context_map'[a].metrics) <= Len(metric_info_list)
  BY <1>1, <1>2, <1>3, <1>4, <1>5, SampleKeepsTotals
<1>7. IsTree' /\ \A a \in DOMAIN path' : path'[a] \in Seq(Frames)
  BY <1>3, SampleKeepsTree
<1>8. /\ id_counter' \in Nat \ {0} /\ DOMAIN context_map' = 0..(id_counter' - 1)
      /\ DOMAIN path' = DOMAIN context_map'
  BY <1>3 DEF SampleOf
<1>9. ContextShape'
  BY <1>5, <1>6, <1>7, <1>8 DEF ContextIInv, ContextShape
<1> QED
  BY <1>6, <1>7, <1>9 DEF ContextIInv

(* A metric registered later does not change what the slots before it mean. *)
LEMMA RegisterStep ==
  ASSUME ContextIInv, NEW type \in MetricType, registerMetric(type)
  PROVE  ContextIInv'
<1>1. /\ metric_info_list' = Append(metric_info_list, type)
      /\ UNCHANGED <<context_map, id_counter, path, total>>
  BY DEF registerMetric
<1>2. metric_info_list \in Seq(MetricType)
  BY DEF ContextIInv, ContextShape
<1>3. /\ metric_info_list' \in Seq(MetricType)
      /\ Len(metric_info_list) \in Nat /\ Len(metric_info_list') = Len(metric_info_list) + 1
      /\ \A k \in 1..Len(metric_info_list) : metric_info_list'[k] = metric_info_list[k]
  BY <1>1, <1>2, AppendProperties, LenProperties
<1>4. \A a \in DOMAIN context_map : \A k \in Slots(a) : k \in 1..Len(metric_info_list)
  <2> SUFFICES ASSUME NEW a \in DOMAIN context_map, NEW k \in Slots(a)
               PROVE  k \in 1..Len(metric_info_list)
    OBVIOUS
  <2>1. Len(context_map[a].metrics) \in Nat /\ Len(context_map[a].metrics) <= Len(metric_info_list)
    BY LenProperties DEF ContextIInv, ContextShape
  <2> QED
    BY <1>3, <2>1 DEF Slots
<1>5. ContextShape'
  <2>1. ASSUME NEW a \in DOMAIN context_map
        PROVE  /\ context_map[a].metrics \in Seq(Metric)
               /\ Len(context_map[a].metrics) <= Len(metric_info_list')
    <3>1. /\ context_map[a].metrics \in Seq(Metric)
          /\ Len(context_map[a].metrics) <= Len(metric_info_list)
      BY DEF ContextIInv, ContextShape
    <3>2. Len(context_map[a].metrics) \in Nat
      BY <3>1, LenProperties
    <3> QED
      BY <1>3, <3>1, <3>2
  <2> QED
    BY <1>1, <1>3, <2>1 DEF ContextIInv, ContextShape
<1>6. IsTree'
  BY <1>1 DEF ContextIInv, IsTree
<1>7. Totals'
  <2>1. ASSUME NEW a \in DOMAIN context_map, NEW k \in Slots(a)
        PROVE  LET v == context_map[a].metrics[k] IN
               /\ Rest(k, v)' = 0
               /\ Amount(k, v)' # 0 <=> Key(a, k) \in DOMAIN total
               /\ Amount(k, v)' # 0 => total[Key(a, k)] = Amount(k, v)'
    <3>1. LET v == context_map[a].metrics[k] IN
          /\ Rest(k, v) = 0
          /\ Amount(k, v) # 0 <=> Key(a, k) \in DOMAIN total
          /\ Amount(k, v) # 0 => total[Key(a, k)] = Amount(k, v)
      BY DEF ContextIInv, Totals
    <3>2. metric_info_list'[k] = metric_info_list[k]
      BY <1>3, <1>4
    <3> QED
      BY <1>1, <3>1, <3>2 DEF Rest, Amount
  <2>2. \A x \in DOMAIN total :
          \E id \in DOMAIN context_map : \E k \in Slots(id) : x = Key(id, k)
    BY DEF ContextIInv, Totals
  <2> QED
    BY <1>1, <2>1, <2>2 DEF Totals, Slots, Key
<1> QED
  BY <1>5, <1>6, <1>7 DEF ContextIInv

LEMMA ContextNextStep ==
  ASSUME ContextIInv, [ContextNext]_contextVars
  PROVE  ContextIInv'
<1>1. ASSUME NEW type \in MetricType, registerMetric(type) PROVE ContextIInv'
  BY <1>1, RegisterStep
<1>2. ASSUME NEW parent \in DOMAIN context_map, NEW frame \in Frames,
             NEW idx \in 0..(MaxMetrics - 1), NEW n \in Values, Sample(parent, frame, idx, n)
      PROVE  ContextIInv'
  <2>1. idx \in Nat
    OBVIOUS
  <2> QED
    BY <1>2, <2>1, SampleStep
<1>3. CASE DeleteTree
  <2>1. RootAlone'
    BY <1>3 DEF DeleteTree, ContextIInv, ContextShape, RootAlone, NewTree
  <2> QED
    BY <2>1, EmptyTreeNext
<1>4. CASE UNCHANGED contextVars
  <2>1. UNCHANGED <<metric_info_list, context_map, id_counter, path, total>>
    BY <1>4 DEF contextVars
  <2>2. ContextShape'
    BY <2>1 DEF ContextIInv, ContextShape
  <2>3. IsTree'
    BY <2>1 DEF ContextIInv, IsTree
  <2>4. Totals'
    BY <2>1 DEF ContextIInv, Totals, Slots, Key, Amount, Rest
  <2> QED
    BY <2>2, <2>3, <2>4 DEF ContextIInv
<1> QED
  BY <1>1, <1>2, <1>3, <1>4 DEF ContextNext

(* The invariant of the context tree, for all frames, values and bounds.    *)
THEOREM ContextInductive == ContextSpec => []ContextIInv
<1>1. ContextInit => ContextIInv
  BY ContextInitHolds
<1>2. ContextIInv /\ [ContextNext]_contextVars => ContextIInv'
  BY ContextNextStep
<1> QED
  BY <1>1, <1>2, PTL DEF ContextSpec

-----------------------------------------------------------------------------
(* What the element of a context says.                                      *)
LEMMA ContextElement ==
  ASSUME NEW id \in DOMAIN context_map
  PROVE  LET e == ContextXML(id)
             c == context_map[id]
         IN  /\ e.attr["id"] = id /\ e.attr["frame"] = c.frame /\ e.attr["parent_id"] = c.parent
             /\ c.metrics = <<>> => 0 \notin DOMAIN e.child
             /\ c.metrics # <<>> => /\ 0 \in DOMAIN e.child
                                   /\ e.child[0] = MetricsXML(c.metrics)
<1> DEFINE c == context_map[id]
           attrs == Put(Put(Put(<<>>, "id", id), "frame", c.frame), "parent_id", c.parent)
           node == [tag |-> "context", attr |-> attrs, child |-> <<>>]
<1>1. addAttr(addAttr(addAttr(XMLObj("context"), "id", id), "frame", c.frame), "parent_id", c.parent)
        = node
  <2>1. addAttr(XMLObj("context"), "id", id)
          = [tag |-> "context", attr |-> Put(<<>>, "id", id), child |-> <<>>]
    BY DEF addAttr, XMLObj
  <2>2. addAttr([tag |-> "context", attr |-> Put(<<>>, "id", id), child |-> <<>>], "frame", c.frame)
          = [tag |-> "context", attr |-> Put(Put(<<>>, "id", id), "frame", c.frame), child |-> <<>>]
    BY DEF addAttr
  <2>3. addAttr([tag |-> "context", attr |-> Put(Put(<<>>, "id", id), "frame", c.frame),
                 child |-> <<>>], "parent_id", c.parent) = node
    BY DEF addAttr
  <2> QED
    BY <2>1, <2>2, <2>3
<1>2. attrs["id"] = id /\ attrs["frame"] = c.frame /\ attrs["parent_id"] = c.parent
  BY DEF Put
<1> HIDE DEF attrs
<1>3. CASE c.metrics = <<>>
  <2>1. ContextXML(id) = node
    BY <1>1, <1>3 DEF ContextXML, NoMetrics
  <2> QED
    BY <1>2, <1>3, <2>1
<1>4. CASE c.metrics # <<>>
  <2>1. ContextXML(id) = addChild(node, 0, MetricsXML(c.metrics))
    BY <1>1, <1>4 DEF ContextXML, NoMetrics
  <2>2. addChild(node, 0, MetricsXML(c.metrics))
          = [tag |-> "context", attr |-> attrs, child |-> Put(<<>>, 0, MetricsXML(c.metrics))]
    BY DEF addChild
  <2>3. /\ 0 \in DOMAIN Put(<<>>, 0, MetricsXML(c.metrics))
        /\ Put(<<>>, 0, MetricsXML(c.metrics))[0] = MetricsXML(c.metrics)
    BY DEF Put
  <2> QED
    BY <1>2, <1>4, <2>1, <2>2, <2>3
<1> QED
  BY <1>3, <1>4

(* What the element of a metric says, when the metric uses one field.       *)
LEMMA MetricElement ==
  ASSUME NEW idx, NEW v \in Metric
  PROVE  /\ v.i # 0 /\ v.r = 0 => MetricXML(idx, v).attr["value1"] = v.i
         /\ v.i = 0 /\ v.r # 0 => MetricXML(idx, v).attr["value2"] = v.r
<1> DEFINE attrs == Put(<<>>, "id", idx)
           obj == [tag |-> "metric", attr |-> attrs, child |-> <<>>]
<1>1. addAttr(XMLObj("metric"), "id", idx) = obj
  BY DEF addAttr, XMLObj
<1>2. \A x, y : addAttr(addAttr(obj, "value1", x), "value2", y).attr
                = Put(Put(attrs, "value1", x), "value2", y)
  BY DEF addAttr
<1>3. \A x, y : /\ Put(Put(attrs, "value1", x), "value2", y)["value1"] = x
                /\ Put(Put(attrs, "value1", x), "value2", y)["value2"] = y
  BY DEF Put
<1> HIDE DEF attrs, obj
<1>4. CASE v.i # 0 /\ v.r = 0
  <2>1. MetricXML(idx, v) = addAttr(addAttr(obj, "value1", v.i), "value2", -1)
    BY <1>1, <1>4 DEF MetricXML
  <2>2. MetricXML(idx, v).attr = Put(Put(attrs, "value1", v.i), "value2", -1)
    BY <1>2, <2>1, Zenon
  <2> QED
    BY <1>3, <1>4, <2>2
<1>5. CASE v.i = 0 /\ v.r # 0
  <2>1. MetricXML(idx, v) = addAttr(addAttr(obj, "value1", -1), "value2", v.r)
    BY <1>1, <1>5 DEF MetricXML
  <2>2. MetricXML(idx, v).attr = Put(Put(attrs, "value1", -1), "value2", v.r)
    BY <1>2, <2>1, Zenon
  <2> QED
    BY <1>3, <1>5, <2>2
<1> QED
  BY <1>4, <1>5

(* The children of the element of a list of metrics.                        *)
LEMMA MetricsElement ==
  ASSUME NEW list
  PROVE  LET child == MetricsXML(list).child
         IN  /\ DOMAIN child = {j - 1 : j \in {h \in 1..Len(list) : list[h].i # 0 \/ list[h].r # 0}}
             /\ \A k \in DOMAIN child : child[k] = MetricXML(k, list[k + 1])
  BY DEF MetricsXML, XMLObj

(* The dump of a tree that holds the totals tells them.                     *)
LEMMA DumpIsRight == ContextIInv => DumpTellsTotals
<1> SUFFICES ASSUME ContextIInv PROVE DumpTellsTotals
  OBVIOUS
<1> DEFINE Shown(e) == IF 0 \in DOMAIN e.child THEN e.child[0].child ELSE <<>>
           Value(idx, x) == IF metric_info_list[idx + 1] = "INT" THEN x.attr["value1"]
                            ELSE x.attr["value2"]
           Used(id) == {h \in Slots(id) : context_map[id].metrics[h].i # 0
                                           \/ context_map[id].metrics[h].r # 0}
<1>1. ASSUME NEW id \in DOMAIN context_map
      PROVE  LET e == ContextXML(id) IN
             /\ e \in Dump /\ e.attr["id"] = id
             /\ e.attr["frame"] = context_map[id].frame
             /\ e.attr["parent_id"] = context_map[id].parent
             /\ DOMAIN Shown(e) = {j - 1 : j \in Used(id)}
             /\ \A k \in DOMAIN Shown(e) : Shown(e)[k] = MetricXML(k, context_map[id].metrics[k + 1])
  <2> DEFINE e == ContextXML(id)
             list == context_map[id].metrics
  <2>1. /\ e.attr["id"] = id /\ e.attr["frame"] = context_map[id].frame
        /\ e.attr["parent_id"] = context_map[id].parent
        /\ list = <<>> => 0 \notin DOMAIN e.child
        /\ list # <<>> => 0 \in DOMAIN e.child /\ e.child[0] = MetricsXML(list)
    BY ContextElement
  <2>2. e \in Dump
    BY DEF Dump
  <2> HIDE DEF e
  <2>3. CASE list = <<>>
    <3>1. DOMAIN Shown(e) = {}
      BY <2>1, <2>3
    <3>2. Len(<<>>) = 0
      BY EmptySeq
    <3>3. Slots(id) = {}
      BY <2>3, <3>2 DEF Slots
    <3> QED
      BY <2>1, <2>2, <3>1, <3>3 DEF e
  <2>4. CASE list # <<>>
    <3>1. Shown(e) = MetricsXML(list).child
      BY <2>1, <2>4
    <3>2. /\ DOMAIN MetricsXML(list).child = {j - 1 : j \in Used(id)}
          /\ \A k \in DOMAIN MetricsXML(list).child :
                MetricsXML(list).child[k] = MetricXML(k, list[k + 1])
      BY MetricsElement DEF Slots
    <3> QED
      BY <2>1, <2>2, <3>1, <3>2 DEF e
  <2> QED
    BY <2>3, <2>4
<1>2. \A e \in Dump : \E id \in DOMAIN context_map : e = ContextXML(id)
  BY DEF Dump
<1> HIDE DEF Shown
<1>3. ASSUME NEW e \in Dump
      PROVE  \/ e.attr["parent_id"] = -1 /\ path[e.attr["id"]] = <<>>
             \/ \E up \in Dump :
                   /\ up.attr["id"] = e.attr["parent_id"] /\ up.attr["id"] < e.attr["id"]
                   /\ path[e.attr["id"]] = Append(path[up.attr["id"]], e.attr["frame"])
  <2>1. PICK id \in DOMAIN context_map : e = ContextXML(id)
    BY <1>2
  <2>2. /\ e.attr["id"] = id /\ e.attr["frame"] = context_map[id].frame
        /\ e.attr["parent_id"] = context_map[id].parent
    BY <1>1, <2>1
  <2>3. CASE id = 0
    BY <2>2, <2>3 DEF ContextIInv, IsTree, NoParent
  <2>4. CASE id # 0
    <3> DEFINE parent == context_map[id].parent
    <3>1. /\ parent \in 0..(id - 1) /\ path[id] = Append(path[parent], context_map[id].frame)
          /\ id \in Nat
      BY <2>4 DEF ContextIInv, IsTree, ContextShape
    <3>2. parent \in DOMAIN context_map /\ parent < id
      BY <3>1 DEF ContextIInv, ContextShape
    <3> HIDE DEF parent
    <3>3. ContextXML(parent) \in Dump /\ ContextXML(parent).attr["id"] = parent
      BY <1>1, <3>2
    <3> QED
      BY <2>2, <3>1, <3>2, <3>3 DEF parent
  <2> QED
    BY <2>3, <2>4
<1>4. ASSUME NEW id \in DOMAIN context_map, NEW k \in Used(id)
      PROVE  /\ Key(id, k) \in DOMAIN total
             /\ total[Key(id, k)] = Value(k - 1, MetricXML(k - 1, context_map[id].metrics[k]))
  <2> DEFINE v == context_map[id].metrics[k]
  <2>1. v \in Metric /\ k \in Slots(id) /\ (v.i # 0 \/ v.r # 0)
    BY ElementOfSeq DEF ContextIInv, ContextShape, Slots
  <2>2. /\ Rest(k, v) = 0
        /\ Amount(k, v) # 0 <=> Key(id, k) \in DOMAIN total
        /\ Amount(k, v) # 0 => total[Key(id, k)] = Amount(k, v)
    BY <2>1 DEF ContextIInv, Totals
  <2>3. k - 1 + 1 = k
    BY <2>1 DEF Slots
  <2> HIDE DEF v
  <2>4. CASE metric_info_list[k] = "INT"
    <3>1. v.r = 0 /\ v.i # 0 /\ Amount(k, v) = v.i
      BY <2>1, <2>2, <2>4 DEF Rest, Amount
    <3>2. MetricXML(k - 1, v).attr["value1"] = v.i
      BY <2>1, <3>1, MetricElement
    <3> QED
      BY <2>2, <2>3, <2>4, <3>1, <3>2 DEF v
  <2>5. CASE metric_info_list[k] # "INT"
    <3>1. v.i = 0 /\ v.r # 0 /\ Amount(k, v) = v.r
      BY <2>1, <2>2, <2>5 DEF Rest, Amount
    <3>2. MetricXML(k - 1, v).attr["value2"] = v.r
      BY <2>1, <3>1, MetricElement
    <3> QED
      BY <2>2, <2>3, <2>5, <3>1, <3>2 DEF v
  <2> QED
    BY <2>4, <2>5
<1>5. ASSUME NEW e \in Dump, NEW idx \in DOMAIN Shown(e)
      PROVE  LET key == <<path[e.attr["id"]], idx>> IN
             key \in DOMAIN total /\ total[key] = Value(idx, Shown(e)[idx])
  <2>1. PICK id \in DOMAIN context_map : e = ContextXML(id)
    BY <1>2
  <2>2. PICK k \in Used(id) : idx = k - 1
    BY <1>1, <2>1
  <2>3. k \in Int /\ idx + 1 = k
    BY <2>2 DEF Slots
  <2>4. Shown(e)[idx] = MetricXML(idx, context_map[id].metrics[k]) /\ e.attr["id"] = id
    BY <1>1, <2>1, <2>3
  <2>5. Key(id, k) = <<path[e.attr["id"]], idx>>
    BY <2>2, <2>4 DEF Key
  <2>6. /\ Key(id, k) \in DOMAIN total
        /\ total[Key(id, k)] = Value(k - 1, MetricXML(k - 1, context_map[id].metrics[k]))
    BY <1>4
  <2> QED
    BY <2>2, <2>4, <2>5, <2>6
<1>6. ASSUME NEW key \in DOMAIN total
      PROVE  \E e \in Dump : path[e.attr["id"]] = key[1] /\ key[2] \in DOMAIN Shown(e)
  <2>1. PICK id \in DOMAIN context_map : \E k \in Slots(id) : key = Key(id, k)
    BY DEF ContextIInv, Totals
  <2>2. PICK k \in Slots(id) : key = Key(id, k)
    BY <2>1
  <2>3. Amount(k, context_map[id].metrics[k]) # 0
    BY <2>2 DEF ContextIInv, Totals
  <2>4. k \in Used(id)
    BY <2>3 DEF Amount
  <2>5. key[1] = path[id] /\ key[2] = k - 1
    BY <2>2 DEF Key
  <2>6. /\ ContextXML(id) \in Dump /\ ContextXML(id).attr["id"] = id
        /\ k - 1 \in DOMAIN Shown(ContextXML(id))
    BY <1>1, <2>4
  <2> QED
    BY <2>5, <2>6
<1> QED
  BY <1>3, <1>5, <1>6 DEF DumpTellsTotals, Shown

(* The XML of the context tree tells for every path and metric exactly what *)
(* the samples of that path added, whatever tree and metrics there are.     *)
THEOREM DumpTellsTotalsAlways == ContextSpec => []DumpTellsTotals
  BY DumpIsRight, ContextInductive, PTL

-----------------------------------------------------------------------------
(***************************************************************************)
(* The black list, for any number of threads and any contents of the file: *)
(* a thread that is past PopulateBlackListAddresses samples no address of  *)
(* a blacklisted module.                                                   *)
(***************************************************************************)

TableEntry == [start : Nat, end : Nat]
PCs == {"new", "locked", "scan", "done", "failed"}

BlackShape ==
    /\ maps \in Seq(Mapping)
    /\ blackListAddresses \in Seq(TableEntry)
    /\ Len(blackListAddresses) <= MAX_BLACK_LIST_ADDRESS
    /\ pc \in [Threads -> PCs]
    /\ line \in [Threads -> Nat \ {0}]
    /\ DOMAIN tmpname = Threads
    /\ \A t \in Threads : pc[t] \in {"new", "locked"} => line[t] = 1

(* The lock is held by the thread that is inside.                           *)
MutualExclusion == \A t \in Threads : pc[t] \in {"locked", "scan"} => lock = t

(* The table has the range from lo to hi.                                   *)
Has(lo, hi) ==
    \E k \in 1..Len(blackListAddresses) :
        blackListAddresses[k].start = lo /\ blackListAddresses[k].end = hi

(* It has the modules on the first n lines of the file.                     *)
HasLines(n) ==
    \A i \in 1..Len(maps) : i <= n /\ maps[i].name = "module" => Has(maps[i].lo, maps[i].hi)

Complete == HasLines(Len(maps)) /\ Has(0, PageSize)

(* Unless the scan has crashed, a table that is not empty is complete or    *)
(* being filled; a thread that fills it has entered the modules of the      *)
(* lines it has read.                                                       *)
Filling ==
    ~crashed =>
        /\ \A t \in Threads : pc[t] = "done" => Complete
        /\ blackListAddresses # <<>> => Complete \/ \E t \in Threads : pc[t] = "scan"
        /\ \A t \in Threads : pc[t] = "scan" => HasLines(line[t] - 1)

BlackIInv == BlackShape /\ MutualExclusion /\ Filling

-----------------------------------------------------------------------------
LEMMA BlackInitHolds ==
  ASSUME BlackInit
  PROVE  BlackIInv
<1>1. BlackShape
  <2>1. <<>> \in Seq(TableEntry)
    BY EmptySeq
  <2> QED
    BY <2>1, BlackListAssumption DEF BlackInit, BlackShape, PCs, Paths
<1> QED
  BY <1>1 DEF BlackInit, BlackIInv, MutualExclusion, Filling

(* Steps that leave the table alone keep what it has.                       *)
LEMMA SameTable ==
  ASSUME UNCHANGED <<maps, blackListAddresses>>
  PROVE  /\ Complete' = Complete
         /\ \A n : HasLines(n)' = HasLines(n)
  BY DEF Complete, HasLines, Has

(* A longer table has what it had.                                          *)
LEMMA LongerTable ==
  ASSUME BlackShape, maps' = maps, NEW s \in Seq(TableEntry),
         blackListAddresses' = blackListAddresses \o s
  PROVE  /\ blackListAddresses' \in Seq(TableEntry)
         /\ \A lo, hi : Has(lo, hi) => Has(lo, hi)'
         /\ Complete => Complete'
         /\ \A n : HasLines(n) => HasLines(n)'
         /\ \A lo, hi : \A k \in 1..Len(s) :
              s[k].start = lo /\ s[k].end = hi => Has(lo, hi)'
<1> DEFINE b == blackListAddresses
<1>1. b \in Seq(TableEntry) /\ Len(b) \in Nat /\ Len(s) \in Nat
  BY LenProperties DEF BlackShape
<1>2. /\ b' \in Seq(TableEntry) /\ Len(b') = Len(b) + Len(s)
      /\ \A i \in 1..(Len(b) + Len(s)) : b'[i] = IF i <= Len(b) THEN b[i] ELSE s[i - Len(b)]
  BY <1>1, ConcatProperties, Zenon
<1>3. \A i \in 1..Len(b) : i \in 1..Len(b') /\ b'[i] = b[i]
  BY <1>1, <1>2
<1>4. \A lo, hi : Has(lo, hi) => Has(lo, hi)'
  BY <1>3 DEF Has
<1>5. \A k \in 1..Len(s) : Len(b) + k \in 1..Len(b') /\ b'[Len(b) + k] = s[k]
  BY <1>1, <1>2
<1>6. ASSUME NEW lo, NEW hi, NEW k \in 1..Len(s), s[k].start = lo, s[k].end = hi
      PROVE  Has(lo, hi)'
  BY <1>5, <1>6 DEF Has
<1>7. \A n : HasLines(n) => HasLines(n)'
  BY <1>4 DEF HasLines
<1>8. Complete => Complete'
  <2> SUFFICES ASSUME Complete PROVE Complete'
    OBVIOUS
  <2>1. \A i \in 1..Len(maps) : i <= Len(maps) /\ maps[i].name = "module" => Has(maps[i].lo, maps[i].hi)'
    BY <1>4 DEF Complete, HasLines
  <2>2. \A lo, hi : lo = 0 /\ hi = PageSize => Has(lo, hi)'
    BY <1>4 DEF Complete
  <2> QED
    BY <2>1, <2>2 DEF Complete, HasLines, Has
<1> QED
  BY <1>2, <1>4, <1>6, <1>7, <1>8

(* The lock is taken: no other thread is inside.                            *)
LEMMA EnterStep ==
  ASSUME BlackIInv, NEW t \in Threads, Enter(t)
  PROVE  BlackIInv'
<1>1. /\ pc[t] = "new" /\ lock = NoOwner /\ lock' = t /\ pc' = [pc EXCEPT ![t] = "locked"]
      /\ ~crashed /\ UNCHANGED <<maps, blackListAddresses, line, tmpname, crashed>>
  BY DEF Enter, Goto
<1>2. /\ pc' \in [Threads -> PCs] /\ pc'[t] = "locked"
      /\ \A u \in Threads : u # t => pc'[u] = pc[u]
  BY <1>1 DEF BlackIInv, BlackShape, PCs
<1>3. BlackShape'
  BY <1>1, <1>2 DEF BlackIInv, BlackShape
<1>4. \A u \in Threads : pc[u] \notin {"locked", "scan"}
  BY <1>1, BlackListAssumption DEF BlackIInv, MutualExclusion
<1>5. Filling'
  BY <1>1, <1>2, SameTable DEF BlackIInv, Filling
<1> QED
  BY <1>1, <1>2, <1>3, <1>4, <1>5 DEF BlackIInv, MutualExclusion

(* A thread that holds the lock sees a table that is empty or complete.     *)
LEMMA TestAndOpenStep ==
  ASSUME BlackIInv, NEW t \in Threads, TestAndOpen(t)
  PROVE  BlackIInv'
<1>1. /\ pc[t] = "locked" /\ lock = t
      /\ ~crashed /\ UNCHANGED <<maps, blackListAddresses, line, tmpname, crashed>>
  BY DEF TestAndOpen, BlackIInv, MutualExclusion
<1>2. \A u \in Threads : u # t => pc[u] \notin {"locked", "scan"}
  BY <1>1 DEF BlackIInv, MutualExclusion
<1>3. blackListAddresses \in Seq(TableEntry) /\ Len(<<>>) = 0
  BY DEF BlackIInv, BlackShape
<1>4. blackListAddresses = <<>> <=> Len(blackListAddresses) = 0
  BY <1>3, EmptySeq
<1>5. \E p \in {"done", "failed", "scan"} :
        /\ pc' = [pc EXCEPT ![t] = p]
        /\ p = "done" => blackListAddresses # <<>>
        /\ p = "scan" => lock' = t
        /\ p # "done" => blackListAddresses = <<>>
  BY <1>1, <1>4 DEF TestAndOpen, Leave, Goto
<1>6. PICK p \in {"done", "failed", "scan"} :
        /\ pc' = [pc EXCEPT ![t] = p]
        /\ p = "done" => blackListAddresses # <<>>
        /\ p = "scan" => lock' = t
        /\ p # "done" => blackListAddresses = <<>>
  BY <1>5
<1>7. /\ pc' \in [Threads -> PCs] /\ pc'[t] = p
      /\ \A u \in Threads : u # t => pc'[u] = pc[u]
  BY <1>6 DEF BlackIInv, BlackShape, PCs
<1>8. BlackShape'
  BY <1>1, <1>7 DEF BlackIInv, BlackShape
<1>9. MutualExclusion'
  BY <1>2, <1>6, <1>7 DEF MutualExclusion
<1>10. blackListAddresses # <<>> => Complete
  BY <1>1, <1>2 DEF BlackIInv, Filling
<1>11. line[t] = 1
  BY <1>1 DEF BlackIInv, BlackShape
<1>12. ASSUME p = "scan" PROVE HasLines(line[t] - 1)
  BY <1>11 DEF HasLines
<1>13. \A u \in Threads : pc'[u] = "scan" => HasLines(line[u] - 1)
  BY <1>1, <1>7, <1>12 DEF BlackIInv, Filling
<1>14. \A u \in Threads : pc'[u] = "done" => Complete
  BY <1>1, <1>6, <1>7, <1>10 DEF BlackIInv, Filling
<1>15. Filling'
  <2>1. \A u \in Threads : HasLines(line[u] - 1)' = HasLines(line[u] - 1)
    BY <1>1 DEF HasLines, Has
  <2> QED
    BY <1>1, <1>10, <1>13, <1>14, <2>1, SameTable DEF Filling
<1> QED
  BY <1>8, <1>9, <1>15 DEF BlackIInv

(* An entry at the end of the table.                                        *)
LEMMA EntryAdded ==
  ASSUME BlackShape, maps' = maps, NEW l \in Nat, NEW h \in Nat, AddEntry(l, h)
  PROVE  /\ blackListAddresses' \in Seq(TableEntry)
         /\ Len(blackListAddresses') <= MAX_BLACK_LIST_ADDRESS
         /\ Complete => Complete'
         /\ \A lo, hi : Has(lo, hi) => Has(lo, hi)'
         /\ \A n : HasLines(n) => HasLines(n)'
         /\ \A lo, hi : lo = l /\ hi = h => Has(lo, hi)'
<1> DEFINE e == [start |-> l, end |-> h]
           s == <<e>>
<1>1. e \in TableEntry /\ e.start = l /\ e.end = h
  BY DEF TableEntry
<1> HIDE DEF e
<1>2. s \in Seq(TableEntry) /\ Len(s) = 1 /\ s[1] = e
  BY <1>1
<1>3. blackListAddresses' = Append(blackListAddresses, e)
  BY DEF AddEntry, e
<1>4. blackListAddresses' = blackListAddresses \o s
  BY <1>1, <1>3, AppendIsConcat DEF BlackShape
<1>5. Len(blackListAddresses') <= MAX_BLACK_LIST_ADDRESS
  <2>1. Len(blackListAddresses') = Len(blackListAddresses) + 1
    BY <1>1, <1>3, AppendProperties DEF BlackShape
  <2>2. Len(blackListAddresses) \in Nat /\ MAX_BLACK_LIST_ADDRESS \in Nat
    BY LenProperties, BlackListAssumption DEF BlackShape
  <2> QED
    BY <2>1, <2>2 DEF AddEntry, Full
<1> HIDE DEF s
<1>6. /\ blackListAddresses' \in Seq(TableEntry)
      /\ \A lo, hi : Has(lo, hi) => Has(lo, hi)'
      /\ Complete => Complete'
      /\ \A n : HasLines(n) => HasLines(n)'
      /\ \A lo, hi : \A k \in 1..Len(s) : s[k].start = lo /\ s[k].end = hi => Has(lo, hi)'
  BY <1>2, <1>4, LongerTable
<1>7. 1 \in 1..Len(s) /\ s[1].start = l /\ s[1].end = h
  BY <1>1, <1>2
<1>8. \A lo, hi : lo = l /\ hi = h => Has(lo, hi)'
  BY <1>6, <1>7, Zenon
<1> QED
  BY <1>5, <1>6, <1>8

(* One line of the file is read.                                            *)
LEMMA ScanLineStep ==
  ASSUME BlackIInv, NEW t \in Threads, ScanLine(t)
  PROVE  BlackIInv'
<1> DEFINE m == maps[line[t]]
<1>1. /\ pc[t] = "scan" /\ lock = t /\ line[t] <= Len(maps) /\ ~crashed
      /\ line' = [line EXCEPT ![t] = @ + 1]
      /\ UNCHANGED <<maps, lock, pc>>
      /\ DOMAIN tmpname' = Threads
  BY DEF ScanLine, BlackIInv, MutualExclusion, BlackShape
<1>2. \A u \in Threads : u # t => pc[u] # "scan"
  BY <1>1 DEF BlackIInv, MutualExclusion
<1>3. /\ line[t] \in 1..Len(maps) /\ m \in Mapping /\ Len(maps) \in Nat
  BY <1>1, LenProperties, ElementOfSeq DEF BlackIInv, BlackShape
<1>4. m.lo \in Nat /\ m.hi \in Nat
  BY <1>3 DEF Mapping
<1>5. /\ blackListAddresses' = blackListAddresses \/ AddEntry(m.lo, m.hi)
      /\ ~crashed' /\ m.name = "module" => AddEntry(m.lo, m.hi)
  <2>1. PICK buffer \in Realpath(m.name, tmpname[t]) :
          \/ buffer = "file" /\ NoEntry /\ UNCHANGED crashed
          \/ /\ buffer # "file" /\ AddEntry(m.lo, m.hi)
             /\ crashed' = (buffer = "doubled")
          \/ buffer # "file" /\ Full /\ NoEntry /\ crashed' = TRUE
    BY DEF ScanLine
  <2>2. m.name = "module" => buffer = "module"
    BY <2>1 DEF Realpath, Paths
  <2> QED
    BY <2>1, <2>2 DEF NoEntry
<1>6. /\ blackListAddresses' \in Seq(TableEntry)
      /\ Len(blackListAddresses') <= MAX_BLACK_LIST_ADDRESS
      /\ Complete => Complete'
      /\ \A lo, hi : Has(lo, hi) => Has(lo, hi)'
      /\ \A n : HasLines(n) => HasLines(n)'
  <2>1. CASE blackListAddresses' = blackListAddresses
    BY <1>1, <2>1 DEF BlackIInv, BlackShape, Complete, HasLines, Has
  <2>2. CASE AddEntry(m.lo, m.hi)
    BY <1>1, <1>4, <2>2, EntryAdded DEF BlackIInv
  <2> QED
    BY <1>5, <2>1, <2>2
<1>7. BlackShape'
  BY <1>1, <1>6 DEF BlackIInv, BlackShape
<1>8. MutualExclusion'
  BY <1>1 DEF BlackIInv, MutualExclusion
<1> SUFFICES ASSUME ~crashed' PROVE Filling'
  BY <1>7, <1>8 DEF BlackIInv, Filling
<1>9. ASSUME NEW lo, NEW hi, m.name = "module", lo = m.lo, hi = m.hi
      PROVE  Has(lo, hi)'
  BY <1>1, <1>4, <1>5, <1>9, EntryAdded DEF BlackIInv
<1>11. line'[t] - 1 = line[t]
  BY <1>1, <1>3 DEF BlackIInv, BlackShape
<1>12. HasLines(line[t] - 1)'
  <2>1. HasLines(line[t] - 1)
    BY <1>1 DEF BlackIInv, Filling
  <2>2. ASSUME NEW i \in 1..Len(maps), i <= line[t], maps[i].name = "module",
               NEW lo, NEW hi, lo = maps[i].lo, hi = maps[i].hi
        PROVE  Has(lo, hi)'
    <3>1. CASE i = line[t]
      BY <1>9, <2>2, <3>1
    <3>2. CASE i # line[t]
      <4>1. i <= line[t] - 1
        BY <1>3, <2>2, <3>2
      <4>2. Has(lo, hi)
        BY <2>1, <2>2, <4>1 DEF HasLines
      <4> QED
        BY <1>6, <4>2
    <3> QED
      BY <3>1, <3>2
  <2>3. \A i \in 1..Len(maps') : i <= line'[t] - 1 /\ maps'[i].name = "module" =>
          Has(maps[i].lo, maps[i].hi)'
    BY <1>1, <1>11, <2>2 DEF Has
  <2> QED
    BY <2>3 DEF HasLines
<1>13. \A u \in Threads : pc'[u] = "scan" => HasLines(line[u] - 1)'
  BY <1>1, <1>2, <1>12
<1> QED
  BY <1>1, <1>6, <1>13 DEF BlackIInv, Filling

(* The end of the file: the first page is entered, and the table complete,  *)
(* or the process crashes.                                                  *)
LEMMA ScanEndStep ==
  ASSUME BlackIInv, NEW t \in Threads, ScanEnd(t)
  PROVE  BlackIInv'
<1>1. /\ pc[t] = "scan" /\ lock = t /\ line[t] > Len(maps) /\ ~crashed
      /\ UNCHANGED <<maps, line, tmpname>>
  BY DEF ScanEnd, BlackIInv, MutualExclusion
<1>2. CASE crashed' /\ UNCHANGED <<blackListAddresses, lock, pc>>
  BY <1>1, <1>2 DEF BlackIInv, BlackShape, MutualExclusion, Filling
<1>3. CASE AddEntry(0, PageSize) /\ Leave(t, "done")
  <2>4. /\ blackListAddresses' \in Seq(TableEntry)
        /\ Len(blackListAddresses') <= MAX_BLACK_LIST_ADDRESS
        /\ \A n : HasLines(n) => HasLines(n)'
        /\ \A lo, hi : lo = 0 /\ hi = PageSize => Has(lo, hi)'
    BY <1>1, <1>3, BlackListAssumption, EntryAdded DEF BlackIInv
  <2>5. Len(maps) \in Nat /\ line[t] \in Nat /\ HasLines(line[t] - 1)
    BY <1>1, LenProperties DEF BlackIInv, BlackShape, Filling
  <2>6. \A i \in 1..Len(maps) : i <= line[t] - 1
    BY <1>1, <2>5
  <2>7. PICK n : n = line[t] - 1
    OBVIOUS
  <2>8. HasLines(n)'
    BY <2>4, <2>5, <2>7
  <2>9. Complete'
    <3>1. \A i \in 1..Len(maps') : maps'[i].name = "module" => Has(maps[i].lo, maps[i].hi)'
      BY <1>1, <2>6, <2>7, <2>8 DEF HasLines
    <3>2. Has(0, PageSize)'
      BY <2>4 DEF Has
    <3> QED
      BY <3>1, <3>2 DEF Complete, HasLines
  <2>10. /\ pc' \in [Threads -> PCs] /\ pc'[t] = "done"
         /\ \A u \in Threads : u # t => pc'[u] = pc[u]
    BY <1>3 DEF Leave, Goto, BlackIInv, BlackShape, PCs
  <2>11. \A u \in Threads : pc'[u] \notin {"locked", "scan"}
    BY <1>1, <2>10 DEF BlackIInv, MutualExclusion
  <2>12. BlackShape'
    BY <1>1, <2>4, <2>10 DEF BlackIInv, BlackShape
  <2> QED
    BY <2>9, <2>11, <2>12 DEF BlackIInv, MutualExclusion, Filling
<1> QED
  BY <1>2, <1>3 DEF ScanEnd, NoEntry

(* Every step preserves the invariant.                                      *)
LEMMA BlackNextStep ==
  ASSUME BlackIInv, [BlackNext]_blackVars
  PROVE  BlackIInv'
<1>1. CASE UNCHANGED blackVars
  BY <1>1 DEF blackVars, BlackIInv, BlackShape, MutualExclusion, Filling, Complete, HasLines, Has
<1> QED
  BY <1>1, EnterStep, TestAndOpenStep, ScanLineStep, ScanEndStep
     DEF BlackNext, PopulateBlackListAddresses

(* A complete table keeps every address of a module and of the first page   *)
(* out.                                                                     *)
LEMMA CompleteIsEnough ==
  ASSUME BlackIInv
  PROVE  ModulesNeverSampled
<1> SUFFICES ASSUME Complete, NEW a \in Addresses, NEW b \in Addresses,
                    \/ a < PageSize \/ a \in Masked
                    \/ \E i \in 1..Len(maps) :
                         maps[i].name = "module" /\ maps[i].lo <= a /\ a < maps[i].hi
             PROVE  ~IsValidAddress(a, b) /\ ~IsValidAddress(b, a)
  BY DEF BlackIInv, Filling, ModulesNeverSampled
<1>1. a \in Nat /\ PageSize \in Nat
  BY BlackListAssumption DEF Addresses
<1>2. CASE a < PageSize
  BY <1>1, <1>2 DEF Complete, Has, IsValidAddress, IsBlackListedAddress
<1>3. CASE a \in Masked
  BY <1>1, <1>3 DEF IsValidAddress
<1>4. ASSUME NEW i \in 1..Len(maps), maps[i].name = "module", maps[i].lo <= a, a < maps[i].hi
      PROVE  IsBlackListedAddress(a)
  <2>1. Len(maps) \in Nat
    BY LenProperties DEF BlackIInv, BlackShape
  <2>2. Has(maps[i].lo, maps[i].hi)
    BY <1>4, <2>1 DEF Complete, HasLines
  <2> QED
    BY <1>4, <2>2 DEF Has, IsBlackListedAddress
<1> QED
  BY <1>2, <1>3, <1>4 DEF IsValidAddress

-----------------------------------------------------------------------------
(* The invariant, for all threads and files.                                *)
THEOREM BlackInductive == BlackSpec => []BlackIInv
<1>1. BlackInit => BlackIInv
  BY BlackInitHolds
<1>2. BlackIInv /\ [BlackNext]_blackVars => BlackIInv'
  BY BlackNextStep
<1> QED
  BY <1>1, <1>2, PTL DEF BlackSpec

(* A thread past PopulateBlackListAddresses, which reads the table without  *)
(* the lock, accepts no address of a blacklisted module or of the first     *)
(* page, whatever the file holds and the table has room for.                *)
THEOREM ModulesNeverSampledAlways == BlackSpec => []ModulesNeverSampled
<1>1. BlackIInv => ModulesNeverSampled
  BY CompleteIsEnough
<1> QED
  BY <1>1, BlackInductive, PTL
=============================================================================
