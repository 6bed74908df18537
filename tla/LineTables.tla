----------------------------- MODULE LineTables -------------------------------
(***************************************************************************)
(* From a bytecode index or a code address to a source line: the tables of *)
(* Method and CompiledMethod (code_cache.cpp) and their XML dump, and the  *)
(* search that the MethodEntry and ObjectAlloc callbacks do themselves     *)
(* (agent.cpp).                                                            *)
(*                                                                         *)
(* The inputs come from the VM: the line number table of a method, in the  *)
(* order of its start locations, several of which may be equal; the last   *)
(* bytecode index of the method; and for a compiled method the map from    *)
(* code addresses to bytecode indices, whose first entry lies behind the   *)
(* start of the code.                                                      *)
(***************************************************************************)
EXTENDS Ranges, Sequences, FiniteSets, SequencesExt, FiniteSetsExt

CONSTANTS
  MaxBci,     \* bound: the last bytecode index of a method
  MaxEntries, \* bound: entries of the line number table
  MaxMap,     \* bound: entries of the address location map
  CodeSize    \* _code_size, positive

ASSUME LineAssumption ==
  MaxBci \in Nat /\ MaxEntries \in Nat /\ MaxMap \in Nat /\ CodeSize \in Nat

VARIABLES
  line_table,    \* what GetLineNumberTable returns
  end_location,  \* what GetMethodLocation returns
  map,           \* the jvmtiAddrLocationMap of CompiledMethodLoad
  native,        \* _isNative
  bci2line,      \* _bci2line_rangeset
  addr2line,     \* _addr2line_rangeset
  stage,         \* "new", "bci_loop", "method", "addr_loop", "compiled"
  entry          \* the entry that the loop comes to next

lineVars == <<line_table, end_location, map, native, bci2line, addr2line, stage, entry>>

-----------------------------------------------------------------------------
(* Addresses count from _start_addr.                                        *)
StartAddr == 0

(* Lines are told apart by their place in the table.                        *)
Increasing(s) == \A i, j \in DOMAIN s : i <= j => s[i] <= s[j]
StrictlyIncreasing(s) == \A i, j \in DOMAIN s : i < j => s[i] < s[j]

LineTable ==
  {[i \in DOMAIN s |-> [start |-> s[i], line |-> i]] :
     s \in {q \in BoundedSeq(0..MaxBci, MaxEntries) : Increasing(q)}}

AddrMaps ==
  {[i \in DOMAIN a |-> [start |-> a[i], location |-> b[i]]] :
     a \in {q \in BoundedSeq(1..CodeSize, MaxMap) : StrictlyIncreasing(q)},
     b \in [1..MaxMap -> 0..MaxBci]}

LineInit ==
  /\ line_table \in LineTable /\ end_location \in 0..MaxBci
  /\ \A i \in DOMAIN line_table : line_table[i].start <= end_location
  /\ map \in AddrMaps
  /\ native \in BOOLEAN
  /\ bci2line = EmptyRanges /\ addr2line = EmptyRanges /\ stage = "new" /\ entry = 1

-----------------------------------------------------------------------------
(* Entry i of the line table ends where the next one starts.                *)
BciEnd(i) == IF i < Len(line_table) THEN line_table[i + 1].start - 1 ELSE end_location

(* Method::Method and loadBCILineTable. Either JVMTI call may fail, and     *)
(* then the table stays empty, as it does for a native method.              *)
LoadBCILineTable ==
  /\ stage = "new"
  /\ stage' \in {"method"} \cup (IF native THEN {} ELSE {"bci_loop"})
  /\ UNCHANGED <<line_table, end_location, map, native, bci2line, addr2line, entry>>

(* One round of its loop: an entry whose range would be empty is skipped.   *)
BciRound ==
  /\ stage = "bci_loop" /\ entry <= Len(line_table)
  /\ bci2line' =
       IF BciEnd(entry) < line_table[entry].start THEN bci2line
       ELSE Insert(bci2line, line_table[entry].start, BciEnd(entry), line_table[entry].line)
  /\ entry' = entry + 1
  /\ UNCHANGED <<line_table, end_location, map, native, addr2line, stage>>

BciDone ==
  /\ stage = "bci_loop" /\ entry > Len(line_table)
  /\ stage' = "method"
  /\ UNCHANGED <<line_table, end_location, map, native, bci2line, addr2line, entry>>

(* Variant for validation: a piece gets the location of the entry it starts *)
(* with.                                                                    *)
PieceOfOwnEntry(i) ==
  [start |-> IF i = 1 THEN StartAddr ELSE map[i - 1].start,
   end |-> map[i].start - 1,
   location |-> IF i = 1 THEN map[1].location ELSE map[i - 1].location]

(* The pieces of loadAddrLocationMap: the code in front of the first entry  *)
(* with that entry's location, then the code from each entry to the next    *)
(* with the location of the next. What follows the last entry is dropped.   *)
Piece(i) ==
  [start |-> IF i = 1 THEN StartAddr ELSE map[i - 1].start,
   end |-> map[i].start - 1,
   location |-> map[i].location]

(* loadAddrLocationMap and its early returns.                               *)
LoadAddrLocationMap ==
  /\ stage = "method"
  /\ stage' = IF native \/ map = <<>> \/ bci2line = EmptyRanges THEN "compiled" ELSE "addr_loop"
  /\ entry' = 1
  /\ UNCHANGED <<line_table, end_location, map, native, bci2line, addr2line>>

(* One piece. At the first location without a line the function returns.    *)
AddrRound ==
  /\ stage = "addr_loop" /\ entry <= Len(map)
  /\ HasData(bci2line, Piece(entry).location)
  /\ addr2line' = Insert(addr2line, Piece(entry).start, Piece(entry).end,
                         GetData(bci2line, Piece(entry).location))
  /\ entry' = entry + 1
  /\ UNCHANGED <<line_table, end_location, map, native, bci2line, stage>>

AddrDone ==
  /\ stage = "addr_loop"
  /\ entry <= Len(map) => ~HasData(bci2line, Piece(entry).location)
  /\ stage' = "compiled"
  /\ UNCHANGED <<line_table, end_location, map, native, bci2line, addr2line, entry>>

LineNext ==
  \/ LoadBCILineTable \/ BciRound \/ BciDone
  \/ LoadAddrLocationMap \/ AddrRound \/ AddrDone

LineSpec == LineInit /\ [][LineNext]_lineVars

-----------------------------------------------------------------------------
(* Lookups.                                                                 *)

(* CompiledMethod::addr2line, 0 if the address is unknown.                  *)
Addr2Line(a) == IF HasData(addr2line, a) THEN GetData(addr2line, a) ELSE 0

(* CompiledMethod::startLine.                                               *)
StartLine == IF addr2line = EmptyRanges THEN -1 ELSE Addr2Line(StartAddr)

(* The keys of a std::map in the order of its iterators.                    *)
Ascending(S) ==
  CHOOSE q \in [1..Cardinality(S) -> S] : StrictlyIncreasing(q)

(* Variant for validation: the child index i is not advanced.               *)
RangeChildrenOverwritten(rs) ==
  LET starts == Ascending(DOMAIN rs)
      last == starts[Len(starts)]
  IN  <<[start |-> last, end |-> rs[last].end, data |-> rs[last].data]>>

(* createXMLObj of CompiledMethod and InterpretMethod: one "toline" child   *)
(* per table that is not empty, with one "range" child per range, in the    *)
(* order of the starts.                                                     *)
RangeChildren(rs) ==
  LET starts == Ascending(DOMAIN rs)
  IN  [i \in DOMAIN starts |-> [start |-> starts[i], end |-> rs[starts[i]].end,
                                data |-> rs[starts[i]].data]]

ToLine(type, rs) ==
  IF rs = EmptyRanges THEN <<>> ELSE <<[type |-> type, ranges |-> RangeChildren(rs)]>>

CompiledMethodXML ==
  [start_line |-> StartLine,
   children |-> ToLine("addr2line", addr2line) \o ToLine("bci2line", bci2line)]

InterpretMethodXML == [start_line |-> -1, children |-> ToLine("bci2line", bci2line)]

(* Variant for validation: the search stops one entry early.                *)
SearchLineOneEarly(location) ==
  LET later == {j \in 2..Len(line_table) : location <= line_table[j].start}
  IN  line_table[IF later = {} THEN Len(line_table) ELSE Min(later) - 1].line

(* ObjectAllocCallback, and MethodEntry in the same words: from the second  *)
(* entry on, the loop stops at the first one that starts behind the         *)
(* location.                                                                *)
SearchLine(location) ==
  LET later == {j \in 2..Len(line_table) : location < line_table[j].start}
  IN  line_table[IF later = {} THEN Len(line_table) ELSE Min(later) - 1].line

-----------------------------------------------------------------------------
(* Properties.                                                              *)

(* The callbacks, which search the table as it comes, and the range table   *)
(* name the same line for every location of the method from its first entry *)
(* on.                                                                      *)
LookupsAgree ==
  stage \notin {"new", "bci_loop"} /\ bci2line # EmptyRanges =>
    \A location \in line_table[1].start .. end_location :
      /\ HasData(bci2line, location)
      /\ GetData(bci2line, location) = SearchLine(location)

(* Every code address in front of the last entry of the map has a line, the *)
(* line of the next entry ("off-by-1 line NO."), if all the locations are   *)
(* known; the others answer 0.                                              *)
AddressesHaveLines ==
  stage = "compiled" /\ addr2line # EmptyRanges
  /\ (\A i \in DOMAIN map : HasData(bci2line, map[i].location)) =>
    \A a \in StartAddr .. (StartAddr + CodeSize - 1) :
      LET after == {i \in DOMAIN map : a < map[i].start}
      IN  Addr2Line(a) = IF after = {} THEN 0
                         ELSE GetData(bci2line, map[Min(after)].location)

(* The line that the dumped ranges give for key k.                          *)
DumpedLine(children, type, k) ==
  {r.data : r \in {q \in UNION {ToSet(c.ranges) : c \in {d \in ToSet(children) : d.type = type}} :
                     q.start <= k /\ k <= q.end}}

(* The dump of a compiled method says of every address, of the start of the *)
(* code and of every location what the lookups say.                         *)
DumpSaysTheSame ==
  stage = "compiled" =>
    /\ \A a \in StartAddr .. (StartAddr + CodeSize - 1) :
         DumpedLine(CompiledMethodXML.children, "addr2line", a)
           = {Addr2Line(a)} \ {0}
    /\ \A b \in 0..MaxBci :
         \A xml \in {CompiledMethodXML.children, InterpretMethodXML.children} :
           DumpedLine(xml, "bci2line", b)
             = IF HasData(bci2line, b) THEN {GetData(bci2line, b)} ELSE {}
    /\ CompiledMethodXML.start_line
         = IF addr2line = EmptyRanges THEN InterpretMethodXML.start_line ELSE Addr2Line(StartAddr)
=============================================================================
