------------------------------- MODULE MCTables -------------------------------
(***************************************************************************)
(* The tables of the agent that do not call one another, in one run: the   *)
(* range set, the line tables, the splay tree, the context tree and the    *)
(* black list.  A behaviour is one of a single table, its subject; the     *)
(* others stay in an initial state of theirs, so the reachable states are  *)
(* those of the five specifications put side by side.                      *)
(***************************************************************************)
EXTENDS RangeSet, LineTables, ContextTree, BlackList

CONSTANT Addr                                \* of SplayTree

VARIABLES subject, root, asked, answer

Splay == INSTANCE SplayTree

splayVars == <<root, asked, answer>>
allVars == <<subject, rangeVars, splayVars, contextVars, lineVars, blackVars>>

-----------------------------------------------------------------------------
(* What LineTables and BlackList start with when they are not the subject.  *)
NoLineTable == line_table = <<>> /\ end_location = 0 /\ map = <<>> /\ native = FALSE

EmptyMaps ==
  /\ maps = CHOOSE m \in Maps : TRUE
  /\ tmpname = [t \in Threads |-> "file"]

MCInit ==
  /\ subject \in {"ranges", "splay", "contexts", "lines", "black list"}
  /\ subject = "lines" \/ (subject # "lines" /\ NoLineTable)
  /\ subject = "black list" \/ (subject # "black list" /\ EmptyMaps)
  /\ RangeInit /\ Splay!Init /\ ContextInit /\ LineInit /\ BlackInit

OnlyRanges ==
  UNCHANGED <<subject, splayVars, contextVars, lineVars, blackVars>>
OnlySplay ==
  UNCHANGED <<subject, rangeVars, contextVars, lineVars, blackVars>>
OnlyContexts ==
  UNCHANGED <<subject, rangeVars, splayVars, lineVars, blackVars>>
OnlyLines ==
  UNCHANGED <<subject, rangeVars, splayVars, contextVars, blackVars>>
OnlyBlack ==
  UNCHANGED <<subject, rangeVars, splayVars, contextVars, lineVars>>

Populate(t) ==
  subject = "black list" /\ PopulateBlackListAddresses(t) /\ OnlyBlack

MCNext ==
  \/ subject = "ranges" /\ RangeNext /\ OnlyRanges
  \/ subject = "splay" /\ Splay!Next /\ OnlySplay
  \/ subject = "contexts" /\ ContextNext /\ OnlyContexts
  \/ subject = "lines" /\ LineNext /\ OnlyLines
  \/ \E t \in Threads : Populate(t)

MCSpec ==
  /\ MCInit
  /\ [][MCNext]_allVars
  /\ \A t \in Threads : WF_allVars(Populate(t))

-----------------------------------------------------------------------------
(* SplayTree: interval_tree_insert, _delete and _lookup answer as the       *)
(* interval set does.                                                       *)
ImplementsIntervalSet == Splay!ImplementsIntervalSet

(* BlackList: every thread that calls PopulateBlackListAddresses gets past  *)
(* the table, unless the scan crashes.                                      *)
ThreadsGetPast == subject = "black list" => EveryThreadGetsPast

-----------------------------------------------------------------------------
(* The instances.                                                           *)

MCKeys == 0..4

(* Six addresses: up to five adjacent intervals, so that both rotations,    *)
(* both links and all three pieces of a delete occur, several times in one  *)
(* splay.                                                                   *)
MCAddr == 0..5

(* Frames that differ in the line only and in the version only.             *)
MCCalls == {<<1, 1, 0>>, <<1, 2, 0>>, <<1, 1, 1>>}

(* Three adjacent mappings of one address each, above the first page, of    *)
(* every kind: one more than the table has room for.                        *)
MCMaps ==
  {[i \in 1..3 |-> [name |-> n[i], lo |-> i, hi |-> i + 1]] : n \in [1..3 -> Names]}
=============================================================================
