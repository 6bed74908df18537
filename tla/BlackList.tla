----------------------------- MODULE BlackList -----------------------------
(***************************************************************************)
(* The table of addresses that are not profiled (profiler_support.cpp):    *)
(* filled once from /proc/self/maps by the first thread that starts, under *)
(* a lock, and read by the sample handlers of all threads without it.      *)
(*                                                                         *)
(* A mapping has an address range and a name.  "module" stands for the     *)
(* paths that contain one blacklisted name, "doubled" for those that       *)
(* contain two or more, "file" for other paths, "anon" for mappings        *)
(* without a name, "perf" for the buffers of counters, whose name          *)
(* anon_inode:[perf_event] is blacklisted but is no file, and "pseudo" for *)
(* other names that are no files, such as [stack].  realpath resolves the  *)
(* first three; for the others the buffer it writes to keeps the path of   *)
(* an earlier line, or, when there is a name and depending on the C        *)
(* library, gets the unresolved name.                                      *)
(***************************************************************************)
EXTENDS Integers, Sequences

CONSTANTS
    Threads,
    NoOwner,       \* no thread
    Maps,          \* the contents /proc/self/maps may have: sequences of mappings
    MAX_BLACK_LIST_ADDRESS,
    PageSize,      \* addresses below it are the first page
    Masked,        \* the addresses that have one of the bits 52 to 55 set
    MaxAddr

Paths == {"module", "doubled", "file"}
Names == Paths \cup {"anon", "perf", "pseudo"}
Mapping == [name : Names, lo : Nat, hi : Nat]
Addresses == 0..MaxAddr

\* What the file and the addresses are.
ASSUME BlackListAssumption ==
    /\ NoOwner \notin Threads
    /\ Maps \subseteq Seq(Mapping) /\ MAX_BLACK_LIST_ADDRESS \in Nat
    /\ PageSize \in Nat /\ MaxAddr \in Nat

VARIABLES
    maps,                \* /proc/self/maps
    blackListAddresses,  \* the table; numBlackListAddresses is its length
    lock,
    pc,                  \* per thread: where PopulateBlackListAddresses stands
    line,                \* per thread, the line it reads next
    tmpname,             \* per thread, what the buffer of realpath holds
    crashed              \* null was dereferenced or an entry was written behind the table

blackVars == <<maps, blackListAddresses, lock, pc, line, tmpname, crashed>>

BlackInit ==
    /\ maps \in Maps
    /\ blackListAddresses = <<>>
    /\ lock = NoOwner
    /\ pc = [t \in Threads |-> "new"]
    /\ line = [t \in Threads |-> 1]
    /\ tmpname \in [Threads -> Paths]       \* not initialised
    /\ crashed = FALSE

Goto(t, p) == pc' = [pc EXCEPT ![t] = p]

-----------------------------------------------------------------------------
(* Variant for validation: the table is tested without the lock. *)
EnterUnlocked(t) ==
    /\ pc[t] = "new" /\ ~crashed
    /\ IF Len(blackListAddresses) # 0 THEN Goto(t, "done") /\ UNCHANGED lock
       ELSE lock = NoOwner /\ lock' = t /\ Goto(t, "locked")
    /\ UNCHANGED <<maps, blackListAddresses, line, tmpname, crashed>>

\* LockScope of the static lock.
Enter(t) ==
    /\ pc[t] = "new" /\ lock = NoOwner /\ ~crashed
    /\ lock' = t
    /\ Goto(t, "locked")
    /\ UNCHANGED <<maps, blackListAddresses, line, tmpname, crashed>>

(* Variant for validation: the lock is kept. *)
LeaveKeepsLock(t, p) == UNCHANGED lock /\ Goto(t, p)

\* The end of the LockScope.
Leave(t, p) == lock' = NoOwner /\ Goto(t, p)

\* The table is filled only when it is empty, and only if the file can be opened.
TestAndOpen(t) ==
    /\ pc[t] = "locked" /\ ~crashed
    /\ \/ Len(blackListAddresses) # 0 /\ Leave(t, "done")
       \/ Len(blackListAddresses) = 0 /\ Leave(t, "failed")
       \/ Len(blackListAddresses) = 0 /\ Goto(t, "scan") /\ UNCHANGED lock
    /\ UNCHANGED <<maps, blackListAddresses, line, tmpname, crashed>>

\* What realpath leaves in the buffer for a name.
Realpath(name, old) ==
    CASE name \in Paths -> {name}
      [] name = "anon" -> {old}
      [] name = "perf" -> {old, "module"}
      [] name = "pseudo" -> {old, "file"}

\* Nothing tests that there is room for an entry; what a write behind the table does is
\* not defined.
Full == Len(blackListAddresses) >= MAX_BLACK_LIST_ADDRESS

AddEntry(lo, hi) ==
    ~Full /\ blackListAddresses' = Append(blackListAddresses, [start |-> lo, end |-> hi])

NoEntry == UNCHANGED blackListAddresses

\* One line: an entry for the first blacklisted name in the buffer.  For a second one the
\* address is taken apart again; its dash is gone, and strtol is given null.
ScanLine(t) ==
    /\ pc[t] = "scan" /\ line[t] <= Len(maps) /\ ~crashed
    /\ \E path \in Realpath(maps[line[t]].name, tmpname[t]) :
          /\ tmpname' = [tmpname EXCEPT ![t] = path]
          /\ \/ path = "file" /\ NoEntry /\ UNCHANGED crashed
             \/ /\ path # "file" /\ AddEntry(maps[line[t]].lo, maps[line[t]].hi)
                /\ crashed' = (path = "doubled")
             \/ path # "file" /\ Full /\ NoEntry /\ crashed' = TRUE
    /\ line' = [line EXCEPT ![t] = @ + 1]
    /\ UNCHANGED <<maps, lock, pc>>

\* getline gives an empty line at the end of the file: it has no name and no address,
\* and the entry a stale module path asks for dereferences the missing address.
ScanEnd(t) ==
    /\ pc[t] = "scan" /\ line[t] > Len(maps) /\ ~crashed
    /\ IF tmpname[t] # "file" \/ Full
       THEN crashed' = TRUE /\ NoEntry /\ UNCHANGED <<lock, pc>>
       ELSE AddEntry(0, PageSize) /\ Leave(t, "done") /\ UNCHANGED crashed
    /\ UNCHANGED <<maps, line, tmpname>>

\* PopulateBlackListAddresses of a thread.
PopulateBlackListAddresses(t) == Enter(t) \/ TestAndOpen(t) \/ ScanLine(t) \/ ScanEnd(t)

BlackNext == \E t \in Threads : PopulateBlackListAddresses(t)

BlackSpec ==
    /\ BlackInit
    /\ [][BlackNext]_blackVars
    /\ \A t \in Threads : WF_blackVars(PopulateBlackListAddresses(t))

-----------------------------------------------------------------------------
IsBlackListedAddress(addr) ==
    \E i \in 1..Len(blackListAddresses) :
        blackListAddresses[i].start <= addr /\ addr < blackListAddresses[i].end

\* The tests of IsValidAddress that depend on the table or on the address alone; its two
\* tests for addresses near the thread data and near the top of the stack only reject more.
IsValidAddress(ip, addr) ==
    /\ addr # 0 /\ ip # 0
    /\ ~IsBlackListedAddress(ip) /\ ~IsBlackListedAddress(addr)
    /\ addr \notin Masked /\ ip \notin Masked

-----------------------------------------------------------------------------
(* A thread that has been through PopulateBlackListAddresses with the file *)
(* readable, and whose samples start right after, accepts no address of a  *)
(* blacklisted module or of the first page, though it reads the table      *)
(* without the lock: it never sees a table another thread is still         *)
(* filling.  The buffers of counters are not among these modules: they are *)
(* mapped after the table is filled, or their name is not resolved.        *)
ModulesNeverSampled ==
    ~crashed /\ (\E t \in Threads : pc[t] = "done") =>
        \A a \in Addresses :
            \/ a < PageSize \/ a \in Masked
            \/ \E i \in 1..Len(maps) : maps[i].name = "module" /\ maps[i].lo <= a /\ a < maps[i].hi
            => \A b \in Addresses : ~IsValidAddress(a, b) /\ ~IsValidAddress(b, a)

(* Every thread that starts gets past the table, unless the scan crashes.  *)
EveryThreadGetsPast ==
    \A t \in Threads : <>(crashed \/ pc[t] \in {"done", "failed"})

=============================================================================
