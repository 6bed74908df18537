------------------------------ MODULE CodeCache -------------------------------
(***************************************************************************)
(* CodeCacheManager (code_cache.cpp): the compiled versions of every       *)
(* method, by method and by code address, under one spin lock.             *)
(*                                                                         *)
(* addMethod gives up the lock while it constructs the CompiledMethod,     *)
(* because the constructor calls JVMTI functions that may have to wait for *)
(* a safe point, which a signal handler spinning on the lock does not      *)
(* reach; it takes the lock again to publish the object. Everything else   *)
(* is one critical section.                                                *)
(*                                                                         *)
(* A CompiledMethod is the pair of its method and its version. The VM that *)
(* compiles and unloads code is external: it compiles to free addresses    *)
(* and reports an unloading before it uses the addresses again. The        *)
(* callbacks that would make these calls are not registered at present.    *)
(***************************************************************************)
EXTENDS Ranges

CONSTANTS
  Threads,
  Methods,
  Regions,    \* records [start, end]: where code can be put
  NoOwner,    \* the spin lock is free
  MaxVersion, \* bound: versions of one method
  CompiledBefore  \* code that was compiled before the agent was attached

ASSUME NoOwnerAssumption == NoOwner \notin Threads
ASSUME RegionsAssumption ==
  \A r \in Regions : r.start \in Nat /\ r.end \in Nat /\ r.start <= r.end

VARIABLES
  groups,      \* the methods _method_id_map has a CompiledMethodGroup for
  recent,      \* per group, _recent_version
  address_map, \* per group, _address_method_map: start address to version
  ranges,      \* _method_range_set: address range to CompiledMethod
  heap,        \* the CompiledMethod objects that exist
  uncompiled,  \* _uncompiled_method_cache
  lock,        \* the owner of _lock
  pc,          \* per thread, the next step of its call
  call,        \* per thread, the call: operation and arguments
  version,     \* per thread, the version addMethod took
  aborted,     \* an assertion has failed
  code         \* the VM's compiled code and how far its events have got

tableVars == <<groups, recent, address_map, ranges, heap, uncompiled>>
threadVars == <<pc, call, version>>
vars == <<tableVars, threadVars, lock, aborted, code>>

-----------------------------------------------------------------------------
NoMethod == <<"null", 0>>
NoCall == [op |-> "none"]
Addresses == UNION {r.start .. r.end : r \in Regions}
Code == [method : Methods, start : {r.start : r \in Regions},
         end : {r.end : r \in Regions}, state : {"before", "goingBefore", "loading", "loaded", "unloading"}]

NoAddresses == [a \in {} |-> 0]

Init ==
  /\ groups = {} /\ recent = [m \in Methods |-> 0]
  /\ address_map = [m \in Methods |-> NoAddresses]
  /\ ranges = EmptyRanges /\ heap = {} /\ uncompiled = {}
  /\ lock = NoOwner
  /\ pc = [t \in Threads |-> "idle"] /\ call = [t \in Threads |-> NoCall]
  /\ version = [t \in Threads |-> 0]
  /\ aborted = FALSE
  /\ code = CompiledBefore

Goto(t, p) == pc' = [pc EXCEPT ![t] = p]

Covers(c, a) == c.start <= a /\ a <= c.end
Disjoint(c, r) == c.end < r.start \/ r.end < c.start

ASSUME CompiledBeforeAssumption ==
  /\ CompiledBefore \subseteq Code
  /\ \A c \in CompiledBefore : c.state = "before" /\ c.start <= c.end
  /\ \A c, d \in CompiledBefore : c # d => Disjoint(c, d)

-----------------------------------------------------------------------------
(* Calls begin: a thread constructs the LockScope.                          *)

Begin(t, c) ==
  /\ pc[t] = "idle" /\ ~aborted
  /\ call' = [call EXCEPT ![t] = c]
  /\ Goto(t, "lock")
  /\ UNCHANGED <<tableVars, version, lock, aborted>>

(* The VM has compiled m to free addresses and reports it: addMethod.       *)
Load(t, m, r) ==
  /\ \A c \in code : Disjoint(c, r)
  /\ recent[m] < MaxVersion
  /\ Begin(t, [op |-> "add", method |-> m, start |-> r.start, end |-> r.end])
  /\ code' = code \cup {[method |-> m, start |-> r.start, end |-> r.end,
                         state |-> "loading"]}

(* The VM reports that code goes away: removeMethod.                        *)
Unload(t, c) ==
  /\ c.state \in {"before", "loaded"}
  /\ Begin(t, [op |-> "remove", method |-> c.method, start |-> c.start])
  /\ code' = (code \ {c}) \cup
       {[c EXCEPT !.state = IF @ = "before" THEN "goingBefore" ELSE "unloading"]}

(* The calls without an event: lookups by address or method, and the two    *)
(* that keep _uncompiled_method_cache.                                      *)
Query(t) ==
  /\ \/ \E a \in Addresses : Begin(t, [op |-> "find", addr |-> a])
     \/ \E m \in Methods, op \in {"recent", "check", "addUncompiled"} :
          Begin(t, [op |-> op, method |-> m])
  /\ UNCHANGED code

(* SpinLock::lock: the compare-and-swap that succeeds.                      *)
Acquire(t) ==
  /\ pc[t] \in {"lock", "relock"} /\ lock = NoOwner /\ ~aborted
  /\ lock' = t
  /\ Goto(t, IF pc[t] = "lock" THEN "locked" ELSE "publish")
  /\ UNCHANGED <<tableVars, call, version, aborted, code>>

(* The call returns and ~LockScope releases the lock.                       *)
Release(t) ==
  /\ lock' = NoOwner
  /\ Goto(t, "idle")
  /\ call' = [call EXCEPT ![t] = NoCall]
  /\ version' = [version EXCEPT ![t] = 0]

Inside(t, op) == pc[t] = "locked" /\ call[t].op = op /\ ~aborted

-----------------------------------------------------------------------------
(* addMethod.                                                               *)

(* Variant for validation: the group's counter is not advanced before the   *)
(* lock is released.                                                        *)
AddBeginKeepsVersion(t) ==
  LET m == call[t].method
  IN /\ Inside(t, "add")
     /\ groups' = groups \cup {m}
     /\ UNCHANGED recent
     /\ version' = [version EXCEPT ![t] = recent[m] + 1]
     /\ lock' = NoOwner
     /\ Goto(t, "construct")
     /\ UNCHANGED <<address_map, ranges, heap, uncompiled, call, aborted, code>>

(* Variant for validation: the lock is kept.                                *)
AddBeginKeepsLock(t) ==
  LET m == call[t].method
  IN /\ Inside(t, "add")
     /\ groups' = groups \cup {m}
     /\ recent' = [recent EXCEPT ![m] = @ + 1]
     /\ version' = [version EXCEPT ![t] = recent'[m]]
     /\ Goto(t, "construct")
     /\ UNCHANGED <<address_map, ranges, heap, uncompiled, call, lock, aborted, code>>

(* Variant for validation: versions are counted down from zero.             *)
AddBeginCountsDown(t) ==
  LET m == call[t].method
  IN /\ Inside(t, "add")
     /\ groups' = groups \cup {m}
     /\ recent' = [recent EXCEPT ![m] = @ - 1]
     /\ version' = [version EXCEPT ![t] = recent'[m]]
     /\ lock' = NoOwner
     /\ Goto(t, "construct")
     /\ UNCHANGED <<address_map, ranges, heap, uncompiled, call, aborted, code>>

(* The group is found or created, the version taken, the lock released.     *)
AddBegin(t) ==
  LET m == call[t].method
  IN /\ Inside(t, "add")
     /\ groups' = groups \cup {m}
     /\ recent' = [recent EXCEPT ![m] = @ + 1]
     /\ version' = [version EXCEPT ![t] = recent'[m]]
     /\ lock' = NoOwner
     /\ Goto(t, "construct")
     /\ UNCHANGED <<address_map, ranges, heap, uncompiled, call, aborted, code>>

(* A thread that looks an address up does so in a signal handler.           *)
AtSafePoint(t) == pc[t] = "idle" \/ call[t].op # "find"

(* The constructor and loadAddrLocationMap, with their JVMTI calls.         *)
Construct(t) ==
  /\ pc[t] = "construct" /\ ~aborted
  /\ \A u \in Threads : AtSafePoint(u)
  /\ heap' = heap \cup {<<call[t].method, version[t]>>}
  /\ Goto(t, "relock")
  /\ UNCHANGED <<groups, recent, address_map, ranges, uncompiled, call, version,
                 lock, aborted, code>>

(* The lock is held again: the object goes to the group and to the ranges.  *)
AddEnd(t) ==
  LET m == call[t].method
      start == call[t].start
  IN /\ pc[t] = "publish" /\ ~aborted
     /\ address_map' = [address_map EXCEPT ![m] =
          [a \in DOMAIN @ \cup {start} |-> IF a = start THEN version[t] ELSE @[a]]]
     /\ ranges' = Insert(ranges, start, call[t].end, <<m, version[t]>>)
     /\ code' = {IF c.start = start THEN [c EXCEPT !.state = "loaded"] ELSE c : c \in code}
     /\ Release(t)
     /\ UNCHANGED <<groups, recent, heap, uncompiled, aborted>>

-----------------------------------------------------------------------------
(* Variant for validation: the object is not deleted.                       *)
RemoveLeaks(t) ==
  LET m == call[t].method
      start == call[t].start
  IN /\ Inside(t, "remove")
     /\ UNCHANGED heap
     /\ address_map' = [address_map EXCEPT ![m] = [a \in DOMAIN @ \ {start} |-> @[a]]]
     /\ ranges' = IF m \in groups THEN Without(ranges, start) ELSE ranges
     /\ aborted' = (m \in groups /\ ~CanRemove(ranges, start))
     /\ code' = {c \in code : c.start # start}
     /\ Release(t)
     /\ UNCHANGED <<groups, recent, uncompiled>>

(* Variant for validation: the group has removed the range already.         *)
RemoveTwice(t) ==
  LET m == call[t].method
      start == call[t].start
      there == m \in groups /\ start \in DOMAIN address_map[m]
  IN /\ Inside(t, "remove")
     /\ heap' = IF there THEN heap \ {<<m, address_map[m][start]>>} ELSE heap
     /\ address_map' = [address_map EXCEPT ![m] = [a \in DOMAIN @ \ {start} |-> @[a]]]
     /\ ranges' = IF m \in groups THEN Without(ranges, start) ELSE ranges
     /\ aborted' = (m \in groups /\ ~CanRemove(ranges', start))
     /\ code' = {c \in code : c.start # start}
     /\ Release(t)
     /\ UNCHANGED <<groups, recent, uncompiled>>

(* Variant for validation: the newest version is given back with its code.  *)
RemoveGivesVersionBack(t) ==
  LET m == call[t].method
      start == call[t].start
      there == m \in groups /\ start \in DOMAIN address_map[m]
  IN /\ Inside(t, "remove")
     /\ heap' = IF there THEN heap \ {<<m, address_map[m][start]>>} ELSE heap
     /\ recent' = IF there /\ address_map[m][start] = recent[m]
                  THEN [recent EXCEPT ![m] = @ - 1] ELSE recent
     /\ address_map' = [address_map EXCEPT ![m] = [a \in DOMAIN @ \ {start} |-> @[a]]]
     /\ ranges' = IF m \in groups THEN Without(ranges, start) ELSE ranges
     /\ aborted' = (m \in groups /\ ~CanRemove(ranges, start))
     /\ code' = {c \in code : c.start # start}
     /\ Release(t)
     /\ UNCHANGED <<groups, uncompiled>>

(* removeMethod and removeMethodByAddr: the object is deleted; if there is  *)
(* a group, the range has to be there.                                      *)
Remove(t) ==
  LET m == call[t].method
      start == call[t].start
      there == m \in groups /\ start \in DOMAIN address_map[m]
  IN /\ Inside(t, "remove")
     /\ heap' = IF there THEN heap \ {<<m, address_map[m][start]>>} ELSE heap
     /\ address_map' = [address_map EXCEPT ![m] = [a \in DOMAIN @ \ {start} |-> @[a]]]
     /\ ranges' = IF m \in groups THEN Without(ranges, start) ELSE ranges
     /\ aborted' = (m \in groups /\ ~CanRemove(ranges, start))
     /\ code' = {c \in code : c.start # start}
     /\ Release(t)
     /\ UNCHANGED <<groups, recent, uncompiled>>

-----------------------------------------------------------------------------
(* Lookups, which only read the tables.                                     *)

(* Variant for validation: only the start of a range is compared.           *)
FoundAtStart(addr) == IF addr \in DOMAIN ranges THEN ranges[addr].data ELSE NoMethod

(* What getMethod(addr), getMethod(addr, method_id, version) and            *)
(* findMethodByAddr find.                                                   *)
FoundAt(addr) == IF HasData(ranges, addr) THEN GetData(ranges, addr) ELSE NoMethod

Versions(m) == {address_map[m][a] : a \in DOMAIN address_map[m]}

(* Lookups by address, getMethod(method_id) and getMethodByVersion return.  *)
Lookup(t) ==
  /\ pc[t] = "locked" /\ call[t].op \in {"find", "recent"} /\ ~aborted
  /\ Release(t)
  /\ UNCHANGED <<tableVars, aborted, code>>

(* checkAndMoveMethodToUncompiledSet.                                       *)
Check(t) ==
  /\ Inside(t, "check")
  /\ uncompiled' = IF call[t].method \in groups THEN uncompiled
                   ELSE uncompiled \cup {call[t].method}
  /\ Release(t)
  /\ UNCHANGED <<groups, recent, address_map, ranges, heap, aborted, code>>

(* addMethodAndRemoveFromUncompiledSet: its second half is compiled out, so *)
(* it leaves an empty group and returns null.                               *)
AddUncompiled(t) ==
  /\ Inside(t, "addUncompiled")
  /\ uncompiled' = uncompiled \ {call[t].method}
  /\ groups' = groups \cup {call[t].method}
  /\ Release(t)
  /\ UNCHANGED <<recent, address_map, ranges, heap, aborted, code>>

-----------------------------------------------------------------------------
Step(t) ==
  \/ Acquire(t) \/ AddBegin(t) \/ Construct(t) \/ AddEnd(t) \/ Remove(t)
  \/ Lookup(t) \/ Check(t) \/ AddUncompiled(t)

Next ==
  \E t \in Threads :
    \/ Step(t) \/ Query(t)
    \/ \E m \in Methods, r \in Regions : Load(t, m, r)
    \/ \E c \in code : Unload(t, c)

Spec == Init /\ [][Next]_vars

-----------------------------------------------------------------------------
(* Properties.                                                              *)

(* The objects a thread has constructed and not yet published.              *)
Unpublished == {<<call[t].method, version[t]>> : t \in {u \in Threads : pc[u] \in {"relock", "publish"}}}

Adding(t) == pc[t] \in {"construct", "relock", "publish"}

(* The type of every variable.                                              *)
TypeOK ==
  /\ groups \subseteq Methods /\ uncompiled \subseteq Methods
  /\ recent \in [Methods -> Nat]
  /\ \A m \in Methods : Versions(m) \subseteq Nat
  /\ heap \subseteq Methods \X Nat
  /\ lock \in Threads \cup {NoOwner} /\ aborted \in BOOLEAN
  /\ pc \in [Threads -> {"idle", "lock", "locked", "construct", "relock", "publish"}]
  /\ code \subseteq Code

(* ++_recent_version under the lock: although addMethod gives the lock up   *)
(* before it publishes, no two versions of a method are the same, finished  *)
(* or under construction.                                                   *)
VersionsUnique ==
  /\ \A m \in Methods : \A a, b \in DOMAIN address_map[m] :
       a # b => address_map[m][a] # address_map[m][b]
  /\ \A t, u \in Threads :
       Adding(t) /\ Adding(u) /\ call[t].method = call[u].method /\ t # u
         => version[t] # version[u]
  /\ \A t \in Threads : Adding(t) => version[t] \notin Versions(call[t].method)

(* The two tables agree with each other and with the heap: every range      *)
(* leads to a live object that the group of its method has under the same   *)
(* start, and no object is leaked.                                          *)
TablesAgree ==
  /\ heap = (UNION {{<<m, v>> : v \in Versions(m)} : m \in Methods}) \cup Unpublished
  /\ DOMAIN ranges = UNION {DOMAIN address_map[m] : m \in Methods}
  /\ \A a \in DOMAIN ranges :
       LET m == ranges[a].data[1]
       IN  a \in DOMAIN address_map[m] /\ ranges[a].data = <<m, address_map[m][a]>>

(* removeMethod: assert(_method_range_set.remove(code_addr)). Whatever the  *)
(* order in which threads load and unload, the assertion finds the range of *)
(* all code that was added; it fails only on code that was compiled before  *)
(* the agent was attached, for which JVM::init asks no events.              *)
UnloadFindsRange ==
  [][~aborted /\ aborted' => \E c \in code \ code' : c.state = "goingBefore"]_vars

(* A lookup by address answers with the method whose code is there, and     *)
(* with nothing where there is no code or code whose loading has not been   *)
(* reported completely.                                                     *)
FindsCurrentCode ==
  \A addr \in Addresses :
    LET at == {c \in code : c.state \in {"loaded", "unloading"} /\ Covers(c, addr)}
    IN  IF at = {} THEN FoundAt(addr) = NoMethod
        ELSE \E c \in at : FoundAt(addr)[1] = c.method /\ FoundAt(addr) \in heap

(* The contexts of samples keep a method and a version, not an object: once *)
(* the object of a version has been deleted, no later compilation of the    *)
(* method is given that version, whatever removals and additions come       *)
(* between and however many addMethods stand between their two locks.       *)
VersionsNeverReused ==
  \A m \in Methods, v \in 1..MaxVersion :
    [](<<m, v>> \in heap => [](<<m, v>> \notin heap => [](<<m, v>> \notin heap)))

(* "A deadlock can happen. Thus we need to release the lock when adding new *)
(* methods": as long as a call is under way, some call can go on.           *)
SomeCallGoesOn ==
  ~aborted /\ (\E t \in Threads : pc[t] # "idle") => \E t \in Threads : ENABLED Step(t)
=============================================================================
