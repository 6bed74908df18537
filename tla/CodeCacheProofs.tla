--------------------------- MODULE CodeCacheProofs ----------------------------
(***************************************************************************)
(* CodeCache for any number of threads, methods and regions. First the     *)
(* types and the versions (IInv): no two versions of a method are the same *)
(* although addMethod gives up the lock between taking a version and       *)
(* publishing it, and none is ever given to a second code (Spent). Then    *)
(* the tables (CInv): they have the code of the VM at every step, from     *)
(* which follow that they agree with each other, what a lookup finds and   *)
(* when the assertion of removeMethod can fail.                            *)
(***************************************************************************)
EXTENDS CodeCache, TLAPS

(* What TypeOK leaves open.                                                 *)
Shape ==
  /\ TypeOK
  /\ DOMAIN address_map = Methods
  /\ version \in [Threads -> Nat]
  /\ DOMAIN call = Threads

(* A call that is under way knows its method, and only addMethod has steps  *)
(* outside the first critical section.                                      *)
CallOK ==
  \A t \in Threads :
    /\ pc[t] # "idle" /\ call[t].op \in {"add", "check", "addUncompiled"}
         => call[t].method \in Methods
    /\ Adding(t) => call[t].op = "add"

(* _recent_version is at least every version there is or will be.           *)
Bounded ==
  /\ \A m \in Methods : \A a \in DOMAIN address_map[m] : address_map[m][a] <= recent[m]
  /\ \A t \in Threads : Adding(t) => version[t] <= recent[call[t].method]

IInv == Shape /\ CallOK /\ Bounded /\ VersionsUnique

PCs == {"idle", "lock", "locked", "construct", "relock", "publish"}

-----------------------------------------------------------------------------
(* The initial state.                                                       *)
LEMMA InitHolds ==
  ASSUME Init
  PROVE  IInv
<1>1. \A m \in Methods : DOMAIN address_map[m] = {}
  BY DEF Init, NoAddresses
<1>2. \A m \in Methods : Versions(m) = {}
  BY <1>1 DEF Versions
<1>3. Shape
  BY <1>2, CompiledBeforeAssumption DEF Init, Shape, TypeOK
<1>4. \A t \in Threads : pc[t] = "idle" /\ ~Adding(t)
  BY DEF Init, Adding
<1> QED
  BY <1>1, <1>3, <1>4 DEF IInv, CallOK, Bounded, VersionsUnique

(* A step that leaves the versions alone and sends one thread on, without   *)
(* starting to add or changing a call that adds.                            *)
LEMMA OtherStep ==
  ASSUME IInv, NEW t \in Threads, NEW p \in PCs, Goto(t, p),
         UNCHANGED <<recent, address_map>>,
         version' \in [Threads -> Nat], DOMAIN call' = Threads,
         \A u \in Threads : u # t => version'[u] = version[u] /\ call'[u] = call[u],
         p \in {"construct", "relock", "publish"} =>
           Adding(t) /\ version'[t] = version[t] /\ call'[t] = call[t],
         p # "idle" /\ call'[t].op \in {"add", "check", "addUncompiled"}
           => call'[t].method \in Methods,
         groups' \subseteq Methods, uncompiled' \subseteq Methods,
         heap' \subseteq Methods \X Nat, lock' \in Threads \cup {NoOwner},
         aborted' \in BOOLEAN, code' \subseteq Code
  PROVE  IInv'
<1>1. pc \in [Threads -> PCs] /\ pc' \in [Threads -> PCs] /\ pc'[t] = p
      /\ \A u \in Threads : u # t => pc'[u] = pc[u]
  BY DEF Goto, IInv, Shape, TypeOK, PCs
<1>2. \A u \in Threads : Adding(u)' => /\ Adding(u)
                                       /\ version'[u] = version[u]
                                       /\ call'[u] = call[u]
  BY <1>1 DEF Adding
<1>3. \A m \in Methods : Versions(m)' = Versions(m)
  BY DEF Versions
<1>4. TypeOK'
  BY <1>1, <1>3 DEF TypeOK, IInv, Shape, PCs
<1>5. Shape'
  BY <1>4 DEF Shape, IInv
<1>6. CallOK'
  BY <1>1, <1>2 DEF CallOK, IInv
<1>7. Bounded'
  BY <1>2 DEF Bounded, IInv
<1>8. VersionsUnique'
  <2>1. ASSUME NEW u \in Threads, Adding(u)'
        PROVE  version'[u] \notin Versions(call[u].method)'
    <3>1. version[u] \notin Versions(call[u].method)
      BY <1>2, <2>1 DEF IInv, VersionsUnique
    <3> QED
      BY <1>2, <2>1, <3>1 DEF Versions
  <2> QED
    BY <1>2, <2>1 DEF VersionsUnique, IInv
<1> QED
  BY <1>5, <1>6, <1>7, <1>8 DEF IInv

(* The first critical section of addMethod takes a version above all.       *)
LEMMA AddBeginStep ==
  ASSUME IInv, NEW t \in Threads, AddBegin(t)
  PROVE  IInv'
<1> DEFINE m == call[t].method
<1>1. /\ pc[t] = "locked" /\ call[t].op = "add"
      /\ groups' = groups \cup {m}
      /\ recent' = [recent EXCEPT ![m] = @ + 1]
      /\ version' = [version EXCEPT ![t] = recent'[m]]
      /\ lock' = NoOwner
      /\ pc' = [pc EXCEPT ![t] = "construct"]
      /\ UNCHANGED <<address_map, ranges, heap, uncompiled, call, aborted, code>>
  BY DEF AddBegin, Inside, Goto
<1>2. m \in Methods
  BY <1>1 DEF IInv, CallOK
<1>3. /\ recent \in [Methods -> Nat] /\ recent' \in [Methods -> Nat]
      /\ recent'[m] = recent[m] + 1
      /\ \A n \in Methods : recent[n] <= recent'[n]
  BY <1>1, <1>2 DEF IInv, Shape, TypeOK
<1>4. /\ version' \in [Threads -> Nat]
      /\ version'[t] = recent[m] + 1
      /\ \A u \in Threads : u # t => version'[u] = version[u]
  BY <1>1, <1>2, <1>3 DEF IInv, Shape
<1>5. /\ pc' \in [Threads -> PCs]
      /\ pc'[t] = "construct"
      /\ \A u \in Threads : u # t => pc'[u] = pc[u]
  BY <1>1 DEF IInv, Shape, TypeOK, PCs
<1>6. \A n \in Methods : Versions(n)' = Versions(n)
  BY <1>1 DEF Versions
<1>7. Adding(t)' /\ \A u \in Threads : u # t => (Adding(u)' <=> Adding(u))
  BY <1>5 DEF Adding
<1>8. Shape'
  BY <1>1, <1>2, <1>3, <1>4, <1>5, <1>6 DEF IInv, Shape, TypeOK, PCs
<1>9. CallOK'
  BY <1>1, <1>2, <1>5, <1>7 DEF IInv, CallOK
<1>10. \A u \in Threads : Adding(u) => call[u].method \in Methods /\ version[u] <= recent[call[u].method]
  BY DEF IInv, CallOK, Bounded, Adding
<1>11. version \in [Threads -> Nat]
  BY DEF IInv, Shape
<1>12. Bounded'
  <2>1. ASSUME NEW n \in Methods, NEW a \in DOMAIN address_map[n]
        PROVE  address_map[n][a] <= recent'[n]
    <3>1. address_map[n][a] \in Nat /\ address_map[n][a] <= recent[n]
      BY DEF IInv, Shape, TypeOK, Versions, Bounded
    <3> QED
      BY <1>3, <3>1
  <2>2. ASSUME NEW u \in Threads, Adding(u)'
        PROVE  version'[u] <= recent'[call[u].method]
    <3>1. CASE u = t
      BY <1>3, <1>4, <3>1
    <3>2. CASE u # t
      <4>1. Adding(u) /\ version'[u] = version[u]
        BY <1>4, <1>7, <2>2, <3>2
      <4>2. call[u].method \in Methods /\ version[u] <= recent[call[u].method]
        BY <1>10, <4>1
      <4>3. version[u] \in Nat /\ recent[call[u].method] \in Nat /\ recent'[call[u].method] \in Nat
        BY <1>3, <1>11, <4>2
      <4> QED
        BY <1>3, <4>1, <4>2, <4>3
    <3> QED
      BY <3>1, <3>2
  <2> QED
    BY <1>1, <2>1, <2>2 DEF Bounded
<1>13. VersionsUnique'
  <2>1. \A n \in Methods : \A a, b \in DOMAIN address_map'[n] :
          a # b => address_map'[n][a] # address_map'[n][b]
    BY <1>1 DEF IInv, VersionsUnique
  <2>2. ASSUME NEW u \in Threads, u # t, Adding(u)', call'[u].method = m
        PROVE  version'[u] # version'[t]
    <3>1. version[u] <= recent[m] /\ version[u] \in Nat /\ recent[m] \in Nat
      BY <1>1, <1>2, <1>3, <1>7, <1>10, <1>11, <2>2
    <3> QED
      BY <1>4, <2>2, <3>1
  <2>3. \A u, v \in Threads :
          Adding(u)' /\ Adding(v)' /\ call'[u].method = call'[v].method /\ u # v
            => version'[u] # version'[v]
    <3> SUFFICES ASSUME NEW u \in Threads, NEW v \in Threads, Adding(u)', Adding(v)',
                        call'[u].method = call'[v].method, u # v
                 PROVE  version'[u] # version'[v]
      OBVIOUS
    <3>1. CASE u = t
      BY <1>1, <2>2, <3>1
    <3>2. CASE v = t
      BY <1>1, <2>2, <3>2
    <3>3. CASE u # t /\ v # t
      BY <1>1, <1>4, <1>7, <3>3 DEF IInv, VersionsUnique
    <3> QED
      BY <3>1, <3>2, <3>3
  <2>4. ASSUME NEW u \in Threads, Adding(u)'
        PROVE  version'[u] \notin Versions(call[u].method)'
    <3>1. Versions(call[u].method)' = Versions(call[u].method)
      BY <1>1 DEF Versions
    <3>2. CASE u = t
      <4>1. \A a \in DOMAIN address_map[m] : address_map[m][a] \in Nat /\ address_map[m][a] <= recent[m]
        BY <1>2 DEF IInv, Shape, TypeOK, Versions, Bounded
      <4>2. \A a \in DOMAIN address_map[m] : address_map[m][a] # recent[m] + 1
        BY <1>2, <1>3, <4>1
      <4>3. recent[m] + 1 \notin Versions(m)
        BY <4>2 DEF Versions
      <4> QED
        BY <1>4, <3>1, <3>2, <4>3
    <3>3. CASE u # t
      BY <1>4, <1>7, <2>4, <3>1, <3>3 DEF IInv, VersionsUnique
    <3> QED
      BY <3>2, <3>3
  <2> QED
    BY <2>1, <2>3, <2>4 DEF VersionsUnique
<1> QED
  BY <1>8, <1>9, <1>12, <1>13 DEF IInv

(* The second one moves that version from the thread to the map.            *)
LEMMA AddEndStep ==
  ASSUME IInv, NEW t \in Threads, AddEnd(t)
  PROVE  IInv'
<1> DEFINE m == call[t].method
           start == call[t].start
<1>1. /\ pc[t] = "publish"
      /\ address_map' = [address_map EXCEPT ![m] =
           [a \in DOMAIN @ \cup {start} |-> IF a = start THEN version[t] ELSE @[a]]]
      /\ code' = {IF c.start = start THEN [c EXCEPT !.state = "loaded"] ELSE c : c \in code}
      /\ lock' = NoOwner
      /\ pc' = [pc EXCEPT ![t] = "idle"]
      /\ call' = [call EXCEPT ![t] = NoCall]
      /\ version' = [version EXCEPT ![t] = 0]
      /\ UNCHANGED <<groups, recent, heap, uncompiled, aborted>>
  BY DEF AddEnd, Release, Goto
<1>2. Adding(t)
  BY <1>1 DEF Adding
<1>3. m \in Methods
  BY <1>1, <1>2 DEF IInv, CallOK
<1>4. /\ DOMAIN address_map' = Methods
      /\ \A n \in Methods : n # m => address_map'[n] = address_map[n]
      /\ DOMAIN address_map'[m] = DOMAIN address_map[m] \cup {start}
      /\ address_map'[m][start] = version[t]
      /\ \A a \in DOMAIN address_map[m] : a # start => address_map'[m][a] = address_map[m][a]
  BY <1>1, <1>3 DEF IInv, Shape
<1>5. version[t] \in Nat /\ version[t] <= recent[m]
  BY <1>2 DEF IInv, Shape, Bounded
<1>6. /\ \A n \in Methods : n # m => Versions(n)' = Versions(n)
      /\ \A n \in Methods : n = m => Versions(n)' \subseteq Versions(n) \cup {version[t]}
  <2>1. \A n \in Methods : n # m => Versions(n)' = Versions(n)
    BY <1>4 DEF Versions
  <2>2. ASSUME NEW n \in Methods, n = m, NEW v \in Versions(n)'
        PROVE  v \in Versions(n) \cup {version[t]}
    <3>1. PICK a \in DOMAIN address_map'[n] : v = address_map'[n][a]
      BY <2>2 DEF Versions
    <3> QED
      BY <1>4, <2>2, <3>1 DEF Versions
  <2> QED
    BY <2>1, <2>2
<1>7. /\ pc' \in [Threads -> PCs] /\ pc'[t] = "idle"
      /\ \A u \in Threads : u # t => pc'[u] = pc[u] /\ call'[u] = call[u] /\ version'[u] = version[u]
      /\ version' \in [Threads -> Nat] /\ DOMAIN call' = Threads
  BY <1>1 DEF IInv, Shape, TypeOK, PCs
<1>8. ~Adding(t)' /\ \A u \in Threads : u # t => (Adding(u)' <=> Adding(u))
  BY <1>7 DEF Adding
<1>9. code' \subseteq Code
  <2>1. \A c \in Code : [c EXCEPT !.state = "loaded"] \in Code
    BY DEF Code
  <2>2. code \subseteq Code
    BY DEF IInv, Shape, TypeOK
  <2> QED
    BY <1>1, <2>1, <2>2
<1>10. Shape'
  <2>1. \A n \in Methods : Versions(n)' \subseteq Nat
    <3>1. \A n \in Methods : Versions(n) \subseteq Nat
      BY DEF IInv, Shape, TypeOK
    <3> QED
      BY <1>5, <1>6, <3>1
  <2>2. TypeOK'
    BY <1>1, <1>7, <1>9, <2>1 DEF IInv, Shape, TypeOK, PCs
  <2> QED
    BY <1>4, <1>7, <2>2 DEF Shape
<1>11. CallOK'
  BY <1>7, <1>8 DEF IInv, CallOK
<1>12. Bounded'
  <2>1. ASSUME NEW n \in Methods, NEW a \in DOMAIN address_map'[n]
        PROVE  address_map'[n][a] <= recent'[n]
    <3>1. CASE n # m
      BY <1>1, <1>4, <2>1, <3>1 DEF IInv, Bounded
    <3>2. CASE n = m /\ a = start
      BY <1>1, <1>4, <1>5, <3>2
    <3>3. CASE n = m /\ a # start
      BY <1>1, <1>3, <1>4, <2>1, <3>3 DEF IInv, Bounded
    <3> QED
      BY <3>1, <3>2, <3>3
  <2> QED
    BY <1>1, <1>7, <1>8, <2>1 DEF IInv, Bounded
<1>13. VersionsUnique'
  <2>1. ASSUME NEW n \in Methods, NEW a \in DOMAIN address_map'[n],
               NEW b \in DOMAIN address_map'[n], a # b
        PROVE  address_map'[n][a] # address_map'[n][b]
    <3>1. CASE n # m
      BY <1>4, <2>1, <3>1 DEF IInv, VersionsUnique
    <3>2. CASE n = m
      <4>1. \A c \in DOMAIN address_map[m] : address_map[m][c] # version[t]
        BY <1>2 DEF IInv, VersionsUnique, Versions
      <4>2. \A c, d \in DOMAIN address_map[m] : c # d => address_map[m][c] # address_map[m][d]
        BY <1>3 DEF IInv, VersionsUnique
      <4> QED
        BY <1>4, <2>1, <3>2, <4>1, <4>2
    <3> QED
      BY <3>1, <3>2
  <2>2. \A u, v \in Threads :
          Adding(u)' /\ Adding(v)' /\ call'[u].method = call'[v].method /\ u # v
            => version'[u] # version'[v]
    BY <1>7, <1>8 DEF IInv, VersionsUnique
  <2>3. ASSUME NEW u \in Threads, Adding(u)'
        PROVE  version'[u] \notin Versions(call[u].method)'
    <3>1. u # t /\ Adding(u) /\ version'[u] = version[u] /\ call'[u] = call[u]
      BY <1>7, <1>8, <2>3
    <3>2. version[u] \notin Versions(call[u].method) /\ call[u].method \in Methods
      BY <3>1 DEF IInv, VersionsUnique, CallOK, Adding
    <3>3. call[u].method = m => version[u] # version[t]
      BY <1>2, <3>1 DEF IInv, VersionsUnique
    <3>4. version[u] \notin Versions(call[u].method)'
      <4>1. call'[u].method = call[u].method
        BY <3>1
      <4>2. \A n \in Methods : n = call[u].method => version[u] \notin Versions(n)'
        BY <1>6, <3>2, <3>3
      <4> QED
        BY <3>2, <4>1, <4>2 DEF Versions
    <3> QED
      BY <3>1, <3>4
  <2> QED
    BY <2>1, <2>2, <2>3 DEF VersionsUnique
<1> QED
  BY <1>10, <1>11, <1>12, <1>13 DEF IInv

(* Removing code takes versions away.                                       *)
LEMMA RemoveStep ==
  ASSUME IInv, NEW t \in Threads, Remove(t)
  PROVE  IInv'
<1> DEFINE m == call[t].method
           start == call[t].start
<1>1. /\ pc[t] = "locked"
      /\ heap' \subseteq heap
      /\ address_map' = [address_map EXCEPT ![m] = [a \in DOMAIN @ \ {start} |-> @[a]]]
      /\ aborted' \in BOOLEAN
      /\ code' \subseteq code
      /\ lock' = NoOwner
      /\ pc' = [pc EXCEPT ![t] = "idle"]
      /\ call' = [call EXCEPT ![t] = NoCall]
      /\ version' = [version EXCEPT ![t] = 0]
      /\ UNCHANGED <<groups, recent, uncompiled>>
  BY DEF Remove, Release, Goto, Inside
<1>2. /\ DOMAIN address_map' = Methods
      /\ \A n \in Methods : /\ DOMAIN address_map'[n] \subseteq DOMAIN address_map[n]
                            /\ \A a \in DOMAIN address_map'[n] : address_map'[n][a] = address_map[n][a]
  BY <1>1 DEF IInv, Shape
<1>3. \A n \in Methods : Versions(n)' \subseteq Versions(n)
  BY <1>2 DEF Versions
<1>4. /\ pc' \in [Threads -> PCs] /\ pc'[t] = "idle"
      /\ \A u \in Threads : u # t => pc'[u] = pc[u] /\ call'[u] = call[u] /\ version'[u] = version[u]
      /\ version' \in [Threads -> Nat] /\ DOMAIN call' = Threads
  BY <1>1 DEF IInv, Shape, TypeOK, PCs
<1>5. ~Adding(t)' /\ \A u \in Threads : u # t => (Adding(u)' <=> Adding(u))
  BY <1>4 DEF Adding
<1>6. TypeOK'
  BY <1>1, <1>3, <1>4 DEF IInv, Shape, TypeOK, PCs
<1>7. Shape'
  BY <1>2, <1>4, <1>6 DEF Shape
<1>8. CallOK'
  BY <1>4, <1>5 DEF IInv, CallOK
<1>9. Bounded'
  BY <1>1, <1>2, <1>4, <1>5 DEF IInv, Bounded
<1>10. VersionsUnique'
  <2>1. \A n \in Methods : \A a, b \in DOMAIN address_map'[n] :
          a # b => address_map'[n][a] # address_map'[n][b]
    BY <1>2 DEF IInv, VersionsUnique
  <2>2. \A u, v \in Threads :
          Adding(u)' /\ Adding(v)' /\ call'[u].method = call'[v].method /\ u # v
            => version'[u] # version'[v]
    BY <1>4, <1>5 DEF IInv, VersionsUnique
  <2>3. ASSUME NEW u \in Threads, Adding(u)'
        PROVE  version'[u] \notin Versions(call[u].method)'
    <3>1. u # t /\ Adding(u) /\ version'[u] = version[u] /\ call'[u] = call[u]
      BY <1>4, <1>5, <2>3
    <3>2. version[u] \notin Versions(call[u].method) /\ call[u].method \in Methods
      BY <3>1 DEF IInv, VersionsUnique, CallOK, Adding
    <3> QED
      BY <1>3, <3>1, <3>2
  <2> QED
    BY <2>1, <2>2, <2>3 DEF VersionsUnique
<1> QED
  BY <1>7, <1>8, <1>9, <1>10 DEF IInv

(* A call begins.                                                           *)
LEMMA BeginStep ==
  ASSUME IInv, NEW t \in Threads, NEW c, Begin(t, c),
         c.op \in {"add", "check", "addUncompiled"} => c.method \in Methods,
         code' \subseteq Code
  PROVE  IInv'
<1>1. /\ Goto(t, "lock")
      /\ call' = [call EXCEPT ![t] = c]
      /\ UNCHANGED <<tableVars, version, lock, aborted>>
  BY DEF Begin
<1>2. /\ DOMAIN call' = Threads /\ call'[t] = c
      /\ \A u \in Threads : u # t => call'[u] = call[u]
  BY <1>1 DEF IInv, Shape
<1>3. /\ UNCHANGED <<recent, address_map>>
      /\ version' = version /\ version \in [Threads -> Nat]
      /\ groups' \subseteq Methods /\ uncompiled' \subseteq Methods
      /\ heap' \subseteq Methods \X Nat /\ lock' \in Threads \cup {NoOwner}
      /\ aborted' \in BOOLEAN
  BY <1>1 DEF IInv, Shape, TypeOK, tableVars
<1>4. "lock" \in PCs
  BY DEF PCs
<1> QED
  BY <1>1, <1>2, <1>3, <1>4, OtherStep

(* The VM loads or unloads code, and threads look something up.             *)
LEMMA CallStep ==
  ASSUME IInv, NEW t \in Threads,
         \/ Query(t)
         \/ \E m \in Methods, r \in Regions : Load(t, m, r)
         \/ \E c \in code : Unload(t, c)
  PROVE  IInv'
<1>1. code \subseteq Code
  BY DEF IInv, Shape, TypeOK
<1>2. CASE Query(t)
  <2>1. code' \subseteq Code
    BY <1>1, <1>2 DEF Query
  <2>2. CASE \E a \in Addresses : Begin(t, [op |-> "find", addr |-> a])
    BY <2>1, <2>2, BeginStep
  <2>3. ASSUME NEW m \in Methods, NEW op \in {"recent", "check", "addUncompiled"},
               Begin(t, [op |-> op, method |-> m])
        PROVE  IInv'
    BY <2>1, <2>3, BeginStep
  <2> QED
    BY <1>2, <2>2, <2>3 DEF Query
<1>3. ASSUME NEW m \in Methods, NEW r \in Regions, Load(t, m, r) PROVE IInv'
  <2>1. code' \subseteq Code
    BY <1>1, <1>3 DEF Load, Code
  <2>2. Begin(t, [op |-> "add", method |-> m, start |-> r.start, end |-> r.end])
    BY <1>3 DEF Load
  <2> QED
    BY <2>1, <2>2, BeginStep
<1>4. ASSUME NEW c \in code, Unload(t, c) PROVE IInv'
  <2>1. \A s \in {"goingBefore", "unloading"} : [c EXCEPT !.state = s] \in Code
    BY <1>1 DEF Code
  <2>2. code' \subseteq Code
    BY <1>1, <1>4, <2>1 DEF Unload
  <2>3. Begin(t, [op |-> "remove", method |-> c.method, start |-> c.start])
    BY <1>4 DEF Unload
  <2> QED
    BY <2>2, <2>3, BeginStep
<1> QED
  BY <1>2, <1>3, <1>4

(* Taking the lock, for the first or the second time.                       *)
LEMMA AcquireStep ==
  ASSUME IInv, NEW t \in Threads, Acquire(t)
  PROVE  IInv'
<1> DEFINE p == IF pc[t] = "lock" THEN "locked" ELSE "publish"
<1>1. /\ pc[t] \in {"lock", "relock"} /\ lock' = t
      /\ Goto(t, p)
      /\ UNCHANGED <<tableVars, call, version, aborted, code>>
  BY DEF Acquire
<1>2. p \in PCs /\ (p \in {"construct", "relock", "publish"} => Adding(t))
  BY <1>1 DEF PCs, Adding
<1>3. call[t].op \in {"add", "check", "addUncompiled"} => call[t].method \in Methods
  BY <1>1 DEF IInv, CallOK
<1>4. /\ UNCHANGED <<recent, address_map, version, call>>
      /\ version \in [Threads -> Nat] /\ DOMAIN call = Threads
      /\ groups' \subseteq Methods /\ uncompiled' \subseteq Methods
      /\ heap' \subseteq Methods \X Nat /\ lock' \in Threads \cup {NoOwner}
      /\ aborted' \in BOOLEAN /\ code' \subseteq Code
  BY <1>1 DEF IInv, Shape, TypeOK, tableVars
<1> HIDE DEF p
<1> QED
  BY <1>1, <1>2, <1>3, <1>4, OtherStep

(* The object is constructed without the lock.                              *)
LEMMA ConstructStep ==
  ASSUME IInv, NEW t \in Threads, Construct(t)
  PROVE  IInv'
<1>1. /\ pc[t] = "construct"
      /\ heap' = heap \cup {<<call[t].method, version[t]>>}
      /\ Goto(t, "relock")
      /\ UNCHANGED <<groups, recent, address_map, ranges, uncompiled, call, version,
                     lock, aborted, code>>
  BY DEF Construct
<1>2. "relock" \in PCs /\ Adding(t)
  BY <1>1 DEF PCs, Adding
<1>3. call[t].op = "add" /\ call[t].method \in Methods
  BY <1>1, <1>2 DEF IInv, CallOK
<1>4. version \in [Threads -> Nat] /\ DOMAIN call = Threads
  BY DEF IInv, Shape
<1>5. /\ heap' \subseteq Methods \X Nat
      /\ groups' \subseteq Methods /\ uncompiled' \subseteq Methods
      /\ lock' \in Threads \cup {NoOwner} /\ aborted' \in BOOLEAN /\ code' \subseteq Code
  BY <1>1, <1>3, <1>4 DEF IInv, Shape, TypeOK
<1> QED
  BY <1>1, <1>2, <1>3, <1>4, <1>5, OtherStep

(* The calls that end in their only critical section.                       *)
LEMMA ShortStep ==
  ASSUME IInv, NEW t \in Threads, Lookup(t) \/ Check(t) \/ AddUncompiled(t)
  PROVE  IInv'
<1>1. /\ lock' = NoOwner
      /\ Goto(t, "idle")
      /\ call' = [call EXCEPT ![t] = NoCall]
      /\ version' = [version EXCEPT ![t] = 0]
      /\ UNCHANGED <<recent, address_map, heap, aborted, code>>
  BY DEF Lookup, Check, AddUncompiled, Release, tableVars
<1>2. groups' \subseteq Methods /\ uncompiled' \subseteq Methods
  <2>1. CASE Lookup(t)
    BY <2>1 DEF Lookup, tableVars, IInv, Shape, TypeOK
  <2>2. CASE Check(t)
    BY <2>2 DEF Check, Inside, IInv, CallOK, Shape, TypeOK
  <2>3. CASE AddUncompiled(t)
    BY <2>3 DEF AddUncompiled, Inside, IInv, CallOK, Shape, TypeOK
  <2> QED
    BY <2>1, <2>2, <2>3
<1>3. /\ version' \in [Threads -> Nat] /\ DOMAIN call' = Threads
      /\ \A u \in Threads : u # t => version'[u] = version[u] /\ call'[u] = call[u]
  BY <1>1 DEF IInv, Shape
<1>4. /\ "idle" \in PCs /\ heap' \subseteq Methods \X Nat /\ lock' \in Threads \cup {NoOwner}
      /\ aborted' \in BOOLEAN /\ code' \subseteq Code
  BY <1>1 DEF IInv, Shape, TypeOK, PCs
<1> QED
  BY <1>1, <1>2, <1>3, <1>4, OtherStep

(* Every step preserves the invariant.                                      *)
LEMMA NextStep ==
  ASSUME IInv, [Next]_vars
  PROVE  IInv'
<1>1. ASSUME NEW t \in Threads, Step(t) PROVE IInv'
  BY <1>1, AcquireStep, AddBeginStep, ConstructStep, AddEndStep, RemoveStep, ShortStep DEF Step
<1>2. CASE UNCHANGED vars
  BY <1>2 DEF vars, tableVars, threadVars, IInv, Shape, TypeOK, CallOK, Bounded,
              VersionsUnique, Versions, Adding
<1> QED
  BY <1>1, <1>2, CallStep DEF Next

-----------------------------------------------------------------------------
(* The tables and the code of the VM.                                       *)

(* Code that addMethod has entered and removeMethod has not taken out.      *)
Live(c) == c.state \in {"loaded", "unloading"}

(* No two pieces of code overlap.                                           *)
Placed ==
  /\ \A c \in code : c.start \in Nat /\ c.end \in Nat /\ c.start <= c.end
  /\ \A c, d \in code : c # d => Disjoint(c, d)

Reporting(t) == pc[t] # "idle" /\ call[t].op \in {"add", "remove"}

(* The call of thread t is about the code c.                                *)
Reports(t, c) ==
  /\ c.method = call[t].method /\ c.start = call[t].start
  /\ call[t].op = "add" => c.state = "loading" /\ c.end = call[t].end
  /\ call[t].op = "remove" => c.state \in {"unloading", "goingBefore"}

(* Every event is about code that is there, and no two about the same.      *)
Events ==
  /\ \A t \in Threads : Reporting(t) => \E c \in code : Reports(t, c)
  /\ \A t, u \in Threads :
       Reporting(t) /\ Reporting(u) /\ t # u => call[t].start # call[u].start

(* Both tables have the live code and nothing else.                         *)
HasEntry(c) ==
  /\ c.method \in groups
  /\ c.start \in DOMAIN ranges /\ c.start \in DOMAIN address_map[c.method]
  /\ ranges[c.start] = [end |-> c.end, data |-> <<c.method, address_map[c.method][c.start]>>]

Entered ==
  /\ \A c \in code : Live(c) => HasEntry(c)
  /\ \A a \in DOMAIN ranges : \E c \in code : Live(c) /\ c.start = a
  /\ \A m \in Methods : \A a \in DOMAIN address_map[m] :
       \E c \in code : Live(c) /\ c.start = a /\ c.method = m
  /\ \A t \in Threads : Adding(t) => call[t].method \in groups

(* Thread t has constructed version v of m and not published it.            *)
Holds(t, m, v) == pc[t] \in {"relock", "publish"} /\ call[t].method = m /\ version[t] = v

(* The heap has the published and the unpublished objects.                  *)
Exist ==
  \A m \in Methods : \A v \in Nat :
    <<m, v>> \in heap <=> v \in Versions(m) \/ \E t \in Threads : Holds(t, m, v)

CInv == Placed /\ Events /\ Entered /\ Exist

-----------------------------------------------------------------------------
LEMMA InitTables ==
  ASSUME Init
  PROVE  CInv
<1>1. \A m \in Methods : DOMAIN address_map[m] = {} /\ Versions(m) = {}
  BY DEF Init, NoAddresses, Versions
<1>2. code = CompiledBefore /\ \A c \in code : ~Live(c) /\ c \in Code
  BY CompiledBeforeAssumption DEF Init, Live
<1>3. \A c \in code : c.start \in Nat /\ c.end \in Nat
  BY <1>2, RegionsAssumption DEF Code
<1>4. Placed
  BY <1>2, <1>3, CompiledBeforeAssumption DEF Placed
<1>5. DOMAIN ranges = {} /\ heap = {} /\ \A t \in Threads : pc[t] = "idle"
  BY DEF Init, EmptyRanges
<1>6. Events
  BY <1>5 DEF Events, Reporting
<1>7. Entered
  BY <1>1, <1>2, <1>5 DEF Entered, Adding
<1>8. Exist
  BY <1>1, <1>5 DEF Exist, Holds
<1> QED
  BY <1>4, <1>6, <1>7, <1>8 DEF CInv

(* Code is known by its start.                                              *)
LEMMA SameStart ==
  ASSUME Placed, NEW c \in code, NEW d \in code, c.start = d.start
  PROVE  c = d
  BY DEF Placed, Disjoint

(* A step that leaves the tables, the code and the objects under            *)
(* construction alone, and reports nothing new.                             *)
LEMMA QuietStep ==
  ASSUME CInv, UNCHANGED <<address_map, ranges, heap, code>>, groups \subseteq groups',
         \A u \in Threads : Reporting(u)' => Reporting(u) /\ call'[u] = call[u],
         \A u \in Threads : Adding(u)' => call'[u].method \in groups',
         \A u \in Threads :
           /\ pc'[u] \in {"relock", "publish"} <=> pc[u] \in {"relock", "publish"}
           /\ pc[u] \in {"relock", "publish"} => call'[u] = call[u] /\ version'[u] = version[u]
  PROVE  CInv'
<1>1. Placed'
  BY DEF CInv, Placed
<1>2. Events'
  BY DEF CInv, Events, Reports
<1>3. Entered'
  BY DEF CInv, Entered, HasEntry
<1>4. \A m \in Methods : Versions(m)' = Versions(m)
  BY DEF Versions
<1>5. \A u \in Threads : \A m, v : Holds(u, m, v)' <=> Holds(u, m, v)
  BY DEF Holds
<1>6. Exist'
  BY <1>4, <1>5 DEF CInv, Exist
<1> QED
  BY <1>1, <1>2, <1>3, <1>6 DEF CInv

LEMMA QueryTables ==
  ASSUME IInv, CInv, NEW t \in Threads, Query(t)
  PROVE  CInv'
<1>1. \E c : c.op \notin {"add", "remove"} /\ Begin(t, c)
  <2>1. CASE \E a \in Addresses : Begin(t, [op |-> "find", addr |-> a])
    <3>1. PICK a \in Addresses : Begin(t, [op |-> "find", addr |-> a])
      BY <2>1
    <3> WITNESS [op |-> "find", addr |-> a]
    <3> QED
      BY <3>1
  <2>2. CASE \E m \in Methods, op \in {"recent", "check", "addUncompiled"} :
               Begin(t, [op |-> op, method |-> m])
    <3>1. PICK m \in Methods, op \in {"recent", "check", "addUncompiled"} :
            Begin(t, [op |-> op, method |-> m])
      BY <2>2
    <3> WITNESS [op |-> op, method |-> m]
    <3> QED
      BY <3>1
  <2> QED
    BY <2>1, <2>2 DEF Query
<1>2. PICK c : c.op \notin {"add", "remove"} /\ Begin(t, c)
  BY <1>1
<1>3. /\ call' = [call EXCEPT ![t] = c] /\ pc[t] = "idle" /\ pc' = [pc EXCEPT ![t] = "lock"]
      /\ UNCHANGED <<groups, address_map, ranges, heap, code, version>>
  BY <1>2 DEF Begin, Goto, tableVars, Query
<1>4. /\ call'[t] = c /\ pc'[t] = "lock"
      /\ \A u \in Threads : u # t => call'[u] = call[u] /\ pc'[u] = pc[u]
  BY <1>3 DEF IInv, Shape, TypeOK
<1>5. \A u \in Threads : Reporting(u)' => Reporting(u) /\ call'[u] = call[u]
  BY <1>2, <1>3, <1>4 DEF Reporting
<1>6. \A u \in Threads : Adding(u)' => call'[u].method \in groups'
  BY <1>3, <1>4 DEF Adding, CInv, Entered
<1> QED
  BY <1>3, <1>4, <1>5, <1>6, QuietStep

LEMMA AcquireTables ==
  ASSUME IInv, CInv, NEW t \in Threads, Acquire(t)
  PROVE  CInv'
<1>1. /\ pc[t] \in {"lock", "relock"}
      /\ pc' = [pc EXCEPT ![t] = IF pc[t] = "lock" THEN "locked" ELSE "publish"]
      /\ UNCHANGED <<groups, address_map, ranges, heap, code, call, version>>
  BY DEF Acquire, Goto, tableVars
<1>2. /\ pc'[t] = IF pc[t] = "lock" THEN "locked" ELSE "publish"
      /\ \A u \in Threads : u # t => pc'[u] = pc[u]
  BY <1>1 DEF IInv, Shape, TypeOK
<1>3. \A u \in Threads : /\ Reporting(u)' => Reporting(u)
                         /\ Adding(u)' => Adding(u)
  BY <1>1, <1>2 DEF Reporting, Adding
<1> QED
  BY <1>1, <1>2, <1>3, QuietStep DEF CInv, Entered

LEMMA AddBeginTables ==
  ASSUME IInv, CInv, NEW t \in Threads, AddBegin(t)
  PROVE  CInv'
<1>1. /\ pc[t] = "locked" /\ pc' = [pc EXCEPT ![t] = "construct"]
      /\ groups' = groups \cup {call[t].method}
      /\ version' = [version EXCEPT ![t] = recent'[call[t].method]]
      /\ UNCHANGED <<address_map, ranges, heap, code, call>>
  BY DEF AddBegin, Inside, Goto
<1>2. /\ pc'[t] = "construct"
      /\ \A u \in Threads : u # t => pc'[u] = pc[u] /\ version'[u] = version[u]
  BY <1>1 DEF IInv, Shape, TypeOK
<1>3. \A u \in Threads : Reporting(u)' => Reporting(u) /\ call'[u] = call[u]
  BY <1>1, <1>2 DEF Reporting
<1>4. \A u \in Threads : Adding(u)' => call'[u].method \in groups'
  BY <1>1, <1>2 DEF Adding, CInv, Entered
<1> QED
  BY <1>1, <1>2, <1>3, <1>4, QuietStep

LEMMA ShortTables ==
  ASSUME IInv, CInv, NEW t \in Threads, Lookup(t) \/ Check(t) \/ AddUncompiled(t)
  PROVE  CInv'
<1>1. /\ pc[t] = "locked" /\ pc' = [pc EXCEPT ![t] = "idle"]
      /\ call' = [call EXCEPT ![t] = NoCall] /\ version' = [version EXCEPT ![t] = 0]
      /\ groups \subseteq groups' /\ UNCHANGED <<address_map, ranges, heap, code>>
  BY DEF Lookup, Check, AddUncompiled, Release, Goto, Inside, tableVars
<1>2. /\ pc'[t] = "idle"
      /\ \A u \in Threads : u # t => pc'[u] = pc[u] /\ version'[u] = version[u] /\ call'[u] = call[u]
  BY <1>1 DEF IInv, Shape, TypeOK
<1>3. \A u \in Threads : Reporting(u)' => Reporting(u) /\ call'[u] = call[u]
  BY <1>1, <1>2 DEF Reporting
<1>4. \A u \in Threads : Adding(u)' => call'[u].method \in groups'
  BY <1>1, <1>2 DEF Adding, CInv, Entered
<1> QED
  BY <1>1, <1>2, <1>3, <1>4, QuietStep
(* The VM's events change the code and begin a call; the tables stay.       *)
LEMMA EventStep ==
  ASSUME CInv, UNCHANGED <<groups, address_map, ranges, heap, version>>,
         NEW t \in Threads, pc[t] = "idle", pc'[t] = "lock",
         \A u \in Threads : u # t => pc'[u] = pc[u] /\ call'[u] = call[u],
         Placed', Events',
         \A c \in code : Live(c) =>
           \E d \in code' : Live(d) /\ d.start = c.start /\ d.method = c.method,
         \A c \in code' : Live(c) =>
           \E d \in code : /\ Live(d) /\ d.start = c.start
                           /\ d.method = c.method /\ d.end = c.end
  PROVE  CInv'
<1>1. \A c \in code' : Live(c) => HasEntry(c)'
  <2> SUFFICES ASSUME NEW c \in code', Live(c) PROVE HasEntry(c)'
    OBVIOUS
  <2>1. PICK d \in code : Live(d) /\ d.start = c.start /\ d.method = c.method /\ d.end = c.end
    OBVIOUS
  <2>2. HasEntry(d)
    BY <2>1 DEF CInv, Entered
  <2> QED
    BY <2>1, <2>2 DEF HasEntry
<1>2. Entered'
  <2>1. \A a \in DOMAIN ranges' : \E c \in code' : Live(c) /\ c.start = a
    BY DEF CInv, Entered
  <2>2. \A m \in Methods : \A a \in DOMAIN address_map'[m] :
          \E c \in code' : Live(c) /\ c.start = a /\ c.method = m
    BY DEF CInv, Entered
  <2>3. \A u \in Threads : Adding(u)' => call'[u].method \in groups'
    BY DEF Adding, CInv, Entered
  <2> QED
    BY <1>1, <2>1, <2>2, <2>3 DEF Entered, Live
<1>3. \A m \in Methods : Versions(m)' = Versions(m)
  BY DEF Versions
<1>4. \A u \in Threads : \A m, v : Holds(u, m, v)' <=> Holds(u, m, v)
  BY DEF Holds
<1>5. Exist'
  BY <1>3, <1>4 DEF CInv, Exist
<1> QED
  BY <1>2, <1>5 DEF CInv

LEMMA LoadTables ==
  ASSUME IInv, CInv, NEW t \in Threads, NEW m \in Methods, NEW r \in Regions, Load(t, m, r)
  PROVE  CInv'
<1> DEFINE new == [method |-> m, start |-> r.start, end |-> r.end, state |-> "loading"]
           k == [op |-> "add", method |-> m, start |-> r.start, end |-> r.end]
<1>1. /\ \A c \in code : Disjoint(c, r)
      /\ code' = code \cup {new} /\ pc[t] = "idle"
      /\ call' = [call EXCEPT ![t] = k] /\ pc' = [pc EXCEPT ![t] = "lock"]
      /\ UNCHANGED <<groups, address_map, ranges, heap, version>>
  BY DEF Load, Begin, Goto, tableVars
<1>2. /\ call'[t] = k /\ pc'[t] = "lock"
      /\ \A u \in Threads : u # t => call'[u] = call[u] /\ pc'[u] = pc[u]
  BY <1>1 DEF IInv, Shape, TypeOK
<1>3. /\ new.method = m /\ new.start = r.start /\ new.end = r.end /\ new.state = "loading"
      /\ k.op = "add" /\ k.method = m /\ k.start = r.start /\ k.end = r.end
  OBVIOUS
<1> HIDE DEF new, k
<1>4. /\ r.start \in Nat /\ r.end \in Nat /\ r.start <= r.end
      /\ \A c \in code : c.start \in Nat /\ c.end \in Nat /\ c.start <= c.end
  BY RegionsAssumption DEF CInv, Placed
<1>5. Placed'
  <2>1. \A c \in code : Disjoint(c, new) /\ Disjoint(new, c)
    BY <1>1, <1>3 DEF Disjoint
  <2> QED
    BY <1>1, <1>3, <1>4, <2>1 DEF CInv, Placed
<1>6. \A c \in code : c.start # r.start
  BY <1>1, <1>4 DEF Disjoint
<1>7. \A u \in Threads : u # t /\ Reporting(u)' => Reporting(u) /\ call'[u] = call[u]
  BY <1>2 DEF Reporting
<1>8. \A u \in Threads : Reporting(u) => call[u].start # r.start
  BY <1>6 DEF CInv, Events, Reports
<1>9. Events'
  <2>1. Reports(t, new)'
    BY <1>2, <1>3 DEF Reports, new
  <2>2. \A u \in Threads : u # t /\ Reporting(u)' => \E c \in code' : Reports(u, c)'
    <3> SUFFICES ASSUME NEW u \in Threads, u # t, Reporting(u)'
                 PROVE  \E c \in code' : Reports(u, c)'
      OBVIOUS
    <3>1. PICK c \in code : Reports(u, c)
      BY <1>7 DEF CInv, Events
    <3> QED
      BY <1>1, <1>7, <3>1 DEF Reports
  <2>3. new \in code'
    BY <1>1
  <2>4. \A u \in Threads : Reporting(u)' => \E c \in code' : Reports(u, c)'
    BY <2>1, <2>2, <2>3 DEF Reports, new
  <2>5. \A u, v \in Threads :
          Reporting(u)' /\ Reporting(v)' /\ u # v => call'[u].start # call'[v].start
    BY <1>2, <1>3, <1>7, <1>8 DEF CInv, Events
  <2> QED
    BY <2>4, <2>5 DEF Events, Reports
<1>10. ~Live(new)
  BY <1>3 DEF Live
<1> QED
  BY <1>1, <1>2, <1>5, <1>9, <1>10, EventStep

LEMMA UnloadTables ==
  ASSUME IInv, CInv, NEW t \in Threads, NEW c \in code, Unload(t, c)
  PROVE  CInv'
<1> DEFINE gone == [c EXCEPT !.state = IF @ = "before" THEN "goingBefore" ELSE "unloading"]
           k == [op |-> "remove", method |-> c.method, start |-> c.start]
<1>1. /\ c.state \in {"before", "loaded"}
      /\ code' = (code \ {c}) \cup {gone} /\ pc[t] = "idle"
      /\ call' = [call EXCEPT ![t] = k] /\ pc' = [pc EXCEPT ![t] = "lock"]
      /\ UNCHANGED <<groups, address_map, ranges, heap, version>>
  BY DEF Unload, Begin, Goto, tableVars
<1>2. /\ call'[t] = k /\ pc'[t] = "lock"
      /\ \A u \in Threads : u # t => call'[u] = call[u] /\ pc'[u] = pc[u]
  BY <1>1 DEF IInv, Shape, TypeOK
<1>3. /\ gone.method = c.method /\ gone.start = c.start /\ gone.end = c.end
      /\ gone.state \in {"unloading", "goingBefore"}
      /\ c.state = "loaded" <=> gone.state = "unloading"
      /\ k.op = "remove" /\ k.method = c.method /\ k.start = c.start
  <2>1. c \in Code
    BY DEF IInv, Shape, TypeOK
  <2> QED
    BY <1>1, <2>1 DEF Code
<1> HIDE DEF gone, k
<1>4. Placed'
  BY <1>1, <1>3 DEF CInv, Placed, Disjoint
<1>5. \A u \in Threads : u # t /\ Reporting(u)' => Reporting(u) /\ call'[u] = call[u]
  BY <1>2 DEF Reporting
<1>6. ASSUME NEW u \in Threads, Reporting(u)
      PROVE  \E d \in code : Reports(u, d) /\ d # c /\ call[u].start # c.start
  <2>1. PICK d \in code : Reports(u, d)
    BY <1>6 DEF CInv, Events
  <2>2. d # c
    BY <1>1, <1>6, <2>1 DEF Reports, Reporting
  <2>3. d.start # c.start
    BY <2>2, SameStart DEF CInv
  <2> QED
    BY <2>1, <2>2, <2>3 DEF Reports
<1>7. Events'
  <2>1. \A u \in Threads : u # t /\ Reporting(u)' => \E d \in code' : Reports(u, d)'
    <3> SUFFICES ASSUME NEW u \in Threads, u # t, Reporting(u)'
                 PROVE  \E d \in code' : Reports(u, d)'
      OBVIOUS
    <3>1. PICK d \in code : Reports(u, d) /\ d # c
      BY <1>5, <1>6
    <3> QED
      BY <1>1, <1>5, <3>1 DEF Reports
  <2>2. gone \in code' /\ call'[t].op = "remove" /\ gone.method = call'[t].method
        /\ gone.start = call'[t].start
    BY <1>1, <1>2, <1>3
  <2>3. \A u \in Threads : Reporting(u)' => \E d \in code' : Reports(u, d)'
    BY <1>3, <2>1, <2>2 DEF Reports
  <2>4. \A u, v \in Threads :
          Reporting(u)' /\ Reporting(v)' /\ u # v => call'[u].start # call'[v].start
    BY <1>2, <1>3, <1>5, <1>6 DEF CInv, Events
  <2> QED
    BY <2>3, <2>4 DEF Events
<1>8. \A d \in code : Live(d) =>
        \E e \in code' : Live(e) /\ e.start = d.start /\ e.method = d.method
  BY <1>1, <1>3 DEF Live
<1>9. \A d \in code' : Live(d) =>
        \E e \in code : /\ Live(e) /\ e.start = d.start
                        /\ e.method = d.method /\ e.end = d.end
  BY <1>1, <1>3 DEF Live
<1> QED
  BY <1>1, <1>2, <1>4, <1>7, <1>8, <1>9, EventStep

LEMMA ConstructTables ==
  ASSUME IInv, CInv, NEW t \in Threads, Construct(t)
  PROVE  CInv'
<1> DEFINE m == call[t].method
<1>1. /\ pc[t] = "construct" /\ pc' = [pc EXCEPT ![t] = "relock"]
      /\ heap' = heap \cup {<<m, version[t]>>}
      /\ UNCHANGED <<groups, address_map, ranges, code, call, version>>
  BY DEF Construct, Goto
<1>2. pc'[t] = "relock" /\ \A u \in Threads : u # t => pc'[u] = pc[u]
  BY <1>1 DEF IInv, Shape, TypeOK
<1>3. \A u \in Threads : (Reporting(u)' <=> Reporting(u)) /\ (Adding(u)' <=> Adding(u))
  BY <1>1, <1>2 DEF Reporting, Adding
<1>4. Placed'
  BY <1>1 DEF CInv, Placed
<1>5. Events'
  BY <1>1, <1>3 DEF CInv, Events, Reports
<1>6. Entered'
  BY <1>1, <1>3 DEF CInv, Entered, HasEntry
<1>7. \A n \in Methods : Versions(n)' = Versions(n)
  BY <1>1 DEF Versions
<1>8. \A u \in Threads : \A n, v :
        Holds(u, n, v)' <=> Holds(u, n, v) \/ (u = t /\ n = m /\ v = version[t])
  BY <1>1, <1>2 DEF Holds
<1>9. Exist'
  BY <1>1, <1>7, <1>8 DEF CInv, Exist
<1> QED
  BY <1>4, <1>5, <1>6, <1>9 DEF CInv
(* addMethod publishes: the code it was called for becomes live.            *)
LEMMA AddEndTables ==
  ASSUME IInv, CInv, NEW t \in Threads, AddEnd(t)
  PROVE  CInv'
<1> DEFINE m == call[t].method
           start == call[t].start
<1>1. /\ pc[t] = "publish" /\ pc' = [pc EXCEPT ![t] = "idle"]
      /\ address_map' = [address_map EXCEPT ![m] =
           [a \in DOMAIN @ \cup {start} |-> IF a = start THEN version[t] ELSE @[a]]]
      /\ ranges' = Insert(ranges, start, call[t].end, <<m, version[t]>>)
      /\ code' = {IF c.start = start THEN [c EXCEPT !.state = "loaded"] ELSE c : c \in code}
      /\ call' = [call EXCEPT ![t] = NoCall] /\ version' = [version EXCEPT ![t] = 0]
      /\ UNCHANGED <<groups, heap>>
  BY DEF AddEnd, Release, Goto
<1>2. /\ pc'[t] = "idle"
      /\ \A u \in Threads : u # t => pc'[u] = pc[u] /\ call'[u] = call[u] /\ version'[u] = version[u]
  BY <1>1 DEF IInv, Shape, TypeOK
<1>3. Adding(t) /\ call[t].op = "add" /\ Reporting(t)
  BY <1>1 DEF Adding, Reporting, IInv, CallOK
<1>4. m \in Methods /\ m \in groups /\ version[t] \in Nat
  BY <1>1, <1>3 DEF IInv, CallOK, CInv, Entered, Shape
<1>5. PICK old \in code : Reports(t, old)
  BY <1>3 DEF CInv, Events
<1>6. /\ old.method = m /\ old.start = start /\ old.end = call[t].end /\ ~Live(old)
      /\ \A c \in code : c.start = start <=> c = old
  BY <1>3, <1>5, SameStart DEF Reports, Live, CInv
<1> DEFINE new == [old EXCEPT !.state = "loaded"]
<1>7. /\ code' = (code \ {old}) \cup {new}
      /\ new.method = m /\ new.start = start /\ new.end = call[t].end /\ Live(new)
  <2>1. old \in Code
    BY DEF IInv, Shape, TypeOK
  <2> QED
    BY <1>1, <1>6, <2>1 DEF Code, Live
<1> HIDE DEF new
<1>8. start \notin DOMAIN ranges /\ start \notin DOMAIN address_map[m]
  BY <1>4, <1>6 DEF CInv, Entered
<1>9. /\ DOMAIN ranges' = DOMAIN ranges \cup {start}
      /\ ranges'[start] = [end |-> call[t].end, data |-> <<m, version[t]>>]
      /\ \A a \in DOMAIN ranges : ranges'[a] = ranges[a]
  BY <1>1, <1>8 DEF Insert
<1>10. /\ \A n \in Methods : n # m => address_map'[n] = address_map[n]
       /\ DOMAIN address_map'[m] = DOMAIN address_map[m] \cup {start}
       /\ address_map'[m][start] = version[t]
       /\ \A a \in DOMAIN address_map[m] : address_map'[m][a] = address_map[m][a]
  BY <1>1, <1>4, <1>8 DEF IInv, Shape
<1>11. Placed'
  BY <1>6, <1>7 DEF CInv, Placed, Disjoint
<1>12. \A u \in Threads : Reporting(u)' => u # t /\ Reporting(u) /\ call'[u] = call[u]
  BY <1>2 DEF Reporting
<1>13. Events'
  <2>1. ASSUME NEW u \in Threads, Reporting(u)'
        PROVE  \E c \in code' : Reports(u, c)'
    <3>1. PICK c \in code : Reports(u, c)
      BY <1>12, <2>1 DEF CInv, Events
    <3>2. call[u].start # start
      BY <1>3, <1>12, <2>1 DEF CInv, Events
    <3>3. c \in code'
      BY <1>6, <1>7, <3>1, <3>2 DEF Reports
    <3> QED
      BY <1>12, <2>1, <3>1, <3>3 DEF Reports
  <2> QED
    BY <1>12, <2>1 DEF CInv, Events
<1>14. Entered'
  <2>1. HasEntry(new)'
    BY <1>1, <1>4, <1>7, <1>9, <1>10 DEF HasEntry, new
  <2>2. ASSUME NEW c \in code, c # old, Live(c) PROVE HasEntry(c)'
    <3>1. HasEntry(c) /\ c.start # start
      BY <1>6, <2>2 DEF CInv, Entered
    <3>2. c.method \in Methods
      BY DEF IInv, Shape, TypeOK, Code
    <3>3. c.start \in DOMAIN ranges' /\ ranges'[c.start] = ranges[c.start]
      BY <1>9, <3>1 DEF HasEntry
    <3>4. /\ c.start \in DOMAIN address_map'[c.method]
          /\ address_map'[c.method][c.start] = address_map[c.method][c.start]
      BY <1>10, <3>1, <3>2 DEF HasEntry
    <3> QED
      BY <1>1, <3>1, <3>3, <3>4 DEF HasEntry
  <2>3. \A c \in code' : Live(c) => HasEntry(c)'
    BY <1>7, <2>1, <2>2 DEF new, HasEntry
  <2>4. \A a \in DOMAIN ranges' : \E c \in code' : Live(c) /\ c.start = a
    BY <1>6, <1>7, <1>9 DEF CInv, Entered
  <2>5. \A n \in Methods : \A a \in DOMAIN address_map'[n] :
          \E c \in code' : Live(c) /\ c.start = a /\ c.method = n
    <3> SUFFICES ASSUME NEW n \in Methods, NEW a \in DOMAIN address_map'[n]
                 PROVE  \E c \in code' : Live(c) /\ c.start = a /\ c.method = n
      OBVIOUS
    <3>1. CASE n = m /\ a = start
      BY <1>7, <3>1
    <3>2. CASE ~(n = m /\ a = start)
      <4>1. a \in DOMAIN address_map[n]
        BY <1>10, <3>2
      <4>2. PICK c \in code : Live(c) /\ c.start = a /\ c.method = n
        BY <4>1 DEF CInv, Entered
      <4> QED
        BY <1>6, <1>7, <4>2
    <3> QED
      BY <3>1, <3>2
  <2>6. \A u \in Threads : Adding(u)' => call'[u].method \in groups'
    BY <1>1, <1>2 DEF CInv, Entered, Adding
  <2> QED
    BY <2>3, <2>4, <2>5, <2>6 DEF Entered, Live
<1>15. Exist'
  <2>1. \A n \in Methods : n # m => Versions(n)' = Versions(n)
    BY <1>10 DEF Versions
  <2>2. \A n \in Methods : n = m => Versions(n)' = Versions(n) \cup {version[t]}
    BY <1>8, <1>10 DEF Versions
  <2>3. \A u \in Threads : \A n, v : Holds(u, n, v)' <=> u # t /\ Holds(u, n, v)
    BY <1>2 DEF Holds
  <2>4. \A n, v : Holds(t, n, v) <=> n = m /\ v = version[t]
    BY <1>1 DEF Holds
  <2>5. heap' = heap /\ \A n \in Methods : \A v \in Nat :
          <<n, v>> \in heap <=> v \in Versions(n) \/ \E u \in Threads : Holds(u, n, v)
    BY <1>1 DEF CInv, Exist
  <2>6. ASSUME NEW n \in Methods, NEW v \in Nat
        PROVE  <<n, v>> \in heap' <=> v \in Versions(n)' \/ \E u \in Threads : Holds(u, n, v)'
    <3>1. CASE n = m
      BY <2>2, <2>3, <2>4, <2>5, <3>1
    <3>2. CASE n # m
      BY <2>1, <2>3, <2>4, <2>5, <3>2
    <3> QED
      BY <3>1, <3>2
  <2> QED
    BY <2>6 DEF Exist
<1> QED
  BY <1>11, <1>13, <1>14, <1>15 DEF CInv

(* removeMethod takes the code it was called for out of the tables, where   *)
(* it is unless it was compiled before the agent came.                      *)
LEMMA RemoveTables ==
  ASSUME IInv, CInv, NEW t \in Threads, Remove(t)
  PROVE  CInv'
<1> DEFINE m == call[t].method
           start == call[t].start
<1>1. /\ pc[t] = "locked" /\ call[t].op = "remove" /\ pc' = [pc EXCEPT ![t] = "idle"]
      /\ heap' = IF m \in groups /\ start \in DOMAIN address_map[m]
                    THEN heap \ {<<m, address_map[m][start]>>} ELSE heap
      /\ address_map' = [address_map EXCEPT ![m] = [a \in DOMAIN @ \ {start} |-> @[a]]]
      /\ ranges' = IF m \in groups THEN Without(ranges, start) ELSE ranges
      /\ code' = {c \in code : c.start # start}
      /\ call' = [call EXCEPT ![t] = NoCall] /\ version' = [version EXCEPT ![t] = 0]
      /\ groups' = groups
  BY DEF Remove, Inside, Release, Goto
<1>2. /\ pc'[t] = "idle"
      /\ \A u \in Threads : u # t => pc'[u] = pc[u] /\ call'[u] = call[u] /\ version'[u] = version[u]
  BY <1>1 DEF IInv, Shape, TypeOK
<1>3. Reporting(t)
  BY <1>1 DEF Reporting
<1>4. PICK old \in code : Reports(t, old)
  BY <1>3 DEF CInv, Events
<1>5. /\ old.method = m /\ old.start = start /\ old.method \in Methods
      /\ \A c \in code : c.start = start <=> c = old
  <2>1. old \in Code
    BY DEF IInv, Shape, TypeOK
  <2> QED
    BY <1>4, <2>1, SameStart DEF Reports, CInv, Code
<1>6. m \notin groups => start \notin DOMAIN ranges
  BY <1>5 DEF CInv, Entered, HasEntry
<1>7. /\ DOMAIN ranges' = DOMAIN ranges \ {start}
      /\ \A a \in DOMAIN ranges' : ranges'[a] = ranges[a]
  BY <1>1, <1>6 DEF Without
<1>8. /\ \A n \in Methods : n # m => address_map'[n] = address_map[n]
      /\ DOMAIN address_map'[m] = DOMAIN address_map[m] \ {start}
      /\ \A a \in DOMAIN address_map'[m] : address_map'[m][a] = address_map[m][a]
  BY <1>1, <1>5 DEF IInv, Shape
<1>9. code' = code \ {old}
  BY <1>1, <1>5
<1>10. Placed'
  BY <1>9 DEF CInv, Placed
<1>11. \A u \in Threads : Reporting(u)' => u # t /\ Reporting(u) /\ call'[u] = call[u]
  BY <1>2 DEF Reporting
<1>12. Events'
  <2>1. ASSUME NEW u \in Threads, Reporting(u)'
        PROVE  \E c \in code' : Reports(u, c)'
    <3>1. PICK c \in code : Reports(u, c)
      BY <1>11, <2>1 DEF CInv, Events
    <3>2. call[u].start # start
      BY <1>3, <1>11, <2>1 DEF CInv, Events
    <3>3. c \in code'
      BY <1>5, <1>9, <3>1, <3>2 DEF Reports
    <3> QED
      BY <1>11, <2>1, <3>1, <3>3 DEF Reports
  <2> QED
    BY <1>11, <2>1 DEF CInv, Events
<1>13. Entered'
  <2>1. ASSUME NEW c \in code', Live(c) PROVE HasEntry(c)'
    <3>1. HasEntry(c) /\ c.start # start /\ c \in code
      BY <1>5, <1>9, <2>1 DEF CInv, Entered
    <3>2. c.method \in Methods
      BY <3>1 DEF IInv, Shape, TypeOK, Code
    <3>3. c.start \in DOMAIN ranges' /\ ranges'[c.start] = ranges[c.start]
      BY <1>7, <3>1 DEF HasEntry
    <3>4. /\ c.start \in DOMAIN address_map'[c.method]
          /\ address_map'[c.method][c.start] = address_map[c.method][c.start]
      BY <1>8, <3>1, <3>2 DEF HasEntry
    <3> QED
      BY <1>1, <3>1, <3>3, <3>4 DEF HasEntry
  <2>2. \A a \in DOMAIN ranges' : \E c \in code' : Live(c) /\ c.start = a
    BY <1>5, <1>7, <1>9 DEF CInv, Entered
  <2>3. \A n \in Methods : \A a \in DOMAIN address_map'[n] :
          \E c \in code' : Live(c) /\ c.start = a /\ c.method = n
    <3> SUFFICES ASSUME NEW n \in Methods, NEW a \in DOMAIN address_map'[n]
                 PROVE  \E c \in code' : Live(c) /\ c.start = a /\ c.method = n
      OBVIOUS
    <3>1. a \in DOMAIN address_map[n] /\ (n = m => a # start)
      BY <1>8
    <3>2. PICK c \in code : Live(c) /\ c.start = a /\ c.method = n
      BY <3>1 DEF CInv, Entered
    <3> QED
      BY <1>5, <1>9, <3>1, <3>2
  <2>4. \A u \in Threads : Adding(u)' => call'[u].method \in groups'
    BY <1>1, <1>2 DEF CInv, Entered, Adding
  <2> QED
    BY <2>1, <2>2, <2>3, <2>4 DEF Entered, Live
<1>14. \A u \in Threads : \A n, v : Holds(u, n, v)' <=> Holds(u, n, v)
  BY <1>1, <1>2 DEF Holds
<1>15. \A n \in Methods : n # m => Versions(n)' = Versions(n)
  BY <1>8 DEF Versions
<1>16. \A n \in Methods : \A v \in Nat :
         <<n, v>> \in heap <=> v \in Versions(n) \/ \E u \in Threads : Holds(u, n, v)
  BY DEF CInv, Exist
<1>17. Exist'
  <2>1. CASE start \in DOMAIN address_map[m]
    <3> DEFINE gone == address_map[m][start]
    <3>1. m \in groups
      <4>1. PICK c \in code : Live(c) /\ c.start = start /\ c.method = m
        BY <1>5, <2>1 DEF CInv, Entered
      <4> QED
        BY <4>1 DEF CInv, Entered, HasEntry
    <3>2. heap' = heap \ {<<m, gone>>}
      BY <1>1, <2>1, <3>1
    <3>3. \A a \in DOMAIN address_map[m] : a # start => address_map[m][a] # gone
      BY <1>5, <2>1 DEF IInv, VersionsUnique
    <3>4. \A n \in Methods : n = m => Versions(n)' = Versions(n) \ {gone}
      BY <1>8, <2>1, <3>3 DEF Versions
    <3>5. gone \in Versions(m)
      BY <2>1 DEF Versions
    <3>6. \A u \in Threads : ~Holds(u, m, gone)
      BY <3>5 DEF IInv, VersionsUnique, Holds, Adding
    <3> HIDE DEF gone
    <3>7. ASSUME NEW n \in Methods, NEW v \in Nat
          PROVE  <<n, v>> \in heap' <=> v \in Versions(n)' \/ \E u \in Threads : Holds(u, n, v)'
      <4>1. CASE n = m
        BY <1>14, <1>16, <3>2, <3>4, <3>6, <4>1
      <4>2. CASE n # m
        BY <1>14, <1>15, <1>16, <3>2, <4>2
      <4> QED
        BY <4>1, <4>2
    <3> QED
      BY <3>7 DEF Exist
  <2>2. CASE start \notin DOMAIN address_map[m]
    <3>1. heap' = heap
      BY <1>1, <2>2
    <3>2. \A n \in Methods : n = m => Versions(n)' = Versions(n)
      BY <1>8, <2>2 DEF Versions
    <3> QED
      BY <1>14, <1>15, <1>16, <3>1, <3>2 DEF Exist
  <2> QED
    BY <2>1, <2>2
<1> QED
  BY <1>10, <1>12, <1>13, <1>17 DEF CInv
LEMMA NextTables ==
  ASSUME IInv, CInv, [Next]_vars
  PROVE  CInv'
<1>1. ASSUME NEW t \in Threads, Step(t) PROVE CInv'
  BY <1>1, AcquireTables, AddBeginTables, ConstructTables, AddEndTables, RemoveTables,
     ShortTables DEF Step
<1>2. CASE UNCHANGED vars
  BY <1>2, QuietStep DEF vars, tableVars, threadVars, CInv, Entered, Reporting, Adding
<1> QED
  BY <1>1, <1>2, QueryTables, LoadTables, UnloadTables DEF Next

-----------------------------------------------------------------------------
(* What the invariant says about the lookups and the assertion.             *)

LEMMA TablesAgreeHolds ==
  ASSUME IInv, CInv
  PROVE  TablesAgree
<1>1. heap = (UNION {{<<m, v>> : v \in Versions(m)} : m \in Methods}) \cup Unpublished
  <2>1. heap \subseteq Methods \X Nat /\ \A m \in Methods : Versions(m) \subseteq Nat
    BY DEF IInv, Shape, TypeOK
  <2>2. ASSUME NEW o \in heap
        PROVE  \/ \E m \in Methods : \E v \in Versions(m) : o = <<m, v>>
               \/ o \in Unpublished
    <3>1. PICK m \in Methods, v \in Nat : o = <<m, v>>
      BY <2>1
    <3>2. v \in Versions(m) \/ \E t \in Threads : Holds(t, m, v)
      BY <3>1 DEF CInv, Exist
    <3> QED
      BY <3>1, <3>2 DEF Holds, Unpublished
  <2>3. \A m \in Methods : \A v \in Versions(m) : <<m, v>> \in heap
    BY <2>1 DEF CInv, Exist
  <2>4. ASSUME NEW o \in Unpublished PROVE o \in heap
    <3>1. PICK t \in Threads : pc[t] \in {"relock", "publish"} /\ o = <<call[t].method, version[t]>>
      BY DEF Unpublished
    <3>2. call[t].method \in Methods /\ version[t] \in Nat
      BY <3>1 DEF IInv, CallOK, Adding, Shape
    <3> QED
      BY <3>1, <3>2 DEF CInv, Exist, Holds
  <2> DEFINE Of(m) == {<<m, v>> : v \in Versions(m)}
             Published == UNION {Of(m) : m \in Methods}
  <2>5. \A m \in Methods : \A o : o \in Of(m) <=> \E v \in Versions(m) : o = <<m, v>>
    OBVIOUS
  <2> HIDE DEF Of
  <2>6. \A o : o \in Published <=> \E m \in Methods : o \in Of(m)
    OBVIOUS
  <2> HIDE DEF Published
  <2>7. heap = Published \cup Unpublished
    BY <2>2, <2>3, <2>4, <2>5, <2>6
  <2> QED
    BY <2>7 DEF Published, Of
<1>2. \A c \in code : c.method \in Methods
  BY DEF IInv, Shape, TypeOK, Code
<1>3. DOMAIN ranges = UNION {DOMAIN address_map[m] : m \in Methods}
  <2>1. \A a \in DOMAIN ranges : \E m \in Methods : a \in DOMAIN address_map[m]
    <3> SUFFICES ASSUME NEW a \in DOMAIN ranges
                 PROVE  \E m \in Methods : a \in DOMAIN address_map[m]
      OBVIOUS
    <3>1. PICK c \in code : Live(c) /\ c.start = a
      BY DEF CInv, Entered
    <3>2. HasEntry(c)
      BY <3>1 DEF CInv, Entered
    <3> QED
      BY <1>2, <3>1, <3>2 DEF HasEntry
  <2>2. \A m \in Methods : \A a \in DOMAIN address_map[m] : a \in DOMAIN ranges
    <3> SUFFICES ASSUME NEW m \in Methods, NEW a \in DOMAIN address_map[m]
                 PROVE  a \in DOMAIN ranges
      OBVIOUS
    <3>1. PICK c \in code : Live(c) /\ c.start = a
      BY DEF CInv, Entered
    <3>2. HasEntry(c)
      BY <3>1 DEF CInv, Entered
    <3> QED
      BY <3>1, <3>2 DEF HasEntry
  <2> QED
    BY <2>1, <2>2
<1>4. ASSUME NEW a \in DOMAIN ranges
      PROVE  /\ a \in DOMAIN address_map[ranges[a].data[1]]
             /\ ranges[a].data = <<ranges[a].data[1], address_map[ranges[a].data[1]][a]>>
  <2>1. PICK c \in code : Live(c) /\ c.start = a
    BY DEF CInv, Entered
  <2>2. HasEntry(c)
    BY <2>1 DEF CInv, Entered
  <2> QED
    BY <2>1, <2>2 DEF HasEntry
<1> QED
  BY <1>1, <1>3, <1>4 DEF TablesAgree

(* The live code at an address is what upper_bound leads to.                *)
LEMMA LookupFinds ==
  ASSUME IInv, CInv, NEW addr \in Nat, NEW c \in code, Live(c), Covers(c, addr)
  PROVE  FoundAt(addr) = <<c.method, address_map[c.method][c.start]>>
<1>1. HasEntry(c) /\ c.start \in Nat /\ c.end \in Nat
  BY DEF CInv, Entered, Placed
<1>2. ASSUME NEW a \in DOMAIN ranges PROVE a \in Nat /\ (a <= addr => a <= c.start)
  <2>1. PICK d \in code : Live(d) /\ d.start = a
    BY DEF CInv, Entered
  <2>2. /\ d.start \in Nat /\ d.end \in Nat /\ d.start <= d.end
        /\ d # c => d.end < c.start \/ c.end < d.start
    BY DEF CInv, Placed, Disjoint
  <2> QED
    BY <1>1, <2>1, <2>2 DEF Covers
<1>3. IsLast(ranges, addr, c.start)
  BY <1>1, <1>2 DEF IsLast, HasEntry, Covers
<1>4. \A a \in DOMAIN ranges : IsLast(ranges, addr, a) => a = c.start
  BY <1>1, <1>2, <1>3 DEF IsLast
<1>5. (CHOOSE a \in DOMAIN ranges : IsLast(ranges, addr, a)) = c.start
  BY <1>1, <1>3, <1>4 DEF HasEntry
<1>6. HasData(ranges, addr)
  BY <1>1, <1>3 DEF HasData, HasEntry, Covers
<1>7. ranges[c.start].data = <<c.method, address_map[c.method][c.start]>>
  BY <1>1 DEF HasEntry
<1> QED
  BY <1>5, <1>6, <1>7 DEF FoundAt, GetData

LEMMA FindsCurrentCodeHolds ==
  ASSUME IInv, CInv
  PROVE  FindsCurrentCode
<1> SUFFICES ASSUME NEW addr \in Addresses
             PROVE  LET at == {c \in code : c.state \in {"loaded", "unloading"} /\ Covers(c, addr)}
                    IN  IF at = {} THEN FoundAt(addr) = NoMethod
                        ELSE \E c \in at : FoundAt(addr)[1] = c.method /\ FoundAt(addr) \in heap
  BY DEF FindsCurrentCode
<1> DEFINE at == {c \in code : c.state \in {"loaded", "unloading"} /\ Covers(c, addr)}
<1>1. addr \in Nat
  BY RegionsAssumption DEF Addresses
<1>2. CASE at = {}
  <2>1. ~HasData(ranges, addr)
    <3> SUFFICES ASSUME NEW a \in DOMAIN ranges, a <= addr, addr <= ranges[a].end
                 PROVE  FALSE
      BY DEF HasData, IsLast
    <3>1. PICK c \in code : Live(c) /\ c.start = a
      BY DEF CInv, Entered
    <3>2. HasEntry(c)
      BY <3>1 DEF CInv, Entered
    <3>3. Covers(c, addr)
      BY <3>1, <3>2 DEF Covers, HasEntry
    <3> QED
      BY <1>2, <3>1, <3>3 DEF Live
  <2> QED
    BY <1>2, <2>1 DEF FoundAt
<1>3. CASE at # {}
  <2>1. PICK c \in code : Live(c) /\ Covers(c, addr)
    BY <1>3 DEF Live
  <2>2. FoundAt(addr) = <<c.method, address_map[c.method][c.start]>>
    BY <1>1, <2>1, LookupFinds
  <2>3. HasEntry(c) /\ c.method \in Methods
    BY <2>1 DEF CInv, Entered, IInv, Shape, TypeOK, Code
  <2>4. address_map[c.method][c.start] \in Versions(c.method) /\ Versions(c.method) \subseteq Nat
    BY <2>3 DEF HasEntry, Versions, IInv, Shape, TypeOK
  <2>5. <<c.method, address_map[c.method][c.start]>> \in heap
    BY <2>3, <2>4 DEF CInv, Exist
  <2>6. c \in at
    BY <2>1 DEF Live
  <2> QED
    BY <1>3, <2>2, <2>5, <2>6
<1> QED
  BY <1>2, <1>3

(* The assertion of removeMethod fails only for code from before.           *)
LEMMA AbortStep ==
  ASSUME IInv, CInv, [Next]_vars, ~aborted, aborted'
  PROVE  \E c \in code \ code' : c.state = "goingBefore"
<1>1. PICK t \in Threads : Remove(t)
  BY DEF Next, Step, Query, Load, Unload, Begin, Acquire, AddBegin, Construct, AddEnd,
         Lookup, Check, AddUncompiled, vars
<1>2. /\ pc[t] = "locked" /\ call[t].op = "remove"
      /\ code' = {c \in code : c.start # call[t].start}
      /\ ~CanRemove(ranges, call[t].start)
  BY <1>1 DEF Remove, Inside
<1>3. PICK c \in code : Reports(t, c)
  BY <1>2 DEF CInv, Events, Reporting
<1>4. c.start = call[t].start /\ c.state \in {"unloading", "goingBefore"}
  BY <1>2, <1>3 DEF Reports
<1>5. ASSUME Live(c) PROVE CanRemove(ranges, c.start)
  <2>1. HasEntry(c) /\ c.start \in Nat /\ c.start <= c.end
    BY <1>5 DEF CInv, Entered, Placed
  <2>2. \A a \in DOMAIN ranges : a \in Nat
    BY DEF CInv, Entered, Placed
  <2>3. IsLast(ranges, c.start, c.start)
    BY <2>1, <2>2 DEF IsLast, HasEntry
  <2> QED
    BY <2>1, <2>3 DEF CanRemove, HasData, HasEntry
<1> QED
  BY <1>2, <1>4, <1>5 DEF Live

(* Version v of m has been given out, and no thread is about to construct it.*)
Spent(m, v) ==
  /\ v <= recent[m]
  /\ \A t \in Threads : ~(pc[t] = "construct" /\ call[t].method = m /\ version[t] = v)

(* The version of an object that exists is spent.                           *)
LEMMA ExistingIsSpent ==
  ASSUME IInv, CInv, NEW m \in Methods, NEW v \in Nat, <<m, v>> \in heap
  PROVE  Spent(m, v)
<1>1. v \in Versions(m) \/ \E t \in Threads : Holds(t, m, v)
  BY DEF CInv, Exist
<1>2. CASE v \in Versions(m)
  <2>1. v <= recent[m]
    BY <1>2 DEF Versions, IInv, Bounded
  <2>2. \A t \in Threads : Adding(t) => version[t] \notin Versions(call[t].method)
    BY DEF IInv, VersionsUnique
  <2> QED
    BY <1>2, <2>1, <2>2 DEF Spent, Adding
<1>3. ASSUME NEW u \in Threads, Holds(u, m, v) PROVE Spent(m, v)
  <2>1. Adding(u) /\ call[u].method = m /\ version[u] = v /\ pc[u] # "construct"
    BY <1>3 DEF Holds, Adding
  <2>2. v <= recent[m]
    BY <2>1 DEF IInv, Bounded
  <2>3. ASSUME NEW t \in Threads, pc[t] = "construct", call[t].method = m, version[t] = v
        PROVE  FALSE
    <3>1. t # u /\ Adding(t)
      BY <2>1, <2>3 DEF Adding
    <3> QED
      BY <2>1, <2>3, <3>1 DEF IInv, VersionsUnique
  <2> QED
    BY <2>2, <2>3 DEF Spent
<1> QED
  BY <1>1, <1>2, <1>3

(* Only AddBegin sends a thread to its constructor.                         *)
LEMMA OnlyAddBegin ==
  ASSUME IInv, [Next]_vars, ~ \E t \in Threads : AddBegin(t)
  PROVE  /\ recent' = recent
         /\ \A t \in Threads : pc'[t] = "construct" =>
              pc[t] = "construct" /\ call'[t] = call[t] /\ version'[t] = version[t]
<1>1. CASE UNCHANGED vars
  BY <1>1 DEF vars, tableVars, threadVars
<1>2. ASSUME NEW u \in Threads, NEW p \in PCs \ {"construct"}, Goto(u, p),
             \A t \in Threads : t # u => call'[t] = call[t] /\ version'[t] = version[t]
      PROVE  \A t \in Threads : pc'[t] = "construct" =>
               pc[t] = "construct" /\ call'[t] = call[t] /\ version'[t] = version[t]
  <2>1. pc \in [Threads -> PCs]
    BY DEF IInv, Shape, TypeOK, PCs
  <2>2. pc'[u] = p /\ \A t \in Threads : t # u => pc'[t] = pc[t]
    BY <1>2, <2>1 DEF Goto
  <2> QED
    BY <1>2, <2>2
<1>3. DOMAIN call = Threads /\ version \in [Threads -> Nat]
  BY DEF IInv, Shape
<1>4. ASSUME NEW u \in Threads, NEW c, Begin(u, c)
      PROVE  /\ recent' = recent /\ Goto(u, "lock")
             /\ \A t \in Threads : t # u => call'[t] = call[t] /\ version'[t] = version[t]
  BY <1>3, <1>4 DEF Begin, tableVars
<1>5. ASSUME NEW u \in Threads,
             Query(u) \/ (\E m \in Methods, r \in Regions : Load(u, m, r))
                      \/ (\E c \in code : Unload(u, c))
      PROVE  /\ recent' = recent /\ Goto(u, "lock")
             /\ \A t \in Threads : t # u => call'[t] = call[t] /\ version'[t] = version[t]
  <2>1. \E c : Begin(u, c)
    BY <1>5 DEF Query, Load, Unload
  <2> QED
    BY <1>4, <2>1
<1>6. ASSUME NEW u \in Threads, Acquire(u) \/ Construct(u)
      PROVE  /\ recent' = recent /\ (Goto(u, "locked") \/ Goto(u, "publish") \/ Goto(u, "relock"))
             /\ call' = call /\ version' = version
  BY <1>6 DEF Acquire, Construct, tableVars
<1>7. ASSUME NEW u \in Threads,
             AddEnd(u) \/ Remove(u) \/ Lookup(u) \/ Check(u) \/ AddUncompiled(u)
      PROVE  /\ recent' = recent /\ Goto(u, "idle")
             /\ \A t \in Threads : t # u => call'[t] = call[t] /\ version'[t] = version[t]
  <2>1. recent' = recent /\ Release(u)
    BY <1>7 DEF AddEnd, Remove, Lookup, Check, AddUncompiled, tableVars
  <2> QED
    BY <1>3, <2>1 DEF Release
<1>8. {"idle", "lock", "locked", "relock", "publish"} \subseteq PCs \ {"construct"}
  BY DEF PCs
<1> QED
  BY <1>1, <1>2, <1>5, <1>6, <1>7, <1>8 DEF Next, Step

LEMMA SpentStays ==
  ASSUME IInv, [Next]_vars, NEW m \in Methods, NEW v \in Nat, Spent(m, v)
  PROVE  Spent(m, v)'
<1>1. ASSUME NEW u \in Threads, AddBegin(u) PROVE Spent(m, v)'
  <2>1. /\ pc[u] = "locked" /\ call[u].op = "add" /\ call' = call
        /\ recent' = [recent EXCEPT ![call[u].method] = @ + 1]
        /\ version' = [version EXCEPT ![u] = recent'[call[u].method]]
        /\ pc' = [pc EXCEPT ![u] = "construct"]
    BY <1>1 DEF AddBegin, Inside, Goto
  <2>2. call[u].method \in Methods
    BY <2>1 DEF IInv, CallOK
  <2>3. /\ recent \in [Methods -> Nat] /\ version \in [Threads -> Nat]
        /\ pc \in [Threads -> PCs]
    BY DEF IInv, Shape, TypeOK, PCs
  <2>4. recent[m] <= recent'[m] /\ recent'[m] \in Nat /\ recent[m] \in Nat
        /\ recent'[call[u].method] = recent[call[u].method] + 1
    BY <2>1, <2>2, <2>3
  <2>5. v <= recent'[m]
    BY <2>4 DEF Spent
  <2>6. version'[u] = recent[call[u].method] + 1
    BY <2>1, <2>3, <2>4
  <2>7. call[u].method = m => version'[u] # v
    BY <2>4, <2>6 DEF Spent
  <2>8. \A t \in Threads : t # u => version'[t] = version[t] /\ pc'[t] = pc[t]
    BY <2>1, <2>3
  <2> QED
    BY <2>1, <2>5, <2>7, <2>8 DEF Spent
<1>2. CASE ~ \E t \in Threads : AddBegin(t)
  BY <1>2, OnlyAddBegin DEF Spent
<1> QED
  BY <1>1, <1>2

(* A spent version is constructed no more.                                  *)
LEMMA SpentIsNotMade ==
  ASSUME [Next]_vars, NEW m \in Methods, NEW v \in Nat, Spent(m, v), <<m, v>> \notin heap
  PROVE  <<m, v>> \notin heap'
<1>1. ASSUME NEW t \in Threads, Construct(t) PROVE <<m, v>> \notin heap'
  BY <1>1 DEF Construct, Spent
<1>2. CASE UNCHANGED vars
  BY <1>2 DEF vars, tableVars
<1>3. ASSUME NEW t \in Threads,
             \/ Acquire(t) \/ AddBegin(t) \/ AddEnd(t) \/ Remove(t)
             \/ Lookup(t) \/ Check(t) \/ AddUncompiled(t) \/ Query(t)
             \/ (\E n \in Methods, r \in Regions : Load(t, n, r))
             \/ (\E c \in code : Unload(t, c))
      PROVE  heap' \subseteq heap
  BY <1>3 DEF Acquire, AddBegin, AddEnd, Remove, Lookup, Check, AddUncompiled, Query, Load, Unload,
              Begin, tableVars
<1> QED
  BY <1>1, <1>2, <1>3 DEF Next, Step

-----------------------------------------------------------------------------
(* The invariant, for all threads, methods and regions.                     *)
THEOREM InductiveInvariant == Spec => []IInv
<1>1. Init => IInv
  BY InitHolds
<1>2. IInv /\ [Next]_vars => IInv'
  BY NextStep
<1> QED
  BY <1>1, <1>2, PTL DEF Spec

(* Types.                                                                   *)
THEOREM TypeCorrect == Spec => []TypeOK
<1>1. IInv => TypeOK
  BY DEF IInv, Shape
<1> QED
  BY <1>1, InductiveInvariant, PTL

(* No two versions of a method are the same, finished or under              *)
(* construction, however the threads that add code interleave.              *)
THEOREM VersionsUniqueAlways == Spec => []VersionsUnique
<1>1. IInv => VersionsUnique
  BY DEF IInv
<1> QED
  BY <1>1, InductiveInvariant, PTL

(* The tables, the heap and the calls correspond to the code of the VM.     *)
THEOREM TablesInvariant == Spec => [](IInv /\ CInv)
<1>1. Init => IInv /\ CInv
  BY InitHolds, InitTables
<1>2. (IInv /\ CInv) /\ [Next]_vars => (IInv /\ CInv)'
  BY NextStep, NextTables
<1> QED
  BY <1>1, <1>2, PTL DEF Spec

(* The two tables of the code cache agree with each other and with the      *)
(* heap: no entry leads to a deleted object, and none is leaked.            *)
THEOREM TablesAgreeAlways == Spec => []TablesAgree
<1>1. IInv /\ CInv => TablesAgree
  BY TablesAgreeHolds
<1> QED
  BY <1>1, TablesInvariant, PTL

(* getMethod(addr) answers with the code that is there and with a live      *)
(* object, or with nothing.                                                 *)
THEOREM FindsCurrentCodeAlways == Spec => []FindsCurrentCode
<1>1. IInv /\ CInv => FindsCurrentCode
  BY FindsCurrentCodeHolds
<1> QED
  BY <1>1, TablesInvariant, PTL

(* assert(_method_range_set.remove(code_addr)) fails only for code that     *)
(* was compiled before the agent was attached.                              *)
THEOREM UnloadFindsRangeAlways == Spec => UnloadFindsRange
<1>1. (IInv /\ CInv) /\ [Next]_vars =>
        [~aborted /\ aborted' => \E c \in code \ code' : c.state = "goingBefore"]_vars
  BY AbortStep
<1> QED
  BY <1>1, TablesInvariant, PTL DEF Spec, UnloadFindsRange

(* The version of a deleted object is not given to a later compilation.     *)
THEOREM VersionsNeverReusedAlways == Spec => VersionsNeverReused
<1>1. ASSUME NEW m \in Methods, NEW v \in 1..MaxVersion
      PROVE  Spec => [](<<m, v>> \in heap => [](<<m, v>> \notin heap => [](<<m, v>> \notin heap)))
  <2>1. v \in Nat
    OBVIOUS
  <2>2. (IInv /\ CInv) /\ <<m, v>> \in heap => Spent(m, v)
    BY <2>1, ExistingIsSpent
  <2>3. (IInv /\ CInv) /\ [Next]_vars /\ Spent(m, v) => Spent(m, v)'
    BY <2>1, SpentStays
  <2>4. [Next]_vars /\ Spent(m, v) /\ <<m, v>> \notin heap => (<<m, v>> \notin heap)'
    BY <2>1, SpentIsNotMade
  <2> QED
    BY <2>2, <2>3, <2>4, TablesInvariant, PTL DEF Spec
<1> QED
  BY <1>1 DEF VersionsNeverReused
=============================================================================
