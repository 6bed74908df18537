--------------------------- MODULE CallPathsProofs ---------------------------
(***************************************************************************)
(* CallPaths for any number of threads, methods, frames and attachments:   *)
(* what the trace, cachemiss and alloc files mention, the method file of   *)
(* the same attachment names.                                              *)
(***************************************************************************)
EXTENDS CallPaths, SequenceTheorems, TLAPS

PCs == {"run", "entry", "alloc", "locked"}

Types ==
    /\ attached \in [Threads -> Nat]
    /\ stack \in [Threads -> Seq(Methods)]
    /\ pc \in [Threads -> PCs]
    /\ todo \in [Threads -> Seq(Methods)]
    /\ DOMAIN object = Threads
    /\ method_id_list \in [Threads -> SUBSET Methods]
    /\ callpath_vec \in [Threads -> Seq(Methods)]
    /\ names \in [Threads -> [Methods -> Nat]]
    /\ traced \in [Threads -> SUBSET Methods]
    /\ alloc \in [Threads -> SUBSET Methods]
    /\ missed \in [Threads -> SUBSET Methods]

(* The methods that have a name, or whose entry had no stack trace.         *)
Known(t) == Named(t) \cup missed[t]

(* What MethodEntry has still to name.                                      *)
Pending(t) == IF pc[t] = "entry" THEN ToSet(todo[t]) ELSE {}

(* A thread outside Java has no frames and is in no callback.               *)
Outside(t) ==
    /\ ~Attached(t) => stack[t] = <<>> /\ pc[t] = "run"
    /\ pc[t] = "locked" => todo[t] # <<>>

(* The lists a thread keeps hold only methods that have a name, and every   *)
(* method on its stack has one, will get it from the MethodEntry under way, *)
(* or was missed.                                                           *)
Lists(t) ==
    /\ method_id_list[t] \subseteq Named(t)
    /\ ToSet(callpath_vec[t]) \subseteq Named(t)
    /\ ToSet(stack[t]) \subseteq Known(t) \cup Pending(t)
    /\ pc[t] \in {"alloc", "locked"} => ToSet(todo[t]) \subseteq Known(t)

(* What the files say.                                                      *)
Files(t) == traced[t] = {} /\ alloc[t] \subseteq missed[t]

Local(t) == Outside(t) /\ Lists(t) /\ Files(t)

IInv == Types /\ \A t \in Threads : Local(t)

-----------------------------------------------------------------------------
(* The elements of sequences.                                               *)

LEMMA ElementsOfEmpty == ToSet(<<>>) = {}
  BY DEF ToSet

LEMMA ElementsOfTail ==
  ASSUME NEW S, NEW s \in Seq(S), s # <<>>
  PROVE  /\ Head(s) \in S /\ Tail(s) \in Seq(S) /\ Head(s) \in ToSet(s)
         /\ ToSet(s) = {Head(s)} \cup ToSet(Tail(s))
<1>1. /\ Len(s) \in Nat \ {0} /\ DOMAIN s = 1..Len(s) /\ Head(s) = s[1]
  BY LenProperties, EmptySeq
<1>2. /\ Head(s) \in S /\ Tail(s) \in Seq(S) /\ Len(Tail(s)) = Len(s) - 1
      /\ \A i \in 1..Len(Tail(s)) : Tail(s)[i] = s[i + 1]
  BY HeadTailProperties
<1>3. DOMAIN Tail(s) = 1..(Len(s) - 1)
  BY <1>2, LenProperties
<1>4. \A i \in DOMAIN s : i = 1 \/ (i - 1 \in DOMAIN Tail(s) /\ s[i] = Tail(s)[i - 1])
  BY <1>1, <1>2, <1>3
<1>5. \A i \in DOMAIN Tail(s) : i + 1 \in DOMAIN s /\ Tail(s)[i] = s[i + 1]
  BY <1>1, <1>2, <1>3
<1>6. 1 \in DOMAIN s
  BY <1>1
<1>7. ToSet(s) \subseteq {Head(s)} \cup ToSet(Tail(s))
  BY <1>1, <1>4 DEF ToSet
<1>8. ToSet(Tail(s)) \subseteq ToSet(s) /\ Head(s) \in ToSet(s)
  BY <1>1, <1>5, <1>6 DEF ToSet
<1> QED
  BY <1>2, <1>7, <1>8

LEMMA ElementsOfAppend ==
  ASSUME NEW S, NEW s \in Seq(S), NEW e \in S
  PROVE  Append(s, e) \in Seq(S) /\ ToSet(Append(s, e)) = ToSet(s) \cup {e}
<1>1. Len(s) \in Nat /\ DOMAIN s = 1..Len(s)
  BY LenProperties
<1>2. /\ Append(s, e) \in Seq(S) /\ Len(Append(s, e)) = Len(s) + 1
      /\ \A i \in 1..Len(s) : Append(s, e)[i] = s[i]
      /\ Append(s, e)[Len(s) + 1] = e
  BY AppendProperties
<1>3. DOMAIN Append(s, e) = 1..(Len(s) + 1)
  BY <1>2, LenProperties
<1>4. \A i \in DOMAIN Append(s, e) : i = Len(s) + 1 \/ i \in DOMAIN s
  BY <1>1, <1>3
<1>5. DOMAIN s \subseteq DOMAIN Append(s, e) /\ Len(s) + 1 \in DOMAIN Append(s, e)
  BY <1>1, <1>3
<1> QED
  BY <1>1, <1>2, <1>4, <1>5 DEF ToSet

(* A piece of a sequence from m to its end or to the element before.        *)
LEMMA ElementsOfPiece ==
  ASSUME NEW S, NEW s \in Seq(S), NEW m \in Nat \ {0}, NEW n \in Int, n <= Len(s)
  PROVE  /\ SubSeq(s, m, n) \in Seq(S)
         /\ ToSet(SubSeq(s, m, n)) \subseteq ToSet(s)
         /\ m <= n => s[n] \in ToSet(SubSeq(s, m, n))
<1> DEFINE p == SubSeq(s, m, n)
<1>1. Len(s) \in Nat /\ DOMAIN s = 1..Len(s)
  BY LenProperties
<1>2. \A i \in m..n : s[i] \in S
  BY <1>1, ElementOfSeq
<1>3. /\ p \in Seq(S) /\ Len(p) = IF m <= n THEN n - m + 1 ELSE 0
      /\ \A i \in 1..(n - m + 1) : p[i] = s[m + i - 1]
  BY <1>2, SubSeqProperties
<1> HIDE DEF p
<1>4. DOMAIN p = 1..(n - m + 1)
  BY <1>3, LenProperties
<1>5. \A i \in DOMAIN p : m + i - 1 \in DOMAIN s /\ p[i] = s[m + i - 1]
  BY <1>1, <1>3, <1>4
<1>6. m <= n => n - m + 1 \in DOMAIN p /\ p[n - m + 1] = s[n]
  BY <1>1, <1>3, <1>4
<1> QED
  BY <1>3, <1>5, <1>6 DEF ToSet, p

(* The last n frames are frames of the stack, the innermost one included.   *)
LEMMA ElementsOfFrames ==
  ASSUME NEW S, NEW s \in Seq(S), NEW n \in Nat \ {0}
  PROVE  /\ Frames(s, n) \in Seq(S)
         /\ ToSet(Frames(s, n)) \subseteq ToSet(s)
         /\ s # <<>> => s[Len(s)] \in ToSet(Frames(s, n))
<1> DEFINE m == IF Len(s) > n THEN Len(s) - n + 1 ELSE 1
<1>1. Len(s) \in Nat /\ (s # <<>> => Len(s) # 0)
  BY LenProperties, EmptySeq
<1>2. m \in Nat \ {0} /\ Len(s) \in Int /\ Len(s) <= Len(s) /\ (s # <<>> => m <= Len(s))
  BY <1>1
<1>3. Frames(s, n) = SubSeq(s, m, Len(s))
  BY DEF Frames
<1> HIDE DEF m
<1> QED
  BY <1>2, <1>3, ElementsOfPiece

LEMMA ElementsOfFront ==
  ASSUME NEW S, NEW s \in Seq(S)
  PROVE  Front(s) \in Seq(S) /\ ToSet(Front(s)) \subseteq ToSet(s)
<1>1. Len(s) - 1 \in Int /\ Len(s) - 1 <= Len(s) /\ 1 \in Nat \ {0}
  BY LenProperties
<1> QED
  BY <1>1, ElementsOfPiece DEF Front

-----------------------------------------------------------------------------
(* A thread that a step does not touch keeps its part of the invariant.     *)
Same(t) ==
    /\ attached'[t] = attached[t] /\ stack'[t] = stack[t] /\ pc'[t] = pc[t]
    /\ todo'[t] = todo[t] /\ method_id_list'[t] = method_id_list[t]
    /\ callpath_vec'[t] = callpath_vec[t] /\ names'[t] = names[t]
    /\ traced'[t] = traced[t] /\ alloc'[t] = alloc[t] /\ missed'[t] = missed[t]

LEMMA SameKeeps ==
  ASSUME NEW t \in Threads, Local(t), Same(t)
  PROVE  Local(t)'
  BY DEF Local, Outside, Lists, Files, Known, Pending, Named, Attached, Same

LEMMA InitHolds ==
  ASSUME Init
  PROVE  IInv
<1>1. <<>> \in Seq(Methods)
  BY EmptySeq
<1>2. NoLines \in [Methods -> Nat]
  BY DEF NoLines
<1>3. Types
  BY <1>1, <1>2 DEF Init, Types, PCs
<1>4. \A t \in Threads : Outside(t)
  BY DEF Init, Outside
<1>5. \A t \in Threads : Lists(t) /\ Files(t)
  BY ElementsOfEmpty DEF Init, Lists, Files
<1> QED
  BY <1>3, <1>4, <1>5 DEF IInv, Local

LEMMA ThreadStartStep ==
  ASSUME IInv, NEW t \in Threads, ThreadStart(t)
  PROVE  IInv'
<1>1. /\ stack[t] = <<>> /\ pc[t] = "run"
      /\ attached' = [attached EXCEPT ![t] = @ + 1]
      /\ method_id_list' = [method_id_list EXCEPT ![t] = {}]
      /\ callpath_vec' = [callpath_vec EXCEPT ![t] = <<>>]
      /\ names' = [names EXCEPT ![t] = NoLines]
      /\ traced' = [traced EXCEPT ![t] = {}] /\ alloc' = [alloc EXCEPT ![t] = {}]
      /\ missed' = [missed EXCEPT ![t] = {}]
      /\ UNCHANGED <<stack, pc, todo, object>>
  BY DEF ThreadStart, IInv, Local, Outside
<1>2. <<>> \in Seq(Methods) /\ NoLines \in [Methods -> Nat]
  BY EmptySeq DEF NoLines
<1>3. Types'
  BY <1>1, <1>2 DEF IInv, Types
<1>4. \A u \in Threads : u # t => Same(u)
  BY <1>1 DEF IInv, Types, Same
<1>5. Local(t)'
  <2>1. /\ stack'[t] = <<>> /\ pc'[t] = "run" /\ method_id_list'[t] = {}
        /\ callpath_vec'[t] = <<>> /\ traced'[t] = {} /\ alloc'[t] = {}
    BY <1>1 DEF IInv, Types
  <2> QED
    BY <2>1, ElementsOfEmpty DEF Local, Outside, Lists, Files
<1> QED
  BY <1>3, <1>4, <1>5, SameKeeps DEF IInv

LEMMA ThreadEndStep ==
  ASSUME IInv, NEW t \in Threads, ThreadEnd(t)
  PROVE  IInv'
<1>1. /\ stack[t] = <<>> /\ pc[t] = "run"
      /\ attached' = [attached EXCEPT ![t] = @ + 1]
      /\ UNCHANGED <<stack, pc, todo, object, method_id_list, callpath_vec, names, traced,
                     alloc, missed>>
  BY DEF ThreadEnd, At, fileVars
<1>2. Types'
  BY <1>1 DEF IInv, Types
<1>3. \A u \in Threads : u # t => Same(u)
  BY <1>1 DEF IInv, Types, Same
<1>4. Local(t)'
  BY <1>1 DEF IInv, Local, Outside, Lists, Files, Known, Pending, Named
<1> QED
  BY <1>2, <1>3, <1>4, SameKeeps DEF IInv

(* The entry of a method: it is among the frames that MethodEntry handles,  *)
(* or GetStackTrace has failed.                                             *)
LEMMA EntryStep ==
  ASSUME PathAssumption, IInv, NEW t \in Threads, NEW m \in Methods,
         pc[t] = "run", Attached(t), MethodEntry(t, m), DOMAIN object' = Threads
  PROVE  IInv'
<1>1. /\ stack' = [stack EXCEPT ![t] = Append(@, m)]
      /\ callpath_vec' = [callpath_vec EXCEPT ![t] = <<>>]
      /\ pc' = [pc EXCEPT ![t] = "entry"]
      /\ UNCHANGED <<attached, method_id_list, names, traced, alloc>>
  BY DEF MethodEntry, fileVars
<1>2. \/ todo' = [todo EXCEPT ![t] = Frames(stack'[t], EntryFrames)] /\ missed' = missed
      \/ /\ todo' = [todo EXCEPT ![t] = <<>>]
         /\ missed' = [missed EXCEPT ![t] = @ \cup ({m} \ Named(t))]
  BY DEF MethodEntry
<1> DEFINE s == Append(stack[t], m)
<1>3. /\ stack[t] \in Seq(Methods) /\ s \in Seq(Methods) /\ ToSet(s) = ToSet(stack[t]) \cup {m}
      /\ s # <<>> /\ s[Len(s)] = m
  <2>1. stack[t] \in Seq(Methods)
    BY DEF IInv, Types
  <2> QED
    BY <2>1, ElementsOfAppend, AppendProperties
<1>4. stack'[t] = s
  BY <1>1 DEF IInv, Types
<1> HIDE DEF s
<1>5. /\ Frames(s, EntryFrames) \in Seq(Methods)
      /\ ToSet(Frames(s, EntryFrames)) \subseteq ToSet(s) /\ m \in ToSet(Frames(s, EntryFrames))
  BY <1>3, ElementsOfFrames DEF PathAssumption
<1>6. <<>> \in Seq(Methods) /\ Named(t) \subseteq Methods
  BY EmptySeq DEF Named
<1>7. stack' \in [Threads -> Seq(Methods)]
  BY <1>1, <1>3 DEF IInv, Types, s
<1>8. todo' \in [Threads -> Seq(Methods)] /\ missed' \in [Threads -> SUBSET Methods]
  <2>1. todo \in [Threads -> Seq(Methods)] /\ missed \in [Threads -> SUBSET Methods]
    BY DEF IInv, Types
  <2>2. CASE todo' = [todo EXCEPT ![t] = Frames(stack'[t], EntryFrames)] /\ missed' = missed
    BY <1>4, <1>5, <2>1, <2>2
  <2>3. CASE /\ todo' = [todo EXCEPT ![t] = <<>>]
             /\ missed' = [missed EXCEPT ![t] = @ \cup ({m} \ Named(t))]
    BY <1>6, <2>1, <2>3
  <2> QED
    BY <1>2, <2>2, <2>3
<1>9. Types'
  BY <1>1, <1>6, <1>7, <1>8 DEF IInv, Types, PCs
<1>10. \A u \in Threads : u # t => Same(u)
  BY <1>1, <1>2 DEF IInv, Types, Same
<1>11. /\ Named(t)' = Named(t) /\ Attached(t)' /\ pc'[t] = "entry"
       /\ callpath_vec'[t] = <<>> /\ missed[t] \subseteq missed'[t]
  BY <1>1, <1>2 DEF IInv, Types, Named, Attached
<1>12. m \in Known(t)' \cup ToSet(todo[t])'
  <2>1. CASE todo'[t] = Frames(s, EntryFrames)
    BY <1>5, <2>1
  <2>2. CASE missed'[t] = missed[t] \cup ({m} \ Named(t))
    BY <1>11, <2>2 DEF Known
  <2> QED
    BY <1>2, <1>4, <2>1, <2>2 DEF IInv, Types
<1>13. ToSet(stack[t]) \subseteq Known(t)
  BY DEF IInv, Local, Lists, Pending
<1>14. ToSet(stack[t])' \subseteq Known(t)' \cup Pending(t)'
  BY <1>3, <1>4, <1>11, <1>12, <1>13 DEF Known, Pending
<1>15. Lists(t)'
  BY <1>1, <1>11, <1>14, ElementsOfEmpty DEF Lists, IInv, Local
<1>16. Files(t)' /\ Outside(t)'
  BY <1>1, <1>11 DEF Files, Outside, IInv, Local
<1> QED
  BY <1>9, <1>10, <1>15, <1>16, SameKeeps DEF IInv, Local

LEMMA CallStep ==
  ASSUME PathAssumption, IInv, NEW t \in Threads, NEW m \in Methods, Call(t, m)
  PROVE  IInv'
  BY EntryStep DEF Call, At, IInv, Types

LEMMA ObjectAllocStep ==
  ASSUME PathAssumption, IInv, NEW t \in Threads, NEW q \in BOOLEAN, ObjectAlloc(t, q)
  PROVE  IInv'
<1>1. DOMAIN object' = Threads
  BY DEF ObjectAlloc, IInv, Types
<1> QED
  BY <1>1, EntryStep DEF ObjectAlloc, At, PathAssumption

LEMMA ReturnStep ==
  ASSUME IInv, NEW t \in Threads, Return(t)
  PROVE  IInv'
<1>1. /\ pc[t] = "run" /\ stack[t] # <<>>
      /\ stack' = [stack EXCEPT ![t] = Front(@)]
      /\ UNCHANGED <<attached, pc, todo, object, method_id_list, callpath_vec, names, traced,
                     alloc, missed>>
  BY DEF Return, At, fileVars
<1>2. Front(stack[t]) \in Seq(Methods) /\ ToSet(Front(stack[t])) \subseteq ToSet(stack[t])
  BY ElementsOfFront DEF IInv, Types
<1>3. stack'[t] = Front(stack[t])
  BY <1>1 DEF IInv, Types
<1>4. Types'
  BY <1>1, <1>2 DEF IInv, Types
<1>5. \A u \in Threads : u # t => Same(u)
  BY <1>1 DEF IInv, Types, Same
<1>6. Local(t)'
  BY <1>1, <1>2, <1>3
     DEF IInv, Local, Outside, Lists, Files, Known, Pending, Named, Attached
<1> QED
  BY <1>4, <1>5, <1>6, SameKeeps DEF IInv
(* A frame that MethodEntry handles gets a name or has one.                 *)
LEMMA EntryFrameStep ==
  ASSUME IInv, NEW t \in Threads, EntryFrame(t)
  PROVE  IInv'
<1> DEFINE m == Head(todo[t])
<1>1. /\ pc[t] = "entry" /\ todo[t] # <<>>
      /\ UNCHANGED <<attached, stack, pc, object>>
  BY DEF EntryFrame, At
<1>2. CASE UNCHANGED <<todo, callpath_vec, method_id_list, names, traced, alloc, missed>>
  <2>1. Types'
    BY <1>1, <1>2 DEF IInv, Types
  <2>2. \A u \in Threads : Same(u)
    BY <1>1, <1>2 DEF Same
  <2> QED
    BY <2>1, <2>2, SameKeeps DEF IInv
<1>3. CASE /\ \/ m \notin method_id_list[t] /\ Name(t, m)
              \/ /\ m \in method_id_list[t]
                 /\ UNCHANGED <<method_id_list, names, traced, alloc, missed>>
           /\ todo' = [todo EXCEPT ![t] = Tail(@)]
           /\ callpath_vec' = [callpath_vec EXCEPT ![t] = Append(@, m)]
  <2>1. todo[t] \in Seq(Methods) /\ callpath_vec[t] \in Seq(Methods)
    BY DEF IInv, Types
  <2>2. /\ m \in Methods /\ Tail(todo[t]) \in Seq(Methods)
        /\ ToSet(todo[t]) = {m} \cup ToSet(Tail(todo[t]))
    BY <1>1, <2>1, ElementsOfTail
  <2>3. /\ Append(callpath_vec[t], m) \in Seq(Methods)
        /\ ToSet(Append(callpath_vec[t], m)) = ToSet(callpath_vec[t]) \cup {m}
    BY <2>1, <2>2, ElementsOfAppend
  <2> HIDE DEF m
  <2>4. /\ todo' \in [Threads -> Seq(Methods)] /\ todo'[t] = Tail(todo[t])
        /\ \A u \in Threads : u # t => todo'[u] = todo[u]
    BY <1>3, <2>2 DEF IInv, Types
  <2>5. /\ callpath_vec' \in [Threads -> Seq(Methods)]
        /\ callpath_vec'[t] = Append(callpath_vec[t], m)
        /\ \A u \in Threads : u # t => callpath_vec'[u] = callpath_vec[u]
    BY <1>3, <2>3 DEF IInv, Types
  <2>6. /\ names' \in [Threads -> [Methods -> Nat]]
        /\ method_id_list' \in [Threads -> SUBSET Methods]
        /\ traced' \in [Threads -> SUBSET Methods] /\ alloc' \in [Threads -> SUBSET Methods]
        /\ missed' \in [Threads -> SUBSET Methods]
        /\ \A u \in Threads : u # t =>
             /\ names'[u] = names[u] /\ method_id_list'[u] = method_id_list[u]
             /\ traced'[u] = traced[u] /\ alloc'[u] = alloc[u] /\ missed'[u] = missed[u]
    <3>1. CASE Name(t, m)
      BY <2>2, <3>1 DEF IInv, Types, Name
    <3>2. CASE UNCHANGED <<method_id_list, names, traced, alloc, missed>>
      BY <3>2 DEF IInv, Types
    <3> QED
      BY <1>3, <3>1, <3>2
  <2>7. Types'
    BY <1>1, <2>4, <2>5, <2>6 DEF IInv, Types
  <2>8. \A u \in Threads : u # t => Same(u)
    BY <1>1, <2>4, <2>5, <2>6 DEF Same
  <2>9. /\ Named(t)' = Named(t) \cup {m} /\ method_id_list'[t] = method_id_list[t] \cup {m}
        /\ missed[t] \subseteq missed'[t] \cup {m}
        /\ traced[t] = {} => traced'[t] = {}
        /\ alloc[t] \subseteq missed[t] => alloc'[t] \subseteq missed'[t]
    <3>1. CASE Name(t, m)
      <4>1. /\ names'[t] = [names[t] EXCEPT ![m] = @ + 1] /\ names[t] \in [Methods -> Nat]
            /\ method_id_list'[t] = method_id_list[t] \cup {m}
            /\ missed'[t] = missed[t] \ {m} /\ alloc'[t] = alloc[t] \ {m}
            /\ traced'[t] = traced[t] \ {m}
        BY <3>1 DEF IInv, Types, Name
      <4>2. Named(t)' = Named(t) \cup {m}
        BY <2>2, <4>1 DEF Named
      <4> QED
        BY <4>1, <4>2
    <3>2. CASE /\ m \in method_id_list[t]
               /\ UNCHANGED <<method_id_list, names, traced, alloc, missed>>
      <4>1. m \in Named(t)
        BY <3>2 DEF IInv, Local, Lists
      <4>2. Named(t)' = Named(t)
        BY <3>2 DEF Named
      <4> QED
        BY <3>2, <4>1, <4>2
    <3> QED
      BY <1>3, <3>1, <3>2
  <2>10. Lists(t) /\ Files(t) /\ Outside(t)
    BY DEF IInv, Local
  <2>11. ToSet(stack[t])' \subseteq Known(t)' \cup Pending(t)'
    <3>1. /\ ToSet(stack[t])' = ToSet(stack[t]) /\ Pending(t) = ToSet(todo[t])
          /\ Pending(t)' = ToSet(Tail(todo[t]))
      BY <1>1, <2>4 DEF Pending
    <3>2. ToSet(stack[t]) \subseteq Known(t) \cup Pending(t)
      BY <2>10 DEF Lists
    <3> QED
      BY <2>2, <2>9, <3>1, <3>2 DEF Known
  <2>12. Lists(t)'
    BY <1>1, <2>3, <2>5, <2>9, <2>10, <2>11 DEF Lists
  <2>13. Files(t)' /\ Outside(t)'
    BY <1>1, <2>9, <2>10 DEF Files, Outside, Attached
  <2> QED
    BY <2>7, <2>8, <2>12, <2>13, SameKeeps DEF IInv, Local
<1> QED
  BY <1>2, <1>3 DEF EntryFrame, fileVars

(* MethodEntry is over: every frame has a name or was missed.               *)
LEMMA EntryEndStep ==
  ASSUME PathAssumption, IInv, NEW t \in Threads, EntryEnd(t)
  PROVE  IInv'
<1>1. /\ pc[t] = "entry" /\ todo[t] = <<>>
      /\ UNCHANGED <<attached, object, method_id_list, callpath_vec, names, traced, alloc, missed>>
  BY DEF EntryEnd, At, fileVars
<1>2. stack[t] \in Seq(Methods) /\ todo[t] \in Seq(Methods)
  BY DEF IInv, Types
<1>3. \E s \in {stack[t], Front(stack[t])}, p \in {"run", "alloc"} :
        /\ stack' = [stack EXCEPT ![t] = s] /\ pc' = [pc EXCEPT ![t] = p]
        /\ todo' = todo \/ todo' = [todo EXCEPT ![t] = Frames(s, AllocFrames)]
  <2>1. CASE pc' = [pc EXCEPT ![t] = "run"] /\ UNCHANGED <<todo, stack>>
    <3>1. stack' = [stack EXCEPT ![t] = stack[t]]
      BY <2>1 DEF IInv, Types
    <3> QED
      BY <2>1, <3>1
  <2>2. CASE /\ stack' = [stack EXCEPT ![t] = Front(@)]
             /\ pc' = [pc EXCEPT ![t] = "alloc"]
             /\ \/ todo' = [todo EXCEPT ![t] = Frames(stack'[t], AllocFrames)]
                \/ UNCHANGED todo
    <3>1. stack'[t] = Front(stack[t])
      BY <2>2 DEF IInv, Types
    <3> QED
      BY <2>2, <3>1
  <2> QED
    BY <2>1, <2>2 DEF EntryEnd
<1>4. PICK s \in {stack[t], Front(stack[t])}, p \in {"run", "alloc"} :
        /\ stack' = [stack EXCEPT ![t] = s] /\ pc' = [pc EXCEPT ![t] = p]
        /\ todo' = todo \/ todo' = [todo EXCEPT ![t] = Frames(s, AllocFrames)]
  BY <1>3
<1>5. s \in Seq(Methods) /\ ToSet(s) \subseteq ToSet(stack[t])
  BY <1>2, ElementsOfFront
<1>6. Frames(s, AllocFrames) \in Seq(Methods) /\ ToSet(Frames(s, AllocFrames)) \subseteq ToSet(s)
  BY <1>5, ElementsOfFrames DEF PathAssumption
<1>7. /\ todo' \in [Threads -> Seq(Methods)]
      /\ todo'[t] = <<>> \/ todo'[t] = Frames(s, AllocFrames)
      /\ \A u \in Threads : u # t => todo'[u] = todo[u]
  <2>1. todo \in [Threads -> Seq(Methods)]
    BY DEF IInv, Types
  <2>2. CASE todo' = todo
    BY <1>1, <2>1, <2>2
  <2>3. CASE todo' = [todo EXCEPT ![t] = Frames(s, AllocFrames)]
    BY <1>6, <2>1, <2>3
  <2> QED
    BY <1>4, <2>2, <2>3
<1>8. /\ stack' \in [Threads -> Seq(Methods)] /\ stack'[t] = s
      /\ pc' \in [Threads -> PCs] /\ pc'[t] = p
      /\ \A u \in Threads : u # t => stack'[u] = stack[u] /\ pc'[u] = pc[u]
  BY <1>4, <1>5 DEF IInv, Types, PCs
<1>9. Types'
  BY <1>1, <1>7, <1>8 DEF IInv, Types
<1>10. \A u \in Threads : u # t => Same(u)
  BY <1>1, <1>7, <1>8 DEF Same
<1>11. Lists(t) /\ Files(t) /\ Outside(t)
  BY DEF IInv, Local
<1>12. Named(t)' = Named(t) /\ Known(t)' = Known(t) /\ (Attached(t)' <=> Attached(t))
  BY <1>1 DEF Named, Known, Attached
<1>13. ToSet(stack[t]) \subseteq Known(t)
  BY <1>1, <1>11, ElementsOfEmpty DEF Lists, Pending
<1>14. ToSet(todo'[t]) \subseteq Known(t)
  BY <1>5, <1>6, <1>7, <1>13, ElementsOfEmpty
<1>15. Lists(t)'
  BY <1>1, <1>5, <1>8, <1>11, <1>12, <1>13, <1>14 DEF Lists
<1>16. Files(t)' /\ Outside(t)'
  BY <1>1, <1>8, <1>11, <1>12 DEF Files, Outside
<1> QED
  BY <1>9, <1>10, <1>15, <1>16, SameKeeps DEF IInv, Local
(* A step of ObjectAllocCallback's loop that goes on to the next frame: a   *)
(* method it writes without a name was missed.                              *)
LEMMA FrameStep ==
  ASSUME IInv, NEW t \in Threads, pc[t] \in {"alloc", "locked"}, todo[t] # <<>>,
         todo' = [todo EXCEPT ![t] = Tail(@)],
         pc' = [pc EXCEPT ![t] = "alloc"],
         \/ alloc' = alloc
         \/ alloc' = [alloc EXCEPT ![t] = @ \cup ({Head(todo[t])} \ Named(t))],
         DOMAIN object' = Threads,
         UNCHANGED <<attached, stack, method_id_list, callpath_vec, names, traced, missed>>
  PROVE  IInv'
<1>1. /\ Head(todo[t]) \in Methods /\ Tail(todo[t]) \in Seq(Methods)
      /\ ToSet(todo[t]) = {Head(todo[t])} \cup ToSet(Tail(todo[t]))
  BY ElementsOfTail DEF IInv, Types
<1>2. /\ todo' \in [Threads -> Seq(Methods)] /\ todo'[t] = Tail(todo[t])
      /\ pc' \in [Threads -> PCs] /\ pc'[t] = "alloc"
      /\ \A u \in Threads : u # t => todo'[u] = todo[u] /\ pc'[u] = pc[u]
  BY <1>1 DEF IInv, Types, PCs
<1>3. /\ alloc' \in [Threads -> SUBSET Methods]
      /\ alloc'[t] \subseteq alloc[t] \cup ({Head(todo[t])} \ Named(t))
      /\ \A u \in Threads : u # t => alloc'[u] = alloc[u]
  <2>1. alloc \in [Threads -> SUBSET Methods]
    BY DEF IInv, Types
  <2>2. CASE alloc' = alloc
    BY <2>1, <2>2
  <2>3. CASE alloc' = [alloc EXCEPT ![t] = @ \cup ({Head(todo[t])} \ Named(t))]
    BY <1>1, <2>1, <2>3
  <2> QED
    BY <2>2, <2>3
<1>4. Types'
  BY <1>2, <1>3 DEF IInv, Types
<1>5. \A u \in Threads : u # t => Same(u)
  BY <1>2, <1>3 DEF Same
<1>6. Lists(t) /\ Files(t) /\ Outside(t)
  BY DEF IInv, Local
<1>7. Named(t)' = Named(t) /\ Known(t)' = Known(t) /\ (Attached(t)' <=> Attached(t))
  BY DEF Named, Known, Attached
<1>8. ToSet(todo[t]) \subseteq Known(t) /\ Pending(t) = {} /\ Pending(t)' = {}
  BY <1>2, <1>6 DEF Lists, Pending
<1>9. Lists(t)'
  BY <1>1, <1>2, <1>6, <1>7, <1>8 DEF Lists
<1>10. Files(t)'
  BY <1>1, <1>3, <1>6, <1>8 DEF Files, Known
<1>11. Outside(t)'
  BY <1>2, <1>6, <1>7 DEF Outside
<1> QED
  BY <1>4, <1>5, <1>9, <1>10, <1>11, SameKeeps DEF IInv, Local

LEMMA AllocSkipStep ==
  ASSUME IInv, NEW t \in Threads, AllocSkip(t)
  PROVE  IInv'
<1>1. pc' = [pc EXCEPT ![t] = "alloc"] /\ DOMAIN object' = Threads
  BY DEF AllocSkip, At, IInv, Types
<1> QED
  BY <1>1, FrameStep DEF AllocSkip, At, fileVars

LEMMA AllocFrameStep ==
  ASSUME IInv, NEW t \in Threads, AllocFrame(t)
  PROVE  IInv'
  BY FrameStep DEF AllocFrame, WriteFrame, Listed, At, IInv, Types

LEMMA AllocRecordStep ==
  ASSUME IInv, NEW t \in Threads, AllocRecord(t)
  PROVE  IInv'
<1>1. pc[t] = "locked" /\ todo[t] # <<>> /\ DOMAIN object' = Threads
  BY DEF AllocRecord, At, IInv, Types, Local, Outside
<1> QED
  BY <1>1, FrameStep DEF AllocRecord, WriteFrame

LEMMA AllocLockStep ==
  ASSUME IInv, NEW t \in Threads, AllocLock(t)
  PROVE  IInv'
<1>1. /\ pc[t] = "alloc" /\ todo[t] # <<>> /\ pc' = [pc EXCEPT ![t] = "locked"]
      /\ UNCHANGED <<attached, stack, todo, object, method_id_list, callpath_vec, names, traced,
                     alloc, missed>>
  BY DEF AllocLock, Recorded, Listed, At, fileVars
<1>2. Types' /\ pc'[t] = "locked"
  BY <1>1 DEF IInv, Types, PCs
<1>3. \A u \in Threads : u # t => Same(u)
  BY <1>1 DEF IInv, Types, Same
<1>4. Local(t)'
  BY <1>1, <1>2 DEF IInv, Local, Outside, Lists, Files, Known, Pending, Named, Attached
<1> QED
  BY <1>2, <1>3, <1>4, SameKeeps DEF IInv

LEMMA AllocEndStep ==
  ASSUME IInv, NEW t \in Threads, AllocEnd(t)
  PROVE  IInv'
<1>1. /\ pc[t] = "alloc" /\ pc' = [pc EXCEPT ![t] = "run"] /\ DOMAIN object' = Threads
      /\ UNCHANGED <<attached, stack, todo, method_id_list, callpath_vec, names, traced,
                     alloc, missed>>
  BY DEF AllocEnd, At, fileVars, IInv, Types
<1>2. Types' /\ pc'[t] = "run"
  BY <1>1 DEF IInv, Types, PCs
<1>3. \A u \in Threads : u # t => Same(u)
  BY <1>1 DEF IInv, Types, Same
<1>4. Local(t)'
  BY <1>1, <1>2 DEF IInv, Local, Outside, Lists, Files, Known, Pending, Named, Attached
<1> QED
  BY <1>2, <1>3, <1>4, SameKeeps DEF IInv

(* A sample writes only methods that have a name.                           *)
LEMMA SampleStep ==
  ASSUME IInv, NEW t \in Threads, Sample(t)
  PROVE  IInv'
<1>1. /\ traced' = [traced EXCEPT ![t] = @ \cup (ToSet(callpath_vec[t]) \ Named(t))]
      /\ UNCHANGED <<attached, stack, pc, todo, object, method_id_list, callpath_vec, names,
                     alloc, missed>>
  BY DEF Sample
<1>2. ToSet(callpath_vec[t]) \subseteq Named(t) /\ traced[t] = {}
  BY DEF IInv, Local, Lists, Files
<1>3. traced' = traced
  BY <1>1, <1>2 DEF IInv, Types
<1> QED
  BY <1>1, <1>3, SameKeeps DEF IInv, Types, Same

(* Every step preserves the invariant.                                      *)
LEMMA NextStep ==
  ASSUME PathAssumption, IInv, [Next]_vars
  PROVE  IInv'
<1>1. CASE UNCHANGED vars
  <2>1. UNCHANGED <<attached, stack, pc, todo, object, method_id_list, callpath_vec, names,
                    traced, alloc, missed>>
    BY <1>1 DEF vars, fileVars
  <2> QED
    BY <2>1, SameKeeps DEF IInv, Types, Same
<1> QED
  BY <1>1, ThreadStartStep, ThreadEndStep, ReturnStep, SampleStep, CallStep, EntryFrameStep,
     EntryEndStep, ObjectAllocStep, AllocSkipStep, AllocLockStep, AllocRecordStep,
     AllocFrameStep, AllocEndStep
     DEF Next

-----------------------------------------------------------------------------
(* The invariant, for all threads, methods and bounds.                      *)
THEOREM InductiveInvariant == Spec => []IInv
<1>1. Init => IInv
  BY InitHolds
<1>2. IInv /\ [Next]_vars => IInv'
  BY NextStep, PathAssumption
<1> QED
  BY <1>1, <1>2, PTL DEF Spec

(* Every method id of a trace or cachemiss line has its name in the method  *)
(* file of the same attachment, however MethodEntry, the allocations and    *)
(* the samples of any number of threads follow each other.                  *)
THEOREM PathsAreNamedAlways == Spec => []PathsAreNamed
<1>1. IInv => PathsAreNamed
  BY DEF IInv, Local, Files, PathsAreNamed
<1> QED
  BY <1>1, InductiveInvariant, PTL

(* The alloc file mentions a method without a name only if GetStackTrace    *)
(* had failed when it was entered, for all numbers of frames that           *)
(* MethodEntry and ObjectAllocCallback ask for.                             *)
THEOREM AllocsAreNamedAlways == Spec => []AllocsAreNamed
<1>1. IInv => AllocsAreNamed
  BY DEF IInv, Local, Files, AllocsAreNamed
<1> QED
  BY <1>1, InductiveInvariant, PTL
=============================================================================
