-------------------------- MODULE ConverterProofs --------------------------
(***************************************************************************)
(* The converter for every directory, every order of its listing and files *)
(* of any size: the profiles show what the agent wrote.                    *)
(*                                                                         *)
(* The argument goes through context_array.  A path that is read becomes a *)
(* chain of its ids, each under the one before (Chain); the messages carry *)
(* those ids (Queue); a message adds its context to the profile or finds   *)
(* one that says the same, because a profile never says of an id anything  *)
(* but what context_array says (AgreesWith).  So the path of a sample can  *)
(* be read off the profile, and stays so when tables and array grow.       *)
(***************************************************************************)
EXTENDS Converter, SequenceTheorems, FiniteSetTheorems, TLAPS

(* A sequence, whatever its elements.                                       *)
IsSeq(t) == Len(t) \in Nat /\ t = [i \in 1..Len(t) |-> t[i]]

(* A builder: its tables are sequences.                                     *)
IsProfile(p) ==
    /\ p = [function |-> p.function, location |-> p.location,
            context |-> p.context, sample |-> p.sample]
    /\ IsSeq(p.function) /\ IsSeq(p.location) /\ IsSeq(p.sample)

(* What the variables are.                                                  *)
Shape ==
    /\ documents \in Directories
    /\ order \in Seq(DOMAIN documents)
    /\ at \in [pass : 1..3, thread : Nat \ {0}, line : Nat \ {0}]
    /\ IsSeq(context_array)
    /\ profile = [p \in 1..3 |-> profile[p]] /\ \A p \in 1..3 : IsProfile(profile[p])
    /\ work = [frame |-> work.frame, cur |-> work.cur, msgs |-> work.msgs]
    /\ work.frame \in Nat \ {0} /\ IsSeq(work.msgs)

PcShape == pc \in {"group", "open", "lines", "path", "sample", "next", "done", "crashed"}

(* Once the files are grouped, the file picked for a thread and a kind      *)
(* exists.                                                                  *)
Picked ==
    pc # "group" => \A tid \in DOMAIN documents : \A k \in Kinds(tid) :
                        chosen[tid][k] \in Holding(tid, k)

(* Where the loops over passes, threads, lines and frames are, for each pc. *)
Where ==
    /\ pc \in {"lines", "path", "sample", "next"} =>
          at.thread \in 1..Len(order) /\ IsListed(Thread, Kind)
    /\ pc \in {"path", "sample", "next"} => at.line \in 1..Len(LinesOf(Thread, Kind))
    /\ pc \in {"path", "sample"} => Line.cut = "no"
    /\ pc = "path" => work.frame <= Len(Line.path) + 1
    /\ pc = "done" => at.pass = 3 /\ at.thread > Len(order)
    /\ pc = "group" => /\ at = [pass |-> 1, thread |-> 1, line |-> 1]
                       /\ order = <<>> /\ \A p \in 1..3 : profile[p] = NoProfile

(* The passes that have a message for every frame of the lines they keep:   *)
(* the alloc pass, which drops the others, and all passes when all methods  *)
(* are named.                                                               *)
Complete(pass) == pass = 3 \/ AllNamed

(* The context above frame k of a path with the contexts c.                 *)
Parent(c, k) == IF k = 1 THEN Root ELSE c[k - 1]

(* c holds the contexts of the first n frames of the path, each under the   *)
(* one before.                                                              *)
Chain(array, c, n, path) ==
    \A k \in 1..n :
        /\ c[k] \in 1..Len(array)
        /\ array[c[k]] = [pid |-> Parent(c, k), mid |-> path[k].mid, lineNo |-> path[k].lineNo]

(* m is the message of frame k of the path, in context id.                  *)
Fits(m, id, k, path, kind, names) ==
    /\ m.id = id /\ m.lineNo = path[k].lineNo /\ m.name.mid = path[k].mid
    /\ m.name.objects # NoObjects =>
          kind = "trace" /\ k = Len(path) /\ m.name.objects = names[m.name.mid]

(* msgs are the messages of the frames d + 1 to n.                          *)
Queue(msgs, c, d, n, path, kind, names) ==
    Len(msgs) = n - d /\ \A k \in 1..(n - d) : Fits(msgs[k], c[d + k], d + k, path, kind, names)

(* In the loop over a path: the frames read have contexts and messages.     *)
Reading(c) ==
    /\ Chain(context_array, c, work.frame - 1, Line.path)
    /\ Queue(work.msgs, c, 0, work.frame - 1, Line.path, Kind, MethodMap(Thread))
    /\ work.cur = Parent(c, work.frame)

(* In addSample: the first d messages are in the profile.                   *)
Building(c, d) ==
    /\ Chain(context_array, c, Len(Line.path), Line.path)
    /\ Queue(work.msgs, c, d, Len(Line.path), Line.path, Kind, MethodMap(Thread))
    /\ work.cur = Parent(c, d + 1)
    /\ \A k \in 1..d : c[k] \in DOMAIN profile[at.pass].context

(* The line in hand.                                                        *)
Working ==
    Complete(at.pass) =>
        /\ pc = "path" =>
              \E c \in [1..(work.frame - 1) -> 1..Len(context_array)] : Reading(c)
        /\ pc = "sample" =>
              \E c \in [1..Len(Line.path) -> 1..Len(context_array)], d \in 0..Len(Line.path) :
                  Building(c, d)

(* Every context of the profile shows what context_array has under its id.  *)
AgreesWith(p, array) ==
    \A id \in DOMAIN p.context :
        LET place == p.context[id].location
        IN  /\ id \in 1..Len(array) /\ p.context[id].parent_id = array[id].pid
            /\ place \in 1..Len(p.location) /\ p.location[place].line = array[id].lineNo
            /\ p.location[place].function \in 1..Len(p.function)
            /\ NameOf(p, id).mid = array[id].mid

(* That is so of the profiles of these passes, although all passes and      *)
(* threads share the array.                                                 *)
Agreeing == \A pass \in 1..3 : Complete(pass) => AgreesWith(profile[pass], context_array)

(* The pass has dealt with the line at x.                                   *)
Passed(pass, x) ==
    \/ at.pass > pass
    \/ /\ at.pass = pass
       /\ \/ at.thread > x[1]
          \/ at.thread = x[1] /\ (at.line > x[2] \/ (at.line = x[2] /\ pc = "next"))

(* told gives each sample its line: in order, only lines passed, and all of *)
(* them when all methods are named.                                         *)
ToldBy(told, pass) ==
    /\ \A m, n \in DOMAIN told : m < n => IsBefore(told[m], told[n])
    /\ \A n \in DOMAIN told :
          Passed(pass, told[n]) /\ Shows(profile[pass], n, LineAt(pass, told[n]))
    /\ AllNamed => \A x \in Places(pass) : Passed(pass, x) => \E n \in DOMAIN told : told[n] = x

Telling ==
    \A pass \in 1..3 : Complete(pass) =>
        \E told \in [1..Len(profile[pass].sample) -> Places(pass)] : ToldBy(told, pass)

ConverterIInv ==
    /\ Shape /\ PcShape /\ Picked /\ Where /\ Working /\ Agreeing /\ Telling /\ ObjectsOnlyAtLeaves

-----------------------------------------------------------------------------
(* A function on 1..n is a sequence.                                        *)
LEMMA FunctionIsSeq ==
  ASSUME NEW S, NEW n \in Nat, NEW f \in [1..n -> S]
  PROVE  f \in Seq(S) /\ Len(f) = n
  BY SeqDef, LenProperties

(* The converse.                                                            *)
LEMMA SeqIsSeq ==
  ASSUME NEW S, NEW t \in Seq(S)
  PROVE  IsSeq(t) /\ DOMAIN t = 1..Len(t)
  BY LenProperties DEF IsSeq

(* A sequence with its elements in S.                                       *)
LEMMA IsSeqSeq ==
  ASSUME NEW t, IsSeq(t), NEW S, \A i \in 1..Len(t) : t[i] \in S
  PROVE  t \in Seq(S)
<1>1. t \in [1..Len(t) -> S] /\ Len(t) \in Nat
  BY DEF IsSeq
<1> QED
  BY <1>1, FunctionIsSeq

(* What Append does to a sequence.                                          *)
LEMMA AppendSeq ==
  ASSUME NEW t, IsSeq(t), NEW x
  PROVE  /\ IsSeq(Append(t, x)) /\ Len(Append(t, x)) = Len(t) + 1
         /\ \A i \in 1..Len(t) : Append(t, x)[i] = t[i]
         /\ Append(t, x)[Len(t) + 1] = x
<1> DEFINE S == {t[i] : i \in 1..Len(t)} \cup {x}
<1>1. t \in Seq(S)
  BY IsSeqSeq
<1>2. x \in S /\ Len(t) \in Nat
  BY DEF IsSeq
<1> HIDE DEF S
<1>3. /\ Append(t, x) \in Seq(S) /\ Len(Append(t, x)) = Len(t) + 1
      /\ \A i \in 1..Len(t) : Append(t, x)[i] = t[i]
      /\ Append(t, x)[Len(t) + 1] = x
  BY <1>1, <1>2, AppendProperties
<1> QED
  BY <1>3, SeqIsSeq

(* What is left when the first element is taken.                            *)
LEMMA TailSeq ==
  ASSUME NEW t, IsSeq(t), t # <<>>
  PROVE  /\ IsSeq(Tail(t)) /\ Len(Tail(t)) = Len(t) - 1 /\ Len(t) >= 1 /\ Head(t) = t[1]
         /\ \A i \in 1..(Len(t) - 1) : Tail(t)[i] = t[i + 1]
<1> DEFINE S == {t[i] : i \in 1..Len(t)}
<1>1. t \in Seq(S)
  BY IsSeqSeq
<1> HIDE DEF S
<1>2. Len(t) \in Nat /\ Len(t) # 0
  BY <1>1, EmptySeq, LenProperties
<1>3. /\ Tail(t) \in Seq(S) /\ Len(Tail(t)) = Len(t) - 1
      /\ \A i \in 1 .. Len(Tail(t)) : Tail(t)[i] = t[i + 1]
  BY <1>1, HeadTailProperties
<1>4. Head(t) = t[1]
  BY <1>1, HeadTailProperties
<1>5. \A i \in 1..(Len(t) - 1) : Tail(t)[i] = t[i + 1]
  BY <1>3
<1>6. IsSeq(Tail(t))
  BY <1>3, SeqIsSeq
<1>7. Len(t) >= 1
  BY <1>2
<1> QED
  BY <1>3, <1>4, <1>5, <1>6, <1>7

(* Intern finds its argument or appends it.                                 *)
LEMMA InternFacts ==
  ASSUME NEW t, IsSeq(t), NEW x
  PROVE  /\ IsSeq(Intern(t, x).table) /\ Len(Intern(t, x).table) \in Nat
         /\ Len(t) \in Nat /\ Len(t) <= Len(Intern(t, x).table)
         /\ \A i \in 1..Len(t) : Intern(t, x).table[i] = t[i]
         /\ Intern(t, x).id \in 1..Len(Intern(t, x).table)
         /\ Intern(t, x).table[Intern(t, x).id] = x
<1>0. Len(t) \in Nat /\ DOMAIN t = 1..Len(t)
  BY DEF IsSeq
<1>1. CASE Contains(t, x)
  <2>1. Intern(t, x).table = t /\ Intern(t, x).id = CHOOSE i \in DOMAIN t : t[i] = x
    BY <1>1 DEF Intern
  <2>2. \E i \in DOMAIN t : t[i] = x
    BY <1>0, <1>1 DEF Contains
  <2>3. Intern(t, x).id \in DOMAIN t /\ t[Intern(t, x).id] = x
    BY <2>1, <2>2
  <2> QED
    BY <1>0, <2>1, <2>3
<1>2. CASE ~Contains(t, x)
  <2>1. Intern(t, x).table = Append(t, x) /\ Intern(t, x).id = Len(t) + 1
    BY <1>2 DEF Intern
  <2>2. /\ IsSeq(Append(t, x)) /\ Len(Append(t, x)) = Len(t) + 1
        /\ \A i \in 1..Len(t) : Append(t, x)[i] = t[i]
        /\ Append(t, x)[Len(t) + 1] = x
    BY AppendSeq
  <2> QED
    BY <1>0, <2>1, <2>2
<1> QED
  BY <1>1, <1>2

(* The context of a frame under its parent is found or appended.            *)
LEMMA ContextIdFacts ==
  ASSUME NEW array, IsSeq(array), NEW pid, NEW frame
  PROVE  LET r == getContextId(array, pid, frame)
         IN  /\ IsSeq(r.array) /\ Len(array) \in Nat /\ Len(r.array) \in Nat
             /\ Len(array) <= Len(r.array)
             /\ \A i \in 1..Len(array) : r.array[i] = array[i]
             /\ r.id \in 1..Len(r.array)
             /\ r.array[r.id] = [pid |-> pid, mid |-> frame.mid, lineNo |-> frame.lineNo]
<1> DEFINE x == [pid |-> pid, mid |-> frame.mid, lineNo |-> frame.lineNo]
           r == getContextId(array, pid, frame)
<1>1. r.array = Intern(array, x).table /\ r.id = Intern(array, x).id
  BY DEF getContextId
<1> HIDE DEF r, x
<1>2. /\ IsSeq(r.array) /\ Len(r.array) \in Nat
      /\ Len(array) \in Nat /\ Len(array) <= Len(r.array)
      /\ \A i \in 1..Len(array) : r.array[i] = array[i]
      /\ r.id \in 1..Len(r.array) /\ r.array[r.id] = x
  BY <1>1, InternFacts
<1> QED
  BY <1>2 DEF r, x

(* One sequence starts with the other.                                      *)
Grows(old, new) ==
    /\ Len(old) \in Nat /\ Len(new) \in Nat /\ Len(old) <= Len(new)
    /\ \A i \in 1..Len(old) : new[i] = old[i]

(* Intern keeps the indices a table has given out.                          *)
LEMMA InternGrows ==
  ASSUME NEW t, IsSeq(t), NEW x
  PROVE  LET r == Intern(t, x)
         IN  /\ IsSeq(r.table) /\ Grows(t, r.table)
             /\ r.id \in 1..Len(r.table) /\ r.table[r.id] = x
  BY InternFacts DEF Grows

(* Chains and agreement stay when the array grows.                          *)
LEMMA ChainGrows ==
  ASSUME NEW array, NEW new, Grows(array, new), NEW c, NEW n, NEW path, Chain(array, c, n, path)
  PROVE  Chain(new, c, n, path)
<1> SUFFICES ASSUME NEW k \in 1..n
             PROVE  /\ c[k] \in 1..Len(new)
                    /\ new[c[k]] = [pid |-> Parent(c, k),
                                    mid |-> path[k].mid, lineNo |-> path[k].lineNo]
  BY DEF Chain
<1>1. /\ c[k] \in 1..Len(array)
      /\ array[c[k]] = [pid |-> Parent(c, k), mid |-> path[k].mid, lineNo |-> path[k].lineNo]
  BY DEF Chain
<1>2. c[k] \in 1..Len(new) /\ new[c[k]] = array[c[k]]
  BY <1>1 DEF Grows
<1> QED
  BY <1>1, <1>2

(* A profile that agrees with context_array agrees with a longer one.       *)
LEMMA AgreementGrows ==
  ASSUME NEW p, NEW array, NEW new, Grows(array, new), AgreesWith(p, array)
  PROVE  AgreesWith(p, new)
<1>1. \A id \in 1..Len(array) : id \in 1..Len(new) /\ new[id] = array[id]
  BY DEF Grows
<1> QED
  BY <1>1 DEF AgreesWith

(* A profile that holds another.                                            *)
Extends(p, q) ==
    /\ DOMAIN p.context \subseteq DOMAIN q.context
    /\ \A id \in DOMAIN p.context : q.context[id] = p.context[id]
    /\ Grows(p.location, q.location) /\ Grows(p.function, q.function)

(* What it says of the contexts of the other is the same.                   *)
LEMMA ExtendsKeeps ==
  ASSUME NEW p, NEW q, NEW array, AgreesWith(p, array), Extends(p, q), NEW id \in DOMAIN p.context
  PROVE  /\ q.context[id] = p.context[id]
         /\ q.location[q.context[id].location] = p.location[p.context[id].location]
         /\ NameOf(q, id) = NameOf(p, id)
<1>1. q.context[id] = p.context[id]
  BY DEF Extends
<1>2. p.context[id].location \in 1..Len(p.location)
  BY DEF AgreesWith
<1>3. q.location[q.context[id].location] = p.location[p.context[id].location]
  BY <1>1, <1>2 DEF Extends, Grows
<1>4. p.location[p.context[id].location].function \in 1..Len(p.function)
  BY DEF AgreesWith
<1>5. NameOf(q, id) = NameOf(p, id)
  BY <1>3, <1>4 DEF Extends, Grows, NameOf
<1> QED
  BY <1>1, <1>3, <1>5

(* A path shown stays shown.                                                *)
LEMMA PathKept ==
  ASSUME NEW p, NEW q, NEW array, AgreesWith(p, array), Extends(p, q), NEW id, NEW path,
         ShowsPath(p, id, path)
  PROVE  ShowsPath(q, id, path)
<1>1. PICK c \in [DOMAIN path -> DOMAIN p.context] :
        /\ c[Len(path)] = id
        /\ \A k \in DOMAIN path : IsContext(p, c[k], IF k = 1 THEN Root ELSE c[k - 1], path[k])
  BY DEF ShowsPath
<1>2. c \in [DOMAIN path -> DOMAIN q.context]
  BY DEF Extends
<1>3. ASSUME NEW k \in DOMAIN path
      PROVE  IsContext(q, c[k], IF k = 1 THEN Root ELSE c[k - 1], path[k])
  <2> PICK parent : parent = IF k = 1 THEN Root ELSE c[k - 1]
    OBVIOUS
  <2>1. IsContext(p, c[k], parent, path[k])
    BY <1>1
  <2>2. c[k] \in DOMAIN p.context
    OBVIOUS
  <2>3. IsContext(q, c[k], parent, path[k])
    BY <2>1, <2>2, ExtendsKeeps DEF IsContext
  <2> QED
    BY <2>3
<1> QED
  BY <1>1, <1>2, <1>3 DEF ShowsPath

(* A chain of contexts of which all are in the profile is shown.            *)
LEMMA ChainIsShown ==
  ASSUME NEW p, NEW array, AgreesWith(p, array), NEW path, DOMAIN path = 1..Len(path),
         NEW c \in [1..Len(path) -> DOMAIN p.context], Chain(array, c, Len(path), path)
  PROVE  ShowsPath(p, c[Len(path)], path)
<1>1. ASSUME NEW k \in DOMAIN path
      PROVE  IsContext(p, c[k], IF k = 1 THEN Root ELSE c[k - 1], path[k])
  <2> PICK parent : parent = IF k = 1 THEN Root ELSE c[k - 1]
    OBVIOUS
  <2>1. array[c[k]] = [pid |-> parent, mid |-> path[k].mid, lineNo |-> path[k].lineNo]
    BY DEF Chain, Parent
  <2>2. c[k] \in DOMAIN p.context
    OBVIOUS
  <2>3. IsContext(p, c[k], parent, path[k])
    BY <2>1, <2>2 DEF IsContext, AgreesWith
  <2> QED
    BY <2>3
<1> QED
  BY <1>1 DEF ShowsPath

-----------------------------------------------------------------------------
(* The profile after a message: what addContext makes of p.                 *)
AfterMessage(p, msg, parent) ==
    LET f == Intern(p.function, msg.name)
        l == Intern(p.location, [function |-> f.id, line |-> msg.lineNo])
    IN  [function |-> f.table, location |-> l.table,
         context |-> WithContext(p.context, msg.id, [location |-> l.id, parent_id |-> parent]),
         sample |-> p.sample]

(* A message adds at most its own context, with the name and the line of    *)
(* the frame that context_array has for it.                                 *)
LEMMA MessageFacts ==
  ASSUME NEW p, IsProfile(p), NEW msg, NEW parent, NEW array, AgreesWith(p, array),
         msg.id \in 1..Len(array),
         array[msg.id] = [pid |-> parent, mid |-> msg.name.mid, lineNo |-> msg.lineNo]
  PROVE  LET q == AfterMessage(p, msg, parent)
         IN  /\ IsProfile(q) /\ Extends(p, q) /\ AgreesWith(q, array) /\ q.sample = p.sample
             /\ DOMAIN q.context = DOMAIN p.context \cup {msg.id}
             /\ msg.id \notin DOMAIN p.context => NameOf(q, msg.id) = msg.name
<1> PICK f : f = Intern(p.function, msg.name)
  OBVIOUS
<1> PICK loc : loc = [function |-> f.id, line |-> msg.lineNo]
  OBVIOUS
<1> PICK l : l = Intern(p.location, loc)
  OBVIOUS
<1> PICK new : new = [location |-> l.id, parent_id |-> parent]
  OBVIOUS
<1> PICK q : q = AfterMessage(p, msg, parent)
  OBVIOUS
<1>1. q = [function |-> f.table, location |-> l.table,
           context |-> WithContext(p.context, msg.id, new), sample |-> p.sample]
  BY DEF AfterMessage
<1>2. /\ q.function = f.table /\ q.location = l.table /\ q.sample = p.sample
      /\ q.context = WithContext(p.context, msg.id, new)
  BY <1>1
<1>3. IsSeq(p.function) /\ IsSeq(p.location) /\ IsSeq(p.sample)
  BY DEF IsProfile
<1>4. /\ IsSeq(f.table) /\ Grows(p.function, f.table)
      /\ f.id \in 1..Len(f.table) /\ f.table[f.id] = msg.name
  BY <1>3, InternGrows
<1>5. /\ IsSeq(l.table) /\ Grows(p.location, l.table)
      /\ l.id \in 1..Len(l.table) /\ l.table[l.id] = loc
  BY <1>3, InternGrows
<1>6. IsProfile(q)
  BY <1>1, <1>2, <1>3, <1>4, <1>5 DEF IsProfile
<1>7. /\ DOMAIN q.context = DOMAIN p.context \cup {msg.id}
      /\ \A id \in DOMAIN p.context : q.context[id] = p.context[id]
      /\ msg.id \notin DOMAIN p.context => q.context[msg.id] = new
  BY <1>2 DEF WithContext
<1>8. Extends(p, q)
  BY <1>2, <1>4, <1>5, <1>7 DEF Extends
<1>9. ASSUME msg.id \notin DOMAIN p.context
      PROVE  /\ q.context[msg.id] = new /\ new.location = l.id /\ new.parent_id = parent
             /\ q.location[l.id] = loc /\ loc.function = f.id /\ loc.line = msg.lineNo
             /\ NameOf(q, msg.id) = msg.name
  <2>1. q.context[msg.id] = new
    BY <1>7, <1>9
  <2>2. new.location = l.id /\ new.parent_id = parent
    OBVIOUS
  <2>3. q.location[l.id] = loc
    BY <1>2, <1>5
  <2>4. loc.function = f.id /\ loc.line = msg.lineNo
    OBVIOUS
  <2>5. q.function[f.id] = msg.name
    BY <1>2, <1>4
  <2>6. NameOf(q, msg.id) = msg.name
    BY <2>1, <2>2, <2>3, <2>4, <2>5 DEF NameOf
  <2> QED
    BY <2>1, <2>2, <2>3, <2>4, <2>6
<1>10. ASSUME NEW id \in DOMAIN q.context
       PROVE  LET place == q.context[id].location
              IN  /\ id \in 1..Len(array) /\ q.context[id].parent_id = array[id].pid
                  /\ place \in 1..Len(q.location) /\ q.location[place].line = array[id].lineNo
                  /\ q.location[place].function \in 1..Len(q.function)
                  /\ NameOf(q, id).mid = array[id].mid
  <2>1. CASE id \in DOMAIN p.context
    <3>1. /\ q.context[id] = p.context[id]
          /\ q.location[q.context[id].location] = p.location[p.context[id].location]
          /\ NameOf(q, id) = NameOf(p, id)
      BY <1>8, <2>1, ExtendsKeeps
    <3>2. /\ id \in 1..Len(array) /\ p.context[id].parent_id = array[id].pid
          /\ p.context[id].location \in 1..Len(p.location)
          /\ p.location[p.context[id].location].line = array[id].lineNo
          /\ p.location[p.context[id].location].function \in 1..Len(p.function)
          /\ NameOf(p, id).mid = array[id].mid
      BY <2>1 DEF AgreesWith
    <3>3. \A i \in 1..Len(p.location) : i \in 1..Len(q.location)
      BY <1>2, <1>5 DEF Grows
    <3>4. \A i \in 1..Len(p.function) : i \in 1..Len(q.function)
      BY <1>2, <1>4 DEF Grows
    <3> QED
      BY <3>1, <3>2, <3>3, <3>4
  <2>2. CASE id \notin DOMAIN p.context
    <3>1. id = msg.id
      BY <1>7, <2>2
    <3>2. /\ q.context[id].location = l.id /\ q.context[id].parent_id = parent
          /\ q.location[l.id].function = f.id /\ q.location[l.id].line = msg.lineNo
          /\ NameOf(q, id) = msg.name
      BY <1>9, <2>2, <3>1
    <3>3. array[id].pid = parent /\ array[id].mid = msg.name.mid /\ array[id].lineNo = msg.lineNo
      BY <3>1
    <3>4. l.id \in 1..Len(q.location) /\ f.id \in 1..Len(q.function)
      BY <1>2, <1>4, <1>5
    <3> QED
      BY <3>1, <3>2, <3>3, <3>4
  <2> QED
    BY <2>1, <2>2
<1>11. AgreesWith(q, array)
  BY <1>10 DEF AgreesWith
<1> QED
  BY <1>2, <1>6, <1>7, <1>8, <1>9, <1>11

-----------------------------------------------------------------------------
(* After GroupFiles the files stay as they are.                             *)
LEMMA SameFiles ==
  ASSUME UNCHANGED <<documents, chosen, order>>
  PROVE  /\ \A tid, k : LinesOf(tid, k)' = LinesOf(tid, k) /\ Kinds(tid)' = Kinds(tid)
                        /\ Holding(tid, k)' = Holding(tid, k)
                        /\ MethodMap(tid)' = MethodMap(tid)
                        /\ (IsListed(tid, k)' <=> IsListed(tid, k))
         /\ \A pass, x : Places(pass)' = Places(pass) /\ LineAt(pass, x)' = LineAt(pass, x)
         /\ AllNamed' <=> AllNamed
<1>1. \A tid, k : Holding(tid, k)' = Holding(tid, k)
  BY DEF Holding
<1>2. \A tid : Kinds(tid)' = Kinds(tid)
  BY <1>1 DEF Kinds
<1>3. \A tid, k : IsListed(tid, k)' <=> IsListed(tid, k)
  BY <1>2 DEF IsListed
<1>4. \A tid, k : LinesOf(tid, k)' = LinesOf(tid, k)
  BY DEF LinesOf
<1>5. \A tid : MethodMap(tid)' = MethodMap(tid)
  BY <1>4 DEF MethodMap
<1>6. \A tid, k : WholeLines(tid, k)' = WholeLines(tid, k)
  BY <1>3, <1>4 DEF WholeLines
<1>7. \A pass, x : Places(pass)' = Places(pass) /\ LineAt(pass, x)' = LineAt(pass, x)
  BY <1>4, <1>6 DEF Places, LineAt
<1>8. AllNamed' <=> AllNamed
  BY <1>2, <1>5, <1>7 DEF AllNamed
<1> QED
  BY <1>1, <1>2, <1>3, <1>4, <1>5, <1>7, <1>8

(* The three passes.                                                        *)
LEMMA PassKinds ==
  /\ Len(Passes) = 3 /\ DOMAIN Passes = 1..3
  /\ Passes[1] = "cachemiss" /\ Passes[2] = "trace" /\ Passes[3] = "alloc"
  /\ \A pass \in 1..3 : Passes[pass] \in {"cachemiss", "trace", "alloc"}
<1>1. Len(Passes) = 3 /\ DOMAIN Passes = 1..3
  BY DEF Passes
<1>2. Passes[1] = "cachemiss" /\ Passes[2] = "trace" /\ Passes[3] = "alloc"
  BY DEF Passes
<1>3. \A pass \in 1..3 : pass = 1 \/ pass = 2 \/ pass = 3
  OBVIOUS
<1> QED
  BY <1>1, <1>2, <1>3

(* The lines of a thread that has a file of a kind.                         *)
LEMMA LinesAreFile ==
  ASSUME Shape, Picked, pc # "group", NEW tid \in DOMAIN documents,
         NEW kind \in {"cachemiss", "trace", "alloc"}, kind \in Kinds(tid)
  PROVE  IsFile(LinesOf(tid, kind))
<1> PICK a : a = chosen[tid][kind]
  OBVIOUS
<1>1. a \in DOMAIN documents[tid] /\ kind \in DOMAIN documents[tid][a]
  BY DEF Picked, Holding
<1>2. IsFile(documents[tid][a][kind])
  BY <1>1, ConverterAssumption DEF Shape, LineKinds
<1> QED
  BY <1>2 DEF LinesOf

(* The lines of a thread in the list of a pass.                             *)
LEMMA LinesAreSeq ==
  ASSUME Shape, Picked, pc # "group", NEW i \in 1..Len(order), NEW pass \in 1..3,
         IsListed(order[i], Passes[pass])
  PROVE  LET lines == LinesOf(order[i], Passes[pass])
         IN  /\ Len(lines) \in Nat /\ DOMAIN lines = 1..Len(lines)
             /\ \A n \in 1..Len(lines) :
                  /\ lines[n].path \in Seq(Frames) /\ lines[n].cut \in {"no", "path", "bar"}
                  /\ lines[n].value \in Int
                  /\ lines[n].cut = "no" => lines[n].path # <<>>
<1> PICK lines : lines = LinesOf(order[i], Passes[pass])
  OBVIOUS
<1>1. order[i] \in DOMAIN documents
  BY ElementOfSeq DEF Shape
<1>2. Passes[pass] \in {"cachemiss", "trace", "alloc"} /\ Passes[pass] \in Kinds(order[i])
  BY PassKinds DEF IsListed
<1>3. IsFile(lines)
  BY <1>1, <1>2, LinesAreFile
<1>4. Len(lines) \in Nat /\ DOMAIN lines = 1..Len(lines)
  BY <1>3, LenProperties DEF IsFile
<1>5. \A n \in 1..Len(lines) : lines[n] \in Lines
  BY <1>3, ElementOfSeq DEF IsFile
<1>6. \A n \in 1..Len(lines) : /\ lines[n].path \in Seq(Frames) /\ lines[n].value \in Int
                               /\ lines[n].cut \in {"no", "path", "bar"}
  BY <1>5 DEF Lines
<1> QED
  BY <1>3, <1>4, <1>6 DEF IsFile

(* A place is a thread in the list and a whole line of its file.            *)
LEMMA PlaceFacts ==
  ASSUME Shape, NEW pass, NEW x \in Places(pass)
  PROVE  /\ x = <<x[1], x[2]>> /\ x[1] \in 1..Len(order)
         /\ IsListed(order[x[1]], Passes[pass])
         /\ x[2] \in DOMAIN LinesOf(order[x[1]], Passes[pass])
         /\ LineAt(pass, x).cut = "no"
<1>1. PICK i \in DOMAIN order : x \in {<<i, n>> : n \in WholeLines(order[i], Passes[pass])}
  BY DEF Places
<1>2. PICK n \in WholeLines(order[i], Passes[pass]) : x = <<i, n>>
  BY <1>1
<1>3. x[1] = i /\ x[2] = n
  BY <1>2
<1>4. i \in 1..Len(order)
  BY LenProperties DEF Shape
<1>5. /\ IsListed(order[i], Passes[pass]) /\ n \in DOMAIN LinesOf(order[i], Passes[pass])
      /\ LinesOf(order[i], Passes[pass])[n].cut = "no"
  BY DEF WholeLines
<1> QED
  BY <1>2, <1>3, <1>4, <1>5 DEF LineAt

(* Its two numbers.                                                         *)
LEMMA PlaceNumbers ==
  ASSUME Shape, Picked, pc # "group", NEW pass \in 1..3, NEW x \in Places(pass)
  PROVE  /\ x[1] \in Nat /\ x[1] >= 1 /\ x[1] <= Len(order) /\ Len(order) \in Nat
         /\ x[2] \in Nat /\ x[2] >= 1 /\ x[2] <= Len(LinesOf(order[x[1]], Passes[pass]))
         /\ Len(LinesOf(order[x[1]], Passes[pass])) \in Nat
<1>1. /\ x[1] \in 1..Len(order) /\ IsListed(order[x[1]], Passes[pass])
      /\ x[2] \in DOMAIN LinesOf(order[x[1]], Passes[pass])
  BY PlaceFacts
<1>2. Len(order) \in Nat
  BY LenProperties DEF Shape
<1>3. /\ Len(LinesOf(order[x[1]], Passes[pass])) \in Nat
      /\ DOMAIN LinesOf(order[x[1]], Passes[pass]) = 1..Len(LinesOf(order[x[1]], Passes[pass]))
  BY <1>1, LinesAreSeq
<1> QED
  BY <1>1, <1>2, <1>3

(* The line in hand.                                                        *)
LEMMA LineInHand ==
  ASSUME Shape, Picked, Where, pc \in {"path", "sample"}
  PROVE  /\ <<at.thread, at.line>> \in Places(at.pass)
         /\ LineAt(at.pass, <<at.thread, at.line>>) = Line
         /\ Line.path \in Seq(Frames) /\ Line.value \in Int
         /\ DOMAIN Line.path = 1..Len(Line.path) /\ Len(Line.path) \in Nat /\ Len(Line.path) >= 1
<1>1. /\ at.thread \in 1..Len(order) /\ IsListed(Thread, Kind) /\ pc # "group"
      /\ at.line \in 1..Len(LinesOf(Thread, Kind)) /\ Line.cut = "no"
  BY DEF Where
<1>2. at.pass \in 1..3
  BY DEF Shape
<1>3. /\ DOMAIN LinesOf(Thread, Kind) = 1..Len(LinesOf(Thread, Kind))
      /\ Line.path \in Seq(Frames) /\ Line.value \in Int /\ Line.path # <<>>
  BY <1>1, <1>2, LinesAreSeq DEF Thread, Kind, Line
<1>4. at.line \in WholeLines(Thread, Kind)
  BY <1>1, <1>3 DEF WholeLines, Line
<1>5. at.thread \in DOMAIN order
  BY <1>1, LenProperties DEF Shape
<1>6. <<at.thread, at.line>> \in Places(at.pass)
  BY <1>4, <1>5 DEF Places, Thread, Kind
<1>7. LineAt(at.pass, <<at.thread, at.line>>) = Line
  BY DEF LineAt, Line, Thread, Kind
<1>8. DOMAIN Line.path = 1..Len(Line.path) /\ Len(Line.path) \in Nat /\ Len(Line.path) # 0
  BY <1>3, LenProperties, EmptySeq
<1> QED
  BY <1>3, <1>6, <1>7, <1>8

(* When every method has its name, those of the line in hand have.          *)
LEMMA NamedInHand ==
  ASSUME Shape, Picked, Where, pc \in {"path", "sample"}, AllNamed, NEW k \in 1..Len(Line.path)
  PROVE  IsNamed(Line.path[k].mid)
<1> PICK x, pass : x = <<at.thread, at.line>> /\ pass = at.pass
  OBVIOUS
<1>1. /\ x \in Places(pass) /\ LineAt(pass, x) = Line /\ DOMAIN Line.path = 1..Len(Line.path)
  BY LineInHand
<1>2. pass \in DOMAIN Passes
  BY PassKinds DEF Shape
<1>3. LineAt(pass, x).path[k].mid \in DOMAIN MethodMap(order[x[1]])
  BY <1>1, <1>2 DEF AllNamed
<1>4. order[x[1]] = Thread
  BY DEF Thread
<1> QED
  BY <1>1, <1>3, <1>4 DEF IsNamed

-----------------------------------------------------------------------------
(* What was told stays told when the profile of the pass only grows.        *)
LEMMA ToldKept ==
  ASSUME Shape, UNCHANGED <<documents, chosen, order>>, NEW pass \in 1..3, NEW told,
         told \in [1..Len(profile[pass].sample) -> Places(pass)],
         ToldBy(told, pass), AgreesWith(profile[pass], context_array),
         Extends(profile[pass], profile'[pass]), profile'[pass].sample = profile[pass].sample,
         \A x \in Places(pass) : Passed(pass, x) => Passed(pass, x)',
         AllNamed => \A x \in Places(pass) : Passed(pass, x)' => Passed(pass, x)
  PROVE  ToldBy(told, pass)'
<1>1. Places(pass)' = Places(pass) /\ (AllNamed' <=> AllNamed)
      /\ \A x : LineAt(pass, x)' = LineAt(pass, x)
  BY SameFiles
<1>2. \A m, n \in DOMAIN told : m < n => IsBefore(told[m], told[n])
  BY DEF ToldBy
<1>3. ASSUME NEW n \in DOMAIN told
      PROVE  Passed(pass, told[n])' /\ Shows(profile'[pass], n, LineAt(pass, told[n])')
  <2>1. told[n] \in Places(pass)
    OBVIOUS
  <2>2. Passed(pass, told[n]) /\ Shows(profile[pass], n, LineAt(pass, told[n]))
    BY DEF ToldBy
  <2>3. Passed(pass, told[n])'
    BY <2>1, <2>2
  <2>4. Shows(profile'[pass], n, LineAt(pass, told[n]))
    BY <2>2, PathKept DEF Shows
  <2> QED
    BY <1>1, <2>3, <2>4
<1>4. AllNamed' => \A x \in Places(pass)' : Passed(pass, x)' => \E n \in DOMAIN told : told[n] = x
  BY <1>1 DEF ToldBy
<1> QED
  BY <1>2, <1>3, <1>4 DEF ToldBy

(* A step that leaves the profiles alone, and that passes no whole line if  *)
(* every method has its name.                                               *)
LEMMA QuietStep ==
  ASSUME ConverterIInv, UNCHANGED <<documents, chosen, order, profile>>,
         Grows(context_array, context_array'),
         \A pass \in 1..3 : \A x \in Places(pass) :
            /\ Passed(pass, x) => Passed(pass, x)'
            /\ AllNamed => (Passed(pass, x)' => Passed(pass, x))
  PROVE  Agreeing' /\ Telling' /\ ObjectsOnlyAtLeaves'
<1>1. Shape /\ Agreeing /\ Telling /\ ObjectsOnlyAtLeaves
  BY DEF ConverterIInv
<1>2. /\ AllNamed' <=> AllNamed
      /\ \A pass, x : Places(pass)' = Places(pass) /\ LineAt(pass, x)' = LineAt(pass, x)
      /\ \A tid : MethodMap(tid)' = MethodMap(tid)
  BY SameFiles
<1>3. \A pass : Complete(pass)' <=> Complete(pass)
  BY <1>2 DEF Complete
<1>4. Agreeing'
  BY <1>1, <1>3, AgreementGrows DEF Agreeing
<1>5. ASSUME NEW pass \in 1..3, Complete(pass)
      PROVE  \E told \in [1..Len(profile[pass].sample) -> Places(pass)] : ToldBy(told, pass)'
  <2>1. PICK told \in [1..Len(profile[pass].sample) -> Places(pass)] : ToldBy(told, pass)
    BY <1>1, <1>5 DEF Telling
  <2>2. AgreesWith(profile[pass], context_array)
    BY <1>1, <1>5 DEF Agreeing
  <2>3. Extends(profile[pass], profile[pass])
    <3>1. Len(profile[pass].location) \in Nat /\ Len(profile[pass].function) \in Nat
      BY <1>1 DEF Shape, IsProfile, IsSeq
    <3> QED
      BY <3>1 DEF Extends, Grows
  <2>4. ToldBy(told, pass)'
    BY <1>1, <2>1, <2>2, <2>3, ToldKept
  <2> QED
    BY <2>4
<1>6. Telling'
  BY <1>2, <1>3, <1>5 DEF Telling
<1>7. ObjectsOnlyAtLeaves'
  BY <1>1, <1>2 DEF ObjectsOnlyAtLeaves
<1> QED
  BY <1>4, <1>6, <1>7

(* Nothing is told while nothing is read.                                   *)
LEMMA FreshProfiles ==
  /\ \A p \in 1..3 : profile[p] = NoProfile
  /\ \A pass \in 1..3 : \A x \in Places(pass) : ~Passed(pass, x)
  => Agreeing /\ Telling /\ ObjectsOnlyAtLeaves
<1> SUFFICES ASSUME \A p \in 1..3 : profile[p] = NoProfile,
                    \A pass \in 1..3 : \A x \in Places(pass) : ~Passed(pass, x)
             PROVE  Agreeing /\ Telling /\ ObjectsOnlyAtLeaves
  OBVIOUS
<1>1. \A p \in 1..3 : DOMAIN profile[p].context = {} /\ profile[p].sample = <<>>
  BY DEF NoProfile
<1>2. Agreeing
  BY <1>1 DEF Agreeing, AgreesWith
<1>3. ASSUME NEW pass \in 1..3
      PROVE  \E told \in [1..Len(profile[pass].sample) -> Places(pass)] : ToldBy(told, pass)
  <2> PICK told : told = [n \in 1..0 |-> <<0, 0>>]
    OBVIOUS
  <2>1. 1..0 = {} /\ DOMAIN told = {}
    OBVIOUS
  <2>2. Len(profile[pass].sample) = 0
    BY <1>1
  <2>3. told \in [1..Len(profile[pass].sample) -> Places(pass)]
    BY <2>1, <2>2
  <2>4. ToldBy(told, pass)
    BY <2>1 DEF ToldBy
  <2> QED
    BY <2>3, <2>4
<1>4. Telling
  BY <1>3 DEF Telling
<1>5. 2 \in 1..3
  OBVIOUS
<1>6. ObjectsOnlyAtLeaves
  BY <1>1, <1>5 DEF ObjectsOnlyAtLeaves
<1> QED
  BY <1>2, <1>4, <1>6

(* The same in the next state.                                              *)
LEMMA FreshProfilesPrime ==
  (/\ \A p \in 1..3 : profile[p] = NoProfile
   /\ \A pass \in 1..3 : \A x \in Places(pass) : ~Passed(pass, x))'
  => (Agreeing /\ Telling /\ ObjectsOnlyAtLeaves)'
  BY FreshProfiles, PTL

(* The numbers of all places.                                               *)
LEMMA PlaceNumbersAll ==
  Shape /\ Picked /\ pc # "group" =>
    \A pass \in 1..3 : \A x \in Places(pass) :
      /\ x[1] \in Nat /\ x[1] >= 1 /\ x[1] <= Len(order) /\ Len(order) \in Nat
      /\ x[2] \in Nat /\ x[2] >= 1 /\ x[2] <= Len(LinesOf(order[x[1]], Passes[pass]))
      /\ Len(LinesOf(order[x[1]], Passes[pass])) \in Nat
  BY PlaceNumbers

(* The same in the next state.                                              *)
LEMMA PlaceNumbersPrime ==
  (Shape /\ Picked /\ pc # "group")' =>
    (\A pass \in 1..3 : \A x \in Places(pass) :
      /\ x[1] \in Nat /\ x[1] >= 1 /\ x[1] <= Len(order) /\ Len(order) \in Nat
      /\ x[2] \in Nat /\ x[2] >= 1 /\ x[2] <= Len(LinesOf(order[x[1]], Passes[pass]))
      /\ Len(LinesOf(order[x[1]], Passes[pass])) \in Nat)'
  BY PlaceNumbersAll, PTL

(* The initial states.                                                      *)
LEMMA ConverterInitHolds ==
  ASSUME Init
  PROVE  ConverterIInv
<1>1. /\ documents \in Directories /\ order = <<>> /\ pc = "group"
      /\ at = [pass |-> 1, thread |-> 1, line |-> 1]
      /\ context_array = <<>> /\ work = NoWork /\ profile = [p \in 1..3 |-> NoProfile]
  BY PassKinds DEF Init
<1>2. IsSeq(<<>>)
  BY DEF IsSeq
<1>3. IsProfile(NoProfile)
  BY <1>2 DEF IsProfile, NoProfile
<1>4. /\ work = [frame |-> work.frame, cur |-> work.cur, msgs |-> work.msgs]
      /\ work.frame \in Nat \ {0} /\ IsSeq(work.msgs)
  BY <1>1, <1>2 DEF NoWork
<1>5. Shape
  BY <1>1, <1>2, <1>3, <1>4 DEF Shape
<1>6. PcShape /\ Picked /\ Working
  BY <1>1 DEF PcShape, Picked, Working
<1>7. Where
  BY <1>1 DEF Where
<1>8. \A pass : Places(pass) = {}
  BY <1>1 DEF Places
<1>9. Agreeing /\ Telling /\ ObjectsOnlyAtLeaves
  BY <1>1, <1>8, FreshProfiles
<1> QED
  BY <1>5, <1>6, <1>7, <1>9 DEF ConverterIInv

(* The grouping of the files.                                               *)
LEMMA GroupFilesStep ==
  ASSUME ConverterIInv, GroupFiles
  PROVE  ConverterIInv'
<1>1. /\ Shape /\ pc = "group" /\ pc' = "open"
      /\ UNCHANGED <<documents, at, context_array, profile, work>>
      /\ at = [pass |-> 1, thread |-> 1, line |-> 1] /\ \A p \in 1..3 : profile[p] = NoProfile
  BY DEF ConverterIInv, GroupFiles, Where
<1>2. \A tid, k : Holding(tid, k)' = Holding(tid, k)
  BY <1>1 DEF Holding
<1>3. \A tid : Kinds(tid)' = Kinds(tid)
  BY <1>2 DEF Kinds
<1>4. \A tid \in DOMAIN documents : \A k \in Kinds(tid) : chosen'[tid][k] \in Holding(tid, k)
  BY DEF GroupFiles
<1>5. Picked'
  BY <1>1, <1>2, <1>3, <1>4 DEF Picked
<1>6. order' \in Seq(DOMAIN documents)
  <2> PICK S : S = {tid \in DOMAIN documents : Kinds(tid) # {}}
    OBVIOUS
  <2>1. IsFiniteSet(DOMAIN documents) /\ S \subseteq DOMAIN documents
    BY <1>1, ConverterAssumption DEF Shape
  <2>2. Cardinality(S) \in Nat
    BY <2>1, FS_Subset, FS_CardinalityType
  <2>3. order' \in [1..Cardinality(S) -> S]
    BY DEF GroupFiles, SetToSeqs
  <2>4. order' \in [1..Cardinality(S) -> DOMAIN documents]
    BY <2>1, <2>3
  <2> QED
    BY <2>2, <2>4, FunctionIsSeq
<1>7. Shape'
  BY <1>1, <1>6 DEF Shape
<1>8. PcShape' /\ Where' /\ Working'
  BY <1>1 DEF PcShape, Where, Working
<1>9. ASSUME NEW pass \in 1..3, NEW x \in Places(pass)' PROVE ~Passed(pass, x)'
  <2>1. x[1] \in Nat /\ x[1] >= 1 /\ x[2] \in Nat /\ x[2] >= 1
    BY <1>1, <1>5, <1>7, PlaceNumbersPrime
  <2>2. at'.pass = 1 /\ at'.thread = 1 /\ at'.line = 1
    BY <1>1
  <2> QED
    BY <1>1, <2>1, <2>2 DEF Passed
<1>10. Agreeing' /\ Telling' /\ ObjectsOnlyAtLeaves'
  BY <1>1, <1>9, FreshProfilesPrime
<1> QED
  BY <1>5, <1>7, <1>8, <1>10 DEF ConverterIInv

-----------------------------------------------------------------------------
(* The files picked stay picked.                                            *)
LEMMA PickedKept ==
  ASSUME Picked, UNCHANGED <<documents, chosen, order>>, pc # "group"
  PROVE  Picked'
<1>1. \A tid, k : Holding(tid, k)' = Holding(tid, k) /\ Kinds(tid)' = Kinds(tid)
  BY SameFiles
<1> QED
  BY <1>1 DEF Picked

(* A sequence starts with itself.                                           *)
LEMMA GrowsSelf ==
  ASSUME NEW t, IsSeq(t)
  PROVE  Grows(t, t)
  BY DEF IsSeq, Grows

(* From a thread to the next.                                               *)
LEMMA SkipThreadStep ==
  ASSUME ConverterIInv, SkipThread
  PROVE  ConverterIInv'
<1>1. /\ Shape /\ Picked /\ pc = "open" /\ pc' = "open" /\ ~IsListed(Thread, Kind)
      /\ at' = [pass |-> at.pass, thread |-> at.thread + 1, line |-> 1]
      /\ UNCHANGED <<documents, chosen, order, context_array, profile, work>>
  BY DEF ConverterIInv, SkipThread, NextThread
<1>2. at \in [pass : 1..3, thread : Nat \ {0}, line : Nat \ {0}] /\ IsSeq(context_array)
  BY <1>1 DEF Shape
<1>3. at' \in [pass : 1..3, thread : Nat \ {0}, line : Nat \ {0}]
      /\ at'.pass = at.pass /\ at'.thread = at.thread + 1 /\ at'.line = 1
  BY <1>1, <1>2
<1>4. Shape' /\ Picked'
  BY <1>1, <1>3, PickedKept DEF Shape
<1>5. PcShape' /\ Where' /\ Working'
  BY <1>1 DEF PcShape, Where, Working
<1>6. ASSUME NEW pass \in 1..3, NEW x \in Places(pass)
      PROVE  Passed(pass, x)' <=> Passed(pass, x)
  <2>1. x[1] \in Nat /\ x[2] \in Nat /\ x[2] >= 1
    BY <1>1, PlaceNumbers
  <2>2. at.pass = pass => at.thread # x[1]
    <3>1. IsListed(order[x[1]], Passes[pass])
      BY <1>1, PlaceFacts
    <3> QED
      BY <1>1, <3>1 DEF Thread, Kind
  <2>3. at.pass \in Nat /\ at.thread \in Nat /\ at.line \in Nat
    BY <1>2
  <2> QED
    BY <1>1, <1>3, <2>1, <2>2, <2>3 DEF Passed
<1>7. Agreeing' /\ Telling' /\ ObjectsOnlyAtLeaves'
  BY <1>1, <1>2, <1>6, QuietStep, GrowsSelf
<1> QED
  BY <1>4, <1>5, <1>7 DEF ConverterIInv

(* A file is at its end: all its lines were passed.                         *)
LEMMA CloseFilesStep ==
  ASSUME ConverterIInv, CloseFiles
  PROVE  ConverterIInv'
<1>1. /\ Shape /\ Picked /\ pc = "lines" /\ pc' = "open" /\ at.line > Len(LinesOf(Thread, Kind))
      /\ at' = [pass |-> at.pass, thread |-> at.thread + 1, line |-> 1]
      /\ UNCHANGED <<documents, chosen, order, context_array, profile, work>>
  BY DEF ConverterIInv, CloseFiles, NextThread
<1>2. at \in [pass : 1..3, thread : Nat \ {0}, line : Nat \ {0}] /\ IsSeq(context_array)
  BY <1>1 DEF Shape
<1>3. at' \in [pass : 1..3, thread : Nat \ {0}, line : Nat \ {0}]
      /\ at'.pass = at.pass /\ at'.thread = at.thread + 1 /\ at'.line = 1
  BY <1>1, <1>2
<1>4. Shape' /\ Picked'
  BY <1>1, <1>3, PickedKept DEF Shape
<1>5. PcShape' /\ Where' /\ Working'
  BY <1>1 DEF PcShape, Where, Working
<1>6. ASSUME NEW pass \in 1..3, NEW x \in Places(pass)
      PROVE  Passed(pass, x)' <=> Passed(pass, x)
  <2>1. /\ x[1] \in Nat /\ x[2] \in Nat /\ x[2] >= 1
        /\ x[2] <= Len(LinesOf(order[x[1]], Passes[pass]))
        /\ Len(LinesOf(order[x[1]], Passes[pass])) \in Nat
    BY <1>1, PlaceNumbers
  <2>2. at.pass \in Nat /\ at.thread \in Nat /\ at.line \in Nat
    BY <1>2
  <2>3. at.pass = pass /\ at.thread = x[1] => at.line > x[2]
    <3>1. at.pass = pass /\ at.thread = x[1] =>
            LinesOf(Thread, Kind) = LinesOf(order[x[1]], Passes[pass])
      BY DEF Thread, Kind
    <3> QED
      BY <1>1, <2>1, <2>2, <3>1
  <2> QED
    BY <1>1, <1>3, <2>1, <2>2, <2>3 DEF Passed
<1>7. Agreeing' /\ Telling' /\ ObjectsOnlyAtLeaves'
  BY <1>1, <1>2, <1>6, QuietStep, GrowsSelf
<1> QED
  BY <1>4, <1>5, <1>7 DEF ConverterIInv

(* The files of a thread are opened.                                        *)
LEMMA OpenFilesStep ==
  ASSUME ConverterIInv, OpenFiles
  PROVE  ConverterIInv'
<1>1. /\ Shape /\ Picked /\ pc = "open" /\ pc' \in {"lines", "crashed"} /\ IsListed(Thread, Kind)
      /\ at.thread <= Len(order)
      /\ UNCHANGED <<documents, chosen, order, at, context_array, profile, work>>
  BY DEF ConverterIInv, OpenFiles
<1>2. at \in [pass : 1..3, thread : Nat \ {0}, line : Nat \ {0}] /\ IsSeq(context_array)
  BY <1>1 DEF Shape
<1>3. Shape' /\ Picked'
  BY <1>1, PickedKept DEF Shape
<1>4. PcShape' /\ Working'
  BY <1>1 DEF PcShape, Working
<1>5. Where'
  <2>1. Len(order) \in Nat
    BY <1>1, LenProperties DEF Shape
  <2>2. at.thread \in 1..Len(order)
    BY <1>1, <1>2, <2>1
  <2>3. IsListed(Thread, Kind)'
    BY <1>1, SameFiles DEF Thread, Kind
  <2> QED
    BY <1>1, <2>2, <2>3 DEF Where
<1>6. \A pass, x : Passed(pass, x)' <=> Passed(pass, x)
  BY <1>1 DEF Passed
<1>7. Agreeing' /\ Telling' /\ ObjectsOnlyAtLeaves'
  BY <1>1, <1>2, <1>6, QuietStep, GrowsSelf
<1> QED
  BY <1>3, <1>4, <1>5, <1>7 DEF ConverterIInv

(* The end of a pass.                                                       *)
LEMMA GenerateProfileStep ==
  ASSUME ConverterIInv, generateProfile
  PROVE  ConverterIInv'
<1>1. /\ Shape /\ Picked /\ pc = "open" /\ at.thread > Len(order)
      /\ \/ /\ at.pass < 3 /\ at' = [pass |-> at.pass + 1, thread |-> 1, line |-> 1] /\ pc' = pc
         \/ /\ ~(at.pass < 3) /\ pc' = "done" /\ at' = at
      /\ UNCHANGED <<documents, chosen, order, context_array, profile, work>>
  BY PassKinds DEF ConverterIInv, generateProfile
<1>2. at \in [pass : 1..3, thread : Nat \ {0}, line : Nat \ {0}] /\ IsSeq(context_array)
  BY <1>1 DEF Shape
<1>3. CASE at.pass < 3 /\ at' = [pass |-> at.pass + 1, thread |-> 1, line |-> 1] /\ pc' = pc
  <2>1. at' \in [pass : 1..3, thread : Nat \ {0}, line : Nat \ {0}]
        /\ at'.pass = at.pass + 1 /\ at'.thread = 1 /\ at'.line = 1
    BY <1>2, <1>3
  <2>2. Shape' /\ Picked'
    BY <1>1, <1>3, <2>1, PickedKept DEF Shape
  <2>3. PcShape' /\ Where' /\ Working'
    BY <1>1, <1>3 DEF PcShape, Where, Working
  <2>4. ASSUME NEW pass \in 1..3, NEW x \in Places(pass)
        PROVE  Passed(pass, x)' <=> Passed(pass, x)
    <3>1. /\ x[1] \in Nat /\ x[1] >= 1 /\ x[2] \in Nat /\ x[2] >= 1
          /\ x[1] <= Len(order) /\ Len(order) \in Nat
      BY <1>1, PlaceNumbers
    <3>2. at.pass \in Nat /\ at.thread \in Nat /\ at.line \in Nat /\ pass \in Nat
      BY <1>2
    <3> QED
      BY <1>1, <1>3, <2>1, <3>1, <3>2 DEF Passed
  <2>5. Agreeing' /\ Telling' /\ ObjectsOnlyAtLeaves'
    BY <1>1, <1>2, <2>4, QuietStep, GrowsSelf
  <2> QED
    BY <2>2, <2>3, <2>5 DEF ConverterIInv
<1>4. CASE ~(at.pass < 3) /\ pc' = "done" /\ at' = at
  <2>1. at.pass = 3
    BY <1>2, <1>4
  <2>2. Shape' /\ Picked'
    BY <1>1, <1>4, PickedKept DEF Shape
  <2>3. PcShape' /\ Where' /\ Working'
    BY <1>1, <1>4, <2>1 DEF PcShape, Where, Working
  <2>4. \A pass, x : Passed(pass, x)' <=> Passed(pass, x)
    BY <1>1, <1>4 DEF Passed
  <2>5. Agreeing' /\ Telling' /\ ObjectsOnlyAtLeaves'
    BY <1>1, <1>2, <2>4, QuietStep, GrowsSelf
  <2> QED
    BY <2>2, <2>3, <2>5 DEF ConverterIInv
<1> QED
  BY <1>1, <1>3, <1>4

(* A line is read: it has a path to follow, is cut in its path, or stops    *)
(* the script.                                                              *)
LEMMA ReadLineStep ==
  ASSUME ConverterIInv, ReadLine
  PROVE  ConverterIInv'
<1>1. /\ Shape /\ Picked /\ Where /\ pc = "lines" /\ at.line <= Len(LinesOf(Thread, Kind))
      /\ pc' = Parsed /\ work' = NoWork
      /\ UNCHANGED <<documents, chosen, order, at, context_array, profile>>
  BY DEF ConverterIInv, ReadLine
<1>2. at \in [pass : 1..3, thread : Nat \ {0}, line : Nat \ {0}] /\ IsSeq(context_array)
  BY <1>1 DEF Shape
<1>3. at.thread \in 1..Len(order) /\ IsListed(Thread, Kind)
  BY <1>1 DEF Where
<1>4. /\ Len(LinesOf(Thread, Kind)) \in Nat
      /\ \A n \in 1..Len(LinesOf(Thread, Kind)) :
            /\ LinesOf(Thread, Kind)[n].path \in Seq(Frames)
            /\ LinesOf(Thread, Kind)[n].cut \in {"no", "path", "bar"}
  <2>1. at.pass \in 1..3 /\ pc # "group"
    BY <1>1, <1>2
  <2> QED
    BY <1>1, <1>3, <2>1, LinesAreSeq DEF Thread, Kind
<1>5. at.line \in 1..Len(LinesOf(Thread, Kind))
  BY <1>1, <1>2, <1>4
<1>6. Line.path \in Seq(Frames) /\ Line.cut \in {"no", "path", "bar"} /\ Len(Line.path) \in Nat
  BY <1>4, <1>5, LenProperties DEF Line
<1>7. /\ pc' \in {"path", "next", "crashed"} /\ (pc' = "path" => Line.cut = "no")
      /\ pc' = "next" => Line.cut # "no"
  BY <1>1, <1>6 DEF Parsed
<1>8. /\ work'.frame = 1 /\ work'.cur = Root /\ work'.msgs = <<>>
      /\ work' = [frame |-> work'.frame, cur |-> work'.cur, msgs |-> work'.msgs]
  BY <1>1 DEF NoWork
<1>9. Shape' /\ Picked' /\ PcShape'
  <2>1. IsSeq(<<>>)
    BY DEF IsSeq
  <2> QED
    BY <1>1, <1>7, <1>8, <2>1, PickedKept DEF Shape, PcShape
<1>10. /\ Thread' = Thread /\ Kind' = Kind /\ Line' = Line
       /\ (IsListed(Thread, Kind)' <=> IsListed(Thread, Kind))
       /\ LinesOf(Thread, Kind)' = LinesOf(Thread, Kind)
  BY <1>1, SameFiles DEF Thread, Kind, Line
<1>11. Where'
  <2>1. work'.frame <= Len(Line'.path) + 1
    BY <1>6, <1>8, <1>10
  <2> QED
    BY <1>1, <1>3, <1>5, <1>7, <1>10, <2>1 DEF Where
<1>12. Working'
  <2> PICK c : c = [k \in 1..0 |-> 1]
    OBVIOUS
  <2>1. c \in [1..(work'.frame - 1) -> 1..Len(context_array')] /\ 1..(work'.frame - 1) = {}
    BY <1>8
  <2>2. Chain(context_array', c, work'.frame - 1, Line'.path)
    BY <2>1 DEF Chain
  <2>3. Queue(work'.msgs, c, 0, work'.frame - 1, Line'.path, Kind', MethodMap(Thread)')
    <3>1. work'.frame - 1 - 0 = 0 /\ Len(work'.msgs) = 0 /\ 1..0 = {}
      BY <1>8
    <3> QED
      BY <3>1 DEF Queue
  <2>4. Reading(c)'
    BY <1>8, <2>2, <2>3 DEF Reading, Parent
  <2> QED
    BY <1>7, <2>1, <2>4 DEF Working
<1>13. ASSUME NEW pass \in 1..3, NEW x \in Places(pass)
       PROVE  Passed(pass, x)' <=> Passed(pass, x)
  <2>1. at.pass = pass /\ at.thread = x[1] /\ at.line = x[2] => Line.cut = "no"
    <3>1. LineAt(pass, x).cut = "no"
      BY <1>1, PlaceFacts
    <3> QED
      BY <3>1 DEF LineAt, Line, Thread, Kind
  <2> QED
    BY <1>1, <1>7, <2>1 DEF Passed
<1>14. Agreeing' /\ Telling' /\ ObjectsOnlyAtLeaves'
  BY <1>1, <1>2, <1>13, QuietStep, GrowsSelf
<1> QED
  BY <1>9, <1>11, <1>12, <1>14 DEF ConverterIInv

(* The loop goes on to the next line.                                       *)
LEMMA NextLineStep ==
  ASSUME ConverterIInv, NextLine
  PROVE  ConverterIInv'
<1>1. /\ Shape /\ Picked /\ Where /\ pc = "next" /\ pc' = "lines"
      /\ at' = [at EXCEPT !.line = @ + 1]
      /\ UNCHANGED <<documents, chosen, order, context_array, profile, work>>
  BY DEF ConverterIInv, NextLine
<1>2. at \in [pass : 1..3, thread : Nat \ {0}, line : Nat \ {0}] /\ IsSeq(context_array)
  BY <1>1 DEF Shape
<1>3. at' \in [pass : 1..3, thread : Nat \ {0}, line : Nat \ {0}]
      /\ at'.pass = at.pass /\ at'.thread = at.thread /\ at'.line = at.line + 1
  BY <1>1, <1>2
<1>4. Shape' /\ Picked'
  BY <1>1, <1>3, PickedKept DEF Shape
<1>5. PcShape' /\ Working'
  BY <1>1 DEF PcShape, Working
<1>6. Where'
  <2>1. at.thread \in 1..Len(order) /\ IsListed(Thread, Kind)
    BY <1>1 DEF Where
  <2>2. IsListed(Thread, Kind)'
    BY <1>1, <1>3, <2>1, SameFiles DEF Thread, Kind
  <2> QED
    BY <1>1, <1>3, <2>1, <2>2 DEF Where
<1>7. ASSUME NEW pass \in 1..3, NEW x \in Places(pass)
      PROVE  Passed(pass, x)' <=> Passed(pass, x)
  <2>1. x[1] \in Nat /\ x[2] \in Nat
    BY <1>1, PlaceNumbers
  <2>2. at.pass \in Nat /\ at.thread \in Nat /\ at.line \in Nat
    BY <1>2
  <2> QED
    BY <1>1, <1>3, <2>1, <2>2 DEF Passed
<1>8. Agreeing' /\ Telling' /\ ObjectsOnlyAtLeaves'
  BY <1>1, <1>2, <1>7, QuietStep, GrowsSelf
<1> QED
  BY <1>4, <1>5, <1>6, <1>8 DEF ConverterIInv

(* A chain and its messages with one frame more.                            *)
Longer(c, k, id) == [j \in 1..k |-> IF j = k THEN id ELSE c[j]]

(* A chain with the context of the next frame.                              *)
LEMMA ChainAppend ==
  ASSUME NEW array, NEW new, Grows(array, new), NEW k \in Nat, k >= 1, NEW path,
         NEW c \in [1..(k - 1) -> 1..Len(array)], Chain(array, c, k - 1, path),
         NEW id \in 1..Len(new),
         new[id] = [pid |-> Parent(c, k), mid |-> path[k].mid, lineNo |-> path[k].lineNo]
  PROVE  Longer(c, k, id) \in [1..k -> 1..Len(new)] /\ Chain(new, Longer(c, k, id), k, path)
<1> PICK e : e = [j \in 1..k |-> IF j = k THEN id ELSE c[j]]
  OBVIOUS
<1>1. \A j \in 1..k : j = k \/ j \in 1..(k - 1)
  OBVIOUS
<1>2. Chain(new, c, k - 1, path)
  BY ChainGrows
<1>3. ASSUME NEW j \in 1..k
      PROVE  /\ e[j] \in 1..Len(new)
             /\ new[e[j]] = [pid |-> Parent(e, j), mid |-> path[j].mid, lineNo |-> path[j].lineNo]
  <2>1. Parent(e, j) = Parent(c, j)
    <3>1. CASE j = 1
      BY <3>1 DEF Parent
    <3>2. CASE j # 1
      <4>1. j - 1 \in 1..k /\ j - 1 # k
        BY <3>2
      <4>2. e[j - 1] = c[j - 1]
        BY <4>1
      <4> QED
        BY <3>2, <4>2 DEF Parent
    <3> QED
      BY <3>1, <3>2
  <2>2. CASE j = k
    BY <2>1, <2>2
  <2>3. CASE j \in 1..(k - 1)
    <3>1. j # k
      BY <2>3
    <3>2. e[j] = c[j]
      BY <3>1
    <3> QED
      BY <1>2, <2>1, <2>3, <3>2 DEF Chain
  <2> QED
    BY <1>1, <2>2, <2>3
<1>4. e \in [1..k -> 1..Len(new)]
  BY <1>3
<1> QED
  BY <1>3, <1>4 DEF Chain, Longer

(* The messages with the one for the next frame.                            *)
LEMMA QueueAppend ==
  ASSUME NEW msgs, IsSeq(msgs), NEW k \in Nat, k >= 1, NEW path, NEW kind, NEW names, NEW c,
         Queue(msgs, c, 0, k - 1, path, kind, names), NEW id, NEW m,
         Fits(m, id, k, path, kind, names)
  PROVE  Queue(Append(msgs, m), Longer(c, k, id), 0, k, path, kind, names)
<1> PICK e : e = [j \in 1..k |-> IF j = k THEN id ELSE c[j]]
  OBVIOUS
<1> PICK new : new = Append(msgs, m)
  OBVIOUS
<1>1. Len(msgs) = k - 1
  BY DEF Queue
<1>2. /\ Len(new) = k /\ new[k] = m /\ \A j \in 1..(k - 1) : new[j] = msgs[j]
  <2>1. /\ Len(new) = Len(msgs) + 1 /\ new[Len(msgs) + 1] = m
        /\ \A i \in 1..Len(msgs) : new[i] = msgs[i]
    BY AppendSeq
  <2>2. Len(msgs) + 1 = k
    BY <1>1
  <2> QED
    BY <1>1, <2>1, <2>2
<1>3. e[k] = id
  OBVIOUS
<1>4. ASSUME NEW j \in 1..k PROVE Fits(new[j], e[j], j, path, kind, names)
  <2>1. CASE j = k
    BY <1>2, <1>3, <2>1
  <2>2. CASE j # k
    <3>1. j \in 1..(k - 1) /\ j \in 1..(k - 1 - 0) /\ 0 + j = j
      BY <2>2
    <3>2. Fits(msgs[j], c[0 + j], 0 + j, path, kind, names)
      BY <3>1 DEF Queue
    <3>3. e[j] = c[j]
      BY <2>2
    <3> QED
      BY <1>2, <3>1, <3>2, <3>3
  <2> QED
    BY <2>1, <2>2
<1>5. k - 0 = k /\ \A j \in 1..k : 0 + j = j
  OBVIOUS
<1>6. Queue(new, e, 0, k, path, kind, names)
  BY <1>2, <1>4, <1>5 DEF Queue
<1> QED
  BY <1>6 DEF Longer

(* One frame of a path.                                                     *)
LEMMA ReadFrameStep ==
  ASSUME ConverterIInv, ReadFrame
  PROVE  ConverterIInv'
<1> PICK k, path : k = work.frame /\ path = Line.path
  OBVIOUS
<1> PICK frame : frame = path[k]
  OBVIOUS
<1> PICK r : r = getContextId(context_array, work.cur, frame)
  OBVIOUS
<1>1. /\ Shape /\ Picked /\ Where /\ Working /\ pc = "path" /\ k <= Len(path)
      /\ context_array' = r.array
      /\ \/ IsDropped(frame.mid) /\ pc' = "next" /\ work' = work
         \/ /\ ~IsDropped(frame.mid) /\ pc' = pc
            /\ work' = [frame |-> k + 1, cur |-> r.id,
                        msgs |-> IF IsNamed(frame.mid)
                                 THEN Append(work.msgs, ContextMsg(r.id, frame, k = Len(path)))
                                 ELSE work.msgs]
      /\ UNCHANGED <<documents, chosen, order, at, profile>>
  BY DEF ConverterIInv, ReadFrame
<1>2. /\ at \in [pass : 1..3, thread : Nat \ {0}, line : Nat \ {0}] /\ IsSeq(context_array)
      /\ k \in Nat /\ k >= 1 /\ IsSeq(work.msgs)
  BY <1>1 DEF Shape
<1>3. DOMAIN path = 1..Len(path) /\ Len(path) \in Nat /\ Len(path) >= 1
  BY <1>1, LineInHand
<1>4. k \in 1..Len(path)
  BY <1>1, <1>2, <1>3
<1>5. /\ IsSeq(r.array) /\ Grows(context_array, r.array) /\ r.id \in 1..Len(r.array)
      /\ r.array[r.id] = [pid |-> work.cur, mid |-> frame.mid, lineNo |-> frame.lineNo]
  BY <1>2, ContextIdFacts DEF Grows
<1>6. AllNamed => IsNamed(frame.mid)
  BY <1>1, <1>4, NamedInHand
<1>7. /\ Thread' = Thread /\ Kind' = Kind /\ Line' = Line
      /\ IsListed(Thread, Kind)' <=> IsListed(Thread, Kind)
      /\ LinesOf(Thread, Kind)' = LinesOf(Thread, Kind)
      /\ MethodMap(Thread)' = MethodMap(Thread) /\ (AllNamed' <=> AllNamed)
  BY <1>1, SameFiles DEF Thread, Kind, Line
<1>8. /\ at.thread \in 1..Len(order) /\ IsListed(Thread, Kind)
      /\ at.line \in 1..Len(LinesOf(Thread, Kind)) /\ Line.cut = "no"
  BY <1>1 DEF Where
<1>9. Picked'
  BY <1>1, PickedKept
<1>10. CASE IsDropped(frame.mid) /\ pc' = "next" /\ work' = work
  <2>1. Shape' /\ PcShape' /\ Working'
    BY <1>1, <1>5, <1>10 DEF Shape, PcShape, Working
  <2>2. Where'
    BY <1>1, <1>7, <1>8, <1>10 DEF Where
  <2>3. ~AllNamed
    BY <1>6, <1>10 DEF IsDropped
  <2>4. \A pass, x : Passed(pass, x) => Passed(pass, x)'
    BY <1>1, <1>10 DEF Passed
  <2>5. Agreeing' /\ Telling' /\ ObjectsOnlyAtLeaves'
    BY <1>1, <1>5, <2>3, <2>4, QuietStep
  <2> QED
    BY <1>9, <2>1, <2>2, <2>5 DEF ConverterIInv
<1>11. CASE /\ ~IsDropped(frame.mid) /\ pc' = pc
            /\ work' = [frame |-> k + 1, cur |-> r.id,
                        msgs |-> IF IsNamed(frame.mid)
                                 THEN Append(work.msgs, ContextMsg(r.id, frame, k = Len(path)))
                                 ELSE work.msgs]
  <2> PICK m : m = ContextMsg(r.id, frame, k = Len(path))
    OBVIOUS
  <2>1. /\ work'.frame = k + 1 /\ work'.cur = r.id
        /\ work'.msgs = IF IsNamed(frame.mid) THEN Append(work.msgs, m) ELSE work.msgs
        /\ work' = [frame |-> work'.frame, cur |-> work'.cur, msgs |-> work'.msgs]
    BY <1>11
  <2>2. IsSeq(work'.msgs) /\ work'.frame \in Nat \ {0}
    BY <1>2, <2>1, AppendSeq
  <2>3. Shape' /\ PcShape'
    BY <1>1, <1>5, <1>11, <2>1, <2>2 DEF Shape, PcShape
  <2>4. Where'
    <3>1. work'.frame <= Len(Line'.path) + 1
      BY <1>1, <1>2, <1>3, <1>7, <2>1
    <3> QED
      BY <1>1, <1>7, <1>8, <1>11, <3>1 DEF Where
  <2>5. \A pass, x : Passed(pass, x)' <=> Passed(pass, x)
    BY <1>1, <1>11 DEF Passed
  <2>6. Agreeing' /\ Telling' /\ ObjectsOnlyAtLeaves'
    BY <1>1, <1>5, <2>5, QuietStep
  <2>7. ASSUME Complete(at.pass)
        PROVE  \E c \in [1..k -> 1..Len(r.array)] :
                 /\ Chain(r.array, c, k, path)
                 /\ Queue(work'.msgs, c, 0, k, path, Kind, MethodMap(Thread))
                 /\ c[k] = r.id
    <3>1. IsNamed(frame.mid)
      <4>1. CASE at.pass = 3
        BY <1>11, <4>1, PassKinds DEF IsDropped, Kind
      <4>2. CASE AllNamed
        BY <1>6, <4>2
      <4> QED
        BY <2>7, <4>1, <4>2 DEF Complete
    <3>2. PICK c \in [1..(k - 1) -> 1..Len(context_array)] :
            /\ Chain(context_array, c, k - 1, path)
            /\ Queue(work.msgs, c, 0, k - 1, path, Kind, MethodMap(Thread))
            /\ work.cur = Parent(c, k)
      BY <1>1, <2>7 DEF Working, Reading
    <3>3. Longer(c, k, r.id) \in [1..k -> 1..Len(r.array)]
          /\ Chain(r.array, Longer(c, k, r.id), k, path)
      <4>1. r.array[r.id] = [pid |-> Parent(c, k), mid |-> path[k].mid, lineNo |-> path[k].lineNo]
        BY <1>5, <3>2
      <4>2. r.id \in 1..Len(r.array) /\ Grows(context_array, r.array)
        BY <1>5
      <4>3. /\ k \in Nat /\ k >= 1 /\ c \in [1..(k - 1) -> 1..Len(context_array)]
            /\ Chain(context_array, c, k - 1, path)
        BY <1>2, <3>2
      <4> PICK new, id, array : new = r.array /\ id = r.id /\ array = context_array
        OBVIOUS
      <4>4. /\ new[id] = [pid |-> Parent(c, k), mid |-> path[k].mid, lineNo |-> path[k].lineNo]
            /\ id \in 1..Len(new) /\ Grows(array, new)
            /\ c \in [1..(k - 1) -> 1..Len(array)] /\ Chain(array, c, k - 1, path)
        BY <4>1, <4>2, <4>3
      <4>5. Longer(c, k, id) \in [1..k -> 1..Len(new)] /\ Chain(new, Longer(c, k, id), k, path)
        BY ONLY <4>3, <4>4, ChainAppend, Zenon
      <4> QED
        BY <4>5
    <3>4. Fits(m, r.id, k, path, Kind, MethodMap(Thread))
      BY DEF Fits, ContextMsg
    <3>5. Queue(Append(work.msgs, m), Longer(c, k, r.id), 0, k, path, Kind, MethodMap(Thread))
      BY <1>2, <3>2, <3>4, QueueAppend
    <3>6. Longer(c, k, r.id)[k] = r.id
      BY <1>2 DEF Longer
    <3> QED
      BY <2>1, <3>1, <3>3, <3>5, <3>6
  <2>8. Working'
    <3>1. Complete(at.pass)' <=> Complete(at.pass)
      BY <1>1, <1>7 DEF Complete
    <3>2. work'.frame - 1 = k /\ work'.frame # 1
      BY <1>2, <2>1
    <3>3. ASSUME Complete(at.pass)
          PROVE  \E c \in [1..(work'.frame - 1) -> 1..Len(context_array')] : Reading(c)'
      <4>1. PICK c \in [1..k -> 1..Len(r.array)] :
              /\ Chain(r.array, c, k, path)
              /\ Queue(work'.msgs, c, 0, k, path, Kind, MethodMap(Thread))
              /\ c[k] = r.id
        BY <2>7, <3>3
      <4>2. Reading(c)'
        BY <1>1, <1>7, <2>1, <3>2, <4>1 DEF Reading, Parent
      <4> QED
        BY <1>1, <3>2, <4>2
    <3> QED
      BY <1>1, <1>11, <3>1, <3>3 DEF Working
  <2> QED
    BY <1>9, <2>3, <2>4, <2>6, <2>8 DEF ConverterIInv
<1> QED
  BY <1>1, <1>10, <1>11

(* The end of a path.                                                       *)
LEMMA PathReadStep ==
  ASSUME ConverterIInv, PathRead
  PROVE  ConverterIInv'
<1>1. /\ Shape /\ Picked /\ Where /\ Working /\ pc = "path" /\ pc' = "sample"
      /\ work.frame > Len(Line.path) /\ work' = [work EXCEPT !.cur = Root]
      /\ UNCHANGED <<documents, chosen, order, at, context_array, profile>>
  BY DEF ConverterIInv, PathRead
<1>2. /\ work = [frame |-> work.frame, cur |-> work.cur, msgs |-> work.msgs]
      /\ work.frame \in Nat \ {0} /\ IsSeq(work.msgs) /\ IsSeq(context_array)
  BY <1>1 DEF Shape
<1>3. /\ work' = [frame |-> work.frame, cur |-> Root, msgs |-> work.msgs]
      /\ work'.frame = work.frame /\ work'.cur = Root /\ work'.msgs = work.msgs
  <2>1. work' = [frame |-> work.frame, cur |-> Root, msgs |-> work.msgs]
    BY <1>1, <1>2
  <2> QED
    BY <2>1
<1>4. Shape' /\ PcShape' /\ Picked'
  BY <1>1, <1>2, <1>3, PickedKept DEF Shape, PcShape
<1>5. /\ Thread' = Thread /\ Kind' = Kind /\ Line' = Line
      /\ IsListed(Thread, Kind)' <=> IsListed(Thread, Kind)
      /\ LinesOf(Thread, Kind)' = LinesOf(Thread, Kind)
      /\ MethodMap(Thread)' = MethodMap(Thread) /\ (AllNamed' <=> AllNamed)
  BY <1>1, SameFiles DEF Thread, Kind, Line
<1>6. Where'
  <2>1. /\ at.thread \in 1..Len(order) /\ IsListed(Thread, Kind)
        /\ at.line \in 1..Len(LinesOf(Thread, Kind)) /\ Line.cut = "no"
    BY <1>1 DEF Where
  <2> QED
    BY <1>1, <1>5, <2>1 DEF Where
<1>7. Working'
  <2> PICK L : L = Len(Line.path)
    OBVIOUS
  <2>1. L \in Nat
    BY <1>1, LineInHand
  <2>2. work.frame <= L + 1
    BY <1>1 DEF Where
  <2>3. work.frame - 1 = L
    BY <1>1, <1>2, <2>1, <2>2
  <2>4. ASSUME Complete(at.pass)
        PROVE  \E c \in [1..L -> 1..Len(context_array)] :
                 /\ Chain(context_array, c, L, Line.path)
                 /\ Queue(work.msgs, c, 0, L, Line.path, Kind, MethodMap(Thread))
    BY <1>1, <2>3, <2>4 DEF Working, Reading
  <2>5. ASSUME Complete(at.pass)
        PROVE  \E c \in [1..L -> 1..Len(context_array)], d \in 0..L : Building(c, d)'
    <3>1. PICK c \in [1..L -> 1..Len(context_array)] :
            /\ Chain(context_array, c, L, Line.path)
            /\ Queue(work.msgs, c, 0, L, Line.path, Kind, MethodMap(Thread))
      BY <2>4, <2>5
    <3>2. 0 \in 0..L /\ 1..0 = {}
      BY <2>1
    <3>3. Building(c, 0)'
      BY <1>1, <1>3, <1>5, <3>1, <3>2 DEF Building, Parent
    <3> QED
      BY <3>2, <3>3
  <2>6. Complete(at.pass)' <=> Complete(at.pass)
    BY <1>1, <1>5 DEF Complete
  <2> QED
    BY <1>1, <1>5, <2>5, <2>6 DEF Working
<1>8. \A pass, x : Passed(pass, x)' <=> Passed(pass, x)
  BY <1>1 DEF Passed
<1>9. Agreeing' /\ Telling' /\ ObjectsOnlyAtLeaves'
  BY <1>1, <1>2, <1>8, QuietStep, GrowsSelf
<1> QED
  BY <1>4, <1>6, <1>7, <1>9 DEF ConverterIInv

(* A message keeps the tables of a profile sequences.                       *)
LEMMA MessageShape ==
  ASSUME NEW p, IsProfile(p), NEW msg, NEW parent
  PROVE  IsProfile(AfterMessage(p, msg, parent))
<1> PICK f : f = Intern(p.function, msg.name)
  OBVIOUS
<1> PICK l : l = Intern(p.location, [function |-> f.id, line |-> msg.lineNo])
  OBVIOUS
<1> PICK context : context = WithContext(p.context, msg.id,
                                         [location |-> l.id, parent_id |-> parent])
  OBVIOUS
<1> PICK q : q = AfterMessage(p, msg, parent)
  OBVIOUS
<1>1. q = [function |-> f.table, location |-> l.table, context |-> context, sample |-> p.sample]
  BY DEF AfterMessage
<1>2. IsSeq(p.function) /\ IsSeq(p.location) /\ IsSeq(p.sample)
  BY DEF IsProfile
<1>3. IsSeq(f.table) /\ IsSeq(l.table)
  BY <1>2, InternGrows
<1>4. q.function = f.table /\ q.location = l.table /\ q.context = context /\ q.sample = p.sample
  BY <1>1
<1> QED
  BY <1>1, <1>2, <1>3, <1>4 DEF IsProfile

(* The first of the messages left belongs to the next frame.                *)
LEMMA QueueTail ==
  ASSUME NEW msgs, IsSeq(msgs), msgs # <<>>, NEW L \in Nat, NEW d \in 0..L, NEW c, NEW path,
         NEW kind, NEW names, Queue(msgs, c, d, L, path, kind, names)
  PROVE  /\ d + 1 \in 0..L /\ d + 1 \in 1..L
         /\ Fits(Head(msgs), c[d + 1], d + 1, path, kind, names)
         /\ Queue(Tail(msgs), c, d + 1, L, path, kind, names)
<1> PICK t : t = Tail(msgs)
  OBVIOUS
<1>1. /\ Len(t) = Len(msgs) - 1 /\ Len(msgs) >= 1 /\ Head(msgs) = msgs[1]
      /\ \A i \in 1..(Len(msgs) - 1) : t[i] = msgs[i + 1]
  BY TailSeq
<1>2. Len(msgs) = L - d /\ \A k \in 1..(L - d) : Fits(msgs[k], c[d + k], d + k, path, kind, names)
  BY DEF Queue
<1>3. d \in Nat /\ L - d >= 1
  BY <1>1, <1>2
<1>4. d + 1 \in 0..L /\ d + 1 \in 1..L /\ 1 \in 1..(L - d)
  BY <1>3
<1>5. Fits(Head(msgs), c[d + 1], d + 1, path, kind, names)
  BY <1>1, <1>2, <1>4
<1>6. ASSUME NEW k \in 1..(L - (d + 1))
      PROVE  Fits(t[k], c[(d + 1) + k], (d + 1) + k, path, kind, names)
  <2>1. k + 1 \in 1..(L - d) /\ d + (k + 1) = (d + 1) + k /\ k \in 1..(Len(msgs) - 1)
    BY <1>2, <1>3
  <2>2. Fits(msgs[k + 1], c[d + (k + 1)], d + (k + 1), path, kind, names)
    BY <1>2, <2>1
  <2>3. t[k] = msgs[k + 1]
    BY <1>1, <2>1
  <2> QED
    BY <2>1, <2>2, <2>3
<1>7. Len(t) = L - (d + 1)
  BY <1>1, <1>2, <1>3
<1>8. Queue(t, c, d + 1, L, path, kind, names)
  BY <1>6, <1>7 DEF Queue
<1> QED
  BY <1>4, <1>5, <1>8

(* A profile holds itself.                                                  *)
LEMMA ExtendsSelf ==
  ASSUME NEW p, IsProfile(p)
  PROVE  Extends(p, p)
<1>1. Len(p.location) \in Nat /\ Len(p.function) \in Nat
  BY DEF IsProfile, IsSeq
<1> QED
  BY <1>1 DEF Extends, Grows

(* A step that only adds contexts to the profiles.                          *)
LEMMA AddingStep ==
  ASSUME Shape, Agreeing, Telling,
         UNCHANGED <<documents, chosen, order, at, pc, context_array>>,
         \A pass \in 1..3 : Complete(pass) =>
            /\ Extends(profile[pass], profile'[pass])
            /\ profile'[pass].sample = profile[pass].sample
  PROVE  Telling'
<1>1. \A pass, x : /\ Places(pass)' = Places(pass) /\ (Complete(pass)' <=> Complete(pass))
                   /\ Passed(pass, x)' <=> Passed(pass, x)
  <2>1. \A pass, x : Passed(pass, x)' <=> Passed(pass, x)
    BY DEF Passed
  <2> QED
    BY <2>1, SameFiles DEF Complete
<1>2. ASSUME NEW pass \in 1..3, Complete(pass)
      PROVE  \E told \in [1..Len(profile'[pass].sample) -> Places(pass)] : ToldBy(told, pass)'
  <2>1. PICK told \in [1..Len(profile[pass].sample) -> Places(pass)] : ToldBy(told, pass)
    BY <1>2 DEF Telling
  <2>2. AgreesWith(profile[pass], context_array)
    BY <1>2 DEF Agreeing
  <2>3. Extends(profile[pass], profile'[pass]) /\ profile'[pass].sample = profile[pass].sample
    BY <1>2
  <2>4. ToldBy(told, pass)'
    BY <1>1, <2>1, <2>2, <2>3, ToldKept
  <2> QED
    BY <2>3, <2>4
<1> QED
  BY <1>1, <1>2 DEF Telling

(* Object information of contexts that were there.                          *)
LEMMA OldObjects ==
  ASSUME AgreesWith(profile[2], context_array), AllNamed, ObjectsOnlyAtLeaves,
         UNCHANGED <<documents, chosen, order>>, Extends(profile[2], profile'[2]),
         NEW id \in DOMAIN profile[2].context, NameOf(profile'[2], id).objects # NoObjects
  PROVE  \E x \in Places(2) :
            /\ ShowsPath(profile'[2], id, LineAt(2, x).path)
            /\ MethodMap(order[x[1]])[NameOf(profile'[2], id).mid]
                 = NameOf(profile'[2], id).objects
<1>1. NameOf(profile'[2], id) = NameOf(profile[2], id)
  BY ExtendsKeeps
<1>2. PICK x \in Places(2) :
        /\ ShowsPath(profile[2], id, LineAt(2, x).path)
        /\ MethodMap(order[x[1]])[NameOf(profile[2], id).mid] = NameOf(profile[2], id).objects
  BY <1>1 DEF ObjectsOnlyAtLeaves
<1>3. ShowsPath(profile'[2], id, LineAt(2, x).path)
  BY <1>2, PathKept
<1> QED
  BY <1>1, <1>2, <1>3

(* One message of a sample.                                                 *)
LEMMA AddContextStep ==
  ASSUME ConverterIInv, addContext
  PROVE  ConverterIInv'
<1> PICK pass, msg, cur, p : pass = at.pass /\ msg = Head(work.msgs) /\ cur = work.cur
                             /\ p = profile[at.pass]
  OBVIOUS
<1> PICK q : q = AfterMessage(p, msg, cur)
  OBVIOUS
<1> PICK L, path : L = Len(Line.path) /\ path = Line.path
  OBVIOUS
<1>1. /\ Shape /\ Picked /\ Where /\ Working /\ Agreeing /\ Telling /\ ObjectsOnlyAtLeaves
      /\ pc = "sample" /\ pc' = "sample" /\ work.msgs # <<>>
      /\ UNCHANGED <<documents, chosen, order, at, context_array, pc>>
  BY DEF ConverterIInv, addContext
<1>2. profile' = [profile EXCEPT ![pass] = q]
  BY DEF addContext, AfterMessage
<1>3. work' = [work EXCEPT !.cur = msg.id, !.msgs = Tail(@)]
  BY DEF addContext
<1>4. /\ pass \in 1..3 /\ profile = [i \in 1..3 |-> profile[i]]
      /\ \A i \in 1..3 : IsProfile(profile[i])
      /\ IsSeq(work.msgs) /\ IsSeq(context_array) /\ work.frame \in Nat \ {0}
      /\ work = [frame |-> work.frame, cur |-> work.cur, msgs |-> work.msgs]
  BY <1>1 DEF Shape
<1>5. /\ profile'[pass] = q /\ profile' = [i \in 1..3 |-> profile'[i]]
      /\ \A i \in 1..3 : i # pass => profile'[i] = profile[i]
  <2>1. DOMAIN profile = 1..3
    BY <1>4
  <2> QED
    BY <1>2, <1>4, <2>1
<1>6. work' = [frame |-> work.frame, cur |-> msg.id, msgs |-> Tail(work.msgs)]
  BY <1>3, <1>4
<1>7. work'.frame = work.frame /\ work'.cur = msg.id /\ work'.msgs = Tail(work.msgs)
  BY <1>6
<1>8. IsProfile(q)
  BY <1>4, MessageShape
<1>9. Shape' /\ PcShape' /\ Picked'
  <2>1. IsSeq(Tail(work.msgs))
    BY <1>1, <1>4, TailSeq
  <2>2. \A i \in 1..3 : IsProfile(profile'[i])
    BY <1>4, <1>5, <1>8
  <2>3. profile' = [i \in 1..3 |-> profile'[i]]
    BY <1>5
  <2>4. work' = [frame |-> work'.frame, cur |-> work'.cur, msgs |-> work'.msgs]
    BY <1>6, <1>7
  <2>5. documents' \in Directories /\ order' \in Seq(DOMAIN documents')
        /\ at' \in [pass : 1..3, thread : Nat \ {0}, line : Nat \ {0}] /\ IsSeq(context_array')
    BY <1>1 DEF Shape
  <2>6. work'.frame \in Nat \ {0} /\ IsSeq(work'.msgs)
    BY <1>4, <1>7, <2>1
  <2>7. Shape'
    BY <2>2, <2>3, <2>4, <2>5, <2>6 DEF Shape
  <2> QED
    BY <1>1, <2>7, PickedKept DEF PcShape
<1>10. /\ Thread' = Thread /\ Kind' = Kind /\ Line' = Line
       /\ IsListed(Thread, Kind)' <=> IsListed(Thread, Kind)
       /\ LinesOf(Thread, Kind)' = LinesOf(Thread, Kind)
       /\ MethodMap(Thread)' = MethodMap(Thread) /\ (AllNamed' <=> AllNamed)
       /\ \A i : Places(i)' = Places(i) /\ (Complete(i)' <=> Complete(i))
       /\ \A i, x : LineAt(i, x)' = LineAt(i, x)
       /\ \A tid : MethodMap(tid)' = MethodMap(tid)
  BY <1>1, SameFiles DEF Thread, Kind, Line, Complete
<1>11. Where'
  <2>1. /\ at.thread \in 1..Len(order) /\ IsListed(Thread, Kind)
        /\ at.line \in 1..Len(LinesOf(Thread, Kind)) /\ Line.cut = "no"
    BY <1>1 DEF Where
  <2> QED
    BY <1>1, <1>10, <2>1 DEF Where
<1>12. L \in Nat /\ L >= 1 /\ DOMAIN path = 1..Len(path)
  BY <1>1, LineInHand
<1>13. ASSUME Complete(pass)
       PROVE  \E c \in [1..L -> 1..Len(context_array)], d \in 0..L :
                /\ Chain(context_array, c, L, path)
                /\ d + 1 \in 0..L /\ d + 1 \in 1..L
                /\ Fits(msg, c[d + 1], d + 1, path, Kind, MethodMap(Thread))
                /\ Queue(Tail(work.msgs), c, d + 1, L, path, Kind, MethodMap(Thread))
                /\ cur = Parent(c, d + 1)
                /\ \A k \in 1..d : c[k] \in DOMAIN p.context
  <2>1. PICK c \in [1..L -> 1..Len(context_array)], d \in 0..L : Building(c, d)
    BY <1>1, <1>13 DEF Working
  <2>2. /\ Chain(context_array, c, L, path) /\ cur = Parent(c, d + 1)
        /\ Queue(work.msgs, c, d, L, path, Kind, MethodMap(Thread))
        /\ \A k \in 1..d : c[k] \in DOMAIN p.context
    BY <2>1 DEF Building
  <2> PICK kind, names, msgs : kind = Kind /\ names = MethodMap(Thread) /\ msgs = work.msgs
    OBVIOUS
  <2>3. Queue(msgs, c, d, L, path, kind, names) /\ IsSeq(msgs) /\ msgs # <<>> /\ L \in Nat
    BY <1>1, <1>4, <1>12, <2>2
  <2>4. /\ d + 1 \in 0..L /\ d + 1 \in 1..L
        /\ Fits(Head(msgs), c[d + 1], d + 1, path, kind, names)
        /\ Queue(Tail(msgs), c, d + 1, L, path, kind, names)
    BY ONLY <2>3, d \in 0..L, QueueTail, Zenon
  <2> QED
    BY <2>2, <2>4
<1>14. ASSUME Complete(pass)
       PROVE  /\ Extends(p, q) /\ AgreesWith(q, context_array) /\ q.sample = p.sample
              /\ DOMAIN q.context = DOMAIN p.context \cup {msg.id}
              /\ msg.id \notin DOMAIN p.context => NameOf(q, msg.id) = msg.name
  <2>1. PICK c \in [1..L -> 1..Len(context_array)], d \in 0..L :
          /\ Chain(context_array, c, L, path) /\ d + 1 \in 1..L
          /\ Fits(msg, c[d + 1], d + 1, path, Kind, MethodMap(Thread))
          /\ cur = Parent(c, d + 1)
    BY <1>13, <1>14
  <2>2. /\ c[d + 1] \in 1..Len(context_array)
        /\ context_array[c[d + 1]] = [pid |-> Parent(c, d + 1), mid |-> path[d + 1].mid,
                                      lineNo |-> path[d + 1].lineNo]
    BY <2>1 DEF Chain
  <2>3. msg.id = c[d + 1] /\ msg.lineNo = path[d + 1].lineNo /\ msg.name.mid = path[d + 1].mid
    BY <2>1 DEF Fits
  <2> PICK array : array = context_array
    OBVIOUS
  <2>4. /\ msg.id \in 1..Len(array)
        /\ array[msg.id] = [pid |-> cur, mid |-> msg.name.mid, lineNo |-> msg.lineNo]
    BY <2>1, <2>2, <2>3
  <2>5. AgreesWith(p, array) /\ IsProfile(p)
    BY <1>1, <1>4, <1>14 DEF Agreeing
  <2>6. LET r == AfterMessage(p, msg, cur)
        IN  /\ IsProfile(r) /\ Extends(p, r) /\ AgreesWith(r, array) /\ r.sample = p.sample
            /\ DOMAIN r.context = DOMAIN p.context \cup {msg.id}
            /\ msg.id \notin DOMAIN p.context => NameOf(r, msg.id) = msg.name
    BY ONLY <2>4, <2>5, MessageFacts, Zenon
  <2> QED
    BY <2>6
<1>15. Agreeing'
  <2>1. ASSUME NEW i \in 1..3, Complete(i) PROVE AgreesWith(profile'[i], context_array)
    <3>1. CASE i = pass
      BY <1>5, <1>14, <2>1, <3>1
    <3>2. CASE i # pass
      BY <1>1, <1>5, <2>1, <3>2 DEF Agreeing
    <3> QED
      BY <3>1, <3>2
  <2> QED
    BY <1>1, <1>10, <2>1 DEF Agreeing
<1>16. \A i \in 1..3 : Complete(i) => /\ Extends(profile[i], profile'[i])
                                      /\ profile'[i].sample = profile[i].sample
  <2> SUFFICES ASSUME NEW i \in 1..3, Complete(i)
               PROVE  Extends(profile[i], profile'[i]) /\ profile'[i].sample = profile[i].sample
    OBVIOUS
  <2>1. CASE i = pass
    BY <1>5, <1>14, <2>1
  <2>2. CASE i # pass
    BY <1>4, <1>5, <2>2, ExtendsSelf
  <2> QED
    BY <2>1, <2>2
<1>17. Telling'
  BY <1>1, <1>16, AddingStep
<1>18. Working'
  <2>1. ASSUME Complete(pass)
        PROVE  \E c \in [1..L -> 1..Len(context_array)], d \in 0..L : Building(c, d)'
    <3>1. PICK c \in [1..L -> 1..Len(context_array)], d \in 0..L :
            /\ Chain(context_array, c, L, path)
            /\ d + 1 \in 0..L /\ d + 1 \in 1..L
            /\ Fits(msg, c[d + 1], d + 1, path, Kind, MethodMap(Thread))
            /\ Queue(Tail(work.msgs), c, d + 1, L, path, Kind, MethodMap(Thread))
            /\ \A k \in 1..d : c[k] \in DOMAIN p.context
      BY <1>13, <2>1
    <3>2. msg.id = c[d + 1]
      BY <3>1 DEF Fits
    <3>3. DOMAIN q.context = DOMAIN p.context \cup {msg.id}
      BY <1>14, <2>1
    <3>4. \A k \in 1..(d + 1) : c[k] \in DOMAIN q.context
      <4>1. \A k \in 1..(d + 1) : k = d + 1 \/ k \in 1..d
        OBVIOUS
      <4> QED
        BY <3>1, <3>2, <3>3, <4>1
    <3> PICK e : e = d + 1
      OBVIOUS
    <3>5. e + 1 # 1 /\ (e + 1) - 1 = e /\ e \in 0..L
      BY <3>1
    <3>6. work'.cur = Parent(c, e + 1)
      BY <1>7, <3>2, <3>5 DEF Parent
    <3>7. Queue(work'.msgs, c, e, L, path, Kind, MethodMap(Thread))
      BY <1>7, <3>1
    <3>8. \A k \in 1..e : c[k] \in DOMAIN profile'[pass].context
      BY <1>5, <3>4
    <3>9. Building(c, e)'
      BY <1>1, <1>10, <3>1, <3>6, <3>7, <3>8 DEF Building
    <3> QED
      BY <3>5, <3>9
  <2> QED
    BY <1>1, <1>10, <2>1 DEF Working
<1>19. ObjectsOnlyAtLeaves'
  <2> SUFFICES ASSUME AllNamed, NEW id \in DOMAIN profile'[2].context,
                      NameOf(profile'[2], id).objects # NoObjects
               PROVE  \E x \in Places(2) :
                        /\ ShowsPath(profile'[2], id, LineAt(2, x).path)
                        /\ MethodMap(order[x[1]])[NameOf(profile'[2], id).mid]
                             = NameOf(profile'[2], id).objects
    BY <1>1, <1>10 DEF ObjectsOnlyAtLeaves
  <2>1. Complete(2) /\ Complete(pass)
    BY DEF Complete
  <2>2. Extends(profile[2], profile'[2]) /\ AgreesWith(profile[2], context_array)
    BY <1>1, <1>16, <2>1 DEF Agreeing
  <2>3. CASE id \in DOMAIN profile[2].context
    BY <1>1, <2>2, <2>3, OldObjects
  <2>4. CASE id \notin DOMAIN profile[2].context
    <3>1. pass = 2
      BY <1>5, <2>4
    <3>2. /\ id = msg.id /\ NameOf(q, id) = msg.name /\ AgreesWith(q, context_array)
          /\ DOMAIN q.context = DOMAIN p.context \cup {msg.id}
      BY <1>5, <1>14, <2>1, <2>4, <3>1
    <3>3. PICK c \in [1..L -> 1..Len(context_array)], d \in 0..L :
            /\ Chain(context_array, c, L, path) /\ d + 1 \in 1..L
            /\ Fits(msg, c[d + 1], d + 1, path, Kind, MethodMap(Thread))
            /\ \A k \in 1..d : c[k] \in DOMAIN p.context
      BY <1>13, <2>1
    <3>4. msg.name.objects # NoObjects
      BY <1>5, <3>1, <3>2
    <3>5. /\ msg.id = c[d + 1] /\ d + 1 = L
          /\ msg.name.objects = MethodMap(Thread)[msg.name.mid]
      BY <3>3, <3>4 DEF Fits
    <3>6. \A k \in 1..L : c[k] \in DOMAIN q.context
      <4>1. \A k \in 1..L : k = L \/ k \in 1..d
        BY <1>12, <3>5
      <4> QED
        BY <3>2, <3>3, <3>5, <4>1
    <3>7. c \in [1..Len(path) -> DOMAIN q.context] /\ Chain(context_array, c, Len(path), path)
      BY <3>3, <3>6
    <3> PICK array : array = context_array
      OBVIOUS
    <3>8. AgreesWith(q, array) /\ Chain(array, c, Len(path), path)
      BY <3>2, <3>7
    <3>9. ShowsPath(q, c[Len(path)], path)
      BY ONLY <1>12, <3>7, <3>8, ChainIsShown, Zenon
    <3>10. c[Len(path)] = id
      BY <3>2, <3>5
    <3> PICK x : x = <<at.thread, at.line>>
      OBVIOUS
    <3>11. x \in Places(2) /\ LineAt(2, x).path = path /\ order[x[1]] = Thread
      BY <1>1, <3>1, LineInHand DEF Thread
    <3> QED
      BY <1>5, <3>1, <3>2, <3>5, <3>9, <3>10, <3>11
  <2> QED
    BY <2>3, <2>4
<1> QED
  BY <1>9, <1>11, <1>15, <1>17, <1>18, <1>19 DEF ConverterIInv

(* The lines passed when the line in hand is.                               *)
LEMMA PassedNow ==
  ASSUME Shape, Picked, Where, pc = "sample", pc' = "next", UNCHANGED at,
         NEW x \in Places(at.pass)
  PROVE  /\ Passed(at.pass, x)' <=> Passed(at.pass, x) \/ x = <<at.thread, at.line>>
         /\ Passed(at.pass, x) => IsBefore(x, <<at.thread, at.line>>)
<1>1. at.pass \in 1..3 /\ pc # "group" /\ at.thread \in Nat /\ at.line \in Nat
  BY DEF Shape
<1>2. x[1] \in Nat /\ x[2] \in Nat
  BY <1>1, PlaceNumbers
<1>3. x = <<x[1], x[2]>>
  BY PlaceFacts
<1>4. x = <<at.thread, at.line>> <=> x[1] = at.thread /\ x[2] = at.line
  BY <1>3
<1>5. Passed(at.pass, x) <=> at.thread > x[1] \/ (at.thread = x[1] /\ at.line > x[2])
  BY <1>1 DEF Passed
<1>6. Passed(at.pass, x)' <=> at.thread > x[1] \/ (at.thread = x[1] /\ at.line >= x[2])
  <2>1. Passed(at.pass, x)' <=> \/ at.thread > x[1]
                                \/ at.thread = x[1] /\ (at.line > x[2] \/ at.line = x[2])
    BY <1>1 DEF Passed
  <2> QED
    BY <1>1, <1>2, <2>1
<1>7. Passed(at.pass, x)' <=> Passed(at.pass, x) \/ x = <<at.thread, at.line>>
  BY <1>1, <1>2, <1>4, <1>5, <1>6
<1>8. Passed(at.pass, x) => IsBefore(x, <<at.thread, at.line>>)
  BY <1>1, <1>2, <1>5 DEF IsBefore
<1> QED
  BY <1>7, <1>8

(* A sample more, which shows a line after those told.                      *)
LEMMA ToldMore ==
  ASSUME NEW P, NEW n \in Nat, NEW told \in [1..n -> P], NEW x \in P,
         \A m, k \in DOMAIN told : m < k => IsBefore(told[m], told[k]),
         \A k \in DOMAIN told : IsBefore(told[k], x)
  PROVE  LET more == Longer(told, n + 1, x)
         IN  /\ more \in [1..(n + 1) -> P] /\ more[n + 1] = x
             /\ \A k \in 1..n : more[k] = told[k]
             /\ \A m, k \in DOMAIN more : m < k => IsBefore(more[m], more[k])
<1> PICK more : more = [j \in 1..(n + 1) |-> IF j = n + 1 THEN x ELSE told[j]]
  OBVIOUS
<1>1. \A k \in 1..(n + 1) : k = n + 1 \/ k \in 1..n
  OBVIOUS
<1>2. \A k \in 1..n : k # n + 1 /\ k \in 1..(n + 1)
  OBVIOUS
<1>3. /\ more[n + 1] = x /\ \A k \in 1..n : more[k] = told[k]
  BY <1>2
<1>4. more \in [1..(n + 1) -> P]
  BY <1>1
<1>5. ASSUME NEW m \in 1..(n + 1), NEW k \in 1..(n + 1), m < k
      PROVE  IsBefore(more[m], more[k])
  <2>1. m \in 1..n
    BY <1>5
  <2>2. CASE k = n + 1
    BY <1>3, <2>1, <2>2
  <2>3. CASE k \in 1..n
    BY <1>3, <1>5, <2>1, <2>3
  <2> QED
    BY <1>1, <2>2, <2>3
<1> QED
  BY <1>3, <1>4, <1>5 DEF Longer

(* The end of a sample.                                                     *)
LEMMA AddSampleStep ==
  ASSUME ConverterIInv, addSample
  PROVE  ConverterIInv'
<1> PICK pass, p, x : pass = at.pass /\ p = profile[at.pass] /\ x = <<at.thread, at.line>>
  OBVIOUS
<1> PICK L, path, s : L = Len(Line.path) /\ path = Line.path
                      /\ s = [context_id |-> work.cur, value |-> Line.value]
  OBVIOUS
<1>1. /\ Shape /\ Picked /\ Where /\ Working /\ Agreeing /\ Telling /\ ObjectsOnlyAtLeaves
      /\ pc = "sample" /\ work.msgs = <<>>
      /\ UNCHANGED <<documents, chosen, order, at, context_array, work>>
  BY DEF ConverterIInv, addSample
<1>2. \/ work.cur = Root /\ profile' = profile /\ pc' = "next"
      \/ work.cur # Root /\ Line.value < 0 /\ profile' = profile /\ pc' = "crashed"
      \/ /\ work.cur # Root /\ pc' = "next"
         /\ profile' = [profile EXCEPT ![pass].sample = Append(@, s)]
  BY DEF addSample
<1>3. /\ pass \in 1..3 /\ profile = [i \in 1..3 |-> profile[i]]
      /\ \A i \in 1..3 : IsProfile(profile[i])
      /\ IsSeq(context_array)
  BY <1>1 DEF Shape
<1>4. /\ Thread' = Thread /\ Kind' = Kind
      /\ IsListed(Thread, Kind)' <=> IsListed(Thread, Kind)
      /\ LinesOf(Thread, Kind)' = LinesOf(Thread, Kind)
      /\ (AllNamed' <=> AllNamed)
      /\ \A i : Places(i)' = Places(i) /\ (Complete(i)' <=> Complete(i))
      /\ \A i, y : LineAt(i, y)' = LineAt(i, y)
      /\ \A tid : MethodMap(tid)' = MethodMap(tid)
  BY <1>1, SameFiles DEF Thread, Kind, Complete
<1>5. pc' \in {"next", "crashed"}
  BY <1>2
<1>6. PcShape' /\ Picked' /\ Working'
  BY <1>1, <1>5, PickedKept DEF PcShape, Working
<1>7. Where'
  <2>1. /\ at.thread \in 1..Len(order) /\ IsListed(Thread, Kind)
        /\ at.line \in 1..Len(LinesOf(Thread, Kind))
    BY <1>1 DEF Where
  <2> QED
    BY <1>1, <1>4, <1>5, <2>1 DEF Where
<1>8. /\ x \in Places(pass) /\ LineAt(pass, x) = Line /\ L \in Nat /\ L >= 1
      /\ DOMAIN path = 1..Len(path)
  BY <1>1, LineInHand
<1>9. ASSUME Complete(pass)
      PROVE  \E c \in [1..L -> 1..Len(context_array)] :
               /\ Chain(context_array, c, L, path) /\ work.cur = c[L]
               /\ \A k \in 1..L : c[k] \in DOMAIN p.context
  <2>1. PICK c \in [1..L -> 1..Len(context_array)], d \in 0..L : Building(c, d)
    BY <1>1, <1>9 DEF Working
  <2>2. /\ Chain(context_array, c, L, path) /\ work.cur = Parent(c, d + 1)
        /\ Len(work.msgs) = L - d
        /\ \A k \in 1..d : c[k] \in DOMAIN p.context
    BY <2>1 DEF Building, Queue
  <2>3. Len(work.msgs) = 0
    BY <1>1
  <2>4. d = L /\ d + 1 # 1 /\ (d + 1) - 1 = L
    BY <1>8, <2>2, <2>3
  <2> QED
    BY <2>2, <2>4 DEF Parent
<1>10. CASE /\ profile' = profile
            /\ work.cur = Root \/ pc' = "crashed"
  <2>1. Shape'
    BY <1>1, <1>10 DEF Shape
  <2>2. AllNamed => pc' = "crashed"
    <3> SUFFICES ASSUME AllNamed, work.cur = Root PROVE FALSE
      BY <1>2, <1>10
    <3>1. PICK c \in [1..L -> 1..Len(context_array)] : work.cur = c[L]
      BY <1>9 DEF Complete
    <3>2. c[L] \in 1..Len(context_array)
      BY <1>8
    <3> QED
      BY <1>3, <3>1, <3>2 DEF Root, IsSeq
  <2>3. \A i, y : Passed(i, y) => Passed(i, y)'
    BY <1>1 DEF Passed
  <2>4. AllNamed => \A i, y : Passed(i, y)' => Passed(i, y)
    BY <1>1, <2>2 DEF Passed
  <2>5. Agreeing' /\ Telling' /\ ObjectsOnlyAtLeaves'
    BY <1>1, <1>3, <1>10, <2>3, <2>4, QuietStep, GrowsSelf
  <2> QED
    BY <1>6, <1>7, <2>1, <2>5 DEF ConverterIInv
<1>11. CASE /\ work.cur # Root /\ pc' = "next"
            /\ profile' = [profile EXCEPT ![pass].sample = Append(@, s)]
  <2> PICK q : q = [function |-> p.function, location |-> p.location, context |-> p.context,
                    sample |-> Append(p.sample, s)]
    OBVIOUS
  <2> PICK n : n = Len(p.sample)
    OBVIOUS
  <2>1. /\ q.function = p.function /\ q.location = p.location /\ q.context = p.context
        /\ q.sample = Append(p.sample, s)
    OBVIOUS
  <2>2. /\ IsSeq(p.sample) /\ IsSeq(p.function) /\ IsSeq(p.location) /\ n \in Nat
        /\ p = [function |-> p.function, location |-> p.location,
                context |-> p.context, sample |-> p.sample]
    BY <1>3 DEF IsProfile, IsSeq
  <2>3. /\ IsSeq(q.sample) /\ Len(q.sample) = n + 1 /\ q.sample[n + 1] = s
        /\ \A i \in 1..n : q.sample[i] = p.sample[i]
    BY <2>1, <2>2, AppendSeq
  <2>4. IsProfile(q)
    BY <2>1, <2>2, <2>3 DEF IsProfile
  <2>5. /\ profile'[pass] = q /\ profile' = [i \in 1..3 |-> profile'[i]]
        /\ \A i \in 1..3 : i # pass => profile'[i] = profile[i]
    <3>1. DOMAIN profile = 1..3
      BY <1>3
    <3>2. profile' = [profile EXCEPT ![pass] = [p EXCEPT !.sample = Append(p.sample, s)]]
      BY <1>3, <1>11, <3>1
    <3>3. [p EXCEPT !.sample = Append(p.sample, s)] = q
      <4> PICK f, l, c, old, new :
            /\ f = p.function /\ l = p.location /\ c = p.context /\ old = p.sample
            /\ new = Append(p.sample, s)
        OBVIOUS
      <4>1. p = [function |-> f, location |-> l, context |-> c, sample |-> old]
        BY <2>2
      <4>2. [p EXCEPT !.sample = new]
              = [function |-> f, location |-> l, context |-> c, sample |-> new]
        BY ONLY <4>1
      <4> QED
        BY <4>2
    <3> QED
      BY <1>3, <3>1, <3>2, <3>3
  <2>6. Shape'
    <3>1. \A i \in 1..3 : IsProfile(profile'[i])
      BY <1>3, <2>4, <2>5
    <3>2. profile' = [i \in 1..3 |-> profile'[i]]
      BY <2>5
    <3> QED
      BY <1>1, <3>1, <3>2 DEF Shape
  <2>7. /\ Extends(p, q) /\ \A array : AgreesWith(q, array) <=> AgreesWith(p, array)
        /\ \A id : NameOf(q, id) = NameOf(p, id)
    <3>1. \A id : NameOf(q, id) = NameOf(p, id)
      BY <2>1 DEF NameOf
    <3>2. \A array : AgreesWith(q, array) <=> AgreesWith(p, array)
      BY <2>1, <3>1 DEF AgreesWith
    <3>3. Extends(p, q)
      BY <2>1, <2>2 DEF Extends, Grows, IsSeq
    <3> QED
      BY <3>1, <3>2, <3>3
  <2>8. Agreeing'
    <3>1. ASSUME NEW i \in 1..3, Complete(i) PROVE AgreesWith(profile'[i], context_array)
      <4>1. AgreesWith(profile[i], context_array)
        BY <1>1, <3>1 DEF Agreeing
      <4> QED
        BY <2>5, <2>7, <4>1
    <3> QED
      BY <1>1, <1>4, <3>1 DEF Agreeing
  <2>9. ObjectsOnlyAtLeaves'
    <3> SUFFICES ASSUME AllNamed, NEW id \in DOMAIN profile'[2].context,
                        NameOf(profile'[2], id).objects # NoObjects
                 PROVE  \E y \in Places(2) :
                          /\ ShowsPath(profile'[2], id, LineAt(2, y).path)
                          /\ MethodMap(order[y[1]])[NameOf(profile'[2], id).mid]
                               = NameOf(profile'[2], id).objects
      BY <1>1, <1>4 DEF ObjectsOnlyAtLeaves
    <3>1. Extends(profile[2], profile'[2]) /\ DOMAIN profile'[2].context = DOMAIN profile[2].context
      <4>1. CASE pass = 2
        BY <2>1, <2>5, <2>7, <4>1
      <4>2. CASE pass # 2
        BY <1>3, <2>5, <4>2, ExtendsSelf
      <4> QED
        BY <4>1, <4>2
    <3>2. AgreesWith(profile[2], context_array)
      BY <1>1 DEF Agreeing, Complete
    <3> QED
      BY <1>1, <3>1, <3>2, OldObjects
  <2>10. ASSUME Complete(pass)
         PROVE  \E told \in [1..(n + 1) -> Places(pass)] : ToldBy(told, pass)'
    <3>1. PICK told \in [1..n -> Places(pass)] : ToldBy(told, pass)
      BY <1>1, <1>3, <2>10 DEF Telling
    <3>2. AgreesWith(p, context_array)
      BY <1>1, <1>3, <2>10 DEF Agreeing
    <3>3. \A y \in Places(pass) : /\ Passed(pass, y)' <=> Passed(pass, y) \/ y = x
                                  /\ Passed(pass, y) => IsBefore(y, x)
      BY <1>1, <1>11, PassedNow
    <3>4. /\ \A m, k \in DOMAIN told : m < k => IsBefore(told[m], told[k])
          /\ \A k \in DOMAIN told : Passed(pass, told[k]) /\ Shows(p, k, LineAt(pass, told[k]))
          /\ AllNamed => \A y \in Places(pass) :
                            Passed(pass, y) => \E k \in DOMAIN told : told[k] = y
      BY <3>1 DEF ToldBy
    <3>5. \A k \in DOMAIN told : IsBefore(told[k], x)
      BY <3>3, <3>4
    <3> PICK more, P : more = Longer(told, n + 1, x) /\ P = Places(pass)
      OBVIOUS
    <3>6. /\ more \in [1..(n + 1) -> P] /\ more[n + 1] = x
          /\ \A k \in 1..n : more[k] = told[k]
          /\ \A m, k \in DOMAIN more : m < k => IsBefore(more[m], more[k])
      <4>1. n \in Nat /\ told \in [1..n -> P] /\ x \in P
        BY <1>8, <2>2
      <4>2. more = Longer(told, n + 1, x)
        OBVIOUS
      <4>3. /\ \A m, k \in DOMAIN told : m < k => IsBefore(told[m], told[k])
            /\ \A k \in DOMAIN told : IsBefore(told[k], x)
        BY <3>4, <3>5
      <4>4. LET e == Longer(told, n + 1, x)
            IN  /\ e \in [1..(n + 1) -> P] /\ e[n + 1] = x
                /\ \A k \in 1..n : e[k] = told[k]
                /\ \A m, k \in DOMAIN e : m < k => IsBefore(e[m], e[k])
        BY ONLY <4>1, <4>3, ToldMore, Zenon
      <4> QED
        BY ONLY <4>2, <4>4, Zenon
    <3>7. \A k \in 1..(n + 1) : k = n + 1 \/ k \in 1..n
      BY <2>2
    <3>8. ASSUME NEW k \in 1..n
          PROVE  Passed(pass, told[k])' /\ Shows(q, k, LineAt(pass, told[k]))
      <4>1. Passed(pass, told[k]) /\ Shows(p, k, LineAt(pass, told[k])) /\ told[k] \in Places(pass)
        BY <3>4
      <4>2. q.sample[k] = p.sample[k]
        BY <2>3
      <4>3. Shows(q, k, LineAt(pass, told[k]))
        BY <2>7, <3>2, <4>1, <4>2, PathKept DEF Shows
      <4> QED
        BY <3>3, <4>1, <4>3
    <3>9. Passed(pass, x)' /\ Shows(q, n + 1, Line)
      <4>1. PICK c \in [1..L -> 1..Len(context_array)] :
               /\ Chain(context_array, c, L, path) /\ work.cur = c[L]
               /\ \A k \in 1..L : c[k] \in DOMAIN p.context
        BY <1>9, <2>10
      <4> PICK array : array = context_array
        OBVIOUS
      <4>2. /\ c \in [1..Len(path) -> DOMAIN q.context] /\ Chain(array, c, Len(path), path)
            /\ AgreesWith(q, array)
        BY <2>1, <2>7, <3>2, <4>1
      <4>3. ShowsPath(q, c[Len(path)], path)
        BY ONLY <1>8, <4>2, ChainIsShown, Zenon
      <4>4. q.sample[n + 1].context_id = c[Len(path)] /\ q.sample[n + 1].value = Line.value
        BY <2>3, <4>1
      <4> QED
        BY <1>8, <3>3, <4>3, <4>4 DEF Shows
    <3>10. ASSUME NEW k \in DOMAIN more
           PROVE  Passed(pass, more[k])' /\ Shows(profile'[pass], k, LineAt(pass, more[k])')
      <4>1. k = n + 1 \/ k \in 1..n
        BY <3>6, <3>7
      <4>2. CASE k = n + 1
        <5>1. more[k] = x /\ LineAt(pass, x)' = Line /\ profile'[pass] = q
          BY <1>4, <1>8, <2>5, <3>6, <4>2
        <5> QED
          BY <3>9, <4>2, <5>1
      <4>3. CASE k \in 1..n
        <5>1. more[k] = told[k] /\ LineAt(pass, told[k])' = LineAt(pass, told[k])
              /\ profile'[pass] = q
          BY <1>4, <2>5, <3>6, <4>3
        <5> QED
          BY <3>8, <4>3, <5>1
      <4> QED
        BY <4>1, <4>2, <4>3
    <3>11. ASSUME AllNamed, NEW y \in Places(pass), Passed(pass, y)'
           PROVE  \E k \in DOMAIN more : more[k] = y
      <4>1. DOMAIN more = 1..(n + 1) /\ n + 1 \in 1..(n + 1) /\ \A k \in 1..n : k \in 1..(n + 1)
        <5>1. n \in Nat /\ more \in [1..(n + 1) -> P]
          BY <2>2, <3>6
        <5>2. DOMAIN more = 1..(n + 1)
          BY ONLY <5>1
        <5>3. n + 1 \in 1..(n + 1) /\ \A k \in 1..n : k \in 1..(n + 1)
          BY ONLY <5>1
        <5> QED
          BY <5>2, <5>3
      <4>2. CASE y = x
        BY <3>6, <4>1, <4>2
      <4>3. CASE Passed(pass, y)
        <5>1. PICK k \in 1..n : told[k] = y
          BY <3>4, <3>11, <4>3
        <5> QED
          BY <3>6, <4>1, <5>1
      <4> QED
        BY <3>3, <3>11, <4>2, <4>3
    <3>12. ToldBy(more, pass)'
      BY <1>4, <3>6, <3>10, <3>11 DEF ToldBy
    <3> QED
      BY <3>6, <3>12
  <2>11. Telling'
    <3>1. ASSUME NEW i \in 1..3, Complete(i)
          PROVE  \E told \in [1..Len(profile'[i].sample) -> Places(i)] : ToldBy(told, i)'
      <4>1. CASE i = pass
        BY <2>3, <2>5, <2>10, <3>1, <4>1
      <4>2. CASE i # pass
        <5>1. PICK told \in [1..Len(profile[i].sample) -> Places(i)] : ToldBy(told, i)
          BY <1>1, <3>1 DEF Telling
        <5>2. AgreesWith(profile[i], context_array)
          BY <1>1, <3>1 DEF Agreeing
        <5>3. profile'[i] = profile[i] /\ Extends(profile[i], profile[i])
          BY <1>3, <2>5, <4>2, ExtendsSelf
        <5>4. \A y : Passed(i, y)' <=> Passed(i, y)
          BY <1>1, <4>2 DEF Passed
        <5>5. ToldBy(told, i)'
          BY <1>1, <5>1, <5>2, <5>3, <5>4, ToldKept
        <5> QED
          BY <5>3, <5>5
      <4> QED
        BY <4>1, <4>2
    <3> QED
      BY <1>4, <3>1 DEF Telling
  <2> QED
    BY <1>6, <1>7, <2>6, <2>8, <2>9, <2>11 DEF ConverterIInv
<1> QED
  BY <1>2, <1>10, <1>11

-----------------------------------------------------------------------------
(* A step that changes nothing.                                             *)
LEMMA ConverterStutter ==
  ASSUME ConverterIInv, UNCHANGED vars
  PROVE  ConverterIInv'
<1>1. UNCHANGED <<documents, chosen, order, at, context_array, profile, work, pc>>
  BY DEF vars
<1>2. Shape /\ PcShape /\ Picked /\ Where /\ Working
  BY DEF ConverterIInv
<1>3. /\ Thread' = Thread /\ Kind' = Kind /\ Line' = Line
      /\ IsListed(Thread, Kind)' <=> IsListed(Thread, Kind)
      /\ LinesOf(Thread, Kind)' = LinesOf(Thread, Kind)
      /\ MethodMap(Thread)' = MethodMap(Thread) /\ (AllNamed' <=> AllNamed)
      /\ \A tid, k : Holding(tid, k)' = Holding(tid, k) /\ Kinds(tid)' = Kinds(tid)
  BY <1>1, SameFiles DEF Thread, Kind, Line
<1>4. Shape' /\ PcShape'
  BY <1>1, <1>2 DEF Shape, PcShape
<1>5. Picked'
  BY <1>1, <1>2, <1>3 DEF Picked
<1>6. Where'
  BY <1>1, <1>2, <1>3 DEF Where
<1>7. Working'
  <2>1. \A c : Reading(c)' <=> Reading(c)
    BY <1>1, <1>3 DEF Reading
  <2>2. \A c, d : Building(c, d)' <=> Building(c, d)
    BY <1>1, <1>3 DEF Building
  <2>3. Complete(at.pass)' <=> Complete(at.pass)
    BY <1>1, <1>3 DEF Complete
  <2> QED
    BY <1>1, <1>2, <1>3, <2>1, <2>2, <2>3 DEF Working
<1>8. \A pass, x : Passed(pass, x)' <=> Passed(pass, x)
  BY <1>1 DEF Passed
<1>9. Agreeing' /\ Telling' /\ ObjectsOnlyAtLeaves'
  <2>1. Grows(context_array, context_array')
    BY <1>1, <1>2, GrowsSelf DEF Shape
  <2> QED
    BY <1>1, <1>8, <2>1, QuietStep
<1> QED
  BY <1>4, <1>5, <1>6, <1>7, <1>9 DEF ConverterIInv

(* Every step of the script keeps the invariant.                            *)
LEMMA ConverterNextStep ==
  ASSUME ConverterIInv, [Next]_vars
  PROVE  ConverterIInv'
<1>1. CASE GroupFiles
  BY <1>1, GroupFilesStep
<1>2. CASE SkipThread
  BY <1>2, SkipThreadStep
<1>3. CASE OpenFiles
  BY <1>3, OpenFilesStep
<1>4. CASE CloseFiles
  BY <1>4, CloseFilesStep
<1>5. CASE generateProfile
  BY <1>5, GenerateProfileStep
<1>6. CASE ReadLine
  BY <1>6, ReadLineStep
<1>7. CASE NextLine
  BY <1>7, NextLineStep
<1>8. CASE ReadFrame
  BY <1>8, ReadFrameStep
<1>9. CASE PathRead
  BY <1>9, PathReadStep
<1>10. CASE addContext
  BY <1>10, AddContextStep
<1>11. CASE addSample
  BY <1>11, AddSampleStep
<1>12. CASE UNCHANGED vars
  BY <1>12, ConverterStutter
<1> QED
  BY <1>1, <1>2, <1>3, <1>4, <1>5, <1>6, <1>7, <1>8, <1>9, <1>10, <1>11, <1>12 DEF Next

(* The invariant of the script, for every directory and whatever order the  *)
(* listing has.                                                             *)
THEOREM ConverterInductive == Spec => []ConverterIInv
  BY ConverterInitHolds, ConverterNextStep, PTL DEF Spec

(* What was told is all there is to tell when a pass is over.               *)
LEMMA ToldIsAll ==
  ConverterIInv => ProfileTellsSamples
<1> SUFFICES ASSUME ConverterIInv, AllNamed, NEW pass \in DOMAIN Passes, Converted(pass)
             PROVE  \E told \in [DOMAIN profile[pass].sample -> Places(pass)] :
                      /\ \A m, n \in DOMAIN told : m < n => IsBefore(told[m], told[n])
                      /\ \A x \in Places(pass) : \E n \in DOMAIN told : told[n] = x
                      /\ \A n \in DOMAIN told : Shows(profile[pass], n, LineAt(pass, told[n]))
  BY DEF ProfileTellsSamples
<1>1. Shape /\ Picked /\ Where /\ Telling /\ pass \in 1..3
  BY PassKinds DEF ConverterIInv
<1>2. DOMAIN profile[pass].sample = 1..Len(profile[pass].sample)
  BY <1>1 DEF Shape, IsProfile, IsSeq
<1>3. PICK told \in [1..Len(profile[pass].sample) -> Places(pass)] : ToldBy(told, pass)
  BY <1>1 DEF Telling, Complete
<1>4. ASSUME NEW x \in Places(pass) PROVE Passed(pass, x)
  <2>1. at.pass \in 1..3 /\ at.thread \in Nat
    BY <1>1 DEF Shape
  <2>2. CASE at.pass > pass
    BY <2>2 DEF Passed
  <2>3. CASE pc = "done"
    <3>1. at.pass = 3 /\ at.thread > Len(order)
      BY <1>1, <2>3 DEF Where
    <3>2. x[1] \in Nat /\ x[1] <= Len(order) /\ Len(order) \in Nat
      BY <1>1, <2>3, PlaceNumbers
    <3>3. at.thread > x[1]
      BY <2>1, <3>1, <3>2
    <3>4. at.pass > pass \/ at.pass = pass
      BY <1>1, <3>1
    <3> QED
      BY <3>3, <3>4 DEF Passed
  <2> QED
    BY <2>2, <2>3 DEF Converted
<1>5. /\ \A m, n \in DOMAIN told : m < n => IsBefore(told[m], told[n])
      /\ \A n \in DOMAIN told : Shows(profile[pass], n, LineAt(pass, told[n]))
      /\ \A x \in Places(pass) : \E n \in DOMAIN told : told[n] = x
  BY <1>3, <1>4 DEF ToldBy
<1> QED
  BY <1>2, <1>5

(* What was told of the alloc files.                                        *)
LEMMA ToldAllocations ==
  ConverterIInv => AllocationsNotMisattributed
<1> SUFFICES ASSUME ConverterIInv, NEW n \in DOMAIN profile[3].sample
             PROVE  \E x \in Places(3) : Shows(profile[3], n, LineAt(3, x))
  BY DEF AllocationsNotMisattributed
<1>1. Shape /\ Telling
  BY DEF ConverterIInv
<1>2. DOMAIN profile[3].sample = 1..Len(profile[3].sample)
  BY <1>1 DEF Shape, IsProfile, IsSeq
<1>3. PICK told \in [1..Len(profile[3].sample) -> Places(3)] : ToldBy(told, 3)
  BY <1>1 DEF Telling, Complete
<1> QED
  BY <1>2, <1>3 DEF ToldBy

(* When every method has its name, the samples of a written profile are the *)
(* whole lines of the files picked, one by one: their paths, numbers and    *)
(* order.                                                                   *)
THEOREM ProfileTellsSamplesAlways == Spec => []ProfileTellsSamples
  BY ConverterInductive, ToldIsAll, PTL

(* The alloc profile shows no allocation under a path that was not written  *)
(* for it, also when names are missing.                                     *)
THEOREM AllocationsNotMisattributedAlways == Spec => []AllocationsNotMisattributed
  BY ConverterInductive, ToldAllocations, PTL

(* Object information is shown at leaves only, and is that of the method    *)
(* file.                                                                    *)
THEOREM ObjectsOnlyAtLeavesAlways == Spec => []ObjectsOnlyAtLeaves
<1>1. ConverterIInv => ObjectsOnlyAtLeaves
  BY DEF ConverterIInv
<1> QED
  BY <1>1, ConverterInductive, PTL

=============================================================================
