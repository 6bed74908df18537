----------------------------- MODULE Converter -----------------------------
(***************************************************************************)
(* The script that turns the agent's files into profiles                   *)
(* (scripts/ezview_fmt_gen/android-converter.py, with the tables of        *)
(* drcctprof_data_builder.py).                                             *)
(*                                                                         *)
(* A thread leaves the files of its attachments: method-thread-<tid> with  *)
(* a line for every method it met, and trace, cachemiss and alloc with a   *)
(* line for every sample or allocation.  The agent creates a file with its *)
(* first line, and under a name that is taken with an "f" after ".run"     *)
(* (OutputFile); the file is empty until its buffer is flushed.  A method  *)
(* line is the method's id, its name and, in front of the class, what      *)
(* object_info held: here a function from ids to object information.  A    *)
(* line of the others is a path and a number.  Each stream has a buffer of *)
(* its own, so of a thread that never ended each file stops at a place of  *)
(* its own, and its last line may be cut: in the path, or right after the  *)
(* bar or the sign (a cut further on leaves a line with another number,    *)
(* and one in the class of a method line another name).  The number of a   *)
(* trace line is active_memory_usage, 64 bits printed with %d: it is       *)
(* negative once the low 32 bits are 2^31 or more.                         *)
(*                                                                         *)
(* Interned strings are the strings themselves.  The keys of the function  *)
(* and location tables compare by their hash (their __eq__ compares a key  *)
(* with itself), which is taken to be injective.                           *)
(***************************************************************************)
EXTENDS Integers, Sequences, FiniteSets, SequencesExt

CONSTANTS
    Frames,          \* a method id and the line number printed with it
    Directories,     \* what Documents may hold: tid -> sequence of attachments, each the
                     \* kinds of file there are and their contents
    NoObjects        \* the object information of a name without any

LineKinds == {"cachemiss", "trace", "alloc"}

Lines == [path : Seq(Frames), value : Int, cut : {"no", "path", "bar"}]

\* The bar follows at least one frame (constructContext: callpath_vec.size() >= 1;
\* ObjectAllocCallback: inside == 1).
IsFile(lines) ==
    /\ lines \in Seq(Lines)
    /\ \A n \in DOMAIN lines : lines[n].cut = "no" => lines[n].path # <<>>

ASSUME ConverterAssumption ==
    \A dir \in Directories :
        /\ IsFiniteSet(DOMAIN dir)
        /\ \A tid \in DOMAIN dir : \A a \in DOMAIN dir[tid] :
              \A kind \in LineKinds \cap DOMAIN dir[tid][a] : IsFile(dir[tid][a][kind])

VARIABLES
    documents,       \* the directory
    chosen,          \* threadProfileMap: tid -> kind -> the attachment whose file it names
    order,           \* the keys of threadProfileMap, in their order
    at,              \* what is being converted: pass, thread, line
    context_array,   \* the contexts after the root: [pid, mid, lineNo]
    profile,         \* per pass: [function, location, context, sample]
    work,            \* the line in hand: the next frame, the last context, the messages
    pc

vars == <<documents, chosen, order, at, context_array, profile, work, pc>>

Passes == <<"cachemiss", "trace", "alloc">>
Root == 0

NoProfile ==
    [function |-> <<>>, location |-> <<>>, context |-> [i \in {} |-> 0], sample |-> <<>>]

NoWork == [frame |-> 1, cur |-> Root, msgs |-> <<>>]

Init ==
    /\ documents \in Directories
    /\ chosen = <<>> /\ order = <<>>
    /\ at = [pass |-> 1, thread |-> 1, line |-> 1]
    /\ context_array = <<>>
    /\ profile = [p \in 1..Len(Passes) |-> NoProfile]
    /\ work = NoWork
    /\ pc = "group"

-----------------------------------------------------------------------------
\* The attachments of a thread that left a file of a kind, be it empty.
Holding(tid, kind) == {a \in DOMAIN documents[tid] : kind \in DOMAIN documents[tid][a]}

Kinds(tid) == {k \in LineKinds \cup {"method"} : Holding(tid, k) # {}}

\* A thread is in the list of a pass, and has files of two kinds.
IsListed(tid, kind) == kind \in Kinds(tid) /\ Cardinality(Kinds(tid)) >= 2

\* The loop over os.listdir.  Of the files of one thread and kind the last one listed
\* stays; the order of the listing is arbitrary.
GroupFiles ==
    /\ pc = "group"
    /\ \E pick \in [DOMAIN documents -> UNION {[Kinds(tid) -> DOMAIN documents[tid]] :
                                                  tid \in DOMAIN documents}] :
        /\ \A tid \in DOMAIN documents :
            /\ DOMAIN pick[tid] = Kinds(tid)
            /\ \A k \in Kinds(tid) : pick[tid][k] \in Holding(tid, k)
        /\ chosen' = pick
    /\ order' \in SetToSeqs({tid \in DOMAIN documents : Kinds(tid) # {}})
    /\ pc' = "open"
    /\ UNCHANGED <<documents, at, context_array, profile, work>>

-----------------------------------------------------------------------------
Thread == order[at.thread]
Kind == Passes[at.pass]

\* The file picked for a thread and a kind: its lines.
LinesOf(tid, kind) == documents[tid][chosen[tid][kind]][kind]

\* method_map of a thread: "ROOT" and "<NULL>", and what the method file says.
MethodMap(tid) ==
    LET file == LinesOf(tid, "method")
    IN  [mid \in {-1, 0} \cup DOMAIN file |-> IF mid \in DOMAIN file THEN file[mid] ELSE NoObjects]

NextThread ==
    /\ at' = [pass |-> at.pass, thread |-> at.thread + 1, line |-> 1]
    /\ pc' = "open"

\* A thread without a file of this kind is not in the list of the pass, and one whose
\* only file it is is skipped.
SkipThread ==
    /\ pc = "open" /\ at.thread <= Len(order)
    /\ ~IsListed(Thread, Kind)
    /\ NextThread
    /\ UNCHANGED <<documents, chosen, order, context_array, profile, work>>

\* The method file is looked up without a test.
OpenFiles ==
    /\ pc = "open" /\ at.thread <= Len(order)
    /\ IsListed(Thread, Kind)
    /\ pc' = IF "method" \in Kinds(Thread) THEN "lines" ELSE "crashed"
    /\ UNCHANGED <<documents, chosen, order, at, context_array, profile, work>>

CloseFiles ==
    /\ pc = "lines" /\ at.line > Len(LinesOf(Thread, Kind))
    /\ NextThread
    /\ UNCHANGED <<documents, chosen, order, context_array, profile, work>>

\* The profile is written and the next builder made; context_array is kept.
generateProfile ==
    /\ pc = "open" /\ at.thread > Len(order)
    /\ IF at.pass < Len(Passes)
       THEN at' = [pass |-> at.pass + 1, thread |-> 1, line |-> 1] /\ UNCHANGED pc
       ELSE pc' = "done" /\ UNCHANGED at
    /\ UNCHANGED <<documents, chosen, order, context_array, profile, work>>

-----------------------------------------------------------------------------
\* The index of x in a table, which is extended when x is new.
Intern(table, x) ==
    IF Contains(table, x)
    THEN [table |-> table, id |-> CHOOSE i \in DOMAIN table : table[i] = x]
    ELSE [table |-> Append(table, x), id |-> Len(table) + 1]

(* Variant for validation: children are told apart by their method only. *)
getContextIdOfMethod(array, pid, frame) ==
    LET known == {i \in DOMAIN array : array[i].pid = pid /\ array[i].mid = frame.mid}
    IN  IF known # {} THEN [array |-> array, id |-> CHOOSE i \in known : TRUE]
        ELSE [array |-> Append(array, [pid |-> pid, mid |-> frame.mid, lineNo |-> frame.lineNo]),
              id |-> Len(array) + 1]

\* The context of a frame under its parent; contexts after the root are numbered from 1.
getContextId(array, pid, frame) ==
    LET r == Intern(array, [pid |-> pid, mid |-> frame.mid, lineNo |-> frame.lineNo])
    IN  [array |-> r.table, id |-> r.id]

Line == LinesOf(Thread, Kind)[at.line]

(* Variant for validation: the line is not searched for the bar. *)
ParsedUnchecked == IF Line.cut = "no" THEN "path" ELSE "crashed"

\* A line without " |" is skipped, and int() fails when nothing follows the bar.
Parsed ==
    CASE Line.cut = "no" -> "path"
      [] Line.cut = "path" -> "next"
      [] Line.cut = "bar" -> "crashed"

ReadLine ==
    /\ pc = "lines" /\ at.line <= Len(LinesOf(Thread, Kind))
    /\ pc' = Parsed
    /\ work' = NoWork
    /\ UNCHANGED <<documents, chosen, order, at, context_array, profile>>

NextLine ==
    /\ pc = "next"
    /\ at' = [at EXCEPT !.line = @ + 1]
    /\ pc' = "lines"
    /\ UNCHANGED <<documents, chosen, order, context_array, profile, work>>

IsNamed(mid) == mid \in DOMAIN MethodMap(Thread)

(* Variant for validation: the alloc pass leaves out unknown frames, as the others do. *)
IsDroppedNever(mid) == FALSE

\* key_not_exist: the alloc pass gives up a line with a method it cannot name.
IsDropped(mid) == Kind = "alloc" /\ ~IsNamed(mid)

(* Variant for validation: every frame keeps its object information. *)
ContextMsgOfAnyFrame(id, frame, isLast) ==
    [id |-> id, lineNo |-> frame.lineNo,
     name |-> [mid |-> frame.mid,
               objects |-> IF Kind = "trace" THEN MethodMap(Thread)[frame.mid] ELSE NoObjects]]

\* ContextMsg of the frame in context id.  Object information is what precedes "]" in a
\* name; only the pass over trace files keeps it, for the last frame.
ContextMsg(id, frame, isLast) ==
    [id |-> id, lineNo |-> frame.lineNo,
     name |-> [mid |-> frame.mid,
               objects |-> IF Kind = "trace" /\ isLast
                           THEN MethodMap(Thread)[frame.mid] ELSE NoObjects]]

\* One round of the loop over a path: the frame's context under that of the frame before.
ReadFrame ==
    /\ pc = "path" /\ work.frame <= Len(Line.path)
    /\ LET frame == Line.path[work.frame]
           r == getContextId(context_array, work.cur, frame)
       IN  /\ context_array' = r.array
           /\ IF IsDropped(frame.mid)
              THEN pc' = "next" /\ UNCHANGED work
              ELSE /\ work' = [frame |-> work.frame + 1, cur |-> r.id,
                               msgs |-> IF IsNamed(frame.mid)
                                        THEN Append(work.msgs, ContextMsg(r.id, frame,
                                                                          work.frame = Len(Line.path)))
                                        ELSE work.msgs]
                   /\ UNCHANGED pc
    /\ UNCHANGED <<documents, chosen, order, at, profile>>

PathRead ==
    /\ pc = "path" /\ work.frame > Len(Line.path)
    /\ pc' = "sample"
    /\ work' = [work EXCEPT !.cur = Root]
    /\ UNCHANGED <<documents, chosen, order, at, context_array, profile>>

\* The context already there stays.
WithContext(context, id, new) ==
    IF id \in DOMAIN context THEN context
    ELSE [i \in DOMAIN context \cup {id} |-> IF i = id THEN new ELSE context[i]]

\* addContextFromMsg: function, location and context.
addContext ==
    /\ pc = "sample" /\ work.msgs # <<>>
    /\ LET msg == Head(work.msgs)
           p == profile[at.pass]
           f == Intern(p.function, msg.name)
           l == Intern(p.location, [function |-> f.id, line |-> msg.lineNo])
           new == [location |-> l.id, parent_id |-> work.cur]
       IN  /\ profile' = [profile EXCEPT ![at.pass] =
                [function |-> f.table, location |-> l.table,
                 context |-> WithContext(p.context, msg.id, new), sample |-> p.sample]]
           /\ work' = [work EXCEPT !.cur = msg.id, !.msgs = Tail(@)]
    /\ UNCHANGED <<documents, chosen, order, at, context_array, pc>>

\* The end of addSample, which adds none when there was no message.  uint_value is an
\* unsigned field, which refuses a negative number.
addSample ==
    /\ pc = "sample" /\ work.msgs = <<>>
    /\ IF work.cur = Root \/ Line.value < 0 THEN UNCHANGED profile
       ELSE profile' = [profile EXCEPT ![at.pass].sample =
                            Append(@, [context_id |-> work.cur, value |-> Line.value])]
    /\ pc' = IF work.cur # Root /\ Line.value < 0 THEN "crashed" ELSE "next"
    /\ UNCHANGED <<documents, chosen, order, at, context_array, work>>

Next ==
    \/ GroupFiles \/ SkipThread \/ OpenFiles \/ CloseFiles \/ generateProfile
    \/ ReadLine \/ NextLine \/ ReadFrame \/ PathRead \/ addContext \/ addSample

Spec == Init /\ [][Next]_vars /\ WF_vars(Next)

-----------------------------------------------------------------------------
\* What the profile p shows as the name of a context.
NameOf(p, id) == p.function[p.location[p.context[id].location].function]

\* Context c of p has the frame and hangs below the parent.
IsContext(p, c, parent, frame) ==
    /\ p.context[c].parent_id = parent
    /\ p.location[p.context[c].location].line = frame.lineNo
    /\ NameOf(p, c).mid = frame.mid

\* The profile p shows the path, outermost frame first, for context id.
ShowsPath(p, id, path) ==
    \E c \in [DOMAIN path -> DOMAIN p.context] :
        /\ c[Len(path)] = id
        /\ \A k \in DOMAIN path : IsContext(p, c[k], IF k = 1 THEN Root ELSE c[k - 1], path[k])

\* The whole lines of a thread's file of a kind.
WholeLines(tid, kind) ==
    IF IsListed(tid, kind) THEN {n \in DOMAIN LinesOf(tid, kind) : LinesOf(tid, kind)[n].cut = "no"}
    ELSE {}

\* Those a pass comes to, in the order of the threads and of the lines.
Places(pass) ==
    UNION {{<<i, n>> : n \in WholeLines(order[i], Passes[pass])} : i \in DOMAIN order}
LineAt(pass, x) == LinesOf(order[x[1]], Passes[pass])[x[2]]
IsBefore(x, y) == x[1] < y[1] \/ (x[1] = y[1] /\ x[2] < y[2])

\* Sample n of p shows the line: its call path and its number.
Shows(p, n, line) ==
    ShowsPath(p, p.sample[n].context_id, line.path) /\ p.sample[n].value = line.value

Converted(pass) == pc = "done" \/ at.pass > pass

\* Every method on a whole line is in the method file picked for the thread.  CallPaths
\* shows it of the files of one attachment whose streams were closed.  It fails when the
\* files picked are of two attachments, or the names are still in the buffer of a thread
\* that did not end.
AllNamed ==
    \A pass \in DOMAIN Passes : \A x \in Places(pass) :
        /\ "method" \in Kinds(order[x[1]])
        /\ \A k \in DOMAIN LineAt(pass, x).path :
              LineAt(pass, x).path[k].mid \in DOMAIN MethodMap(order[x[1]])

\* When every method has its name, the samples of a profile are the whole lines of the files
\* picked, one by one and in their order: each shows the call path of its line and its
\* number, although threads and passes share context_array and the first message for a
\* context stays.
ProfileTellsSamples ==
    AllNamed =>
        \A pass \in DOMAIN Passes :
            Converted(pass) =>
                \E told \in [DOMAIN profile[pass].sample -> Places(pass)] :
                    /\ \A m, n \in DOMAIN told : m < n => IsBefore(told[m], told[n])
                    /\ \A x \in Places(pass) : \E n \in DOMAIN told : told[n] = x
                    /\ \A n \in DOMAIN told : Shows(profile[pass], n, LineAt(pass, told[n]))

\* Also when names are missing, the alloc profile shows no allocation under a path the agent
\* did not write for it: the pass drops a line with a method it cannot name.
AllocationsNotMisattributed ==
    \A n \in DOMAIN profile[3].sample :
        \E x \in Places(3) : Shows(profile[3], n, LineAt(3, x))

\* The converter writes all three profiles unless a line of one of the three files ends right
\* after its bar, a number has become negative, or a thread with a file of samples has no
\* method file: lines cut elsewhere, each file at its own place, empty files, methods without
\* a name and threads without samples do not stop it.
EndsUnlessUnreadable ==
    (\A tid \in DOMAIN documents : \A a \in DOMAIN documents[tid] :
        LET files == documents[tid][a]
        IN  /\ \A kind \in LineKinds \cap DOMAIN files : \A n \in DOMAIN files[kind] :
                  files[kind][n].cut # "bar" /\ files[kind][n].value >= 0
            /\ {"trace", "cachemiss"} \cap DOMAIN files # {} => "method" \in DOMAIN files)
    => <>(pc = "done")

\* "#leaf node" and "#non-leaf node": a context of the trace profile shows object
\* information only when it is the leaf of some sample, and then what the method file of a
\* thread with that sample says.  (A leaf may show none: the first message for a context
\* stays, and it may have been sent for a caller.)
ObjectsOnlyAtLeaves ==
    AllNamed =>
        \A id \in DOMAIN profile[2].context :
            LET name == NameOf(profile[2], id)
            IN  name.objects # NoObjects =>
                    \E x \in Places(2) :
                        /\ ShowsPath(profile[2], id, LineAt(2, x).path)
                        /\ MethodMap(order[x[1]])[name.mid] = name.objects

=============================================================================
