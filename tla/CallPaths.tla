------------------------------ MODULE CallPaths ------------------------------
(***************************************************************************)
(* What the MethodEntry and ObjectAlloc callbacks and the samples of       *)
(* several threads write about methods, call paths and objects (agent.cpp, *)
(* constructContext of profiler.cpp).                                      *)
(*                                                                         *)
(* A frame is its method; every method stands at one line, so that the     *)
(* line number of a frame is the method again.  The method, trace,         *)
(* cachemiss and alloc files belong to one attachment of a thread.  Of the *)
(* method file the model keeps how often it names a method, of the others  *)
(* the methods they mention without a name; trace and cachemiss get the    *)
(* same paths, from which a frame that repeats the one before is left out. *)
(* Of object_info it keeps the number of entries.  The counters that only  *)
(* end a line (active_memory_usage, object_alloc_counter) are left out.    *)
(* No object has a tag (the agent sets none), so ObjectFreeCallback is     *)
(* never called.                                                           *)
(* The handler runs when the guard is clear: AgentThread shows when, and   *)
(* that this includes the time after a nested callback.                    *)
(***************************************************************************)
EXTENDS Integers, Sequences, SequencesExt

CONSTANTS
    Threads,
    NoOwner,
    Methods,
    GetName,         \* Class.getName, which ObjectAllocCallback calls
    HasLines,        \* the methods that have a line number table
    MaxDepth,        \* bound: frames of the application on a stack
    EntryFrames,     \* max_frame_count of MethodEntry
    AllocFrames,     \* max_frame_count of ObjectAllocCallback
    LineLimit,       \* entries of object_info from which on a line has LOCAL_BUFFER_SIZE bytes
    MaxInfo,         \* bound: entries of object_info
    MaxAttach        \* bound: attachments of a thread

ASSUME PathAssumption ==
    /\ GetName \in Methods /\ HasLines \subseteq Methods /\ NoOwner \notin Threads
    /\ MaxDepth \in Nat /\ MaxInfo \in Nat /\ MaxAttach \in Nat /\ LineLimit \in Nat
    /\ EntryFrames \in Nat \ {0} /\ AllocFrames \in Nat \ {0}

VARIABLES
    attached,           \* per thread, its attachments so far; even when detached
    stack,              \* per thread, the methods on its stack, root first
    pc,                 \* per thread: "run", or the callback it is in
    todo,               \* per thread, the frames its callback has still to handle
    object,             \* per thread, the object it allocates, or NoObject
    method_id_list,     \* per thread
    callpath_vec,       \* per thread
    names,              \* per thread: how many lines of the method file name a method
    traced, alloc,      \* per thread: the methods on lines of the trace and cachemiss
                        \* files, and of the alloc file, that no line has named yet
    object_live_cycle, object_info, object_cyc_lock,
    died,               \* how the process ended, if it did
    missed              \* per thread: unnamed methods whose entry had no stack trace

fileVars == <<names, traced, alloc>>
objectVars == <<object_live_cycle, object_info, object_cyc_lock>>
vars == <<attached, stack, pc, todo, object, method_id_list, callpath_vec, fileVars,
          objectVars, died, missed>>

NoObject == [qualifies |-> FALSE, java |-> 0]
NoLines == [m \in Methods |-> 0]

Init ==
    /\ attached = [t \in Threads |-> 0]
    /\ stack = [t \in Threads |-> <<>>]
    /\ pc = [t \in Threads |-> "run"]
    /\ todo = [t \in Threads |-> <<>>]
    /\ object = [t \in Threads |-> NoObject]
    /\ method_id_list = [t \in Threads |-> {}]
    /\ callpath_vec = [t \in Threads |-> <<>>]
    /\ names = [t \in Threads |-> NoLines]
    /\ traced = [t \in Threads |-> {}] /\ alloc = [t \in Threads |-> {}]
    /\ object_live_cycle = {} /\ object_info = 0 /\ object_cyc_lock = NoOwner
    /\ died = "no"
    /\ missed = [t \in Threads |-> {}]

\* GetStackTrace: the last n frames, which the loops run through from the caller inwards.
Frames(s, n) == SubSeq(s, IF Len(s) > n THEN Len(s) - n + 1 ELSE 1, Len(s))

Attached(t) == attached[t] % 2 = 1
Named(t) == {m \in Methods : names[t][m] > 0}
At(t, p) == pc[t] = p /\ died = "no"

-----------------------------------------------------------------------------
(* Variant for validation: method_id_list survives into the next attachment. *)
ThreadStartKeepsIds(t) ==
    /\ At(t, "run") /\ ~Attached(t) /\ attached[t] < 2 * MaxAttach
    /\ attached' = [attached EXCEPT ![t] = @ + 1]
    /\ callpath_vec' = [callpath_vec EXCEPT ![t] = <<>>]
    /\ names' = [names EXCEPT ![t] = NoLines]
    /\ traced' = [traced EXCEPT ![t] = {}] /\ alloc' = [alloc EXCEPT ![t] = {}]
    /\ missed' = [missed EXCEPT ![t] = {}]
    /\ UNCHANGED <<stack, pc, todo, object, method_id_list, objectVars, died>>

\* Profiler::threadStart: the thread_local lists are cleared and new files opened.
ThreadStart(t) ==
    /\ At(t, "run") /\ ~Attached(t) /\ attached[t] < 2 * MaxAttach
    /\ attached' = [attached EXCEPT ![t] = @ + 1]
    /\ method_id_list' = [method_id_list EXCEPT ![t] = {}]
    /\ callpath_vec' = [callpath_vec EXCEPT ![t] = <<>>]
    /\ names' = [names EXCEPT ![t] = NoLines]
    /\ traced' = [traced EXCEPT ![t] = {}] /\ alloc' = [alloc EXCEPT ![t] = {}]
    /\ missed' = [missed EXCEPT ![t] = {}]
    /\ UNCHANGED <<stack, pc, todo, object, objectVars, died>>

\* Profiler::threadEnd, when the thread has left Java.
ThreadEnd(t) ==
    /\ At(t, "run") /\ Attached(t) /\ stack[t] = <<>>
    /\ attached' = [attached EXCEPT ![t] = @ + 1]
    /\ UNCHANGED <<stack, pc, todo, object, method_id_list, callpath_vec, fileVars,
                   objectVars, died, missed>>

(* Variant for validation: the stack trace lacks the method that is entered. *)
MethodEntryOfCaller(t, m) ==
    /\ stack' = [stack EXCEPT ![t] = Append(@, m)]
    /\ callpath_vec' = [callpath_vec EXCEPT ![t] = <<>>]
    /\ pc' = [pc EXCEPT ![t] = "entry"]
    /\ \/ /\ todo' = [todo EXCEPT ![t] = Frames(stack[t], EntryFrames)]
          /\ UNCHANGED missed
       \/ /\ todo' = [todo EXCEPT ![t] = <<>>]
          /\ missed' = [missed EXCEPT ![t] = @ \cup ({m} \ Named(t))]
    /\ UNCHANGED <<attached, method_id_list, fileVars, object_live_cycle, object_info,
                   object_cyc_lock, died>>

\* The beginning of MethodEntry on entering m: callpath_vec is cleared, and the frames
\* are handled one by one, unless GetStackTrace fails.
MethodEntry(t, m) ==
    /\ stack' = [stack EXCEPT ![t] = Append(@, m)]
    /\ callpath_vec' = [callpath_vec EXCEPT ![t] = <<>>]
    /\ pc' = [pc EXCEPT ![t] = "entry"]
    /\ \/ /\ todo' = [todo EXCEPT ![t] = Frames(stack'[t], EntryFrames)]
          /\ UNCHANGED missed
       \/ /\ todo' = [todo EXCEPT ![t] = <<>>]
          /\ missed' = [missed EXCEPT ![t] = @ \cup ({m} \ Named(t))]
    /\ UNCHANGED <<attached, method_id_list, fileVars, object_live_cycle, object_info,
                   object_cyc_lock, died>>

Call(t, m) ==
    /\ At(t, "run") /\ Attached(t) /\ Len(stack[t]) < MaxDepth
    /\ MethodEntry(t, m)
    /\ UNCHANGED object

\* The method returns; MethodExit does nothing.
Return(t) ==
    /\ At(t, "run") /\ stack[t] # <<>>
    /\ stack' = [stack EXCEPT ![t] = Front(@)]
    /\ UNCHANGED <<attached, pc, todo, object, method_id_list, callpath_vec, fileVars,
                   objectVars, died, missed>>

\* What a read of object_info without the lock can give, as a number of entries: while
\* another thread is assigning it, anything up to the new contents.
InfoRead(t) == IF object_cyc_lock = NoOwner THEN {object_info} ELSE 0..(object_info + 1)

\* The line that names m.
Name(t, m) ==
    /\ names' = [names EXCEPT ![t][m] = @ + 1]
    /\ traced' = [traced EXCEPT ![t] = @ \ {m}] /\ alloc' = [alloc EXCEPT ![t] = @ \ {m}]
    /\ missed' = [missed EXCEPT ![t] = @ \ {m}]
    /\ method_id_list' = [method_id_list EXCEPT ![t] = @ \cup {m}]

\* One round of MethodEntry's loop.  A method that was not met before gets a line in the
\* method file with object_info in it; writef asserts that the line fits in its buffer, and
\* a string that is read while it is assigned may bring the process down.
EntryFrame(t) ==
    LET m == Head(todo[t])
        new == m \notin method_id_list[t]
    IN /\ At(t, "entry") /\ todo[t] # <<>>
       /\ \/ /\ new
             /\ \/ \E n \in InfoRead(t) : n >= LineLimit /\ died' = "line"
                \/ object_cyc_lock # NoOwner /\ died' = "race"
             /\ UNCHANGED <<todo, callpath_vec, method_id_list, fileVars, missed>>
          \/ /\ \/ new /\ (\E n \in InfoRead(t) : n < LineLimit) /\ Name(t, m)
                \/ ~new /\ UNCHANGED <<method_id_list, fileVars, missed>>
             /\ todo' = [todo EXCEPT ![t] = Tail(@)]
             /\ callpath_vec' = [callpath_vec EXCEPT ![t] = Append(@, m)]
             /\ UNCHANGED died
       /\ UNCHANGED <<attached, stack, pc, object, objectVars>>

\* The end of MethodEntry.  When ObjectAllocCallback has called getName, that returns, and
\* the callback takes its own stack trace, which may fail.
EntryEnd(t) ==
    /\ At(t, "entry") /\ todo[t] = <<>>
    /\ \/ /\ object[t] = NoObject
          /\ pc' = [pc EXCEPT ![t] = "run"]
          /\ UNCHANGED <<todo, stack>>
       \/ /\ object[t] # NoObject
          /\ stack' = [stack EXCEPT ![t] = Front(@)]
          /\ pc' = [pc EXCEPT ![t] = "alloc"]
          /\ \/ todo' = [todo EXCEPT ![t] = Frames(stack'[t], AllocFrames)]
             \/ UNCHANGED todo
    /\ UNCHANGED <<attached, object, method_id_list, callpath_vec, fileVars, objectVars,
                   died, missed>>

-----------------------------------------------------------------------------
\* ObjectAllocCallback up to the entry of Class.getName.  A call inside getName is left out:
\* getName may itself allocate, and the callback would then take the same steps one call
\* deeper.
ObjectAlloc(t, qualifies) ==
    /\ At(t, "run") /\ Attached(t) /\ stack[t] # <<>> /\ Last(stack[t]) # GetName
    /\ object_info < MaxInfo
    /\ object' = [object EXCEPT ![t] = [qualifies |-> qualifies, java |-> 1]]
    /\ MethodEntry(t, GetName)

\* The loop passes over the frames of getName.
AllocSkip(t) ==
    /\ At(t, "alloc") /\ todo[t] # <<>> /\ Head(todo[t]) = GetName
    /\ todo' = [todo EXCEPT ![t] = Tail(@)]
    /\ UNCHANGED <<attached, stack, pc, object, method_id_list, callpath_vec, fileVars,
                   objectVars, died, missed>>

Listed(t) == todo[t] # <<>> /\ Head(todo[t]) # GetName

Recorded(t) == Listed(t) /\ object[t].qualifies /\ Head(todo[t]) \in HasLines

\* object_cyc_lock.lock() for a frame whose line number is known.
AllocLock(t) ==
    /\ At(t, "alloc") /\ Recorded(t)
    /\ object_cyc_lock = NoOwner
    /\ object_cyc_lock' = t
    /\ pc' = [pc EXCEPT ![t] = "locked"]
    /\ UNCHANGED <<attached, stack, todo, object, method_id_list, callpath_vec, fileVars,
                   object_live_cycle, object_info, died, missed>>

\* The end of a round: the frame is written to the alloc file.
WriteFrame(t) ==
    /\ todo' = [todo EXCEPT ![t] = Tail(@)]
    /\ alloc' = [alloc EXCEPT ![t] = @ \cup ({Head(todo[t])} \ Named(t))]
    /\ pc' = [pc EXCEPT ![t] = "alloc"]

\* The object is entered once for every frame, under the line of the frame and with one
\* more ".java", the outermost caller first and its allocation site last.
AllocRecord(t) ==
    /\ At(t, "locked")
    /\ object_live_cycle' = object_live_cycle
                              \cup {[java |-> object[t].java, line |-> Head(todo[t])]}
    /\ object_info' = object_info + 1
    /\ object_cyc_lock' = NoOwner
    /\ object' = [object EXCEPT ![t].java = @ + 1]
    /\ WriteFrame(t)
    /\ UNCHANGED <<attached, stack, method_id_list, callpath_vec, names, traced,
                   died, missed>>

AllocFrame(t) ==
    /\ At(t, "alloc") /\ Listed(t) /\ ~Recorded(t)
    /\ WriteFrame(t)
    /\ UNCHANGED <<attached, stack, object, method_id_list, callpath_vec, names, traced,
                   objectVars, died, missed>>

AllocEnd(t) ==
    /\ At(t, "alloc") /\ todo[t] = <<>>
    /\ object' = [object EXCEPT ![t] = NoObject]
    /\ pc' = [pc EXCEPT ![t] = "run"]
    /\ UNCHANGED <<attached, stack, todo, method_id_list, callpath_vec, fileVars, objectVars,
                   died, missed>>

\* constructContext: a line for callpath_vec in both files, if there is a path.
Sample(t) ==
    /\ Attached(t) /\ died = "no" /\ pc[t] # "entry"
    /\ callpath_vec[t] # <<>>
    /\ traced' = [traced EXCEPT ![t] = @ \cup (ToSet(callpath_vec[t]) \ Named(t))]
    /\ UNCHANGED <<attached, stack, pc, todo, object, method_id_list, callpath_vec, names,
                   alloc, objectVars, died, missed>>

Next ==
    \E t \in Threads :
        \/ ThreadStart(t) \/ ThreadEnd(t) \/ Return(t) \/ Sample(t)
        \/ \E m \in Methods : Call(t, m)
        \/ EntryFrame(t) \/ EntryEnd(t)
        \/ \E q \in BOOLEAN : ObjectAlloc(t, q)
        \/ AllocSkip(t) \/ AllocLock(t) \/ AllocRecord(t) \/ AllocFrame(t) \/ AllocEnd(t)

Spec == Init /\ [][Next]_vars

-----------------------------------------------------------------------------
(* Every method id of a trace or cachemiss line has its name in the method *)
(* file of the same attachment: the converter leaves out frames whose id   *)
(* it does not find there.                                                 *)
PathsAreNamed == \A t \in Threads : traced[t] = {}

(* The same for the alloc file, though it takes a stack trace of its own,  *)
(* with other bounds: the methods it meets were named when they were       *)
(* entered, except those for which GetStackTrace failed at that time.      *)
AllocsAreNamed == \A t \in Threads : alloc[t] \subseteq missed[t]

(* writef: assert(data_size >= 0 && data_size < LOCAL_BUFFER_SIZE).        *)
LineFits == died # "line"

=============================================================================
