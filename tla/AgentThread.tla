----------------------------- MODULE AgentThread -----------------------------
(***************************************************************************)
(* One OS thread of the profiled application, as DroidPerf sees it.        *)
(*                                                                         *)
(* Three actors share the thread's state:                                  *)
(*   - the JVMTI callbacks of agent.cpp that run on the thread, with       *)
(*     ThreadStart and ThreadEnd building and tearing down the             *)
(*     thread_data_t of thread_data.cpp;                                   *)
(*   - perf_event_handler (perf_interface.cpp), a signal handler that      *)
(*     interrupts the thread between any two of its steps;                 *)
(*   - the kernel, whose perf counters overflow on every CPU at any time,  *)
(*     disable themselves and queue PERF_SIGNAL for the thread.            *)
(*                                                                         *)
(* The only thing that keeps the first two apart is                        *)
(* thread_data_t::inside_agent, which the callbacks set (BLOCK_SAMPLE) and *)
(* clear (UNBLOCK_SAMPLE) and the handler tests and sets                   *)
(* (profiler_safe_enter / profiler_safe_exit).                             *)
(*                                                                         *)
(* A native thread can detach from the VM and attach again: ThreadEnd is   *)
(* then followed by a second ThreadStart on the same OS thread, while the  *)
(* counters opened by the first one are still open and still send signals. *)
(***************************************************************************)
EXTENDS Integers, Sequences, FiniteSets

CONSTANTS
  Cpus,        \* the CPUs setupEvents opens a counter on (8 in the code)
  NumEvents,   \* num_events: events given on the agent's command line
  MaxAttach,   \* bound: ThreadStart callbacks of this OS thread
  MaxPending,  \* bound: signals queued for the thread at one time
  MaxNest,     \* bound: ObjectAlloc callbacks suspended in Class.getName
  Client       \* clientName, the upper-cased name of the client

Clients == {"GENERIC", "HEAP", "ALLOCTIMES", "DATACENTRIC", "NUMA"}

ASSUME CpusAssumption == Cpus # {}
ASSUME NumEventsAssumption == NumEvents \in Nat \ {0}
ASSUME BoundsAssumption ==
  MaxAttach \in Nat /\ MaxPending \in Nat /\ MaxNest \in Nat
ASSUME ClientAssumption == Client \in Clients

VARIABLES
  \* --- the callbacks of the thread --------------------------------------
  attached,    \* ThreadStart was posted and ThreadEnd was not
  gen,         \* number of ThreadStart callbacks that have run so far
  cb,          \* the innermost callback, "app" when no callback runs
  pc,          \* the next step of that callback
  depth,       \* ObjectAlloc callbacks suspended below it, in getName
  \* --- pthread_getspecific(key) and the thread_data_t it points to ------
  td,          \* "none", "live", or "freed": deleted but still installed
  inside_agent,
  perf_state,  \* NoList, or the length of the vector of opened events
  slot,        \* context_state and the four output_state pointers
  callpath,    \* thread_local callpath_vec
  written,     \* the call paths in this attachment's trace and cachemiss files
  \* --- perf_event_handler ------------------------------------------------
  hpc,         \* "idle" or the next step of the handler
  sig,         \* si_fd of the signal being handled
  \* --- the kernel --------------------------------------------------------
  on,          \* counters that are enabled
  limit,       \* perf_event::event_limit of every counter, see below
  pending,     \* signals queued for the thread, oldest first
  \* --- history -----------------------------------------------------------
  lost,        \* counters whose last signal was not handled, still off since
  process      \* "running", or "aborted" by an assert or a fault

callbackVars == <<attached, gen, cb, pc, depth>>
tdVars == <<td, inside_agent, perf_state, slot>>
handlerVars == <<hpc, sig>>
kernelVars == <<on, limit, pending>>
vars ==
  <<callbackVars, tdVars, callpath, written, handlerVars, kernelVars, lost, process>>

-----------------------------------------------------------------------------
(* The parts of the state.                                                  *)

(* A counter is opened per ThreadStart, per event and per CPU.              *)
Fd == (1..MaxAttach) \X (1..NumEvents) \X Cpus

(* A PERF_SIGNAL that did not come from the kernel (si_code < 0).           *)
Foreign == <<0, 0, 0>>
Signal == Fd \cup {Foreign}

NoList == -1

(* The counters of a perf_state vector of length n. A vector is created     *)
(* after thread_data_alloc, so it always belongs to the last ThreadStart.   *)
ListFds(n) == {f \in Fd : f[1] = gen /\ f[2] <= n}

(* The counters of the event that counter f belongs to, one per CPU.        *)
EventFds(f) == {g \in Fd : g[1] = f[1] /\ g[2] = f[2]}

Slots == {"context", "method", "trace", "alloc", "cachemiss"}
Pointer == {"null", "live", "freed"}

(* callpath_vec: empty, half filled, or the path of the g-th attachment.    *)
EmptyPath == 0
PartialPath == -1

(* event_limit, up to what the kernel's test tells apart: 0 is "free" (the  *)
(* counter runs without limit), 1 is "one" (the next overflow disables it), *)
(* anything above is "many".                                                *)
LimitState == {"free", "one", "many"}

Callbacks ==
  {"app", "ThreadStart", "ThreadEnd", "MethodEntry", "ObjectAlloc", "Other"}

StartNext == [context |-> "method", method |-> "trace", trace |-> "alloc",
              alloc |-> "cachemiss", cachemiss |-> "blacklist"]
EndNext == [method |-> "trace", trace |-> "alloc", alloc |-> "cachemiss",
            cachemiss |-> "context", context |-> "dealloc"]

Steps == [app |-> {"run"},
          ThreadStart |-> {"thread_data", "blacklist", "list", "open", "unblock"}
                            \cup Slots,
          ThreadEnd |-> {"dealloc", "setspecific", "unblock"} \cup Slots,
          MethodEntry |-> {"clear", "fill", "push", "unblock"},
          ObjectAlloc |-> {"lookup", "getName", "write", "unblock"},
          Other |-> {"unblock"}]

HandlerSteps ==
  {"idle", "stop", "dispatch", "drain", "restart", "startAll", "exit"}

NullSlots == [s \in Slots |-> "null"]

Init ==
  /\ attached \in BOOLEAN    \* a thread older than the agent is attached
  /\ gen = 0 /\ cb = "app" /\ pc = "run" /\ depth = 0
  /\ td = "none" /\ inside_agent = FALSE /\ perf_state = NoList
  /\ slot = NullSlots /\ callpath = EmptyPath /\ written = {}
  /\ hpc = "idle" /\ sig = Foreign
  /\ on = {} /\ limit = [f \in Fd |-> "free"] /\ pending = <<>>
  /\ lost = {} /\ process = "running"

-----------------------------------------------------------------------------
(* The kernel, external to the repository.                                  *)

(* PERF_EVENT_IOC_ENABLE on the counters S.                                 *)
Enable(S) == on' = on \cup S /\ lost' = lost \ S

(* PERF_EVENT_IOC_REFRESH 1 on the counters S, apart from the enabling.     *)
Refresh(S) ==
  limit' = [f \in Fd |->
              IF f \notin S THEN limit[f]
              ELSE IF limit[f] = "free" THEN "one" ELSE "many"]

(* An enabled counter reaches its period: the kernel counts the overflow    *)
(* against event_limit, disables the counter when that runs out, and queues *)
(* the signal for the thread that owns the descriptor. Which of the counts  *)
(* above one the limit stood at is left open.                               *)
Overflow(f) ==
  /\ process = "running"
  /\ f \in on
  /\ Len(pending) < MaxPending
  /\ pending' = Append(pending, f)
  /\ \/ limit[f] = "free" /\ UNCHANGED <<limit, on>>
     \/ limit[f] = "one" /\ limit' = [limit EXCEPT ![f] = "free"] /\ on' = on \ {f}
     \/ limit[f] = "many" /\ limit' = [limit EXCEPT ![f] = "one"] /\ UNCHANGED on
     \/ limit[f] = "many" /\ UNCHANGED <<limit, on>>
  /\ UNCHANGED <<callbackVars, tdVars, callpath, written, handlerVars, lost, process>>

(* Somebody else in the process sends PERF_SIGNAL to the thread.            *)
ForeignSignal ==
  /\ process = "running"
  /\ Len(pending) < MaxPending
  /\ pending' = Append(pending, Foreign)
  /\ UNCHANGED <<callbackVars, tdVars, callpath, written, handlerVars,
                 on, limit, lost, process>>

-----------------------------------------------------------------------------
(* The callbacks. They advance only while no signal handler interrupts      *)
(* them.                                                                    *)

Runs == process = "running" /\ hpc = "idle"

At(c, p) == Runs /\ cb = c /\ pc = p

(* Variant for validation: the callback forgets BLOCK_SAMPLE.               *)
EnterWithoutBlock(c, first) ==
  /\ Runs
  /\ cb' = c /\ pc' = first
  /\ td' = "live" /\ UNCHANGED inside_agent
  /\ UNCHANGED <<perf_state, slot, callpath, written, handlerVars, kernelVars,
                 lost, process>>

(* A callback begins on the thread: it executes BLOCK_SAMPLE, which         *)
(* allocates the thread_data_t when there is none.                          *)
Enter(c, first) ==
  /\ Runs
  /\ cb' = c /\ pc' = first
  /\ td' = "live" /\ inside_agent' = TRUE
  /\ UNCHANGED <<perf_state, slot, callpath, written, handlerVars, kernelVars,
                 lost, process>>

(* Variant for validation: UNBLOCK_SAMPLE is missing.                       *)
UnblockForgotten ==
  /\ Runs
  /\ pc = "unblock"
  /\ td' = "live" /\ UNCHANGED inside_agent
  /\ cb' = IF depth > 0 THEN "ObjectAlloc" ELSE "app"
  /\ pc' = IF depth > 0 THEN "getName" ELSE "run"
  /\ depth' = IF depth > 0 THEN depth - 1 ELSE 0
  /\ UNCHANGED <<attached, gen, perf_state, slot, callpath, written, handlerVars,
                 kernelVars, lost, process>>

(* UNBLOCK_SAMPLE and return, to the interrupted getName of an enclosing    *)
(* ObjectAlloc or to the application.                                       *)
Unblock ==
  /\ Runs
  /\ pc = "unblock"
  /\ td' = "live" /\ inside_agent' = FALSE
  /\ cb' = IF depth > 0 THEN "ObjectAlloc" ELSE "app"
  /\ pc' = IF depth > 0 THEN "getName" ELSE "run"
  /\ depth' = IF depth > 0 THEN depth - 1 ELSE 0
  /\ UNCHANGED <<attached, gen, perf_state, slot, callpath, written, handlerVars,
                 kernelVars, lost, process>>

ThreadStart ==
  /\ cb = "app" /\ ~attached /\ gen < MaxAttach
  /\ attached' = TRUE
  /\ Enter("ThreadStart", "thread_data")
  /\ UNCHANGED <<gen, depth>>

(* Variant for validation: threadStart does not clear callpath_vec.         *)
StartThreadDataKeepsPath ==
  /\ At("ThreadStart", "thread_data")
  /\ UNCHANGED callpath
  /\ td' = "live" /\ inside_agent' = FALSE
  /\ perf_state' = NoList /\ slot' = NullSlots
  /\ gen' = gen + 1
  /\ pc' = "context"
  /\ UNCHANGED <<attached, cb, depth, written, handlerVars, kernelVars, lost, process>>

(* threadStart up to thread_data_alloc: the new object replaces the         *)
(* installed one, and its guard is clear.                                   *)
StartThreadData ==
  /\ At("ThreadStart", "thread_data")
  /\ callpath' = EmptyPath
  /\ td' = "live" /\ inside_agent' = FALSE
  /\ perf_state' = NoList /\ slot' = NullSlots
  /\ gen' = gen + 1
  /\ pc' = "context"
  /\ UNCHANGED <<attached, cb, depth, written, handlerVars, kernelVars, lost, process>>

(* The context tree, then the four output streams, are created and stored.  *)
StartSlot(s) ==
  /\ At("ThreadStart", s)
  /\ slot' = [slot EXCEPT ![s] = "live"]
  /\ written' = IF s = "trace" THEN {} ELSE written
  /\ pc' = StartNext[s]
  /\ UNCHANGED <<attached, gen, cb, depth, td, inside_agent, perf_state, callpath,
                 handlerVars, kernelVars, lost, process>>

StartBlackList ==
  /\ At("ThreadStart", "blacklist")
  /\ pc' = "list"
  /\ UNCHANGED <<attached, gen, cb, depth, tdVars, callpath, written, handlerVars,
                 kernelVars, lost, process>>

(* setupEvents: the empty vector is stored before any counter is opened.    *)
SetupList ==
  /\ At("ThreadStart", "list")
  /\ perf_state' = 0
  /\ pc' = "open"
  /\ UNCHANGED <<attached, gen, cb, depth, td, inside_agent, slot, callpath, written,
                 handlerVars, kernelVars, lost, process>>

(* Variant for validation: the loop over the events runs once too often.    *)
SetupOpenOnePastEnd ==
  /\ At("ThreadStart", "open")
  /\ perf_state <= NumEvents
  /\ perf_state' = perf_state + 1
  /\ UNCHANGED <<callbackVars, td, inside_agent, slot, callpath, written,
                 handlerVars, kernelVars, lost, process>>

(* One event, opened on every CPU and pushed to the vector.                 *)
SetupOpen ==
  /\ At("ThreadStart", "open")
  /\ perf_state < NumEvents
  /\ perf_state' = perf_state + 1
  /\ UNCHANGED <<callbackVars, td, inside_agent, slot, callpath, written,
                 handlerVars, kernelVars, lost, process>>

(* A system call of an event fails: setupEvents returns false, the event is *)
(* not pushed, nothing is enabled, and threadStart ignores the result.      *)
SetupFails ==
  /\ At("ThreadStart", "open")
  /\ perf_state < NumEvents
  /\ pc' = "unblock"
  /\ UNCHANGED <<attached, gen, cb, depth, tdVars, callpath, written, handlerVars,
                 kernelVars, lost, process>>

SetupStart ==
  /\ At("ThreadStart", "open")
  /\ perf_state = NumEvents
  /\ Enable(ListFds(perf_state))
  /\ pc' = "unblock"
  /\ UNCHANGED <<attached, gen, cb, depth, tdVars, callpath, written, handlerVars,
                 limit, pending, process>>

ThreadEnd ==
  /\ cb = "app" /\ attached
  /\ attached' = FALSE
  /\ Enter("ThreadEnd", "method")
  /\ UNCHANGED <<gen, depth>>

(* threadEnd deletes an object and then clears the pointer to it.           *)
EndDelete(s) ==
  /\ At("ThreadEnd", s)
  /\ slot[s] = "live"
  /\ slot' = [slot EXCEPT ![s] = "freed"]
  /\ UNCHANGED <<callbackVars, td, inside_agent, perf_state, callpath, written,
                 handlerVars, kernelVars, lost, process>>

EndClear(s) ==
  /\ At("ThreadEnd", s)
  /\ slot[s] # "live"
  /\ slot' = [slot EXCEPT ![s] = "null"]
  /\ pc' = EndNext[s]
  /\ UNCHANGED <<attached, gen, cb, depth, td, inside_agent, perf_state, callpath,
                 written, handlerVars, kernelVars, lost, process>>

(* thread_data_dealloc asserts that perf_state is gone for every client but *)
(* these three, although threadEnd no longer closes the events for any.     *)
KeepsPerfState == Client \in {"GENERIC", "HEAP", "ALLOCTIMES"}

EndDealloc ==
  /\ At("ThreadEnd", "dealloc")
  /\ KeepsPerfState \/ perf_state = NoList
  /\ td' = "freed"
  /\ pc' = "setspecific"
  /\ UNCHANGED <<attached, gen, cb, depth, inside_agent, perf_state, slot, callpath,
                 written, handlerVars, kernelVars, lost, process>>

EndAssertFails ==
  /\ At("ThreadEnd", "dealloc")
  /\ ~KeepsPerfState /\ perf_state # NoList
  /\ process' = "aborted"
  /\ UNCHANGED <<callbackVars, tdVars, callpath, written, handlerVars, kernelVars, lost>>

EndSetSpecific ==
  /\ At("ThreadEnd", "setspecific")
  /\ td' = "none" /\ inside_agent' = FALSE /\ perf_state' = NoList
  /\ pc' = "unblock"
  /\ UNCHANGED <<attached, gen, cb, depth, slot, callpath, written, handlerVars,
                 kernelVars, lost, process>>

(* A callback that Java code triggers: at the top of the application, or    *)
(* inside the Class.getName that ObjectAllocCallback calls.                 *)
EnterJava(c, first) ==
  /\ \/ cb = "app" /\ attached /\ depth' = depth
     \/ cb = "ObjectAlloc" /\ pc = "getName" /\ depth < MaxNest /\ depth' = depth + 1
  /\ Enter(c, first)
  /\ UNCHANGED <<attached, gen>>

(* GC start and end, class load and prepare, VM death: they only block,     *)
(* work outside the modelled state, and unblock.                            *)
OtherCallback == EnterJava("Other", "unblock")

MethodEntry == EnterJava("MethodEntry", "clear")

MethodEntryClear ==
  /\ At("MethodEntry", "clear")
  /\ callpath' = EmptyPath
  /\ pc' = IF slot["method"] = "null" THEN "unblock" ELSE "fill"
  /\ UNCHANGED <<attached, gen, cb, depth, tdVars, written, handlerVars, kernelVars,
                 lost, process>>

(* GetStackTrace succeeds and the frames are pushed one by one, or it fails *)
(* and the path stays empty.                                                *)
MethodEntryFill ==
  /\ At("MethodEntry", "fill")
  /\ \/ callpath' = PartialPath /\ pc' = "push"
     \/ UNCHANGED callpath /\ pc' = "unblock"
  /\ UNCHANGED <<attached, gen, cb, depth, tdVars, written, handlerVars, kernelVars,
                 lost, process>>

MethodEntryPush ==
  /\ At("MethodEntry", "push")
  /\ callpath' = gen
  /\ pc' = "unblock"
  /\ UNCHANGED <<attached, gen, cb, depth, tdVars, written, handlerVars, kernelVars,
                 lost, process>>

ObjectAlloc == EnterJava("ObjectAlloc", "lookup")

(* The allocation is recorded only when the thread has a context tree and   *)
(* an alloc stream.                                                         *)
ObjectAllocLookup ==
  /\ At("ObjectAlloc", "lookup")
  /\ pc' = IF slot["context"] # "null" /\ slot["alloc"] # "null"
             THEN "getName" ELSE "unblock"
  /\ UNCHANGED <<attached, gen, cb, depth, tdVars, callpath, written, handlerVars,
                 kernelVars, lost, process>>

(* Class.getName returns.                                                   *)
ObjectAllocNamed ==
  /\ At("ObjectAlloc", "getName")
  /\ pc' = "write"
  /\ UNCHANGED <<attached, gen, cb, depth, tdVars, callpath, written, handlerVars,
                 kernelVars, lost, process>>

(* object_live_cycle is updated under object_cyc_lock and the stack is      *)
(* written to the alloc stream under the stream's own lock.                 *)
ObjectAllocWrite ==
  /\ At("ObjectAlloc", "write")
  /\ pc' = "unblock"
  /\ UNCHANGED <<attached, gen, cb, depth, tdVars, callpath, written, handlerVars,
                 kernelVars, lost, process>>

-----------------------------------------------------------------------------
(* perf_event_handler. PERF_SIGNAL is masked while it runs, so it never     *)
(* interrupts itself.                                                       *)

(* Variant for validation: profiler_safe_enter ignores the guard.           *)
GuardReadIgnored == {FALSE}

(* What TD_GET(inside_agent) and TD_GET(perf_state) read: a deleted         *)
(* thread_data_t still holds its old contents, or zeroes, or in part what   *)
(* the allocator put there.                                                 *)
GuardRead == IF td = "freed" THEN BOOLEAN ELSE {inside_agent}
ListRead == IF td = "freed" THEN {perf_state, NoList} ELSE {perf_state}

(* The kernel delivers the oldest signal; TD_GET allocates when there is no *)
(* thread_data_t; inside_agent is TRUE afterwards on every path.            *)
Deliver ==
  /\ Runs
  /\ pending # <<>>
  /\ pending' = Tail(pending)
  /\ td' = IF td = "none" THEN "live" ELSE td
  /\ inside_agent' = TRUE
  /\ UNCHANGED <<callbackVars, perf_state, slot, callpath, written, on, limit, process>>

(* The handler returns early: the sample is gone, and a counter that the    *)
(* overflow disabled stays disabled.                                        *)
Ignored ==
  /\ lost' = lost \cup (({Head(pending)} \cap Fd) \ on)
  /\ UNCHANGED handlerVars

(* Check #0: the guard is set.                                              *)
HandlerDrop == Deliver /\ TRUE \in GuardRead /\ Ignored

(* No perf_state: the handler returns without profiler_safe_exit.           *)
HandlerNoList == Deliver /\ FALSE \in GuardRead /\ NoList \in ListRead /\ Ignored

HandlerEnter ==
  /\ Deliver
  /\ FALSE \in GuardRead /\ perf_state \in ListRead /\ perf_state # NoList
  /\ hpc' = "stop"
  /\ sig' = Head(pending)
  /\ UNCHANGED lost

(* The handler uses a thread_data_t whose memory was given to someone else. *)
HandlerFault ==
  /\ Runs
  /\ pending # <<>> /\ td = "freed"
  /\ process' = "aborted"
  /\ UNCHANGED <<callbackVars, tdVars, callpath, written, handlerVars, kernelVars, lost>>

HandlerAt(p) == process = "running" /\ hpc = p

(* perf_stop_all.                                                           *)
HandlerStop ==
  /\ HandlerAt("stop")
  /\ on' = on \ ListFds(perf_state)
  /\ hpc' = "dispatch"
  /\ UNCHANGED <<callbackVars, tdVars, callpath, written, sig, limit, pending, lost,
                 process>>

(* Variant for validation: check #1 returns without perf_start_all.         *)
HandlerForeignStaysStopped ==
  /\ HandlerAt("dispatch")
  /\ sig = Foreign
  /\ hpc' = "exit"
  /\ UNCHANGED <<callbackVars, tdVars, callpath, written, sig, kernelVars, lost, process>>

(* Check #1: a signal that does not come from the kernel.                   *)
HandlerForeign ==
  /\ HandlerAt("dispatch")
  /\ sig = Foreign
  /\ hpc' = "startAll"
  /\ UNCHANGED <<callbackVars, tdVars, callpath, written, sig, kernelVars, lost, process>>

(* Check #3: the counter is not on the list; it alone is restarted.         *)
HandlerUnknown ==
  /\ HandlerAt("dispatch")
  /\ sig # Foreign /\ sig \notin ListFds(perf_state)
  /\ Refresh({sig}) /\ Enable({sig})
  /\ hpc' = "startAll"
  /\ UNCHANGED <<callbackVars, tdVars, callpath, written, sig, pending, process>>

(* Variant for validation: the handler of a known counter returns without   *)
(* restarting anything.                                                     *)
HandlerKnownStaysStopped ==
  /\ HandlerAt("dispatch")
  /\ sig \in ListFds(perf_state)
  /\ hpc' = "exit"
  /\ UNCHANGED <<callbackVars, tdVars, callpath, written, sig, kernelVars, lost, process>>

HandlerKnown ==
  /\ HandlerAt("dispatch")
  /\ sig \in ListFds(perf_state)
  /\ hpc' = "drain"
  /\ UNCHANGED <<callbackVars, tdVars, callpath, written, sig, kernelVars, lost, process>>

(* OnSample writes the call path when the client is GENERIC, the thread has *)
(* a context tree and streams, and the path is not empty.                   *)
Records ==
  /\ Client = "GENERIC"
  /\ slot["context"] # "null" /\ slot["trace"] # "null"
  /\ callpath # EmptyPath

(* The ring buffer holds a sample, for which user_sample_cb is called, or   *)
(* it holds none.                                                           *)
HandlerDrain ==
  /\ HandlerAt("drain")
  /\ \/ Records /\ written' = written \cup {callpath}
     \/ UNCHANGED written
  /\ hpc' = "restart"
  /\ UNCHANGED <<callbackVars, tdVars, callpath, sig, kernelVars, lost, process>>

(* restart_perf_event: every CPU's counter of the event, not only the one   *)
(* that overflowed, gets one more overflow and is enabled.                  *)
HandlerRestart ==
  /\ HandlerAt("restart")
  /\ Refresh(EventFds(sig)) /\ Enable(EventFds(sig))
  /\ hpc' = "startAll"
  /\ UNCHANGED <<callbackVars, tdVars, callpath, written, sig, pending, process>>

HandlerStartAll ==
  /\ HandlerAt("startAll")
  /\ Enable(ListFds(perf_state))
  /\ hpc' = "exit"
  /\ UNCHANGED <<callbackVars, tdVars, callpath, written, sig, limit, pending, process>>

(* Variant for validation: the handler returns without profiler_safe_exit.  *)
HandlerExitKeepsGuard ==
  /\ HandlerAt("exit")
  /\ UNCHANGED inside_agent
  /\ hpc' = "idle" /\ sig' = Foreign
  /\ UNCHANGED <<callbackVars, td, perf_state, slot, callpath, written, kernelVars,
                 lost, process>>

(* profiler_safe_exit and return.                                           *)
HandlerExit ==
  /\ HandlerAt("exit")
  /\ inside_agent' = FALSE
  /\ hpc' = "idle" /\ sig' = Foreign
  /\ UNCHANGED <<callbackVars, td, perf_state, slot, callpath, written, kernelVars,
                 lost, process>>

-----------------------------------------------------------------------------
Kernel == ForeignSignal \/ \E f \in Fd : Overflow(f)

CallbackBegins ==
  ThreadStart \/ ThreadEnd \/ OtherCallback \/ MethodEntry \/ ObjectAlloc

CallbackStep ==
  \/ StartThreadData \/ StartBlackList
  \/ \E s \in Slots : StartSlot(s) \/ EndDelete(s) \/ EndClear(s)
  \/ SetupList \/ SetupOpen \/ SetupFails \/ SetupStart
  \/ EndDealloc \/ EndAssertFails \/ EndSetSpecific
  \/ MethodEntryClear \/ MethodEntryFill \/ MethodEntryPush
  \/ ObjectAllocLookup \/ ObjectAllocNamed \/ ObjectAllocWrite
  \/ Unblock

HandlerBegins == HandlerDrop \/ HandlerNoList \/ HandlerEnter \/ HandlerFault

HandlerStep ==
  \/ HandlerStop \/ HandlerForeign \/ HandlerUnknown \/ HandlerKnown
  \/ HandlerDrain \/ HandlerRestart \/ HandlerStartAll \/ HandlerExit

Next == Kernel \/ CallbackBegins \/ CallbackStep \/ HandlerBegins \/ HandlerStep

Spec == Init /\ [][Next]_vars

(* A running handler is never descheduled for good; the kernel delivers a   *)
(* queued signal to a runnable thread; and the thread gets to run between   *)
(* two signals, because a counter's period is long compared with a step,    *)
(* so a callback that is interrupted again and again still advances.        *)
Fairness ==
  /\ WF_vars(HandlerStep)
  /\ WF_vars(HandlerBegins)
  /\ SF_vars(CallbackStep)

FairSpec == Spec /\ Fairness

-----------------------------------------------------------------------------
(* Properties.                                                              *)

(* The type of every variable.                                              *)
TypeOK ==
  /\ attached \in BOOLEAN /\ gen \in 0..MaxAttach
  /\ cb \in Callbacks /\ pc \in Steps[cb] /\ depth \in 0..MaxNest
  /\ td \in {"none", "live", "freed"} /\ inside_agent \in BOOLEAN
  /\ perf_state \in {NoList} \cup 0..NumEvents
  /\ slot \in [Slots -> Pointer]
  /\ callpath \in {PartialPath, EmptyPath} \cup 1..MaxAttach
  /\ written \subseteq {PartialPath} \cup 1..MaxAttach
  /\ hpc \in HandlerSteps /\ sig \in Signal
  /\ on \subseteq Fd /\ limit \in [Fd -> LimitState]
  /\ pending \in Seq(Signal) /\ Len(pending) <= MaxPending
  /\ lost \subseteq Fd /\ process \in {"running", "aborted"}

(* Where the guard does not keep perf_event_handler out of agent code: in   *)
(* ThreadStart once thread_data_alloc has replaced the guarded object, in   *)
(* an ObjectAlloc whose nested callback cleared the guard, and in ThreadEnd *)
(* from the deletion of the guarded object on. Everywhere else, and in      *)
(* MethodEntry and in the tear-down of the streams in particular, a handler *)
(* that passed check #0 finds the thread in application code.               *)
GuardWindow ==
  hpc # "idle" =>
    \/ cb = "app"
    \/ cb = "ThreadStart" /\ pc # "thread_data"
    \/ cb = "ObjectAlloc" /\ pc \in {"getName", "write", "unblock"}
    \/ cb = "ThreadEnd" /\ pc \in {"setspecific", "unblock"}

(* When constructContext reads them, callpath_vec is not in the middle of   *)
(* MethodEntry's update, and neither the context tree nor the two streams   *)
(* it writes have been deleted by threadEnd.                                *)
SampleReadsStableState ==
  hpc = "drain" =>
    /\ callpath # PartialPath
    /\ \A s \in {"context", "trace", "cachemiss"} : slot[s] # "freed"

(* The trace and cachemiss files of an attachment hold only call paths that *)
(* were collected in that attachment: no path survives in the thread_local  *)
(* callpath_vec from before a detach.                                       *)
SamplesOfThisAttachment == slot["trace"] = "live" => written \subseteq {gen}

Queued(f) == \E i \in 1..Len(pending) : pending[i] = f

SetUp ==
  /\ perf_state = NumEvents
  /\ ~(cb = "ThreadStart" /\ pc = "open")

(* Between two runs of the handler a counter of a fully set-up thread is    *)
(* enabled, or its signal is still queued, or its signal was dropped: every *)
(* run that gets past check #0 and finds a list turns all of them on again, *)
(* whatever overflows on other CPUs meanwhile.                              *)
NoSilentStop ==
  hpc = "idle" /\ SetUp =>
    \A f \in ListFds(perf_state) : f \in on \/ Queued(f) \/ f \in lost

(* The early return for a missing perf_state leaves inside_agent set; a     *)
(* thread in application code is left in that state only when it has no     *)
(* counters of its own, so the stuck guard loses no sample of this thread's *)
(* attachment.                                                              *)
GuardStuckOnlyWithoutCounters ==
  hpc = "idle" /\ cb = "app" /\ inside_agent => perf_state = NoList

(* A counter of a set-up thread that is off, its signal queued or being     *)
(* handled, is eventually on again, unless the signal is dropped or the     *)
(* thread ends first.                                                       *)
RestartedOrDropped ==
  \A f \in Fd :
    (SetUp /\ f \in ListFds(perf_state) /\ f \notin on)
      ~> (f \in on \/ f \in lost \/ ~SetUp \/ process = "aborted")

(* inside_agent does not stay set on a thread that has its counters:        *)
(* callbacks and handler runs all end.                                      *)
GuardReleased ==
  (inside_agent /\ perf_state # NoList)
    ~> (~inside_agent \/ perf_state = NoList \/ process = "aborted")

-----------------------------------------------------------------------------
(* What a comment says, and the code does not do.                           *)

(* Check #0 says that "the sample" is dropped. A dropped signal costs no    *)
(* more than its sample: while the thread stays attached, the counter       *)
(* counts again.                                                            *)
DropLosesOnlyTheSample ==
  \A f \in Fd :
    (SetUp /\ f \in lost /\ f[1] = gen) ~> (f \notin lost \/ ~SetUp \/ process = "aborted")
=============================================================================
