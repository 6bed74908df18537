-------------------------- MODULE AgentThreadProofs --------------------------
(***************************************************************************)
(* Proofs about AgentThread, for every number of CPUs, events, attachments,*)
(* queued signals and nested callbacks, and for every client.              *)
(***************************************************************************)
EXTENDS AgentThread, TLAPS

USE DEF NoList, EmptyPath, PartialPath

-----------------------------------------------------------------------------
(* Types.                                                                   *)

LEMMA FdFacts ==
  /\ Fd \subseteq Signal /\ Foreign \in Signal
  /\ \A n : ListFds(n) \subseteq Fd
  /\ \A f : EventFds(f) \subseteq Fd
BY DEF Signal, ListFds, EventFds

(* The type of the callbacks' variables and of thread_data_t, the part that *)
(* the callbacks change.                                                    *)
ThreadTypeOK ==
  /\ attached \in BOOLEAN /\ gen \in 0..MaxAttach
  /\ cb \in Callbacks /\ pc \in Steps[cb] /\ depth \in 0..MaxNest
  /\ td \in {"none", "live", "freed"} /\ inside_agent \in BOOLEAN
  /\ perf_state \in {NoList} \cup 0..NumEvents
  /\ slot \in [Slots -> Pointer]
  /\ callpath \in {PartialPath, EmptyPath} \cup 1..MaxAttach

(* The type of what the handler and the kernel change.                      *)
SamplingTypeOK ==
  /\ written \subseteq {PartialPath} \cup 1..MaxAttach
  /\ hpc \in HandlerSteps /\ sig \in Signal
  /\ on \subseteq Fd /\ limit \in [Fd -> LimitState]
  /\ pending \in Seq(Signal) /\ Len(pending) <= MaxPending
  /\ lost \subseteq Fd /\ process \in {"running", "aborted"}

LEMMA TypeSplit == TypeOK <=> ThreadTypeOK /\ SamplingTypeOK
BY DEF TypeOK, ThreadTypeOK, SamplingTypeOK

LEMMA TypeInit == Init => TypeOK
<1> SUFFICES ASSUME Init PROVE TypeOK
  OBVIOUS
<1>1. gen = 0 /\ 0 \in 0..MaxAttach /\ 0 \in 0..MaxNest
  BY BoundsAssumption DEF Init
<1>2. ThreadTypeOK
  BY <1>1 DEF Init, ThreadTypeOK, Callbacks, Steps, NullSlots, Slots, Pointer
<1>3. pending = <<>> /\ <<>> \in Seq(Signal) /\ Len(<<>>) = 0
  BY DEF Init
<1>4. SamplingTypeOK
  BY <1>3, FdFacts, BoundsAssumption
  DEF Init, SamplingTypeOK, HandlerSteps, LimitState
<1> QED
  BY <1>2, <1>4, TypeSplit

(* ThreadStart checks its bound before thread_data_alloc uses it.           *)
StartBound == cb = "ThreadStart" /\ pc = "thread_data" => gen < MaxAttach

LEMMA StepsFacts ==
  /\ Steps["app"] = {"run"}
  /\ Steps["ThreadStart"] =
       {"thread_data", "blacklist", "list", "open", "unblock"} \cup Slots
  /\ Steps["ThreadEnd"] = {"dealloc", "setspecific", "unblock"} \cup Slots
  /\ Steps["MethodEntry"] = {"clear", "fill", "push", "unblock"}
  /\ Steps["ObjectAlloc"] = {"lookup", "getName", "write", "unblock"}
  /\ Steps["Other"] = {"unblock"}
BY DEF Steps

(* Every step keeps the types of the callbacks' variables.                  *)
LEMMA ThreadTypeNext ==
  ASSUME TypeOK, StartBound, Next
  PROVE  ThreadTypeOK'
<1> USE DEF ThreadTypeOK, callbackVars, tdVars, handlerVars, kernelVars
<1>0. ThreadTypeOK /\ SamplingTypeOK
  BY TypeSplit
<1>1. CASE Kernel
  BY <1>0, <1>1 DEF Kernel, Overflow, ForeignSignal
<1>2. CASE ThreadStart
  BY <1>0, <1>2, StepsFacts DEF ThreadStart, Enter, Callbacks
<1>3. CASE ThreadEnd
  BY <1>0, <1>3, StepsFacts DEF ThreadEnd, Enter, Callbacks, Slots
<1>4. ASSUME NEW c \in {"Other", "MethodEntry", "ObjectAlloc"},
             NEW first \in Steps[c], EnterJava(c, first)
      PROVE  ThreadTypeOK'
  <2>1. depth' \in 0..MaxNest
    BY <1>0, <1>4, BoundsAssumption DEF EnterJava
  <2> QED
    BY <1>0, <1>4, <2>1 DEF EnterJava, Enter, Callbacks
<1>5. CASE OtherCallback
  BY <1>4, <1>5, StepsFacts DEF OtherCallback
<1>6. CASE MethodEntry
  BY <1>4, <1>6, StepsFacts DEF MethodEntry
<1>7. CASE ObjectAlloc
  BY <1>4, <1>7, StepsFacts DEF ObjectAlloc
<1>8. CASE StartThreadData
  <2>1. gen' \in 0..MaxAttach
    BY <1>0, <1>8, BoundsAssumption DEF StartThreadData, At, StartBound
  <2> QED
    BY <1>0, <1>8, <2>1, StepsFacts DEF StartThreadData, At, NullSlots, Slots, Pointer
<1>9. ASSUME NEW s \in Slots, StartSlot(s)
      PROVE  ThreadTypeOK'
  BY <1>0, <1>9, StepsFacts DEF StartSlot, At, StartNext, Slots, Pointer
<1>10. CASE StartBlackList \/ SetupList \/ SetupFails \/ SetupStart
  BY <1>0, <1>10, StepsFacts, NumEventsAssumption
  DEF StartBlackList, SetupList, SetupFails, SetupStart, At
<1>11. CASE SetupOpen
  <2>1. perf_state' \in {NoList} \cup 0..NumEvents
    BY <1>0, <1>11, NumEventsAssumption DEF SetupOpen
  <2> QED
    BY <1>0, <1>11, <2>1 DEF SetupOpen
<1>12. ASSUME NEW s \in Slots, EndDelete(s) \/ EndClear(s)
       PROVE  ThreadTypeOK'
  BY <1>0, <1>12, StepsFacts DEF EndDelete, EndClear, At, EndNext, Slots, Pointer
<1>13. CASE EndDealloc \/ EndAssertFails \/ EndSetSpecific
  BY <1>0, <1>13, StepsFacts DEF EndDealloc, EndAssertFails, EndSetSpecific, At
<1>14. CASE MethodEntryClear \/ MethodEntryFill
  BY <1>0, <1>14, StepsFacts DEF MethodEntryClear, MethodEntryFill, At
<1>15. CASE MethodEntryPush
  <2>1. callpath' \in {PartialPath, EmptyPath} \cup 1..MaxAttach
    BY <1>0, <1>15, BoundsAssumption DEF MethodEntryPush
  <2> QED
    BY <1>0, <1>15, <2>1, StepsFacts DEF MethodEntryPush, At
<1>16. CASE ObjectAllocLookup \/ ObjectAllocNamed \/ ObjectAllocWrite
  BY <1>0, <1>16, StepsFacts
  DEF ObjectAllocLookup, ObjectAllocNamed, ObjectAllocWrite, At
<1>17. CASE Unblock
  <2>1. depth' \in 0..MaxNest
    BY <1>0, <1>17, BoundsAssumption DEF Unblock
  <2> QED
    BY <1>0, <1>17, <2>1, StepsFacts DEF Unblock, Callbacks
<1>18. CASE HandlerBegins
  BY <1>0, <1>18
  DEF HandlerBegins, HandlerDrop, HandlerNoList, HandlerEnter, HandlerFault, Deliver, Ignored
<1>19. CASE HandlerStep
  BY <1>0, <1>19
  DEF HandlerStep, HandlerStop, HandlerForeign, HandlerUnknown, HandlerKnown,
      HandlerDrain, HandlerRestart, HandlerStartAll, HandlerExit
<1> QED
  BY <1>1, <1>2, <1>3, <1>5, <1>6, <1>7, <1>8, <1>9, <1>10, <1>11, <1>12, <1>13,
     <1>14, <1>15, <1>16, <1>17, <1>18, <1>19
  DEF Next, CallbackBegins, CallbackStep

(* Every step keeps the types of what the handler and the kernel change.    *)
LEMMA SamplingTypeNext ==
  ASSUME TypeOK, Next
  PROVE  SamplingTypeOK'
<1> USE DEF SamplingTypeOK, callbackVars, tdVars, handlerVars, kernelVars
<1>0. ThreadTypeOK /\ SamplingTypeOK
  BY TypeSplit
<1>1. ASSUME NEW f \in Fd, Overflow(f)
      PROVE  SamplingTypeOK'
  <2>1. pending' \in Seq(Signal) /\ Len(pending') <= MaxPending
    BY <1>0, <1>1, FdFacts, BoundsAssumption DEF Overflow
  <2> QED
    BY <1>0, <1>1, <2>1 DEF Overflow, LimitState
<1>2. CASE ForeignSignal
  <2>1. pending' \in Seq(Signal) /\ Len(pending') <= MaxPending
    BY <1>0, <1>2, FdFacts, BoundsAssumption DEF ForeignSignal
  <2> QED
    BY <1>0, <1>2, <2>1 DEF ForeignSignal
<1>3. CASE CallbackBegins
  BY <1>0, <1>3
  DEF CallbackBegins, ThreadStart, ThreadEnd, OtherCallback, MethodEntry, ObjectAlloc,
      EnterJava, Enter
<1>4. CASE CallbackStep
  <2>1. CASE SetupStart
    BY <1>0, <2>1, FdFacts DEF SetupStart, Enable
  <2>2. CASE ~SetupStart
    BY <1>0, <1>4, <2>2
    DEF CallbackStep, StartThreadData, StartBlackList, StartSlot, EndDelete, EndClear,
        SetupList, SetupOpen, SetupFails, EndDealloc, EndAssertFails, EndSetSpecific,
        MethodEntryClear, MethodEntryFill, MethodEntryPush, ObjectAllocLookup,
        ObjectAllocNamed, ObjectAllocWrite, Unblock
  <2> QED
    BY <2>1, <2>2
<1>5. ASSUME Deliver
      PROVE  /\ Head(pending) \in Signal
             /\ pending' \in Seq(Signal) /\ Len(pending') <= MaxPending
  BY <1>0, <1>5, BoundsAssumption DEF Deliver
<1>6. CASE HandlerDrop \/ HandlerNoList
  BY <1>0, <1>5, <1>6 DEF HandlerDrop, HandlerNoList, Deliver, Ignored
<1>7. CASE HandlerEnter
  BY <1>0, <1>5, <1>7 DEF HandlerEnter, Deliver, HandlerSteps
<1>8. CASE HandlerFault
  BY <1>0, <1>8 DEF HandlerFault
<1>9. CASE HandlerStop \/ HandlerForeign \/ HandlerKnown \/ HandlerStartAll \/ HandlerExit
  BY <1>0, <1>9, FdFacts
  DEF HandlerStop, HandlerForeign, HandlerKnown, HandlerStartAll, HandlerExit,
      HandlerSteps, Enable
<1>10. ASSUME NEW S, Refresh(S)
       PROVE  limit' \in [Fd -> LimitState]
  BY <1>0, <1>10 DEF Refresh, LimitState
<1>11. CASE HandlerUnknown
  <2>1. sig \in Fd
    BY <1>0, <1>11 DEF HandlerUnknown, Signal
  <2> QED
    BY <1>0, <1>10, <1>11, <2>1 DEF HandlerUnknown, HandlerSteps, Enable
<1>12. CASE HandlerDrain
  <2>1. written' \subseteq {PartialPath} \cup 1..MaxAttach
    <3>1. CASE Records /\ written' = written \cup {callpath}
      <4>1. callpath \in {PartialPath} \cup 1..MaxAttach
        BY <1>0, <3>1 DEF Records, ThreadTypeOK
      <4> QED
        BY <1>0, <3>1, <4>1
    <3>2. CASE UNCHANGED written
      BY <1>0, <3>2
    <3> QED
      BY <1>12, <3>1, <3>2 DEF HandlerDrain
  <2> QED
    BY <1>0, <1>12, <2>1 DEF HandlerDrain, HandlerSteps
<1>13. CASE HandlerRestart
  BY <1>0, <1>10, <1>13, FdFacts DEF HandlerRestart, HandlerSteps, Enable
<1> QED
  BY <1>1, <1>2, <1>3, <1>4, <1>6, <1>7, <1>8, <1>9, <1>11, <1>12, <1>13
  DEF Next, Kernel, HandlerBegins, HandlerStep

LEMMA StartBoundNext ==
  ASSUME TypeOK, StartBound, Next
  PROVE  StartBound'
<1> USE DEF StartBound, callbackVars
<1>1. CASE Kernel \/ HandlerBegins \/ HandlerStep
  BY <1>1
  DEF Kernel, Overflow, ForeignSignal, HandlerBegins, HandlerDrop, HandlerNoList,
      HandlerEnter, HandlerFault, Deliver, Ignored, HandlerStep, HandlerStop,
      HandlerForeign, HandlerUnknown, HandlerKnown, HandlerDrain, HandlerRestart,
      HandlerStartAll, HandlerExit
<1>2. CASE CallbackBegins
  BY <1>2
  DEF CallbackBegins, ThreadStart, ThreadEnd, OtherCallback, MethodEntry, ObjectAlloc,
      EnterJava, Enter
<1>3. CASE CallbackStep
  BY <1>3
  DEF CallbackStep, StartThreadData, StartBlackList, StartSlot, EndDelete, EndClear,
      SetupList, SetupOpen, SetupFails, SetupStart, EndDealloc, EndAssertFails,
      EndSetSpecific, MethodEntryClear, MethodEntryFill, MethodEntryPush,
      ObjectAllocLookup, ObjectAllocNamed, ObjectAllocWrite, Unblock, At, StartNext,
      EndNext, Slots
<1> QED
  BY <1>1, <1>2, <1>3 DEF Next

(* Every variable of the thread keeps its type: in particular no more than  *)
(* num_events events are ever pushed to perf_state, pc stays within the     *)
(* steps of the running callback, and every queued signal names a counter.  *)
THEOREM TypeCorrect == Spec => []TypeOK
<1>1. Init => TypeOK /\ StartBound
  BY TypeInit DEF Init, StartBound
<1>2. TypeOK /\ StartBound /\ [Next]_vars => (TypeOK /\ StartBound)'
  <2> SUFFICES ASSUME TypeOK, StartBound, [Next]_vars
               PROVE  (TypeOK /\ StartBound)'
    OBVIOUS
  <2>1. CASE Next
    BY <2>1, ThreadTypeNext, SamplingTypeNext, StartBoundNext, TypeSplit
    DEF TypeOK, ThreadTypeOK, SamplingTypeOK
  <2>2. CASE UNCHANGED vars
    BY <2>2
    DEF vars, callbackVars, tdVars, handlerVars, kernelVars, TypeOK, StartBound
  <2> QED
    BY <2>1, <2>2
<1> QED
  BY <1>1, <1>2, PTL DEF Spec

-----------------------------------------------------------------------------
(* The guard.                                                               *)

(* The steps of agent code that inside_agent does protect.                  *)
Guarded ==
  \/ cb \in {"MethodEntry", "Other"}
  \/ cb = "ObjectAlloc" /\ pc = "lookup"
  \/ cb = "ThreadStart" /\ pc = "thread_data"
  \/ cb = "ThreadEnd" /\ pc \in Slots \cup {"dealloc"}

GuardHeld == Guarded => inside_agent /\ td = "live" /\ hpc = "idle"

HandlerHasList == hpc # "idle" => inside_agent /\ perf_state # NoList

FreedOnlyInDealloc == td = "freed" => cb = "ThreadEnd" /\ pc = "setspecific"

GuardInv ==
  GuardHeld /\ HandlerHasList /\ FreedOnlyInDealloc /\ GuardStuckOnlyWithoutCounters

LEMMA GuardInit == Init => GuardInv
BY DEF Init, GuardInv, GuardHeld, HandlerHasList, FreedOnlyInDealloc, Guarded,
       GuardStuckOnlyWithoutCounters

(* A signal that arrives in guarded code is dropped; a signal that finds    *)
(* the guard clear, or unreadable, arrives in unguarded code.               *)
LEMMA DeliveryOutsideGuard ==
  ASSUME GuardInv, FALSE \in GuardRead
  PROVE  ~Guarded
BY DEF GuardInv, GuardHeld, GuardRead

LEMMA GuardNext ==
  ASSUME TypeOK, GuardInv, Next
  PROVE  GuardInv'
<1> USE DEF GuardInv, GuardHeld, HandlerHasList, FreedOnlyInDealloc,
            GuardStuckOnlyWithoutCounters, Guarded,
            callbackVars, tdVars, handlerVars, kernelVars
<1>1. CASE Kernel
  BY <1>1 DEF Kernel, Overflow, ForeignSignal
<1>2. CASE ThreadStart \/ ThreadEnd
  BY <1>2 DEF ThreadStart, ThreadEnd, Enter, Runs
<1>3. CASE OtherCallback \/ MethodEntry \/ ObjectAlloc
  BY <1>3 DEF OtherCallback, MethodEntry, ObjectAlloc, EnterJava, Enter, Runs
<1>4. CASE StartThreadData
  BY <1>4 DEF StartThreadData, At, Runs
<1>5. ASSUME NEW s \in Slots, StartSlot(s)
      PROVE  GuardInv'
  BY <1>5 DEF StartSlot, At, Runs, StartNext, Slots
<1>6. CASE StartBlackList \/ SetupList \/ SetupOpen \/ SetupFails \/ SetupStart
  BY <1>6
  DEF StartBlackList, SetupList, SetupOpen, SetupFails, SetupStart, At, Runs
<1>7. ASSUME NEW s \in Slots, EndDelete(s)
      PROVE  GuardInv'
  BY <1>7 DEF EndDelete, At, Runs
<1>8. ASSUME NEW s \in Slots, EndClear(s)
      PROVE  GuardInv'
  BY <1>8 DEF EndClear, At, Runs, EndNext, Slots
<1>9. CASE EndDealloc \/ EndAssertFails \/ EndSetSpecific
  BY <1>9 DEF EndDealloc, EndAssertFails, EndSetSpecific, At, Runs, Slots
<1>10. CASE MethodEntryClear \/ MethodEntryFill \/ MethodEntryPush
  BY <1>10 DEF MethodEntryClear, MethodEntryFill, MethodEntryPush, At, Runs
<1>11. CASE ObjectAllocLookup \/ ObjectAllocNamed \/ ObjectAllocWrite
  BY <1>11 DEF ObjectAllocLookup, ObjectAllocNamed, ObjectAllocWrite, At, Runs
<1>12. CASE Unblock
  BY <1>12 DEF Unblock, Runs
<1>13. CASE HandlerDrop
  BY <1>13 DEF HandlerDrop, Deliver, Ignored, Runs, GuardRead
<1>14. CASE HandlerNoList
  BY <1>14, DeliveryOutsideGuard
  DEF HandlerNoList, Deliver, Ignored, Runs, ListRead
<1>15. CASE HandlerEnter
  BY <1>15, DeliveryOutsideGuard DEF HandlerEnter, Deliver, Runs
<1>16. CASE HandlerFault
  BY <1>16 DEF HandlerFault
<1>17. CASE HandlerStep
  BY <1>17
  DEF HandlerStep, HandlerStop, HandlerForeign, HandlerUnknown, HandlerKnown,
      HandlerDrain, HandlerRestart, HandlerStartAll, HandlerExit, HandlerAt
<1> QED
  BY <1>1, <1>2, <1>3, <1>4, <1>5, <1>6, <1>7, <1>8, <1>9, <1>10, <1>11, <1>12,
     <1>13, <1>14, <1>15, <1>16, <1>17
  DEF Next, CallbackBegins, CallbackStep, HandlerBegins

-----------------------------------------------------------------------------
(* What the handler reads.                                                  *)

(* threadEnd is between the delete and the assignment that follows it.      *)
FreedOnlyInTearDown ==
  \A s \in Slots : slot[s] = "freed" => cb = "ThreadEnd" /\ pc = s

PathOfThisAttachment ==
  /\ callpath \in {PartialPath, EmptyPath, gen}
  /\ callpath = PartialPath => cb = "MethodEntry" /\ pc = "push"

DataInv == FreedOnlyInTearDown /\ PathOfThisAttachment /\ SamplesOfThisAttachment

LEMMA DataInit == Init => DataInv
BY DEF Init, DataInv, FreedOnlyInTearDown, PathOfThisAttachment,
       SamplesOfThisAttachment, NullSlots, Slots

LEMMA DataNext ==
  ASSUME TypeOK, GuardInv, DataInv, Next
  PROVE  DataInv'
<1> USE DEF DataInv, FreedOnlyInTearDown, PathOfThisAttachment,
            SamplesOfThisAttachment, callbackVars, tdVars, handlerVars, kernelVars
<1>0. slot \in [Slots -> Pointer] /\ "trace" \in Slots /\ gen \in Nat
  BY BoundsAssumption DEF TypeOK, Slots
<1>1. CASE Kernel
  BY <1>1 DEF Kernel, Overflow, ForeignSignal
<1>2. CASE ThreadStart \/ ThreadEnd
  BY <1>2 DEF ThreadStart, ThreadEnd, Enter
<1>3. CASE OtherCallback \/ MethodEntry \/ ObjectAlloc
  BY <1>3 DEF OtherCallback, MethodEntry, ObjectAlloc, EnterJava, Enter
<1>4. CASE StartThreadData
  BY <1>0, <1>4 DEF StartThreadData, At, NullSlots
<1>5. ASSUME NEW s \in Slots, StartSlot(s)
      PROVE  DataInv'
  BY <1>0, <1>5 DEF StartSlot, At
<1>6. CASE StartBlackList \/ SetupList \/ SetupOpen \/ SetupFails \/ SetupStart
  BY <1>6
  DEF StartBlackList, SetupList, SetupOpen, SetupFails, SetupStart, At
<1>7. ASSUME NEW s \in Slots, EndDelete(s)
      PROVE  DataInv'
  BY <1>0, <1>7 DEF EndDelete, At
<1>8. ASSUME NEW s \in Slots, EndClear(s)
      PROVE  DataInv'
  BY <1>0, <1>8 DEF EndClear, At
<1>9. CASE EndDealloc \/ EndAssertFails \/ EndSetSpecific
  BY <1>9 DEF EndDealloc, EndAssertFails, EndSetSpecific, At, Slots
<1>10. CASE MethodEntryClear \/ MethodEntryFill \/ MethodEntryPush
  BY <1>0, <1>10 DEF MethodEntryClear, MethodEntryFill, MethodEntryPush, At
<1>11. CASE ObjectAllocLookup \/ ObjectAllocNamed \/ ObjectAllocWrite
  BY <1>11 DEF ObjectAllocLookup, ObjectAllocNamed, ObjectAllocWrite, At
<1>12. CASE Unblock
  BY <1>12 DEF Unblock, Slots
<1>13. CASE HandlerBegins
  BY <1>13
  DEF HandlerBegins, HandlerDrop, HandlerNoList, HandlerEnter, HandlerFault, Deliver,
      Ignored
<1>14. CASE HandlerDrain
  <2>1. callpath # PartialPath
    BY <1>14 DEF HandlerDrain, HandlerAt, GuardInv, GuardHeld, Guarded
  <2> QED
    BY <1>14, <2>1 DEF HandlerDrain, Records
<1>15. CASE HandlerStep /\ ~HandlerDrain
  BY <1>15
  DEF HandlerStep, HandlerStop, HandlerForeign, HandlerUnknown, HandlerKnown,
      HandlerRestart, HandlerStartAll, HandlerExit
<1> QED
  BY <1>1, <1>2, <1>3, <1>4, <1>5, <1>6, <1>7, <1>8, <1>9, <1>10, <1>11, <1>12,
     <1>13, <1>14, <1>15
  DEF Next, CallbackBegins, CallbackStep

-----------------------------------------------------------------------------
(* The counters.                                                            *)

(* NoSilentStop, strengthened to the handler's last step.                   *)
CountersInv ==
  hpc \in {"idle", "exit"} /\ SetUp =>
    \A f \in ListFds(perf_state) : f \in on \/ Queued(f) \/ f \in lost

LEMMA CountersInit == Init => CountersInv
BY NumEventsAssumption DEF Init, CountersInv, SetUp

(* Appending to the queue forgets no signal.                                *)
LEMMA QueuedAppend ==
  ASSUME NEW q \in Seq(Signal), NEW x \in Signal
  PROVE  /\ \E i \in 1..Len(Append(q, x)) : Append(q, x)[i] = x
         /\ \A f : (\E i \in 1..Len(q) : q[i] = f)
                     => \E i \in 1..Len(Append(q, x)) : Append(q, x)[i] = f
<1>1. Len(Append(q, x)) = Len(q) + 1 /\ Append(q, x)[Len(q) + 1] = x
  OBVIOUS
<1>2. \A i \in 1..Len(q) : Append(q, x)[i] = q[i] /\ i \in 1..(Len(q) + 1)
  OBVIOUS
<1>3. Len(q) + 1 \in 1..(Len(q) + 1)
  OBVIOUS
<1> QED
  BY <1>1, <1>2, <1>3

(* Delivering the oldest signal forgets only that one.                      *)
LEMMA QueuedTail ==
  ASSUME NEW q \in Seq(Signal), q # <<>>, NEW f, f # Head(q),
         \E i \in 1..Len(q) : q[i] = f
  PROVE  \E i \in 1..Len(Tail(q)) : Tail(q)[i] = f
<1>1. PICK i \in 1..Len(q) : q[i] = f
  OBVIOUS
<1>2. i # 1
  BY <1>1
<1>3. i - 1 \in 1..Len(Tail(q)) /\ Tail(q)[i - 1] = q[i]
  BY <1>2
<1> QED
  BY <1>1, <1>3

LEMMA CountersNext ==
  ASSUME TypeOK, GuardInv, CountersInv, Next
  PROVE  CountersInv'
<1> USE DEF CountersInv, SetUp, callbackVars, tdVars, handlerVars, kernelVars
<1>0. pending \in Seq(Signal) /\ NumEvents \in Nat \ {0} /\ NoList # NumEvents
  BY NumEventsAssumption DEF TypeOK
<1>1. ASSUME NEW g \in Fd, Overflow(g)
      PROVE  CountersInv'
  <2>1. \A f : Queued(f) => Queued(f)'
    BY <1>0, <1>1, QueuedAppend, FdFacts DEF Overflow, Queued
  <2>2. Queued(g)'
    BY <1>0, <1>1, QueuedAppend, FdFacts DEF Overflow, Queued
  <2>3. \A f : f \in on => f \in on' \/ f = g
    BY <1>1 DEF Overflow
  <2> QED
    BY <1>1, <2>1, <2>2, <2>3 DEF Overflow, ListFds
<1>2. CASE ForeignSignal
  <2>1. \A f : Queued(f) => Queued(f)'
    BY <1>0, <1>2, QueuedAppend, FdFacts DEF ForeignSignal, Queued
  <2> QED
    BY <1>2, <2>1 DEF ForeignSignal, ListFds
<1>3. CASE CallbackBegins
  BY <1>3
  DEF CallbackBegins, ThreadStart, ThreadEnd, OtherCallback, MethodEntry, ObjectAlloc,
      EnterJava, Enter, Runs, Queued, ListFds
<1>4. CASE StartThreadData \/ EndSetSpecific \/ SetupList
  BY <1>0, <1>4 DEF StartThreadData, EndSetSpecific, SetupList
<1>5. CASE SetupOpen \/ SetupFails
  <2>1. perf_state < NumEvents /\ perf_state \in Int
    BY <1>0, <1>5 DEF SetupOpen, SetupFails, TypeOK
  <2> QED
    BY <1>0, <1>5, <2>1 DEF SetupOpen, SetupFails, At
<1>6. CASE SetupStart
  BY <1>6 DEF SetupStart, Enable, ListFds
<1>7. ASSUME NEW s \in Slots, StartSlot(s) \/ EndDelete(s) \/ EndClear(s)
      PROVE  CountersInv'
  BY <1>7
  DEF StartSlot, EndDelete, EndClear, At, Runs, StartNext, EndNext, Slots, Queued, ListFds
<1>8. CASE StartBlackList \/ EndDealloc \/ EndAssertFails
  BY <1>8 DEF StartBlackList, EndDealloc, EndAssertFails, At, Runs, Queued, ListFds
<1>9. CASE MethodEntryClear \/ MethodEntryFill \/ MethodEntryPush
  BY <1>9
  DEF MethodEntryClear, MethodEntryFill, MethodEntryPush, At, Runs, Queued, ListFds
<1>10. CASE ObjectAllocLookup \/ ObjectAllocNamed \/ ObjectAllocWrite
  BY <1>10
  DEF ObjectAllocLookup, ObjectAllocNamed, ObjectAllocWrite, At, Runs, Queued, ListFds
<1>11. CASE Unblock
  BY <1>11 DEF Unblock, Runs, Queued, ListFds
<1>12. CASE HandlerDrop \/ HandlerNoList
  <2>1. \A f : Queued(f) /\ f # Head(pending) => Queued(f)'
    <3>1. pending # <<>> /\ pending' = Tail(pending)
      BY <1>12 DEF HandlerDrop, HandlerNoList, Deliver
    <3>2. ASSUME NEW f, Queued(f), f # Head(pending)
          PROVE  \E i \in 1..Len(Tail(pending)) : Tail(pending)[i] = f
      BY <1>0, <3>1, <3>2, QueuedTail DEF Queued
    <3> QED
      BY <3>1, <3>2 DEF Queued
  <2>2. \A f \in Fd : f = Head(pending) => f \in on' \/ f \in lost'
    BY <1>12 DEF HandlerDrop, HandlerNoList, Deliver, Ignored
  <2>3. on' = on /\ lost \subseteq lost' /\ hpc' = hpc
    BY <1>12 DEF HandlerDrop, HandlerNoList, Deliver, Ignored
  <2>4. ListFds(perf_state)' = ListFds(perf_state) /\ ListFds(perf_state) \subseteq Fd
    BY <1>12, FdFacts DEF HandlerDrop, HandlerNoList, Deliver, ListFds
  <2>5. SetUp' = SetUp
    BY <1>12 DEF HandlerDrop, HandlerNoList, Deliver
  <2> QED
    BY <2>1, <2>2, <2>3, <2>4, <2>5
<1>13. CASE HandlerEnter
  BY <1>13 DEF HandlerEnter
<1>14. CASE HandlerFault
  BY <1>14 DEF HandlerFault, Queued, ListFds
<1>15. CASE HandlerStop \/ HandlerForeign \/ HandlerUnknown \/ HandlerKnown
              \/ HandlerDrain \/ HandlerRestart
  BY <1>15
  DEF HandlerStop, HandlerForeign, HandlerUnknown, HandlerKnown, HandlerDrain,
      HandlerRestart
<1>16. CASE HandlerStartAll
  BY <1>16 DEF HandlerStartAll, Enable, ListFds
<1>17. CASE HandlerExit
  BY <1>17 DEF HandlerExit, HandlerAt, Queued, ListFds
<1> QED
  BY <1>1, <1>2, <1>3, <1>4, <1>5, <1>6, <1>7, <1>8, <1>9, <1>10, <1>11, <1>12,
     <1>13, <1>14, <1>15, <1>16, <1>17
  DEF Next, Kernel, CallbackStep, HandlerBegins, HandlerStep

-----------------------------------------------------------------------------
(* The theorems.                                                            *)

IInv == TypeOK /\ GuardInv /\ DataInv /\ CountersInv

(* The inductive invariant holds of every reachable state.                  *)
THEOREM InductiveInvariant == Spec => []IInv
<1>1. Init => IInv
  BY TypeInit, GuardInit, DataInit, CountersInit DEF IInv
<1>2. TypeOK /\ IInv /\ TypeOK' /\ [Next]_vars => IInv'
  <2> SUFFICES ASSUME IInv, TypeOK', [Next]_vars
               PROVE  IInv'
    BY DEF IInv
  <2>1. CASE Next
    BY <2>1, GuardNext, DataNext, CountersNext DEF IInv
  <2>2. CASE UNCHANGED vars
    BY <2>2
    DEF vars, callbackVars, tdVars, handlerVars, kernelVars, IInv, TypeOK, GuardInv,
        GuardHeld, HandlerHasList, FreedOnlyInDealloc, GuardStuckOnlyWithoutCounters,
        Guarded, DataInv, FreedOnlyInTearDown, PathOfThisAttachment,
        SamplesOfThisAttachment, CountersInv, SetUp, Queued, ListFds
  <2> QED
    BY <2>1, <2>2
<1> QED
  BY <1>1, <1>2, TypeCorrect, PTL DEF Spec

(* A handler that got past check #0 interrupted application code or one of  *)
(* the three places where the guard is lost, and no other agent code.       *)
THEOREM GuardWindowHolds == Spec => []GuardWindow
<1>1. IInv => GuardWindow
  BY StepsFacts
  DEF IInv, TypeOK, GuardInv, GuardHeld, Guarded, GuardWindow, Callbacks, Slots
<1> QED
  BY <1>1, InductiveInvariant, PTL

(* The handler never reads a half-updated call path or a deleted stream.    *)
THEOREM SampleReadsStable == Spec => []SampleReadsStableState
<1>1. IInv => SampleReadsStableState
  BY DEF IInv, GuardInv, GuardHeld, Guarded, DataInv, FreedOnlyInTearDown,
         PathOfThisAttachment, SampleReadsStableState, Slots
<1> QED
  BY <1>1, InductiveInvariant, PTL

(* No sample is attributed to a call path of an earlier attachment.         *)
THEOREM SamplesBelongToAttachment == Spec => []SamplesOfThisAttachment
<1>1. IInv => SamplesOfThisAttachment
  BY DEF IInv, DataInv
<1> QED
  BY <1>1, InductiveInvariant, PTL

(* No counter of a set-up thread is off without a queued or dropped signal. *)
THEOREM CountersNeverStopSilently == Spec => []NoSilentStop
<1>1. IInv => NoSilentStop
  BY DEF IInv, CountersInv, NoSilentStop
<1> QED
  BY <1>1, InductiveInvariant, PTL

(* The guard is left set in application code only on a thread without       *)
(* counters.                                                                *)
THEOREM StuckGuardIsHarmless == Spec => []GuardStuckOnlyWithoutCounters
<1>1. IInv => GuardStuckOnlyWithoutCounters
  BY DEF IInv, GuardInv
<1> QED
  BY <1>1, InductiveInvariant, PTL
=============================================================================
