----------------------------- MODULE AgentInit -----------------------------
(***************************************************************************)
(* How the agent is set up (JVM::init, Profiler::init and                  *)
(* PerfManager::processInit) on the thread that attaches it, while threads *)
(* of the application start and end; and what a second attach does to the  *)
(* state of the first, which is all static.                                *)
(*                                                                         *)
(* The event list is a sequence of specifications "client::name@rate".     *)
(* What matters of one is its client, whether "@" is there, the rate (0 if *)
(* not there), and whether the texts around "@" are numbers: the rate and  *)
(* the digit of the precise level.  A client name that is built by         *)
(* appending is the sequence of the names appended.  Thread data belongs   *)
(* to a pthread key and is found only under the current one.  The counters *)
(* of a thread are the events its setupEvents opened; of the handler there *)
(* is only what it reads of the tables filled here: the metric id of its   *)
(* event, the place of the metric, and the threshold there.  The rest of   *)
(* the handler is in AgentThread.                                          *)
(*                                                                         *)
(* The metric table is a vector that the handlers read while it grows, and *)
(* nothing synchronises the two.  An element that still fits is there from *)
(* one step on; when the vector moves to a larger storage, a lookup during *)
(* the move finds the place or nothing, and every place found before lies  *)
(* in storage that has been freed.                                         *)
(***************************************************************************)
EXTENDS Integers, Sequences

CONSTANTS
    Threads,                 \* threads that start after the first attach
    Specs,                   \* event specifications: [client, rated, rate, digit]
    Word,                    \* 2^32, the number of values of uint32_t
    MaxList,                 \* bound: events on one list
    MAX_NUM_EVENTS,
    NUM_WATERMARK_METRICS,
    MaxAttach                \* bound: attaches

ASSUME InitAssumption ==
    /\ MaxList \in Nat /\ MAX_NUM_EVENTS \in Nat /\ MaxAttach \in Nat
    /\ NUM_WATERMARK_METRICS \in Nat \ {0} /\ Word \in Nat \ {0}
    /\ \A s \in Specs : /\ s.rate \in Nat /\ s.rated \in BOOLEAN /\ s.digit \in BOOLEAN
                        /\ ~s.rated => s.rate = 0

VARIABLES
    pc,                  \* where JVM::init stands
    event_list,          \* _argument->_perf_event_list
    filled,              \* events that process_event_list has filled in
    attached,            \* completed and running attaches
    key,                 \* ThreadData::key; 0 before the first pthread_key_create
    td,                  \* per thread, its data (of the key it was made under)
    starting,            \* per thread, the event setupEvents opens next
    num_events,
    event_info,
    metric_info_list,
    capacity,            \* elements the storage of metric_info_list has room for
    storage,             \* how often metric_info_list has moved
    registered,          \* metrics registered for the event that is filled in
    pebs_metric_id,      \* the watermark metrics set so far; curWatermarkId is the length
    clientName,
    notified,            \* callbacks are set and enabled
    sample,              \* per thread, what its handler has looked up
    aborted              \* an assertion failed, an exception was not caught or null was read

attachVars == <<pc, event_list, filled, attached>>
metricVars == <<metric_info_list, capacity, storage, registered>>
eventVars == <<num_events, event_info, metricVars, pebs_metric_id>>
threadVars == <<td, starting, sample>>
vars == <<attachVars, eventVars, threadVars, key, clientName, notified, aborted>>

-----------------------------------------------------------------------------
Lists == UNION {[1..n -> Specs] : n \in 0..MaxList}

UpperName == [Generic |-> "GENERIC", Heap |-> "HEAP"]

\* boost::to_upper of the text in front of "::".  Without "::" that text is the whole
\* specification, which is the name of no client.
Upper(c) == IF c \in DOMAIN UpperName THEN UpperName[c] ELSE "OTHER"

NoTd == [key |-> 0, streams |-> FALSE, perf |-> <<>>, setup |-> FALSE]
FreshTd == [NoTd EXCEPT !.key = key]

\* thread_data_get: data made under another key is not found, and new data is made.
TD(t) == IF key # 0 /\ td[t].key = key THEN td[t] ELSE FreshTd

Blank == [threshold |-> 0, metric_id1 |-> 0]

Null == -1
NoSample == [at |-> "none", event |-> 0, metric |-> Null, storage |-> 0]
AtEvent(e) == [at |-> "event", event |-> e, metric |-> Null, storage |-> 0]

Init ==
    /\ pc = "idle" /\ event_list = <<>> /\ filled = 0 /\ attached = 0
    /\ key = 0
    /\ td = [t \in Threads |-> NoTd]
    /\ starting = [t \in Threads |-> -1]
    /\ num_events = 0
    /\ event_info = [i \in 0..(MAX_NUM_EVENTS - 1) |-> Blank]
    /\ metric_info_list = <<>> /\ capacity = 0 /\ storage = 0 /\ registered = 0
    /\ pebs_metric_id = <<>>
    /\ sample = [t \in Threads |-> NoSample]
    /\ clientName = <<>>
    /\ notified = FALSE /\ aborted = FALSE

At(p) == pc = p /\ ~aborted

\* An assertion over a call that may fail: the program goes on to p or aborts.
GoOrAbort(p) ==
    \/ pc' = p /\ UNCHANGED aborted
    \/ aborted' = TRUE /\ UNCHANGED pc

-----------------------------------------------------------------------------
(* JVM::init. *)

\* Agent_OnLoad and Agent_OnAttach: parseArgs, GetEnv, which may fail, and the assertion on
\* the location format.
Attach(list) ==
    /\ At("idle") /\ attached < MaxAttach
    /\ event_list' = list
    /\ attached' = attached + 1
    /\ GoOrAbort("key") \/ UNCHANGED <<pc, aborted>>
    /\ UNCHANGED <<filled, eventVars, threadVars, key, clientName, notified>>

\* thread_data_init: a new key, also when there is one.
ThreadDataInit ==
    /\ At("key")
    /\ GoOrAbort("pfm")
    /\ key' = IF aborted' THEN key ELSE key + 1
    /\ UNCHANGED <<event_list, filled, attached, eventVars, threadVars, clientName, notified>>

\* processInit up to the loop of process_event_list.
ProcessInit ==
    /\ At("pfm")
    /\ num_events' = Len(event_list)
    /\ filled' = 0
    /\ IF Len(event_list) <= MAX_NUM_EVENTS THEN GoOrAbort("events")
       ELSE aborted' = TRUE /\ UNCHANGED pc
    /\ UNCHANGED <<event_list, attached, event_info, metricVars, pebs_metric_id,
                   threadVars, key, clientName, notified>>

(* Variant for validation: the rate of an earlier list stays. *)
ThresholdKept(i) == event_info[i].threshold

\* std::stoull, stored in 32 bits; 0 without "@".
Threshold(i) == event_list[i + 1].rate % Word

\* A round of the loop up to the metrics: std::stoull throws when a text is no number.
ParseEvent ==
    /\ At("events") /\ filled < num_events
    /\ event_info' = [event_info EXCEPT ![filled].threshold = Threshold(filled)]
    /\ LET spec == event_list[filled + 1] IN
       IF spec.rated /\ ~spec.digit
       THEN aborted' = TRUE /\ UNCHANGED pc
       ELSE pc' = "metrics" /\ UNCHANGED aborted
    /\ registered' = 0
    /\ UNCHANGED <<event_list, filled, attached, num_events, metric_info_list, capacity, storage,
                   pebs_metric_id, threadVars, key, clientName, notified>>

MetricInfo(i) == [client |-> Upper(event_list[i + 1].client), rate |-> event_info[i].threshold]

(* Variant for validation: the id is the size of the vector, not that less one. *)
PushBackIdIsSize ==
    /\ metric_info_list' = Append(metric_info_list, MetricInfo(filled))
    /\ registered' = registered + 1
    /\ event_info' = IF registered # 0 THEN event_info
                     ELSE [event_info EXCEPT ![filled].metric_id1 = Len(metric_info_list')]
    /\ pc' = IF registered = 2 THEN "slot" ELSE "metrics"

\* registerMetric, the first of the three times for the id of the event: an element is put
\* behind the others, in storage that has room for it.
PushBack ==
    /\ metric_info_list' = Append(metric_info_list, MetricInfo(filled))
    /\ registered' = registered + 1
    /\ event_info' = IF registered # 0 THEN event_info
                     ELSE [event_info EXCEPT ![filled].metric_id1 = Len(metric_info_list)]
    /\ pc' = IF registered = 2 THEN "slot" ELSE "metrics"

RegisterMetric ==
    /\ At("metrics") /\ Len(metric_info_list) < capacity
    /\ PushBack
    /\ UNCHANGED <<event_list, filled, attached, num_events, capacity, storage, pebs_metric_id,
                   threadVars, key, clientName, notified, aborted>>

\* registerMetric without room: the vector moves to twice the storage.
BeginMove ==
    /\ At("metrics") /\ Len(metric_info_list) >= capacity
    /\ pc' = "moving"
    /\ UNCHANGED <<event_list, filled, attached, eventVars, threadVars, key, clientName,
                   notified, aborted>>

EndMove ==
    /\ At("moving")
    /\ PushBack
    /\ capacity' = IF capacity = 0 THEN 1 ELSE 2 * capacity
    /\ storage' = storage + 1
    /\ UNCHANGED <<event_list, filled, attached, num_events, pebs_metric_id,
                   threadVars, key, clientName, notified, aborted>>

(* Variant for validation: the last slot is not given out. *)
SlotLeftOneLess == Len(pebs_metric_id) + 1 # NUM_WATERMARK_METRICS

SlotLeft == Len(pebs_metric_id) # NUM_WATERMARK_METRICS

\* SetupWatermarkMetric, the end of the round.
SetupWatermarkMetric ==
    /\ At("slot")
    /\ IF SlotLeft
       THEN /\ pebs_metric_id' = Append(pebs_metric_id, event_info[filled].metric_id1)
            /\ filled' = filled + 1
            /\ pc' = "events"
            /\ UNCHANGED aborted
       ELSE aborted' = TRUE /\ UNCHANGED <<pebs_metric_id, filled, pc>>
    /\ UNCHANGED <<event_list, attached, num_events, event_info, metricVars, threadVars, key,
                   clientName, notified>>

\* The end of processInit, with installSignal.
InstallSignal ==
    /\ At("events") /\ filled = num_events
    /\ GoOrAbort("client")
    /\ UNCHANGED <<event_list, filled, attached, eventVars, threadVars, key, clientName, notified>>

Metric(id) == metric_info_list[id + 1]

\* The client of the first watermark metric.
GetClientName == Metric(pebs_metric_id[1]).client

\* The end of Profiler::init: the name is appended to what clientName holds.
SetClientName ==
    /\ At("client")
    /\ IF pebs_metric_id = <<>> THEN aborted' = TRUE /\ UNCHANGED <<pc, clientName>>
       ELSE /\ clientName' = Append(clientName, GetClientName)
            /\ pc' = "notify"
            /\ UNCHANGED aborted
    /\ UNCHANGED <<event_list, filled, attached, eventVars, threadVars, key, notified>>

\* Capabilities, callbacks and notifications; their errors are only printed.
EnableEvents ==
    /\ At("notify")
    /\ notified' = TRUE
    /\ pc' = "idle"
    /\ UNCHANGED <<event_list, filled, attached, eventVars, threadVars, key, clientName, aborted>>

-----------------------------------------------------------------------------
(* Threads of the application. *)

\* A thread goes on when its handler has returned.
Undisturbed(t) == sample[t].at = "none"

\* callbackThreadStart up to setupEvents.
ThreadStart(t) ==
    /\ notified /\ ~aborted
    /\ starting[t] = -1 /\ ~td[t].setup /\ Undisturbed(t)
    /\ td' = [td EXCEPT ![t] = [FreshTd EXCEPT !.streams = TRUE, !.setup = TRUE]]
    /\ starting' = [starting EXCEPT ![t] = 0]
    /\ UNCHANGED <<attachVars, eventVars, sample, key, clientName, notified, aborted>>

\* One round of setupEvents: the counter is opened with the period event_info says now.
\* The list belongs to the thread data the call found at its start.
OpenEvent(t) ==
    /\ ~aborted /\ starting[t] \in 0..(num_events - 1)
    /\ td' = [td EXCEPT ![t].perf = Append(@, [event |-> starting[t],
                                              period |-> event_info[starting[t]].threshold])]
    /\ starting' = [starting EXCEPT ![t] = @ + 1]
    /\ UNCHANGED <<attachVars, eventVars, sample, key, clientName, notified, aborted>>

ThreadStarted(t) ==
    /\ ~aborted /\ starting[t] >= num_events
    /\ starting' = [starting EXCEPT ![t] = -1]
    /\ UNCHANGED <<attachVars, eventVars, td, sample, key, clientName, notified, aborted>>

(* Variant for validation: the exception for GENERIC is missing. *)
KeepsPerfStateNotGeneric == clientName \in {<<"HEAP">>, <<"ALLOCTIMES">>}

\* The clients whose counters thread_data_dealloc lets be.
KeepsPerfState == clientName \in {<<"GENERIC">>, <<"HEAP">>, <<"ALLOCTIMES">>}

\* callbackThreadEnd: thread_data_dealloc asserts that perf_state was cleared, for the
\* data it finds under the current key.
ThreadEnd(t) ==
    /\ ~aborted /\ starting[t] = -1 /\ td[t].setup /\ Undisturbed(t)
    /\ aborted' = (~KeepsPerfState /\ TD(t).setup)
    /\ td' = [td EXCEPT ![t] = NoTd]
    /\ UNCHANGED <<attachVars, eventVars, starting, sample, key, clientName, notified>>

-----------------------------------------------------------------------------
(* The handler on thread t, which setupEvents enables at its end. *)

Counters(t) == {td[t].perf[i] : i \in 1..Len(td[t].perf)}

HandlerVars == <<attachVars, eventVars, td, starting, key, clientName, notified>>

\* The handler finds its event on the list that the thread has under the current key.
Signal(t) ==
    /\ ~aborted /\ starting[t] = -1 /\ Undisturbed(t) /\ td[t].key = key
    /\ \E c \in Counters(t) :
          sample' = [sample EXCEPT ![t] = AtEvent(c.event)]
    /\ UNCHANGED <<HandlerVars, aborted>>

\* What a lookup finds.
getMetricInfo(id) ==
    IF pc = "moving" THEN {id, Null}
    ELSE IF id < Len(metric_info_list) THEN {id} ELSE {Null}

\* OnSample up to the place of the metric.
FindMetric(t) ==
    /\ ~aborted /\ sample[t].at = "event"
    /\ \E found \in getMetricInfo(event_info[sample[t].event].metric_id1) :
          sample' = [sample EXCEPT ![t] = [at |-> "metric", event |-> sample[t].event,
                                           metric |-> found, storage |-> storage]]
    /\ UNCHANGED <<HandlerVars, aborted>>

\* OnSample reads the threshold there, which GenericAnalysis does not use; then the handler
\* goes on to the next sample.
ReadThreshold(t) ==
    /\ ~aborted /\ sample[t].at = "metric"
    /\ aborted' = (sample[t].metric = Null)
    /\ sample' = [sample EXCEPT ![t] = AtEvent(sample[t].event)]
    /\ UNCHANGED HandlerVars

HandlerReturns(t) ==
    /\ ~aborted /\ sample[t].at = "event"
    /\ sample' = [sample EXCEPT ![t] = NoSample]
    /\ UNCHANGED <<HandlerVars, aborted>>

-----------------------------------------------------------------------------
Next ==
    \/ \E list \in Lists : Attach(list)
    \/ ThreadDataInit \/ ProcessInit
    \/ ParseEvent \/ RegisterMetric \/ BeginMove \/ EndMove \/ SetupWatermarkMetric
    \/ InstallSignal \/ SetClientName \/ EnableEvents
    \/ \E t \in Threads :
          \/ ThreadStart(t) \/ OpenEvent(t) \/ ThreadStarted(t) \/ ThreadEnd(t)
          \/ Signal(t) \/ FindMetric(t) \/ ReadThreshold(t) \/ HandlerReturns(t)

Spec == Init /\ [][Next]_vars

-----------------------------------------------------------------------------

(* The type of every variable. *)
TypeOK ==
    /\ pc \in {"idle", "key", "pfm", "events", "metrics", "moving", "slot", "client", "notify"}
    /\ event_list \in Lists /\ filled \in 0..MaxList
    /\ attached \in 0..MaxAttach /\ key \in 0..attached
    /\ num_events \in 0..MaxList /\ registered \in 0..3
    /\ Len(pebs_metric_id) \in 0..NUM_WATERMARK_METRICS
    /\ \A t \in Threads : starting[t] \in -1..MaxList

(* OnSample dereferences what getMetricInfo(metric_id1) returns.  Unless   *)
(* the metric table moves during the lookup or after it, that is a metric, *)
(* for every counter of every thread and also while a second attach fills  *)
(* event_info anew under running handlers; and the table moves under a     *)
(* handler only in a second attach, never in a first.                      *)
SampleFindsMetric ==
    \A t \in Threads : sample[t].at = "metric" =>
        IF pc # "moving" /\ sample[t].storage = storage
        THEN sample[t].metric \in 0..(Len(metric_info_list) - 1)
        ELSE attached > 1

(* The events of a first attach are complete before any thread sees them:  *)
(* every counter was opened with the period that its event and the metric  *)
(* of its event say, the metric names the client of the event, and the     *)
(* period is the rate that was asked for if 32 bits hold it.               *)
CountersAreDescribed ==
    attached = 1 => \A t \in Threads : \A c \in Counters(t) :
        LET spec == event_list[c.event + 1]
            info == event_info[c.event]
        IN  /\ c.period = info.threshold
            /\ info.metric_id1 < Len(metric_info_list)
            /\ Metric(info.metric_id1) = [client |-> Upper(spec.client), rate |-> c.period]
            /\ spec.rate < Word => c.period = spec.rate

(* "We have a limit as to the number of events": on a first attach a       *)
(* well-formed list is refused only when it has more events than the limit *)
(* or than there are watermark slots; every shorter one is set up to its   *)
(* end.                                                                    *)
EventLimitAccepted ==
    attached = 1 /\ pc \in {"events", "metrics", "moving", "slot"} /\ aborted =>
        \/ filled = num_events                          \* installSignal failed
        \/ event_list[filled + 1].rated /\ ~event_list[filled + 1].digit
        \/ filled = NUM_WATERMARK_METRICS

(* threadEnd never closes the counters it opened; the assertion "make sure *)
(* each field is properly freed" fails at no end of a thread of a first    *)
(* attach whose first event is of a client it makes an exception for.      *)
FirstAttachThreadsEnd ==
    attached = 1 /\ notified /\ aborted =>
        Upper(event_list[1].client) \notin {"GENERIC", "HEAP", "ALLOCTIMES"}

=============================================================================
