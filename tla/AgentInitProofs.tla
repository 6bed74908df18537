--------------------------- MODULE AgentInitProofs ---------------------------
(***************************************************************************)
(* AgentInit for any threads, event lists, limits and number of attaches:  *)
(* a handler finds the metric of its counter unless the table moves under  *)
(* it, which it does not in a first attach, and what a first attach sets   *)
(* up is complete before a thread can see it.                              *)
(***************************************************************************)
EXTENDS AgentInit, SequenceTheorems, TLAPS

Clients == {"none", "GENERIC", "HEAP", "OTHER"}
EventInfo == [threshold : Nat, metric_id1 : Nat]
MetricRecord == [client : Clients, rate : Nat]
Counter == [event : 0..(MAX_NUM_EVENTS - 1), period : Nat]
ThreadData == [key : Nat, streams : BOOLEAN, perf : Seq(Counter), setup : BOOLEAN]
Lookup == [at : {"none", "event", "metric"}, event : Int, metric : Int, storage : Nat]

(* The attach is inside a round of the loop over the events.                *)
InRound == pc \in {"metrics", "moving", "slot"}

(* The types TypeOK leaves out.                                             *)
Shape ==
    /\ TypeOK
    /\ event_info \in [0..(MAX_NUM_EVENTS - 1) -> EventInfo]
    /\ metric_info_list \in Seq(MetricRecord) /\ storage \in Nat
    /\ pebs_metric_id \in Seq(Nat)
    /\ td \in [Threads -> ThreadData]
    /\ starting \in [Threads -> Int]
    /\ sample \in [Threads -> Lookup]
    /\ aborted \in BOOLEAN /\ notified \in BOOLEAN
    /\ pc = "key" => key < attached
    /\ ~aborted => num_events <= MAX_NUM_EVENTS
    /\ pc = "events" \/ InRound => num_events = Len(event_list)
    /\ InRound => filled < num_events
    /\ pc \in {"metrics", "moving"} => registered < 3
    /\ attached = 0 => pc = "idle"

(* A metric id is that of a metric, or the 0 of an event that was never     *)
(* described; id 0 is there once a thread can start.                        *)
MetricsThere ==
    /\ \A i \in 0..(MAX_NUM_EVENTS - 1) :
         event_info[i].metric_id1 = 0 \/ event_info[i].metric_id1 < Len(metric_info_list)
    /\ pc = "slot" \/ pebs_metric_id # <<>> => metric_info_list # <<>>
    /\ pc = "notify" \/ notified => pebs_metric_id # <<>>
    /\ \A t \in Threads :
         td[t].setup \/ starting[t] # -1 \/ td[t].perf # <<>> \/ sample[t].at # "none" => notified

(* What a handler has found is of this storage or an earlier one.           *)
Lookups ==
    \A t \in Threads :
        /\ sample[t].at # "none" => sample[t].event \in 0..(MAX_NUM_EVENTS - 1)
        /\ sample[t].at = "metric" => sample[t].storage <= storage

(* Event i is described as the list says, by a metric that exists.          *)
Described(i) ==
    /\ event_info[i].threshold = Threshold(i)
    /\ event_info[i].metric_id1 < Len(metric_info_list)
    /\ metric_info_list[event_info[i].metric_id1 + 1] = MetricInfo(i)

(* A first attach: the events are described in the order of the list, each  *)
(* has its watermark slot, and callbacks are enabled after the last.        *)
FirstAttach ==
    /\ attached = 0 => ~notified /\ filled = 0 /\ pebs_metric_id = <<>> /\ clientName = <<>>
    /\ attached = 1 =>
        /\ notified => pc = "idle"
        /\ (pc \in {"key", "pfm"} \/ (pc = "idle" /\ ~notified)) => filled = 0 /\ pebs_metric_id = <<>>
        /\ (InRound \/ pc \in {"events", "client", "notify"} \/ notified) => num_events = Len(event_list)
        /\ (pc \in {"client", "notify"} \/ notified) => filled = num_events
        /\ filled <= num_events /\ filled <= MAX_NUM_EVENTS
        /\ Len(pebs_metric_id) = filled
        /\ filled > 0 => pebs_metric_id[1] = event_info[0].metric_id1
        /\ \A i \in 0..(filled - 1) : Described(i)
        /\ InRound => event_info[filled].threshold = Threshold(filled)
        /\ pc = "slot" \/ (pc \in {"metrics", "moving"} /\ registered # 0) => Described(filled)
        /\ pc # "notify" /\ ~notified => clientName = <<>>
        /\ pc = "notify" \/ notified => clientName = <<Upper(event_list[1].client)>>
        /\ \A t \in Threads : \A k \in 1..Len(td[t].perf) :
             /\ td[t].perf[k].event < num_events
             /\ td[t].perf[k].period = event_info[td[t].perf[k].event].threshold

IInv == /\ Shape /\ MetricsThere /\ Lookups /\ FirstAttach
        /\ SampleFindsMetric /\ EventLimitAccepted /\ FirstAttachThreadsEnd

-----------------------------------------------------------------------------
(* What the operators give.                                                 *)

(* Every text is the name of one of the clients or of none.                 *)
LEMMA UpperIsClient == \A c : Upper(c) \in Clients
<1>1. UpperName["Generic"] = "GENERIC" /\ UpperName["Heap"] = "HEAP"
      /\ DOMAIN UpperName = {"Generic", "Heap"}
  BY DEF UpperName
<1> QED
  BY <1>1 DEF Upper, Clients

(* A number that the word holds is stored as it is.                         *)
LEMMA FitsTheWord ==
  ASSUME NEW r \in Nat, NEW w \in Nat \ {0}, r < w
  PROVE  r % w = r
OBVIOUS

(* An event list is a sequence no longer than MaxList.                      *)
LEMMA ListsAreSequences ==
  ASSUME NEW l \in Lists
  PROVE  /\ l \in Seq(Specs) /\ Len(l) \in 0..MaxList
         /\ \A i \in 1..Len(l) : l[i] \in Specs
<1>1. PICK n \in 0..MaxList : l \in [1..n -> Specs]
  BY DEF Lists
<1>2. n \in Nat /\ MaxList \in Nat
  BY InitAssumption
<1>3. l \in Seq(Specs)
  BY <1>1, <1>2, SeqDef
<1>4. Len(l) = n
  BY <1>1, <1>2, <1>3, LenProperties
<1> QED
  BY <1>1, <1>3, <1>4

(* The event that a round is about.                                         *)
LEMMA EventInRange ==
  ASSUME Shape, ~aborted, InRound \/ (pc = "events" /\ filled < num_events)
  PROVE  /\ filled \in 0..(MAX_NUM_EVENTS - 1) /\ filled \in Nat
         /\ filled + 1 \in 1..Len(event_list)
         /\ event_list[filled + 1] \in Specs
         /\ Threshold(filled) \in Nat
<1>1. /\ filled \in Nat /\ num_events \in Nat /\ num_events <= MAX_NUM_EVENTS
      /\ MAX_NUM_EVENTS \in Nat /\ num_events = Len(event_list)
      /\ event_list \in Lists /\ filled < num_events
  BY InitAssumption DEF Shape, TypeOK
<1>2. filled \in 0..(MAX_NUM_EVENTS - 1) /\ filled + 1 \in 1..Len(event_list)
  BY <1>1
<1>3. event_list[filled + 1] \in Specs
  BY <1>1, <1>2, ListsAreSequences
<1>4. event_list[filled + 1].rate \in Nat /\ Word \in Nat \ {0}
  BY <1>3, InitAssumption
<1>5. Threshold(filled) \in Nat
  BY <1>4 DEF Threshold
<1> QED
  BY <1>1, <1>2, <1>3, <1>5

(* The event is parsed.                                                     *)
LEMMA EventIsParsed ==
  ASSUME Shape, ParseEvent
  PROVE  /\ event_info' \in [0..(MAX_NUM_EVENTS - 1) -> EventInfo]
         /\ \A i \in 0..(MAX_NUM_EVENTS - 1) :
              /\ i # filled => event_info'[i] = event_info[i]
              /\ event_info'[i].metric_id1 = event_info[i].metric_id1
         /\ event_info'[filled].threshold = Threshold(filled)
<1>1. filled \in 0..(MAX_NUM_EVENTS - 1) /\ Threshold(filled) \in Nat
  BY EventInRange DEF ParseEvent, At
<1>2. event_info' = [event_info EXCEPT ![filled].threshold = Threshold(filled)]
  BY DEF ParseEvent
<1>3. event_info \in [0..(MAX_NUM_EVENTS - 1) -> EventInfo]
  BY DEF Shape
<1> QED
  BY <1>1, <1>2, <1>3 DEF EventInfo

(* A metric is registered.                                                  *)
LEMMA MetricIsPushed ==
  ASSUME Shape, ~aborted, pc \in {"metrics", "moving"}, PushBack
  PROVE  /\ filled \in 0..(MAX_NUM_EVENTS - 1)
         /\ event_info' \in [0..(MAX_NUM_EVENTS - 1) -> EventInfo]
         /\ metric_info_list' \in Seq(MetricRecord)
         /\ Len(metric_info_list) \in Nat
         /\ Len(metric_info_list') = Len(metric_info_list) + 1
         /\ metric_info_list' # <<>>
         /\ \A i \in 0..(MAX_NUM_EVENTS - 1) :
              /\ i # filled \/ registered # 0 => event_info'[i] = event_info[i]
              /\ event_info'[i].threshold = event_info[i].threshold
         /\ \A i \in 1..Len(metric_info_list) : metric_info_list'[i] = metric_info_list[i]
         /\ metric_info_list'[Len(metric_info_list) + 1] = MetricInfo(filled)
         /\ registered = 0 => event_info'[filled].metric_id1 = Len(metric_info_list)
         /\ registered' = registered + 1 /\ registered \in Nat /\ registered' \in 1..3
         /\ pc' \in {"metrics", "slot"} /\ (pc' = "metrics" => registered' < 3)
<1>1. /\ filled \in 0..(MAX_NUM_EVENTS - 1) /\ event_list[filled + 1] \in Specs
  BY EventInRange DEF InRound
<1>2. /\ event_info \in [0..(MAX_NUM_EVENTS - 1) -> EventInfo]
      /\ metric_info_list \in Seq(MetricRecord)
      /\ registered \in 0..3 /\ registered < 3
  BY DEF Shape, TypeOK
<1>3. event_info[filled].threshold \in Nat
  BY <1>1, <1>2 DEF EventInfo
<1>4. MetricInfo(filled) \in MetricRecord
  BY <1>3, UpperIsClient DEF MetricInfo, MetricRecord
<1>5. metric_info_list' = Append(metric_info_list, MetricInfo(filled))
  BY DEF PushBack
<1>6. /\ metric_info_list' \in Seq(MetricRecord)
      /\ Len(metric_info_list) \in Nat
      /\ Len(metric_info_list') = Len(metric_info_list) + 1
      /\ metric_info_list' # <<>>
      /\ \A i \in 1..Len(metric_info_list) : metric_info_list'[i] = metric_info_list[i]
      /\ metric_info_list'[Len(metric_info_list) + 1] = MetricInfo(filled)
  BY <1>2, <1>4, <1>5, AppendProperties, LenProperties
<1>7. /\ registered # 0 => event_info' = event_info
      /\ registered = 0 => event_info' = [event_info EXCEPT ![filled].metric_id1 = Len(metric_info_list)]
  BY DEF PushBack
<1>8. /\ event_info' \in [0..(MAX_NUM_EVENTS - 1) -> EventInfo]
      /\ \A i \in 0..(MAX_NUM_EVENTS - 1) :
           /\ i # filled \/ registered # 0 => event_info'[i] = event_info[i]
           /\ event_info'[i].threshold = event_info[i].threshold
      /\ registered = 0 => event_info'[filled].metric_id1 = Len(metric_info_list)
  BY <1>1, <1>2, <1>6, <1>7 DEF EventInfo
<1>9. /\ registered' = registered + 1 /\ registered' \in 1..3
      /\ pc' \in {"metrics", "slot"} /\ (pc' = "metrics" => registered' < 3)
  BY <1>2 DEF PushBack
<1> QED
  BY <1>1, <1>2, <1>6, <1>8, <1>9

(* A round of the loop: the watermark slot, if one is left.                 *)
LEMMA SlotIsTaken ==
  ASSUME Shape, NEW n \in Nat, pebs_metric_id' = Append(pebs_metric_id, n)
  PROVE  /\ pebs_metric_id' \in Seq(Nat)
         /\ Len(pebs_metric_id') = Len(pebs_metric_id) + 1
         /\ Len(pebs_metric_id) \in Nat
         /\ pebs_metric_id' # <<>>
         /\ pebs_metric_id'[1] = IF pebs_metric_id = <<>> THEN n ELSE pebs_metric_id[1]
<1>1. pebs_metric_id \in Seq(Nat)
  BY DEF Shape
<1>2. Len(pebs_metric_id) \in Nat
  BY <1>1, LenProperties
<1>3. /\ pebs_metric_id' \in Seq(Nat)
      /\ Len(pebs_metric_id') = Len(pebs_metric_id) + 1
      /\ pebs_metric_id' # <<>>
      /\ \A i \in 1..Len(pebs_metric_id) : pebs_metric_id'[i] = pebs_metric_id[i]
      /\ pebs_metric_id'[Len(pebs_metric_id) + 1] = n
  BY <1>1, AppendProperties
<1>4. pebs_metric_id = <<>> => Len(pebs_metric_id) = 0
  OBVIOUS
<1>5. pebs_metric_id # <<>> => Len(pebs_metric_id) > 0
  BY <1>1, EmptySeq
<1> QED
  BY <1>2, <1>3, <1>4, <1>5

-----------------------------------------------------------------------------
(* Types. *)

LEMMA InitHolds ==
  ASSUME Init
  PROVE  IInv
<1>1. Blank \in EventInfo /\ Blank.metric_id1 = 0
  BY DEF Blank, EventInfo
<1>2. <<>> \in Seq(Counter) /\ <<>> \in Seq(MetricRecord) /\ <<>> \in Seq(Nat)
  BY EmptySeq
<1>3. NoTd \in ThreadData /\ ~NoTd.setup /\ NoTd.perf = <<>>
  BY <1>2 DEF NoTd, ThreadData
<1>4. <<>> \in Lists
  <2>1. 0 \in 0..MaxList
    BY InitAssumption
  <2>2. <<>> \in [1..0 -> Specs]
    OBVIOUS
  <2> QED
    BY <2>1, <2>2 DEF Lists
<1>5. Shape
  <2>1. TypeOK
    BY <1>4, InitAssumption DEF Init, TypeOK
  <2>2. event_info \in [0..(MAX_NUM_EVENTS - 1) -> EventInfo] /\ td \in [Threads -> ThreadData]
    BY <1>1, <1>3 DEF Init
  <2>3. starting \in [Threads -> Int] /\ sample \in [Threads -> Lookup]
    BY DEF Init, NoSample, Null, Lookup
  <2>4. /\ metric_info_list = <<>> /\ storage = 0 /\ pebs_metric_id = <<>> /\ pc = "idle" /\ num_events = 0
        /\ aborted = FALSE /\ notified = FALSE /\ 0 <= MAX_NUM_EVENTS
    BY InitAssumption DEF Init
  <2> QED
    BY <1>2, <2>1, <2>2, <2>3, <2>4 DEF Shape, InRound
<1>6. \A t \in Threads : sample[t].at = "none"
  BY DEF Init, NoSample
<1>7. MetricsThere
  BY <1>1, <1>3, <1>6 DEF Init, MetricsThere
<1>8. FirstAttach
  BY DEF Init, FirstAttach, InRound
<1> QED
  BY <1>5, <1>6, <1>7, <1>8
     DEF Init, IInv, Lookups, SampleFindsMetric, EventLimitAccepted, FirstAttachThreadsEnd

LEMMA RoundShape ==
  ASSUME Shape,
         ParseEvent \/ RegisterMetric \/ BeginMove \/ EndMove \/ SetupWatermarkMetric
  PROVE  Shape'
<1>1. /\ ~aborted /\ attached # 0 /\ (InRound \/ (pc = "events" /\ filled < num_events))
      /\ UNCHANGED <<event_list, attached, num_events, td, starting, sample, key, clientName, notified>>
  BY DEF ParseEvent, RegisterMetric, BeginMove, EndMove, SetupWatermarkMetric, At, InRound,
         threadVars, eventVars, metricVars, Shape
<1>2. num_events = Len(event_list) /\ num_events <= MAX_NUM_EVENTS
  BY <1>1 DEF Shape
<1>3. CASE ParseEvent
  <2>1. /\ UNCHANGED <<filled, metric_info_list, storage, pebs_metric_id>>
        /\ registered' = 0 /\ pc' \in {"events", "metrics"} /\ filled < num_events
        /\ aborted' \in BOOLEAN
    BY <1>3 DEF ParseEvent, At, Shape
  <2>2. event_info' \in [0..(MAX_NUM_EVENTS - 1) -> EventInfo]
    BY <1>3, EventIsParsed
  <2> QED
    BY <1>1, <1>2, <2>1, <2>2 DEF Shape, TypeOK, InRound
<1>4. CASE RegisterMetric \/ EndMove
  <2>1. /\ UNCHANGED <<filled, pebs_metric_id, aborted>> /\ PushBack
        /\ pc \in {"metrics", "moving"}
        /\ storage' = storage \/ storage' = storage + 1
    BY <1>4 DEF RegisterMetric, EndMove, At
  <2>2. /\ event_info' \in [0..(MAX_NUM_EVENTS - 1) -> EventInfo]
        /\ metric_info_list' \in Seq(MetricRecord)
        /\ registered' \in 0..3 /\ pc' \in {"metrics", "slot"}
        /\ pc' = "metrics" => registered' < 3
    BY <1>1, <2>1, MetricIsPushed
  <2>3. InRound /\ filled < num_events
    BY <2>1 DEF Shape, InRound
  <2> QED
    BY <1>1, <1>2, <2>1, <2>2, <2>3 DEF Shape, TypeOK, InRound
<1>5. CASE BeginMove
  BY <1>1, <1>2, <1>5 DEF BeginMove, At, eventVars, metricVars, threadVars, Shape, TypeOK, InRound
<1>6. CASE SetupWatermarkMetric
  <2>1. /\ UNCHANGED <<event_info, metric_info_list, storage, registered>>
        /\ pc = "slot" /\ filled < num_events
    BY <1>6 DEF SetupWatermarkMetric, At, metricVars, Shape, InRound
  <2>2. filled \in 0..(MAX_NUM_EVENTS - 1) /\ event_info[filled].metric_id1 \in Nat
    BY <1>1, EventInRange DEF Shape, EventInfo
  <2>3. CASE SlotLeft
    <3>1. /\ pebs_metric_id' = Append(pebs_metric_id, event_info[filled].metric_id1)
          /\ filled' = filled + 1 /\ pc' = "events" /\ aborted' = aborted
      BY <1>6, <2>3 DEF SetupWatermarkMetric
    <3>2. pebs_metric_id' \in Seq(Nat) /\ Len(pebs_metric_id') = Len(pebs_metric_id) + 1
      BY <2>2, <3>1, SlotIsTaken
    <3>3. filled' \in 0..MaxList /\ Len(pebs_metric_id') \in 0..NUM_WATERMARK_METRICS
      BY <2>1, <2>3, <3>1, <3>2, InitAssumption DEF SlotLeft, Shape, TypeOK
    <3> QED
      BY <1>1, <1>2, <2>1, <3>1, <3>2, <3>3 DEF Shape, TypeOK, InRound
  <2>4. CASE ~SlotLeft
    <3>1. aborted' = TRUE /\ UNCHANGED <<pebs_metric_id, filled, pc>>
      BY <1>6, <2>4 DEF SetupWatermarkMetric
    <3> QED
      BY <1>1, <1>2, <2>1, <3>1 DEF Shape, TypeOK, InRound
  <2> QED
    BY <2>3, <2>4
<1> QED
  BY <1>3, <1>4, <1>5, <1>6

LEMMA AttachShape ==
  ASSUME Shape,
         \/ \E list \in Lists : Attach(list)
         \/ ThreadDataInit \/ ProcessInit \/ InstallSignal \/ SetClientName \/ EnableEvents
  PROVE  Shape'
<1>1. ASSUME NEW list \in Lists, Attach(list) PROVE Shape'
  <2>1. /\ pc = "idle" /\ attached < MaxAttach /\ ~aborted
        /\ event_list' = list /\ attached' = attached + 1
        /\ UNCHANGED <<filled, num_events, event_info, metric_info_list, storage, registered,
                       pebs_metric_id, td, starting, sample, key, notified>>
    BY <1>1 DEF Attach, At, eventVars, metricVars, threadVars
  <2>2. pc' \in {"idle", "key"} /\ aborted' \in BOOLEAN
    BY <1>1 DEF Attach, At, GoOrAbort, Shape
  <2>3. attached \in 0..MaxAttach /\ MaxAttach \in Nat /\ key \in 0..attached
    BY InitAssumption DEF Shape, TypeOK
  <2>4. attached' \in 0..MaxAttach /\ key' \in 0..attached' /\ key' < attached' /\ attached' # 0
    BY <2>1, <2>3
  <2>5. TypeOK'
    BY <2>1, <2>2, <2>4 DEF Shape, TypeOK
  <2> QED
    BY <2>1, <2>2, <2>4, <2>5 DEF Shape, InRound
<1>2. CASE ThreadDataInit
  <2>1. /\ pc = "key" /\ pc' \in {"key", "pfm"} /\ aborted' \in BOOLEAN /\ ~aborted
        /\ pc' = "key" => aborted'
        /\ key' = IF aborted' THEN key ELSE key + 1
        /\ UNCHANGED <<event_list, filled, attached, num_events, event_info, metric_info_list,
                       storage, registered, pebs_metric_id, td, starting, sample, notified>>
    BY <1>2 DEF ThreadDataInit, At, GoOrAbort, eventVars, metricVars, threadVars, Shape
  <2>2. key \in 0..attached /\ key < attached /\ attached \in Nat
    BY <2>1, InitAssumption DEF Shape, TypeOK
  <2>3. key' \in 0..attached /\ (pc' = "key" => key' < attached)
    BY <2>1, <2>2
  <2>4. TypeOK'
    BY <2>1, <2>3 DEF Shape, TypeOK
  <2> QED
    BY <2>1, <2>3, <2>4 DEF Shape, InRound
<1>3. CASE ProcessInit
  <2>1. Len(event_list) \in 0..MaxList
    BY ListsAreSequences DEF Shape, TypeOK
  <2>2. /\ pc = "pfm" /\ num_events' = Len(event_list) /\ filled' = 0
        /\ UNCHANGED <<event_list, attached, event_info, metric_info_list, storage, registered,
                       pebs_metric_id, td, starting, sample, key, notified>>
    BY <1>3 DEF ProcessInit, At, metricVars, threadVars
  <2>3. /\ pc' \in {"pfm", "events"} /\ aborted' \in BOOLEAN
        /\ ~aborted' => Len(event_list) <= MAX_NUM_EVENTS
    BY <1>3 DEF ProcessInit, At, GoOrAbort, Shape
  <2>4. TypeOK'
    BY <2>1, <2>2, <2>3, InitAssumption DEF Shape, TypeOK
  <2> QED
    BY <2>1, <2>2, <2>3, <2>4 DEF Shape, InRound
<1>4. CASE InstallSignal
  BY <1>4 DEF InstallSignal, At, GoOrAbort, eventVars, metricVars, threadVars, Shape, TypeOK, InRound
<1>5. CASE SetClientName
  BY <1>5 DEF SetClientName, At, eventVars, metricVars, threadVars, Shape, TypeOK, InRound
<1>6. CASE EnableEvents
  BY <1>6 DEF EnableEvents, At, eventVars, metricVars, threadVars, Shape, TypeOK, InRound
<1> QED
  BY <1>1, <1>2, <1>3, <1>4, <1>5, <1>6

(* A thread's data before and after it opens a counter.                     *)
LEMMA FreshData ==
  ASSUME Shape
  PROVE  LET d == [FreshTd EXCEPT !.streams = TRUE, !.setup = TRUE]
         IN d \in ThreadData /\ d.perf = <<>> /\ d.setup
<1>1. <<>> \in Seq(Counter)
  BY EmptySeq
<1>2. key \in Nat
  BY InitAssumption DEF Shape, TypeOK
<1> QED
  BY <1>1, <1>2 DEF FreshTd, NoTd, ThreadData

LEMMA CounterIsOpened ==
  ASSUME Shape, NEW t \in Threads, OpenEvent(t)
  PROVE  /\ td' \in [Threads -> ThreadData]
         /\ \A u \in Threads : u # t => td'[u] = td[u]
         /\ td'[t].setup = td[t].setup
         /\ Len(td'[t].perf) = Len(td[t].perf) + 1
         /\ Len(td[t].perf) \in Nat
         /\ \A k \in 1..Len(td[t].perf) : td'[t].perf[k] = td[t].perf[k]
         /\ td'[t].perf[Len(td[t].perf) + 1].event = starting[t]
         /\ td'[t].perf[Len(td[t].perf) + 1].period = event_info[starting[t]].threshold
         /\ starting[t] \in 0..(MAX_NUM_EVENTS - 1)
<1> DEFINE c == [event |-> starting[t], period |-> event_info[starting[t]].threshold]
           s == td[t].perf
<1>1. starting[t] \in 0..(num_events - 1) /\ num_events <= MAX_NUM_EVENTS
      /\ num_events \in Nat /\ MAX_NUM_EVENTS \in Nat
  BY InitAssumption DEF OpenEvent, Shape, TypeOK
<1>2. starting[t] \in 0..(MAX_NUM_EVENTS - 1)
  BY <1>1
<1>3. c \in Counter
  BY <1>2 DEF Counter, EventInfo, Shape
<1>4. s \in Seq(Counter) /\ td \in [Threads -> ThreadData]
  BY DEF Shape, ThreadData
<1>5. td' = [td EXCEPT ![t].perf = Append(s, c)]
  BY DEF OpenEvent
<1>6. c.event = starting[t] /\ c.period = event_info[starting[t]].threshold
  OBVIOUS
<1> HIDE DEF c, s
<1>7. /\ Append(s, c) \in Seq(Counter)
      /\ Len(Append(s, c)) = Len(s) + 1
      /\ \A i \in 1..Len(s) : Append(s, c)[i] = s[i]
      /\ Append(s, c)[Len(s) + 1] = c
      /\ Len(s) \in Nat
  BY <1>3, <1>4, AppendProperties, LenProperties
<1>8. /\ td' \in [Threads -> ThreadData]
      /\ \A u \in Threads : u # t => td'[u] = td[u]
      /\ td'[t].setup = td[t].setup
      /\ td'[t].perf = Append(s, c)
  BY <1>4, <1>5, <1>7 DEF ThreadData
<1> QED
  BY <1>2, <1>6, <1>7, <1>8 DEF s

LEMMA ThreadShape ==
  ASSUME Shape, NEW t \in Threads,
         ThreadStart(t) \/ OpenEvent(t) \/ ThreadStarted(t) \/ ThreadEnd(t)
  PROVE  Shape'
<1>1. UNCHANGED <<attachVars, eventVars, sample, key, clientName, notified>>
  BY DEF ThreadStart, OpenEvent, ThreadStarted, ThreadEnd
<1>2. td' \in [Threads -> ThreadData]
  <2>1. CASE ThreadStart(t)
    BY <2>1, FreshData DEF ThreadStart, Shape
  <2>2. CASE OpenEvent(t)
    BY <2>2, CounterIsOpened
  <2>3. CASE ThreadStarted(t)
    BY <2>3 DEF ThreadStarted, Shape
  <2>4. CASE ThreadEnd(t)
    <3>1. NoTd \in ThreadData
      BY EmptySeq DEF NoTd, ThreadData
    <3> QED
      BY <2>4, <3>1 DEF ThreadEnd, Shape
  <2> QED
    BY <2>1, <2>2, <2>3, <2>4
<1>3. starting' \in [Threads -> Int] /\ \A u \in Threads : starting'[u] \in -1..MaxList
  <2>1. starting \in [Threads -> Int] /\ (\A u \in Threads : starting[u] \in -1..MaxList)
        /\ num_events \in 0..MaxList /\ MaxList \in Nat
    BY InitAssumption DEF Shape, TypeOK
  <2> QED
    BY <2>1 DEF ThreadStart, OpenEvent, ThreadStarted, ThreadEnd
<1>4. aborted' \in BOOLEAN /\ (~aborted' => ~aborted)
  BY DEF ThreadStart, OpenEvent, ThreadStarted, ThreadEnd, Shape
<1> QED
  BY <1>1, <1>2, <1>3, <1>4 DEF attachVars, eventVars, metricVars, Shape, TypeOK, InRound

(* What a handler does to the state.                                        *)
LEMMA HandlerSteps ==
  ASSUME Shape, MetricsThere, Lookups, NEW t \in Threads,
         Signal(t) \/ FindMetric(t) \/ ReadThreshold(t) \/ HandlerReturns(t)
  PROVE  /\ sample' \in [Threads -> Lookup]
         /\ \A u \in Threads : u # t => sample'[u] = sample[u]
         /\ sample'[t].at # "none" => sample'[t].event \in 0..(MAX_NUM_EVENTS - 1) /\ notified
         /\ sample'[t].at = "metric" =>
              /\ FindMetric(t) /\ sample'[t].storage = storage
              /\ sample'[t].metric \in getMetricInfo(event_info[sample[t].event].metric_id1)
         /\ aborted' \in BOOLEAN /\ (aborted' => ReadThreshold(t) /\ sample[t].metric = Null)
         /\ ~aborted
         /\ UNCHANGED <<pc, event_list, filled, attached, num_events, event_info, metric_info_list,
                        storage, registered, pebs_metric_id, td, starting, key, clientName, notified>>
<1>1. sample \in [Threads -> Lookup] /\ storage \in Nat /\ aborted \in BOOLEAN
  BY DEF Shape
<1>2. ~aborted /\ UNCHANGED HandlerVars
  BY DEF Signal, FindMetric, ReadThreshold, HandlerReturns
<1>3. NoSample \in Lookup /\ NoSample.at = "none"
  BY DEF NoSample, Lookup, Null
<1>4. CASE Signal(t)
  <2>1. PICK c \in Counters(t) :
          sample' = [sample EXCEPT ![t] = AtEvent(c.event)]
    BY <1>4 DEF Signal
  <2>2. PICK k \in 1..Len(td[t].perf) : c = td[t].perf[k]
    BY <2>1 DEF Counters
  <2>3. td[t].perf \in Seq(Counter)
    BY DEF Shape, ThreadData
  <2>4. c \in Counter /\ td[t].perf # <<>>
    BY <2>2, <2>3, ElementOfSeq
  <2>5. c.event \in 0..(MAX_NUM_EVENTS - 1) /\ notified
    BY <2>4 DEF Counter, MetricsThere
  <2>6. PICK l : l = [at |-> "event", event |-> c.event, metric |-> Null, storage |-> 0]
    OBVIOUS
  <2>7. sample' = [sample EXCEPT ![t] = l]
    BY <2>1, <2>6 DEF AtEvent
  <2>8. l \in Lookup /\ l.at = "event" /\ l.event = c.event
    BY <2>5, <2>6 DEF Lookup, Null
  <2>9. aborted' = aborted
    BY <1>4 DEF Signal
  <2> QED
    BY <1>1, <1>2, <2>5, <2>7, <2>8, <2>9 DEF HandlerVars, attachVars, eventVars, metricVars
<1>5. CASE FindMetric(t)
  <2>1. PICK found \in getMetricInfo(event_info[sample[t].event].metric_id1) :
          sample' = [sample EXCEPT ![t] = [at |-> "metric", event |-> sample[t].event,
                                           metric |-> found, storage |-> storage]]
    BY <1>5 DEF FindMetric
  <2>2. sample[t].at = "event" /\ aborted' = aborted
    BY <1>5 DEF FindMetric
  <2>3. sample[t].event \in 0..(MAX_NUM_EVENTS - 1) /\ notified
    BY <2>2 DEF Lookups, MetricsThere
  <2>4. event_info[sample[t].event].metric_id1 \in Int
    BY <2>3 DEF Shape, EventInfo
  <2>5. found \in Int
    BY <2>1, <2>4 DEF getMetricInfo, Null
  <2>6. PICK l : l = [at |-> "metric", event |-> sample[t].event, metric |-> found, storage |-> storage]
    OBVIOUS
  <2>7. sample' = [sample EXCEPT ![t] = l]
    BY <2>1, <2>6
  <2>8. l \in Lookup /\ l.event = sample[t].event /\ l.metric = found /\ l.storage = storage
    BY <1>1, <2>3, <2>5, <2>6 DEF Lookup
  <2> QED
    BY <1>1, <1>2, <1>5, <2>1, <2>2, <2>3, <2>7, <2>8 DEF HandlerVars, attachVars, eventVars, metricVars
<1>6. CASE ReadThreshold(t)
  <2>1. /\ sample' = [sample EXCEPT ![t] = AtEvent(sample[t].event)]
        /\ sample[t].at = "metric" /\ aborted' = (sample[t].metric = Null)
    BY <1>6 DEF ReadThreshold
  <2>2. sample[t].event \in 0..(MAX_NUM_EVENTS - 1) /\ notified
    BY <2>1 DEF Lookups, MetricsThere
  <2>3. PICK l : l = [at |-> "event", event |-> sample[t].event, metric |-> Null, storage |-> 0]
    OBVIOUS
  <2>4. sample' = [sample EXCEPT ![t] = l]
    BY <2>1, <2>3 DEF AtEvent
  <2>5. l \in Lookup /\ l.at = "event" /\ l.event = sample[t].event
    BY <2>2, <2>3 DEF Lookup, Null
  <2>6. aborted' \in BOOLEAN /\ (aborted' => sample[t].metric = Null)
    BY <2>1
  <2> QED
    BY <1>1, <1>2, <1>6, <2>2, <2>4, <2>5, <2>6 DEF HandlerVars, attachVars, eventVars, metricVars
<1>7. CASE HandlerReturns(t)
  <2>1. sample' = [sample EXCEPT ![t] = NoSample] /\ aborted' = aborted
    BY <1>7 DEF HandlerReturns
  <2> QED
    BY <1>1, <1>2, <1>3, <2>1 DEF HandlerVars, attachVars, eventVars, metricVars
<1> QED
  BY <1>4, <1>5, <1>6, <1>7

LEMMA ShapeStep ==
  ASSUME Shape, MetricsThere, Lookups, [Next]_vars
  PROVE  Shape'
<1>1. CASE UNCHANGED vars
  BY <1>1 DEF vars, attachVars, eventVars, metricVars, threadVars, Shape, TypeOK, InRound
<1>2. ASSUME NEW t \in Threads,
             Signal(t) \/ FindMetric(t) \/ ReadThreshold(t) \/ HandlerReturns(t)
      PROVE  Shape'
  <2>1. /\ sample' \in [Threads -> Lookup] /\ aborted' \in BOOLEAN /\ ~aborted
        /\ UNCHANGED <<pc, event_list, filled, attached, num_events, event_info, metric_info_list,
                       storage, registered, pebs_metric_id, td, starting, key, clientName, notified>>
    BY <1>2, HandlerSteps
  <2> QED
    BY <2>1 DEF Shape, TypeOK, InRound
<1> QED
  BY <1>1, <1>2, RoundShape, AttachShape, ThreadShape DEF Next


-----------------------------------------------------------------------------
(* The metrics of events and counters, and what handlers have looked up. *)

LEMMA RoundMetrics ==
  ASSUME Shape, MetricsThere,
         ParseEvent \/ RegisterMetric \/ BeginMove \/ EndMove \/ SetupWatermarkMetric
  PROVE  MetricsThere'
<1>1. ~aborted /\ UNCHANGED <<td, starting, sample, notified>>
  BY DEF ParseEvent, RegisterMetric, BeginMove, EndMove, SetupWatermarkMetric, At, threadVars
<1>2. CASE ParseEvent
  <2>1. /\ UNCHANGED <<metric_info_list, pebs_metric_id>> /\ pc = "events"
        /\ pc' \in {"events", "metrics"}
    BY <1>2 DEF ParseEvent, At
  <2>2. \A i \in 0..(MAX_NUM_EVENTS - 1) : event_info'[i].metric_id1 = event_info[i].metric_id1
    BY <1>2, EventIsParsed
  <2> QED
    BY <1>1, <2>1, <2>2 DEF MetricsThere
<1>3. CASE RegisterMetric \/ EndMove
  <2>1. pc \in {"metrics", "moving"} /\ PushBack /\ pebs_metric_id' = pebs_metric_id
    BY <1>3 DEF RegisterMetric, EndMove, At
  <2>2. /\ Len(metric_info_list) \in Nat
        /\ Len(metric_info_list') = Len(metric_info_list) + 1
        /\ metric_info_list' # <<>>
        /\ \A i \in 0..(MAX_NUM_EVENTS - 1) :
             i # filled \/ registered # 0 => event_info'[i] = event_info[i]
        /\ registered = 0 => event_info'[filled].metric_id1 = Len(metric_info_list)
        /\ pc' \in {"metrics", "slot"}
    BY <1>1, <2>1, MetricIsPushed
  <2>3. \A i \in 0..(MAX_NUM_EVENTS - 1) :
          event_info'[i].metric_id1 = 0 \/ event_info'[i].metric_id1 < Len(metric_info_list')
    <3> SUFFICES ASSUME NEW i \in 0..(MAX_NUM_EVENTS - 1), event_info'[i].metric_id1 # 0
                 PROVE  event_info'[i].metric_id1 < Len(metric_info_list')
      OBVIOUS
    <3>1. CASE event_info'[i] = event_info[i]
      <4>1. event_info[i].metric_id1 \in Nat
        BY DEF Shape, EventInfo
      <4>2. event_info[i].metric_id1 < Len(metric_info_list)
        BY <3>1 DEF MetricsThere
      <4> QED
        BY <2>2, <3>1, <4>1, <4>2
    <3>2. CASE i = filled /\ registered = 0
      BY <2>2, <3>2
    <3> QED
      BY <2>2, <3>1, <3>2
  <2> QED
    BY <1>1, <2>1, <2>2, <2>3 DEF MetricsThere
<1>4. CASE BeginMove
  BY <1>1, <1>4 DEF BeginMove, At, eventVars, metricVars, MetricsThere
<1>5. CASE SetupWatermarkMetric
  <2>1. /\ UNCHANGED <<event_info, metric_info_list>> /\ pc = "slot"
        /\ pc' \in {"slot", "events"}
        /\ pebs_metric_id' = pebs_metric_id
           \/ pebs_metric_id' = Append(pebs_metric_id, event_info[filled].metric_id1)
    BY <1>5 DEF SetupWatermarkMetric, At, metricVars
  <2>2. metric_info_list # <<>>
    BY <2>1 DEF MetricsThere
  <2>3. event_info[filled].metric_id1 \in Nat
    BY <1>1, <2>1, EventInRange DEF Shape, EventInfo, InRound
  <2>4. pebs_metric_id' = pebs_metric_id \/ pebs_metric_id' # <<>>
    BY <2>1, <2>3, SlotIsTaken
  <2> QED
    BY <1>1, <2>1, <2>2, <2>4 DEF MetricsThere
<1> QED
  BY <1>2, <1>3, <1>4, <1>5

LEMMA MetricsStep ==
  ASSUME Shape, MetricsThere, Lookups, [Next]_vars
  PROVE  MetricsThere'
<1>1. ASSUME NEW list \in Lists, Attach(list) PROVE MetricsThere'
  BY <1>1 DEF Attach, At, GoOrAbort, eventVars, metricVars, threadVars, MetricsThere
<1>2. CASE ThreadDataInit \/ ProcessInit \/ InstallSignal \/ EnableEvents \/ UNCHANGED vars
  BY <1>2 DEF ThreadDataInit, ProcessInit, InstallSignal, EnableEvents, At, GoOrAbort,
              vars, attachVars, eventVars, metricVars, threadVars, MetricsThere
<1>3. CASE SetClientName
  BY <1>3 DEF SetClientName, At, eventVars, metricVars, threadVars, MetricsThere
<1>4. ASSUME NEW t \in Threads, ThreadStart(t) PROVE MetricsThere'
  <2>1. notified /\ UNCHANGED <<event_info, metric_info_list, pebs_metric_id, pc, notified>>
    BY <1>4 DEF ThreadStart, attachVars, eventVars, metricVars
  <2> QED
    BY <2>1 DEF MetricsThere
<1>5. ASSUME NEW t \in Threads, OpenEvent(t) PROVE MetricsThere'
  <2>1. /\ UNCHANGED <<event_info, metric_info_list, pebs_metric_id, pc, notified>>
        /\ starting[t] # -1
    BY <1>5, InitAssumption DEF OpenEvent, attachVars, eventVars, metricVars, Shape, TypeOK
  <2> QED
    BY <2>1 DEF MetricsThere
<1>6. ASSUME NEW t \in Threads, ThreadStarted(t) \/ ThreadEnd(t) PROVE MetricsThere'
  <2>1. UNCHANGED <<event_info, metric_info_list, pebs_metric_id, pc, notified, sample>>
    BY <1>6 DEF ThreadStarted, ThreadEnd, attachVars, eventVars, metricVars
  <2>2. NoTd.perf = <<>> /\ ~NoTd.setup
    BY DEF NoTd
  <2>3. \A u \in Threads : td'[u] = td[u] \/ td'[u] = NoTd
    BY <1>6 DEF ThreadStarted, ThreadEnd, Shape
  <2>4. \A u \in Threads : starting'[u] = starting[u] \/ starting'[u] = -1
    BY <1>6 DEF ThreadStarted, ThreadEnd, Shape
  <2> QED
    BY <2>1, <2>2, <2>3, <2>4 DEF MetricsThere
<1>7. ASSUME NEW t \in Threads,
             Signal(t) \/ FindMetric(t) \/ ReadThreshold(t) \/ HandlerReturns(t)
      PROVE  MetricsThere'
  <2>1. /\ UNCHANGED <<event_info, metric_info_list, pebs_metric_id, pc, notified, td, starting>>
        /\ \A u \in Threads : u # t => sample'[u] = sample[u]
        /\ sample'[t].at # "none" => notified
    BY <1>7, HandlerSteps
  <2> QED
    BY <2>1 DEF MetricsThere
<1> QED
  BY <1>1, <1>2, <1>3, <1>4, <1>5, <1>6, <1>7, RoundMetrics DEF Next

(* The storage of the metrics moves only forward.                           *)
LEMMA StorageGrows ==
  ASSUME Shape, [Next]_vars,
         ~ \E t \in Threads : Signal(t) \/ FindMetric(t) \/ ReadThreshold(t) \/ HandlerReturns(t)
  PROVE  /\ sample' = sample
         /\ EndMove => storage' = storage + 1
         /\ ~EndMove => storage' = storage
<1>1. CASE UNCHANGED vars
  <2>1. storage' = storage /\ sample' = sample
    BY <1>1 DEF vars, eventVars, metricVars, threadVars
  <2>2. EndMove => storage' = storage + 1
    BY DEF EndMove
  <2> QED
    BY <2>1, <2>2
<1>2. CASE \/ \E list \in Lists : Attach(list)
           \/ ThreadDataInit \/ ProcessInit \/ InstallSignal \/ SetClientName \/ EnableEvents
  <2>1. storage' = storage /\ sample' = sample
    BY <1>2 DEF Attach, ThreadDataInit, ProcessInit, InstallSignal, SetClientName, EnableEvents,
                eventVars, metricVars, threadVars
  <2>2. EndMove => storage' = storage + 1
    BY DEF EndMove
  <2> QED
    BY <2>1, <2>2
<1>3. CASE ParseEvent \/ RegisterMetric \/ BeginMove \/ SetupWatermarkMetric
  <2>1. storage' = storage /\ sample' = sample
    BY <1>3 DEF ParseEvent, RegisterMetric, BeginMove, SetupWatermarkMetric, eventVars,
                metricVars, threadVars
  <2>2. EndMove => storage' = storage + 1
    BY DEF EndMove
  <2> QED
    BY <2>1, <2>2
<1>4. CASE EndMove
  BY <1>4 DEF EndMove, threadVars
<1>5. ASSUME NEW t \in Threads,
             ThreadStart(t) \/ OpenEvent(t) \/ ThreadStarted(t) \/ ThreadEnd(t)
      PROVE  storage' = storage /\ sample' = sample
  BY <1>5 DEF ThreadStart, OpenEvent, ThreadStarted, ThreadEnd, eventVars, metricVars
<1>6. EndMove => storage' = storage + 1
  BY DEF EndMove
<1> QED
  BY <1>1, <1>2, <1>3, <1>4, <1>5, <1>6 DEF Next

LEMMA LookupsStep ==
  ASSUME Shape, MetricsThere, Lookups, [Next]_vars
  PROVE  Lookups'
<1>1. storage \in Nat /\ \A t \in Threads : sample[t].storage \in Nat
  BY DEF Shape, Lookup
<1>2. ASSUME NEW t \in Threads,
             Signal(t) \/ FindMetric(t) \/ ReadThreshold(t) \/ HandlerReturns(t)
      PROVE  Lookups'
  <2>1. /\ \A u \in Threads : u # t => sample'[u] = sample[u]
        /\ sample'[t].at # "none" => sample'[t].event \in 0..(MAX_NUM_EVENTS - 1)
        /\ sample'[t].at = "metric" => sample'[t].storage = storage
        /\ storage' = storage
    BY <1>2, HandlerSteps
  <2> QED
    BY <1>1, <2>1 DEF Lookups
<1>3. CASE ~ \E t \in Threads : Signal(t) \/ FindMetric(t) \/ ReadThreshold(t) \/ HandlerReturns(t)
  <2>1. sample' = sample /\ (storage' = storage \/ storage' = storage + 1)
    BY <1>3, StorageGrows
  <2> QED
    BY <1>1, <2>1 DEF Lookups
<1> QED
  BY <1>2, <1>3

(* The metrics stay where they are except for a move.                       *)
LEMMA MetricsStay ==
  ASSUME Shape, [Next]_vars, ~BeginMove, ~EndMove
  PROVE  /\ pc # "moving" => pc' # "moving"
         /\ Len(metric_info_list) \in Nat /\ Len(metric_info_list') \in Nat
         /\ Len(metric_info_list) <= Len(metric_info_list')
<1>1. Len(metric_info_list) \in Nat
  BY LenProperties DEF Shape
<1>2. CASE RegisterMetric
  <2>1. PushBack /\ pc = "metrics" /\ ~aborted
    BY <1>2 DEF RegisterMetric, At
  <2> QED
    BY <1>1, <2>1, MetricIsPushed
<1>3. CASE \/ ThreadDataInit \/ ProcessInit \/ InstallSignal \/ SetClientName \/ EnableEvents
           \/ ParseEvent \/ SetupWatermarkMetric \/ UNCHANGED vars
  <2>1. metric_info_list' = metric_info_list /\ (pc # "moving" => pc' # "moving")
    BY <1>3 DEF ThreadDataInit, ProcessInit, InstallSignal, SetClientName, EnableEvents,
                ParseEvent, SetupWatermarkMetric, At, GoOrAbort, vars, attachVars, eventVars, metricVars
  <2> QED
    BY <1>1, <2>1
<1>4. ASSUME NEW list \in Lists, Attach(list)
      PROVE  metric_info_list' = metric_info_list /\ pc' # "moving"
  BY <1>4 DEF Attach, At, GoOrAbort, eventVars, metricVars
<1>5. ASSUME NEW t \in Threads,
             \/ ThreadStart(t) \/ OpenEvent(t) \/ ThreadStarted(t) \/ ThreadEnd(t)
             \/ Signal(t) \/ FindMetric(t) \/ ReadThreshold(t) \/ HandlerReturns(t)
      PROVE  metric_info_list' = metric_info_list /\ pc' = pc
  BY <1>5 DEF ThreadStart, OpenEvent, ThreadStarted, ThreadEnd, Signal, FindMetric, ReadThreshold,
              HandlerReturns, HandlerVars, attachVars, eventVars, metricVars
<1> QED
  BY <1>1, <1>2, <1>3, <1>4, <1>5 DEF Next

(* A lookup while the table does not move finds a metric.                   *)
LEMMA LookupFinds ==
  ASSUME Shape, MetricsThere, notified, pc # "moving",
         NEW i \in 0..(MAX_NUM_EVENTS - 1), NEW found \in getMetricInfo(event_info[i].metric_id1)
  PROVE  found \in 0..(Len(metric_info_list) - 1)
<1>1. metric_info_list # <<>> /\ metric_info_list \in Seq(MetricRecord)
  BY DEF MetricsThere, Shape
<1>2. Len(metric_info_list) \in Nat \ {0}
  BY <1>1, EmptySeq, LenProperties
<1>3. event_info[i].metric_id1 \in Nat
  BY DEF Shape, EventInfo
<1>4. event_info[i].metric_id1 < Len(metric_info_list)
  BY <1>2 DEF MetricsThere
<1>5. found = event_info[i].metric_id1
  BY <1>4 DEF getMetricInfo
<1> QED
  BY <1>2, <1>3, <1>4, <1>5

LEMMA SampleStep ==
  ASSUME Shape, MetricsThere, Lookups, FirstAttach, SampleFindsMetric, [Next]_vars
  PROVE  SampleFindsMetric'
<1>1. SUFFICES ASSUME NEW t \in Threads, sample'[t].at = "metric"
               PROVE  IF pc' # "moving" /\ sample'[t].storage = storage'
                      THEN sample'[t].metric \in 0..(Len(metric_info_list') - 1)
                      ELSE attached' > 1
  BY DEF SampleFindsMetric
<1>2. attached \in Nat /\ (attached' = attached \/ attached' = attached + 1)
  <2>1. attached \in Nat
    BY InitAssumption DEF Shape, TypeOK
  <2>2. attached' = attached \/ attached' = attached + 1
    BY DEF Next, Attach, ThreadDataInit, ProcessInit, InstallSignal, SetClientName, EnableEvents,
           ParseEvent, RegisterMetric, BeginMove, EndMove, SetupWatermarkMetric,
           ThreadStart, OpenEvent, ThreadStarted, ThreadEnd, Signal, FindMetric, ReadThreshold,
           HandlerReturns, HandlerVars, vars, attachVars
  <2> QED
    BY <2>1, <2>2
<1>3. CASE sample'[t] # sample[t]
  <2>1. \E u \in Threads : Signal(u) \/ FindMetric(u) \/ ReadThreshold(u) \/ HandlerReturns(u)
    BY <1>3, StorageGrows
  <2>2. Signal(t) \/ FindMetric(t) \/ ReadThreshold(t) \/ HandlerReturns(t)
    BY <1>3, <2>1, HandlerSteps
  <2>3. /\ FindMetric(t) /\ sample'[t].storage = storage /\ notified
        /\ sample'[t].metric \in getMetricInfo(event_info[sample[t].event].metric_id1)
        /\ UNCHANGED <<pc, attached, metric_info_list, storage>>
    BY <1>1, <2>2, HandlerSteps
  <2>4. sample[t].event \in 0..(MAX_NUM_EVENTS - 1)
    BY <2>3 DEF FindMetric, Lookups
  <2>5. CASE pc # "moving"
    BY <2>3, <2>4, <2>5, LookupFinds
  <2>6. CASE pc = "moving"
    BY <1>2, <2>3, <2>6 DEF FirstAttach, Shape
  <2> QED
    BY <2>5, <2>6
<1>4. CASE sample'[t] = sample[t]
  <2>1. IF pc # "moving" /\ sample[t].storage = storage
        THEN sample[t].metric \in 0..(Len(metric_info_list) - 1)
        ELSE attached > 1
    BY <1>1, <1>4 DEF SampleFindsMetric
  <2>2. notified /\ sample[t].storage <= storage /\ sample[t].storage \in Nat /\ storage \in Nat
    BY <1>1, <1>4 DEF MetricsThere, Lookups, Shape, Lookup
  <2>3. CASE BeginMove \/ EndMove
    <3>1. pc # "idle" /\ attached' = attached
      BY <2>3 DEF BeginMove, EndMove, At
    <3>2. attached > 1
      BY <1>2, <2>2, <3>1 DEF FirstAttach, Shape
    <3>3. pc' = "moving" \/ storage' = storage + 1
      BY <2>3 DEF BeginMove, EndMove
    <3> QED
      BY <1>4, <2>2, <3>1, <3>2, <3>3
  <2>4. CASE ~BeginMove /\ ~EndMove
    <3>1. /\ pc # "moving" => pc' # "moving"
          /\ Len(metric_info_list) \in Nat /\ Len(metric_info_list') \in Nat
          /\ Len(metric_info_list) <= Len(metric_info_list')
      BY <2>4, MetricsStay
    <3>2. storage' = storage
      BY <2>4, StorageGrows, HandlerSteps
    <3>3. CASE attached > 1
      <4>1. CASE pc' # "moving" /\ sample'[t].storage = storage'
        <5>1. pc # "moving"
          BY <2>4, <4>1 DEF Next, Attach, ThreadDataInit, ProcessInit, InstallSignal, SetClientName,
             EnableEvents, ParseEvent, RegisterMetric, SetupWatermarkMetric, ThreadStart, OpenEvent,
             ThreadStarted, ThreadEnd, Signal, FindMetric, ReadThreshold, HandlerReturns,
             HandlerVars, vars, attachVars, At
        <5> QED
          BY <1>4, <2>1, <3>1, <3>2, <4>1, <5>1
      <4>2. CASE ~(pc' # "moving" /\ sample'[t].storage = storage')
        BY <1>2, <3>3, <4>2
      <4> QED
        BY <4>1, <4>2
    <3>4. CASE ~(attached > 1)
      BY <1>4, <2>1, <3>1, <3>2, <3>4
    <3> QED
      BY <3>3, <3>4
  <2> QED
    BY <2>3, <2>4
<1> QED
  BY <1>3, <1>4

-----------------------------------------------------------------------------
(* The first attach. *)

(* The counters of a first attach.                                          *)
LEMMA NoCountersBefore ==
  ASSUME Shape, MetricsThere, ~notified, NEW t \in Threads
  PROVE  /\ td[t].perf = <<>> /\ Len(td[t].perf) = 0 /\ ~td[t].setup /\ starting[t] = -1
         /\ sample[t].at = "none"
<1>1. td[t].perf = <<>> /\ ~td[t].setup /\ starting[t] = -1 /\ sample[t].at = "none"
  BY DEF MetricsThere
<1>2. Len(<<>>) = 0
  OBVIOUS
<1> QED
  BY <1>1, <1>2

(* What is described stays so while nothing of it changes.                  *)
LEMMA StaysDescribed ==
  ASSUME Shape, NEW i \in 0..(MAX_NUM_EVENTS - 1), Described(i),
         event_list' = event_list, event_info'[i] = event_info[i],
         Len(metric_info_list) \in Nat, Len(metric_info_list') \in Nat,
         Len(metric_info_list) <= Len(metric_info_list'),
         \A k \in 1..Len(metric_info_list) : metric_info_list'[k] = metric_info_list[k]
  PROVE  Described(i)'
<1>1. event_info[i].metric_id1 \in Nat
  BY DEF Shape, EventInfo
<1>2. event_info[i].metric_id1 + 1 \in 1..Len(metric_info_list)
  BY <1>1 DEF Described
<1>3. Threshold(i)' = Threshold(i) /\ MetricInfo(i)' = MetricInfo(i)
  BY DEF Threshold, MetricInfo
<1> QED
  BY <1>1, <1>2, <1>3 DEF Described

LEMMA RoundFirst ==
  ASSUME Shape, MetricsThere, FirstAttach,
         ParseEvent \/ RegisterMetric \/ BeginMove \/ EndMove \/ SetupWatermarkMetric
  PROVE  FirstAttach'
<1>1. /\ ~aborted /\ (InRound \/ (pc = "events" /\ filled < num_events))
      /\ UNCHANGED <<event_list, attached, num_events, td, starting, clientName, notified>>
  BY DEF ParseEvent, RegisterMetric, BeginMove, EndMove, SetupWatermarkMetric, At, InRound,
         threadVars, eventVars
<1>2. attached # 0
  BY <1>1 DEF Shape, InRound
<1> SUFFICES ASSUME attached = 1 PROVE FirstAttach'
  BY <1>1, <1>2 DEF FirstAttach
<1>3. ~notified /\ ~notified' /\ clientName = <<>> /\ num_events = Len(event_list)
      /\ filled < num_events
  BY <1>1 DEF FirstAttach, InRound, Shape
<1>4. \A t \in Threads : Len(td'[t].perf) = 0
  BY <1>1, <1>3, NoCountersBefore
<1>5. /\ filled \in 0..(MAX_NUM_EVENTS - 1) /\ filled \in Nat /\ num_events \in Nat
      /\ MAX_NUM_EVENTS \in Nat /\ num_events <= MAX_NUM_EVENTS
  BY <1>1, EventInRange, InitAssumption DEF Shape, TypeOK
<1>6. \A i \in 0..(filled - 1) : i \in 0..(MAX_NUM_EVENTS - 1) /\ i # filled /\ Described(i)
  BY <1>5 DEF FirstAttach
<1>7. Len(metric_info_list) \in Nat
  BY LenProperties DEF Shape
<1>8. CASE ParseEvent
  <2>1. UNCHANGED <<filled, metric_info_list, pebs_metric_id>> /\ pc = "events"
        /\ pc' \in {"events", "metrics"} /\ registered' = 0
    BY <1>8 DEF ParseEvent, At
  <2>2. /\ \A i \in 0..(MAX_NUM_EVENTS - 1) :
             /\ i # filled => event_info'[i] = event_info[i]
             /\ event_info'[i].metric_id1 = event_info[i].metric_id1
        /\ event_info'[filled].threshold = Threshold(filled)
    BY <1>8, EventIsParsed
  <2>3. \A i \in 0..(filled - 1) : Described(i)'
    BY <1>1, <1>6, <1>7, <2>1, <2>2, StaysDescribed
  <2>4. Threshold(filled)' = Threshold(filled)
    BY <1>1, <2>1 DEF Threshold
  <2>5. filled > 0 => event_info'[0].metric_id1 = event_info[0].metric_id1
    BY <1>5, <2>2
  <2> QED
    BY <1>1, <1>3, <1>4, <1>5, <2>1, <2>2, <2>3, <2>4, <2>5 DEF FirstAttach, InRound
<1>9. CASE RegisterMetric \/ EndMove
  <2>1. UNCHANGED <<filled, pebs_metric_id>> /\ pc \in {"metrics", "moving"} /\ PushBack
    BY <1>9 DEF RegisterMetric, EndMove, At
  <2>2. /\ Len(metric_info_list') = Len(metric_info_list) + 1
        /\ \A i \in 0..(MAX_NUM_EVENTS - 1) :
             /\ i # filled \/ registered # 0 => event_info'[i] = event_info[i]
             /\ event_info'[i].threshold = event_info[i].threshold
        /\ \A i \in 1..Len(metric_info_list) : metric_info_list'[i] = metric_info_list[i]
        /\ metric_info_list'[Len(metric_info_list) + 1] = MetricInfo(filled)
        /\ registered = 0 => event_info'[filled].metric_id1 = Len(metric_info_list)
        /\ registered' = registered + 1 /\ registered \in Nat
        /\ pc' \in {"metrics", "slot"}
    BY <1>1, <2>1, MetricIsPushed
  <2>3. \A i \in 0..(filled - 1) : Described(i)'
    BY <1>1, <1>6, <1>7, <2>2, StaysDescribed
  <2>4. Threshold(filled)' = Threshold(filled) /\ event_info[filled].threshold = Threshold(filled)
        /\ event_info'[filled].threshold = event_info[filled].threshold
    BY <1>1, <1>5, <2>1, <2>2 DEF Threshold, FirstAttach, InRound
  <2>5. Described(filled)'
    <3>1. CASE registered # 0
      <4>1. Described(filled)
        BY <2>1, <3>1 DEF FirstAttach
      <4> QED
        BY <1>1, <1>5, <1>7, <2>1, <2>2, <3>1, <4>1, StaysDescribed
    <3>2. CASE registered = 0
      <4>1. MetricInfo(filled)' = MetricInfo(filled)
        BY <1>1, <2>1, <2>4 DEF MetricInfo
      <4> QED
        BY <1>7, <2>1, <2>2, <2>4, <3>2, <4>1 DEF Described
    <3> QED
      BY <3>1, <3>2
  <2>6. filled > 0 => event_info'[0] = event_info[0]
    BY <1>5, <2>2
  <2> QED
    BY <1>1, <1>3, <1>4, <1>5, <2>1, <2>2, <2>3, <2>4, <2>5, <2>6 DEF FirstAttach, InRound
<1>10. CASE BeginMove
  <2>1. pc = "metrics" /\ pc' = "moving"
        /\ UNCHANGED <<filled, event_info, metric_info_list, registered, pebs_metric_id>>
    BY <1>10 DEF BeginMove, At, eventVars, metricVars
  <2> QED
    BY <1>1, <1>3, <1>4, <1>5, <2>1 DEF FirstAttach, InRound, Described, MetricInfo, Threshold
<1>11. CASE SetupWatermarkMetric
  <2>1. UNCHANGED <<event_info, metric_info_list, registered>> /\ pc = "slot"
    BY <1>11 DEF SetupWatermarkMetric, At, metricVars
  <2>2. \A i : Described(i)' <=> Described(i)
    BY <1>1, <2>1 DEF Described, MetricInfo, Threshold
  <2>3. CASE UNCHANGED <<pebs_metric_id, filled, pc>>
    <3>1. Threshold(filled)' = Threshold(filled)
      BY <1>1, <2>3 DEF Threshold
    <3> QED
      BY <1>1, <1>3, <1>4, <1>5, <2>1, <2>2, <2>3, <3>1 DEF FirstAttach, InRound
  <2>4. CASE /\ pebs_metric_id' = Append(pebs_metric_id, event_info[filled].metric_id1)
             /\ filled' = filled + 1 /\ pc' = "events"
    <3>1. event_info[filled].metric_id1 \in Nat
      BY <1>5 DEF Shape, EventInfo
    <3>2. /\ Len(pebs_metric_id') = Len(pebs_metric_id) + 1
          /\ pebs_metric_id'[1] = IF pebs_metric_id = <<>> THEN event_info[filled].metric_id1
                                  ELSE pebs_metric_id[1]
      BY <2>4, <3>1, SlotIsTaken
    <3>3. Len(pebs_metric_id) = filled /\ (pebs_metric_id = <<>> <=> filled = 0)
      <4>1. Len(pebs_metric_id) = filled /\ pebs_metric_id \in Seq(Nat)
        BY DEF FirstAttach, Shape
      <4> QED
        BY <4>1, EmptySeq
    <3>4. pebs_metric_id'[1] = event_info'[0].metric_id1
      BY <1>5, <2>1, <3>2, <3>3 DEF FirstAttach
    <3>5. \A i \in 0..filled : Described(i)'
      <4>1. Described(filled)
        BY <2>1 DEF FirstAttach
      <4> QED
        BY <1>5, <1>6, <2>2, <4>1
    <3>6. \A i \in 0..(filled' - 1) : Described(i)'
      BY <1>5, <2>4, <3>5
    <3>7. filled' <= num_events /\ filled' <= MAX_NUM_EVENTS /\ Len(pebs_metric_id') = filled'
      BY <1>3, <1>5, <2>4, <3>2, <3>3
    <3> QED
      BY <1>1, <1>3, <1>4, <2>4, <3>4, <3>6, <3>7 DEF FirstAttach, InRound
  <2> QED
    BY <1>11, <2>3, <2>4 DEF SetupWatermarkMetric
<1> QED
  BY <1>8, <1>9, <1>10, <1>11

LEMMA AttachFirst ==
  ASSUME Shape, MetricsThere, FirstAttach,
         \/ \E list \in Lists : Attach(list)
         \/ ThreadDataInit \/ ProcessInit \/ InstallSignal \/ SetClientName \/ EnableEvents
  PROVE  FirstAttach'
<1>1. ASSUME NEW list \in Lists, Attach(list) PROVE FirstAttach'
  <2>1. /\ pc = "idle" /\ attached' = attached + 1 /\ attached \in Nat
        /\ UNCHANGED <<filled, pebs_metric_id, td, notified, clientName, num_events>>
    BY <1>1, InitAssumption DEF Attach, At, eventVars, metricVars, threadVars, Shape, TypeOK
  <2>2. CASE attached = 0
    <3>1. /\ ~notified /\ filled = 0 /\ pebs_metric_id = <<>> /\ clientName = <<>>
          /\ \A t \in Threads : Len(td'[t].perf) = 0
      BY <2>1, <2>2, NoCountersBefore DEF FirstAttach
    <3>2. pc' \in {"idle", "key"}
      BY <1>1 DEF Attach, At, GoOrAbort
    <3>3. num_events \in Nat /\ MAX_NUM_EVENTS \in Nat
      BY InitAssumption DEF Shape, TypeOK
    <3> QED
      BY <2>1, <2>2, <3>1, <3>2, <3>3 DEF FirstAttach, InRound
  <2>3. CASE attached # 0
    BY <2>1, <2>3 DEF FirstAttach
  <2> QED
    BY <2>2, <2>3
<1>2. CASE ThreadDataInit
  <2>1. /\ pc = "key" /\ pc' \in {"key", "pfm"}
        /\ UNCHANGED <<event_list, filled, attached, num_events, event_info, metric_info_list,
                       pebs_metric_id, td, clientName, notified>>
    BY <1>2 DEF ThreadDataInit, At, GoOrAbort, eventVars, metricVars, threadVars
  <2> QED
    BY <2>1 DEF FirstAttach, InRound, Described, MetricInfo, Threshold
<1>3. CASE ProcessInit
  <2>1. /\ pc = "pfm" /\ filled' = 0 /\ pc' \in {"pfm", "events"}
        /\ num_events' = Len(event_list) /\ Len(event_list) \in Nat
        /\ UNCHANGED <<event_list, attached, event_info, metric_info_list, pebs_metric_id,
                       td, key, clientName, notified>>
    BY <1>3, ListsAreSequences DEF ProcessInit, At, GoOrAbort, metricVars, threadVars, Shape, TypeOK
  <2>2. attached # 0
    BY <2>1 DEF Shape
  <2> SUFFICES ASSUME attached = 1 PROVE FirstAttach'
    BY <2>1, <2>2 DEF FirstAttach
  <2>3. ~notified /\ pebs_metric_id = <<>> /\ clientName = <<>>
    BY <2>1 DEF FirstAttach
  <2>4. \A t \in Threads : Len(td'[t].perf) = 0
    BY <2>1, <2>3, NoCountersBefore
  <2>5. MAX_NUM_EVENTS \in Nat
    BY InitAssumption
  <2> QED
    BY <2>1, <2>3, <2>4, <2>5 DEF FirstAttach, InRound
<1>4. CASE InstallSignal
  <2>1. /\ pc = "events" /\ pc' \in {"events", "client"} /\ filled = num_events
        /\ UNCHANGED <<event_list, filled, attached, num_events, event_info, metric_info_list,
                       pebs_metric_id, td, clientName, notified>>
    BY <1>4 DEF InstallSignal, At, GoOrAbort, eventVars, metricVars, threadVars
  <2> QED
    BY <2>1 DEF FirstAttach, InRound, Described, MetricInfo, Threshold, Shape
<1>5. CASE SetClientName
  <2>1. /\ pc = "client" /\ pc' \in {"client", "notify"}
        /\ UNCHANGED <<event_list, filled, attached, num_events, event_info, metric_info_list,
                       pebs_metric_id, td, notified>>
        /\ pc' = "client" => clientName' = clientName
        /\ pc' = "notify" => /\ pebs_metric_id # <<>>
                             /\ clientName' = Append(clientName, GetClientName)
    BY <1>5 DEF SetClientName, At, eventVars, metricVars, threadVars
  <2>2. attached # 0
    BY <2>1 DEF Shape
  <2> SUFFICES ASSUME attached = 1 PROVE FirstAttach'
    BY <2>1, <2>2 DEF FirstAttach
  <2>3. ~notified /\ clientName = <<>>
    BY <2>1 DEF FirstAttach
  <2>4. pc' = "notify" => clientName' = <<Upper(event_list[1].client)>>
    <3> SUFFICES ASSUME pc' = "notify" PROVE clientName' = <<Upper(event_list[1].client)>>
      OBVIOUS
    <3>1. pebs_metric_id \in Seq(Nat) /\ pebs_metric_id # <<>>
      BY <2>1 DEF Shape
    <3>2. Len(pebs_metric_id) = filled /\ filled > 0
      BY <3>1, EmptySeq DEF FirstAttach
    <3>3. filled \in Nat
      BY InitAssumption DEF Shape, TypeOK
    <3>4. Described(0) /\ pebs_metric_id[1] = event_info[0].metric_id1
      BY <3>2, <3>3 DEF FirstAttach
    <3>5. GetClientName = MetricInfo(0).client
      BY <3>4 DEF GetClientName, Metric, Described
    <3>6. MetricInfo(0).client = Upper(event_list[1].client)
      BY DEF MetricInfo
    <3> QED
      BY <2>1, <2>3, <3>5, <3>6
  <2> QED
    BY <2>1, <2>3, <2>4 DEF FirstAttach, InRound, Described, MetricInfo, Threshold
<1>6. CASE EnableEvents
  <2>1. /\ pc = "notify" /\ pc' = "idle" /\ notified'
        /\ UNCHANGED <<event_list, filled, attached, num_events, event_info, metric_info_list,
                       pebs_metric_id, td, clientName>>
    BY <1>6 DEF EnableEvents, At, eventVars, metricVars, threadVars
  <2> QED
    BY <2>1 DEF FirstAttach, InRound, Described, MetricInfo, Threshold, Shape
<1> QED
  BY <1>1, <1>2, <1>3, <1>4, <1>5, <1>6

LEMMA ThreadFirst ==
  ASSUME Shape, MetricsThere, FirstAttach, NEW t \in Threads,
         ThreadStart(t) \/ OpenEvent(t) \/ ThreadStarted(t) \/ ThreadEnd(t)
  PROVE  FirstAttach'
<1>1. UNCHANGED <<pc, event_list, filled, attached, num_events, event_info, metric_info_list,
                  registered, pebs_metric_id, key, clientName, notified>>
  BY DEF ThreadStart, OpenEvent, ThreadStarted, ThreadEnd, attachVars, eventVars, metricVars
<1>2. ASSUME attached = 1, NEW u \in Threads, NEW k \in 1..Len(td'[u].perf)
      PROVE  /\ td'[u].perf[k].event < num_events
             /\ td'[u].perf[k].period = event_info[td'[u].perf[k].event].threshold
  <2>1. CASE td'[u] = td[u]
    BY <1>2, <2>1 DEF FirstAttach
  <2>2. CASE td'[u].perf = <<>>
    BY <2>2, <1>2
  <2>3. CASE OpenEvent(t) /\ u = t
    <3>1. CASE k \in 1..Len(td[t].perf)
      <4>1. td'[u].perf[k] = td[u].perf[k]
        BY <2>3, <3>1, CounterIsOpened
      <4> QED
        BY <1>2, <2>3, <3>1, <4>1 DEF FirstAttach
    <3>2. CASE k = Len(td[t].perf) + 1
      <4>1. starting[t] < num_events /\ num_events \in Nat
        BY <2>3, InitAssumption DEF OpenEvent, Shape, TypeOK
      <4> QED
        BY <2>3, <3>2, <4>1, CounterIsOpened
    <3> QED
      BY <1>2, <2>3, <3>1, <3>2, CounterIsOpened
  <2>4. (OpenEvent(t) /\ u # t) \/ ThreadStarted(t) => td'[u] = td[u]
    BY CounterIsOpened DEF ThreadStarted
  <2>5. ThreadStart(t) \/ ThreadEnd(t) => td'[u] = td[u] \/ td'[u].perf = <<>>
    <3>1. NoTd.perf = <<>>
      BY DEF NoTd
    <3>2. td \in [Threads -> ThreadData]
      BY DEF Shape
    <3>3. ThreadEnd(t) => td'[u] = td[u] \/ td'[u] = NoTd
      BY <3>2 DEF ThreadEnd
    <3>4. ThreadStart(t) => td'[u] = td[u]
                            \/ td'[u] = [FreshTd EXCEPT !.streams = TRUE, !.setup = TRUE]
      BY <3>2 DEF ThreadStart
    <3> QED
      BY <3>1, <3>3, <3>4, FreshData
  <2> QED
    BY <2>1, <2>2, <2>3, <2>4, <2>5
<1> QED
  BY <1>1, <1>2 DEF FirstAttach, InRound, Described, MetricInfo, Threshold

LEMMA FirstStep ==
  ASSUME Shape, MetricsThere, Lookups, FirstAttach, [Next]_vars
  PROVE  FirstAttach'
<1>1. CASE UNCHANGED vars
  BY <1>1 DEF vars, attachVars, eventVars, metricVars, threadVars, FirstAttach, InRound, Described,
              MetricInfo, Threshold
<1>2. ASSUME NEW t \in Threads,
             Signal(t) \/ FindMetric(t) \/ ReadThreshold(t) \/ HandlerReturns(t)
      PROVE  FirstAttach'
  <2>1. UNCHANGED <<pc, event_list, filled, attached, num_events, event_info, metric_info_list,
                    registered, pebs_metric_id, td, clientName, notified>>
    BY <1>2, HandlerSteps
  <2> QED
    BY <2>1 DEF FirstAttach, InRound, Described, MetricInfo, Threshold
<1> QED
  BY <1>1, <1>2, RoundFirst, AttachFirst, ThreadFirst DEF Next

(* An abort inside the loop of a first attach.                              *)
LEMMA LimitStep ==
  ASSUME Shape, MetricsThere, FirstAttach, EventLimitAccepted, [Next]_vars
  PROVE  EventLimitAccepted'
<1>1. SUFFICES ASSUME attached' = 1, pc' \in {"events", "metrics", "moving", "slot"}, aborted'
               PROVE  \/ filled' = num_events'
                      \/ event_list'[filled' + 1].rated /\ ~event_list'[filled' + 1].digit
                      \/ filled' = NUM_WATERMARK_METRICS
  BY DEF EventLimitAccepted
<1>2. CASE UNCHANGED vars
  BY <1>1, <1>2 DEF vars, attachVars, eventVars, EventLimitAccepted
<1>3. CASE ParseEvent
  <2>1. UNCHANGED <<event_list, filled>> /\ ~aborted
    BY <1>3 DEF ParseEvent, At
  <2> QED
    BY <1>1, <1>3, <2>1 DEF ParseEvent
<1>4. CASE SetupWatermarkMetric
  <2>1. ~aborted /\ pc = "slot" /\ attached = 1
    BY <1>1, <1>4 DEF SetupWatermarkMetric, At
  <2>2. Len(pebs_metric_id) = filled
    BY <2>1 DEF FirstAttach
  <2>3. filled' = filled /\ ~SlotLeft
    BY <1>1, <1>4, <2>1 DEF SetupWatermarkMetric
  <2> QED
    BY <2>2, <2>3 DEF SlotLeft
<1>5. CASE InstallSignal
  BY <1>1, <1>5 DEF InstallSignal, At, GoOrAbort, eventVars
<1>6. CASE RegisterMetric \/ BeginMove \/ EndMove
  BY <1>1, <1>6 DEF RegisterMetric, BeginMove, EndMove, At
<1>7. CASE \/ \E list \in Lists : Attach(list)
           \/ ThreadDataInit \/ ProcessInit \/ SetClientName \/ EnableEvents
  BY <1>1, <1>7 DEF Attach, ThreadDataInit, ProcessInit, SetClientName, EnableEvents, At, GoOrAbort
<1>8. ASSUME NEW t \in Threads,
             \/ ThreadStart(t) \/ OpenEvent(t) \/ ThreadStarted(t) \/ ThreadEnd(t)
             \/ Signal(t) \/ FindMetric(t) \/ ReadThreshold(t) \/ HandlerReturns(t)
      PROVE  FALSE
  <2>1. pc # "idle" /\ attached = 1
    BY <1>1, <1>8 DEF ThreadStart, OpenEvent, ThreadStarted, ThreadEnd, Signal, FindMetric,
                      ReadThreshold, HandlerReturns, HandlerVars, attachVars
  <2>2. ~notified
    BY <2>1 DEF FirstAttach
  <2>3. starting[t] = -1 /\ ~td[t].setup /\ Len(td[t].perf) = 0 /\ sample[t].at = "none"
    BY <2>2, NoCountersBefore
  <2>4. Counters(t) = {}
    BY <2>3 DEF Counters
  <2>5. ThreadStarted(t)
    BY <1>8, <2>2, <2>3, <2>4 DEF ThreadStart, OpenEvent, ThreadStarted, ThreadEnd, Signal,
                                  FindMetric, ReadThreshold, HandlerReturns
  <2>6. num_events \in Nat /\ starting[t] >= num_events
    BY <2>5, InitAssumption DEF ThreadStarted, Shape, TypeOK
  <2> QED
    BY <2>3, <2>6
<1> QED
  BY <1>2, <1>3, <1>4, <1>5, <1>6, <1>7, <1>8 DEF Next

(* An abort after a first attach is that of a thread's end.                 *)
LEMMA ThreadsEndStep ==
  ASSUME Shape, MetricsThere, Lookups, FirstAttach, SampleFindsMetric, FirstAttachThreadsEnd,
         [Next]_vars
  PROVE  FirstAttachThreadsEnd'
<1>1. SUFFICES ASSUME attached' = 1, notified', aborted'
               PROVE  Upper(event_list'[1].client) \notin {"GENERIC", "HEAP", "ALLOCTIMES"}
  BY DEF FirstAttachThreadsEnd
<1>2. CASE UNCHANGED vars
  BY <1>1, <1>2 DEF vars, attachVars, FirstAttachThreadsEnd
<1>3. CASE \E list \in Lists : Attach(list)
  <2>1. attached \in Nat /\ attached' = attached + 1 /\ notified' = notified
    BY <1>3, InitAssumption DEF Attach, Shape, TypeOK
  <2> QED
    BY <1>1, <2>1 DEF FirstAttach
<1>4. CASE \/ ThreadDataInit \/ ProcessInit \/ InstallSignal \/ SetClientName
           \/ ParseEvent \/ RegisterMetric \/ BeginMove \/ EndMove \/ SetupWatermarkMetric
  BY <1>1, <1>4 DEF ThreadDataInit, ProcessInit, InstallSignal, SetClientName, ParseEvent,
                    RegisterMetric, BeginMove, EndMove, SetupWatermarkMetric, At, FirstAttach
<1>5. CASE EnableEvents
  BY <1>1, <1>5 DEF EnableEvents, At
<1>6. ASSUME NEW t \in Threads,
             ThreadStart(t) \/ OpenEvent(t) \/ ThreadStarted(t) \/ ThreadEnd(t)
      PROVE  Upper(event_list'[1].client) \notin {"GENERIC", "HEAP", "ALLOCTIMES"}
  <2>1. ThreadEnd(t)
    BY <1>1, <1>6 DEF ThreadStart, OpenEvent, ThreadStarted
  <2>2. attached = 1 /\ notified /\ event_list' = event_list /\ ~KeepsPerfState
    BY <1>1, <2>1 DEF ThreadEnd, attachVars
  <2>3. clientName = <<Upper(event_list[1].client)>>
    BY <2>2 DEF FirstAttach
  <2> QED
    BY <2>2, <2>3 DEF KeepsPerfState
<1>7. ASSUME NEW t \in Threads,
             Signal(t) \/ FindMetric(t) \/ ReadThreshold(t) \/ HandlerReturns(t)
      PROVE  FALSE
  <2>1. ReadThreshold(t) /\ sample[t].metric = Null /\ attached = 1
    BY <1>1, <1>7, HandlerSteps
  <2>2. sample[t].at = "metric"
    BY <2>1 DEF ReadThreshold
  <2>3. sample[t].metric \in 0..(Len(metric_info_list) - 1)
    BY <2>1, <2>2 DEF SampleFindsMetric
  <2>4. Len(metric_info_list) \in Nat
    BY LenProperties DEF Shape
  <2> QED
    BY <2>1, <2>3, <2>4 DEF Null
<1> QED
  BY <1>2, <1>3, <1>4, <1>5, <1>6, <1>7 DEF Next

-----------------------------------------------------------------------------
(* The invariant, for all threads, lists and limits.                        *)
THEOREM InductiveInvariant == Spec => []IInv
<1>1. Init => IInv
  BY InitHolds
<1>2. IInv /\ [Next]_vars => IInv'
  BY ShapeStep, MetricsStep, LookupsStep, FirstStep, SampleStep, LimitStep, ThreadsEndStep DEF IInv
<1> QED
  BY <1>1, <1>2, PTL DEF Spec

(* Types.                                                                   *)
THEOREM TypeCorrect == Spec => []TypeOK
<1>1. IInv => TypeOK
  BY DEF IInv, Shape
<1> QED
  BY <1>1, InductiveInvariant, PTL

(* OnSample finds a metric unless the table moves under it, whatever a      *)
(* second attach does to event_info at the same time; under the handlers of *)
(* a first attach it does not move.                                         *)
THEOREM SampleFindsMetricAlways == Spec => []SampleFindsMetric
<1>1. IInv => SampleFindsMetric
  BY DEF IInv
<1> QED
  BY <1>1, InductiveInvariant, PTL

(* Every counter of a first attach has the period that its event and the    *)
(* metric of its event say, and that period is the rate asked for, as far   *)
(* as 32 bits hold it.                                                      *)
THEOREM CountersAreDescribedAlways == Spec => []CountersAreDescribed
<1>1. IInv => CountersAreDescribed
  <2> SUFFICES ASSUME IInv, attached = 1, NEW t \in Threads, NEW k \in 1..Len(td[t].perf)
               PROVE  LET c == td[t].perf[k]
                          spec == event_list[c.event + 1]
                          info == event_info[c.event]
                      IN /\ c.period = info.threshold
                         /\ info.metric_id1 < Len(metric_info_list)
                         /\ Metric(info.metric_id1)
                              = [client |-> Upper(spec.client), rate |-> c.period]
                         /\ spec.rate < Word => c.period = spec.rate
    BY DEF CountersAreDescribed, Counters
  <2> DEFINE e == td[t].perf[k].event
             p == td[t].perf[k].period
  <2>1. td[t].perf \in Seq(Counter)
    BY DEF IInv, Shape, ThreadData
  <2>2. td[t].perf[k] \in Counter /\ td[t].perf # <<>>
    BY <2>1, ElementOfSeq
  <2>3. e \in 0..(MAX_NUM_EVENTS - 1) /\ e < num_events /\ p = event_info[e].threshold
    BY <2>2 DEF Counter, IInv, FirstAttach
  <2>4. notified
    BY <2>2 DEF IInv, MetricsThere
  <2>5. filled = num_events /\ filled \in Nat /\ num_events = Len(event_list)
        /\ event_list \in Lists
    BY <2>4, InitAssumption DEF IInv, FirstAttach, Shape, TypeOK
  <2>6. Described(e)
    BY <2>3, <2>5 DEF IInv, FirstAttach
  <2>7. event_list[e + 1] \in Specs
    BY <2>3, <2>5, ListsAreSequences
  <2> HIDE DEF e, p
  <2>8. event_list[e + 1].rate \in Nat /\ Word \in Nat \ {0}
    BY <2>7, InitAssumption
  <2>9. event_list[e + 1].rate < Word => p = event_list[e + 1].rate
    <3>1. p = event_list[e + 1].rate % Word
      BY <2>3, <2>6 DEF Described, Threshold
    <3> QED
      BY <2>8, <3>1, FitsTheWord
  <2>10. MetricInfo(e) = [client |-> Upper(event_list[e + 1].client), rate |-> p]
    BY <2>3 DEF MetricInfo
  <2> QED
    BY <2>3, <2>6, <2>9, <2>10 DEF Described, Metric, e, p
<1> QED
  BY <1>1, InductiveInvariant, PTL

(* A well-formed list within both limits is never refused by a first        *)
(* attach.                                                                  *)
THEOREM EventLimitAcceptedAlways == Spec => []EventLimitAccepted
<1>1. IInv => EventLimitAccepted
  BY DEF IInv
<1> QED
  BY <1>1, InductiveInvariant, PTL

(* The assertion of thread_data_dealloc holds for the threads of a first    *)
(* attach of a client it makes an exception for.                            *)
THEOREM FirstAttachThreadsEndAlways == Spec => []FirstAttachThreadsEnd
<1>1. IInv => FirstAttachThreadsEnd
  BY DEF IInv
<1> QED
  BY <1>1, InductiveInvariant, PTL
=============================================================================
