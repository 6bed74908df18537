---------------------------- MODULE ContextTree ----------------------------
(***************************************************************************)
(* The calling context tree of a thread (src/new_context.cpp and .h), the  *)
(* metrics hung on its nodes (src/metrics.cpp and .h) and the XML elements *)
(* both are turned into (src/xml.cpp).  src/context.cpp holds the same     *)
(* class under another name, line for line.                                *)
(*                                                                         *)
(* Profiler::threadStart makes a tree and threadEnd deletes it.  The code  *)
(* that fills it is the one commented out in Profiler::GenericAnalysis: a  *)
(* path of frames is added from the root, and a value is added to a metric *)
(* of the last context.  Sample plays that client; a metric holds exact    *)
(* counts (field i) or approximate ones (field r) by its val_type.         *)
(***************************************************************************)
EXTENDS Integers, Sequences

CONSTANTS
    Calls,         \* the frames samples meet: <<method, line, version>>
    Values,        \* what one sample adds to a metric, positive
    MaxContexts,   \* bound: contexts of the tree
    MaxMetrics,    \* bound: registered metrics
    MaxTotal       \* bound: total of a metric of one path

ASSUME ContextAssumption ==
    /\ Values \subseteq Nat \ {0}
    /\ MaxContexts \in Nat /\ MaxMetrics \in Nat /\ MaxTotal \in Nat

VARIABLES
    metric_info_list,   \* MetricInfoManager::_metric_info_list: the val_type of each metric
    context_map,        \* _context_map: id -> context
    id_counter,         \* _id_counter
    path,               \* the frames a client followed to get a context: id -> path
    total               \* what samples added: <<path, metric>> -> value

contextVars == <<metric_info_list, context_map, id_counter, path, total>>

MetricType == {"REAL", "INT"}

NoMetrics == <<>>
NoParent == -1

\* A map in which key has value.
Put(f, key, value) == [x \in DOMAIN f \cup {key} |-> IF x = key THEN value ELSE f[x]]

\* A frame as the assignment from ASGCT_CallFrame leaves it: the other fields keep
\* their defaults.
Frame(method, lineno, version) ==
    [method_id |-> method, bci |-> lineno, method_version |-> version,
     binary_addr |-> 0, numa_node |-> 10]

Frames == {Frame(c[1], c[2], c[3]) : c \in Calls}

\* A new node; it gets its metrics later.
Context(parent, frame) ==
    [parent |-> parent, frame |-> frame, metrics |-> NoMetrics]

RootFrame == Frame(0, -1, 0)

-----------------------------------------------------------------------------
contextRefEqual(a, b) ==
    /\ a.bci = b.bci
    /\ a.method_id = b.method_id
    /\ a.binary_addr = b.binary_addr
    /\ a.numa_node = b.numa_node
    /\ a.method_version = b.method_version

\* The ids of the children of a context that the set of children would hold equal to frame.
findChild(contexts, parent, frame) ==
    {id \in DOMAIN contexts :
        contexts[id].parent = parent /\ contextRefEqual(contexts[id].frame, frame)}

\* addContext: the child already there, or a new one under the next id.
addContext(contexts, counter, parent, frame) ==
    LET found == findChild(contexts, parent, frame) IN
    IF found # {}
    THEN [contexts |-> contexts, counter |-> counter, id |-> CHOOSE id \in found : TRUE]
    ELSE [contexts |-> Put(contexts, counter, Context(parent, frame)),
          counter |-> counter + 1, id |-> counter]

\* The constructor of the tree: the root has id 0.
NewTree == [id \in {0} |-> Context(NoParent, RootFrame)]

-----------------------------------------------------------------------------
getNumMetrics == Len(metric_info_list)

Zero == [i |-> 0, r |-> 0]

\* _val_list.resize(n) of getMetricVal, which never shrinks the list.
Resize(list, n) == [k \in 1..(IF n > Len(list) THEN n ELSE Len(list)) |->
                        IF k <= Len(list) THEN list[k] ELSE Zero]

Plus(v, w) == [i |-> v.i + w.i, r |-> v.r + w.r]

(* Variant for validation: the list is made anew instead of resized. *)
incrementFresh(list, idx, val) ==
    [[k \in 1..(idx + 1) |-> Zero] EXCEPT ![idx + 1] = Plus(@, val)]

increment(list, idx, val) ==
    [Resize(list, idx + 1) EXCEPT ![idx + 1] = Plus(@, val)]

-----------------------------------------------------------------------------
\* An XML element: addAttr and addChild replace what is there under the same key.
XMLObj(tag) == [tag |-> tag, attr |-> <<>>, child |-> <<>>]
addAttr(obj, key, value) == [obj EXCEPT !.attr = Put(@, key, value)]
addChild(obj, id, child) == [obj EXCEPT !.child = Put(@, id, child)]

\* A metric writes value1 and value2, the one it does not use as -1; the second test
\* overwrites the first.
MetricXML(idx, v) ==
    LET obj == addAttr(XMLObj("metric"), "id", idx)
        exact == IF v.i = 0 THEN obj
                 ELSE addAttr(addAttr(obj, "value1", v.i), "value2", -1)
    IN IF v.r = 0 THEN exact
       ELSE addAttr(addAttr(exact, "value1", -1), "value2", v.r)

\* The children of a metrics element, under their index; metrics with no value are left out.
MetricsXML(list) ==
    [XMLObj("metrics") EXCEPT !.child =
        [k \in {j - 1 : j \in {h \in 1..Len(list) : list[h].i # 0 \/ list[h].r # 0}} |->
            MetricXML(k, list[k + 1])]]

\* A context's element, with the metrics as its only child.  (The code has no element
\* for a context whose metrics object is empty; a client that increments right after
\* setMetrics never leaves one.)
ContextXML(id) ==
    LET c == context_map[id]
        obj == addAttr(addAttr(XMLObj("context"), "id", id), "frame", c.frame)
        node == addAttr(obj, "parent_id", c.parent)
    IN IF c.metrics = NoMetrics THEN node ELSE addChild(node, 0, MetricsXML(c.metrics))

\* What iterating over the tree writes.
Dump == {ContextXML(id) : id \in DOMAIN context_map}

-----------------------------------------------------------------------------
ContextInit ==
    /\ metric_info_list = <<>>
    /\ context_map = NewTree
    /\ id_counter = 1
    /\ path = [id \in {0} |-> <<>>]
    /\ total = <<>>

registerMetric(type) ==
    /\ Len(metric_info_list) < MaxMetrics
    /\ metric_info_list' = Append(metric_info_list, type)
    /\ UNCHANGED <<context_map, id_counter, path, total>>

\* One sample of the client: a frame added under a context it already has, and a value
\* added to a registered metric of the context it got.  The client is the one that OnSample
\* has in comments: it sets the value of the type the metric has, never both of one metric.
Sample(parent, frame, idx, n) ==
    LET added == addContext(context_map, id_counter, parent, frame)
        val == IF metric_info_list[idx + 1] = "INT" THEN [Zero EXCEPT !.i = n]
               ELSE [Zero EXCEPT !.r = n]
        key == <<Append(path[parent], frame), idx>>
        old == IF key \in DOMAIN total THEN total[key] ELSE 0
    IN /\ idx < getNumMetrics
       /\ added.counter <= MaxContexts
       /\ old + n <= MaxTotal
       /\ context_map' = [added.contexts EXCEPT ![added.id].metrics = increment(@, idx, val)]
       /\ id_counter' = added.counter
       /\ path' = Put(path, added.id, Append(path[parent], frame))
       /\ total' = Put(total, key, old + n)
       /\ UNCHANGED metric_info_list

\* threadEnd deletes every context; the next thread starts with a new tree.
DeleteTree ==
    /\ context_map' = NewTree
    /\ id_counter' = 1
    /\ path' = [id \in {0} |-> <<>>]
    /\ total' = <<>>
    /\ UNCHANGED metric_info_list

ContextNext ==
    \/ \E type \in MetricType : registerMetric(type)
    \/ \E parent \in DOMAIN context_map, frame \in Frames,
          idx \in 0..(MaxMetrics - 1), n \in Values :
          idx < getNumMetrics /\ Sample(parent, frame, idx, n)
    \/ DeleteTree

ContextSpec == ContextInit /\ [][ContextNext]_contextVars

-----------------------------------------------------------------------------
(* A reader of the XML who follows parent_id up to the element whose       *)
(* parent_id is -1, always to a smaller id, gets the path on which the     *)
(* client got the context, and for every path and metric exactly what the  *)
(* samples of that path added, in value1 for exact metrics and in value2   *)
(* for approximate ones, and nothing else.                                 *)
DumpTellsTotals ==
    LET Shown(e) == IF 0 \in DOMAIN e.child THEN e.child[0].child ELSE <<>>
        Value(idx, x) == IF metric_info_list[idx + 1] = "INT" THEN x.attr["value1"]
                         ELSE x.attr["value2"]
    IN /\ \A e \in Dump :
             \/ e.attr["parent_id"] = -1 /\ path[e.attr["id"]] = <<>>
             \/ \E up \in Dump :
                   /\ up.attr["id"] = e.attr["parent_id"] /\ up.attr["id"] < e.attr["id"]
                   /\ path[e.attr["id"]] = Append(path[up.attr["id"]], e.attr["frame"])
       /\ \A e \in Dump : \A idx \in DOMAIN Shown(e) :
             LET key == <<path[e.attr["id"]], idx>> IN
             key \in DOMAIN total /\ total[key] = Value(idx, Shown(e)[idx])
       /\ \A key \in DOMAIN total : \E e \in Dump :
             path[e.attr["id"]] = key[1] /\ key[2] \in DOMAIN Shown(e)

=============================================================================
