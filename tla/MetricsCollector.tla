-------------------------- MODULE MetricsCollector --------------------------
(***************************************************************************)
(* The gauges of the operator (pkg/metrics): how many objects of each kind *)
(* there are, by phase and namespace, and the status of their conditions.  *)
(* A goroutine lists the objects every 30 seconds and rewrites the gauges  *)
(* one by one; a scrape sees them at any moment in between.  The goroutine *)
(* is started before the manager (cmd/operator/main.go), whose cache       *)
(* answers the lists: until it has started every list fails.               *)
(***************************************************************************)
EXTENDS Integers, Sequences, FiniteSets, SequencesExt

CONSTANTS
    Tracked,     \* the objects that may exist: [kind, name, namespace]
    GaugePhases, \* the phases of the API, "" among them
    MaxChanges,  \* bound on changes of objects
    MaxFaults    \* bound on lists that fail after the cache has started

ASSUME TrackedAssumption ==
    \A x \in Tracked : x.kind \in {"rootshard", "shard", "frontproxy", "cacheserver", "kubeconfig",
                                   "virtualworkspace"}

VARIABLES
    objects,     \* what exists: a function from objects to phase and condition
    started,     \* the manager and its cache have started
    counts,      \* per kind, the count gauge: a function from labels to numbers
    conditions,  \* the condition gauge: a function from objects to the metric
    tick,        \* a tick of the timer waits in its channel
    collection,  \* where the collector is
    listed,      \* per kind, the list that its gauges are made of
    changes, faults

metricVars == <<objects, started, counts, conditions, tick, collection, listed, changes, faults>>

-----------------------------------------------------------------------------
(* Lists and gauges.                                                        *)

Empty == <<>>

\* The order of updateObjectCounts.
CollectedKinds == <<"rootshard", "shard", "frontproxy", "cacheserver", "kubeconfig", "virtualworkspace">>

Phased == {"rootshard", "shard", "frontproxy"}
WithConditions == Phased \cup {"kubeconfig"}

\* The Available condition of an object, "" if it has none yet.
ConditionStatus == {"True", "False", "Unknown", ""}

statusToMetric(status) == CASE status = "True" -> 1 [] status = "False" -> 0 [] OTHER -> -1

UnknownPhase == "Unknown"

\* The labels under which an object is counted.
CountLabels(x, o) ==
    IF x.kind \in Phased
    THEN <<IF o.phase = "" THEN UnknownPhase ELSE o.phase, x.namespace>>
    ELSE <<x.namespace>>

\* phaseCounts and namespaceCounts.
Tally(list) ==
    LET labels == {CountLabels(x, list[x]) : x \in DOMAIN list}
    IN [l \in labels |-> Cardinality({x \in DOMAIN list : CountLabels(x, list[x]) = l})]

Recorded(list) == {x \in DOMAIN list : x.kind \in WithConditions /\ list[x].available # ""}

OfKind(k, objs) == [x \in {y \in DOMAIN objs : y.kind = k} |-> objs[x]]

\* at: the kind that is being updated, 0 between the passes.  list: what List returned.  conditions,
\* counts: what is left to be written, objects with a condition and labels with a count.
At(n, step, list) ==
    [at |-> n, step |-> step, list |-> list, conditions |-> Recorded(list), counts |-> DOMAIN Tally(list)]
Waiting == At(0, "wait", Empty)

Kind == CollectedKinds[collection.at]

Set(gauge, key, value) == [k \in DOMAIN gauge \cup {key} |-> IF k = key THEN value ELSE gauge[k]]

ResetCounts(k) == Empty

\* A plausible bug: conditions are only overwritten
KeepConditions == conditions

ResetConditions == Empty

-----------------------------------------------------------------------------
(* The collector.                                                           *)

\* Start calls updateObjectCounts at once, and then at every tick.
BeginCollection ==
    /\ collection.at = 0 /\ tick
    /\ tick' = FALSE
    /\ conditions' = ResetConditions
    /\ collection' = At(1, "list", Empty)
    /\ UNCHANGED <<objects, started, counts, listed, changes, faults>>

\* A plausible bug: the pass ends after its first kind, listed or not.
NextKindNone(n) == Waiting

NextKind(n) == IF n = Len(CollectedKinds) THEN Waiting ELSE At(n + 1, "list", Empty)

List ==
    /\ collection.step = "list" /\ started
    /\ collection' = At(collection.at, "reset", OfKind(Kind, objects))
    /\ UNCHANGED <<objects, started, counts, conditions, tick, listed, changes, faults>>

Reset ==
    /\ collection.step = "reset"
    /\ counts' = [counts EXCEPT ![Kind] = ResetCounts(Kind)]
    /\ listed' = [listed EXCEPT ![Kind] = collection.list]
    /\ collection' = [collection EXCEPT !.step = "write"]
    /\ UNCHANGED <<objects, started, conditions, tick, changes, faults>>

\* The update of this kind returns, the others go on.
ListFails ==
    /\ collection.step = "list"
    /\ IF started THEN faults < MaxFaults /\ faults' = faults + 1 ELSE UNCHANGED faults
    /\ collection' = NextKind(collection.at)
    /\ UNCHANGED <<objects, started, counts, conditions, tick, listed, changes>>

recordConditionStatuses ==
    /\ collection.step = "write"
    /\ \E x \in collection.conditions :
        /\ conditions' = Set(conditions, x, statusToMetric(collection.list[x].available))
        /\ collection' = [collection EXCEPT !.conditions = @ \ {x}]
    /\ UNCHANGED <<objects, started, counts, tick, listed, changes, faults>>

\* The counts are set when all objects have been looked at.
SetCount ==
    /\ collection.step = "write" /\ collection.conditions = {}
    /\ \E l \in collection.counts :
        /\ counts' = [counts EXCEPT ![Kind] = Set(@, l, Tally(collection.list)[l])]
        /\ collection' = [collection EXCEPT !.counts = @ \ {l}]
    /\ UNCHANGED <<objects, started, conditions, tick, listed, changes, faults>>

KindDone ==
    /\ collection.step = "write" /\ collection.conditions = {} /\ collection.counts = {}
    /\ collection' = NextKind(collection.at)
    /\ UNCHANGED <<objects, started, counts, conditions, tick, listed, changes, faults>>

CollectMetrics == BeginCollection \/ List \/ Reset \/ recordConditionStatuses \/ SetCount \/ KindDone

-----------------------------------------------------------------------------
(* Around it.                                                               *)

\* mgr.Start: the cache answers from now on.
Start ==
    /\ ~started /\ started' = TRUE
    /\ UNCHANGED <<objects, counts, conditions, tick, collection, listed, changes, faults>>

\* The channel of a ticker holds one tick; further ones are dropped.
Tick ==
    /\ ~tick /\ tick' = TRUE
    /\ UNCHANGED <<objects, started, counts, conditions, collection, listed, changes, faults>>

Status == [phase : GaugePhases, available : ConditionStatus]

\* An object appears, disappears or gets another status.
Change ==
    /\ changes < MaxChanges /\ changes' = changes + 1
    /\ \E x \in Tracked :
        \/ \E o \in Status : objects' = Set(objects, x, o) /\ objects' # objects
        \/ x \in DOMAIN objects /\ objects' = [y \in DOMAIN objects \ {x} |-> objects[y]]
    /\ UNCHANGED <<started, counts, conditions, tick, collection, listed, faults>>

MetricsInit ==
    /\ objects \in UNION {[s -> {[phase |-> "", available |-> ""]}] : s \in SUBSET Tracked}
    /\ started = FALSE
    /\ counts = [k \in Range(CollectedKinds) |-> Empty]
    /\ conditions = Empty
    /\ tick = TRUE /\ collection = Waiting
    /\ listed = [k \in Range(CollectedKinds) |-> Empty]
    /\ changes = 0 /\ faults = 0

MetricsNext == CollectMetrics \/ ListFails \/ Start \/ Tick \/ Change

\* The goroutine runs, its timer ticks, the manager starts, and not every list fails.
MetricsFairness ==
    WF_metricVars(CollectMetrics \/ ListFails) /\ WF_metricVars(Start) /\ WF_metricVars(Tick)

MetricsSpec == MetricsInit /\ [][MetricsNext]_metricVars /\ MetricsFairness

-----------------------------------------------------------------------------
(* Properties.                                                              *)

Gauges == [l \in {<<n>> : n \in {x.namespace : x \in Tracked}} \cup
                 {<<p, n>> : p \in GaugePhases \cup {UnknownPhase}, n \in {x.namespace : x \in Tracked}} |-> 0]

\* Only conditions that the API knows are exported, and only kinds with a status have any.
MetricsTypeOK ==
    /\ DOMAIN objects \subseteq Tracked
    /\ DOMAIN conditions \subseteq {x \in Tracked : x.kind \in WithConditions}
    /\ \A x \in DOMAIN conditions : conditions[x] \in {-1, 0, 1}
    /\ \A k \in DOMAIN counts : DOMAIN counts[k] \subseteq DOMAIN Gauges
    /\ collection.at \in 0 .. Len(CollectedKinds) /\ collection.conditions \subseteq Tracked
    /\ changes \in 0 .. MaxChanges /\ faults \in 0 .. MaxFaults

\* Whenever they are scraped, the counts of a kind are a part of those of one list: no object is
\* counted in two phases, and none that the list did not have (updateShardCounts and its siblings:
\* Reset comes before Set, and a failed List leaves the old counts alone).  So are the conditions,
\* which updateObjectCounts resets once, before the lists that may fail.
GaugesOfOneList ==
    /\ \A k \in DOMAIN counts :
          \A l \in DOMAIN counts[k] : l \in DOMAIN Tally(listed[k]) /\ counts[k][l] = Tally(listed[k])[l]
    /\ \A x \in DOMAIN conditions :
          x \in DOMAIN listed[x.kind] /\ conditions[x] = statusToMetric(listed[x.kind][x].available)

\* Once objects stay as they are, the gauges agree with them again and again, although failing
\* lists leave some of them out (the goroutine of main.go, its ticker, and updateObjectCounts).
Agree ==
    /\ \A k \in DOMAIN counts : counts[k] = Tally(OfKind(k, objects))
    /\ DOMAIN conditions = Recorded(objects)
    /\ \A x \in DOMAIN conditions : conditions[x] = statusToMetric(objects[x].available)

GaugesCatchUp == []<>Agree

=============================================================================
