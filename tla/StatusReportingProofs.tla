----------------------- MODULE StatusReportingProofs ------------------------
(***************************************************************************)
(* What lagging caches and merge patches cannot do to an object: a render  *)
(* input never gets ahead of what the controller has seen, a reported      *)
(* generation does not go back, and once the input is published nobody     *)
(* else's finalizer is lost, for any number of generations, faults and     *)
(* restarts.  At the end: what the metrics report of these objects.        *)
(***************************************************************************)
EXTENDS StatusReporting, MetricsCollector, TLAPS

observed(c) == object[c].available.observed

\* The generation a running pass works for.
working(c) == pass[c].old.generation

\* A render input is updated at most once per generation that the source controller has seen; a
\* cache trails the API server; so does the copy of a pass.
Order ==
    /\ object["compiled"].generation <= object["compiled"].revision
    /\ object["compiled"].revision <= cache["source"].generation
    /\ \A c \in Controllers : /\ cache[c].generation <= object[c].generation
                              /\ observed(c) <= object[c].generation
                              /\ pass[c].pc = "status" => working(c) <= object[c].generation
    /\ cache["source"].deleting => object["source"].deleting

\* Nothing has been published so far.
Unpublished ==
    /\ object["compiled"] = Object(FALSE)
    /\ cache["compiled"] = Object(FALSE)
    /\ pass["compiled"].pc = "idle"

\* A render input is created once, because it outlives its owner in every cache.
CreatedOnce ==
    ~object["compiled"].exists =>
        Unpublished \/ (~object["source"].exists /\ ~cache["source"].exists)

Held == kind = "Shard" /\ object["source"].deleting

\* The finalizer of a Shard comes first, and stays until the Shard is deleted.
FinalizerFirst ==
    kind = "Shard" /\ ~object["source"].deleting =>
        IF "cleanup" \in cache["source"].finalizers
        THEN "cleanup" \in object["source"].finalizers
        ELSE Unpublished

\* The answer to the patch that sets the finalizer is newer than the cache; nothing but the
\* informer starts another pass then.
Ahead ==
    /\ kind = "Shard" /\ "cleanup" \notin cache["source"].finalizers
    /\ "source" \notin queued
    /\ Unpublished

\* What is reported for the source object is in its controller's cache before the next pass.
SourceSeen ==
    \/ Held
    \/ IF pass["source"].pc = "status"
       THEN /\ observed("source") <= cache["source"].generation
            /\ observed("source") <= working("source")
            /\ \/ working("source") <= cache["source"].generation
               \/ Ahead /\ ~pass["source"].failed
       ELSE observed("source") <= cache["source"].generation \/ Ahead

\* What is reported for the Compiled object is in its controller's cache.
CompiledSeen ==
    /\ observed("compiled") <= cache["compiled"].generation
    /\ pass["compiled"].pc = "status" =>
            /\ observed("compiled") <= working("compiled")
            /\ working("compiled") <= cache["compiled"].generation

Reporting == Order /\ CreatedOnce /\ FinalizerFirst /\ SourceSeen /\ CompiledSeen

IInv == TypeOK /\ Reporting

\* Once something is published, what the cache shows of the finalizers is good enough to patch them:
\* the controller's own has been seen, and a copy in which the Shard is being deleted names all
\* that it can still have.
Window ==
    /\ cache["source"].deleting =>
            object["source"].finalizers \subseteq cache["source"].finalizers
    /\ kind = "Shard" /\ object["compiled"].exists =>
            cache["source"].deleting \/ "cleanup" \in cache["source"].finalizers

-----------------------------------------------------------------------------

\* What an object is made of.
LEMMA ObjectFields ==
  ASSUME NEW o \in Objects
  PROVE  /\ o.exists \in BOOLEAN /\ o.deleting \in BOOLEAN
         /\ o.generation \in 1 .. MaxGeneration /\ o.revision \in 1 .. MaxGeneration
         /\ o.finalizers \in SUBSET Finalizers
         /\ o.available \in Conditions /\ o.phase \in Phases
  BY DEF Objects

\* An object without a condition has not reported any generation.
LEMMA NothingObserved == NoCondition.observed = 0 /\ NoCondition \in Conditions
  BY Zenon DEF NoCondition, Condition, Conditions

\* A condition carries a generation.
LEMMA ConditionFields ==
  ASSUME NEW a \in Conditions
  PROVE  /\ a.observed \in 0 .. MaxGeneration
         /\ a # NoCondition => a \in [status : {"True", "False"}, observed : 1 .. MaxGeneration]
  BY LimitAssumption, NothingObserved DEF Conditions

\* A new object is well-formed.
LEMMA NewObject ==
  ASSUME NEW e \in BOOLEAN
  PROVE  /\ Object(e) \in Objects
         /\ Object(e).exists = e /\ ~Object(e).deleting /\ Object(e).finalizers = {}
         /\ Object(e).generation = 1 /\ Object(e).revision = 1
         /\ Object(e).available.observed = 0
  <1>1. 1 \in 1 .. MaxGeneration BY LimitAssumption
  <1>2. /\ Object(e).exists = e /\ ~Object(e).deleting /\ Object(e).finalizers = {}
        /\ Object(e).generation = 1 /\ Object(e).revision = 1
        /\ Object(e).available = NoCondition
    BY Zenon DEF Object
  <1>3. Object(e) \in Objects
    BY <1>1, NothingObserved, Zenon DEF Object, Objects, Phases
  <1> QED BY <1>2, <1>3, NothingObserved

\* Settling an object changes at most whether it exists.
LEMMA SettledObject ==
  ASSUME NEW o \in Objects
  PROVE  /\ Settled(o) \in Objects
         /\ Settled(o).generation = o.generation /\ Settled(o).revision = o.revision
         /\ Settled(o).finalizers = o.finalizers /\ Settled(o).deleting = o.deleting
         /\ Settled(o).available = o.available /\ Settled(o).phase = o.phase
         /\ Settled(o).exists => o.exists
         /\ Settled(o).exists <=> o.exists /\ (o.finalizers # {} \/ ~o.deleting)
  BY ObjectFields DEF Settled, Objects

\* Beginning to report a status changes the pass of one controller.
LEMMA StatusPass ==
  ASSUME TypeOK, NEW c \in Controllers, NEW o \in Objects, NEW failed \in BOOLEAN,
         ToStatus(c, o, failed)
  PROVE  /\ pass' \in [Controllers -> Passes]
         /\ pass'[c].pc = "status" /\ pass'[c].old = o /\ pass'[c].failed = failed
         /\ \A d \in Controllers : d # c => pass'[d] = pass[d]
  <1>1. [pc |-> "status", old |-> o, failed |-> failed] \in Passes BY DEF Passes
  <1> QED BY <1>1 DEF TypeOK, ToStatus

\* A pass of the source controller does not change that of the other.
LEMMA SourcePass ==
  ASSUME TypeOK, NEW o \in Objects, NEW failed \in BOOLEAN, ToStatus("source", o, failed)
  PROVE  /\ pass' \in [Controllers -> Passes] /\ pass'["compiled"] = pass["compiled"]
         /\ pass'["source"].pc = "status" /\ pass'["source"].old = o
         /\ pass'["source"].failed = failed
  <1>1. "source" \in Controllers /\ "compiled" \in Controllers BY DEF Controllers
  <1>2. [pc |-> "status", old |-> o, failed |-> failed] \in Passes BY DEF Passes
  <1> QED BY <1>1, <1>2 DEF TypeOK, ToStatus

\* No pass runs for a controller that is idle.
LEMMA IdlePass ==
  ASSUME TypeOK, NEW c \in Controllers, pass' = Idle(c)
  PROVE  /\ pass' \in [Controllers -> Passes]
         /\ pass'[c].pc = "idle"
         /\ \A d \in Controllers : d # c => pass'[d] = pass[d]
  <1>1. NoPass \in Passes /\ NoPass.pc = "idle" BY NewObject DEF NoPass, Passes
  <1> QED BY <1>1 DEF TypeOK, Idle

\* The types of the two objects and of their copies.
LEMMA ObjectTypes ==
  ASSUME TypeOK, NEW c \in Controllers
  PROVE  /\ object[c] \in Objects /\ cache[c] \in Objects /\ pass[c] \in Passes
         /\ pass[c].old \in Objects /\ pass[c].failed \in BOOLEAN
  BY DEF TypeOK, Passes

\* Counting an event keeps the bound.
LEMMA EventCounted ==
  ASSUME TypeOK, Happens
  PROVE  events' \in 0 .. MaxEvents
  BY LimitAssumption DEF TypeOK, Happens

\* The API server stores a list of finalizers or refuses it.
LEMMA PatchedFinalizers ==
  ASSUME TypeOK, NEW list \in SUBSET Finalizers, PatchFinalizers(list)
  PROVE  /\ object' \in [Controllers -> Objects] /\ pass' \in [Controllers -> Passes]
         /\ object'["compiled"] = object["compiled"] /\ pass'["compiled"] = pass["compiled"]
         /\ pass'["source"].pc = "status"
         /\ \/ /\ object' = object
               /\ ~object["source"].exists
                  \/ (object["source"].deleting /\ ~(list \subseteq object["source"].finalizers))
               /\ pass'["source"].old = cache["source"] /\ pass'["source"].failed
            \/ /\ object["source"].exists
               /\ object'["source"].exists => object["source"].exists
               /\ object'["source"].generation = object["source"].generation
               /\ object'["source"].deleting = object["source"].deleting
               /\ object'["source"].available = object["source"].available
               /\ object'["source"].finalizers = list
               /\ object["source"].deleting => list \subseteq object["source"].finalizers
               /\ pass'["source"].old = object'["source"] /\ ~pass'["source"].failed
  <1> DEFINE o == object["source"]
             rejected == ~o.exists \/ (o.deleting /\ ~(list \subseteq o.finalizers))
             stored == Settled([o EXCEPT !.finalizers = list])
  <1>1. "source" \in Controllers /\ "compiled" \in Controllers BY DEF Controllers
  <1>2. o \in Objects /\ cache["source"] \in Objects BY <1>1, ObjectTypes
  <1>3. CASE rejected
    <2>1. object' = object /\ ToStatus("source", cache["source"], TRUE)
      BY <1>3 DEF PatchFinalizers
    <2>2. /\ pass' \in [Controllers -> Passes] /\ pass'["compiled"] = pass["compiled"]
          /\ pass'["source"].pc = "status" /\ pass'["source"].old = cache["source"]
          /\ pass'["source"].failed
      BY <1>2, <2>1, SourcePass
    <2>3. object' \in [Controllers -> Objects] BY <2>1 DEF TypeOK
    <2> QED BY <1>3, <2>1, <2>2, <2>3
  <1>4. CASE ~rejected
    <2>1. object' = [object EXCEPT !["source"] = stored] /\ ToStatus("source", stored, FALSE)
      BY <1>4 DEF PatchFinalizers
    <2>2. [o EXCEPT !.finalizers = list] \in Objects
      BY <1>2, ObjectFields DEF Objects
    <2>3. stored \in Objects BY <2>2, SettledObject
    <2>4. /\ stored.exists => o.exists
          /\ stored.generation = o.generation /\ stored.deleting = o.deleting
          /\ stored.available = o.available /\ stored.finalizers = list
      BY <1>2, <2>2, SettledObject DEF Objects
    <2>5. object' \in [Controllers -> Objects] /\ object'["source"] = stored
          /\ object'["compiled"] = object["compiled"]
      BY <1>1, <2>1, <2>3 DEF TypeOK
    <2>6. /\ pass' \in [Controllers -> Passes] /\ pass'["compiled"] = pass["compiled"]
          /\ pass'["source"].pc = "status" /\ pass'["source"].old = stored
          /\ ~pass'["source"].failed
      BY <2>1, <2>3, SourcePass
    <2> QED BY <1>4, <2>4, <2>5, <2>6
  <1> QED BY <1>3, <1>4

\* What the source controller writes of a render input fits into its type, because it is only
\* rebuilt for a newer generation.
LEMMA PublishStep ==
  ASSUME TypeOK, Order, Publish
  PROVE  /\ object' \in [Controllers -> Objects] /\ pass' \in [Controllers -> Passes]
         /\ object'["source"] = object["source"] /\ pass'["compiled"] = pass["compiled"]
         /\ pass'["source"].pc = "status" /\ pass'["source"].old = cache["source"]
         /\ \/ object' = object
            \/ /\ object["compiled"].exists /\ object'["compiled"].exists
               /\ object'["compiled"].generation = object["compiled"].generation + 1
               /\ object'["compiled"].revision = cache["source"].generation
               /\ object["compiled"].revision # cache["source"].generation
               /\ object'["compiled"].available = object["compiled"].available
            \/ /\ ~object["compiled"].exists /\ object'["compiled"].exists
               /\ cache["compiled"] = object["compiled"]
               /\ object'["compiled"].generation = 1
               /\ object'["compiled"].revision = cache["source"].generation
               /\ object'["compiled"].available.observed = 0
  <1> DEFINE old == cache["source"]
             cached == cache["compiled"]
             current == cached.exists /\ cached.revision = old.generation
             updated == [cached EXCEPT !.generation = @ + 1, !.revision = old.generation]
             created == [Object(TRUE) EXCEPT !.revision = old.generation]
             desired == IF cached.exists THEN updated ELSE created
             refused == ~current /\ cached # object["compiled"]
  <1>1. "source" \in Controllers /\ "compiled" \in Controllers BY DEF Controllers
  <1>2. /\ object' = IF current \/ refused THEN object ELSE [object EXCEPT !["compiled"] = desired]
        /\ ToStatus("source", old, refused)
    BY DEF Publish
  <1>3. old \in Objects /\ cached \in Objects BY <1>1, ObjectTypes
  <1>4. /\ pass' \in [Controllers -> Passes] /\ pass'["compiled"] = pass["compiled"]
        /\ pass'["source"].pc = "status" /\ pass'["source"].old = old
    BY <1>2, <1>3, SourcePass
  <1>5. CASE current \/ refused
    <2>1. object' = object BY <1>2, <1>5
    <2> QED BY <1>4, <2>1 DEF TypeOK
  <1>6. CASE ~current /\ ~refused /\ cached.exists
    <2>1. cached = object["compiled"] /\ cached.revision # old.generation BY <1>6
    <2>2. object' = [object EXCEPT !["compiled"] = updated] BY <1>2, <1>6
    <2>3. cached.generation + 1 \in 1 .. MaxGeneration
      BY <1>3, <2>1, ObjectFields, LimitAssumption DEF Order
    <2>4. updated \in Objects BY <1>3, <2>3, ObjectFields DEF Objects
    <2>5. /\ updated.generation = cached.generation + 1 /\ updated.revision = old.generation
          /\ updated.available = cached.available /\ updated.exists = cached.exists
      BY <1>3 DEF Objects
    <2>6. /\ object' \in [Controllers -> Objects] /\ object'["source"] = object["source"]
          /\ object'["compiled"] = updated
      BY <1>1, <2>2, <2>4 DEF TypeOK
    <2> QED BY <1>4, <1>6, <2>1, <2>5, <2>6
  <1>7. CASE ~current /\ ~refused /\ ~cached.exists
    <2>1. cached = object["compiled"] BY <1>7
    <2>2. object' = [object EXCEPT !["compiled"] = created] BY <1>2, <1>7
    <2>3. Object(TRUE) \in Objects BY NewObject
    <2>4. created \in Objects BY <1>3, <2>3, ObjectFields DEF Objects
    <2>5. /\ created.generation = 1 /\ created.revision = old.generation
          /\ created.available.observed = 0 /\ created.exists
      BY <2>3, NewObject DEF Objects
    <2>6. /\ object' \in [Controllers -> Objects] /\ object'["source"] = object["source"]
          /\ object'["compiled"] = created
      BY <1>1, <2>2, <2>4 DEF TypeOK
    <2> QED BY <1>4, <1>7, <2>1, <2>5, <2>6
  <1> QED BY <1>5, <1>6, <1>7

\* Whatever the condition, a phase is one of the API's.
LEMMA PhaseType ==
  ASSUME TypeOK, NEW o \in Objects, NEW a
  PROVE  Phase(o, a) \in Phases
  <1>1. o.phase \in Phases BY ObjectFields
  <1>2. {"Provisioning", "Running", "Deleting"} \subseteq Phases BY Zenon DEF Phases
  <1>3. shardPhase(o, a) \in Phases
    <2>1. CASE a.status = "True" BY <2>1, <1>2, Zenon DEF shardPhase
    <2>2. CASE a.status # "True" /\ o.deleting BY <2>2, <1>2, Zenon DEF shardPhase
    <2>3. CASE a.status # "True" /\ ~o.deleting /\ o.phase = "" BY <2>3, <1>2, Zenon DEF shardPhase
    <2>4. CASE a.status # "True" /\ ~o.deleting /\ o.phase # "" BY <2>4, <1>1, Zenon DEF shardPhase
    <2> QED BY <2>1, <2>2, <2>3, <2>4, Zenon
  <1>4. rootShardPhase(o, a) \in Phases /\ frontProxyPhase(o, a) \in Phases
    BY <1>2 DEF rootShardPhase, frontProxyPhase
  <1>5. kind \in {"Shard", "RootShard", "FrontProxy", "VirtualWorkspace"}
    BY KindAssumption DEF TypeOK
  <1> QED BY <1>1, <1>3, <1>4, <1>5 DEF Phase

\* Both conditions are taken over for a generation of the object.
LEMMA ReportedCondition ==
  ASSUME TypeOK, NEW c \in Controllers, NEW old \in Objects
  PROVE  LET a == UpdateCondition(old.available, [Reported(c) EXCEPT !.observed = old.generation])
         IN  a \in Conditions /\ (a # old.available => a.observed = old.generation)
  <1> DEFINE new == [Reported(c) EXCEPT !.observed = old.generation]
             a == UpdateCondition(old.available, new)
             s == cache["compiled"].available
  <1>1. "compiled" \in Controllers BY DEF Controllers
  <1>2. old.available \in Conditions /\ old.generation \in 1 .. MaxGeneration BY ObjectFields
  <1>3. s \in Conditions BY <1>1, ObjectTypes, ObjectFields
  <1>4. s # NoCondition => s.status \in {"True", "False"} BY <1>3, ConditionFields
  <1>5. \E status \in {"True", "False"} : Reported(c) = Condition(status, 0)
    <2>1. CASE c = "source" BY <1>4, <2>1 DEF Reported, GetCompiledAvailableCondition
    <2>2. CASE c # "source" BY <2>2 DEF Reported, GetDeploymentAvailableCondition
    <2> QED BY <2>1, <2>2
  <1>6. new \in [status : {"True", "False"}, observed : 1 .. MaxGeneration]
        /\ new.observed = old.generation
    BY <1>2, <1>5 DEF Condition
  <1>7. a = old.available \/ a = new BY DEF UpdateCondition
  <1>8. a \in Conditions BY <1>2, <1>6, <1>7 DEF Conditions
  <1> QED BY <1>6, <1>7, <1>8

\* Two versions of an object that differ at most in their status.
SameButStatus(o, p) ==
    /\ p.exists = o.exists /\ p.deleting = o.deleting
    /\ p.generation = o.generation /\ p.revision = o.revision /\ p.finalizers = o.finalizers

\* Reporting a status changes the condition and the phase of one object, and if the copy was
\* not its own, those of the cache.  The pass is repeated if a call has failed.
LEMMA ReportStep ==
  ASSUME TypeOK, NEW c \in Controllers, reconcileStatus(c)
  PROVE  /\ object' \in [Controllers -> Objects] /\ cache' \in [Controllers -> Objects]
         /\ pass' = Idle(c) /\ pass[c].pc = "status"
         /\ UNCHANGED <<kind, groups, dep, events>>
         /\ \A d \in Controllers :
               /\ SameButStatus(object[d], object'[d]) /\ SameButStatus(cache[d], cache'[d])
               /\ d # c => object'[d] = object[d] /\ cache'[d] = cache[d]
         /\ \/ object'[c].available = object[c].available
            \/ object[c].exists /\ object'[c].available.observed = working(c)
         /\ \/ queued' = queued
            \/ queued' = queued \cup {c} /\ (pass[c].failed \/ object' = object)
  <1> DEFINE old == pass[c].old
             available == UpdateCondition(old.available,
                                          [Reported(c) EXCEPT !.observed = old.generation])
             phase == Phase(old, available)
             aliased == kind \in ConditionsShared[c] /\ old.available # NoCondition
             changed == (available # old.available /\ ~aliased) \/ phase # old.phase
             o == object[c]
             patched == [o EXCEPT !.available = IF available = old.available \/ aliased THEN @
                                                ELSE available,
                                  !.phase = IF phase = old.phase THEN @ ELSE phase]
             failed == pass[c].failed \/ (changed /\ ~o.exists)
  <1>1. /\ object' = IF changed /\ o.exists THEN [object EXCEPT ![c] = patched] ELSE object
        /\ cache' = IF aliased THEN [cache EXCEPT ![c].available = available] ELSE cache
        /\ queued' = IF failed THEN queued \cup {c} ELSE queued
        /\ pass' = Idle(c) /\ pass[c].pc = "status"
        /\ UNCHANGED <<kind, groups, dep, events>>
    BY DEF reconcileStatus
  <1>2. old \in Objects /\ o \in Objects /\ cache[c] \in Objects BY ObjectTypes
  <1>3. /\ available \in Conditions
        /\ available # old.available => available.observed = old.generation
    BY <1>2, ReportedCondition
  <1>4. phase \in Phases BY <1>2, PhaseType
  <1> HIDE DEF old, available, phase, aliased
  <1>5. /\ patched \in Objects
        /\ SameButStatus(o, patched)
        /\ patched.available = o.available \/ patched.available.observed = old.generation
    BY <1>2, <1>3, <1>4 DEF Objects, SameButStatus
  <1>6. object' \in [Controllers -> Objects] BY <1>1, <1>2, <1>5 DEF TypeOK
  <1>7. cache' \in [Controllers -> Objects]
    <2>1. [cache[c] EXCEPT !.available = available] \in Objects BY <1>2, <1>3 DEF Objects
    <2> QED BY <1>1, <2>1 DEF TypeOK
  <1>8. ASSUME NEW d \in Controllers
        PROVE  SameButStatus(object[d], object'[d]) /\ (d # c => object'[d] = object[d])
    <2>1. object'[d] = object[d] \/ (d = c /\ object'[d] = patched) BY <1>1 DEF TypeOK
    <2> HIDE DEF patched
    <2> QED BY <1>5, <2>1 DEF SameButStatus
  <1>9. ASSUME NEW d \in Controllers
        PROVE  SameButStatus(cache[d], cache'[d]) /\ (d # c => cache'[d] = cache[d])
    <2>1. cache'[d] = cache[d] \/ (d = c /\ cache'[d] = [cache[d] EXCEPT !.available = available])
      BY <1>1 DEF TypeOK
    <2> QED BY <1>2, <2>1 DEF Objects, SameButStatus
  <1>10. \/ object'[c].available = object[c].available
         \/ object[c].exists /\ object'[c].available.observed = working(c)
    <2>1. object' = object \/ (object[c].exists /\ object'[c] = patched) BY <1>1 DEF TypeOK
    <2> QED BY <1>5, <2>1 DEF working, old
  <1>11. \/ queued' = queued
         \/ queued' = queued \cup {c} /\ (pass[c].failed \/ object' = object)
    BY <1>1
  <1> HIDE DEF changed, failed, patched, o
  <1> QED BY <1>1, <1>6, <1>7, <1>8, <1>9, <1>10, <1>11

-----------------------------------------------------------------------------

\* Every step keeps the types.
LEMMA TypesStep ==
  ASSUME TypeOK, Order, [Next]_vars
  PROVE  TypeOK'
  <1>1. "source" \in Controllers /\ "compiled" \in Controllers BY DEF Controllers
  <1>2. \A c \in Controllers : object[c] \in Objects /\ cache[c] \in Objects BY ObjectTypes
  <1>3. CASE UNCHANGED vars BY <1>3 DEF TypeOK, vars
  <1>4. ASSUME NEW c \in Controllers, Ignore(c) PROVE TypeOK'
    BY <1>4 DEF TypeOK, Ignore, Begin
  <1>5. ASSUME NEW c \in Controllers, LeaveDeleted(c) PROVE TypeOK'
    <2>1. pass' \in [Controllers -> Passes] BY <1>2, <1>5, StatusPass DEF LeaveDeleted
    <2> QED BY <1>5, <2>1 DEF TypeOK, LeaveDeleted, Reconciling, Begin
  <1>6. ASSUME NEW c \in Controllers, reconcileStatus(c) PROVE TypeOK'
    <2>1. pass' \in [Controllers -> Passes] BY <1>6, ReportStep, IdlePass
    <2>2. queued' \subseteq Controllers BY <1>6, ReportStep DEF TypeOK
    <2> QED BY <1>6, <2>1, <2>2, ReportStep DEF TypeOK
  <1>7. CASE ensureFinalizer \/ removeFinalizer
    <2>1. cache["source"].finalizers \in SUBSET Finalizers BY <1>1, <1>2, ObjectFields
    <2>2. \E list \in SUBSET Finalizers : PatchFinalizers(list)
      BY <1>7, <2>1 DEF ensureFinalizer, removeFinalizer, Finalizers
    <2>3. object' \in [Controllers -> Objects] /\ pass' \in [Controllers -> Passes]
      BY <2>2, PatchedFinalizers
    <2> QED BY <1>7, <2>3 DEF TypeOK, ensureFinalizer, removeFinalizer, Reconciling, Begin
  <1>8. CASE Publish
    <2>1. object' \in [Controllers -> Objects] /\ pass' \in [Controllers -> Passes]
      BY <1>8, PublishStep
    <2> QED BY <1>8, <2>1 DEF TypeOK, Publish, Reconciling, Begin
  <1>9. CASE Render
    <2>1. pass' \in [Controllers -> Passes] BY <1>1, <1>2, <1>9, StatusPass DEF Render
    <2>2. cache["compiled"].revision \in 1 .. MaxGeneration BY <1>1, <1>2, ObjectFields
    <2>3. dep' \in Deployments BY <1>9, <2>2 DEF TypeOK, Render, Deployments
    <2> QED BY <1>9, <2>1, <2>3 DEF TypeOK, Render, Reconciling, Begin
  <1>10. ASSUME NEW c \in Controllers, Sync(c) PROVE TypeOK'
    BY <1>2, <1>10 DEF TypeOK, Sync, Wakes
  <1>11. ASSUME NEW c \in Controllers, CallFails(c) PROVE TypeOK'
    <2>1. events' \in 0 .. MaxEvents BY <1>11, EventCounted DEF CallFails
    <2>2. pass' \in [Controllers -> Passes]
      BY <1>2, <1>11, StatusPass, IdlePass DEF CallFails
    <2> QED BY <1>11, <2>1, <2>2 DEF TypeOK, CallFails
  <1>12. CASE Restart
    <2>1. events' \in 0 .. MaxEvents BY <1>12, EventCounted DEF Restart
    <2>2. NoPass \in Passes BY NewObject DEF NoPass, Passes
    <2>3. groups' \subseteq AllControllerGroups BY <1>12 DEF Restart, ParseControllerGroups
    <2> QED BY <1>12, <2>1, <2>2, <2>3 DEF TypeOK, Restart
  <1>13. CASE Edit
    <2>1. events' \in 0 .. MaxEvents BY <1>13, EventCounted DEF Edit
    <2>2. object["source"].generation + 1 \in 1 .. MaxGeneration
      BY <1>1, <1>2, <1>13, ObjectFields, LimitAssumption DEF Edit
    <2>3. [object["source"] EXCEPT !.generation = @ + 1] \in Objects
      BY <1>1, <1>2, <2>2 DEF Objects
    <2> QED BY <1>13, <2>1, <2>3 DEF TypeOK, Edit, User, Operator
  <1>14. CASE Delete
    <2>1. events' \in 0 .. MaxEvents BY <1>14, EventCounted DEF Delete
    <2>2. [object["source"] EXCEPT !.deleting = TRUE] \in Objects BY <1>1, <1>2 DEF Objects
    <2>3. Settled([object["source"] EXCEPT !.deleting = TRUE]) \in Objects
      BY <2>2, SettledObject
    <2> QED BY <1>14, <2>1, <2>3 DEF TypeOK, Delete, User, Operator
  <1>15. CASE AddFinalizer
    <2>1. events' \in 0 .. MaxEvents BY <1>15, EventCounted DEF AddFinalizer
    <2>2. [object["source"] EXCEPT !.finalizers = @ \cup {"foreign"}] \in Objects
      BY <1>1, <1>2 DEF Objects, Finalizers
    <2> QED BY <1>15, <2>1, <2>2 DEF TypeOK, AddFinalizer, User, Operator
  <1>16. CASE DropFinalizer
    <2>1. [object["source"] EXCEPT !.finalizers = object["source"].finalizers \ {"foreign"}] \in Objects
      BY <1>1, <1>2 DEF Objects
    <2>2. Settled([object["source"] EXCEPT !.finalizers = object["source"].finalizers \ {"foreign"}]) \in Objects
      BY <2>1, SettledObject
    <2>3. object' = [object EXCEPT !["source"] = Settled([object["source"] EXCEPT
                                !.finalizers = object["source"].finalizers \ {"foreign"}])]
      BY <1>16 DEF DropFinalizer
    <2>4. object' \in [Controllers -> Objects] BY <1>1, <2>2, <2>3 DEF TypeOK
    <2> QED BY <1>16, <2>4 DEF TypeOK, DropFinalizer, User, Operator
  <1>17. CASE Collect
    <2>1. /\ [object["compiled"] EXCEPT !.exists = FALSE] \in Objects
          /\ [object["compiled"] EXCEPT !.deleting = TRUE] \in Objects
      BY <1>1, <1>2 DEF Objects
    <2>2. \/ object' = [object EXCEPT !["compiled"] = [@ EXCEPT !.exists = FALSE]]
          \/ object' = [object EXCEPT !["compiled"] = [@ EXCEPT !.deleting = TRUE]]
      BY <1>17 DEF Collect
    <2>3. object' \in [Controllers -> Objects] BY <1>1, <2>1, <2>2 DEF TypeOK
    <2> QED BY <1>17, <2>3 DEF TypeOK, Collect, User, Operator
  <1>18. CASE Rollout \/ PodReady \/ OlderPodGone \/ PodFails \/ Undeployed
    <2>1. events' \in 0 .. MaxEvents
      BY <1>18, EventCounted DEF TypeOK, Rollout, PodReady, OlderPodGone, PodFails, Undeployed
    <2>2. dep \in Deployments BY DEF TypeOK
    <2>3. dep' \in Deployments
      <3>1. CASE Rollout
        <4>1. dep.revision \in 0 .. MaxGeneration /\ (IF dep.ready = 1 THEN 1 ELSE dep.older) \in 0 .. 1
          BY <2>2, LimitAssumption DEF Deployments
        <4> DEFINE older == IF dep.ready = 1 THEN 1 ELSE dep.older
                   seen == [dep EXCEPT !.observed = dep.revision]
                   begun == [seen EXCEPT !.updated = 1, !.ready = 0]
        <4>2. dep' = [begun EXCEPT !.older = older] BY <3>1 DEF Rollout, Deployed
        <4>3. \A n \in 0 .. MaxGeneration : [dep EXCEPT !.observed = n] \in Deployments
          BY <2>2 DEF Deployments
        <4>4. seen \in Deployments BY <4>1, <4>3
        <4> HIDE DEF seen
        <4>5. begun \in Deployments
          <5> DEFINE pod == [seen EXCEPT !.updated = 1]
          <5>1. pod \in Deployments BY <4>4 DEF Deployments
          <5> HIDE DEF pod
          <5>2. [pod EXCEPT !.ready = 0] \in Deployments BY <5>1 DEF Deployments
          <5> QED BY <5>2 DEF pod
        <4> HIDE DEF begun
        <4>6. \A n \in 0 .. 1 : [begun EXCEPT !.older = n] \in Deployments
          BY <4>5 DEF Deployments
        <4> QED BY <4>1, <4>2, <4>6
      <3>2. CASE PodReady \/ OlderPodGone \/ PodFails
        BY <2>2, <3>2 DEF PodReady, OlderPodGone, PodFails, Deployed, Deployments
      <3>3. NoDeployment \in Deployments BY LimitAssumption DEF NoDeployment, Deployments
      <3> QED BY <1>18, <3>1, <3>2, <3>3 DEF Undeployed, Deployed
    <2>4. queued' \subseteq Controllers /\ UNCHANGED <<Operator, object>>
      BY <1>18 DEF TypeOK, Rollout, PodReady, OlderPodGone, PodFails, Undeployed, Deployed, Wakes
    <2> QED BY <2>1, <2>3, <2>4 DEF TypeOK, Operator
  <1> QED
    BY <1>1, <1>3, <1>4, <1>5, <1>6, <1>7, <1>8, <1>9, <1>10, <1>11, <1>12, <1>13, <1>14, <1>15,
       <1>16, <1>17, <1>18
    DEF Next, Source, Compiled, Kubernetes, Step

-----------------------------------------------------------------------------
(* What each kind of step does to the invariant.                            *)

\* The two controllers, and the numbers that the invariant compares.
LEMMA Numbers ==
  ASSUME TypeOK
  PROVE  /\ "source" \in Controllers /\ "compiled" \in Controllers
         /\ Controllers = {"source", "compiled"}
         /\ \A c \in Controllers :
               /\ object[c].generation \in Nat /\ object[c].revision \in Nat
               /\ cache[c].generation \in Nat /\ cache[c].revision \in Nat
               /\ observed(c) \in Nat /\ working(c) \in Nat
  <1>1. Controllers = {"source", "compiled"} BY DEF Controllers
  <1>2. ASSUME NEW c \in Controllers
        PROVE  /\ object[c].generation \in Nat /\ object[c].revision \in Nat
               /\ cache[c].generation \in Nat /\ cache[c].revision \in Nat
               /\ observed(c) \in Nat /\ working(c) \in Nat
    <2>1. object[c] \in Objects /\ cache[c] \in Objects /\ pass[c].old \in Objects
      BY ObjectTypes
    <2>2. object[c].available.observed \in Nat
      BY <2>1, ObjectFields, ConditionFields, LimitAssumption
    <2> QED BY <2>1, <2>2, ObjectFields, LimitAssumption DEF observed, working
  <1> QED BY <1>1, <1>2

\* A step that leaves the objects, their copies and the passes alone, and wakes no source
\* controller, changes nothing.
LEMMA QuietStep ==
  ASSUME TypeOK, Reporting, UNCHANGED <<kind, object, cache, pass>>,
         "source" \in queued' => "source" \in queued
  PROVE  Reporting'
  BY DEF Reporting, Order, CreatedOnce, FinalizerFirst, SourceSeen, CompiledSeen, Held, Ahead,
     Unpublished, observed, working

\* A pass begins with the copy in the cache.
LEMMA StartStep ==
  ASSUME TypeOK, Reporting, NEW c \in Controllers, NEW failed \in BOOLEAN,
         c \in queued, pass[c].pc = "idle", cache[c].exists,
         queued' = queued \ {c}, UNCHANGED <<kind, object, cache>>,
         ToStatus(c, cache[c], failed)
  PROVE  Reporting'
  <1>1. /\ pass'[c].pc = "status" /\ pass'[c].old = cache[c]
        /\ \A d \in Controllers : d # c => pass'[d] = pass[d]
    BY ObjectTypes, StatusPass
  <1>2. Order' BY <1>1, Numbers DEF Reporting, Order, observed, working
  <1>3. Object(FALSE).exists = FALSE BY NewObject
  <1>4. Unpublished => c = "source" /\ Unpublished'
    <2>1. CASE c = "source"
      <3>1. pass'["compiled"] = pass["compiled"] BY <1>1, <2>1, Numbers
      <3> QED BY <2>1, <3>1 DEF Unpublished
    <2>2. CASE c = "compiled" BY <1>3, <2>2 DEF Unpublished
    <2> QED BY <2>1, <2>2, Numbers
  <1>5. CreatedOnce' /\ FinalizerFirst' BY <1>4 DEF Reporting, CreatedOnce, FinalizerFirst
  <1>6. SourceSeen'
    <2>1. CASE c = "source"
      BY <1>1, <2>1, Numbers DEF Reporting, SourceSeen, Held, Ahead, observed, working
    <2>2. CASE c # "source"
      <3>1. Ahead => Ahead' BY <1>4, <2>2 DEF Ahead
      <3>2. pass'["source"] = pass["source"] BY <1>1, <2>2, Numbers
      <3> QED BY <3>1, <3>2 DEF Reporting, SourceSeen, Held, observed, working
    <2> QED BY <2>1, <2>2
  <1>7. CompiledSeen'
    BY <1>1, Numbers DEF Reporting, CompiledSeen, observed, working
  <1> QED BY <1>2, <1>5, <1>6, <1>7 DEF Reporting

\* Users, and others that write finalizers, know nothing of the cache.
LEMMA OwnerStep ==
  ASSUME TypeOK, Reporting, UNCHANGED <<kind, cache, pass, queued>>,
         object'["compiled"] = object["compiled"],
         object'["source"].generation \in Nat,
         object'["source"].generation >= object["source"].generation,
         object'["source"].available = object["source"].available,
         object["source"].deleting => object'["source"].deleting,
         object'["source"].exists => object["source"].exists,
         "cleanup" \in object["source"].finalizers => "cleanup" \in object'["source"].finalizers
  PROVE  Reporting'
  <1>1. Unpublished' <=> Unpublished BY DEF Unpublished
  <1>2. observed("source")' = observed("source") /\ observed("compiled")' = observed("compiled")
    BY DEF observed
  <1>3. Order' BY <1>2, Numbers DEF Reporting, Order, observed, working
  <1>4. CreatedOnce' /\ FinalizerFirst' BY <1>1 DEF Reporting, CreatedOnce, FinalizerFirst
  <1>5. SourceSeen' /\ CompiledSeen'
    BY <1>1, <1>2 DEF Reporting, SourceSeen, CompiledSeen, Held, Ahead, working
  <1> QED BY <1>3, <1>4, <1>5 DEF Reporting

\* Garbage collection only takes what the source controller will not create again.
LEMMA CollectStep ==
  ASSUME TypeOK, Reporting, Collect
  PROVE  Reporting'
  <1> DEFINE o == object["compiled"]
  <1>1. o \in Objects /\ "compiled" \in Controllers BY ObjectTypes, Numbers
  <1>2. /\ o.exists /\ ~object["source"].exists /\ ~cache["source"].exists
        /\ UNCHANGED <<kind, cache, pass, queued>>
        /\ object' = [object EXCEPT !["compiled"] = [o EXCEPT !.exists = FALSE]]
           \/ object' = [object EXCEPT !["compiled"] = [o EXCEPT !.deleting = TRUE]]
    BY DEF Collect, User, Operator
  <1>3. /\ object'["source"] = object["source"]
        /\ object'["compiled"].generation = o.generation
        /\ object'["compiled"].revision = o.revision
        /\ object'["compiled"].available = o.available
    <2>1. ASSUME NEW p \in Objects, object' = [object EXCEPT !["compiled"] = p]
          PROVE  object'["source"] = object["source"] /\ object'["compiled"] = p
      BY <1>1, <2>1, Numbers DEF TypeOK
    <2>2. /\ [o EXCEPT !.exists = FALSE] \in Objects /\ [o EXCEPT !.deleting = TRUE] \in Objects
          /\ \A p \in {[o EXCEPT !.exists = FALSE], [o EXCEPT !.deleting = TRUE]} :
                p.generation = o.generation /\ p.revision = o.revision /\ p.available = o.available
      BY <1>1 DEF Objects
    <2> QED BY <1>2, <2>1, <2>2
  <1>4. ~Unpublished BY <1>2, NewObject DEF Unpublished
  <1>5. observed("source")' = observed("source") /\ observed("compiled")' = observed("compiled")
    BY <1>3 DEF observed
  <1>6. Order' BY <1>2, <1>3, <1>5, Numbers DEF Reporting, Order, working
  <1>7. CreatedOnce' /\ FinalizerFirst'
    BY <1>2, <1>3, <1>4 DEF Reporting, CreatedOnce, FinalizerFirst
  <1>8. SourceSeen' /\ CompiledSeen'
    BY <1>2, <1>3, <1>4, <1>5 DEF Reporting, SourceSeen, CompiledSeen, Held, Ahead, working
  <1> QED BY <1>6, <1>7, <1>8 DEF Reporting

\* A cache that catches up has everything that was reported.
LEMMA SyncStep ==
  ASSUME TypeOK, Reporting, NEW n \in Controllers, Sync(n)
  PROVE  Reporting'
  <1>1. /\ cache[n] # object[n] /\ cache'[n] = object[n]
        /\ \A d \in Controllers : d # n => cache'[d] = cache[d]
        /\ UNCHANGED <<kind, object, pass>>
    BY DEF Sync, TypeOK
  <1>2. /\ observed("source")' = observed("source") /\ observed("compiled")' = observed("compiled")
        /\ working("source")' = working("source") /\ working("compiled")' = working("compiled")
    BY <1>1 DEF observed, working
  <1>3. Order' BY <1>1, <1>2, Numbers DEF Reporting, Order
  <1>4. CASE n = "source"
    <2>1. Unpublished' <=> Unpublished BY <1>1, <1>4, Numbers DEF Unpublished
    <2>2. CreatedOnce' /\ FinalizerFirst'
      BY <1>1, <1>4, <2>1 DEF Reporting, CreatedOnce, FinalizerFirst
    <2>3. SourceSeen' /\ CompiledSeen'
      BY <1>1, <1>2, <1>4, Numbers
      DEF Reporting, Order, SourceSeen, CompiledSeen, Held
    <2> QED BY <1>3, <2>2, <2>3 DEF Reporting
  <1>5. CASE n = "compiled"
    <2>1. ~Unpublished BY <1>1, <1>5 DEF Unpublished
    <2>2. CreatedOnce' /\ FinalizerFirst'
      BY <1>1, <1>5, <2>1, Numbers DEF Reporting, CreatedOnce, FinalizerFirst
    <2>3. SourceSeen'
      BY <1>1, <1>2, <1>5, <2>1, Numbers DEF Reporting, SourceSeen, Held, Ahead
    <2>4. CompiledSeen'
      BY <1>1, <1>2, <1>5, Numbers DEF Reporting, Order, CompiledSeen
    <2> QED BY <1>3, <2>2, <2>3, <2>4 DEF Reporting
  <1> QED BY <1>4, <1>5, Numbers

\* So has a new process.
LEMMA RestartStep ==
  ASSUME TypeOK, Reporting, Restart
  PROVE  Reporting'
  <1>1. /\ UNCHANGED <<kind, object>> /\ cache' = object
        /\ pass'["source"].pc = "idle" /\ pass'["compiled"].pc = "idle"
    BY Numbers, Zenon DEF Restart, NoPass
  <1>2. observed("source")' = observed("source") /\ observed("compiled")' = observed("compiled")
    BY <1>1 DEF observed
  <1>3. Order' BY <1>1, <1>2, Numbers DEF Reporting, Order
  <1>4. Unpublished => Unpublished' BY <1>1 DEF Unpublished
  <1>5. CreatedOnce' /\ FinalizerFirst'
    BY <1>1, <1>4 DEF Reporting, CreatedOnce, FinalizerFirst
  <1>6. SourceSeen' /\ CompiledSeen'
    BY <1>1, <1>2, Numbers DEF Reporting, Order, SourceSeen, CompiledSeen
  <1> QED BY <1>3, <1>5, <1>6 DEF Reporting

\* A pass whose status could not be written has changed nothing and is repeated.
LEMMA ReportFails ==
  ASSUME TypeOK, Reporting, NEW c \in Controllers, UNCHANGED <<kind, object, cache>>,
         pass[c].pc = "status", pass' = Idle(c), queued' = queued \cup {c}
  PROVE  Reporting'
  <1>1. pass'[c].pc = "idle" /\ \A d \in Controllers : d # c => pass'[d] = pass[d] BY IdlePass
  <1>2. Order' BY <1>1, Numbers DEF Reporting, Order, observed, working
  <1>3. Unpublished => c = "source" /\ Unpublished' BY <1>1, Numbers DEF Unpublished
  <1>4. CreatedOnce' /\ FinalizerFirst' BY <1>3 DEF Reporting, CreatedOnce, FinalizerFirst
  <1>5. SourceSeen'
    <2>1. CASE c = "source" BY <1>1, <2>1 DEF Reporting, SourceSeen, Held, observed
    <2>2. CASE c # "source"
      <3>1. Ahead => Ahead' BY <1>3, <2>2 DEF Ahead
      <3>2. pass'["source"] = pass["source"] BY <1>1, <2>2, Numbers
      <3> QED BY <3>1, <3>2 DEF Reporting, SourceSeen, Held, observed, working
    <2> QED BY <2>1, <2>2
  <1>6. CompiledSeen' BY <1>1, Numbers DEF Reporting, CompiledSeen, observed, working
  <1> QED BY <1>2, <1>4, <1>5, <1>6 DEF Reporting

\* The status says what the pass worked for.  Only the answer to a patch is newer than the cache,
\* and a pass that got one is not repeated.
LEMMA StatusStep ==
  ASSUME TypeOK, Reporting, NEW c \in Controllers, reconcileStatus(c)
  PROVE  Reporting'
  <1>1. \A d \in Controllers :
            /\ object'[d].exists = object[d].exists /\ object'[d].deleting = object[d].deleting
            /\ object'[d].generation = object[d].generation
            /\ object'[d].revision = object[d].revision
            /\ object'[d].finalizers = object[d].finalizers
    BY ReportStep DEF SameButStatus
  <1>2. \A d \in Controllers :
            /\ cache'[d].exists = cache[d].exists /\ cache'[d].deleting = cache[d].deleting
            /\ cache'[d].generation = cache[d].generation
            /\ cache'[d].finalizers = cache[d].finalizers
    BY ReportStep DEF SameButStatus
  <1>3. /\ pass[c].pc = "status" /\ pass'[c].pc = "idle" /\ kind' = kind
        /\ \A d \in Controllers : d # c =>
                /\ object'[d] = object[d] /\ cache'[d] = cache[d] /\ pass'[d] = pass[d]
    BY ReportStep, IdlePass
  <1>4. observed(c)' = observed(c) \/ observed(c)' = working(c)
    BY ReportStep DEF observed
  <1>5. \A d \in Controllers : d # c => observed(d)' = observed(d) /\ working(d)' = working(d)
    BY <1>3 DEF observed, working
  <1>6. Order' BY <1>1, <1>2, <1>3, <1>4, <1>5, Numbers DEF Reporting, Order
  <1>7. Unpublished => c = "source" /\ Unpublished'
    <2>1. CASE c = "source"
      <3>1. /\ object'["compiled"] = object["compiled"] /\ cache'["compiled"] = cache["compiled"]
            /\ pass'["compiled"] = pass["compiled"]
        BY <1>3, <2>1, Numbers
      <3> QED BY <2>1, <3>1 DEF Unpublished
    <2>2. CASE c = "compiled" BY <1>3, <2>2 DEF Unpublished
    <2> QED BY <2>1, <2>2, Numbers
  <1>8. CreatedOnce' /\ FinalizerFirst'
    BY <1>1, <1>2, <1>3, <1>7, Numbers DEF Reporting, CreatedOnce, FinalizerFirst
  <1>9. SourceSeen'
    <2>1. Held' <=> Held BY <1>1, <1>3, Numbers DEF Held
    <2>2. CASE c = "source"
      <3>1. CASE observed("source")' = observed("source")
        BY <1>2, <1>3, <2>1, <2>2, <3>1, Numbers DEF Reporting, SourceSeen
      <3>2. CASE observed("source")' = working("source") /\ object' # object
        <4>1. Ahead /\ ~pass["source"].failed => Ahead'
          BY <1>2, <1>3, <1>7, <2>2, <3>2, ReportStep DEF Ahead
        <4> QED BY <1>2, <1>3, <2>1, <2>2, <3>2, <4>1, Numbers DEF Reporting, SourceSeen
      <3>3. object' = object => observed("source")' = observed("source") BY DEF observed
      <3> QED BY <1>4, <2>2, <3>1, <3>2, <3>3
    <2>3. CASE c # "source"
      <3>1. ~Ahead BY <1>7, <2>3 DEF Ahead
      <3>2. pass'["source"] = pass["source"] /\ cache'["source"] = cache["source"]
        BY <1>3, <2>3, Numbers
      <3> QED BY <1>5, <2>1, <2>3, <3>1, <3>2, Numbers DEF Reporting, SourceSeen
    <2> QED BY <2>2, <2>3
  <1>10. CompiledSeen'
    BY <1>2, <1>3, <1>4, <1>5, Numbers DEF Reporting, CompiledSeen
  <1> QED BY <1>6, <1>8, <1>9, <1>10 DEF Reporting

\* A patch of the finalizers works for the generation that is stored, and comes before anything
\* is published or after the Shard is deleted.
LEMMA FinalizerStep ==
  ASSUME TypeOK, Reporting, ensureFinalizer \/ removeFinalizer
  PROVE  Reporting'
  <1>1. cache["source"].finalizers \in SUBSET Finalizers
    BY Numbers, ObjectTypes, ObjectFields
  <1>2. PICK list \in SUBSET Finalizers :
          /\ PatchFinalizers(list)
          /\ kind = "Shard" /\ "source" \in queued /\ queued' = queued \ {"source"}
          /\ pass["source"].pc = "idle" /\ UNCHANGED <<kind, cache>>
          /\ \/ "cleanup" \in list /\ "cleanup" \notin cache["source"].finalizers
             \/ cache["source"].deleting
    BY <1>1 DEF ensureFinalizer, removeFinalizer, Reconciling, Begin, Finalizers
  <1>3. ~Ahead BY <1>2 DEF Ahead
  <1>4. /\ object'["compiled"] = object["compiled"] /\ pass'["compiled"] = pass["compiled"]
        /\ object'["source"].exists => object["source"].exists
        /\ object'["source"].generation = object["source"].generation
        /\ object'["source"].deleting = object["source"].deleting
        /\ object'["source"].available = object["source"].available
        /\ pass'["source"].pc = "status"
        /\ \/ object' = object /\ pass'["source"].old = cache["source"]
           \/ /\ object'["source"].finalizers = list
              /\ pass'["source"].old = object'["source"] /\ ~pass'["source"].failed
    BY <1>2, PatchedFinalizers
  <1>5. /\ observed("source")' = observed("source") /\ observed("compiled")' = observed("compiled")
        /\ working("compiled")' = working("compiled")
        /\ \/ working("source")' = cache["source"].generation
           \/ working("source")' = object["source"].generation /\ ~pass'["source"].failed
    BY <1>4 DEF observed, working
  <1>6. Order' BY <1>2, <1>4, <1>5, Numbers DEF Reporting, Order
  <1>7. Unpublished => Unpublished' BY <1>2, <1>4 DEF Unpublished
  <1>8. CreatedOnce' BY <1>2, <1>4, <1>7 DEF Reporting, CreatedOnce
  <1>9. Held' <=> Held BY <1>2, <1>4 DEF Held
  <1>10. cache["source"].deleting => Held BY <1>2 DEF Reporting, Order, Held
  <1>11. FinalizerFirst'
    BY <1>2, <1>4, <1>7, <1>9, <1>10 DEF Reporting, FinalizerFirst, Held
  <1>12. SourceSeen'
    <2>1. SUFFICES ASSUME ~Held PROVE SourceSeen' BY <1>9 DEF SourceSeen
    <2>2. observed("source") <= cache["source"].generation
      BY <1>2, <1>3, <2>1 DEF Reporting, SourceSeen
    <2>3. "cleanup" \notin cache["source"].finalizers BY <1>2, <1>10, <2>1
    <2>4. Unpublished BY <1>2, <2>1, <2>3 DEF Reporting, FinalizerFirst, Held
    <2>5. Ahead' BY <1>2, <1>7, <2>3, <2>4 DEF Ahead
    <2> QED BY <1>2, <1>4, <1>5, <2>2, <2>5, Numbers DEF Reporting, Order, SourceSeen
  <1>13. CompiledSeen' BY <1>2, <1>4, <1>5 DEF Reporting, CompiledSeen
  <1> QED BY <1>6, <1>8, <1>11, <1>12, <1>13 DEF Reporting

\* A render input is made for a generation that the cache has.
LEMMA PublishKeeps ==
  ASSUME TypeOK, Reporting, Publish
  PROVE  Reporting'
  <1>1. /\ "source" \in queued /\ pass["source"].pc = "idle" /\ UNCHANGED <<kind, cache>>
        /\ cache["source"].exists
        /\ kind = "Shard" => "cleanup" \in cache["source"].finalizers
    BY DEF Publish, Reconciling, Begin, Ignored
  <1>2. Order BY DEF Reporting
  <1>3. ~Ahead BY <1>1 DEF Ahead
  <1>4. /\ object'["source"] = object["source"] /\ pass'["compiled"] = pass["compiled"]
        /\ pass'["source"].pc = "status" /\ pass'["source"].old = cache["source"]
    BY <1>2, PublishStep
  <1>5. /\ observed("source")' = observed("source") /\ working("compiled")' = working("compiled")
        /\ working("source")' = cache["source"].generation
    BY <1>4 DEF observed, working
  <1>6. FinalizerFirst' BY <1>1, <1>4 DEF Reporting, FinalizerFirst
  <1>7. SourceSeen'
    BY <1>1, <1>3, <1>4, <1>5, Numbers DEF Reporting, SourceSeen, Held
  <1>8. CASE object' = object
    <2>1. Order' BY <1>1, <1>2, <1>4, <1>5, <1>8, Numbers DEF Order, observed
    <2>2. CreatedOnce' /\ CompiledSeen'
      BY <1>1, <1>4, <1>5, <1>8 DEF Reporting, CreatedOnce, Unpublished, CompiledSeen, observed
    <2> QED BY <1>6, <1>7, <2>1, <2>2 DEF Reporting
  <1>9. CASE /\ object["compiled"].exists /\ object'["compiled"].exists
             /\ object'["compiled"].generation = object["compiled"].generation + 1
             /\ object'["compiled"].revision = cache["source"].generation
             /\ object["compiled"].revision # cache["source"].generation
             /\ object'["compiled"].available = object["compiled"].available
    <2>1. observed("compiled")' = observed("compiled") BY <1>9 DEF observed
    <2>2. Order' BY <1>1, <1>2, <1>4, <1>5, <1>9, <2>1, Numbers DEF Order
    <2>3. CreatedOnce' /\ CompiledSeen'
      BY <1>1, <1>4, <1>5, <1>9, <2>1 DEF Reporting, CreatedOnce, CompiledSeen
    <2> QED BY <1>6, <1>7, <2>2, <2>3 DEF Reporting
  <1>10. CASE /\ ~object["compiled"].exists /\ object'["compiled"].exists
              /\ object'["compiled"].generation = 1
              /\ object'["compiled"].revision = cache["source"].generation
              /\ object'["compiled"].available.observed = 0
    <2>1. Unpublished BY <1>1, <1>10 DEF Reporting, CreatedOnce
    <2>2. pass["compiled"].pc = "idle" /\ cache["compiled"].generation = 1
      BY <2>1, NewObject DEF Unpublished
    <2>3. observed("compiled")' = 0 BY <1>10 DEF observed
    <2>4. cache["source"].generation \in 1 .. MaxGeneration BY Numbers, ObjectTypes, ObjectFields
    <2>5. Order' BY <1>1, <1>2, <1>4, <1>5, <1>10, <2>2, <2>3, <2>4, Numbers, LimitAssumption DEF Order
    <2>6. CreatedOnce' /\ CompiledSeen'
      BY <1>1, <1>4, <1>10, <2>2, <2>3 DEF CreatedOnce, CompiledSeen
    <2> QED BY <1>6, <1>7, <2>5, <2>6 DEF Reporting
  <1> QED BY <1>2, <1>8, <1>9, <1>10, PublishStep

-----------------------------------------------------------------------------

\* The first step of the operator finds a source object and nothing else.
LEMMA InitiallyHolds ==
  ASSUME Init
  PROVE  IInv
  <1>1. /\ Controllers = {"source", "compiled"} /\ "source" # "compiled"
        /\ object["source"] = Object(TRUE) /\ object["compiled"] = Object(FALSE)
        /\ \A c \in Controllers : cache[c] = Object(FALSE) /\ pass[c] = NoPass
    BY DEF Init, Controllers
  <1>2. NoPass \in Passes /\ NoPass.pc = "idle" BY NewObject DEF NoPass, Passes
  <1>3. NoDeployment \in Deployments BY LimitAssumption DEF NoDeployment, Deployments
  <1>4. \A c \in Controllers : Object(c = "source") \in Objects BY NewObject
  <1>5. TypeOK
    <2>1. object \in [Controllers -> Objects] BY <1>4 DEF Init
    <2>2. cache \in [Controllers -> Objects] BY NewObject DEF Init
    <2>3. pass \in [Controllers -> Passes] BY <1>2 DEF Init
    <2>4. events \in 0 .. MaxEvents BY LimitAssumption DEF Init
    <2> QED BY <1>3, <2>1, <2>2, <2>3, <2>4 DEF Init, TypeOK
  <1>6. \A c \in Controllers : /\ object[c].generation = 1 /\ cache[c].generation = 1
                               /\ observed(c) = 0 /\ pass[c].pc = "idle"
    BY <1>1, <1>2, NewObject, Zenon DEF observed
  <1>7. object["compiled"].revision = 1 /\ ~cache["source"].deleting BY <1>1, NewObject, Zenon
  <1>8. Unpublished BY <1>1, <1>6 DEF Unpublished
  <1>9. "cleanup" \notin cache["source"].finalizers BY <1>1, NewObject, Zenon
  <1>10. Order
    <2>1. "source" \in Controllers /\ "compiled" \in Controllers BY <1>1
    <2>2. \A c \in Controllers : /\ cache[c].generation <= object[c].generation
                                 /\ observed(c) <= object[c].generation
      BY <1>6
    <2>3. /\ object["compiled"].generation <= object["compiled"].revision
          /\ object["compiled"].revision <= cache["source"].generation
      BY <1>6, <1>7, <2>1
    <2> QED BY <1>6, <1>7, <2>2, <2>3 DEF Order
  <1>11. CreatedOnce /\ FinalizerFirst BY <1>8, <1>9 DEF CreatedOnce, FinalizerFirst
  <1>12. SourceSeen /\ CompiledSeen BY <1>1, <1>6 DEF SourceSeen, CompiledSeen
  <1> QED BY <1>5, <1>10, <1>11, <1>12 DEF IInv, Reporting

\* A step of somebody who writes the source object only.
LEMMA UserStep ==
  ASSUME TypeOK, Reporting, Edit \/ Delete \/ AddFinalizer \/ DropFinalizer
  PROVE  Reporting'
  <1> DEFINE o == object["source"]
  <1>1. o \in Objects /\ "source" \in Controllers BY Numbers, ObjectTypes
  <1>2. o.generation \in Nat BY Numbers
  <1>3. UNCHANGED <<kind, cache, pass, queued>>
    BY DEF Edit, Delete, AddFinalizer, DropFinalizer, User, Operator
  <1>4. ASSUME NEW p \in Objects, object' = [object EXCEPT !["source"] = p],
               p.generation >= o.generation, p.available = o.available,
               o.deleting => p.deleting, p.exists => o.exists,
               "cleanup" \in o.finalizers => "cleanup" \in p.finalizers
        PROVE  Reporting'
    <2>1. object'["source"] = p /\ object'["compiled"] = object["compiled"]
      BY <1>4, Numbers DEF TypeOK
    <2>2. p.generation \in Nat BY ObjectFields, LimitAssumption
    <2> QED BY <1>3, <1>4, <2>1, <2>2, OwnerStep
  <1>5. CASE Edit
    <2> DEFINE p == [o EXCEPT !.generation = @ + 1]
    <2>1. o.generation + 1 \in 1 .. MaxGeneration
      BY <1>1, <1>5, ObjectFields, LimitAssumption DEF Edit
    <2>2. /\ p \in Objects /\ p.generation = o.generation + 1 /\ p.available = o.available
          /\ p.deleting = o.deleting /\ p.exists = o.exists /\ p.finalizers = o.finalizers
      BY <1>1, <2>1 DEF Objects
    <2>3. object' = [object EXCEPT !["source"] = p] BY <1>5 DEF Edit
    <2>4. /\ p.generation >= o.generation
          /\ "cleanup" \in o.finalizers => "cleanup" \in p.finalizers
      BY <1>2, <2>2
    <2> HIDE DEF p
    <2> QED BY <1>4, <2>2, <2>3, <2>4
  <1>6. CASE Delete
    <2> DEFINE p == [o EXCEPT !.deleting = TRUE]
    <2>1. /\ p \in Objects /\ p.generation = o.generation /\ p.available = o.available
          /\ p.deleting /\ p.exists = o.exists /\ p.finalizers = o.finalizers
      BY <1>1 DEF Objects
    <2>2. object' = [object EXCEPT !["source"] = Settled(p)] BY <1>6 DEF Delete
    <2> HIDE DEF p
    <2>3. /\ Settled(p) \in Objects /\ Settled(p).generation >= o.generation
          /\ Settled(p).available = o.available /\ Settled(p).deleting
          /\ Settled(p).exists => o.exists
          /\ "cleanup" \in o.finalizers => "cleanup" \in Settled(p).finalizers
      BY <1>2, <2>1, SettledObject
    <2> QED BY <1>4, <2>2, <2>3
  <1>7. CASE AddFinalizer
    <2> DEFINE p == [o EXCEPT !.finalizers = o.finalizers \cup {"foreign"}]
    <2>1. /\ p \in Objects /\ p.generation = o.generation /\ p.available = o.available
          /\ p.deleting = o.deleting /\ p.exists = o.exists
          /\ p.finalizers = o.finalizers \cup {"foreign"}
      BY <1>1 DEF Objects, Finalizers
    <2>2. object' = [object EXCEPT !["source"] = p] BY <1>7 DEF AddFinalizer
    <2>3. /\ p.generation >= o.generation
          /\ "cleanup" \in o.finalizers => "cleanup" \in p.finalizers
      BY <1>2, <2>1
    <2> HIDE DEF p
    <2> QED BY <1>4, <2>1, <2>2, <2>3
  <1>8. CASE DropFinalizer
    <2> DEFINE p == [o EXCEPT !.finalizers = o.finalizers \ {"foreign"}]
    <2>1. /\ p \in Objects /\ p.generation = o.generation /\ p.available = o.available
          /\ p.deleting = o.deleting /\ p.exists = o.exists
          /\ p.finalizers = o.finalizers \ {"foreign"}
      BY <1>1 DEF Objects
    <2>2. object' = [object EXCEPT !["source"] = Settled(p)] BY <1>8 DEF DropFinalizer
    <2> HIDE DEF p
    <2>3. /\ Settled(p) \in Objects /\ Settled(p).generation >= o.generation
          /\ Settled(p).available = o.available /\ Settled(p).deleting = o.deleting
          /\ Settled(p).exists => o.exists
          /\ "cleanup" \in o.finalizers => "cleanup" \in Settled(p).finalizers
      BY <1>2, <2>1, SettledObject
    <2> QED BY <1>4, <2>2, <2>3
  <1> QED BY <1>5, <1>6, <1>7, <1>8

\* Every step keeps the invariant.
LEMMA InvariantStep ==
  ASSUME IInv, [Next]_vars
  PROVE  IInv'
  <1>0. TypeOK /\ Reporting BY DEF IInv
  <1>1. TypeOK' BY <1>0, TypesStep DEF Reporting
  <1> SUFFICES Reporting' BY <1>1 DEF IInv
  <1> USE <1>0
  <1>2. CASE UNCHANGED vars BY <1>2, QuietStep DEF vars
  <1>3. ASSUME NEW c \in Controllers, Ignore(c) PROVE Reporting'
    BY <1>3, QuietStep DEF Ignore, Begin
  <1>4. ASSUME NEW c \in Controllers, LeaveDeleted(c) PROVE Reporting'
    BY <1>4, StartStep DEF LeaveDeleted, Reconciling, Begin, Ignored
  <1>5. ASSUME NEW c \in Controllers, reconcileStatus(c) PROVE Reporting'
    BY <1>5, StatusStep
  <1>6. CASE ensureFinalizer \/ removeFinalizer BY <1>6, FinalizerStep
  <1>7. CASE Publish BY <1>7, PublishKeeps
  <1>8. CASE Render BY <1>8, Numbers, StartStep DEF Render, Reconciling, Begin, Ignored
  <1>9. ASSUME NEW c \in Controllers, Sync(c) PROVE Reporting' BY <1>9, SyncStep
  <1>10. ASSUME NEW c \in Controllers, CallFails(c) PROVE Reporting'
    <2>1. CASE /\ c \in queued /\ pass[c].pc = "idle" /\ ~Ignored(cache[c])
               /\ ToStatus(c, cache[c], TRUE) /\ queued' = queued \ {c}
      BY <1>10, <2>1, StartStep DEF CallFails, Ignored
    <2>2. CASE /\ pass[c].pc = "status" /\ pass' = Idle(c) /\ queued' = queued \cup {c}
      BY <1>10, <2>2, ReportFails DEF CallFails
    <2> QED BY <1>10, <2>1, <2>2 DEF CallFails
  <1>11. CASE Restart BY <1>11, RestartStep
  <1>12. CASE Edit \/ Delete \/ AddFinalizer \/ DropFinalizer BY <1>12, UserStep
  <1>13. CASE Collect BY <1>13, CollectStep
  <1>14. CASE Rollout \/ PodReady \/ OlderPodGone \/ PodFails \/ Undeployed
    <2>1. UNCHANGED <<Operator, object>> /\ ("source" \in queued' => "source" \in queued)
      BY <1>14
      DEF Rollout, PodReady, OlderPodGone, PodFails, Undeployed, Deployed, Wakes, Controllers
    <2> QED BY <2>1, QuietStep DEF Operator
  <1> QED
    BY <1>2, <1>3, <1>4, <1>5, <1>6, <1>7, <1>8, <1>9, <1>10, <1>11, <1>12, <1>13, <1>14, Numbers
    DEF Next, Source, Compiled, Kubernetes, Step

\* The invariant holds in every state.
LEMMA InvariantHolds == Spec => []IInv
  <1>1. Init => IInv BY InitiallyHolds
  <1>2. IInv /\ [Next]_vars => IInv' BY InvariantStep
  <1> QED BY <1>1, <1>2, PTL DEF Spec

\* Types are kept, although the generation of a render input is counted by the API server: it is
\* built at most once for every generation of the source object.
THEOREM TypeCorrect == Spec => []TypeOK
  <1>1. IInv => TypeOK BY DEF IInv
  <1> QED BY <1>1, InvariantHolds, PTL

-----------------------------------------------------------------------------

\* A report changes only to one for the generation its pass works for.
LEMMA ReportsFollow ==
  ASSUME IInv, [Next]_vars
  PROVE  \A c \in Controllers :
               \/ ~object[c].exists
               \/ object'[c].available.observed = observed(c)
               \/ pass[c].pc = "status" /\ object'[c].available.observed = working(c)
  <1> DEFINE Reports == \A c \in Controllers : object'[c].available = object[c].available
             Goal == \A c \in Controllers :
                        \/ ~object[c].exists
                        \/ object'[c].available.observed = observed(c)
                        \/ pass[c].pc = "status" /\ object'[c].available.observed = working(c)
  <1> SUFFICES Goal OBVIOUS
  <1>1. TypeOK /\ Order BY DEF IInv, Reporting
  <1>2. object["source"] \in Objects /\ object["compiled"] \in Objects BY <1>1, Numbers, ObjectTypes
  <1>3. Reports => Goal BY DEF observed
  <1>4. CASE object' = object BY <1>3, <1>4
  <1>5. ASSUME NEW c \in Controllers, reconcileStatus(c) PROVE Goal
    <2>2. \/ object'[c].available = object[c].available
          \/ pass[c].pc = "status" /\ object'[c].available.observed = working(c)
      BY <1>1, <1>5, ReportStep
    <2>3. \A d \in Controllers : d # c => object'[d] = object[d] BY <1>1, <1>5, ReportStep
    <2> QED BY <2>2, <2>3 DEF observed
  <1>6. CASE ensureFinalizer \/ removeFinalizer
    <2>1. cache["source"].finalizers \in SUBSET Finalizers
      BY <1>1, Numbers, ObjectTypes, ObjectFields
    <2>2. PICK list \in SUBSET Finalizers :
            PatchFinalizers(list)
      BY <1>6, <2>1 DEF ensureFinalizer, removeFinalizer, Finalizers
    <2>3. Reports BY <1>1, <2>2, Numbers, PatchedFinalizers
    <2> QED BY <1>3, <2>3
  <1>7. CASE Publish
    <2>2. object["compiled"].exists => object'["compiled"].available = object["compiled"].available
      BY <1>1, <1>7, PublishStep
    <2>3. object'["source"] = object["source"] BY <1>1, <1>7, PublishStep
    <2> QED BY <1>1, <2>2, <2>3, Numbers DEF observed
  <1>8. CASE Edit
    <2>1. Reports BY <1>1, <1>2, <1>8, Numbers DEF Edit, TypeOK, Objects
    <2> QED BY <1>3, <2>1
  <1>9. CASE Delete
    <2> DEFINE p == [object["source"] EXCEPT !.deleting = TRUE]
    <2>1. p \in Objects /\ p.available = object["source"].available
      BY <1>2 DEF Objects
    <2>2. object' = [object EXCEPT !["source"] = Settled(p)] BY <1>9 DEF Delete
    <2> HIDE DEF p
    <2>3. Settled(p).available = p.available
      BY <2>1, SettledObject
    <2>4. Reports BY <1>1, <2>1, <2>2, <2>3, Numbers DEF TypeOK
    <2> QED BY <1>3, <2>4
  <1>10. CASE AddFinalizer
    <2>1. Reports BY <1>1, <1>2, <1>10, Numbers DEF AddFinalizer, TypeOK, Objects
    <2> QED BY <1>3, <2>1
  <1>11. CASE DropFinalizer
    <2> DEFINE p == [object["source"] EXCEPT !.finalizers = object["source"].finalizers \ {"foreign"}]
    <2>1. p \in Objects /\ p.available = object["source"].available BY <1>2 DEF Objects
    <2>2. object' = [object EXCEPT !["source"] = Settled(p)] BY <1>11 DEF DropFinalizer
    <2> HIDE DEF p
    <2>3. Settled(p).available = p.available BY <2>1, SettledObject
    <2>4. Reports BY <1>1, <2>1, <2>2, <2>3, Numbers DEF TypeOK
    <2> QED BY <1>3, <2>4
  <1>12. CASE Collect
    <2> DEFINE o == object["compiled"]
    <2>1. \A p \in {[o EXCEPT !.exists = FALSE], [o EXCEPT !.deleting = TRUE]} :
              p.available = o.available
      BY <1>2 DEF Objects
    <2>2. \E p \in {[o EXCEPT !.exists = FALSE], [o EXCEPT !.deleting = TRUE]} :
              object' = [object EXCEPT !["compiled"] = p]
      BY <1>12 DEF Collect
    <2> HIDE DEF o
    <2>3. PICK p : p.available = o.available /\ object' = [object EXCEPT !["compiled"] = p]
      BY <2>1, <2>2
    <2>4. Reports BY <1>1, <2>3, Numbers DEF TypeOK, o
    <2> QED BY <1>3, <2>4
  <1> HIDE DEF Goal
  <1>13. ASSUME NEW c \in Controllers, Ignore(c) \/ LeaveDeleted(c) \/ Sync(c) \/ CallFails(c)
         PROVE  Goal
    BY <1>4, <1>13 DEF Ignore, LeaveDeleted, Sync, CallFails
  <1>14. CASE Render \/ Restart BY <1>4, <1>14 DEF Render, Restart
  <1>15. CASE Rollout \/ PodReady \/ OlderPodGone \/ PodFails \/ Undeployed
    BY <1>4, <1>15 DEF Rollout, PodReady, OlderPodGone, PodFails, Undeployed, Deployed
  <1>16. CASE UNCHANGED vars BY <1>4, <1>16 DEF vars
  <1>17. CASE Step("source") \/ Step("compiled") BY <1>1, <1>5, <1>13, <1>17, Numbers DEF Step
  <1> QED
    BY <1>6, <1>7, <1>8, <1>9, <1>10, <1>11, <1>12, <1>13, <1>14, <1>15, <1>16, <1>17
    DEF Next, Source, Compiled, Kubernetes

\* The finalizers of the source object after a step, and what the cache shows of them.
LEMMA WindowStep ==
  ASSUME IInv, Window, [Next]_vars
  PROVE  /\ Window'
         /\ object["compiled"].exists /\ "foreign" \in object["source"].finalizers
            => "foreign" \in object'["source"].finalizers \/ DropFinalizer
  <1> DEFINE now == object["source"].finalizers
             next == object'["source"].finalizers
             Kept == object["compiled"].exists /\ "foreign" \in now =>
                        "foreign" \in next \/ DropFinalizer
             Goal == Window' /\ Kept
             SameCache == /\ kind' = kind
                          /\ cache'["source"].finalizers = cache["source"].finalizers
                          /\ cache'["source"].deleting = cache["source"].deleting
             NothingNew == object'["compiled"].exists => object["compiled"].exists
  <1> SUFFICES Goal OBVIOUS
  <1>1. TypeOK /\ Order /\ FinalizerFirst BY DEF IInv, Reporting
  <1>2. object["source"] \in Objects /\ object["compiled"] \in Objects BY <1>1, Numbers, ObjectTypes
  <1>3. cache["source"].deleting => object["source"].deleting BY <1>1 DEF Order
  <1>4. SameCache /\ next = now /\ NothingNew => Goal BY DEF Window
  <1>5. CASE UNCHANGED <<kind, object, cache>> BY <1>4, <1>5
  <1>6. ASSUME NEW c \in Controllers, reconcileStatus(c) PROVE Goal
    <2>1. SameCache /\ next = now /\ NothingNew
      BY <1>1, <1>6, Numbers, ReportStep DEF SameButStatus
    <2> QED BY <1>4, <2>1
  <1>7. CASE ensureFinalizer \/ removeFinalizer
    <2>1. cache["source"].finalizers \in SUBSET Finalizers
      BY <1>1, Numbers, ObjectTypes, ObjectFields
    <2>2. SameCache BY <1>7 DEF ensureFinalizer, removeFinalizer, Reconciling, Begin
    <2>3. PICK list \in SUBSET Finalizers :
            /\ PatchFinalizers(list)
            /\ \/ /\ kind = "Shard" /\ ~cache["source"].deleting
                  /\ "cleanup" \notin cache["source"].finalizers
               \/ /\ cache["source"].deleting
                  /\ list = cache["source"].finalizers \ {"cleanup"}
      BY <1>7, <2>1 DEF ensureFinalizer, removeFinalizer, Finalizers
    <2>4. \/ object' = object
          \/ /\ next = list
             /\ object'["compiled"] = object["compiled"]
             /\ object["source"].deleting => list \subseteq now
      BY <1>1, <2>3, PatchedFinalizers
    <2>5. Kept BY <2>3, <2>4 DEF Window
    <2>6. Window' BY <1>3, <2>2, <2>4 DEF Window
    <2> QED BY <2>5, <2>6
  <1>8. CASE Publish
    <2>1. object'["source"] = object["source"] BY <1>1, <1>8, PublishStep
    <2>2. SameCache /\ (kind = "Shard" => "cleanup" \in cache["source"].finalizers)
      BY <1>8 DEF Publish, Reconciling, Begin
    <2> QED BY <2>1, <2>2 DEF Window
  <1>9. ASSUME NEW c \in Controllers, Sync(c) PROVE Goal
    <2>1. kind' = kind /\ object' = object /\ cache' = [cache EXCEPT ![c] = object[c]]
      BY <1>9 DEF Sync
    <2>2. cache'["source"] \in {cache["source"], object["source"]} BY <1>1, <2>1, Numbers DEF TypeOK
    <2>3. CASE cache'["source"] = cache["source"] BY <1>4, <2>1, <2>3
    <2>4. CASE cache'["source"] = object["source"]
      <3>1. object["compiled"].exists => ~Unpublished BY NewObject DEF Unpublished
      <3> QED BY <1>1, <1>3, <2>1, <2>4, <3>1 DEF Window, FinalizerFirst
    <2> QED BY <2>2, <2>3, <2>4
  <1>10. CASE Restart
    <2>1. kind' = kind /\ object' = object /\ cache' = object BY <1>10 DEF Restart
    <2>2. object["compiled"].exists => ~Unpublished BY NewObject DEF Unpublished
    <2> QED BY <1>1, <1>3, <2>1, <2>2 DEF Window, FinalizerFirst
  <1>11. CASE Edit
    <2>1. SameCache /\ object'["compiled"] = object["compiled"] /\ next = now
      BY <1>1, <1>2, <1>11, Numbers DEF Edit, User, Operator, TypeOK, Objects
    <2> QED BY <1>4, <2>1
  <1>12. CASE Delete
    <2> DEFINE p == [object["source"] EXCEPT !.deleting = TRUE]
    <2>1. p \in Objects /\ p.finalizers = now BY <1>2 DEF Objects
    <2>2. SameCache /\ object' = [object EXCEPT !["source"] = Settled(p)]
      BY <1>12 DEF Delete, User, Operator
    <2> HIDE DEF p
    <2>3. Settled(p).finalizers = p.finalizers BY <2>1, SettledObject
    <2>4. next = now /\ object'["compiled"] = object["compiled"]
      BY <1>1, <2>1, <2>2, <2>3, Numbers DEF TypeOK
    <2> QED BY <1>4, <2>2, <2>4
  <1>13. CASE AddFinalizer
    <2>1. /\ SameCache /\ object'["compiled"] = object["compiled"]
          /\ ~object["source"].deleting /\ now \subseteq next
      BY <1>1, <1>2, <1>13, Numbers DEF AddFinalizer, User, Operator, TypeOK, Objects
    <2> QED BY <1>3, <2>1 DEF Window
  <1>14. CASE DropFinalizer
    <2> DEFINE p == [object["source"] EXCEPT !.finalizers = object["source"].finalizers \ {"foreign"}]
    <2>1. p \in Objects /\ p.finalizers \subseteq now BY <1>2 DEF Objects
    <2>2. SameCache /\ object' = [object EXCEPT !["source"] = Settled(p)]
      BY <1>14 DEF DropFinalizer, User, Operator
    <2> HIDE DEF p
    <2>3. Settled(p).finalizers = p.finalizers BY <2>1, SettledObject
    <2>4. next \subseteq now /\ object'["compiled"] = object["compiled"]
      BY <1>1, <2>1, <2>2, <2>3, Numbers DEF TypeOK
    <2> QED BY <1>14, <2>2, <2>4 DEF Window
  <1>15. CASE Collect
    <2>1. SameCache /\ object["compiled"].exists BY <1>15 DEF Collect, User, Operator
    <2>2. object'["source"] = object["source"] BY <1>1, <1>15, Numbers DEF Collect, TypeOK
    <2> QED BY <1>4, <2>1, <2>2
  <1> HIDE DEF Goal
  <1>16. ASSUME NEW c \in Controllers, Ignore(c) \/ LeaveDeleted(c) \/ CallFails(c)
         PROVE  Goal
    BY <1>5, <1>16 DEF Ignore, LeaveDeleted, CallFails, Reconciling, Begin
  <1>17. CASE Render BY <1>5, <1>17 DEF Render, Reconciling, Begin
  <1>18. CASE Rollout \/ PodReady \/ OlderPodGone \/ PodFails \/ Undeployed
    BY <1>5, <1>18 DEF Rollout, PodReady, OlderPodGone, PodFails, Undeployed, Deployed, Operator
  <1>19. CASE UNCHANGED vars BY <1>5, <1>19 DEF vars
  <1>20. CASE Step("source") \/ Step("compiled") BY <1>1, <1>6, <1>16, <1>20, Numbers DEF Step
  <1> QED
    BY <1>7, <1>8, <1>9, <1>10, <1>11, <1>12, <1>13, <1>14, <1>15, <1>16, <1>17, <1>18, <1>19, <1>20
    DEF Next, Source, Compiled, Kubernetes

\* Once the render input of a Shard is published, a finalizer of somebody else goes with its owner
\* only, for any number of events: no list that is sent later is older than what it replaces.
THEOREM FinalizersOfOthersKept == Spec => FinalizersKept
  <1>1. Init => Window
    <2>1. "source" \in Controllers /\ "compiled" \in Controllers BY DEF Controllers
    <2>2. ASSUME Init PROVE ~cache["source"].deleting /\ ~object["compiled"].exists
      BY <2>1, <2>2, NewObject DEF Init
    <2> QED BY <2>2 DEF Window
  <1>2. ASSUME IInv, Window, [Next]_vars PROVE Window' BY <1>2, WindowStep
  <1>3. IInv /\ Window /\ [Next]_vars =>
            [object["compiled"].exists /\ "foreign" \in object["source"].finalizers
             => "foreign" \in object'["source"].finalizers \/ DropFinalizer]_vars
    BY WindowStep
  <1> QED BY <1>1, <1>2, <1>3, InvariantHolds, PTL DEF Spec, FinalizersKept

\* The generation that a status speaks of never goes back, except on a Shard whose finalizer is being
\* set or removed, for any number of edits, stale copies, failing calls and restarts.
THEOREM ObservedNeverBack == Spec => ObservedMonotone
  <1>1. ASSUME IInv, [Next]_vars, NEW c \in Controllers,
               object[c].exists, ~(c = "source" /\ FinalizerChanges)
        PROVE  object'[c].available.observed >= object[c].available.observed
    <2>1. TypeOK /\ SourceSeen /\ CompiledSeen BY <1>1 DEF IInv, Reporting
    <2>2. observed(c) \in Nat /\ working(c) \in Nat BY <2>1, Numbers
    <2>3. pass[c].pc = "status" => observed(c) <= working(c)
      <3>1. CASE c = "source" BY <1>1, <2>1, <3>1 DEF SourceSeen, Held, FinalizerChanges
      <3>2. CASE c = "compiled" BY <2>1, <3>2 DEF CompiledSeen
      <3> QED BY <2>1, <3>1, <3>2, Numbers
    <2>4. \/ object'[c].available.observed = observed(c)
          \/ pass[c].pc = "status" /\ object'[c].available.observed = working(c)
      BY <1>1, ReportsFollow
    <2>5. object'[c].available.observed >= observed(c) BY <2>2, <2>3, <2>4
    <2> QED BY <2>5 DEF observed
  <1>2. ASSUME IInv, [Next]_vars
        PROVE  [\A c \in Controllers :
                    /\ object[c].exists /\ object'[c].exists
                    /\ ~(c = "source" /\ FinalizerChanges)
                    => object'[c].available.observed >= object[c].available.observed]_vars
    <2>1. SUFFICES ASSUME NEW c \in Controllers, object[c].exists,
                          ~(c = "source" /\ FinalizerChanges)
                   PROVE  object'[c].available.observed >= object[c].available.observed
      OBVIOUS
    <2> QED BY <1>1, <1>2, <2>1
  <1> QED BY <1>2, InvariantHolds, PTL DEF Spec, ObservedMonotone

-----------------------------------------------------------------------------
(* The gauges, in which the same conditions are reported once more.         *)

KindNames == Range(CollectedKinds)

\* Where a collection is.
Stage ==
    /\ collection = [at |-> collection.at, step |-> collection.step, list |-> collection.list,
               conditions |-> collection.conditions, counts |-> collection.counts]
    /\ collection.at \in 0..6
    /\ collection.step \in {"wait", "list", "reset", "write"}
    /\ (collection.step = "wait") = (collection.at = 0)
    /\ counts = [k \in KindNames |-> counts[k]]
    /\ listed = [k \in KindNames |-> listed[k]]

\* The list at hand has objects of one kind only, and what is left to be written is from it.
AtHand ==
    /\ collection.step = "reset" \/ collection.step = "write" =>
            \A x \in DOMAIN collection.list : x.kind = Kind
    /\ collection.conditions \subseteq Recorded(collection.list)
    /\ collection.counts \subseteq DOMAIN Tally(collection.list)
    /\ collection.step = "write" => listed[Kind] = collection.list

\* While a collection runs, conditions are there only for the kinds it has passed and for the one
\* it is writing: the reset at its beginning took the others away.
Passed ==
    collection.at # 0 =>
        \A x \in DOMAIN conditions :
            \E i \in 1..collection.at : x.kind = CollectedKinds[i] /\ (i = collection.at => collection.step = "write")

GaugeInv == Stage /\ AtHand /\ Passed /\ GaugesOfOneList

-----------------------------------------------------------------------------

\* The kinds are six, and different.
LEMMA KindsAre ==
    /\ Len(CollectedKinds) = 6 /\ DOMAIN CollectedKinds = 1..6
    /\ \A i \in 1..6 : CollectedKinds[i] \in KindNames
    /\ \A i, j \in 1..6 : CollectedKinds[i] = CollectedKinds[j] => i = j
<1>1. Len(CollectedKinds) = 6 /\ DOMAIN CollectedKinds = 1..6
  BY DEF CollectedKinds
<1>2. \A i \in 1..6 : CollectedKinds[i] \in KindNames
  BY <1>1 DEF KindNames, Range
<1>3. \A i, j \in 1..6 : CollectedKinds[i] = CollectedKinds[j] => i = j
  BY DEF CollectedKinds
<1> QED
  BY <1>1, <1>2, <1>3

\* A gauge after one more Set.
LEMMA SetGauge ==
    ASSUME NEW gauge, NEW key, NEW value
    PROVE  /\ DOMAIN Set(gauge, key, value) = DOMAIN gauge \cup {key}
           /\ Set(gauge, key, value)[key] = value
           /\ \A k \in DOMAIN gauge : k # key => Set(gauge, key, value)[k] = gauge[k]
  BY DEF Set

\* The empty gauge has no labels.
LEMMA EmptyGauge == DOMAIN Empty = {}
  BY DEF Empty

\* The pass at the beginning of a kind.
LEMMA NewPass ==
    ASSUME NEW n, NEW step, NEW list
    PROVE  /\ At(n, step, list).at = n /\ At(n, step, list).step = step
           /\ At(n, step, list).list = list
           /\ At(n, step, list).conditions = Recorded(list)
           /\ At(n, step, list).counts = DOMAIN Tally(list)
  BY DEF At

\* The collection moves to a kind that it has not passed, or starts.
LEMMA Moves ==
    ASSUME GaugeInv, NEW n \in 1..6, collection' = At(n, "list", Empty), UNCHANGED <<counts, listed>>,
           DOMAIN conditions' \subseteq DOMAIN conditions,
           \A x \in DOMAIN conditions' : conditions'[x] = conditions[x],
           \A x \in DOMAIN conditions' : \E i \in 1..(n - 1) : x.kind = CollectedKinds[i]
    PROVE  GaugeInv'
<1> USE DEF GaugeInv
<1>1. /\ collection'.at = n /\ collection'.step = "list" /\ collection'.list = Empty
      /\ collection'.conditions = Recorded(Empty) /\ collection'.counts = DOMAIN Tally(Empty)
      /\ collection' = [at |-> collection'.at, step |-> collection'.step, list |-> collection'.list,
                  conditions |-> collection'.conditions, counts |-> collection'.counts]
  BY NewPass DEF At
<1>2. Stage'
  BY <1>1 DEF Stage
<1>3. AtHand'
  BY <1>1 DEF AtHand
<1>4. Passed'
  BY <1>1 DEF Passed
<1>5. GaugesOfOneList'
  BY DEF GaugesOfOneList
<1> QED
  BY <1>2, <1>3, <1>4, <1>5

\* The collection is over.
LEMMA Ends ==
    ASSUME GaugeInv, collection' = Waiting, UNCHANGED <<counts, listed, conditions>>
    PROVE  GaugeInv'
<1> USE DEF GaugeInv
<1>1. /\ collection'.at = 0 /\ collection'.step = "wait" /\ collection'.list = Empty
      /\ collection'.conditions = Recorded(Empty) /\ collection'.counts = DOMAIN Tally(Empty)
      /\ collection' = [at |-> collection'.at, step |-> collection'.step, list |-> collection'.list,
                  conditions |-> collection'.conditions, counts |-> collection'.counts]
  BY NewPass DEF At, Waiting
<1>2. Stage'
  BY <1>1 DEF Stage
<1>3. AtHand' /\ Passed'
  BY <1>1 DEF AtHand, Passed
<1>4. GaugesOfOneList'
  BY DEF GaugesOfOneList
<1> QED
  BY <1>2, <1>3, <1>4

\* After a kind comes the next one, or the end.
LEMMA GoesOn ==
    ASSUME GaugeInv, collection.at # 0, collection' = NextKind(collection.at), UNCHANGED <<counts, listed, conditions>>
    PROVE  GaugeInv'
<1>1. collection.at \in 1..6
  BY DEF GaugeInv, Stage
<1>2. CASE collection.at = 6
  BY <1>2, Ends, KindsAre DEF NextKind
<1>3. CASE collection.at # 6
  <2>1. collection' = At(collection.at + 1, "list", Empty)
    BY <1>3, KindsAre DEF NextKind
  <2>2. \A x \in DOMAIN conditions' : \E i \in 1..((collection.at + 1) - 1) : x.kind = CollectedKinds[i]
    BY <1>1 DEF GaugeInv, Passed
  <2>3. collection.at + 1 \in 1..6
    BY <1>1, <1>3
  <2> QED
    BY <2>1, <2>2, <2>3, Moves
<1> QED
  BY <1>2, <1>3

\* One step of the collector.
LEMMA CollectorStep ==
    ASSUME GaugeInv, CollectMetrics \/ ListFails
    PROVE  GaugeInv'
<1> USE DEF GaugeInv
<1>r. collection = [at |-> collection.at, step |-> collection.step, list |-> collection.list,
              conditions |-> collection.conditions, counts |-> collection.counts]
  BY DEF Stage
<1>1. CASE BeginCollection
  <2>1. /\ collection' = At(1, "list", Empty) /\ UNCHANGED <<counts, listed>> /\ conditions' = Empty
    BY <1>1 DEF BeginCollection, ResetConditions
  <2>2. DOMAIN conditions' = {}
    BY <2>1, EmptyGauge
  <2> QED
    BY <2>1, <2>2, Moves
<1>2. CASE List
  <2>1. /\ collection.step = "list" /\ UNCHANGED <<counts, conditions, listed>>
        /\ collection' = At(collection.at, "reset", OfKind(Kind, objects))
    BY <1>2 DEF List
  <2> DEFINE list == OfKind(Kind, objects)
  <2>2. /\ collection'.at = collection.at /\ collection'.step = "reset" /\ collection'.list = list
        /\ collection'.conditions = Recorded(list) /\ collection'.counts = DOMAIN Tally(list)
        /\ collection' = [at |-> collection'.at, step |-> collection'.step, list |-> collection'.list,
                    conditions |-> collection'.conditions, counts |-> collection'.counts]
    <3> HIDE DEF list
    <3>1. collection' = At(collection.at, "reset", list)
      BY <2>1 DEF list
    <3> QED
      BY <3>1, NewPass DEF At
  <2>3. Kind' = Kind
    BY <2>2 DEF Kind
  <2>4. \A x \in DOMAIN list : x.kind = Kind
    BY DEF OfKind
  <2>5. Stage'
    BY <2>1, <2>2 DEF Stage
  <2>6. AtHand'
    BY <2>2, <2>3, <2>4 DEF AtHand
  <2>7. Passed'
    BY <2>1, <2>2 DEF Passed
  <2>8. GaugesOfOneList'
    BY <2>1 DEF GaugesOfOneList
  <2> QED
    BY <2>5, <2>6, <2>7, <2>8
<1>3. CASE Reset
  <2>1. /\ collection.step = "reset" /\ collection' = [collection EXCEPT !.step = "write"] /\ conditions' = conditions
        /\ counts' = [counts EXCEPT ![Kind] = Empty]
        /\ listed' = [listed EXCEPT ![Kind] = collection.list]
    BY <1>3 DEF Reset, ResetCounts
  <2>2. collection' = [at |-> collection.at, step |-> "write", list |-> collection.list,
                 conditions |-> collection.conditions, counts |-> collection.counts]
    BY <2>1, <1>r
  <2>3. collection.at \in 1..6 /\ Kind \in KindNames
    BY <2>1, KindsAre DEF Stage, Kind
  <2>4. Kind' = Kind
    BY <2>2 DEF Kind
  <2>5. Stage'
    <3>1. counts = [k \in KindNames |-> counts[k]] /\ listed = [k \in KindNames |-> listed[k]]
      BY DEF Stage
    <3>2. counts' = [k \in KindNames |-> counts'[k]] /\ listed' = [k \in KindNames |-> listed'[k]]
      BY <2>1, <3>1
    <3> QED
      BY <2>2, <2>3, <3>2 DEF Stage
  <2>6. listed'[Kind] = collection.list /\ counts'[Kind] = Empty
        /\ \A k \in KindNames : k # Kind => listed'[k] = listed[k] /\ counts'[k] = counts[k]
        /\ DOMAIN counts' = KindNames /\ DOMAIN counts = KindNames
    BY <2>1, <2>3 DEF Stage
  <2>7. AtHand'
    BY <2>1, <2>2, <2>4, <2>6 DEF AtHand
  <2>8. \A x \in DOMAIN conditions : x.kind # Kind /\ x.kind \in KindNames
    BY <2>1, <2>3, KindsAre DEF Passed, Kind
  <2>9. Passed'
    BY <2>1, <2>2 DEF Passed
  <2>10. GaugesOfOneList'
    BY <2>1, <2>6, <2>8, EmptyGauge DEF GaugesOfOneList
  <2> QED
    BY <2>5, <2>7, <2>9, <2>10
<1>4. CASE recordConditionStatuses
  <2>1. PICK x \in collection.conditions :
          /\ conditions' = Set(conditions, x, statusToMetric(collection.list[x].available))
          /\ collection' = [collection EXCEPT !.conditions = @ \ {x}]
    BY <1>4 DEF recordConditionStatuses
  <2>2. collection.step = "write" /\ UNCHANGED <<counts, listed>>
    BY <1>4 DEF recordConditionStatuses
  <2>3. collection' = [at |-> collection.at, step |-> collection.step, list |-> collection.list,
                 conditions |-> collection.conditions \ {x}, counts |-> collection.counts]
    BY <2>1, <1>r
  <2>4. Kind' = Kind /\ collection.at \in 1..6
    BY <2>2, <2>3 DEF Kind, Stage
  <2>5. x \in DOMAIN collection.list /\ x.kind = Kind /\ listed[Kind] = collection.list
    BY <2>2 DEF AtHand, Recorded
  <2>6. /\ DOMAIN conditions' = DOMAIN conditions \cup {x}
        /\ conditions'[x] = statusToMetric(collection.list[x].available)
        /\ \A y \in DOMAIN conditions : y # x => conditions'[y] = conditions[y]
    <3> DEFINE v == statusToMetric(collection.list[x].available)
    <3>1. conditions' = Set(conditions, x, v)
      BY <2>1
    <3> HIDE DEF v
    <3>2. /\ DOMAIN Set(conditions, x, v) = DOMAIN conditions \cup {x}
          /\ Set(conditions, x, v)[x] = v
          /\ \A y \in DOMAIN conditions : y # x => Set(conditions, x, v)[y] = conditions[y]
      BY DEF Set
    <3> QED
      BY <3>1, <3>2 DEF v
  <2>7. Stage'
    BY <2>2, <2>3 DEF Stage
  <2>8. AtHand'
    BY <2>2, <2>3, <2>4 DEF AtHand
  <2>9. Passed'
    <3>1. collection'.at = collection.at /\ collection'.step = "write" /\ collection.at # 0
      BY <2>2, <2>3, <2>4
    <3>2. \A y \in DOMAIN conditions : \E i \in 1..collection.at : y.kind = CollectedKinds[i]
      BY <2>4 DEF Passed
    <3>3. collection.at \in 1..collection.at /\ x.kind = CollectedKinds[collection.at]
      BY <2>4, <2>5 DEF Kind
    <3> QED
      BY <3>1, <3>2, <3>3, <2>6 DEF Passed
  <2>10. GaugesOfOneList'
    BY <2>2, <2>5, <2>6 DEF GaugesOfOneList
  <2> QED
    BY <2>7, <2>8, <2>9, <2>10
<1>5. CASE SetCount
  <2>1. PICK l \in collection.counts :
          /\ counts' = [counts EXCEPT ![Kind] = Set(@, l, Tally(collection.list)[l])]
          /\ collection' = [collection EXCEPT !.counts = @ \ {l}]
    BY <1>5 DEF SetCount
  <2>2. collection.step = "write" /\ UNCHANGED <<conditions, listed>>
    BY <1>5 DEF SetCount
  <2>3. collection' = [at |-> collection.at, step |-> collection.step, list |-> collection.list,
                 conditions |-> collection.conditions, counts |-> collection.counts \ {l}]
    BY <2>1, <1>r
  <2>4. Kind' = Kind /\ collection.at \in 1..6 /\ Kind \in KindNames
    BY <2>2, <2>3, KindsAre DEF Kind, Stage
  <2>5. l \in DOMAIN Tally(collection.list) /\ listed[Kind] = collection.list
    BY <2>2 DEF AtHand
  <2>6. /\ counts' = [k \in KindNames |-> counts'[k]] /\ DOMAIN counts = KindNames /\ DOMAIN counts' = KindNames
        /\ counts'[Kind] = Set(counts[Kind], l, Tally(collection.list)[l])
        /\ \A k \in KindNames : k # Kind => counts'[k] = counts[k]
    BY <2>1, <2>4 DEF Stage
  <2>7. Stage'
    BY <2>2, <2>3, <2>6 DEF Stage
  <2>8. AtHand'
    BY <2>2, <2>3, <2>4 DEF AtHand
  <2>9. Passed'
    BY <2>2, <2>3 DEF Passed
  <2>10. GaugesOfOneList'
    <3>1. \A m \in DOMAIN counts'[Kind] :
            m \in DOMAIN Tally(listed[Kind]) /\ counts'[Kind][m] = Tally(listed[Kind])[m]
      <4> DEFINE old == counts[Kind]
                 tally == Tally(collection.list)
      <4>1. \A m \in DOMAIN old : m \in DOMAIN tally /\ old[m] = tally[m]
        BY <2>4, <2>5, <2>6 DEF GaugesOfOneList
      <4>3. l \in DOMAIN tally
        BY <2>5
      <4> HIDE DEF old, tally
      <4> DEFINE v == tally[l]
      <4> HIDE DEF v
      <4>s. /\ DOMAIN Set(old, l, v) = DOMAIN old \cup {l} /\ Set(old, l, v)[l] = v
            /\ \A m \in DOMAIN old : m # l => Set(old, l, v)[m] = old[m]
        BY DEF Set
      <4>2. /\ DOMAIN Set(old, l, tally[l]) = DOMAIN old \cup {l} /\ Set(old, l, tally[l])[l] = tally[l]
            /\ \A m \in DOMAIN old : m # l => Set(old, l, tally[l])[m] = old[m]
        BY <4>s DEF v
      <4>4. \A m \in DOMAIN Set(old, l, tally[l]) :
              m \in DOMAIN tally /\ Set(old, l, tally[l])[m] = tally[m]
        BY <4>1, <4>2, <4>3
      <4> QED
        BY <4>4, <2>5, <2>6 DEF old, tally
    <3> QED
      BY <3>1, <2>2, <2>6 DEF GaugesOfOneList
  <2> QED
    BY <2>7, <2>8, <2>9, <2>10
<1>6. CASE KindDone \/ ListFails
  <2>1. collection.step # "wait" /\ collection' = NextKind(collection.at) /\ UNCHANGED <<counts, listed, conditions>>
    BY <1>6 DEF KindDone, ListFails
  <2> QED
    BY <2>1, GoesOn DEF Stage
<1> QED
  BY <1>1, <1>2, <1>3, <1>4, <1>5, <1>6 DEF CollectMetrics

\* Whenever they are scraped, the gauges of a kind are those of one list of it (pkg/metrics,
\* updateObjectCounts), for any objects, changes and failing lists.
THEOREM NeverMixed == MetricsSpec => []GaugesOfOneList
<1>1. MetricsInit => GaugeInv
  <2> SUFFICES ASSUME MetricsInit PROVE GaugeInv
    OBVIOUS
  <2>1. /\ collection = Waiting /\ conditions = Empty
        /\ counts = [k \in KindNames |-> Empty] /\ listed = [k \in KindNames |-> Empty]
    BY DEF MetricsInit, KindNames
  <2>2. /\ collection.at = 0 /\ collection.step = "wait" /\ collection.list = Empty
        /\ collection.conditions = Recorded(Empty) /\ collection.counts = DOMAIN Tally(Empty)
        /\ collection = [at |-> collection.at, step |-> collection.step, list |-> collection.list,
                   conditions |-> collection.conditions, counts |-> collection.counts]
    BY <2>1, NewPass DEF At, Waiting
  <2>3. Stage
    BY <2>1, <2>2 DEF Stage
  <2>4. AtHand /\ Passed
    BY <2>2 DEF AtHand, Passed
  <2>5. GaugesOfOneList
    BY <2>1, EmptyGauge DEF GaugesOfOneList
  <2> QED
    BY <2>3, <2>4, <2>5 DEF GaugeInv
<1>2. GaugeInv /\ [MetricsNext]_metricVars => GaugeInv'
  <2> SUFFICES ASSUME GaugeInv, [MetricsNext]_metricVars PROVE GaugeInv'
    OBVIOUS
  <2>1. CASE Start \/ Tick \/ Change \/ UNCHANGED metricVars
    <3>1. UNCHANGED <<counts, conditions, collection, listed>>
      BY <2>1 DEF Start, Tick, Change, metricVars
    <3> QED
      BY <3>1 DEF GaugeInv, Stage, AtHand, Passed, Kind, GaugesOfOneList
  <2> QED
    BY <2>1, CollectorStep DEF MetricsNext
<1>3. GaugeInv => GaugesOfOneList
  BY DEF GaugeInv
<1> QED
  BY <1>1, <1>2, <1>3, PTL DEF MetricsSpec

=============================================================================
