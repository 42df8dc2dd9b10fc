-------------------------- MODULE StatusReporting --------------------------
(***************************************************************************)
(* How the state of a Deployment becomes the status of a Shard, RootShard, *)
(* FrontProxy or VirtualWorkspace.  The compiled controller copies what    *)
(* the Deployment reports into the Available condition of the Compiled     *)
(* object, the source controller adopts it from there, and both derive a   *)
(* phase.  Each of them reads its object from an informer cache that lags  *)
(* behind the API server, changes a deep copy of it and sends the          *)
(* difference of the two as a merge patch, so an old copy hides a change   *)
(* that is due and a patched list replaces what others have put there.     *)
(*                                                                         *)
(* What a pass does to Certificates and Secrets is the subject of          *)
(* RenderPipeline; here it publishes a render input made from one          *)
(* generation of the source object.  The Deployment has one replica.       *)
(***************************************************************************)
EXTENDS APITypes

CONSTANTS
    Kinds,          \* the kinds of source objects considered
    MaxGeneration,  \* bound on the generations of the spec
    MaxEvents       \* bound on edits, deletions, foreign finalizers, failing Pods, failing calls
                    \* and restarts taken together

ASSUME KindAssumption ==
    Kinds # {} /\ Kinds \subseteq {"Shard", "RootShard", "FrontProxy", "VirtualWorkspace"}

ASSUME LimitAssumption ==
    MaxGeneration \in Nat \ {0} /\ MaxEvents \in Nat

VARIABLES
    kind,      \* the kind of the source object
    groups,    \* the controller groups that run
    object,    \* what the API server holds of the source and of the Compiled object
    cache,     \* what the informers hold of them
    dep,       \* the Deployment
    queued,    \* the controllers with a request in their queue
    pass,      \* the running pass of each controller
    events     \* how much has happened so far

vars == <<kind, groups, object, cache, dep, queued, pass, events>>

-----------------------------------------------------------------------------
(* Objects.  A controller has the name of the object it reconciles.         *)

Controllers == {"source", "compiled"}

\* An Available condition without reason and message; NoCondition: the list of conditions has none.
Condition(status, generation) == [status |-> status, observed |-> generation]

NoCondition == Condition("", 0)

Conditions == {NoCondition} \cup [status : {"True", "False"}, observed : 1 .. MaxGeneration]

Phases == {"", "Provisioning", "Running", "Deleting"}

Finalizers == {"cleanup", "foreign"}

\* revision: the generation of the source object that a Compiled object was built from.
Object(exists) ==
    [exists |-> exists, generation |-> 1, revision |-> 1, deleting |-> FALSE,
     finalizers |-> {}, available |-> NoCondition, phase |-> ""]

Objects ==
    [exists : BOOLEAN, generation : 1 .. MaxGeneration, revision : 1 .. MaxGeneration,
     deleting : BOOLEAN, finalizers : SUBSET Finalizers, available : Conditions, phase : Phases]

\* updated, ready and observed are the status written by the Deployment controller: the Pods
\* of the current template, those of them and of older ones that are ready, and the template seen.
Deployments ==
    [exists : BOOLEAN, revision : 1 .. MaxGeneration, observed : 0 .. MaxGeneration,
     updated : 0 .. 1, ready : 0 .. 1, older : 0 .. 1]

NoDeployment ==
    [exists |-> FALSE, revision |-> 1, observed |-> 0, updated |-> 0, ready |-> 0, older |-> 0]

\* An object being deleted disappears with its last finalizer.
Settled(o) == [o EXCEPT !.exists = o.exists /\ (o.finalizers # {} \/ ~o.deleting)]

\* The Compiled type and the status type of a kind; a Compiled object has the status of its source.
CompiledTypes ==
    [Shard |-> "CompiledShard", RootShard |-> "CompiledRootShard",
     FrontProxy |-> "CompiledFrontProxy", VirtualWorkspace |-> "CompiledVirtualWorkspace"]

StatusTypes ==
    [Shard |-> "ShardStatus", RootShard |-> "RootShardStatus",
     FrontProxy |-> "FrontProxyStatus", VirtualWorkspace |-> "VirtualWorkspaceStatus"]

\* A copy of the object and its original have one list of conditions.
ConditionsShared ==
    [c \in Controllers |->
        {k \in DOMAIN CompiledTypes : <<StatusTypes[k], "Conditions">> \in
            Shared(IF c = "source" THEN k ELSE CompiledTypes[k])}]

-----------------------------------------------------------------------------
(* pkg/controller/util: conditions.                                        *)

deploymentReady(d) == d.updated = d.ready + d.older /\ d.ready + d.older = 1

GetDeploymentAvailableCondition(d) ==
    Condition(IF d.exists /\ deploymentReady(d) THEN "True" ELSE "False", 0)

\* Adopts a published condition, whatever generation it describes.
GetCompiledAvailableCondition(o) ==
    Condition(IF o.exists /\ o.available # NoCondition THEN o.available.status ELSE "False", 0)

\* A condition is only replaced if its status or generation differs.
UpdateCondition(old, new) ==
    IF \/ old = NoCondition
       \/ old.observed # new.observed
       \/ old.status # new.status
    THEN new ELSE old

-----------------------------------------------------------------------------
(* reconcileStatus: phases.                                                *)

\* A Shard and a CompiledShard stay Running when the Deployment becomes unavailable.
shardPhase(o, available) ==
    CASE available.status = "True" -> "Running"
      [] available.status # "True" /\ o.deleting -> "Deleting"
      [] available.status # "True" /\ ~o.deleting /\ o.phase = "" -> "Provisioning"
      [] OTHER -> o.phase

rootShardPhase(o, available) ==
    IF o.deleting THEN "Deleting"
    ELSE IF available.status = "True" THEN "Running" ELSE "Provisioning"

frontProxyPhase(o, available) ==
    IF o.deleting THEN "Deleting"
    ELSE IF available.status = "True" THEN "Running" ELSE "Provisioning"

\* A VirtualWorkspace has no phase.
Phase(o, available) ==
    CASE kind = "Shard" -> shardPhase(o, available)
      [] kind = "RootShard" -> rootShardPhase(o, available)
      [] kind = "FrontProxy" -> frontProxyPhase(o, available)
      [] kind = "VirtualWorkspace" -> o.phase

-----------------------------------------------------------------------------
(* The operator process and its passes.                                    *)

AllControllerGroups == {"config", "workload"}

\* Unknown names or an empty list end the process.
ParseControllerGroups(names) ==
    IF names # {} /\ names \subseteq AllControllerGroups THEN names ELSE {}

\* The controllers that run registers.
Registered(c) == (IF c = "source" THEN "config" ELSE "workload") \in groups

NoPass == [pc |-> "idle", old |-> Object(FALSE), failed |-> FALSE]

Passes == [pc : {"idle", "status"}, old : Objects, failed : BOOLEAN]

\* A plausible bug: the Deployment is not watched.
WakesOwnOnly(n) ==
    {c \in Controllers : Registered(c) /\ (c = n \/ (c = "source" /\ n = "compiled"))}

\* The watches of the controllers: For its own object, Owns the next one of the chain.
Wakes(n) ==
    {c \in Controllers : Registered(c) /\ \/ c = n
                                          \/ c = "source" /\ n = "compiled"
                                          \/ c = "compiled" /\ n = "deployment"}

\* An informer catches up with the API server and wakes whoever watches the object.
Sync(n) ==
    /\ cache[n] # object[n]
    /\ groups # {}
    /\ cache' = [cache EXCEPT ![n] = object[n]]
    /\ queued' = queued \cup Wakes(n)
    /\ UNCHANGED <<kind, groups, object, dep, pass, events>>

\* One more of the events that are bounded.
Happens == events < MaxEvents /\ events' = events + 1

Idle(c) == [pass EXCEPT ![c] = NoPass]

\* A pass begins with the cached object.  Reading it and the first write are one step: between
\* the two nothing happens that a cache that lags a little longer does not allow as well.
Begin(c) ==
    /\ c \in queued
    /\ pass[c].pc = "idle"
    /\ queued' = queued \ {c}
    /\ UNCHANGED <<kind, groups, cache, events>>

\* A VirtualWorkspace that is being deleted is left alone, without a status.
Ignored(o) == ~o.exists \/ (kind = "VirtualWorkspace" /\ o.deleting)

Ignore(c) ==
    /\ Begin(c)
    /\ Ignored(cache[c])
    /\ UNCHANGED <<object, dep, pass>>

Reconciling(c) == Begin(c) /\ ~Ignored(cache[c])

\* A plausible bug: the error of reconcile is lost when the status is patched without one.
ToStatusForgets(c, o, failed) ==
    pass' = [pass EXCEPT ![c] = [pc |-> "status", old |-> o, failed |-> FALSE]]

\* The pass goes on to reconcileStatus, with the object as it is now and the error so far.
ToStatus(c, o, failed) ==
    pass' = [pass EXCEPT ![c] = [pc |-> "status", old |-> o, failed |-> failed]]

\* A merge patch with a list of finalizers replaces the list.  The API server accepts no new
\* finalizer for an object that is being deleted, and answers with the object it has stored.
PatchFinalizers(list) ==
    LET o == object["source"]
        rejected == ~o.exists \/ (o.deleting /\ ~(list \subseteq o.finalizers))
        stored == Settled([o EXCEPT !.finalizers = list])
    IN  IF rejected
        THEN object' = object /\ ToStatus("source", cache["source"], TRUE)
        ELSE object' = [object EXCEPT !["source"] = stored] /\ ToStatus("source", stored, FALSE)

\* A plausible bug: the finalizer is patched in every pass, whether it is there or not.
ensureFinalizerAlways ==
    LET old == cache["source"] IN
    /\ Reconciling("source")
    /\ kind = "Shard" /\ ~old.deleting
    /\ PatchFinalizers(old.finalizers \cup {"cleanup"})
    /\ dep' = dep

\* The Shard controller sets its finalizer first and does nothing else in that pass.
ensureFinalizer ==
    LET old == cache["source"] IN
    /\ Reconciling("source")
    /\ kind = "Shard" /\ ~old.deleting /\ "cleanup" \notin old.finalizers
    /\ PatchFinalizers(old.finalizers \cup {"cleanup"})
    /\ dep' = dep

\* The kcp Shard object has been deleted.
removeFinalizer ==
    LET old == cache["source"] IN
    /\ Reconciling("source")
    /\ kind = "Shard" /\ old.deleting /\ "cleanup" \in old.finalizers
    /\ PatchFinalizers(old.finalizers \ {"cleanup"})
    /\ dep' = dep

\* Nothing to do for an object that is being deleted.
LeaveDeleted(c) ==
    LET old == cache[c] IN
    /\ Reconciling(c)
    /\ old.deleting /\ ~(c = "source" /\ kind = "Shard" /\ "cleanup" \in old.finalizers)
    /\ UNCHANGED <<object, dep>>
    /\ ToStatus(c, old, FALSE)

\* The source controller publishes the render input for the generation it read.  The update
\* starts from the cached object: with an old one the API server answers AlreadyExists,
\* NotFound or Conflict.
Publish ==
    LET old == cache["source"]
        cached == cache["compiled"]
        current == cached.exists /\ cached.revision = old.generation
        desired == IF cached.exists
                   THEN [cached EXCEPT !.generation = @ + 1, !.revision = old.generation]
                   ELSE [Object(TRUE) EXCEPT !.revision = old.generation]
        refused == ~current /\ cached # object["compiled"]
    IN
    /\ Reconciling("source")
    /\ ~old.deleting /\ (kind = "Shard" => "cleanup" \in old.finalizers)
    /\ object' = IF current \/ refused THEN object ELSE [object EXCEPT !["compiled"] = desired]
    /\ dep' = dep
    /\ ToStatus("source", old, refused)

\* The compiled controller renders the Deployment from the render input it read.  Its informer
\* of Deployments has caught up: an older one is a pass that runs earlier.
Render ==
    LET old == cache["compiled"] IN
    /\ Reconciling("compiled")
    /\ ~old.deleting
    /\ dep' = [dep EXCEPT !.exists = TRUE, !.revision = old.revision]
    /\ object' = object
    /\ ToStatus("compiled", old, FALSE)

\* The condition a controller reports, from the cached object next in the chain.
Reported(c) ==
    IF c = "source" THEN GetCompiledAvailableCondition(cache["compiled"])
    ELSE GetDeploymentAvailableCondition(dep)

\* reconcileStatus: what differs between the copy and the object it was made from is sent as a
\* merge patch.  A list of conditions that both share never differs, and is the cache's as well.
reconcileStatus(c) ==
    LET old == pass[c].old
        available == UpdateCondition(old.available,
                                     [Reported(c) EXCEPT !.observed = old.generation])
        phase == Phase(old, available)
        aliased == kind \in ConditionsShared[c] /\ old.available # NoCondition
        changed == (available # old.available /\ ~aliased) \/ phase # old.phase
        o == object[c]
        patched == [o EXCEPT !.available = IF available = old.available \/ aliased THEN @
                                           ELSE available,
                             !.phase = IF phase = old.phase THEN @ ELSE phase]
        failed == pass[c].failed \/ (changed /\ ~o.exists)
    IN
    /\ pass[c].pc = "status"
    /\ object' = IF changed /\ o.exists THEN [object EXCEPT ![c] = patched] ELSE object
    /\ cache' = IF aliased THEN [cache EXCEPT ![c].available = available] ELSE cache
    /\ queued' = IF failed THEN queued \cup {c} ELSE queued
    /\ pass' = Idle(c)
    /\ UNCHANGED <<kind, groups, dep, events>>

\* Any call fails; an error of reconcile does not keep the pass from reporting the status.
CallFails(c) ==
    /\ Happens
    /\ \/ /\ c \in queued /\ pass[c].pc = "idle" /\ ~Ignored(cache[c])
          /\ ToStatus(c, cache[c], TRUE)
          /\ queued' = queued \ {c}
       \/ /\ pass[c].pc = "status"
          /\ pass' = Idle(c)
          /\ queued' = queued \cup {c}
    /\ UNCHANGED <<kind, groups, object, cache, dep>>

\* The operator restarts, perhaps with other flags: new informers list everything.
Restart ==
    /\ Happens
    /\ \E names \in SUBSET {"config", "workload", "unknown"} :
            /\ groups' = ParseControllerGroups(names)
            /\ queued' = {c \in Controllers :
                            (IF c = "source" THEN "config" ELSE "workload") \in groups'}
    /\ cache' = object
    /\ pass' = [c \in Controllers |-> NoPass]
    /\ UNCHANGED <<kind, object, dep>>

-----------------------------------------------------------------------------
(* Users, other controllers, and Kubernetes.                               *)

Operator == <<kind, groups, cache, pass>>

User == <<Operator, queued, dep>>

Edit ==
    /\ object["source"].exists /\ object["source"].generation < MaxGeneration
    /\ object' = [object EXCEPT !["source"].generation = @ + 1]
    /\ Happens
    /\ UNCHANGED User

Delete ==
    /\ object["source"].exists /\ ~object["source"].deleting
    /\ object' = [object EXCEPT !["source"] = Settled([@ EXCEPT !.deleting = TRUE])]
    /\ Happens
    /\ UNCHANGED User

\* Somebody else protects the object for a while.  Only the Shard controller writes finalizers.
AddFinalizer ==
    LET o == object["source"] IN
    /\ kind = "Shard" /\ o.exists /\ ~o.deleting /\ "foreign" \notin o.finalizers
    /\ object' = [object EXCEPT !["source"].finalizers = @ \cup {"foreign"}]
    /\ Happens
    /\ UNCHANGED User

DropFinalizer ==
    LET o == object["source"]
        left == o.finalizers \ {"foreign"}
    IN
    /\ o.exists /\ "foreign" \in o.finalizers
    /\ object' = [object EXCEPT !["source"] = Settled([o EXCEPT !.finalizers = left])]
    /\ UNCHANGED <<User, events>>

\* Garbage collection follows the owner reference and marks a Compiled object before it goes.
\* It is slower than the informers: a controller that has not seen its object go would create
\* the Compiled object again, and that one would be collected again.
Collect ==
    /\ ~object["source"].exists /\ ~cache["source"].exists /\ object["compiled"].exists
    /\ object' = [object EXCEPT !["compiled"] =
                    IF @.deleting THEN [@ EXCEPT !.exists = FALSE] ELSE [@ EXCEPT !.deleting = TRUE]]
    /\ UNCHANGED <<User, events>>

\* A change of the Deployment that its owner gets to see.
Deployed(d) ==
    /\ dep' = d
    /\ queued' = queued \cup Wakes("deployment")
    /\ UNCHANGED <<Operator, object>>

\* The Deployment controller: a new template gets a new Pod next to the old one, ...
Rollout ==
    /\ dep.exists /\ dep.observed # dep.revision
    /\ Deployed([dep EXCEPT !.observed = dep.revision, !.updated = 1, !.ready = 0,
                            !.older = IF dep.ready = 1 THEN 1 ELSE dep.older])
    /\ events' = events

\* ... which becomes ready or never does, ...
PodReady ==
    /\ dep.exists /\ dep.observed = dep.revision /\ dep.ready = 0
    /\ Deployed([dep EXCEPT !.ready = 1])
    /\ events' = events

\* ... and only then replaces it.
OlderPodGone ==
    /\ dep.exists /\ dep.ready = 1 /\ dep.older = 1
    /\ Deployed([dep EXCEPT !.older = 0])
    /\ events' = events

PodFails ==
    /\ dep.exists /\ dep.ready = 1 /\ dep.older = 0
    /\ Happens
    /\ Deployed([dep EXCEPT !.ready = 0])

\* The Deployment goes with its owner.
Undeployed ==
    /\ dep.exists /\ ~object["compiled"].exists /\ ~cache["compiled"].exists
    /\ Deployed(NoDeployment)
    /\ events' = events

-----------------------------------------------------------------------------

Init ==
    /\ kind \in Kinds
    /\ groups = AllControllerGroups
    /\ object = [c \in Controllers |-> Object(c = "source")]
    /\ cache = [c \in Controllers |-> Object(FALSE)]
    /\ dep = NoDeployment
    /\ queued = {}
    /\ pass = [c \in Controllers |-> NoPass]
    /\ events = 0

Step(c) == Ignore(c) \/ LeaveDeleted(c) \/ reconcileStatus(c)

Source == ensureFinalizer \/ removeFinalizer \/ Publish \/ Step("source")

Compiled == Render \/ Step("compiled")

Kubernetes == Collect \/ Rollout \/ OlderPodGone \/ Undeployed

Next ==
    \/ Source \/ Compiled \/ Kubernetes \/ PodReady \/ PodFails
    \/ \E c \in Controllers : Sync(c) \/ CallFails(c)
    \/ Restart \/ Edit \/ Delete \/ AddFinalizer \/ DropFinalizer

Fairness ==
    /\ WF_vars(Source) /\ WF_vars(Compiled) /\ WF_vars(Kubernetes)
    /\ \A c \in Controllers : WF_vars(Sync(c))
    /\ WF_vars(DropFinalizer)

Spec == Init /\ [][Next]_vars /\ Fairness

-----------------------------------------------------------------------------

\* Every variable keeps its type.
TypeOK ==
    /\ kind \in Kinds /\ groups \subseteq AllControllerGroups
    /\ object \in [Controllers -> Objects] /\ cache \in [Controllers -> Objects]
    /\ dep \in Deployments
    /\ queued \subseteq Controllers
    /\ pass \in [Controllers -> Passes]
    /\ events \in 0 .. MaxEvents

Up == groups = AllControllerGroups /\ object["source"].exists /\ ~object["source"].deleting

\* A phase that agrees with the condition.  A Shard that was Running once stays so.
PhaseFits(o) ==
    CASE kind = "Shard" -> o.available.status = "True" => o.phase = "Running"
      [] kind \in {"RootShard", "FrontProxy"} -> (o.phase = "Running") = (o.available.status = "True")
      [] OTHER -> TRUE

\* Once users, Pods and faults leave the chain alone, both objects report what the Deployment
\* says, for their current generation and with the phase that belongs to it, although every
\* pass may have worked on an old copy and sent only what differed from that.
EventuallyTruthful ==
    <>[](Up => /\ dep.revision = object["source"].generation
               /\ \A c \in Controllers :
                    /\ object[c].available.status = GetDeploymentAvailableCondition(dep).status
                    /\ object[c].available.observed = object[c].generation
                    /\ PhaseFits(object[c]))

\* Lists of finalizers computed from old copies replace what others have put there, and do lose it
\* while the Shard controller sets its own finalizer.  That window closes with the first
\* publication, also for the patch that removes the finalizer: a copy in which the Shard is being
\* deleted names every finalizer it can still have.  From then on somebody else's finalizer goes
\* with its owner only.
FinalizersKept ==
    [][object["compiled"].exists /\ "foreign" \in object["source"].finalizers
       => "foreign" \in object'["source"].finalizers \/ DropFinalizer]_vars

\* The informer's cache only ever changes to what the API server holds, because no pass writes into
\* it; and none could, whatever it changes of its object: the fields of every type and its
\* generated DeepCopyInto agree, at every depth, so the copy shares no memory with the original.
CacheUntouched ==
    [][\A c \in Controllers : /\ cache'[c] \in {cache[c], object[c]}
                              /\ pass'[c].pc = "status" => SharedTypes = {}]_vars

\* The finalizer of a Shard is being set or removed: the answer to that patch is newer than the
\* cache, and a pass that follows may report for an older copy until the informer catches up.
FinalizerChanges == kind = "Shard" /\ (object["source"].deleting \/ ~object["compiled"].exists)

\* A condition is never replaced by one for an older generation of the object, although the patch
\* of the status carries no resource version; a Shard whose finalizer changes is excepted.
ObservedMonotone ==
    [][\A c \in Controllers :
            /\ object[c].exists /\ object'[c].exists
            /\ ~(c = "source" /\ FinalizerChanges)
            => object'[c].available.observed >= object[c].available.observed]_vars

\* A deleted object goes away: a patch that the API server refuses because the list was old is
\* repeated with a newer one, unless nobody runs the controller any more.
DeletionCompletes ==
    object["source"].deleting ~> (~object["source"].exists \/ "config" \notin groups)
=============================================================================
