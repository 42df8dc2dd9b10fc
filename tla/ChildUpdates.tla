---------------------------- MODULE ChildUpdates ----------------------------
(***************************************************************************)
(* How the operator updates Deployments, Services and Certificates in      *)
(* place.  A reconciler function gets the existing object, sets the fields *)
(* it manages, merges the user's template into it and hands it back, so    *)
(* what it does not reset stays: replicas an autoscaler chose, annotations *)
(* of others, and whatever an earlier template left.  The defaults it      *)
(* starts from live in package-level variables of the operator process,    *)
(* shared by all objects of a kind until the process restarts.             *)
(*                                                                         *)
(* spec is the render input of an object (how it gets there is the subject *)
(* of RenderPipeline).  The templates of the Deployment, its Pods, the     *)
(* Service and the Certificate are edited together.                        *)
(***************************************************************************)
EXTENDS Naturals, FiniteSets

CONSTANTS
    Objects,     \* two or more objects of one kind in the namespace
    Kinds,       \* the kinds considered
    MaxEdits,    \* bound on edits of the spec
    MaxOutside   \* bound on changes of the Deployment made by others and on restarts

ASSUME KindAssumption ==
    Kinds # {} /\ Kinds \subseteq
        {"Shard", "RootShard", "VirtualWorkspace", "CacheServer", "FrontProxy"}

ASSUME LimitAssumption == MaxEdits \in Nat /\ MaxOutside \in Nat

VARIABLES
    kind,       \* the kind of all objects
    spec,       \* the spec of each object
    dep,        \* the Deployment of each object
    svc,        \* its Service
    cert,       \* its server Certificate
    memory,     \* the package-level defaultResourceRequirements of the operator process
    overrode,   \* history: the objects that were rendered with an override since the process started
    queued,     \* pending passes
    edits,
    outside

vars == <<kind, spec, dep, svc, cert, memory, overrode, queued, edits, outside>>

-----------------------------------------------------------------------------
(* Values.                                                                  *)

\* No replica count, that is, a nil pointer.
Unset == 0

Resources == {"cpu", "memory"}

\* The amount of a resource is named after the object whose spec asks for it.
Default == "default"

Defaults == [r \in Resources |-> Default]

\* The empty map.
Empty == <<>>

\* What the user may ask for.  note: the value of a template annotation.  label: the key of a
\* template label ("app" is also a key of the operator's own labels).  pod: a Pod spec template
\* with a node selector and without imagePullSecrets.  names: a further DNS name.  issuer: another
\* issuer.  etcd: an external etcd.
SpecFields ==
    [res    |-> SUBSET Resources,
     rep    |-> {Unset, 1, 3},
     note   |-> {"", "a", "b"},
     label  |-> {"", "team", "app"},
     pod    |-> BOOLEAN,
     names  |-> BOOLEAN,
     issuer |-> BOOLEAN,
     etcd   |-> BOOLEAN]

FirstSpec ==
    [res |-> {}, rep |-> Unset, note |-> "", label |-> "", pod |-> FALSE,
     names |-> FALSE, issuer |-> FALSE, etcd |-> FALSE]

\* Fields that only some kinds have, and the rule that a CacheServer with several replicas has an
\* external etcd.
Allowed(s) ==
    /\ kind = "CacheServer" => s.res = {} /\ (s.rep > 1 => s.etcd)
    /\ s.etcd => kind = "CacheServer"

NoDeployment ==
    [exists |-> FALSE, labels |-> Empty, selector |-> Empty, podLabels |-> Empty, notes |-> Empty,
     podNotes |-> Empty, res |-> Empty, rep |-> Unset, node |-> FALSE, pull |-> ""]

NoService == [exists |-> FALSE, labels |-> Empty, notes |-> Empty, selector |-> Empty]

NoCertificate ==
    [exists |-> FALSE, labels |-> Empty, notes |-> Empty, names |-> {}, issuer |-> "",
     secretLabels |-> Empty]

-----------------------------------------------------------------------------
(* The helpers of internal/resources/utils.                                 *)

\* A plausible bug: the template wins
mergeMapsTemplateWins(existing, toAdd) ==
    [k \in DOMAIN existing \cup DOMAIN toAdd |->
        IF k \in DOMAIN toAdd THEN toAdd[k] ELSE existing[k]]

\* Keys that exist already keep their value.
mergeMaps(existing, toAdd) ==
    [k \in DOMAIN existing \cup DOMAIN toAdd |->
        IF k \in DOMAIN existing THEN existing[k] ELSE toAdd[k]]

\* getResourceLabels: instance, component and two constants; they identify the object.
ResourceLabels(o) == [k \in {"app"} |-> o]

TemplateLabels(s) == IF s.label = "" THEN Empty ELSE [k \in {s.label} |-> "user"]

TemplateNotes(s) == IF s.note = "" THEN Empty ELSE [k \in {"note"} |-> s.note]

\* The kinds with package-level defaults; a FrontProxy's container starts without any.
HasDefaults == kind # "FrontProxy"

\* The map that ApplyResources copies the overrides into: for these kinds it is the package-level
\* one, since the container's ResourceRequirements were copied from there and maps are references.
Aliased == kind \in {"Shard", "RootShard", "VirtualWorkspace"}

\* A plausible bug: overrides are added only where there is no default
ApplyResourcesKeepsDefaults(o, base) ==
    [r \in Resources |-> IF r \in spec[o].res /\ base[r] = "" THEN o ELSE base[r]]

\* maps.Copy of the overrides into base.
ApplyResources(o, base) == [r \in Resources |-> IF r \in spec[o].res THEN o ELSE base[r]]

BaseResources == IF HasDefaults THEN memory ELSE [r \in Resources |-> ""]

\* A plausible bug: an autoscaler's choice is overwritten
ReplicasFixed(s, existing) == IF s.rep # Unset THEN s.rep ELSE 2

\* The spec decides; without a count in the spec the existing one stays.
Replicas(s, existing) ==
    IF s.rep # Unset THEN s.rep ELSE IF existing = Unset THEN 2 ELSE existing

\* An embedded etcd forbids more than one replica; nil is left to the API server.
CacheServerReplicas(s, existing) ==
    IF s.etcd THEN (IF s.rep # Unset THEN s.rep ELSE 2)
    ELSE IF existing > 1 THEN 1 ELSE existing

-----------------------------------------------------------------------------
(* The reconciler functions: the object that is sent to the API server.     *)

\* Deployments whose labels and selector the reconciler sets every time.
Relabels == kind # "FrontProxy"

\* SetLabels, the selector, containers, replicas and image settings, before the template.
RenderedBase(o) ==
    LET old == dep[o] IN
    [exists    |-> TRUE,
     labels    |-> IF Relabels THEN ResourceLabels(o) ELSE old.labels,
     selector  |-> IF Relabels \/ old.selector = Empty THEN ResourceLabels(o) ELSE old.selector,
     podLabels |-> ResourceLabels(o),
     notes     |-> old.notes,
     podNotes  |-> old.podNotes,
     res       |-> ApplyResources(o, BaseResources),
     rep       |-> IF kind = "CacheServer" THEN CacheServerReplicas(spec[o], old.rep)
                   ELSE Replicas(spec[o], old.rep),
     node      |-> old.node,
     pull      |-> "image"]

\* A Pod spec template replaces the node selector and the imagePullSecrets as a whole.
ApplyDeploymentTemplate(d, s) ==
    [d EXCEPT !.labels = mergeMaps(@, TemplateLabels(s)),
              !.podLabels = mergeMaps(@, TemplateLabels(s)),
              !.notes = mergeMaps(@, TemplateNotes(s)),
              !.podNotes = mergeMaps(@, TemplateNotes(s)),
              !.node = s.pod \/ @,
              !.pull = IF s.pod THEN "" ELSE @]

DeploymentReconciler(o) == ApplyDeploymentTemplate(RenderedBase(o), spec[o])

\* A Service's labels and selector are set every time, its annotations stay.
ServiceReconciler(o) ==
    [exists   |-> TRUE,
     labels   |-> mergeMaps(ResourceLabels(o), TemplateLabels(spec[o])),
     notes    |-> mergeMaps(svc[o].notes, TemplateNotes(spec[o])),
     selector |-> ResourceLabels(o)]

\* A plausible bug: the names are merged with those of the existing Certificate
CertificateNamesKept(o) ==
    IF spec[o].names /\ spec[o].issuer THEN {"further"}
    ELSE {"host"} \cup cert[o].names \cup IF spec[o].names THEN {"further"} ELSE {}

\* DNSNames of the template replace the operator's when the issuer is replaced too.
CertificateNames(o) ==
    IF spec[o].names /\ spec[o].issuer THEN {"further"}
    ELSE {"host"} \cup IF spec[o].names THEN {"further"} ELSE {}

\* The spec of a Certificate is built anew every time.
CertificateReconciler(o) ==
    [exists       |-> TRUE,
     labels       |-> mergeMaps(ResourceLabels(o), TemplateLabels(spec[o])),
     notes        |-> mergeMaps(cert[o].notes, TemplateNotes(spec[o])),
     names        |-> CertificateNames(o),
     issuer       |-> IF spec[o].issuer THEN "user" ELSE "ServerCA",
     secretLabels |-> mergeMaps(ResourceLabels(o), TemplateLabels(spec[o]))]

-----------------------------------------------------------------------------
(* The API server.                                                          *)

\* spec.selector is immutable and has to match the Pod labels.
Accepted(old, new) ==
    /\ old.exists => new.selector = old.selector
    /\ \A k \in DOMAIN new.selector :
           k \in DOMAIN new.podLabels /\ new.podLabels[k] = new.selector[k]

\* A Deployment without a replica count gets one replica.
Defaulted(d) == [d EXCEPT !.rep = IF @ = Unset THEN 1 ELSE @]

-----------------------------------------------------------------------------
(* Actions.                                                                 *)

Edit(o) ==
    /\ edits < MaxEdits
    /\ \E f \in DOMAIN SpecFields : \E v \in SpecFields[f] :
           LET s == [spec[o] EXCEPT ![f] = v] IN
           /\ s # spec[o] /\ Allowed(s)
           /\ spec' = [spec EXCEPT ![o] = s]
    /\ edits' = edits + 1
    /\ queued' = queued \cup {<<o, "render">>, <<o, "certify">>}
    /\ UNCHANGED <<kind, dep, svc, cert, memory, overrode, outside>>

\* Any change of a Secret in the namespace queues every Compiled object.
SecretChanges ==
    /\ queued' = queued \cup (Objects \X {"render"})
    /\ UNCHANGED <<kind, spec, dep, svc, cert, memory, overrode, edits, outside>>

\* Somebody else changes the Deployment, which the controller owns and therefore watches.
Foreign(o, d) ==
    /\ outside < MaxOutside
    /\ dep[o].exists
    /\ d # dep[o]
    /\ dep' = [dep EXCEPT ![o] = d]
    /\ outside' = outside + 1
    /\ queued' = queued \cup {<<o, "render">>}
    /\ UNCHANGED <<kind, spec, svc, cert, memory, overrode, edits>>

\* An autoscaler, or kubectl scale.
Scale(o) == \E n \in {1, 4} : Foreign(o, [dep[o] EXCEPT !.rep = n])

\* kubectl rollout restart.
RolloutRestart(o) ==
    Foreign(o, [dep[o] EXCEPT !.podNotes = mergeMaps([k \in {"restartedAt"} |-> "now"], @)])

\* A plausible bug: the Service is not updated once it exists
RenderServiceOnce(o) ==
    /\ <<o, "render">> \in queued
    /\ memory' = IF Aliased THEN ApplyResources(o, BaseResources) ELSE memory
    /\ overrode' = [r \in Resources |-> IF r \in spec[o].res THEN overrode[r] \cup {o} ELSE overrode[r]]
    /\ dep' = [dep EXCEPT ![o] = Defaulted(DeploymentReconciler(o))]
    /\ queued' = queued \ {<<o, "render">>}
    /\ svc' = IF svc[o].exists THEN svc ELSE [svc EXCEPT ![o] = ServiceReconciler(o)]
    /\ UNCHANGED <<kind, spec, cert, edits, outside>>

\* One pass of the compiled controller.  The reconciler function has copied the overrides into the
\* package-level map whether or not the API server takes the result.
Render(o) ==
    /\ <<o, "render">> \in queued
    /\ memory' = IF Aliased THEN ApplyResources(o, BaseResources) ELSE memory
    /\ overrode' = [r \in Resources |-> IF r \in spec[o].res THEN overrode[r] \cup {o} ELSE overrode[r]]
    /\ IF Accepted(dep[o], DeploymentReconciler(o))
       THEN /\ dep' = [dep EXCEPT ![o] = Defaulted(DeploymentReconciler(o))]
            /\ queued' = queued \ {<<o, "render">>}
       ELSE UNCHANGED <<dep, queued>>
    /\ svc' = [svc EXCEPT ![o] = ServiceReconciler(o)]
    /\ UNCHANGED <<kind, spec, cert, edits, outside>>

\* The part of a pass of the source controller that updates the Certificate.
Certify(o) ==
    /\ <<o, "certify">> \in queued
    /\ cert' = [cert EXCEPT ![o] = CertificateReconciler(o)]
    /\ queued' = queued \ {<<o, "certify">>}
    /\ UNCHANGED <<kind, spec, dep, svc, memory, overrode, edits, outside>>

\* A new process starts from the defaults of the source and reconciles everything.
Restart ==
    /\ outside < MaxOutside
    /\ outside' = outside + 1
    /\ memory' = Defaults
    /\ overrode' = [r \in Resources |-> {}]
    /\ queued' = Objects \X {"render", "certify"}
    /\ UNCHANGED <<kind, spec, dep, svc, cert, edits>>

Init ==
    /\ kind \in Kinds
    /\ spec = [o \in Objects |-> FirstSpec]
    /\ dep = [o \in Objects |-> NoDeployment]
    /\ svc = [o \in Objects |-> NoService]
    /\ cert = [o \in Objects |-> NoCertificate]
    /\ memory = Defaults
    /\ overrode = [r \in Resources |-> {}]
    /\ queued = Objects \X {"render", "certify"}
    /\ edits = 0
    /\ outside = 0

Next ==
    \/ SecretChanges
    \/ Restart
    \/ \E o \in Objects :
           Edit(o) \/ Scale(o) \/ RolloutRestart(o) \/ Render(o) \/ Certify(o)

Spec == Init /\ [][Next]_vars

-----------------------------------------------------------------------------
(* Properties.                                                              *)

AtRest(o) == <<o, "render">> \notin queued

Maps(keys, values) == UNION {[d -> values] : d \in SUBSET keys}

Labels == Maps({"app", "team"}, Objects \cup {"user"})

Amounts == Objects \cup {Default, ""}

\* Every object has the shape of its type.
TypeOK ==
    /\ kind \in Kinds
    /\ \A o \in Objects :
        /\ DOMAIN spec[o] = DOMAIN SpecFields
        /\ \A f \in DOMAIN SpecFields : spec[o][f] \in SpecFields[f]
        /\ dep[o].exists \in BOOLEAN
        /\ dep[o].labels \in Labels /\ dep[o].podLabels \in Labels /\ dep[o].selector \in Labels
        /\ dep[o].podNotes \in Maps({"note", "restartedAt"}, {"a", "b", "now"})
        /\ dep[o].rep \in 0 .. 4
        /\ dep[o].exists => dep[o].res \in [Resources -> Amounts] /\ dep[o].rep > 0
        /\ cert[o].names \subseteq {"host", "further"}
    /\ memory \in [Resources -> Amounts]
    /\ overrode \in [Resources -> SUBSET Objects]
    /\ queued \subseteq Objects \X {"render", "certify"}

\* Whatever a user puts into the templates, the API server accepts the Deployment that the next
\* pass renders: the operator's labels win over the template's (mergeMaps), and the label maps
\* that SetLabels shares between object, selector and Pod template are never changed in place.
\* A rejected Deployment would be retried forever.
NeverRejected == \A o \in Objects : Accepted(dep[o], DeploymentReconciler(o))

\* A pass never drops what others put on the Pod template: an annotation of kubectl rollout
\* restart survives, and so does the replica count of an autoscaler while spec.replicas is unset
\* (ApplyCommonShardConfig).  A CacheServer does not support one: on its embedded etcd it is back at
\* one replica, however the count came about (an earlier external etcd, kubectl scale).
OthersKept ==
    [][\A o \in Objects : Render(o) /\ dep[o].exists =>
           /\ DOMAIN dep[o].podNotes \subseteq DOMAIN dep'[o].podNotes
           /\ kind # "CacheServer" /\ spec[o].rep = Unset => dep'[o].rep = dep[o].rep
           /\ kind = "CacheServer" /\ ~spec[o].etcd => dep'[o].rep = 1]_vars

\* Every amount in a rendered container has an explanation: the object's own override, else the
\* default, else the override of an object that was rendered earlier by the same process and
\* whose amounts maps.Copy wrote into the package-level defaults (ApplyResources).
ResourcesExplained ==
    \A o \in Objects : dep[o].exists /\ AtRest(o) /\ HasDefaults =>
        \A r \in Resources :
            \/ r \in spec[o].res /\ dep[o].res[r] = o
            \/ r \notin spec[o].res /\ dep[o].res[r] \in {Default} \cup overrode[r]

\* A pass over an object that nobody has changed changes nothing, so that the event of its own
\* write does not set off another rollout: the merges with what exists reach a fixed point at
\* once.  Amounts are the subject of ResourcesExplained.
Idempotent ==
    \A o \in Objects : dep[o].exists /\ AtRest(o) =>
        LET new == Defaulted(DeploymentReconciler(o)) IN
        /\ [new EXCEPT !.res = dep[o].res] = dep[o]
        /\ ServiceReconciler(o) = svc[o]

\* When its pass is done, a Certificate names exactly the hosts and the issuer that the template
\* asks for (applyCertificateSpecTemplate), also after names or an issuer were taken out again.
CertificateCurrent ==
    \A o \in Objects : <<o, "certify">> \notin queued =>
        /\ ("further" \in cert[o].names) = spec[o].names
        /\ ("host" \in cert[o].names) = ~(spec[o].names /\ spec[o].issuer)
        /\ (cert[o].issuer = "user") = spec[o].issuer
        /\ cert[o].labels["app"] = o

\* "Resources overrides the default resource requests and limits": an object that overrides
\* nothing runs with the defaults.
SpecApplied ==
    \A o \in Objects : dep[o].exists /\ AtRest(o) /\ HasDefaults =>
        \A r \in Resources \ spec[o].res : dep[o].res[r] = Default

=============================================================================
