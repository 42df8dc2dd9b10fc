--------------------------- MODULE KubeconfigRBAC ---------------------------
(***************************************************************************)
(* The kubeconfig-rbac controller (pkg/controller/kubeconfig-rbac): it     *)
(* provisions ClusterRoleBindings for one Kubeconfig in a kcp workspace,   *)
(* remembers that workspace in the Kubeconfig's status and removes the     *)
(* bindings again before the Kubeconfig may go away.                       *)
(*                                                                         *)
(* The Kubeconfig lives in the API server (srv).  The controller reads it  *)
(* from an informer cache (cache) that trails the server by the versions   *)
(* in unseen, works on a private copy (kc), and talks to kcp directly.     *)
(* Every API call is a step of its own, so users, the cache, failures and  *)
(* operator restarts interleave with one pass of Reconcile.                *)
(***************************************************************************)
EXTENDS Naturals, Sequences, FiniteSets

CONSTANTS
    Targets,         \* kcp endpoints a Kubeconfig can point to (spec.target)
    Clusters,        \* workspaces RBAC can be provisioned in
    Roles,           \* ClusterRoles that can be bound
    NoCluster,       \* the empty string: no authorization / nothing provisioned
    NilAuth,         \* status.authorization has never been set (a nil pointer)
    Authorizations,  \* what users write as spec.authorization
    MaxEdits,        \* bound on spec changes by users
    MaxFaults        \* bound on failed API calls and operator restarts

ASSUME SentinelAssumption ==
    /\ NoCluster \notin Clusters
    /\ NilAuth \notin Clusters
    /\ NilAuth # NoCluster

\* Without spec.authorization there is neither a workspace nor a role.
ASSUME AuthorizationAssumption ==
    Authorizations \subseteq
        [cluster : {NoCluster}, roles : {{}}] \cup [cluster : Clusters, roles : SUBSET Roles]

ASSUME BoundAssumption == MaxEdits \in Nat /\ MaxFaults \in Nat

VARIABLES
    srv,      \* the Kubeconfig as the API server stores it
    cache,    \* the version the informer cache returns
    unseen,   \* versions the cache has yet to receive, oldest first
    queued,   \* the work queue holds a request for the Kubeconfig
    pc,       \* the API call the running pass makes next, "idle" between passes
    path,     \* whether the pass runs handleDeletion or follows the spec
    kc,       \* the private copy the pass works on
    todo,     \* roles still to be deleted or created by the running loop
    crbs,     \* the ClusterRoleBindings in kcp that carry the owner label
    astray,   \* history: endpoints and workspaces whose bindings may be forgotten
    edits,    \* user edits so far
    faults    \* failures so far

vars == <<srv, cache, unseen, queued, pc, path, kc, todo, crbs, astray, edits, faults>>

-----------------------------------------------------------------------------
(* The Kubeconfig, reduced to what the controller reads and writes.        *)

Kubeconfigs ==
    [exists   : BOOLEAN,
     deleting : BOOLEAN,                            \* metadata.deletionTimestamp
     fin      : BOOLEAN,                            \* the cleanup-rbac finalizer
     target   : Targets,                            \* spec.target
     auth     : Authorizations,                     \* spec.authorization and workspace
     prov     : Clusters \cup {NoCluster, NilAuth}] \* status.authorization

Places == Targets \X Clusters

Bindings == Targets \X Clusters \X Roles

PCs == {"idle", "ensureFinalizer", "removeFinalizer", "recordCluster",
        "listBindings", "pruneBindings", "createBindings",
        "unprovision", "deleteBindings", "forgetCluster"}

\* The workspace the bindings belong to, "" without spec.authorization.
NewCluster(k) == k.auth.cluster

\* The workspace recorded in the status, "" when there is no such record.
OldCluster(k) == IF k.prov = NilAuth THEN NoCluster ELSE k.prov

\* Something was provisioned in a workspace the spec does not name (anymore).
Moved(k) == OldCluster(k) # NoCluster /\ NewCluster(k) # OldCluster(k)

\* patchProvisionedCluster has nothing to do for this value.
Recorded(k, cluster) == k.prov = cluster

\* What List returns for the owner label in one workspace behind one target.
Owned(target, cluster) == {r \in Roles : <<target, cluster, r>> \in crbs}

-----------------------------------------------------------------------------
(* The API server and the informer cache.                                  *)

\* A write is stored and sent to the watchers unless it changes nothing.
Store(new) ==
    /\ srv' = new
    /\ unseen' = IF new = srv THEN unseen ELSE Append(unseen, new)

\* An object being deleted disappears with its last finalizer.
Settled(k) == [k EXCEPT !.exists = k.exists /\ (k.fin \/ ~k.deleting)]

\* A merge patch of the stored object answers with the object it stored.
Patch(new) ==
    /\ srv.exists
    /\ Store(Settled(new))
    /\ kc' = Settled(new)

\* A version carries the endpoint, the finalizer and the record of the server.
Agrees(k) == k.target = srv.target /\ k.fin = srv.fin /\ k.prov = srv.prov

\* The cache and all that is on its way to it agree with the server.
InSync == Agrees(cache) /\ \A i \in DOMAIN unseen : Agrees(unseen[i])

\* The informer receives the next version and the event enqueues a request.
CacheSync ==
    /\ unseen # <<>>
    /\ cache' = Head(unseen)
    /\ unseen' = Tail(unseen)
    /\ queued' = TRUE
    /\ UNCHANGED <<srv, pc, path, kc, todo, crbs, astray, edits, faults>>

\* The bindings of a recorded workspace stay behind when spec.target moves: the
\* cleanup talks to the endpoint in the spec, the record holds no endpoint.
LeftBehind(t) == IF t # srv.target /\ srv.prov \in Clusters THEN {<<srv.target, srv.prov>>} ELSE {}

\* A user changes target, workspace or roles.
Edit ==
    /\ srv.exists
    /\ edits < MaxEdits
    /\ edits' = edits + 1
    /\ \E t \in Targets, a \in Authorizations :
         /\ <<t, a>> # <<srv.target, srv.auth>>
         /\ Store([srv EXCEPT !.target = t, !.auth = a])
         /\ astray' = astray \cup LeftBehind(t)
    /\ UNCHANGED <<cache, queued, pc, path, kc, todo, crbs, faults>>

\* A user deletes the Kubeconfig.
Delete ==
    /\ srv.exists
    /\ ~srv.deleting
    /\ Store(Settled([srv EXCEPT !.deleting = TRUE]))
    /\ UNCHANGED <<cache, queued, pc, path, kc, todo, crbs, astray, edits, faults>>

-----------------------------------------------------------------------------
(* One pass of Reconcile.                                                  *)

Idle == pc' = "idle" /\ UNCHANGED <<kc, todo>>

\* The read that starts a pass, followed by the call or return it leads to.
Begin(next, how) ==
    /\ pc = "idle"
    /\ queued
    /\ queued' = FALSE
    /\ kc' = cache
    /\ pc' = next
    /\ path' = how
    /\ todo' = {}
    /\ UNCHANGED <<srv, cache, unseen, crbs, edits, faults>>

\* The Kubeconfig is gone, or is being deleted and holds no finalizer.
NothingToDo ==
    /\ ~cache.exists \/ (cache.deleting /\ ~cache.fin)
    /\ Begin("idle", "spec")
    /\ UNCHANGED astray

\* Defect: the finalizer goes without the cleanup.
HandleDeletionWithoutCleanup ==
    /\ cache.exists /\ cache.deleting /\ cache.fin
    /\ Begin("removeFinalizer", "deletion")
    /\ UNCHANGED astray

HandleDeletion ==
    /\ cache.exists /\ cache.deleting /\ cache.fin
    /\ Begin("unprovision", "deletion")
    /\ UNCHANGED astray

UnprovisionFirst ==
    /\ cache.exists /\ ~cache.deleting
    /\ Moved(cache)
    /\ Begin("unprovision", "spec")
    /\ UNCHANGED astray

\* Defect: the finalizer goes as soon as nothing is configured anymore.
NothingConfiguredAnymore ==
    /\ cache.exists /\ ~cache.deleting
    /\ NewCluster(cache) = NoCluster
    /\ Begin("removeFinalizer", "spec")
    /\ UNCHANGED astray

NothingConfigured ==
    /\ cache.exists /\ ~cache.deleting
    /\ ~Moved(cache) /\ NewCluster(cache) = NoCluster
    /\ Begin("removeFinalizer", "spec")
    /\ UNCHANGED astray

NeedsFinalizer ==
    /\ cache.exists /\ ~cache.deleting
    /\ ~Moved(cache) /\ NewCluster(cache) # NoCluster
    /\ ~cache.fin
    /\ Begin("ensureFinalizer", "spec")
    /\ UNCHANGED astray

NeedsRecord ==
    /\ cache.exists /\ ~cache.deleting
    /\ ~Moved(cache) /\ NewCluster(cache) # NoCluster
    /\ cache.fin /\ ~Recorded(cache, NewCluster(cache))
    /\ Begin("recordCluster", "spec")
    /\ UNCHANGED astray

\* Where bindings are about to be ensured on the word of a copy that does not know
\* of the record or finalizer the controller has dropped or changed since.
Misled == IF InSync THEN {} ELSE {<<cache.target, NewCluster(cache)>>}

\* Defect: the workspace is not remembered before bindings are created.
ReconcileBindingsUnrecorded ==
    /\ cache.exists /\ ~cache.deleting
    /\ ~Moved(cache) /\ NewCluster(cache) # NoCluster
    /\ cache.fin
    /\ Begin("listBindings", "spec")
    /\ astray' = astray \cup Misled

ReconcileBindings ==
    /\ cache.exists /\ ~cache.deleting
    /\ NewCluster(cache) # NoCluster
    /\ cache.fin /\ Recorded(cache, NewCluster(cache))
    /\ Begin("listBindings", "spec")
    /\ astray' = astray \cup Misled

EnsureFinalizer ==
    /\ pc = "ensureFinalizer"
    /\ Patch([srv EXCEPT !.fin = TRUE])
    /\ pc' = "idle"
    /\ UNCHANGED <<cache, queued, path, todo, crbs, astray, edits, faults>>

RemoveFinalizer ==
    /\ pc = "removeFinalizer"
    /\ kc.fin
    /\ Patch([srv EXCEPT !.fin = FALSE])
    /\ pc' = "idle"
    /\ UNCHANGED <<cache, queued, path, todo, crbs, astray, edits, faults>>

RemoveFinalizerNoop ==
    /\ pc = "removeFinalizer"
    /\ ~kc.fin
    /\ Idle
    /\ UNCHANGED <<srv, cache, unseen, queued, path, crbs, astray, edits, faults>>

\* Before anything is created the workspace is written down.
RecordCluster ==
    /\ pc = "recordCluster"
    /\ Patch([srv EXCEPT !.prov = NewCluster(kc)])
    /\ pc' = "idle"
    /\ UNCHANGED <<cache, queued, path, todo, crbs, astray, edits, faults>>

\* Defect: overhanging bindings are not found.
ListBindingsNothing ==
    /\ pc = "listBindings"
    /\ todo' = {}
    /\ pc' = "pruneBindings"
    /\ UNCHANGED <<srv, cache, unseen, queued, path, kc, crbs, astray, edits, faults>>

\* reconcileBindings: list, delete what is overhanging, create what is wanted.
ListBindings ==
    /\ pc = "listBindings"
    /\ todo' = Owned(kc.target, NewCluster(kc)) \ kc.auth.roles
    /\ pc' = "pruneBindings"
    /\ UNCHANGED <<srv, cache, unseen, queued, path, kc, crbs, astray, edits, faults>>

PruneBinding ==
    /\ pc = "pruneBindings"
    /\ \E r \in todo :
         /\ crbs' = crbs \ {<<kc.target, NewCluster(kc), r>>}
         /\ todo' = todo \ {r}
    /\ UNCHANGED <<srv, cache, unseen, queued, pc, path, kc, astray, edits, faults>>

PruneDone ==
    /\ pc = "pruneBindings"
    /\ todo = {}
    /\ todo' = kc.auth.roles
    /\ pc' = "createBindings"
    /\ UNCHANGED <<srv, cache, unseen, queued, path, kc, crbs, astray, edits, faults>>

CreateBinding ==
    /\ pc = "createBindings"
    /\ \E r \in todo :
         /\ crbs' = crbs \cup {<<kc.target, NewCluster(kc), r>>}
         /\ todo' = todo \ {r}
    /\ UNCHANGED <<srv, cache, unseen, queued, pc, path, kc, astray, edits, faults>>

CreateDone ==
    /\ pc = "createBindings"
    /\ todo = {}
    /\ Idle
    /\ UNCHANGED <<srv, cache, unseen, queued, path, crbs, astray, edits, faults>>

\* Defect: handleDeletion stops after the cleanup.
AfterUnprovisionStop == "idle"

\* What follows unprovisionCluster: handleDeletion goes on to the finalizer.
AfterUnprovision == IF path = "deletion" THEN "removeFinalizer" ELSE "idle"

\* unprovisionCluster dereferences the nil status.authorization: the panic is
\* recovered by the controller runtime and the request is retried.
UnprovisionPanic ==
    /\ pc = "unprovision"
    /\ kc.prov = NilAuth
    /\ Idle
    /\ queued' = TRUE
    /\ UNCHANGED <<srv, cache, unseen, path, crbs, astray, edits, faults>>

UnprovisionNoop ==
    /\ pc = "unprovision"
    /\ kc.prov = NoCluster
    /\ pc' = AfterUnprovision
    /\ UNCHANGED <<srv, cache, unseen, queued, path, kc, todo, crbs, astray, edits, faults>>

UnprovisionList ==
    /\ pc = "unprovision"
    /\ kc.prov \in Clusters
    /\ todo' = Owned(kc.target, kc.prov)
    /\ pc' = "deleteBindings"
    /\ UNCHANGED <<srv, cache, unseen, queued, path, kc, crbs, astray, edits, faults>>

UnprovisionDelete ==
    /\ pc = "deleteBindings"
    /\ \E r \in todo :
         /\ crbs' = crbs \ {<<kc.target, kc.prov, r>>}
         /\ todo' = todo \ {r}
    /\ UNCHANGED <<srv, cache, unseen, queued, pc, path, kc, astray, edits, faults>>

UnprovisionDeleted ==
    /\ pc = "deleteBindings"
    /\ todo = {}
    /\ pc' = "forgetCluster"
    /\ UNCHANGED <<srv, cache, unseen, queued, path, kc, todo, crbs, astray, edits, faults>>

\* All bindings are deleted: the status forgets the workspace.
ForgetCluster ==
    /\ pc = "forgetCluster"
    /\ Patch([srv EXCEPT !.prov = NoCluster])
    /\ pc' = AfterUnprovision
    /\ UNCHANGED <<cache, queued, path, todo, crbs, astray, edits, faults>>

\* A patch of an object that is gone fails, the request is retried.
PatchNotFound ==
    /\ pc \in {"ensureFinalizer", "removeFinalizer", "recordCluster", "forgetCluster"}
    /\ pc = "removeFinalizer" => kc.fin
    /\ ~srv.exists
    /\ Idle
    /\ queued' = TRUE
    /\ UNCHANGED <<srv, cache, unseen, path, crbs, astray, edits, faults>>

\* An API call fails, its answer is lost, or the operator restarts: the pass
\* ends where it is and the request is retried.
Abort ==
    /\ pc # "idle"
    /\ faults < MaxFaults
    /\ faults' = faults + 1
    /\ Idle
    /\ queued' = TRUE
    /\ UNCHANGED <<srv, cache, unseen, path, crbs, astray, edits>>

-----------------------------------------------------------------------------

Init ==
    /\ \E t \in Targets, a \in Authorizations :
         srv = [exists |-> TRUE, deleting |-> FALSE, fin |-> FALSE,
                target |-> t, auth |-> a, prov |-> NilAuth]
    /\ cache = srv
    /\ unseen = <<>>
    /\ queued = TRUE
    /\ pc = "idle"
    /\ path = "spec"
    /\ kc = srv
    /\ todo = {}
    /\ crbs = {}
    /\ astray = {}
    /\ edits = 0
    /\ faults = 0

Decide ==
    \/ NothingToDo \/ HandleDeletion \/ UnprovisionFirst \/ NothingConfigured
    \/ NeedsFinalizer \/ NeedsRecord \/ ReconcileBindings

Call ==
    \/ EnsureFinalizer \/ RemoveFinalizer \/ RemoveFinalizerNoop \/ RecordCluster
    \/ ListBindings \/ PruneBinding \/ PruneDone \/ CreateBinding \/ CreateDone
    \/ UnprovisionPanic \/ UnprovisionNoop \/ UnprovisionList
    \/ UnprovisionDelete \/ UnprovisionDeleted \/ ForgetCluster \/ PatchNotFound

Worker == Decide \/ Call

Next == CacheSync \/ Edit \/ Delete \/ Worker \/ Abort

Spec == Init /\ [][Next]_vars

\* The informer and the worker keep running; users owe nothing, faults are rare.
FairSpec == Spec /\ WF_vars(CacheSync) /\ WF_vars(Worker)

-----------------------------------------------------------------------------
(* Properties.                                                             *)

\* The type of every variable.
Types ==
    /\ srv \in Kubeconfigs
    /\ cache \in Kubeconfigs
    /\ kc \in Kubeconfigs
    /\ unseen \in Seq(Kubeconfigs)
    /\ queued \in BOOLEAN
    /\ pc \in PCs
    /\ path \in {"spec", "deletion"}
    /\ todo \in SUBSET Roles
    /\ crbs \in SUBSET Bindings
    /\ astray \in SUBSET Places
    /\ edits \in 0..MaxEdits
    /\ faults \in 0..MaxFaults

\* controller.go:113-119: reconcileBindings is not reached without a workspace.
BindingPass ==
    pc \in {"listBindings", "pruneBindings", "createBindings"} =>
        NewCluster(kc) \in Clusters

\* Every variable keeps its type, and a binding is never created outside a
\* workspace (controller.go:113-119 returns before reconcileBindings).
TypeOK == Types /\ BindingPass

\* The bindings at the places neither cause has taken out of the controller's sight.
Kept == {b \in crbs : <<b[1], b[2]>> \notin astray}

\* controller.go:128 "Before we actually create anything, remember the cluster so
\* if something happens, we can properly cleanup any leftovers": while a binding is
\* in kcp, the stored Kubeconfig names its endpoint and workspace and carries the
\* finalizer that forces the cleanup, and so does every version a later pass can
\* start from.
BindingsRecorded ==
    \A b \in Kept :
        /\ srv.exists /\ srv.fin
        /\ srv.target = b[1] /\ srv.prov = b[2]
        /\ InSync

\* The running pass works for a place the controller has lost sight of anyway, or
\* its copy agrees with the server.
PassInSync(cluster) ==
    <<kc.target, cluster>> \notin astray => Agrees(kc) /\ InSync /\ srv.exists

\* The strengthening that makes BindingsRecorded inductive: bindings are ensured
\* under the record and the finalizer, and every call that changes the record or
\* the finalizer finds kcp already clean.
RecordInv ==
    /\ BindingsRecorded
    /\ srv.fin => srv.exists
    /\ pc \in {"listBindings", "pruneBindings", "createBindings"} =>
         kc.fin /\ kc.prov = NewCluster(kc) /\ PassInSync(kc.prov)
    /\ pc \in {"unprovision", "deleteBindings"} /\ Kept # {} => Agrees(kc)
    /\ pc = "deleteBindings" => \A b \in Kept : b[3] \in todo
    /\ pc \in {"ensureFinalizer", "recordCluster", "forgetCluster", "removeFinalizer"} =>
         Kept = {}

\* docs/content/architecture/kubeconfig.md:105: the bindings are deleted before
\* the Kubeconfig can be.  A binding is left in kcp once the object is gone for two
\* reasons only: spec.target was moved away from its endpoint while its workspace
\* was recorded (controller.go:220), or it was created by a pass that started
\* before the cache had the controller's own last writes (controller.go:76).
NoOrphans == ~srv.exists => \A b \in crbs : <<b[1], b[2]>> \in astray

Protocol == INSTANCE FinalizerProtocol WITH
    Things  <- Bindings,
    present <- srv.exists,
    leaving <- srv.deleting,
    guarded <- srv.fin,
    outside <- Kept

\* The controller follows the finalizer protocol step by step: a binding is only
\* created under the finalizer, the finalizer only goes when no binding is left,
\* with an edit, a failure, a restart or a late cache between any two calls, except
\* for bindings at a place spec.target was moved away from or a misled pass wrote to.
ImplementsProtocol == Protocol!Spec

\* What the stored Kubeconfig asks for.
Desired ==
    {<<srv.target, NewCluster(srv), r>> :
        r \in IF srv.exists /\ ~srv.deleting /\ NewCluster(srv) # NoCluster
              THEN srv.auth.roles ELSE {}}

\* The workspace the Kubeconfig points to now holds exactly what it asks for.
Served ==
    srv.exists /\ ~srv.deleting =>
        {b \in crbs : b[1] = srv.target /\ b[2] = NewCluster(srv)} = Desired

\* Once users stop editing, the workspace the Kubeconfig points to ends up with
\* exactly the configured bindings, and no other place keeps one the controller has
\* not lost sight of.
Converges == <>[](Served /\ Kept \subseteq Desired)

\* A deleted Kubeconfig whose status was ever written goes away.
RecordedDeletionCompletes ==
    (srv.exists /\ srv.deleting /\ srv.prov # NilAuth) ~> ~srv.exists

\* A deleted Kubeconfig goes away (as long as its target can be reached).
DeletionCompletes == srv.deleting ~> ~srv.exists

=============================================================================
