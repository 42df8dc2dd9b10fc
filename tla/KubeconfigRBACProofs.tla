------------------------ MODULE KubeconfigRBACProofs ------------------------
(***************************************************************************)
(* What the kubeconfig-rbac controller guarantees for every number of      *)
(* workspaces, roles, user edits, failures and restarts.                   *)
(***************************************************************************)
EXTENDS KubeconfigRBAC, TLAPS

\* An object that settles keeps its type, its finalizer and its record.
LEMMA SettledType ==
  ASSUME NEW k \in Kubeconfigs
  PROVE  /\ Settled(k) \in Kubeconfigs
         /\ Settled(k).fin = k.fin
         /\ Settled(k).prov = k.prov
  BY DEF Settled, Kubeconfigs

\* What is stored, and what the cache has yet to see, is a Kubeconfig.
LEMMA StoreType ==
  ASSUME NEW new \in Kubeconfigs, unseen \in Seq(Kubeconfigs), Store(new)
  PROVE  srv' \in Kubeconfigs /\ unseen' \in Seq(Kubeconfigs)
  BY DEF Store

\* A patch that keeps the shape of the Kubeconfig stores one and returns one.
LEMMA PatchType ==
  ASSUME NEW new \in Kubeconfigs, unseen \in Seq(Kubeconfigs), Patch(new)
  PROVE  srv' \in Kubeconfigs /\ kc' \in Kubeconfigs /\ unseen' \in Seq(Kubeconfigs)
  <1>1. Settled(new) \in Kubeconfigs
    BY SettledType
  <1> QED BY <1>1, StoreType DEF Patch

\* Type correctness: no step of the controller, the cache or a user leaves the
\* state space the model describes.
THEOREM TypeCorrect == Spec => []TypeOK
<1>1. Init => Types /\ BindingPass
  <2> SUFFICES ASSUME Init PROVE Types /\ BindingPass OBVIOUS
  <2> PICK t \in Targets, a \in Authorizations :
         srv = [exists |-> TRUE, deleting |-> FALSE, fin |-> FALSE,
                target |-> t, auth |-> a, prov |-> NilAuth]
    BY DEF Init
  <2>1. srv \in Kubeconfigs BY DEF Kubeconfigs
  <2>2. cache \in Kubeconfigs /\ kc \in Kubeconfigs BY <2>1 DEF Init
  <2>3. /\ unseen \in Seq(Kubeconfigs) /\ todo \in SUBSET Roles
        /\ crbs \in SUBSET Bindings /\ astray \in SUBSET Places
    BY DEF Init
  <2>4. edits \in 0..MaxEdits /\ faults \in 0..MaxFaults BY BoundAssumption DEF Init
  <2>5. pc \in PCs /\ path \in {"spec", "deletion"} /\ queued \in BOOLEAN
    BY DEF Init, PCs
  <2>6. BindingPass BY DEF Init, BindingPass
  <2> QED BY <2>1, <2>2, <2>3, <2>4, <2>5, <2>6 DEF Types
<1>2. Types /\ BindingPass /\ [Next]_vars => Types'
  <2> SUFFICES ASSUME Types, BindingPass, [Next]_vars PROVE Types' OBVIOUS
  <2> USE DEF Types
  <2>1. CASE UNCHANGED vars BY <2>1 DEF vars
  <2>2. CASE CacheSync BY <2>2 DEF CacheSync
  <2>3. CASE Edit
    <3>1. PICK t \in Targets, a \in Authorizations :
            Store([srv EXCEPT !.target = t, !.auth = a]) /\ astray' = astray \cup LeftBehind(t)
      BY <2>3 DEF Edit
    <3>2. [srv EXCEPT !.target = t, !.auth = a] \in Kubeconfigs BY DEF Kubeconfigs
    <3>3. srv' \in Kubeconfigs /\ unseen' \in Seq(Kubeconfigs)
      BY <3>1, <3>2, StoreType
    <3>4. edits' \in 0..MaxEdits BY <2>3, BoundAssumption DEF Edit
    <3>5. LeftBehind(t) \subseteq Places BY DEF LeftBehind, Places, Kubeconfigs
    <3> QED BY <2>3, <3>1, <3>3, <3>4, <3>5 DEF Edit
  <2>4. CASE Delete
    <3>1. [srv EXCEPT !.deleting = TRUE] \in Kubeconfigs BY DEF Kubeconfigs
    <3>2. srv' \in Kubeconfigs /\ unseen' \in Seq(Kubeconfigs)
      BY <2>4, <3>1, StoreType, SettledType DEF Delete
    <3> QED BY <2>4, <3>2 DEF Delete
  <2>5. CASE Decide
    <3>1. CASE ReconcileBindings
      <4>1. NewCluster(cache) \in Clusters
        BY <3>1, AuthorizationAssumption DEF ReconcileBindings, Kubeconfigs, NewCluster
      <4>2. Misled \subseteq Places BY <4>1 DEF Misled, Places, Kubeconfigs
      <4> QED BY <3>1, <4>2 DEF ReconcileBindings, Begin, PCs
    <3>2. CASE ~ReconcileBindings
      BY <2>5, <3>2 DEF Decide, NothingToDo, HandleDeletion, UnprovisionFirst,
         NothingConfigured, NeedsFinalizer, NeedsRecord, Begin, PCs
    <3> QED BY <3>1, <3>2
  <2>6. CASE EnsureFinalizer
    <3>1. [srv EXCEPT !.fin = TRUE] \in Kubeconfigs BY DEF Kubeconfigs
    <3> QED BY <2>6, <3>1, PatchType DEF EnsureFinalizer, PCs
  <2>7. CASE RemoveFinalizer
    <3>1. [srv EXCEPT !.fin = FALSE] \in Kubeconfigs BY DEF Kubeconfigs
    <3> QED BY <2>7, <3>1, PatchType DEF RemoveFinalizer, PCs
  <2>8. CASE RecordCluster
    <3>1. [srv EXCEPT !.prov = NewCluster(kc)] \in Kubeconfigs
      BY AuthorizationAssumption DEF Kubeconfigs, NewCluster
    <3> QED BY <2>8, <3>1, PatchType DEF RecordCluster, PCs
  <2>9. CASE ForgetCluster
    <3>1. [srv EXCEPT !.prov = NoCluster] \in Kubeconfigs BY DEF Kubeconfigs
    <3> QED BY <2>9, <3>1, PatchType DEF ForgetCluster, AfterUnprovision, PCs
  <2>10. CASE RemoveFinalizerNoop \/ CreateDone \/ UnprovisionPanic \/ PatchNotFound
    BY <2>10 DEF RemoveFinalizerNoop, CreateDone, UnprovisionPanic, PatchNotFound, Idle, PCs
  <2>11. CASE ListBindings \/ UnprovisionList
    BY <2>11 DEF ListBindings, UnprovisionList, Owned, PCs
  <2>12. CASE PruneBinding \/ UnprovisionDelete
    BY <2>12 DEF PruneBinding, UnprovisionDelete
  <2>13. CASE PruneDone
    <3>1. kc.auth.roles \in SUBSET Roles BY AuthorizationAssumption DEF Kubeconfigs
    <3> QED BY <2>13, <3>1 DEF PruneDone, PCs
  <2>14. CASE CreateBinding
    <3>1. NewCluster(kc) \in Clusters BY <2>14 DEF CreateBinding, BindingPass
    <3>2. PICK r \in todo : crbs' = crbs \cup {<<kc.target, NewCluster(kc), r>>}
                            /\ todo' = todo \ {r}
      BY <2>14 DEF CreateBinding
    <3>3. <<kc.target, NewCluster(kc), r>> \in Bindings
      BY <3>1, <3>2 DEF Bindings, Kubeconfigs
    <3> QED BY <2>14, <3>2, <3>3 DEF CreateBinding
  <2>15. CASE UnprovisionNoop \/ UnprovisionDeleted
    BY <2>15 DEF UnprovisionNoop, UnprovisionDeleted, AfterUnprovision, PCs
  <2>16. CASE Abort BY <2>16, BoundAssumption DEF Abort, Idle, PCs
  <2> QED BY <2>1, <2>2, <2>3, <2>4, <2>5, <2>6, <2>7, <2>8, <2>9, <2>10, <2>11,
             <2>12, <2>13, <2>14, <2>15, <2>16 DEF Next, Worker, Call
<1>3. Types /\ BindingPass /\ [Next]_vars => BindingPass'
  <2> SUFFICES ASSUME Types, BindingPass, [Next]_vars PROVE BindingPass' OBVIOUS
  <2>1. CASE Decide
    <3>1. CASE ReconcileBindings
      <4>1. NewCluster(cache) \in Clusters
        BY <3>1, AuthorizationAssumption DEF ReconcileBindings, Types, Kubeconfigs, NewCluster
      <4> QED BY <3>1, <4>1 DEF ReconcileBindings, Begin, BindingPass
    <3>2. CASE ~ReconcileBindings
      BY <2>1, <3>2 DEF Decide, NothingToDo, HandleDeletion, UnprovisionFirst,
         NothingConfigured, NeedsFinalizer, NeedsRecord, Begin, BindingPass
    <3> QED BY <3>1, <3>2
  <2>2. CASE UNCHANGED vars \/ CacheSync \/ Edit \/ Delete
    BY <2>2 DEF vars, CacheSync, Edit, Delete, BindingPass
  <2>3. CASE Call
    BY <2>3 DEF Call, EnsureFinalizer, RemoveFinalizer, RemoveFinalizerNoop,
       RecordCluster, ListBindings, PruneBinding, PruneDone, CreateBinding, CreateDone,
       UnprovisionPanic, UnprovisionNoop, UnprovisionList, UnprovisionDelete,
       UnprovisionDeleted, ForgetCluster, PatchNotFound, Idle, AfterUnprovision, BindingPass
  <2>4. CASE Abort BY <2>4 DEF Abort, Idle, BindingPass
  <2> QED BY <2>1, <2>2, <2>3, <2>4 DEF Next, Worker
<1> QED BY <1>1, <1>2, <1>3, PTL DEF Spec, TypeOK

-----------------------------------------------------------------------------
(* The record and the finalizer protect the bindings.                      *)

\* What a binding in kcp means, place by place.
LEMMA KeptFacts ==
  ASSUME Types, NEW b \in Kept
  PROVE  b \in crbs /\ b = <<b[1], b[2], b[3]>> /\ b[2] \in Clusters /\ b[3] \in Roles
  BY DEF Types, Kept, Bindings

\* A patch cannot take away an object that holds the finalizer.
LEMMA PatchAgrees ==
  ASSUME NEW new \in Kubeconfigs, Patch(new), srv.exists, new.exists = srv.exists
  PROVE  srv'.fin => srv'.exists
  BY DEF Patch, Store, Settled, Kubeconfigs

\* The cache stays in agreement when it receives the next version.
LEMMA SyncStep ==
  ASSUME Types, CacheSync, InSync
  PROVE  InSync'
<1>1. /\ unseen \in Seq(Kubeconfigs) /\ unseen # <<>>
      /\ cache' = Head(unseen) /\ unseen' = Tail(unseen) /\ srv' = srv
  BY DEF CacheSync, Types
<1>2. 1 \in DOMAIN unseen /\ cache' = unseen[1] BY <1>1
<1>3. \A i \in DOMAIN unseen' : i + 1 \in DOMAIN unseen /\ unseen'[i] = unseen[i + 1]
  BY <1>1
<1> QED BY <1>1, <1>2, <1>3 DEF InSync, Agrees

\* A write that keeps endpoint, finalizer and record disturbs no agreement.
LEMMA StoreStep ==
  ASSUME Types, NEW new \in Kubeconfigs, Store(new), UNCHANGED cache, InSync,
         new.target = srv.target, new.fin = srv.fin, new.prov = srv.prov
  PROVE  InSync'
<1>1. unseen \in Seq(Kubeconfigs) /\ srv' = new
      /\ (unseen' = unseen \/ unseen' = Append(unseen, new))
  BY DEF Types, Store
<1>2. \A i \in DOMAIN unseen' :
         (i \in DOMAIN unseen /\ unseen'[i] = unseen[i]) \/ unseen'[i] = new
  BY <1>1
<1> QED BY <1>1, <1>2 DEF InSync, Agrees

\* A user's edit keeps the strengthened invariant: if it moves the target away from
\* a recorded workspace, that place is no longer among those the invariant is about.
LEMMA EditStep ==
  ASSUME Types, BindingPass, RecordInv, Edit
  PROVE  RecordInv'
<1> USE DEF RecordInv
<1>1. PICK t \in Targets, a \in Authorizations :
         Store([srv EXCEPT !.target = t, !.auth = a]) /\ astray' = astray \cup LeftBehind(t)
  BY DEF Edit
<1> DEFINE new == [srv EXCEPT !.target = t, !.auth = a]
<1>2. /\ new \in Kubeconfigs /\ new.target = t
      /\ new.exists = srv.exists /\ new.fin = srv.fin /\ new.prov = srv.prov
  BY DEF Types, Kubeconfigs
<1>3. Store(new) /\ srv' = new /\ UNCHANGED <<cache, pc, kc, todo, crbs>> BY <1>1 DEF Edit, Store
<1> HIDE DEF new
<1>4. CASE t = srv.target
  <2>1. UNCHANGED astray /\ UNCHANGED Kept BY <1>1, <1>3, <1>4 DEF LeftBehind, Kept
  <2>2. InSync => InSync' BY <1>2, <1>3, <1>4, StoreStep
  <2>3. BindingsRecorded' BY <1>2, <1>3, <1>4, <2>1, <2>2 DEF BindingsRecorded
  <2>4. Agrees(kc) => Agrees(kc)' BY <1>2, <1>3, <1>4 DEF Agrees
  <2> QED BY <1>2, <1>3, <2>1, <2>2, <2>3, <2>4 DEF PassInSync, NewCluster
<1>5. CASE t # srv.target
  <2>1. Kept' = {}
    <3>1. SUFFICES ASSUME NEW b \in Kept' PROVE FALSE OBVIOUS
    <3>2. b \in Kept BY <1>1, <1>3 DEF Kept
    <3>3. <<b[1], b[2]>> = <<srv.target, srv.prov>> /\ srv.prov \in Clusters
      BY <3>2, KeptFacts DEF BindingsRecorded
    <3> QED BY <1>1, <1>5, <3>1, <3>3 DEF Kept, LeftBehind
  <2>2. pc \in {"listBindings", "pruneBindings", "createBindings"} => PassInSync(kc.prov)'
    <3>1. SUFFICES ASSUME pc \in {"listBindings", "pruneBindings", "createBindings"},
                          <<kc.target, kc.prov>> \notin astray'
                   PROVE  FALSE
      BY <1>3 DEF PassInSync
    <3>2. kc.prov \in Clusters BY <3>1 DEF BindingPass
    <3>3. Agrees(kc) BY <1>1, <3>1 DEF PassInSync
    <3> QED BY <1>1, <1>5, <3>1, <3>2, <3>3 DEF Agrees, LeftBehind
  <2> QED BY <1>2, <1>3, <2>1, <2>2 DEF BindingsRecorded, NewCluster
<1> QED BY <1>4, <1>5

\* The start of a pass keeps the strengthened invariant, whatever the copy it reads:
\* with a binding in kcp every version in flight agrees with the server, so the copy
\* cannot lead to a call that drops the record or the finalizer.
LEMMA DecideStep ==
  ASSUME Types, BindingPass, RecordInv, Decide
  PROVE  RecordInv'
<1> USE DEF RecordInv
<1>1. UNCHANGED <<srv, cache, unseen, crbs>> /\ kc' = cache
  BY DEF Decide, NothingToDo, HandleDeletion, UnprovisionFirst, NothingConfigured,
     NeedsFinalizer, NeedsRecord, ReconcileBindings, Begin
<1>2. astray \subseteq astray'
  BY DEF Decide, NothingToDo, HandleDeletion, UnprovisionFirst, NothingConfigured,
     NeedsFinalizer, NeedsRecord, ReconcileBindings
<1>3. Kept' \subseteq Kept BY <1>1, <1>2 DEF Kept
<1>4. (InSync <=> InSync') /\ (Agrees(cache) <=> Agrees(kc)') BY <1>1 DEF InSync, Agrees
<1>5. BindingsRecorded' BY <1>1, <1>3, <1>4 DEF BindingsRecorded
<1>6. Kept # {} => Agrees(cache) /\ cache.fin /\ cache.prov \in Clusters
  BY KeptFacts DEF BindingsRecorded, InSync, Agrees
<1>7. CASE NothingConfigured \/ NeedsFinalizer \/ NeedsRecord
  <2>1. Kept = {}
    BY <1>6, <1>7, SentinelAssumption
       DEF NothingConfigured, NeedsFinalizer, NeedsRecord, Moved, OldCluster, Recorded
  <2>2. pc' \in {"removeFinalizer", "ensureFinalizer", "recordCluster"}
    BY <1>7 DEF NothingConfigured, NeedsFinalizer, NeedsRecord, Begin
  <2> QED BY <1>1, <1>3, <1>5, <2>1, <2>2
<1>8. CASE HandleDeletion \/ UnprovisionFirst \/ NothingToDo
  <2>1. pc' \in {"unprovision", "idle"}
    BY <1>8 DEF HandleDeletion, UnprovisionFirst, NothingToDo, Begin
  <2> QED BY <1>1, <1>3, <1>4, <1>5, <1>6, <2>1
<1>9. CASE ReconcileBindings
  <2>1. /\ pc' = "listBindings" /\ kc'.fin /\ kc'.prov = NewCluster(kc')
        /\ astray' = astray \cup Misled
    BY <1>1, <1>9 DEF ReconcileBindings, Begin, Recorded
  <2>2. <<cache.target, cache.prov>> \notin astray' => InSync
    BY <1>1, <2>1 DEF Misled, NewCluster
  <2>3. InSync => srv.exists BY <1>1, <2>1 DEF InSync, Agrees
  <2>4. PassInSync(kc.prov)'
    BY <1>1, <1>4, <2>2, <2>3 DEF PassInSync, InSync
  <2> QED BY <1>1, <1>5, <2>1, <2>4 DEF NewCluster
<1> QED BY <1>7, <1>8, <1>9 DEF Decide

\* One step keeps the strengthened invariant.
LEMMA RecordStep ==
  ASSUME Types, BindingPass, RecordInv, [Next]_vars
  PROVE  RecordInv'
<1> USE DEF RecordInv
<1>1. CASE UNCHANGED vars
  BY <1>1 DEF vars, BindingsRecorded, PassInSync, InSync, Agrees, Kept, NewCluster
<1>2. CASE CacheSync
  <2>1. UNCHANGED <<srv, pc, kc, todo, crbs, astray>> BY <1>2 DEF CacheSync
  <2>2. InSync => InSync' BY <1>2, SyncStep
  <2>3. UNCHANGED Kept /\ (Agrees(kc) <=> Agrees(kc)') BY <2>1 DEF Kept, Agrees
  <2>4. BindingsRecorded' BY <2>1, <2>2, <2>3 DEF BindingsRecorded
  <2> QED BY <2>1, <2>2, <2>3, <2>4 DEF PassInSync, NewCluster
<1>3. CASE Edit BY <1>3, EditStep
<1>4. CASE Delete
  <2> DEFINE new == Settled([srv EXCEPT !.deleting = TRUE])
  <2>1. /\ new \in Kubeconfigs /\ new.target = srv.target
        /\ new.fin = srv.fin /\ new.prov = srv.prov /\ (srv.fin => new.exists)
    BY <1>4 DEF Delete, Settled, Types, Kubeconfigs
  <2>2. Store(new) /\ srv' = new /\ UNCHANGED <<cache, pc, kc, todo, crbs, astray>>
    BY <1>4 DEF Delete, Store
  <2> HIDE DEF new
  <2>3. InSync => InSync' BY <2>1, <2>2, StoreStep
  <2>4. UNCHANGED Kept /\ (Agrees(kc) <=> Agrees(kc)') BY <2>1, <2>2 DEF Kept, Agrees
  <2>5. BindingsRecorded' BY <2>1, <2>2, <2>3, <2>4 DEF BindingsRecorded
  <2>6. pc \in {"listBindings", "pruneBindings", "createBindings"} => PassInSync(kc.prov)'
    BY <2>1, <2>2, <2>3, <2>4 DEF PassInSync, Agrees
  <2> QED BY <2>1, <2>2, <2>4, <2>5, <2>6 DEF NewCluster
<1>5. CASE Decide BY <1>5, DecideStep
<1>6. CASE EnsureFinalizer \/ RemoveFinalizer \/ RecordCluster \/ ForgetCluster
  <2>1. PICK new \in Kubeconfigs : Patch(new) /\ srv.exists /\ new.exists = srv.exists
    <3>1. /\ [srv EXCEPT !.fin = TRUE] \in Kubeconfigs
          /\ [srv EXCEPT !.fin = FALSE] \in Kubeconfigs
          /\ [srv EXCEPT !.prov = NoCluster] \in Kubeconfigs
          /\ [srv EXCEPT !.prov = NewCluster(kc)] \in Kubeconfigs
      BY AuthorizationAssumption DEF Types, Kubeconfigs, NewCluster
    <3>2. /\ [srv EXCEPT !.fin = TRUE].exists = srv.exists
          /\ [srv EXCEPT !.fin = FALSE].exists = srv.exists
          /\ [srv EXCEPT !.prov = NoCluster].exists = srv.exists
          /\ [srv EXCEPT !.prov = NewCluster(kc)].exists = srv.exists
      BY DEF Types, Kubeconfigs
    <3> QED BY <1>6, <3>1, <3>2
            DEF EnsureFinalizer, RemoveFinalizer, RecordCluster, ForgetCluster, Patch
  <2>2. pc' \in {"idle", "removeFinalizer"} /\ UNCHANGED <<crbs, astray>> /\ Kept = {}
    BY <1>6 DEF EnsureFinalizer, RemoveFinalizer, RecordCluster, ForgetCluster, AfterUnprovision
  <2>3. Kept' = {} BY <2>2 DEF Kept
  <2>4. srv'.fin => srv'.exists BY <2>1, PatchAgrees
  <2> QED BY <2>2, <2>3, <2>4 DEF BindingsRecorded
<1>7. CASE RemoveFinalizerNoop \/ CreateDone \/ UnprovisionPanic \/ PatchNotFound \/ Abort
  <2>1. UNCHANGED <<srv, cache, unseen, crbs, astray>> /\ pc' = "idle"
    BY <1>7 DEF RemoveFinalizerNoop, CreateDone, UnprovisionPanic, PatchNotFound, Abort, Idle
  <2> QED BY <2>1 DEF BindingsRecorded, Kept, InSync, Agrees
<1>8. CASE ListBindings \/ PruneBinding \/ PruneDone
  <2>1. /\ UNCHANGED <<srv, cache, unseen, kc, astray>> /\ crbs' \subseteq crbs
        /\ pc \in {"listBindings", "pruneBindings", "createBindings"}
        /\ pc' \in {"listBindings", "pruneBindings", "createBindings"}
    BY <1>8 DEF ListBindings, PruneBinding, PruneDone
  <2>2. Kept' \subseteq Kept BY <2>1 DEF Kept
  <2>3. BindingsRecorded' BY <2>1, <2>2 DEF BindingsRecorded, InSync, Agrees
  <2> QED BY <2>1, <2>3 DEF PassInSync, InSync, Agrees, NewCluster
<1>9. CASE CreateBinding
  <2>1. PICK r \in todo : crbs' = crbs \cup {<<kc.target, NewCluster(kc), r>>}
    BY <1>9 DEF CreateBinding
  <2>2. UNCHANGED <<srv, cache, unseen, pc, kc, astray>> /\ pc = "createBindings"
    BY <1>9 DEF CreateBinding
  <2>3. (InSync <=> InSync') /\ (Agrees(kc) <=> Agrees(kc)') BY <2>2 DEF InSync, Agrees
  <2>4. kc.fin /\ kc.prov = NewCluster(kc) /\ PassInSync(kc.prov) BY <2>2
  <2>5. ASSUME NEW b \in Kept'
        PROVE  srv.exists /\ srv.fin /\ srv.target = b[1] /\ srv.prov = b[2] /\ InSync
    <3>1. CASE b \in crbs
      <4>1. b \in Kept BY <2>2, <2>5, <3>1 DEF Kept
      <4> QED BY <4>1 DEF BindingsRecorded
    <3>2. CASE b \notin crbs
      <4>1. b = <<kc.target, kc.prov, r>> BY <2>1, <2>4, <2>5, <3>2 DEF Kept
      <4>2. <<kc.target, kc.prov>> \notin astray BY <2>2, <2>5, <4>1 DEF Kept
      <4> QED BY <2>4, <4>1, <4>2 DEF PassInSync, Agrees
    <3> QED BY <3>1, <3>2
  <2>6. BindingsRecorded' BY <2>2, <2>3, <2>5 DEF BindingsRecorded
  <2> QED BY <2>2, <2>3, <2>4, <2>6 DEF PassInSync, NewCluster
<1>10. CASE UnprovisionNoop
  <2>1. UNCHANGED <<srv, cache, unseen, crbs, astray>>
        /\ pc = "unprovision" /\ kc.prov = NoCluster /\ pc' \in {"idle", "removeFinalizer"}
    BY <1>10 DEF UnprovisionNoop, AfterUnprovision
  <2>2. Kept = {} BY <2>1, KeptFacts, SentinelAssumption DEF BindingsRecorded, Agrees
  <2>3. Kept' = {} BY <2>1, <2>2 DEF Kept
  <2> QED BY <2>1, <2>3 DEF BindingsRecorded
<1>11. CASE UnprovisionList
  <2>1. /\ UNCHANGED <<srv, cache, unseen, kc, crbs, astray>>
        /\ pc = "unprovision" /\ pc' = "deleteBindings" /\ todo' = Owned(kc.target, kc.prov)
    BY <1>11 DEF UnprovisionList
  <2>2. UNCHANGED Kept /\ (Agrees(kc) <=> Agrees(kc)') BY <2>1 DEF Kept, Agrees
  <2>3. ASSUME NEW b \in Kept PROVE b[3] \in todo'
    <3>1. b = <<kc.target, kc.prov, b[3]>> /\ b \in crbs /\ b[3] \in Roles
      BY <2>1, <2>3, KeptFacts DEF BindingsRecorded, Agrees
    <3> QED BY <2>1, <3>1 DEF Owned
  <2>4. BindingsRecorded' BY <2>1, <2>2 DEF BindingsRecorded, InSync, Agrees
  <2> QED BY <2>1, <2>2, <2>3, <2>4
<1>12. CASE UnprovisionDelete
  <2>1. PICK r \in todo : crbs' = crbs \ {<<kc.target, kc.prov, r>>} /\ todo' = todo \ {r}
    BY <1>12 DEF UnprovisionDelete
  <2>2. UNCHANGED <<srv, cache, unseen, pc, kc, astray>> /\ pc = "deleteBindings"
    BY <1>12 DEF UnprovisionDelete
  <2>3. Kept' \subseteq Kept /\ (Agrees(kc) <=> Agrees(kc)') BY <2>1, <2>2 DEF Kept, Agrees
  <2>4. ASSUME NEW b \in Kept' PROVE b[3] \in todo'
    <3>1. b \in Kept /\ b \in crbs' BY <2>3, <2>4 DEF Kept
    <3>2. b = <<kc.target, kc.prov, b[3]>> /\ b[3] \in todo
      BY <2>2, <3>1, KeptFacts DEF BindingsRecorded, Agrees
    <3> QED BY <2>1, <3>1, <3>2
  <2>5. BindingsRecorded' BY <2>2, <2>3 DEF BindingsRecorded, InSync, Agrees
  <2> QED BY <2>2, <2>3, <2>4, <2>5
<1>13. CASE UnprovisionDeleted
  <2>1. /\ UNCHANGED <<srv, cache, unseen, kc, crbs, astray>>
        /\ pc = "deleteBindings" /\ pc' = "forgetCluster" /\ todo = {}
    BY <1>13 DEF UnprovisionDeleted
  <2>2. Kept = {} BY <2>1
  <2>3. Kept' = {} BY <2>1, <2>2 DEF Kept
  <2> QED BY <2>1, <2>3 DEF BindingsRecorded
<1> QED BY <1>1, <1>2, <1>3, <1>4, <1>5, <1>6, <1>7, <1>8, <1>9, <1>10, <1>11, <1>12,
           <1>13 DEF Next, Worker, Call

\* "Before we actually create anything, remember the cluster" (controller.go:128) is
\* enough, whatever the cache returns: for any endpoints, workspaces, roles, edits,
\* failures and restarts, while a binding exists in kcp the stored Kubeconfig names
\* its workspace and holds the finalizer, unless the target was moved away from it or
\* a pass misled by an old copy wrote to its workspace.
THEOREM RecordProtectsBindings == Spec => []RecordInv
<1>1. Init => RecordInv BY DEF Init, RecordInv, BindingsRecorded, Kept
<1>2. Types /\ BindingPass /\ RecordInv /\ [Next]_vars => RecordInv'
  BY RecordStep
<1> QED BY <1>1, <1>2, TypeCorrect, PTL DEF Spec, TypeOK

\* docs/content/architecture/kubeconfig.md:105, with its two exceptions and no third:
\* a binding that outlives the Kubeconfig is at a place the target was moved away
\* from while recorded, or one a pass misled by an old copy wrote to.
THEOREM DeletionLeavesNoBindings == Spec => []NoOrphans
<1>1. RecordInv => NoOrphans BY DEF RecordInv, BindingsRecorded, NoOrphans, Kept
<1> QED BY <1>1, RecordProtectsBindings, PTL

-----------------------------------------------------------------------------
(* The controller implements the finalizer protocol.                       *)

\* What the abstract steps look like in the Kubeconfig.
LEMMA ProtocolSteps ==
  ASSUME \/ /\ srv.exists /\ srv.fin /\ UNCHANGED srv
            /\ \E b \in Bindings : Kept' = Kept \cup {b}
         \/ /\ Kept' \subseteq Kept
            /\ srv'.exists = srv.exists /\ srv'.deleting = srv.deleting /\ srv'.fin = srv.fin
         \/ /\ UNCHANGED Kept
            /\ srv.exists /\ srv'.exists = srv.exists /\ srv'.deleting = srv.deleting /\ srv'.fin = TRUE
         \/ /\ UNCHANGED Kept /\ Kept = {} /\ srv.exists /\ srv.fin
            /\ srv'.fin = FALSE /\ srv'.deleting = srv.deleting /\ srv'.exists = ~srv.deleting
         \/ /\ UNCHANGED Kept /\ srv.exists /\ ~srv.deleting
            /\ srv'.deleting = TRUE /\ srv'.exists = srv.fin /\ srv'.fin = srv.fin
  PROVE  [Protocol!Next]_(Protocol!vars)
  BY DEF Protocol!Next, Protocol!vars, Protocol!Guard, Protocol!Acquire, Protocol!Release,
     Protocol!Unguard, Protocol!Leave

\* A patch of the finalizer or of the record only changes that field, unless the
\* object goes with its last finalizer.
LEMMA PatchShape ==
  ASSUME NEW new \in Kubeconfigs, Patch(new), new.exists = srv.exists
  PROVE  /\ srv.exists
         /\ srv'.fin = new.fin /\ srv'.deleting = new.deleting
         /\ srv'.exists = (new.fin \/ ~new.deleting)
  BY DEF Patch, Store, Settled, Kubeconfigs

\* An object that is being deleted exists because of its finalizer.
LeavingIsGuarded == srv.exists /\ srv.deleting => srv.fin

\* Every step keeps a Kubeconfig that is being deleted behind its finalizer.
LEMMA LeavingStep ==
  ASSUME Types, LeavingIsGuarded, [Next]_vars
  PROVE  LeavingIsGuarded'
<1> USE DEF LeavingIsGuarded, Types
<1>1. CASE EnsureFinalizer \/ RemoveFinalizer \/ RecordCluster \/ ForgetCluster
  <2>1. PICK new : srv' = Settled(new) /\ new \in Kubeconfigs
    <3>1. [srv EXCEPT !.fin = TRUE] \in Kubeconfigs /\ [srv EXCEPT !.fin = FALSE] \in Kubeconfigs
          /\ [srv EXCEPT !.prov = NoCluster] \in Kubeconfigs
          /\ [srv EXCEPT !.prov = NewCluster(kc)] \in Kubeconfigs
      BY AuthorizationAssumption DEF Kubeconfigs, NewCluster
    <3> QED BY <1>1, <3>1 DEF EnsureFinalizer, RemoveFinalizer, RecordCluster, ForgetCluster, Patch, Store
  <2> QED BY <2>1 DEF Settled, Kubeconfigs
<1>2. CASE Delete BY <1>2 DEF Delete, Store, Settled, Kubeconfigs
<1>3. CASE Edit BY <1>3 DEF Edit, Store, Kubeconfigs
<1>4. CASE CacheSync \/ Abort \/ UNCHANGED vars BY <1>4 DEF CacheSync, Abort, vars
<1>5. CASE Decide
  BY <1>5 DEF Decide, NothingToDo, HandleDeletion, UnprovisionFirst, NothingConfigured,
     NeedsFinalizer, NeedsRecord, ReconcileBindings, Begin
<1>6. CASE RemoveFinalizerNoop \/ ListBindings \/ PruneBinding \/ PruneDone \/ CreateBinding
           \/ CreateDone \/ UnprovisionPanic \/ UnprovisionNoop \/ UnprovisionList
           \/ UnprovisionDelete \/ UnprovisionDeleted \/ PatchNotFound
  BY <1>6 DEF RemoveFinalizerNoop, ListBindings, PruneBinding, PruneDone, CreateBinding,
     CreateDone, UnprovisionPanic, UnprovisionNoop, UnprovisionList, UnprovisionDelete,
     UnprovisionDeleted, PatchNotFound
<1> QED BY <1>1, <1>2, <1>3, <1>4, <1>5, <1>6 DEF Next, Worker, Call

\* Every step of the controller, the cache or a user is a step of the protocol.
LEMMA ProtocolStep ==
  ASSUME Types, BindingPass, RecordInv, LeavingIsGuarded, [Next]_vars
  PROVE  [Protocol!Next]_(Protocol!vars)
<1> USE DEF Types
<1>1. CASE UNCHANGED vars BY <1>1, ProtocolSteps DEF vars, Kept
<1>2. CASE CacheSync BY <1>2, ProtocolSteps DEF CacheSync, Kept
<1>3. CASE Edit
  <2>1. PICK t \in Targets, a \in Authorizations :
           Store([srv EXCEPT !.target = t, !.auth = a]) /\ astray' = astray \cup LeftBehind(t)
    BY <1>3 DEF Edit
  <2>2. srv'.exists = srv.exists /\ srv'.deleting = srv.deleting /\ srv'.fin = srv.fin
    BY <2>1 DEF Store, Kubeconfigs
  <2>3. Kept' \subseteq Kept BY <1>3, <2>1 DEF Edit, Kept
  <2> QED BY <2>2, <2>3, ProtocolSteps
<1>4. CASE Delete
  <2>1. srv.exists /\ ~srv.deleting /\ srv'.deleting = TRUE /\ srv'.exists = srv.fin /\ srv'.fin = srv.fin
    BY <1>4 DEF Delete, Store, Settled, Kubeconfigs
  <2>2. UNCHANGED Kept BY <1>4 DEF Delete, Kept
  <2> QED BY <2>1, <2>2, ProtocolSteps
<1>5. CASE Decide
  <2>1. UNCHANGED <<srv, crbs>> /\ astray \subseteq astray'
    BY <1>5 DEF Decide, NothingToDo, HandleDeletion, UnprovisionFirst, NothingConfigured,
       NeedsFinalizer, NeedsRecord, ReconcileBindings, Begin
  <2>2. Kept' \subseteq Kept BY <2>1 DEF Kept
  <2> QED BY <2>1, <2>2, ProtocolSteps
<1>6. CASE EnsureFinalizer
  <2> DEFINE new == [srv EXCEPT !.fin = TRUE]
  <2>1. new \in Kubeconfigs /\ new.exists = srv.exists /\ new.deleting = srv.deleting /\ new.fin = TRUE
    BY DEF Kubeconfigs
  <2>2. Patch(new) /\ UNCHANGED Kept BY <1>6 DEF EnsureFinalizer, Kept
  <2> HIDE DEF new
  <2>3. srv.exists = TRUE BY <2>2 DEF Patch, Kubeconfigs
  <2>4. srv'.exists = srv.exists /\ srv'.deleting = srv.deleting /\ srv'.fin = TRUE
    BY <2>1, <2>2, <2>3, PatchShape
  <2> QED BY <2>2, <2>3, <2>4, ProtocolSteps
<1>7. CASE RemoveFinalizer
  <2> DEFINE new == [srv EXCEPT !.fin = FALSE]
  <2>1. new \in Kubeconfigs /\ new.exists = srv.exists /\ new.deleting = srv.deleting /\ new.fin = FALSE
    BY DEF Kubeconfigs
  <2>2. Patch(new) /\ UNCHANGED Kept /\ Kept = {}
    BY <1>7 DEF RemoveFinalizer, RecordInv, Kept
  <2> HIDE DEF new
  <2>3. srv.exists /\ srv'.fin = FALSE /\ srv'.deleting = srv.deleting /\ srv'.exists = ~srv.deleting
    BY <2>1, <2>2, PatchShape
  <2>4. CASE srv.fin BY <2>2, <2>3, <2>4, ProtocolSteps
  <2>5. CASE ~srv.fin
    <3>1. srv.fin = FALSE /\ srv.exists = TRUE /\ srv.deleting = FALSE
      BY <2>3, <2>5 DEF LeavingIsGuarded, Kubeconfigs
    <3>2. srv'.exists = srv.exists /\ srv'.deleting = srv.deleting /\ srv'.fin = srv.fin
      BY <2>3, <3>1
    <3> QED BY <2>2, <3>2, ProtocolSteps
  <2> QED BY <2>4, <2>5
<1>8. CASE RecordCluster \/ ForgetCluster
  <2>1. PICK p : Patch([srv EXCEPT !.prov = p]) /\ [srv EXCEPT !.prov = p] \in Kubeconfigs /\ UNCHANGED Kept
    <3>1. [srv EXCEPT !.prov = NoCluster] \in Kubeconfigs
          /\ [srv EXCEPT !.prov = NewCluster(kc)] \in Kubeconfigs
      BY AuthorizationAssumption DEF Kubeconfigs, NewCluster
    <3> QED BY <1>8, <3>1 DEF RecordCluster, ForgetCluster, Kept
  <2> DEFINE new == [srv EXCEPT !.prov = p]
  <2>2. new.exists = srv.exists /\ new.deleting = srv.deleting /\ new.fin = srv.fin
    BY DEF Kubeconfigs
  <2>3. srv.exists = TRUE BY <2>1 DEF Patch, Kubeconfigs
  <2>4. Patch(new) /\ new \in Kubeconfigs BY <2>1
  <2> HIDE DEF new
  <2>5. srv'.fin = srv.fin /\ srv'.deleting = srv.deleting /\ srv'.exists = (srv.fin \/ ~srv.deleting)
    BY <2>2, <2>4, PatchShape
  <2>6. srv'.exists = srv.exists BY <2>3, <2>5 DEF LeavingIsGuarded
  <2> QED BY <2>1, <2>5, <2>6, ProtocolSteps
<1>9. CASE RemoveFinalizerNoop \/ CreateDone \/ UnprovisionPanic \/ PatchNotFound \/ Abort
           \/ ListBindings \/ PruneDone \/ UnprovisionNoop \/ UnprovisionList \/ UnprovisionDeleted
  <2>1. UNCHANGED <<srv, crbs, astray>>
    BY <1>9 DEF RemoveFinalizerNoop, CreateDone, UnprovisionPanic, PatchNotFound, Abort,
       ListBindings, PruneDone, UnprovisionNoop, UnprovisionList, UnprovisionDeleted
  <2> QED BY <2>1, ProtocolSteps DEF Kept
<1>10. CASE PruneBinding \/ UnprovisionDelete
  <2>1. UNCHANGED <<srv, astray>> /\ crbs' \subseteq crbs BY <1>10 DEF PruneBinding, UnprovisionDelete
  <2>2. Kept' \subseteq Kept BY <2>1 DEF Kept
  <2> QED BY <2>1, <2>2, ProtocolSteps
<1>11. CASE CreateBinding
  <2>1. PICK r \in todo : crbs' = crbs \cup {<<kc.target, NewCluster(kc), r>>}
    BY <1>11 DEF CreateBinding
  <2> DEFINE b == <<kc.target, NewCluster(kc), r>>
  <2>2. b \in Bindings
    BY <1>11, <2>1 DEF CreateBinding, BindingPass, Bindings, Kubeconfigs
  <2>3. UNCHANGED <<srv, astray>> /\ pc = "createBindings" BY <1>11 DEF CreateBinding
  <2>4. CASE <<kc.target, NewCluster(kc)>> \in astray
    <3>1. Kept' = Kept BY <2>1, <2>3, <2>4 DEF Kept
    <3> QED BY <2>3, <3>1, ProtocolSteps
  <2>5. CASE <<kc.target, NewCluster(kc)>> \notin astray
    <3>1. srv.exists /\ srv.fin BY <2>3, <2>5 DEF RecordInv, PassInSync, Agrees
    <3>2. Kept' = Kept \cup {b} BY <2>1, <2>3, <2>5 DEF Kept
    <3> QED BY <2>2, <2>3, <3>1, <3>2, ProtocolSteps
  <2> QED BY <2>4, <2>5
<1> QED BY <1>1, <1>2, <1>3, <1>4, <1>5, <1>6, <1>7, <1>8, <1>9, <1>10, <1>11
        DEF Next, Worker, Call

\* The controller implements the finalizer protocol, for any endpoints, workspaces,
\* roles, edits, failures, restarts and delays of the cache, as far as the bindings
\* of RecordProtectsBindings go.
THEOREM FollowsFinalizerProtocol == Spec => ImplementsProtocol
<1>1. Init => Protocol!Init
  BY DEF Init, Protocol!Init, Kept
<1>2. Init => LeavingIsGuarded
  BY DEF Init, LeavingIsGuarded
<1>3. Types /\ LeavingIsGuarded /\ [Next]_vars => LeavingIsGuarded'
  BY LeavingStep
<1>4. Types /\ BindingPass /\ RecordInv /\ LeavingIsGuarded /\ [Next]_vars =>
        [Protocol!Next]_(Protocol!vars)
  BY ProtocolStep
<1> QED BY <1>1, <1>2, <1>3, <1>4, TypeCorrect, RecordProtectsBindings, PTL
        DEF Spec, TypeOK, ImplementsProtocol, Protocol!Spec

=============================================================================
