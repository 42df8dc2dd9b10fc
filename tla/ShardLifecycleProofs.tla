------------------------ MODULE ShardLifecycleProofs ------------------------
(***************************************************************************)
(* A deleted Shard leaves nothing behind in kcp, for every number of       *)
(* RootShards, failed calls and operator restarts, unless its reference    *)
(* was changed, a RootShard could not be read or its process was late.     *)
(***************************************************************************)
EXTENDS ShardLifecycle, TLAPS

\* Letting go of the last finalizer keeps the shape and the reference.
LEMMA SettledShape ==
  ASSUME NEW s \in Shards
  PROVE  /\ Settled(s) \in Shards
         /\ Settled(s).ref = s.ref /\ Settled(s).fin = s.fin /\ Settled(s).deleting = s.deleting
         /\ Settled(s).exists = (s.exists /\ (s.fin \/ ~s.deleting))
  BY DEF Settled, Shards

\* What users do keeps the invariant: a Shard without a finalizer has nothing
\* in kcp that deleting it could leave behind, and a new RootShard is empty.
LEMMA UsersKeep ==
  ASSUME CleanupInv, Delete \/ Move \/ RootChanges
  PROVE  CleanupInv'
  <1> USE BoundAssumption DEF CleanupInv, Types
  <1>1. CASE Delete
    <2> DEFINE new == [shard EXCEPT !.deleting = TRUE]
    <2>1. new \in Shards /\ new.exists /\ new.deleting /\ new.fin = shard.fin
          /\ new.ref = shard.ref
      BY <1>1 DEF Delete, Shards
    <2>2. /\ shard' \in Shards /\ shard'.ref = shard.ref /\ shard'.fin = shard.fin
          /\ shard'.deleting /\ shard'.exists = shard.fin
      BY <1>1, <2>1, SettledShape DEF Delete, Shards
    <2>3. UNCHANGED <<input, booting, kcp, late, pc, copy, readFaults, faults, roots, moves>>
          /\ queued' = TRUE /\ shard.exists
      BY <1>1 DEF Delete, Users, Process
    <2>4. shard.fin \in BOOLEAN BY DEF Shards
    <2> HIDE DEF new
    <2>5. Types' BY <2>2, <2>3
    <2>6. FinalizerFirst' /\ PassProtected'
      BY <2>2, <2>3, <2>4 DEF FinalizerFirst, PassProtected
    <2>7. ~shard.fin => kcp = {} /\ booting = NoRoot
      BY <2>3 DEF FinalizerFirst
    <2>8. ~Exists(NoRoot) BY RootAssumption DEF Exists
    <2>9. Undisturbed' => Tracked'
      BY <2>2, <2>3, <2>4, <2>7, <2>8 DEF Undisturbed, Tracked, Exists
    <2> QED BY <2>5, <2>6, <2>9
  <1>2. CASE Move
    <2>1. PICK r \in Roots : shard' = [shard EXCEPT !.ref = r]
      BY <1>2 DEF Move
    <2>2. /\ shard' \in Shards /\ shard'.exists = shard.exists /\ shard'.fin = shard.fin
          /\ shard'.deleting = shard.deleting
      BY <2>1 DEF Shards
    <2>3. /\ UNCHANGED <<roots, input, booting, kcp, late, pc, copy, readFaults, faults>>
          /\ queued' = TRUE /\ moves' \in 0..MaxMoves /\ moves' # 0
      BY <1>2 DEF Move, Process
    <2> QED BY <2>2, <2>3 DEF FinalizerFirst, PassProtected, Undisturbed
  <1>3. CASE RootChanges
    <2>1. PICK r \in Roots :
            \/ roots[r] = "absent" /\ roots' = [roots EXCEPT ![r] = "there"]
            \/ roots[r] = "there" /\ roots' = [roots EXCEPT ![r] = "gone"]
      BY <1>3 DEF RootChanges
    <2>2. UNCHANGED <<shard, input, booting, kcp, late, pc, copy, moves, readFaults, faults>>
          /\ queued' \in BOOLEAN
      BY <1>3 DEF RootChanges, Shards, Process
    <2>3. Types' /\ FinalizerFirst' /\ PassProtected'
      BY <2>1, <2>2 DEF FinalizerFirst, PassProtected
    <2>4. Undisturbed' => Tracked'
      <3> SUFFICES ASSUME Undisturbed, Tracked PROVE Tracked'
        BY <2>2 DEF Undisturbed
      <3>1. \A q \in kcp \cup {booting} : Exists(q)' => Exists(q)
        BY <2>1, <2>2 DEF Exists, Tracked
      <3>2. \A q \in Roots : roots'[q] = "absent" => roots[q] = "absent"
        BY <2>1
      <3>3. copy.ref \in Roots BY DEF Shards
      <3>4. Exists(booting)' => Exists(booting) BY <3>1, <2>2
      <3>5. (\A q \in kcp : ~Exists(q)) => \A q \in kcp' : ~Exists(q)' BY <3>1, <2>2
      <3> QED BY <2>2, <3>2, <3>3, <3>4, <3>5 DEF Tracked
    <2> QED BY <2>3, <2>4
  <1> QED BY <1>1, <1>2, <1>3

\* The kcp process keeps the invariant: it only registers where its Shard
\* points, and not once the finalizer is about to go.
LEMMA ProcessKeeps ==
  ASSUME CleanupInv, Register \/ Collected
  PROVE  CleanupInv'
  <1> USE DEF CleanupInv, Types
  <1>0. \A q \in Roots : q # NoRoot BY RootAssumption
  <1>1. CASE Register
    <2>1. /\ Exists(booting) /\ kcp' = kcp \cup {booting} /\ booting' = NoRoot
          /\ UNCHANGED <<shard, roots, input, late, queued, pc, copy, moves, readFaults, faults>>
      BY <1>1 DEF Register, Users
    <2>2. booting \in Roots /\ roots[booting] = "there" /\ booting # NoRoot
      BY <2>1, <1>0 DEF Exists
    <2>3. Types' BY <2>1, <2>2
    <2>4. FinalizerFirst' /\ PassProtected'
      BY <2>1, <2>2 DEF FinalizerFirst, PassProtected
    <2>5. Undisturbed' => Tracked'
      <3> SUFFICES ASSUME Undisturbed, Tracked PROVE Tracked'
        BY <2>1 DEF Undisturbed
      <3>1. shard.exists /\ pc # "removeFinalizer" /\ booting = shard.ref
        BY <2>1, <2>2 DEF Tracked
      <3> QED BY <2>1, <2>2, <3>1, <1>0 DEF Tracked
    <2> QED BY <2>3, <2>4, <2>5
  <1>2. CASE Collected
    <2>1. /\ ~shard.exists /\ input' = NoRoot /\ booting' = NoRoot
          /\ UNCHANGED <<shard, roots, kcp, late, queued, pc, copy, moves, readFaults, faults>>
      BY <1>2 DEF Collected, Users
    <2>2. Types' /\ FinalizerFirst' /\ PassProtected'
      BY <2>1 DEF FinalizerFirst, PassProtected
    <2>3. Undisturbed' => Tracked'
      BY <2>1, <1>0 DEF Undisturbed, Tracked, Exists
    <2> QED BY <2>2, <2>3
  <1> QED BY <1>1, <1>2

\* A pass keeps the invariant: handleDeletion reaches the finalizer only once
\* the RootShard is missing or the kcp Shard is deleted.
LEMMA WorkerKeeps ==
  ASSUME CleanupInv, Worker
  PROVE  CleanupInv'
  <1> USE DEF CleanupInv, Types
  <1> USE DEF Users, Process, FinalizerFirst, PassProtected, Undisturbed, Tracked, Exists, PCs
  <1>0. copy.ref \in Roots /\ shard.ref \in Roots BY DEF Shards
  <1>1. CASE Skip BY <1>1 DEF Skip, Begin
  <1>2. CASE NeedsFinalizer BY <1>2 DEF NeedsFinalizer, Begin
  <1>3. CASE Reconcile BY <1>3 DEF Reconcile, Begin
  <1>4. CASE HandleDeletion BY <1>4 DEF HandleDeletion, Begin
  <1>5. CASE EnsureFinalizer BY <1>5 DEF EnsureFinalizer, Shards
  <1>6. CASE FetchRootShard BY <1>6, <1>0 DEF FetchRootShard, GoOn
  <1>7. CASE FetchForDeletion
    <2>1. ~Exists(NoRoot) BY RootAssumption
    <2>2. Tracked /\ ~Exists(copy.ref) /\ pc = "fetchForDeletion" =>
            ~Exists(booting) /\ \A r \in kcp : ~Exists(r)
      BY <2>1
    <2> QED BY <1>7, <1>0, <2>2 DEF FetchForDeletion, GoOn
  <1>8. CASE Publish BY <1>8, <1>0 DEF Publish
  <1>9. CASE Deregister BY <1>9, <1>0 DEF Deregister
  <1>10. CASE RemoveFinalizer
    <2> DEFINE new == [shard EXCEPT !.fin = FALSE]
    <2>1. /\ pc = "removeFinalizer" /\ shard' = Settled(new) /\ queued' = TRUE /\ pc' = "idle"
          /\ UNCHANGED <<roots, input, booting, kcp, late, copy, moves, readFaults, faults>>
      BY <1>10 DEF RemoveFinalizer
    <2>2. new \in Shards /\ ~new.fin /\ new.deleting /\ new.ref = shard.ref
      BY <2>1 DEF Shards
    <2>3. shard' \in Shards /\ ~shard'.exists /\ shard'.ref = shard.ref
      BY <2>1, <2>2, SettledShape
    <2> HIDE DEF new
    <2> QED BY <2>1, <2>3
  <1>11. CASE PatchNotFound BY <1>11 DEF PatchNotFound
  <1> QED BY <1>1, <1>2, <1>3, <1>4, <1>5, <1>6, <1>7, <1>8, <1>9, <1>10, <1>11 DEF Worker

\* The invariant holds: whatever the interleaving of users, the kcp process,
\* passes of the controller, failed calls and restarts, the finalizer guards
\* everything the Shard has started (controller.go:161-179, 303-345).
THEOREM CleanupInvariant == Spec => []CleanupInv
<1>1. Init => CleanupInv
  <2> SUFFICES ASSUME Init PROVE CleanupInv OBVIOUS
  <2>1. PICK r \in Roots :
          shard = [exists |-> TRUE, deleting |-> FALSE, fin |-> FALSE, ref |-> r]
    BY DEF Init
  <2>2. shard \in Shards BY <2>1 DEF Shards
  <2>3. Types
    <3>1. roots \in [Roots -> {"absent", "there", "gone"}] BY DEF Init
    <3>2. late \in BOOLEAN /\ queued \in BOOLEAN /\ kcp \in SUBSET Roots BY DEF Init
    <3>3. moves \in 0..MaxMoves /\ readFaults \in 0..MaxReadFaults /\ faults \in 0..MaxFaults
      BY BoundAssumption DEF Init
    <3>4. copy \in Shards /\ pc \in PCs /\ input = NoRoot /\ booting = NoRoot
      BY <2>2 DEF Init, PCs
    <3> QED BY <2>2, <3>1, <3>2, <3>3, <3>4 DEF Types
  <2>4. FinalizerFirst /\ PassProtected BY DEF Init, FinalizerFirst, PassProtected
  <2>5. Tracked BY <2>1, RootAssumption DEF Init, Tracked, Exists
  <2> QED BY <2>3, <2>4, <2>5 DEF CleanupInv
<1>2. CleanupInv /\ [Next]_vars => CleanupInv'
  <2> SUFFICES ASSUME CleanupInv, [Next]_vars PROVE CleanupInv' OBVIOUS
  <2> USE DEF CleanupInv, Types, FinalizerFirst, PassProtected, Undisturbed, Tracked, Exists
  <2>1. CASE UNCHANGED vars BY <2>1 DEF vars
  <2>2. CASE FetchFails
    BY <2>2, BoundAssumption DEF FetchFails, Users, Process, PCs
  <2>3. CASE Abort
    BY <2>3, BoundAssumption DEF Abort, Users, Process, PCs
  <2> QED BY <2>1, <2>2, <2>3, UsersKeep, ProcessKeeps, WorkerKeeps DEF Next
<1> QED BY <1>1, <1>2, PTL DEF Spec

\* "Ensure finalizer before any other work" (controller.go:171): from the moment its
\* CompiledShard exists until the Shard is gone, the Shard has its finalizer.
THEOREM FinalizerComesFirst == Spec => []FinalizerFirst
<1>1. CleanupInv => FinalizerFirst BY DEF CleanupInv
<1> QED BY <1>1, CleanupInvariant, PTL

\* A deleted Shard leaves no kcp Shard behind in a RootShard that is still there
\* (test/e2e/shards/shards_test.go:135), but for the three known causes.
THEOREM DeletedShardsAreDeregistered == Spec => []LeavesNothing
<1>1. CleanupInv => LeavesNothing BY DEF CleanupInv, LeavesNothing, NoLeftovers, Tracked
<1> QED BY <1>1, CleanupInvariant, PTL

-----------------------------------------------------------------------------
(* The controller implements the finalizer protocol.                       *)

\* Nothing becomes guarded but by a registration: neither a RootShard that appears nor
\* one that goes adds to what the finalizer answers for.
LEMMA GuardedShrinks ==
  ASSUME CleanupInv, UNCHANGED shard, kcp' \subseteq kcp,
         Undisturbed' => Undisturbed,
         \A r \in Roots : roots'[r] = "there" => roots[r] \in {"there", "absent"}
  PROVE  Guarded' \subseteq Guarded
<1> SUFFICES ASSUME Undisturbed', NEW r \in kcp', Exists(r)' PROVE r \in kcp /\ Exists(r) /\ Undisturbed
  BY DEF Guarded
<1>1. r \in kcp /\ r \in Roots /\ roots[r] \in {"there", "absent"} /\ Tracked
  BY DEF Exists, CleanupInv, Types
<1> QED BY <1>1 DEF Tracked, Exists

\* A step that leaves the Shard alone and guards nothing new is a step of the protocol.
LEMMA ReleaseStep ==
  ASSUME UNCHANGED shard, Guarded' \subseteq Guarded
  PROVE  [Protocol!Next]_(Protocol!vars)
  BY DEF Protocol!Next, Protocol!Release, Protocol!vars

\* Every step of the controller, the process or a user is a step of the protocol.
LEMMA ProtocolStep ==
  ASSUME CleanupInv, [Next]_vars
  PROVE  [Protocol!Next]_(Protocol!vars)
<1>0. Types /\ FinalizerFirst /\ PassProtected /\ (Undisturbed => Tracked) BY DEF CleanupInv
<1>1. CASE Delete
  <2>1. /\ shard.exists /\ ~shard.deleting /\ shard'.deleting = TRUE
        /\ shard'.exists = shard.fin /\ shard'.fin = shard.fin
    BY <1>0, <1>1 DEF Delete, Settled, Types, Shards
  <2>2. UNCHANGED Guarded
    BY <1>1 DEF Delete, Users, Process, Guarded, Undisturbed, Exists
  <2> QED BY <2>1, <2>2 DEF Protocol!Next, Protocol!Leave
<1>2. CASE Move
  <2>1. UNCHANGED <<shard.exists, shard.deleting, shard.fin>>
    BY <1>0, <1>2 DEF Move, Types, Shards
  <2>2. ~Undisturbed' BY <1>0, <1>2 DEF Move, Undisturbed, Types
  <2>3. Guarded' = {} BY <2>2 DEF Guarded
  <2> QED BY <2>1, <2>3 DEF Protocol!Next, Protocol!Release
<1>3. CASE RootChanges
  <2>1. /\ UNCHANGED <<shard, kcp>> /\ (Undisturbed' => Undisturbed)
        /\ \A r \in Roots : roots'[r] = "there" => roots[r] \in {"there", "absent"}
    BY <1>0, <1>3 DEF RootChanges, Process, Undisturbed, Types
  <2> QED BY <2>1, GuardedShrinks, ReleaseStep
<1>4. CASE Register
  <2>1. /\ Exists(booting) /\ booting \in Roots /\ kcp' = kcp \cup {booting}
        /\ UNCHANGED <<shard, roots, late, moves, readFaults>>
    BY <1>4 DEF Register, Exists, Users
  <2>2. CASE Undisturbed
    <3>1. shard.exists BY <1>0, <2>1, <2>2 DEF Tracked
    <3>2. shard.fin BY <1>0, <2>1, <3>1, RootAssumption DEF FinalizerFirst
    <3>3. Guarded' = Guarded \cup {booting}
      BY <2>1, <2>2 DEF Guarded, Undisturbed, Exists
    <3> QED BY <2>1, <3>1, <3>2, <3>3 DEF Protocol!Next, Protocol!Acquire
  <2>3. CASE ~Undisturbed
    <3>1. Guarded' = {} BY <2>1, <2>3 DEF Guarded, Undisturbed
    <3> QED BY <2>1, <3>1, ReleaseStep
  <2> QED BY <2>2, <2>3
<1>5. CASE EnsureFinalizer
  <2>1. /\ shard.exists /\ shard'.fin = TRUE
        /\ UNCHANGED <<shard.exists, shard.deleting>>
    BY <1>0, <1>5 DEF EnsureFinalizer, Types, Shards
  <2>2. UNCHANGED Guarded
    BY <1>5 DEF EnsureFinalizer, Users, Process, Guarded, Undisturbed, Exists
  <2> QED BY <2>1, <2>2 DEF Protocol!Next, Protocol!Guard
<1>6. CASE RemoveFinalizer
  <2>1. shard.exists /\ shard.deleting /\ shard.fin
    BY <1>0, <1>6 DEF RemoveFinalizer, PassProtected
  <2>2. shard'.fin = FALSE /\ shard'.deleting = shard.deleting /\ shard'.exists = ~shard.deleting
    BY <1>0, <1>6 DEF RemoveFinalizer, Settled, Types, Shards
  <2>3. UNCHANGED Guarded
    BY <1>6 DEF RemoveFinalizer, Users, Process, Guarded, Undisturbed, Exists
  <2>4. Guarded = {}
    BY <1>0, <1>6 DEF RemoveFinalizer, Guarded, Tracked
  <2> QED BY <2>1, <2>2, <2>3, <2>4 DEF Protocol!Next, Protocol!Unguard
<1>7. CASE ~(Delete \/ Move \/ RootChanges \/ Register \/ EnsureFinalizer \/ RemoveFinalizer)
  <2>1. UNCHANGED <<shard, roots>> /\ kcp' \subseteq kcp /\ (Undisturbed' => Undisturbed)
    <3>1. CASE Deregister
      BY <1>0, <3>1 DEF Deregister, Users, Undisturbed, Types
    <3>2. CASE FetchFails
      BY <1>0, <3>2 DEF FetchFails, Users, Process, Undisturbed, Types
    <3>3. CASE UNCHANGED <<shard, roots, kcp, late, moves, readFaults>>
      BY <3>3 DEF Undisturbed
    <3> QED BY <1>7, <3>1, <3>2, <3>3 DEF Next, Worker, vars, Collected, Skip, NeedsFinalizer,
            Reconcile, HandleDeletion, FetchRootShard, Publish, FetchForDeletion,
            PatchNotFound, Abort, Begin, GoOn, Users, Process
  <2>2. \A r \in Roots : roots'[r] = "there" => roots[r] \in {"there", "absent"} BY <2>1
  <2> QED BY <2>1, <2>2, GuardedShrinks, ReleaseStep
<1> QED BY <1>1, <1>2, <1>3, <1>4, <1>5, <1>6, <1>7

\* The controller implements the finalizer protocol, for any number of RootShards,
\* failed calls and restarts, as far as the finalizer can answer for a registration.
THEOREM FollowsFinalizerProtocol == Spec => ImplementsProtocol
<1>1. Init => Protocol!Init
  BY DEF Init, Protocol!Init, Guarded
<1>2. CleanupInv /\ [Next]_vars => [Protocol!Next]_(Protocol!vars)
  BY ProtocolStep
<1> QED BY <1>1, <1>2, CleanupInvariant, PTL DEF Spec, ImplementsProtocol, Protocol!Spec

=============================================================================
