--------------------------- MODULE ShardLifecycle ---------------------------
(***************************************************************************)
(* The life of one Shard object (pkg/controller/shard): the cleanup        *)
(* finalizer is set before anything else, the published CompiledShard      *)
(* makes a kcp process start, which registers itself as a kcp Shard in its *)
(* RootShard, and a deleted Shard is deregistered there before it may go.  *)
(*                                                                         *)
(* What a pass does between the finalizer and the CompiledShard is the     *)
(* subject of RenderPipeline; here it is the one step Publish.  The kcp    *)
(* process is external.                                                    *)
(***************************************************************************)
EXTENDS Naturals

CONSTANTS
    Roots,          \* the RootShards a Shard can refer to
    NoRoot,         \* no RootShard
    LateStart,      \* TRUE: handleDeletion may run while the Shard's process is still starting
    MaxMoves,       \* bound on changes of spec.rootShard.ref
    MaxReadFaults,  \* bound on failed reads of the RootShard
    MaxFaults       \* bound on other failed calls and operator restarts

ASSUME RootAssumption == NoRoot \notin Roots /\ LateStart \in BOOLEAN

ASSUME BoundAssumption == MaxMoves \in Nat /\ MaxReadFaults \in Nat /\ MaxFaults \in Nat

VARIABLES
    shard,       \* the Shard object
    roots,       \* which RootShard objects exist, still or already
    input,       \* the RootShard the CompiledShard names, NoRoot: there is none
    booting,     \* the RootShard a starting process is going to register with
    kcp,         \* the RootShards that hold a kcp Shard object of this name
    late,        \* a process was still starting when its Shard was deregistered
    queued,      \* the work queue holds a request
    pc,          \* the call the running pass makes next
    copy,        \* the Shard the pass works on
    moves,       \* changes of the reference so far
    readFaults,  \* failed reads so far
    faults       \* other failures so far

vars == <<shard, roots, input, booting, kcp, late, queued, pc, copy, moves, readFaults, faults>>

-----------------------------------------------------------------------------

Shards == [exists : BOOLEAN, deleting : BOOLEAN, fin : BOOLEAN, ref : Roots]

PCs == {"idle", "ensureFinalizer", "fetch", "publish",
        "fetchForDeletion", "deregister", "removeFinalizer"}

\* An object being deleted disappears with its last finalizer.
Settled(s) == [s EXCEPT !.exists = s.exists /\ (s.fin \/ ~s.deleting)]

Exists(root) == root \in Roots /\ roots[root] = "there"

Users == <<roots, moves>>

Process == <<input, booting, kcp, late>>

-----------------------------------------------------------------------------
(* Users and the kcp process.                                              *)

Delete ==
    /\ shard.exists /\ ~shard.deleting
    /\ shard' = Settled([shard EXCEPT !.deleting = TRUE])
    /\ queued' = TRUE
    /\ UNCHANGED <<Process, pc, copy, readFaults, faults, Users>>

\* spec.rootShard.ref is not immutable.
Move ==
    /\ shard.exists
    /\ moves < MaxMoves
    /\ moves' = moves + 1
    /\ \E r \in Roots \ {shard.ref} : shard' = [shard EXCEPT !.ref = r]
    /\ queued' = TRUE
    /\ UNCHANGED <<roots, Process, pc, copy, readFaults, faults>>

\* A RootShard is created or deleted: Shards that refer to it are woken.
RootChanges ==
    /\ \E r \in Roots :
         /\ \/ roots[r] = "absent" /\ roots' = [roots EXCEPT ![r] = "there"]
            \/ roots[r] = "there" /\ roots' = [roots EXCEPT ![r] = "gone"]
         /\ queued' = (queued \/ (shard.exists /\ shard.ref = r))
    /\ UNCHANGED <<shard, Process, pc, copy, moves, readFaults, faults>>

\* A process that starts registers itself with its RootShard.
Register ==
    /\ Exists(booting)
    /\ kcp' = kcp \cup {booting}
    /\ booting' = NoRoot
    /\ UNCHANGED <<shard, input, late, queued, pc, copy, readFaults, faults, Users>>

\* Without its Shard the CompiledShard, the Deployment and the process go too.
Collected ==
    /\ ~shard.exists
    /\ input # NoRoot
    /\ input' = NoRoot
    /\ booting' = NoRoot
    /\ UNCHANGED <<shard, kcp, late, queued, pc, copy, readFaults, faults, Users>>

-----------------------------------------------------------------------------
(* One pass of Reconcile.                                                  *)

\* The read that starts a pass and the call or return it leads to.
Begin(next) ==
    /\ pc = "idle" /\ queued
    /\ queued' = FALSE
    /\ copy' = shard
    /\ pc' = next
    /\ UNCHANGED <<shard, Process, readFaults, faults, Users>>

\* The Shard is gone.
Skip == ~shard.exists /\ Begin("idle")

NeedsFinalizer ==
    /\ shard.exists /\ ~shard.deleting
    /\ ~shard.fin
    /\ Begin("ensureFinalizer")

\* Defect: the finalizer comes last.
ReconcileUnprotected == shard.exists /\ ~shard.deleting /\ Begin("fetch")

Reconcile ==
    /\ shard.exists /\ ~shard.deleting
    /\ shard.fin
    /\ Begin("fetch")

HandleDeletion ==
    /\ shard.exists /\ shard.deleting /\ shard.fin
    /\ LateStart \/ ~Exists(booting)
    /\ Begin("fetchForDeletion")

\* The pass goes on without changing anything.
GoOn(next) ==
    /\ pc' = next
    /\ UNCHANGED <<shard, Process, queued, copy, readFaults, faults, Users>>

\* The patch wakes the controller again.
EnsureFinalizer ==
    /\ pc = "ensureFinalizer"
    /\ shard.exists
    /\ shard' = [shard EXCEPT !.fin = TRUE]
    /\ queued' = TRUE
    /\ pc' = "idle"
    /\ UNCHANGED <<Process, copy, readFaults, faults, Users>>

\* FetchRootShard: without a RootShard the pass only reports that.
FetchRootShard ==
    /\ pc = "fetch"
    /\ GoOn(IF Exists(copy.ref) THEN "publish" ELSE "idle")

\* The CompiledShard follows the reference; its process starts anew.
Publish ==
    /\ pc = "publish"
    /\ input' = copy.ref
    /\ booting' = IF input = copy.ref THEN booting ELSE copy.ref
    /\ pc' = "idle"
    /\ queued' = (queued \/ input # copy.ref)
    /\ UNCHANGED <<shard, kcp, late, copy, readFaults, faults, Users>>

\* Defect: a Shard is let go without looking for its RootShard.
FetchForDeletionGivesUp == pc = "fetchForDeletion" /\ GoOn("removeFinalizer")

FetchForDeletion ==
    /\ pc = "fetchForDeletion"
    /\ GoOn(IF Exists(copy.ref) THEN "deregister" ELSE "removeFinalizer")

\* Every error of the read is taken for a missing RootShard, and is not returned.
FetchFails ==
    /\ pc \in {"fetch", "fetchForDeletion"}
    /\ readFaults < MaxReadFaults
    /\ readFaults' = readFaults + 1
    /\ pc' = IF pc = "fetch" THEN "idle" ELSE "removeFinalizer"
    /\ UNCHANGED <<shard, Process, queued, copy, faults, Users>>

\* The kcp Shard is deleted in the root workspace; that it is gone is fine.
Deregister ==
    /\ pc = "deregister"
    /\ kcp' = kcp \ {copy.ref}
    /\ late' = (late \/ Exists(booting))
    /\ pc' = "removeFinalizer"
    /\ UNCHANGED <<shard, input, booting, queued, copy, readFaults, faults, Users>>

RemoveFinalizer ==
    /\ pc = "removeFinalizer"
    /\ shard.exists
    /\ shard' = Settled([shard EXCEPT !.fin = FALSE])
    /\ queued' = TRUE
    /\ pc' = "idle"
    /\ UNCHANGED <<Process, copy, readFaults, faults, Users>>

\* A patch of a Shard that is gone fails and the request is retried.
PatchNotFound ==
    /\ pc = "ensureFinalizer"
    /\ ~shard.exists
    /\ pc' = "idle"
    /\ queued' = TRUE
    /\ UNCHANGED <<shard, Process, copy, readFaults, faults, Users>>

\* Defect: an error of handleDeletion is not returned.
AbortSwallowed ==
    /\ pc \in {"ensureFinalizer", "publish", "deregister", "removeFinalizer"}
    /\ faults < MaxFaults
    /\ faults' = faults + 1
    /\ pc' = "idle"
    /\ UNCHANGED <<shard, Process, queued, copy, readFaults, Users>>

\* A call fails, or the operator restarts: the request is retried.
Abort ==
    /\ pc \in {"ensureFinalizer", "publish", "deregister", "removeFinalizer"}
    /\ faults < MaxFaults
    /\ faults' = faults + 1
    /\ pc' = "idle"
    /\ queued' = TRUE
    /\ UNCHANGED <<shard, Process, copy, readFaults, Users>>

-----------------------------------------------------------------------------

Init ==
    /\ \E r \in Roots :
         shard = [exists |-> TRUE, deleting |-> FALSE, fin |-> FALSE, ref |-> r]
    /\ roots \in [Roots -> {"absent", "there"}]
    /\ input = NoRoot /\ booting = NoRoot
    /\ kcp = {} /\ late = FALSE
    /\ queued = TRUE
    /\ pc = "idle" /\ copy = shard
    /\ moves = 0 /\ readFaults = 0 /\ faults = 0

Worker ==
    \/ Skip \/ NeedsFinalizer \/ Reconcile \/ HandleDeletion \/ EnsureFinalizer
    \/ FetchRootShard \/ Publish \/ FetchForDeletion \/ Deregister \/ RemoveFinalizer
    \/ PatchNotFound

Next == Delete \/ Move \/ RootChanges \/ Register \/ Collected \/ Worker \/ FetchFails \/ Abort

Spec == Init /\ [][Next]_vars

\* The worker runs on, and a process that starts gets to register.
FairSpec == Spec /\ WF_vars(Worker) /\ WF_vars(Register)

-----------------------------------------------------------------------------
(* Properties.                                                             *)

\* The type of every variable.
Types ==
    /\ shard \in Shards /\ copy \in Shards
    /\ roots \in [Roots -> {"absent", "there", "gone"}]
    /\ input \in Roots \cup {NoRoot} /\ booting \in Roots \cup {NoRoot}
    /\ kcp \in SUBSET Roots
    /\ late \in BOOLEAN /\ queued \in BOOLEAN
    /\ pc \in PCs
    /\ moves \in 0..MaxMoves /\ readFaults \in 0..MaxReadFaults /\ faults \in 0..MaxFaults

\* controller.go:171 "Ensure finalizer before any other work": from the moment
\* its CompiledShard exists until the Shard is gone, the Shard cannot be deleted
\* without a pass of handleDeletion.
FinalizerFirst ==
    shard.exists /\ (input # NoRoot \/ booting # NoRoot \/ kcp # {}) => shard.fin

\* test/e2e/shards/shards_test.go:135: "delete the operator's Shard CR and verify
\* the kcp Shard object is cleaned up".  A Shard that is gone has left no kcp
\* Shard behind in any RootShard that is still there.
NoLeftovers == ~shard.exists => \A r \in kcp : ~Exists(r)

\* The reference was never changed, the RootShard could always be read, and no
\* process was late: the three causes of leftovers are ruled out.
Undisturbed == moves = 0 /\ readFaults = 0 /\ ~late

\* controller.go:303-345: nothing else (a failed call, a restart, RootShards that
\* come and go, a deletion at any moment) leaves a kcp Shard behind.
LeavesNothing == Undisturbed => NoLeftovers

\* A pass only publishes for a Shard that has its finalizer, and only removes the
\* finalizer of a Shard that is being deleted.
PassProtected ==
    /\ pc \in {"fetch", "publish"} => shard.exists /\ shard.fin
    /\ pc \in {"fetchForDeletion", "deregister", "removeFinalizer"} =>
         shard.exists /\ shard.deleting /\ shard.fin

\* Everything the Shard has in kcp is where its reference points, nothing is in
\* a RootShard that never existed, and whoever removes the finalizer finds kcp
\* clean and no process about to register.
Tracked ==
    /\ input \in {NoRoot, shard.ref} /\ booting \in {NoRoot, shard.ref} /\ kcp \subseteq {shard.ref}
    /\ pc # "idle" => copy.ref = shard.ref
    /\ \A r \in Roots : roots[r] = "absent" => r \notin kcp /\ r # booting
    /\ pc = "publish" => roots[copy.ref] # "absent"
    /\ ~shard.exists \/ pc = "removeFinalizer" =>
         ~Exists(booting) /\ \A r \in kcp : ~Exists(r)

\* The strengthening that makes FinalizerFirst and LeavesNothing inductive.
CleanupInv == Types /\ FinalizerFirst /\ PassProtected /\ (Undisturbed => Tracked)

\* The registrations that the finalizer can answer for.
Guarded == IF Undisturbed THEN {r \in kcp : Exists(r)} ELSE {}

Protocol == INSTANCE FinalizerProtocol WITH
    Things  <- Roots,
    present <- shard.exists,
    leaving <- shard.deleting,
    guarded <- shard.fin,
    outside <- Guarded

\* The controller follows the finalizer protocol step by step: while the three causes
\* are ruled out, the process registers under the finalizer only, and the finalizer
\* only goes when the kcp Shard is gone.
ImplementsProtocol == Protocol!Spec

\* A deleted Shard goes away: each call that fails is retried.
DeletionCompletes == shard.deleting ~> ~shard.exists

=============================================================================
