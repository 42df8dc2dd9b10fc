--------------------------- MODULE ShardTopology ----------------------------
(***************************************************************************)
(* How the set of Shards of one RootShard reaches everybody who renders    *)
(* from it.  The RootShard, its FrontProxy and every Shard are reconciled  *)
(* by controllers of their own, each of which lists the Shards and         *)
(* publishes the names in its Compiled* object.  Events on Shards only     *)
(* wake the rootshard controller; the others are woken when that one       *)
(* writes a changed status.shards into the RootShard.                      *)
(*                                                                         *)
(* A list reads the informer cache all controllers share; it and the       *)
(* RootShard are read as last written (an event follows when they change). *)
(* What else a pass does is the subject of RenderPipeline.                 *)
(***************************************************************************)
EXTENDS Naturals, FiniteSets

CONSTANTS
    Shards,      \* names of Shards that refer to the RootShard
    MaxCreates,  \* bound on Shards created
    MaxDeletes,  \* bound on Shards deleted
    MaxFaults    \* bound on failed calls and on events that have nothing to do with Shards

Root == "RootShard"

Proxy == "FrontProxy"

Controllers == {Root, Proxy} \cup Shards

ASSUME ShardAssumption == Root \notin Shards /\ Proxy \notin Shards

ASSUME BoundAssumption ==
    MaxCreates \in Nat /\ MaxDeletes \in Nat /\ MaxFaults \in Nat

VARIABLES
    shards,    \* the Shards that exist
    deleting,  \* those of them that carry a deletion timestamp
    status,    \* the RootShard's status.shards
    input,     \* the Shards in each Compiled* object, once it exists
    queue,     \* the requests of all work queues
    pc,        \* the step of each object's pass
    listed,    \* the Shards each pass has listed
    creates, deletes, faults

vars == <<shards, deleting, status, input, queue, pc, listed, creates, deletes, faults>>

-----------------------------------------------------------------------------

NoInput == [exists |-> FALSE, shards |-> {}]

\* Objects there are to reconcile.
Present == {Root, Proxy} \cup shards

\* The shard controller has one worker, which reconciles one Shard at a time.
Free(c) == c \in Shards => \A s \in Shards : pc[s] = "idle"

Bounds == <<creates, deletes, faults>>

-----------------------------------------------------------------------------
(* Users and the rest of the cluster.                                      *)

\* Defect: events on Shards are not watched.
CreateUnseen(s) ==
    /\ s \notin shards
    /\ creates < MaxCreates
    /\ creates' = creates + 1
    /\ shards' = shards \cup {s}
    /\ queue' = queue \cup {s}
    /\ UNCHANGED <<deleting, status, input, pc, listed, deletes, faults>>

\* A Shard event wakes its own controller and the RootShard's.
Create(s) ==
    /\ s \notin shards
    /\ creates < MaxCreates
    /\ creates' = creates + 1
    /\ shards' = shards \cup {s}
    /\ queue' = queue \cup {s, Root}
    /\ UNCHANGED <<deleting, status, input, pc, listed, deletes, faults>>

Delete(s) ==
    /\ s \in shards \ deleting
    /\ deletes < MaxDeletes
    /\ deletes' = deletes + 1
    /\ deleting' = deleting \cup {s}
    /\ queue' = queue \cup {s, Root}
    /\ UNCHANGED <<shards, status, input, pc, listed, creates, faults>>

\* Any other event on an object or on what it owns.
Wake(c) ==
    /\ c \in Present
    /\ faults < MaxFaults
    /\ faults' = faults + 1
    /\ queue' = queue \cup {c}
    /\ UNCHANGED <<shards, deleting, status, input, pc, listed, creates, deletes>>

-----------------------------------------------------------------------------
(* One pass for one object.                                                *)

Step(c, next) == pc' = [pc EXCEPT ![c] = next]

\* The list has served its purpose.
Forget(c) == listed' = [listed EXCEPT ![c] = {}]

\* After publishing, the RootShard's status is reconciled from a list of its own.
AfterPublish(c) == IF c = Root THEN "statusList" ELSE "idle"

Begin(c) ==
    /\ c \in queue \cap (Present \ deleting)
    /\ pc[c] = "idle" /\ Free(c)
    /\ queue' = queue \ {c}
    /\ Step(c, "list")
    /\ UNCHANGED <<shards, deleting, status, input, listed, Bounds>>

\* A request for a Shard that is gone.
Skip(c) ==
    /\ c \in queue \ Present
    /\ pc[c] = "idle" /\ Free(c)
    /\ queue' = queue \ {c}
    /\ UNCHANGED <<shards, deleting, status, input, pc, listed, Bounds>>

\* The pass of a deleted Shard lets it go, and its CompiledShard with it: that
\* is another event on the Shard.
Finalize(s) ==
    /\ s \in queue \cap deleting
    /\ pc[s] = "idle" /\ Free(s)
    /\ shards' = shards \ {s}
    /\ deleting' = deleting \ {s}
    /\ input' = [input EXCEPT ![s] = NoInput]
    /\ queue' = queue \cup {Root}
    /\ UNCHANGED <<status, pc, listed, Bounds>>

\* GetRootShardChildren.
List(c) ==
    /\ pc[c] = "list"
    /\ listed' = [listed EXCEPT ![c] = shards]
    /\ Step(c, "publish")
    /\ UNCHANGED <<shards, deleting, status, input, queue, Bounds>>

\* Without a list nothing is published; the error is returned in the end.
ListFails(c) ==
    /\ pc[c] = "list"
    /\ faults < MaxFaults
    /\ faults' = faults + 1
    /\ queue' = queue \cup {c}
    /\ Step(c, AfterPublish(c))
    /\ UNCHANGED <<shards, deleting, status, input, listed, creates, deletes>>

\* The Compiled* object is written; a change is an event on an owned object.
Publish(c) ==
    /\ pc[c] = "publish"
    /\ LET new == [exists |-> TRUE, shards |-> listed[c]]
       IN  /\ input' = [input EXCEPT ![c] = new]
           /\ queue' = IF new = input[c] THEN queue ELSE queue \cup {c}
    /\ Step(c, AfterPublish(c))
    /\ Forget(c)
    /\ UNCHANGED <<shards, deleting, status, Bounds>>

\* The write fails and is retried, or Certificates are not ready and their
\* becoming ready is another event.
PublishFails(c) ==
    /\ pc[c] = "publish"
    /\ faults < MaxFaults
    /\ faults' = faults + 1
    /\ queue' = queue \cup {c}
    /\ Step(c, AfterPublish(c))
    /\ Forget(c)
    /\ UNCHANGED <<shards, deleting, status, input, creates, deletes>>

StatusList ==
    /\ pc[Root] = "statusList"
    /\ listed' = [listed EXCEPT ![Root] = shards]
    /\ Step(Root, "status")
    /\ UNCHANGED <<shards, deleting, status, input, queue, Bounds>>

\* Defect: a changed status wakes nobody else.
PatchStatusUnseen ==
    /\ pc[Root] = "status"
    /\ status' = listed[Root]
    /\ queue' = IF status' = status THEN queue ELSE queue \cup {Root}
    /\ Step(Root, "idle")
    /\ Forget(Root)
    /\ UNCHANGED <<shards, deleting, input, Bounds>>

\* A changed status is patched, which wakes everybody who watches the RootShard.
PatchStatus ==
    /\ pc[Root] = "status"
    /\ status' = listed[Root]
    /\ queue' = IF status' = status THEN queue ELSE queue \cup Present
    /\ Step(Root, "idle")
    /\ Forget(Root)
    /\ UNCHANGED <<shards, deleting, input, Bounds>>

\* The list or the patch fails: the status stays and the error is returned.
StatusFails ==
    /\ pc[Root] \in {"statusList", "status"}
    /\ faults < MaxFaults
    /\ faults' = faults + 1
    /\ queue' = queue \cup {Root}
    /\ Step(Root, "idle")
    /\ Forget(Root)
    /\ UNCHANGED <<shards, deleting, status, input, creates, deletes>>

-----------------------------------------------------------------------------

\* A RootShard and a FrontProxy that have been reconciled, and no Shard yet.
Init ==
    /\ shards = {} /\ deleting = {} /\ status = {}
    /\ input = [c \in Controllers |-> [exists |-> c \notin Shards, shards |-> {}]]
    /\ queue = {}
    /\ pc = [c \in Controllers |-> "idle"]
    /\ listed = [c \in Controllers |-> {}]
    /\ creates = 0 /\ deletes = 0 /\ faults = 0

Pass(c) == Begin(c) \/ Skip(c) \/ List(c) \/ Publish(c)

ShardWorker == \E s \in Shards : Pass(s) \/ Finalize(s)

RootWorker == Pass(Root) \/ StatusList \/ PatchStatus

Next ==
    \/ \E s \in Shards : Create(s) \/ Delete(s)
    \/ \E c \in Controllers : Wake(c) \/ ListFails(c) \/ PublishFails(c)
    \/ ShardWorker \/ RootWorker \/ Pass(Proxy) \/ StatusFails

Spec == Init /\ [][Next]_vars

\* Every worker runs on.
FairSpec == Spec /\ WF_vars(RootWorker) /\ WF_vars(Pass(Proxy)) /\ WF_vars(ShardWorker)

-----------------------------------------------------------------------------
(* Properties.                                                             *)

\* The type of every variable.
Types ==
    /\ shards \in SUBSET Shards /\ deleting \in SUBSET shards
    /\ status \in SUBSET Shards
    /\ queue \in SUBSET Controllers
    /\ input \in [Controllers -> [exists : BOOLEAN, shards : SUBSET Shards]]
    /\ pc \in [Controllers -> {"idle", "list", "publish", "statusList", "status"}]
    /\ listed \in [Controllers -> SUBSET Shards]
    /\ creates \in 0..MaxCreates /\ deletes \in 0..MaxDeletes
    /\ faults \in 0..MaxFaults

\* What c renders from names exactly the Shards there are.
Current(c) == input[c] = [exists |-> TRUE, shards |-> shards]

\* Between passes of the RootShard with no request pending, its status and its
\* CompiledRootShard name the Shards that exist (rootshard/controller.go:250-266
\* and 307-322, woken by the watch of line 101): no creation or deletion that
\* lands between the two lists of a pass is lost.
RootCurrent == Root \notin queue /\ pc[Root] = "idle" => status = shards /\ Current(Root)

\* The strengthening of RootCurrent: a list that has become stale, and whatever
\* was made of it, goes with a pending request.
RootInv ==
    /\ Types
    /\ RootCurrent
    /\ pc[Root] # "idle" /\ Root \notin queue =>
         /\ pc[Root] \in {"publish", "status"} => listed[Root] = shards
         /\ pc[Root] \in {"statusList", "status"} => Current(Root)

\* What everybody but the RootShard has to do or knows.
Informed(c) ==
    \/ pc[c] = "list"
    \/ pc[c] = "publish" /\ listed[c] = shards
    \/ pc[c] = "idle" /\ Current(c)

\* While Shards are only added: whoever works from an old list has a request
\* pending, or will get one when the status, which is behind as well, catches up.
OnlyGrown ==
    /\ deleting = {}
    /\ status \subseteq shards
    /\ \A c \in Controllers : listed[c] \subseteq shards
    /\ \A c \in Present \ {Root} : c \notin queue /\ status = shards => Informed(c)
    /\ \A c \in Controllers \ {Root} : pc[c] \in {"idle", "list", "publish"}

\* The strengthening of GrowthCurrent.
GrowthInv == RootInv /\ (deletes = 0 => OnlyGrown)

AllIdle == queue = {} /\ \A c \in Controllers : pc[c] = "idle"

\* rootshard/controller.go:317: "this write is what wakes the Shard and FrontProxy
\* controllers through their RootShard watches".  When nobody has anything left
\* to do, every Compiled* object names exactly the Shards there are.
EveryoneCurrent == AllIdle => \A c \in Present \ deleting : Current(c)

\* That holds of everybody as long as no Shard was deleted.
GrowthCurrent == deletes = 0 => EveryoneCurrent

\* Once users, other events and failures stop, everybody renders from the
\* Shards there are, if none was deleted, and the RootShard always does.
EveryoneConverges ==
    <>[](Current(Root) /\ status = shards /\ (deletes = 0 => \A c \in Present : Current(c)))

=============================================================================
