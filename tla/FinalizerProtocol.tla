------------------------- MODULE FinalizerProtocol -------------------------
(***************************************************************************)
(* What a finalizer promises: a controller that creates things outside of  *)
(* the cluster on behalf of an object only does so while its finalizer is  *)
(* on the object, and takes the finalizer off only when all of them are    *)
(* gone.  The object can disappear in between whenever nothing guards it.  *)
(*                                                                         *)
(* The kubeconfig-rbac controller (ClusterRoleBindings in a workspace) and *)
(* the shard controller (the kcp Shard in the root shard) implement it.    *)
(***************************************************************************)
CONSTANT Things   \* what can exist outside

VARIABLES
    present,   \* the object exists
    leaving,   \* the object is being deleted
    guarded,   \* the finalizer is on the object
    outside    \* the things that exist on behalf of the object

vars == <<present, leaving, guarded, outside>>

Init == present = TRUE /\ leaving = FALSE /\ guarded = FALSE /\ outside = {}

\* The finalizer is added.
Guard ==
    /\ present
    /\ guarded' = TRUE
    /\ UNCHANGED <<present, leaving, outside>>

\* Something is created outside.
Acquire ==
    /\ present /\ guarded
    /\ \E t \in Things : outside' = outside \cup {t}
    /\ UNCHANGED <<present, leaving, guarded>>

\* Something outside is deleted.
Release ==
    /\ outside' \subseteq outside
    /\ UNCHANGED <<present, leaving, guarded>>

\* The finalizer is removed; an object being deleted goes with it.
Unguard ==
    /\ present /\ guarded
    /\ outside = {}
    /\ guarded' = FALSE
    /\ present' = ~leaving
    /\ UNCHANGED <<leaving, outside>>

\* A user deletes the object.
Leave ==
    /\ present /\ ~leaving
    /\ leaving' = TRUE
    /\ present' = guarded
    /\ UNCHANGED <<guarded, outside>>

Next == Guard \/ Acquire \/ Release \/ Unguard \/ Leave

Spec == Init /\ [][Next]_vars

=============================================================================
