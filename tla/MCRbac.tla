------------------------------- MODULE MCRbac -------------------------------
(***************************************************************************)
(* KubeconfigRBAC with two endpoints, two workspaces and two roles.        *)
(***************************************************************************)
EXTENDS KubeconfigRBAC

CONSTANTS c1, c2, r1, r2

\* No authorization, both roles or one of them in a workspace, and another
\* workspace: enough to add and drop a role, to move, and to leave and return.
SomeAuthorizations ==
    {[cluster |-> NoCluster, roles |-> {}],
     [cluster |-> c1, roles |-> {r1, r2}],
     [cluster |-> c1, roles |-> {r1}],
     [cluster |-> c2, roles |-> {r2}]}

=============================================================================
