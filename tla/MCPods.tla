------------------------------- MODULE MCPods -------------------------------
(* Installations for the model checker.                                    *)
EXTENDS PodWiring

Distinct == [x \in Objects |-> x]

\* Names of one and of two words, some of them the operator's.
SomeNames == {"a", "b", "c", "a-b", "a-server", "proxy", "proxy-dynamic"}

\* The words of names and suffixes.
Dashes ==
    LET dashed ==
            "a-b" :> <<"a", "b">> @@
            "a-server" :> <<"a", "server">> @@
            "proxy-dynamic" :> <<"proxy", "dynamic">> @@
            "service-account" :> <<"service", "account">> @@
            "virtual-workspaces" :> <<"virtual", "workspaces">> @@
            "mounts-proxy" :> <<"mounts", "proxy">> @@
            "logical-cluster-admin" :> <<"logical", "cluster", "admin">> @@
            "external-logical-cluster-admin" :> <<"external", "logical", "cluster", "admin">> @@
            "kcp-operator" :> <<"kcp", "operator">> @@
            "requestheader-client" :> <<"requestheader", "client">> @@
            "ca-bundle" :> <<"ca", "bundle">> @@
            "cache-server" :> <<"cache", "server">> @@
            "virtual-workspace" :> <<"virtual", "workspace">> @@
            "front-proxy" :> <<"front", "proxy">> @@
            "dynamic-kubeconfig" :> <<"dynamic", "kubeconfig">> @@
            "client-certificate" :> <<"client", "certificate">> @@
            "merged-client-ca" :> <<"merged", "client", "ca">> @@
            "merged-ca-bundle" :> <<"merged", "ca", "bundle">>
    IN dashed @@ [w \in SomeNames \cup Suffixes |-> <<w>>]

Bare == [x \in Objects |-> {}]
Full == [x \in Objects |-> Options[x] \ {"ownCA", "old"}]

Situation(new, t, o) == [name |-> Distinct, target |-> t, opts |-> o, new |-> new]

\* An installation that is set up beside a CacheServer, and settled ones that are edited.
SomeSituations ==
    {Situation(Objects \ {"cache"}, "shard", Full),
     Situation({}, "root", Full), Situation({}, "shard", Bare)}

\* url changes the addresses that domain changes as well.
SomeEdits == [x \in Objects |-> Options[x] \ {"ownCA", "url"}]

OwnCA == {Situation(Objects, "shard", [Bare EXCEPT !.root = {"ownCA"}])}

CustomDomain == {Situation({}, "shard", [Bare EXCEPT !.root = {"domain"}])}

NoEdits == [x \in Objects |-> {}]

=============================================================================
