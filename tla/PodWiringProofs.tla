-------------------------- MODULE PodWiringProofs --------------------------
(***************************************************************************)
(* The Pods of an installation find their files and each other, for any    *)
(* names that do not collide, any options and any number of edits.         *)
(*                                                                         *)
(* The invariant is a promise about the objects without a pending pass:    *)
(* their Secrets, Compiled objects and Deployments are up to date, or wait *)
(* for something whose arrival wakes the controller again.  At rest every  *)
(* object is such an object.                                               *)
(***************************************************************************)
EXTENDS PodWiring, FiniteSetTheorems, SequenceTheorems, TLAPS

\* The entries of f are among those of g.
Agrees(f, g) == \A n \in DOMAIN f : n \in DOMAIN g /\ g[n] = f[n]

\* The names that Secrets with a merged CA bundle can have.
BundleNames ==
    {GetMergedClientCAName(name[x]) : x \in Objects} \cup {MergedCABundleName(name[x]) : x \in Objects} \cup
    {ProxyMergedClientCAName(name.root), ProxyMergedCABundleName(name.root)}

\* The names that Secrets with a kubeconfig can have.
KubeconfigNames ==
    {GetShardKubeconfigSecret(name[x], c) :
        x \in {"root", "shard"}, c \in {"logical-cluster-admin", "external-logical-cluster-admin"}} \cup
    {GetShardKubeconfigSecret(name["shard"], "client"), GetCacheServerKubeconfigName(name["cache"])} \cup
    {DynamicKubeconfigName(pod) : pod \in Proxies}

\* What no step changes: the names, the target, the RootShard's lack of a CA of its own.
Static ==
    /\ name \in [Objects -> STRING] /\ ProperNames(name)
    /\ target \in {"root", "shard"}
    /\ opts \in [Objects -> SUBSET UNION {Options[x] : x \in Objects}]
    /\ "ownCA" \notin opts.root

\* Secrets of either kind have names of that kind.
Shape ==
    /\ DOMAIN issued = Pods /\ DOMAIN compiled = Objects
    /\ DOMAIN bundles \subseteq BundleNames
    /\ DOMAIN kubeconfigs \subseteq KubeconfigNames

\* The Certificates of an object ask for the addresses that its Pods have now.
Requested(x) == \A h \in PodsOf(x) : requested[h] = DNSNames(h)

\* The Secrets that a source controller writes are there and up to date.
Written(x) ==
    /\ Agrees(KubeconfigSecrets(x), kubeconfigs)
    /\ x \in Informed => Agrees(Bundles(x), bundles)
    /\ x \in {"root", "front"} => ClientCAExists

\* The Compiled object is up to date, unless a certificate is outstanding: then its arrival wakes
\* the controller again.
Published(x) ==
    \/ x \in Informed /\ compiled[x] = CompiledSpec(x)
    \/ x \notin Informed /\ compiled[x] # None
    \/ \E h \in PodsOf(x) : issued[h] # DNSNames(h)

\* An object without a pending pass has everything that its controller is responsible for.
SourceDone == \A x \in Objects \ sourceQ : Requested(x) /\ Written(x) /\ Published(x)

\* The Deployments of an object are up to date, unless a Secret is missing: then its arrival wakes
\* the controller again.
Rendered(x) ==
    \A pod \in PodsOf(x) :
        \/ deployed[pod] = Deployment(pod, compiled[x], kubeconfigs, bundles)
        \/ ~ (MountedSecrets(pod, compiled[x]) \subseteq Secrets)

\* The proxies of an object have their path mappings and the kubeconfig for them.
Routed(x) ==
    \A pod \in PodsOf(x) \cap Proxies :
        /\ mapping[pod] = defaultPathMappings(pod, compiled[x])
        /\ DynamicKubeconfigName(pod) \in DOMAIN kubeconfigs
        /\ kubeconfigs[DynamicKubeconfigName(pod)] = dynamicKubeconfig(compiled[x].root)

\* A published object without a pending pass is rendered.
CompiledDone == \A x \in Objects \ compiledQ : compiled[x] # None => Rendered(x) /\ Routed(x)

\* The VirtualWorkspace, whose controller misses edits of the RootShard, still has the bundle that
\* its published spec makes its Pod mount.
WorkspaceBundle ==
    compiled["vw"] # None =>
        /\ DOMAIN compiled["vw"] = {"vw", "root", target}
        /\ "clientBundle" \in compiled["vw"].root \cup compiled["vw"].vw =>
            GetMergedClientCAName(name.vw) \in DOMAIN bundles

\* The inductive invariant: a promise about every object that nobody is going to look at again.
WiringInv == Static /\ Shape /\ SourceDone /\ CompiledDone /\ WorkspaceBundle

-----------------------------------------------------------------------------

\* What `@@` does: its left argument wins.
LEMMA OverDomain ==
    ASSUME NEW f, NEW g
    PROVE  /\ DOMAIN (f @@ g) = DOMAIN f \cup DOMAIN g
           /\ \A n \in DOMAIN f : (f @@ g)[n] = f[n]
           /\ \A n \in DOMAIN g \ DOMAIN f : (f @@ g)[n] = g[n]
  BY DEF @@

\* What `:>` does.
LEMMA MapsTo ==
    ASSUME NEW k, NEW v
    PROVE  DOMAIN (k :> v) = {k} /\ (k :> v)[k] = v
  BY DEF :>

\* The Secrets that a Pod mounts depend on names and on its render input alone.
LEMMA MountsUnchanged ==
    ASSUME name' = name, target' = target, NEW CONSTANT pod, NEW CONSTANT in
    PROVE  MountedSecrets(pod, in)' = MountedSecrets(pod, in)
  BY DEF MountedSecrets, Volumes, AdminVolumes, Mounts, ServerMounts, ShardMounts, ProxyMounts,
         VirtualWorkspaceMounts, CacheServerMounts, CertMounts, CAMounts, KubeconfigMounts, ClientCAMount, CacheMounts, CertName,
         RootCAName, CacheCAName, ApplyAuthConfiguration, applyServiceAccountAuthentication,
         serviceAccountPath, ProxyBundleMounts, backendCABundleSecretName, clientCABundleSecretName,
         DynamicKubeconfigName, containerMounts, AdminMounts, kubeconfigSecret

\* What a controller computes depends on names and options alone.
LEMMA SpecsUnchanged ==
    ASSUME name' = name, opts' = opts, target' = target, NEW CONSTANT x
    PROVE  /\ DNSNames(x)' = DNSNames(x)
           /\ CompiledSpec(x)' = CompiledSpec(x)
           /\ KubeconfigSecrets(x)' = KubeconfigSecrets(x)
           /\ Bundles(x)' = Bundles(x)
  BY DEF DNSNames, CompiledSpec, KubeconfigSecrets, Bundles, buildRootShardDNSNames, buildShardDNSNames,
     BaseURL, frontProxyDNSNames, Inputs, CompiledRootShard, CompiledShard, CompiledVirtualWorkspace,
     ConfiguredVirtualWorkspace, RootShardKubeconfigs, LogicalClusterAdminKubeconfig,
     ExternalLogicalClusterAdminKubeconfig, RootShardClientKubeconfig, CacheServerKubeconfig, RootShardBundles,
     ShardBundles, VirtualWorkspaceBundle, ProxyBundles, MergedClientCABundle, MergedCABundle, MergedClientCAs,
     RootCAName, clientCABundleSecretName, backendCABundleSecretName

\* Every server certificate asks for an address.
LEMMA Addressed ==
    ASSUME NEW h \in Pods
    PROVE  DNSNames(h) # {}
  BY DEF Pods, Objects, Proxies, DNSNames, buildRootShardDNSNames, buildShardDNSNames, frontProxyDNSNames

\* The Pods of an object and the object of a Pod.
LEMMA ObjectPods ==
    /\ PodsOf("root") = {"root", "proxy"}
    /\ \A x \in Objects \ {"root"} : PodsOf(x) = {x}
    /\ \A x \in Objects : x \in PodsOf(x) /\ PodsOf(x) \subseteq Pods
    /\ \A pod \in Pods : ObjectOf(pod) \in Objects /\ pod \in PodsOf(ObjectOf(pod))
  BY DEF PodsOf, ObjectOf, Pods, Objects

\* A merged bundle is computed from the options of the RootShard and of the object itself.
LEMMA BundlesRead ==
    ASSUME name' = name, opts'["root"] = opts["root"], NEW CONSTANT x, opts'[x] = opts[x], NEW CONSTANT n
    PROVE  /\ MergedClientCAs(x)' = MergedClientCAs(x)
           /\ MergedClientCABundle(x)' = MergedClientCABundle(x)
           /\ MergedCABundle(x, n)' = MergedCABundle(x, n)
<1>1. {z \in {"root", x} : "clientBundle" \in opts'[z]} = {z \in {"root", x} : "clientBundle" \in opts[z]}
  OBVIOUS
<1>2. MergedClientCAs(x)' = MergedClientCAs(x)
  BY <1>1 DEF MergedClientCAs, RootCAName
<1> QED
  BY <1>2 DEF MergedClientCABundle, MergedCABundle, RootCAName

\* So are the kubeconfigs of a shard.
LEMMA KubeconfigsRead ==
    ASSUME name' = name, opts'["root"] = opts["root"], NEW CONSTANT x, opts'[x] = opts[x]
    PROVE  /\ LogicalClusterAdminKubeconfig(x)' = LogicalClusterAdminKubeconfig(x)
           /\ ExternalLogicalClusterAdminKubeconfig(x)' = ExternalLogicalClusterAdminKubeconfig(x)
  BY DEF LogicalClusterAdminKubeconfig, ExternalLogicalClusterAdminKubeconfig, BaseURL

\* What the controller of an object reads and does not watch is not edited under its feet.
LEMMA EditElsewhere ==
    ASSUME name' = name, target' = target, NEW x \in Objects, NEW y \in Objects, x # y,
           y \notin Watches(x, opts'), target \in {"root", "shard"},
           \A z \in Objects \ {y} : opts'[z] = opts[z]
    PROVE  /\ \A h \in PodsOf(x) : DNSNames(h)' = DNSNames(h)
           /\ KubeconfigSecrets(x)' = KubeconfigSecrets(x)
           /\ x \in Informed =>
                /\ CompiledSpec(x)' = CompiledSpec(x)
                /\ Bundles(x)' = Bundles(x)
<1> USE DEF Watches, Proxies
<1>1. CASE x = "root"
  <2>1. opts'["root"] = opts["root"]
    BY <1>1 DEF Objects
  <2>2. DNSNames("root")' = DNSNames("root") /\ DNSNames("proxy")' = DNSNames("proxy")
    BY <2>1 DEF DNSNames, buildRootShardDNSNames, BaseURL
  <2>3. KubeconfigSecrets("root")' = KubeconfigSecrets("root")
    BY <2>1, KubeconfigsRead DEF KubeconfigSecrets, RootShardKubeconfigs
  <2>4. CompiledSpec("root")' = CompiledSpec("root")
    <3>1. Inputs("root")' = Inputs("root")
      BY <2>1 DEF Inputs, CompiledRootShard, ConfiguredVirtualWorkspace
    <3>2. \A z \in Inputs("root") : opts'[z] = opts[z]
      BY <1>1, <2>1 DEF Inputs, CompiledRootShard, ConfiguredVirtualWorkspace, Objects, RootShardWatches
    <3> QED
      BY <3>1, <3>2 DEF CompiledSpec
  <2>5. Bundles("root")' = Bundles("root")
    <3>1. ProxyBundles("proxy")' = ProxyBundles("proxy")
      BY <2>1, BundlesRead DEF ProxyBundles, ObjectOf, clientCABundleSecretName, backendCABundleSecretName
    <3> QED
      BY <2>1, <3>1, BundlesRead DEF Bundles, RootShardBundles
  <2> QED
    BY <1>1, <2>2, <2>3, <2>4, <2>5, ObjectPods
<1>2. CASE x = "shard"
  <2>1. opts'["root"] = opts["root"] /\ opts'["shard"] = opts["shard"]
    BY <1>2 DEF Objects, ShardWatches
  <2>2. DNSNames("shard")' = DNSNames("shard")
    BY <2>1 DEF DNSNames, buildShardDNSNames, BaseURL
  <2>3. KubeconfigSecrets("shard")' = KubeconfigSecrets("shard")
    BY <2>1, KubeconfigsRead DEF KubeconfigSecrets, RootShardClientKubeconfig, BaseURL
  <2>4. CompiledSpec("shard")' = CompiledSpec("shard")
    <3>1. Inputs("shard")' = Inputs("shard")
      BY <2>1 DEF Inputs, CompiledShard, ConfiguredVirtualWorkspace
    <3>2. \A z \in Inputs("shard") : opts'[z] = opts[z]
      BY <1>2, <2>1 DEF Inputs, CompiledShard, ConfiguredVirtualWorkspace, Objects, ShardWatches
    <3> QED
      BY <3>1, <3>2 DEF CompiledSpec
  <2>5. Bundles("shard")' = Bundles("shard")
    BY <2>1, BundlesRead DEF Bundles, ShardBundles
  <2> QED
    BY <1>2, <2>2, <2>3, <2>4, <2>5, ObjectPods
<1>3. CASE x = "front"
  <2>1. opts'["root"] = opts["root"] /\ opts'["front"] = opts["front"]
    BY <1>3 DEF Objects, FrontProxyWatches
  <2>2. DNSNames("front")' = DNSNames("front")
    BY <2>1 DEF DNSNames, frontProxyDNSNames
  <2>3. KubeconfigSecrets("front")' = KubeconfigSecrets("front")
    BY DEF KubeconfigSecrets
  <2>4. CompiledSpec("front")' = CompiledSpec("front")
    BY <2>1 DEF CompiledSpec, Inputs, CompiledFrontProxy
  <2>5. Bundles("front")' = Bundles("front")
    BY <2>1, BundlesRead DEF Bundles, ProxyBundles,
         ObjectOf, clientCABundleSecretName, backendCABundleSecretName
  <2> QED
    BY <1>3, <2>2, <2>3, <2>4, <2>5, ObjectPods
<1>4. CASE x = "vw"
  <2>1. opts'["vw"] = opts["vw"] /\ opts'[target] = opts[target]
    BY <1>4 DEF Objects, VirtualWorkspaceWatches
  <2>2. DNSNames("vw")' = DNSNames("vw")
    BY <2>1 DEF DNSNames, BaseURL
  <2>3. KubeconfigSecrets("vw")' = KubeconfigSecrets("vw")
    BY DEF KubeconfigSecrets
  <2>4. ASSUME target = "root"
        PROVE  CompiledSpec("vw")' = CompiledSpec("vw") /\ Bundles("vw")' = Bundles("vw")
    <3>1. CompiledSpec("vw")' = CompiledSpec("vw")
      BY <2>1, <2>4 DEF CompiledSpec, Inputs, CompiledVirtualWorkspace
    <3>2. Bundles("vw")' = Bundles("vw")
      BY <2>1, <2>4, BundlesRead DEF Bundles, VirtualWorkspaceBundle
    <3> QED
      BY <3>1, <3>2
  <2> QED
    BY <1>4, <2>2, <2>3, <2>4, ObjectPods DEF Informed
<1>5. CASE x = "cache"
  <2>1. opts'["cache"] = opts["cache"]
    BY <1>5 DEF Objects
  <2>2. DNSNames("cache")' = DNSNames("cache")
    BY <2>1 DEF DNSNames, BaseURL
  <2>3. KubeconfigSecrets("cache")' = KubeconfigSecrets("cache")
    BY <2>1 DEF KubeconfigSecrets, CacheServerKubeconfig, BaseURL
  <2>4. CompiledSpec("cache")' = CompiledSpec("cache") /\ Bundles("cache")' = Bundles("cache")
    BY <2>1 DEF CompiledSpec, Inputs, CompiledCacheServer, Bundles
  <2> QED
    BY <1>5, <2>2, <2>3, <2>4, ObjectPods
<1> QED
  BY <1>1, <1>2, <1>3, <1>4, <1>5 DEF Objects

\* The kubeconfig Secrets that each controller writes.
LEMMA KubeconfigDomains ==
    /\ DOMAIN KubeconfigSecrets("root") =
         {GetShardKubeconfigSecret(name["root"], "logical-cluster-admin"),
          GetShardKubeconfigSecret(name["root"], "external-logical-cluster-admin")}
    /\ DOMAIN KubeconfigSecrets("shard") =
         {GetShardKubeconfigSecret(name["shard"], "logical-cluster-admin"),
          GetShardKubeconfigSecret(name["shard"], "external-logical-cluster-admin"),
          GetShardKubeconfigSecret(name["shard"], "client")}
    /\ DOMAIN KubeconfigSecrets("cache") = {GetCacheServerKubeconfigName(name["cache"])}
    /\ DOMAIN KubeconfigSecrets("front") = {}
    /\ DOMAIN KubeconfigSecrets("vw") = {}
<1>1. DOMAIN KubeconfigSecrets("front") = {} /\ DOMAIN KubeconfigSecrets("vw") = {}
  BY DEF KubeconfigSecrets
<1>2. DOMAIN KubeconfigSecrets("cache") = {GetCacheServerKubeconfigName(name["cache"])}
  BY MapsTo DEF KubeconfigSecrets, CacheServerKubeconfig
<1>3. \A x : DOMAIN LogicalClusterAdminKubeconfig(x) =
        {GetShardKubeconfigSecret(name[x], "logical-cluster-admin")}
  BY MapsTo DEF LogicalClusterAdminKubeconfig
<1>4. \A x : DOMAIN ExternalLogicalClusterAdminKubeconfig(x) =
                {GetShardKubeconfigSecret(name[x], "external-logical-cluster-admin")}
  BY MapsTo DEF ExternalLogicalClusterAdminKubeconfig
<1>5. DOMAIN RootShardClientKubeconfig = {GetShardKubeconfigSecret(name["shard"], "client")}
  BY MapsTo DEF RootShardClientKubeconfig
<1>6. DOMAIN KubeconfigSecrets("root") =
        DOMAIN LogicalClusterAdminKubeconfig("root") \cup DOMAIN ExternalLogicalClusterAdminKubeconfig("root")
  BY OverDomain DEF KubeconfigSecrets, RootShardKubeconfigs
<1>7. DOMAIN KubeconfigSecrets("shard") =
        DOMAIN LogicalClusterAdminKubeconfig("shard") \cup DOMAIN ExternalLogicalClusterAdminKubeconfig("shard")
        \cup DOMAIN RootShardClientKubeconfig
  <2>1. \A f, g, h : DOMAIN ((f @@ g) @@ h) = DOMAIN f \cup DOMAIN g \cup DOMAIN h
    BY DEF @@
  <2> QED
    BY <2>1 DEF KubeconfigSecrets
<1>8. DOMAIN KubeconfigSecrets("root") =
         {GetShardKubeconfigSecret(name["root"], "logical-cluster-admin"),
          GetShardKubeconfigSecret(name["root"], "external-logical-cluster-admin")}
  BY <1>3, <1>4, <1>6
<1>9. DOMAIN KubeconfigSecrets("shard") =
         {GetShardKubeconfigSecret(name["shard"], "logical-cluster-admin"),
          GetShardKubeconfigSecret(name["shard"], "external-logical-cluster-admin"),
          GetShardKubeconfigSecret(name["shard"], "client")}
  BY <1>3, <1>4, <1>5, <1>7
<1> QED
  BY <1>1, <1>2, <1>8, <1>9

\* No two objects write the same kubeconfig Secret.
LEMMA KubeconfigsApart ==
    ASSUME ProperNames(name), NEW x \in Objects, NEW y \in Objects, x # y
    PROVE  DOMAIN KubeconfigSecrets(x) \cap DOMAIN KubeconfigSecrets(y) = {}
<1>1. name[x] # name[y]
  BY DEF ProperNames
<1>2. \A z \in Objects : \A n \in DOMAIN KubeconfigSecrets(z) : n[1] = name[z]
  BY KubeconfigDomains DEF Objects, GetShardKubeconfigSecret, GetCacheServerKubeconfigName
<1> QED
  BY <1>1, <1>2

\* The kubeconfigs that the compiled controllers write for the proxies are nobody else's.
LEMMA DynamicApart ==
    /\ \A pod \in Proxies, x \in Objects : DynamicKubeconfigName(pod) \notin DOMAIN KubeconfigSecrets(x)
    /\ ProperNames(name) => \A p, q \in Proxies : DynamicKubeconfigName(p) = DynamicKubeconfigName(q) => p = q
  BY KubeconfigDomains DEF DynamicKubeconfigName, Proxies, Objects, GetShardKubeconfigSecret,
     GetCacheServerKubeconfigName, GetFrontProxyDynamicKubeconfigName, GetRootShardProxyDynamicKubeconfigName,
     ProperNames

\* When the merged bundles of a server exist, and what is in them.
LEMMA MergedDomains ==
    ASSUME NEW CONSTANT x, NEW CONSTANT n
    PROVE  /\ DOMAIN MergedClientCABundle(x) =
                (IF "clientBundle" \in opts["root"] \cup opts[x] THEN {GetMergedClientCAName(name[x])} ELSE {})
           /\ "clientBundle" \in opts["root"] \cup opts[x] =>
                MergedClientCABundle(x)[GetMergedClientCAName(name[x])] = MergedClientCAs(x)
           /\ DOMAIN MergedCABundle(x, n) = (IF "caBundle" \in opts[x] THEN {n} ELSE {})
           /\ "caBundle" \in opts[x] =>
                MergedCABundle(x, n)[n] = {RootCAName("server"), UserSecret(x, "caBundle")}
<1>1. DOMAIN <<>> = {}
  OBVIOUS
<1> QED
  BY <1>1, MapsTo DEF MergedClientCABundle, MergedCABundle

\* The same for the bundles of a proxy.
LEMMA ProxyBundleDomains ==
    ASSUME NEW CONSTANT pod \in Proxies
    PROVE  /\ DOMAIN ProxyBundles(pod) =
                {clientCABundleSecretName(pod)} \cup
                (IF "caBundle" \in opts[ObjectOf(pod)] THEN {backendCABundleSecretName(pod)} ELSE {})
           /\ ProxyBundles(pod)[clientCABundleSecretName(pod)] = MergedClientCAs(ObjectOf(pod))
           /\ "caBundle" \in opts[ObjectOf(pod)] =>
                ProxyBundles(pod)[backendCABundleSecretName(pod)] =
                    {RootCAName("server"), UserSecret(ObjectOf(pod), "caBundle")}
<1>1. clientCABundleSecretName(pod) # backendCABundleSecretName(pod)
  BY DEF clientCABundleSecretName, backendCABundleSecretName, GetMergedClientCAName, MergedCABundleName,
     ProxyMergedClientCAName, ProxyMergedCABundleName
<1> DEFINE f == clientCABundleSecretName(pod) :> MergedClientCAs(ObjectOf(pod))
           g == MergedCABundle(ObjectOf(pod), backendCABundleSecretName(pod))
<1>2. ProxyBundles(pod) = f @@ g
  BY DEF ProxyBundles
<1>3. DOMAIN f = {clientCABundleSecretName(pod)} /\
        f[clientCABundleSecretName(pod)] = MergedClientCAs(ObjectOf(pod))
  BY MapsTo
<1>4. /\ DOMAIN g = (IF "caBundle" \in opts[ObjectOf(pod)] THEN {backendCABundleSecretName(pod)} ELSE {})
      /\ "caBundle" \in opts[ObjectOf(pod)] =>
           g[backendCABundleSecretName(pod)] = {RootCAName("server"), UserSecret(ObjectOf(pod), "caBundle")}
  BY MergedDomains
<1> HIDE DEF f, g
<1>5. /\ DOMAIN (f @@ g) = DOMAIN f \cup DOMAIN g
      /\ \A n \in DOMAIN f : (f @@ g)[n] = f[n]
      /\ \A n \in DOMAIN g \ DOMAIN f : (f @@ g)[n] = g[n]
  BY OverDomain
<1> QED
  BY <1>1, <1>2, <1>3, <1>4, <1>5

\* `@@` of functions with nothing in common.
LEMMA Over2 ==
    ASSUME NEW f, NEW g, DOMAIN f \cap DOMAIN g = {}
    PROVE  \A n : /\ n \in DOMAIN f => (f @@ g)[n] = f[n]
                  /\ n \in DOMAIN g => (f @@ g)[n] = g[n]
  BY DEF @@

\* The two bundles of a server do not get in each other's way.
LEMMA ServerBundleValues ==
    ASSUME NEW CONSTANT x
    PROVE  LET f == MergedClientCABundle(x) @@ MergedCABundle(x, MergedCABundleName(name[x])) IN
           /\ DOMAIN f \subseteq {GetMergedClientCAName(name[x]), MergedCABundleName(name[x])}
           /\ "clientBundle" \in opts["root"] \cup opts[x] =>
                GetMergedClientCAName(name[x]) \in DOMAIN f /\
                  f[GetMergedClientCAName(name[x])] = MergedClientCAs(x)
           /\ "caBundle" \in opts[x] =>
                /\ MergedCABundleName(name[x]) \in DOMAIN f
                /\ f[MergedCABundleName(name[x])] = {RootCAName("server"), UserSecret(x, "caBundle")}
<1> DEFINE f == MergedClientCABundle(x)
           g == MergedCABundle(x, MergedCABundleName(name[x]))
<1>1. GetMergedClientCAName(name[x]) # MergedCABundleName(name[x])
  BY DEF GetMergedClientCAName, MergedCABundleName
<1>2. /\ DOMAIN f =
           (IF "clientBundle" \in opts["root"] \cup opts[x] THEN {GetMergedClientCAName(name[x])} ELSE {})
      /\ "clientBundle" \in opts["root"] \cup opts[x] => f[GetMergedClientCAName(name[x])] = MergedClientCAs(x)
  BY MergedDomains
<1>3. /\ DOMAIN g = (IF "caBundle" \in opts[x] THEN {MergedCABundleName(name[x])} ELSE {})
      /\ "caBundle" \in opts[x] => g[MergedCABundleName(name[x])] = {RootCAName("server"),
           UserSecret(x, "caBundle")}
  BY MergedDomains
<1> HIDE DEF f, g
<1>4. DOMAIN f \cap DOMAIN g = {}
  BY <1>1, <1>2, <1>3
<1>5. DOMAIN (f @@ g) = DOMAIN f \cup DOMAIN g
  BY OverDomain
<1>6. \A n : /\ n \in DOMAIN f => (f @@ g)[n] = f[n]
             /\ n \in DOMAIN g => (f @@ g)[n] = g[n]
  BY <1>4, Over2
<1>7. /\ DOMAIN (f @@ g) \subseteq {GetMergedClientCAName(name[x]), MergedCABundleName(name[x])}
      /\ "clientBundle" \in opts["root"] \cup opts[x] =>
            /\ GetMergedClientCAName(name[x]) \in DOMAIN (f @@ g)
            /\ (f @@ g)[GetMergedClientCAName(name[x])] = MergedClientCAs(x)
      /\ "caBundle" \in opts[x] =>
           /\ MergedCABundleName(name[x]) \in DOMAIN (f @@ g)
           /\ (f @@ g)[MergedCABundleName(name[x])] = {RootCAName("server"), UserSecret(x, "caBundle")}
  BY <1>2, <1>3, <1>5, <1>6
<1> QED
  BY <1>7 DEF f, g

\* The bundles of an object start with its name, and hold what the documentation says.
LEMMA BundleValues ==
    /\ \A x \in Objects : \A n \in DOMAIN Bundles(x) : n[1] = name[x] /\ n \in BundleNames
    /\ \A x \in {"root", "shard", "vw"} : "clientBundle" \in opts["root"] \cup opts[x] =>
         /\ GetMergedClientCAName(name[x]) \in DOMAIN Bundles(x)
         /\ Bundles(x)[GetMergedClientCAName(name[x])] = MergedClientCAs(x)
    /\ \A x \in {"root", "shard"} : "caBundle" \in opts[x] =>
         /\ MergedCABundleName(name[x]) \in DOMAIN Bundles(x)
         /\ Bundles(x)[MergedCABundleName(name[x])] = {RootCAName("server"), UserSecret(x, "caBundle")}
    /\ \A pod \in Proxies :
         /\ clientCABundleSecretName(pod) \in DOMAIN Bundles(ObjectOf(pod))
         /\ Bundles(ObjectOf(pod))[clientCABundleSecretName(pod)] = MergedClientCAs(ObjectOf(pod))
         /\ "caBundle" \in opts[ObjectOf(pod)] =>
              /\ backendCABundleSecretName(pod) \in DOMAIN Bundles(ObjectOf(pod))
              /\ Bundles(ObjectOf(pod))[backendCABundleSecretName(pod)] =
                   {RootCAName("server"), UserSecret(ObjectOf(pod), "caBundle")}
<1>1. /\ \A n \in DOMAIN Bundles("vw") : n[1] = name["vw"] /\ n \in BundleNames
      /\ "clientBundle" \in opts["root"] \cup opts["vw"] =>
         /\ GetMergedClientCAName(name["vw"]) \in DOMAIN Bundles("vw")
         /\ Bundles("vw")[GetMergedClientCAName(name["vw"])] = MergedClientCAs("vw")
  <2>1. Bundles("vw") = MergedClientCABundle("vw")
    BY DEF Bundles, VirtualWorkspaceBundle
  <2>2. GetMergedClientCAName(name["vw"]) \in BundleNames /\ GetMergedClientCAName(name["vw"])[1] = name["vw"]
    BY DEF GetMergedClientCAName, BundleNames, Objects
  <2> QED
    BY <2>1, <2>2, MergedDomains
<1>2. /\ \A n \in DOMAIN Bundles("shard") : n[1] = name["shard"] /\ n \in BundleNames
      /\ "clientBundle" \in opts["root"] \cup opts["shard"] =>
         /\ GetMergedClientCAName(name["shard"]) \in DOMAIN Bundles("shard")
         /\ Bundles("shard")[GetMergedClientCAName(name["shard"])] = MergedClientCAs("shard")
      /\ "caBundle" \in opts["shard"] =>
         /\ MergedCABundleName(name["shard"]) \in DOMAIN Bundles("shard")
         /\ Bundles("shard")[MergedCABundleName(name["shard"])] = {RootCAName("server"),
              UserSecret("shard", "caBundle")}
  <2>1. DOMAIN Bundles("shard") \subseteq {GetMergedClientCAName(name["shard"]),
          MergedCABundleName(name["shard"])}
    BY ServerBundleValues DEF Bundles, ShardBundles
  <2>2. \A n \in DOMAIN Bundles("shard") : n[1] = name["shard"] /\ n \in BundleNames
    BY <2>1 DEF BundleNames, GetMergedClientCAName, MergedCABundleName, Objects
  <2> QED
    BY <2>2, ServerBundleValues DEF Bundles, ShardBundles
<1>3. /\ \A n \in DOMAIN Bundles("front") : n[1] = name["front"] /\ n \in BundleNames
      /\ clientCABundleSecretName("front") \in DOMAIN Bundles("front")
      /\ Bundles("front")[clientCABundleSecretName("front")] = MergedClientCAs("front")
      /\ "caBundle" \in opts["front"] =>
           /\ backendCABundleSecretName("front") \in DOMAIN Bundles("front")
           /\ Bundles("front")[backendCABundleSecretName("front")] =
                {RootCAName("server"), UserSecret("front", "caBundle")}
  <2>1. Bundles("front") = ProxyBundles("front") /\ ObjectOf("front") = "front" /\ "front" \in Proxies
    BY DEF Bundles, ObjectOf, Proxies
  <2>2. \A n \in {clientCABundleSecretName("front"), backendCABundleSecretName("front")} :
            n[1] = name["front"] /\ n \in BundleNames
    BY DEF BundleNames, GetMergedClientCAName, MergedCABundleName, Objects, clientCABundleSecretName,
       backendCABundleSecretName
  <2> QED
    BY <2>1, <2>2, ProxyBundleDomains
<1>4. /\ \A n \in DOMAIN Bundles("root") : n[1] = name["root"] /\ n \in BundleNames
      /\ "clientBundle" \in opts["root"] =>
         /\ GetMergedClientCAName(name["root"]) \in DOMAIN Bundles("root")
         /\ Bundles("root")[GetMergedClientCAName(name["root"])] = MergedClientCAs("root")
      /\ "caBundle" \in opts["root"] =>
         /\ MergedCABundleName(name["root"]) \in DOMAIN Bundles("root")
         /\ Bundles("root")[MergedCABundleName(name["root"])] = {RootCAName("server"),
              UserSecret("root", "caBundle")}
      /\ clientCABundleSecretName("proxy") \in DOMAIN Bundles("root")
      /\ Bundles("root")[clientCABundleSecretName("proxy")] = MergedClientCAs("root")
      /\ "caBundle" \in opts["root"] =>
           /\ backendCABundleSecretName("proxy") \in DOMAIN Bundles("root")
           /\ Bundles("root")[backendCABundleSecretName("proxy")] =
                {RootCAName("server"), UserSecret("root", "caBundle")}
  <2> DEFINE f == RootShardBundles
             g == ProxyBundles("proxy")
  <2>1. /\ DOMAIN f \subseteq {GetMergedClientCAName(name["root"]), MergedCABundleName(name["root"])}
        /\ "clientBundle" \in opts["root"] =>
             /\ GetMergedClientCAName(name["root"]) \in DOMAIN f
             /\ f[GetMergedClientCAName(name["root"])] = MergedClientCAs("root")
        /\ "caBundle" \in opts["root"] =>
             /\ MergedCABundleName(name["root"]) \in DOMAIN f
             /\ f[MergedCABundleName(name["root"])] = {RootCAName("server"), UserSecret("root", "caBundle")}
    BY ServerBundleValues DEF RootShardBundles
  <2>2. /\ clientCABundleSecretName("proxy") \in DOMAIN g
        /\ DOMAIN g \subseteq {clientCABundleSecretName("proxy"), backendCABundleSecretName("proxy")}
        /\ g[clientCABundleSecretName("proxy")] = MergedClientCAs("root")
        /\ "caBundle" \in opts["root"] =>
             /\ backendCABundleSecretName("proxy") \in DOMAIN g
             /\ g[backendCABundleSecretName("proxy")] = {RootCAName("server"), UserSecret("root", "caBundle")}
    <3>1. ObjectOf("proxy") = "root" /\ "proxy" \in Proxies
      BY DEF ObjectOf, Proxies
    <3> QED
      BY <3>1, ProxyBundleDomains
  <2>3. Bundles("root") = f @@ g
    BY DEF Bundles
  <2>4. \A n \in {GetMergedClientCAName(name["root"]), MergedCABundleName(name["root"])} :
            /\ n[1] = name["root"] /\ n \in BundleNames
            /\ n \notin {clientCABundleSecretName("proxy"), backendCABundleSecretName("proxy")}
    BY DEF BundleNames, GetMergedClientCAName, MergedCABundleName, Objects, clientCABundleSecretName,
       backendCABundleSecretName, ProxyMergedClientCAName, ProxyMergedCABundleName
  <2>5. \A n \in {clientCABundleSecretName("proxy"), backendCABundleSecretName("proxy")} :
            n[1] = name["root"] /\ n \in BundleNames
    BY DEF BundleNames, clientCABundleSecretName, backendCABundleSecretName, ProxyMergedClientCAName,
       ProxyMergedCABundleName
  <2> HIDE DEF f, g
  <2>6. DOMAIN f \cap DOMAIN g = {}
    BY <2>1, <2>2, <2>4
  <2>7. DOMAIN (f @@ g) = DOMAIN f \cup DOMAIN g
    BY OverDomain
  <2>8. \A n : /\ n \in DOMAIN f => (f @@ g)[n] = f[n]
               /\ n \in DOMAIN g => (f @@ g)[n] = g[n]
    BY <2>6, Over2
  <2>9. \A n \in DOMAIN Bundles("root") : n[1] = name["root"] /\ n \in BundleNames
    BY <2>1, <2>2, <2>3, <2>4, <2>5, <2>7
  <2> QED
    BY <2>1, <2>2, <2>3, <2>7, <2>8, <2>9
<1>5. \A n \in DOMAIN Bundles("cache") : FALSE
  BY DEF Bundles
<1> QED
  BY <1>1, <1>2, <1>3, <1>4, <1>5 DEF Objects, Proxies, ObjectOf

\* No two objects write the same bundle.
LEMMA BundlesApart ==
    ASSUME ProperNames(name), NEW x \in Objects, NEW y \in Objects, x # y
    PROVE  DOMAIN Bundles(x) \cap DOMAIN Bundles(y) = {}
<1>1. name[x] # name[y]
  BY DEF ProperNames
<1> QED
  BY <1>1, BundleValues

\* What a pass can write before the client CA exists is a part of what it has to write.
LEMMA Writable ==
    ASSUME NEW x \in Objects
    PROVE  /\ DOMAIN WritableBundles(x) \subseteq DOMAIN Bundles(x)
           /\ \A n \in DOMAIN WritableBundles(x) : WritableBundles(x)[n] = Bundles(x)[n]
<1>1. CASE x # "shard"
  <2>1. DOMAIN <<>> = {}
    OBVIOUS
  <2>2. WritableBundles(x) = Bundles(x) \/ WritableBundles(x) = <<>>
    BY <1>1 DEF WritableBundles
  <2> QED
    BY <2>1, <2>2
<1>2. CASE x = "shard"
  <2> DEFINE f == MergedClientCABundle("shard")
             g == MergedCABundle("shard", MergedCABundleName(name["shard"]))
             f1 == IF ClientCAExists THEN f ELSE <<>>
             g1 == IF issued["shard"] # {} THEN g ELSE <<>>
  <2>1. Bundles("shard") = f @@ g
    BY DEF Bundles, ShardBundles
  <2>2. WritableBundles("shard") = f1 @@ g1
    BY DEF WritableBundles
  <2>3. DOMAIN f \subseteq {GetMergedClientCAName(name["shard"])} /\
          DOMAIN g \subseteq {MergedCABundleName(name["shard"])}
    BY MergedDomains
  <2>4. DOMAIN f \cap DOMAIN g = {}
    BY <2>3 DEF GetMergedClientCAName, MergedCABundleName
  <2>5. /\ DOMAIN f1 \subseteq DOMAIN f /\ \A n \in DOMAIN f1 : f1[n] = f[n]
        /\ DOMAIN g1 \subseteq DOMAIN g /\ \A n \in DOMAIN g1 : g1[n] = g[n]
    <3>1. DOMAIN <<>> = {}
      OBVIOUS
    <3> QED
      BY <3>1
  <2> HIDE DEF f, g, f1, g1
  <2>6. DOMAIN (f @@ g) = DOMAIN f \cup DOMAIN g /\ DOMAIN (f1 @@ g1) = DOMAIN f1 \cup DOMAIN g1
    BY OverDomain
  <2>7. DOMAIN f1 \cap DOMAIN g1 = {}
    BY <2>4, <2>5
  <2>8. \A n : /\ n \in DOMAIN f => (f @@ g)[n] = f[n]
               /\ n \in DOMAIN g => (f @@ g)[n] = g[n]
    BY <2>4, Over2
  <2>9. \A n : /\ n \in DOMAIN f1 => (f1 @@ g1)[n] = f1[n]
               /\ n \in DOMAIN g1 => (f1 @@ g1)[n] = g1[n]
    BY <2>7, Over2
  <2> QED
    BY <1>2, <2>1, <2>2, <2>5, <2>6, <2>8, <2>9
<1> QED
  BY <1>1, <1>2

\* What a pass overrides has the values it writes, the rest is left alone.
LEMMA AgreesOver ==
    ASSUME NEW f, NEW g, NEW h
    PROVE  /\ Agrees(f, f @@ g)
           /\ Agrees(h, g) /\ DOMAIN h \cap DOMAIN f = {} => Agrees(h, f @@ g)
  BY DEF Agrees, @@

\* The names of Certificates, CAs, kubeconfigs and user Secrets are no dynamic kubeconfigs.
LEMMA NotDynamic ==
    ASSUME NEW p \in Proxies
    PROVE  LET d == DynamicKubeconfigName(p) IN
           /\ \A pod \in Pods, c \in Certificate : CertName(pod, c) # d
           /\ \A ca : RootCAName(ca) # d
           /\ CacheCAName # d /\ GetCacheServerKubeconfigName(name["cache"]) # d
           /\ \A x, c : GetShardKubeconfigSecret(name[x], c) # d
           /\ \A x : GetMergedClientCAName(name[x]) # d /\ MergedCABundleName(name[x]) # d
           /\ \A q \in Proxies : clientCABundleSecretName(q) # d /\ backendCABundleSecretName(q) # d
           /\ \A x, f : f # "dynamic-kubeconfig" => UserSecret(x, f) # d
  BY DEF DynamicKubeconfigName, Proxies, Pods, Objects, CertName, Certificate, GetRootShardCertificateName,
     GetRootShardProxyCertificateName, GetShardCertificateName, GetFrontProxyCertificateName,
     GetVirtualWorkspaceCertificateName, GetCacheServerCertificateName, GetCacheServerClientCertificateName,
     RootCAName, CacheCAName, GetRootShardCAName, GetCacheServerCAName, GetCacheServerKubeconfigName,
     GetShardKubeconfigSecret, GetMergedClientCAName, MergedCABundleName, clientCABundleSecretName,
     backendCABundleSecretName, ProxyMergedClientCAName, ProxyMergedCABundleName, UserSecret,
     GetFrontProxyDynamicKubeconfigName, GetRootShardProxyDynamicKubeconfigName

-----------------------------------------------------------------------------
(* What a Pod mounts, mount by mount.                                       *)

\* The paths of the files that users bring.
FilePath(f) ==
    CASE f = "etcd"                   -> <<"etcd", "tls">>
      [] f = "audit-policy"           -> <<"kcp", "audit", "policy">>
      [] f = "audit-webhook"          -> <<"kcp", "audit", "webhook">>
      [] f = "authorization-webhook"  -> <<"kcp", "authorization", "webhook">>
      [] f = "oidc"                   -> <<"kcp", "tls", "oidc">>
      [] f = "token"                  -> <<"kcp", "authentication", "token">>
      [] f = "authentication-webhook" -> <<"kcp", "authentication", "webhook">>

\* The kinds of mounts: a file the user refers to in the options of x,
IsUserMount(x, m) == \E f \in Files : m = SecretMount(UserSecret(x, f), FilePath(f))

\* the service account key of a shard,
IsServiceAccountMount(o, m) ==
    "sa" \in o /\ \E x \in {"root", "shard"} :
      m = SecretMount(CertName(x, "service-account"), serviceAccountPath(x))

\* one of these CAs,
IsCAMount(cas, m) == \E ca \in cas : m = SecretMount(RootCAName(ca), getCAMountPath(ca))

\* one of these certificates of a Pod,
IsCertMount(pod, certs, m) == \E c \in certs : m = SecretMount(CertName(pod, c), getCertificateMountPath(c))

\* one of these kubeconfigs of a shard.
IsKubeconfigMount(x, certs, m) ==
    \E c \in certs : m = SecretMount(GetShardKubeconfigSecret(name[x], c), getKubeconfigMountPath(c))

\* All mounts that a shard's Pod can have,
IsServerMount(x, in, m) ==
    \/ IsCAMount({"root", "server", "service-account", "requestheader-client"}, m)
    \/ IsCertMount(x, {"server", "service-account", "client", "logical-cluster-admin",
                       "external-logical-cluster-admin"}, m)
    \/ IsKubeconfigMount(x, {"logical-cluster-admin", "external-logical-cluster-admin"}, m)
    \/ m = ClientCAMount(x, "clientBundle" \in in["root"] \cup in[x])
    \/ "caBundle" \in in[x] /\ m = SecretMount(MergedCABundleName(name[x]), getCAMountPath("ca-bundle"))
    \/ EffectiveCache(in) /\ m \in CacheMounts
    \/ IsUserMount(x, m)
    \/ IsServiceAccountMount(in[x], m)

\* those that only a Shard's has in addition,
IsShardMount(in, m) ==
    \/ IsServerMount("shard", in, m)
    \/ IsKubeconfigMount("shard", {"client"}, m)
    \/ supportsMountProxy(in["shard"]) /\ IsCertMount("shard", {"mounts-proxy"}, m)

\* those of a proxy,
IsProxyMount(pod, in, m) ==
    \/ m = SecretMount(DynamicKubeconfigName(pod), frontProxyPath("kubeconfig"))
    \/ m = SecretMount(CertName(pod, "kubeconfig"), frontProxyPath("kubeconfig-client-cert"))
    \/ m = SecretMount(CertName(pod, "server"), frontProxyPath("tls"))
    \/ m = SecretMount(CertName(pod, "requestheader"), frontProxyPath("requestheader-client"))
    \/ m = SecretMount(RootCAName("root"), kubeconfigCAPath)
    \/ m = SecretMount(clientCABundleSecretName(pod), frontProxyPath("client-ca"))
    \/ supportsMountProxy(in[ObjectOf(pod)]) /\ IsCAMount({"requestheader-client"}, m)
    \/ "caBundle" \in in[ObjectOf(pod)] /\
         m = SecretMount(backendCABundleSecretName(pod), getCAMountPath("ca-bundle"))
    \/ pod = "front" /\ (IsUserMount("front", m) \/ IsServiceAccountMount(in["front"], m))

\* those of a container of the VirtualWorkspace,
IsWorkspaceMount(c, in, m) ==
    \/ IsCAMount({"root", "server", "requestheader-client"}, m)
    \/ IsCertMount("vw", {"server"}, m)
    \/ m = ClientCAMount("vw", "clientBundle" \in in["root"] \cup in["vw"])
    \/ EffectiveCache(in) /\ m \in CacheMounts
    \/ BringsKubeconfig(c, in["vw"]) /\ m = OwnKubeconfigMount(c)
    \/ ~BringsKubeconfig(c, in["vw"]) /\ m \in AdminMounts

\* and those of the cache server.
IsCacheServerMount(in, m) ==
    \/ m = SecretMount(CertName("cache", "server"), cacheServerCertificateMountPath)
    \/ hasAuthenticatedCache(in["cache"]) /\ m = SecretMount(CacheCAName, getCacheServerCAMountPath("root"))
    \/ m = SecretMount(UserSecret("cache", "etcd"), getEtcdCertificateMountPath)

\* Which mounts the shared helpers add.
LEMMA AuthMounts ==
    ASSUME NEW CONSTANT x, NEW CONSTANT o, NEW CONSTANT m
    PROVE  /\ m \in ApplyCommonShardConfig(x, o) => IsUserMount(x, m)
           /\ m \in ApplyAuthConfiguration(x, o) => IsUserMount(x, m) \/ IsServiceAccountMount(o, m)
<1>1. ASSUME NEW f \in Files, m \in UserFile(x, o, f, FilePath(f))
      PROVE  IsUserMount(x, m)
  BY <1>1 DEF UserFile, IsUserMount
<1>2. m \in ApplyCommonShardConfig(x, o) => IsUserMount(x, m)
  BY <1>1 DEF ApplyCommonShardConfig, applyEtcdConfiguration, applyAuditPolicyConfiguration,
     applyAuditWebhookConfiguration, applyAuthorizationConfiguration, FilePath, Files
<1>3. m \in ApplyAuthConfiguration(x, o) => IsUserMount(x, m) \/ IsServiceAccountMount(o, m)
  BY <1>1 DEF ApplyAuthConfiguration, applyOIDCConfiguration, applyTokenAuthFile, FilePath, Files,
     applyAuthenticationWebhookConfiguration, applyServiceAccountAuthentication, IsServiceAccountMount
<1> QED
  BY <1>2, <1>3

\* A mount of the RootShard is of one of these kinds.
LEMMA ServerMountsAre ==
    ASSUME NEW CONSTANT x, NEW CONSTANT in, NEW m \in ServerMounts(x, in)
    PROVE  IsServerMount(x, in, m)
  BY AuthMounts DEF ServerMounts, IsServerMount, CAMounts, IsCAMount, CertMounts, IsCertMount, KubeconfigMounts,
     IsKubeconfigMount

\* So is one of a Shard,
LEMMA ShardMountsAre ==
    ASSUME NEW CONSTANT in, NEW m \in ShardMounts(in)
    PROVE  IsShardMount(in, m)
  BY ServerMountsAre DEF ShardMounts, IsShardMount, CertMounts, IsCertMount, KubeconfigMounts, IsKubeconfigMount

\* one of a proxy,
LEMMA ProxyMountsAre ==
    ASSUME NEW CONSTANT pod, NEW CONSTANT in, NEW m \in ProxyMounts(pod, in)
    PROVE  IsProxyMount(pod, in, m)
  BY AuthMounts DEF ProxyMounts, IsProxyMount, CAMounts, IsCAMount, ProxyBundleMounts, ObjectOf

\* one of a VirtualWorkspace,
LEMMA WorkspaceMountsAre ==
    ASSUME NEW CONSTANT c, NEW CONSTANT in, NEW m \in VirtualWorkspaceMounts(c, in)
    PROVE  IsWorkspaceMount(c, in, m)
  BY DEF VirtualWorkspaceMounts, IsWorkspaceMount, CAMounts, IsCAMount, CertMounts, IsCertMount, containerMounts

\* and one of a cache server.
LEMMA CacheServerMountsAre ==
    ASSUME NEW CONSTANT in, NEW m \in CacheServerMounts(in["cache"])
    PROVE  IsCacheServerMount(in, m)
  BY DEF CacheServerMounts, IsCacheServerMount, UserFile

\* All of it for any Pod.
LEMMA MountsAre ==
    ASSUME NEW CONSTANT c, NEW CONSTANT in, NEW CONSTANT pod \in Pods, NEW m \in Mounts(pod, c, in)
    PROVE  /\ pod = "root" => IsServerMount("root", in, m)
           /\ pod = "shard" => IsShardMount(in, m)
           /\ pod \in Proxies => IsProxyMount(pod, in, m)
           /\ pod = "vw" => IsWorkspaceMount(c, in, m)
           /\ pod = "cache" => IsCacheServerMount(in, m)
<1>1. CASE pod = "root"
  BY <1>1, ServerMountsAre DEF Mounts, Proxies
<1>2. CASE pod = "shard"
  BY <1>2, ShardMountsAre DEF Mounts, Proxies
<1>3. CASE pod \in Proxies
  BY <1>3, ProxyMountsAre DEF Mounts, Proxies
<1>4. CASE pod = "vw"
  BY <1>4, WorkspaceMountsAre DEF Mounts, Proxies
<1>5. CASE pod = "cache"
  BY <1>5, CacheServerMountsAre DEF Mounts, Proxies
<1> QED
  BY <1>1, <1>2, <1>3, <1>4, <1>5 DEF Pods, Objects, Proxies

\* A volume is mounted by a container, or kept for the logical cluster admin.
LEMMA VolumesOf ==
    ASSUME NEW CONSTANT pod, NEW CONSTANT in, NEW s \in MountedSecrets(pod, in)
    PROVE  \/ \E c : \E m \in Mounts(pod, c, in) : m.secret = s
           \/ \E m \in AdminVolumes(pod) : m.secret = s
<1>1. PICK m \in Volumes(pod, in) : m.secret = s
  BY DEF MountedSecrets
<1>2. m \in AdminVolumes(pod) \/ \E c \in Containers(pod, in) : m \in Mounts(pod, c, in)
  BY DEF Volumes
<1> QED
  BY <1>1, <1>2

\* A dynamic kubeconfig is mounted by its proxy only.
LEMMA DynamicMounted ==
    ASSUME ProperNames(name), NEW p \in Proxies, NEW pod \in Pods, pod # p, NEW CONSTANT in
    PROVE  DynamicKubeconfigName(p) \notin MountedSecrets(pod, in)
<1> DEFINE d == DynamicKubeconfigName(p)
<1>a. \A m \in AdminVolumes(pod) : m.secret # d
  BY NotDynamic DEF AdminVolumes, AdminMounts, kubeconfigSecret, SecretMount, Pods, Objects, Certificate
<1> SUFFICES ASSUME NEW c, NEW m \in Mounts(pod, c, in), m.secret = d
             PROVE  FALSE
  BY <1>a, VolumesOf
<1>0. /\ \A q \in Pods, k \in Certificate : CertName(q, k) # d
      /\ \A ca : RootCAName(ca) # d
      /\ CacheCAName # d /\ GetCacheServerKubeconfigName(name["cache"]) # d
      /\ \A x, k : GetShardKubeconfigSecret(name[x], k) # d
      /\ \A x : GetMergedClientCAName(name[x]) # d /\ MergedCABundleName(name[x]) # d
      /\ \A q \in Proxies : clientCABundleSecretName(q) # d /\ backendCABundleSecretName(q) # d
      /\ \A x, f : f # "dynamic-kubeconfig" => UserSecret(x, f) # d
  BY NotDynamic
<1>1. pod \in Proxies => DynamicKubeconfigName(pod) # d
  BY DynamicApart
<1> HIDE DEF d
<1> USE DEF SecretMount
<1>2. \A cas : ~IsCAMount(cas, m)
  BY <1>0 DEF IsCAMount
<1>3. \A certs \in SUBSET Certificate : \A q \in Pods : ~IsCertMount(q, certs, m)
  BY <1>0 DEF IsCertMount
<1>4. \A x, certs : ~IsKubeconfigMount(x, certs, m)
  BY <1>0 DEF IsKubeconfigMount
<1>5. \A x : ~IsUserMount(x, m)
  BY <1>0 DEF IsUserMount, Files
<1>6. \A o : ~IsServiceAccountMount(o, m)
  BY <1>0 DEF IsServiceAccountMount, Pods, Objects, Certificate
<1>7. \A x, b : m # ClientCAMount(x, b)
  BY <1>0 DEF ClientCAMount
<1>8. m \notin CacheMounts
  BY <1>0 DEF CacheMounts, Pods, Objects, Certificate
<1>9. \A x \in {"root", "shard"} : ~IsServerMount(x, in, m)
  BY <1>0, <1>2, <1>3, <1>4, <1>5, <1>6, <1>7, <1>8 DEF IsServerMount, Pods, Objects, Certificate
<1>10. ~IsShardMount(in, m)
  BY <1>9, <1>3, <1>4 DEF IsShardMount, Pods, Objects, Certificate
<1>11. pod \in Proxies => ~IsProxyMount(pod, in, m)
  BY <1>0, <1>1, <1>2, <1>5, <1>6 DEF IsProxyMount, Certificate
<1>12. ~IsWorkspaceMount(c, in, m)
  BY <1>0, <1>2, <1>3, <1>7, <1>8 DEF IsWorkspaceMount, OwnKubeconfigMount, KubeconfigOption, AdminMounts,
     kubeconfigSecret, Pods, Objects, Certificate
<1>13. ~IsCacheServerMount(in, m)
  BY <1>0 DEF IsCacheServerMount, Pods, Objects, Certificate
<1> QED
  BY <1>9, <1>10, <1>11, <1>12, <1>13, MountsAre DEF Pods, Objects, Proxies

\* The controllers keep to the names of kubeconfigs.
LEMMA KubeconfigsNamed ==
    ASSUME NEW x \in Objects
    PROVE  DOMAIN KubeconfigSecrets(x) \subseteq KubeconfigNames
  BY KubeconfigDomains DEF KubeconfigNames, Objects

\* Names stay as long as the objects' names do.
LEMMA NamesUnchanged ==
    ASSUME name' = name
    PROVE  /\ BundleNames' = BundleNames
           /\ KubeconfigNames' = KubeconfigNames
           /\ \A pod \in Proxies : DynamicKubeconfigName(pod)' = DynamicKubeconfigName(pod)
           /\ \A pod, in : defaultPathMappings(pod, in)' = defaultPathMappings(pod, in)
           /\ \A o : dynamicKubeconfig(o)' = dynamicKubeconfig(o)
  BY DEF BundleNames, KubeconfigNames, DynamicKubeconfigName, defaultPathMappings, dynamicKubeconfig, BaseURL

\* So do the Secrets of certificates, because no CA changes hands.
LEMMA CertSecretsUnchanged ==
    ASSUME name' = name, "ownCA" \notin opts["root"], "ownCA" \notin opts'["root"], NEW CONSTANT pod
    PROVE  CertSecrets(pod)' = CertSecrets(pod)
<1>1. Certificates(pod)' = Certificates(pod)
  BY DEF Certificates, RootShardServerCertificates, RootShardServiceAccountCertificate,
       RootShardAdminCertificates,
     OperatorClientCertificate, RootShardClientCertificate, ShardServerCertificate,
     ShardVirtualWorkspacesCertificate, ShardServiceAccountCertificate, ShardClientCertificate,
     MountsProxyClientCertificate, ShardAdminCertificates, ProxyServerCertificate, ProxyKubeconfigCertificate,
     ProxyRequestHeaderCertificate, VirtualWorkspaceServerCertificate, VirtualWorkspaceClientCertificate,
     CacheServerServerCertificate, CacheServerClientCertificate, Signed, RootCAName, CacheCAName
<1>2. RootCACertificate' = RootCACertificate
  BY DEF RootCACertificate, RootCAName
<1>3. \A c : CertName(pod, c)' = CertName(pod, c)
  BY DEF CertName
<1>4. CACertificates' = CACertificates /\ CacheServerRootCACertificate' = CacheServerRootCACertificate
  BY DEF CACertificates, CacheServerRootCACertificate, RootCAName, CacheCAName
<1> QED
  BY <1>1, <1>2, <1>3, <1>4 DEF CertSecrets

\* Where a Secret can come from,
LEMMA SecretsMembers ==
    ASSUME NEW s
    PROVE  s \in Secrets <=>
             \/ \E p \in Pods : issued[p] # {} /\ s \in CertSecrets(p)
             \/ s \in DOMAIN kubeconfigs \/ s \in DOMAIN bundles \/ s \in UserSecrets
  BY DEF Secrets

\* also after a step.
LEMMA SecretsMembersNext ==
    ASSUME NEW s, name' = name, "ownCA" \notin opts["root"], "ownCA" \notin opts'["root"]
    PROVE  s \in Secrets' <=>
             \/ \E p \in Pods : issued'[p] # {} /\ s \in CertSecrets(p)
             \/ s \in DOMAIN kubeconfigs' \/ s \in DOMAIN bundles' \/ s \in UserSecrets
  BY CertSecretsUnchanged DEF Secrets

\* Each Pod mounts its server certificate.
LEMMA ServerCertMounted ==
    ASSUME NEW CONSTANT pod \in Pods, NEW CONSTANT in
    PROVE  CertName(pod, "server") \in MountedSecrets(pod, in) \cap CertSecrets(pod)
<1>1. \E p : SecretMount(CertName(pod, "server"), p) \in Mounts(pod, "main", in)
  <2>1. CASE pod \in {"root", "shard"}
    <3>1. SecretMount(CertName(pod, "server"), getCertificateMountPath("server")) \in ServerMounts(pod, in)
      BY DEF ServerMounts, CertMounts
    <3> QED
      BY <2>1, <3>1 DEF Mounts, ShardMounts, Proxies
  <2>2. CASE pod \in Proxies
    <3>1. SecretMount(CertName(pod, "server"), frontProxyPath("tls")) \in ProxyMounts(pod, in)
      BY DEF ProxyMounts
    <3> QED
      BY <2>2, <3>1 DEF Mounts, Proxies
  <2>3. CASE pod = "vw"
    <3>1. SecretMount(CertName("vw", "server"), getCertificateMountPath("server"))
            \in VirtualWorkspaceMounts("main", in)
      BY DEF VirtualWorkspaceMounts, CertMounts
    <3> QED
      BY <2>3, <3>1 DEF Mounts, Proxies
  <2>4. CASE pod = "cache"
    <3>1. SecretMount(CertName("cache", "server"), cacheServerCertificateMountPath) \in
            CacheServerMounts(in["cache"])
      BY DEF CacheServerMounts
    <3> QED
      BY <2>4, <3>1 DEF Mounts, Proxies
  <2> QED
    BY <2>1, <2>2, <2>3, <2>4 DEF Pods, Objects, Proxies
<1>2. "main" \in Containers(pod, in) /\ \A s, p : SecretMount(s, p).secret = s
  BY DEF Containers, SecretMount
<1>3. CertName(pod, "server") \in MountedSecrets(pod, in)
  BY <1>1, <1>2 DEF MountedSecrets, Volumes
<1>4. \E i, n : Issued("server", i, n) \in Certificates(pod)
  BY DEF Certificates, RootShardServerCertificates, ShardServerCertificate, ProxyServerCertificate,
     VirtualWorkspaceServerCertificate, CacheServerServerCertificate, Signed, Pods, Objects, Proxies
<1>5. \A i, n : Issued("server", i, n).cert = "server"
  BY DEF Issued
<1> QED
  BY <1>3, <1>4, <1>5 DEF CertSecrets

-----------------------------------------------------------------------------
(* What a step leaves alone.                                                *)

\* A Deployment is up to date as long as nothing that it mounts changes.
LEMMA RenderedKept ==
    ASSUME name' = name, target' = target, NEW x \in Objects, Rendered(x), compiled'[x] = compiled[x],
           \A pod \in PodsOf(x) : issued'[pod] = issued[pod] /\ deployed'[pod] = deployed[pod],
           \A pod \in PodsOf(x) : \A s \in MountedSecrets(pod, compiled[x]) :
             /\ s \in Secrets' => s \in Secrets
             /\ s \in DOMAIN kubeconfigs' <=> s \in DOMAIN kubeconfigs
             /\ s \in DOMAIN kubeconfigs => kubeconfigs'[s] = kubeconfigs[s]
             /\ s \in DOMAIN bundles' <=> s \in DOMAIN bundles
             /\ s \in DOMAIN bundles => bundles'[s] = bundles[s]
    PROVE  Rendered(x)'
<1> SUFFICES ASSUME NEW pod \in PodsOf(x)
             PROVE  \/ deployed'[pod] = Deployment(pod, compiled[x], kubeconfigs, bundles)'
                    \/ ~ (MountedSecrets(pod, compiled[x])' \subseteq Secrets')
  BY DEF Rendered, PodsOf
<1> DEFINE M == MountedSecrets(pod, compiled[x])
<1>1. MountedSecrets(pod, compiled[x])' = M
  BY MountsUnchanged
<1>2. Only(kubeconfigs', M) = Only(kubeconfigs, M) /\ Only(bundles', M) = Only(bundles, M)
  BY DEF Only
<1>3. Deployment(pod, compiled[x], kubeconfigs, bundles)' = Deployment(pod, compiled[x], kubeconfigs, bundles)
  BY <1>1, <1>2 DEF Deployment, Only
<1> QED
  BY <1>1, <1>3 DEF Rendered

\* A step that leaves a proxy's Secrets alone keeps it routed.
LEMMA RoutedKept ==
    ASSUME name' = name, NEW x \in Objects, Routed(x), compiled'[x] = compiled[x],
           \A pod \in PodsOf(x) \cap Proxies :
             /\ mapping'[pod] = mapping[pod]
             /\ DynamicKubeconfigName(pod) \in DOMAIN kubeconfigs'
             /\ kubeconfigs'[DynamicKubeconfigName(pod)] = kubeconfigs[DynamicKubeconfigName(pod)]
    PROVE  Routed(x)'
  BY NamesUnchanged DEF Routed, PodsOf, Proxies

\* A step that leaves alone what a controller reads and wrote keeps its promises.
LEMMA SourceKept ==
    ASSUME name' = name, target' = target, NEW x \in Objects, Requested(x), Written(x), Published(x),
           \A h \in PodsOf(x) : DNSNames(h)' = DNSNames(h) /\ requested'[h] = requested[h] /\
             issued'[h] = issued[h],
           KubeconfigSecrets(x)' = KubeconfigSecrets(x), Agrees(KubeconfigSecrets(x), kubeconfigs'),
           x \in Informed => CompiledSpec(x)' = CompiledSpec(x) /\ Bundles(x)' = Bundles(x) /\
             Agrees(Bundles(x), bundles'),
           compiled'[x] = compiled[x], ClientCAExists => ClientCAExists'
    PROVE  Requested(x)' /\ Written(x)' /\ Published(x)'
<1>1. Informed' = Informed /\ PodsOf(x)' = PodsOf(x)
  BY DEF Informed, PodsOf
<1>2. Requested(x)'
  BY <1>1 DEF Requested
<1>3. Written(x)'
  BY <1>1 DEF Written, Agrees
<1>4. Published(x)'
  BY <1>1 DEF Published
<1> QED
  BY <1>2, <1>3, <1>4

-----------------------------------------------------------------------------
(* The actions keep the invariant.                                          *)

\* Names under which the objects do not meet.
NamesProper == \A s \in Situations : ProperNames(s.name)

\* The RootShard has an issuer, and keeps it.
IssuerGiven == "ownCA" \notin Editable["root"] /\ \A s \in Situations : "ownCA" \notin s.opts["root"]

\* A step of the source controllers that changes no Secret keeps those of the compiled controllers.
LEMMA CompiledKept ==
    ASSUME CompiledDone, Static, Static', name' = name, target' = target,
           UNCHANGED <<issued, written, compiled, deployed, compiledQ>>
    PROVE  CompiledDone'
<1> SUFFICES ASSUME NEW x \in Objects \ compiledQ, compiled[x] # None
             PROVE  Rendered(x)' /\ Routed(x)'
  BY DEF CompiledDone
<1>1. Rendered(x) /\ Routed(x)
  BY DEF CompiledDone
<1>2. \A s : s \in Secrets' => s \in Secrets
  BY SecretsMembers, SecretsMembersNext DEF Static, written
<1>3. Rendered(x)'
  BY <1>1, <1>2, RenderedKept DEF written
<1>4. Routed(x)'
  BY <1>1, RoutedKept DEF written, Routed
<1> QED
  BY <1>3, <1>4

\* An edit wakes everybody who reads the edited option.
LEMMA EditStep ==
    ASSUME WiringInv, IssuerGiven, NEW y \in Objects, NEW o \in Editable[y], Edit(y, o)
    PROVE  WiringInv'
<1> USE DEF Edit
<1>1. Static'
  <2>1. o \in UNION {Options[x] : x \in Objects}
    BY EditAssumption
  <2>2. opts' \in [Objects -> SUBSET UNION {Options[x] : x \in Objects}]
    BY <2>1 DEF WiringInv, Static
  <2>3. "ownCA" \notin opts'["root"]
    BY DEF WiringInv, Static, IssuerGiven, Objects
  <2> QED
    BY <2>2, <2>3 DEF WiringInv, Static
<1>2. Shape'
  BY NamesUnchanged DEF WiringInv, Shape, written
<1>3. SourceDone'
  <2> SUFFICES ASSUME NEW x \in Objects, x \notin sourceQ'
               PROVE  Requested(x)' /\ Written(x)' /\ Published(x)'
    BY DEF SourceDone
  <2>1. x # y /\ x \notin sourceQ /\ y \notin Watches(x, opts')
    BY DEF Woken
  <2>2. \A z \in Objects \ {y} : opts'[z] = opts[z]
    BY DEF WiringInv, Static
  <2>3. /\ \A h \in PodsOf(x) : DNSNames(h)' = DNSNames(h)
        /\ KubeconfigSecrets(x)' = KubeconfigSecrets(x)
        /\ x \in Informed => CompiledSpec(x)' = CompiledSpec(x) /\ Bundles(x)' = Bundles(x)
    BY <2>1, <2>2, EditElsewhere DEF WiringInv, Static
  <2>4. Requested(x) /\ Written(x) /\ Published(x)
    BY <2>1 DEF WiringInv, SourceDone
  <2> QED
    BY <2>3, <2>4, SourceKept DEF written, Written, ClientCAExists
<1>4. CompiledDone'
  BY <1>1, CompiledKept DEF WiringInv
<1>5. WorkspaceBundle'
  BY DEF WiringInv, WorkspaceBundle, written
<1> QED
  BY <1>1, <1>2, <1>3, <1>4, <1>5 DEF WiringInv

\* A rollout that shows up in a status only wakes controllers.
LEMMA RolloutStep ==
    ASSUME WiringInv, NEW y \in Objects, RolloutSeen(y) \/ UNCHANGED vars
    PROVE  WiringInv'
<1>0. /\ UNCHANGED <<name, target, opts, requested, issued, kubeconfigs, bundles, mapping, compiled,
           deployed, compiledQ>>
      /\ sourceQ \subseteq sourceQ'
  BY DEF RolloutSeen, vars, written
<1>1. Static' /\ Shape' /\ WorkspaceBundle'
  BY <1>0, NamesUnchanged DEF WiringInv, Static, Shape, WorkspaceBundle
<1>2. SourceDone'
  <2> SUFFICES ASSUME NEW x \in Objects, x \notin sourceQ'
               PROVE  Requested(x)' /\ Written(x)' /\ Published(x)'
    BY DEF SourceDone
  <2>1. Requested(x) /\ Written(x) /\ Published(x)
    BY <1>0 DEF WiringInv, SourceDone
  <2> QED
    BY <1>0, <2>1, SpecsUnchanged, SourceKept DEF Written, ClientCAExists
<1>3. CompiledDone'
  BY <1>0, <1>1, CompiledKept DEF WiringInv, written
<1> QED
  BY <1>1, <1>2, <1>3 DEF WiringInv

\* A published spec is one.
LEMMA SpecNotNone ==
    ASSUME NEW x \in Objects
    PROVE  CompiledSpec(x) # None
<1>1. Inputs(x) # {}
  BY DEF Objects, Inputs, CompiledRootShard, CompiledShard, CompiledFrontProxy, CompiledVirtualWorkspace,
     CompiledCacheServer
<1>2. DOMAIN CompiledSpec(x) = Inputs(x)
  BY DEF CompiledSpec
<1>3. DOMAIN None = {}
  BY DEF None
<1> QED
  BY <1>1, <1>2, <1>3

\* The Pods whose Certificates a pass creates, all of them if it does not fail.
LEMMA HoldersAre ==
    ASSUME NEW x \in Objects
    PROVE  /\ Holders(x) \subseteq PodsOf(x)
           /\ ~Fails(x) => Holders(x) = PodsOf(x)
  BY ObjectPods DEF Holders, Fails, Objects

\* A pass of a source controller keeps its own promises and wakes everybody who reads what it changed.
LEMMA SourceStep ==
    ASSUME WiringInv, NEW y \in Objects, SourcePass(y)
    PROVE  WiringInv'
<1>0. UNCHANGED <<name, target, opts, issued, mapping, deployed>>
  BY DEF SourcePass
<1>a. /\ kubeconfigs' = KubeconfigSecrets(y) @@ kubeconfigs
      /\ bundles' = WritableBundles(y) @@ bundles
      /\ requested' = [h \in Pods |-> IF h \in Holders(y) THEN DNSNames(h) ELSE requested[h]]
      /\ compiled' = IF Publishes(y) THEN [compiled EXCEPT ![y] = CompiledSpec(y)] ELSE compiled
      /\ sourceQ' = IF Fails(y) THEN sourceQ ELSE sourceQ \ {y}
      /\ compiledQ' = compiledQ
            \cup SecretWakes(compiled', Changed(kubeconfigs, kubeconfigs') \cup Changed(bundles, bundles'))
            \cup {x \in Objects : compiled'[x] # compiled[x]}
  BY DEF SourcePass
<1>b. /\ DOMAIN kubeconfigs' = DOMAIN KubeconfigSecrets(y) \cup DOMAIN kubeconfigs
      /\ DOMAIN bundles' = DOMAIN WritableBundles(y) \cup DOMAIN bundles
  BY <1>a, OverDomain
<1>c. ProperNames(name) /\ DOMAIN compiled = Objects
  BY DEF WiringInv, Static, Shape
<1>1. Static'
  BY <1>0 DEF WiringInv, Static
<1>2. Shape'
  <2>1. DOMAIN kubeconfigs' \subseteq KubeconfigNames
    BY <1>b, KubeconfigsNamed DEF WiringInv, Shape
  <2>2. DOMAIN bundles' \subseteq BundleNames
    BY <1>b, Writable, BundleValues DEF WiringInv, Shape
  <2>3. DOMAIN issued' = Pods /\ DOMAIN compiled' = Objects
    BY <1>0, <1>a DEF WiringInv, Shape
  <2> QED
    BY <1>0, <2>1, <2>2, <2>3, NamesUnchanged DEF Shape
<1>3. SourceDone'
  <2> SUFFICES ASSUME NEW x \in Objects, x \notin sourceQ'
               PROVE  Requested(x)' /\ Written(x)' /\ Published(x)'
    BY DEF SourceDone
  <2>0. /\ \A h \in PodsOf(x) : DNSNames(h)' = DNSNames(h)
        /\ KubeconfigSecrets(x)' = KubeconfigSecrets(x) /\ CompiledSpec(x)' = CompiledSpec(x)
        /\ Bundles(x)' = Bundles(x)
    BY <1>0, SpecsUnchanged
  <2>1. CASE x # y
    <3>1. Requested(x) /\ Written(x) /\ Published(x)
      BY <1>a, <2>1 DEF WiringInv, SourceDone
    <3>2. \A h \in PodsOf(x) : requested'[h] = requested[h]
      BY <1>a, <2>1, HoldersAre DEF PodsOf
    <3>3. Agrees(KubeconfigSecrets(x), kubeconfigs')
      BY <1>a, <1>c, <2>1, <3>1, KubeconfigsApart, AgreesOver DEF Written
    <3>4. x \in Informed => Agrees(Bundles(x), bundles')
      <4>1. DOMAIN Bundles(x) \cap DOMAIN WritableBundles(y) = {}
        BY <1>c, <2>1, BundlesApart, Writable
      <4> QED
        BY <1>a, <3>1, <4>1, AgreesOver DEF Written
    <3>5. compiled'[x] = compiled[x]
      BY <1>a, <1>c, <2>1
    <3> QED
      BY <1>0, <2>0, <3>1, <3>2, <3>3, <3>4, <3>5, SourceKept DEF ClientCAExists
  <2>2. CASE x = y
    <3>1. ~Fails(x)
      BY <1>a, <2>2 DEF SourcePass
    <3>2. Holders(x) = PodsOf(x)
      BY <3>1, HoldersAre
    <3>3. Requested(x)'
      BY <1>a, <2>0, <2>2, <3>2 DEF Requested, PodsOf
    <3>4. Agrees(KubeconfigSecrets(x)', kubeconfigs')
      BY <1>a, <2>0, <2>2, AgreesOver
    <3>5. Agrees(Bundles(x)', bundles')
      <4>1. DOMAIN WritableBundles(x) = DOMAIN Bundles(x)
        BY <3>1 DEF Fails
      <4>2. Agrees(WritableBundles(x), bundles')
        BY <1>a, <2>2, AgreesOver
      <4> QED
        BY <2>0, <4>1, <4>2, Writable DEF Agrees
    <3>6. x \in {"root", "front"} => ClientCAExists'
      BY <1>0, <3>1 DEF Fails, ClientCAExists
    <3>7. Written(x)'
      BY <3>4, <3>5, <3>6 DEF Written, Agrees
    <3>8. Published(x)'
      <4>1. CASE Publishes(x)
        BY <1>0, <1>a, <1>c, <2>0, <2>2, <4>1, SpecNotNone DEF Published, Informed
      <4>2. CASE ~Publishes(x)
        <5>1. PICK h \in PodsOf(x) : issued[h] # DNSNames(h)
          BY <3>1, <3>2, <4>2 DEF Publishes
        <5> QED
          BY <1>0, <2>0, <5>1 DEF Published, PodsOf
      <4> QED
        BY <4>1, <4>2
    <3> QED
      BY <3>3, <3>7, <3>8
  <2> QED
    BY <2>1, <2>2
<1>4. CompiledDone'
  <2> SUFFICES ASSUME NEW x \in Objects, x \notin compiledQ', compiled'[x] # None
               PROVE  Rendered(x)' /\ Routed(x)'
    BY DEF CompiledDone
  <2> DEFINE C == Changed(kubeconfigs, kubeconfigs') \cup Changed(bundles, bundles')
  <2>1. compiled'[x] = compiled[x] /\ x \notin compiledQ /\ x \notin SecretWakes(compiled', C)
    BY <1>a
  <2>2. Rendered(x) /\ Routed(x)
    BY <2>1 DEF WiringInv, CompiledDone
  <2>3. \A pod \in PodsOf(x) : MountedSecrets(pod, compiled[x]) \cap C = {}
    <3> HIDE DEF C
    <3> QED
      BY <2>1 DEF SecretWakes
  <2>4. ASSUME NEW pod \in PodsOf(x), NEW s \in MountedSecrets(pod, compiled[x])
        PROVE  /\ s \in DOMAIN kubeconfigs' <=> s \in DOMAIN kubeconfigs
               /\ s \in DOMAIN kubeconfigs => kubeconfigs'[s] = kubeconfigs[s]
               /\ s \in DOMAIN bundles' <=> s \in DOMAIN bundles
               /\ s \in DOMAIN bundles => bundles'[s] = bundles[s]
    <3>1. s \notin Changed(kubeconfigs, kubeconfigs') /\ s \notin Changed(bundles, bundles')
      BY <2>3, <2>4
    <3> QED
      BY <1>b, <3>1 DEF Changed
  <2>5. ASSUME NEW pod \in PodsOf(x), NEW s \in MountedSecrets(pod, compiled[x]), s \in Secrets'
        PROVE  s \in Secrets
    BY <1>0, <1>1, <2>4, <2>5, SecretsMembers, SecretsMembersNext DEF WiringInv, Static
  <2>6. Rendered(x)'
    BY <1>0, <2>1, <2>2, <2>4, <2>5, RenderedKept
  <2>7. \A pod \in PodsOf(x) \cap Proxies :
          /\ DynamicKubeconfigName(pod) \in DOMAIN kubeconfigs'
          /\ kubeconfigs'[DynamicKubeconfigName(pod)] = kubeconfigs[DynamicKubeconfigName(pod)]
    <3>1. \A n \in DOMAIN kubeconfigs \ DOMAIN KubeconfigSecrets(y) : kubeconfigs'[n] = kubeconfigs[n]
      BY <1>a DEF @@
    <3> QED
      BY <1>b, <2>2, <3>1, DynamicApart DEF Routed
  <2>8. Routed(x)'
    BY <1>0, <2>1, <2>2, <2>7, RoutedKept
  <2> QED
    BY <2>6, <2>8
<1>5. WorkspaceBundle'
  <2>1. CASE y = "vw" /\ Publishes("vw")
    <3>1. compiled'["vw"] = CompiledSpec("vw")
      BY <1>a, <1>c, <2>1
    <3>2. DOMAIN CompiledSpec("vw") = {"vw", "root", target}
      BY DEF CompiledSpec, Inputs, CompiledVirtualWorkspace
    <3>3. CompiledSpec("vw").root = opts["root"] /\ CompiledSpec("vw").vw = opts["vw"]
      BY DEF CompiledSpec, Inputs, CompiledVirtualWorkspace
    <3>4. "clientBundle" \in opts["root"] \cup opts["vw"] =>
            GetMergedClientCAName(name["vw"]) \in DOMAIN bundles'
      BY <1>b, <2>1, BundleValues DEF Publishes, Fails
    <3> QED
      BY <1>0, <3>1, <3>2, <3>3, <3>4 DEF WorkspaceBundle
  <2>2. CASE ~(y = "vw" /\ Publishes("vw"))
    <3>1. compiled'["vw"] = compiled["vw"]
      BY <1>a, <1>c, <2>2
    <3> QED
      BY <1>0, <1>b, <3>1 DEF WiringInv, WorkspaceBundle
  <2> QED
    BY <2>1, <2>2
<1> QED
  BY <1>1, <1>2, <1>3, <1>4, <1>5 DEF WiringInv

\* So does cert-manager: what waited for a certificate is woken by it.
LEMMA IssueStep ==
    ASSUME WiringInv, NEW h \in Pods, Issue(h)
    PROVE  WiringInv'
<1>0. UNCHANGED <<name, target, opts, requested, kubeconfigs, bundles, mapping, compiled, deployed>>
  BY DEF Issue, written
<1>a. /\ issued' = [issued EXCEPT ![h] = requested[h]] /\ requested[h] # {}
      /\ sourceQ' = sourceQ \cup {ObjectOf(h)}
      /\ compiledQ' = compiledQ \cup SecretWakes(compiled, CertSecrets(h))
  BY DEF Issue, Outstanding
<1>b. /\ DOMAIN issued' = Pods /\ \A p \in Pods \ {h} : issued'[p] = issued[p]
      /\ \A p \in Pods : issued[p] # {} => issued'[p] # {}
  BY <1>a DEF WiringInv, Shape
<1>1. Static' /\ WorkspaceBundle'
  BY <1>0 DEF WiringInv, Static, WorkspaceBundle
<1>2. Shape'
  BY <1>0, <1>b, NamesUnchanged DEF WiringInv, Shape
<1>3. SourceDone'
  <2> SUFFICES ASSUME NEW x \in Objects, x \notin sourceQ'
               PROVE  Requested(x)' /\ Written(x)' /\ Published(x)'
    BY DEF SourceDone
  <2>1. Requested(x) /\ Written(x) /\ Published(x)
    BY <1>a DEF WiringInv, SourceDone
  <2>2. \A p \in PodsOf(x) : p \in Pods /\ p # h
    BY <1>a DEF PodsOf
  <2>3. ClientCAExists => ClientCAExists'
    BY <1>b DEF ClientCAExists, Pods, Objects
  <2> QED
    BY <1>0, <1>b, <2>1, <2>2, <2>3, SpecsUnchanged, SourceKept DEF Written
<1>4. CompiledDone'
  <2> SUFFICES ASSUME NEW x \in Objects, x \notin compiledQ', compiled[x] # None
               PROVE  Rendered(x)' /\ Routed(x)'
    BY <1>0 DEF CompiledDone
  <2>1. x \notin compiledQ /\ x \notin SecretWakes(compiled, CertSecrets(h))
    BY <1>a
  <2>2. Rendered(x) /\ Routed(x)
    BY <2>1 DEF WiringInv, CompiledDone
  <2>3. \A pod \in PodsOf(x) : MountedSecrets(pod, compiled[x]) \cap CertSecrets(h) = {}
    <3>1. CertSecrets(h) # {}
      BY ServerCertMounted
    <3> QED
      BY <2>1, <3>1 DEF SecretWakes
  <2>4. \A pod \in PodsOf(x) : pod \in Pods /\ pod # h
    BY <2>3, ServerCertMounted DEF PodsOf
  <2>5. ASSUME NEW pod \in PodsOf(x), NEW s \in MountedSecrets(pod, compiled[x]), s \in Secrets'
        PROVE  s \in Secrets
    <3>1. s \notin CertSecrets(h)
      BY <2>3, <2>5
    <3> QED
      BY <1>0, <1>1, <1>b, <2>5, <3>1, SecretsMembers, SecretsMembersNext DEF WiringInv, Static
  <2>6. Rendered(x)'
    BY <1>0, <1>b, <2>2, <2>4, <2>5, RenderedKept
  <2>7. Routed(x)'
    BY <1>0, <2>2, RoutedKept DEF Routed
  <2> QED
    BY <2>6, <2>7
<1> QED
  BY <1>1, <1>2, <1>3, <1>4 DEF WiringInv

\* A pass of a compiled controller renders all Pods of its object, or waits for a Secret.
LEMMA RenderStep ==
    ASSUME WiringInv, NEW y \in Objects, RenderPass(y)
    PROVE  WiringInv'
<1> DEFINE mine == PodsOf(y) \cap Proxies
           D == {DynamicKubeconfigName(pod) : pod \in mine}
<1>0. UNCHANGED <<name, target, opts, requested, issued, bundles, compiled, sourceQ>>
  BY DEF RenderPass
<1>a. /\ y \in compiledQ
      /\ mapping' = [pod \in Proxies |->
                        IF pod \in mine THEN defaultPathMappings(pod, compiled[y]) ELSE mapping[pod]]
      /\ kubeconfigs' = [n \in D |-> dynamicKubeconfig(compiled[y].root)] @@ kubeconfigs
      /\ deployed' = [pod \in Pods |->
                        IF pod \in PodsOf(y) /\ MountedSecrets(pod, compiled[y]) \subseteq
                          Secrets \cup DOMAIN kubeconfigs'
                        THEN Deployment(pod, compiled[y], kubeconfigs', bundles) ELSE deployed[pod]]
      /\ compiledQ' = compiledQ \ {y}
  BY DEF RenderPass
<1> HIDE DEF D
<1>b. /\ DOMAIN kubeconfigs' = D \cup DOMAIN kubeconfigs
      /\ \A n \in D : kubeconfigs'[n] = dynamicKubeconfig(compiled[y].root)
      /\ \A n \in DOMAIN kubeconfigs \ D : kubeconfigs'[n] = kubeconfigs[n]
  BY <1>a DEF @@
<1>c. ProperNames(name)
  BY DEF WiringInv, Static
<1>d. \A s : s \in Secrets' <=> s \in Secrets \/ s \in D
  BY <1>0, <1>b, SecretsMembers, SecretsMembersNext DEF WiringInv, Static
<1>1. Static' /\ WorkspaceBundle'
  BY <1>0 DEF WiringInv, Static, WorkspaceBundle
<1>2. Shape'
  <2>1. D \subseteq KubeconfigNames
    BY DEF D, KubeconfigNames
  <2> QED
    BY <1>0, <1>b, <2>1, NamesUnchanged DEF WiringInv, Shape
<1>3. SourceDone'
  <2> SUFFICES ASSUME NEW x \in Objects, x \notin sourceQ'
               PROVE  Requested(x)' /\ Written(x)' /\ Published(x)'
    BY DEF SourceDone
  <2>1. Requested(x) /\ Written(x) /\ Published(x)
    BY <1>0 DEF WiringInv, SourceDone
  <2>2. DOMAIN KubeconfigSecrets(x) \cap D = {}
    BY DynamicApart DEF D
  <2>3. Agrees(KubeconfigSecrets(x), kubeconfigs')
    BY <1>b, <2>1, <2>2 DEF Written, Agrees
  <2> QED
    BY <1>0, <2>1, <2>3, SpecsUnchanged, SourceKept DEF Written, ClientCAExists
<1>4. CompiledDone'
  <2> SUFFICES ASSUME NEW x \in Objects, x \notin compiledQ', compiled[x] # None
               PROVE  Rendered(x)' /\ Routed(x)'
    BY <1>0 DEF CompiledDone
  <2>1. CASE x = y
    <3>1. Rendered(x)'
      <4> SUFFICES ASSUME NEW pod \in PodsOf(x)
                   PROVE  \/ deployed'[pod] = Deployment(pod, compiled[x], kubeconfigs, bundles)'
                          \/ ~ (MountedSecrets(pod, compiled[x])' \subseteq Secrets')
        BY DEF Rendered, PodsOf
      <4>1. MountedSecrets(pod, compiled[x])' = MountedSecrets(pod, compiled[x])
        BY <1>0, MountsUnchanged
      <4>2. Deployment(pod, compiled[x], kubeconfigs, bundles)' =
              Deployment(pod, compiled[x], kubeconfigs', bundles)
        BY <1>0, <4>1 DEF Deployment, Only
      <4>3. pod \in Pods /\ PodsOf(x) = PodsOf(y)
        BY <2>1 DEF PodsOf
      <4>4. \A s : s \in Secrets' => s \in Secrets \cup DOMAIN kubeconfigs'
        BY <1>b, <1>d
      <4>5. \A s : s \in Secrets \cup DOMAIN kubeconfigs' => s \in Secrets'
        BY <1>b, <1>d, SecretsMembers
      <4> QED
        BY <1>a, <2>1, <4>1, <4>2, <4>3, <4>4, <4>5
    <3>2. Routed(x)'
      <4>1. \A pod \in PodsOf(x) \cap Proxies : DynamicKubeconfigName(pod) \in D
        BY <2>1 DEF D
      <4> QED
        BY <1>0, <1>a, <1>b, <2>1, <4>1, NamesUnchanged DEF Routed, PodsOf
    <3> QED
      BY <3>1, <3>2
  <2>2. CASE x # y
    <3>1. Rendered(x) /\ Routed(x)
      BY <1>a, <2>2 DEF WiringInv, CompiledDone
    <3>2. \A pod \in PodsOf(x) : pod \in Pods /\ pod \notin PodsOf(y)
      BY <2>2 DEF PodsOf
    <3>3. ASSUME NEW pod \in PodsOf(x), NEW s \in MountedSecrets(pod, compiled[x])
          PROVE  s \notin D
      BY <1>c, <3>2, DynamicMounted DEF D
    <3>4. Rendered(x)'
      BY <1>0, <1>a, <1>b, <1>d, <3>1, <3>2, <3>3, RenderedKept
    <3>5. \A pod \in PodsOf(x) \cap Proxies : DynamicKubeconfigName(pod) \notin D
      BY <1>c, <3>2, DynamicApart DEF D
    <3>6. Routed(x)'
      BY <1>0, <1>a, <1>b, <3>1, <3>2, <3>5, RoutedKept DEF Routed
    <3> QED
      BY <3>4, <3>6
  <2> QED
    BY <2>1, <2>2
<1> QED
  BY <1>1, <1>2, <1>3, <1>4 DEF WiringInv

-----------------------------------------------------------------------------
(* The initial situations.                                                  *)

\* The initial situations fulfil the promises.
LEMMA InitInv ==
    ASSUME NamesProper, IssuerGiven, Init
    PROVE  WiringInv
<1>0. PICK s \in Situations :
        /\ name = s.name /\ target = s.target /\ opts = s.opts
        /\ InPlace(Objects \ s.new) /\ sourceQ = s.new
  BY DEF Init
<1> DEFINE done == Objects \ s.new
           pods == {pod \in Pods : ObjectOf(pod) \in done}
           Dynamic == [n \in {DynamicKubeconfigName(pod) : pod \in Proxies} |-> dynamicKubeconfig(opts.root)]
           AllKubeconfigs ==
              KubeconfigSecrets("root") @@ KubeconfigSecrets("shard") @@ KubeconfigSecrets("cache") @@ Dynamic
           AllBundles == Bundles("root") @@ Bundles("shard") @@ Bundles("front") @@ Bundles("vw")
           KS == {DynamicKubeconfigName(pod) : pod \in pods \cap Proxies} \cup
                 UNION {DOMAIN KubeconfigSecrets(x) : x \in done}
           BS == UNION {DOMAIN Bundles(x) : x \in done}
<1>1. /\ requested = [h \in Pods |-> IF h \in pods THEN DNSNames(h) ELSE {}]
      /\ issued = requested
      /\ kubeconfigs = Only(AllKubeconfigs, KS)
      /\ bundles = Only(AllBundles, BS)
      /\ compiled = [x \in Objects |-> IF x \in done THEN CompiledSpec(x) ELSE None]
      /\ mapping = [pod \in Proxies |->
                      IF pod \in pods THEN defaultPathMappings(pod, compiled[ObjectOf(pod)]) ELSE None]
      /\ deployed = [pod \in Pods |->
                      IF pod \in pods THEN Deployment(pod, compiled[ObjectOf(pod)], kubeconfigs, bundles)
                      ELSE None]
  BY <1>0 DEF InPlace
<1>2. Static
  BY <1>0, SituationAssumption DEF Static, NamesProper, IssuerGiven
<1>3. ProperNames(name)
  BY <1>2 DEF Static
<1>4. /\ \A x \in Objects : Agrees(KubeconfigSecrets(x), AllKubeconfigs)
      /\ Agrees(Dynamic, AllKubeconfigs)
      /\ DOMAIN AllKubeconfigs \subseteq KubeconfigNames
  <2>1. \A x, y \in {"root", "shard", "cache"} :
          x # y => DOMAIN KubeconfigSecrets(x) \cap DOMAIN KubeconfigSecrets(y) = {}
    BY <1>3, KubeconfigsApart DEF Objects
  <2>2. \A x \in {"root", "shard", "cache"} : DOMAIN KubeconfigSecrets(x) \cap DOMAIN Dynamic = {}
    BY DynamicApart DEF Objects
  <2>3. DOMAIN Dynamic \subseteq KubeconfigNames
    BY DEF KubeconfigNames
  <2> HIDE DEF Dynamic
  <2>4. /\ Agrees(KubeconfigSecrets("root"), AllKubeconfigs) /\ Agrees(KubeconfigSecrets("shard"),
             AllKubeconfigs)
        /\ Agrees(KubeconfigSecrets("cache"), AllKubeconfigs) /\ Agrees(Dynamic, AllKubeconfigs)
        /\ DOMAIN AllKubeconfigs = DOMAIN KubeconfigSecrets("root") \cup DOMAIN KubeconfigSecrets("shard")
                                   \cup DOMAIN KubeconfigSecrets("cache") \cup DOMAIN Dynamic
    <3> DEFINE f == KubeconfigSecrets("root")
               g == KubeconfigSecrets("shard")
               h == KubeconfigSecrets("cache")
    <3>1. /\ DOMAIN f \cap DOMAIN g = {} /\ DOMAIN f \cap DOMAIN h = {} /\ DOMAIN f \cap DOMAIN Dynamic = {}
          /\ DOMAIN g \cap DOMAIN h = {} /\ DOMAIN g \cap DOMAIN Dynamic = {} /\
               DOMAIN h \cap DOMAIN Dynamic = {}
      BY <2>1, <2>2
    <3>2. AllKubeconfigs = f @@ g @@ h @@ Dynamic
      OBVIOUS
    <3> HIDE DEF f, g, h, AllKubeconfigs
    <3>3. /\ Agrees(f, AllKubeconfigs) /\ Agrees(g, AllKubeconfigs) /\ Agrees(h, AllKubeconfigs)
          /\ Agrees(Dynamic, AllKubeconfigs)
          /\ DOMAIN AllKubeconfigs = DOMAIN f \cup DOMAIN g \cup DOMAIN h \cup DOMAIN Dynamic
      BY <3>1, <3>2 DEF Agrees, @@
    <3> QED
      BY <3>3 DEF f, g, h
  <2>5. Agrees(KubeconfigSecrets("front"), AllKubeconfigs) /\ Agrees(KubeconfigSecrets("vw"), AllKubeconfigs)
    BY KubeconfigDomains DEF Agrees
  <2> HIDE DEF AllKubeconfigs
  <2>6. DOMAIN AllKubeconfigs \subseteq KubeconfigNames
    BY <2>3, <2>4, KubeconfigsNamed DEF Objects
  <2> QED
    BY <2>4, <2>5, <2>6 DEF Objects
<1>5. /\ \A x \in Objects : Agrees(Bundles(x), AllBundles)
      /\ DOMAIN AllBundles \subseteq BundleNames
  <2>1. \A x, y \in {"root", "shard", "front", "vw"} : x # y => DOMAIN Bundles(x) \cap DOMAIN Bundles(y) = {}
    BY <1>3, BundlesApart DEF Objects
  <2>2. /\ Agrees(Bundles("root"), AllBundles) /\ Agrees(Bundles("shard"), AllBundles)
        /\ Agrees(Bundles("front"), AllBundles) /\ Agrees(Bundles("vw"), AllBundles)
        /\ DOMAIN AllBundles = DOMAIN Bundles("root") \cup DOMAIN Bundles("shard") \cup DOMAIN Bundles("front")
                               \cup DOMAIN Bundles("vw")
    <3> DEFINE f == Bundles("root")
               g == Bundles("shard")
               h == Bundles("front")
               k == Bundles("vw")
    <3>1. /\ DOMAIN f \cap DOMAIN g = {} /\ DOMAIN f \cap DOMAIN h = {} /\ DOMAIN f \cap DOMAIN k = {}
          /\ DOMAIN g \cap DOMAIN h = {} /\ DOMAIN g \cap DOMAIN k = {} /\ DOMAIN h \cap DOMAIN k = {}
      BY <2>1
    <3>2. AllBundles = f @@ g @@ h @@ k
      OBVIOUS
    <3> HIDE DEF f, g, h, k, AllBundles
    <3>3. /\ Agrees(f, AllBundles) /\ Agrees(g, AllBundles) /\ Agrees(h, AllBundles) /\ Agrees(k, AllBundles)
          /\ DOMAIN AllBundles = DOMAIN f \cup DOMAIN g \cup DOMAIN h \cup DOMAIN k
      BY <3>1, <3>2 DEF Agrees, @@
    <3> QED
      BY <3>3 DEF f, g, h, k
  <2>3. Agrees(Bundles("cache"), AllBundles)
    BY DEF Agrees, Bundles
  <2> HIDE DEF AllBundles
  <2> QED
    BY <2>2, <2>3, BundleValues DEF Objects
<1>6. \A x \in done : x \in Objects /\ PodsOf(x) \subseteq pods
  BY DEF PodsOf
<1> HIDE DEF AllKubeconfigs, AllBundles, done, pods
<1>7. Shape
  BY <1>1, <1>4, <1>5 DEF Shape, Only
<1>8. \A x \in done : Agrees(KubeconfigSecrets(x), kubeconfigs) /\ Agrees(Bundles(x), bundles)
  <2>1. \A x \in done : DOMAIN KubeconfigSecrets(x) \subseteq KS /\ DOMAIN Bundles(x) \subseteq BS
    OBVIOUS
  <2> QED
    BY <1>1, <1>4, <1>5, <1>6, <2>1 DEF Agrees, Only
<1>9. ASSUME NEW x \in done
      PROVE  Requested(x) /\ Written(x) /\ Published(x)
  <2>1. Requested(x)
    BY <1>1, <1>6 DEF Requested, PodsOf
  <2>2. x \in {"root", "front"} => ClientCAExists
    <3>1. x \in {"root", "front"} => "root" \in done
      BY <1>0, SituationAssumption DEF done, Objects
    <3>2. "root" \in done => "root" \in pods
      BY DEF pods, Pods, Objects, ObjectOf
    <3>3. "root" \in pods => issued["root"] # {}
      BY <1>1, Addressed DEF Pods, Objects
    <3> QED
      BY <3>1, <3>2, <3>3 DEF ClientCAExists
  <2>3. Published(x)
    BY <1>1, <1>6, SpecNotNone DEF Published
  <2> QED
    BY <1>8, <2>1, <2>2, <2>3 DEF Written
<1>10. SourceDone
  BY <1>0, <1>9 DEF SourceDone, done
<1>11. ASSUME NEW x \in Objects, compiled[x] # None
       PROVE  Rendered(x) /\ Routed(x)
  <2>1. x \in done /\ compiled[x] = CompiledSpec(x)
    BY <1>1, <1>11
  <2>2. Rendered(x)
    BY <1>1, <1>6, <2>1 DEF Rendered, PodsOf
  <2>3. ASSUME NEW pod \in PodsOf(x) \cap Proxies
        PROVE  /\ mapping[pod] = defaultPathMappings(pod, compiled[x])
               /\ DynamicKubeconfigName(pod) \in DOMAIN kubeconfigs
               /\ kubeconfigs[DynamicKubeconfigName(pod)] = dynamicKubeconfig(compiled[x].root)
    <3>1. pod \in pods /\ ObjectOf(pod) = x /\ x \in {"root", "front"}
      BY <1>6, <2>1 DEF PodsOf, Proxies, ObjectOf
    <3>2. compiled[x].root = opts["root"]
      BY <2>1, <3>1 DEF CompiledSpec, Inputs, CompiledRootShard, CompiledFrontProxy
    <3>3. DynamicKubeconfigName(pod) \in DOMAIN Dynamic /\
            Dynamic[DynamicKubeconfigName(pod)] = dynamicKubeconfig(opts["root"])
      BY <2>3
    <3>4. DynamicKubeconfigName(pod) \in KS
      BY <3>1
    <3> HIDE DEF Dynamic, KS
    <3>5. /\ DynamicKubeconfigName(pod) \in DOMAIN kubeconfigs
          /\ kubeconfigs[DynamicKubeconfigName(pod)] = Dynamic[DynamicKubeconfigName(pod)]
      BY <1>1, <1>4, <3>3, <3>4 DEF Only, Agrees
    <3> QED
      BY <1>1, <3>1, <3>2, <3>3, <3>5
  <2> QED
    BY <2>2, <2>3 DEF Routed
<1>12. CompiledDone
  BY <1>11 DEF CompiledDone
<1>13. WorkspaceBundle
  <2> SUFFICES ASSUME compiled["vw"] # None
               PROVE  /\ DOMAIN compiled["vw"] = {"vw", "root", target}
                      /\ "clientBundle" \in compiled["vw"].root \cup compiled["vw"].vw =>
                          GetMergedClientCAName(name["vw"]) \in DOMAIN bundles
    BY DEF WorkspaceBundle
  <2>1. "vw" \in done /\ compiled["vw"] = CompiledSpec("vw")
    BY <1>1 DEF Objects
  <2>2. DOMAIN CompiledSpec("vw") = {"vw", "root", target}
    BY DEF CompiledSpec, Inputs, CompiledVirtualWorkspace
  <2>3. CompiledSpec("vw").root = opts["root"] /\ CompiledSpec("vw").vw = opts["vw"]
    BY DEF CompiledSpec, Inputs, CompiledVirtualWorkspace
  <2> QED
    BY <1>8, <2>1, <2>2, <2>3, BundleValues DEF Agrees
<1> QED
  BY <1>2, <1>7, <1>10, <1>12, <1>13 DEF WiringInv

\* The controllers keep their promises about the objects they are done with, after any number of
\* edits, for any names that do not collide and any options (Reconcile of all source and compiled
\* controllers and their SetupWithManager).
THEOREM Wired ==
    ASSUME NamesProper, IssuerGiven
    PROVE  Spec => []WiringInv
<1>1. Init => WiringInv
  BY InitInv
<1>2. WiringInv /\ [Next]_vars => WiringInv'
  <2> SUFFICES ASSUME WiringInv, [Next]_vars
               PROVE  WiringInv'
    OBVIOUS
  <2>1. CASE UNCHANGED vars
    <3>1. "root" \in Objects
      BY DEF Objects
    <3> QED
      BY <2>1, <3>1, RolloutStep
  <2>2. CASE \E x \in Objects : \E o \in Editable[x] : Edit(x, o)
    BY <2>2, EditStep
  <2>3. CASE \E x \in Objects : SourcePass(x)
    BY <2>3, SourceStep
  <2>4. CASE \E x \in Objects : RenderPass(x)
    BY <2>4, RenderStep
  <2>5. CASE \E x \in Objects : RolloutSeen(x)
    BY <2>5, RolloutStep
  <2>6. CASE \E h \in Pods : Issue(h)
    BY <2>6, IssueStep
  <2> QED
    BY <2>1, <2>2, <2>3, <2>4, <2>5, <2>6 DEF Next, Work
<1> QED
  BY <1>1, <1>2, PTL DEF Spec

-----------------------------------------------------------------------------
(* At rest.                                                                 *)

\* The certificates that Pods mount are among those that exist.
LEMMA HasCertificate ==
    /\ \A pod \in {"root", "shard"} :
         \A c \in {"server", "service-account", "client", "logical-cluster-admin",
           "external-logical-cluster-admin"} :
            CertName(pod, c) \in CertSecrets(pod)
    /\ CertName("shard", "mounts-proxy") \in CertSecrets("shard")
    /\ \A pod \in Proxies : \A c \in {"server", "kubeconfig", "requestheader"} :
         CertName(pod, c) \in CertSecrets(pod)
    /\ \A pod \in {"vw", "cache"} : \A c \in {"server", "client"} : CertName(pod, c) \in CertSecrets(pod)
<1>1. \A pod, c, i, n : Issued(c, i, n) \in Certificates(pod) => CertName(pod, c) \in CertSecrets(pod)
  <2>1. \A c, i, n : Issued(c, i, n).cert = c
    BY DEF Issued
  <2> QED
    BY <2>1 DEF CertSecrets
<1>2. \A pod \in {"root", "shard"} :
        \A c \in {"server", "service-account", "client", "logical-cluster-admin",
          "external-logical-cluster-admin"} :
            \E i, n : Issued(c, i, n) \in Certificates(pod)
  BY DEF Certificates, RootShardServerCertificates, RootShardServiceAccountCertificate,
       RootShardAdminCertificates,
     RootShardClientCertificate, ShardServerCertificate, ShardServiceAccountCertificate, ShardClientCertificate,
     ShardAdminCertificates, Signed, Proxies
<1>3. \E i, n : Issued("mounts-proxy", i, n) \in Certificates("shard")
  BY DEF Certificates, MountsProxyClientCertificate, Proxies
<1>4. \A pod \in Proxies : \A c \in {"server", "kubeconfig", "requestheader"} :
        \E i, n : Issued(c, i, n) \in Certificates(pod)
  BY DEF Certificates, ProxyServerCertificate, ProxyKubeconfigCertificate, ProxyRequestHeaderCertificate,
       Signed, Proxies
<1>5. \A pod \in {"vw", "cache"} : \A c \in {"server", "client"} : \E i, n :
        Issued(c, i, n) \in Certificates(pod)
  BY DEF Certificates, VirtualWorkspaceServerCertificate, VirtualWorkspaceClientCertificate, Signed, Proxies,
     CacheServerServerCertificate, CacheServerClientCertificate
<1> QED
  BY <1>1, <1>2, <1>3, <1>4, <1>5

\* cert-manager, not the user, has all CAs that the Pods mount.
LEMMA HasCA ==
    ASSUME "ownCA" \notin opts["root"]
    PROVE  /\ \A ca \in {"root", "server", "service-account", "client", "requestheader-client"} :
                 RootCAName(ca) \in CertSecrets("root")
           /\ CacheCAName \in CertSecrets("cache")
  BY DEF CertSecrets, CACertificates, RootCACertificate, CacheServerRootCACertificate

\* When nothing is left to do everything has been asked for, issued, published and looked at.
LEMMA RestFacts ==
    ASSUME WiringInv, AtRest
    PROVE  /\ \A h \in Pods : issued[h] = DNSNames(h) /\ issued[h] # {}
           /\ \A x \in Objects : Written(x) /\ Rendered(x) /\ Routed(x) /\ compiled[x] # None
           /\ \A x \in Informed : compiled[x] = CompiledSpec(x)
<1>1. \A x \in Objects : Requested(x) /\ Written(x) /\ Published(x)
  BY DEF WiringInv, SourceDone, AtRest
<1>2. ClientCAExists
  BY <1>1 DEF Written, Objects
<1>3. \A h \in Pods : issued[h] = DNSNames(h) /\ issued[h] # {}
  <2> TAKE h \in Pods
  <2>1. requested[h] = DNSNames(h)
    BY <1>1, ObjectPods DEF Requested
  <2>2. ~Outstanding(h)
    BY DEF AtRest
  <2> QED
    BY <1>2, <2>1, <2>2, Addressed DEF Outstanding
<1>4. \A x \in Objects : \A h \in PodsOf(x) : issued[h] = DNSNames(h)
  BY <1>3, ObjectPods
<1>5. \A x \in Informed : x \in Objects /\ compiled[x] = CompiledSpec(x)
  BY <1>1, <1>4 DEF Published, Informed
<1>6. \A x \in Objects : compiled[x] # None
  BY <1>1, <1>4, <1>5, SpecNotNone DEF Published
<1>7. \A x \in Objects : Rendered(x) /\ Routed(x)
  BY <1>6 DEF WiringInv, CompiledDone, AtRest
<1> QED
  BY <1>1, <1>3, <1>5, <1>6, <1>7

\* The parts of a Compiled object are the specs that it was made of.
LEMMA SpecOf ==
    /\ CompiledSpec("root")["root"] = opts["root"]
    /\ \A y \in {"shard", "root"} : CompiledSpec("shard")[y] = opts[y]
    /\ \A y \in {"front", "root"} : CompiledSpec("front")[y] = opts[y]
    /\ \A y \in {"vw", "root", target} : CompiledSpec("vw")[y] = opts[y]
    /\ CompiledSpec("cache")["cache"] = opts["cache"]
  BY DEF CompiledSpec, Inputs, CompiledRootShard, CompiledShard, CompiledFrontProxy, CompiledVirtualWorkspace,
     CompiledCacheServer

\* At rest, the logical cluster admin's Secrets exist.
LEMMA AdminMounted ==
    ASSUME WiringInv, AtRest, NEW m \in AdminMounts
    PROVE  m.secret \in Secrets
<1>1. CertName("vw", "client") \in Secrets
  BY RestFacts, SecretsMembers, HasCertificate DEF Pods, Objects
<1>2. GetShardKubeconfigSecret(name[target], "logical-cluster-admin") \in Secrets
  BY RestFacts, SecretsMembers, KubeconfigDomains DEF Written, Agrees, WiringInv, Static, Objects
<1> QED
  BY <1>1, <1>2 DEF AdminMounts, kubeconfigSecret, SecretMount

\* At rest, every Secret that a Pod mounts exists.
LEMMA AllMounted ==
    ASSUME WiringInv, AtRest, NEW pod \in Pods
    PROVE  MountedSecrets(pod, compiled[ObjectOf(pod)]) \subseteq Secrets
<1> DEFINE in == compiled[ObjectOf(pod)]
<1>0. \A m \in AdminVolumes(pod) : m.secret \in Secrets
  BY AdminMounted DEF AdminVolumes
<1> SUFFICES ASSUME NEW c, NEW m \in Mounts(pod, c, in)
             PROVE  m.secret \in Secrets
  BY <1>0, VolumesOf
<1>1. \A q \in Pods : CertSecrets(q) \subseteq Secrets
  BY RestFacts, SecretsMembers
<1>2. /\ \A x \in Objects : DOMAIN KubeconfigSecrets(x) \subseteq Secrets
      /\ \A x \in Informed : DOMAIN Bundles(x) \subseteq Secrets
  BY RestFacts, SecretsMembers DEF Written, Agrees, Informed
<1>3. \A x \in Objects : \A f \in Files \cup {"kubeconfig", "initKubeconfig"} : UserSecret(x, f) \in Secrets
  <2>1. {"kubeconfig", "initKubeconfig"} \subseteq UNION {Options[y] : y \in Objects}
    BY DEF Options, VirtualWorkspaceOptions, Objects
  <2>2. \A x \in Objects : \A f \in Files \cup {"kubeconfig", "initKubeconfig"} :
          UserSecret(x, f) \in UserSecrets
    BY <2>1 DEF UserSecrets
  <2> QED
    BY <2>2, SecretsMembers
<1>4. \A p \in Proxies : DynamicKubeconfigName(p) \in Secrets
  BY RestFacts, ObjectPods, SecretsMembers DEF Routed, Proxies, Pods, Objects
<1>5. /\ \A ca \in {"root", "server", "service-account", "client", "requestheader-client"} :
           RootCAName(ca) \in Secrets
      /\ CacheCAName \in Secrets
  BY <1>1, HasCA DEF WiringInv, Static, Pods, Objects
<1>6. /\ \A q \in {"root", "shard"} :
           \A k \in {"server", "service-account", "client", "logical-cluster-admin",
             "external-logical-cluster-admin"} :
              CertName(q, k) \in Secrets
      /\ CertName("shard", "mounts-proxy") \in Secrets
      /\ \A q \in Proxies : \A k \in {"server", "kubeconfig", "requestheader"} : CertName(q, k) \in Secrets
      /\ \A q \in {"vw", "cache"} : \A k \in {"server", "client"} : CertName(q, k) \in Secrets
  BY <1>1, HasCertificate DEF Pods, Objects, Proxies
<1>7. /\ \A x \in {"root", "shard"} : \A k \in {"logical-cluster-admin", "external-logical-cluster-admin"} :
            GetShardKubeconfigSecret(name[x], k) \in Secrets
      /\ GetShardKubeconfigSecret(name["shard"], "client") \in Secrets
      /\ GetCacheServerKubeconfigName(name["cache"]) \in Secrets
  BY <1>2, KubeconfigDomains DEF Objects
<1> USE DEF SecretMount
<1>8. \A cas \in SUBSET {"root", "server", "service-account", "client", "requestheader-client"} :
        IsCAMount(cas, m) => m.secret \in Secrets
  BY <1>5 DEF IsCAMount
<1>9. \A x \in Objects : IsUserMount(x, m) => m.secret \in Secrets
  BY <1>3 DEF IsUserMount
<1>10. \A o : IsServiceAccountMount(o, m) => m.secret \in Secrets
  BY <1>6 DEF IsServiceAccountMount
<1>11. m \in CacheMounts => m.secret \in Secrets
  BY <1>5, <1>6, <1>7 DEF CacheMounts
<1>12. ASSUME NEW x \in {"root", "shard"}, pod = x, IsServerMount(x, in, m)
       PROVE  m.secret \in Secrets
  <2>1. x \in Informed /\ in = CompiledSpec(x) /\ x \in Objects
    BY <1>12, RestFacts DEF Informed, Objects, ObjectOf
  <2>2. in["root"] = opts["root"] /\ in[x] = opts[x]
    BY <2>1, SpecOf
  <2>3. m = ClientCAMount(x, "clientBundle" \in in["root"] \cup in[x]) => m.secret \in Secrets
    BY <1>2, <1>5, <2>1, <2>2, BundleValues DEF ClientCAMount
  <2>4. "caBundle" \in in[x] => MergedCABundleName(name[x]) \in Secrets
    BY <1>2, <2>1, <2>2, BundleValues
  <2>5. IsCertMount(x, {"server", "service-account", "client", "logical-cluster-admin",
                       "external-logical-cluster-admin"}, m) => m.secret \in Secrets
    BY <1>6 DEF IsCertMount
  <2>6. IsKubeconfigMount(x, {"logical-cluster-admin", "external-logical-cluster-admin"}, m) =>
          m.secret \in Secrets
    BY <1>7 DEF IsKubeconfigMount
  <2> HIDE DEF in
  <2> QED
    BY <1>8, <1>9, <1>10, <1>11, <1>12, <2>1, <2>3, <2>4, <2>5, <2>6 DEF IsServerMount
<1>13. CASE pod = "root"
  BY <1>12, <1>13, MountsAre
<1>14. CASE pod = "shard"
  <2>1. IsShardMount(in, m)
    BY <1>14, MountsAre
  <2>2. IsKubeconfigMount("shard", {"client"}, m) => m.secret \in Secrets
    BY <1>7 DEF IsKubeconfigMount
  <2>3. IsCertMount("shard", {"mounts-proxy"}, m) => m.secret \in Secrets
    BY <1>6 DEF IsCertMount
  <2> QED
    BY <1>12, <1>14, <2>1, <2>2, <2>3 DEF IsShardMount
<1>15. CASE pod \in Proxies
  <2>1. IsProxyMount(pod, in, m)
    BY <1>15, MountsAre
  <2>2. /\ ObjectOf(pod) \in Informed /\ in = CompiledSpec(ObjectOf(pod))
    BY <1>15, RestFacts DEF Informed, Objects, ObjectOf, Proxies
  <2>3. in[ObjectOf(pod)] = opts[ObjectOf(pod)]
    BY <1>15, <2>2, SpecOf DEF ObjectOf, Proxies
  <2>4. /\ clientCABundleSecretName(pod) \in Secrets
        /\ "caBundle" \in in[ObjectOf(pod)] => backendCABundleSecretName(pod) \in Secrets
    BY <1>2, <1>15, <2>2, <2>3, BundleValues
  <2>5. pod = "front" /\ IsUserMount("front", m) => m.secret \in Secrets
    BY <1>9 DEF Objects
  <2> HIDE DEF in
  <2> QED
    BY <1>4, <1>5, <1>6, <1>8, <1>10, <1>15, <2>1, <2>4, <2>5 DEF IsProxyMount
<1>16. CASE pod = "vw"
  <2>1. IsWorkspaceMount(c, in, m)
    BY <1>16, MountsAre
  <2>2. in = compiled["vw"] /\ compiled["vw"] # None
    BY <1>16, RestFacts DEF ObjectOf, Objects
  <2>3. m = ClientCAMount("vw", "clientBundle" \in in["root"] \cup in["vw"]) => m.secret \in Secrets
    BY <1>5, <2>2, SecretsMembers DEF WiringInv, WorkspaceBundle, ClientCAMount
  <2>4. m = OwnKubeconfigMount(c) => m.secret \in Secrets
    BY <1>3 DEF OwnKubeconfigMount, KubeconfigOption, Objects
  <2>5. m \in AdminMounts => m.secret \in Secrets
    BY AdminMounted
  <2>6. IsCertMount("vw", {"server"}, m) => m.secret \in Secrets
    BY <1>6 DEF IsCertMount
  <2> HIDE DEF in
  <2> QED
    BY <1>8, <1>11, <2>1, <2>3, <2>4, <2>5, <2>6 DEF IsWorkspaceMount
<1>17. CASE pod = "cache"
  BY <1>3, <1>5, <1>6, <1>17, MountsAre DEF IsCacheServerMount, Files, Objects
<1> QED
  BY <1>13, <1>14, <1>15, <1>16, <1>17 DEF Pods, Objects, Proxies

\* At rest, every Deployment is what its Compiled object and the present contents of its Secrets ask for.
LEMMA AllDeployed ==
    ASSUME WiringInv, AtRest, NEW pod \in Pods
    PROVE  deployed[pod] = Deployment(pod, compiled[ObjectOf(pod)], kubeconfigs, bundles)
  BY RestFacts, AllMounted, ObjectPods DEF Rendered

\* When nothing is left to do, every Compiled object and every Deployment of a controller that
\* watches what it reads is current: no event was missed, in whatever order edits, passes,
\* certificates and rollouts happened.
THEOREM EverythingCurrent ==
    ASSUME NamesProper, IssuerGiven
    PROVE  Spec => []Current
<1>1. WiringInv => Current
  BY AllDeployed, RestFacts DEF Current
<1> QED
  BY <1>1, Wired, PTL

-----------------------------------------------------------------------------
(* Client CAs.                                                              *)

\* A CA's Secret is no merged bundle.
LEMMA CAsNotMerged ==
    ASSUME NEW ca
    PROVE  RootCAName(ca) \notin BundleNames /\ CacheCAName \notin BundleNames
  BY DEF RootCAName, CacheCAName, GetRootShardCAName, GetCacheServerCAName, BundleNames, GetMergedClientCAName,
     MergedCABundleName, ProxyMergedClientCAName, ProxyMergedCABundleName

\* What is mounted where the client CA is expected is the client CA or the merged bundle.
LEMMA ClientCAAt ==
    ASSUME NEW CONSTANT in, NEW CONSTANT pod \in Pods \ {"cache"}, NEW CONSTANT m
    PROVE  LET path == IF pod \in Proxies THEN frontProxyPath("client-ca") ELSE getCAMountPath("client")
               own  == IF pod \in Proxies THEN SecretMount(clientCABundleSecretName(pod), path)
                       ELSE ClientCAMount(pod, "clientBundle" \in in["root"] \cup in[pod])
           IN m \in Mounts(pod, "main", in) /\ m.path = path <=> m = own
<1> DEFINE path == IF pod \in Proxies THEN frontProxyPath("client-ca") ELSE getCAMountPath("client")
           own  == IF pod \in Proxies THEN SecretMount(clientCABundleSecretName(pod), path)
                   ELSE ClientCAMount(pod, "clientBundle" \in in["root"] \cup in[pod])
<1>1. ASSUME m = own
      PROVE  m \in Mounts(pod, "main", in) /\ m.path = path
  <2>1. m.path = path
    BY <1>1 DEF SecretMount, ClientCAMount
  <2>2. CASE pod \in {"root", "shard"}
    <3>1. own \in ServerMounts(pod, in)
      BY <2>2 DEF ServerMounts, Proxies
    <3> QED
      BY <1>1, <2>1, <2>2, <3>1 DEF Mounts, ShardMounts, Proxies
  <2>3. CASE pod \in Proxies
    BY <1>1, <2>1, <2>3 DEF Mounts, ProxyMounts, Proxies
  <2>4. CASE pod = "vw"
    BY <1>1, <2>1, <2>4 DEF Mounts, VirtualWorkspaceMounts, Proxies
  <2> QED
    BY <2>2, <2>3, <2>4 DEF Pods, Objects, Proxies
<1>2. ASSUME m \in Mounts(pod, "main", in), m.path = path
      PROVE  m = own
  <2> USE DEF SecretMount
  <2>0. /\ path = IF pod \in Proxies THEN <<"kcp-front-proxy", "client-ca">>
                    ELSE <<"kcp", "tls", "ca", "client">>
        /\ m.path = path
    BY <1>2 DEF frontProxyPath, getCAMountPath
  <2>1. \A cas : IsCAMount(cas, m) => "client" \in cas
    BY <2>0 DEF IsCAMount, getCAMountPath
  <2>2. \A x, certs : ~IsCertMount(x, certs, m)
    BY <2>0 DEF IsCertMount, getCertificateMountPath
  <2>3. \A x, certs : ~IsKubeconfigMount(x, certs, m)
    BY <2>0 DEF IsKubeconfigMount, getKubeconfigMountPath
  <2>4. \A x : ~IsUserMount(x, m)
    BY <2>0 DEF IsUserMount, FilePath, Files
  <2>5. \A o : ~IsServiceAccountMount(o, m)
    BY <2>0 DEF IsServiceAccountMount, serviceAccountPath
  <2>6. m \notin CacheMounts
    BY <2>0 DEF CacheMounts, getCacheServerKubeconfigMountPath, getCacheServerCAMountPath,
       getCacheServerClientCertMountPath
  <2>7. m.path # getCAMountPath("ca-bundle")
    BY <2>0 DEF getCAMountPath
  <2> HIDE DEF path
  <2>8. ASSUME NEW x, IsServerMount(x, in, m)
        PROVE  m = ClientCAMount(x, "clientBundle" \in in["root"] \cup in[x])
    BY <2>1, <2>2, <2>3, <2>4, <2>5, <2>6, <2>7, <2>8 DEF IsServerMount
  <2>9. CASE pod \in {"root", "shard"}
    BY <1>2, <2>2, <2>3, <2>8, <2>9, MountsAre DEF IsShardMount, Proxies
  <2>10. CASE pod \in Proxies
    <3>1. IsProxyMount(pod, in, m)
      BY <1>2, <2>10, MountsAre
    <3>2. m.path # kubeconfigCAPath /\ \A d : m.path = frontProxyPath(d) => d = "client-ca"
      BY <2>0, <2>10 DEF frontProxyPath, kubeconfigCAPath
    <3>3. m = SecretMount(clientCABundleSecretName(pod), frontProxyPath("client-ca"))
      BY <2>1, <2>4, <2>5, <2>7, <3>1, <3>2 DEF IsProxyMount
    <3> QED
      BY <1>2, <2>10, <3>3
  <2>11. CASE pod = "vw"
    <3>1. IsWorkspaceMount("main", in, m)
      BY <1>2, <2>11, MountsAre
    <3>2. m # OwnKubeconfigMount("main") /\ m \notin AdminMounts
      BY <2>0, <2>11 DEF OwnKubeconfigMount, AdminMounts, getServerKubeconfigMountPath, getKubeconfigMountPath,
         getCertificateMountPath, Proxies
    <3> QED
      BY <2>1, <2>2, <2>6, <2>11, <3>1, <3>2 DEF IsWorkspaceMount, Proxies
  <2> QED
    BY <2>9, <2>10, <2>11 DEF Pods, Objects, Proxies
<1> QED
  BY <1>1, <1>2

\* The mounts of a container at a path.
MountsAt(pod, c, path) == {n \in PodMounts(pod, c) : n.path = path}

\* The CAs at a path where one Secret is mounted.
LEMMA OneMountAt ==
    ASSUME NEW pod, NEW c, NEW path, NEW own,
           MountsAt(pod, c, path) = {own}
    PROVE  MountedCAs(pod, c, path) =
             IF own.secret \in DOMAIN deployed[pod].bundles
               THEN deployed[pod].bundles[own.secret] ELSE {own.secret}
  BY DEF MountedCAs, MountsAt

\* At rest, a running Deployment has what the current Secrets hold.
LEMMA RestDeployment ==
    ASSUME WiringInv, AtRest, NEW pod \in Pods
    PROVE  /\ deployed[pod].in = compiled[ObjectOf(pod)] /\ deployed[pod].dns = DNSNames(pod)
           /\ \A s \in MountedSecrets(pod, compiled[ObjectOf(pod)]) :
                /\ s \in DOMAIN deployed[pod].bundles <=> s \in DOMAIN bundles
                /\ s \in DOMAIN bundles => deployed[pod].bundles[s] = bundles[s]
                /\ s \in DOMAIN deployed[pod].kubeconfigs <=> s \in DOMAIN kubeconfigs
                /\ s \in DOMAIN kubeconfigs => deployed[pod].kubeconfigs[s] = kubeconfigs[s]
<1>1. deployed[pod] = Deployment(pod, compiled[ObjectOf(pod)], kubeconfigs, bundles) /\
        issued[pod] = DNSNames(pod)
  BY AllDeployed, RestFacts
<1> QED
  BY <1>1 DEF Deployment, Only

\* The client CA file of a Pod at rest holds its merged bundle, or the client CA if there is none.
LEMMA TrustedClients ==
    ASSUME WiringInv, AtRest, NEW pod \in Pods \ {"cache"}, ObjectOf(pod) \in Informed
    PROVE  ClientCAs(pod) = MergedClientCAs(ObjectOf(pod))
<1> DEFINE x == ObjectOf(pod)
           in == compiled[x]
           path == IF pod \in Proxies THEN frontProxyPath("client-ca") ELSE getCAMountPath("client")
           own  == IF pod \in Proxies THEN SecretMount(clientCABundleSecretName(pod), path)
                   ELSE ClientCAMount(pod, "clientBundle" \in in["root"] \cup in[pod])
           merged == pod \in Proxies \/ "clientBundle" \in opts["root"] \cup opts[x]
<1>1. in = CompiledSpec(x) /\ x \in Objects /\ (pod \notin Proxies => x = pod)
  BY RestFacts DEF ObjectOf, Pods, Objects, Proxies
<1>2. deployed[pod].in = in
  BY RestDeployment
<1>3. \A m : m \in PodMounts(pod, "main") /\ m.path = path <=> m = own
  BY <1>2, ClientCAAt DEF PodMounts
<1>4. ClientCAs(pod) = MountedCAs(pod, "main", path)
  BY DEF ClientCAs, Pods, Objects, Proxies
<1>5. ClientCAs(pod) =
        IF own.secret \in DOMAIN deployed[pod].bundles THEN deployed[pod].bundles[own.secret] ELSE {own.secret}
  <2> HIDE DEF own, path
  <2>1. MountsAt(pod, "main", path) = {own}
    BY <1>3 DEF MountsAt
  <2> QED
    BY <1>4, <2>1, OneMountAt
<1>6. own.secret \in MountedSecrets(pod, in)
  <2>1. own \in Mounts(pod, "main", in)
    BY <1>2, <1>3 DEF PodMounts
  <2> HIDE DEF own, in
  <2> QED
    BY <2>1 DEF MountedSecrets, Volumes, Containers
<1>7. pod \notin Proxies => in["root"] = opts["root"] /\ in[pod] = opts[x]
  BY <1>1, SpecOf DEF Objects, ObjectOf, Pods, Proxies
<1>8. CASE merged
  <2>1. own.secret \in DOMAIN Bundles(x) /\ Bundles(x)[own.secret] = MergedClientCAs(x)
    <3>1. CASE pod \in Proxies
      BY <3>1, BundleValues DEF SecretMount
    <3>2. CASE pod \notin Proxies
      <4>1. own.secret = GetMergedClientCAName(name[x])
        BY <1>1, <1>7, <1>8, <3>2 DEF ClientCAMount, SecretMount
      <4>2. x \in {"root", "shard", "vw"}
        BY <1>1, <3>2 DEF Pods, Objects, Proxies
      <4> QED
        BY <1>8, <3>2, <4>1, <4>2, BundleValues
    <3> QED
      BY <3>1, <3>2
  <2>2. Agrees(Bundles(x), bundles)
    BY <1>1, RestFacts DEF Written
  <2>3. own.secret \in DOMAIN bundles /\ bundles[own.secret] = MergedClientCAs(x)
    BY <2>1, <2>2 DEF Agrees
  <2> HIDE DEF own, in, merged
  <2> QED
    BY <1>5, <1>6, <2>3, RestDeployment DEF in
<1>9. CASE ~merged
  <2>1. own.secret = RootCAName("client")
    BY <1>1, <1>7, <1>9 DEF ClientCAMount, SecretMount
  <2>2. own.secret \notin DOMAIN bundles
    BY <2>1, CAsNotMerged DEF WiringInv, Shape
  <2>3. MergedClientCAs(x) = {RootCAName("client")}
    BY <1>9 DEF MergedClientCAs
  <2> HIDE DEF own, in, merged
  <2> QED
    BY <1>5, <1>6, <2>1, <2>2, <2>3, RestDeployment DEF in
<1> QED
  BY <1>8, <1>9

\* When nothing is left to do, each Pod trusts exactly the documented client CAs (mergeSecrets in
\* resources/utils and the bundles of the controllers).
THEOREM ClientsTrusted ==
    ASSUME NamesProper, IssuerGiven
    PROVE  Spec => []ClientTrust
<1>1. WiringInv => ClientTrust
  BY TrustedClients DEF ClientTrust, MergedClientCAs, Running
<1> QED
  BY <1>1, Wired, PTL

-----------------------------------------------------------------------------
(* Counting.                                                                *)

\* Sets that a bijection relates have the same size.
LEMMA SameCount ==
    ASSUME NEW S, NEW T, IsFiniteSet(T), NEW f \in [S -> T],
           \A t \in T : \E s \in S : f[s] = t,
           \A a, b \in S : f[a] = f[b] => a = b
    PROVE  Cardinality(T) = Cardinality(S)
<1>1. f \in Injection(S, T) /\ f \in Surjection(S, T)
  BY DEF Injection, Surjection, IsInjective
<1> QED
  BY <1>1, FS_Injection

\* A function of a finite set has finitely many values.
LEMMA FiniteRange ==
    ASSUME NEW S, IsFiniteSet(S), NEW f
    PROVE  IsFiniteSet({f[s] : s \in S})
<1> DEFINE T == {f[s] : s \in S}
           g == [s \in S |-> f[s]]
<1>1. g \in Surjection(S, T)
  BY DEF Surjection
<1> QED
  BY <1>1, FS_Surjection

\* An enumerated set is finite.
LEMMA FiniteFive ==
    ASSUME NEW a, NEW b, NEW c, NEW d, NEW e
    PROVE  IsFiniteSet({a, b, c, d, e})
<1>1. IsFiniteSet({a}) /\ IsFiniteSet({b}) /\ IsFiniteSet({c}) /\ IsFiniteSet({d}) /\ IsFiniteSet({e})
  BY FS_Singleton
<1>2. IsFiniteSet({a} \cup {b})
  BY <1>1, FS_Union
<1>3. IsFiniteSet(({a} \cup {b}) \cup {c})
  BY <1>1, <1>2, FS_Union
<1>4. IsFiniteSet((({a} \cup {b}) \cup {c}) \cup {d})
  BY <1>1, <1>3, FS_Union
<1>5. IsFiniteSet(((({a} \cup {b}) \cup {c}) \cup {d}) \cup {e})
  BY <1>1, <1>4, FS_Union
<1>6. {a, b, c, d, e} = ((({a} \cup {b}) \cup {c}) \cup {d}) \cup {e}
  OBVIOUS
<1> QED
  BY <1>5, <1>6

\* The sets of kinds are finite.
LEMMA FiniteNames == IsFiniteSet(Objects) /\ IsFiniteSet(Pods) /\ IsFiniteSet(Certificate) /\ IsFiniteSet(CA)
<1>1. IsFiniteSet(Objects)
  BY FiniteFive DEF Objects
<1>2. IsFiniteSet(Pods)
  BY <1>1, FS_AddElement DEF Pods
<1>3. IsFiniteSet(Certificate)
  <2>1. /\ IsFiniteSet({"server", "client", "service-account", "virtual-workspaces", "requestheader"})
        /\ IsFiniteSet({"mounts-proxy", "kubeconfig", "logical-cluster-admin", "external-logical-cluster-admin",
                        "kcp-operator"})
    BY FiniteFive
  <2>2. Certificate = {"server", "client", "service-account", "virtual-workspaces", "requestheader"} \cup
                      {"mounts-proxy", "kubeconfig", "logical-cluster-admin", "external-logical-cluster-admin",
                       "kcp-operator"}
    BY DEF Certificate
  <2> QED
    BY <2>1, <2>2, FS_Union
<1>4. IsFiniteSet(CA)
  <2>1. IsFiniteSet({"root", "server", "service-account", "client", "requestheader-client"} \cup {"ca-bundle"})
    BY FiniteFive, FS_AddElement
  <2>2. CA = {"root", "server", "service-account", "client", "requestheader-client"} \cup {"ca-bundle"}
    BY DEF CA
  <2> QED
    BY <2>1, <2>2
<1> QED
  BY <1>1, <1>2, <1>3, <1>4

-----------------------------------------------------------------------------
(* Who writes a Secret.                                                     *)

\* The Secrets of certificates and CAs.
LEMMA CertSecretNames ==
    ASSUME NEW pod \in Pods, NEW n \in CertSecrets(pod)
    PROVE  \/ \E c \in Certificate : n = CertName(pod, c)
           \/ pod = "root" /\ \E ca \in CA : n = RootCAName(ca)
           \/ pod = "cache" /\ n = CacheCAName
<1>1. \A k \in Certificates(pod) : k.cert \in Certificate
  <2>1. \A c \in Certificate : \A i, n1 : Issued(c, i, n1).cert \in Certificate
    BY DEF Issued
  <2>2. \A c \in Certificate : \A ca : Signed(c, ca).cert \in Certificate
    BY <2>1 DEF Signed
  <2>3. CASE pod = "root"
    <3>1. \A k \in Certificates("root") : \E c \in Certificate : \E ca : k = Signed(c, ca)
      BY DEF Certificates, RootShardServerCertificates, RootShardServiceAccountCertificate,
         RootShardAdminCertificates, OperatorClientCertificate, RootShardClientCertificate, Certificate, Proxies
    <3> QED
      BY <2>2, <2>3, <3>1
  <2>4. CASE pod = "shard"
    <3>1. \A k \in Certificates("shard") : \E c \in Certificate :
            (\E ca : k = Signed(c, ca)) \/ (\E i, m : k = Issued(c, i, m))
      BY DEF Certificates, ShardServerCertificate, ShardVirtualWorkspacesCertificate,
         ShardServiceAccountCertificate, ShardClientCertificate, MountsProxyClientCertificate,
         ShardAdminCertificates, Certificate, Proxies
    <3> QED
      BY <2>1, <2>2, <2>4, <3>1
  <2>5. CASE pod \in Proxies
    BY <2>1, <2>2, <2>5 DEF Certificates, Proxies, ProxyServerCertificate, ProxyKubeconfigCertificate,
       ProxyRequestHeaderCertificate, Certificate
  <2>6. CASE pod = "vw"
    BY <2>2, <2>6 DEF Certificates, Proxies, VirtualWorkspaceServerCertificate,
         VirtualWorkspaceClientCertificate,
       Certificate
  <2>7. CASE pod = "cache"
    BY <2>1, <2>7 DEF Certificates, Proxies, CacheServerServerCertificate, CacheServerClientCertificate,
         Certificate
  <2> QED
    BY <2>3, <2>4, <2>5, <2>6, <2>7 DEF Pods, Objects, Proxies
<1>2. \A m \in {CertName(pod, c.cert) : c \in Certificates(pod)} : \E c \in Certificate : m = CertName(pod, c)
  BY <1>1
<1>3. \A m \in CACertificates \cup RootCACertificate : \E ca \in CA : m = RootCAName(ca)
  BY DEF CACertificates, RootCACertificate, CA
<1>4. \A m \in CacheServerRootCACertificate : m = CacheCAName
  BY DEF CacheServerRootCACertificate
<1> QED
  BY <1>2, <1>3, <1>4 DEF CertSecrets

\* The Secrets with bundles.
LEMMA BundleDomains ==
    /\ DOMAIN Bundles("root") \subseteq
         {GetMergedClientCAName(name["root"]), MergedCABundleName(name["root"]),
          ProxyMergedClientCAName(name["root"]), ProxyMergedCABundleName(name["root"])}
    /\ DOMAIN Bundles("shard") \subseteq {GetMergedClientCAName(name["shard"]), MergedCABundleName(name["shard"])}
    /\ DOMAIN Bundles("front") \subseteq {GetMergedClientCAName(name["front"]), MergedCABundleName(name["front"])}
    /\ DOMAIN Bundles("vw") \subseteq {GetMergedClientCAName(name["vw"])}
    /\ DOMAIN Bundles("cache") = {}
<1>1. DOMAIN MergedClientCABundle("vw") \subseteq {GetMergedClientCAName(name["vw"])}
  BY MergedDomains
<1>2. /\ DOMAIN RootShardBundles \subseteq {GetMergedClientCAName(name["root"]), MergedCABundleName(name["root"])}
      /\ DOMAIN ShardBundles \subseteq {GetMergedClientCAName(name["shard"]), MergedCABundleName(name["shard"])}
  BY ServerBundleValues DEF RootShardBundles, ShardBundles
<1>3. /\ DOMAIN ProxyBundles("proxy") \subseteq
           {ProxyMergedClientCAName(name["root"]), ProxyMergedCABundleName(name["root"])}
      /\ DOMAIN ProxyBundles("front") \subseteq
           {GetMergedClientCAName(name["front"]), MergedCABundleName(name["front"])}
  BY ProxyBundleDomains DEF clientCABundleSecretName, backendCABundleSecretName, Proxies
<1>4. DOMAIN Bundles("root") = DOMAIN RootShardBundles \cup DOMAIN ProxyBundles("proxy")
  BY OverDomain DEF Bundles
<1>5. /\ Bundles("shard") = ShardBundles /\ Bundles("front") = ProxyBundles("front")
      /\ Bundles("vw") = MergedClientCABundle("vw") /\ DOMAIN Bundles("cache") = {}
  BY DEF Bundles, VirtualWorkspaceBundle
<1> QED
  BY <1>1, <1>2, <1>3, <1>4, <1>5

\* The controllers write no other Secrets than SecretsOf has.
LEMMA WrittenNames ==
    ASSUME NEW x \in Objects
    PROVE  Writes(x) \subseteq SecretsOf(x, name)
<1> SUFFICES ASSUME NEW s \in Writes(x) PROVE s \in SecretsOf(x, name)
  OBVIOUS
<1>1. CASE s \in DOMAIN KubeconfigSecrets(x)
  BY <1>1, KubeconfigDomains DEF Objects, SecretsOf, Certificate, GetRootShardKubeconfigSecret,
     GetShardKubeconfigSecret
<1>2. CASE s \in DOMAIN Bundles(x)
  BY <1>2, BundleDomains DEF Objects, SecretsOf
<1>3. CASE s \in {DynamicKubeconfigName(pod) : pod \in PodsOf(x) \cap Proxies}
  BY <1>3 DEF PodsOf, Pods, Objects, ObjectOf, Proxies, DynamicKubeconfigName, SecretsOf
<1>4. ASSUME NEW pod \in PodsOf(x), s \in CertSecrets(pod)
      PROVE  s \in SecretsOf(x, name)
  <2>0. pod \in Pods /\ ObjectOf(pod) = x
    BY DEF PodsOf
  <2>1. CASE \E c \in Certificate : s = CertName(pod, c)
    BY <2>0, <2>1 DEF Pods, Objects, ObjectOf, CertName, SecretsOf
  <2>2. CASE pod = "root" /\ \E ca \in CA : s = RootCAName(ca)
    BY <2>0, <2>2 DEF ObjectOf, RootCAName, SecretsOf
  <2>3. CASE pod = "cache" /\ s = CacheCAName
    BY <2>0, <2>3 DEF ObjectOf, CacheCAName, SecretsOf
  <2> QED
    BY <1>4, <2>0, <2>1, <2>2, <2>3, CertSecretNames
<1> QED
  BY <1>1, <1>2, <1>3, <1>4 DEF Writes

\* A joined name consists of a prefix and of words that begin with one of the operator's.
Heads(p, j) ==
    /\ p \in Seq(STRING) /\ j \in Seq(STRING)
    /\ Len(p) < Len(j) /\ (\A i \in 1..Len(p) : j[i] = p[i]) /\ j[Len(p) + 1] \in Reserved

\* A sequence that is continued.
LEMMA Concat ==
    ASSUME NEW A \in Seq(STRING), NEW W \in Seq(STRING)
    PROVE  /\ A \o W \in Seq(STRING) /\ Len(A \o W) = Len(A) + Len(W)
           /\ \A i \in 1..Len(A) : (A \o W)[i] = A[i]
           /\ W # <<>> => Len(W) > 0 /\ (A \o W)[Len(A) + 1] = W[1]
  BY ConcatProperties

\* What comes after the first of the operator's words does not matter.
LEMMA HeadsConcat ==
    ASSUME NEW A \in Seq(STRING), NEW W \in Seq(STRING), W # <<>>, W[1] \in Reserved, NEW V \in Seq(STRING)
    PROVE  Heads(A, A \o W) /\ Heads(A, (A \o W) \o V)
<1>1. PICK B \in Seq(STRING) :
        B = A \o W /\ Len(B) = Len(A) + Len(W) /\ Len(W) > 0
        /\ (\A i \in 1..Len(A) : B[i] = A[i]) /\ B[Len(A) + 1] = W[1]
  BY Concat
<1>2. PICK C \in Seq(STRING) : C = B \o V /\ Len(C) = Len(B) + Len(V) /\ \A i \in 1..Len(B) : C[i] = B[i]
  BY Concat
<1>3. Len(A) \in Nat /\ Len(W) \in Nat /\ Len(V) \in Nat /\ Len(B) \in Nat
  OBVIOUS
<1>4. Heads(A, B)
  BY <1>1, <1>3 DEF Heads
<1>5. Heads(A, C)
  <2>1. Len(A) < Len(C) /\ \A i \in 1..(Len(A) + 1) : C[i] = B[i]
    BY <1>1, <1>2, <1>3
  <2>2. (\A i \in 1..Len(A) : i \in 1..(Len(A) + 1)) /\ Len(A) + 1 \in 1..(Len(A) + 1)
    BY <1>3
  <2>3. (\A i \in 1..Len(A) : C[i] = A[i]) /\ C[Len(A) + 1] = W[1]
    BY <1>1, <2>1, <2>2, Zenon
  <2> QED
    BY <2>1, <2>3 DEF Heads
<1> QED
  BY <1>1, <1>2, <1>4, <1>5

\* Joining puts the words of a suffix behind those of a name.
LEMMA JoinedHeads ==
    ASSUME NEW a \in Names, NEW w \in Suffixes
    PROVE  /\ Heads(Parts[a], Joined(<<a, w>>))
           /\ \A v \in Suffixes : Heads(Parts[a], Joined(<<a, w, v>>))
           /\ \A b \in Names : Heads(Parts[b] \o Parts[a], Joined(<<b, a, w>>))
<1>1. \A k \in Names \cup Suffixes : Parts[k] \in Seq(STRING)
  BY PartsAssumption
<1>2. Parts[w] # <<>> /\ Parts[w][1] \in Reserved
  BY PartsAssumption DEF Reserved
<1>3. Joined(<<a, w>>) = Parts[a] \o Parts[w]
  BY DEF Joined
<1>4. \A b \in Names : Parts[b] \o Parts[a] \in Seq(STRING)
  BY <1>1, ConcatProperties
<1>5. Heads(Parts[a], Joined(<<a, w>>))
  BY <1>1, <1>2, <1>3, HeadsConcat
<1>6. ASSUME NEW v \in Suffixes PROVE Heads(Parts[a], Joined(<<a, w, v>>))
  <2>1. Heads(Parts[a], (Parts[a] \o Parts[w]) \o Parts[v])
    BY <1>1, <1>2, HeadsConcat
  <2>2. Len(<<a, w, v>>) = 3 /\ <<a, w, v>>[1] = a /\ <<a, w, v>>[2] = w /\ <<a, w, v>>[3] = v
    OBVIOUS
  <2>3. Len(<<a, w, v>>) # 2
    BY <2>2
  <2>4. Joined(<<a, w, v>>) = (Parts[a] \o Parts[w]) \o Parts[v]
    BY <2>2, <2>3, Zenon DEF Joined
  <2> QED
    BY <2>1, <2>4, Zenon
<1>7. ASSUME NEW b \in Names PROVE Heads(Parts[b] \o Parts[a], Joined(<<b, a, w>>))
  <2>1. Heads(Parts[b] \o Parts[a], (Parts[b] \o Parts[a]) \o Parts[w])
    BY <1>1, <1>2, <1>4, HeadsConcat
  <2>2. Len(<<b, a, w>>) = 3 /\ <<b, a, w>>[1] = b /\ <<b, a, w>>[2] = a /\ <<b, a, w>>[3] = w
    OBVIOUS
  <2>3. Len(<<b, a, w>>) # 2
    BY <2>2
  <2>4. Joined(<<b, a, w>>) = (Parts[b] \o Parts[a]) \o Parts[w]
    BY <2>2, <2>3, Zenon DEF Joined
  <2> QED
    BY <2>1, <2>4, Zenon
<1> QED
  BY <1>5, <1>6, <1>7

\* What belongs to an object begins with one of its prefixes.
Own(x, n) == SecretsOf(x, n) \cup DeploymentsOf(x, n) \cup ServicesOf(x, n) \cup ConfigMapsOf(x, n)

LEMMA OwnHeads ==
    ASSUME NEW n \in [Objects -> Names], NEW x \in Objects, NEW s \in Own(x, n)
    PROVE  \E p \in Prefixes(x, n) : Heads(p, Joined(s))
<1>0. /\ n["root"] \in Names /\ n["shard"] \in Names /\ n["front"] \in Names /\ n["vw"] \in Names
      /\ n["cache"] \in Names
  BY DEF Objects
<1> DEFINE P == \/ \E w \in Suffixes : s = <<n[x], w>>
                \/ \E w, v \in Suffixes : s = <<n[x], w, v>>
                \/ x = "front" /\ \E w \in Suffixes : s = <<n["root"], n["front"], w>>
<1>1. ASSUME s \in SecretsOf(x, n) PROVE P
  <2> USE DEF GetRootShardCertificateName, GetRootShardCAName, GetRootShardKubeconfigSecret,
        GetMergedClientCAName, MergedCABundleName, GetRootShardProxyCertificateName,
        GetRootShardProxyDynamicKubeconfigName, ProxyMergedClientCAName, ProxyMergedCABundleName,
        GetShardCertificateName, GetShardKubeconfigSecret, GetFrontProxyCertificateName,
        GetFrontProxyDynamicKubeconfigName, GetVirtualWorkspaceCertificateName,
        GetCacheServerCertificateName, GetCacheServerClientCertificateName, GetCacheServerCAName,
        GetCacheServerKubeconfigName, Suffixes
  <2>1. CASE x = "root"
    BY <1>1, <2>1 DEF SecretsOf
  <2>2. CASE x = "shard"
    BY <1>1, <2>2 DEF SecretsOf
  <2>3. CASE x = "front"
    BY <1>1, <2>3 DEF SecretsOf
  <2>4. CASE x = "vw"
    BY <1>1, <2>4 DEF SecretsOf
  <2>5. CASE x = "cache"
    BY <1>1, <2>5 DEF SecretsOf
  <2> QED
    BY <2>1, <2>2, <2>3, <2>4, <2>5 DEF Objects
<1>2. ASSUME s \in DeploymentsOf(x, n) PROVE P
  BY <1>2 DEF DeploymentsOf, Objects, GetRootShardDeploymentName, GetRootShardProxyDeploymentName,
     GetShardDeploymentName, GetFrontProxyDeploymentName, GetVirtualWorkspaceDeploymentName,
     GetCacheServerDeploymentName, Suffixes
<1>3. ASSUME s \in ServicesOf(x, n) PROVE P
  BY <1>3 DEF ServicesOf, Objects, GetRootShardServiceName, GetRootShardProxyServiceName,
     GetShardServiceName, GetFrontProxyServiceName, GetVirtualWorkspaceServiceName,
     GetCacheServerServiceName, Suffixes
<1>4. ASSUME s \in ConfigMapsOf(x, n) PROVE P
  BY <1>4 DEF ConfigMapsOf, Objects, GetRootShardProxyConfigName, GetFrontProxyConfigName, Suffixes
<1>5. P
  BY <1>1, <1>2, <1>3, <1>4 DEF Own
<1> QED
  BY <1>0, <1>5, JoinedHeads DEF Prefixes

\* Two names that are joined to the same one continue each other, with a word of the operator.
LEMMA HeadsMeet ==
    ASSUME NEW j, NEW p, NEW q, Heads(p, j), Heads(q, j), Len(p) <= Len(q)
    PROVE  Continues(q, p) /\ ~(Len(p) < Len(q) /\ q[Len(p) + 1] \notin Reserved)
<1>1. Len(p) \in Nat /\ Len(q) \in Nat
  BY DEF Heads
<1>2. Continues(q, p)
  BY <1>1 DEF Heads, Continues
<1>3. Len(p) < Len(q) => q[Len(p) + 1] = j[Len(p) + 1]
  BY <1>1 DEF Heads
<1> QED
  BY <1>2, <1>3 DEF Heads

\* Under names that follow the rule nothing belongs to two objects.
LEMMA OwnApart ==
    ASSUME NEW n \in [Objects -> Names], ApartNames(n), NEW x \in Objects, NEW y \in Objects, x # y,
           NEW s \in Own(x, n), NEW t \in Own(y, n)
    PROVE  Joined(s) # Joined(t)
<1> SUFFICES ASSUME Joined(s) = Joined(t) PROVE FALSE
  OBVIOUS
<1>1. PICK p \in Prefixes(x, n) : Heads(p, Joined(s))
  BY OwnHeads
<1>2. PICK q \in Prefixes(y, n) : Heads(q, Joined(s))
  BY OwnHeads
<1>3. Len(p) \in Nat /\ Len(q) \in Nat
  BY <1>1, <1>2 DEF Heads
<1>4. CASE Len(p) <= Len(q)
  BY <1>1, <1>2, <1>4, HeadsMeet DEF ApartNames
<1>5. CASE Len(q) <= Len(p)
  BY <1>1, <1>2, <1>5, HeadsMeet DEF ApartNames
<1> QED
  BY <1>3, <1>4, <1>5

\* The rule is enough.
LEMMA RuleOfNames == NamesApart
<1> SUFFICES ASSUME NEW n \in [Objects -> Names]
             PROVE  /\ \A p, q \in Pods : LabelsOf(p, n) = LabelsOf(q, n) => p = q
                    /\ ApartNames(n) => \A x, y \in Objects : x # y =>
                         \A s \in Own(x, n), t \in Own(y, n) : Joined(s) # Joined(t)
  BY DEF NamesApart, Own
<1>1. \A p, q \in Pods : LabelsOf(p, n) = LabelsOf(q, n) => p = q
  <2>1. \A p \in Pods : LabelsOf(p, n).component =
          CASE p = "root" -> "rootshard" [] p = "proxy" -> "rootshard-proxy" [] p = "shard" -> "shard"
            [] p = "cache" -> "cache-server" [] p = "vw" -> "virtual-workspace" [] p = "front" -> "front-proxy"
    BY DEF LabelsOf, Pods, Objects, GetRootShardResourceLabels, GetRootShardProxyResourceLabels,
       GetShardResourceLabels, GetCacheServerResourceLabels, GetVirtualWorkspaceResourceLabels,
       GetFrontProxyResourceLabels, getResourceLabels
  <2> QED
    BY <2>1 DEF Pods, Objects
<1> QED
  BY <1>1, OwnApart

\* Objects whose names follow the rule of ApartNames have no Secret, Deployment, Service or ConfigMap
\* in common (internal/resources/resources.go), for names of any number of words, and whatever happens
\* no controller writes a Secret that is not among those considered.
THEOREM OneWriterEach == Spec => []OneWriter
<1>1. OneWriter
  BY RuleOfNames, WrittenNames DEF OneWriter
<1> QED
  BY <1>1, PTL

-----------------------------------------------------------------------------
(* Where the Secrets are mounted.                                           *)

\* The kinds of mounts that a RootShard and a Shard have.
IsShardFile(x, in, m) ==
    \/ IsCAMount({"root", "server", "service-account", "requestheader-client"}, m)
    \/ IsCertMount(x, Certificate, m)
    \/ IsKubeconfigMount(x, {"client", "logical-cluster-admin", "external-logical-cluster-admin"}, m)
    \/ m = ClientCAMount(x, "clientBundle" \in in["root"] \cup in[x])
    \/ m = SecretMount(MergedCABundleName(name[x]), getCAMountPath("ca-bundle"))
    \/ m \in CacheMounts
    \/ IsUserMount(x, m)
    \/ IsServiceAccountMount(in[x], m)

\* The files in the Pod of a RootShard or of a Shard.
LEMMA ShardFiles ==
    ASSUME NEW CONSTANT in, NEW CONSTANT m
    PROVE  /\ \A x : IsServerMount(x, in, m) => IsShardFile(x, in, m)
           /\ IsShardMount(in, m) => IsShardFile("shard", in, m)
  BY DEF IsServerMount, IsShardMount, IsShardFile, IsCertMount, IsKubeconfigMount, Certificate

\* Two mounts at one path are one.
Same(m, n) == m.path = n.path => m = n

\* The kinds are told apart by their paths.
PathKind(p) ==
    CASE Len(p) = 4 /\ p[1] = "kcp" -> IF p[3] = "ca" THEN "ca" ELSE "service-account"
      [] Len(p) = 3 /\ p[1] = "kcp" -> IF p[2] = "tls" /\ p[3] # "oidc" THEN "certificate" ELSE "file"
      [] Len(p) = 2 /\ p[1] = "kcp" -> "kubeconfig"
      [] Len(p) = 2 /\ p[1] = "etcd" -> "file"
      [] p[1] = "cache-server" -> "cache"
      [] p[1] = "kcp-front-proxy" -> "front-proxy"

\* The CAs and bundles in a shard's Pod.
IsCAFile(x, in, m) ==
    \/ IsCAMount({"root", "server", "service-account", "requestheader-client"}, m)
    \/ m = ClientCAMount(x, "clientBundle" \in in["root"] \cup in[x])
    \/ m = SecretMount(MergedCABundleName(name[x]), getCAMountPath("ca-bundle"))

\* CAs are mounted under /etc/kcp/tls/ca, at different places.
LEMMA CAFiles ==
    ASSUME NEW CONSTANT x, NEW CONSTANT in, NEW CONSTANT m, NEW CONSTANT n, IsCAFile(x, in, m),
           IsCAFile(x, in, n)
    PROVE  PathKind(m.path) = "ca" /\ Same(m, n)
<1>1. /\ m.path = <<"kcp", "tls", "ca", m.path[4]>>
      /\ n.path = <<"kcp", "tls", "ca", n.path[4]>>
  BY DEF IsCAFile, IsCAMount, ClientCAMount, SecretMount, getCAMountPath
<1>2. PathKind(m.path) = "ca"
  BY <1>1 DEF PathKind
<1>3. Same(m, n)
  BY DEF Same, IsCAFile, IsCAMount, ClientCAMount, SecretMount, getCAMountPath
<1> QED
  BY <1>2, <1>3

\* Certificates are mounted in a directory of their own, at different places.
LEMMA CertFiles ==
    ASSUME NEW CONSTANT x, NEW CONSTANT m, NEW CONSTANT n,
           IsCertMount(x, Certificate, m), IsCertMount(x, Certificate, n)
    PROVE  PathKind(m.path) = "certificate" /\ Same(m, n)
<1>1. PICK c \in Certificate : m = SecretMount(CertName(x, c), getCertificateMountPath(c))
  BY DEF IsCertMount
<1>2. PICK d \in Certificate : n = SecretMount(CertName(x, d), getCertificateMountPath(d))
  BY DEF IsCertMount
<1>3. PathKind(m.path) = "certificate"
  BY <1>1 DEF PathKind, SecretMount, getCertificateMountPath, Certificate
<1>4. Same(m, n)
  BY <1>1, <1>2 DEF Same, SecretMount, getCertificateMountPath
<1> QED
  BY <1>3, <1>4

\* So are kubeconfigs,
LEMMA KubeconfigFiles ==
    ASSUME NEW CONSTANT x, NEW CONSTANT m, NEW CONSTANT n,
           IsKubeconfigMount(x, {"client", "logical-cluster-admin", "external-logical-cluster-admin"}, m),
           IsKubeconfigMount(x, {"client", "logical-cluster-admin", "external-logical-cluster-admin"}, n)
    PROVE  PathKind(m.path) = "kubeconfig" /\ Same(m, n)
<1> DEFINE S == {"client", "logical-cluster-admin", "external-logical-cluster-admin"}
<1>1. PICK c \in S : m = SecretMount(GetShardKubeconfigSecret(name[x], c), getKubeconfigMountPath(c))
  BY DEF IsKubeconfigMount
<1>2. PICK d \in S : n = SecretMount(GetShardKubeconfigSecret(name[x], d), getKubeconfigMountPath(d))
  BY DEF IsKubeconfigMount
<1>3. m.path = getKubeconfigMountPath(c) /\ n.path = getKubeconfigMountPath(d)
  BY <1>1, <1>2 DEF SecretMount
<1>4. PathKind(m.path) = "kubeconfig"
  BY <1>3 DEF PathKind, getKubeconfigMountPath
<1>5. m.path = n.path => c = d
  BY <1>3 DEF getKubeconfigMountPath
<1> QED
  BY <1>1, <1>2, <1>4, <1>5 DEF Same

\* the files for the cache server,
LEMMA CacheFiles ==
    ASSUME NEW CONSTANT m, NEW CONSTANT n, m \in CacheMounts, n \in CacheMounts
    PROVE  PathKind(m.path) = "cache" /\ Same(m, n)
<1>1. m.path \in {<<"cache-server", "kubeconfig">>, <<"cache-server", "tls", "ca", "root">>,
                  <<"cache-server", "tls", "client-certificate">>}
  BY DEF CacheMounts, SecretMount, getCacheServerKubeconfigMountPath, getCacheServerCAMountPath,
     getCacheServerClientCertMountPath
<1>2. PathKind(m.path) = "cache"
  BY <1>1 DEF PathKind
<1>3. Same(m, n)
  BY DEF Same, CacheMounts, SecretMount, getCacheServerKubeconfigMountPath, getCacheServerCAMountPath,
     getCacheServerClientCertMountPath
<1> QED
  BY <1>2, <1>3

\* the files of users,
LEMMA UserFiles ==
    ASSUME NEW CONSTANT x, NEW CONSTANT m, NEW CONSTANT n, IsUserMount(x, m), IsUserMount(x, n)
    PROVE  PathKind(m.path) = "file" /\ Same(m, n)
<1>1. PICK f \in Files : m = SecretMount(UserSecret(x, f), FilePath(f))
  BY DEF IsUserMount
<1>2. PICK g \in Files : n = SecretMount(UserSecret(x, g), FilePath(g))
  BY DEF IsUserMount
<1>3. m.path = FilePath(f) /\ n.path = FilePath(g)
  BY <1>1, <1>2 DEF SecretMount
<1>4. PathKind(m.path) = "file"
  BY <1>3 DEF PathKind, FilePath, Files
<1>5. m.path = n.path => f = g
  BY <1>3 DEF FilePath, Files
<1> QED
  BY <1>1, <1>2, <1>4, <1>5 DEF Same

\* and service account keys, whose path contains the name of the shard: nobody else's unless a
\* shard is called "ca".
LEMMA ServiceAccountFiles ==
    ASSUME name["root"] # name["shard"],
           NEW CONSTANT o, NEW CONSTANT m, NEW CONSTANT n, IsServiceAccountMount(o, m),
             IsServiceAccountMount(o, n)
    PROVE  /\ "ca" \notin {name["root"], name["shard"]} => PathKind(m.path) = "service-account"
           /\ m.path[4] = "service-account" /\ Len(m.path) = 4 /\ m.path[1] = "kcp"
           /\ Same(m, n)
<1>1. PICK y \in {"root", "shard"} : m = SecretMount(CertName(y, "service-account"), serviceAccountPath(y))
  BY DEF IsServiceAccountMount
<1>2. PICK z \in {"root", "shard"} : n = SecretMount(CertName(z, "service-account"), serviceAccountPath(z))
  BY DEF IsServiceAccountMount
<1>3. m.path = serviceAccountPath(y) /\ n.path = serviceAccountPath(z)
  BY <1>1, <1>2 DEF SecretMount
<1>4. "ca" \notin {name["root"], name["shard"]} => PathKind(m.path) = "service-account"
  BY <1>3 DEF PathKind, serviceAccountPath
<1>5. m.path = n.path => y = z
  BY <1>3 DEF serviceAccountPath
<1>6. m.path[4] = "service-account" /\ Len(m.path) = 4 /\ m.path[1] = "kcp"
  BY <1>3 DEF serviceAccountPath
<1> QED
  BY <1>1, <1>2, <1>4, <1>5, <1>6 DEF Same

\* In a shard's Pod no two volumes share a path.
LEMMA ShardPaths ==
    ASSUME name["root"] # name["shard"], name["root"] # "ca", name["shard"] # "ca",
           NEW CONSTANT x, NEW CONSTANT in, NEW CONSTANT m, NEW CONSTANT n,
           IsShardFile(x, in, m), IsShardFile(x, in, n)
    PROVE  Same(m, n)
<1> DEFINE S == {"client", "logical-cluster-admin", "external-logical-cluster-admin"}
           Fits(k) ==
             /\ IsCAFile(x, in, k) \/ IsCertMount(x, Certificate, k) \/ IsKubeconfigMount(x, S, k)
                \/ k \in CacheMounts \/ IsUserMount(x, k) \/ IsServiceAccountMount(in[x], k)
             /\ IsCAFile(x, in, k) => PathKind(k.path) = "ca"
             /\ IsCertMount(x, Certificate, k) => PathKind(k.path) = "certificate"
             /\ IsKubeconfigMount(x, S, k) => PathKind(k.path) = "kubeconfig"
             /\ k \in CacheMounts => PathKind(k.path) = "cache"
             /\ IsUserMount(x, k) => PathKind(k.path) = "file"
             /\ IsServiceAccountMount(in[x], k) => PathKind(k.path) = "service-account"
<1>1. ASSUME NEW k, IsShardFile(x, in, k)
      PROVE  Fits(k)
  BY <1>1, CAFiles, CertFiles, KubeconfigFiles, CacheFiles, UserFiles, ServiceAccountFiles DEF IsShardFile,
       IsCAFile
<1>2. Fits(m) /\ Fits(n)
  BY <1>1
<1>3. CASE PathKind(m.path) # PathKind(n.path)
  BY <1>3 DEF Same
<1>4. CASE PathKind(m.path) = PathKind(n.path)
  BY <1>2, <1>4, CAFiles, CertFiles, KubeconfigFiles, CacheFiles, UserFiles, ServiceAccountFiles
<1> QED
  BY <1>3, <1>4

\* The files under the front-proxy's directory.
IsProxyOwn(pod, m) ==
    \/ m = SecretMount(DynamicKubeconfigName(pod), frontProxyPath("kubeconfig"))
    \/ m = SecretMount(CertName(pod, "kubeconfig"), frontProxyPath("kubeconfig-client-cert"))
    \/ m = SecretMount(CertName(pod, "server"), frontProxyPath("tls"))
    \/ m = SecretMount(CertName(pod, "requestheader"), frontProxyPath("requestheader-client"))
    \/ m = SecretMount(clientCABundleSecretName(pod), frontProxyPath("client-ca"))

\* The files of a proxy under the directory for CAs.
IsProxyCA(pod, m) ==
    \/ IsCAMount({"requestheader-client"}, m)
    \/ m = SecretMount(backendCABundleSecretName(pod), getCAMountPath("ca-bundle"))

\* In a proxy's Pod no two volumes share a path.
LEMMA ProxyPaths ==
    ASSUME name["root"] # name["shard"], name["root"] # "ca", name["shard"] # "ca",
           NEW CONSTANT pod, NEW CONSTANT in, NEW CONSTANT m, NEW CONSTANT n,
           IsProxyMount(pod, in, m), IsProxyMount(pod, in, n)
    PROVE  Same(m, n)
<1> DEFINE Root(k) == k = SecretMount(RootCAName("root"), kubeconfigCAPath)
           Fits(k) ==
             /\ IsProxyOwn(pod, k) \/ IsProxyCA(pod, k) \/ Root(k)
                \/ IsUserMount("front", k) \/ IsServiceAccountMount(in["front"], k)
             /\ IsProxyOwn(pod, k) => PathKind(k.path) = "front-proxy"
             /\ IsProxyCA(pod, k) => PathKind(k.path) = "ca"
             /\ Root(k) => PathKind(k.path) = "certificate"
             /\ IsUserMount("front", k) => PathKind(k.path) = "file"
             /\ IsServiceAccountMount(in["front"], k) => PathKind(k.path) = "service-account"
<1>1. ASSUME NEW k, IsProxyMount(pod, in, k)
      PROVE  Fits(k)
  <2>1. /\ IsProxyOwn(pod, k) \/ IsProxyCA(pod, k) \/ Root(k)
           \/ IsUserMount("front", k) \/ IsServiceAccountMount(in["front"], k)
    BY <1>1 DEF IsProxyMount, IsProxyOwn, IsProxyCA
  <2>2. ASSUME IsProxyOwn(pod, k) PROVE PathKind(k.path) = "front-proxy"
    <3>1. k.path = <<"kcp-front-proxy", k.path[2]>>
      BY <2>2 DEF IsProxyOwn, SecretMount, frontProxyPath
    <3> QED
      BY <3>1 DEF PathKind
  <2>3. ASSUME IsProxyCA(pod, k) PROVE PathKind(k.path) = "ca"
    <3>1. k.path = <<"kcp", "tls", "ca", k.path[4]>>
      BY <2>3 DEF IsProxyCA, IsCAMount, SecretMount, getCAMountPath
    <3> QED
      BY <3>1 DEF PathKind
  <2>4. ASSUME Root(k) PROVE PathKind(k.path) = "certificate"
    BY <2>4 DEF PathKind, SecretMount, kubeconfigCAPath
  <2> QED
    BY <2>1, <2>2, <2>3, <2>4, UserFiles, ServiceAccountFiles
<1>2. Fits(m) /\ Fits(n)
  BY <1>1
<1>3. CASE PathKind(m.path) # PathKind(n.path)
  BY <1>3 DEF Same
<1>4. ASSUME IsProxyOwn(pod, m), IsProxyOwn(pod, n) PROVE Same(m, n)
  BY <1>4 DEF Same, IsProxyOwn, SecretMount, frontProxyPath
<1>5. ASSUME IsProxyCA(pod, m), IsProxyCA(pod, n) PROVE Same(m, n)
  BY <1>5 DEF Same, IsProxyCA, IsCAMount, SecretMount, getCAMountPath
<1>6. CASE PathKind(m.path) = PathKind(n.path)
  BY <1>2, <1>4, <1>5, <1>6, UserFiles, ServiceAccountFiles DEF Same
<1> QED
  BY <1>3, <1>6

\* The certificates of a VirtualWorkspace's container.
IsWorkspaceCert(m) ==
    \/ m = SecretMount(CertName("vw", "server"), getCertificateMountPath("server"))
    \/ m = SecretMount(CertName("vw", "client"), getCertificateMountPath("logical-cluster-admin"))

\* The kubeconfig of a VirtualWorkspace's container: its own, or the logical cluster admin's.
IsWorkspaceKubeconfig(c, in, m) ==
    \/ BringsKubeconfig(c, in["vw"]) /\ m = OwnKubeconfigMount(c)
    \/ /\ ~BringsKubeconfig(c, in["vw"])
       /\ m = SecretMount(kubeconfigSecret("logical-cluster-admin"),
            getKubeconfigMountPath("logical-cluster-admin"))

\* In a VirtualWorkspace's container no two volumes share a path.
LEMMA WorkspacePaths ==
    ASSUME NEW CONSTANT c, NEW CONSTANT in, NEW CONSTANT m, NEW CONSTANT n,
           IsWorkspaceMount(c, in, m), IsWorkspaceMount(c, in, n)
    PROVE  Same(m, n)
<1> DEFINE Fits(k) ==
             /\ IsCAFile("vw", in, k) \/ IsWorkspaceCert(k) \/ IsWorkspaceKubeconfig(c, in, k)
                 \/ k \in CacheMounts
             /\ IsCAFile("vw", in, k) => PathKind(k.path) = "ca"
             /\ IsWorkspaceCert(k) => PathKind(k.path) = "certificate"
             /\ IsWorkspaceKubeconfig(c, in, k) => PathKind(k.path) = "kubeconfig"
             /\ k \in CacheMounts => PathKind(k.path) = "cache"
<1>1. ASSUME NEW k, IsWorkspaceMount(c, in, k)
      PROVE  Fits(k)
  <2>1. IsCAFile("vw", in, k) \/ IsWorkspaceCert(k) \/ IsWorkspaceKubeconfig(c, in, k) \/ k \in CacheMounts
    BY <1>1 DEF IsWorkspaceMount, IsCAFile, IsCAMount, IsWorkspaceCert, IsCertMount, IsWorkspaceKubeconfig,
         AdminMounts
  <2>2. ASSUME IsWorkspaceCert(k) PROVE PathKind(k.path) = "certificate"
    BY <2>2 DEF IsWorkspaceCert, PathKind, SecretMount, getCertificateMountPath
  <2>3. ASSUME IsWorkspaceKubeconfig(c, in, k) PROVE PathKind(k.path) = "kubeconfig"
    <3>1. k.path \in {<<"kcp", "server-kubeconfig">>, <<"kcp", "init-kubeconfig">>,
                      <<"kcp", "logical-cluster-admin-kubeconfig">>}
      BY <2>3 DEF IsWorkspaceKubeconfig, OwnKubeconfigMount, SecretMount, getServerKubeconfigMountPath,
         getInitKubeconfigMountPath, getKubeconfigMountPath
    <3> QED
      BY <3>1 DEF PathKind
  <2> QED
    BY <2>1, <2>2, <2>3, CAFiles, CacheFiles
<1>2. Fits(m) /\ Fits(n)
  BY <1>1
<1>3. CASE PathKind(m.path) # PathKind(n.path)
  BY <1>3 DEF Same
<1>4. ASSUME IsWorkspaceCert(m), IsWorkspaceCert(n) PROVE Same(m, n)
  BY <1>4 DEF Same, IsWorkspaceCert, SecretMount, getCertificateMountPath
<1>5. ASSUME IsWorkspaceKubeconfig(c, in, m), IsWorkspaceKubeconfig(c, in, n) PROVE Same(m, n)
  BY <1>5 DEF Same, IsWorkspaceKubeconfig
<1>6. CASE PathKind(m.path) = PathKind(n.path)
  BY <1>2, <1>4, <1>5, <1>6, CAFiles, CacheFiles
<1> QED
  BY <1>3, <1>6

\* Neither do they in the cache server's.
LEMMA CacheServerPaths ==
    ASSUME NEW CONSTANT in, NEW CONSTANT m, NEW CONSTANT n, IsCacheServerMount(in, m), IsCacheServerMount(in, n)
    PROVE  Same(m, n)
  BY DEF Same, IsCacheServerMount, SecretMount, cacheServerCertificateMountPath, getCacheServerCAMountPath,
     getEtcdCertificateMountPath

\* No two volumes of a container share a mount path.
LEMMA PathsApart ==
    ASSUME name["root"] # name["shard"], name["root"] # "ca", name["shard"] # "ca",
           NEW CONSTANT pod \in Pods, NEW CONSTANT c, NEW CONSTANT in,
           NEW m \in Mounts(pod, c, in), NEW n \in Mounts(pod, c, in), m.path = n.path
    PROVE  m = n
<1> SUFFICES Same(m, n)
  BY DEF Same
<1>1. CASE pod = "root"
  BY <1>1, MountsAre, ShardFiles, ShardPaths
<1>2. CASE pod = "shard"
  BY <1>2, MountsAre, ShardFiles, ShardPaths
<1>3. CASE pod \in Proxies
  BY <1>3, MountsAre, ProxyPaths
<1>4. CASE pod = "vw"
  BY <1>4, MountsAre, WorkspacePaths
<1>5. CASE pod = "cache"
  BY <1>5, MountsAre, CacheServerPaths
<1> QED
  BY <1>1, <1>2, <1>3, <1>4, <1>5 DEF Pods, Objects, Proxies

\* The paths of all mounts, by kind.
KubeconfigPaths ==
    {getKubeconfigMountPath("client"), getKubeconfigMountPath("logical-cluster-admin"),
     getKubeconfigMountPath("external-logical-cluster-admin"), getServerKubeconfigMountPath,
     getInitKubeconfigMountPath}

CachePaths ==
    {getCacheServerKubeconfigMountPath, getCacheServerCAMountPath("root"), getCacheServerClientCertMountPath,
     cacheServerCertificateMountPath, getEtcdCertificateMountPath}

ProxyOwnPaths ==
    {frontProxyPath("kubeconfig"), frontProxyPath("kubeconfig-client-cert"), frontProxyPath("tls"),
     frontProxyPath("requestheader-client"), frontProxyPath("client-ca")}

CertificatePaths == {getCertificateMountPath(c) : c \in Certificate}
CAPaths == {getCAMountPath(ca) : ca \in CA}
FilePaths == {FilePath(f) : f \in Files}
ServiceAccountPaths == {serviceAccountPath(x) : x \in Objects}

\* All of them.
AllPaths ==
    ((((((CertificatePaths \cup CAPaths) \cup FilePaths) \cup ServiceAccountPaths) \cup KubeconfigPaths)
      \cup CachePaths) \cup ProxyOwnPaths) \cup {kubeconfigCAPath}

\* There are finitely many paths.
LEMMA FinitePaths == IsFiniteSet(AllPaths)
<1> DEFINE f1 == [c \in Certificate |-> getCertificateMountPath(c)]
           f2 == [ca \in CA |-> getCAMountPath(ca)]
           f3 == [f \in Files |-> FilePath(f)]
           f4 == [x \in Objects |-> serviceAccountPath(x)]
<1>1. IsFiniteSet(Files)
  <2>1. /\ IsFiniteSet({"etcd", "audit-policy", "audit-webhook", "authorization-webhook", "oidc"})
        /\ IsFiniteSet({"token", "authentication-webhook", "token", "token", "token"})
    BY FiniteFive
  <2>2. Files = {"etcd", "audit-policy", "audit-webhook", "authorization-webhook", "oidc"} \cup
                {"token", "authentication-webhook", "token", "token", "token"}
    BY DEF Files
  <2> QED
    BY <2>1, <2>2, FS_Union
<1>2. /\ CertificatePaths = {f1[c] : c \in Certificate}
      /\ CAPaths = {f2[ca] : ca \in CA}
      /\ FilePaths = {f3[f] : f \in Files}
      /\ ServiceAccountPaths = {f4[x] : x \in Objects}
  BY DEF CertificatePaths, CAPaths, FilePaths, ServiceAccountPaths
<1>3. IsFiniteSet(CertificatePaths) /\ IsFiniteSet(CAPaths) /\ IsFiniteSet(FilePaths) /\
        IsFiniteSet(ServiceAccountPaths)
  BY <1>1, <1>2, FiniteRange, FiniteNames
<1>4. IsFiniteSet(KubeconfigPaths) /\ IsFiniteSet(CachePaths) /\ IsFiniteSet(ProxyOwnPaths)
  BY FiniteFive DEF KubeconfigPaths, CachePaths, ProxyOwnPaths
<1> DEFINE A == CertificatePaths \cup CAPaths
           B == A \cup FilePaths
           C == B \cup ServiceAccountPaths
           D == C \cup KubeconfigPaths
           E == D \cup CachePaths
           F == E \cup ProxyOwnPaths
<1>5. AllPaths = F \cup {kubeconfigCAPath}
  BY DEF AllPaths
<1>6. IsFiniteSet(A)
  BY <1>3, FS_Union
<1> HIDE DEF A
<1>7. IsFiniteSet(B)
  BY <1>3, <1>6, FS_Union
<1> HIDE DEF B
<1>8. IsFiniteSet(C)
  BY <1>3, <1>7, FS_Union
<1> HIDE DEF C
<1>9. IsFiniteSet(D)
  BY <1>4, <1>8, FS_Union
<1> HIDE DEF D
<1>10. IsFiniteSet(E)
  BY <1>4, <1>9, FS_Union
<1> HIDE DEF E
<1>11. IsFiniteSet(F)
  BY <1>4, <1>10, FS_Union
<1> HIDE DEF F
<1> QED
  BY <1>5, <1>11, FS_AddElement

\* Every volume is mounted at one of them.
LEMMA KnownPaths ==
    ASSUME NEW CONSTANT pod \in Pods, NEW CONSTANT c, NEW CONSTANT in, NEW m \in Mounts(pod, c, in)
    PROVE  m.path \in AllPaths
<1> USE DEF SecretMount
<1>1. \A cas \in SUBSET CA : IsCAMount(cas, m) => m.path \in CAPaths
  BY DEF IsCAMount, CAPaths
<1>2. \A x : \A certs \in SUBSET Certificate : IsCertMount(x, certs, m) => m.path \in CertificatePaths
  BY DEF IsCertMount, CertificatePaths
<1>3. ASSUME NEW x, IsKubeconfigMount(x, {"client", "logical-cluster-admin",
             "external-logical-cluster-admin"}, m)
      PROVE  m.path \in KubeconfigPaths
  BY <1>3 DEF IsKubeconfigMount, KubeconfigPaths
<1>4. \A x : IsUserMount(x, m) => m.path \in FilePaths
  BY DEF IsUserMount, FilePaths
<1>5. \A o : IsServiceAccountMount(o, m) => m.path \in ServiceAccountPaths
  BY DEF IsServiceAccountMount, ServiceAccountPaths, Objects
<1>6. \A x, b : m = ClientCAMount(x, b) => m.path \in CAPaths
  BY DEF ClientCAMount, CAPaths, CA
<1>7. m \in CacheMounts => m.path \in CachePaths
  BY DEF CacheMounts, CachePaths
<1>8. \A x : IsShardFile(x, in, m) => m.path \in AllPaths
  BY <1>1, <1>2, <1>3, <1>4, <1>5, <1>6, <1>7 DEF IsShardFile, AllPaths, CA, CAPaths
<1>9. pod \in Proxies => m.path \in AllPaths
  BY MountsAre, <1>1, <1>4, <1>5 DEF IsProxyMount, AllPaths, ProxyOwnPaths, CA, CAPaths
<1>10. pod = "vw" => m.path \in AllPaths
  <2>1. m \in AdminMounts => m.path \in AllPaths
    BY DEF AdminMounts, AllPaths, KubeconfigPaths, CertificatePaths, Certificate
  <2>2. m = OwnKubeconfigMount(c) => m.path \in AllPaths
    BY DEF OwnKubeconfigMount, AllPaths, KubeconfigPaths
  <2>3. {"root", "server", "requestheader-client"} \in SUBSET CA /\ {"server"} \in SUBSET Certificate
    BY DEF CA, Certificate
  <2>4. /\ IsCAMount({"root", "server", "requestheader-client"}, m) => m.path \in AllPaths
        /\ IsCertMount("vw", {"server"}, m) => m.path \in AllPaths
        /\ m = ClientCAMount("vw", "clientBundle" \in in["root"] \cup in["vw"]) => m.path \in AllPaths
        /\ m \in CacheMounts => m.path \in AllPaths
    BY <1>1, <1>2, <1>6, <1>7, <2>3 DEF AllPaths
  <2> QED
    BY MountsAre, <2>1, <2>2, <2>4 DEF IsWorkspaceMount
<1>11. pod = "cache" => m.path \in AllPaths
  BY MountsAre DEF IsCacheServerMount, AllPaths, CachePaths
<1> QED
  BY <1>8, <1>9, <1>10, <1>11, MountsAre, ShardFiles DEF Pods, Objects, Proxies

\* A container has as many paths as mounts.
LEMMA CountedMounts ==
    ASSUME name["root"] # name["shard"], name["root"] # "ca", name["shard"] # "ca",
           NEW CONSTANT pod \in Pods, NEW CONSTANT c, NEW CONSTANT in
    PROVE  Cardinality({m.path : m \in Mounts(pod, c, in)}) = Cardinality(Mounts(pod, c, in))
<1> DEFINE S == Mounts(pod, c, in)
           T == {m.path : m \in S}
           f == [m \in S |-> m.path]
<1>1. IsFiniteSet(T)
  <2>1. T \subseteq AllPaths
    BY KnownPaths
  <2> QED
    BY <2>1, FinitePaths, FS_Subset
<1>2. f \in [S -> T] /\ \A t \in T : \E m \in S : f[m] = t
  OBVIOUS
<1>3. \A a, b \in S : f[a] = f[b] => a = b
  BY PathsApart
<1> HIDE DEF S, T, f
<1>4. Cardinality(T) = Cardinality(S)
  BY <1>1, <1>2, <1>3, SameCount
<1> QED
  BY <1>4 DEF S, T

\* Something is mounted at a path.
At(S, p) == \E m \in S : m.path = p

\* Each helper that adds mounts covers the paths it is meant for.
LEMMA MountedAt ==
    ASSUME NEW CONSTANT S
    PROVE  /\ \A ca \in S : At(CAMounts(S), getCAMountPath(ca))
           /\ \A x : \A c \in S : At(CertMounts(x, S), getCertificateMountPath(c))
           /\ \A x : \A c \in S : At(KubeconfigMounts(x, S), getKubeconfigMountPath(c))
           /\ \A x, b : At({ClientCAMount(x, b)}, getCAMountPath("client"))
           /\ \A s, p : At({SecretMount(s, p)}, p)
           /\ At(CacheMounts, getCacheServerKubeconfigMountPath)
           /\ \A x, o, f, p : "files" \in o => At(UserFile(x, o, f, p), p)
           /\ \A o : "sa" \in o => \A x \in {"root", "shard"} :
                At(applyServiceAccountAuthentication(o), serviceAccountPath(x))
<1>0. \A s, p, T : SecretMount(s, p) \in T => At(T, p)
  BY DEF At, SecretMount
<1>1. ASSUME NEW ca \in S PROVE At(CAMounts(S), getCAMountPath(ca))
  <2>1. SecretMount(RootCAName(ca), getCAMountPath(ca)) \in CAMounts(S)
    BY DEF CAMounts
  <2> QED
    BY <1>0, <2>1
<1>2. ASSUME NEW x, NEW c \in S PROVE At(CertMounts(x, S), getCertificateMountPath(c))
  <2>1. SecretMount(CertName(x, c), getCertificateMountPath(c)) \in CertMounts(x, S)
    BY DEF CertMounts
  <2> QED
    BY <1>0, <2>1
<1>3. ASSUME NEW x, NEW c \in S PROVE At(KubeconfigMounts(x, S), getKubeconfigMountPath(c))
  <2>1. SecretMount(GetShardKubeconfigSecret(name[x], c), getKubeconfigMountPath(c)) \in KubeconfigMounts(x, S)
    BY DEF KubeconfigMounts
  <2> QED
    BY <1>0, <2>1
<1>4. \A x, b : At({ClientCAMount(x, b)}, getCAMountPath("client"))
  BY <1>0 DEF ClientCAMount
<1>5. \A s, p : At({SecretMount(s, p)}, p)
  BY <1>0
<1>6. At(CacheMounts, getCacheServerKubeconfigMountPath)
  BY <1>0 DEF CacheMounts
<1>7. \A x, o, f, p : "files" \in o => At(UserFile(x, o, f, p), p)
  BY <1>0 DEF UserFile
<1>8. ASSUME NEW o, "sa" \in o, NEW x \in {"root", "shard"}
      PROVE  At(applyServiceAccountAuthentication(o), serviceAccountPath(x))
  <2>1. SecretMount(CertName(x, "service-account"), serviceAccountPath(x)) \in
          applyServiceAccountAuthentication(o)
    BY <1>8 DEF applyServiceAccountAuthentication
  <2> QED
    BY <1>0, <2>1
<1> QED
  BY <1>1, <1>2, <1>3, <1>4, <1>5, <1>6, <1>7, <1>8

\* The files that the shared flags name are mounted by the shared helpers.
LEMMA AuthFlagsMounted ==
    ASSUME NEW CONSTANT x, NEW CONSTANT o
    PROVE  /\ \A p \in authFlags(o) : At(ApplyAuthConfiguration(x, o), p)
           /\ \A p \in shardFlags(o) : At(ApplyCommonShardConfig(x, o), p)
<1>0. \A S, T, p : S \subseteq T /\ At(S, p) => At(T, p)
  BY DEF At
<1>1. \A p \in serviceAccountFlags(o) : At(applyServiceAccountAuthentication(o), p)
  BY MountedAt DEF serviceAccountFlags
<1>2. "files" \in o =>
        /\ At(applyOIDCConfiguration(x, o), <<"kcp", "tls", "oidc">>)
        /\ At(applyTokenAuthFile(x, o), <<"kcp", "authentication", "token">>)
        /\ At(applyAuthenticationWebhookConfiguration(x, o), <<"kcp", "authentication", "webhook">>)
        /\ At(applyEtcdConfiguration(x, o), <<"etcd", "tls">>)
        /\ At(applyAuditPolicyConfiguration(x, o), <<"kcp", "audit", "policy">>)
        /\ At(applyAuditWebhookConfiguration(x, o), <<"kcp", "audit", "webhook">>)
        /\ At(applyAuthorizationConfiguration(x, o), <<"kcp", "authorization", "webhook">>)
  BY MountedAt DEF applyOIDCConfiguration, applyTokenAuthFile, applyAuthenticationWebhookConfiguration,
     applyEtcdConfiguration, applyAuditPolicyConfiguration, applyAuditWebhookConfiguration,
     applyAuthorizationConfiguration
<1>3. /\ applyOIDCConfiguration(x, o) \subseteq ApplyAuthConfiguration(x, o)
      /\ applyTokenAuthFile(x, o) \subseteq ApplyAuthConfiguration(x, o)
      /\ applyAuthenticationWebhookConfiguration(x, o) \subseteq ApplyAuthConfiguration(x, o)
      /\ applyServiceAccountAuthentication(o) \subseteq ApplyAuthConfiguration(x, o)
      /\ applyEtcdConfiguration(x, o) \subseteq ApplyCommonShardConfig(x, o)
      /\ applyAuditPolicyConfiguration(x, o) \subseteq ApplyCommonShardConfig(x, o)
      /\ applyAuditWebhookConfiguration(x, o) \subseteq ApplyCommonShardConfig(x, o)
      /\ applyAuthorizationConfiguration(x, o) \subseteq ApplyCommonShardConfig(x, o)
  BY DEF ApplyAuthConfiguration, ApplyCommonShardConfig
<1>4. \A p \in authFlags(o) : At(ApplyAuthConfiguration(x, o), p)
  BY <1>0, <1>1, <1>2, <1>3 DEF authFlags
<1>5. \A p \in shardFlags(o) : At(ApplyCommonShardConfig(x, o), p)
  BY <1>0, <1>2, <1>3 DEF shardFlags
<1> QED
  BY <1>4, <1>5

\* The files that a shard's flags name are mounted.
LEMMA ServerArgsMounted ==
    ASSUME NEW CONSTANT x, NEW CONSTANT in
    PROVE  \A p \in ServerArgs(x, in) : At(ServerMounts(x, in), p)
<1> DEFINE S == {"root", "server", "service-account", "requestheader-client"}
           C == {"server", "service-account", "client", "logical-cluster-admin",
             "external-logical-cluster-admin"}
           K == {"logical-cluster-admin", "external-logical-cluster-admin"}
           M == {ClientCAMount(x, "clientBundle" \in in["root"] \cup in[x])}
<1>0. \A A, B, p : A \subseteq B /\ At(A, p) => At(B, p)
  BY DEF At
<1>1. /\ CAMounts(S) \subseteq ServerMounts(x, in) /\ CertMounts(x, C) \subseteq ServerMounts(x, in)
      /\ KubeconfigMounts(x, K) \subseteq ServerMounts(x, in) /\ M \subseteq ServerMounts(x, in)
      /\ ApplyCommonShardConfig(x, in[x]) \subseteq ServerMounts(x, in)
      /\ ApplyAuthConfiguration(x, in[x]) \subseteq ServerMounts(x, in)
  BY DEF ServerMounts
<1>2. /\ \A ca \in S : At(CAMounts(S), getCAMountPath(ca))
      /\ \A c \in C : At(CertMounts(x, C), getCertificateMountPath(c))
      /\ \A c \in K : At(KubeconfigMounts(x, K), getKubeconfigMountPath(c))
      /\ At(M, getCAMountPath("client"))
  BY MountedAt
<1> HIDE DEF M
<1>3. /\ \A ca \in S : At(ServerMounts(x, in), getCAMountPath(ca))
      /\ \A c \in C : At(ServerMounts(x, in), getCertificateMountPath(c))
      /\ \A c \in K : At(ServerMounts(x, in), getKubeconfigMountPath(c))
      /\ At(ServerMounts(x, in), getCAMountPath("client"))
  BY <1>0, <1>1, <1>2
<1>4. /\ \A p \in authFlags(in[x]) : At(ServerMounts(x, in), p)
      /\ \A p \in shardFlags(in[x]) : At(ServerMounts(x, in), p)
  BY <1>0, <1>1, AuthFlagsMounted
<1> QED
  BY <1>3, <1>4 DEF ServerArgs

\* So are those that the flags of any Pod name.
LEMMA ArgsMounted ==
    ASSUME NEW CONSTANT pod \in Pods, NEW CONSTANT in, ObjectOf(pod) \in DOMAIN in
    PROVE  \A p \in Args(pod, in) : At(Mounts(pod, "main", in), p)
<1>0. \A A, B, p : A \subseteq B /\ At(A, p) => At(B, p)
  BY DEF At
<1>1. CASE pod = "root"
  <2>1. Mounts(pod, "main", in) = ServerMounts("root", in) /\ Args(pod, in) = RootShardArgs(in)
    BY <1>1 DEF Mounts, Args, Proxies
  <2>2. ASSUME "cache" \in in["root"] PROVE At(ServerMounts("root", in), getCacheServerKubeconfigMountPath)
    <3>1. EffectiveCache(in)
      BY <1>1, <2>2 DEF EffectiveCache, ObjectOf
    <3>2. CacheMounts \subseteq ServerMounts("root", in)
      BY <3>1 DEF ServerMounts
    <3> QED
      BY <1>0, <3>2, MountedAt
  <2> QED
    BY <2>1, <2>2, ServerArgsMounted DEF RootShardArgs
<1>2. CASE pod = "shard"
  <2>1. Mounts(pod, "main", in) = ShardMounts(in) /\ Args(pod, in) = ShardArgs(in)
    BY <1>2 DEF Mounts, Args, Proxies
  <2>2. ServerMounts("shard", in) \subseteq ShardMounts(in) /\
          KubeconfigMounts("shard", {"client"}) \subseteq ShardMounts(in)
    BY DEF ShardMounts
  <2>3. EffectiveCache(in) => CacheMounts \subseteq ServerMounts("shard", in)
    BY DEF ServerMounts
  <2>4. supportsMountProxy(in["shard"]) => CertMounts("shard", {"mounts-proxy"}) \subseteq ShardMounts(in)
    BY DEF ShardMounts
  <2>5. /\ \A p \in ServerArgs("shard", in) : At(ShardMounts(in), p)
        /\ At(ShardMounts(in), getKubeconfigMountPath("client"))
        /\ EffectiveCache(in) => At(ShardMounts(in), getCacheServerKubeconfigMountPath)
        /\ supportsMountProxy(in["shard"]) => At(ShardMounts(in), getCertificateMountPath("mounts-proxy"))
    BY <1>0, <2>2, <2>3, <2>4, MountedAt, ServerArgsMounted
  <2> QED
    BY <2>1, <2>5 DEF ShardArgs
<1>3. CASE pod \in Proxies
  <2>1. Mounts(pod, "main", in) = ProxyMounts(pod, in) /\ Args(pod, in) = ProxyArgs(pod, in)
    BY <1>3 DEF Mounts, Args, Proxies
  <2>2. /\ {SecretMount(DynamicKubeconfigName(pod), frontProxyPath("kubeconfig"))} \subseteq
             ProxyMounts(pod, in)
        /\ {SecretMount(CertName(pod, "server"), frontProxyPath("tls"))} \subseteq ProxyMounts(pod, in)
        /\ {SecretMount(clientCABundleSecretName(pod), frontProxyPath("client-ca"))} \subseteq
             ProxyMounts(pod, in)
    BY DEF ProxyMounts
  <2>3. supportsMountProxy(in[ObjectOf(pod)]) =>
          CAMounts({"requestheader-client"}) \subseteq ProxyMounts(pod, in)
    BY DEF ProxyMounts
  <2>4. pod = "front" => ApplyAuthConfiguration("front", in["front"]) \subseteq ProxyMounts(pod, in)
    BY DEF ProxyMounts, ObjectOf
  <2>5. /\ At(ProxyMounts(pod, in), frontProxyPath("kubeconfig"))
        /\ At(ProxyMounts(pod, in), frontProxyPath("tls"))
        /\ At(ProxyMounts(pod, in), frontProxyPath("client-ca"))
    BY <2>2 DEF At, SecretMount
  <2>6. supportsMountProxy(in[ObjectOf(pod)]) =>
          At(ProxyMounts(pod, in), getCAMountPath("requestheader-client"))
    BY <1>0, <2>3, MountedAt
  <2>7. pod = "front" => \A p \in authFlags(in["front"]) : At(ProxyMounts(pod, in), p)
    BY <1>0, <2>4, AuthFlagsMounted
  <2> QED
    BY <2>1, <2>5, <2>6, <2>7 DEF ProxyArgs
<1>4. CASE pod = "vw"
  <2>1. Mounts(pod, "main", in) = VirtualWorkspaceMounts("main", in) /\ Args(pod, in) = VirtualWorkspaceArgs(in)
    BY <1>4 DEF Mounts, Args, Proxies
  <2> DEFINE V == VirtualWorkspaceMounts("main", in)
             M == {ClientCAMount("vw", "clientBundle" \in in["root"] \cup in["vw"])}
  <2>2. /\ CAMounts({"root", "server", "requestheader-client"}) \subseteq V /\
             CertMounts("vw", {"server"}) \subseteq V
        /\ M \subseteq V
        /\ EffectiveCache(in) => CacheMounts \subseteq V
        /\ containerMounts("main", in["vw"]) \subseteq V
    BY DEF VirtualWorkspaceMounts
  <2>3. At(containerMounts("main", in["vw"]), serverKubeconfigMountPath(in))
    BY DEF containerMounts, serverKubeconfigMountPath, At, AdminMounts, OwnKubeconfigMount, SecretMount
  <2> HIDE DEF V
  <2>4. At(V, getCAMountPath("client")) /\ At(V, getCAMountPath("requestheader-client"))
    <3>1. At(M, getCAMountPath("client"))
      BY MountedAt
    <3>2. At(CAMounts({"root", "server", "requestheader-client"}), getCAMountPath("requestheader-client"))
      BY MountedAt
    <3> HIDE DEF M
    <3> QED
      BY <1>0, <2>2, <3>1, <3>2
  <2>5. At(V, getCertificateMountPath("server"))
    BY <1>0, <2>2, MountedAt
  <2>6. At(V, serverKubeconfigMountPath(in))
    BY <1>0, <2>2, <2>3
  <2>7. EffectiveCache(in) => At(V, getCacheServerKubeconfigMountPath)
    BY <1>0, <2>2, MountedAt
  <2>8. \A p \in VirtualWorkspaceArgs(in) : At(V, p)
    BY <2>4, <2>5, <2>6, <2>7 DEF VirtualWorkspaceArgs
  <2> QED
    BY <2>1, <2>8 DEF V
<1>5. CASE pod = "cache"
  <2>1. Mounts(pod, "main", in) = CacheServerMounts(in["cache"]) /\ Args(pod, in) = CacheServerArgs(in["cache"])
    BY <1>5 DEF Mounts, Args, Proxies
  <2>2. ASSUME NEW p \in CacheServerArgs(in["cache"])
        PROVE  \E s : SecretMount(s, p) \in CacheServerMounts(in["cache"])
    BY DEF CacheServerArgs, CacheServerMounts, UserFile
  <2>3. \A s, p, T : SecretMount(s, p) \in T => At(T, p)
    BY DEF At, SecretMount
  <2> QED
    BY <2>1, <2>2, <2>3
<1> QED
  BY <1>1, <1>2, <1>3, <1>4, <1>5 DEF Pods, Objects, Proxies

\* A container with a kubeconfig of its own has nothing of the logical cluster admin.
LEMMA NoAdminFiles ==
    ASSUME NEW CONSTANT c, NEW CONSTANT in, BringsKubeconfig(c, in["vw"]),
           NEW m \in Mounts("vw", c, in), NEW n \in AdminMounts
    PROVE  m.path # n.path
<1>1. n.path \in {<<"kcp", "logical-cluster-admin-kubeconfig">>, <<"kcp", "tls", "logical-cluster-admin">>}
  BY DEF AdminMounts, SecretMount, getKubeconfigMountPath, getCertificateMountPath
<1>2. IsWorkspaceMount(c, in, m)
  BY MountsAre DEF Pods, Objects
<1>3. CASE IsCAFile("vw", in, m)
  <2>1. Len(m.path) = 4
    BY <1>3 DEF IsCAFile, IsCAMount, ClientCAMount, SecretMount, getCAMountPath
  <2> QED
    BY <1>1, <2>1
<1>4. CASE m = SecretMount(CertName("vw", "server"), getCertificateMountPath("server"))
  BY <1>1, <1>4 DEF SecretMount, getCertificateMountPath
<1>5. CASE m \in CacheMounts
  BY <1>1, <1>5 DEF CacheMounts, SecretMount, getCacheServerKubeconfigMountPath, getCacheServerCAMountPath,
     getCacheServerClientCertMountPath
<1>6. CASE m = OwnKubeconfigMount(c)
  BY <1>1, <1>6 DEF OwnKubeconfigMount, SecretMount, getServerKubeconfigMountPath, getInitKubeconfigMountPath
<1> QED
  BY <1>2, <1>3, <1>4, <1>5, <1>6 DEF IsWorkspaceMount, IsCAFile, IsCAMount, IsCertMount

\* The service account certificates of an object called "ca" would be mounted among the CAs
\* (compiledshard/deployment.go:59, utils/authentication.go:103).
NoneCalledCA == \A s \in Situations : s.name["root"] # "ca" /\ s.name["shard"] # "ca"

\* A Compiled object has the spec of its own object, and so does what is rendered from it.
OwnSpecs ==
    /\ name["root"] # name["shard"] /\ name["root"] # "ca" /\ name["shard"] # "ca"
    /\ DOMAIN compiled = Objects /\ compiledQ \subseteq Objects
    /\ \A x \in Objects : compiled[x] # None => x \in DOMAIN compiled[x]
    /\ \A x \in compiledQ : compiled[x] # None
    /\ \A pod \in Pods : deployed[pod] # None => ObjectOf(pod) \in DOMAIN deployed[pod].in

\* A Compiled object carries the spec of its own object.
LEMMA SpecsOwned ==
    ASSUME NEW x \in Objects
    PROVE  x \in DOMAIN CompiledSpec(x) /\ CompiledSpec(x) # None
<1>1. x \in Inputs(x)
  BY DEF Inputs, Objects, CompiledRootShard, CompiledShard, CompiledFrontProxy, CompiledVirtualWorkspace,
     CompiledCacheServer
<1>2. x \in DOMAIN CompiledSpec(x)
  BY <1>1 DEF CompiledSpec
<1> QED
  BY <1>2 DEF None

\* OwnSpecs holds at the start,
LEMMA OwnSpecsInit ==
    ASSUME NamesProper, NoneCalledCA, Init
    PROVE  OwnSpecs
<1> PICK s \in Situations : name = s.name /\ InPlace(Objects \ s.new)
  BY DEF Init
<1> DEFINE done == Objects \ s.new
<1>1. name["root"] # name["shard"] /\ name["root"] # "ca" /\ name["shard"] # "ca"
  BY DEF NamesProper, ProperNames, NoneCalledCA, Objects
<1>2. compiledQ = {}
  BY DEF Init
<1>3. compiled = [x \in Objects |-> IF x \in done THEN CompiledSpec(x) ELSE None]
  BY DEF InPlace
<1>4. \A x \in Objects : compiled[x] # None => x \in DOMAIN compiled[x]
  BY <1>3, SpecsOwned
<1>5. ASSUME NEW pod \in Pods, deployed[pod] # None
      PROVE  ObjectOf(pod) \in DOMAIN deployed[pod].in
  <2>1. deployed[pod] = Deployment(pod, compiled[ObjectOf(pod)], kubeconfigs, bundles) /\ ObjectOf(pod) \in done
    BY <1>5 DEF InPlace
  <2>2. deployed[pod].in = compiled[ObjectOf(pod)]
    BY <2>1 DEF Deployment
  <2>3. compiled[ObjectOf(pod)] = CompiledSpec(ObjectOf(pod))
    BY <1>3, <2>1
  <2> QED
    BY <2>1, <2>2, <2>3, SpecsOwned
<1> QED
  BY <1>1, <1>2, <1>3, <1>4, <1>5 DEF OwnSpecs

\* and every step keeps it.
LEMMA OwnSpecsStep ==
    ASSUME OwnSpecs, [Next]_vars
    PROVE  OwnSpecs'
<1>1. CASE UNCHANGED <<name, compiled, compiledQ, deployed>>
  BY <1>1 DEF OwnSpecs
<1>2. ASSUME NEW x \in Objects, SourcePass(x)
      PROVE  OwnSpecs'
  <2>1. name' = name /\ deployed' = deployed
    BY <1>2 DEF SourcePass
  <2>2. compiled' = compiled \/ compiled' = [compiled EXCEPT ![x] = CompiledSpec(x)]
    BY <1>2 DEF SourcePass
  <2>3. DOMAIN compiled' = Objects /\ \A y \in Objects :
          compiled'[y] = compiled[y] \/ (y = x /\ compiled'[y] = CompiledSpec(x))
    BY <2>2 DEF OwnSpecs
  <2>4. \A y \in Objects : compiled'[y] # None => y \in DOMAIN compiled'[y]
    BY <2>3, SpecsOwned DEF OwnSpecs
  <2>5. \A y \in Objects : compiled[y] # None => compiled'[y] # None
    BY <2>3, SpecsOwned
  <2>6. ASSUME NEW y \in compiledQ'
        PROVE  y \in Objects /\ compiled'[y] # None
    <3>1. \/ y \in compiledQ
          \/ y \in SecretWakes(compiled', Changed(kubeconfigs, kubeconfigs') \cup Changed(bundles, bundles'))
          \/ y \in Objects /\ compiled'[y] # compiled[y]
      BY <1>2 DEF SourcePass
    <3> QED
      BY <2>3, <2>5, <3>1, SpecsOwned DEF SecretWakes, OwnSpecs
  <2> QED
    BY <2>1, <2>3, <2>4, <2>6 DEF OwnSpecs
<1>3. ASSUME NEW x \in Objects, RenderPass(x)
      PROVE  OwnSpecs'
  <2>1. name' = name /\ compiled' = compiled /\ compiledQ' \subseteq compiledQ /\ x \in compiledQ
    BY <1>3 DEF RenderPass
  <2>2. ASSUME NEW pod \in Pods, deployed'[pod] # None
        PROVE  ObjectOf(pod) \in DOMAIN deployed'[pod].in
    <3>1. \/ deployed'[pod] = deployed[pod]
          \/ ObjectOf(pod) = x /\ deployed'[pod] = Deployment(pod, compiled[x], kubeconfigs', bundles)
      BY <1>3 DEF RenderPass, PodsOf
    <3> QED
      BY <2>1, <2>2, <3>1 DEF OwnSpecs, Deployment
  <2> QED
    BY <2>1, <2>2 DEF OwnSpecs
<1>4. ASSUME NEW h \in Pods, Issue(h)
      PROVE  OwnSpecs'
  <2>1. UNCHANGED <<name, compiled, deployed>> /\ compiledQ' = compiledQ \cup SecretWakes(compiled,
          CertSecrets(h))
    BY <1>4 DEF Issue
  <2>2. \A y \in SecretWakes(compiled, CertSecrets(h)) : y \in Objects /\ compiled[y] # None
    BY DEF SecretWakes
  <2> QED
    BY <2>1, <2>2 DEF OwnSpecs
<1>5. ASSUME NEW x \in Objects, RolloutSeen(x) \/ \E o \in Editable[x] : Edit(x, o)
      PROVE  UNCHANGED <<name, compiled, compiledQ, deployed>>
  BY <1>5 DEF RolloutSeen, Edit
<1> QED
  BY <1>1, <1>2, <1>3, <1>4, <1>5 DEF Next, Work, vars

\* It is all that the mounts need.
LEMMA MountedFiles ==
    ASSUME OwnSpecs
    PROVE  FilesMounted
<1> SUFFICES ASSUME NEW pod \in Running, NEW c \in Containers(pod, deployed[pod].in)
             PROVE  LET mounts == PodMounts(pod, c)
                        paths  == {m.path : m \in mounts}
                    IN /\ Cardinality(paths) = Cardinality(mounts)
                       /\ c = "main" => Args(pod, deployed[pod].in) \subseteq paths
                       /\ pod = "vw" /\ BringsKubeconfig(c, deployed.vw.in.vw) =>
                            paths \cap {m.path : m \in AdminMounts} = {}
  BY DEF FilesMounted
<1>1. pod \in Pods /\ ObjectOf(pod) \in DOMAIN deployed[pod].in
  BY DEF Running, OwnSpecs
<1>2. Cardinality({m.path : m \in PodMounts(pod, c)}) = Cardinality(PodMounts(pod, c))
  BY <1>1, CountedMounts DEF PodMounts, OwnSpecs
<1>3. c = "main" => Args(pod, deployed[pod].in) \subseteq {m.path : m \in PodMounts(pod, c)}
  BY <1>1, ArgsMounted DEF PodMounts, At
<1>4. pod = "vw" /\ BringsKubeconfig(c, deployed.vw.in.vw) =>
        {m.path : m \in PodMounts(pod, c)} \cap {m.path : m \in AdminMounts} = {}
  BY NoAdminFiles DEF PodMounts
<1> QED
  BY <1>2, <1>3, <1>4

\* In every container of every Deployment no two volumes share a mount path, every file that a flag
\* names is in a mounted volume, and a container that brings a kubeconfig of its own does not get the
\* logical cluster admin's files; whatever the options, edits and delays.
THEOREM EveryFileMounted ==
    ASSUME NamesProper, NoneCalledCA
    PROVE  Spec => []FilesMounted
<1>1. Init => OwnSpecs
  BY OwnSpecsInit
<1>2. OwnSpecs /\ [Next]_vars => OwnSpecs'
  BY OwnSpecsStep
<1>3. OwnSpecs => FilesMounted
  BY MountedFiles
<1> QED
  BY <1>1, <1>2, <1>3, PTL DEF Spec

-----------------------------------------------------------------------------
(* Connections.                                                             *)

\* What the kubeconfigs say: the logical cluster admin's,
AdminConfig(x) ==
    Kubeconfig(BaseURL(x, opts[x]), x, getCAMountPath("server"),
      getCertificateMountPath("logical-cluster-admin"))

\* the external one's, which goes through the FrontProxy,
ExternalAdminConfig(x) ==
    Kubeconfig(ExternalURL(opts.root), "front", ExternalCA(opts[x]),
               getCertificateMountPath("external-logical-cluster-admin"))

\* the one of a Shard for the RootShard,
ClientConfig ==
    Kubeconfig(BaseURL("root", opts.root), "root", getCAMountPath("server"), getCertificateMountPath("client"))

\* and the one for the cache server.
CacheConfig ==
    Kubeconfig(BaseURL("cache", opts.cache), "cache", getCacheServerCAMountPath("root"),
               getCacheServerClientCertMountPath)

\* The controllers write them under the names that the Pods mount.
LEMMA KubeconfigValues ==
    /\ \A x \in {"root", "shard"} :
         /\ KubeconfigSecrets(x)[GetShardKubeconfigSecret(name[x], "logical-cluster-admin")] = AdminConfig(x)
         /\ KubeconfigSecrets(x)[GetShardKubeconfigSecret(name[x], "external-logical-cluster-admin")] =
                ExternalAdminConfig(x)
    /\ KubeconfigSecrets("shard")[GetShardKubeconfigSecret(name["shard"], "client")] = ClientConfig
    /\ KubeconfigSecrets("cache")[GetCacheServerKubeconfigName(name["cache"])] = CacheConfig
<1> DEFINE f(x) == LogicalClusterAdminKubeconfig(x)
           g(x) == ExternalLogicalClusterAdminKubeconfig(x)
           h == RootShardClientKubeconfig
           p(x) == GetShardKubeconfigSecret(name[x], "logical-cluster-admin")
           q(x) == GetShardKubeconfigSecret(name[x], "external-logical-cluster-admin")
           r == GetShardKubeconfigSecret(name["shard"], "client")
<1>1. \A x : DOMAIN f(x) = {p(x)} /\ f(x)[p(x)] = AdminConfig(x)
  BY MapsTo DEF LogicalClusterAdminKubeconfig, AdminConfig
<1>2. \A x : DOMAIN g(x) = {q(x)} /\ g(x)[q(x)] = ExternalAdminConfig(x)
  BY MapsTo DEF ExternalLogicalClusterAdminKubeconfig, ExternalAdminConfig
<1>3. DOMAIN h = {r} /\ h[r] = ClientConfig
  BY MapsTo DEF RootShardClientKubeconfig, ClientConfig
<1>4. \A x : p(x) # q(x) /\ p(x) # r /\ q(x) # r
  BY DEF GetShardKubeconfigSecret
<1>5. KubeconfigSecrets("cache")[GetCacheServerKubeconfigName(name["cache"])] = CacheConfig
  BY MapsTo DEF KubeconfigSecrets, CacheServerKubeconfig, CacheConfig
<1>6. KubeconfigSecrets("root") = f("root") @@ g("root") /\
        KubeconfigSecrets("shard") = (f("shard") @@ g("shard")) @@ h
  BY DEF KubeconfigSecrets, RootShardKubeconfigs
<1> HIDE DEF f, g, h, p, q, r
<1>7. ASSUME NEW x
      PROVE  /\ DOMAIN (f(x) @@ g(x)) = {p(x), q(x)}
             /\ (f(x) @@ g(x))[p(x)] = AdminConfig(x)
             /\ (f(x) @@ g(x))[q(x)] = ExternalAdminConfig(x)
  <2>1. /\ DOMAIN (f(x) @@ g(x)) = DOMAIN f(x) \cup DOMAIN g(x)
        /\ \A n \in DOMAIN f(x) : (f(x) @@ g(x))[n] = f(x)[n]
        /\ \A n \in DOMAIN g(x) \ DOMAIN f(x) : (f(x) @@ g(x))[n] = g(x)[n]
    BY OverDomain
  <2> QED
    BY <1>1, <1>2, <1>4, <2>1
<1>8. /\ ((f("shard") @@ g("shard")) @@ h)[p("shard")] = AdminConfig("shard")
      /\ ((f("shard") @@ g("shard")) @@ h)[q("shard")] = ExternalAdminConfig("shard")
      /\ ((f("shard") @@ g("shard")) @@ h)[r] = ClientConfig
  <2> DEFINE fg == f("shard") @@ g("shard")
  <2>1. /\ DOMAIN fg = {p("shard"), q("shard")}
        /\ fg[p("shard")] = AdminConfig("shard") /\ fg[q("shard")] = ExternalAdminConfig("shard")
    BY <1>7
  <2> HIDE DEF fg
  <2>2. /\ \A n \in DOMAIN fg : (fg @@ h)[n] = fg[n]
        /\ \A n \in DOMAIN h \ DOMAIN fg : (fg @@ h)[n] = h[n]
    BY OverDomain
  <2>3. (fg @@ h)[p("shard")] = AdminConfig("shard") /\ (fg @@ h)[q("shard")] = ExternalAdminConfig("shard")
        /\ (fg @@ h)[r] = ClientConfig
    BY <1>3, <1>4, <2>1, <2>2
  <2> QED
    BY <2>3 DEF fg
<1> QED
  BY <1>5, <1>6, <1>7, <1>8 DEF p, q, r

\* The mounts of kubeconfigs that the operator writes.
LEMMA KubeconfigMounted ==
    ASSUME ProperNames(name), target \in {"root", "shard"},
           NEW CONSTANT pod \in Pods, NEW CONSTANT c, NEW CONSTANT in, NEW m \in Mounts(pod, c, in),
           m.secret \in KubeconfigNames
    PROVE  \/ pod \in {"root", "shard"} /\
                m.secret = GetShardKubeconfigSecret(name[pod], "logical-cluster-admin")
           \/ pod \in {"root", "shard"} /\ m.secret =
                GetShardKubeconfigSecret(name[pod], "external-logical-cluster-admin")
           \/ pod = "shard" /\ m.secret = GetShardKubeconfigSecret(name["shard"], "client")
           \/ /\ pod \in {"root", "shard", "vw"} /\ EffectiveCache(in)
              /\ m.secret = GetCacheServerKubeconfigName(name["cache"])
           \/ pod \in Proxies /\ m.secret = DynamicKubeconfigName(pod)
           \/ /\ pod = "vw" /\ m.secret = GetShardKubeconfigSecret(name[target], "logical-cluster-admin")
              /\ ~BringsKubeconfig(c, in["vw"])
<1> DEFINE n == m.secret
<1>0. /\ \A ca : RootCAName(ca) \notin KubeconfigNames
      /\ CacheCAName \notin KubeconfigNames
      /\ \A x : GetMergedClientCAName(name[x]) \notin KubeconfigNames /\
           MergedCABundleName(name[x]) \notin KubeconfigNames
      /\ \A q \in Proxies : clientCABundleSecretName(q) \notin KubeconfigNames /\
           backendCABundleSecretName(q) \notin KubeconfigNames
  BY DEF KubeconfigNames, RootCAName, CacheCAName, GetRootShardCAName, GetCacheServerCAName,
       GetMergedClientCAName,
     MergedCABundleName, clientCABundleSecretName, backendCABundleSecretName, ProxyMergedClientCAName,
     ProxyMergedCABundleName, GetShardKubeconfigSecret, GetCacheServerKubeconfigName, DynamicKubeconfigName,
     GetFrontProxyDynamicKubeconfigName, GetRootShardProxyDynamicKubeconfigName, Proxies
<1>1. \A x \in {"root", "shard", "vw", "cache"} : \A k \in Certificate \ {"kubeconfig"} :
        CertName(x, k) \notin KubeconfigNames
  <2>1. \A x \in {"root", "shard", "vw", "cache"} : \A k \in Certificate \ {"kubeconfig"} :
            \E d : d # "kubeconfig" /\ CertName(x, k) = <<name[x], d>>
    BY DEF CertName, Certificate, GetRootShardCertificateName, GetShardCertificateName,
       GetVirtualWorkspaceCertificateName, GetCacheServerCertificateName, GetCacheServerClientCertificateName
  <2>2. \A a, d : d # "kubeconfig" => <<a, d>> \notin KubeconfigNames
    BY DEF KubeconfigNames, GetShardKubeconfigSecret, GetCacheServerKubeconfigName, DynamicKubeconfigName,
       GetFrontProxyDynamicKubeconfigName, GetRootShardProxyDynamicKubeconfigName, Proxies
  <2> QED
    BY <2>1, <2>2
<1>2. \A q \in Proxies : \A k \in {"server", "kubeconfig", "requestheader"} :
        CertName(q, k) \notin KubeconfigNames
  <2>1. \A q \in Proxies : \A k : CertName(q, k) = <<name["root"],
          IF q = "front" THEN name["front"] ELSE "proxy", k>>
    BY DEF CertName, Proxies, GetRootShardProxyCertificateName, GetFrontProxyCertificateName
  <2>2. name["front"] \notin {"proxy", "logical-cluster-admin", "external-logical-cluster-admin"} /\
          name["root"] # name["shard"]
    BY DEF ProperNames, Objects
  <2>3. \A a, k : /\ k \in {"server", "kubeconfig", "requestheader"}
                  /\ a \notin {"logical-cluster-admin", "external-logical-cluster-admin"}
                  => <<name["root"], a, k>> \notin KubeconfigNames
    BY <2>2 DEF KubeconfigNames, GetShardKubeconfigSecret, GetCacheServerKubeconfigName, DynamicKubeconfigName,
       GetFrontProxyDynamicKubeconfigName, GetRootShardProxyDynamicKubeconfigName, Proxies
  <2> QED
    BY <2>1, <2>2, <2>3
<1>3. \A x \in Objects : \A f \in Files \cup {"kubeconfig", "initKubeconfig"} :
        UserSecret(x, f) \notin KubeconfigNames
  BY DEF KubeconfigNames, UserSecret, GetShardKubeconfigSecret, GetCacheServerKubeconfigName,
       DynamicKubeconfigName,
     GetFrontProxyDynamicKubeconfigName, GetRootShardProxyDynamicKubeconfigName, Proxies, Files, Objects
<1> USE DEF SecretMount
<1>4. \A cas : ~IsCAMount(cas, m)
  BY <1>0 DEF IsCAMount
<1>5. \A x \in {"root", "shard", "vw", "cache"} : \A certs \in SUBSET (Certificate \ {"kubeconfig"}) :
        ~IsCertMount(x, certs, m)
  BY <1>1 DEF IsCertMount
<1>6. \A x \in Objects : ~IsUserMount(x, m)
  BY <1>3 DEF IsUserMount
<1>7. \A o : ~IsServiceAccountMount(o, m)
  BY <1>1 DEF IsServiceAccountMount, Certificate
<1>8. \A x, b : m # ClientCAMount(x, b)
  BY <1>0 DEF ClientCAMount
<1>9. m \in CacheMounts => m.secret = GetCacheServerKubeconfigName(name["cache"])
  BY <1>0, <1>1 DEF CacheMounts, Certificate
<1>10. ASSUME NEW x \in {"root", "shard"}, IsServerMount(x, in, m)
       PROVE  \/ m.secret = GetShardKubeconfigSecret(name[x], "logical-cluster-admin")
              \/ m.secret = GetShardKubeconfigSecret(name[x], "external-logical-cluster-admin")
              \/ EffectiveCache(in) /\ m.secret = GetCacheServerKubeconfigName(name["cache"])
  <2>1. {"server", "service-account", "client", "logical-cluster-admin", "external-logical-cluster-admin"}
            \in SUBSET (Certificate \ {"kubeconfig"})
    BY DEF Certificate
  <2>2. IsKubeconfigMount(x, {"logical-cluster-admin", "external-logical-cluster-admin"}, m) =>
          m.secret \in {GetShardKubeconfigSecret(name[x], "logical-cluster-admin"),
                        GetShardKubeconfigSecret(name[x], "external-logical-cluster-admin")}
    BY DEF IsKubeconfigMount
  <2>3. m.secret # MergedCABundleName(name[x]) /\ x \in Objects
    BY <1>0 DEF Objects
  <2> QED
    BY <1>4, <1>5, <1>6, <1>7, <1>8, <1>9, <1>10, <2>1, <2>2, <2>3 DEF IsServerMount
<1>11. CASE pod = "root"
  BY <1>10, <1>11, MountsAre
<1>12. CASE pod = "shard"
  <2>1. IsShardMount(in, m)
    BY <1>12, MountsAre
  <2>2. ~IsCertMount("shard", {"mounts-proxy"}, m)
    BY <1>5 DEF Certificate
  <2>3. IsKubeconfigMount("shard", {"client"}, m) =>
          m.secret = GetShardKubeconfigSecret(name["shard"], "client")
    BY DEF IsKubeconfigMount
  <2> QED
    BY <1>10, <1>12, <2>1, <2>2, <2>3 DEF IsShardMount
<1>13. CASE pod \in Proxies
  <2>1. IsProxyMount(pod, in, m)
    BY <1>13, MountsAre
  <2> QED
    BY <1>0, <1>2, <1>4, <1>6, <1>7, <1>13, <2>1 DEF IsProxyMount, Objects
<1>14. CASE pod = "vw"
  <2>1. IsWorkspaceMount(c, in, m)
    BY <1>14, MountsAre
  <2>2. ~IsCertMount("vw", {"server"}, m)
    BY <1>5 DEF Certificate
  <2>3. m # OwnKubeconfigMount(c)
    BY <1>3 DEF OwnKubeconfigMount, KubeconfigOption, Objects
  <2>4. m \in AdminMounts => m.secret = GetShardKubeconfigSecret(name[target], "logical-cluster-admin")
    BY <1>1 DEF AdminMounts, kubeconfigSecret, Certificate
  <2> QED
    BY <1>4, <1>8, <1>9, <1>14, <2>1, <2>2, <2>3, <2>4 DEF IsWorkspaceMount
<1>15. CASE pod = "cache"
  BY <1>0, <1>1, <1>3, <1>15, MountsAre DEF IsCacheServerMount, Certificate, Files, Objects
<1> QED
  BY <1>11, <1>12, <1>13, <1>14, <1>15 DEF Pods, Objects, Proxies

\* A file at a path of a running Pod, at rest.
HasMount(pod, c, s, path) == SecretMount(s, path) \in Mounts(pod, c, compiled[ObjectOf(pod)])

\* The CAs that a mounted Secret brings along.
LEMMA ReadsCAs ==
    ASSUME WiringInv, AtRest, NEW pod \in Pods, NEW c \in Containers(pod, compiled[ObjectOf(pod)]), NEW s,
           NEW path,
           HasMount(pod, c, s, path)
    PROVE  /\ s \notin BundleNames => s \in MountedCAs(pod, c, path)
           /\ s \in DOMAIN bundles => bundles[s] \subseteq MountedCAs(pod, c, path)
<1> DEFINE in == compiled[ObjectOf(pod)]
           m == SecretMount(s, path)
<1>1. m.secret = s /\ m.path = path
  BY DEF SecretMount
<1>2. m \in Mounts(pod, c, in)
  BY DEF HasMount
<1> HIDE DEF m, in
<1>3. s \in MountedSecrets(pod, in)
  BY <1>1, <1>2 DEF MountedSecrets, Volumes, in
<1>4. m \in PodMounts(pod, c)
  BY <1>2, RestDeployment DEF PodMounts, in
<1>5. (IF s \in DOMAIN deployed[pod].bundles THEN deployed[pod].bundles[s] ELSE {s}) \subseteq
        MountedCAs(pod, c, path)
  BY <1>1, <1>4 DEF MountedCAs
<1>6. DOMAIN bundles \subseteq BundleNames
  BY DEF WiringInv, Shape
<1>7. (s \in DOMAIN deployed[pod].bundles <=> s \in DOMAIN bundles) /\ (s \in DOMAIN bundles =>
        deployed[pod].bundles[s] = bundles[s])
  BY <1>3, RestDeployment DEF in
<1> QED
  BY <1>5, <1>6, <1>7

\* The certificates that a mounted Secret brings along.
LEMMA Presents ==
    ASSUME WiringInv, AtRest, NEW pod \in Pods, NEW c, NEW path, NEW h \in Pods, NEW k \in Certificates(h),
           HasMount(pod, c, CertName(h, k.cert), path)
    PROVE  k \in CertificatesAt(pod, c, path)
<1>1. SecretMount(CertName(h, k.cert), path) \in PodMounts(pod, c)
  BY RestDeployment DEF PodMounts, HasMount
<1> QED
  BY <1>1 DEF CertificatesAt

\* Who signed the certificates that servers show.
LEMMA ServersSigned ==
    /\ \A to \in {"root", "shard", "front", "proxy"} :
         {RootCAName("server"), RootCAName("root")} \subseteq ServerChain(to)
    /\ CacheCAName \in ServerChain("cache")
<1>0. RootCAName("server") # CacheCAName /\ RootCAName("client") # CacheCAName
  BY DEF RootCAName, CacheCAName, GetRootShardCAName, GetCacheServerCAName
<1>1. \A c, i, n : Issued(c, i, n).cert = c /\ Issued(c, i, n).issuer = i
  BY DEF Issued
<1>2. \A c, ca : Signed(c, ca).cert = c /\ Signed(c, ca).issuer = RootCAName(ca)
  BY <1>1 DEF Signed
<1>3. ASSUME NEW to \in {"root", "shard", "front", "proxy"}
      PROVE  {RootCAName("server"), RootCAName("root")} \subseteq ServerChain(to)
  <2>1. Signed("server", "server") \in Certificates(to)
    BY DEF Certificates, RootShardServerCertificates, ShardServerCertificate, ProxyServerCertificate, Proxies
  <2>2. \A k \in Certificates(to) : k.cert = "server" => k.issuer = RootCAName("server")
    <3>1. CASE to = "root"
      <4>1. \A k \in Certificates("root") : k = Signed("server", "server") \/
              \E c, ca : c # "server" /\ k = Signed(c, ca)
        BY DEF Certificates, RootShardServerCertificates, RootShardServiceAccountCertificate,
           RootShardAdminCertificates, OperatorClientCertificate, RootShardClientCertificate, Proxies
      <4> QED
        BY <1>2, <3>1, <4>1
    <3>2. CASE to = "shard"
      <4>1. \A k \in Certificates("shard") :
              k = Signed("server", "server") \/
                \E c : c # "server" /\ ((\E ca : k = Signed(c, ca)) \/ \E i, n : k = Issued(c, i, n))
        BY DEF Certificates, ShardServerCertificate, ShardVirtualWorkspacesCertificate,
           ShardServiceAccountCertificate, ShardClientCertificate, MountsProxyClientCertificate,
           ShardAdminCertificates, Proxies
      <4> QED
        BY <1>1, <1>2, <3>2, <4>1
    <3>3. CASE to \in Proxies
      <4>1. \A k \in Certificates(to) :
              k = Signed("server", "server") \/
                \E c : c # "server" /\ ((\E ca : k = Signed(c, ca)) \/ \E i, n : k = Issued(c, i, n))
        BY <3>3 DEF Certificates, ProxyServerCertificate, ProxyKubeconfigCertificate,
             ProxyRequestHeaderCertificate, Proxies
      <4> QED
        BY <1>1, <1>2, <4>1
    <3> QED
      BY <3>1, <3>2, <3>3 DEF Proxies
  <2>3. RootCAName("server") \in {k.issuer : k \in {c \in Certificates(to) : c.cert = "server"}}
    BY <1>2, <2>1
  <2>4. CacheCAName \notin {k.issuer : k \in {c \in Certificates(to) : c.cert = "server"}}
    BY <1>0, <2>2
  <2> QED
    BY <2>3, <2>4 DEF ServerChain
<1>4. CacheCAName \in ServerChain("cache")
  <2>0. \E n : Issued("server", CacheCAName, n) \in Certificates("cache")
    BY DEF Certificates, CacheServerServerCertificate, Proxies
  <2>1. \E k \in Certificates("cache") : k.cert = "server" /\ k.issuer = CacheCAName
    BY <1>1, <2>0
  <2>2. CacheCAName \in {k.issuer : k \in {c \in Certificates("cache") : c.cert = "server"}}
    BY <2>1
  <2> QED
    BY <2>2 DEF ServerChain
<1> QED
  BY <1>3, <1>4

\* At rest every server trusts the client CA of the RootShard, and the cache server that of the cache.
LEMMA ServersAccept ==
    ASSUME WiringInv, AtRest
    PROVE  /\ \A to \in {"root", "shard", "front", "proxy"} : RootCAName("client") \in ClientCAs(to)
           /\ AcceptsEveryone("cache") \/ CacheCAName \in ClientCAs("cache")
<1>1. ASSUME NEW to \in {"root", "shard", "front", "proxy"} PROVE RootCAName("client") \in ClientCAs(to)
  <2>1. to \in Pods \ {"cache"} /\ ObjectOf(to) \in Informed
    BY DEF Pods, Objects, ObjectOf, Informed
  <2> QED
    BY <2>1, TrustedClients DEF MergedClientCAs
<1>2. ASSUME ~AcceptsEveryone("cache") PROVE CacheCAName \in ClientCAs("cache")
  <2>1. "cache" \in Pods /\ ObjectOf("cache") = "cache"
    BY DEF Pods, Objects, ObjectOf
  <2>2. deployed["cache"].in = compiled["cache"]
    BY <2>1, RestDeployment
  <2>3. hasAuthenticatedCache(compiled["cache"]["cache"])
    BY <1>2, <2>2 DEF AcceptsEveryone
  <2>4. SecretMount(CacheCAName, getCacheServerCAMountPath("root")) \in
          CacheServerMounts(compiled["cache"]["cache"])
    BY <2>3 DEF CacheServerMounts
  <2>5. HasMount("cache", "main", CacheCAName, getCacheServerCAMountPath("root"))
    BY <2>1, <2>4 DEF HasMount, Mounts, Proxies
  <2>6. CacheCAName \in MountedCAs("cache", "main", getCacheServerCAMountPath("root"))
    BY <2>1, <2>5, ReadsCAs, CAsNotMerged DEF Containers
  <2> QED
    BY <2>6 DEF ClientCAs, Proxies
<1> QED
  BY <1>1, <1>2

\* The addresses in kubeconfigs, path mappings and the operator's own clients are in the certificates.
LEMMA Addresses ==
    /\ \A to \in {"root", "shard", "cache"} : BaseURL(to, opts[to]) \in DNSNames(to)
    /\ ExternalURL(opts["root"]) \in DNSNames("front")
  BY DEF DNSNames, buildRootShardDNSNames, buildShardDNSNames, frontProxyDNSNames

\* Who uses the cache server mounts its CA and a certificate for it.
LEMMA CacheFilesMounted ==
    ASSUME NEW pod \in {"root", "shard", "vw"}, NEW c, EffectiveCache(compiled[pod])
    PROVE  /\ HasMount(pod, c, CacheCAName, getCacheServerCAMountPath("root"))
           /\ HasMount(pod, c, CertName("cache", "client"), getCacheServerClientCertMountPath)
<1>1. CacheMounts \subseteq Mounts(pod, c, compiled[pod])
  BY DEF Mounts, ServerMounts, ShardMounts, VirtualWorkspaceMounts, Proxies
<1>2. ObjectOf(pod) = pod
  BY DEF ObjectOf
<1> QED
  BY <1>1, <1>2 DEF HasMount, CacheMounts

\* What a RootShard and a Shard mount for their connections.
LEMMA ServerFilesMounted ==
    ASSUME WiringInv, AtRest, NEW x \in {"root", "shard"}, NEW c
    PROVE  /\ \A ca \in {"server", "requestheader-client"} : HasMount(x, c, RootCAName(ca), getCAMountPath(ca))
           /\ \A k \in {"client", "logical-cluster-admin", "external-logical-cluster-admin"} :
                HasMount(x, c, CertName(x, k), getCertificateMountPath(k))
           /\ "caBundle" \in opts[x] => HasMount(x, c, MergedCABundleName(name[x]), getCAMountPath("ca-bundle"))
           /\ x = "shard" /\ supportsMountProxy(opts["shard"]) =>
                HasMount(x, c, CertName(x, "mounts-proxy"), getCertificateMountPath("mounts-proxy"))
<1> DEFINE in == compiled[x]
<1>1. in[x] = opts[x] /\ ObjectOf(x) = x
  BY RestFacts, SpecOf DEF Informed, Objects, ObjectOf
<1>2. ServerMounts(x, in) \subseteq Mounts(x, c, in)
  BY DEF Mounts, ShardMounts, Proxies
<1> HIDE DEF in
<1>3. \A ca \in {"server", "requestheader-client"} :
        SecretMount(RootCAName(ca), getCAMountPath(ca)) \in ServerMounts(x, in)
  BY DEF ServerMounts, CAMounts
<1>4. \A k \in {"client", "logical-cluster-admin", "external-logical-cluster-admin"} :
         SecretMount(CertName(x, k), getCertificateMountPath(k)) \in ServerMounts(x, in)
  BY DEF ServerMounts, CertMounts
<1>5. "caBundle" \in opts[x] => SecretMount(MergedCABundleName(name[x]), getCAMountPath("ca-bundle")) \in
        ServerMounts(x, in)
  BY <1>1 DEF ServerMounts
<1>6. x = "shard" /\ supportsMountProxy(opts["shard"]) =>
        SecretMount(CertName("shard", "mounts-proxy"), getCertificateMountPath("mounts-proxy")) \in
          Mounts(x, c, in)
  BY <1>1 DEF Mounts, ShardMounts, CertMounts, Proxies
<1> QED
  BY <1>1, <1>2, <1>3, <1>4, <1>5, <1>6 DEF HasMount, in

\* What a proxy mounts for its connections.
LEMMA ProxyFilesMounted ==
    ASSUME WiringInv, AtRest, NEW pod \in Proxies, NEW c
    PROVE  /\ HasMount(pod, c, RootCAName("root"), kubeconfigCAPath)
           /\ HasMount(pod, c, CertName(pod, "kubeconfig"), frontProxyPath("kubeconfig-client-cert"))
           /\ HasMount(pod, c, CertName(pod, "requestheader"), frontProxyPath("requestheader-client"))
           /\ "caBundle" \in opts[ObjectOf(pod)] =>
                HasMount(pod, c, backendCABundleSecretName(pod), getCAMountPath("ca-bundle"))
           /\ supportsMountProxy(opts[ObjectOf(pod)]) =>
                HasMount(pod, c, RootCAName("requestheader-client"), getCAMountPath("requestheader-client"))
<1> DEFINE in == compiled[ObjectOf(pod)]
<1>1. in[ObjectOf(pod)] = opts[ObjectOf(pod)]
  BY RestFacts, SpecOf DEF Informed, Objects, ObjectOf, Proxies
<1>2. Mounts(pod, c, in) = ProxyMounts(pod, in)
  BY DEF Mounts, Proxies
<1> HIDE DEF in
<1>3. /\ SecretMount(RootCAName("root"), kubeconfigCAPath) \in ProxyMounts(pod, in)
      /\ SecretMount(CertName(pod, "kubeconfig"), frontProxyPath("kubeconfig-client-cert")) \in
           ProxyMounts(pod, in)
      /\ SecretMount(CertName(pod, "requestheader"), frontProxyPath("requestheader-client")) \in
           ProxyMounts(pod, in)
  BY DEF ProxyMounts
<1>4. "caBundle" \in opts[ObjectOf(pod)] =>
        SecretMount(backendCABundleSecretName(pod), getCAMountPath("ca-bundle")) \in ProxyMounts(pod, in)
  BY <1>1 DEF ProxyMounts, ProxyBundleMounts
<1>5. supportsMountProxy(opts[ObjectOf(pod)]) =>
        SecretMount(RootCAName("requestheader-client"), getCAMountPath("requestheader-client")) \in
          ProxyMounts(pod, in)
  BY <1>1 DEF ProxyMounts, CAMounts
<1> QED
  BY <1>2, <1>3, <1>4, <1>5 DEF HasMount, in

\* What a VirtualWorkspace mounts for its connection to its target.
LEMMA WorkspaceFilesMounted ==
    ASSUME NEW c
    PROVE  /\ HasMount("vw", c, RootCAName("server"), getCAMountPath("server"))
           /\ ~BringsKubeconfig(c, compiled["vw"]["vw"]) =>
                HasMount("vw", c, CertName("vw", "client"), getCertificateMountPath("logical-cluster-admin"))
<1> DEFINE in == compiled["vw"]
<1>1. Mounts("vw", c, in) = VirtualWorkspaceMounts(c, in) /\ ObjectOf("vw") = "vw"
  BY DEF Mounts, Proxies, ObjectOf
<1> HIDE DEF in
<1>2. SecretMount(RootCAName("server"), getCAMountPath("server")) \in VirtualWorkspaceMounts(c, in)
  BY DEF VirtualWorkspaceMounts, CAMounts
<1>3. ~BringsKubeconfig(c, in["vw"]) =>
        SecretMount(CertName("vw", "client"), getCertificateMountPath("logical-cluster-admin")) \in
          VirtualWorkspaceMounts(c, in)
  BY DEF VirtualWorkspaceMounts, containerMounts, AdminMounts
<1> QED
  BY <1>1, <1>2, <1>3 DEF HasMount, in

\* The certificates that clients show, and their issuers.
LEMMA ClientsSigned ==
    /\ \A h \in {"root", "shard"} : \A c \in
         {"client", "logical-cluster-admin", "external-logical-cluster-admin"} :
         \E k \in Certificates(h) : k.cert = c /\ k.issuer = RootCAName("client")
    /\ \A h \in Proxies : \E k \in Certificates(h) : k.cert = "kubeconfig" /\ k.issuer = RootCAName("client")
    /\ \A h \in Proxies : \E k \in Certificates(h) :
         k.cert = "requestheader" /\ k.issuer = RootCAName("requestheader-client") /\ k.cn = certCommonName(h)
    /\ \E k \in Certificates("vw") : k.cert = "client" /\ k.issuer = RootCAName("client")
    /\ \E k \in Certificates("cache") : k.cert = "client" /\ k.issuer = CacheCAName
    /\ \E k \in Certificates("shard") :
         /\ k.cert = "mounts-proxy" /\ k.issuer = RootCAName("requestheader-client")
                                        /\ k.cn = MountsProxyCommonName
<1>1. \A c, i, n : Issued(c, i, n).cert = c /\ Issued(c, i, n).issuer = i /\ Issued(c, i, n).cn = n
  BY DEF Issued
<1>2. \A c, ca : Signed(c, ca).cert = c /\ Signed(c, ca).issuer = RootCAName(ca)
  BY DEF Signed, Issued
<1>3. \A h \in {"root", "shard"} : \A c \in
        {"client", "logical-cluster-admin", "external-logical-cluster-admin"} :
        Signed(c, "client") \in Certificates(h)
  BY DEF Certificates, RootShardAdminCertificates, RootShardClientCertificate, ShardClientCertificate,
     ShardAdminCertificates, Proxies
<1>4. \A h \in Proxies : Signed("kubeconfig", "client") \in Certificates(h)
  BY DEF Certificates, ProxyKubeconfigCertificate, Proxies
<1>5. \A h \in Proxies : Issued("requestheader",
        RootCAName("requestheader-client"), certCommonName(h)) \in Certificates(h)
  BY DEF Certificates, ProxyRequestHeaderCertificate, Proxies
<1>6. Signed("client", "client") \in Certificates("vw")
  BY DEF Certificates, VirtualWorkspaceClientCertificate, Proxies
<1>7. \E k \in Certificates("cache") : k.cert = "client" /\ k.issuer = CacheCAName
  <2>1. \E n : Issued("client", CacheCAName, n) \in Certificates("cache")
    BY DEF Certificates, CacheServerClientCertificate, Proxies
  <2> QED
    BY <1>1, <2>1
<1>8. Issued("mounts-proxy", RootCAName("requestheader-client"),
        MountsProxyCommonName) \in Certificates("shard")
  BY DEF Certificates, MountsProxyClientCertificate, Proxies
<1>9. \A h \in {"root", "shard"} : \A c \in
        {"client", "logical-cluster-admin", "external-logical-cluster-admin"} :
         \E k \in Certificates(h) : k.cert = c /\ k.issuer = RootCAName("client")
  BY <1>2, <1>3
<1>10. \A h \in Proxies : \E k \in Certificates(h) : k.cert = "kubeconfig" /\ k.issuer = RootCAName("client")
  BY <1>2, <1>4
<1>11. \A h \in Proxies : \E k \in Certificates(h) :
         k.cert = "requestheader" /\ k.issuer = RootCAName("requestheader-client") /\ k.cn = certCommonName(h)
  BY <1>1, <1>5
<1> QED
  BY <1>1, <1>2, <1>6, <1>7, <1>8, <1>9, <1>10, <1>11

\* A mounted CA of the server's chain, or a bundle with one, verifies the server.
LEMMA VerifiesWith ==
    ASSUME WiringInv, AtRest, NEW pod \in Pods, NEW c \in Containers(pod, compiled[ObjectOf(pod)]), NEW s,
           NEW path,
           HasMount(pod, c, s, path), NEW to \in Pods, NEW url \in DNSNames(to),
           \/ s \notin BundleNames /\ s \in ServerChain(to)
           \/ s \in DOMAIN bundles /\ bundles[s] \cap ServerChain(to) # {}
    PROVE  Verifies(pod, c, path, to, url)
<1>1. url \in deployed[to].dns
  BY RestDeployment
<1>2. MountedCAs(pod, c, path) \cap ServerChain(to) # {}
  BY ReadsCAs
<1> QED
  BY <1>1, <1>2 DEF Verifies

\* A mounted certificate of an issuer that the server trusts authenticates the client.
LEMMA AuthenticatesWith ==
    ASSUME WiringInv, AtRest, NEW pod \in Pods, NEW c, NEW path, NEW h \in Pods, NEW cert,
           HasMount(pod, c, CertName(h, cert), path), NEW to,
           \E k \in Certificates(h) : k.cert = cert /\ k.issuer \in ClientCAs(to)
    PROVE  Authenticates(pod, c, path, to)
  BY Presents DEF Authenticates

\* A kubeconfig that lets a container connect.
Works(pod, c, k) == Verifies(pod, c, k.ca, k.to, k.url) /\ Authenticates(pod, c, k.cert, k.to)

\* The kubeconfigs that the operator wrote, as they are at rest.
LEMMA WrittenConfigs ==
    ASSUME WiringInv, AtRest
    PROVE  /\ \A x \in {"root", "shard"} :
                /\ kubeconfigs[GetShardKubeconfigSecret(name[x], "logical-cluster-admin")] = AdminConfig(x)
                /\ kubeconfigs[GetShardKubeconfigSecret(name[x], "external-logical-cluster-admin")] =
                     ExternalAdminConfig(x)
           /\ kubeconfigs[GetShardKubeconfigSecret(name["shard"], "client")] = ClientConfig
           /\ kubeconfigs[GetCacheServerKubeconfigName(name["cache"])] = CacheConfig
           /\ \A pod \in Proxies : kubeconfigs[DynamicKubeconfigName(pod)] = dynamicKubeconfig(opts["root"])
<1>1. \A x \in Objects : Agrees(KubeconfigSecrets(x), kubeconfigs) /\ Routed(x)
  BY RestFacts DEF Written
<1>2. \A pod \in Proxies : kubeconfigs[DynamicKubeconfigName(pod)] = dynamicKubeconfig(opts["root"])
  <2> TAKE pod \in Proxies
  <2>1. pod \in PodsOf(ObjectOf(pod)) \cap Proxies /\ ObjectOf(pod) \in Objects /\
          ObjectOf(pod) \in {"front", "root"}
    BY DEF PodsOf, Pods, Objects, ObjectOf, Proxies
  <2>2. compiled[ObjectOf(pod)]["root"] = opts["root"]
    BY <2>1, RestFacts, SpecOf DEF Informed, Objects
  <2> QED
    BY <1>1, <2>1, <2>2 DEF Routed
<1> QED
  BY <1>1, <1>2, KubeconfigDomains, KubeconfigValues DEF Agrees, Objects

\* The parts of a kubeconfig.
LEMMA ConfigFields ==
    ASSUME NEW url, NEW to, NEW ca, NEW cert
    PROVE  /\ Kubeconfig(url, to, ca, cert).url = url /\ Kubeconfig(url, to, ca, cert).to = to
           /\ Kubeconfig(url, to, ca, cert).ca = ca /\ Kubeconfig(url, to, ca, cert).cert = cert
  BY DEF Kubeconfig

\* The server CA is no bundle and signs what the servers show; so does the root CA.
LEMMA CAsVerify ==
    /\ \A to \in {"root", "shard", "front"} : \A ca \in {"server", "root"} :
         RootCAName(ca) \notin BundleNames /\ RootCAName(ca) \in ServerChain(to)
    /\ CacheCAName \notin BundleNames /\ CacheCAName \in ServerChain("cache")
  BY ServersSigned, CAsNotMerged

\* The kubeconfigs work, one after the other: the logical cluster admin's,
LEMMA AdminWorks ==
    ASSUME WiringInv, AtRest, NEW x \in {"root", "shard"}, NEW c \in Containers(x, compiled[x])
    PROVE  Works(x, c, AdminConfig(x))
<1>1. x \in Pods /\ ObjectOf(x) = x
  BY DEF Pods, Objects, ObjectOf
<1>2. HasMount(x, c, RootCAName("server"), getCAMountPath("server"))
      /\ HasMount(x, c, CertName(x, "logical-cluster-admin"), getCertificateMountPath("logical-cluster-admin"))
  BY ServerFilesMounted
<1>3. Verifies(x, c, getCAMountPath("server"), x, BaseURL(x, opts[x]))
  BY <1>1, <1>2, VerifiesWith, CAsVerify, Addresses
<1>4. Authenticates(x, c, getCertificateMountPath("logical-cluster-admin"), x)
  BY <1>1, <1>2, AuthenticatesWith, ClientsSigned, ServersAccept
<1> QED
  BY <1>3, <1>4, ConfigFields DEF Works, AdminConfig

\* the external one's,
LEMMA ExternalAdminWorks ==
    ASSUME WiringInv, AtRest, NEW x \in {"root", "shard"}, NEW c \in Containers(x, compiled[x])
    PROVE  Works(x, c, ExternalAdminConfig(x))
<1>1. x \in Pods /\ ObjectOf(x) = x /\ "front" \in Pods /\ x \in Informed /\ x \in Objects
  BY DEF Pods, Objects, ObjectOf, Informed
<1>2. HasMount(x, c, RootCAName("server"), getCAMountPath("server"))
      /\ HasMount(x, c, CertName(x, "external-logical-cluster-admin"),
                  getCertificateMountPath("external-logical-cluster-admin"))
  BY ServerFilesMounted
<1>3. Verifies(x, c, ExternalCA(opts[x]), "front", ExternalURL(opts["root"]))
  <2>1. CASE "caBundle" \in opts[x]
    <3>1. HasMount(x, c, MergedCABundleName(name[x]), getCAMountPath("ca-bundle"))
      BY <2>1, ServerFilesMounted
    <3>2. Agrees(Bundles(x), bundles)
      BY <1>1, RestFacts DEF Written
    <3>3. MergedCABundleName(name[x]) \in DOMAIN bundles /\
            RootCAName("server") \in bundles[MergedCABundleName(name[x])]
      BY <2>1, <3>2, BundleValues DEF Agrees
    <3>4. bundles[MergedCABundleName(name[x])] \cap ServerChain("front") # {}
      BY <3>3, CAsVerify
    <3>5. Verifies(x, c, getCAMountPath("ca-bundle"), "front", ExternalURL(opts["root"]))
      BY <1>1, <3>1, <3>3, <3>4, VerifiesWith, Addresses
    <3> QED
      BY <2>1, <3>5 DEF ExternalCA
  <2>2. CASE "caBundle" \notin opts[x]
    <3>1. Verifies(x, c, getCAMountPath("server"), "front", ExternalURL(opts["root"]))
      BY <1>1, <1>2, VerifiesWith, CAsVerify, Addresses
    <3> QED
      BY <2>2, <3>1 DEF ExternalCA
  <2> QED
    BY <2>1, <2>2
<1>4. Authenticates(x, c, getCertificateMountPath("external-logical-cluster-admin"), "front")
  BY <1>1, <1>2, AuthenticatesWith, ClientsSigned, ServersAccept
<1> QED
  BY <1>3, <1>4, ConfigFields DEF Works, ExternalAdminConfig

\* the one of a Shard for the RootShard,
LEMMA ClientWorks ==
    ASSUME WiringInv, AtRest, NEW c \in Containers("shard", compiled["shard"])
    PROVE  Works("shard", c, ClientConfig)
<1>1. "shard" \in Pods /\ ObjectOf("shard") = "shard" /\ "root" \in Pods
  BY DEF Pods, Objects, ObjectOf
<1>2. HasMount("shard", c, RootCAName("server"), getCAMountPath("server"))
      /\ HasMount("shard", c, CertName("shard", "client"), getCertificateMountPath("client"))
  BY ServerFilesMounted
<1>3. Verifies("shard", c, getCAMountPath("server"), "root", BaseURL("root", opts["root"]))
  BY <1>1, <1>2, VerifiesWith, CAsVerify, Addresses
<1>4. Authenticates("shard", c, getCertificateMountPath("client"), "root")
  BY <1>1, <1>2, AuthenticatesWith, ClientsSigned, ServersAccept
<1> QED
  BY <1>3, <1>4, ConfigFields DEF Works, ClientConfig

\* the one for the cache server,
LEMMA CacheWorks ==
    ASSUME WiringInv, AtRest, NEW pod \in {"root", "shard", "vw"}, NEW c \in Containers(pod, compiled[pod]),
           EffectiveCache(compiled[pod])
    PROVE  Works(pod, c, CacheConfig)
<1>1. pod \in Pods /\ ObjectOf(pod) = pod /\ "cache" \in Pods
  BY DEF Pods, Objects, ObjectOf
<1>2. /\ HasMount(pod, c, CacheCAName, getCacheServerCAMountPath("root"))
      /\ HasMount(pod, c, CertName("cache", "client"), getCacheServerClientCertMountPath)
  BY CacheFilesMounted
<1>3. Verifies(pod, c, getCacheServerCAMountPath("root"), "cache", BaseURL("cache", opts["cache"]))
  BY <1>1, <1>2, VerifiesWith, CAsVerify, Addresses
<1>4. Authenticates(pod, c, getCacheServerClientCertMountPath, "cache")
  <2>1. CASE AcceptsEveryone("cache")
    BY <2>1 DEF Authenticates
  <2>2. CASE CacheCAName \in ClientCAs("cache")
    BY <1>1, <1>2, <2>2, AuthenticatesWith, ClientsSigned
  <2> QED
    BY <2>1, <2>2, ServersAccept
<1> QED
  BY <1>3, <1>4, ConfigFields DEF Works, CacheConfig

\* the one that a proxy maps paths to,
LEMMA DynamicWorks ==
    ASSUME WiringInv, AtRest, NEW pod \in Proxies, NEW c \in Containers(pod, compiled[ObjectOf(pod)])
    PROVE  Works(pod, c, dynamicKubeconfig(opts["root"]))
<1>1. pod \in Pods /\ "root" \in Pods
  BY DEF Pods, Objects, Proxies
<1>2. /\ HasMount(pod, c, RootCAName("root"), kubeconfigCAPath)
      /\ HasMount(pod, c, CertName(pod, "kubeconfig"), frontProxyPath("kubeconfig-client-cert"))
  BY ProxyFilesMounted
<1>3. Verifies(pod, c, kubeconfigCAPath, "root", BaseURL("root", opts["root"]))
  BY <1>1, <1>2, VerifiesWith, CAsVerify, Addresses
<1>4. Authenticates(pod, c, frontProxyPath("kubeconfig-client-cert"), "root")
  BY <1>1, <1>2, AuthenticatesWith, ClientsSigned, ServersAccept
<1> QED
  BY <1>3, <1>4, ConfigFields DEF Works, dynamicKubeconfig

\* and the one that a VirtualWorkspace mounts of its target.
LEMMA WorkspaceWorks ==
    ASSUME WiringInv, AtRest, NEW c \in Containers("vw", compiled["vw"]),
           ~BringsKubeconfig(c, compiled["vw"]["vw"])
    PROVE  Works("vw", c, AdminConfig(target))
<1>1. "vw" \in Pods /\ ObjectOf("vw") = "vw" /\ target \in Pods /\ target \in {"root", "shard"}
  BY DEF Pods, Objects, ObjectOf, WiringInv, Static
<1>2. HasMount("vw", c, RootCAName("server"), getCAMountPath("server"))
      /\ HasMount("vw", c, CertName("vw", "client"), getCertificateMountPath("logical-cluster-admin"))
  BY WorkspaceFilesMounted
<1>3. Verifies("vw", c, getCAMountPath("server"), target, BaseURL(target, opts[target]))
  BY <1>1, <1>2, VerifiesWith, CAsVerify, Addresses
<1>4. Authenticates("vw", c, getCertificateMountPath("logical-cluster-admin"), target)
  BY <1>1, <1>2, AuthenticatesWith, ClientsSigned, ServersAccept
<1> QED
  BY <1>3, <1>4, ConfigFields DEF Works, AdminConfig

\* Every kubeconfig that a container mounts works.
LEMMA KubeconfigsWork ==
    ASSUME WiringInv, AtRest, NEW pod \in Pods, NEW c \in Containers(pod, deployed[pod].in),
           NEW k \in MountedKubeconfigs(pod, c)
    PROVE  Works(pod, c, k)
<1> DEFINE in == compiled[ObjectOf(pod)]
<1>1. deployed[pod].in = in /\ c \in Containers(pod, in)
  BY RestDeployment
<1>2. PICK m \in PodMounts(pod, c) : m.secret \in DOMAIN deployed[pod].kubeconfigs
                                     /\ k = deployed[pod].kubeconfigs[m.secret]
  BY DEF MountedKubeconfigs
<1>3. m \in Mounts(pod, c, in)
  BY <1>1, <1>2 DEF PodMounts
<1>4. m.secret \in MountedSecrets(pod, in)
  <2> HIDE DEF in
  <2> QED
    BY <1>1, <1>3 DEF MountedSecrets, Volumes
<1>5. m.secret \in DOMAIN kubeconfigs /\ k = kubeconfigs[m.secret]
  BY <1>2, <1>4, RestDeployment
<1>6. ProperNames(name) /\ target \in {"root", "shard"} /\ m.secret \in KubeconfigNames
  BY <1>5 DEF WiringInv, Static, Shape
<1>7. pod \notin Proxies => in = compiled[pod]
  BY DEF ObjectOf, Proxies
<1> HIDE DEF in
<1>8. CASE pod \in {"root", "shard"} /\ m.secret = GetShardKubeconfigSecret(name[pod], "logical-cluster-admin")
  BY <1>1, <1>5, <1>7, <1>8, WrittenConfigs, AdminWorks DEF Proxies
<1>9. CASE pod \in {"root", "shard"} /\ m.secret =
           GetShardKubeconfigSecret(name[pod], "external-logical-cluster-admin")
  BY <1>1, <1>5, <1>7, <1>9, WrittenConfigs, ExternalAdminWorks DEF Proxies
<1>10. CASE pod = "shard" /\ m.secret = GetShardKubeconfigSecret(name["shard"], "client")
  BY <1>1, <1>5, <1>7, <1>10, WrittenConfigs, ClientWorks DEF Proxies
<1>11. CASE /\ pod \in {"root", "shard", "vw"} /\ EffectiveCache(in)
            /\ m.secret = GetCacheServerKubeconfigName(name["cache"])
  BY <1>1, <1>5, <1>7, <1>11, WrittenConfigs, CacheWorks DEF Proxies
<1>12. CASE pod \in Proxies /\ m.secret = DynamicKubeconfigName(pod)
  BY <1>1, <1>5, <1>12, WrittenConfigs, DynamicWorks DEF in
<1>13. CASE /\ pod = "vw" /\ m.secret = GetShardKubeconfigSecret(name[target], "logical-cluster-admin")
            /\ ~BringsKubeconfig(c, in["vw"])
  BY <1>1, <1>5, <1>6, <1>7, <1>13, WrittenConfigs, WorkspaceWorks DEF Proxies
<1> QED
  BY <1>3, <1>6, <1>8, <1>9, <1>10, <1>11, <1>12, <1>13, KubeconfigMounted

\* The shards accept what a mounted certificate says about the user.
LEMMA HeadersAccepted ==
    ASSUME WiringInv, AtRest, NEW pod \in Pods, NEW path, NEW h \in Pods, NEW cert, NEW to \in Pods,
           NEW k \in Certificates(h),
           HasMount(pod, "main", CertName(h, cert), path), k.cert = cert, k.issuer =
             RootCAName("requestheader-client"),
           HasMount(to, "main", RootCAName("requestheader-client"), getCAMountPath("requestheader-client")),
           k.cn \in AllowedNames(to)
    PROVE  AuthenticatesHeaders(pod, path, to)
<1>1. k \in CertificatesAt(pod, "main", path)
  BY Presents
<1>2. RootCAName("requestheader-client") \in HeaderCAs(to)
  BY ReadsCAs, CAsNotMerged DEF HeaderCAs, Containers
<1> QED
  BY <1>1, <1>2 DEF AuthenticatesHeaders

\* A proxy reaches the RootShard and the Shards behind it.
LEMMA ProxiesRoute ==
    ASSUME WiringInv, AtRest, NEW pod \in Proxies, NEW to \in {"root", "shard"}
    PROVE  /\ Verifies(pod, "main", mapping[pod].ca, to, BaseURL(to, opts[to]))
           /\ mapping[pod].url = BaseURL("root", opts["root"])
           /\ AuthenticatesHeaders(pod, frontProxyPath("requestheader-client"), to)
<1> DEFINE x == ObjectOf(pod)
<1>1. pod \in Pods /\ to \in Pods /\ x \in Objects /\ x \in Informed /\ x \in {"front", "root"} /\
        pod \in PodsOf(x) \cap Proxies
  BY DEF Pods, Objects, ObjectOf, Informed, Proxies, PodsOf
<1>2. compiled[x]["root"] = opts["root"] /\ compiled[x][x] = opts[x]
  BY <1>1, RestFacts, SpecOf
<1>3. mapping[pod] = defaultPathMappings(pod, compiled[x])
  BY <1>1, RestFacts DEF Routed
<1>4. /\ mapping[pod].url = BaseURL("root", opts["root"])
      /\ mapping[pod].ca = IF "caBundle" \in opts[x] THEN getCAMountPath("ca-bundle") ELSE kubeconfigCAPath
  BY <1>2, <1>3 DEF defaultPathMappings
<1>5. "main" \in Containers(pod, compiled[x]) /\ BaseURL(to, opts[to]) \in DNSNames(to)
  BY Addresses DEF Containers
<1>6. ASSUME "caBundle" \in opts[x] PROVE Verifies(pod, "main", mapping[pod].ca, to, BaseURL(to, opts[to]))
  <2>1. HasMount(pod, "main", backendCABundleSecretName(pod), getCAMountPath("ca-bundle"))
    BY <1>6, ProxyFilesMounted
  <2>2. Agrees(Bundles(x), bundles)
    BY <1>1, RestFacts DEF Written
  <2>3. /\ backendCABundleSecretName(pod) \in DOMAIN bundles
        /\ RootCAName("server") \in bundles[backendCABundleSecretName(pod)]
    BY <1>6, <2>2, BundleValues DEF Agrees
  <2>4. bundles[backendCABundleSecretName(pod)] \cap ServerChain(to) # {}
    BY <2>3, CAsVerify
  <2> QED
    BY <1>1, <1>4, <1>5, <1>6, <2>1, <2>3, <2>4, VerifiesWith
<1>7. ASSUME "caBundle" \notin opts[x] PROVE Verifies(pod, "main", mapping[pod].ca, to, BaseURL(to, opts[to]))
  BY <1>1, <1>4, <1>5, <1>7, VerifiesWith, CAsVerify, ProxyFilesMounted
<1>8. AuthenticatesHeaders(pod, frontProxyPath("requestheader-client"), to)
  <2>1. PICK k \in Certificates(pod) :
            k.cert = "requestheader" /\ k.issuer = RootCAName("requestheader-client") /\
              k.cn = certCommonName(pod)
    BY ClientsSigned
  <2>2. k.cn \in AllowedNames(to)
    BY <2>1 DEF AllowedNames, certCommonName, Proxies
  <2> QED
    BY <1>1, <2>1, <2>2, HeadersAccepted, ProxyFilesMounted, ServerFilesMounted
<1> QED
  BY <1>4, <1>6, <1>7, <1>8

\* The Shard reaches the proxies for mounted workspaces, if both are new enough.
LEMMA MountsProxied ==
    ASSUME WiringInv, AtRest, NEW pod \in
           Proxies, supportsMountProxy(opts["shard"]), supportsMountProxy(opts[ObjectOf(pod)])
    PROVE  AuthenticatesHeaders("shard", getCertificateMountPath("mounts-proxy"), pod)
<1>1. "shard" \in Pods /\ pod \in Pods
  BY DEF Pods, Objects, Proxies
<1>2. PICK k \in Certificates("shard") :
           /\ k.cert = "mounts-proxy" /\ k.issuer = RootCAName("requestheader-client")
                                         /\ k.cn = MountsProxyCommonName
  BY ClientsSigned
<1>3. k.cn \in AllowedNames(pod)
  BY <1>2 DEF AllowedNames
<1> QED
  BY <1>1, <1>2, <1>3, HeadersAccepted, ProxyFilesMounted, ServerFilesMounted

\* The operator itself reaches the shards.
LEMMA OperatorConnects ==
    ASSUME WiringInv, AtRest, NEW to \in {"root", "shard"}
    PROVE  Endpoint(to) \in deployed[to].dns /\ \E k \in TLSConfig : k.issuer \in ClientCAs(to)
<1>1. to \in Pods
  BY DEF Pods, Objects
<1>2. Endpoint(to) \in deployed[to].dns
  BY <1>1, RestDeployment, Addresses DEF Endpoint
<1>3. Signed("kcp-operator", "client") \in TLSConfig /\
        Signed("kcp-operator", "client").issuer = RootCAName("client")
  BY DEF TLSConfig, OperatorClientCertificate, Signed, Issued
<1> QED
  BY <1>2, <1>3, ServersAccept

\* Promises that are kept make connections that work.
LEMMA AllConnected ==
    ASSUME WiringInv
    PROVE  Connected
<1> SUFFICES ASSUME AtRest
             PROVE  /\ \A pod \in Pods : \A c \in Containers(pod, deployed[pod].in) :
                         \A k \in MountedKubeconfigs(pod, c) :
                            Verifies(pod, c, k.ca, k.to, k.url) /\ Authenticates(pod, c, k.cert, k.to)
                    /\ \A pod \in Proxies :
                         /\ Verifies(pod, "main", mapping[pod].ca, "root", mapping[pod].url)
                         /\ \A to \in {"root", "shard"} :
                              /\ Verifies(pod, "main", mapping[pod].ca, to, BaseURL(to, opts[to]))
                              /\ AuthenticatesHeaders(pod, frontProxyPath("requestheader-client"), to)
                    /\ \A pod \in Proxies :
                         supportsMountProxy(opts["shard"]) /\ supportsMountProxy(opts[ObjectOf(pod)]) =>
                            AuthenticatesHeaders("shard", getCertificateMountPath("mounts-proxy"), pod)
                    /\ \A to \in {"root", "shard"} :
                         Endpoint(to) \in deployed[to].dns /\ \E k \in TLSConfig : k.issuer \in ClientCAs(to)
  BY DEF Connected
<1>1. \A pod \in Pods : \A c \in Containers(pod, deployed[pod].in) : \A k \in MountedKubeconfigs(pod, c) :
        Verifies(pod, c, k.ca, k.to, k.url) /\ Authenticates(pod, c, k.cert, k.to)
  BY KubeconfigsWork DEF Works
<1>2. \A pod \in Proxies : \A to \in {"root", "shard"} :
        /\ Verifies(pod, "main", mapping[pod].ca, to, BaseURL(to, opts[to]))
        /\ mapping[pod].url = BaseURL("root", opts["root"])
        /\ AuthenticatesHeaders(pod, frontProxyPath("requestheader-client"), to)
  BY ProxiesRoute
<1>3. \A pod \in Proxies : Verifies(pod, "main", mapping[pod].ca, "root", mapping[pod].url)
  <2> TAKE pod \in Proxies
  <2>1. /\ Verifies(pod, "main", mapping[pod].ca, "root", BaseURL("root", opts["root"]))
        /\ mapping[pod].url = BaseURL("root", opts["root"])
    BY <1>2
  <2> QED
    BY <2>1
<1> QED
  BY <1>1, <1>2, <1>3, MountsProxied, OperatorConnects

\* When nothing is left to do, every connection that the operator sets up works: the kubeconfigs in
\* the containers, the path mappings and request headers of the proxies, the Shard's mount proxy and
\* the operator's own clients.
THEOREM EveryoneConnected ==
    ASSUME NamesProper, IssuerGiven
    PROVE  Spec => []Connected
  BY Wired, AllConnected, PTL

=============================================================================
