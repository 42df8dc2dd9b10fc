----------------------------- MODULE PodWiring -----------------------------
(***************************************************************************)
(* How the Pods of a kcp installation find their files and each other.     *)
(* The controllers of a RootShard, a Shard, a FrontProxy, a                *)
(* VirtualWorkspace and a CacheServer write certificates, CA bundles and   *)
(* kubeconfigs into Secrets and publish Compiled objects; the compiled     *)
(* controllers turn these into Deployments that mount the Secrets and      *)
(* point kcp's flags at them.  The paths in flags, mounts and kubeconfigs  *)
(* are put together in different packages, from specs that are read at     *)
(* different times.                                                        *)
(*                                                                         *)
(* PodSpecs has what is written; here is when.  cert-manager issues all    *)
(* outstanding Certificates of an object at once (RenderPipeline has them  *)
(* one by one), and Secrets that users refer to exist.                     *)
(***************************************************************************)
EXTENDS PodSpecs

CONSTANTS
    Names,       \* names that an object may have
    Parts,       \* the words between the dashes of a name or of a suffix
    Situations,  \* initial situations: [name, target, opts, new]
    Editable,    \* the options that may be edited, per object
    MaxEdits     \* bound on edits

\* The words that resources.go puts behind the name of an object.
Suffixes ==
    Certificate \cup (CA \ {"root"}) \cup
    {"kcp", "proxy", "shard", "cache-server", "virtual-workspace", "front-proxy", "ca", "kubeconfig",
     "dynamic-kubeconfig", "client-certificate", "config", "merged-client-ca", "merged-ca-bundle"}

ASSUME PartsAssumption ==
    \A w \in Names \cup Suffixes : Parts[w] \in Seq(STRING) /\ Parts[w] # <<>>

\* Of what refers to a RootShard nothing is in place before it is.
ASSUME SituationAssumption ==
    \A s \in Situations :
        /\ s.name \in [Objects -> STRING] /\ s.target \in {"root", "shard"}
        /\ s.opts \in [Objects -> SUBSET UNION {Options[x] : x \in Objects}]
        /\ \A x \in Objects : s.opts[x] \subseteq Options[x]
        /\ s.new \subseteq Objects
        /\ "root" \in s.new => {"shard", "front", "vw"} \subseteq s.new

ASSUME EditAssumption ==
    MaxEdits \in Nat /\ \A x \in Objects : Editable[x] \subseteq Options[x]

VARIABLES
    requested,   \* per holder: the DNS names its server Certificate asks for, {} without Certificates
    issued,      \* per holder: the DNS names in the issued certificate, {} before
    kubeconfigs, \* the Secrets with a kubeconfig
    bundles,     \* the Secrets with a merged CA bundle
    mapping,     \* the path mappings of the two proxies
    compiled,    \* the spec of each Compiled object, None before it is published
    deployed,    \* the Deployments
    sourceQ,     \* pending passes of the source controllers
    compiledQ,   \* pending passes of the compiled controllers
    rollout,     \* objects whose changed Deployment has not shown up in the status yet
    edits

written == <<kubeconfigs, bundles, mapping>>
vars == <<sourceQ, compiledQ, rollout, edits, name, target, opts, requested, issued, written, compiled,
          deployed>>

ClientCAExists == issued.root # {}

Secrets ==
    DOMAIN kubeconfigs \cup DOMAIN bundles \cup UserSecrets \cup
    UNION {CertSecrets(pod) : pod \in {p \in Pods : issued[p] # {}}}

-----------------------------------------------------------------------------
(* Initial situations.                                                      *)

Only(f, S) == [k \in DOMAIN f \cap S |-> f[k]]

\* A Deployment: what it was rendered from, and the revisions of the Secrets it mounts.
Deployment(pod, in, kcs, bs) ==
    LET mounted == MountedSecrets(pod, in)
    IN [in |-> in, bundles |-> Only(bs, mounted), kubeconfigs |-> Only(kcs, mounted),
        dns |-> issued[pod]]

\* The part of it that the Pods are made of: other changes of the render input roll out nothing.
PodTemplate(pod, d) ==
    IF d = None THEN None
    ELSE [d EXCEPT !.in = [c \in Containers(pod, d.in) |-> <<Mounts(pod, c, d.in), Args(pod, d.in)>>]]

\* The objects of `done` are in place and rendered, the others have not been looked at.
InPlace(done) ==
    LET pods == {pod \in Pods : ObjectOf(pod) \in done}
        AllKubeconfigs ==
            KubeconfigSecrets("root") @@ KubeconfigSecrets("shard") @@ KubeconfigSecrets("cache") @@
            [n \in {DynamicKubeconfigName(pod) : pod \in Proxies} |-> dynamicKubeconfig(opts.root)]
        AllBundles == Bundles("root") @@ Bundles("shard") @@ Bundles("front") @@ Bundles("vw")
    IN
    /\ requested = [h \in Pods |-> IF h \in pods THEN DNSNames(h) ELSE {}]
    /\ issued = requested
    /\ kubeconfigs = Only(AllKubeconfigs, {DynamicKubeconfigName(pod) : pod \in pods \cap Proxies} \cup
                                         UNION {DOMAIN KubeconfigSecrets(x) : x \in done})
    /\ bundles = Only(AllBundles, UNION {DOMAIN Bundles(x) : x \in done})
    /\ compiled = [x \in Objects |-> IF x \in done THEN CompiledSpec(x) ELSE None]
    /\ mapping = [pod \in Proxies |->
                    IF pod \in pods THEN defaultPathMappings(pod, compiled[ObjectOf(pod)]) ELSE None]
    /\ deployed = [pod \in Pods |->
                    IF pod \in pods THEN Deployment(pod, compiled[ObjectOf(pod)], kubeconfigs, bundles)
                    ELSE None]

\* What is new is not edited before it is in place.
Init ==
    /\ \E s \in Situations :
        /\ name = s.name /\ target = s.target /\ opts = s.opts
        /\ InPlace(Objects \ s.new)
        /\ sourceQ = s.new
        /\ edits = IF s.new = {} THEN 0 ELSE MaxEdits
    /\ compiledQ = {} /\ rollout = {}

-----------------------------------------------------------------------------
(* Watches.                                                                 *)

\* Whose events wake the controller of an object, besides those of the object itself.  o: the
\* current options.
RootShardWatches(o) == {"shard"} \cup {e \in {"vw"} : "vw" \in o.root}

ShardWatches(o) == {"root"} \cup {e \in {"vw"} : "vw" \in o.shard}

\* A plausible bug: the FrontProxy controller does not watch RootShards
FrontProxyWatchesNothing == {}

FrontProxyWatches == {"root"}

\* A plausible bug: the VirtualWorkspace controller watches neither RootShards nor Shards
VirtualWorkspaceWatchesNothing == {}

\* Only the target: the RootShard behind a Shard is not among them.
VirtualWorkspaceWatches == {target}

Watches(x, o) ==
    CASE x = "root"  -> RootShardWatches(o)
      [] x = "shard" -> ShardWatches(o)
      [] x = "front" -> FrontProxyWatches
      [] x = "vw"    -> VirtualWorkspaceWatches
      [] x = "cache" -> {}

Woken(e, o) == {x \in Objects : e \in Watches(x, o)}

\* EnqueueAllInNamespace wakes all compiled controllers; those whose Pods mount none of the changed
\* Secrets would find nothing to do.
SecretWakes(comp, changed) ==
    {x \in Objects : /\ changed # {} /\ comp[x] # None
                     /\ \E pod \in PodsOf(x) : MountedSecrets(pod, comp[x]) \cap changed # {}}

Changed(f, g) == {n \in DOMAIN g : n \notin DOMAIN f \/ f[n] # g[n]}

-----------------------------------------------------------------------------
(* Actions.                                                                 *)

Edit(x, o) ==
    /\ edits < MaxEdits
    /\ opts' = [opts EXCEPT ![x] = IF o \in @ THEN @ \ {o} ELSE @ \cup {o}]
    /\ edits' = edits + 1
    /\ sourceQ' = sourceQ \cup {x} \cup Woken(x, opts')
    /\ UNCHANGED <<name, target, requested, issued, written, compiled, deployed, compiledQ, rollout>>

\* Whose Certificates a pass of x creates: a proxy's only once the client CA can be read.
Holders(x) ==
    CASE x = "root"  -> {"root"} \cup {h \in {"proxy"} : ClientCAExists}
      [] x = "front" -> {h \in {"front"} : ClientCAExists}
      [] OTHER       -> {x}

\* The bundles whose CAs can be read.
WritableBundles(x) ==
    IF x = "shard"
    THEN (IF ClientCAExists THEN MergedClientCABundle(x) ELSE <<>>) @@
         (IF issued.shard # {} THEN MergedCABundle(x, MergedCABundleName(name.shard)) ELSE <<>>)
    ELSE IF ClientCAExists THEN Bundles(x) ELSE <<>>

\* A plausible bug: the VirtualWorkspace's bundle is read without a look at whether it is set
FailsWithoutBundle(x) == x = "vw" /\ "clientBundle" \notin opts.vw

\* The pass returns an error and is retried.
Fails(x) ==
    \/ x \in {"root", "front"} /\ ~ClientCAExists
    \/ DOMAIN WritableBundles(x) # DOMAIN Bundles(x)

\* Without Certificates nothing is waited for; a VirtualWorkspace stops at the first error.
Publishes(x) ==
    /\ \A h \in Holders(x) : issued[h] = DNSNames(h)
    /\ x = "vw" => ~Fails(x)

\* A pass of the source controller of x.  What it writes wakes it once more, for a pass that
\* finds nothing to do.
SourcePass(x) ==
    /\ x \in sourceQ
    /\ requested' = [h \in Pods |-> IF h \in Holders(x) THEN DNSNames(h) ELSE requested[h]]
    /\ kubeconfigs' = KubeconfigSecrets(x) @@ kubeconfigs
    /\ bundles' = WritableBundles(x) @@ bundles
    /\ compiled' = IF Publishes(x) THEN [compiled EXCEPT ![x] = CompiledSpec(x)] ELSE compiled
    /\ sourceQ' = IF Fails(x) THEN sourceQ ELSE sourceQ \ {x}
    /\ compiledQ' = compiledQ
            \cup SecretWakes(compiled', Changed(kubeconfigs, kubeconfigs') \cup Changed(bundles, bundles'))
            \cup {y \in Objects : compiled'[y] # compiled[y]}
    /\ UNCHANGED <<name, target, opts, issued, mapping, deployed, rollout, edits>>

\* cert-manager issues what is outstanding of one holder.
Outstanding(h) ==
    /\ requested[h] # {} /\ issued[h] # requested[h]
    /\ h \in {"root", "cache"} \/ ClientCAExists

Issue(h) ==
    /\ Outstanding(h)
    /\ issued' = [issued EXCEPT ![h] = requested[h]]
    /\ sourceQ' = sourceQ \cup {ObjectOf(h)}
    /\ compiledQ' = compiledQ \cup SecretWakes(compiled, CertSecrets(h))
    /\ UNCHANGED <<name, target, opts, requested, written, compiled, deployed, rollout, edits>>

\* A pass of the compiled controller of x: a Deployment is left alone while a Secret is missing.
RenderPass(x) ==
    LET in   == compiled[x]
        mine == PodsOf(x) \cap Proxies
    IN
    /\ x \in compiledQ
    /\ mapping' = [pod \in Proxies |-> IF pod \in mine THEN defaultPathMappings(pod, in) ELSE mapping[pod]]
    /\ kubeconfigs' = [n \in {DynamicKubeconfigName(pod) : pod \in mine} |-> dynamicKubeconfig(in.root)]
                      @@ kubeconfigs
    /\ deployed' = [pod \in Pods |->
                        IF pod \in PodsOf(x) /\ MountedSecrets(pod, in) \subseteq Secrets \cup DOMAIN kubeconfigs'
                        THEN Deployment(pod, in, kubeconfigs', bundles) ELSE deployed[pod]]
    /\ rollout' = rollout \cup {y \in {x} \cap {"root", "shard", "vw"} :
                                /\ deployed'[y] # deployed[y]
                                /\ PodTemplate(y, deployed'[y]) # PodTemplate(y, deployed[y])}
    /\ compiledQ' = compiledQ \ {x}
    /\ UNCHANGED <<name, target, opts, requested, issued, bundles, compiled, sourceQ, edits>>

\* The rollout of the object's own Deployment changes its Available condition, at least while a new
\* Pod of several replicas is not ready.  A change of the Compiled object alone does not: the source
\* adopts the condition with its own generation.  Nothing depends on the status of a FrontProxy or a
\* CacheServer, and they watch all that they depend on.
RolloutSeen(x) ==
    /\ x \in rollout
    /\ rollout' = rollout \ {x}
    /\ sourceQ' = sourceQ \cup {x} \cup Woken(x, opts)
    /\ UNCHANGED <<name, target, opts, requested, issued, written, compiled, deployed, compiledQ, edits>>

Work ==
    \/ \E x \in Objects : SourcePass(x) \/ RenderPass(x) \/ RolloutSeen(x)
    \/ \E h \in Pods : Issue(h)

Next ==
    \/ \E x \in Objects : \E o \in Editable[x] : Edit(x, o)
    \/ Work

\* As long as there is something to do, some of it is done: queues are served, cert-manager works
\* and rollouts are seen.
Fairness == WF_vars(Work)

Spec == Init /\ [][Next]_vars /\ Fairness

-----------------------------------------------------------------------------
(* What a running Pod has.                                                  *)

AtRest == sourceQ = {} /\ compiledQ = {} /\ rollout = {} /\ \A h \in Pods : ~Outstanding(h)

Running == {pod \in Pods : deployed[pod] # None}

PodMounts(pod, c) == Mounts(pod, c, deployed[pod].in)

\* The CAs in the file of a mounted Secret.
MountedCAs(pod, c, path) ==
    UNION {IF m.secret \in DOMAIN deployed[pod].bundles THEN deployed[pod].bundles[m.secret]
           ELSE {m.secret} : m \in {n \in PodMounts(pod, c) : n.path = path}}

\* The CAs whose client certificates a Pod accepts, and those it accepts request headers from.
ClientCAs(pod) ==
    MountedCAs(pod, "main", CASE pod \in Proxies -> frontProxyPath("client-ca")
                              [] pod = "cache"   -> getCacheServerCAMountPath("root")
                              [] OTHER           -> getCAMountPath("client"))

HeaderCAs(pod) == MountedCAs(pod, "main", getCAMountPath("requestheader-client"))

AllowedNames(pod) ==
    IF pod \in Proxies THEN {certCommonName(pod), MountsProxyCommonName}
    ELSE {FrontProxyCommonName, RootShardProxyCommonName}

AcceptsEveryone(pod) == pod = "cache" /\ ~hasAuthenticatedCache(deployed.cache.in.cache)

\* The certificates mounted at a path.
CertificatesAt(pod, c, path) ==
    UNION {{k \in Certificates(h) : SecretMount(CertName(h, k.cert), path) \in PodMounts(pod, c)} : h \in Pods}

\* Servers send the certificate of the CA that signed theirs along, so the root CA is enough.
ServerChain(pod) ==
    LET signers == {k.issuer : k \in {c \in Certificates(pod) : c.cert = "server"}}
    IN IF CacheCAName \in signers THEN signers ELSE signers \cup {RootCAName("root")}

\* The client verifies the server, and the server the client.
Verifies(pod, c, ca, to, url) ==
    /\ url \in deployed[to].dns
    /\ MountedCAs(pod, c, ca) \cap ServerChain(to) # {}

Authenticates(pod, c, cert, to) ==
    \/ AcceptsEveryone(to)
    \/ \E k \in CertificatesAt(pod, c, cert) : k.issuer \in ClientCAs(to)

AuthenticatesHeaders(pod, cert, to) ==
    \E k \in CertificatesAt(pod, "main", cert) :
        k.issuer \in HeaderCAs(to) /\ k.cn \in AllowedNames(to)

\* The kubeconfigs that the operator wrote and a container mounts.
MountedKubeconfigs(pod, c) ==
    {deployed[pod].kubeconfigs[m.secret] :
        m \in {n \in PodMounts(pod, c) : n.secret \in DOMAIN deployed[pod].kubeconfigs}}

-----------------------------------------------------------------------------
(* Properties.                                                              *)

\* Every Compiled object and every Deployment is made from options of the right objects; what a
\* Pod serves was issued before.
TypeOK ==
    /\ opts \in [Objects -> SUBSET UNION {Options[x] : x \in Objects}]
    /\ \A x \in Objects : opts[x] \subseteq Options[x]
    /\ \A x \in Objects : compiled[x] # None => x \in DOMAIN compiled[x]
    /\ \A pod \in Running : deployed[pod].dns # {} /\ compiled[ObjectOf(pod)] # None
    /\ sourceQ \subseteq Objects /\ compiledQ \subseteq {x \in Objects : compiled[x] # None} /\ rollout \subseteq Objects
    /\ edits \in 0..MaxEdits

\* In every container no two volumes share a mount path, and every file that a flag names is in a
\* mounted volume (compiledshard, compiledrootshard, compiledfrontproxy, compiledvirtualworkspace,
\* compiledcacheserver: the path functions, the mounts and getArgs are written separately).  A
\* container that brings a kubeconfig of its own does not get the logical cluster admin's files.
FilesMounted ==
    \A pod \in Running : \A c \in Containers(pod, deployed[pod].in) :
        LET mounts == PodMounts(pod, c)
            paths  == {m.path : m \in mounts}
        IN /\ Cardinality(paths) = Cardinality(mounts)
           /\ c = "main" => Args(pod, deployed[pod].in) \subseteq paths
           /\ pod = "vw" /\ BringsKubeconfig(c, deployed.vw.in.vw) =>
                paths \cap {m.path : m \in AdminMounts} = {}

\* The objects whose controllers watch all that they read.  A VirtualWorkspace reads the RootShard
\* behind its Shard and does not watch it.
Informed == {x \in Objects : x = "vw" => target = "root"}

\* When nothing is left to do, every Compiled object carries the current specs of its object and
\* of the objects it resolves, and every Deployment was rendered from it with the present contents of
\* what it mounts: each controller was woken by the changes it depends on, in whatever order they
\* happened.
Current ==
    AtRest =>
        \A pod \in Pods :
            LET x == ObjectOf(pod) IN
            x \in Informed =>
                /\ compiled[x] = CompiledSpec(x)
                /\ deployed[pod] = Deployment(pod, compiled[x], kubeconfigs, bundles)

\* The VirtualWorkspace of a Shard hears of a changed RootShard only over the Shard's rollout.  After
\* a single edit it may keep an old spec of the RootShard, but none that makes a difference to its
\* Pods.  An edit that is taken back while another one wakes it can leave a difference.
WorkspaceCurrent ==
    AtRest /\ edits <= 1 =>
        PodTemplate("vw", deployed.vw) =
            PodTemplate("vw", Deployment("vw", CompiledSpec("vw"), kubeconfigs, Bundles("vw") @@ bundles))

\* When nothing is left to do, each Pod trusts the client CAs that the documentation lists for it
\* (docs/content/architecture/pki.md): the root client CA, the RootShard's bundle and its own.
ClientTrust ==
    AtRest =>
        \A pod \in Running \ {"cache"} :
            ObjectOf(pod) \in Informed =>
                ClientCAs(pod) = {RootCAName("client")} \cup
                    {UserSecret(y, "clientBundle") :
                        y \in {z \in {"root", ObjectOf(pod)} : "clientBundle" \in opts[z]}}

\* When nothing is left to do, all connections work: the address is one the server's certificate
\* is issued for, a file mounted at the path in the kubeconfig has a CA of the server, and the
\* client certificate mounted at the path in the kubeconfig is one the server accepts.
Connected ==
    (AtRest /\ Running = Pods) =>
        /\ \A pod \in Pods : \A c \in Containers(pod, deployed[pod].in) :
             \A k \in MountedKubeconfigs(pod, c) :
                Verifies(pod, c, k.ca, k.to, k.url) /\ Authenticates(pod, c, k.cert, k.to)
        /\ \A pod \in Proxies :
             /\ Verifies(pod, "main", mapping[pod].ca, "root", mapping[pod].url)
             /\ \A to \in {"root", "shard"} :
                  /\ Verifies(pod, "main", mapping[pod].ca, to, BaseURL(to, opts[to]))
                  /\ AuthenticatesHeaders(pod, frontProxyPath("requestheader-client"), to)
        /\ \A pod \in Proxies :
             supportsMountProxy(opts.shard) /\ supportsMountProxy(opts[ObjectOf(pod)]) =>
                AuthenticatesHeaders("shard", getCertificateMountPath("mounts-proxy"), pod)
        /\ \A to \in {"root", "shard"} :
             /\ Endpoint(to) \in deployed[to].dns
             /\ \E k \in TLSConfig : k.issuer \in ClientCAs(to)

-----------------------------------------------------------------------------
(* Names.  Several words joined with dashes are one string: who reads it    *)
(* cannot tell where the name of the object ends.                           *)

\* fmt.Sprintf("%s-%s"): the words of the name in the order in which they stand there.
Joined(s) ==
    IF Len(s) = 2 THEN Parts[s[1]] \o Parts[s[2]] ELSE Parts[s[1]] \o Parts[s[2]] \o Parts[s[3]]

\* What the operator creates for an object when the objects are called n, with certificates, CAs
\* and kubeconfigs of any kind.
SecretsOf(x, n) ==
    CASE x = "root" ->
            {GetRootShardCertificateName(n.root, c) : c \in Certificate} \cup
            {GetRootShardCAName(n.root, ca) : ca \in CA} \cup
            {GetRootShardKubeconfigSecret(n.root, c) : c \in Certificate} \cup
            {GetMergedClientCAName(n.root), MergedCABundleName(n.root)} \cup
            {GetRootShardProxyCertificateName(n.root, c) : c \in Certificate} \cup
            {GetRootShardProxyDynamicKubeconfigName(n.root), ProxyMergedClientCAName(n.root),
             ProxyMergedCABundleName(n.root)}
      [] x = "shard" ->
            {GetShardCertificateName(n.shard, c) : c \in Certificate} \cup
            {GetShardKubeconfigSecret(n.shard, c) : c \in Certificate} \cup
            {GetMergedClientCAName(n.shard), MergedCABundleName(n.shard)}
      [] x = "front" ->
            {GetFrontProxyCertificateName(n.root, n.front, c) : c \in Certificate} \cup
            {GetFrontProxyDynamicKubeconfigName(n.root, n.front), GetMergedClientCAName(n.front),
             MergedCABundleName(n.front)}
      [] x = "vw" ->
            {GetVirtualWorkspaceCertificateName(n.vw, c) : c \in Certificate} \cup
            {GetMergedClientCAName(n.vw)}
      [] x = "cache" ->
            {GetCacheServerCertificateName(n.cache, c) : c \in Certificate} \cup
            {GetCacheServerClientCertificateName(n.cache), GetCacheServerCAName(n.cache, "root"),
             GetCacheServerKubeconfigName(n.cache)}

DeploymentsOf(x, n) ==
    CASE x = "root"  -> {GetRootShardDeploymentName(n.root), GetRootShardProxyDeploymentName(n.root)}
      [] x = "shard" -> {GetShardDeploymentName(n.shard)}
      [] x = "front" -> {GetFrontProxyDeploymentName(n.front)}
      [] x = "vw"    -> {GetVirtualWorkspaceDeploymentName(n.vw)}
      [] x = "cache" -> {GetCacheServerDeploymentName(n.cache)}

ServicesOf(x, n) ==
    CASE x = "root"  -> {GetRootShardServiceName(n.root), GetRootShardProxyServiceName(n.root)}
      [] x = "shard" -> {GetShardServiceName(n.shard)}
      [] x = "front" -> {GetFrontProxyServiceName(n.front)}
      [] x = "vw"    -> {GetVirtualWorkspaceServiceName(n.vw)}
      [] x = "cache" -> {GetCacheServerServiceName(n.cache)}

ConfigMapsOf(x, n) ==
    CASE x = "root"  -> {GetRootShardProxyConfigName(n.root)}
      [] x = "front" -> {GetFrontProxyConfigName(n.front)}
      [] OTHER       -> {}

LabelsOf(pod, n) ==
    CASE pod = "root"  -> GetRootShardResourceLabels(n.root)
      [] pod = "proxy" -> GetRootShardProxyResourceLabels(n.root)
      [] pod = "shard" -> GetShardResourceLabels(n.shard)
      [] pod = "front" -> GetFrontProxyResourceLabels(n.front)
      [] pod = "vw"    -> GetVirtualWorkspaceResourceLabels(n.vw)
      [] pod = "cache" -> GetCacheServerResourceLabels(n.cache)

\* What the names of an object's children begin with.
Prefixes(x, n) ==
    {Parts[n[x]]} \cup IF x = "front" THEN {Parts[n.root] \o Parts[n.front]} ELSE {}

\* The words that follow.
Reserved == {Parts[w][1] : w \in Suffixes}

Continues(q, p) == Len(p) <= Len(q) /\ \A i \in 1..Len(p) : q[i] = p[i]

\* A rule for names: they differ, and if one of them continues another one, it does not go on with
\* a word of the operator.
ApartNames(n) ==
    \A x, y \in Objects : \A p \in Prefixes(x, n), q \in Prefixes(y, n) :
        x # y /\ Continues(q, p) => Len(p) < Len(q) /\ q[Len(p) + 1] \notin Reserved

\* Objects whose names follow the rule have no Secret, Deployment, Service or ConfigMap in common.
\* Whatever their names, a Deployment selects no Pods of another one.
NamesApart ==
    \A n \in [Objects -> Names] :
        /\ \A p, q \in Pods : LabelsOf(p, n) = LabelsOf(q, n) => p = q
        /\ ApartNames(n) =>
             \A x, y \in Objects : x # y =>
                /\ {Joined(s) : s \in SecretsOf(x, n)} \cap {Joined(s) : s \in SecretsOf(y, n)} = {}
                /\ {Joined(s) : s \in DeploymentsOf(x, n)} \cap {Joined(s) : s \in DeploymentsOf(y, n)} = {}
                /\ {Joined(s) : s \in ServicesOf(x, n)} \cap {Joined(s) : s \in ServicesOf(y, n)} = {}
                /\ {Joined(s) : s \in ConfigMapsOf(x, n)} \cap {Joined(s) : s \in ConfigMapsOf(y, n)} = {}

\* The Secrets that somebody writes for an object.
Writes(x) ==
    DOMAIN KubeconfigSecrets(x) \cup DOMAIN Bundles(x) \cup
    {DynamicKubeconfigName(pod) : pod \in PodsOf(x) \cap Proxies} \cup
    UNION {CertSecrets(pod) : pod \in PodsOf(x)}

\* Nobody overwrites what belongs to another object (resources.go puts a suffix behind the name of
\* the owner, whatever its kind, and a FrontProxy's Secrets begin with the RootShard's name): objects
\* with names of any number of words that follow the rule of ApartNames share nothing, and the
\* controllers write no Secret that is not among those considered.  Other names do collide: a Shard
\* and a VirtualWorkspace of one name share <name>-merged-client-ca, a CacheServer called
\* <root>-server takes the Secret of the RootShard's server CA for its own CA.
OneWriter ==
    /\ NamesApart
    /\ \A x \in Objects : Writes(x) \subseteq SecretsOf(x, name)

\* What the wiring needs of names without dashes: they differ, and the FrontProxy is not called like a
\* part of the RootShard's names.
ProperNames(n) ==
    /\ \A x, y \in Objects : n[x] = n[y] => x = y
    /\ n.front \notin {"proxy", "logical-cluster-admin", "external-logical-cluster-admin"}

\* The operator reaches the RootShard's proxy under an address its certificate is issued for.
ProxyReachable ==
    AtRest => Endpoint("proxy") \in issued.proxy

\* After the last edit the controllers, which wake each other, come to rest.
Settles == <>[]AtRest

=============================================================================
