------------------------------ MODULE PodSpecs ------------------------------
(***************************************************************************)
(* What the controllers make of the specs of a RootShard, a Shard, a       *)
(* FrontProxy, a VirtualWorkspace and a CacheServer: certificates, CA      *)
(* bundles, kubeconfigs, and the mounts and flags of the Pods.  PodWiring  *)
(* says when they do it.                                                   *)
(*                                                                         *)
(* One object of each kind, in one namespace.  The CacheServer has an      *)
(* issuerRef.                                                              *)
(***************************************************************************)
EXTENDS Naming, Naturals, FiniteSets

VARIABLES
    name,     \* the name of each object
    target,   \* what the VirtualWorkspace serves: "root" or "shard"
    opts      \* the options set in each object's spec

-----------------------------------------------------------------------------
(* Objects, options and what an object's Compiled object contains.          *)

Objects == {"root", "shard", "front", "vw", "cache"}

\* The RootShard has a proxy of its own.
Pods == Objects \cup {"proxy"}
Proxies == {"front", "proxy"}
ObjectOf(pod) == IF pod = "proxy" THEN "root" ELSE pod
PodsOf(x) == {pod \in Pods : ObjectOf(pod) = x}

None == <<>>

\* The functions of module TLC, with definitions that a proof can expand.
k :> v == [x \in {k} |-> v]
f @@ g == [x \in DOMAIN f \cup DOMAIN g |-> IF x \in DOMAIN f THEN f[x] ELSE g[x]]

\* clientBundle, caBundle: clientCABundleRef and caBundleSecretRef.  cache: a reference to the
\* CacheServer.  vw: kcpVirtualWorkspace.  sa: service account authentication.  files: every setting
\* that brings a file of the user along (etcd TLS, audit, authorization, authentication).
\* old: an image older than the mount proxy, respectively than the authenticated cache.  domain,
\* url, private: clusterDomain, shardBaseURL, external.privateHostname.  ownCA: caSecretRef instead
\* of issuerRef.  kubeconfig: kubeconfigSecretRef.  init, initKubeconfig: an init container, and
\* one with its own kubeconfig.
RootShardOptions == {"clientBundle", "caBundle", "cache", "vw", "sa", "files", "old", "domain", "url",
                     "private", "ownCA"}
ShardOptions == {"clientBundle", "caBundle", "cache", "vw", "sa", "files", "old", "domain", "url"}
FrontProxyOptions == {"clientBundle", "caBundle", "sa", "files", "old"}
VirtualWorkspaceOptions == {"clientBundle", "kubeconfig", "init", "initKubeconfig", "domain"}
CacheServerOptions == {"files", "old", "domain"}

Options == [root |-> RootShardOptions, shard |-> ShardOptions, front |-> FrontProxyOptions,
            vw |-> VirtualWorkspaceOptions, cache |-> CacheServerOptions]

\* The specs that the Compiled objects carry: their own, and those of what they refer to.
ConfiguredVirtualWorkspace(x) == IF "vw" \in opts[x] THEN {"vw"} ELSE {}

CompiledRootShard == {"root"} \cup ConfiguredVirtualWorkspace("root")
CompiledShard == {"shard", "root"} \cup ConfiguredVirtualWorkspace("shard")
CompiledFrontProxy == {"front", "root"}
CompiledVirtualWorkspace == {"vw", "root", target}
CompiledCacheServer == {"cache"}

Inputs(x) ==
    CASE x = "root"  -> CompiledRootShard
      [] x = "shard" -> CompiledShard
      [] x = "front" -> CompiledFrontProxy
      [] x = "vw"    -> CompiledVirtualWorkspace
      [] x = "cache" -> CompiledCacheServer

CompiledSpec(x) == [y \in Inputs(x) |-> opts[y]]

DomainOf(o) == IF "domain" \in o THEN "corp" ELSE ""

\* The host of shardBaseURL.
ExtractHostnameFromURL(x, o) == IF "url" \in o THEN <<"public", x>> ELSE <<>>

\* The address under which clients are told to reach an object, from its spec.
BaseURL(x, o) ==
    CASE x = "root"  -> GetRootShardBaseURL(name.root, DomainOf(o), ExtractHostnameFromURL(x, o))
      [] x = "shard" -> GetShardBaseURL(name.shard, DomainOf(o), ExtractHostnameFromURL(x, o))
      [] x = "cache" -> GetCacheServerBaseURL(name.cache, DomainOf(o))
      [] x = "vw"    -> GetVirtualWorkspaceBaseURL(name.vw, DomainOf(o))

\* The front-proxy's address, as the RootShard has it.
ExternalURL(root) == IF "private" \in root THEN <<"private">> ELSE <<"external">>

-----------------------------------------------------------------------------
(* Certificates: the CA that signs one, and the common name where request   *)
(* header authentication looks at it.                                       *)

RootCAName(ca) == GetRootShardCAName(name.root, ca)
CacheCAName == GetCacheServerCAName(name.cache, "root")

\* The name of a certificate's Secret.
CertName(pod, cert) ==
    CASE pod = "root"  -> GetRootShardCertificateName(name.root, cert)
      [] pod = "proxy" -> GetRootShardProxyCertificateName(name.root, cert)
      [] pod = "shard" -> GetShardCertificateName(name.shard, cert)
      [] pod = "front" -> GetFrontProxyCertificateName(name.root, name.front, cert)
      [] pod = "vw"    -> GetVirtualWorkspaceCertificateName(name.vw, cert)
      [] pod = "cache" -> IF cert = "client" THEN GetCacheServerClientCertificateName(name.cache)
                          ELSE GetCacheServerCertificateName(name.cache, cert)

Issued(cert, issuer, cn) == [cert |-> cert, issuer |-> issuer, cn |-> cn]
Signed(cert, ca) == Issued(cert, RootCAName(ca), "")

RootShardServerCertificates == {Signed("server", "server"), Signed("virtual-workspaces", "server")}
RootShardServiceAccountCertificate == {Signed("service-account", "service-account")}
RootShardAdminCertificates ==
    {Signed("logical-cluster-admin", "client"), Signed("external-logical-cluster-admin", "client")}
OperatorClientCertificate == {Signed("kcp-operator", "client")}
RootShardClientCertificate == {Signed("client", "client")}

ShardServerCertificate == {Signed("server", "server")}
ShardVirtualWorkspacesCertificate == {Signed("virtual-workspaces", "server")}
ShardServiceAccountCertificate == {Signed("service-account", "service-account")}
ShardClientCertificate == {Signed("client", "client")}
MountsProxyClientCertificate ==
    {Issued("mounts-proxy", RootCAName("requestheader-client"), MountsProxyCommonName)}
ShardAdminCertificates ==
    {Signed("logical-cluster-admin", "client"), Signed("external-logical-cluster-admin", "client")}

certCommonName(pod) == IF pod = "front" THEN FrontProxyCommonName ELSE RootShardProxyCommonName

ProxyServerCertificate == {Signed("server", "server")}
ProxyKubeconfigCertificate == {Signed("kubeconfig", "client")}
ProxyRequestHeaderCertificate(pod) ==
    {Issued("requestheader", RootCAName("requestheader-client"), certCommonName(pod))}

VirtualWorkspaceServerCertificate == {Signed("server", "server")}
VirtualWorkspaceClientCertificate == {Signed("client", "client")}

CacheServerServerCertificate == {Issued("server", CacheCAName, "")}
CacheServerClientCertificate == {Issued("client", CacheCAName, "")}

Certificates(pod) ==
    CASE pod = "root"    -> RootShardServerCertificates \cup RootShardServiceAccountCertificate \cup
                            RootShardAdminCertificates \cup OperatorClientCertificate \cup
                            RootShardClientCertificate
      [] pod = "shard"   -> ShardServerCertificate \cup ShardVirtualWorkspacesCertificate \cup
                            ShardServiceAccountCertificate \cup ShardClientCertificate \cup
                            MountsProxyClientCertificate \cup ShardAdminCertificates
      [] pod \in Proxies -> ProxyServerCertificate \cup ProxyKubeconfigCertificate \cup
                            ProxyRequestHeaderCertificate(pod)
      [] pod = "vw"      -> VirtualWorkspaceServerCertificate \cup VirtualWorkspaceClientCertificate
      [] pod = "cache"   -> CacheServerServerCertificate \cup CacheServerClientCertificate

buildRootShardDNSNames ==
    {GetRootShardBaseHost(name.root, DomainOf(opts.root)), <<"external">>, BaseURL("root", opts.root)}

buildShardDNSNames ==
    {GetShardBaseHost(name.shard, DomainOf(opts.shard)), BaseURL("shard", opts.shard)}

frontProxyDNSNames ==
    {GetFrontProxyServiceName(name.front) \o <<DefaultClusterDomain>>, <<"external">>,
     ExternalURL(opts.root)}

\* The DNS names of the server certificate, from the specs the source controller reads.
DNSNames(pod) ==
    CASE pod = "root"  -> buildRootShardDNSNames
      [] pod = "shard" -> buildShardDNSNames
      [] pod \in {"vw", "cache"} -> {BaseURL(pod, opts[pod])}
      [] pod = "front" -> frontProxyDNSNames
      [] pod = "proxy" -> {GetRootShardProxyServiceName(name.root) \o <<DefaultClusterDomain>>}

\* With caSecretRef the root CA stays where the user put it.
RootCACertificate == IF "ownCA" \in opts.root THEN {} ELSE {RootCAName("root")}
CACertificates == {RootCAName(ca) : ca \in {"server", "service-account", "client", "requestheader-client"}}
CacheServerRootCACertificate == {CacheCAName}

\* The Secrets that exist once the certificates of a holder are issued.
CertSecrets(pod) ==
    {CertName(pod, c.cert) : c \in Certificates(pod)} \cup
    CASE pod = "root"  -> CACertificates \cup RootCACertificate
      [] pod = "cache" -> CacheServerRootCACertificate
      [] OTHER         -> {}

\* Secrets of the user, for options and for the files of an object.
Files == {"etcd", "audit-policy", "audit-webhook", "authorization-webhook", "oidc", "token",
          "authentication-webhook"}
UserSecret(x, o) == <<"user", x, o>>
UserSecrets ==
    {UserSecret(x, o) : x \in Objects, o \in Files \cup UNION {Options[y] : y \in Objects}}

-----------------------------------------------------------------------------
(* Paths and mounts.  A path is the sequence of its components below /etc.  *)

getCertificateMountPath(cert) == <<"kcp", "tls", cert>>
getCAMountPath(ca) == <<"kcp", "tls", "ca", ca>>
getKubeconfigMountPath(cert) ==
    <<"kcp", CASE cert = "client" -> "client-kubeconfig"
               [] cert = "logical-cluster-admin" -> "logical-cluster-admin-kubeconfig"
               [] cert = "external-logical-cluster-admin" -> "external-logical-cluster-admin-kubeconfig">>
getServerKubeconfigMountPath == <<"kcp", "server-kubeconfig">>
getInitKubeconfigMountPath == <<"kcp", "init-kubeconfig">>
getCacheServerKubeconfigMountPath == <<"cache-server", "kubeconfig">>
getCacheServerCAMountPath(ca) == <<"cache-server", "tls", "ca", ca>>
getCacheServerClientCertMountPath == <<"cache-server", "tls", "client-certificate">>
cacheServerCertificateMountPath == <<"cache-server", "tls", "server">>
getEtcdCertificateMountPath == <<"cache-server", "etcd">>
frontProxyPath(dir) == <<"kcp-front-proxy", dir>>
\* Where a proxy mounts the root CA: the parent of the other CAs' directories.
kubeconfigCAPath == <<"kcp", "tls", "ca">>

SecretMount(secret, path) == [secret |-> secret, path |-> path]

CertMounts(pod, certs) ==
    {SecretMount(CertName(pod, c), getCertificateMountPath(c)) : c \in certs}

CAMounts(cas) == {SecretMount(RootCAName(ca), getCAMountPath(ca)) : ca \in cas}

KubeconfigMounts(x, certs) ==
    {SecretMount(GetShardKubeconfigSecret(name[x], c), getKubeconfigMountPath(c)) : c \in certs}

\* The client CA, merged with the bundles of the RootShard and of the object if there are any.
ClientCAMount(x, merged) ==
    SecretMount(IF merged THEN GetMergedClientCAName(name[x]) ELSE RootCAName("client"),
                getCAMountPath("client"))

CacheMounts ==
    {SecretMount(GetCacheServerKubeconfigName(name.cache), getCacheServerKubeconfigMountPath),
     SecretMount(CacheCAName, getCacheServerCAMountPath("root")),
     SecretMount(CertName("cache", "client"), getCacheServerClientCertMountPath)}

\* The user's files, each at a path of its own.
UserFile(x, o, file, path) == IF "files" \in o THEN {SecretMount(UserSecret(x, file), path)} ELSE {}

applyEtcdConfiguration(x, o) == UserFile(x, o, "etcd", <<"etcd", "tls">>)
applyAuditPolicyConfiguration(x, o) == UserFile(x, o, "audit-policy", <<"kcp", "audit", "policy">>)
applyAuditWebhookConfiguration(x, o) == UserFile(x, o, "audit-webhook", <<"kcp", "audit", "webhook">>)
applyAuthorizationConfiguration(x, o) ==
    UserFile(x, o, "authorization-webhook", <<"kcp", "authorization", "webhook">>)
applyOIDCConfiguration(x, o) == UserFile(x, o, "oidc", <<"kcp", "tls", "oidc">>)
applyTokenAuthFile(x, o) == UserFile(x, o, "token", <<"kcp", "authentication", "token">>)
applyAuthenticationWebhookConfiguration(x, o) ==
    UserFile(x, o, "authentication-webhook", <<"kcp", "authentication", "webhook">>)

ApplyCommonShardConfig(x, o) ==
    applyEtcdConfiguration(x, o) \cup applyAuditPolicyConfiguration(x, o) \cup
    applyAuditWebhookConfiguration(x, o) \cup applyAuthorizationConfiguration(x, o)

\* The service account certificates of the root shard and of every shard.
serviceAccountPath(x) == <<"kcp", "tls", name[x], "service-account">>

\* A plausible bug: only the first of the certificates is mounted
ServiceAccountOfRoot(o) ==
    IF "sa" \in o THEN {SecretMount(CertName("root", "service-account"), serviceAccountPath("root"))} ELSE {}

applyServiceAccountAuthentication(o) ==
    IF "sa" \in o
    THEN {SecretMount(CertName(x, "service-account"), serviceAccountPath(x)) : x \in {"root", "shard"}}
    ELSE {}

ApplyAuthConfiguration(x, o) ==
    applyOIDCConfiguration(x, o) \cup applyAuthenticationWebhookConfiguration(x, o) \cup
    applyTokenAuthFile(x, o) \cup applyServiceAccountAuthentication(o)

\* getEffectiveCacheRef: the shard's own reference or the RootShard's (both name the one CacheServer).
EffectiveCache(in) == \E y \in DOMAIN in \cap {"root", "shard"} : "cache" \in in[y]

supportsMountProxy(o) == "old" \notin o
hasAuthenticatedCache(o) == "old" \notin o

\* What a RootShard mounts, and a Shard as well.
ServerMounts(x, in) ==
    CAMounts({"root", "server", "service-account", "requestheader-client"}) \cup
    CertMounts(x, {"server", "service-account", "client", "logical-cluster-admin",
                   "external-logical-cluster-admin"}) \cup
    KubeconfigMounts(x, {"logical-cluster-admin", "external-logical-cluster-admin"}) \cup
    {ClientCAMount(x, "clientBundle" \in in["root"] \cup in[x])} \cup
    (IF "caBundle" \in in[x]
     THEN {SecretMount(MergedCABundleName(name[x]), getCAMountPath("ca-bundle"))} ELSE {}) \cup
    (IF EffectiveCache(in) THEN CacheMounts ELSE {}) \cup
    ApplyCommonShardConfig(x, in[x]) \cup ApplyAuthConfiguration(x, in[x])

ShardMounts(in) ==
    ServerMounts("shard", in) \cup KubeconfigMounts("shard", {"client"}) \cup
    IF supportsMountProxy(in.shard) THEN CertMounts("shard", {"mounts-proxy"}) ELSE {}

clientCABundleSecretName(pod) ==
    IF pod = "front" THEN GetMergedClientCAName(name.front) ELSE ProxyMergedClientCAName(name.root)

backendCABundleSecretName(pod) ==
    IF pod = "front" THEN MergedCABundleName(name.front) ELSE ProxyMergedCABundleName(name.root)

DynamicKubeconfigName(pod) ==
    IF pod = "front" THEN GetFrontProxyDynamicKubeconfigName(name.root, name.front)
    ELSE GetRootShardProxyDynamicKubeconfigName(name.root)

\* A plausible bug: the bundle for the backends is not mounted
ProxyBundleMountsNone(pod, own) == {}

ProxyBundleMounts(pod, own) ==
    IF "caBundle" \in own
    THEN {SecretMount(backendCABundleSecretName(pod), getCAMountPath("ca-bundle"))} ELSE {}

ProxyMounts(pod, in) ==
    LET own == in[ObjectOf(pod)]
    IN {SecretMount(DynamicKubeconfigName(pod), frontProxyPath("kubeconfig")),
        SecretMount(CertName(pod, "kubeconfig"), frontProxyPath("kubeconfig-client-cert")),
        SecretMount(CertName(pod, "server"), frontProxyPath("tls")),
        SecretMount(CertName(pod, "requestheader"), frontProxyPath("requestheader-client")),
        SecretMount(RootCAName("root"), kubeconfigCAPath),
        SecretMount(clientCABundleSecretName(pod), frontProxyPath("client-ca"))} \cup
       (IF supportsMountProxy(own) THEN CAMounts({"requestheader-client"}) ELSE {}) \cup
       ProxyBundleMounts(pod, own) \cup
       IF pod = "front" THEN ApplyAuthConfiguration("front", own) ELSE {}

\* The containers of a Pod, and the kubeconfig of its own that a VirtualWorkspace's container has.
getInitContainers(pod, in) == IF pod = "vw" /\ "init" \in in.vw THEN {"init"} ELSE {}

Containers(pod, in) == {"main"} \cup getInitContainers(pod, in)

KubeconfigOption(c) == IF c = "main" THEN "kubeconfig" ELSE "initKubeconfig"

BringsKubeconfig(c, own) == KubeconfigOption(c) \in own

\* The logical cluster admin's kubeconfig of the target, with the VirtualWorkspace's client
\* certificate at the place where that kubeconfig expects one.
kubeconfigSecret(cert) == GetShardKubeconfigSecret(name[target], cert)

AdminMounts ==
    {SecretMount(kubeconfigSecret("logical-cluster-admin"), getKubeconfigMountPath("logical-cluster-admin")),
     SecretMount(CertName("vw", "client"), getCertificateMountPath("logical-cluster-admin"))}

OwnKubeconfigMount(c) ==
    SecretMount(UserSecret("vw", KubeconfigOption(c)),
                IF c = "main" THEN getServerKubeconfigMountPath ELSE getInitKubeconfigMountPath)

containerMounts(c, own) == IF BringsKubeconfig(c, own) THEN {OwnKubeconfigMount(c)} ELSE AdminMounts

VirtualWorkspaceMounts(c, in) ==
    CAMounts({"root", "server", "requestheader-client"}) \cup CertMounts("vw", {"server"}) \cup
    {ClientCAMount("vw", "clientBundle" \in in.root \cup in.vw)} \cup
    (IF EffectiveCache(in) THEN CacheMounts ELSE {}) \cup
    containerMounts(c, in.vw)

CacheServerMounts(o) ==
    {SecretMount(CertName("cache", "server"), cacheServerCertificateMountPath)} \cup
    (IF hasAuthenticatedCache(o)
     THEN {SecretMount(CacheCAName, getCacheServerCAMountPath("root"))} ELSE {}) \cup
    UserFile("cache", o, "etcd", getEtcdCertificateMountPath)

Mounts(pod, c, in) ==
    CASE pod = "root"    -> ServerMounts("root", in)
      [] pod = "shard"   -> ShardMounts(in)
      [] pod \in Proxies -> ProxyMounts(pod, in)
      [] pod = "vw"      -> VirtualWorkspaceMounts(c, in)
      [] pod = "cache"   -> CacheServerMounts(in.cache)

\* The volumes of a Pod.  A VirtualWorkspace has those of the admin's files even when every container
\* brings a kubeconfig of its own and mounts none of them.
AdminVolumes(pod) == IF pod = "vw" THEN AdminMounts ELSE {}

Volumes(pod, in) == AdminVolumes(pod) \cup UNION {Mounts(pod, c, in) : c \in Containers(pod, in)}

MountedSecrets(pod, in) == {m.secret : m \in Volumes(pod, in)}

-----------------------------------------------------------------------------
(* Flags: the directories of the files that they name.                      *)

serviceAccountFlags(o) == IF "sa" \in o THEN {serviceAccountPath(x) : x \in {"root", "shard"}} ELSE {}

authFlags(o) ==
    serviceAccountFlags(o) \cup
    IF "files" \in o
    THEN {<<"kcp", "tls", "oidc">>, <<"kcp", "authentication", "token">>,
          <<"kcp", "authentication", "webhook">>} ELSE {}

shardFlags(o) ==
    IF "files" \in o
    THEN {<<"etcd", "tls">>, <<"kcp", "audit", "policy">>, <<"kcp", "audit", "webhook">>,
          <<"kcp", "authorization", "webhook">>} ELSE {}

ServerArgs(x, in) ==
    {getCAMountPath(ca) : ca \in {"root", "client", "requestheader-client"}} \cup
    {getCertificateMountPath(c) : c \in {"server", "service-account", "client"}} \cup
    {getKubeconfigMountPath("logical-cluster-admin"),
     getKubeconfigMountPath("external-logical-cluster-admin")} \cup
    (IF "vw" \in in[x] THEN {getCAMountPath("server")} ELSE {}) \cup
    authFlags(in[x]) \cup shardFlags(in[x])

RootShardArgs(in) ==
    ServerArgs("root", in) \cup
    IF "cache" \in in.root THEN {getCacheServerKubeconfigMountPath} ELSE {}

\* A shard's cache is the cache server, or the root shard if there is none.
ShardArgs(in) ==
    ServerArgs("shard", in) \cup
    {getKubeconfigMountPath("client"),
     IF EffectiveCache(in) THEN getCacheServerKubeconfigMountPath
     ELSE getKubeconfigMountPath("client")} \cup
    IF supportsMountProxy(in.shard) THEN {getCertificateMountPath("mounts-proxy")} ELSE {}

ProxyArgs(pod, in) ==
    {frontProxyPath("kubeconfig"), frontProxyPath("tls"), frontProxyPath("client-ca")} \cup
    (IF supportsMountProxy(in[ObjectOf(pod)]) THEN {getCAMountPath("requestheader-client")} ELSE {}) \cup
    IF pod = "front" THEN authFlags(in.front) ELSE {}

serverKubeconfigMountPath(in) ==
    IF BringsKubeconfig("main", in.vw) THEN getServerKubeconfigMountPath
    ELSE getKubeconfigMountPath("logical-cluster-admin")

VirtualWorkspaceArgs(in) ==
    {getCAMountPath("client"), getCAMountPath("requestheader-client"),
     getCertificateMountPath("server"), serverKubeconfigMountPath(in)} \cup
    IF EffectiveCache(in) THEN {getCacheServerKubeconfigMountPath} ELSE {}

CacheServerArgs(o) ==
    {cacheServerCertificateMountPath} \cup
    (IF hasAuthenticatedCache(o) THEN {getCacheServerCAMountPath("root")} ELSE {}) \cup
    IF "files" \in o THEN {getEtcdCertificateMountPath} ELSE {}

Args(pod, in) ==
    CASE pod = "root"    -> RootShardArgs(in)
      [] pod = "shard"   -> ShardArgs(in)
      [] pod \in Proxies -> ProxyArgs(pod, in)
      [] pod = "vw"      -> VirtualWorkspaceArgs(in)
      [] pod = "cache"   -> CacheServerArgs(in.cache)

-----------------------------------------------------------------------------
(* Kubeconfigs and CA bundles.                                              *)

\* A kubeconfig: the address, who answers there, and the directories of the CA and of the client
\* certificate, as the container sees them.
Kubeconfig(url, to, ca, cert) == [url |-> url, to |-> to, ca |-> ca, cert |-> cert]

\* The CA for connections to the front-proxy.
ExternalCA(own) == getCAMountPath(IF "caBundle" \in own THEN "ca-bundle" ELSE "server")

LogicalClusterAdminKubeconfig(x) ==
    GetShardKubeconfigSecret(name[x], "logical-cluster-admin") :>
        Kubeconfig(BaseURL(x, opts[x]), x, getCAMountPath("server"),
                   getCertificateMountPath("logical-cluster-admin"))

ExternalLogicalClusterAdminKubeconfig(x) ==
    GetShardKubeconfigSecret(name[x], "external-logical-cluster-admin") :>
        Kubeconfig(ExternalURL(opts.root), "front", ExternalCA(opts[x]),
                   getCertificateMountPath("external-logical-cluster-admin"))

RootShardClientKubeconfig ==
    GetShardKubeconfigSecret(name.shard, "client") :>
        Kubeconfig(BaseURL("root", opts.root), "root", getCAMountPath("server"),
                   getCertificateMountPath("client"))

RootShardKubeconfigs ==
    LogicalClusterAdminKubeconfig("root") @@ ExternalLogicalClusterAdminKubeconfig("root")

CacheServerKubeconfig ==
    GetCacheServerKubeconfigName(name.cache) :>
        Kubeconfig(BaseURL("cache", opts.cache), "cache", getCacheServerCAMountPath("root"),
                   getCacheServerClientCertMountPath)

\* The kubeconfig Secrets that a source pass of x writes.
KubeconfigSecrets(x) ==
    CASE x = "root"  -> RootShardKubeconfigs
      [] x = "shard" -> LogicalClusterAdminKubeconfig("shard") @@
                        ExternalLogicalClusterAdminKubeconfig("shard") @@ RootShardClientKubeconfig
      [] x = "cache" -> CacheServerKubeconfig
      [] OTHER       -> <<>>

\* A plausible bug: the bundle of the RootShard is not inherited
MergedClientCAsOwn(x) ==
    {RootCAName("client")} \cup
    IF "clientBundle" \in opts[x] THEN {UserSecret(x, "clientBundle")} ELSE {}

\* The client CA and the bundles of the RootShard and of the object itself.
MergedClientCAs(x) ==
    {RootCAName("client")} \cup
    {UserSecret(y, "clientBundle") : y \in {z \in {"root", x} : "clientBundle" \in opts[z]}}

MergedClientCABundle(x) ==
    IF "clientBundle" \in opts.root \cup opts[x]
    THEN GetMergedClientCAName(name[x]) :> MergedClientCAs(x) ELSE <<>>

\* The server CA and the user's bundle.  A Shard takes the certificates from its own server
\* certificate's Secret; cert-manager puts the issuing CA into it.
MergedCABundle(x, secret) ==
    IF "caBundle" \in opts[x]
    THEN secret :> {RootCAName("server"), UserSecret(x, "caBundle")} ELSE <<>>

\* frontproxy.Reconcile.
ProxyBundles(pod) ==
    LET x == ObjectOf(pod)
    IN clientCABundleSecretName(pod) :> MergedClientCAs(x)
       @@ MergedCABundle(x, backendCABundleSecretName(pod))

RootShardBundles ==
    MergedClientCABundle("root") @@ MergedCABundle("root", MergedCABundleName(name.root))

ShardBundles ==
    MergedClientCABundle("shard") @@ MergedCABundle("shard", MergedCABundleName(name.shard))

VirtualWorkspaceBundle == MergedClientCABundle("vw")

\* The bundles that a source pass of x writes if it can read the CAs.
Bundles(x) ==
    CASE x = "root"  -> RootShardBundles @@ ProxyBundles("proxy")
      [] x = "shard" -> ShardBundles
      [] x = "front" -> ProxyBundles("front")
      [] x = "vw"    -> VirtualWorkspaceBundle
      [] x = "cache" -> <<>>

\* What a proxy's compiled pass writes besides its Deployment.
dynamicKubeconfig(root) ==
    Kubeconfig(BaseURL("root", root), "root", kubeconfigCAPath, frontProxyPath("kubeconfig-client-cert"))

defaultPathMappings(pod, in) ==
    [url |-> BaseURL("root", in.root),
     ca  |-> IF "caBundle" \in in[ObjectOf(pod)] THEN getCAMountPath("ca-bundle") ELSE kubeconfigCAPath]

\* How the operator itself reaches the components.
Endpoint(to) ==
    IF to = "proxy" THEN GetRootShardProxyBaseURL(name.root, DomainOf(opts.root)) ELSE BaseURL(to, opts[to])

\* The operator's client certificate, for every component.
TLSConfig == OperatorClientCertificate

=============================================================================
