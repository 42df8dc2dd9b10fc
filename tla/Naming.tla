------------------------------- MODULE Naming -------------------------------
(***************************************************************************)
(* The names of the objects the operator creates, their labels and the     *)
(* addresses of its Services (internal/resources/resources.go).  Every     *)
(* function there exists up to three times: for the operator.kcp.io        *)
(* object, for its Compiled object and for a spec that is embedded in      *)
(* another Compiled object under its name; the formats agree.              *)
(*                                                                         *)
(* A name is the sequence of what the format joins with dashes.  What      *)
(* dashes in the names of the custom resources can do is the subject of    *)
(* OneWriter in PodWiring.                                                 *)
(***************************************************************************)
EXTENDS Sequences

DefaultClusterDomain == "cluster.local"

\* The certificates and CAs of sdk/apis/operator/v1alpha1/common.go.
Certificate ==
    {"server", "client", "service-account", "virtual-workspaces", "requestheader", "mounts-proxy",
     "kubeconfig", "logical-cluster-admin", "external-logical-cluster-admin", "kcp-operator"}

CA == {"root", "server", "service-account", "client", "requestheader-client", "ca-bundle"}

FrontProxyCommonName == "kcp-front-proxy"
RootShardProxyCommonName == "kcp-root-shard-proxy"
MountsProxyCommonName == "kcp-mounts-proxy"

-----------------------------------------------------------------------------
(* Deployments and Services.                                                *)

GetRootShardDeploymentName(r) == <<r, "kcp">>
GetRootShardProxyDeploymentName(r) == <<r, "proxy">>
GetShardDeploymentName(s) == <<s, "shard", "kcp">>
GetCacheServerDeploymentName(s) == <<s, "cache-server">>
GetVirtualWorkspaceDeploymentName(vw) == <<vw, "virtual-workspace">>
GetFrontProxyDeploymentName(f) == <<f, "front-proxy">>

GetRootShardServiceName(r) == <<r, "kcp">>
GetShardServiceName(s) == <<s, "shard", "kcp">>
GetCacheServerServiceName(s) == <<s, "cache-server">>
GetVirtualWorkspaceServiceName(vw) == <<vw, "virtual-workspace">>
GetFrontProxyServiceName(f) == <<f, "front-proxy">>
GetRootShardProxyServiceName(r) == <<r, "proxy">>

\* Two of the four labels are the same for every object.
getResourceLabels(instance, component) == [instance |-> instance, component |-> component]

GetRootShardResourceLabels(r) == getResourceLabels(r, "rootshard")
GetRootShardProxyResourceLabels(r) == getResourceLabels(r, "rootshard-proxy")
GetShardResourceLabels(s) == getResourceLabels(s, "shard")
GetCacheServerResourceLabels(s) == getResourceLabels(s, "cache-server")
GetVirtualWorkspaceResourceLabels(vw) == getResourceLabels(vw, "virtual-workspace")
GetFrontProxyResourceLabels(f) == getResourceLabels(f, "front-proxy")

-----------------------------------------------------------------------------
(* Addresses: the words of the Service's name and the cluster domain.       *)

Domain(clusterDomain) == IF clusterDomain = "" THEN DefaultClusterDomain ELSE clusterDomain

GetRootShardBaseHost(r, domain) == <<r, "kcp", Domain(domain)>>
GetRootShardProxyBaseHost(r, domain) == <<r, "proxy", Domain(domain)>>
GetShardBaseHost(s, domain) == <<s, "shard", "kcp", Domain(domain)>>
GetCacheServerBaseHost(s, domain) == <<s, "cache-server", Domain(domain)>>
GetVirtualWorkspaceBaseHost(vw, domain) == <<vw, "virtual-workspace", Domain(domain)>>

\* A base URL is identified with its host; url is the ShardBaseURL of the spec, <<>> without one.
GetRootShardBaseURL(r, domain, url) == IF url # <<>> THEN url ELSE GetRootShardBaseHost(r, domain)
GetRootShardProxyBaseURL(r, domain) == GetRootShardProxyBaseHost(r, domain)
GetShardBaseURL(s, domain, url) == IF url # <<>> THEN url ELSE GetShardBaseHost(s, domain)
GetCacheServerBaseURL(s, domain) == GetCacheServerBaseHost(s, domain)
GetVirtualWorkspaceBaseURL(vw, domain) == GetVirtualWorkspaceBaseHost(vw, domain)

-----------------------------------------------------------------------------
(* Certificates, CAs, kubeconfigs and bundles; also the names of their Secrets. *)

GetRootShardCertificateName(r, cert) == <<r, cert>>
GetRootShardProxyCertificateName(r, cert) == <<r, "proxy", cert>>
GetShardCertificateName(s, cert) == <<s, cert>>
GetCacheServerCertificateName(s, cert) == <<s, cert>>
GetVirtualWorkspaceCertificateName(vw, cert) == <<vw, cert>>

\* A plausible bug: the certificates of a proxy are named like those of a Shard
GetFrontProxyCertificateNameShort(r, f, cert) == <<r, cert>>

GetFrontProxyCertificateName(r, f, cert) == <<r, f, cert>>
GetCacheServerClientCertificateName(s) == <<s, "client-certificate">>

GetRootShardCAName(r, ca) == IF ca = "root" THEN <<r, "ca">> ELSE <<r, ca, "ca">>
GetCacheServerCAName(s, ca) == IF ca = "root" THEN <<s, "ca">> ELSE <<s, ca, "ca">>

GetRootShardKubeconfigSecret(r, cert) == <<r, cert, "kubeconfig">>
GetShardKubeconfigSecret(s, cert) == <<s, cert, "kubeconfig">>
GetCacheServerKubeconfigName(s) == <<s, "kubeconfig">>
GetRootShardProxyDynamicKubeconfigName(r) == <<r, "proxy", "dynamic-kubeconfig">>
GetFrontProxyDynamicKubeconfigName(r, f) == <<r, f, "dynamic-kubeconfig">>

GetRootShardProxyConfigName(r) == <<r, "proxy", "config">>
GetFrontProxyConfigName(f) == <<f, "config">>

GetMergedClientCAName(owner) == <<owner, "merged-client-ca">>
MergedCABundleName(owner) == <<owner, "merged-ca-bundle">>
ProxyMergedClientCAName(r) == <<r, "proxy", "merged-client-ca">>
ProxyMergedCABundleName(r) == <<r, "proxy", "merged-ca-bundle">>

=============================================================================
