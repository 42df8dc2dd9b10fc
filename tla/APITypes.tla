------------------------------ MODULE APITypes ------------------------------
(***************************************************************************)
(* The API types of operator.kcp.io and deploy.operator.kcp.io and their   *)
(* DeepCopyInto methods, reduced to what decides whether a copy shares     *)
(* memory with its original: the fields that hold a pointer, slice or map, *)
(* or a struct that does, and what DeepCopyInto does with each of them     *)
(* after the assignment *out = *in.                                        *)
(*                                                                         *)
(* Every controller reads an object from the informer's cache, copies it,  *)
(* changes the copy and sends the difference between the two.  A field     *)
(* that is still shared after the copy changes on both sides: the          *)
(* difference is lost, and the cache holds what nobody has stored.         *)
(***************************************************************************)
EXTENDS FiniteSets, Naturals

\* A pointer to, slice of or map to values of type t, and a struct held by value.
Ref(t) == [ref |-> TRUE, type |-> t]
Val(t) == [ref |-> FALSE, type |-> t]

\* A type whose fields are all plain values.
NoFields == <<>>

\* What DeepCopyInto does beyond *out = *in: the fields copied by the DeepCopyInto of
\* their type, and those that get a new pointer, slice or map filled by assignment.
Copied(deep, flat) == [deep |-> deep, flat |-> flat]

\* The types of the Kubernetes libraries that hold references, and come with a correct DeepCopyInto.
LibraryRefs == {"[]string", "Affinity", "Condition", "HostAlias", "ListMeta", "ObjectMeta",
                "ResourceRequirements", "Toleration", "TopologySpreadConstraint", "Volume",
                "VolumeMount"}

-----------------------------------------------------------------------------
(* One pair of definitions for every type: its fields and its DeepCopyInto. *)

(* A generated file that was not regenerated after a field was added.       *)

FrontProxyStatusCopyStale == Copied({}, {})

-----------------------------------------------------------------------------

AuditPolicySpecFields == [ConfigMap |-> Ref("LocalDataKeyReference")]
AuditPolicySpecCopy == Copied({}, {"ConfigMap"})

AuditSpecFields == [Webhook |-> Ref("AuditWebhookSpec"), Policy |-> Ref("AuditPolicySpec")]
AuditSpecCopy == Copied({"Webhook", "Policy"}, {})

AuditWebhookSpecFields == [BatchMaxWait |-> Ref("Duration"), InitialBackoff |-> Ref("Duration")]
AuditWebhookSpecCopy == Copied({}, {"BatchMaxWait", "InitialBackoff"})

AuthSpecFields ==
    [OIDC |-> Ref("OIDCConfiguration"), Webhook |-> Ref("AuthenticationWebhookSpec"),
     TokenAuthFile |-> Ref("TokenAuthFileSpec"),
     ServiceAccount |-> Ref("ServiceAccountAuthentication"), DropGroups |-> Ref("string"),
     PassOnGroups |-> Ref("string")]
AuthSpecCopy ==
    Copied({"OIDC", "Webhook"},
           {"TokenAuthFile", "ServiceAccount", "DropGroups", "PassOnGroups"})

AuthenticationWebhookSpecFields == [CacheAuthenticationTTL |-> Ref("Duration")]
AuthenticationWebhookSpecCopy == Copied({}, {"CacheAuthenticationTTL"})

AuthorizationSpecFields ==
    [AllowPaths |-> Ref("[]string"), Order |-> Ref("[]string"),
     Webhook |-> Ref("AuthorizationWebhookSpec")]
AuthorizationSpecCopy == Copied({"AllowPaths", "Order", "Webhook"}, {})

AuthorizationWebhookSpecFields ==
    [AllowPaths |-> Ref("[]string"), CacheAuthorizedTTL |-> Ref("Duration"),
     CacheUnauthorizedTTL |-> Ref("Duration")]
AuthorizationWebhookSpecCopy ==
    Copied({"AllowPaths"},
           {"CacheAuthorizedTTL", "CacheUnauthorizedTTL"})

CacheServerFields ==
    [ObjectMeta |-> Val("ObjectMeta"), Spec |-> Val("CacheServerSpec"),
     Status |-> Val("CacheServerStatus")]
CacheServerCopy == Copied({"ObjectMeta", "Spec"}, {})

CacheServerListFields == [ListMeta |-> Val("ListMeta"), Items |-> Ref("CacheServer")]
CacheServerListCopy == Copied({"ListMeta", "Items"}, {})

CacheServerSpecFields ==
    [Image |-> Ref("ImageSpec"), Replicas |-> Ref("int32"), Logging |-> Ref("LoggingSpec"),
     Certificates |-> Val("Certificates"), CertificateTemplates |-> Val("CertificateTemplateMap"),
     ServiceTemplate |-> Ref("ServiceTemplate"), DeploymentTemplate |-> Ref("DeploymentTemplate"),
     Etcd |-> Ref("EtcdConfig"), ExtraArgs |-> Ref("string"), ExtraVolumes |-> Ref("Volume"),
     ExtraVolumeMounts |-> Ref("VolumeMount")]
CacheServerSpecCopy ==
    Copied({"Image", "Certificates", "CertificateTemplates", "ServiceTemplate",
            "DeploymentTemplate", "Etcd", "ExtraVolumes", "ExtraVolumeMounts"},
           {"Replicas", "Logging", "ExtraArgs"})

CacheServerStatusFields == NoFields
CacheServerStatusCopy == Copied({}, {})

CertificateMetadataTemplateFields == [Annotations |-> Ref("string"), Labels |-> Ref("string")]
CertificateMetadataTemplateCopy == Copied({}, {"Annotations", "Labels"})

CertificatePrivateKeyTemplateFields == NoFields
CertificatePrivateKeyTemplateCopy == Copied({}, {})

CertificateSecretTemplateFields == [Annotations |-> Ref("string"), Labels |-> Ref("string")]
CertificateSecretTemplateCopy == Copied({}, {"Annotations", "Labels"})

CertificateSpecTemplateFields ==
    [Subject |-> Ref("X509Subject"), IssuerRef |-> Ref("ObjectReference"),
     DNSNames |-> Ref("string"), IPAddresses |-> Ref("string"),
     SecretTemplate |-> Ref("CertificateSecretTemplate"), Duration |-> Ref("Duration"),
     RenewBefore |-> Ref("Duration"), PrivateKey |-> Ref("CertificatePrivateKeyTemplate")]
CertificateSpecTemplateCopy ==
    Copied({"Subject", "SecretTemplate"},
           {"IssuerRef", "DNSNames", "IPAddresses", "Duration", "RenewBefore", "PrivateKey"})

CertificateTemplateFields ==
    [Metadata |-> Ref("CertificateMetadataTemplate"), Spec |-> Ref("CertificateSpecTemplate")]
CertificateTemplateCopy == Copied({"Metadata", "Spec"}, {})

CertificateTemplateMapFields == [Item |-> Ref("CertificateTemplate")]
CertificateTemplateMapCopy == Copied({"Item"}, {})

CertificatesFields ==
    [IssuerRef |-> Ref("ObjectReference"), CASecretRef |-> Ref("LocalObjectReference")]
CertificatesCopy == Copied({}, {"IssuerRef", "CASecretRef"})

CommonShardSpecFields ==
    [Etcd |-> Val("EtcdConfig"), Image |-> Ref("ImageSpec"), Replicas |-> Ref("int32"),
     Resources |-> Ref("ResourceRequirements"), Audit |-> Ref("AuditSpec"),
     Authorization |-> Ref("AuthorizationSpec"), Auth |-> Ref("AuthSpec"),
     KCPVirtualWorkspace |-> Ref("LocalObjectReference"),
     CertificateTemplates |-> Val("CertificateTemplateMap"),
     ServiceTemplate |-> Ref("ServiceTemplate"), DeploymentTemplate |-> Ref("DeploymentTemplate"),
     CABundleSecretRef |-> Ref("LocalObjectReference"),
     ClientCABundleRef |-> Ref("LocalObjectReference"), ExtraArgs |-> Ref("string"),
     ExtraVolumes |-> Ref("Volume"), ExtraVolumeMounts |-> Ref("VolumeMount"),
     Logging |-> Ref("LoggingSpec")]
CommonShardSpecCopy ==
    Copied({"Etcd", "Image", "Resources", "Audit", "Authorization", "Auth", "CertificateTemplates",
            "ServiceTemplate", "DeploymentTemplate", "ExtraVolumes", "ExtraVolumeMounts"},
           {"Replicas", "KCPVirtualWorkspace", "CABundleSecretRef", "ClientCABundleRef",
            "ExtraArgs", "Logging"})

DeploymentMetadataTemplateFields == [Annotations |-> Ref("string"), Labels |-> Ref("string")]
DeploymentMetadataTemplateCopy == Copied({}, {"Annotations", "Labels"})

DeploymentSpecTemplateFields == [Template |-> Ref("PodTemplateSpec")]
DeploymentSpecTemplateCopy == Copied({"Template"}, {})

DeploymentTemplateFields ==
    [Metadata |-> Ref("DeploymentMetadataTemplate"), Spec |-> Ref("DeploymentSpecTemplate")]
DeploymentTemplateCopy == Copied({"Metadata", "Spec"}, {})

EmbeddedCacheConfigurationFields == NoFields
EmbeddedCacheConfigurationCopy == Copied({}, {})

EtcdConfigFields == [Endpoints |-> Ref("string"), TLSConfig |-> Ref("EtcdTLSConfig")]
EtcdConfigCopy == Copied({}, {"Endpoints", "TLSConfig"})

EtcdTLSConfigFields == NoFields
EtcdTLSConfigCopy == Copied({}, {})

ExternalConfigFields == [PrivatePort |-> Ref("uint32")]
ExternalConfigCopy == Copied({}, {"PrivatePort"})

FrontProxyFields ==
    [ObjectMeta |-> Val("ObjectMeta"), Spec |-> Val("FrontProxySpec"),
     Status |-> Val("FrontProxyStatus")]
FrontProxyCopy == Copied({"ObjectMeta", "Spec", "Status"}, {})

FrontProxyListFields == [ListMeta |-> Val("ListMeta"), Items |-> Ref("FrontProxy")]
FrontProxyListCopy == Copied({"ListMeta", "Items"}, {})

FrontProxySpecFields ==
    [RootShard |-> Val("RootShardConfig"), Replicas |-> Ref("int32"),
     Resources |-> Ref("ResourceRequirements"), Auth |-> Ref("AuthSpec"),
     AdditionalPathMappings |-> Ref("PathMappingEntry"), Image |-> Ref("ImageSpec"),
     External |-> Val("ExternalConfig"), ServiceTemplate |-> Ref("ServiceTemplate"),
     DeploymentTemplate |-> Ref("DeploymentTemplate"),
     CertificateTemplates |-> Val("CertificateTemplateMap"),
     CABundleSecretRef |-> Ref("LocalObjectReference"),
     ClientCABundleRef |-> Ref("LocalObjectReference"), ExtraArgs |-> Ref("string"),
     ExtraVolumes |-> Ref("Volume"), ExtraVolumeMounts |-> Ref("VolumeMount"),
     Logging |-> Ref("LoggingSpec")]
FrontProxySpecCopy ==
    Copied({"RootShard", "Resources", "Auth", "Image", "External", "ServiceTemplate",
            "DeploymentTemplate", "CertificateTemplates", "ExtraVolumes", "ExtraVolumeMounts"},
           {"Replicas", "AdditionalPathMappings", "CABundleSecretRef", "ClientCABundleRef",
            "ExtraArgs", "Logging"})

FrontProxyStatusFields == [Conditions |-> Ref("Condition")]
FrontProxyStatusCopy == Copied({"Conditions"}, {})

ImageSpecFields == [ImagePullSecrets |-> Ref("LocalObjectReference")]
ImageSpecCopy == Copied({}, {"ImagePullSecrets"})

KubeconfigFields ==
    [ObjectMeta |-> Val("ObjectMeta"), Spec |-> Val("KubeconfigSpec"),
     Status |-> Val("KubeconfigStatus")]
KubeconfigCopy == Copied({"ObjectMeta", "Spec", "Status"}, {})

KubeconfigAuthorizationFields == [ClusterRoleBindings |-> Val("KubeconfigClusterRoleBindings")]
KubeconfigAuthorizationCopy == Copied({"ClusterRoleBindings"}, {})

KubeconfigAuthorizationStatusFields == NoFields
KubeconfigAuthorizationStatusCopy == Copied({}, {})

KubeconfigClusterRoleBindingsFields == [ClusterRoles |-> Ref("string")]
KubeconfigClusterRoleBindingsCopy == Copied({}, {"ClusterRoles"})

KubeconfigListFields == [ListMeta |-> Val("ListMeta"), Items |-> Ref("Kubeconfig")]
KubeconfigListCopy == Copied({"ListMeta", "Items"}, {})

KubeconfigSpecFields ==
    [Target |-> Val("KubeconfigTarget"), Groups |-> Ref("string"),
     CertificateTemplate |-> Ref("CertificateTemplate"),
     Authorization |-> Ref("KubeconfigAuthorization")]
KubeconfigSpecCopy == Copied({"Target", "CertificateTemplate", "Authorization"}, {"Groups"})

KubeconfigStatusFields ==
    [Authorization |-> Ref("KubeconfigAuthorizationStatus"), Conditions |-> Ref("Condition")]
KubeconfigStatusCopy == Copied({"Conditions"}, {"Authorization"})

KubeconfigTargetFields ==
    [RootShardRef |-> Ref("LocalObjectReference"), ShardRef |-> Ref("LocalObjectReference"),
     FrontProxyRef |-> Ref("LocalObjectReference")]
KubeconfigTargetCopy == Copied({}, {"RootShardRef", "ShardRef", "FrontProxyRef"})

LocalDataKeyReferenceFields == NoFields
LocalDataKeyReferenceCopy == Copied({}, {})

LoggingSpecFields == NoFields
LoggingSpecCopy == Copied({}, {})

OIDCCAFileRefFields == NoFields
OIDCCAFileRefCopy == Copied({}, {})

OIDCConfigurationFields == [CAFileRef |-> Ref("OIDCCAFileRef")]
OIDCConfigurationCopy == Copied({}, {"CAFileRef"})

ObjectReferenceFields == NoFields
ObjectReferenceCopy == Copied({}, {})

PathMappingEntryFields == NoFields
PathMappingEntryCopy == Copied({}, {})

PodMetadataTemplateFields == [Annotations |-> Ref("string"), Labels |-> Ref("string")]
PodMetadataTemplateCopy == Copied({}, {"Annotations", "Labels"})

PodSpecTemplateFields ==
    [NodeSelector |-> Ref("string"), Affinity |-> Ref("Affinity"),
     Tolerations |-> Ref("Toleration"), HostAliases |-> Ref("HostAlias"),
     ImagePullSecrets |-> Ref("LocalObjectReference"),
     TopologySpreadConstraints |-> Ref("TopologySpreadConstraint")]
PodSpecTemplateCopy ==
    Copied({"Affinity", "Tolerations", "HostAliases", "TopologySpreadConstraints"},
           {"NodeSelector", "ImagePullSecrets"})

PodTemplateSpecFields == [Metadata |-> Ref("PodMetadataTemplate"), Spec |-> Ref("PodSpecTemplate")]
PodTemplateSpecCopy == Copied({"Metadata", "Spec"}, {})

RootShardFields ==
    [ObjectMeta |-> Val("ObjectMeta"), Spec |-> Val("RootShardSpec"),
     Status |-> Val("RootShardStatus")]
RootShardCopy == Copied({"ObjectMeta", "Spec", "Status"}, {})

RootShardCacheConfigFields ==
    [Embedded |-> Ref("EmbeddedCacheConfiguration"), Reference |-> Ref("LocalObjectReference")]
RootShardCacheConfigCopy == Copied({}, {"Embedded", "Reference"})

RootShardConfigFields == [Reference |-> Ref("LocalObjectReference")]
RootShardConfigCopy == Copied({}, {"Reference"})

RootShardListFields == [ListMeta |-> Val("ListMeta"), Items |-> Ref("RootShard")]
RootShardListCopy == Copied({"ListMeta", "Items"}, {})

RootShardProxySpecFields ==
    [Image |-> Ref("ImageSpec"), Replicas |-> Ref("int32"),
     Resources |-> Ref("ResourceRequirements"), ServiceTemplate |-> Ref("ServiceTemplate"),
     DeploymentTemplate |-> Ref("DeploymentTemplate"),
     CertificateTemplates |-> Val("CertificateTemplateMap"), ExtraArgs |-> Ref("string"),
     ExtraVolumes |-> Ref("Volume"), ExtraVolumeMounts |-> Ref("VolumeMount"),
     Logging |-> Ref("LoggingSpec")]
RootShardProxySpecCopy ==
    Copied({"Image", "Resources", "ServiceTemplate", "DeploymentTemplate", "CertificateTemplates",
            "ExtraVolumes", "ExtraVolumeMounts"},
           {"Replicas", "ExtraArgs", "Logging"})

RootShardSpecFields ==
    [CommonShardSpec |-> Val("CommonShardSpec"), External |-> Val("ExternalConfig"),
     Cache |-> Val("RootShardCacheConfig"), Proxy |-> Ref("RootShardProxySpec"),
     Certificates |-> Val("Certificates")]
RootShardSpecCopy == Copied({"CommonShardSpec", "External", "Cache", "Proxy", "Certificates"}, {})

RootShardStatusFields == [Conditions |-> Ref("Condition"), Shards |-> Ref("ShardReference")]
RootShardStatusCopy == Copied({"Conditions"}, {"Shards"})

ServiceAccountAuthenticationFields == NoFields
ServiceAccountAuthenticationCopy == Copied({}, {})

ServiceMetadataTemplateFields == [Annotations |-> Ref("string"), Labels |-> Ref("string")]
ServiceMetadataTemplateCopy == Copied({}, {"Annotations", "Labels"})

ServiceSpecTemplateFields == NoFields
ServiceSpecTemplateCopy == Copied({}, {})

ServiceTemplateFields ==
    [Metadata |-> Ref("ServiceMetadataTemplate"), Spec |-> Ref("ServiceSpecTemplate")]
ServiceTemplateCopy == Copied({"Metadata"}, {"Spec"})

ShardFields ==
    [ObjectMeta |-> Val("ObjectMeta"), Spec |-> Val("ShardSpec"), Status |-> Val("ShardStatus")]
ShardCopy == Copied({"ObjectMeta", "Spec", "Status"}, {})

ShardCacheConfigFields == [Reference |-> Ref("LocalObjectReference")]
ShardCacheConfigCopy == Copied({}, {"Reference"})

ShardListFields == [ListMeta |-> Val("ListMeta"), Items |-> Ref("Shard")]
ShardListCopy == Copied({"ListMeta", "Items"}, {})

ShardReferenceFields == NoFields
ShardReferenceCopy == Copied({}, {})

ShardSpecFields ==
    [CommonShardSpec |-> Val("CommonShardSpec"), RootShard |-> Val("RootShardConfig"),
     Cache |-> Ref("ShardCacheConfig")]
ShardSpecCopy == Copied({"CommonShardSpec", "RootShard", "Cache"}, {})

ShardStatusFields == [Conditions |-> Ref("Condition")]
ShardStatusCopy == Copied({"Conditions"}, {})

TokenAuthFileSpecFields == NoFields
TokenAuthFileSpecCopy == Copied({}, {})

VirtualWorkspaceFields ==
    [ObjectMeta |-> Val("ObjectMeta"), Spec |-> Val("VirtualWorkspaceSpec"),
     Status |-> Val("VirtualWorkspaceStatus")]
VirtualWorkspaceCopy == Copied({"ObjectMeta", "Spec", "Status"}, {})

VirtualWorkspaceInitContainerFields ==
    [Image |-> Ref("ImageSpec"), Command |-> Ref("string"), Args |-> Ref("string"),
     KubeconfigSecretRef |-> Ref("LocalObjectReference"),
     Resources |-> Ref("ResourceRequirements"), Volumes |-> Ref("Volume"),
     VolumeMounts |-> Ref("VolumeMount")]
VirtualWorkspaceInitContainerCopy ==
    Copied({"Image", "Resources", "Volumes", "VolumeMounts"},
           {"Command", "Args", "KubeconfigSecretRef"})

VirtualWorkspaceListFields == [ListMeta |-> Val("ListMeta"), Items |-> Ref("VirtualWorkspace")]
VirtualWorkspaceListCopy == Copied({"ListMeta", "Items"}, {})

VirtualWorkspaceSpecFields ==
    [Target |-> Val("VirtualWorkspaceTarget"), External |-> Val("ExternalConfig"),
     Image |-> Ref("ImageSpec"), Command |-> Ref("string"),
     InitContainers |-> Ref("VirtualWorkspaceInitContainer"), Replicas |-> Ref("int32"),
     Resources |-> Ref("ResourceRequirements"),
     CertificateTemplates |-> Val("CertificateTemplateMap"),
     ServiceTemplate |-> Ref("ServiceTemplate"), DeploymentTemplate |-> Ref("DeploymentTemplate"),
     CABundleSecretRef |-> Ref("LocalObjectReference"),
     ClientCABundleRef |-> Ref("LocalObjectReference"),
     KubeconfigSecretRef |-> Ref("LocalObjectReference"), ExtraArgs |-> Ref("string"),
     ExtraVolumes |-> Ref("Volume"), ExtraVolumeMounts |-> Ref("VolumeMount"),
     Logging |-> Ref("LoggingSpec")]
VirtualWorkspaceSpecCopy ==
    Copied({"Target", "External", "Image", "InitContainers", "Resources", "CertificateTemplates",
            "ServiceTemplate", "DeploymentTemplate", "ExtraVolumes", "ExtraVolumeMounts"},
           {"Command", "Replicas", "CABundleSecretRef", "ClientCABundleRef", "KubeconfigSecretRef",
            "ExtraArgs", "Logging"})

VirtualWorkspaceStatusFields == [Conditions |-> Ref("Condition")]
VirtualWorkspaceStatusCopy == Copied({"Conditions"}, {})

VirtualWorkspaceTargetFields ==
    [RootShardRef |-> Ref("LocalObjectReference"), ShardRef |-> Ref("LocalObjectReference")]
VirtualWorkspaceTargetCopy == Copied({}, {"RootShardRef", "ShardRef"})

X509SubjectFields ==
    [Organizations |-> Ref("string"), Countries |-> Ref("string"),
     OrganizationalUnits |-> Ref("string"), Localities |-> Ref("string"),
     Provinces |-> Ref("string"), StreetAddresses |-> Ref("string"), PostalCodes |-> Ref("string")]
X509SubjectCopy ==
    Copied({},
           {"Organizations", "Countries", "OrganizationalUnits", "Localities", "Provinces",
            "StreetAddresses", "PostalCodes"})

CompiledCacheServerFields ==
    [ObjectMeta |-> Val("ObjectMeta"), Spec |-> Val("CompiledCacheServerSpec"),
     Status |-> Val("CacheServerStatus")]
CompiledCacheServerCopy == Copied({"ObjectMeta", "Spec"}, {})

CompiledCacheServerListFields ==
    [ListMeta |-> Val("ListMeta"), Items |-> Ref("CompiledCacheServer")]
CompiledCacheServerListCopy == Copied({"ListMeta", "Items"}, {})

CompiledCacheServerSpecFields == [CacheServer |-> Val("CacheServerSpec")]
CompiledCacheServerSpecCopy == Copied({"CacheServer"}, {})

CompiledFrontProxyFields ==
    [ObjectMeta |-> Val("ObjectMeta"), Spec |-> Val("CompiledFrontProxySpec"),
     Status |-> Val("FrontProxyStatus")]
CompiledFrontProxyCopy == Copied({"ObjectMeta", "Spec", "Status"}, {})

CompiledFrontProxyListFields == [ListMeta |-> Val("ListMeta"), Items |-> Ref("CompiledFrontProxy")]
CompiledFrontProxyListCopy == Copied({"ListMeta", "Items"}, {})

CompiledFrontProxySpecFields ==
    [FrontProxy |-> Val("FrontProxySpec"), RootShard |-> Val("NamedRootShardSpec"),
     Shards |-> Ref("string")]
CompiledFrontProxySpecCopy == Copied({"FrontProxy", "RootShard"}, {"Shards"})

CompiledRootShardFields ==
    [ObjectMeta |-> Val("ObjectMeta"), Spec |-> Val("CompiledRootShardSpec"),
     Status |-> Val("RootShardStatus")]
CompiledRootShardCopy == Copied({"ObjectMeta", "Spec", "Status"}, {})

CompiledRootShardListFields == [ListMeta |-> Val("ListMeta"), Items |-> Ref("CompiledRootShard")]
CompiledRootShardListCopy == Copied({"ListMeta", "Items"}, {})

CompiledRootShardSpecFields ==
    [RootShard |-> Val("RootShardSpec"), VirtualWorkspace |-> Ref("NamedVirtualWorkspaceSpec"),
     Shards |-> Ref("string")]
CompiledRootShardSpecCopy == Copied({"RootShard", "VirtualWorkspace"}, {"Shards"})

CompiledShardFields ==
    [ObjectMeta |-> Val("ObjectMeta"), Spec |-> Val("CompiledShardSpec"),
     Status |-> Val("ShardStatus")]
CompiledShardCopy == Copied({"ObjectMeta", "Spec", "Status"}, {})

CompiledShardListFields == [ListMeta |-> Val("ListMeta"), Items |-> Ref("CompiledShard")]
CompiledShardListCopy == Copied({"ListMeta", "Items"}, {})

CompiledShardSpecFields ==
    [Shard |-> Val("ShardSpec"), RootShard |-> Val("NamedRootShardSpec"),
     VirtualWorkspace |-> Ref("NamedVirtualWorkspaceSpec"), Shards |-> Ref("string")]
CompiledShardSpecCopy == Copied({"Shard", "RootShard", "VirtualWorkspace"}, {"Shards"})

CompiledVirtualWorkspaceFields ==
    [ObjectMeta |-> Val("ObjectMeta"), Spec |-> Val("CompiledVirtualWorkspaceSpec"),
     Status |-> Val("VirtualWorkspaceStatus")]
CompiledVirtualWorkspaceCopy == Copied({"ObjectMeta", "Spec", "Status"}, {})

CompiledVirtualWorkspaceListFields ==
    [ListMeta |-> Val("ListMeta"), Items |-> Ref("CompiledVirtualWorkspace")]
CompiledVirtualWorkspaceListCopy == Copied({"ListMeta", "Items"}, {})

CompiledVirtualWorkspaceSpecFields ==
    [VirtualWorkspace |-> Val("VirtualWorkspaceSpec"), RootShard |-> Val("NamedRootShardSpec"),
     Shard |-> Ref("NamedShardSpec")]
CompiledVirtualWorkspaceSpecCopy == Copied({"VirtualWorkspace", "RootShard", "Shard"}, {})

NamedRootShardSpecFields == [Spec |-> Val("RootShardSpec")]
NamedRootShardSpecCopy == Copied({"Spec"}, {})

NamedShardSpecFields == [Spec |-> Val("ShardSpec")]
NamedShardSpecCopy == Copied({"Spec"}, {})

NamedVirtualWorkspaceSpecFields == [Spec |-> Val("VirtualWorkspaceSpec")]
NamedVirtualWorkspaceSpecCopy == Copied({"Spec"}, {})

-----------------------------------------------------------------------------

Fields ==
    [AuditPolicySpec |-> AuditPolicySpecFields, AuditSpec |-> AuditSpecFields,
     AuditWebhookSpec |-> AuditWebhookSpecFields, AuthSpec |-> AuthSpecFields,
     AuthenticationWebhookSpec |-> AuthenticationWebhookSpecFields,
     AuthorizationSpec |-> AuthorizationSpecFields,
     AuthorizationWebhookSpec |-> AuthorizationWebhookSpecFields,
     CacheServer |-> CacheServerFields, CacheServerList |-> CacheServerListFields,
     CacheServerSpec |-> CacheServerSpecFields, CacheServerStatus |-> CacheServerStatusFields,
     CertificateMetadataTemplate |-> CertificateMetadataTemplateFields,
     CertificatePrivateKeyTemplate |-> CertificatePrivateKeyTemplateFields,
     CertificateSecretTemplate |-> CertificateSecretTemplateFields,
     CertificateSpecTemplate |-> CertificateSpecTemplateFields,
     CertificateTemplate |-> CertificateTemplateFields,
     CertificateTemplateMap |-> CertificateTemplateMapFields, Certificates |-> CertificatesFields,
     CommonShardSpec |-> CommonShardSpecFields,
     DeploymentMetadataTemplate |-> DeploymentMetadataTemplateFields,
     DeploymentSpecTemplate |-> DeploymentSpecTemplateFields,
     DeploymentTemplate |-> DeploymentTemplateFields,
     EmbeddedCacheConfiguration |-> EmbeddedCacheConfigurationFields,
     EtcdConfig |-> EtcdConfigFields, EtcdTLSConfig |-> EtcdTLSConfigFields,
     ExternalConfig |-> ExternalConfigFields, FrontProxy |-> FrontProxyFields,
     FrontProxyList |-> FrontProxyListFields, FrontProxySpec |-> FrontProxySpecFields,
     FrontProxyStatus |-> FrontProxyStatusFields, ImageSpec |-> ImageSpecFields,
     Kubeconfig |-> KubeconfigFields, KubeconfigAuthorization |-> KubeconfigAuthorizationFields,
     KubeconfigAuthorizationStatus |-> KubeconfigAuthorizationStatusFields,
     KubeconfigClusterRoleBindings |-> KubeconfigClusterRoleBindingsFields,
     KubeconfigList |-> KubeconfigListFields, KubeconfigSpec |-> KubeconfigSpecFields,
     KubeconfigStatus |-> KubeconfigStatusFields, KubeconfigTarget |-> KubeconfigTargetFields,
     LocalDataKeyReference |-> LocalDataKeyReferenceFields, LoggingSpec |-> LoggingSpecFields,
     OIDCCAFileRef |-> OIDCCAFileRefFields, OIDCConfiguration |-> OIDCConfigurationFields,
     ObjectReference |-> ObjectReferenceFields, PathMappingEntry |-> PathMappingEntryFields,
     PodMetadataTemplate |-> PodMetadataTemplateFields, PodSpecTemplate |-> PodSpecTemplateFields,
     PodTemplateSpec |-> PodTemplateSpecFields, RootShard |-> RootShardFields,
     RootShardCacheConfig |-> RootShardCacheConfigFields,
     RootShardConfig |-> RootShardConfigFields, RootShardList |-> RootShardListFields,
     RootShardProxySpec |-> RootShardProxySpecFields, RootShardSpec |-> RootShardSpecFields,
     RootShardStatus |-> RootShardStatusFields,
     ServiceAccountAuthentication |-> ServiceAccountAuthenticationFields,
     ServiceMetadataTemplate |-> ServiceMetadataTemplateFields,
     ServiceSpecTemplate |-> ServiceSpecTemplateFields, ServiceTemplate |-> ServiceTemplateFields,
     Shard |-> ShardFields, ShardCacheConfig |-> ShardCacheConfigFields,
     ShardList |-> ShardListFields, ShardReference |-> ShardReferenceFields,
     ShardSpec |-> ShardSpecFields, ShardStatus |-> ShardStatusFields,
     TokenAuthFileSpec |-> TokenAuthFileSpecFields, VirtualWorkspace |-> VirtualWorkspaceFields,
     VirtualWorkspaceInitContainer |-> VirtualWorkspaceInitContainerFields,
     VirtualWorkspaceList |-> VirtualWorkspaceListFields,
     VirtualWorkspaceSpec |-> VirtualWorkspaceSpecFields,
     VirtualWorkspaceStatus |-> VirtualWorkspaceStatusFields,
     VirtualWorkspaceTarget |-> VirtualWorkspaceTargetFields, X509Subject |-> X509SubjectFields,
     CompiledCacheServer |-> CompiledCacheServerFields,
     CompiledCacheServerList |-> CompiledCacheServerListFields,
     CompiledCacheServerSpec |-> CompiledCacheServerSpecFields,
     CompiledFrontProxy |-> CompiledFrontProxyFields,
     CompiledFrontProxyList |-> CompiledFrontProxyListFields,
     CompiledFrontProxySpec |-> CompiledFrontProxySpecFields,
     CompiledRootShard |-> CompiledRootShardFields,
     CompiledRootShardList |-> CompiledRootShardListFields,
     CompiledRootShardSpec |-> CompiledRootShardSpecFields, CompiledShard |-> CompiledShardFields,
     CompiledShardList |-> CompiledShardListFields, CompiledShardSpec |-> CompiledShardSpecFields,
     CompiledVirtualWorkspace |-> CompiledVirtualWorkspaceFields,
     CompiledVirtualWorkspaceList |-> CompiledVirtualWorkspaceListFields,
     CompiledVirtualWorkspaceSpec |-> CompiledVirtualWorkspaceSpecFields,
     NamedRootShardSpec |-> NamedRootShardSpecFields, NamedShardSpec |-> NamedShardSpecFields,
     NamedVirtualWorkspaceSpec |-> NamedVirtualWorkspaceSpecFields]

Copies ==
    [AuditPolicySpec |-> AuditPolicySpecCopy, AuditSpec |-> AuditSpecCopy,
     AuditWebhookSpec |-> AuditWebhookSpecCopy, AuthSpec |-> AuthSpecCopy,
     AuthenticationWebhookSpec |-> AuthenticationWebhookSpecCopy,
     AuthorizationSpec |-> AuthorizationSpecCopy,
     AuthorizationWebhookSpec |-> AuthorizationWebhookSpecCopy, CacheServer |-> CacheServerCopy,
     CacheServerList |-> CacheServerListCopy, CacheServerSpec |-> CacheServerSpecCopy,
     CacheServerStatus |-> CacheServerStatusCopy,
     CertificateMetadataTemplate |-> CertificateMetadataTemplateCopy,
     CertificatePrivateKeyTemplate |-> CertificatePrivateKeyTemplateCopy,
     CertificateSecretTemplate |-> CertificateSecretTemplateCopy,
     CertificateSpecTemplate |-> CertificateSpecTemplateCopy,
     CertificateTemplate |-> CertificateTemplateCopy,
     CertificateTemplateMap |-> CertificateTemplateMapCopy, Certificates |-> CertificatesCopy,
     CommonShardSpec |-> CommonShardSpecCopy,
     DeploymentMetadataTemplate |-> DeploymentMetadataTemplateCopy,
     DeploymentSpecTemplate |-> DeploymentSpecTemplateCopy,
     DeploymentTemplate |-> DeploymentTemplateCopy,
     EmbeddedCacheConfiguration |-> EmbeddedCacheConfigurationCopy, EtcdConfig |-> EtcdConfigCopy,
     EtcdTLSConfig |-> EtcdTLSConfigCopy, ExternalConfig |-> ExternalConfigCopy,
     FrontProxy |-> FrontProxyCopy, FrontProxyList |-> FrontProxyListCopy,
     FrontProxySpec |-> FrontProxySpecCopy, FrontProxyStatus |-> FrontProxyStatusCopy,
     ImageSpec |-> ImageSpecCopy, Kubeconfig |-> KubeconfigCopy,
     KubeconfigAuthorization |-> KubeconfigAuthorizationCopy,
     KubeconfigAuthorizationStatus |-> KubeconfigAuthorizationStatusCopy,
     KubeconfigClusterRoleBindings |-> KubeconfigClusterRoleBindingsCopy,
     KubeconfigList |-> KubeconfigListCopy, KubeconfigSpec |-> KubeconfigSpecCopy,
     KubeconfigStatus |-> KubeconfigStatusCopy, KubeconfigTarget |-> KubeconfigTargetCopy,
     LocalDataKeyReference |-> LocalDataKeyReferenceCopy, LoggingSpec |-> LoggingSpecCopy,
     OIDCCAFileRef |-> OIDCCAFileRefCopy, OIDCConfiguration |-> OIDCConfigurationCopy,
     ObjectReference |-> ObjectReferenceCopy, PathMappingEntry |-> PathMappingEntryCopy,
     PodMetadataTemplate |-> PodMetadataTemplateCopy, PodSpecTemplate |-> PodSpecTemplateCopy,
     PodTemplateSpec |-> PodTemplateSpecCopy, RootShard |-> RootShardCopy,
     RootShardCacheConfig |-> RootShardCacheConfigCopy, RootShardConfig |-> RootShardConfigCopy,
     RootShardList |-> RootShardListCopy, RootShardProxySpec |-> RootShardProxySpecCopy,
     RootShardSpec |-> RootShardSpecCopy, RootShardStatus |-> RootShardStatusCopy,
     ServiceAccountAuthentication |-> ServiceAccountAuthenticationCopy,
     ServiceMetadataTemplate |-> ServiceMetadataTemplateCopy,
     ServiceSpecTemplate |-> ServiceSpecTemplateCopy, ServiceTemplate |-> ServiceTemplateCopy,
     Shard |-> ShardCopy, ShardCacheConfig |-> ShardCacheConfigCopy, ShardList |-> ShardListCopy,
     ShardReference |-> ShardReferenceCopy, ShardSpec |-> ShardSpecCopy,
     ShardStatus |-> ShardStatusCopy, TokenAuthFileSpec |-> TokenAuthFileSpecCopy,
     VirtualWorkspace |-> VirtualWorkspaceCopy,
     VirtualWorkspaceInitContainer |-> VirtualWorkspaceInitContainerCopy,
     VirtualWorkspaceList |-> VirtualWorkspaceListCopy,
     VirtualWorkspaceSpec |-> VirtualWorkspaceSpecCopy,
     VirtualWorkspaceStatus |-> VirtualWorkspaceStatusCopy,
     VirtualWorkspaceTarget |-> VirtualWorkspaceTargetCopy, X509Subject |-> X509SubjectCopy,
     CompiledCacheServer |-> CompiledCacheServerCopy,
     CompiledCacheServerList |-> CompiledCacheServerListCopy,
     CompiledCacheServerSpec |-> CompiledCacheServerSpecCopy,
     CompiledFrontProxy |-> CompiledFrontProxyCopy,
     CompiledFrontProxyList |-> CompiledFrontProxyListCopy,
     CompiledFrontProxySpec |-> CompiledFrontProxySpecCopy,
     CompiledRootShard |-> CompiledRootShardCopy,
     CompiledRootShardList |-> CompiledRootShardListCopy,
     CompiledRootShardSpec |-> CompiledRootShardSpecCopy, CompiledShard |-> CompiledShardCopy,
     CompiledShardList |-> CompiledShardListCopy, CompiledShardSpec |-> CompiledShardSpecCopy,
     CompiledVirtualWorkspace |-> CompiledVirtualWorkspaceCopy,
     CompiledVirtualWorkspaceList |-> CompiledVirtualWorkspaceListCopy,
     CompiledVirtualWorkspaceSpec |-> CompiledVirtualWorkspaceSpecCopy,
     NamedRootShardSpec |-> NamedRootShardSpecCopy, NamedShardSpec |-> NamedShardSpecCopy,
     NamedVirtualWorkspaceSpec |-> NamedVirtualWorkspaceSpecCopy]

-----------------------------------------------------------------------------

\* The types a value of type t holds, itself included; no type of the API holds itself.
Parts[n \in Nat, t \in STRING] ==
    IF n = 0 \/ t \notin DOMAIN Fields THEN {t}
    ELSE {t} \cup UNION {Parts[n - 1, Fields[t][f].type] : f \in DOMAIN Fields[t]}

\* How deep the types are nested: List, object, spec, template, pod template, ...
Depth == 10

Holds(t) == Parts[Depth, t]

HoldsReferences(t) ==
    \E u \in Holds(t) : \/ u \in LibraryRefs
                        \/ u \in DOMAIN Fields /\ \E f \in DOMAIN Fields[u] : Fields[u][f].ref

\* The fields of t that a copy made by DeepCopyInto still shares with its original.
SharedFields(t) ==
    {f \in DOMAIN Fields[t] \ Copies[t].deep :
        \/ HoldsReferences(Fields[t][f].type)
        \/ Fields[t][f].ref /\ f \notin Copies[t].flat}

\* Everything, at any depth, that a copy of an object of type t shares with the original.
Shared(t) == UNION {{<<u, f>> : f \in SharedFields(u)} : u \in Holds(t) \cap DOMAIN Fields}

\* The types of the API whose copies are not private.
SharedTypes == {t \in DOMAIN Fields : Shared(t) # {}}
=============================================================================
