# kcp-operator in TLA+

A formal model of the kcp-operator's controllers, model-checked with TLC; what it says about
safety is proved with TLAPS, with two small exceptions (see Proofs). Source lines below are
relative to `src/`.

The operator runs one controller per API type in one process. A controller's work
queue hands an object's name to a single worker, which makes a *pass* over the
object: it reads it, makes a sequence of calls to the API server (or to kcp), and
returns a result, an error (retried with back-off) or a delay. Controllers share
no memory but the informer cache; they talk through the objects they write and the
watches that wake each other. What is hard here is never one pass but what happens
between its calls: users, cert-manager, other controllers, failed calls and
restarts, and whether whatever was missed is guaranteed another pass.

The modules about passes therefore have the same shape. Variables hold the stored objects,
the pending requests (`queue`, `queued`, `qs`, `qc`), and for the running pass its next call
(`pc`) and its locals (`copy`, `pass`, `kc`). **Each call that reads or changes shared state
is one action**, and everything between two calls belongs to the action before it. Failed
calls are actions of their own, bounded by `MaxFaults`. Two modules ask about what is
written rather than when (`ChildUpdates`, `PodWiring`); there a pass is one action.

## Inventory

| Component | State | Operations | Hard behaviour | Correct when |
|---|---|---|---|---|
| kubeconfig-rbac controller (`pkg/controller/kubeconfig-rbac`) | finalizer and `status.authorization` of a Kubeconfig; ClusterRoleBindings in kcp | ensure/remove finalizer, record workspace, list, prune and create bindings, unprovision | several writes to two systems, none atomic; stale cache; edits of workspace, roles, target at any time | no binding without a record and a finalizer; none outlives its Kubeconfig; kcp converges to the spec |
| kubeconfig controller (`pkg/controller/kubeconfig`) | conditions and phase; client Certificate; assembled Secret | resolve target, request certificate, wait, assemble, report | nothing but a timer starts another pass while cert-manager works; spec changes during a pass | Available only for a Secret of that generation; no Kubeconfig is forgotten |
| source controllers: shard, rootshard, frontproxy, virtualworkspace, cacheserver | Certificates, kubeconfig Secrets, CA bundles, the `Compiled*` render input, Available | reconcile each of these in a fixed order, collect or return errors, publish | certificates become ready and lapse under a pass; partial failure; publication gate | published input is complete and catches up with spec and renewals |
| compiled controllers (`pkg/controller/compiled*`) | Deployments, Services, status of `Compiled*` | read mounted Secrets, label, write, report | Secrets renewed between read and write; missing mounts | pods restart for every renewed mount; availability travels back |
| Shard lifecycle (`pkg/controller/shard`) | cleanup finalizer; the kcp Shard object in the root shard | finalizer, publish, deregister, release | deletion at any moment, vanished or unreadable RootShard, changed reference, process still starting | a Shard that is gone leaves no kcp Shard behind |
| Shard topology (rootshard, shard, frontproxy controllers) | `status.shards`; the Shard list in every `Compiled*` | two lists and a status patch per RootShard pass; wake-ups through the RootShard | lists taken at different times, changes that cancel out | everybody renders from the Shards there are |
| status of source and compiled objects (`reconcileStatus` of every controller, `pkg/controller/util`) | conditions, phases, observed generations, finalizer lists | copy the cached object, change the copy, send the difference | caches that lag, refused patches, a second writer of finalizers, adopted conditions, deep copies that share memory | status converges to what the Deployment says; nothing seen is lost; the cache is never written |
| updates in place (`internal/resources/utils`) | Deployments, Services, Certificates as others left them; package-level defaults of the process | set managed fields, merge templates | immutable selectors, autoscalers, maps shared between objects, templates that shrink | never refused, idempotent, keeps what is not the operator's |
| Pods and their PKI (`internal/resources`, `pkg/client`) | Secrets with certificates, bundles and kubeconfigs; Deployments that mount them | pure functions of specs, called by ten controllers at different times | paths written separately in flags, mounts and kubeconfigs; inherited options; controllers that wake each other in a circle | every file exists, every connection works, everything follows an edit and comes to rest |
| metrics (`pkg/metrics`) | gauges | list, reset, set, every 30 s | lists that fail half way, start before the cache | gauges of a kind come from one list and catch up |
| API types (`sdk/apis`) | none | generated deep copies | a field copied by reference | a copy is private |
| process set-up, flags, generated clients | controller groups | | | groups are modelled in `StatusReporting`; the rest has no state another part reads |

`PROJECT.json` repeats this per component, and lists the hazards at their lines.

## Modules

**`KubeconfigRBAC`** - the kubeconfig-rbac controller. `srv` is the stored
Kubeconfig, `cache` what the informer returns, `unseen` the versions on their way
to it, `kc` the private copy a pass patches. The decisions of `reconcile`
(controller.go:85-142) are the `Begin(...)` actions, each leading to exactly the next
call; the calls of `reconcileBindings`, `unprovisionCluster`, `handleDeletion` and the
patches follow, loops one element at a time in any order. `unprovisionCluster`'s nil
dereference is `UnprovisionPanic` (the runtime recovers and retries). The cache may trail
by any number of versions, the controller's own patches included, and users may move
`spec.target`. Both can leave bindings behind that nothing remembers, so the history
variable `astray` holds the endpoints and workspaces where that may have happened:
`LeftBehind` adds the recorded workspace when the target moves away from it, `Misled` the
workspace of a pass that goes on to create bindings while the cache, or a version on its
way to it, differs from the server in target, finalizer or record. `Kept` are the bindings
anywhere else. `MCRbac` supplies the authorizations users choose from.

**`KubeconfigIssuance`** - the kubeconfig controller. `Chain` says which objects a
target must resolve to and `Wakes` which of them is watched. Certificate and Secret
carry no owner reference, hence no event of theirs wakes the controller. A pass
collects conditions in `found` and always ends in `ReconcileStatus`, which patches,
retries or starts the five-second timer as controller.go:80-133 does. Any read can fail:
one of the chain (`TargetError`), one of the Certificate, which the code takes for "does
not exist yet" (`CertificateError`, controller.go:366-369), one of a Secret (`SecretError`).

**`RenderPipeline`** (`MCRenderPipeline` supplies the lists of Certificates) - one
source object of any of the five kinds, its source controller and its compiled
controller. The kinds differ in the order of their stages (`Stages`), in what an
error does (`OnError`: *collect and go on* or *return*), in what is mounted
(`Mounts`) and in whether they report. `ver` is the resource version of each mounted
Secret, which the labels of a Deployment repeat. A failed read of a RootShard that is
there (`FetchFails`) ends the pass of a Shard or FrontProxy like a missing one, without an
error, so nothing retries it (util.go:253-261); the history variable `misread` says that
the last pass ended so. cert-manager and the Deployment controller are external.

**`ShardLifecycle`** - one Shard with its finalizer, its kcp process and the
RootShards it may refer to. Publication is one step (its inside is `RenderPipeline`).
`late` is a history variable: a process was still starting when its Shard was
deregistered. `LateStart = FALSE` would exclude that; the runs allow it.

**`ShardTopology`** - any number of Shards of one RootShard, with the RootShard's,
the FrontProxy's and the Shards' own passes. A RootShard pass lists twice, for its
render input and for its status.

**`StatusReporting`** (over **`APITypes`**) - one source object of four kinds, its Compiled
object and the Deployment. `object` is what the API server holds, `cache` what the informers
do; `Sync` brings them together, skipping versions in between. A pass copies the cached
object (`pass.old` is the original), and `reconcileStatus` sends the difference as a merge
patch, as do `ensureFinalizer` and `removeFinalizer` with the whole finalizer list. `groups`
are the controller groups of the process, which a restart may change. `APITypes` has, for
every API type, the fields that hold references and what its generated `DeepCopyInto` does
with each; `SharedTypes` computes which copies would share memory, and a pass on such a copy
writes into the cache.

**`ChildUpdates`** - two objects of one kind with their Deployments, Services and
Certificates. The reconciler functions are operators on the existing object
(`DeploymentReconciler`, `ServiceReconciler`, `CertificateReconciler`, `mergeMaps`,
`ApplyResources`, ...). `memory` is the package-level `defaultResourceRequirements` of
the process and `overrode` a history variable of who wrote into it. `Accepted` is the API
server's rule for selectors (external).

**`Naming`, `PodSpecs`, `PodWiring`** (`MCPods` supplies installations) - a RootShard with
its built-in proxy, a Shard, a FrontProxy, a VirtualWorkspace on either of the first two,
and a CacheServer. `Naming` has the functions of `resources.go`, a name being the sequence
of what is joined with dashes; `Joined` in `PodWiring` takes it apart into words (`Parts`),
as names of objects may contain dashes too. `PodSpecs` says, as functions of the specs'
options, which certificates are issued by whom, what is in each bundle and kubeconfig, what
each container mounts and which files its flags name. What a Deployment waits for and is
labelled with are its volumes (`Volumes`), which for a VirtualWorkspace include the admin
kubeconfig whether or not a container mounts it. `PodWiring` says when: source passes,
compiled passes, cert-manager and rollouts, with the watches of each controller (`Watches`).
A Deployment keeps the input it was rendered from and the contents of what it mounts;
`PodTemplate` is the part that makes a difference to its Pods. `Informed` are the objects
whose controllers watch everything they read: all but a VirtualWorkspace on a Shard, which
reads the RootShard behind it.

**`FinalizerProtocol`** - the abstract specification of a finalizer: things outside are
acquired under it, and it goes only when none is left. `KubeconfigRBAC` and
`ShardLifecycle` instantiate it (`ImplementsProtocol`).

**`MetricsCollector`** (`MCMetrics`) - the collector goroutine, one list, reset and
gauge write at a time, while objects change and the cache may not have started.

**`KubeconfigRBACProofs`, `KubeconfigIssuanceProofs`, `RenderPipelineProofs`,
`ShardLifecycleProofs`, `ShardTopologyProofs`, `StatusReportingProofs`,
`ChildUpdatesProofs`, `PodWiringProofs`** - theorems about the module each extends;
`StatusReportingProofs` also extends `MetricsCollector`, for the one theorem about it.

Operators marked "Defect" or "plausible bug" are unused by the specifications. Each
replaces one definition in a mutant of `PROJECT.json`, to show that the property
would notice.

### Abstractions

- A Secret, Certificate or Deployment is its existence, version and the generation it
  was made for. Names, templates and key material are left out.
- `RenderPipeline` keeps one bundle for the merged CA bundles of an object, and of the
  status only Available; `PodWiring` has each bundle and its contents, `StatusReporting`
  the rest of the status.
- `KubeconfigRBAC` and `StatusReporting` have a cache that trails the server. The other
  modules read objects as last written; an event always follows a change, so a stale read
  would be followed by another pass.
- In `PodWiring` cert-manager issues all Certificates of an object at once, Secrets that
  users refer to exist, and a rollout shows in the Available condition. The last holds
  for two replicas or more, which is the default; see the observations for one.
- `StatusReporting` has one replica, `ChildUpdates` edits the templates of an object's
  children together, `MetricsCollector` has one condition per object.
- A request is a flag: a work queue holds an object at most once.
- The kcp process registers once per start. Deleting a Shard that never had a finalizer
  removes it at once.

## Runs

Bounds are named constants: `MaxEdits`, `MaxMoves`, `MaxChanges` (user changes),
`MaxIssues` (certificate issuances), `MaxFaults`, `MaxReadFaults` (failed calls and
restarts), `MaxCreates`, `MaxDeletes`, `MaxGeneration`, `MaxEvents` (all disturbances of
`StatusReporting` together), `MaxOutside` (changes by others, restarts). Two edits are
enough to move a Kubeconfig away and back during a pass, two issuances for a renewal, two
Shards for one to be forgotten while another is served, two objects for one to get what
was meant for the other; one fault can strike between any two calls. The theorems below
hold for every value of them. CHECK_DEADLOCK is off where bounded behaviours end: users
and certificates stop, and a quiet operator is a correct final state.

| Run | Shows |
|---|---|
| `MCRbac` | Two targets, two workspaces, two roles, two edits of any of them, one fault, a cache as old as it likes. Outside the places in `astray`, bindings are always recorded and protected (`RecordInv`), none outlives the Kubeconfig (`NoOrphans`: a moved target and a misled pass are the only two causes of an orphan), and every step is one of `FinalizerProtocol` (`ImplementsProtocol`). Without exception, the workspace the spec names ends up with exactly the configured bindings (`Converges`) and a recorded deletion completes. |
| `MCKubeconfig` | Available implies a Secret of that generation and target; a quiet controller has finished; Available is reached once the target exists. One edit, renewals, one fault, all four kinds of target. |
| `MCRender` | All five kinds with user-provided bundle and mount, one edit, one fault (a misread RootShard among them): `StrictPublish`, `InputCurrent` (unless the last pass misread its RootShard), `RolloutCurrent`, `AvailabilityReported`. |
| `MCRenderRenewal` | `InputCurrent` and `RolloutCurrent` with renewals and lapses instead of edits, and under fairness `EventuallyServed`. The RootShard, which behaves like a Shard and a FrontProxy together, and the VirtualWorkspace, which stops at errors like a CacheServer and refers like a Shard, are left to `MCRender`. |
| `MCShard` | Two moves, one unreadable RootShard, two other faults, late processes: `CleanupInv`, `LeavesNothing`, `DeletionCompletes`, and `FinalizerProtocol` for what the finalizer can answer for. |
| `MCTopology` | Two Shards created, one deleted, one failed call or unrelated event: `RootCurrent`, `GrowthCurrent`, `EveryoneConverges`. |
| `MCStatus` | A Shard (finalizer, phase that stays Running) and a FrontProxy (a RootShard computes its phase the same way, a VirtualWorkspace has none), two generations, two events of any sort. `EventuallyTruthful`: status, generation and phase of both objects end up right although every pass may have compared with an old copy. `FinalizersKept`: once the Shard is published, lists of finalizers sent from old copies lose nobody else's, also while it is being deleted. `DeletionCompletes` across refused patches, `CacheUntouched` with the deep copies of all API types. |
| `MCUpdates` | Two objects (Shards, CacheServers or FrontProxies; RootShards and VirtualWorkspaces differ from Shards in nothing the properties see), two edits, one change by an autoscaler, kubectl or a restart: `NeverRejected`, `Idempotent`, `OthersKept`, `CertificateCurrent`, `ResourcesExplained`. |
| `MCUpdatesResources` | *Violation* of `SpecApplied`: finding 1. |
| `MCPods` | An installation with all options on that is set up beside an existing CacheServer, and two settled ones (all options, none; VirtualWorkspace on the RootShard, on the Shard) through a single edit of any option but `caSecretRef` and `shardBaseURL` (which changes the addresses that `clusterDomain` changes), in every order of passes: `FilesMounted`, `Current`, `ClientTrust`, `Connected`, `OneWriter`, `Settles`. `OneWriter` also takes all assignments of seven names to the objects, of one and two words and some of them the operator's own (`a-server`, `proxy-dynamic`). `Current` and `ClientTrust` are about the `Informed` objects; `WorkspaceCurrent` says of a VirtualWorkspace on a Shard that it never keeps a Pod that a single edit should have changed. |
| `MCPodsOwnCA` | *Violation* of `Current`: finding 2. |
| `MCMetrics` | Two objects of a kind with phases and one of a kind without, two changes, one failed list: `GaugesOfOneList`, `GaugesCatchUp`. |

The type invariants, `FinalizerFirst` and `ObservedMonotone` (theorems below) hold on the
same instances; the runs leave them out, because the properties listed would hardly hold
without them. `ObservedMonotone` (a condition never goes back to an older generation)
excepts a Shard whose finalizer is being set or removed. There a pass works on the answer
to its patch, which is newer than the cache, and if the next pass meets a failed call it
may report for the older copy in the cache, until the informer catches up.

### Fairness

Weak fairness of each controller's worker (a controller-runtime worker goroutine
always takes the next request, and every call has a client timeout), of the informer,
of the five-second timer, and of cert-manager and the Deployment controller where a
property waits for them. Users, renewals that nothing asks for, and failures are
never fair: counters bound them, which says that they stop. `ShardTopology` has one
fair action for all Shards, because one worker serves them all. `StatusReporting` has the
two controllers, the informers, the Deployment controller and the owner of the foreign
finalizer fair, but no Pod: a Pod may never become ready. `PodWiring` only assumes that
while work is pending some of it is done (`WF(Work)`), so `Settles` says that the work
itself comes to an end. `MetricsCollector` assumes the start of the manager, the ticker
and the goroutine.

## Findings

1. **Resource overrides leak into other objects** (`MCUpdatesResources`,
   utils/deployments.go:77). `ApplyResources` copies the overrides into the maps of the
   package-level defaults; from then on, until the process restarts, every Shard (and
   separately every RootShard and VirtualWorkspace) without overrides is rendered with
   another's. `ResourcesExplained` says that this is the only source of foreign amounts.
2. **A RootShard with its own CA Secret never runs** (`MCPodsOwnCA`,
   rootshard/controller.go:199). With `caSecretRef` no Certificate creates `<name>-ca`,
   which every Pod of the installation mounts; all controllers rest without an error.

Observations below have a property in a module, or follow from its definitions, and no
run of their own:

- **Bindings at an old target survive** (kubeconfig-rbac/controller.go:220;
  kubeconfig.md:105 says they are deleted first). Status remembers the workspace, not the
  target: when `spec.target` moves, the bindings at the old one are never looked at again.
- **A pass on an old copy can leave bindings behind** (kubeconfig-rbac/controller.go:76).
  It starts before the cache has the patch with which the controller dropped its record or
  finalizer, creates bindings, and nothing remembers them. `NoOrphans` says that these two
  are the only causes.
- **A deletion right after the finalizer never ends** (kubeconfig-rbac/controller.go:215).
  `status.authorization` is still nil and `unprovisionCluster` dereferences it in every
  retry: `DeletionCompletes` of `KubeconfigRBAC` fails; `RecordedDeletionCompletes` says
  that this is the only case.
- **A failed read of the RootShard is not retried** (util.go:253-261). `FetchRootShard`
  returns a failed condition and no error, so a Shard or FrontProxy keeps its old render
  input and reports an invalid reference until something else wakes its controller.
  `InputCurrent` and `EventuallyServed` except exactly this (`misread`).
- **A renewed client certificate does not reach the kubeconfig Secret**
  (kubeconfig/controller.go:322; kubeconfig.md:45). No owner references, so the `Owns`
  watches never fire: `SecretRenewed` fails.
- **A FrontProxy can publish before any Certificate exists** (frontproxy/reconciler.go:107;
  frontproxy/controller.go:163 says otherwise). The early return leaves the captured list
  empty, and an empty list counts as ready: `PublishedMountsExist` fails. Shard and
  RootShard, which collect the error of `ReconcileCertificates` too, may publish without
  the Certificates the loop never reached (shard/controller.go:198).
- **One failed read during deletion leaves the kcp Shard registered**
  (shard/controller.go:311). `FetchRootShard` turns every error into "no RootShard":
  `NoLeftovers` fails. A Shard that was moved, or whose process starts late, leaves one
  behind as well (common.go:45, shard/controller.go:332); `LeavesNothing` says that these
  three are the only causes.
- **A Shard that comes and goes between two status lists can stay in a
  CompiledFrontProxy** (rootshard/controller.go:318). Unchanged `status.shards` wakes no
  one: `EveryoneCurrent` fails.
- **The operator cannot verify a proxy under a custom cluster domain**: the proxies'
  server certificate names `svc.cluster.local` (frontproxy/certificates.go:80), the
  client connects to `spec.clusterDomain` (client/address.go:70): `ProxyReachable` fails
  for `CustomDomain` of `MCPods`.
- Phase Ready of a Kubeconfig follows the resolved reference, so it precedes the Secret
  (kubeconfig/controller.go:344; kubeconfig.md:52 tells users to wait for it), and the
  Secret outlives its Kubeconfig (controller.go:105 and 322; kubeconfig.md:55).
- With `UserMount = "ConfigMap"`, `RolloutCurrent` fails: no compiled controller
  watches ConfigMaps it does not own (compiledshard/controller.go:57-71;
  revision_labels.go:36-38).
- A changed `clientCABundleRef` Secret or client CA does not wake the source controller
  that merged it (frontproxy/controller.go:79-86; pki.md:58-63).
- A finalizer that somebody adds between the informer's last event and the operator's
  patch is overwritten (shard/controller.go:353): the merge patch sends the whole list,
  without a resource version. `FinalizersKept` says that this can only happen before the
  Shard is published for the first time.
- With a single replica the old Pod keeps Available true through a rollout that is stuck,
  because `UpdatedReplicas` counts Pods that are not ready (util.go:131). A
  VirtualWorkspace on such a Shard may miss the change of a RootShard, which reaches it
  only over the Shard's status (virtualworkspace/controller.go:262).
- **A VirtualWorkspace on a Shard can miss a change of the RootShard that is taken back**
  (virtualworkspace/controller.go:261-278). It is woken by the Shard's rollout only. If it
  reads the RootShard after an edit, for another reason, and the edit is undone before the
  Shard was rendered, no rollout follows: its Compiled object and Pod stay with the undone
  edit. `Current` without its restriction to `Informed` fails with three edits, which is
  why `WorkspaceCurrent` speaks of one.
- A RootShard or Shard called `ca` and service account authentication: its key is mounted
  at `/etc/kcp/tls/ca/service-account` (utils/authentication.go:103 and 120), which is the
  path of the service account CA (compiledshard/deployment.go:59), and the API server
  refuses a Pod with two mounts at one path. `NoneCalledCA` excludes it.
- Names of different kinds can collide (resources.go:630 and others): a Shard and a
  VirtualWorkspace of one name both write `<name>-merged-client-ca`; the CA of a
  CacheServer called `<rootshard>-server` is the RootShard's server CA; the kubeconfig
  certificate of a FrontProxy called `proxy-dynamic` is the dynamic kubeconfig of the
  RootShard's proxy; a Shard called `<rootshard>-proxy` or `<rootshard>-<frontproxy>` has
  the certificates of that proxy. `ApartNames` is a rule that avoids all of this: names
  differ, and a name that continues another one (or `<rootshard>-<frontproxy>`) does not go
  on with a word of the operator. The rule is sufficient, not necessary.
- A CacheServer with `caSecretRef` panics in every pass (cacheserver/certificates.go:35),
  and so does everybody who lists Shards when one has no `spec.rootShard.ref`
  (util.go:286, rootshard/controller.go:65).
- Templates: an annotation or label once merged is never changed or removed
  (`mergeMaps` lets what exists win); a removed `deploymentTemplate` leaves node selector
  and affinity; a Pod spec template without `imagePullSecrets` erases those of
  `spec.image`; unsetting `replicas` keeps the last count.
- shard/ca_bundle.go:42 says "ServerCA" and reads the server certificate's Secret. The
  flag `--audit-webhook-truncate-max-event-sizes` (utils/audit.go:123) looks misspelt.
  Conditions of VirtualWorkspaces are not exported as metrics, and nothing is until the
  first tick, 30 s after the start.

## Proofs

The modules with theorems declare no recursive operator. All theorems hold for every value
of the constants that satisfies the named assumptions.

- **`TypeCorrect`** (`KubeconfigRBACProofs`): `Spec => []TypeOK`. No assumption on the
  cache. Besides the types it needs that a pass over bindings has a workspace.
- **`RecordProtectsBindings`, `DeletionLeavesNoBindings`**: `RecordInv` and `NoOrphans`, for
  any targets and any age of the cache, without hypotheses. "Every binding is recorded"
  alone is not inductive: the call that drops the record must find kcp clean. `RecordInv`
  adds that as long as a kept binding exists every version a pass can start from agrees with
  the server on target, finalizer and record, that a pass which creates bindings at a place
  that is not astray has such a copy, that the deletion loop covers all that is left, and
  that nothing is left at the calls that change record or finalizer.
- **`FollowsFinalizerProtocol`** (`KubeconfigRBACProofs`): `Spec => Protocol!Spec`, with
  the kept bindings as what is held outside; a place that goes astray is a `Release`.
  `RecordInv` gives, action by action, the abstract step: a patch
  of the finalizer is `Guard` or `Unguard`, creating and deleting a binding `Acquire` and
  `Release`, everything else stutters.
- **`TypeCorrect`, `AvailableMeansSecret`, `NoneForgotten`** (`KubeconfigIssuanceProofs`):
  `TypeOK`, `AvailableIsCurrent`, `NeverForgotten`, from one invariant. `Ordered`: whoever
  copies a generation is behind the Kubeconfig (pass, Certificate, Secret, in this order).
  `Snapshot`: only the pass writes conditions, so its copy is wrong in generation and
  target at most, and if the generation is right so is the target. `Collected`: which
  conditions a pass can hold at each call, and that it holds Available only with the Secret
  it has just written. `Followed`: a pass that was overtaken, or ends without the Secret,
  has another one coming.
- **`PublishedAfterCertificates`** (`RenderPipelineProofs`): controllers that return on
  the first error publish only after every Certificate's Secret exists, for any lists
  of Certificates. The invariant follows the loop: every Certificate not in `todo` was
  captured, and captured as ready only if its Secret exists.
- **`InputFollows`**: `InputCurrent`, for all five kinds and any lists of Certificates,
  unless the last pass misread its RootShard, from `Collecting`: until something wakes the
  source controller again, a pass without an error works from the current spec, and every
  Certificate behind it is up to date and captured with its present revision.
- **`RolloutFollows`**: `RolloutCurrent`, from `Rendering`: until something wakes the
  compiled controller, its pass has the current input, what it has read of the mounts is
  still so, and the Deployments behind it are rendered. Its hypothesis is
  `UserMount # "ConfigMap"`: with a user's ConfigMap it is false, see the observations.
- **`AvailabilityFollows`**: `AvailabilityReported`, in the two hops that the value takes:
  `Seen` (Deployment to Compiled object) and `Adopted` (Compiled object to source), each
  with the request that makes up for it while it is false.
- **`CleanupInvariant`, `DeletedShardsAreDeregistered`** (`ShardLifecycleProofs`):
  `CleanupInv` and `LeavesNothing`, unconditionally. `PassProtected` ties the pass to the
  finalizer, `Tracked` says that, undisturbed, all the Shard has in kcp is where its
  reference points and is gone before the finalizer is.
- **`FinalizerComesFirst`**, and **`FollowsFinalizerProtocol`** of `ShardLifecycleProofs`:
  from the same invariant. What the abstract protocol holds outside is `Guarded`, the
  registrations in existing RootShards while none of the three causes has occurred; a
  cause, or a RootShard that goes, is a `Release` of what the finalizer cannot answer for.
- **`RootCatchesUp`** (`ShardTopologyProofs`): `RootCurrent`, from `RootInv`: a stale
  list, and what was made of it, always goes with a pending request.
- **`GrowthReachesEveryone`**: `GrowthCurrent`, from `GrowthInv`: until a Shard is
  deleted, whoever works from an old list has a request pending or `status.shards` is
  behind too, and its patch will wake it. Sets that only grow cannot cancel out; a
  Shard that comes and goes does (observed above, rootshard/controller.go:318).
- **`TypeCorrect`, `ObservedNeverBack`** (`StatusReportingProofs`): `TypeOK` and
  `ObservedMonotone`, for any number of generations and events. That the generation of a
  render input stays in its type already needs `Order`: it is rebuilt at most once for each
  generation of the source that the cache has shown. `SourceSeen` and `CompiledSeen` say
  that nothing is reported beyond the cache the next pass starts from. The exception is
  `Ahead`, the pass that has just set the finalizer: it compares with the answer to its
  patch, and nothing but the informer starts another one.
- **`FinalizersOfOthersKept`**: `FinalizersKept`, from the same invariant and `Window`: once
  something is published, the cache shows the controller's own finalizer, so it is not set
  again, or a Shard that is being deleted, and then every finalizer the Shard still has,
  because the API server accepts no new ones.
- **`NoUpdateRejected`, `OnePassSettles`, `CertificateFollows`, `PassKeepsOthers`,
  `AmountsExplained`** (`ChildUpdatesProofs`): `NeverRejected`, `Idempotent`,
  `CertificateCurrent`, `OthersKept`, `ResourcesExplained`, for any number of objects,
  edits and restarts. The lemmas say what a pass sends, field by field, and that sending it
  twice sends the same: merging is idempotent, and selectors are always the operator's own
  labels (`Selected`). An object with no pass pending is therefore its own image under the
  reconciler (`PodsGood`, `CertGood`), and a pass over one object does not change what
  another's would send. Amounts are apart, because they do leak: `MemoryExplained` says
  what the package-level defaults can contain.
- **`NeverMixed`** (`StatusReportingProofs`): `GaugesOfOneList`. `AtHand` ties what is
  left to be written to the list at hand, `Passed` says that a collection has conditions
  only of the kinds it has come to, since it resets that gauge once, at its beginning.

- **`Wired`** (`PodWiringProofs`): `WiringInv`, for any situations, options and number of
  edits. It is a promise about every object that has no pending pass. `SourceDone`: its
  Certificates ask for the right addresses, its Secrets are written, and its Compiled
  object is current *or a certificate is outstanding*, whose arrival wakes the controller.
  `CompiledDone`: its Deployments are rendered from the present contents of what they mount
  *or a mounted Secret is missing*, whose arrival wakes the controller. `Current` alone says
  nothing before everything is at rest, so it is not inductive; the two alternatives are
  what a pass that gave up leaves behind. `Shape` keeps bundles and kubeconfigs apart by
  name, and `WorkspaceBundle` replaces the promise for a VirtualWorkspace that is not
  `Informed`: it still has the bundle that its published spec makes it mount. The heart is
  `EditElsewhere`: what a controller reads and does not watch is never edited under it.
- **`EverythingCurrent`, `ClientsTrusted`, `EveryoneConnected`**: `Current`, `ClientTrust`
  and `Connected`, from `WiringInv` and `AtRest`. First, at rest every mounted Secret
  exists, hence everything is rendered. Then the CAs in a Pod's client CA file are computed
  from the bundle it mounts, and each kubeconfig a container can mount (logical cluster
  admin's, external one's, a Shard's for the RootShard, the cache's, the proxies' dynamic
  one, the one a VirtualWorkspace takes from its target) is shown to work, for all
  combinations of options rather than the three of `MCPods`.
- **`OneWriterEach`**: `OneWriter`, for any set of names and words. Every child's name is a
  prefix of its owner (`Prefixes`) followed by a word of the operator (`Reserved`). If two
  are equal, one prefix continues the other, and either goes on with a reserved word, which
  the rule excludes, or is the other one, and so are their owners.
- **`EveryFileMounted`**: `FilesMounted`. The mounts of each container are classified by
  the directory they go to, within which paths differ; each flag is traced to the helper
  that mounts its file. The invariant is `OwnSpecs`: whatever is published or rendered
  carries the spec of its own object.

The theorems about `PodWiring` but `OneWriterEach` have these hypotheses, which `MCPods`
satisfies: `NamesProper` (all of them; the wiring is about names of one word), `IssuerGiven`
(`Wired` and the three that follow; without it `Current` is false, as `MCPodsOwnCA` shows),
`NoneCalledCA` (`EveryFileMounted`). The assumptions of the module itself are types, and
that nothing which refers to a RootShard is in place before the RootShard is.

Only model-checked:

- All liveness properties: TLAPS proves none under fairness.
- `WorkspaceCurrent`: that a single edit leaves no difference depends on the history of
  that edit, since with more of them it is false, and the state does not remember which
  edit a published spec goes back to.
- `CacheUntouched`: that the copies share nothing is a computation over the tables of
  `APITypes`, by a recursive function that the provers cannot unfold.

## Not modelled

- The generated clientset, informers and listers of the SDK: the operator does not use
  them. Of the generated reconcilers, only what a reconciler function sees and returns.
- Command-line flags other than the controller groups; feature gates, of which there are
  none.
- The counters and histograms every `Reconcile` increments: nothing reads or resets them.
- Images, probes, logging and tracing flags, extra volumes and the text of URLs, PEM
  blocks and kubeconfigs.
- kcp, cert-manager and the Kubernetes controllers, beyond what the operator sees of them.

## Plan

Done, in this order: RBAC, issuance, rendering, lifecycle, topology; then status and deep
copies, updates in place, naming and the wiring of Pods, metrics, and the finalizer
protocol as the common abstract specification; then the proofs, those about the wiring of
Pods last. Next, in order of weight:

1. An abstract "publish eventually follows" specification that `RenderPipeline` and
   `ShardTopology` both implement.
2. Contents of referenced Secrets that change, in `PodWiring`; stale caches in
   `ShardLifecycle`.
3. Intermediate versions in the cache of `StatusReporting`, which skips to the latest one.
