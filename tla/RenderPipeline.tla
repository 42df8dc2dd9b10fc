--------------------------- MODULE RenderPipeline ---------------------------
(***************************************************************************)
(* From a source object to its running Deployments.  A source controller   *)
(* (shard, rootshard, frontproxy, virtualworkspace or cache-server)        *)
(* requests certificates, prepares Secrets and publishes a Compiled*       *)
(* object; the matching compiled controller renders Deployments from it,   *)
(* labelled with the versions of what they mount, and availability flows   *)
(* back.  The two controllers share nothing but the API server.            *)
(*                                                                         *)
(* Every controller call is a step.  A pass reads an object at the step    *)
(* that needs it: the k8c.io reconciler waits for the cache after each     *)
(* write, so a pass sees what earlier passes wrote.  Status fields other   *)
(* than Available are left out: patching them only adds wake-ups.          *)
(***************************************************************************)
EXTENDS Naturals, Sequences, FiniteSets

CONSTANTS
    Kinds,       \* the source kinds to look at
    OwnCerts,    \* the Certificates a source controller reconciles itself, in order
    ProxyCerts,  \* the Certificates of a front-proxy, in order
    UserBundle,  \* TRUE: a clientCABundleRef names a Secret users provide
    UserMount,   \* "Secret", "ConfigMap" or "none": what else users let the Deployment mount
    MaxEdits,    \* bound on changes of the source spec
    MaxUser,     \* bound on versions of what users provide
    MaxIssues,   \* bound on issuances per Certificate
    MaxFaults    \* bound on failed calls

Known == {"Shard", "RootShard", "FrontProxy", "VirtualWorkspace", "CacheServer"}

CertSet(seq) == {seq[i] : i \in 1..Len(seq)}

AllCerts == CertSet(OwnCerts) \cup CertSet(ProxyCerts)

\* Other Secrets and ConfigMaps: those the source controller writes, the
\* RootShard's client CA as others see it, and what users provide.
Extras == {"kubeconfig", "bundle", "proxyBundle", "rootCA", "userCA", "user"}

ASSUME KindAssumption == Kinds \subseteq Known

ASSUME CertAssumption ==
    /\ OwnCerts \in Seq(STRING) /\ ProxyCerts \in Seq(STRING)
    /\ OwnCerts # <<>>  \* the first is the client CA of a RootShard
    /\ CertSet(OwnCerts) \cap CertSet(ProxyCerts) = {}
    /\ AllCerts \cap Extras = {}

ASSUME OptionAssumption ==
    UserBundle \in BOOLEAN /\ UserMount \in {"Secret", "ConfigMap", "none"}

ASSUME BoundAssumption ==
    MaxEdits \in Nat /\ MaxUser \in Nat /\ MaxIssues \in Nat /\ MaxFaults \in Nat

VARIABLES
    kind,      \* the source kind of this behaviour
    src,       \* the source object: generation and the Available condition it reports
    root,      \* the RootShard it refers to exists
    misread,   \* history: the last pass failed to read that RootShard and went on
    cert,      \* the Certificates
    ver,       \* version of every Secret or ConfigMap, 0: missing
    compiled,  \* the Compiled* object
    dep,       \* the Deployments
    svc,       \* the Service exists
    qs, qc,    \* requests for the source and the compiled controller
    pc,        \* the step of the source pass
    pass,      \* its locals
    cpc,       \* the step of the compiled pass
    cpass,     \* its locals
    faults     \* failures so far

vars == <<kind, src, root, misread, cert, ver, compiled, dep, svc,
          qs, qc, pc, pass, cpc, cpass, faults>>

-----------------------------------------------------------------------------
(* What differs between the source kinds.                                  *)

\* Controllers whose reconcile returns on the first error.
Strict == {"VirtualWorkspace", "CacheServer"}

Proxied == {"RootShard", "FrontProxy"}

Own == IF kind = "FrontProxy" THEN <<>> ELSE OwnCerts

Proxy == IF kind \in Proxied THEN ProxyCerts ELSE <<>>

Certs == CertSet(Own) \cup CertSet(Proxy)

\* The order in which one pass of each reconcile does its work.
ShardStages == <<"certs", "others", "bundle", "lookup", "publish", "status">>

RootShardStages ==
    <<"certs", "bundle", "others", "lookup", "proxyCA", "proxyCerts", "publish", "status">>

FrontProxyStages == <<"lookup", "proxyCA", "proxyCerts", "publish", "status">>

VirtualWorkspaceStages == <<"certs", "bundle", "publish", "status">>

CacheServerStages == <<"certs", "others", "publish", "status">>

Stages ==
    [Shard |-> ShardStages, RootShard |-> RootShardStages, FrontProxy |-> FrontProxyStages,
     VirtualWorkspace |-> VirtualWorkspaceStages, CacheServer |-> CacheServerStages]

After(stage) ==
    LET s == Stages[kind]
    IN  s[1 + (CHOOSE i \in 1..Len(s) : s[i] = stage)]

\* Defect: the errors of every stage are only collected.
OnErrorCollect(stage) == IF stage = "proxyCA" THEN "publish" ELSE After(stage)

\* Where a pass goes on when a stage fails: most controllers collect the error.
OnError(stage) ==
    IF kind \in Strict \/ (kind = "FrontProxy" /\ stage = "lookup") THEN "status"
    ELSE IF stage = "proxyCA" THEN "publish"
    ELSE After(stage)

Deployments ==
    CASE kind = "RootShard" -> {"main", "proxy"}
      [] kind = "FrontProxy" -> {"proxy"}
      [] OTHER -> {"main"}

\* The Deployment whose availability is reported.
Reported == IF kind = "FrontProxy" THEN "proxy" ELSE "main"

\* Kinds that refer to a RootShard.
Referring == {"Shard", "FrontProxy", "VirtualWorkspace"}

\* Those that read it with FetchRootShard.
Fetching == {"Shard", "FrontProxy"}

If(condition, name) == IF condition THEN {name} ELSE {}

\* What the Deployments mount: Secrets of the source, of its RootShard, of users.
ShardMounts ==
    CertSet(OwnCerts) \cup {"kubeconfig", "rootCA"}
    \cup If(UserBundle, "bundle") \cup If(UserMount # "none", "user")

RootShardMounts ==
    CertSet(OwnCerts) \cup {"kubeconfig"}
    \cup If(UserBundle, "bundle") \cup If(UserMount # "none", "user")

VirtualWorkspaceMounts ==
    CertSet(OwnCerts) \cup {"rootCA"}
    \cup If(UserBundle, "bundle") \cup If(UserMount # "none", "user")

CacheServerMounts == CertSet(OwnCerts) \cup If(UserMount # "none", "user")

ProxyMounts ==
    CertSet(ProxyCerts) \cup {"proxyBundle"} \cup If(kind = "FrontProxy", "rootCA")

Mounts(d) ==
    IF d = "proxy" THEN ProxyMounts
    ELSE [Shard |-> ShardMounts, RootShard |-> RootShardMounts,
          VirtualWorkspace |-> VirtualWorkspaceMounts, CacheServer |-> CacheServerMounts][kind]

\* The client CA that merged bundles start with.
ClientCA == IF kind = "RootShard" THEN OwnCerts[1] ELSE "rootCA"

\* What a merged bundle is made of can be read.
CAsExist == ver[ClientCA] > 0 /\ (UserBundle => ver["userCA"] > 0)

\* The version of a bundle merged from what there is: it moves with its parts.
Merged == ver[ClientCA] + IF UserBundle THEN ver["userCA"] ELSE 0

-----------------------------------------------------------------------------
(* The two controllers' locals.                                            *)

Revisions == [AllCerts -> 0..MaxIssues]

Versions == 0..(MaxIssues + MaxUser)

NoRevisions == [c \in AllCerts |-> 0]

\* gen: generation read; todo: Certificates to go; ready, revs: what Capture
\* collected; valid: the references resolved; err: an error is returned.
NewPass == [gen |-> 0, todo |-> <<>>, ready |-> TRUE, revs |-> NoRevisions,
            valid |-> TRUE, err |-> FALSE]

\* gen: the generation of the render input; todo: Deployments to go; labels: the
\* versions read for the next one; err: an error is returned.
NewCompiledPass == [gen |-> 0, todo |-> {}, labels |-> <<>>, err |-> FALSE]

NoCompiled == [exists |-> FALSE, gen |-> 0, revs |-> NoRevisions, available |-> FALSE]

NoDeployment == [exists |-> FALSE, gen |-> 0, labels |-> <<>>, observed |-> TRUE, up |-> FALSE]

Enter(stage) == IF stage = "certs" THEN Own ELSE IF stage = "proxyCerts" THEN Proxy ELSE <<>>

\* The pass goes on with a stage.
Go(stage, locals) ==
    /\ pc' = stage
    /\ pass' = [locals EXCEPT !.todo = Enter(stage)]

Fail(stage) == Go(OnError(stage), [pass EXCEPT !.err = TRUE])

Fault == faults < MaxFaults /\ faults' = faults + 1

Outside == <<kind, root, misread>>

Render == <<dep, svc, cpc, cpass>>

-----------------------------------------------------------------------------
(* Users, cert-manager and Kubernetes.                                     *)

Edit ==
    /\ src.gen < MaxEdits
    /\ src' = [src EXCEPT !.gen = @ + 1]
    /\ qs' = TRUE
    /\ UNCHANGED <<Outside, cert, ver, compiled, qc, pc, pass, faults, Render>>

\* Defect: there is no watch on RootShards.
RootAppearsUnseen ==
    /\ kind \in Referring
    /\ ~root
    /\ root' = TRUE
    /\ UNCHANGED <<kind, misread, src, cert, ver, compiled, qs, qc, pc, pass, faults, Render>>

\* The RootShard appears; the source controllers that refer to it watch it.
RootAppears ==
    /\ kind \in Referring
    /\ ~root
    /\ root' = TRUE
    /\ qs' = TRUE
    /\ UNCHANGED <<kind, misread, src, cert, ver, compiled, qc, pc, pass, faults, Render>>

\* A Secret this source does not own: only the compiled controller, which
\* watches every Secret of the namespace, hears of it.
Provide(name) ==
    /\ ver' = [ver EXCEPT ![name] = @ + 1]
    /\ qc' = TRUE
    /\ UNCHANGED <<Outside, src, cert, compiled, qs, pc, pass, faults, Render>>

\* The RootShard's client CA is issued or renewed.
RootCAIssued ==
    /\ root
    /\ ver["rootCA"] < MaxIssues
    /\ Provide("rootCA")

\* Users create or change the CA bundle Secret they refer to.
UserBundleChanges ==
    /\ UserBundle
    /\ ver["userCA"] < MaxUser
    /\ Provide("userCA")

\* Users create or change what else is mounted: there is a watch on Secrets,
\* none on ConfigMaps the controllers do not own.
UserMountChanges ==
    /\ UserMount # "none"
    /\ ver["user"] < MaxUser
    /\ ver' = [ver EXCEPT !["user"] = @ + 1]
    /\ qc' = (qc \/ UserMount = "Secret")
    /\ UNCHANGED <<Outside, src, cert, compiled, qs, pc, pass, faults, Render>>

\* cert-manager stores a new certificate ...
CertIssue ==
    /\ \E c \in Certs :
         /\ cert[c].exists
         /\ ver[c] < MaxIssues
         /\ ver' = [ver EXCEPT ![c] = @ + 1]
    /\ qc' = TRUE
    /\ UNCHANGED <<Outside, src, cert, compiled, qs, pc, pass, faults, Render>>

\* ... and reports it.
CertReady ==
    /\ \E c \in Certs :
         /\ cert[c].exists
         /\ ver[c] > 0
         /\ cert[c].rev # ver[c] \/ ~cert[c].ready
         /\ cert' = [cert EXCEPT ![c].ready = TRUE, ![c].rev = ver[c]]
    /\ qs' = TRUE
    /\ UNCHANGED <<Outside, src, ver, compiled, qc, pc, pass, faults, Render>>

\* A certificate that has to be issued again is not ready until it is.
CertLapse ==
    /\ \E c \in Certs :
         /\ cert[c].ready
         /\ ver[c] < MaxIssues
         /\ cert' = [cert EXCEPT ![c].ready = FALSE]
    /\ qs' = TRUE
    /\ UNCHANGED <<Outside, src, ver, compiled, qc, pc, pass, faults, Render>>

\* The Deployment controller sees a new template, and later has it running.
DeploymentProgress ==
    /\ \E d \in Deployments :
         /\ dep[d].exists
         /\ \/ ~dep[d].observed /\ dep' = [dep EXCEPT ![d].observed = TRUE, ![d].up = FALSE]
            \/ dep[d].observed /\ ~dep[d].up /\ dep' = [dep EXCEPT ![d].up = TRUE]
    /\ qc' = TRUE
    /\ UNCHANGED <<Outside, src, cert, ver, compiled, svc, qs, pc, pass, cpc, cpass, faults>>

-----------------------------------------------------------------------------
(* The source controller.                                                  *)

Begin ==
    /\ pc = "idle" /\ qs
    /\ qs' = FALSE
    /\ \/ /\ kind \in Referring => root
          /\ Go(Head(Stages[kind]), [NewPass EXCEPT !.gen = src.gen])
       \/ \* FetchRootShard finds nothing: no error, the watch wakes us.
          /\ kind \in Fetching /\ ~root
          /\ Go("status", [NewPass EXCEPT !.gen = src.gen])
       \/ \* A virtual workspace whose target is missing is an error.
          /\ kind = "VirtualWorkspace" /\ ~root
          /\ Go("status", [NewPass EXCEPT !.gen = src.gen, !.err = TRUE])
    /\ misread' = FALSE
    /\ UNCHANGED <<kind, root, src, cert, ver, compiled, qc, faults, Render>>

\* The read of a RootShard that is there fails.  FetchRootShard makes no difference
\* between that and a missing one: the pass ends without an error, so nothing
\* retries it.  A virtual workspace returns the error.
FetchFails ==
    /\ pc = "idle" /\ qs
    /\ kind \in Referring /\ root
    /\ Fault
    /\ qs' = FALSE
    /\ Go("status", [NewPass EXCEPT !.gen = src.gen, !.err = kind \notin Fetching])
    /\ misread' = (kind \in Fetching)
    /\ UNCHANGED <<kind, root, src, cert, ver, compiled, qc, Render>>

\* Capture keeps the object as it was read; one that is missing is not ready.
Captured(c) ==
    [pass EXCEPT !.ready = @ /\ cert[c].exists /\ cert[c].ready,
                 !.revs[c] = cert[c].rev]

CertLoop == pc \in {"certs", "proxyCerts"}

\* ReconcileCertificates: the next Certificate is created or brought up to date.
EnsureCertificate ==
    /\ CertLoop /\ pass.todo # <<>>
    /\ LET c == Head(pass.todo)
           new == [cert[c] EXCEPT !.exists = TRUE, !.gen = pass.gen]
       IN  /\ cert' = [cert EXCEPT ![c] = new]
           /\ pass' = [Captured(c) EXCEPT !.todo = Tail(@)]
           /\ qs' = (qs \/ cert[c] # new)
    /\ UNCHANGED <<Outside, src, ver, compiled, qc, pc, faults, Render>>

CertificatesDone ==
    /\ CertLoop /\ pass.todo = <<>>
    /\ Go(After(pc), pass)
    /\ UNCHANGED <<Outside, src, cert, ver, compiled, qs, qc, faults, Render>>

\* The loop ends at the first error: a failed read captures nothing, a failed
\* write has captured what was read.
CertificateFails ==
    /\ CertLoop /\ pass.todo # <<>>
    /\ Fault
    /\ LET c == Head(pass.todo)
       IN  \/ Fail(pc)
           \/ /\ ~cert[c].exists \/ cert[c].gen # pass.gen
              /\ Go(OnError(pc), [Captured(c) EXCEPT !.err = TRUE])
    /\ UNCHANGED <<Outside, src, cert, ver, compiled, qs, qc, Render>>

\* A Secret the source owns is written: both controllers hear of a change.
StoreSecret(name, version) ==
    /\ ver' = [ver EXCEPT ![name] = version]
    /\ qs' = (qs \/ ver[name] # version)
    /\ qc' = (qc \/ ver[name] # version)

\* Issuers and the kubeconfig Secrets, which depend on nothing.
EnsureOthers ==
    /\ pc = "others"
    /\ StoreSecret("kubeconfig", 1)
    /\ Go(After(pc), pass)
    /\ UNCHANGED <<Outside, src, cert, compiled, faults, Render>>

\* The merged CA bundle, when the spec asks for one.
SkipBundle ==
    /\ pc = "bundle"
    /\ ~UserBundle
    /\ Go(After(pc), pass)
    /\ UNCHANGED <<Outside, src, cert, ver, compiled, qs, qc, faults, Render>>

EnsureBundle ==
    /\ pc = "bundle"
    /\ UserBundle /\ CAsExist
    /\ StoreSecret("bundle", Merged)
    /\ Go(After(pc), pass)
    /\ UNCHANGED <<Outside, src, cert, compiled, faults, Render>>

\* The proxy's client CAs are the RootShard's CA and the users' bundle.
EnsureProxyCAs ==
    /\ pc = "proxyCA"
    /\ CAsExist
    /\ StoreSecret("proxyBundle", Merged)
    /\ Go(After(pc), pass)
    /\ UNCHANGED <<Outside, src, cert, compiled, faults, Render>>

\* A CA to merge does not exist (yet).
CAMissing ==
    /\ \/ pc = "bundle" /\ UserBundle
       \/ pc = "proxyCA"
    /\ ~CAsExist
    /\ Fail(pc)
    /\ UNCHANGED <<Outside, src, cert, ver, compiled, qs, qc, faults, Render>>

\* The virtual workspace and the shards the input refers to are looked up.
Lookup ==
    /\ pc = "lookup"
    /\ Go(After(pc), pass)
    /\ UNCHANGED <<Outside, src, cert, ver, compiled, qs, qc, faults, Render>>

LookupFails ==
    /\ pc = "lookup"
    /\ Fault
    /\ Go(OnError(pc), [pass EXCEPT !.err = TRUE, !.valid = FALSE])
    /\ UNCHANGED <<Outside, src, cert, ver, compiled, qs, qc, Render>>

\* A read or a write of another stage fails.  A proxy whose CA bundle could be
\* read but not written still gets its Certificates.
StageFails ==
    /\ pc \in {"others", "bundle", "proxyCA", "publish"}
    /\ Fault
    /\ \/ Fail(pc)
       \/ pc = "proxyCA" /\ Go(After(pc), [pass EXCEPT !.err = TRUE])
    /\ UNCHANGED <<Outside, src, cert, ver, compiled, qs, qc, Render>>

\* CertificateRevisions: no captured Certificate is unready.
CertsReady == pass.ready

\* Defect: an existing Compiled* object is not updated.
PublishOnce ==
    /\ pc = "publish"
    /\ LET new == [compiled EXCEPT !.exists = TRUE, !.gen = pass.gen, !.revs = pass.revs]
       IN  IF CertsReady /\ pass.valid /\ ~compiled.exists
           THEN compiled' = new /\ qs' = TRUE /\ qc' = TRUE
           ELSE UNCHANGED <<compiled, qs, qc>>
    /\ Go(After(pc), pass)
    /\ UNCHANGED <<Outside, src, cert, ver, faults, Render>>

\* The render input goes out with the revisions of the captured Certificates.
Publish ==
    /\ pc = "publish"
    /\ LET new == [compiled EXCEPT !.exists = TRUE, !.gen = pass.gen, !.revs = pass.revs]
       IN  IF CertsReady /\ pass.valid
           THEN /\ compiled' = new
                /\ qs' = (qs \/ compiled # new)
                /\ qc' = (qc \/ compiled # new)
           ELSE UNCHANGED <<compiled, qs, qc>>
    /\ Go(After(pc), pass)
    /\ UNCHANGED <<Outside, src, cert, ver, faults, Render>>

\* Defect: the errors a pass has collected are dropped.
StatusDropsErrors ==
    /\ pc = "status"
    /\ src' = IF kind = "CacheServer" THEN src ELSE [src EXCEPT !.available = compiled.available]
    /\ qs' = (qs \/ src' # src)
    /\ pc' = "idle"
    /\ pass' = NewPass
    /\ UNCHANGED <<Outside, cert, ver, compiled, qc, faults, Render>>

\* reconcileStatus adopts the availability of the Compiled* object; the pass
\* ends and an error is retried.  A CacheServer reports no status.
Status ==
    /\ pc = "status"
    /\ src' = IF kind = "CacheServer" THEN src ELSE [src EXCEPT !.available = compiled.available]
    /\ qs' = (qs \/ src' # src \/ pass.err)
    /\ pc' = "idle"
    /\ pass' = NewPass
    /\ UNCHANGED <<Outside, cert, ver, compiled, qc, faults, Render>>

StatusFails ==
    /\ pc = "status" /\ kind # "CacheServer"
    /\ Fault
    /\ qs' = TRUE
    /\ pc' = "idle"
    /\ pass' = NewPass
    /\ UNCHANGED <<Outside, src, cert, ver, compiled, qc, Render>>

-----------------------------------------------------------------------------
(* The compiled controller.                                                *)

Source == <<src, pc, pass, Outside, cert>>

CompiledBegin ==
    /\ cpc = "idle" /\ qc
    /\ qc' = FALSE
    /\ IF compiled.exists
       THEN /\ cpc' = "read"
            /\ cpass' = [NewCompiledPass EXCEPT !.gen = compiled.gen, !.todo = Deployments]
       ELSE UNCHANGED <<cpc, cpass>>
    /\ UNCHANGED <<ver, compiled, dep, svc, qs, faults, Source>>

\* A CompiledRootShard's own Deployment comes before its proxy's.
Current == IF "main" \in cpass.todo THEN "main" ELSE "proxy"

\* The Deployment has been dealt with.
Done(locals) == [locals EXCEPT !.todo = @ \ {Current}, !.labels = <<>>]

\* Everything the Deployment mounts has been found.
Found == \A m \in Mounts(Current) : ver[m] > 0

\* RelatedRevisionsLabels: the version of everything a Deployment mounts.
ReadMounts ==
    /\ cpc = "read"
    /\ Found
    /\ cpass' = [cpass EXCEPT !.labels = [m \in Mounts(Current) |-> ver[m]]]
    /\ cpc' = "write"
    /\ UNCHANGED <<ver, compiled, dep, svc, qs, qc, faults, Source>>

\* ErrMountNotFound is swallowed and the Deployment left alone; the cache
\* server's controller returns, the others go on.
MountNotFound ==
    /\ cpc = "read"
    /\ ~Found
    /\ IF kind = "CacheServer"
       THEN cpc' = "idle" /\ cpass' = NewCompiledPass
       ELSE cpc' = "service" /\ cpass' = Done(cpass)
    /\ UNCHANGED <<ver, compiled, dep, svc, qs, qc, faults, Source>>

\* Defect: an existing Deployment is not updated.
WriteDeploymentOnce ==
    /\ cpc = "write"
    /\ dep' = IF dep[Current].exists THEN dep
              ELSE [dep EXCEPT ![Current] = [exists |-> TRUE, gen |-> cpass.gen,
                        labels |-> cpass.labels, observed |-> FALSE, up |-> FALSE]]
    /\ qc' = (qc \/ dep' # dep)
    /\ cpass' = Done(cpass)
    /\ cpc' = "service"
    /\ UNCHANGED <<ver, compiled, svc, qs, faults, Source>>

\* The Deployment is created or updated from the input and the labels read.
WriteDeployment ==
    /\ cpc = "write"
    /\ LET old == dep[Current]
           new == [old EXCEPT !.exists = TRUE, !.gen = cpass.gen, !.labels = cpass.labels]
       IN  /\ dep' = [dep EXCEPT ![Current] =
                        IF new = old THEN old ELSE [new EXCEPT !.observed = FALSE]]
           /\ qc' = (qc \/ new # old)
    /\ cpass' = Done(cpass)
    /\ cpc' = "service"
    /\ UNCHANGED <<ver, compiled, svc, qs, faults, Source>>

WriteService ==
    /\ cpc = "service"
    /\ svc' = TRUE
    /\ qc' = (qc \/ ~svc)
    /\ cpc' = IF cpass.todo # {} THEN "read" ELSE "status"
    /\ UNCHANGED <<ver, compiled, dep, qs, cpass, faults, Source>>

\* Defect: the errors a pass has collected are dropped.
CompiledStatusDropsErrors ==
    /\ cpc = "status"
    /\ LET new == [compiled EXCEPT !.available =
                     IF kind = "CacheServer" THEN @ ELSE dep[Reported].exists /\ dep[Reported].up]
       IN  /\ compiled' = new
           /\ qs' = (qs \/ new # compiled)
           /\ qc' = (qc \/ new # compiled)
    /\ cpc' = "idle"
    /\ cpass' = NewCompiledPass
    /\ UNCHANGED <<ver, dep, svc, faults, Source>>

\* Defect: a Deployment that exists is taken to be available.
CompiledStatusExists ==
    /\ cpc = "status"
    /\ LET new == [compiled EXCEPT !.available =
                     IF kind = "CacheServer" THEN @ ELSE dep[Reported].exists]
       IN  /\ compiled' = new
           /\ qs' = (qs \/ new # compiled)
           /\ qc' = (qc \/ new # compiled \/ cpass.err)
    /\ cpc' = "idle"
    /\ cpass' = NewCompiledPass
    /\ UNCHANGED <<ver, dep, svc, faults, Source>>

\* The Compiled* object reports what the Deployment's status says, and an error
\* is retried.  A CompiledCacheServer has no status.
CompiledStatus ==
    /\ cpc = "status"
    /\ LET new == [compiled EXCEPT !.available =
                     IF kind = "CacheServer" THEN @ ELSE dep[Reported].exists /\ dep[Reported].up]
       IN  /\ compiled' = new
           /\ qs' = (qs \/ new # compiled)
           /\ qc' = (qc \/ new # compiled \/ cpass.err)
    /\ cpc' = "idle"
    /\ cpass' = NewCompiledPass
    /\ UNCHANGED <<ver, dep, svc, faults, Source>>

\* A call for the Deployment or the Service fails: the cache server's
\* controller returns, the others go on and return the error at the end.
CompiledFails ==
    /\ cpc \in {"read", "write", "service"}
    /\ Fault
    /\ IF kind = "CacheServer"
       THEN /\ cpc' = "idle" /\ cpass' = NewCompiledPass
            /\ qc' = TRUE
       ELSE /\ UNCHANGED qc
            /\ cpass' = [(IF cpc = "service" THEN cpass ELSE Done(cpass)) EXCEPT !.err = TRUE]
            /\ cpc' = IF cpc # "service" THEN "service"
                      ELSE IF cpass.todo # {} THEN "read" ELSE "status"
    /\ UNCHANGED <<ver, compiled, dep, svc, qs, Source>>

CompiledStatusFails ==
    /\ cpc = "status" /\ kind # "CacheServer"
    /\ Fault
    /\ qc' = TRUE
    /\ cpc' = "idle"
    /\ cpass' = NewCompiledPass
    /\ UNCHANGED <<ver, compiled, dep, svc, qs, Source>>

-----------------------------------------------------------------------------

Init ==
    /\ kind \in Kinds
    /\ src = [gen |-> 0, available |-> FALSE]
    /\ root = FALSE /\ misread = FALSE
    /\ cert = [c \in AllCerts |-> [exists |-> FALSE, gen |-> 0, ready |-> FALSE, rev |-> 0]]
    /\ ver = [s \in AllCerts \cup Extras |-> 0]
    /\ compiled = NoCompiled
    /\ dep = [d \in {"main", "proxy"} |-> NoDeployment]
    /\ svc = FALSE
    /\ qs = TRUE /\ qc = FALSE
    /\ pc = "idle" /\ pass = NewPass
    /\ cpc = "idle" /\ cpass = NewCompiledPass
    /\ faults = 0

SourceWorker ==
    \/ Begin \/ EnsureCertificate \/ CertificatesDone \/ EnsureOthers \/ SkipBundle
    \/ EnsureBundle \/ EnsureProxyCAs \/ CAMissing \/ Lookup \/ Publish \/ Status

CompiledWorker ==
    \/ CompiledBegin \/ ReadMounts \/ MountNotFound \/ WriteDeployment \/ WriteService
    \/ CompiledStatus

Faults == FetchFails \/ CertificateFails \/ LookupFails \/ StageFails \/ StatusFails \/ CompiledFails
    \/ CompiledStatusFails

Users == Edit \/ RootAppears \/ UserBundleChanges \/ UserMountChanges

CertManager == CertIssue \/ CertReady \/ CertLapse \/ RootCAIssued

Next == Users \/ CertManager \/ DeploymentProgress \/ SourceWorker \/ CompiledWorker \/ Faults

Spec == Init /\ [][Next]_vars

\* The two workers and Kubernetes run on; cert-manager reissues what lapsed.
FairSpec ==
    /\ Spec
    /\ WF_vars(SourceWorker) /\ WF_vars(CompiledWorker)
    /\ WF_vars(CertIssue) /\ WF_vars(CertReady) /\ WF_vars(DeploymentProgress)

-----------------------------------------------------------------------------
(* Properties.                                                             *)

Labels == {<<>>} \cup UNION {[Mounts(d) -> Versions] : d \in Deployments}

\* Every variable keeps its type, and the compiled controller only works on a
\* Deployment while there is one left (compiledrootshard/controller.go:119-152).
TypeOK ==
    /\ kind \in Kinds
    /\ src \in [gen : 0..MaxEdits, available : BOOLEAN]
    /\ root \in BOOLEAN /\ misread \in BOOLEAN
    /\ cert \in [AllCerts -> [exists : BOOLEAN, gen : 0..MaxEdits, ready : BOOLEAN,
                              rev : 0..MaxIssues]]
    /\ ver \in [AllCerts \cup Extras -> Versions]
    /\ compiled \in [exists : BOOLEAN, gen : 0..MaxEdits, revs : Revisions, available : BOOLEAN]
    /\ \A d \in DOMAIN dep :
         dep[d] \in [exists : BOOLEAN, gen : 0..MaxEdits, labels : Labels,
                    observed : BOOLEAN, up : BOOLEAN]
    /\ svc \in BOOLEAN /\ qs \in BOOLEAN /\ qc \in BOOLEAN
    /\ pc \in {"idle"} \cup {Stages[kind][i] : i \in DOMAIN Stages[kind]}
    /\ pass.gen \in 0..MaxEdits /\ pass.ready \in BOOLEAN /\ pass.revs \in Revisions
    /\ cpc \in {"idle", "read", "write", "service", "status"}
    /\ cpc \in {"read", "write"} => cpass.todo # {}
    /\ cpass.todo \in SUBSET Deployments /\ cpass.labels \in Labels
    /\ faults \in 0..MaxFaults

\* virtualworkspace/controller.go:221 (and the other source controllers): "Only
\* publish the render input once every Certificate is ready, so that whoever
\* consumes it can rely on the Secrets it mounts already existing."
PublishedMountsExist == compiled.exists => \A c \in Certs : ver[c] > 0

\* The controllers that return on the first error (virtualworkspace/controller.go:
\* 124-236, cacheserver/controller.go:94-129) keep that promise.
StrictPublish == kind \in Strict => PublishedMountsExist

\* The source controller has nothing to do, its references and Certificates are
\* fine, and it has not been left with a failed read of its RootShard.
SourceSettled ==
    /\ pc = "idle" /\ ~qs
    /\ kind \in Referring => root
    /\ ~misread
    /\ \A c \in Certs : cert[c].ready

\* No change of the spec and no renewal is lost on the way to the render input:
\* the Owns and Watches of SetupWithManager and the retries wake the controller
\* until the Compiled* object carries the current spec and revisions.  The one
\* exception is a failed read of a RootShard that is there (util.go:253-261 reports
\* it as missing, without an error to retry).
InputCurrent ==
    SourceSettled =>
        /\ compiled.exists /\ compiled.gen = src.gen
        /\ \A c \in Certs : cert[c].gen = src.gen /\ compiled.revs[c] = cert[c].rev

\* revision_labels.go:36-38: the labels "put [...] onto the pod template, causing
\* restarts when the volumes changed".  Whenever the compiled controller has
\* nothing to do, every Deployment whose mounts exist was rendered from the
\* current input and carries the version of each of them.
RolloutCurrent ==
    cpc = "idle" /\ ~qc /\ compiled.exists =>
        \A d \in Deployments :
            (\A m \in Mounts(d) : ver[m] > 0) =>
                /\ dep[d].exists /\ dep[d].gen = compiled.gen
                /\ dep[d].labels = [m \in Mounts(d) |-> ver[m]]

\* util.go:169: the source object "still reports on the Deployment it no longer
\* owns": once both controllers rest, Available says whether it is up.
AvailabilityReported ==
    pc = "idle" /\ ~qs /\ cpc = "idle" /\ ~qc /\ kind # "CacheServer" =>
        (src.available <=> dep[Reported].exists /\ dep[Reported].up)

\* Everything the operator does not create itself has been provided.
Provided ==
    /\ kind \in Referring => root
    /\ CAsExist \/ kind = "CacheServer"
    /\ \A d \in Deployments : Mounts(d) \cap {"rootCA", "user"} \subseteq {m \in Extras : ver[m] > 0}

\* Once users, renewals and failures stop, a source object whose references are
\* provided, and whose last pass could read them, ends up with all its Deployments
\* running the current spec and Secrets, with a Service, and (but for a cache
\* server) reports that.
EventuallyServed ==
    <>[](Provided /\ ~misread =>
            /\ \A d \in Deployments :
                 /\ dep[d].up /\ dep[d].observed /\ dep[d].gen = src.gen
                 /\ dep[d].labels = [m \in Mounts(d) |-> ver[m]]
            /\ svc
            /\ src.available \/ kind = "CacheServer")

=============================================================================
