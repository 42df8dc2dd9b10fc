------------------------ MODULE RenderPipelineProofs ------------------------
(***************************************************************************)
(* The first part is about the source controllers whose reconcile returns  *)
(* on the first error: a published render input means that every           *)
(* Certificate has its Secret.  The rest is about all kinds: the           *)
(* Deployments follow the render input and their mounts, the source object *)
(* reports whether its Deployment is up, and the render input follows the  *)
(* source object and its Certificates, whatever their number and however   *)
(* issuance, failures, edits and the two controllers interleave.           *)
(***************************************************************************)
EXTENDS RenderPipeline, TLAPS

\* The locals of a source pass.
Passes ==
    [gen : Nat, todo : Seq(AllCerts), ready : BOOLEAN, revs : [AllCerts -> Nat],
     valid : BOOLEAN, err : BOOLEAN]

\* What the argument needs of the variables' types.
Types ==
    /\ kind \in Kinds
    /\ cert \in [AllCerts -> [exists : BOOLEAN, gen : Nat, ready : BOOLEAN, rev : Nat]]
    /\ ver \in [AllCerts \cup Extras -> Nat]
    /\ src \in [gen : Nat, available : BOOLEAN]
    /\ pass \in Passes
    /\ compiled \in [exists : BOOLEAN, gen : Nat, revs : [AllCerts -> Nat], available : BOOLEAN]

\* A Certificate is ready only with its Secret; the Certificates the running
\* pass found ready so far are those it does not have to look at anymore; past
\* the loop there is none left.
Covered ==
    /\ \A c \in AllCerts : cert[c].ready => ver[c] > 0
    /\ pc = "certs" /\ pass.ready =>
         \A c \in CertSet(OwnCerts) : ver[c] > 0 \/ c \in CertSet(pass.todo)
    /\ pc = "proxyCerts" => pass.todo = <<>>
    /\ pc \notin {"idle", "status", "certs"} /\ pass.ready =>
         \A c \in CertSet(OwnCerts) : ver[c] > 0

PublishInv == Types /\ Covered /\ PublishedMountsExist

-----------------------------------------------------------------------------

\* The Certificates of a list are its head and those of its tail.
LEMMA CertSetHead ==
    ASSUME NEW s \in Seq(AllCerts), s # <<>>
    PROVE  /\ Head(s) \in AllCerts
           /\ Tail(s) \in Seq(AllCerts)
           /\ CertSet(s) \subseteq {Head(s)} \cup CertSet(Tail(s))
<1>1. Head(s) \in AllCerts /\ Tail(s) \in Seq(AllCerts)
  OBVIOUS
<1>2. ASSUME NEW i \in 1..Len(s)
      PROVE  s[i] \in {Head(s)} \cup CertSet(Tail(s))
  <2>1. CASE i = 1
    BY <2>1
  <2>2. CASE i # 1
    <3>1. i - 1 \in 1..Len(Tail(s)) /\ Tail(s)[i - 1] = s[i]
      BY <2>2
    <3> QED
      BY <3>1 DEF CertSet
  <2> QED
    BY <2>1, <2>2
<1> QED
  BY <1>1, <1>2 DEF CertSet

\* The lists of Certificates the loops walk are lists of Certificates.
LEMMA EnterType ==
    ASSUME NEW stage
    PROVE  Enter(stage) \in Seq(AllCerts)
<1>1. OwnCerts \in Seq(AllCerts) /\ ProxyCerts \in Seq(AllCerts)
  BY CertAssumption DEF AllCerts, CertSet
<1>2. <<>> \in Seq(AllCerts)
  OBVIOUS
<1> QED
  BY <1>1, <1>2 DEF Enter, Own, Proxy

\* An empty list has no Certificates.
LEMMA CertSetEmpty == CertSet(<<>>) = {}
  BY DEF CertSet

\* What the lists of a strict kind are.
LEMMA StrictLists ==
    ASSUME kind \in Strict
    PROVE  /\ Own = OwnCerts /\ Proxy = <<>> /\ Certs = CertSet(OwnCerts)
           /\ Head(Stages[kind]) = "certs"
           /\ \A stage : OnError(stage) = "status"
<1>1. Own = OwnCerts /\ Proxy = <<>>
  BY DEF Strict, Own, Proxy, Proxied
<1>2. Certs = CertSet(OwnCerts)
  BY <1>1, CertSetEmpty DEF Certs
<1>3. Head(Stages[kind]) = "certs"
  BY DEF Strict, Stages, VirtualWorkspaceStages, CacheServerStages
<1>4. \A stage : OnError(stage) = "status"
  BY DEF OnError
<1> QED
  BY <1>1, <1>2, <1>3, <1>4

\* Every Certificate of a list is a Certificate.
LEMMA OwnAreCerts == CertSet(OwnCerts) \subseteq AllCerts
  BY DEF AllCerts

\* A step that neither touches the pass nor takes a Secret away keeps Covered.
LEMMA KeepsPass ==
    ASSUME Covered, Types, UNCHANGED <<pc, pass>>,
           \A c \in AllCerts : ver[c] > 0 => ver'[c] > 0,
           \A c \in AllCerts : cert'[c].ready => cert[c].ready \/ ver'[c] > 0
    PROVE  Covered'
<1>1. \A c \in CertSet(OwnCerts) : c \in AllCerts
  BY OwnAreCerts
<1> QED
  BY <1>1 DEF Covered

\* The loop goes on to any stage once a strict pass has nothing left to look at.
LEMMA GoesOn ==
    ASSUME Covered, Types, kind \in Strict, NEW stage, NEW locals \in Passes,
           Go(stage, locals), cert' = cert,
           \A c \in AllCerts : ver[c] > 0 => ver'[c] > 0,
           stage \notin {"idle", "status", "certs"} /\ locals.ready =>
               \A c \in CertSet(OwnCerts) : ver[c] > 0
    PROVE  /\ Covered'
           /\ pass' \in Passes
<1>1. pc' = stage /\ pass' = [locals EXCEPT !.todo = Enter(stage)]
  BY DEF Go
<1>2. Enter(stage) \in Seq(AllCerts)
  BY EnterType
<1>3. pass' \in Passes
  BY <1>1, <1>2 DEF Passes
<1>4. pass'.todo = Enter(stage) /\ pass'.ready = locals.ready
  BY <1>1 DEF Passes
<1>5. Enter("certs") = OwnCerts /\ Enter("proxyCerts") = <<>>
  BY StrictLists DEF Enter
<1>6. \A c \in CertSet(OwnCerts) : c \in AllCerts
  BY OwnAreCerts
<1> QED
  BY <1>1, <1>3, <1>4, <1>5, <1>6 DEF Covered

\* A new version of a Secret or ConfigMap takes none away.
LEMMA ProvideKeeps ==
    ASSUME Types, NEW n \in AllCerts \cup Extras, ver' = [ver EXCEPT ![n] = @ + 1]
    PROVE  /\ ver' \in [AllCerts \cup Extras -> Nat]
           /\ \A c \in AllCerts : ver[c] > 0 => ver'[c] > 0
  BY DEF Types

\* Nor does a write to a Secret of the source that is no certificate's.
LEMMA StoreKeeps ==
    ASSUME Types, NEW n \in Extras, NEW v \in Nat, StoreSecret(n, v)
    PROVE  /\ ver' \in [AllCerts \cup Extras -> Nat]
           /\ \A c \in AllCerts : ver[c] > 0 => ver'[c] > 0
<1>1. ver' = [ver EXCEPT ![n] = v] /\ n \notin AllCerts
  BY CertAssumption DEF StoreSecret
<1> QED
  BY <1>1 DEF Types

\* The version of a merged bundle is a number.
LEMMA MergedNat ==
    ASSUME Types
    PROVE  Merged \in Nat
<1>1. OwnCerts[1] \in AllCerts
  <2>1. 1 \in 1..Len(OwnCerts)
    BY CertAssumption
  <2> QED
    BY <2>1 DEF AllCerts, CertSet
<1>2. ver[ClientCA] \in Nat /\ ver["userCA"] \in Nat
  BY <1>1 DEF Types, Extras, ClientCA
<1> QED
  BY <1>2 DEF Merged

\* The pass a controller starts or ends with.
LEMMA NewPassType ==
    /\ NewPass \in Passes
    /\ \A g \in Nat : \A e \in BOOLEAN :
         [NewPass EXCEPT !.gen = g, !.err = e] \in Passes /\ [NewPass EXCEPT !.gen = g] \in Passes
<1>1. <<>> \in Seq(AllCerts)
  OBVIOUS
<1>2. NoRevisions \in [AllCerts -> Nat]
  BY DEF NoRevisions
<1> QED
  BY <1>1, <1>2 DEF NewPass, Passes

\* What Capture adds to the pass.
LEMMA CapturedType ==
    ASSUME Types, NEW c \in AllCerts
    PROVE  /\ Captured(c) \in Passes
           /\ Captured(c).todo = pass.todo
           /\ Captured(c).ready => pass.ready /\ cert[c].ready
<1>1. cert[c].exists \in BOOLEAN /\ cert[c].ready \in BOOLEAN /\ cert[c].rev \in Nat
  BY DEF Types
<1>2. [pass.revs EXCEPT ![c] = cert[c].rev] \in [AllCerts -> Nat]
  BY <1>1 DEF Types, Passes
<1> QED
  BY <1>1, <1>2 DEF Types, Passes, Captured

\* A pass of a strict kind that fails goes on to its status.
LEMMA FailsToStatus ==
    ASSUME Types, Covered, kind \in Strict, NEW locals \in Passes, NEW stage,
           Go(OnError(stage), [locals EXCEPT !.err = TRUE]), UNCHANGED <<cert, ver>>
    PROVE  Covered' /\ pass' \in Passes
<1>1. OnError(stage) = "status"
  BY StrictLists
<1>2. [locals EXCEPT !.err = TRUE] \in Passes
  BY DEF Passes
<1>3. Go("status", [locals EXCEPT !.err = TRUE])
  BY <1>1
<1> QED
  BY <1>2, <1>3, GoesOn

-----------------------------------------------------------------------------

\* One step of anyone keeps the invariant.
LEMMA PublishStep ==
    ASSUME PublishInv, kind \in Strict, [Next]_vars
    PROVE  PublishInv'
<1> USE DEF PublishInv
<1>0. kind \in Strict
  OBVIOUS
<1>s. Own = OwnCerts /\ Proxy = <<>> /\ Certs = CertSet(OwnCerts) /\ Certs \subseteq AllCerts
  BY <1>0, StrictLists, OwnAreCerts
<1>k. ASSUME Types', Covered', kind' = kind, compiled'.exists => compiled.exists,
             \A c \in AllCerts : ver[c] > 0 => ver'[c] > 0
      PROVE  PublishInv'
  BY <1>k, <1>s DEF PublishedMountsExist, Certs, Own, Proxy
\* A step that leaves the source controller and its objects alone.
<1>q. ASSUME UNCHANGED <<kind, src, cert, ver, pc, pass>>,
             compiled' \in [exists : BOOLEAN, gen : Nat, revs : [AllCerts -> Nat], available : BOOLEAN],
             compiled'.exists => compiled.exists
      PROVE  PublishInv'
  <2>1. Types'
    BY <1>q DEF Types
  <2>2. Covered'
    BY <1>q, KeepsPass
  <2> QED
    BY <2>1, <2>2, <1>k, <1>q
\* A step of the pass that leaves everything but Secrets alone.
<1>p. ASSUME UNCHANGED <<kind, src, cert, compiled>>, ver' \in [AllCerts \cup Extras -> Nat],
             \A c \in AllCerts : ver[c] > 0 => ver'[c] > 0, Covered', pass' \in Passes
      PROVE  PublishInv'
  <2>1. Types'
    BY <1>p DEF Types
  <2> QED
    BY <2>1, <1>k, <1>p
<1>same. ver \in [AllCerts \cup Extras -> Nat] /\ pass \in Passes
  BY DEF Types
<1>1. CASE Edit
  <2>1. UNCHANGED <<kind, cert, ver, compiled, pc, pass>> /\ src' = [src EXCEPT !.gen = @ + 1]
    BY <1>1 DEF Edit, Outside
  <2>2. Types'
    BY <2>1 DEF Types
  <2>3. Covered'
    BY <2>1, KeepsPass
  <2> QED
    BY <2>1, <2>2, <2>3, <1>k
<1>2. CASE RootAppears
  <2>1. UNCHANGED <<kind, src, cert, ver, compiled, pc, pass>>
    BY <1>2 DEF RootAppears
  <2> QED
    BY <2>1, <1>q DEF Types
<1>3. CASE RootCAIssued \/ UserBundleChanges \/ UserMountChanges \/ CertIssue
  <2>1. PICK n \in AllCerts \cup Extras : ver' = [ver EXCEPT ![n] = @ + 1]
    <3>1. CASE RootCAIssued
      BY <3>1 DEF RootCAIssued, Provide, Extras
    <3>2. CASE UserBundleChanges
      BY <3>2 DEF UserBundleChanges, Provide, Extras
    <3>3. CASE UserMountChanges
      BY <3>3 DEF UserMountChanges, Extras
    <3>4. CASE CertIssue
      BY <3>4, <1>s DEF CertIssue
    <3> QED
      BY <1>3, <3>1, <3>2, <3>3, <3>4
  <2>2. UNCHANGED <<kind, src, cert, compiled, pc, pass>>
    BY <1>3 DEF RootCAIssued, UserBundleChanges, UserMountChanges, CertIssue, Provide, Outside
  <2>3. Covered'
    BY <2>1, <2>2, ProvideKeeps, KeepsPass
  <2> QED
    BY <2>1, <2>2, <2>3, ProvideKeeps, <1>p, <1>same
<1>4. CASE CertReady \/ CertLapse
  <2>1. UNCHANGED <<kind, src, ver, compiled, pc, pass>>
    BY <1>4 DEF CertReady, CertLapse, Outside
  <2>2. PICK c \in AllCerts :
          \/ ver[c] > 0 /\ cert' = [cert EXCEPT ![c].ready = TRUE, ![c].rev = ver[c]]
          \/ cert' = [cert EXCEPT ![c].ready = FALSE]
    BY <1>4, <1>s DEF CertReady, CertLapse
  <2>3. ver[c] \in Nat /\ cert[c] \in [exists : BOOLEAN, gen : Nat, ready : BOOLEAN, rev : Nat]
    BY DEF Types
  <2>c. PICK r \in [exists : BOOLEAN, gen : Nat, ready : BOOLEAN, rev : Nat] :
          cert' = [cert EXCEPT ![c] = r] /\ (r.ready => ver[c] > 0)
    <3>1. CASE ver[c] > 0 /\ cert' = [cert EXCEPT ![c].ready = TRUE, ![c].rev = ver[c]]
      <4>1. [cert[c] EXCEPT !.ready = TRUE, !.rev = ver[c]]
              \in [exists : BOOLEAN, gen : Nat, ready : BOOLEAN, rev : Nat]
        BY <2>3
      <4> QED
        BY <3>1, <4>1
    <3>2. CASE cert' = [cert EXCEPT ![c].ready = FALSE]
      <4>1. /\ [cert[c] EXCEPT !.ready = FALSE] \in [exists : BOOLEAN, gen : Nat, ready : BOOLEAN, rev : Nat]
            /\ [cert[c] EXCEPT !.ready = FALSE].ready = FALSE
        BY <2>3
      <4> QED
        BY <3>2, <4>1
    <3> QED
      BY <2>2, <3>1, <3>2
  <2>d. cert \in [AllCerts -> [exists : BOOLEAN, gen : Nat, ready : BOOLEAN, rev : Nat]]
    BY DEF Types
  <2>e. cert' \in [AllCerts -> [exists : BOOLEAN, gen : Nat, ready : BOOLEAN, rev : Nat]]
    BY <2>c, <2>d
  <2>4. Types'
    BY <2>1, <2>e DEF Types
  <2>5. \A d \in AllCerts : cert'[d].ready => cert[d].ready \/ ver'[d] > 0
    BY <2>1, <2>c, <2>d
  <2>6. Covered'
    BY <2>1, <2>5, KeepsPass
  <2> QED
    BY <2>1, <2>4, <2>6, <1>k
<1>5. CASE Begin \/ FetchFails
  <2>1. UNCHANGED <<kind, src, cert, ver, compiled>> /\ src.gen \in Nat
    BY <1>5 DEF Begin, FetchFails, Types
  <2>2. \/ Go("certs", [NewPass EXCEPT !.gen = src.gen])
        \/ Go("status", [NewPass EXCEPT !.gen = src.gen])
        \/ Go("status", [NewPass EXCEPT !.gen = src.gen, !.err = TRUE])
    BY <1>5, <1>0, StrictLists DEF Begin, FetchFails, Fetching, Strict
  <2>3. Covered' /\ pass' \in Passes
    BY <2>1, <2>2, <1>0, NewPassType, GoesOn
  <2> QED
    BY <2>1, <2>3, <1>p, <1>same
<1>6. CASE EnsureCertificate
  <2> DEFINE c == Head(pass.todo)
  <2>1. /\ UNCHANGED <<kind, src, ver, compiled, pc>> /\ CertLoop /\ pass.todo # <<>>
        /\ cert' = [cert EXCEPT ![c] = [cert[c] EXCEPT !.exists = TRUE, !.gen = pass.gen]]
        /\ pass' = [Captured(c) EXCEPT !.todo = Tail(@)]
    BY <1>6 DEF EnsureCertificate, Outside
  <2>2. pass.todo \in Seq(AllCerts) /\ pass.gen \in Nat
    BY DEF Types, Passes
  <2>3. c \in AllCerts /\ Tail(pass.todo) \in Seq(AllCerts)
        /\ CertSet(pass.todo) \subseteq {c} \cup CertSet(Tail(pass.todo))
    BY <2>1, <2>2, CertSetHead
  <2>4. /\ Captured(c) \in Passes /\ Captured(c).todo = pass.todo
        /\ Captured(c).ready => pass.ready /\ cert[c].ready
    BY <2>3, CapturedType
  <2>5. /\ pass' \in Passes /\ pass'.todo = Tail(pass.todo)
        /\ pass'.ready => pass.ready /\ cert[c].ready
    BY <2>1, <2>3, <2>4 DEF Passes
  <2>6. cert' \in [AllCerts -> [exists : BOOLEAN, gen : Nat, ready : BOOLEAN, rev : Nat]]
        /\ \A d \in AllCerts : cert'[d].ready = cert[d].ready
    BY <2>1, <2>2, <2>3 DEF Types
  <2>7. pc = "certs"
    BY <2>1 DEF CertLoop, Covered
  <2>8. Covered'
    BY <2>1, <2>3, <2>5, <2>6, <2>7, <1>s DEF Covered
  <2>9. Types'
    BY <2>1, <2>5, <2>6 DEF Types
  <2> QED
    BY <2>1, <2>8, <2>9, <1>k
<1>7. CASE CertificatesDone
  <2>1. UNCHANGED <<kind, src, cert, ver, compiled>> /\ CertLoop /\ pass.todo = <<>>
        /\ Go(After(pc), pass)
    BY <1>7 DEF CertificatesDone, Outside
  <2>2. pass.ready => \A c \in CertSet(OwnCerts) : ver[c] > 0
    BY <2>1, CertSetEmpty DEF CertLoop, Covered
  <2>3. Covered' /\ pass' \in Passes
    BY <2>1, <2>2, <1>0, <1>same, GoesOn
  <2> QED
    BY <2>1, <2>3, <1>p, <1>same
<1>8. CASE EnsureOthers \/ EnsureBundle \/ EnsureProxyCAs
  <2>1. UNCHANGED <<kind, src, cert, compiled>> /\ pc \in {"others", "bundle", "proxyCA"}
        /\ Go(After(pc), pass)
    BY <1>8 DEF EnsureOthers, EnsureBundle, EnsureProxyCAs, Outside
  <2>2. \E n \in Extras, v \in Nat : StoreSecret(n, v)
    BY <1>8, <1>0, MergedNat DEF EnsureOthers, EnsureBundle, EnsureProxyCAs, Extras
  <2>3. ver' \in [AllCerts \cup Extras -> Nat] /\ \A c \in AllCerts : ver[c] > 0 => ver'[c] > 0
    BY <2>2, StoreKeeps
  <2>4. pass.ready => \A c \in CertSet(OwnCerts) : ver[c] > 0
    BY <2>1 DEF Covered
  <2>5. Covered' /\ pass' \in Passes
    BY <2>1, <2>3, <2>4, <1>0, <1>same, GoesOn
  <2> QED
    BY <2>1, <2>3, <2>5, <1>p
<1>9. CASE SkipBundle \/ Lookup
  <2>1. UNCHANGED <<kind, src, cert, ver, compiled>> /\ pc \in {"bundle", "lookup"}
        /\ Go(After(pc), pass)
    BY <1>9 DEF SkipBundle, Lookup, Outside
  <2>2. pass.ready => \A c \in CertSet(OwnCerts) : ver[c] > 0
    BY <2>1 DEF Covered
  <2>3. Covered' /\ pass' \in Passes
    BY <2>1, <2>2, <1>0, <1>same, GoesOn
  <2> QED
    BY <2>1, <2>3, <1>p, <1>same
<1>10. CASE Publish
  <2>1. UNCHANGED <<kind, src, cert, ver>> /\ pc = "publish" /\ Go(After(pc), pass)
    BY <1>10 DEF Publish, Outside
  <2>2. pass.ready => \A c \in CertSet(OwnCerts) : ver[c] > 0
    BY <2>1 DEF Covered
  <2>3. Covered' /\ pass' \in Passes
    BY <2>1, <2>2, <1>0, <1>same, GoesOn
  <2>4. CASE UNCHANGED compiled
    BY <2>1, <2>3, <2>4, <1>p, <1>same
  <2>5. CASE ~ UNCHANGED compiled
    <3>1. /\ pass.ready
          /\ compiled' = [compiled EXCEPT !.exists = TRUE, !.gen = pass.gen, !.revs = pass.revs]
      BY <1>10, <2>5 DEF Publish, CertsReady
    <3>2. Types'
      BY <3>1, <2>1, <2>3 DEF Types, Passes
    <3>3. PublishedMountsExist'
      BY <3>1, <2>1, <2>2, <1>s DEF PublishedMountsExist, Certs, Own, Proxy
    <3> QED
      BY <3>2, <3>3, <2>3
  <2> QED
    BY <2>4, <2>5
<1>11. CASE Status \/ StatusFails
  <2>1. UNCHANGED <<kind, cert, ver, compiled>> /\ pc' = "idle" /\ pass' = NewPass
    BY <1>11 DEF Status, StatusFails, Outside
  <2>2. src' \in [gen : Nat, available : BOOLEAN]
    BY <1>11 DEF Status, StatusFails, Types
  <2>3. Types'
    BY <2>1, <2>2, NewPassType DEF Types
  <2>4. Covered'
    BY <2>1 DEF Covered
  <2> QED
    BY <2>1, <2>3, <2>4, <1>k
<1>12. CASE CAMissing \/ CertificateFails \/ LookupFails \/ StageFails
  <2>1. UNCHANGED <<kind, src, cert, ver, compiled>>
    BY <1>12 DEF CAMissing, CertificateFails, LookupFails, StageFails, Outside
  <2>2. CASE Fail(pc)
    <3>1. Covered' /\ pass' \in Passes
      BY <2>1, <2>2, <1>0, <1>same, FailsToStatus DEF Fail
    <3> QED
      BY <3>1, <2>1, <1>p, <1>same
  <2>3. CASE CertificateFails /\ ~Fail(pc)
    <3>1. pass.todo # <<>> /\ Go(OnError(pc), [Captured(Head(pass.todo)) EXCEPT !.err = TRUE])
      BY <2>3 DEF CertificateFails
    <3>2. Captured(Head(pass.todo)) \in Passes
      BY <3>1, CertSetHead, CapturedType DEF Types, Passes
    <3>3. Covered' /\ pass' \in Passes
      BY <3>1, <3>2, <2>1, <1>0, FailsToStatus
    <3> QED
      BY <3>3, <2>1, <1>p, <1>same
  <2>4. CASE LookupFails
    <3>1. Go("status", [pass EXCEPT !.err = TRUE, !.valid = FALSE])
      BY <2>4, <1>0, StrictLists DEF LookupFails
    <3>2. [pass EXCEPT !.err = TRUE, !.valid = FALSE] \in Passes
      BY <1>same DEF Passes
    <3>3. Covered' /\ pass' \in Passes
      BY <3>1, <3>2, <2>1, <1>0, GoesOn
    <3> QED
      BY <3>3, <2>1, <1>p, <1>same
  <2>5. CASE StageFails /\ ~Fail(pc)
    <3>1. pc = "proxyCA" /\ Go(After(pc), [pass EXCEPT !.err = TRUE])
      BY <2>5 DEF StageFails
    <3>2. [pass EXCEPT !.err = TRUE] \in Passes /\ [pass EXCEPT !.err = TRUE].ready = pass.ready
      BY <1>same DEF Passes
    <3>3. pass.ready => \A c \in CertSet(OwnCerts) : ver[c] > 0
      BY <3>1 DEF Covered
    <3>4. Covered' /\ pass' \in Passes
      BY <3>1, <3>2, <3>3, <2>1, <1>0, GoesOn
    <3> QED
      BY <3>4, <2>1, <1>p, <1>same
  <2> QED
    BY <1>12, <2>2, <2>3, <2>4, <2>5 DEF CAMissing
<1>13. CASE CompiledWorker \/ CompiledFails \/ CompiledStatusFails \/ DeploymentProgress
  <2> USE DEF CompiledWorker
  <2>1. UNCHANGED <<kind, src, cert, ver, pc, pass>>
    BY <1>13 DEF CompiledBegin, ReadMounts, MountNotFound, WriteDeployment, WriteService,
       CompiledStatus, CompiledFails, CompiledStatusFails, DeploymentProgress, Source, Outside
  <2>2. CASE UNCHANGED compiled
    BY <2>1, <2>2, <1>q DEF Types
  <2>3. CASE CompiledStatus
    <3>1. \E a \in BOOLEAN : compiled' = [compiled EXCEPT !.available = a]
      <4>1. compiled.available \in BOOLEAN
        BY DEF Types
      <4> QED
        BY <2>3, <4>1 DEF CompiledStatus
    <3> QED
      BY <3>1, <2>1, <1>q DEF Types
  <2> QED
    BY <1>13, <2>2, <2>3 DEF CompiledBegin, ReadMounts, MountNotFound, WriteDeployment,
       WriteService, CompiledFails, CompiledStatusFails, DeploymentProgress
<1>14. CASE UNCHANGED vars
  <2>1. UNCHANGED <<kind, src, cert, ver, pc, pass, compiled>>
    BY <1>14 DEF vars
  <2> QED
    BY <2>1, <1>q DEF Types
<1> QED
  BY <1>1, <1>2, <1>3, <1>4, <1>5, <1>6, <1>7, <1>8, <1>9, <1>10, <1>11, <1>12, <1>13, <1>14
     DEF Next, Users, CertManager, SourceWorker, Faults

\* No step changes the kind of the source object.
LEMMA KindStays ==
    ASSUME [Next]_vars
    PROVE  kind' = kind
<1>1. CASE Users \/ CertManager \/ DeploymentProgress
  BY <1>1 DEF Users, CertManager, Edit, RootAppears, UserBundleChanges, UserMountChanges, Provide,
     CertIssue, CertReady, CertLapse, RootCAIssued, DeploymentProgress, Outside
<1>2. CASE SourceWorker
  BY <1>2 DEF SourceWorker, Begin, EnsureCertificate, CertificatesDone, EnsureOthers, SkipBundle,
     EnsureBundle, EnsureProxyCAs, CAMissing, Lookup, Publish, Status, Outside
<1>3. CASE CompiledWorker
  BY <1>3 DEF CompiledWorker, CompiledBegin, ReadMounts, MountNotFound, WriteDeployment,
     WriteService, CompiledStatus, Source, Outside
<1>4. CASE Faults
  BY <1>4 DEF Faults, FetchFails, CertificateFails, LookupFails, StageFails, StatusFails, CompiledFails,
     CompiledStatusFails, Source, Outside
<1> QED
  BY <1>1, <1>2, <1>3, <1>4 DEF Next, vars

\* virtualworkspace/controller.go:221-226 and cacheserver/controller.go:118-123
\* keep what their comment promises, for any number of Certificates: whoever
\* reads a render input finds every certificate Secret in place.
THEOREM PublishedAfterCertificates == Spec => []StrictPublish
<1> DEFINE Inv == kind \in Strict => PublishInv
<1>1. Init => Inv
  <2> SUFFICES ASSUME Init PROVE PublishInv
    OBVIOUS
  <2>1. pass \in Passes /\ pc = "idle"
    BY NewPassType DEF Init
  <2>2. Types
    BY <2>1 DEF Init, Types, NoCompiled, NoRevisions
  <2>3. Covered
    BY <2>1 DEF Init, Covered
  <2>4. PublishedMountsExist
    BY DEF Init, PublishedMountsExist, NoCompiled
  <2> QED
    BY <2>2, <2>3, <2>4 DEF PublishInv
<1>2. Inv /\ [Next]_vars => Inv'
  BY PublishStep, KindStays DEF Strict
<1>3. Inv => StrictPublish
  BY DEF PublishInv, StrictPublish
<1> QED
  BY <1>1, <1>2, <1>3, PTL DEF Spec

-----------------------------------------------------------------------------
(* What every step keeps of the variables' shape, for all kinds.           *)

\* The stages of the kind at hand.
StagesOf == {Stages[kind][i] : i \in 1..Len(Stages[kind])}

\* The fields of a Deployment and those of the locals of a compiled pass.
DeploymentFields == {"exists", "gen", "labels", "observed", "up"}

LocalsFields == {"gen", "todo", "labels", "err"}

\* A record with the given fields.
Shaped(r, fields) == r = [f \in fields |-> r[f]]

\* Where the two controllers are, and the shape of what the compiled one works on.
Structure ==
    /\ pc \in {"idle"} \cup StagesOf
    /\ CertSet(pass.todo) \subseteq Certs
    /\ Shaped(dep, {"main", "proxy"})
    /\ \A d \in {"main", "proxy"} : Shaped(dep[d], DeploymentFields)
    /\ cpc \in {"idle", "read", "write", "service", "status"}
    /\ Shaped(cpass, LocalsFields)
    /\ cpass.todo \subseteq Deployments
    /\ cpc \in {"read", "write"} => cpass.todo # {}
    /\ cpc = "status" => cpass.todo = {}
    /\ ~compiled.exists =>
          cpc = "idle" /\ ~compiled.available /\ \A d \in {"main", "proxy"} : ~dep[d].exists

Base == Types /\ Structure

\* The stages of each kind: the status is last and follows the publication, which follows the
\* Certificates of the proxy where there is one.
LEMMA StageFacts ==
    ASSUME kind \in Known
    PROVE  /\ Len(Stages[kind]) \in Nat
           /\ 1 \in 1..Len(Stages[kind])
           /\ Head(Stages[kind]) = Stages[kind][1]
           /\ Stages[kind][1] = IF kind = "FrontProxy" THEN "lookup" ELSE "certs"
           /\ "idle" \notin StagesOf
           /\ "status" \in StagesOf /\ "publish" \in StagesOf
           /\ \A i \in 1..Len(Stages[kind]) : Stages[kind][i] = "status" <=> i = Len(Stages[kind])
           /\ \A i \in 1..Len(Stages[kind]) :
                 i # Len(Stages[kind]) =>
                    /\ Stages[kind][i + 1] = "status" => Stages[kind][i] = "publish"
                    /\ Stages[kind][i + 1] = "publish" /\ kind \in Proxied => Stages[kind][i] = "proxyCerts"
<1>1. CASE kind = "Shard"
  BY <1>1 DEF Stages, ShardStages, StagesOf, Proxied
<1>2. CASE kind = "RootShard"
  BY <1>2 DEF Stages, RootShardStages, StagesOf, Proxied
<1>3. CASE kind = "FrontProxy"
  BY <1>3 DEF Stages, FrontProxyStages, StagesOf, Proxied
<1>4. CASE kind = "VirtualWorkspace"
  BY <1>4 DEF Stages, VirtualWorkspaceStages, StagesOf, Proxied
<1>5. CASE kind = "CacheServer"
  BY <1>5 DEF Stages, CacheServerStages, StagesOf, Proxied
<1> QED
  BY <1>1, <1>2, <1>3, <1>4, <1>5 DEF Known

\* The stage after one that is not the last.
LEMMA AfterFacts ==
    ASSUME kind \in Known, NEW stage \in StagesOf, stage # "status"
    PROVE  /\ After(stage) \in StagesOf /\ After(stage) # "idle"
           /\ After(stage) = "status" => stage = "publish"
           /\ After(stage) = "publish" /\ kind \in Proxied => stage = "proxyCerts"
<1> DEFINE s == Stages[kind]
           n == CHOOSE i \in 1..Len(s) : s[i] = stage
<1>1. \E i \in 1..Len(s) : s[i] = stage
  BY DEF StagesOf
<1>2. n \in 1..Len(s) /\ s[n] = stage
  BY <1>1
<1>3. After(stage) = s[1 + n]
  BY DEF After
<1> HIDE DEF n
<1>4. n # Len(s) /\ Len(s) \in Nat
  BY <1>2, StageFacts
<1>5. 1 + n \in 1..Len(s) /\ n + 1 = 1 + n
  BY <1>2, <1>4
<1>6. After(stage) \in StagesOf
  BY <1>3, <1>5 DEF StagesOf
<1>7. After(stage) = "status" => stage = "publish"
  BY <1>2, <1>3, <1>4, <1>5, StageFacts
<1>8. After(stage) = "publish" /\ kind \in Proxied => stage = "proxyCerts"
  BY <1>2, <1>3, <1>4, <1>5, StageFacts
<1> QED
  BY <1>6, <1>7, <1>8, StageFacts

\* A failed stage ends somewhere, too.
LEMMA OnErrorFacts ==
    ASSUME kind \in Known, NEW stage \in StagesOf, stage # "status"
    PROVE  OnError(stage) \in StagesOf /\ OnError(stage) # "idle"
  BY StageFacts, AfterFacts DEF OnError

\* The Certificates of the kind at hand.
LEMMA CertsAre ==
    /\ Certs \subseteq AllCerts
    /\ \A stage : CertSet(Enter(stage)) \subseteq Certs
<1>1. Certs \subseteq AllCerts
  BY CertSetEmpty DEF Certs, AllCerts, Own, Proxy
<1>2. \A stage : CertSet(Enter(stage)) \subseteq Certs
  BY CertSetEmpty DEF Certs, Enter
<1> QED
  BY <1>1, <1>2

\* What a pass has when it goes on.
LEMMA GoFacts ==
    ASSUME NEW stage, NEW locals \in Passes, Go(stage, locals)
    PROVE  /\ pc' = stage /\ pass' \in Passes /\ pass'.todo = Enter(stage)
           /\ pass'.gen = locals.gen /\ pass'.ready = locals.ready /\ pass'.revs = locals.revs
           /\ pass'.valid = locals.valid /\ pass'.err = locals.err
<1>1. pc' = stage /\ pass' = [locals EXCEPT !.todo = Enter(stage)]
  BY DEF Go
<1>2. Enter(stage) \in Seq(AllCerts)
  BY EnterType
<1> QED
  BY <1>1, <1>2 DEF Passes

\* The steps in which the pass of the source controller fails and goes on or ends with an error.
PassFails == CAMissing \/ CertificateFails \/ LookupFails \/ StageFails

\* A pass that fails keeps what it has collected or captures one more Certificate, and has an error.
LEMMA FailureFacts ==
    ASSUME Base, PassFails
    PROVE  /\ UNCHANGED <<kind, src, root, misread, cert, ver, compiled, qs, qc, dep, svc, cpc, cpass>>
           /\ pass' \in Passes /\ pass'.err = TRUE /\ pc' \in StagesOf /\ pc' # "idle"
           /\ CertSet(pass'.todo) \subseteq Certs
<1> USE DEF Base
<1>1. UNCHANGED <<kind, src, root, misread, cert, ver, compiled, qs, qc, dep, svc, cpc, cpass>>
  BY DEF PassFails, CAMissing, CertificateFails, LookupFails, StageFails, Outside, Render
<1>2. pass \in Passes /\ kind \in Known /\ pass.todo \in Seq(AllCerts)
  BY KindAssumption DEF Types, Passes
<1>3. pc \in {"certs", "proxyCerts", "others", "bundle", "proxyCA", "publish", "lookup"}
  BY DEF PassFails, CAMissing, CertificateFails, LookupFails, StageFails, CertLoop
<1>4. pc \in StagesOf /\ pc # "status"
  BY <1>3 DEF Structure
<1>5. /\ OnError(pc) \in StagesOf /\ OnError(pc) # "idle"
      /\ After(pc) \in StagesOf /\ After(pc) # "idle"
  BY <1>2, <1>4, OnErrorFacts, AfterFacts
<1>6. PICK stage \in {OnError(pc), After(pc)} : \E l \in Passes : Go(stage, [l EXCEPT !.err = TRUE])
  <2>1. CASE Fail(pc)
    BY <1>2, <2>1 DEF Fail
  <2>2. CASE CertificateFails /\ ~Fail(pc)
    <3>1. pass.todo # <<>> /\ Go(OnError(pc), [Captured(Head(pass.todo)) EXCEPT !.err = TRUE])
      BY <2>2 DEF CertificateFails
    <3>2. Captured(Head(pass.todo)) \in Passes
      BY <3>1, <1>2, CertSetHead, CapturedType
    <3> QED
      BY <3>1, <3>2
  <2>3. CASE LookupFails
    <3>1. Go(OnError(pc), [pass EXCEPT !.err = TRUE, !.valid = FALSE])
      BY <2>3 DEF LookupFails
    <3> DEFINE l == [pass EXCEPT !.valid = FALSE]
    <3>2. l \in Passes /\ [pass EXCEPT !.err = TRUE, !.valid = FALSE] = [l EXCEPT !.err = TRUE]
      BY <1>2 DEF Passes
    <3> QED
      BY <3>1, <3>2
  <2>4. CASE StageFails /\ ~Fail(pc)
    BY <1>2, <2>4 DEF StageFails
  <2> QED
    BY <2>1, <2>2, <2>3, <2>4 DEF PassFails, CAMissing
<1>7. PICK l \in Passes : Go(stage, [l EXCEPT !.err = TRUE])
  BY <1>6
<1> DEFINE m == [l EXCEPT !.err = TRUE]
<1>8. m \in Passes /\ m.err = TRUE
  BY <1>7 DEF Passes
<1>9. Go(stage, m)
  BY <1>7
<1> HIDE DEF m
<1>10. /\ pc' = stage /\ pass' \in Passes /\ pass'.todo = Enter(stage) /\ pass'.err = TRUE
  BY <1>8, <1>9, GoFacts
<1>11. CertSet(pass'.todo) \subseteq Certs
  BY <1>10, CertsAre
<1> QED
  BY <1>1, <1>5, <1>6, <1>10, <1>11

\* The steps in which the pass goes on without an error.
PassAdvances ==
    \/ CertificatesDone \/ EnsureOthers \/ SkipBundle \/ EnsureBundle \/ EnsureProxyCAs
    \/ Lookup \/ Publish

\* A pass that goes on keeps what it has collected.
LEMMA AdvanceFacts ==
    ASSUME Base, PassAdvances
    PROVE  /\ UNCHANGED <<kind, src, root, misread, cert, dep, svc, cpc, cpass>>
           /\ pc \in StagesOf /\ pc # "status" /\ pc' = After(pc) /\ pc' \in StagesOf /\ pc' # "idle"
           /\ pass' \in Passes /\ pass'.todo = Enter(pc') /\ CertSet(pass'.todo) \subseteq Certs
           /\ pass'.gen = pass.gen /\ pass'.ready = pass.ready /\ pass'.revs = pass.revs
           /\ pass'.valid = pass.valid /\ pass'.err = pass.err
<1> USE DEF Base
<1>1. UNCHANGED <<kind, src, root, misread, cert, dep, svc, cpc, cpass>> /\ Go(After(pc), pass)
  BY DEF PassAdvances, CertificatesDone, EnsureOthers, SkipBundle, EnsureBundle, EnsureProxyCAs,
     Lookup, Publish, Outside, Render
<1>2. pc \in {"certs", "proxyCerts", "others", "bundle", "proxyCA", "publish", "lookup"}
  BY DEF PassAdvances, CertificatesDone, EnsureOthers, SkipBundle, EnsureBundle, EnsureProxyCAs,
     Lookup, Publish, CertLoop
<1>3. pc \in StagesOf /\ pc # "status" /\ kind \in Known /\ pass \in Passes
  BY <1>2, KindAssumption DEF Structure, Types
<1>4. After(pc) \in StagesOf /\ After(pc) # "idle"
  BY <1>3, AfterFacts
<1>5. /\ pc' = After(pc) /\ pass' \in Passes /\ pass'.todo = Enter(After(pc))
      /\ pass'.gen = pass.gen /\ pass'.ready = pass.ready /\ pass'.revs = pass.revs
      /\ pass'.valid = pass.valid /\ pass'.err = pass.err
  BY <1>1, <1>3, GoFacts
<1>6. CertSet(pass'.todo) \subseteq Certs /\ pass'.todo = Enter(pc')
  <2>1. Enter(pc')= Enter(After(pc))
    BY <1>5
  <2> QED
    BY <1>5, <2>1, CertsAre
<1> QED
  BY <1>1, <1>3, <1>4, <1>5, <1>6

\* The Secrets that a pass writes: whoever mounts one hears of the change.
LEMMA SecretFacts ==
    ASSUME Base, PassAdvances
    PROVE  /\ ver' \in [AllCerts \cup Extras -> Nat]
           /\ \/ UNCHANGED ver
              \/ qc' /\ qs'
           /\ \/ UNCHANGED compiled
              \/ qc' /\ qs'
           /\ qs => qs'
           /\ qc => qc'
<1> USE DEF Base
<1>1. ver \in [AllCerts \cup Extras -> Nat]
  BY DEF Types
<1>2. CASE EnsureOthers \/ EnsureBundle \/ EnsureProxyCAs
  <2>1. PICK n \in Extras, v \in Nat : StoreSecret(n, v)
    BY <1>2, MergedNat DEF EnsureOthers, EnsureBundle, EnsureProxyCAs, Extras
  <2>2. UNCHANGED compiled
    BY <1>2 DEF EnsureOthers, EnsureBundle, EnsureProxyCAs
  <2>3. ver' \in [AllCerts \cup Extras -> Nat] /\ (ver[n] = v => ver' = ver)
    BY <1>1, <2>1 DEF StoreSecret
  <2> QED
    BY <2>1, <2>2, <2>3 DEF StoreSecret
<1>3. CASE CertificatesDone \/ SkipBundle \/ Lookup
  BY <1>1, <1>3 DEF CertificatesDone, SkipBundle, Lookup
<1>4. CASE Publish
  BY <1>1, <1>4 DEF Publish
<1> QED
  BY <1>2, <1>3, <1>4 DEF PassAdvances

\* Users and cert-manager wake whom their change concerns, except that nobody watches a ConfigMap
\* of users.
LEMMA OutsideFacts ==
    ASSUME Base, Users \/ CertManager
    PROVE  /\ UNCHANGED <<kind, compiled, pc, pass, dep, svc, cpc, cpass>>
           /\ src' \in [gen : Nat, available : BOOLEAN] /\ src'.available = src.available
           /\ cert' \in [AllCerts -> [exists : BOOLEAN, gen : Nat, ready : BOOLEAN, rev : Nat]]
           /\ ver' \in [AllCerts \cup Extras -> Nat]
           /\ qs' \/ UNCHANGED <<src, root, misread, cert, qs>>
           /\ UserMount # "ConfigMap" => qc' \/ UNCHANGED <<ver, qc>>
           /\ qc' = qc \/ (qc => qc')
<1> USE DEF Base
<1>1. /\ ver \in [AllCerts \cup Extras -> Nat]
      /\ src \in [gen : Nat, available : BOOLEAN]
      /\ cert \in [AllCerts -> [exists : BOOLEAN, gen : Nat, ready : BOOLEAN, rev : Nat]]
  BY DEF Types
<1>2. CASE Edit
  <2>1. /\ UNCHANGED <<kind, root, misread, cert, ver, compiled, qc, pc, pass, dep, svc, cpc, cpass>>
        /\ src' = [src EXCEPT !.gen = @ + 1] /\ qs' = TRUE
    BY <1>2 DEF Edit, Outside, Render
  <2>2. src' \in [gen : Nat, available : BOOLEAN] /\ src'.available = src.available
    BY <1>1, <2>1
  <2> QED
    BY <1>1, <2>1, <2>2
<1>3. CASE RootAppears
  BY <1>1, <1>3 DEF RootAppears, Render
<1>4. CASE RootCAIssued \/ UserBundleChanges \/ UserMountChanges \/ CertIssue
  <2>1. PICK n \in AllCerts \cup Extras : ver' = [ver EXCEPT ![n] = @ + 1]
    <3>1. CASE RootCAIssued
      BY <3>1 DEF RootCAIssued, Provide, Extras
    <3>2. CASE UserBundleChanges
      BY <3>2 DEF UserBundleChanges, Provide, Extras
    <3>3. CASE UserMountChanges
      BY <3>3 DEF UserMountChanges, Extras
    <3>4. CASE CertIssue
      BY <3>4, CertsAre DEF CertIssue
    <3> QED
      BY <1>4, <3>1, <3>2, <3>3, <3>4
  <2>2. UNCHANGED <<kind, src, root, misread, cert, compiled, qs, pc, pass, dep, svc, cpc, cpass>>
    BY <1>4 DEF RootCAIssued, UserBundleChanges, UserMountChanges, CertIssue, Provide, Outside, Render
  <2>3. UserMount # "ConfigMap" => qc'
    <3>1. UserMountChanges /\ UserMount # "ConfigMap" => qc'
      BY OptionAssumption DEF UserMountChanges
    <3> QED
      BY <1>4, <3>1 DEF RootCAIssued, UserBundleChanges, CertIssue, Provide
  <2>4. qc => qc'
    BY <1>4 DEF RootCAIssued, UserBundleChanges, CertIssue, Provide, UserMountChanges
  <2>5. ver' \in [AllCerts \cup Extras -> Nat]
    BY <2>1, ProvideKeeps
  <2> QED
    BY Zenon, <1>1, <2>2, <2>3, <2>4, <2>5
<1>5. CASE CertReady \/ CertLapse
  <2> DEFINE R == [exists : BOOLEAN, gen : Nat, ready : BOOLEAN, rev : Nat]
  <2>1. UNCHANGED <<kind, src, root, misread, ver, compiled, qc, pc, pass, dep, svc, cpc, cpass>> /\ qs' = TRUE
    BY <1>5 DEF CertReady, CertLapse, Outside, Render
  <2>2. PICK c \in AllCerts :
          \/ cert' = [cert EXCEPT ![c].ready = TRUE, ![c].rev = ver[c]]
          \/ cert' = [cert EXCEPT ![c].ready = FALSE]
    BY <1>5, CertsAre DEF CertReady, CertLapse
  <2>3. ver[c] \in Nat /\ cert[c] \in R
    BY <1>1
  <2>4. [cert[c] EXCEPT !.ready = TRUE, !.rev = ver[c]] \in R
    BY <2>3
  <2>5. [cert[c] EXCEPT !.ready = FALSE] \in R
    BY <2>3
  <2>6. PICK r \in R : cert' = [cert EXCEPT ![c] = r]
    <3>1. CASE cert' = [cert EXCEPT ![c].ready = TRUE, ![c].rev = ver[c]]
      BY <2>4, <3>1
    <3>2. CASE cert' = [cert EXCEPT ![c].ready = FALSE]
      BY <2>5, <3>2
    <3> QED
      BY <2>2, <3>1, <3>2
  <2>8. cert \in [AllCerts -> R]
    BY <1>1
  <2> HIDE DEF R
  <2>7. cert' \in [AllCerts -> R]
    BY <2>6, <2>8
  <2> QED
    BY <1>1, <2>1, <2>7 DEF R
<1> QED
  BY <1>2, <1>3, <1>4, <1>5 DEF Users, CertManager

\* The steps that begin a pass.
PassBegins == Begin \/ FetchFails

\* A pass begins with the generation that it reads, and with the work of its kind unless its
\* RootShard is missing or could not be read.
LEMMA BeginFacts ==
    ASSUME Base, PassBegins
    PROVE  /\ UNCHANGED <<kind, src, root, cert, ver, compiled, qc, dep, svc, cpc, cpass>>
           /\ pc = "idle" /\ qs' = FALSE /\ pc' \in StagesOf /\ pc' # "idle"
           /\ pass' \in Passes /\ pass'.todo = Enter(pc') /\ CertSet(pass'.todo) \subseteq Certs
           /\ pass'.gen = src.gen /\ pass'.ready = TRUE /\ pass'.valid = TRUE
           /\ (kind \in Referring => root) /\ ~misread' /\ ~pass'.err => pc' = Stages[kind][1]
<1> USE DEF Base
<1>1. /\ UNCHANGED <<kind, src, root, cert, ver, compiled, qc, dep, svc, cpc, cpass>>
      /\ pc = "idle" /\ qs' = FALSE
  BY DEF PassBegins, Begin, FetchFails, Render
<1>2. kind \in Known /\ src.gen \in Nat
  BY KindAssumption DEF Types
<1>3. /\ Stages[kind][1] \in StagesOf /\ "status" \in StagesOf /\ "idle" \notin StagesOf
      /\ Head(Stages[kind]) = Stages[kind][1]
  BY <1>2, StageFacts DEF StagesOf
<1> DEFINE a == [NewPass EXCEPT !.gen = src.gen]
           b == [NewPass EXCEPT !.gen = src.gen, !.err = TRUE]
           f == [NewPass EXCEPT !.gen = src.gen, !.err = FALSE]
<1>4. a \in Passes /\ b \in Passes /\ f \in Passes
  BY <1>2, NewPassType
<1>5. /\ a.gen = src.gen /\ a.ready = TRUE /\ a.valid = TRUE /\ a.err = FALSE
      /\ b.gen = src.gen /\ b.ready = TRUE /\ b.valid = TRUE /\ b.err = TRUE
      /\ f.gen = src.gen /\ f.ready = TRUE /\ f.valid = TRUE /\ f.err = FALSE
  BY DEF NewPass
<1>6. \/ Go(Stages[kind][1], a)
      \/ Go("status", a) /\ kind \in Referring /\ ~root
      \/ Go("status", b)
      \/ Go("status", f) /\ misread'
  <2>1. CASE Begin
    BY <1>3, <2>1 DEF Begin, Referring, Fetching
  <2>2. CASE FetchFails /\ kind \in Fetching
    BY <2>2 DEF FetchFails
  <2>3. CASE FetchFails /\ kind \notin Fetching
    BY <2>3 DEF FetchFails
  <2> QED
    BY <2>1, <2>2, <2>3 DEF PassBegins
<1> HIDE DEF a, b, f
<1>7. \A stage : CertSet(Enter(stage)) \subseteq Certs
  BY CertsAre
<1>8. CASE Go(Stages[kind][1], a)
  BY <1>1, <1>3, <1>4, <1>5, <1>7, <1>8, GoFacts
<1>9. CASE Go("status", a) /\ kind \in Referring /\ ~root
  BY <1>1, <1>3, <1>4, <1>5, <1>7, <1>9, GoFacts
<1>10. CASE Go("status", b)
  BY <1>1, <1>3, <1>4, <1>5, <1>7, <1>10, GoFacts
<1>11. CASE Go("status", f) /\ misread'
  BY <1>1, <1>3, <1>4, <1>5, <1>7, <1>11, GoFacts
<1> QED
  BY <1>6, <1>8, <1>9, <1>10, <1>11

\* Taking the head away takes no other Certificate away.
LEMMA CertSetTail ==
    ASSUME NEW s \in Seq(AllCerts), s # <<>>
    PROVE  Head(s) \in CertSet(s) /\ CertSet(Tail(s)) \subseteq CertSet(s)
<1>1. 1 \in 1..Len(s) /\ s[1] = Head(s)
  OBVIOUS
<1>2. ASSUME NEW i \in 1..Len(Tail(s))
      PROVE  Tail(s)[i] \in CertSet(s)
  <2>1. i + 1 \in 1..Len(s) /\ Tail(s)[i] = s[i + 1]
    OBVIOUS
  <2> QED
    BY <2>1 DEF CertSet
<1> QED
  BY <1>1, <1>2 DEF CertSet

\* The Certificate that the loop has come to.
NextCert == Head(pass.todo)

\* One Certificate is brought up to date; if that was a change the controller hears of it.
LEMMA EnsureFacts ==
    ASSUME Base, EnsureCertificate
    PROVE  /\ NextCert \in Certs
           /\ UNCHANGED <<kind, src, root, misread, ver, compiled, qc, pc, dep, svc, cpc, cpass>>
           /\ pc \in {"certs", "proxyCerts"}
           /\ cert' \in [AllCerts -> [exists : BOOLEAN, gen : Nat, ready : BOOLEAN, rev : Nat]]
           /\ \/ qs'
              \/ ~qs /\ UNCHANGED cert /\ cert[NextCert].exists /\ cert[NextCert].gen = pass.gen
           /\ pass' \in Passes
           /\ CertSet(pass.todo) \subseteq {NextCert} \cup CertSet(pass'.todo)
           /\ CertSet(pass'.todo) \subseteq CertSet(pass.todo)
           /\ pass'.ready = (pass.ready /\ cert[NextCert].exists /\ cert[NextCert].ready)
           /\ pass'.gen = pass.gen /\ pass'.valid = pass.valid /\ pass'.err = pass.err
           /\ pass'.revs[NextCert] = cert[NextCert].rev
           /\ \A d \in AllCerts \ {NextCert} : pass'.revs[d] = pass.revs[d]
<1> USE DEF Base
<1> DEFINE c == NextCert
           R == [exists : BOOLEAN, gen : Nat, ready : BOOLEAN, rev : Nat]
           new == [cert[c] EXCEPT !.exists = TRUE, !.gen = pass.gen]
<1>1. /\ UNCHANGED <<kind, src, root, misread, ver, compiled, qc, pc, dep, svc, cpc, cpass>>
      /\ pc \in {"certs", "proxyCerts"} /\ pass.todo # <<>>
      /\ cert' = [cert EXCEPT ![c] = new]
      /\ pass' = [Captured(c) EXCEPT !.todo = Tail(@)]
      /\ qs' = (qs \/ cert[c] # new)
  BY DEF EnsureCertificate, CertLoop, Outside, Render, NextCert
<1>2. pass \in Passes /\ pass.todo \in Seq(AllCerts) /\ pass.gen \in Nat /\ cert \in [AllCerts -> R]
  BY DEF Types, Passes
<1>3. /\ c \in AllCerts /\ Tail(pass.todo) \in Seq(AllCerts)
      /\ CertSet(pass.todo) \subseteq {c} \cup CertSet(Tail(pass.todo))
  BY <1>1, <1>2, CertSetHead DEF NextCert
<1>4. c \in CertSet(pass.todo) /\ CertSet(Tail(pass.todo)) \subseteq CertSet(pass.todo)
  BY <1>1, <1>2, CertSetTail DEF NextCert
<1>5. c \in Certs
  BY <1>4 DEF Structure
<1>6. /\ new \in R /\ new.exists = TRUE /\ new.gen = pass.gen
  BY <1>2, <1>3
<1>7. cert' \in [AllCerts -> R] /\ (cert[c] = new => cert' = cert)
  <2> HIDE DEF c, R, new
  <2> QED
    BY <1>1, <1>2, <1>3, <1>6
<1>8. /\ Captured(c) \in Passes /\ Captured(c).todo = pass.todo
  BY <1>3, CapturedType
<1>9. /\ Captured(c).revs = [pass.revs EXCEPT ![c] = cert[c].rev]
      /\ Captured(c).gen = pass.gen /\ Captured(c).valid = pass.valid /\ Captured(c).err = pass.err
  BY <1>2 DEF Captured, Passes
<1>10. Captured(c).ready = (pass.ready /\ cert[c].exists /\ cert[c].ready)
  BY <1>2 DEF Captured, Passes
<1> HIDE DEF c, R, new
<1>11. /\ pass' \in Passes /\ pass'.todo = Tail(pass.todo)
       /\ pass'.ready = Captured(c).ready /\ pass'.revs = Captured(c).revs
       /\ pass'.gen = Captured(c).gen /\ pass'.valid = Captured(c).valid
       /\ pass'.err = Captured(c).err
  BY <1>1, <1>3, <1>8 DEF Passes
<1>12. pass.revs \in [AllCerts -> Nat]
  BY <1>2 DEF Passes
<1>13. pass'.revs[c] = cert[c].rev /\ \A d \in AllCerts \ {c} : pass'.revs[d] = pass.revs[d]
  <2> DEFINE old == pass.revs
             rev == cert[c].rev
             upd == [old EXCEPT ![c] = rev]
  <2>1. pass'.revs = upd
    BY Zenon, <1>9, <1>11
  <2>2. old \in [AllCerts -> Nat]
    BY <1>12
  <2> HIDE DEF old, rev
  <2>3. upd[c] = rev /\ \A d \in AllCerts \ {c} : upd[d] = old[d]
    BY <1>3, <2>2
  <2> QED
    BY Zenon, <2>1, <2>3 DEF old, rev
<1>14. qs' \/ (~qs /\ UNCHANGED cert /\ cert[c].exists /\ cert[c].gen = pass.gen)
  BY <1>1, <1>6, <1>7
<1>15. pass'.ready = (pass.ready /\ cert[c].exists /\ cert[c].ready)
  BY Zenon, <1>10, <1>11
<1>16. /\ CertSet(pass.todo) \subseteq {c} \cup CertSet(pass'.todo)
       /\ CertSet(pass'.todo) \subseteq CertSet(pass.todo)
  BY <1>3, <1>4, <1>11
<1> QED
  BY Zenon, <1>1, <1>5, <1>7, <1>9, <1>11, <1>13, <1>14, <1>15, <1>16 DEF R, c

\* The steps that end a pass of the source controller.
LEMMA EndFacts ==
    ASSUME Base, Status \/ StatusFails
    PROVE  /\ UNCHANGED <<kind, root, misread, cert, ver, compiled, qc, dep, svc, cpc, cpass>>
           /\ pc = "status" /\ pc' = "idle" /\ pass' = NewPass
           /\ src' \in [gen : Nat, available : BOOLEAN] /\ src'.gen = src.gen
           /\ \/ qs'
              \/ ~qs /\ ~pass.err /\ (kind # "CacheServer" => src'.available = compiled.available)
<1> USE DEF Base
<1>1. /\ UNCHANGED <<kind, root, misread, cert, ver, compiled, qc, dep, svc, cpc, cpass>>
      /\ pc = "status" /\ pc' = "idle" /\ pass' = NewPass
  BY DEF Status, StatusFails, Outside, Render
<1>2. src \in [gen : Nat, available : BOOLEAN] /\ compiled.available \in BOOLEAN
  BY DEF Types
<1>3. CASE Status
  <2>1. /\ src' = IF kind = "CacheServer" THEN src ELSE [src EXCEPT !.available = compiled.available]
        /\ qs' = (qs \/ src' # src \/ pass.err)
    BY <1>3 DEF Status
  <2>2. /\ src' \in [gen : Nat, available : BOOLEAN] /\ src'.gen = src.gen
        /\ kind # "CacheServer" => src'.available = compiled.available
    BY <1>2, <2>1
  <2> QED
    BY <1>1, <2>1, <2>2
<1>4. CASE StatusFails
  BY <1>1, <1>2, <1>4 DEF StatusFails
<1> QED
  BY <1>3, <1>4

\* What the compiled controller and Kubernetes leave alone.
CompiledSide == CompiledWorker \/ CompiledFails \/ CompiledStatusFails \/ DeploymentProgress

\* The compiled side changes nothing that the source controller works from except the status, and wakes it then.
LEMMA CompiledLeaves ==
    ASSUME Base, CompiledSide
    PROVE  /\ UNCHANGED <<kind, src, root, misread, cert, ver, pc, pass>>
           /\ compiled' \in [exists : BOOLEAN, gen : Nat, revs : [AllCerts -> Nat], available : BOOLEAN]
           /\ compiled'.exists = compiled.exists /\ compiled'.gen = compiled.gen
           /\ compiled'.revs = compiled.revs
           /\ qs' \/ (~qs /\ UNCHANGED compiled)
<1> USE DEF Base, CompiledSide, CompiledWorker
<1>1. UNCHANGED <<kind, src, root, misread, cert, ver, pc, pass>>
  BY DEF CompiledBegin, ReadMounts, MountNotFound, WriteDeployment, WriteService,
     CompiledStatus, CompiledFails, CompiledStatusFails, DeploymentProgress, Source, Outside
<1>2. compiled \in [exists : BOOLEAN, gen : Nat, revs : [AllCerts -> Nat], available : BOOLEAN]
  BY DEF Types
<1>3. CASE CompiledStatus
  <2> DEFINE b == dep[Reported].exists /\ dep[Reported].up
             n == [compiled EXCEPT !.available = IF kind = "CacheServer" THEN @ ELSE b]
  <2>1. compiled' = n /\ qs' = (qs \/ n # compiled)
    BY <1>3 DEF CompiledStatus
  <2>2. b \in BOOLEAN
    OBVIOUS
  <2> HIDE DEF b
  <2>3. /\ n \in [exists : BOOLEAN, gen : Nat, revs : [AllCerts -> Nat], available : BOOLEAN]
        /\ n.exists = compiled.exists /\ n.gen = compiled.gen /\ n.revs = compiled.revs
    BY <1>2, <2>2
  <2> HIDE DEF n
  <2>4. qs' \/ (~qs /\ n = compiled)
    BY Zenon, <2>1
  <2> QED
    BY Zenon, <1>1, <2>1, <2>3, <2>4
<1>4. CASE UNCHANGED <<compiled, qs>>
  BY <1>1, <1>2, <1>4
<1> QED
  BY <1>3, <1>4 DEF CompiledBegin, ReadMounts, MountNotFound, WriteDeployment, WriteService,
     CompiledFails, CompiledStatusFails, DeploymentProgress, Source

\* The steps, in groups.
LEMMA NextCases ==
    ASSUME [Next]_vars
    PROVE  \/ Users \/ CertManager \/ CompiledSide \/ PassBegins \/ EnsureCertificate \/ PassAdvances
           \/ PassFails \/ Status \/ StatusFails \/ UNCHANGED vars
  BY DEF Next, SourceWorker, Faults, CompiledSide, PassBegins, PassAdvances, PassFails

\* What depends on the kind only.
LEMMA KindDecides ==
    ASSUME kind' = kind
    PROVE  /\ Certs' = Certs /\ StagesOf' = StagesOf /\ Deployments' = Deployments
           /\ Reported' = Reported /\ \A d : Mounts(d)' = Mounts(d)
           /\ \A stage : Enter(stage)' = Enter(stage)
           /\ Own' = Own /\ Proxy' = Proxy /\ Stages[kind]' = Stages[kind]
<1>1. Certs' = Certs /\ Own' = Own /\ Proxy' = Proxy
  BY DEF Certs, Own, Proxy
<1>2. \A stage : Enter(stage)' = Enter(stage)
  BY <1>1 DEF Enter
<1>3. Stages[kind]' = Stages[kind]
  BY DEF Stages, ShardStages, RootShardStages, FrontProxyStages, VirtualWorkspaceStages,
     CacheServerStages
<1>4. StagesOf' = StagesOf
  BY <1>3 DEF StagesOf
<1>5. Deployments' = Deployments /\ Reported' = Reported
  BY DEF Deployments, Reported
<1>6. \A d : Mounts(d)' = Mounts(d)
  BY DEF Mounts, ProxyMounts, ShardMounts, RootShardMounts, VirtualWorkspaceMounts,
     CacheServerMounts, If
<1> QED
  BY <1>1, <1>2, <1>3, <1>4, <1>5, <1>6

\* The Deployments of a kind, and the one a compiled pass has come to.
LEMMA CurrentFacts ==
    ASSUME Structure
    PROVE  /\ Deployments \subseteq {"main", "proxy"} /\ Reported \in Deployments
           /\ cpass.todo # {} => Current \in cpass.todo
           /\ kind = "CacheServer" => Deployments = {"main"}
  BY DEF Deployments, Reported, Current, Structure

\* Steps of others than the compiled controller keep its structure.
LEMMA StructureKept ==
    ASSUME Structure, UNCHANGED <<kind, dep, cpc, cpass>>, compiled.exists => compiled'.exists,
           ~compiled'.exists => compiled'.available = compiled.available,
           pc' \in {"idle"} \cup StagesOf, CertSet(pass'.todo) \subseteq Certs
    PROVE  Structure'
<1>1. Certs' = Certs /\ StagesOf' = StagesOf /\ Deployments' = Deployments
  BY KindDecides
<1> QED
  BY Zenon, <1>1 DEF Structure

\* Updating one field keeps the shape and the other fields.
LEMMA UpdateKeeps ==
    ASSUME NEW fields, NEW r, Shaped(r, fields), NEW f \in fields, NEW x
    PROVE  /\ Shaped([r EXCEPT ![f] = x], fields)
           /\ [r EXCEPT ![f] = x][f] = x
           /\ \A g \in fields \ {f} : [r EXCEPT ![f] = x][g] = r[g]
  BY DEF Shaped

\* Two records with the same fields are the same when each field is.
LEMMA SameFields ==
    ASSUME NEW r, NEW n, Shaped(r, DeploymentFields), Shaped(n, DeploymentFields),
           r.exists = n.exists, r.gen = n.gen, r.labels = n.labels, r.observed = n.observed,
           r.up = n.up
    PROVE  r = n
  BY DEF Shaped, DeploymentFields

\* One Deployment is updated.
LEMMA OneDeployment ==
    ASSUME Shaped(dep, {"main", "proxy"}), NEW d \in {"main", "proxy"}, NEW r,
           dep' = [dep EXCEPT ![d] = r]
    PROVE  /\ Shaped(dep', {"main", "proxy"})
           /\ dep'[d] = r
           /\ \A e \in {"main", "proxy"} \ {d} : dep'[e] = dep[e]
           /\ r = dep[d] => dep' = dep
  BY DEF Shaped

\* What moves the status of a Deployment.
LEMMA UpUpdate ==
    ASSUME NEW r, Shaped(r, DeploymentFields), NEW a
    PROVE  LET n == [r EXCEPT !.up = a]
           IN  /\ Shaped(n, DeploymentFields)
               /\ n.exists = r.exists /\ n.gen = r.gen /\ n.labels = r.labels
<1>1. "up" \in DeploymentFields /\ {"exists", "gen", "labels"} \subseteq DeploymentFields
  BY DEF DeploymentFields
<1> QED
  BY <1>1, UpdateKeeps

\* A Deployment whose template has been seen keeps its other fields.
LEMMA ObservedUpdate ==
    ASSUME NEW r, Shaped(r, DeploymentFields), NEW a
    PROVE  LET n == [r EXCEPT !.observed = a]
           IN  /\ Shaped(n, DeploymentFields)
               /\ n.exists = r.exists /\ n.gen = r.gen /\ n.labels = r.labels /\ n.up = r.up
<1>1. "observed" \in DeploymentFields /\ {"exists", "gen", "labels", "up"} \subseteq DeploymentFields
  BY DEF DeploymentFields
<1> QED
  BY <1>1, UpdateKeeps

\* What renders a Deployment.
Update(r, a, b, c) == [r EXCEPT !.exists = a, !.gen = b, !.labels = c]

\* Rendering sets what the template says and keeps the availability.
LEMMA RenderUpdate ==
    ASSUME NEW r, Shaped(r, DeploymentFields), NEW a, NEW b, NEW c
    PROVE  /\ Shaped(Update(r, a, b, c), DeploymentFields)
           /\ Update(r, a, b, c).exists = a /\ Update(r, a, b, c).gen = b
           /\ Update(r, a, b, c).labels = c /\ Update(r, a, b, c).up = r.up
<1>1. {"exists", "gen", "labels", "up"} \subseteq DeploymentFields
  BY DEF DeploymentFields
<1> DEFINE r1 == [r EXCEPT !.exists = a]
           r2 == [r1 EXCEPT !.gen = b]
           r3 == [r2 EXCEPT !.labels = c]
<1>2. Update(r, a, b, c) = r3
  BY DEF Update
<1>5. Shaped(r1, DeploymentFields) /\ r1.exists = a /\ r1.up = r.up
  BY <1>1, UpdateKeeps
<1> HIDE DEF r1
<1>6. Shaped(r2, DeploymentFields) /\ r2.exists = a /\ r2.gen = b /\ r2.up = r.up
  BY <1>1, <1>5, UpdateKeeps
<1> HIDE DEF r2
<1>7. /\ Shaped(r3, DeploymentFields) /\ r3.exists = a /\ r3.gen = b /\ r3.labels = c
      /\ r3.up = r.up
  BY <1>1, <1>6, UpdateKeeps
<1> HIDE DEF r3
<1> QED
  BY Zenon, <1>2, <1>7

\* The updates of a compiled pass.
LEMMA LabelsUpdate ==
    ASSUME NEW r, Shaped(r, LocalsFields), NEW a
    PROVE  LET n == [r EXCEPT !.labels = a]
           IN  /\ Shaped(n, LocalsFields) /\ n.labels = a
               /\ n.gen = r.gen /\ n.todo = r.todo /\ n.err = r.err
<1>1. "labels" \in LocalsFields /\ {"gen", "todo", "err"} \subseteq LocalsFields
  BY DEF LocalsFields
<1> QED
  BY <1>1, UpdateKeeps

\* Taking note of an error keeps the other fields of a pass.
LEMMA ErrUpdate ==
    ASSUME NEW r, Shaped(r, LocalsFields), NEW a
    PROVE  LET n == [r EXCEPT !.err = a]
           IN  /\ Shaped(n, LocalsFields) /\ n.err = a
               /\ n.gen = r.gen /\ n.todo = r.todo
<1>1. "err" \in LocalsFields /\ {"gen", "todo"} \subseteq LocalsFields
  BY DEF LocalsFields
<1> QED
  BY <1>1, UpdateKeeps

\* A pass that takes note of a generation has the error it had before.
LEMMA GenUpdate ==
    ASSUME NEW r, Shaped(r, LocalsFields), NEW a
    PROVE  LET n == [r EXCEPT !.gen = a]
           IN  Shaped(n, LocalsFields) /\ n.gen = a /\ n.err = r.err
<1>1. "gen" \in LocalsFields /\ {"err"} \subseteq LocalsFields
  BY DEF LocalsFields
<1> QED
  BY <1>1, UpdateKeeps

\* A new list of mounts keeps the other fields of a pass.
LEMMA TodoUpdate ==
    ASSUME NEW r, Shaped(r, LocalsFields), NEW a
    PROVE  LET n == [r EXCEPT !.todo = a]
           IN  /\ Shaped(n, LocalsFields) /\ n.todo = a
               /\ n.gen = r.gen /\ n.err = r.err
<1>1. "todo" \in LocalsFields /\ {"gen", "err"} \subseteq LocalsFields
  BY DEF LocalsFields
<1> QED
  BY <1>1, UpdateKeeps

\* A Deployment that is done leaves the list and nothing else of the pass but its labels.
LEMMA DoneUpdate ==
    ASSUME NEW r, Shaped(r, LocalsFields)
    PROVE  /\ Shaped(Done(r), LocalsFields)
           /\ Done(r).gen = r.gen /\ Done(r).todo = r.todo \ {Current} /\ Done(r).err = r.err
<1> DEFINE t == r.todo \ {Current}
           n == [r EXCEPT !.todo = t]
           m == [n EXCEPT !.labels = <<>>]
<1>1. Done(r) = m
  BY DEF Done
<1> HIDE DEF t
<1>2. Shaped(n, LocalsFields) /\ n.todo = t /\ n.gen = r.gen /\ n.err = r.err
  BY Zenon, TodoUpdate
<1> HIDE DEF n
<1>3. Shaped(m, LocalsFields) /\ m.todo = t /\ m.gen = r.gen /\ m.err = r.err
  BY Zenon, <1>2, LabelsUpdate
<1> HIDE DEF m
<1> QED
  BY Zenon, <1>1, <1>3 DEF t

\* A Deployment that is written is what the pass rendered; if nothing hears of it, it was so before.
LEMMA WriteRenders ==
    ASSUME Structure, WriteDeployment
    PROVE  /\ Shaped(dep', {"main", "proxy"})
           /\ \A d \in {"main", "proxy"} : Shaped(dep'[d], DeploymentFields)
           /\ Current \in {"main", "proxy"}
           /\ dep'[Current].exists = TRUE /\ dep'[Current].gen = cpass.gen
           /\ dep'[Current].labels = cpass.labels /\ dep'[Current].up = dep[Current].up
           /\ \A d \in {"main", "proxy"} \ {Current} : dep'[d] = dep[d]
           /\ ~qc' => UNCHANGED dep
<1> DEFINE old == dep[Current]
           new == [old EXCEPT !.exists = TRUE, !.gen = cpass.gen, !.labels = cpass.labels]
           obs == [new EXCEPT !.observed = FALSE]
           r == IF new = old THEN old ELSE obs
<1>0. /\ Shaped(dep, {"main", "proxy"})
      /\ \A d \in {"main", "proxy"} : Shaped(dep[d], DeploymentFields)
  BY DEF Structure
<1>1. dep' = [dep EXCEPT ![Current] = r] /\ qc' = (qc \/ new # old) /\ cpc = "write"
  BY DEF WriteDeployment
<1>2. Current \in {"main", "proxy"}
  BY <1>1, CurrentFacts DEF Structure
<1>3. Shaped(old, DeploymentFields)
  BY <1>0, <1>2
<1> DEFINE g == cpass.gen
           l == cpass.labels
<1> HIDE DEF old, g, l
<1> DEFINE yes == TRUE
<1>4. new = [old EXCEPT !.exists = yes, !.gen = g, !.labels = l]
  BY Zenon DEF g, l
<1> HIDE DEF yes
<1>5. /\ Shaped(new, DeploymentFields) /\ new.exists = yes /\ new.gen = g /\ new.labels = l
      /\ new.up = old.up
  <2>1. new = Update(old, yes, g, l)
    BY Zenon, <1>4 DEF Update
  <2> HIDE DEF new
  <2>2. \A a, b, c :
           /\ Shaped(Update(old, a, b, c), DeploymentFields)
           /\ Update(old, a, b, c).exists = a /\ Update(old, a, b, c).gen = b
           /\ Update(old, a, b, c).labels = c /\ Update(old, a, b, c).up = old.up
    BY <1>3, RenderUpdate
  <2> QED
    BY <2>1, <2>2
<1> HIDE DEF new
<1>7. /\ Shaped(obs, DeploymentFields) /\ obs.exists = yes /\ obs.gen = g /\ obs.labels = l
      /\ obs.up = old.up
  BY Zenon, <1>5, ObservedUpdate
<1> HIDE DEF obs
<1>8. /\ Shaped(r, DeploymentFields) /\ r.exists = yes /\ r.gen = g /\ r.labels = l
      /\ r.up = old.up
  BY Zenon, <1>3, <1>5, <1>7
<1>9. ~qc' => r = old
  BY Zenon, <1>1
<1> HIDE DEF r
<1>10. /\ Shaped(dep', {"main", "proxy"}) /\ dep'[Current] = r
       /\ \A e \in {"main", "proxy"} \ {Current} : dep'[e] = dep[e]
       /\ r = dep[Current] => dep' = dep
  BY Zenon, <1>0, <1>1, <1>2, OneDeployment
<1> QED
  BY Zenon, <1>0, <1>2, <1>8, <1>9, <1>10 DEF g, l, old, yes

\* What a step of the compiled controller or of Kubernetes makes of a Deployment: it is updated from
\* the pass, or its status moves.
LEMMA DeploymentSteps ==
    ASSUME Structure, CompiledSide
    PROVE  /\ Shaped(dep', {"main", "proxy"})
           /\ \A d \in {"main", "proxy"} : Shaped(dep'[d], DeploymentFields)
           /\ \/ UNCHANGED dep
              \/ /\ DeploymentProgress
                 /\ \A d \in {"main", "proxy"} :
                       dep'[d].exists = dep[d].exists /\ dep'[d].gen = dep[d].gen
                       /\ dep'[d].labels = dep[d].labels
                 /\ \A d \in {"main", "proxy"} : ~dep[d].exists => dep'[d] = dep[d]
              \/ WriteDeployment
           /\ WriteDeployment /\ ~qc' => UNCHANGED dep
<1>1. /\ Shaped(dep, {"main", "proxy"})
      /\ \A d \in {"main", "proxy"} : Shaped(dep[d], DeploymentFields)
  BY DEF Structure
<1>2. CASE DeploymentProgress
  <2>1. PICK d \in Deployments :
             /\ dep[d].exists
             /\ \/ dep' = [dep EXCEPT ![d].observed = TRUE, ![d].up = FALSE]
                \/ dep' = [dep EXCEPT ![d].up = TRUE]
    BY <1>2 DEF DeploymentProgress
  <2>2. d \in {"main", "proxy"}
    BY CurrentFacts
  <2> DEFINE r1 == [dep[d] EXCEPT !.observed = TRUE]
             a == [r1 EXCEPT !.up = FALSE]
             b == [dep[d] EXCEPT !.up = TRUE]
  <2>3. dep' = [dep EXCEPT ![d] = a] \/ dep' = [dep EXCEPT ![d] = b]
    BY <2>1
  <2>4. /\ Shaped(b, DeploymentFields) /\ b.exists = dep[d].exists /\ b.gen = dep[d].gen
        /\ b.labels = dep[d].labels
    BY Zenon, <1>1, <2>2, UpUpdate
  <2>5. /\ Shaped(r1, DeploymentFields) /\ r1.exists = dep[d].exists /\ r1.gen = dep[d].gen
        /\ r1.labels = dep[d].labels
    BY Zenon, <1>1, <2>2, ObservedUpdate
  <2> HIDE DEF r1
  <2>6. /\ Shaped(a, DeploymentFields) /\ a.exists = dep[d].exists /\ a.gen = dep[d].gen
        /\ a.labels = dep[d].labels
    BY Zenon, <2>5, UpUpdate
  <2> HIDE DEF a, b
  <2>7. PICK r : /\ dep' = [dep EXCEPT ![d] = r] /\ Shaped(r, DeploymentFields)
                 /\ r.exists = dep[d].exists /\ r.gen = dep[d].gen /\ r.labels = dep[d].labels
    BY Zenon, <2>3, <2>4, <2>6
  <2>8. Shaped(dep', {"main", "proxy"}) /\ dep'[d] = r /\ \A e \in {"main", "proxy"} \ {d} : dep'[e] = dep[e]
    BY Zenon, <1>1, <2>2, <2>7, OneDeployment
  <2>9. ~WriteDeployment
    BY <1>2 DEF DeploymentProgress, WriteDeployment
  <2> QED
    BY <1>1, <1>2, <2>1, <2>2, <2>7, <2>8, <2>9
<1>3. CASE WriteDeployment
  BY <1>3, WriteRenders
<1>4. CASE UNCHANGED dep
  BY <1>1, <1>4
<1> QED
  BY <1>2, <1>3, <1>4 DEF CompiledSide, CompiledWorker, CompiledBegin, ReadMounts, MountNotFound,
     WriteService, CompiledStatus, CompiledFails, CompiledStatusFails

\* How a compiled pass goes on: it rests, starts, reads the mounts of a Deployment, deals with the
\* Deployment one way or another, sees to the Service, or ends.
LocalsSame(l) == l.gen = cpass.gen /\ (l.err = cpass.err \/ l.err = TRUE)

PassRests ==
    /\ UNCHANGED <<cpc, cpass>>
    /\ DeploymentProgress \/ ~compiled.exists

PassStarts ==
    /\ CompiledBegin /\ compiled.exists
    /\ cpc' = "read" /\ cpass'.gen = compiled.gen /\ cpass'.todo = Deployments

PassReads ==
    /\ ReadMounts /\ cpc' = "write"
    /\ cpass'.gen = cpass.gen /\ cpass'.todo = cpass.todo /\ cpass'.err = cpass.err
    /\ cpass'.labels = [m \in Mounts(Current) |-> ver[m]]

PassDeals ==
    /\ MountNotFound \/ WriteDeployment \/ (CompiledFails /\ cpass'.err = TRUE)
    /\ cpc \in {"read", "write"} /\ cpc' = "service"
    /\ cpass'.todo = cpass.todo \ {Current} /\ LocalsSame(cpass')

PassServes ==
    /\ WriteService \/ (CompiledFails /\ cpass'.err = TRUE)
    /\ cpc = "service" /\ cpc' = IF cpass.todo # {} THEN "read" ELSE "status"
    /\ cpass'.todo = cpass.todo /\ LocalsSame(cpass')

PassEnds ==
    /\ cpc # "idle" /\ cpc' = "idle" /\ cpass' = NewCompiledPass
    /\ \/ MountNotFound /\ kind = "CacheServer"
       \/ CompiledStatus
       \/ qc' = TRUE

\* What a step of the compiled controller or of Kubernetes makes of the compiled pass.
LEMMA CompiledPassSteps ==
    ASSUME Structure, CompiledSide
    PROVE  /\ Shaped(cpass', LocalsFields)
           /\ PassRests \/ PassStarts \/ PassReads \/ PassDeals \/ PassServes \/ PassEnds
<1>1. Shaped(cpass, LocalsFields)
  BY DEF Structure
<1>2. Shaped(NewCompiledPass, LocalsFields)
  BY DEF Shaped, NewCompiledPass, LocalsFields
<1>3. CASE DeploymentProgress
  BY <1>1, <1>3 DEF DeploymentProgress, PassRests
<1>4. CASE CompiledBegin
  <2>1. CASE ~compiled.exists
    BY <1>1, <1>4, <2>1 DEF CompiledBegin, PassRests
  <2>2. CASE compiled.exists
    <3> DEFINE p == NewCompiledPass
               g == compiled.gen
               D == Deployments
               m == [p EXCEPT !.gen = g]
               n == [m EXCEPT !.todo = D]
    <3>1. cpc' = "read" /\ cpass' = n
      BY <1>4, <2>2 DEF CompiledBegin
    <3>2. Shaped(p, LocalsFields)
      BY <1>2
    <3> HIDE DEF p, g, D
    <3>3. Shaped(m, LocalsFields) /\ m.gen = g
      BY Zenon, <3>2, GenUpdate
    <3> HIDE DEF m
    <3>4. Shaped(n, LocalsFields) /\ n.gen = g /\ n.todo = D
      BY Zenon, <3>3, TodoUpdate
    <3> HIDE DEF n
    <3> QED
      BY Zenon, <1>4, <2>2, <3>1, <3>4 DEF g, D, PassStarts
  <2> QED
    BY <2>1, <2>2
<1>5. CASE ReadMounts
  <2> DEFINE l == [m \in Mounts(Current) |-> ver[m]]
             n == [cpass EXCEPT !.labels = l]
  <2>1. cpc' = "write" /\ cpass' = n
    BY <1>5 DEF ReadMounts
  <2> HIDE DEF l
  <2>2. /\ Shaped(n, LocalsFields) /\ n.gen = cpass.gen /\ n.todo = cpass.todo
        /\ n.err = cpass.err /\ n.labels = l
    BY Zenon, <1>1, LabelsUpdate
  <2> HIDE DEF n
  <2> QED
    BY Zenon, <1>5, <2>1, <2>2 DEF l, PassReads
<1> DEFINE d == Done(cpass)
           e == [d EXCEPT !.err = TRUE]
           f == [cpass EXCEPT !.err = TRUE]
<1>6. /\ Shaped(d, LocalsFields) /\ d.gen = cpass.gen /\ d.todo = cpass.todo \ {Current}
      /\ d.err = cpass.err
  BY Zenon, <1>1, DoneUpdate
<1> HIDE DEF d
<1>7. /\ Shaped(e, LocalsFields) /\ e.gen = d.gen /\ e.todo = d.todo /\ e.err = TRUE
  BY Zenon, <1>6, ErrUpdate
<1>8. /\ Shaped(f, LocalsFields) /\ f.gen = cpass.gen /\ f.todo = cpass.todo /\ f.err = TRUE
  BY Zenon, <1>1, ErrUpdate
<1>9. CASE MountNotFound
  <2>1. \/ kind = "CacheServer" /\ cpc' = "idle" /\ cpass' = NewCompiledPass
        \/ cpc' = "service" /\ cpass' = d
    BY <1>9 DEF MountNotFound, d
  <2>2. cpc = "read"
    BY <1>9 DEF MountNotFound
  <2> QED
    BY <1>2, <1>6, <1>9, <2>1, <2>2 DEF LocalsSame, PassDeals, PassEnds
<1>10. CASE WriteDeployment
  <2>1. cpc' = "service" /\ cpass' = d /\ cpc = "write"
    BY <1>10 DEF WriteDeployment, d
  <2> QED
    BY <1>6, <1>10, <2>1 DEF LocalsSame, PassDeals
<1>11. CASE WriteService
  <2>1. /\ cpc = "service" /\ cpass' = cpass
        /\ cpc' = IF cpass.todo # {} THEN "read" ELSE "status"
    BY <1>11 DEF WriteService
  <2> QED
    BY <1>1, <1>11, <2>1 DEF LocalsSame, PassServes
<1>12. CASE CompiledStatus \/ CompiledStatusFails
  <2>1. /\ cpc = "status" /\ cpc' = "idle" /\ cpass' = NewCompiledPass
        /\ CompiledStatus \/ qc' = TRUE
    BY <1>12 DEF CompiledStatus, CompiledStatusFails
  <2> QED
    BY <1>2, <2>1 DEF PassEnds
<1>13. CASE CompiledFails
  <2>1. cpc \in {"read", "write", "service"}
    BY <1>13 DEF CompiledFails
  <2>2. \/ cpc' = "idle" /\ cpass' = NewCompiledPass /\ qc' = TRUE
        \/ cpc # "service" /\ cpc' = "service" /\ cpass' = e
        \/ /\ cpc = "service" /\ cpass' = f
           /\ cpc' = IF cpass.todo # {} THEN "read" ELSE "status"
    BY <1>13 DEF CompiledFails, d
  <2> HIDE DEF e, f
  <2>3. CASE cpc' = "idle" /\ cpass' = NewCompiledPass /\ qc' = TRUE
    BY <1>2, <2>1, <2>3 DEF PassEnds
  <2>4. CASE cpc # "service" /\ cpc' = "service" /\ cpass' = e
    BY <1>6, <1>7, <1>13, <2>1, <2>4 DEF LocalsSame, PassDeals
  <2>5. CASE /\ cpc = "service" /\ cpass' = f
             /\ cpc' = IF cpass.todo # {} THEN "read" ELSE "status"
    BY <1>8, <1>13, <2>5 DEF LocalsSame, PassServes
  <2> QED
    BY <2>2, <2>3, <2>4, <2>5
<1> QED
  BY Zenon, <1>3, <1>4, <1>5, <1>9, <1>10, <1>11, <1>12, <1>13 DEF CompiledSide, CompiledWorker

\* One step of the compiled controller, or of Kubernetes.
LEMMA CompiledStructure ==
    ASSUME Base, CompiledSide
    PROVE  Structure'
<1> USE DEF Base
<1>1. /\ UNCHANGED <<kind, pc, pass>> /\ compiled'.exists = compiled.exists
      /\ Certs' = Certs /\ StagesOf' = StagesOf /\ Deployments' = Deployments
  BY CompiledLeaves, KindDecides
<1>2. /\ pc' \in {"idle"} \cup StagesOf' /\ CertSet(pass'.todo) \subseteq Certs'
  BY <1>1 DEF Structure
<1>3. /\ Shaped(dep', {"main", "proxy"})
      /\ \A d \in {"main", "proxy"} : Shaped(dep'[d], DeploymentFields)
  BY DeploymentSteps
<1>4. NewCompiledPass.todo = {}
  BY DEF NewCompiledPass
<1>5. Deployments # {}
  BY CurrentFacts DEF Structure
<1>6. /\ Shaped(cpass', LocalsFields)
      /\ cpc' \in {"idle", "read", "write", "service", "status"}
      /\ cpass'.todo \subseteq Deployments'
      /\ cpc' \in {"read", "write"} => cpass'.todo # {}
      /\ cpc' = "status" => cpass'.todo = {}
  <2>1. cpc = "read" => cpass.todo # {}
    BY DEF Structure
  <2> QED
    BY <1>1, <1>4, <1>5, <2>1, CompiledPassSteps
    DEF Structure, ReadMounts, PassRests, PassStarts, PassReads, PassDeals, PassServes, PassEnds
<1>7. ASSUME ~compiled'.exists
      PROVE  cpc' = "idle" /\ ~compiled'.available /\ \A d \in {"main", "proxy"} : ~dep'[d].exists
  <2>1. ~compiled.exists /\ cpc = "idle" /\ ~compiled.available /\ \A d \in {"main", "proxy"} : ~dep[d].exists
    BY <1>1, <1>7 DEF Structure
  <2>2. DeploymentProgress \/ CompiledBegin
    BY <2>1 DEF CompiledSide, CompiledWorker, ReadMounts, MountNotFound, WriteDeployment,
       WriteService, CompiledStatus, CompiledFails, CompiledStatusFails
  <2>3. UNCHANGED <<cpc, compiled>>
    BY <2>1, <2>2 DEF DeploymentProgress, CompiledBegin
  <2>4. \A d \in {"main", "proxy"} : dep'[d].exists = dep[d].exists
    BY <2>2, DeploymentSteps DEF CompiledBegin, DeploymentProgress, WriteDeployment
  <2> QED
    BY <2>1, <2>3, <2>4
<1> QED
  BY <1>1, <1>2, <1>3, <1>6, <1>7 DEF Structure

\* What is published.
LEMMA PublishFacts ==
    ASSUME Base, PassAdvances
    PROVE  /\ compiled' \in [exists : BOOLEAN, gen : Nat, revs : [AllCerts -> Nat], available : BOOLEAN]
           /\ compiled'.available = compiled.available
           /\ compiled.exists => compiled'.exists
           /\ compiled'.exists => \/ UNCHANGED compiled
                                  \/ pass.valid /\ pass.ready
           /\ pc = "publish" /\ pass.ready /\ pass.valid =>
                  compiled'.exists /\ compiled'.gen = pass.gen /\ compiled'.revs = pass.revs
           /\ pc # "publish" => UNCHANGED compiled
<1>1. /\ compiled \in [exists : BOOLEAN, gen : Nat, revs : [AllCerts -> Nat], available : BOOLEAN]
      /\ pass.gen \in Nat /\ pass.revs \in [AllCerts -> Nat]
  BY DEF Base, Types, Passes
<1>2. CASE pc # "publish"
  BY <1>1, <1>2 DEF PassAdvances, CertificatesDone, EnsureOthers, SkipBundle, EnsureBundle,
     EnsureProxyCAs, Lookup, Publish
<1>3. CASE pc = "publish"
  <2>1. Publish
    BY <1>3 DEF PassAdvances, CertificatesDone, CertLoop, EnsureOthers, SkipBundle, EnsureBundle,
       EnsureProxyCAs, Lookup
  <2> DEFINE g == pass.gen
             v == pass.revs
             yes == TRUE
             n == [compiled EXCEPT !.exists = yes, !.gen = g, !.revs = v]
  <2>2. IF pass.ready /\ pass.valid THEN compiled' = n ELSE compiled' = compiled
    BY <2>1 DEF Publish, CertsReady
  <2>3. g \in Nat /\ v \in [AllCerts -> Nat] /\ yes \in BOOLEAN
    BY <1>1
  <2> HIDE DEF g, v, yes
  <2>4. /\ n \in [exists : BOOLEAN, gen : Nat, revs : [AllCerts -> Nat], available : BOOLEAN]
        /\ n.exists = yes /\ n.gen = g /\ n.revs = v /\ n.available = compiled.available
    BY <1>1, <2>3
  <2> HIDE DEF n
  <2> QED
    BY Zenon, <1>1, <1>3, <2>2, <2>4 DEF g, v, yes
<1> QED
  BY <1>2, <1>3

\* Every step keeps the types and the structure.
LEMMA BaseStep ==
    ASSUME Base, [Next]_vars
    PROVE  Base'
<1>1. CASE Users \/ CertManager
  <2>1. Structure'
    BY Zenon, <1>1, OutsideFacts, StructureKept, KindDecides DEF Base, Structure
  <2>2. Types'
    BY Zenon, <1>1, OutsideFacts DEF Base, Types
  <2> QED
    BY <2>1, <2>2 DEF Base
<1>2. CASE CompiledSide
  <2>1. Types'
    BY Zenon, <1>2, CompiledLeaves DEF Base, Types
  <2> QED
    BY <1>2, <2>1, CompiledStructure DEF Base
<1>3. CASE PassBegins
  <2>1. Structure'
    BY Zenon, <1>3, BeginFacts, StructureKept DEF Base
  <2>2. Types'
    BY Zenon, <1>3, BeginFacts DEF Base, Types
  <2> QED
    BY <2>1, <2>2 DEF Base
<1>4. CASE EnsureCertificate
  <2>1. pc' \in {"idle"} \cup StagesOf /\ CertSet(pass'.todo) \subseteq Certs
    BY <1>4, EnsureFacts DEF Base, Structure
  <2>2. Structure'
    BY Zenon, <1>4, <2>1, EnsureFacts, StructureKept DEF Base
  <2>3. Types'
    BY Zenon, <1>4, EnsureFacts DEF Base, Types
  <2> QED
    BY <2>2, <2>3 DEF Base
<1>5. CASE PassAdvances
  <2>1. pc' \in {"idle"} \cup StagesOf /\ CertSet(pass'.todo) \subseteq Certs
    BY <1>5, AdvanceFacts
  <2>2. Structure'
    BY Zenon, <1>5, <2>1, AdvanceFacts, PublishFacts, StructureKept DEF Base
  <2>3. Types'
    BY Zenon, <1>5, AdvanceFacts, SecretFacts, PublishFacts DEF Base, Types
  <2> QED
    BY <2>2, <2>3 DEF Base
<1>6. CASE PassFails
  <2>1. Structure'
    BY Zenon, <1>6, FailureFacts, StructureKept DEF Base
  <2>2. Types'
    BY Zenon, <1>6, FailureFacts DEF Base, Types
  <2> QED
    BY <2>1, <2>2 DEF Base
<1>7. CASE Status \/ StatusFails
  <2>1. pass'.todo = <<>>
    BY <1>7, EndFacts DEF NewPass
  <2>2. CertSet(pass'.todo) \subseteq Certs
    BY <2>1, CertSetEmpty
  <2>3. Structure'
    BY Zenon, <1>7, <2>2, EndFacts, StructureKept DEF Base
  <2>4. NewPass \in Passes
    BY Zenon, NewPassType
  <2>5. Types'
    BY Zenon, <1>7, <2>4, EndFacts DEF Base, Types
  <2> QED
    BY <2>3, <2>5 DEF Base
<1>8. CASE UNCHANGED vars
  <2>1. Structure'
    BY Zenon, <1>8, StructureKept DEF Base, Structure, vars
  <2>2. Types'
    BY Zenon, <1>8 DEF Base, Types, vars
  <2> QED
    BY <2>1, <2>2 DEF Base
<1> QED
  BY <1>1, <1>2, <1>3, <1>4, <1>5, <1>6, <1>7, <1>8, NextCases

\* The initial states are of the types and the structure.
LEMMA BaseInit ==
    ASSUME Init
    PROVE  Base
<1>1. Types
  <2>1. /\ src \in [gen : Nat, available : BOOLEAN]
        /\ cert \in [AllCerts -> [exists : BOOLEAN, gen : Nat, ready : BOOLEAN, rev : Nat]]
        /\ ver \in [AllCerts \cup Extras -> Nat]
    BY DEF Init
  <2>2. compiled \in [exists : BOOLEAN, gen : Nat, revs : [AllCerts -> Nat], available : BOOLEAN]
    BY DEF Init, NoCompiled, NoRevisions
  <2> QED
    BY Zenon, <2>1, <2>2, NewPassType DEF Init, Types
<1>2. Structure
  <2>1. Shaped(NoDeployment, DeploymentFields) /\ NoDeployment.exists = FALSE
    BY DEF Shaped, NoDeployment, DeploymentFields
  <2>2. Shaped(NewCompiledPass, LocalsFields) /\ NewCompiledPass.todo = {}
    BY DEF Shaped, NewCompiledPass, LocalsFields
  <2>3. dep = [d \in {"main", "proxy"} |-> NoDeployment]
    BY DEF Init
  <2>4. /\ Shaped(dep, {"main", "proxy"})
        /\ \A d \in {"main", "proxy"} : Shaped(dep[d], DeploymentFields) /\ ~dep[d].exists
    <3> DEFINE n == NoDeployment
    <3>1. Shaped(n, DeploymentFields) /\ n.exists = FALSE /\ dep = [d \in {"main", "proxy"} |-> n]
      BY <2>1, <2>3
    <3> HIDE DEF n
    <3>2. Shaped(dep, {"main", "proxy"}) /\ \A d \in {"main", "proxy"} : dep[d] = n
      BY <3>1 DEF Shaped
    <3> QED
      BY Zenon, <3>1, <3>2
  <2>5. CertSet(pass.todo) \subseteq Certs
    <3>1. pass.todo = <<>>
      BY DEF Init, NewPass
    <3> QED
      BY <3>1, CertSetEmpty
  <2>6. pc = "idle" /\ cpc = "idle" /\ cpass = NewCompiledPass /\ compiled.available = FALSE
    BY DEF Init, NoCompiled
  <2>7. cpass.todo \subseteq Deployments
    BY Zenon, <2>2, <2>6
  <2> QED
    BY Zenon, <2>2, <2>4, <2>5, <2>6, <2>7 DEF Structure
<1> QED
  BY <1>1, <1>2 DEF Base

-----------------------------------------------------------------------------
(* Deployments follow the render input and what they mount.                *)

\* A Deployment whose mounts exist was rendered from the current input and from them.
Rendered(d) ==
    (\A m \in Mounts(d) : ver[m] > 0) =>
        /\ dep[d].exists /\ dep[d].gen = compiled.gen
        /\ dep[d].labels = [m \in Mounts(d) |-> ver[m]]

\* While nothing has woken the compiled controller since its pass began, the pass works with the
\* current input, and the Deployments that it has dealt with are rendered.
Rendering ==
    compiled.exists /\ ~qc =>
        /\ cpc = "idle" => \A d \in Deployments : Rendered(d)
        /\ cpc # "idle" =>
            /\ cpass.gen = compiled.gen
            /\ cpass.err = TRUE \/ \A d \in Deployments \ cpass.todo : Rendered(d)
        /\ cpc = "write" => cpass.labels = [m \in Mounts(Current) |-> ver[m]]

\* Steps of others keep that when they wake the compiled controller whenever they change what it reads.
LEMMA RenderingKept ==
    ASSUME Rendering, UNCHANGED <<kind, dep, cpc, cpass>>,
           qc' \/ (UNCHANGED <<ver, compiled>> /\ (qc' = qc \/ ~qc))
    PROVE  Rendering'
<1>1. CASE qc'
  BY <1>1 DEF Rendering
<1>2. CASE UNCHANGED <<ver, compiled>> /\ (qc' = qc \/ ~qc)
  <2>1. Deployments' = Deployments /\ \A d : Mounts(d)' = Mounts(d)
    BY KindDecides
  <2>2. \A d : Rendered(d)' = Rendered(d)
    BY Zenon, <1>2, <2>1 DEF Rendered
  <2>3. Current' = Current /\ Mounts(Current)' = Mounts(Current)
    BY Zenon, <2>1 DEF Current
  <2> QED
    BY Zenon, <1>2, <2>1, <2>2, <2>3 DEF Rendering
<1> QED
  BY <1>1, <1>2

\* So do those of the compiled controller.
LEMMA CompiledRenders ==
    ASSUME Base, Rendering, CompiledSide
    PROVE  Rendering'
<1> DEFINE Goal ==
             /\ cpc' = "idle" => \A d \in Deployments' : Rendered(d)'
             /\ cpc' # "idle" =>
                 /\ cpass'.gen = compiled'.gen
                 /\ cpass'.err = TRUE \/ \A d \in Deployments' \ cpass'.todo : Rendered(d)'
             /\ cpc' = "write" => cpass'.labels = [m \in Mounts(Current)' |-> ver'[m]]
<1> SUFFICES ASSUME compiled'.exists, ~qc'
             PROVE  Goal
  BY DEF Rendering
<1>1. /\ UNCHANGED <<kind, ver>> /\ compiled.exists /\ compiled'.gen = compiled.gen
      /\ Deployments' = Deployments /\ \A d : Mounts(d)' = Mounts(d)
  BY CompiledLeaves, KindDecides
<1>2. ~DeploymentProgress /\ ~CompiledStatusFails
  BY DEF DeploymentProgress, CompiledStatusFails
<1>3. UNCHANGED dep
  BY <1>2, DeploymentSteps DEF Base
<1>4. \A d : Rendered(d)' = Rendered(d)
  BY Zenon, <1>1, <1>3 DEF Rendered
<1>5. CASE PassStarts
  BY <1>1, <1>5 DEF PassStarts
<1>6. CASE PassRests
  BY <1>1, <1>2, <1>6 DEF PassRests
<1>7. CASE PassReads
  <2>1. cpc = "read" /\ ~qc
    BY <1>7 DEF ReadMounts, PassReads
  <2>2. Current' = Current /\ Mounts(Current)' = Mounts(Current)
    BY Zenon, <1>1, <1>7 DEF Current, PassReads
  <2>3. cpass.gen = compiled.gen /\ (cpass.err = TRUE \/ \A d \in Deployments \ cpass.todo : Rendered(d))
    BY <1>1, <2>1 DEF Rendering
  <2> QED
    BY Zenon, <1>1, <1>4, <1>7, <2>2, <2>3 DEF PassReads
<1>8. ASSUME MountNotFound, kind = "CacheServer", cpc' = "idle"
      PROVE  \A d \in Deployments : Rendered(d)
  <2>1. cpass.todo # {} /\ cpass.todo \subseteq Deployments /\ ~Found
    BY <1>8 DEF MountNotFound, Base, Structure
  <2>2. Deployments = {"main"} /\ Current = "main"
    BY <1>8, <2>1, CurrentFacts DEF Base
  <2>3. \A d \in Deployments : \E m \in Mounts(d) : ~(ver[m] > 0)
    BY <2>1, <2>2 DEF Found
  <2> QED
    BY Zenon, <2>3 DEF Rendered
<1>9. CASE PassDeals
  <2>1. ~qc /\ cpass.gen = compiled.gen
    <3>1. ~qc
      BY <1>9 DEF MountNotFound, WriteDeployment, CompiledFails, PassDeals
    <3> QED
      BY <1>1, <1>9, <3>1 DEF Rendering, PassDeals
  <2>2. cpass.err = TRUE \/ \A d \in Deployments \ cpass.todo : Rendered(d)
    BY <1>1, <1>9, <2>1 DEF Rendering, PassDeals
  <2>3. ASSUME MountNotFound
        PROVE  Rendered(Current)
    BY <2>3 DEF MountNotFound, Found, Rendered
  <2>4. ASSUME WriteDeployment, dep[Current].exists, dep[Current].gen = cpass.gen,
               dep[Current].labels = cpass.labels
        PROVE  Rendered(Current)
    <3>1. cpc = "write"
      BY <2>4 DEF WriteDeployment
    <3>2. cpass.labels = [m \in Mounts(Current) |-> ver[m]]
      BY <1>1, <2>1, <3>1 DEF Rendering
    <3> QED
      BY Zenon, <2>1, <2>4, <3>2 DEF Rendered
  <2>5. WriteDeployment => /\ dep[Current].exists /\ dep[Current].gen = cpass.gen
                           /\ dep[Current].labels = cpass.labels
    BY <1>3, WriteRenders DEF Base
  <2>6. cpass'.err = TRUE \/ (cpass'.err = cpass.err /\ Rendered(Current))
    BY Zenon, <1>9, <2>3, <2>4, <2>5 DEF LocalsSame, PassDeals
  <2>7. cpass'.err = TRUE \/ \A d \in Deployments \ cpass'.todo : Rendered(d)
    BY <1>9, <2>2, <2>6 DEF PassDeals
  <2>8. cpass'.gen = cpass.gen
    BY <1>9 DEF LocalsSame, PassDeals
  <2> QED
    BY Zenon, <1>1, <1>4, <1>9, <2>1, <2>7, <2>8 DEF PassDeals
<1>10. CASE PassServes
  <2>1. ~qc
    BY <1>10 DEF WriteService, CompiledFails, PassServes
  <2>2. /\ cpass.gen = compiled.gen
        /\ cpass.err = TRUE \/ \A d \in Deployments \ cpass.todo : Rendered(d)
    BY <1>1, <1>10, <2>1 DEF Rendering, PassServes
  <2>3. cpass'.gen = cpass.gen /\ (cpass'.err = cpass.err \/ cpass'.err = TRUE)
    BY <1>10 DEF LocalsSame, PassServes
  <2>4. cpass'.err = TRUE \/ \A d \in Deployments \ cpass'.todo : Rendered(d)
    BY <1>10, <2>2, <2>3 DEF PassServes
  <2>5. cpc' # "idle" /\ cpc' # "write"
    BY <1>10 DEF PassServes
  <2> QED
    BY Zenon, <1>1, <1>4, <2>2, <2>3, <2>4, <2>5
<1>11. ASSUME CompiledStatus
       PROVE  \A d \in Deployments : Rendered(d)
  <2>1. cpc = "status" /\ ~qc /\ ~cpass.err
    BY <1>11 DEF CompiledStatus
  <2>2. cpass.todo = {}
    BY <2>1 DEF Base, Structure
  <2> QED
    BY <1>1, <2>1, <2>2 DEF Rendering
<1>12. CASE PassEnds
  <2>1. \A d \in Deployments : Rendered(d)
    BY Zenon, <1>8, <1>11, <1>12 DEF PassEnds
  <2> QED
    BY Zenon, <1>1, <1>4, <1>12, <2>1 DEF PassEnds
<1> HIDE DEF Goal
<1> QED
  BY <1>5, <1>6, <1>7, <1>9, <1>10, <1>12, CompiledPassSteps DEF Base

\* Every step keeps it, where no ConfigMap of users is mounted: nobody watches one.
LEMMA RenderingStep ==
    ASSUME Base, Rendering, UserMount # "ConfigMap", [Next]_vars
    PROVE  Rendering'
<1>1. CASE Users \/ CertManager
  BY Zenon, <1>1, OutsideFacts, RenderingKept
<1>2. CASE CompiledSide
  BY <1>2, CompiledRenders
<1>3. CASE PassBegins
  BY Zenon, <1>3, BeginFacts, RenderingKept
<1>4. CASE EnsureCertificate
  BY Zenon, <1>4, EnsureFacts, RenderingKept
<1>5. CASE PassAdvances
  BY Zenon, <1>5, AdvanceFacts, SecretFacts, RenderingKept
<1>6. CASE PassFails
  BY Zenon, <1>6, FailureFacts, RenderingKept
<1>7. CASE Status \/ StatusFails
  BY Zenon, <1>7, EndFacts, RenderingKept
<1>8. CASE UNCHANGED vars
  BY Zenon, <1>8, RenderingKept DEF vars
<1> QED
  BY <1>1, <1>2, <1>3, <1>4, <1>5, <1>6, <1>7, <1>8, NextCases

\* The rollout follows: whenever the compiled controller rests, each Deployment whose mounts exist
\* was rendered from the current input and carries the versions of its mounts, whatever users,
\* cert-manager, the source controller and failures did in between (revision_labels.go:36-38).
THEOREM RolloutFollows == UserMount # "ConfigMap" => (Spec => []RolloutCurrent)
<1> SUFFICES ASSUME UserMount # "ConfigMap"
             PROVE  Spec => []RolloutCurrent
  OBVIOUS
<1>1. Init => Base /\ Rendering
  <2>1. Init => Rendering
    BY DEF Init, NoCompiled, Rendering
  <2> QED
    BY <2>1, BaseInit
<1>2. Base /\ Rendering /\ [Next]_vars => (Base /\ Rendering)'
  BY BaseStep, RenderingStep
<1>3. Rendering => RolloutCurrent
  BY Zenon DEF Rendering, RolloutCurrent, Rendered
<1> QED
  BY <1>1, <1>2, <1>3, PTL DEF Spec

-----------------------------------------------------------------------------
(* The availability that is reported.                                      *)

\* The source object has adopted what the Compiled* object reports.
Adopted ==
    pc = "idle" /\ ~qs /\ kind # "CacheServer" => src.available = compiled.available

\* The Compiled* object reports what its Deployment does.
Seen ==
    cpc = "idle" /\ ~qc /\ kind # "CacheServer" =>
        compiled.available = (dep[Reported].exists /\ dep[Reported].up)

\* Every step keeps what the source object has adopted, or leaves a request for it.
LEMMA AdoptedStep ==
    ASSUME Base, Adopted, [Next]_vars
    PROVE  Adopted'
<1>1. CASE Users \/ CertManager
  BY Zenon, <1>1, OutsideFacts DEF Adopted
<1>2. CASE CompiledSide
  BY Zenon, <1>2, CompiledLeaves DEF Adopted
<1>3. CASE PassBegins
  BY Zenon, <1>3, BeginFacts DEF Adopted
<1>4. CASE EnsureCertificate
  BY <1>4, EnsureFacts DEF Adopted
<1>5. CASE PassAdvances
  BY Zenon, <1>5, AdvanceFacts DEF Adopted
<1>6. CASE PassFails
  BY Zenon, <1>6, FailureFacts DEF Adopted
<1>7. CASE Status \/ StatusFails
  BY Zenon, <1>7, EndFacts DEF Adopted
<1>8. CASE UNCHANGED vars
  BY Zenon, <1>8 DEF Adopted, vars
<1> QED
  BY <1>1, <1>2, <1>3, <1>4, <1>5, <1>6, <1>7, <1>8, NextCases

\* Steps of others neither touch a Deployment nor make a rest of the compiled controller stale.
LEMMA SeenKept ==
    ASSUME Seen, UNCHANGED <<kind, dep, cpc>>, compiled'.available = compiled.available,
           qc' = qc \/ (qc => qc')
    PROVE  Seen'
<1>1. Reported' = Reported
  BY KindDecides
<1> QED
  BY Zenon, <1>1 DEF Seen

\* Every step keeps what the Compiled* object reports, or leaves a request for it.
LEMMA SeenStep ==
    ASSUME Base, Seen, [Next]_vars
    PROVE  Seen'
<1>1. CASE Users \/ CertManager
  BY Zenon, <1>1, OutsideFacts, SeenKept
<1>2. CASE CompiledSide
  <2>1. UNCHANGED kind /\ Reported' = Reported
    BY <1>2, CompiledLeaves, KindDecides
  <2>2. CASE cpc' = "idle" /\ ~qc' /\ kind # "CacheServer"
    <3>1. \/ UNCHANGED <<cpc, cpass>> /\ ~compiled.exists
          \/ CompiledStatus
      BY <1>2, <2>2, CompiledPassSteps DEF Base, DeploymentProgress, MountNotFound, PassRests,
         PassStarts, PassReads, PassDeals, PassServes, PassEnds
    <3>2. CASE UNCHANGED <<cpc, cpass>> /\ ~compiled.exists
      <4>1. ~compiled'.exists
        BY <1>2, <3>2, CompiledLeaves
      <4>2. ~compiled'.available /\ ~dep'[Reported].exists
        BY <1>2, <4>1, CompiledStructure, CurrentFacts DEF Structure, Base
      <4>3. compiled'.available \in BOOLEAN
        BY <1>2, CompiledLeaves
      <4> QED
        BY Zenon, <2>1, <4>2, <4>3 DEF Seen
    <3>3. CASE CompiledStatus
      <4> DEFINE b == dep[Reported].exists /\ dep[Reported].up
                 n == [compiled EXCEPT !.available = IF kind = "CacheServer" THEN @ ELSE b]
      <4>1. compiled' = n /\ UNCHANGED dep
        BY <3>3 DEF CompiledStatus
      <4>2. compiled \in [exists : BOOLEAN, gen : Nat, revs : [AllCerts -> Nat], available : BOOLEAN]
        BY DEF Base, Types
      <4>3. b \in BOOLEAN
        OBVIOUS
      <4> HIDE DEF b
      <4>4. n.available = b
        BY <2>2, <4>2, <4>3
      <4> HIDE DEF n
      <4> QED
        BY Zenon, <2>1, <4>1, <4>4 DEF b, Seen
    <3> QED
      BY <3>1, <3>2, <3>3
  <2> QED
    BY <2>1, <2>2 DEF Seen
<1>3. CASE PassBegins
  BY Zenon, <1>3, BeginFacts, SeenKept
<1>4. CASE EnsureCertificate
  BY Zenon, <1>4, EnsureFacts, SeenKept
<1>5. CASE PassAdvances
  BY Zenon, <1>5, AdvanceFacts, SecretFacts, PublishFacts, SeenKept
<1>6. CASE PassFails
  BY Zenon, <1>6, FailureFacts, SeenKept
<1>7. CASE Status \/ StatusFails
  BY Zenon, <1>7, EndFacts, SeenKept
<1>8. CASE UNCHANGED vars
  BY Zenon, <1>8, SeenKept DEF vars
<1> QED
  BY <1>1, <1>2, <1>3, <1>4, <1>5, <1>6, <1>7, <1>8, NextCases

\* Available is true to the Deployment: once both controllers rest, the source object reports whether
\* its Deployment is up, whatever failures delayed it (util.go:169).
THEOREM AvailabilityFollows == Spec => []AvailabilityReported
<1>1. Init => Base /\ Adopted /\ Seen
  <2>1. ASSUME Init
        PROVE  Seen
    <3>1. /\ compiled.exists = FALSE /\ compiled.available = FALSE
          /\ ~dep[Reported].exists
      <4>1. compiled.exists = FALSE /\ compiled.available = FALSE
        BY <2>1 DEF Init, NoCompiled
      <4> QED
        BY <2>1, <4>1, BaseInit, CurrentFacts DEF Base, Structure
    <3> QED
      BY Zenon, <3>1 DEF Seen
  <2>2. Init => Adopted
    BY Zenon DEF Init, Adopted
  <2> QED
    BY <2>1, <2>2, BaseInit
<1>2. Base /\ Adopted /\ Seen /\ [Next]_vars => (Base /\ Adopted /\ Seen)'
  BY BaseStep, AdoptedStep, SeenStep
<1>3. Adopted /\ Seen => AvailabilityReported
  BY DEF Adopted, Seen, AvailabilityReported
<1> QED
  BY <1>1, <1>2, <1>3, PTL DEF Spec

-----------------------------------------------------------------------------
(* The render input follows the source object and its Certificates.        *)

\* Nothing has woken the source controller since its pass began, and nothing is missing or misread.
Quiet == ~qs /\ (kind \in Referring => root) /\ ~misread /\ \A c \in Certs : cert[c].ready

\* The Certificates that the pass has still to look at.
Ahead ==
    IF pc = "certs" THEN CertSet(pass.todo) \cup CertSet(Proxy)
    ELSE IF pc = "proxyCerts" THEN CertSet(pass.todo)
    ELSE IF pc \in {"publish", "status"} THEN {}
    ELSE CertSet(Proxy)

\* The Compiled* object carries the current spec and revisions.
Published ==
    /\ compiled.exists /\ compiled.gen = src.gen
    /\ \A c \in Certs : compiled.revs[c] = cert[c].rev

\* As long as it is quiet, a pass without an error has read the current spec, has brought the
\* Certificates behind it up to date and captured their revisions, and ends with the input published.
Collecting ==
    Quiet /\ pc # "idle" /\ ~pass.err =>
        /\ pass.gen = src.gen /\ pass.ready /\ pass.valid
        /\ \A c \in Certs \ Ahead : cert[c].gen = src.gen /\ pass.revs[c] = cert[c].rev
        /\ pc = "status" => Published

InputInv == Collecting /\ InputCurrent

\* Steps of others change what it is about only when they wake the source controller.
LEMMA InputKept ==
    ASSUME InputInv, UNCHANGED <<kind, pc, pass>>,
           qs' \/ (UNCHANGED <<src, root, misread, cert, compiled>> /\ (qs' = qs \/ ~qs))
    PROVE  InputInv'
<1>1. CASE qs'
  BY <1>1 DEF InputInv, Collecting, InputCurrent, Quiet, SourceSettled
<1>2. CASE UNCHANGED <<src, root, misread, cert, compiled>> /\ (qs' = qs \/ ~qs) /\ ~qs'
  <2>1. Certs' = Certs /\ Proxy' = Proxy
    BY KindDecides
  <2>2. Ahead' = Ahead
    BY Zenon, <2>1 DEF Ahead
  <2>3. ~qs
    BY Zenon, <1>2
  <2>4. Published' = Published
    BY Zenon, <1>2, <2>1 DEF Published
  <2>5. Quiet' => Quiet
    BY Zenon, <1>2, <2>1, <2>3 DEF Quiet
  <2>6. Collecting'
    BY Zenon, <1>2, <2>1, <2>2, <2>4, <2>5 DEF InputInv, Collecting
  <2>7. InputCurrent'
    BY Zenon, <1>2, <2>1, <2>3 DEF InputInv, InputCurrent, SourceSettled
  <2> QED
    BY <2>6, <2>7 DEF InputInv
<1> QED
  BY <1>1, <1>2

\* A pass begins with all Certificates ahead.
LEMMA InputBegin ==
    ASSUME Base, PassBegins
    PROVE  InputInv'
<1>1. pc' # "idle" /\ pass'.gen = src'.gen /\ pass'.ready = TRUE /\ pass'.valid = TRUE
  BY BeginFacts
<1>2. Certs' = Certs /\ Proxy' = Proxy /\ Own' = Own
  BY BeginFacts, KindDecides
<1>3. ASSUME Quiet', ~pass'.err
      PROVE  Certs' \ Ahead' = {} /\ pc' # "status"
  <2>1. (kind \in Referring => root) /\ ~misread'
    BY <1>3, BeginFacts DEF Quiet
  <2>2. kind \in Known /\ pc' = IF kind = "FrontProxy" THEN "lookup" ELSE "certs"
    BY <1>3, <2>1, BeginFacts, StageFacts, KindAssumption DEF Base, Types
  <2>3. pass'.todo = Enter(pc')
    BY BeginFacts
  <2>4. CASE kind = "FrontProxy"
    <3>1. pc' = "lookup" /\ Own = <<>>
      BY <2>2, <2>4 DEF Own
    <3>2. Ahead' = CertSet(Proxy) /\ Certs = CertSet(Proxy)
      BY <1>2, <3>1, CertSetEmpty DEF Ahead, Certs
    <3> QED
      BY <1>2, <3>1, <3>2
  <2>5. CASE kind # "FrontProxy"
    <3>1. pc' = "certs" /\ pass'.todo = Own
      BY <2>2, <2>3, <2>5 DEF Enter
    <3>2. Ahead' = CertSet(Own) \cup CertSet(Proxy)
      BY Zenon, <1>2, <3>1 DEF Ahead
    <3> QED
      BY <1>2, <3>1, <3>2 DEF Certs
  <2> QED
    BY <2>4, <2>5
<1> QED
  BY <1>1, <1>3 DEF InputInv, Collecting, InputCurrent, SourceSettled

\* A Certificate that it has not to change is behind the pass.
LEMMA InputEnsure ==
    ASSUME Base, InputInv, EnsureCertificate
    PROVE  InputInv'
<1>1. /\ UNCHANGED <<kind, src, root, misread, compiled, pc>> /\ pc \in {"certs", "proxyCerts"}
      /\ Certs' = Certs /\ Proxy' = Proxy
  BY EnsureFacts, KindDecides
<1>2. CASE qs'
  BY <1>1, <1>2 DEF InputInv, Collecting, InputCurrent, Quiet, SourceSettled
<1>3. CASE ~qs'
  <2>1. /\ ~qs /\ UNCHANGED cert /\ cert[NextCert].gen = pass.gen /\ NextCert \in Certs
        /\ cert[NextCert].exists
    BY <1>3, EnsureFacts
  <2>2. SUFFICES ASSUME Quiet', ~pass'.err
                 PROVE  /\ pass'.gen = src'.gen /\ pass'.ready /\ pass'.valid
                        /\ \A c \in Certs' \ Ahead' :
                              cert'[c].gen = src'.gen /\ pass'.revs[c] = cert'[c].rev
    BY <1>1 DEF InputInv, Collecting, InputCurrent, SourceSettled
  <2>3. Quiet
    BY Zenon, <1>1, <2>1, <2>2 DEF Quiet
  <2>4. pass'.gen = pass.gen /\ pass'.valid = pass.valid /\ pass'.err = pass.err
    BY EnsureFacts
  <2>5. /\ pass.gen = src.gen /\ pass.ready /\ pass.valid
        /\ \A c \in Certs \ Ahead : cert[c].gen = src.gen /\ pass.revs[c] = cert[c].rev
    BY <1>1, <2>2, <2>3, <2>4 DEF InputInv, Collecting
  <2>6. pass'.ready
    BY <2>1, <2>3, <2>5, EnsureFacts DEF Quiet
  <2>7. Ahead \subseteq {NextCert} \cup Ahead'
    <3>1. CertSet(pass.todo) \subseteq {NextCert} \cup CertSet(pass'.todo)
      BY EnsureFacts
    <3> QED
      BY <1>1, <3>1 DEF Ahead
  <2>8. ASSUME NEW c \in Certs \ Ahead'
        PROVE  cert[c].gen = src.gen /\ pass'.revs[c] = cert[c].rev
    <3>1. CASE c = NextCert
      BY <2>1, <2>5, <3>1, EnsureFacts
    <3>2. CASE c # NextCert
      <4>1. c \in AllCerts \ {NextCert} /\ c \in Certs \ Ahead
        BY <2>7, <2>8, <3>2, CertsAre
      <4>2. pass'.revs[c] = pass.revs[c]
        BY <4>1, EnsureFacts
      <4> QED
        BY <2>5, <4>1, <4>2
    <3> QED
      BY <3>1, <3>2
  <2> QED
    BY Zenon, <1>1, <2>1, <2>4, <2>5, <2>6, <2>8
<1> QED
  BY <1>2, <1>3

\* Going on leaves no Certificate behind that has not been looked at: past the loops none is ahead.
LEMMA AheadKept ==
    ASSUME Base, PassAdvances
    PROVE  Ahead \subseteq Ahead' /\ (pc' = "status" => pc = "publish")
<1>1. /\ pc \in StagesOf /\ pc # "status" /\ pc' = After(pc) /\ pass'.todo = Enter(pc')
      /\ Proxy' = Proxy
  BY AdvanceFacts, KindDecides
<1>2. kind \in Known
  BY KindAssumption DEF Base, Types
<1>3. /\ pc' = "status" => pc = "publish"
      /\ pc' = "publish" /\ kind \in Proxied => pc = "proxyCerts"
  BY <1>1, <1>2, AfterFacts
<1>4. pc \in {"certs", "proxyCerts"} => CertSet(pass.todo) = {}
  <2>1. pc \in {"certs", "proxyCerts"} => pass.todo = <<>>
    BY DEF PassAdvances, CertificatesDone, EnsureOthers, SkipBundle, EnsureBundle,
       EnsureProxyCAs, Lookup, Publish
  <2> QED
    BY <2>1, CertSetEmpty
<1>5. kind \notin Proxied => CertSet(Proxy) = {}
  BY CertSetEmpty DEF Proxy
<1>6. CASE pc \in {"proxyCerts", "publish"}
  <2>1. Ahead = {}
    BY <1>4, <1>6 DEF Ahead
  <2> QED
    BY <1>3, <2>1
<1>7. CASE pc \notin {"proxyCerts", "publish"}
  <2>1. Ahead = CertSet(Proxy)
    BY <1>1, <1>4, <1>7 DEF Ahead
  <2>2. CASE pc' \in {"publish", "status"}
    BY <1>3, <1>5, <1>7, <2>1, <2>2
  <2>3. CASE pc' = "proxyCerts"
    <3>1. pass'.todo = Proxy
      BY <1>1, <2>3 DEF Enter
    <3>2. Ahead' = CertSet(Proxy)
      BY Zenon, <2>3, <3>1 DEF Ahead
    <3> QED
      BY <1>3, <2>1, <3>2
  <2>4. CASE pc' \notin {"publish", "status", "proxyCerts"}
    <3>1. Ahead' = CertSet(pass'.todo) \cup CertSet(Proxy) \/ Ahead' = CertSet(Proxy)
      BY Zenon, <1>1, <2>4 DEF Ahead
    <3> QED
      BY <1>3, <2>1, <3>1
  <2> QED
    BY <2>2, <2>3, <2>4
<1> QED
  BY <1>3, <1>6, <1>7

\* What it has collected stays true as it goes on, and is published before the status.
LEMMA InputAdvance ==
    ASSUME Base, InputInv, PassAdvances
    PROVE  InputInv'
<1>1. /\ UNCHANGED <<kind, src, root, misread, cert>> /\ pc # "idle" /\ pc' # "idle"
      /\ pass'.gen = pass.gen /\ pass'.ready = pass.ready /\ pass'.revs = pass.revs
      /\ pass'.valid = pass.valid /\ pass'.err = pass.err
      /\ Certs' = Certs
  BY AdvanceFacts, KindDecides, StageFacts, KindAssumption DEF Base, Types
<1>2. CASE qs'
  BY <1>1, <1>2 DEF InputInv, Collecting, InputCurrent, Quiet, SourceSettled
<1>3. CASE ~qs'
  <2>1. ~qs
    BY <1>3, SecretFacts
  <2>2. SUFFICES ASSUME Quiet', ~pass'.err
                 PROVE  /\ pass'.gen = src'.gen /\ pass'.ready /\ pass'.valid
                        /\ \A c \in Certs' \ Ahead' :
                              cert'[c].gen = src'.gen /\ pass'.revs[c] = cert'[c].rev
                        /\ pc' = "status" => Published'
    BY <1>1 DEF InputInv, Collecting, InputCurrent, SourceSettled
  <2>3. Quiet
    BY Zenon, <1>1, <2>1, <2>2 DEF Quiet
  <2>4. /\ pass.gen = src.gen /\ pass.ready /\ pass.valid
        /\ \A c \in Certs \ Ahead : cert[c].gen = src.gen /\ pass.revs[c] = cert[c].rev
    BY Zenon, <1>1, <2>2, <2>3 DEF InputInv, Collecting
  <2>5. \A c \in Certs \ Ahead' : cert[c].gen = src.gen /\ pass.revs[c] = cert[c].rev
    BY <2>4, AheadKept
  <2>6. ASSUME pc' = "status"
        PROVE  Published'
    <3>1. pc = "publish"
      BY <2>6, AheadKept
    <3>2. compiled'.exists /\ compiled'.gen = pass.gen /\ compiled'.revs = pass.revs
      BY <2>4, <3>1, PublishFacts
    <3>3. Ahead = {}
      BY <3>1 DEF Ahead
    <3>4. \A c \in Certs : pass.revs[c] = cert[c].rev
      BY <2>4, <3>3
    <3> QED
      BY Zenon, <1>1, <2>4, <3>2, <3>4 DEF Published
  <2> QED
    BY Zenon, <1>1, <2>4, <2>5, <2>6
<1> QED
  BY <1>2, <1>3

\* A pass that ends without waking the controller has published the current input.
LEMMA InputEnd ==
    ASSUME Base, InputInv, Status \/ StatusFails
    PROVE  InputInv'
<1>1. /\ UNCHANGED <<kind, root, misread, cert, compiled>> /\ pc = "status" /\ pc' = "idle"
      /\ src'.gen = src.gen /\ Certs' = Certs
  BY EndFacts, KindDecides
<1>2. qs' \/ (~qs /\ ~pass.err)
  BY Zenon, EndFacts
<1>3. Collecting'
  BY <1>1 DEF Collecting
<1>4. ASSUME SourceSettled'
      PROVE  /\ compiled'.exists /\ compiled'.gen = src'.gen
             /\ \A c \in Certs' : cert'[c].gen = src'.gen /\ compiled'.revs[c] = cert'[c].rev
  <2>1. ~qs /\ ~pass.err
    BY <1>2, <1>4 DEF SourceSettled
  <2>2. Quiet
    BY Zenon, <1>1, <1>4, <2>1 DEF SourceSettled, Quiet
  <2>3. Ahead = {}
    BY <1>1 DEF Ahead
  <2>4. Published /\ \A c \in Certs : cert[c].gen = src.gen
    BY <1>1, <2>1, <2>2, <2>3 DEF InputInv, Collecting
  <2> QED
    BY Zenon, <1>1, <2>4 DEF Published
<1> QED
  BY <1>3, <1>4 DEF InputInv, InputCurrent

\* Every step keeps the render input current, or leaves a request for it.
LEMMA InputStep ==
    ASSUME Base, InputInv, [Next]_vars
    PROVE  InputInv'
<1>1. CASE Users \/ CertManager
  BY Zenon, <1>1, OutsideFacts, InputKept
<1>2. CASE CompiledSide
  BY Zenon, <1>2, CompiledLeaves, InputKept
<1>3. CASE PassBegins
  BY <1>3, InputBegin
<1>4. CASE EnsureCertificate
  BY <1>4, InputEnsure
<1>5. CASE PassAdvances
  BY <1>5, InputAdvance
<1>6. CASE PassFails
  BY <1>6, FailureFacts DEF InputInv, Collecting, InputCurrent, SourceSettled
<1>7. CASE Status \/ StatusFails
  BY <1>7, InputEnd
<1>8. CASE UNCHANGED vars
  BY Zenon, <1>8, InputKept DEF vars
<1> QED
  BY <1>1, <1>2, <1>3, <1>4, <1>5, <1>6, <1>7, <1>8, NextCases

\* No change is lost on the way to the render input: once the source controller has nothing to do,
\* its references exist and were read and its Certificates are ready, the Compiled* object carries
\* the current spec and revisions, whatever the order of edits, renewals and failures (the Owns and Watches of
\* SetupWithManager, and the retries).
THEOREM InputFollows == Spec => []InputCurrent
<1>1. Init => Base /\ InputInv
  <2>1. Init => InputInv
    BY DEF Init, InputInv, Collecting, InputCurrent, SourceSettled
  <2> QED
    BY <2>1, BaseInit
<1>2. Base /\ InputInv /\ [Next]_vars => (Base /\ InputInv)'
  BY BaseStep, InputStep
<1>3. InputInv => InputCurrent
  BY DEF InputInv
<1> QED
  BY <1>1, <1>2, <1>3, PTL DEF Spec

=============================================================================
