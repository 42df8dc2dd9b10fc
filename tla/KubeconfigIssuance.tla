------------------------- MODULE KubeconfigIssuance -------------------------
(***************************************************************************)
(* The kubeconfig controller (pkg/controller/kubeconfig): it resolves the  *)
(* target of a Kubeconfig, requests a client certificate, waits for it and *)
(* for the server CA, and assembles the Secret users download.             *)
(*                                                                         *)
(* Neither the Certificate nor the Secret gets an owner reference, so the  *)
(* Owns() watches of the controller never fire: a pass is only started by  *)
(* an event on the Kubeconfig or its target, a failed pass, or the five    *)
(* second timer.  cert-manager and the RootShard's CA are external.        *)
(***************************************************************************)
EXTENDS Naturals, FiniteSets

CONSTANTS
    MaxEdits,    \* bound on spec changes by users
    MaxIssues,   \* bound on issuances that nothing but a renewal asks for
    MaxFaults    \* bound on failed calls

ASSUME BoundAssumption == MaxEdits \in Nat /\ MaxIssues \in Nat /\ MaxFaults \in Nat

VARIABLES
    kc,       \* the Kubeconfig in the API server
    there,    \* which of the objects a target can refer to exist
    cert,     \* the client Certificate object
    csec,     \* the client certificate's Secret, written by cert-manager
    ca,       \* issuances of the RootShard's server CA, 0: not ready yet
    out,      \* the Secret named by spec.secretRef
    queued,   \* the work queue holds a request
    timer,    \* a RequeueAfter is pending
    pc,       \* the step the running pass is at
    copy,     \* the Kubeconfig the pass works on
    found,    \* the conditions the pass has collected
    failed,   \* the pass returns an error
    soon,     \* the pass returns RequeueAfter
    got,      \* the client certificate and CA the pass has read
    edits,    \* user edits so far
    faults    \* failures so far

vars == <<kc, there, cert, csec, ca, out, queued, timer, pc, copy, found, failed,
          soon, got, edits, faults>>

-----------------------------------------------------------------------------

\* What each spec.target has to resolve to; a Kubeconfig may also name none.
Chain ==
    [rootShardRef  |-> {"RootShard"},
     shardRef      |-> {"Shard", "RootShard"},
     frontProxyRef |-> {"FrontProxy", "RootShard", "CABundle"},
     none          |-> {"a valid target"}]

Targets == DOMAIN Chain

Objects == {"RootShard", "Shard", "FrontProxy", "CABundle"}

\* The watch that wakes Kubeconfigs looks at the direct target only.
Wakes(object, target) ==
    <<object, target>> \in {<<"RootShard", "rootShardRef">>, <<"Shard", "shardRef">>,
                            <<"FrontProxy", "frontProxyRef">>}

Types == {"ReferenceValid", "Available"}

\* A condition: its status and the generation it was observed at.
Condition(status, gen) == [status |-> status, gen |-> gen]

Conditions == [status : {"", "True", "False"}, gen : 0..MaxEdits]

Unset == Condition("", 0)

Kubeconfigs ==
    [exists : BOOLEAN, deleting : BOOLEAN, gen : 0..MaxEdits, target : Targets,
     conds : [Types -> Conditions], phase : {"", "Provisioning", "Ready", "Failed"}]

\* A certificate's Secret: which generation of the Certificate's spec it was
\* issued for, and the how manieth issuance it is (0: there is no Secret).
Issued == [gen : 0..MaxEdits, rev : 0..(MaxIssues + MaxEdits + 1)]

Nothing == [gen |-> 0, rev |-> 0]

PCs == {"idle", "resolve", "certificate", "clientSecret", "serverCA", "secret", "status"}

-----------------------------------------------------------------------------
(* Users, cert-manager and the rest of the cluster.                        *)

Controller == <<timer, pc, copy, found, failed, soon, got>>

\* Any field of the spec changes: target, user, groups or validity.
Edit ==
    /\ kc.exists /\ ~kc.deleting
    /\ edits < MaxEdits
    /\ \E t \in Targets : kc' = [kc EXCEPT !.target = t, !.gen = @ + 1]
    /\ edits' = edits + 1
    /\ queued' = TRUE
    /\ UNCHANGED <<there, cert, csec, ca, out, faults, Controller>>

\* Deletion first sets the timestamp; the object goes once no finalizer is left.
Delete ==
    /\ kc.exists
    /\ kc' = IF kc.deleting THEN [kc EXCEPT !.exists = FALSE] ELSE [kc EXCEPT !.deleting = TRUE]
    /\ queued' = TRUE
    /\ UNCHANGED <<there, cert, csec, ca, out, edits, faults, Controller>>

\* An object a target can refer to is created.
Appear ==
    /\ \E o \in Objects \ there :
         /\ there' = there \cup {o}
         /\ queued' = (queued \/ (kc.exists /\ Wakes(o, kc.target)))
    /\ UNCHANGED <<kc, cert, csec, ca, out, edits, faults, Controller>>

\* cert-manager notices that the Secret is not what the Certificate asks for.
CertOutdated ==
    /\ cert.exists /\ cert.ready /\ csec.gen # cert.gen
    /\ cert' = [cert EXCEPT !.ready = FALSE]
    /\ UNCHANGED <<kc, there, csec, ca, out, queued, edits, faults, Controller>>

\* cert-manager issues or renews: it stores the Secret ...
CertIssue ==
    /\ cert.exists /\ "RootShard" \in there
    /\ csec.rev = 0 \/ csec.gen # cert.gen \/ csec.rev < MaxIssues
    /\ csec' = [gen |-> cert.gen, rev |-> csec.rev + 1]
    /\ UNCHANGED <<kc, there, cert, ca, out, queued, edits, faults, Controller>>

\* ... and reports the Certificate ready.
CertReady ==
    /\ cert.exists /\ ~cert.ready
    /\ csec.rev > 0 /\ csec.gen = cert.gen
    /\ cert' = [cert EXCEPT !.ready = TRUE]
    /\ UNCHANGED <<kc, there, csec, ca, out, queued, edits, faults, Controller>>

CAIssue ==
    /\ "RootShard" \in there /\ ca = 0
    /\ ca' = 1
    /\ UNCHANGED <<kc, there, cert, csec, out, queued, edits, faults, Controller>>

-----------------------------------------------------------------------------
(* One pass of Reconcile.                                                  *)

World == <<there, ca, csec, edits>>

\* The Kubeconfig is gone or going: nothing is done.
Skip ==
    /\ pc = "idle" /\ queued
    /\ ~kc.exists \/ kc.deleting
    /\ queued' = FALSE
    /\ UNCHANGED <<kc, cert, out, timer, pc, copy, found, failed, soon, got, faults, World>>

Begin ==
    /\ pc = "idle" /\ queued
    /\ kc.exists /\ ~kc.deleting
    /\ queued' = FALSE
    /\ copy' = kc
    /\ pc' = "resolve"
    /\ UNCHANGED <<kc, cert, out, timer, found, failed, soon, got, faults, World>>

\* The pass ends early with one more condition and returns err or RequeueAfter.
GiveUp(type, err, again) ==
    /\ found' = found \cup {<<type, Condition("False", copy.gen)>>}
    /\ failed' = err /\ soon' = again
    /\ pc' = "status"
    /\ UNCHANGED <<kc, cert, out, queued, timer, copy, got, World>>

ResolveTarget ==
    /\ pc = "resolve"
    /\ Chain[copy.target] \subseteq there
    /\ found' = {<<"ReferenceValid", Condition("True", copy.gen)>>}
    /\ pc' = "certificate"
    /\ UNCHANGED <<kc, cert, out, queued, timer, copy, failed, soon, got, faults, World>>

\* Defect: an unresolved target is not an error.
TargetNotFoundIgnored ==
    /\ pc = "resolve"
    /\ ~(Chain[copy.target] \subseteq there)
    /\ GiveUp("ReferenceValid", FALSE, FALSE)
    /\ UNCHANGED faults

TargetNotFound ==
    /\ pc = "resolve"
    /\ ~(Chain[copy.target] \subseteq there)
    /\ GiveUp("ReferenceValid", TRUE, FALSE)
    /\ UNCHANGED faults

\* ReconcileCertificates creates the Certificate or brings it up to date.
EnsureCertificate ==
    /\ pc = "certificate"
    /\ cert' = [cert EXCEPT !.exists = TRUE, !.gen = copy.gen]
    /\ pc' = "clientSecret"
    /\ UNCHANGED <<kc, out, queued, timer, copy, found, failed, soon, got, faults, World>>

\* Defect: no RequeueAfter while cert-manager is at work.
ClientSecretNotAwaited ==
    /\ pc = "clientSecret"
    /\ ~cert.ready
    /\ GiveUp("Available", FALSE, FALSE)
    /\ UNCHANGED faults

ClientSecretNotReady ==
    /\ pc = "clientSecret"
    /\ ~cert.ready
    /\ GiveUp("Available", FALSE, TRUE)
    /\ UNCHANGED faults

GetClientSecret ==
    /\ pc = "clientSecret"
    /\ cert.ready
    /\ got' = [got EXCEPT !.cert = csec]
    /\ pc' = "serverCA"
    /\ UNCHANGED <<kc, cert, out, queued, timer, copy, found, failed, soon, faults, World>>

ServerCANotReady ==
    /\ pc = "serverCA"
    /\ ca = 0
    /\ GiveUp("Available", FALSE, TRUE)
    /\ UNCHANGED faults

GetServerCA ==
    /\ pc = "serverCA"
    /\ ca > 0
    /\ got' = [got EXCEPT !.ca = ca]
    /\ pc' = "secret"
    /\ UNCHANGED <<kc, cert, out, queued, timer, copy, found, failed, soon, faults, World>>

\* Defect: an existing Secret is not brought up to date.
WriteSecretOnce ==
    /\ pc = "secret"
    /\ out' = IF out.exists THEN out
              ELSE [exists |-> TRUE, gen |-> copy.gen, target |-> copy.target, cert |-> got.cert]
    /\ found' = found \cup {<<"Available", Condition("True", copy.gen)>>}
    /\ pc' = "status"
    /\ UNCHANGED <<kc, cert, queued, timer, copy, failed, soon, got, faults, World>>

\* The Secret is assembled from what the pass has read.
WriteSecret ==
    /\ pc = "secret"
    /\ out' = [exists |-> TRUE, gen |-> copy.gen, target |-> copy.target, cert |-> got.cert]
    /\ found' = found \cup {<<"Available", Condition("True", copy.gen)>>}
    /\ pc' = "status"
    /\ UNCHANGED <<kc, cert, queued, timer, copy, failed, soon, got, faults, World>>

\* Reading an object of the chain fails: it is reported like a missing one.
TargetError ==
    /\ pc = "resolve"
    /\ Chain[copy.target] \subseteq there
    /\ faults < MaxFaults
    /\ faults' = faults + 1
    /\ GiveUp("ReferenceValid", TRUE, FALSE)

\* Reading the Certificate fails: getCertificateSecret takes every error for a
\* Certificate that does not exist yet, so the pass is repeated by the timer.
CertificateError ==
    /\ pc \in {"clientSecret", "serverCA"}
    /\ faults < MaxFaults
    /\ faults' = faults + 1
    /\ GiveUp("Available", FALSE, TRUE)

\* Reading a Secret fails: that is reported, and the pass returns an error.
SecretError ==
    /\ pc \in {"clientSecret", "serverCA"}
    /\ faults < MaxFaults
    /\ faults' = faults + 1
    /\ GiveUp("Available", TRUE, FALSE)

\* A write fails: the pass reports what it has and returns an error.
WriteFails ==
    /\ pc \in {"certificate", "secret"}
    /\ faults < MaxFaults
    /\ faults' = faults + 1
    /\ failed' = TRUE
    /\ pc' = "status"
    /\ UNCHANGED <<kc, cert, out, queued, timer, copy, found, soon, got, World>>

\* UpdateCondition: a condition is replaced when its status or generation moved.
UpdateCondition(conds) ==
    [t \in Types |->
        IF \E c \in found : c[1] = t THEN (CHOOSE c \in found : c[1] = t)[2] ELSE conds[t]]

Phase(conds) ==
    CASE conds["ReferenceValid"].status = "True" -> "Ready"
      [] conds["ReferenceValid"].status = "False" -> "Failed"
      [] OTHER -> "Provisioning"

\* The status the pass leaves on its copy.
NewStatus ==
    LET conds == UpdateCondition(copy.conds)
    IN  [copy EXCEPT !.conds = conds, !.phase = Phase(conds)]

\* The locals of a pass do not outlive it.
NoLocals ==
    /\ copy' = kc'
    /\ found' = {} /\ failed' = FALSE /\ soon' = FALSE
    /\ got' = [cert |-> Nothing, ca |-> 0]

\* After the status has been dealt with the pass returns: an error is retried,
\* RequeueAfter starts the timer, and a changed status is an event of its own.
Return(err, event) ==
    /\ queued' = (queued \/ err \/ event)
    /\ timer' = (timer \/ soon)
    /\ pc' = "idle"
    /\ NoLocals
    /\ UNCHANGED <<cert, out, World>>

ReconcileStatus ==
    /\ pc = "status"
    /\ kc.exists \/ NewStatus = copy
    /\ kc' = IF NewStatus = copy THEN kc
             ELSE [kc EXCEPT !.conds = NewStatus.conds, !.phase = NewStatus.phase]
    /\ Return(failed, kc' # kc)
    /\ UNCHANGED faults

\* The patch fails because the object is gone; with RequeueAfter that is ignored.
StatusNotFound ==
    /\ pc = "status"
    /\ ~kc.exists /\ NewStatus # copy
    /\ UNCHANGED <<kc, faults>>
    /\ Return(~soon, FALSE)

StatusFails ==
    /\ pc = "status"
    /\ NewStatus # copy
    /\ faults < MaxFaults
    /\ faults' = faults + 1
    /\ UNCHANGED kc
    /\ Return(~soon, FALSE)

TimerFires ==
    /\ timer
    /\ timer' = FALSE
    /\ queued' = TRUE
    /\ UNCHANGED <<kc, cert, out, pc, copy, found, failed, soon, got, faults, World>>

-----------------------------------------------------------------------------

NewKubeconfig(target) ==
    [exists |-> TRUE, deleting |-> FALSE, gen |-> 0, target |-> target,
     conds |-> [t \in Types |-> Unset], phase |-> ""]

Init ==
    /\ \E t \in Targets : kc = NewKubeconfig(t)
    /\ there = {}
    /\ cert = [exists |-> FALSE, ready |-> FALSE, gen |-> 0]
    /\ csec = Nothing
    /\ ca = 0
    /\ out = [exists |-> FALSE, gen |-> 0, target |-> "none", cert |-> Nothing]
    /\ queued = TRUE /\ timer = FALSE
    /\ pc = "idle"
    /\ copy = kc
    /\ found = {} /\ failed = FALSE /\ soon = FALSE
    /\ got = [cert |-> Nothing, ca |-> 0]
    /\ edits = 0 /\ faults = 0

Worker ==
    \/ Skip \/ Begin \/ ResolveTarget \/ TargetNotFound \/ EnsureCertificate
    \/ ClientSecretNotReady \/ GetClientSecret \/ ServerCANotReady \/ GetServerCA
    \/ WriteSecret \/ ReconcileStatus \/ StatusNotFound

Fault == TargetError \/ CertificateError \/ SecretError \/ WriteFails \/ StatusFails

CertManager == CertOutdated \/ CertIssue \/ CertReady \/ CAIssue

Next == Edit \/ Delete \/ Appear \/ CertManager \/ Worker \/ Fault \/ TimerFires

Spec == Init /\ [][Next]_vars

\* The worker, the timer and cert-manager keep running.
FairSpec ==
    /\ Spec
    /\ WF_vars(Worker) /\ WF_vars(TimerFires)
    /\ WF_vars(CertOutdated \/ CertIssue \/ CertReady) /\ WF_vars(CAIssue)

-----------------------------------------------------------------------------
(* Properties.                                                             *)

\* Every variable keeps its type, and a Secret is never assembled from a
\* certificate or CA that was not issued yet (controller.go:362-391).
TypeOK ==
    /\ kc \in Kubeconfigs /\ copy \in Kubeconfigs
    /\ there \in SUBSET Objects
    /\ cert \in [exists : BOOLEAN, ready : BOOLEAN, gen : 0..MaxEdits]
    /\ csec \in Issued
    /\ ca \in 0..1
    /\ out \in [exists : BOOLEAN, gen : 0..MaxEdits, target : Targets, cert : Issued]
    /\ queued \in BOOLEAN /\ timer \in BOOLEAN /\ failed \in BOOLEAN /\ soon \in BOOLEAN
    /\ pc \in PCs
    /\ found \in SUBSET (Types \X Conditions)
    /\ got \in [cert : Issued, ca : 0..1]
    /\ pc = "secret" => got.cert.rev > 0 /\ got.ca > 0
    /\ edits \in 0..MaxEdits /\ faults \in 0..MaxFaults

\* controller.go:326-331: Available is only reported for a generation once the
\* Secret was assembled for that generation and its target.
AvailableIsCurrent ==
    LET available == kc.conds["Available"]
    IN  available.status = "True" /\ available.gen = kc.gen =>
            out.exists /\ out.gen = kc.gen /\ out.target = kc.target

\* Nothing but users, renewals or new objects can start another pass.
Quiescent == pc = "idle" /\ ~queued /\ ~timer

\* A Kubeconfig whose target exists is served: no pass ends without another one
\* coming (controller.go:113-125, the retries) until the Secret was written.
NeverForgotten ==
    Quiescent /\ kc.exists /\ ~kc.deleting => kc.conds["Available"] = Condition("True", kc.gen)

\* Once the target and the server CA exist and users leave it alone, the
\* Kubeconfig becomes Available for its last generation.
BecomesAvailable ==
    <>[](kc.exists /\ ~kc.deleting /\ Chain[kc.target] \subseteq there
         => kc.conds["Available"] = Condition("True", kc.gen))

\* docs/content/architecture/kubeconfig.md:45: "the operator will automatically
\* renew the certificate, after which the Secret will be renewed".
SecretRenewed ==
    Quiescent /\ kc.exists /\ ~kc.deleting /\ out.exists /\ cert.ready => out.cert = csec

=============================================================================
