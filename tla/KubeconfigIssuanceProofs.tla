---------------------- MODULE KubeconfigIssuanceProofs ----------------------
(***************************************************************************)
(* The kubeconfig controller works on a copy of the Kubeconfig that it     *)
(* read at the start of a pass, while users edit and delete the object,    *)
(* cert-manager renews, and calls fail.  Still Available speaks about the  *)
(* generation it names, and no Kubeconfig is left without a pass to come.  *)
(***************************************************************************)
EXTENDS KubeconfigIssuance, TLAPS

\* Generations only grow, and everyone who copies one is behind the Kubeconfig: the running pass,
\* then the Certificate, then the Secret that was issued for it.
Ordered ==
    /\ kc.gen = edits /\ copy.gen <= kc.gen
    /\ cert.gen <= kc.gen /\ (pc # "idle" => cert.gen <= copy.gen)
    /\ csec.gen <= cert.gen
    /\ csec.rev <= MaxIssues + csec.gen + 1
    /\ cert.ready => csec.rev > 0
    /\ pc = "serverCA" => got.cert.rev > 0

\* Only the pass writes conditions, so its copy has those of the object; a copy that has the
\* object's generation has its target as well.
Snapshot ==
    /\ copy.conds = kc.conds
    /\ copy.gen = kc.gen => copy.target = kc.target
    /\ \A t \in Types : kc.conds[t].gen <= copy.gen

\* The conditions that a pass has collected, at most one of each type.
Valid(status) == <<"ReferenceValid", Condition(status, copy.gen)>>
Available(status) == <<"Available", Condition(status, copy.gen)>>

Collected ==
    /\ pc \in {"idle", "resolve"} => found = {}
    /\ pc \in {"certificate", "clientSecret", "serverCA", "secret"} => found = {Valid("True")}
    /\ pc = "status" => \E s, a \in {"True", "False"} :
                            found \in {{Valid(s)}, {Valid(s), Available(a)}}
    /\ Available("True") \in found =>
            out.exists /\ out.gen = copy.gen /\ out.target = copy.target

\* A pass that a user overtook is followed by another one, and so is a pass that ends without
\* the Secret.
Followed ==
    /\ pc # "idle" => queued \/ copy.gen = kc.gen
    /\ pc = "status" => failed \/ soon \/ Available("True") \in found

IInv ==
    /\ TypeOK /\ Ordered /\ Snapshot /\ Collected /\ Followed
    /\ AvailableIsCurrent /\ NeverForgotten

-----------------------------------------------------------------------------

\* The Kubeconfig with any other generation, target or status is still one.
LEMMA KubeconfigType ==
    ASSUME NEW k \in Kubeconfigs
    PROVE  /\ k.exists \in BOOLEAN /\ k.deleting \in BOOLEAN
           /\ k.gen \in 0..MaxEdits /\ k.target \in Targets
           /\ k.conds \in [Types -> Conditions]
           /\ \A t \in Types : k.conds[t].gen \in 0..MaxEdits
  BY DEF Kubeconfigs, Conditions

\* UpdateCondition takes what the pass has found, and keeps the rest.
LEMMA UpdatedCondition ==
    ASSUME NEW conds, NEW t \in Types,
           \A c, d \in found : c[1] = d[1] => c = d
    PROVE  /\ \A v : <<t, v>> \in found => UpdateCondition(conds)[t] = v
           /\ (\A c \in found : c[1] # t) => UpdateCondition(conds)[t] = conds[t]
<1>1. ASSUME NEW v, <<t, v>> \in found PROVE UpdateCondition(conds)[t] = v
  <2>1. \E c \in found : c[1] = t
    BY <1>1
  <2>2. (CHOOSE c \in found : c[1] = t) \in found /\ (CHOOSE c \in found : c[1] = t)[1] = t
    BY <2>1
  <2>3. (CHOOSE c \in found : c[1] = t) = <<t, v>>
    BY <2>2, <1>1
  <2> QED
    BY <2>1, <2>3 DEF UpdateCondition
<1>2. ASSUME \A c \in found : c[1] # t PROVE UpdateCondition(conds)[t] = conds[t]
  BY <1>2 DEF UpdateCondition
<1> QED
  BY <1>1, <1>2

\* What a pass leaves on its copy.
LEMMA StatusWritten ==
    ASSUME IInv, pc = "status"
    PROVE  /\ NewStatus.conds \in [Types -> Conditions]
           /\ NewStatus.phase \in {"", "Provisioning", "Ready", "Failed"}
           /\ \A t \in Types : \/ NewStatus.conds[t] = kc.conds[t]
                              \/ NewStatus.conds[t].gen = copy.gen
           /\ \/ NewStatus.conds["Available"] = kc.conds["Available"]
              \/ /\ NewStatus.conds["Available"].status = "True"
                 /\ Available("True") \in found
              \/ NewStatus.conds["Available"].status = "False"
           /\ Available("True") \in found =>
                NewStatus.conds["Available"] = Condition("True", copy.gen)
<1>1. PICK s, a \in {"True", "False"} : found \in {{Valid(s)}, {Valid(s), Available(a)}}
  BY DEF IInv, Collected
<1>2. \A c, d \in found : c[1] = d[1] => c = d
  BY <1>1 DEF Valid, Available
<1>3. copy \in Kubeconfigs /\ copy.conds = kc.conds /\ copy.gen \in 0..MaxEdits
  BY KubeconfigType DEF IInv, TypeOK, Snapshot
<1>4. copy.conds \in [Types -> Conditions]
  BY <1>3, KubeconfigType
<1> DEFINE new == UpdateCondition(copy.conds)
<1>5. NewStatus.conds = new /\ NewStatus.phase = Phase(new)
  BY <1>3 DEF NewStatus, Kubeconfigs
<1>6. new["ReferenceValid"] = Condition(s, copy.gen)
  BY <1>1, <1>2, UpdatedCondition DEF Types, Valid
<1>7. Phase(new) \in {"", "Provisioning", "Ready", "Failed"}
  BY DEF Phase
<1>8. \A r \in {"True", "False"} : Condition(r, copy.gen) \in Conditions /\ Condition(r, copy.gen).gen = copy.gen
  BY <1>3 DEF Conditions, Condition
<1>9. CASE found = {Valid(s)}
  <2>1. new["Available"] = copy.conds["Available"]
    BY <1>9, <1>2, UpdatedCondition DEF Types, Valid
  <2>2. Available("True") \notin found
    BY <1>9 DEF Valid, Available
  <2>3. new \in [Types -> Conditions]
    BY <2>1, <1>4, <1>6, <1>8 DEF UpdateCondition, Types
  <2> QED
    BY <2>1, <2>2, <2>3, <1>3, <1>5, <1>6, <1>7, <1>8 DEF Types
<1>10. CASE found = {Valid(s), Available(a)}
  <2>1. new["Available"] = Condition(a, copy.gen)
    BY <1>10, <1>2, UpdatedCondition DEF Types, Available
  <2>2. Available("True") \in found => a = "True"
    BY <1>10 DEF Valid, Available, Condition
  <2>3. new \in [Types -> Conditions]
    BY <2>1, <1>6, <1>8 DEF UpdateCondition, Types
  <2>4. Condition(a, copy.gen).status = a
    BY DEF Condition
  <2>5. new["Available"].status = "True" => Available("True") \in found
    BY <2>1, <2>4, <1>10
  <2> QED
    BY <2>1, <2>2, <2>3, <2>4, <2>5, <1>3, <1>5, <1>6, <1>7, <1>8 DEF Types
<1> QED
  BY <1>1, <1>9, <1>10

-----------------------------------------------------------------------------

\* Users edit and delete, and the objects that targets refer to appear.
LEMMA UserStep ==
    ASSUME IInv, Edit \/ Delete \/ Appear
    PROVE  IInv'
<1> USE DEF IInv
<1>t. kc \in Kubeconfigs /\ copy \in Kubeconfigs
  BY DEF TypeOK
<1>k. /\ kc.gen \in 0..MaxEdits /\ copy.gen \in 0..MaxEdits
      /\ \A t \in Types : kc.conds[t].gen \in 0..MaxEdits
  BY <1>t, KubeconfigType
<1>1. CASE Edit
  <2>1. PICK t \in Targets : kc' = [kc EXCEPT !.target = t, !.gen = @ + 1]
    BY <1>1 DEF Edit
  <2>2. /\ kc.exists /\ edits < MaxEdits /\ edits' = edits + 1 /\ queued'
        /\ UNCHANGED <<there, cert, csec, ca, out, faults, timer, pc, copy, found, failed, soon, got>>
    BY <1>1 DEF Edit, Controller
  <2>0. kc.gen + 1 \in 0..MaxEdits
    BY <2>2, <1>k, BoundAssumption DEF Ordered
  <2>3. /\ kc'.gen = kc.gen + 1 /\ kc'.conds = kc.conds /\ kc'.target = t
        /\ kc' \in Kubeconfigs
    BY <2>0, <2>1, <1>t DEF Kubeconfigs
  <2>4. TypeOK'
    BY <2>2, <2>3, BoundAssumption DEF TypeOK
  <2>5. Ordered'
    BY <2>2, <2>3, <1>k DEF Ordered, TypeOK
  <2>6. Snapshot'
    BY <2>2, <2>3, <1>k DEF Snapshot, Ordered
  <2>7. Collected' /\ Followed'
    BY <2>2 DEF Collected, Followed, Valid, Available
  <2>8. AvailableIsCurrent' /\ NeverForgotten'
    BY <2>2, <2>3, <1>k DEF AvailableIsCurrent, NeverForgotten, Quiescent, Snapshot, Ordered, Types
  <2> QED
    BY <2>4, <2>5, <2>6, <2>7, <2>8
<1>2. CASE Delete
  <2>1. /\ UNCHANGED <<there, cert, csec, ca, out, edits, faults, timer, pc, copy, found, failed, soon, got>>
        /\ queued'
        /\ kc' = IF kc.deleting THEN [kc EXCEPT !.exists = FALSE] ELSE [kc EXCEPT !.deleting = TRUE]
    BY <1>2 DEF Delete, Controller
  <2>2. kc' \in Kubeconfigs /\ kc'.gen = kc.gen /\ kc'.target = kc.target /\ kc'.conds = kc.conds
    BY <2>1, <1>t DEF Kubeconfigs
  <2>3. TypeOK'
    BY <2>1, <2>2 DEF TypeOK
  <2>4. Ordered' /\ Snapshot'
    BY <2>1, <2>2 DEF Ordered, Snapshot
  <2>5. Collected' /\ Followed'
    BY <2>1, <2>2 DEF Collected, Followed, Valid, Available
  <2>6. AvailableIsCurrent' /\ NeverForgotten'
    BY <2>1, <2>2 DEF AvailableIsCurrent, NeverForgotten, Quiescent
  <2> QED
    BY <2>3, <2>4, <2>5, <2>6
<1>3. CASE Appear
  <2>1. /\ UNCHANGED <<kc, cert, csec, ca, out, edits, faults, timer, pc, copy, found, failed, soon, got>>
        /\ there' \in SUBSET Objects /\ queued' \in BOOLEAN /\ (queued => queued')
    BY <1>3 DEF Appear, Controller, TypeOK
  <2>2. TypeOK'
    BY <2>1 DEF TypeOK
  <2>3. Ordered' /\ Snapshot'
    BY <2>1 DEF Ordered, Snapshot
  <2>4. Collected' /\ Followed'
    BY <2>1 DEF Collected, Followed, Valid, Available
  <2>5. AvailableIsCurrent' /\ NeverForgotten'
    BY <2>1 DEF AvailableIsCurrent, NeverForgotten, Quiescent
  <2> QED
    BY <2>2, <2>3, <2>4, <2>5
<1> QED
  BY <1>1, <1>2, <1>3

\* cert-manager issues, renews and reports.
LEMMA CertManagerStep ==
    ASSUME IInv, CertManager
    PROVE  IInv'
<1> USE DEF IInv
<1>1. /\ UNCHANGED <<kc, there, out, queued, edits, faults, timer, pc, copy, found, failed, soon, got>>
      /\ cert'.gen = cert.gen /\ cert'.exists = cert.exists
      /\ cert' \in [exists : BOOLEAN, ready : BOOLEAN, gen : 0..MaxEdits]
  BY DEF CertManager, CertOutdated, CertIssue, CertReady, CAIssue, Controller, TypeOK
<1>2. /\ cert.gen \in 0..MaxEdits /\ csec.gen \in 0..MaxEdits /\ csec.rev \in Nat
      /\ kc.gen \in 0..MaxEdits
  BY KubeconfigType DEF TypeOK, Issued
<1>3. /\ csec'.gen <= cert'.gen /\ csec'.rev <= MaxIssues + csec'.gen + 1
      /\ cert'.ready => csec'.rev > 0
      /\ csec'.gen \in 0..MaxEdits /\ csec'.rev \in Nat /\ csec' \in [gen : 0..MaxEdits, rev : Nat]
  <2>1. CASE CertIssue
    <3>1. csec' = [gen |-> cert.gen, rev |-> csec.rev + 1] /\ cert' = cert
          /\ (csec.rev = 0 \/ csec.gen # cert.gen \/ csec.rev < MaxIssues)
      BY <2>1 DEF CertIssue
    <3>2. csec.gen <= cert.gen /\ csec.rev <= MaxIssues + csec.gen + 1
      BY DEF Ordered
    <3> QED
      BY <3>1, <3>2, <1>2, BoundAssumption
  <2>2. CASE ~CertIssue
    <3>1. csec' = csec /\ (cert'.ready => csec.rev > 0)
      BY <2>2 DEF CertManager, CertOutdated, CertReady, CAIssue, Ordered, TypeOK
    <3> QED
      BY <3>1, <1>1, <1>2 DEF Ordered, TypeOK, Issued
  <2> QED
    BY <2>1, <2>2
<1>4. csec' \in Issued
  BY <1>3, <1>2, BoundAssumption DEF Issued
<1>5. ca' \in 0..1
  BY DEF CertManager, CertOutdated, CertIssue, CertReady, CAIssue, TypeOK
<1>6. TypeOK'
  BY <1>1, <1>4, <1>5 DEF TypeOK
<1>7. Ordered' /\ Snapshot'
  BY <1>1, <1>3 DEF Ordered, Snapshot
<1>8. Collected' /\ Followed'
  BY <1>1 DEF Collected, Followed, Valid, Available
<1>9. AvailableIsCurrent' /\ NeverForgotten'
  BY <1>1 DEF AvailableIsCurrent, NeverForgotten, Quiescent
<1> QED
  BY <1>6, <1>7, <1>8, <1>9

\* The pass ends early; it is to be repeated.
LEMMA GivesUp ==
    ASSUME IInv, NEW type \in Types, NEW err \in BOOLEAN, NEW again \in BOOLEAN, err \/ again,
           GiveUp(type, err, again), faults' \in 0..MaxFaults,
           \/ pc = "resolve" /\ type = "ReferenceValid"
           \/ pc \in {"clientSecret", "serverCA"} /\ type = "Available"
    PROVE  IInv'
<1> USE DEF IInv
<1>1. /\ UNCHANGED <<kc, cert, out, queued, timer, copy, got, there, ca, csec, edits>>
      /\ pc' = "status" /\ failed' = err /\ soon' = again
      /\ found' = found \cup {<<type, Condition("False", copy.gen)>>}
  BY DEF GiveUp, World
<1>2. found' \in {{Valid("False")}, {Valid("True"), Available("False")}}
  BY <1>1 DEF Collected, Valid, Available
<1>3. Condition("False", copy.gen) \in Conditions
  BY KubeconfigType DEF TypeOK, Conditions, Condition
<1>4. TypeOK'
  BY <1>1, <1>3 DEF TypeOK, PCs
<1>5. Ordered' /\ Snapshot'
  BY <1>1 DEF Ordered, Snapshot
<1>6. Available("True") \notin found'
  BY <1>2 DEF Available, Valid, Condition
<1>7. Collected'
  BY <1>1, <1>2, <1>6 DEF Collected, Valid, Available
<1>8. Followed'
  BY <1>1 DEF Followed, Collected
<1>9. AvailableIsCurrent' /\ NeverForgotten'
  BY <1>1 DEF AvailableIsCurrent, NeverForgotten, Quiescent
<1> QED
  BY <1>4, <1>5, <1>7, <1>8, <1>9

\* The steps of a pass up to its status.
LEMMA PassStep ==
    ASSUME IInv,
           \/ ResolveTarget \/ TargetNotFound \/ EnsureCertificate \/ ClientSecretNotReady
           \/ GetClientSecret \/ ServerCANotReady \/ GetServerCA \/ WriteSecret
           \/ TargetError \/ CertificateError \/ SecretError \/ WriteFails
    PROVE  IInv'
<1> USE DEF IInv
<1>t. /\ copy.gen \in 0..MaxEdits /\ kc.gen \in 0..MaxEdits /\ copy.target \in Targets
      /\ \A t \in Types : kc.conds[t].gen \in 0..MaxEdits
  BY KubeconfigType DEF TypeOK
<1>c. Condition("True", copy.gen) \in Conditions
  BY <1>t DEF Conditions, Condition
<1>1. CASE TargetNotFound \/ ClientSecretNotReady \/ ServerCANotReady
           \/ TargetError \/ CertificateError \/ SecretError
  <2>0. faults \in 0..MaxFaults /\ MaxFaults \in Nat
    BY BoundAssumption DEF TypeOK
  <2>1. faults' = faults \/ (faults < MaxFaults /\ faults' = faults + 1)
    BY <1>1 DEF TargetNotFound, ClientSecretNotReady, ServerCANotReady,
       TargetError, CertificateError, SecretError
  <2>2. \/ pc = "resolve" /\ GiveUp("ReferenceValid", TRUE, FALSE)
        \/ pc \in {"clientSecret", "serverCA"} /\ GiveUp("Available", FALSE, TRUE)
        \/ pc \in {"clientSecret", "serverCA"} /\ GiveUp("Available", TRUE, FALSE)
    BY <1>1 DEF TargetNotFound, ClientSecretNotReady, ServerCANotReady,
       TargetError, CertificateError, SecretError
  <2>3. faults' \in 0..MaxFaults
    BY <2>0, <2>1
  <2> QED
    BY <2>2, <2>3, GivesUp DEF Types
<1>2. CASE ResolveTarget
  <2>1. /\ UNCHANGED <<kc, cert, out, queued, timer, copy, failed, soon, got, faults, there, ca, csec, edits>>
        /\ pc = "resolve" /\ pc' = "certificate" /\ found' = {Valid("True")}
    BY <1>2 DEF ResolveTarget, World, Valid
  <2>2. TypeOK'
    BY <2>1, <1>c DEF TypeOK, PCs, Valid, Types
  <2>3. Ordered' /\ Snapshot' /\ Followed'
    BY <2>1 DEF Ordered, Snapshot, Followed
  <2>4. Collected'
    BY <2>1 DEF Collected, Valid, Available
  <2>5. AvailableIsCurrent' /\ NeverForgotten'
    BY <2>1 DEF AvailableIsCurrent, NeverForgotten, Quiescent
  <2> QED
    BY <2>2, <2>3, <2>4, <2>5
<1>3. CASE EnsureCertificate
  <2>1. /\ UNCHANGED <<kc, out, queued, timer, copy, found, failed, soon, got, faults, there, ca, csec, edits>>
        /\ pc = "certificate" /\ pc' = "clientSecret"
        /\ cert' = [cert EXCEPT !.exists = TRUE, !.gen = copy.gen]
    BY <1>3 DEF EnsureCertificate, World
  <2>2. /\ cert' \in [exists : BOOLEAN, ready : BOOLEAN, gen : 0..MaxEdits]
        /\ cert'.gen = copy.gen /\ cert'.ready = cert.ready
    BY <2>1, <1>t DEF TypeOK
  <2>3. csec.gen \in 0..MaxEdits /\ cert.gen \in 0..MaxEdits
    BY DEF TypeOK, Issued
  <2>4. TypeOK'
    BY <2>1, <2>2 DEF TypeOK, PCs
  <2>5. Ordered'
    BY <2>1, <2>2, <2>3, <1>t DEF Ordered
  <2>6. Snapshot' /\ Followed'
    BY <2>1 DEF Snapshot, Followed
  <2>7. Collected'
    BY <2>1 DEF Collected, Valid, Available
  <2>8. AvailableIsCurrent' /\ NeverForgotten'
    BY <2>1 DEF AvailableIsCurrent, NeverForgotten, Quiescent
  <2> QED
    BY <2>4, <2>5, <2>6, <2>7, <2>8
<1>4. CASE GetClientSecret \/ GetServerCA
  <2>1. /\ UNCHANGED <<kc, cert, out, queued, timer, copy, found, failed, soon, faults, there, ca, csec, edits>>
        /\ pc \in {"clientSecret", "serverCA"} /\ pc' \in {"serverCA", "secret"}
    BY <1>4 DEF GetClientSecret, GetServerCA, World
  <2>2. /\ got' \in [cert : Issued, ca : 0..1] /\ got'.cert.rev > 0
        /\ pc' = "secret" => got'.ca > 0
    <3>1. CASE GetClientSecret
      <4>1. got' = [got EXCEPT !.cert = csec] /\ cert.ready /\ pc' = "serverCA"
        BY <3>1 DEF GetClientSecret
      <4> QED
        BY <4>1 DEF TypeOK, Ordered
    <3>2. CASE GetServerCA
      <4>1. got' = [got EXCEPT !.ca = ca] /\ ca > 0 /\ pc = "serverCA"
        BY <3>2 DEF GetServerCA
      <4> QED
        BY <4>1 DEF TypeOK, Ordered
    <3> QED
      BY <1>4, <3>1, <3>2
  <2>3. TypeOK'
    BY <2>1, <2>2 DEF TypeOK, PCs
  <2>4. Ordered' /\ Snapshot' /\ Followed'
    BY <2>1, <2>2 DEF Ordered, Snapshot, Followed
  <2>5. Collected'
    BY <2>1 DEF Collected, Valid, Available
  <2>6. AvailableIsCurrent' /\ NeverForgotten'
    BY <2>1 DEF AvailableIsCurrent, NeverForgotten, Quiescent
  <2> QED
    BY <2>3, <2>4, <2>5, <2>6
<1>5. CASE WriteSecret
  <2>1. /\ UNCHANGED <<kc, cert, queued, timer, copy, failed, soon, got, faults, there, ca, csec, edits>>
        /\ pc = "secret" /\ pc' = "status" /\ found' = found \cup {Available("True")}
        /\ out' = [exists |-> TRUE, gen |-> copy.gen, target |-> copy.target, cert |-> got.cert]
    BY <1>5 DEF WriteSecret, World, Available
  <2>2. /\ out' \in [exists : BOOLEAN, gen : 0..MaxEdits, target : Targets, cert : Issued]
        /\ out'.exists /\ out'.gen = copy.gen /\ out'.target = copy.target
    BY <2>1, <1>t DEF TypeOK
  <2>3. TypeOK'
    BY <2>1, <2>2, <1>c DEF TypeOK, PCs, Available, Types
  <2>4. Ordered' /\ Snapshot' /\ Followed'
    BY <2>1 DEF Ordered, Snapshot, Followed, Available
  <2>5. found' = {Valid("True"), Available("True")}
    BY <2>1 DEF Collected
  <2>6. Collected'
    BY <2>1, <2>2, <2>5 DEF Collected, Valid, Available
  <2>7. AvailableIsCurrent'
    <3>1. kc.conds["Available"].gen <= copy.gen /\ copy.gen <= kc.gen
      BY DEF Snapshot, Ordered, Types
    <3>2. kc.conds["Available"].gen = kc.gen => copy.gen = kc.gen /\ copy.target = kc.target
      BY <3>1, <1>t DEF Snapshot, Types
    <3> QED
      BY <3>2, <2>1, <2>2 DEF AvailableIsCurrent
  <2>8. NeverForgotten'
    BY <2>1 DEF NeverForgotten, Quiescent
  <2> QED
    BY <2>3, <2>4, <2>6, <2>7, <2>8
<1>6. CASE WriteFails
  <2>1. /\ UNCHANGED <<kc, cert, out, queued, timer, copy, found, soon, got, there, ca, csec, edits>>
        /\ pc \in {"certificate", "secret"} /\ pc' = "status" /\ failed' = TRUE
        /\ faults' \in 0..MaxFaults
    BY <1>6, BoundAssumption DEF WriteFails, World, TypeOK
  <2>2. TypeOK'
    BY <2>1 DEF TypeOK, PCs
  <2>3. Ordered' /\ Snapshot' /\ Followed'
    BY <2>1 DEF Ordered, Snapshot, Followed
  <2>4. Collected'
    BY <2>1 DEF Collected, Valid, Available
  <2>5. AvailableIsCurrent' /\ NeverForgotten'
    BY <2>1 DEF AvailableIsCurrent, NeverForgotten, Quiescent
  <2> QED
    BY <2>2, <2>3, <2>4, <2>5
<1> QED
  BY <1>1, <1>2, <1>3, <1>4, <1>5, <1>6

\* A pass begins with a fresh copy, or there is nothing to do; the timer puts a request in the queue.
LEMMA BeginStep ==
    ASSUME IInv, Skip \/ Begin \/ TimerFires
    PROVE  IInv'
<1> USE DEF IInv
<1>t. kc \in Kubeconfigs /\ kc.gen \in 0..MaxEdits /\ copy.gen \in 0..MaxEdits
      /\ \A t \in Types : kc.conds[t].gen \in 0..MaxEdits
  BY KubeconfigType DEF TypeOK
<1>1. CASE Skip \/ TimerFires
  <2>1. /\ UNCHANGED <<kc, cert, out, pc, copy, found, failed, soon, got, faults, there, ca, csec, edits>>
        /\ queued' \in BOOLEAN /\ timer' \in BOOLEAN
        /\ queued' \/ (pc = "idle" /\ (~kc.exists \/ kc.deleting))
    BY <1>1 DEF Skip, TimerFires, World, TypeOK
  <2>2. TypeOK'
    BY <2>1 DEF TypeOK
  <2>3. Ordered' /\ Snapshot' /\ Followed'
    BY <2>1 DEF Ordered, Snapshot, Followed, Available
  <2>4. Collected'
    BY <2>1 DEF Collected, Valid, Available
  <2>5. AvailableIsCurrent' /\ NeverForgotten'
    BY <2>1 DEF AvailableIsCurrent, NeverForgotten, Quiescent
  <2> QED
    BY <2>2, <2>3, <2>4, <2>5
<1>2. CASE Begin
  <2>1. /\ UNCHANGED <<kc, cert, out, timer, found, failed, soon, got, faults, there, ca, csec, edits>>
        /\ pc = "idle" /\ pc' = "resolve" /\ copy' = kc /\ queued' = FALSE
    BY <1>2 DEF Begin, World
  <2>2. TypeOK'
    BY <2>1 DEF TypeOK, PCs
  <2>3. Ordered'
    BY <2>1, <1>t DEF Ordered
  <2>4. \A t \in Types : kc.conds[t].gen <= kc.gen
    BY <1>t DEF Snapshot, Ordered
  <2>5. Snapshot' /\ Followed'
    BY <2>1, <2>4 DEF Snapshot, Followed
  <2>6. found = {}
    BY <2>1 DEF Collected
  <2>7. Collected'
    BY <2>1, <2>6 DEF Collected
  <2>8. AvailableIsCurrent' /\ NeverForgotten'
    BY <2>1 DEF AvailableIsCurrent, NeverForgotten, Quiescent
  <2> QED
    BY <2>2, <2>3, <2>5, <2>7, <2>8
<1> QED
  BY <1>1, <1>2

\* The pass returns, with its status patched or not.
LEMMA Returns ==
    ASSUME IInv, pc = "status", NEW err \in BOOLEAN, NEW event \in BOOLEAN, Return(err, event),
           kc' \in Kubeconfigs, faults' \in 0..MaxFaults, kc'.gen = kc.gen, kc'.target = kc.target,
           \A t \in Types : kc'.conds[t].gen <= kc.gen,
           AvailableIsCurrent',
           \/ err \/ event \/ soon \/ queued
           \/ kc'.exists /\ ~kc'.deleting => kc'.conds["Available"] = Condition("True", kc.gen)
    PROVE  IInv'
<1> USE DEF IInv
<1>1. /\ UNCHANGED <<cert, out, there, ca, csec, edits>>
      /\ queued' = (queued \/ err \/ event) /\ timer' = (timer \/ soon) /\ pc' = "idle"
      /\ copy' = kc' /\ found' = {} /\ failed' = FALSE /\ soon' = FALSE
      /\ got' = [cert |-> Nothing, ca |-> 0]
  BY DEF Return, NoLocals, World
<1>2. Nothing \in Issued
  BY BoundAssumption DEF Nothing, Issued
<1>3. queued' \in BOOLEAN /\ timer' \in BOOLEAN /\ failed' \in BOOLEAN /\ soon' \in BOOLEAN
  BY <1>1 DEF TypeOK
<1>4. TypeOK'
  <2>1. got' \in [cert : Issued, ca : 0..1]
    BY <1>1, <1>2
  <2>2. found' \in SUBSET (Types \X Conditions) /\ pc' \in PCs /\ pc' # "secret"
    BY <1>1 DEF PCs
  <2>3. /\ there' \in SUBSET Objects /\ ca' \in 0..1 /\ csec' \in Issued /\ edits' \in 0..MaxEdits
        /\ cert' \in [exists : BOOLEAN, ready : BOOLEAN, gen : 0..MaxEdits]
        /\ out' \in [exists : BOOLEAN, gen : 0..MaxEdits, target : Targets, cert : Issued]
    BY <1>1 DEF TypeOK
  <2>4. copy' \in Kubeconfigs
    BY <1>1
  <2> QED
    BY <1>3, <2>1, <2>2, <2>3, <2>4 DEF TypeOK
<1>5. kc.gen \in 0..MaxEdits
  BY KubeconfigType DEF TypeOK
<1>6. Ordered'
  BY <1>1, <1>5 DEF Ordered
<1>7. Snapshot'
  BY <1>1 DEF Snapshot
<1>8. Collected' /\ Followed'
  BY <1>1 DEF Collected, Followed
<1>9. NeverForgotten'
  BY <1>1, <1>3 DEF NeverForgotten, Quiescent
<1> QED
  BY <1>4, <1>6, <1>7, <1>8, <1>9

\* Reporting a status keeps the conditions within what the Secret and pending requests allow.
LEMMA StatusStep ==
    ASSUME IInv, ReconcileStatus \/ StatusNotFound \/ StatusFails
    PROVE  IInv'
<1> USE DEF IInv
<1>t. /\ kc \in Kubeconfigs /\ kc.gen \in 0..MaxEdits /\ copy.gen \in 0..MaxEdits
      /\ \A t \in Types : kc.conds[t].gen \in 0..MaxEdits
      /\ soon \in BOOLEAN /\ failed \in BOOLEAN /\ faults \in 0..MaxFaults
      /\ copy.gen <= kc.gen /\ copy.conds = kc.conds
  BY KubeconfigType DEF TypeOK, Ordered, Snapshot
<1>g. \A t \in Types : kc.conds[t].gen <= kc.gen
  BY <1>t DEF Snapshot
<1>p. pc = "status"
  BY DEF ReconcileStatus, StatusNotFound, StatusFails
<1>1. CASE StatusNotFound \/ StatusFails
  <2>1. kc' = kc /\ Return(~soon, FALSE)
        /\ (faults' = faults \/ (faults < MaxFaults /\ faults' = faults + 1))
    BY <1>1 DEF StatusNotFound, StatusFails
  <2>2. faults' \in 0..MaxFaults
    BY <2>1, <1>t, BoundAssumption
  <2>3. out' = out
    BY <2>1 DEF Return
  <2>4. AvailableIsCurrent'
    BY <2>1, <2>3 DEF AvailableIsCurrent
  <2>5. (~soon) \in BOOLEAN
    OBVIOUS
  <2> QED
    BY <2>1, <2>2, <2>4, <2>5, <1>t, <1>g, <1>p, Returns
<1>2. CASE ReconcileStatus
  <2>1. /\ kc' = IF NewStatus = copy THEN kc
                 ELSE [kc EXCEPT !.conds = NewStatus.conds, !.phase = NewStatus.phase]
        /\ Return(failed, kc' # kc) /\ faults' = faults
    BY <1>2 DEF ReconcileStatus
  <2>2. /\ NewStatus.conds \in [Types -> Conditions]
        /\ NewStatus.phase \in {"", "Provisioning", "Ready", "Failed"}
    BY <1>p, StatusWritten
  <2>3. kc' \in Kubeconfigs /\ kc'.gen = kc.gen /\ kc'.target = kc.target
        /\ kc'.conds = NewStatus.conds
    <3>1. CASE NewStatus = copy
      BY <3>1, <2>1, <1>t
    <3>2. CASE NewStatus # copy
      BY <3>2, <2>1, <2>2, <1>t DEF Kubeconfigs
    <3> QED
      BY <3>1, <3>2
  <2>4. \A t \in Types : kc'.conds[t].gen <= kc.gen
    <3>1. \A t \in Types : NewStatus.conds[t] = kc.conds[t] \/ NewStatus.conds[t].gen = copy.gen
      BY <1>p, StatusWritten
    <3> QED
      BY <3>1, <2>3, <1>t, <1>g
  <2>5. AvailableIsCurrent'
    <3>1. out' = out
      BY <2>1 DEF Return
    <3>2. CASE NewStatus.conds["Available"] = kc.conds["Available"]
      BY <3>1, <3>2, <2>3 DEF AvailableIsCurrent
    <3>3. CASE NewStatus.conds["Available"].status = "False"
      BY <3>3, <2>3 DEF AvailableIsCurrent
    <3>4. CASE Available("True") \in found
      <4>1. NewStatus.conds["Available"] = Condition("True", copy.gen)
        BY <3>4, <1>p, StatusWritten
      <4>2. kc'.conds["Available"].gen = copy.gen
        BY <4>1, <2>3 DEF Condition
      <4>3. out.exists /\ out.gen = copy.gen /\ out.target = copy.target
        BY <3>4 DEF Collected
      <4> QED
        BY <3>1, <4>2, <4>3, <2>3 DEF AvailableIsCurrent, Snapshot
    <3> QED
      BY <3>2, <3>3, <3>4, <1>p, StatusWritten
  <2>6. \/ failed \/ soon \/ queued
        \/ kc'.conds["Available"] = Condition("True", kc.gen)
    BY <2>3, <1>p, StatusWritten DEF Followed
  <2>7. (kc' # kc) \in BOOLEAN
    OBVIOUS
  <2> QED
    BY <2>1, <2>3, <2>4, <2>5, <2>6, <2>7, <1>t, <1>p, Returns
<1> QED
  BY <1>1, <1>2

-----------------------------------------------------------------------------

\* The invariant holds in every state.
LEMMA InvariantHolds == Spec => []IInv
<1>1. Init => IInv
  <2> SUFFICES ASSUME Init PROVE IInv
    OBVIOUS
  <2>1. PICK t \in Targets : kc = NewKubeconfig(t)
    BY DEF Init
  <2>2. Unset \in Conditions /\ Unset.gen = 0 /\ Unset.status = ""
    BY BoundAssumption DEF Unset, Condition, Conditions
  <2>3. /\ kc \in Kubeconfigs /\ kc.gen = 0 /\ kc.conds = [u \in Types |-> Unset]
    <3>1. 0 \in 0..MaxEdits
      BY BoundAssumption
    <3> QED
      BY <2>1, <2>2, <3>1 DEF NewKubeconfig, Kubeconfigs
  <2>4. Nothing \in Issued /\ Nothing.gen = 0 /\ Nothing.rev = 0
    BY BoundAssumption DEF Nothing, Issued
  <2>5. "none" \in Targets
    BY DEF Targets, Chain
  <2>6. TypeOK
    <3>1. /\ 0 \in 0..MaxEdits /\ 0 \in 0..MaxFaults /\ 0 \in 0..1
      BY BoundAssumption
    <3>2. /\ cert \in [exists : BOOLEAN, ready : BOOLEAN, gen : 0..MaxEdits]
          /\ out \in [exists : BOOLEAN, gen : 0..MaxEdits, target : Targets, cert : Issued]
          /\ got \in [cert : Issued, ca : 0..1]
      BY <2>4, <2>5, <3>1 DEF Init
    <3>3. /\ there \in SUBSET Objects /\ found \in SUBSET (Types \X Conditions) /\ pc \in PCs
          /\ queued \in BOOLEAN /\ timer \in BOOLEAN /\ failed \in BOOLEAN /\ soon \in BOOLEAN
          /\ pc # "secret"
      BY DEF Init, PCs
    <3>4. copy \in Kubeconfigs /\ csec \in Issued /\ ca = 0 /\ edits = 0 /\ faults = 0
      BY <2>3, <2>4 DEF Init
    <3> QED
      BY <2>3, <3>1, <3>2, <3>3, <3>4 DEF TypeOK
  <2>7. Ordered
    BY <2>3, <2>4, BoundAssumption DEF Init, Ordered
  <2>8. Snapshot /\ Collected /\ Followed
    <3>1. copy = kc /\ found = {} /\ pc = "idle"
      BY DEF Init
    <3>2. \A u \in Types : kc.conds[u].gen = 0
      BY <2>2, <2>3
    <3>3. copy.gen = 0 /\ 0 <= 0
      BY <2>3, <3>1
    <3>4. \A u \in Types : kc.conds[u].gen <= copy.gen
      BY <3>2, <3>3
    <3> QED
      BY <3>1, <3>4 DEF Snapshot, Collected, Followed
  <2>9. AvailableIsCurrent /\ NeverForgotten
    BY <2>2, <2>3 DEF Init, AvailableIsCurrent, NeverForgotten, Quiescent, Types
  <2> QED
    BY <2>6, <2>7, <2>8, <2>9 DEF IInv
<1>2. IInv /\ [Next]_vars => IInv'
  <2> SUFFICES ASSUME IInv, [Next]_vars PROVE IInv'
    OBVIOUS
  <2>1. CASE UNCHANGED vars
    <3>1. UNCHANGED <<kc, there, cert, csec, ca, out, queued, timer, pc, copy, found, failed,
                      soon, got, edits, faults>>
      BY <2>1 DEF vars
    <3>2. TypeOK'
      BY <3>1 DEF IInv, TypeOK
    <3>3. Ordered' /\ Snapshot' /\ Followed'
      BY <3>1 DEF IInv, Ordered, Snapshot, Followed, Available
    <3>4. Collected'
      BY <3>1 DEF IInv, Collected, Valid, Available
    <3>5. AvailableIsCurrent' /\ NeverForgotten'
      BY <3>1 DEF IInv, AvailableIsCurrent, NeverForgotten, Quiescent
    <3> QED
      BY <3>2, <3>3, <3>4, <3>5 DEF IInv
  <2> QED
    BY <2>1, UserStep, CertManagerStep, PassStep, BeginStep, StatusStep DEF Next, Worker, Fault
<1> QED
  BY <1>1, <1>2, PTL DEF Spec

\* Every variable keeps its type, and a Secret is never assembled from a certificate or CA that
\* was not issued (controller.go:362-391), for any number of edits, renewals and failures.
THEOREM TypeCorrect == Spec => []TypeOK
<1>1. IInv => TypeOK
  BY DEF IInv
<1> QED
  BY <1>1, InvariantHolds, PTL

\* Available with the current generation means a Secret assembled for that generation and target
\* (controller.go:326-331), although the pass that says so may have been overtaken by edits.
THEOREM AvailableMeansSecret == Spec => []AvailableIsCurrent
<1>1. IInv => AvailableIsCurrent
  BY DEF IInv
<1> QED
  BY <1>1, InvariantHolds, PTL

\* No pass ends without the Secret unless another one is queued or timed (controller.go:113-125),
\* whatever calls failed and whoever edited the Kubeconfig meanwhile.
THEOREM NoneForgotten == Spec => []NeverForgotten
<1>1. IInv => NeverForgotten
  BY DEF IInv
<1> QED
  BY <1>1, InvariantHolds, PTL

=============================================================================
