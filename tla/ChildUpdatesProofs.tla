------------------------- MODULE ChildUpdatesProofs -------------------------
(***************************************************************************)
(* Updating in place is sound, for any number of objects, edits, foreign   *)
(* changes and restarts: no update is rejected, a further pass changes     *)
(* nothing, what others set is kept, and every amount of a container can   *)
(* be told from the objects this process has rendered.                     *)
(***************************************************************************)
EXTENDS ChildUpdates, TLAPS

\* A spec has a value of its type in each field.
WellFormed(s) ==
    /\ s = [f \in DOMAIN SpecFields |-> s[f]]
    /\ \A f \in DOMAIN SpecFields : s[f] \in SpecFields[f]

\* What the steps of a pass rely on.
Shapes ==
    /\ spec = [o \in Objects |-> spec[o]]
    /\ dep = [o \in Objects |-> dep[o]]
    /\ svc = [o \in Objects |-> svc[o]]
    /\ cert = [o \in Objects |-> cert[o]]
    /\ memory = [r \in Resources |-> memory[r]]
    /\ \A o \in Objects : WellFormed(spec[o])
    /\ \A o \in Objects :
        /\ dep[o] = [exists |-> dep[o].exists, labels |-> dep[o].labels, selector |-> dep[o].selector,
                     podLabels |-> dep[o].podLabels, notes |-> dep[o].notes,
                     podNotes |-> dep[o].podNotes, res |-> dep[o].res, rep |-> dep[o].rep,
                     node |-> dep[o].node, pull |-> dep[o].pull]
        /\ dep[o].exists \in BOOLEAN /\ dep[o].node \in BOOLEAN /\ dep[o].rep \in Nat

\* A Deployment has the selector that every pass renders, and the API server has set its replicas.
Selected ==
    \A o \in Objects :
        /\ dep[o].exists => dep[o].selector = ResourceLabels(o) /\ dep[o].rep > 0
        /\ ~dep[o].exists => dep[o].selector = Empty

\* The package-level defaults hold amounts of objects that this process has rendered.
MemoryExplained == \A r \in Resources : memory[r] \in {Default} \cup overrode[r]

\* The Deployment that is there when the API server has accepted what a pass sent.
Sent(o) == Defaulted(DeploymentReconciler(o))

\* An object without a pending pass is what a pass would make of it.
PodsGood(o) ==
    dep[o].exists /\ AtRest(o) =>
        /\ HasDefaults =>
            \A r \in Resources :
                \/ r \in spec[o].res /\ dep[o].res[r] = o
                \/ r \notin spec[o].res /\ dep[o].res[r] \in {Default} \cup overrode[r]
        /\ [Sent(o) EXCEPT !.res = dep[o].res] = dep[o]
        /\ ServiceReconciler(o) = svc[o]

CertGood(o) ==
    <<o, "certify">> \notin queued =>
        /\ ("further" \in cert[o].names) = spec[o].names
        /\ ("host" \in cert[o].names) = ~(spec[o].names /\ spec[o].issuer)
        /\ (cert[o].issuer = "user") = spec[o].issuer
        /\ cert[o].labels["app"] = o

IInv ==
    /\ Shapes /\ Selected /\ MemoryExplained
    /\ \A o \in Objects : PodsGood(o) /\ CertGood(o)

-----------------------------------------------------------------------------
(* The helpers.                                                             *)

\* What exists stays in a merge.
LEMMA MergeKeeps ==
    ASSUME NEW a, NEW b
    PROVE  /\ DOMAIN a \subseteq DOMAIN mergeMaps(a, b)
           /\ \A k \in DOMAIN a : mergeMaps(a, b)[k] = a[k]
  BY DEF mergeMaps

\* Merging the same template a second time changes nothing.
LEMMA MergeAgain ==
    ASSUME NEW a, NEW b
    PROVE  mergeMaps(mergeMaps(a, b), b) = mergeMaps(a, b)
<1> DEFINE m == mergeMaps(a, b)
<1>1. DOMAIN m = DOMAIN a \cup DOMAIN b
  BY DEF mergeMaps
<1>2. m = [k \in DOMAIN m |-> m[k]]
  BY DEF mergeMaps
<1>3. DOMAIN m \cup DOMAIN b = DOMAIN m
  BY <1>1
<1> HIDE DEF m
<1>4. mergeMaps(m, b) = [k \in DOMAIN m |-> m[k]]
  BY <1>3 DEF mergeMaps
<1> QED
  BY <1>2, <1>4 DEF m

\* The labels of an object, with any template merged into them.
LEMMA LabelsOf ==
    ASSUME NEW o, NEW t
    PROVE  /\ ResourceLabels(o) # Empty
           /\ DOMAIN ResourceLabels(o) = {"app"} /\ ResourceLabels(o)["app"] = o
           /\ "app" \in DOMAIN mergeMaps(ResourceLabels(o), t)
           /\ mergeMaps(ResourceLabels(o), t)["app"] = o
<1>1. DOMAIN ResourceLabels(o) = {"app"} /\ ResourceLabels(o)["app"] = o
  BY DEF ResourceLabels
<1>2. DOMAIN Empty = {}
  BY DEF Empty
<1>3. ResourceLabels(o) # Empty
  BY <1>1, <1>2
<1> QED
  BY <1>1, <1>3, MergeKeeps

\* The fields of a spec.
LEMMA Fields ==
    ASSUME NEW s, WellFormed(s)
    PROVE  /\ s.rep \in Nat /\ s.pod \in BOOLEAN /\ s.names \in BOOLEAN
           /\ s.issuer \in BOOLEAN /\ s.etcd \in BOOLEAN
<1>1. /\ "rep" \in DOMAIN SpecFields /\ SpecFields["rep"] = {0, 1, 3}
      /\ "pod" \in DOMAIN SpecFields /\ SpecFields["pod"] = BOOLEAN
      /\ "names" \in DOMAIN SpecFields /\ SpecFields["names"] = BOOLEAN
      /\ "issuer" \in DOMAIN SpecFields /\ SpecFields["issuer"] = BOOLEAN
      /\ "etcd" \in DOMAIN SpecFields /\ SpecFields["etcd"] = BOOLEAN
  BY DEF SpecFields, Unset
<1>2. s["rep"] \in Nat /\ s["pod"] \in BOOLEAN /\ s["names"] \in BOOLEAN
      /\ s["issuer"] \in BOOLEAN /\ s["etcd"] \in BOOLEAN
  BY <1>1 DEF WellFormed
<1> QED
  BY <1>2

\* The replicas that the API server has when a pass is done.
Count(k, s, n) ==
    LET asked == IF k = "CacheServer" THEN CacheServerReplicas(s, n) ELSE Replicas(s, n)
    IN IF asked = Unset THEN 1 ELSE asked

\* What a pass sent, field by field.
SentFields(o) ==
    /\ Sent(o) = [exists |-> Sent(o).exists, labels |-> Sent(o).labels, selector |-> Sent(o).selector,
                  podLabels |-> Sent(o).podLabels, notes |-> Sent(o).notes,
                  podNotes |-> Sent(o).podNotes, res |-> Sent(o).res, rep |-> Sent(o).rep,
                  node |-> Sent(o).node, pull |-> Sent(o).pull]
    /\ Sent(o).exists = TRUE
    /\ Sent(o).labels = mergeMaps(IF Relabels THEN ResourceLabels(o) ELSE dep[o].labels,
                                  TemplateLabels(spec[o]))
    /\ Sent(o).selector = IF Relabels \/ dep[o].selector = Empty THEN ResourceLabels(o)
                          ELSE dep[o].selector
    /\ Sent(o).podLabels = mergeMaps(ResourceLabels(o), TemplateLabels(spec[o]))
    /\ Sent(o).notes = mergeMaps(dep[o].notes, TemplateNotes(spec[o]))
    /\ Sent(o).podNotes = mergeMaps(dep[o].podNotes, TemplateNotes(spec[o]))
    /\ Sent(o).res = ApplyResources(o, BaseResources)
    /\ Sent(o).rep = Count(kind, spec[o], dep[o].rep)
    /\ Sent(o).node = (spec[o].pod \/ dep[o].node)
    /\ Sent(o).pull = IF spec[o].pod THEN "" ELSE "image"

\* Of the fields that the API server checks it changes none.
SameToServer(o) ==
    /\ Sent(o).selector = DeploymentReconciler(o).selector
    /\ Sent(o).podLabels = DeploymentReconciler(o).podLabels

AllSent == \A o \in Objects : SentFields(o) /\ SameToServer(o)

\* What a pass sends (getDeploymentReconciler and ApplyDeploymentTemplate), in any state.
LEMMA SentAre == AllSent
<1> SUFFICES ASSUME NEW o \in Objects PROVE SentFields(o) /\ SameToServer(o)
  BY DEF AllSent
<1> DEFINE b == RenderedBase(o)
           new == ApplyDeploymentTemplate(b, spec[o])
<1> DEFINE lab == IF Relabels THEN ResourceLabels(o) ELSE dep[o].labels
           sel == IF Relabels \/ dep[o].selector = Empty THEN ResourceLabels(o) ELSE dep[o].selector
           am == ApplyResources(o, BaseResources)
           rp == IF kind = "CacheServer" THEN CacheServerReplicas(spec[o], dep[o].rep)
                 ELSE Replicas(spec[o], dep[o].rep)
<1>0. b = [exists |-> TRUE, labels |-> lab, selector |-> sel, podLabels |-> ResourceLabels(o),
           notes |-> dep[o].notes, podNotes |-> dep[o].podNotes, res |-> am, rep |-> rp,
           node |-> dep[o].node, pull |-> "image"]
  BY Zenon DEF RenderedBase
<1> HIDE DEF b, lab, sel, am, rp
<1>1. /\ b = [exists |-> b.exists, labels |-> b.labels, selector |-> b.selector,
              podLabels |-> b.podLabels, notes |-> b.notes, podNotes |-> b.podNotes,
              res |-> b.res, rep |-> b.rep, node |-> b.node, pull |-> b.pull]
  BY <1>0
<1>6. b.exists = TRUE
  BY <1>0
<1>7. /\ b.labels = lab /\ b.selector = sel
      /\ b.podLabels = ResourceLabels(o) /\ b.notes = dep[o].notes /\ b.podNotes = dep[o].podNotes
      /\ b.res = am /\ b.rep = rp /\ b.pull = "image"
  BY <1>0
<1>8. b.node = dep[o].node
  BY <1>0
<1> DEFINE nd == spec[o].pod \/ b.node
           pl == IF spec[o].pod THEN "" ELSE b.pull
<1>2. new = [b EXCEPT !.labels = mergeMaps(@, TemplateLabels(spec[o])),
                      !.podLabels = mergeMaps(@, TemplateLabels(spec[o])),
                      !.notes = mergeMaps(@, TemplateNotes(spec[o])),
                      !.podNotes = mergeMaps(@, TemplateNotes(spec[o])),
                      !.node = nd, !.pull = pl]
  BY Zenon DEF ApplyDeploymentTemplate
<1>5. DeploymentReconciler(o) = new
  BY DEF DeploymentReconciler, b
<1> HIDE DEF new, nd, pl
<1>3. new = [exists |-> b.exists, labels |-> mergeMaps(b.labels, TemplateLabels(spec[o])),
             selector |-> b.selector, podLabels |-> mergeMaps(b.podLabels, TemplateLabels(spec[o])),
             notes |-> mergeMaps(b.notes, TemplateNotes(spec[o])),
             podNotes |-> mergeMaps(b.podNotes, TemplateNotes(spec[o])),
             res |-> b.res, rep |-> b.rep, node |-> nd, pull |-> pl]
  BY <1>1, <1>2
<1>4. /\ new = [exists |-> new.exists, labels |-> new.labels, selector |-> new.selector,
                podLabels |-> new.podLabels, notes |-> new.notes, podNotes |-> new.podNotes,
                res |-> new.res, rep |-> new.rep, node |-> new.node, pull |-> new.pull]
      /\ new.labels = mergeMaps(lab, TemplateLabels(spec[o]))
      /\ new.selector = sel
      /\ new.podLabels = mergeMaps(ResourceLabels(o), TemplateLabels(spec[o]))
      /\ new.notes = mergeMaps(dep[o].notes, TemplateNotes(spec[o]))
      /\ new.podNotes = mergeMaps(dep[o].podNotes, TemplateNotes(spec[o]))
      /\ new.res = am /\ new.rep = rp /\ new.pull = pl
  BY <1>3, <1>7
<1>9. new.exists = TRUE /\ new.node = nd
  BY <1>3, <1>6
<1> DEFINE cnt == IF rp = Unset THEN 1 ELSE rp
           sent == Defaulted(new)
<1>10. sent = [new EXCEPT !.rep = cnt]
  BY <1>4 DEF Defaulted
<1>11. cnt = Count(kind, spec[o], dep[o].rep)
  BY Zenon DEF Count, rp
<1>12. Sent(o) = sent
  BY <1>5 DEF Sent
<1> HIDE DEF cnt, sent
<1>13. /\ sent = [exists |-> new.exists, labels |-> new.labels, selector |-> new.selector,
                  podLabels |-> new.podLabels, notes |-> new.notes, podNotes |-> new.podNotes,
                  res |-> new.res, rep |-> cnt, node |-> new.node, pull |-> new.pull]
  BY <1>4, <1>10
<1>14. /\ sent = [exists |-> sent.exists, labels |-> sent.labels, selector |-> sent.selector,
                  podLabels |-> sent.podLabels, notes |-> sent.notes, podNotes |-> sent.podNotes,
                  res |-> sent.res, rep |-> sent.rep, node |-> sent.node, pull |-> sent.pull]
       /\ sent.labels = new.labels /\ sent.selector = new.selector /\ sent.podLabels = new.podLabels
       /\ sent.notes = new.notes /\ sent.podNotes = new.podNotes /\ sent.res = new.res
       /\ sent.rep = cnt /\ sent.pull = new.pull
  BY <1>13
<1>15. sent.exists = TRUE /\ sent.node = nd
  BY <1>13, <1>9
<1>16. SentFields(o)
  BY Zenon, <1>4, <1>8, <1>7, <1>11, <1>12, <1>14, <1>15 DEF SentFields, lab, sel, am, nd, pl
<1>17. SameToServer(o)
  BY Zenon, <1>5, <1>12, <1>14 DEF SameToServer
<1> QED
  BY <1>16, <1>17

\* The number of replicas is settled after one pass; an autoscaler's stays unless the spec has one,
\* and without an external etcd a CacheServer has one.
LEMMA Counts ==
    ASSUME NEW k, NEW s, WellFormed(s), NEW n \in Nat
    PROVE  /\ Count(k, s, n) \in Nat /\ Count(k, s, n) > 0
           /\ Count(k, s, Count(k, s, n)) = Count(k, s, n)
           /\ k # "CacheServer" /\ s.rep = Unset /\ n > 0 => Count(k, s, n) = n
           /\ k = "CacheServer" /\ ~s.etcd => Count(k, s, n) = 1
  BY Fields DEF Count, CacheServerReplicas, Replicas, Unset

\* The API server accepts the next Deployment.
LEMMA Acceptable ==
    ASSUME Selected
    PROVE  NeverRejected
<1> SUFFICES ASSUME NEW o \in Objects PROVE Accepted(dep[o], DeploymentReconciler(o))
  BY DEF NeverRejected
<1>1. DeploymentReconciler(o).selector = ResourceLabels(o)
  BY SentAre DEF AllSent, SameToServer, SentFields, Selected
<1>2. DeploymentReconciler(o).podLabels = mergeMaps(ResourceLabels(o), TemplateLabels(spec[o]))
  BY SentAre DEF AllSent, SameToServer, SentFields
<1>3. dep[o].exists => dep[o].selector = ResourceLabels(o)
  BY DEF Selected
<1> QED
  BY <1>1, <1>2, <1>3, LabelsOf DEF Accepted

\* The Deployment that a pass renders depends on its object only, apart from the amounts.
LEMMA SameAgain ==
    ASSUME NEW o \in Objects, kind' = kind, spec'[o] = spec[o], dep'[o] = dep[o]
    PROVE  [Sent(o) EXCEPT !.res = dep[o].res]' = [Sent(o) EXCEPT !.res = dep[o].res]
<1>1. SentFields(o)
  BY SentAre DEF AllSent
<1>2. AllSent'
  BY SentAre, PTL
<1>3. SentFields(o)'
  BY <1>2 DEF AllSent
<1> DEFINE a == Sent(o)
           b == Sent(o)'
<1>4. Relabels' = Relabels
  BY DEF Relabels
<1>5. /\ b.labels = a.labels /\ b.selector = a.selector /\ b.podLabels = a.podLabels
      /\ b.notes = a.notes /\ b.podNotes = a.podNotes /\ b.rep = a.rep /\ b.pull = a.pull
  <2> DEFINE lab == mergeMaps(IF Relabels THEN ResourceLabels(o) ELSE dep[o].labels,
                              TemplateLabels(spec[o]))
             sel == IF Relabels \/ dep[o].selector = Empty THEN ResourceLabels(o) ELSE dep[o].selector
             pod == mergeMaps(ResourceLabels(o), TemplateLabels(spec[o]))
             not == mergeMaps(dep[o].notes, TemplateNotes(spec[o]))
             pno == mergeMaps(dep[o].podNotes, TemplateNotes(spec[o]))
             cnt == Count(kind, spec[o], dep[o].rep)
             pul == IF spec[o].pod THEN "" ELSE "image"
  <2>1. /\ a.labels = lab /\ a.selector = sel /\ a.podLabels = pod /\ a.notes = not
        /\ a.podNotes = pno /\ a.rep = cnt /\ a.pull = pul
    BY Zenon, <1>1 DEF SentFields
  <2>2. b.labels = lab /\ b.selector = sel
    BY Zenon, <1>3, <1>4 DEF SentFields
  <2>3. b.podLabels = pod /\ b.notes = not /\ b.podNotes = pno /\ b.rep = cnt /\ b.pull = pul
    BY Zenon, <1>3 DEF SentFields
  <2> HIDE DEF a, b, lab, sel, pod, not, pno, cnt, pul
  <2> QED
    BY <2>1, <2>2, <2>3
<1>6. b.exists = a.exists /\ b.node = a.node
  BY Zenon, <1>1, <1>3 DEF SentFields
<1>7. a = [exists |-> a.exists, labels |-> a.labels, selector |-> a.selector,
           podLabels |-> a.podLabels, notes |-> a.notes, podNotes |-> a.podNotes,
           res |-> a.res, rep |-> a.rep, node |-> a.node, pull |-> a.pull]
  BY Zenon, <1>1 DEF SentFields
<1>8. b = [exists |-> b.exists, labels |-> b.labels, selector |-> b.selector,
           podLabels |-> b.podLabels, notes |-> b.notes, podNotes |-> b.podNotes,
           res |-> b.res, rep |-> b.rep, node |-> b.node, pull |-> b.pull]
  BY Zenon, <1>3 DEF SentFields
<1>9. [Sent(o) EXCEPT !.res = dep[o].res]' = [b EXCEPT !.res = dep[o].res]
  OBVIOUS
<1> HIDE DEF a, b
<1>10. [b EXCEPT !.res = dep[o].res] = [a EXCEPT !.res = dep[o].res]
  BY <1>5, <1>6, <1>7, <1>8
<1> QED
  BY <1>9, <1>10 DEF a

\* Steps that leave an object alone leave it as a pass would make it.
LEMMA PodsLeft ==
    ASSUME NEW o \in Objects, PodsGood(o), kind' = kind, spec'[o] = spec[o], dep'[o] = dep[o],
           svc'[o] = svc[o], \A r \in Resources : overrode[r] \subseteq overrode'[r],
           AtRest(o)' => AtRest(o)
    PROVE  PodsGood(o)'
<1> SUFFICES ASSUME dep[o].exists, AtRest(o)' PROVE PodsGood(o)'
  BY DEF PodsGood
<1>1. [Sent(o) EXCEPT !.res = dep[o].res]' = dep'[o]
  BY SameAgain DEF PodsGood
<1>2. ServiceReconciler(o)' = ServiceReconciler(o)
  BY Zenon DEF ServiceReconciler
<1>3. HasDefaults' = HasDefaults
  BY DEF HasDefaults
<1>4. HasDefaults' =>
        \A r \in Resources :
            \/ r \in spec'[o].res /\ dep'[o].res[r] = o
            \/ r \notin spec'[o].res /\ dep'[o].res[r] \in {Default} \cup overrode'[r]
  BY <1>3 DEF PodsGood
<1>5. ServiceReconciler(o)' = svc'[o]
  BY <1>2 DEF PodsGood
<1> QED
  BY Zenon, <1>1, <1>4, <1>5 DEF PodsGood

\* So does a step that leaves the Certificate alone.
LEMMA CertLeft ==
    ASSUME NEW o \in Objects, CertGood(o), spec'[o] = spec[o], cert'[o] = cert[o],
           <<o, "certify">> \notin queued' => <<o, "certify">> \notin queued
    PROVE  CertGood(o)'
  BY DEF CertGood

-----------------------------------------------------------------------------
(* The steps.                                                               *)

\* A spec stays well formed when one field is set.
LEMMA EditKeepsForm ==
    ASSUME NEW s, WellFormed(s), NEW f \in DOMAIN SpecFields, NEW v \in SpecFields[f]
    PROVE  WellFormed([s EXCEPT ![f] = v])
  BY DEF WellFormed

\* An edit of a spec, which queues both passes over its object.
LEMMA EditStep ==
    ASSUME IInv, NEW o \in Objects, Edit(o)
    PROVE  IInv'
<1>1. PICK f \in DOMAIN SpecFields : \E v \in SpecFields[f] :
        spec' = [spec EXCEPT ![o] = [spec[o] EXCEPT ![f] = v]]
  BY DEF Edit
<1>2. PICK v \in SpecFields[f] : spec' = [spec EXCEPT ![o] = [spec[o] EXCEPT ![f] = v]]
  BY <1>1
<1>3. /\ UNCHANGED <<kind, dep, svc, cert, memory, overrode>>
      /\ queued' = queued \cup {<<o, "render">>, <<o, "certify">>}
  BY DEF Edit
<1>4. spec = [p \in Objects |-> spec[p]] /\ \A p \in Objects : WellFormed(spec[p])
  BY DEF IInv, Shapes
<1> DEFINE s == [spec[o] EXCEPT ![f] = v]
<1>5. WellFormed(s)
  BY <1>4, EditKeepsForm
<1> HIDE DEF s
<1>6. /\ spec' = [p \in Objects |-> spec'[p]] /\ spec'[o] = s
      /\ \A p \in Objects \ {o} : spec'[p] = spec[p]
  BY <1>2, <1>4 DEF s
<1>7. \A p \in Objects : WellFormed(spec'[p])
  BY <1>4, <1>5, <1>6
<1>8. Shapes'
  BY <1>3, <1>6, <1>7 DEF IInv, Shapes, WellFormed
<1>9. Selected' /\ MemoryExplained'
  BY <1>3 DEF IInv, Selected, MemoryExplained
<1>10. ASSUME NEW p \in Objects PROVE PodsGood(p)' /\ CertGood(p)'
  <2>1. CASE p = o
    <3>1. <<o, "render">> \in queued' /\ <<o, "certify">> \in queued'
      BY <1>3
    <3> QED
      BY <2>1, <3>1 DEF PodsGood, CertGood, AtRest
  <2>2. CASE p # o
    <3>1. spec'[p] = spec[p]
      BY <2>2, <1>6
    <3>2. queued \subseteq queued'
      BY <1>3
    <3>3. PodsGood(p)'
      BY <1>3, <3>1, <3>2, PodsLeft DEF IInv, AtRest
    <3>4. CertGood(p)'
      BY <1>3, <3>1, <3>2, CertLeft DEF IInv
    <3> QED
      BY <3>3, <3>4
  <2> QED
    BY <2>1, <2>2
<1> QED
  BY <1>8, <1>9, <1>10 DEF IInv

\* Somebody else changes the replicas or the annotations of a Deployment.
LEMMA ForeignStep ==
    ASSUME IInv, NEW o \in Objects, NEW d, Foreign(o, d),
           d = [dep[o] EXCEPT !.rep = d.rep, !.podNotes = d.podNotes], d.rep \in Nat, d.rep > 0
    PROVE  IInv'
<1>1. /\ UNCHANGED <<kind, spec, svc, cert, memory, overrode>>
      /\ dep[o].exists /\ dep' = [dep EXCEPT ![o] = d]
      /\ queued' = queued \cup {<<o, "render">>}
  BY DEF Foreign
<1>2. dep = [p \in Objects |-> dep[p]]
  BY DEF IInv, Shapes
<1>3. /\ dep' = [p \in Objects |-> dep'[p]] /\ dep'[o] = d
      /\ \A p \in Objects \ {o} : dep'[p] = dep[p]
  BY <1>1, <1>2
<1>4. dep[o] = [exists |-> dep[o].exists, labels |-> dep[o].labels, selector |-> dep[o].selector,
                podLabels |-> dep[o].podLabels, notes |-> dep[o].notes,
                podNotes |-> dep[o].podNotes, res |-> dep[o].res, rep |-> dep[o].rep,
                node |-> dep[o].node, pull |-> dep[o].pull]
  BY DEF IInv, Shapes
<1>5. d = [exists |-> dep[o].exists, labels |-> dep[o].labels, selector |-> dep[o].selector,
           podLabels |-> dep[o].podLabels, notes |-> dep[o].notes,
           podNotes |-> d.podNotes, res |-> dep[o].res, rep |-> d.rep,
           node |-> dep[o].node, pull |-> dep[o].pull]
  BY <1>4
<1>6. /\ d = [exists |-> d.exists, labels |-> d.labels, selector |-> d.selector,
              podLabels |-> d.podLabels, notes |-> d.notes, podNotes |-> d.podNotes,
              res |-> d.res, rep |-> d.rep, node |-> d.node, pull |-> d.pull]
      /\ d.exists = dep[o].exists /\ d.selector = dep[o].selector /\ d.node = dep[o].node
  BY <1>5
<1>7. d.exists \in BOOLEAN /\ d.node \in BOOLEAN
  BY <1>6 DEF IInv, Shapes
<1>8. Shapes'
  BY <1>1, <1>3, <1>6, <1>7 DEF IInv, Shapes, WellFormed
<1>9. Selected' /\ MemoryExplained'
  BY <1>1, <1>3, <1>6 DEF IInv, Selected, MemoryExplained
<1>10. ASSUME NEW p \in Objects PROVE PodsGood(p)' /\ CertGood(p)'
  <2>1. <<o, "render">> \in queued' /\ queued \subseteq queued'
    BY <1>1
  <2>2. CertGood(p)'
    <3>1. <<p, "certify">> \notin queued' => <<p, "certify">> \notin queued
      BY <2>1
    <3> QED
      BY <1>1, <3>1, CertLeft DEF IInv
  <2>3. PodsGood(p)'
    <3>1. CASE p = o
      BY <2>1, <3>1 DEF PodsGood, AtRest
    <3>2. CASE p # o
      BY <1>1, <1>3, <2>1, <3>2, PodsLeft DEF IInv, AtRest
    <3> QED
      BY <3>1, <3>2
  <2> QED
    BY <2>2, <2>3
<1> QED
  BY <1>8, <1>9, <1>10 DEF IInv

\* Scaling, and a restart of the rollout.
LEMMA OutsideStep ==
    ASSUME IInv, NEW o \in Objects, Scale(o) \/ RolloutRestart(o)
    PROVE  IInv'
<1>1. /\ dep[o] = [exists |-> dep[o].exists, labels |-> dep[o].labels, selector |-> dep[o].selector,
                   podLabels |-> dep[o].podLabels, notes |-> dep[o].notes,
                   podNotes |-> dep[o].podNotes, res |-> dep[o].res, rep |-> dep[o].rep,
                   node |-> dep[o].node, pull |-> dep[o].pull]
      /\ dep[o].rep \in Nat
  BY DEF IInv, Shapes
<1>2. CASE Scale(o)
  <2>1. PICK n \in {1, 4} : Foreign(o, [dep[o] EXCEPT !.rep = n])
    BY <1>2 DEF Scale
  <2> DEFINE e == dep[o]
             d == [e EXCEPT !.rep = n]
  <2>2. e = [exists |-> e.exists, labels |-> e.labels, selector |-> e.selector,
             podLabels |-> e.podLabels, notes |-> e.notes, podNotes |-> e.podNotes,
             res |-> e.res, rep |-> e.rep, node |-> e.node, pull |-> e.pull]
    BY <1>1
  <2>3. Foreign(o, d)
    BY <2>1
  <2>4. d = [e EXCEPT !.rep = n]
    OBVIOUS
  <2> HIDE DEF e, d
  <2>5. d.rep = n /\ d.podNotes = e.podNotes
    BY <2>2, <2>4
  <2>6. [e EXCEPT !.rep = n, !.podNotes = e.podNotes] = [e EXCEPT !.rep = n]
    BY <2>2
  <2>7. d.rep = n /\ d = [dep[o] EXCEPT !.rep = d.rep, !.podNotes = d.podNotes]
    BY Zenon, <2>4, <2>5, <2>6 DEF e
  <2>8. d.rep \in Nat /\ d.rep > 0
    BY <2>5
  <2> QED
    BY Zenon, <2>3, <2>7, <2>8, ForeignStep
<1>3. CASE RolloutRestart(o)
  <2> DEFINE n == mergeMaps([k \in {"restartedAt"} |-> "now"], dep[o].podNotes)
             d == [dep[o] EXCEPT !.podNotes = n]
  <2>1. Foreign(o, d)
    BY <1>3 DEF RolloutRestart
  <2> HIDE DEF n
  <2> DEFINE e == dep[o]
  <2>4. e = [exists |-> e.exists, labels |-> e.labels, selector |-> e.selector,
             podLabels |-> e.podLabels, notes |-> e.notes, podNotes |-> e.podNotes,
             res |-> e.res, rep |-> e.rep, node |-> e.node, pull |-> e.pull]
    BY <1>1
  <2>5. d = [e EXCEPT !.podNotes = n]
    OBVIOUS
  <2> HIDE DEF e, d
  <2>6. d.rep = e.rep /\ d.podNotes = n
    BY <2>4, <2>5
  <2>7. [e EXCEPT !.rep = e.rep, !.podNotes = n] = [e EXCEPT !.podNotes = n]
    BY <2>4
  <2>2. d.rep = dep[o].rep /\ d = [dep[o] EXCEPT !.rep = d.rep, !.podNotes = d.podNotes]
    BY Zenon, <2>5, <2>6, <2>7 DEF e
  <2> HIDE DEF d
  <2>3. dep[o].rep > 0
    BY <2>1 DEF Foreign, IInv, Selected
  <2>8. d.rep \in Nat /\ d.rep > 0
    BY Zenon, <1>1, <2>2, <2>3
  <2> QED
    BY Zenon, <2>1, <2>2, <2>8, ForeignStep
<1> QED
  BY <1>2, <1>3

\* What a pass of the compiled controller does; the API server accepts its Deployment.
LEMMA RenderDoes ==
    ASSUME IInv, NEW o \in Objects, Render(o)
    PROVE  /\ UNCHANGED <<kind, spec, cert>>
           /\ dep' = [dep EXCEPT ![o] = Sent(o)]
           /\ svc' = [svc EXCEPT ![o] = ServiceReconciler(o)]
           /\ queued' = queued \ {<<o, "render">>}
           /\ memory' = IF Aliased THEN ApplyResources(o, BaseResources) ELSE memory
           /\ overrode' = [r \in Resources |-> IF r \in spec[o].res THEN overrode[r] \cup {o}
                                               ELSE overrode[r]]
<1>1. Accepted(dep[o], DeploymentReconciler(o))
  BY Acceptable DEF IInv, NeverRejected
<1> QED
  BY <1>1 DEF Render, Sent

\* A second pass over the object renders the same.
LEMMA RenderedAgain ==
    ASSUME IInv, NEW o \in Objects, Render(o)
    PROVE  [Sent(o) EXCEPT !.res = dep[o].res]' = dep'[o]
<1>1. UNCHANGED <<kind, spec>> /\ dep'[o] = Sent(o)
  BY RenderDoes DEF IInv, Shapes
<1> DEFINE a == Sent(o)
           b == Sent(o)'
<1>2. SentFields(o)
  BY SentAre DEF AllSent
<1>3. AllSent'
  BY SentAre, PTL
<1>4. SentFields(o)'
  BY <1>3 DEF AllSent
<1>5. Relabels' = Relabels /\ dep'[o] = a
  BY <1>1 DEF Relabels
<1>6. b.labels = a.labels
  <2>1. b.labels = mergeMaps(IF Relabels THEN ResourceLabels(o) ELSE a.labels, TemplateLabels(spec[o]))
    BY Zenon, <1>4, <1>5, <1>1 DEF SentFields
  <2>2. a.labels = mergeMaps(IF Relabels THEN ResourceLabels(o) ELSE dep[o].labels,
                             TemplateLabels(spec[o]))
    BY Zenon, <1>2 DEF SentFields
  <2> HIDE DEF a, b
  <2>3. CASE Relabels
    BY Zenon, <2>1, <2>2, <2>3
  <2>4. CASE ~Relabels
    <3>1. mergeMaps(mergeMaps(dep[o].labels, TemplateLabels(spec[o])), TemplateLabels(spec[o]))
            = mergeMaps(dep[o].labels, TemplateLabels(spec[o]))
      BY MergeAgain
    <3> QED
      BY Zenon, <2>1, <2>2, <2>4, <3>1
  <2> QED
    BY <2>3, <2>4
<1>7. b.selector = a.selector
  <2>1. b.selector = IF Relabels \/ a.selector = Empty THEN ResourceLabels(o) ELSE a.selector
    BY Zenon, <1>4, <1>5, <1>1 DEF SentFields
  <2>2. a.selector = ResourceLabels(o)
    BY <1>2 DEF SentFields, IInv, Selected
  <2> HIDE DEF a, b
  <2> QED
    BY Zenon, <2>1, <2>2
<1>8. b.podLabels = a.podLabels
  BY Zenon, <1>1, <1>2, <1>4 DEF SentFields
<1>9. b.notes = a.notes
  <2>1. b.notes = mergeMaps(a.notes, TemplateNotes(spec[o]))
    BY Zenon, <1>4, <1>5, <1>1 DEF SentFields
  <2>2. a.notes = mergeMaps(dep[o].notes, TemplateNotes(spec[o]))
    BY Zenon, <1>2 DEF SentFields
  <2>3. mergeMaps(mergeMaps(dep[o].notes, TemplateNotes(spec[o])), TemplateNotes(spec[o]))
          = mergeMaps(dep[o].notes, TemplateNotes(spec[o]))
    BY MergeAgain
  <2> QED
    BY Zenon, <2>1, <2>2, <2>3
<1>10. b.podNotes = a.podNotes
  <2>1. b.podNotes = mergeMaps(a.podNotes, TemplateNotes(spec[o]))
    BY Zenon, <1>4, <1>5, <1>1 DEF SentFields
  <2>2. a.podNotes = mergeMaps(dep[o].podNotes, TemplateNotes(spec[o]))
    BY Zenon, <1>2 DEF SentFields
  <2>3. mergeMaps(mergeMaps(dep[o].podNotes, TemplateNotes(spec[o])), TemplateNotes(spec[o]))
          = mergeMaps(dep[o].podNotes, TemplateNotes(spec[o]))
    BY MergeAgain
  <2> QED
    BY Zenon, <2>1, <2>2, <2>3
<1>11. b.rep = a.rep
  <2>1. b.rep = Count(kind, spec[o], a.rep)
    BY Zenon, <1>4, <1>5, <1>1 DEF SentFields
  <2>2. a.rep = Count(kind, spec[o], dep[o].rep)
    BY Zenon, <1>2 DEF SentFields
  <2>3. WellFormed(spec[o]) /\ dep[o].rep \in Nat
    BY DEF IInv, Shapes
  <2>4. Count(kind, spec[o], Count(kind, spec[o], dep[o].rep)) = Count(kind, spec[o], dep[o].rep)
    BY <2>3, Counts
  <2> QED
    BY Zenon, <2>1, <2>2, <2>4
<1>12. b.exists = a.exists /\ b.pull = a.pull
  BY Zenon, <1>1, <1>2, <1>4 DEF SentFields
<1>13. b.node = a.node
  <2>1. b.node = (spec[o].pod \/ a.node) /\ a.node = (spec[o].pod \/ dep[o].node)
    BY Zenon, <1>1, <1>2, <1>4, <1>5 DEF SentFields
  <2>2. CASE spec[o].pod
    BY Zenon, <2>1, <2>2
  <2>3. CASE ~spec[o].pod
    <3>1. dep[o].node \in BOOLEAN
      BY DEF IInv, Shapes
    <3> HIDE DEF a, b
    <3>2. CASE dep[o].node = TRUE
      BY Zenon, <2>1, <2>3, <3>2
    <3>3. CASE dep[o].node = FALSE
      BY Zenon, <2>1, <2>3, <3>3
    <3> QED
      BY <3>1, <3>2, <3>3
  <2> QED
    BY <2>2, <2>3
<1>14. a = [exists |-> a.exists, labels |-> a.labels, selector |-> a.selector,
            podLabels |-> a.podLabels, notes |-> a.notes, podNotes |-> a.podNotes,
            res |-> a.res, rep |-> a.rep, node |-> a.node, pull |-> a.pull]
  BY Zenon, <1>2 DEF SentFields
<1>15. b = [exists |-> b.exists, labels |-> b.labels, selector |-> b.selector,
            podLabels |-> b.podLabels, notes |-> b.notes, podNotes |-> b.podNotes,
            res |-> b.res, rep |-> b.rep, node |-> b.node, pull |-> b.pull]
  BY Zenon, <1>4 DEF SentFields
<1>16. [Sent(o) EXCEPT !.res = dep[o].res]' = [b EXCEPT !.res = a.res]
  BY <1>1
<1> HIDE DEF a, b
<1>17. [b EXCEPT !.res = a.res] = a
  BY <1>6, <1>7, <1>8, <1>9, <1>10, <1>11, <1>12, <1>13, <1>14, <1>15
<1> QED
  BY <1>5, <1>16, <1>17

\* One pass of the compiled controller.
LEMMA RenderStep ==
    ASSUME IInv, NEW o \in Objects, Render(o)
    PROVE  IInv'
<1>1. /\ UNCHANGED <<kind, spec, cert>>
      /\ dep' = [dep EXCEPT ![o] = Sent(o)]
      /\ svc' = [svc EXCEPT ![o] = ServiceReconciler(o)]
      /\ queued' = queued \ {<<o, "render">>}
      /\ memory' = IF Aliased THEN ApplyResources(o, BaseResources) ELSE memory
      /\ overrode' = [r \in Resources |-> IF r \in spec[o].res THEN overrode[r] \cup {o}
                                          ELSE overrode[r]]
  BY RenderDoes
<1>2. /\ dep = [p \in Objects |-> dep[p]] /\ svc = [p \in Objects |-> svc[p]]
      /\ memory = [r \in Resources |-> memory[r]]
      /\ dep[o].rep \in Nat /\ WellFormed(spec[o])
  BY DEF IInv, Shapes
<1>3. SentFields(o)
  BY SentAre DEF AllSent
<1> DEFINE a == Sent(o)
<1>4. /\ dep' = [p \in Objects |-> dep'[p]] /\ svc' = [p \in Objects |-> svc'[p]]
      /\ dep'[o] = a /\ svc'[o] = ServiceReconciler(o)
      /\ \A p \in Objects \ {o} : dep'[p] = dep[p] /\ svc'[p] = svc[p]
  <2> HIDE DEF a
  <2>1. dep' = [dep EXCEPT ![o] = a]
    BY Zenon, <1>1 DEF a
  <2>2. dep' = [p \in Objects |-> dep'[p]] /\ dep'[o] = a /\ \A p \in Objects \ {o} : dep'[p] = dep[p]
    BY <1>2, <2>1
  <2> DEFINE v == ServiceReconciler(o)
  <2>3. svc' = [svc EXCEPT ![o] = v]
    BY Zenon, <1>1
  <2> HIDE DEF v
  <2>4. svc' = [p \in Objects |-> svc'[p]] /\ svc'[o] = v /\ \A p \in Objects \ {o} : svc'[p] = svc[p]
    BY <1>2, <2>3
  <2> QED
    BY <2>2, <2>4 DEF v
<1>5. /\ a = [exists |-> a.exists, labels |-> a.labels, selector |-> a.selector,
              podLabels |-> a.podLabels, notes |-> a.notes, podNotes |-> a.podNotes,
              res |-> a.res, rep |-> a.rep, node |-> a.node, pull |-> a.pull]
      /\ a.rep = Count(kind, spec[o], dep[o].rep)
      /\ a.res = ApplyResources(o, BaseResources)
  BY Zenon, <1>3 DEF SentFields
<1>6. a.exists = TRUE /\ a.node \in BOOLEAN
  BY Zenon, <1>3 DEF SentFields
<1>7. a.selector = ResourceLabels(o)
  BY <1>3 DEF SentFields, IInv, Selected
<1>8. a.rep \in Nat /\ a.rep > 0
  BY <1>2, <1>5, Counts
<1>9. memory' = [r \in Resources |-> memory'[r]]
  <2>1. CASE Aliased
    BY <1>1, <2>1 DEF ApplyResources
  <2>2. CASE ~Aliased
    BY <1>1, <1>2, <2>2
  <2> QED
    BY <2>1, <2>2
<1> HIDE DEF a
<1>10. Shapes'
  <2>1. \A p \in Objects : WellFormed(spec[p])'
    BY <1>1 DEF IInv, Shapes, WellFormed
  <2>2. spec' = [p \in Objects |-> spec'[p]] /\ cert' = [p \in Objects |-> cert'[p]]
    BY <1>1 DEF IInv, Shapes
  <2>3. ASSUME NEW p \in Objects
        PROVE  /\ dep'[p] = [exists |-> dep'[p].exists, labels |-> dep'[p].labels,
                             selector |-> dep'[p].selector, podLabels |-> dep'[p].podLabels,
                             notes |-> dep'[p].notes, podNotes |-> dep'[p].podNotes,
                             res |-> dep'[p].res, rep |-> dep'[p].rep, node |-> dep'[p].node,
                             pull |-> dep'[p].pull]
               /\ dep'[p].exists \in BOOLEAN /\ dep'[p].node \in BOOLEAN /\ dep'[p].rep \in Nat
    <3>1. CASE p = o
      BY Zenon, <1>4, <1>5, <1>6, <1>8, <3>1
    <3>2. CASE p # o
      <4>1. dep'[p] = dep[p]
        BY <1>4, <3>2
      <4> QED
        BY Zenon, <4>1 DEF IInv, Shapes
    <3> QED
      BY <3>1, <3>2
  <2> QED
    BY Zenon, <1>4, <1>9, <2>1, <2>2, <2>3 DEF Shapes
<1>11. Selected'
  BY <1>4, <1>6, <1>7, <1>8 DEF IInv, Selected
<1>12. \A r \in Resources : overrode[r] \subseteq overrode'[r]
  BY <1>1
<1>13. MemoryExplained'
  <2>1. \A r \in Resources : memory[r] \in {Default} \cup overrode'[r]
    BY <1>12 DEF IInv, MemoryExplained
  <2>2. CASE Aliased
    <3>1. HasDefaults
      BY <2>2 DEF Aliased, HasDefaults
    <3>2. memory' = ApplyResources(o, memory)
      BY <1>1, <2>2, <3>1 DEF BaseResources
    <3>3. \A r \in Resources : memory'[r] = IF r \in spec[o].res THEN o ELSE memory[r]
      BY <3>2 DEF ApplyResources
    <3>4. \A r \in Resources : r \in spec[o].res => o \in overrode'[r]
      BY <1>1
    <3> QED
      BY <2>1, <3>3, <3>4 DEF MemoryExplained
  <2>3. CASE ~Aliased
    BY <1>1, <2>1, <2>3 DEF MemoryExplained
  <2> QED
    BY <2>2, <2>3
<1>14. PodsGood(o)'
  <2>1. [Sent(o) EXCEPT !.res = dep[o].res]' = dep'[o]
    BY RenderedAgain
  <2>2. ServiceReconciler(o)' = svc'[o]
    <3> DEFINE t == TemplateNotes(spec[o])
               n == mergeMaps(svc[o].notes, t)
               l == mergeMaps(ResourceLabels(o), TemplateLabels(spec[o]))
    <3>1. mergeMaps(n, t) = n
      BY MergeAgain
    <3>2. ServiceReconciler(o) = [exists |-> TRUE, labels |-> l, notes |-> n,
                                  selector |-> ResourceLabels(o)]
      BY Zenon DEF ServiceReconciler
    <3>3. ServiceReconciler(o)' = [exists |-> TRUE, labels |-> l, notes |-> mergeMaps(svc'[o].notes, t),
                                   selector |-> ResourceLabels(o)]
      BY Zenon, <1>1 DEF ServiceReconciler
    <3> HIDE DEF t, n, l
    <3>4. svc'[o].notes = n
      BY <1>4, <3>2
    <3> QED
      BY Zenon, <1>4, <3>1, <3>2, <3>3, <3>4
  <2>3. HasDefaults' =>
          \A r \in Resources :
              \/ r \in spec'[o].res /\ dep'[o].res[r] = o
              \/ r \notin spec'[o].res /\ dep'[o].res[r] \in {Default} \cup overrode'[r]
    <3> SUFFICES ASSUME HasDefaults, NEW r \in Resources
                 PROVE  \/ r \in spec[o].res /\ dep'[o].res[r] = o
                        \/ r \notin spec[o].res /\ dep'[o].res[r] \in {Default} \cup overrode'[r]
      BY <1>1 DEF HasDefaults
    <3>1. dep'[o].res = ApplyResources(o, memory)
      BY <1>4, <1>5 DEF BaseResources
    <3>2. dep'[o].res[r] = IF r \in spec[o].res THEN o ELSE memory[r]
      BY <3>1 DEF ApplyResources
    <3>3. memory[r] \in {Default} \cup overrode'[r]
      BY <1>12 DEF IInv, MemoryExplained
    <3> QED
      BY <3>2, <3>3
  <2> QED
    BY Zenon, <2>1, <2>2, <2>3 DEF PodsGood
<1>15. ASSUME NEW p \in Objects PROVE PodsGood(p)' /\ CertGood(p)'
  <2>1. <<p, "certify">> \notin queued' => <<p, "certify">> \notin queued
    BY <1>1
  <2>2. CertGood(p)'
    BY <1>1, <2>1, CertLeft DEF IInv
  <2>3. CASE p = o
    BY <1>14, <2>2, <2>3
  <2>4. CASE p # o
    <3>1. AtRest(p)' => AtRest(p)
      BY <1>1, <2>4 DEF AtRest
    <3>2. dep'[p] = dep[p] /\ svc'[p] = svc[p]
      BY <1>4, <2>4
    <3> QED
      BY <1>1, <1>12, <2>2, <3>1, <3>2, PodsLeft DEF IInv
  <2> QED
    BY <2>3, <2>4
<1> QED
  BY Zenon, <1>10, <1>11, <1>13, <1>15 DEF IInv

\* A pass over the Certificate.
LEMMA CertifyStep ==
    ASSUME IInv, NEW o \in Objects, Certify(o)
    PROVE  IInv'
<1>1. /\ UNCHANGED <<kind, spec, dep, svc, memory, overrode>>
      /\ cert' = [cert EXCEPT ![o] = CertificateReconciler(o)]
      /\ queued' = queued \ {<<o, "certify">>}
  BY DEF Certify
<1> DEFINE c == CertificateReconciler(o)
<1>2. /\ c.names = CertificateNames(o)
      /\ c.issuer = IF spec[o].issuer THEN "user" ELSE "ServerCA"
      /\ c.labels = mergeMaps(ResourceLabels(o), TemplateLabels(spec[o]))
  BY DEF CertificateReconciler
<1> HIDE DEF c
<1>3. /\ cert' = [p \in Objects |-> cert'[p]] /\ cert'[o] = c
      /\ \A p \in Objects \ {o} : cert'[p] = cert[p]
  BY <1>1 DEF IInv, Shapes, c
<1>4. Shapes'
  BY <1>1, <1>3 DEF IInv, Shapes, WellFormed
<1>5. Selected' /\ MemoryExplained'
  BY <1>1 DEF IInv, Selected, MemoryExplained
<1>6. CertGood(o)'
  <2>1. spec[o].names \in BOOLEAN /\ spec[o].issuer \in BOOLEAN
    BY Fields DEF IInv, Shapes
  <2>2. c.labels["app"] = o
    BY <1>2, LabelsOf
  <2>3. ("further" \in c.names) = spec[o].names
    BY <1>2, <2>1 DEF CertificateNames
  <2>4. ("host" \in c.names) = ~(spec[o].names /\ spec[o].issuer)
    BY <1>2, <2>1 DEF CertificateNames
  <2>5. (c.issuer = "user") = spec[o].issuer
    BY <1>2, <2>1
  <2> QED
    BY Zenon, <1>1, <1>3, <2>2, <2>3, <2>4, <2>5 DEF CertGood
<1>7. ASSUME NEW p \in Objects PROVE PodsGood(p)' /\ CertGood(p)'
  <2>1. AtRest(p)' => AtRest(p)
    BY <1>1 DEF AtRest
  <2>2. PodsGood(p)'
    BY <1>1, <2>1, PodsLeft DEF IInv
  <2>3. CASE p = o
    BY <1>6, <2>2, <2>3
  <2>4. CASE p # o
    <3>1. <<p, "certify">> \notin queued' => <<p, "certify">> \notin queued
      BY <1>1, <2>4
    <3>2. cert'[p] = cert[p]
      BY <1>3, <2>4
    <3> QED
      BY <1>1, <2>2, <3>1, <3>2, CertLeft DEF IInv
  <2> QED
    BY <2>3, <2>4
<1> QED
  BY <1>4, <1>5, <1>7 DEF IInv

\* A Secret that changes, a restart of the operator, and a step that changes nothing here.
LEMMA OtherStep ==
    ASSUME IInv, SecretChanges \/ Restart \/ UNCHANGED vars
    PROVE  IInv'
<1>1. CASE SecretChanges \/ UNCHANGED vars
  <2>1. UNCHANGED <<kind, spec, dep, svc, cert, memory, overrode>> /\ queued \subseteq queued'
    BY <1>1 DEF SecretChanges, vars
  <2>2. Shapes'
    BY <2>1 DEF IInv, Shapes, WellFormed
  <2>3. Selected' /\ MemoryExplained'
    BY <2>1 DEF IInv, Selected, MemoryExplained
  <2>4. ASSUME NEW p \in Objects PROVE PodsGood(p)' /\ CertGood(p)'
    <3>1. PodsGood(p)'
      BY <2>1, PodsLeft DEF IInv, AtRest
    <3>2. CertGood(p)'
      BY <2>1, CertLeft DEF IInv
    <3> QED
      BY <3>1, <3>2
  <2> QED
    BY <2>2, <2>3, <2>4 DEF IInv
<1>2. CASE Restart
  <2>1. /\ UNCHANGED <<kind, spec, dep, svc, cert>> /\ memory' = Defaults
        /\ overrode' = [r \in Resources |-> {}] /\ queued' = Objects \X {"render", "certify"}
    BY <1>2 DEF Restart
  <2>2. memory' = [r \in Resources |-> memory'[r]] /\ MemoryExplained'
    BY <2>1 DEF Defaults, MemoryExplained
  <2>3. Shapes'
    BY <2>1, <2>2 DEF IInv, Shapes, WellFormed
  <2>4. Selected'
    BY <2>1 DEF IInv, Selected
  <2>5. \A p \in Objects : PodsGood(p)' /\ CertGood(p)'
    BY <2>1 DEF PodsGood, CertGood, AtRest
  <2> QED
    BY <2>2, <2>3, <2>4, <2>5 DEF IInv
<1> QED
  BY <1>1, <1>2

\* The first state: nothing is rendered, and everything is queued.
LEMMA InitGood == Init => IInv
<1> SUFFICES ASSUME Init PROVE IInv
  OBVIOUS
<1>1. WellFormed(FirstSpec)
  <2> DEFINE names == {"res", "rep", "note", "label", "pod", "names", "issuer", "etcd"}
  <2>1. DOMAIN SpecFields = names
    BY DEF SpecFields
  <2>2. FirstSpec = [f \in names |-> FirstSpec[f]]
    BY DEF FirstSpec
  <2>3. /\ FirstSpec["res"] \in SpecFields["res"] /\ FirstSpec["rep"] \in SpecFields["rep"]
        /\ FirstSpec["note"] \in SpecFields["note"] /\ FirstSpec["label"] \in SpecFields["label"]
    BY DEF FirstSpec, SpecFields
  <2>4. /\ FirstSpec["pod"] \in SpecFields["pod"] /\ FirstSpec["names"] \in SpecFields["names"]
        /\ FirstSpec["issuer"] \in SpecFields["issuer"] /\ FirstSpec["etcd"] \in SpecFields["etcd"]
    BY DEF FirstSpec, SpecFields
  <2> QED
    BY <2>1, <2>2, <2>3, <2>4 DEF WellFormed
<1>2. \A o \in Objects : spec[o] = FirstSpec /\ dep[o] = NoDeployment
  BY DEF Init
<1>3. /\ spec = [o \in Objects |-> spec[o]] /\ dep = [o \in Objects |-> dep[o]]
      /\ svc = [o \in Objects |-> svc[o]] /\ cert = [o \in Objects |-> cert[o]]
      /\ memory = [r \in Resources |-> memory[r]]
  BY Zenon DEF Init, Defaults
<1> DEFINE d == NoDeployment
<1>4. /\ d = [exists |-> d.exists, labels |-> d.labels, selector |-> d.selector,
              podLabels |-> d.podLabels, notes |-> d.notes, podNotes |-> d.podNotes,
              res |-> d.res, rep |-> d.rep, node |-> d.node, pull |-> d.pull]
      /\ d.rep = Unset /\ d.selector = Empty
  BY DEF NoDeployment
<1>9. d.exists = FALSE /\ d.node = FALSE
  BY DEF NoDeployment
<1>10. Unset \in Nat
  BY DEF Unset
<1> HIDE DEF d
<1>11. \A o \in Objects : dep[o] = d
  BY <1>2 DEF d
<1>5. Shapes
  BY Zenon, <1>1, <1>2, <1>3, <1>4, <1>9, <1>10, <1>11 DEF Shapes
<1>6. Selected
  BY <1>4, <1>9, <1>11 DEF Selected
<1>7. MemoryExplained
  BY DEF Init, Defaults, MemoryExplained
<1>8. \A o \in Objects : PodsGood(o) /\ CertGood(o)
  BY DEF Init, PodsGood, CertGood, AtRest
<1> QED
  BY <1>5, <1>6, <1>7, <1>8 DEF IInv

\* Every step of the specification.
LEMMA StepGood == IInv /\ [Next]_vars => IInv'
<1> SUFFICES ASSUME IInv, [Next]_vars PROVE IInv'
  OBVIOUS
<1>1. CASE SecretChanges \/ Restart \/ UNCHANGED vars
  BY <1>1, OtherStep
<1>2. ASSUME NEW o \in Objects,
             Edit(o) \/ Scale(o) \/ RolloutRestart(o) \/ Render(o) \/ Certify(o)
      PROVE  IInv'
  BY <1>2, EditStep, OutsideStep, RenderStep, CertifyStep
<1> QED
  BY <1>1, <1>2 DEF Next

\* The inductive invariant holds in every state.
LEMMA InvariantHolds == Spec => []IInv
  BY InitGood, StepGood, PTL DEF Spec

-----------------------------------------------------------------------------
(* The theorems.                                                            *)

\* No Deployment that a pass renders is rejected by the API server, whatever the templates say and
\* whoever changed the Deployment in between (mergeMaps, SetLabels).
THEOREM NoUpdateRejected == Spec => []NeverRejected
<1>1. IInv => NeverRejected
  BY Acceptable DEF IInv
<1> QED
  BY <1>1, InvariantHolds, PTL

\* Every amount of a container at rest is the object's own, the default, or one that another object
\* has left in the package-level defaults of this process (ApplyResources).
THEOREM AmountsExplained == Spec => []ResourcesExplained
<1>1. IInv => ResourcesExplained
  BY DEF IInv, PodsGood, ResourcesExplained
<1> QED
  BY <1>1, InvariantHolds, PTL

\* One pass is enough: a further one over the same object changes nothing but the amounts, so no
\* Deployment is rolled out again and again by the events of its own updates.
THEOREM OnePassSettles == Spec => []Idempotent
<1>1. IInv => Idempotent
  BY Zenon DEF IInv, PodsGood, Idempotent, Sent
<1> QED
  BY <1>1, InvariantHolds, PTL

\* A Certificate at rest names the hosts and the issuer of the present spec
\* (applyCertificateSpecTemplate), however often they were changed.
THEOREM CertificateFollows == Spec => []CertificateCurrent
<1>1. IInv => CertificateCurrent
  BY Zenon DEF IInv, CertGood, CertificateCurrent
<1> QED
  BY <1>1, InvariantHolds, PTL

\* A pass keeps the annotations and the replicas that others have set (ApplyCommonShardConfig), and
\* brings a CacheServer on its embedded etcd back to one replica.
THEOREM PassKeepsOthers == Spec => OthersKept
<1> DEFINE Kept(o) ==
      Render(o) /\ dep[o].exists =>
          /\ DOMAIN dep[o].podNotes \subseteq DOMAIN dep'[o].podNotes
          /\ kind # "CacheServer" /\ spec[o].rep = Unset => dep'[o].rep = dep[o].rep
          /\ kind = "CacheServer" /\ ~spec[o].etcd => dep'[o].rep = 1
<1>1. ASSUME IInv, NEW o \in Objects PROVE Kept(o)
  <2> SUFFICES ASSUME Render(o), dep[o].exists
               PROVE  /\ DOMAIN dep[o].podNotes \subseteq DOMAIN dep'[o].podNotes
                      /\ kind # "CacheServer" /\ spec[o].rep = Unset => dep'[o].rep = dep[o].rep
                      /\ kind = "CacheServer" /\ ~spec[o].etcd => dep'[o].rep = 1
    OBVIOUS
  <2>1. dep'[o] = Sent(o)
    BY <1>1, RenderDoes DEF IInv, Shapes
  <2>2. SentFields(o)
    BY SentAre DEF AllSent
  <2>3. /\ dep'[o].podNotes = mergeMaps(dep[o].podNotes, TemplateNotes(spec[o]))
        /\ dep'[o].rep = Count(kind, spec[o], dep[o].rep)
    BY Zenon, <2>1, <2>2 DEF SentFields
  <2>4. dep[o].rep \in Nat /\ dep[o].rep > 0 /\ WellFormed(spec[o])
    BY <1>1 DEF IInv, Shapes, Selected
  <2>5. DOMAIN dep[o].podNotes \subseteq DOMAIN dep'[o].podNotes
    BY <2>3, MergeKeeps
  <2> QED
    BY <2>3, <2>4, <2>5, Counts
<1>2. IInv /\ [Next]_vars => [\A o \in Objects : Kept(o)]_vars
  BY <1>1
<1> QED
  BY <1>2, InvariantHolds, PTL DEF Spec, OthersKept

=============================================================================
