-------------------------- MODULE Inspector_proofs --------------------------
(***************************************************************************)
(* What the guard of evidenceRequest keeps out: a request whose number is  *)
(* still the counter was made for what is on show now, and its answers     *)
(* were taken since the present document arrived.                          *)
(***************************************************************************)
EXTENDS Inspector, TLAPS

RequestOK(r, counter, subject, document) ==
    /\ r.number <= counter
    /\ r.number = counter => /\ r.of = subject
                             /\ r.source # Nothing => r.source >= document
                             /\ r.diff # Nothing => r.diff >= document

RequestsOK == \A r \in requests : RequestOK(r, evidenceRequest, Present, view.document)

InspectorInv ==
    InspectorTypeOK /\ RequestsOK /\ EvidenceIsOfThePresent /\ EvidenceNotOlder

(* No request and no evidence survives a change of what is on show.        *)
LEMMA EffectKeepsInv ==
    ASSUME InspectorInv, EffectRuns, UNCHANGED serverVars,
           view' \in Views, view'.document <= generation
    PROVE  InspectorInv'
<1> USE InspectorAssumption
<1>1. /\ evidenceRequest \in Nat
      /\ evidenceRequest' = evidenceRequest + 2
      /\ occurrence' = Nothing
      /\ sourceEvidence' = Nothing /\ diffEvidence' = Nothing /\ evidenceError' = FALSE
  BY DEF EffectRuns, NoEvidence, InspectorInv, InspectorTypeOK
<1> DEFINE new == Request(evidenceRequest', Present')
<1>2. new \in Requests /\ RequestOK(new, evidenceRequest', Present', view'.document)
  <2>1. Present' \in Subjects
    BY <1>1 DEF Present, Subjects
  <2>2. evidenceRequest' \in Nat
    BY <1>1
  <2> QED
    BY <2>1, <2>2 DEF Request, Requests, RequestOK
<1>3. \A r \in requests' : r \in requests \/ r = new
  BY DEF EffectRuns
<1>4. InspectorTypeOK'
  <2>1. requests' \subseteq Requests
    BY <1>2, <1>3 DEF InspectorInv, InspectorTypeOK
  <2>2. disk' = disk /\ generation' = generation
    BY DEF serverVars
  <2>3. evidenceError' \in BOOLEAN
    BY <1>1, Zenon
  <2>4. evidenceRequest' \in Nat
    BY <1>1
  <2> QED
    BY <1>1, <2>1, <2>2, <2>3, <2>4 DEF InspectorInv, InspectorTypeOK
<1>5. RequestsOK'
  <2>1. ASSUME NEW r \in requests
        PROVE  RequestOK(r, evidenceRequest', Present', view'.document)
    <3>1. r.number \in Nat /\ r.number <= evidenceRequest
      BY DEF InspectorInv, InspectorTypeOK, RequestsOK, RequestOK, Requests
    <3> QED
      BY <1>1, <3>1 DEF RequestOK
  <2> QED
    BY <1>2, <1>3, <2>1 DEF RequestsOK
<1> QED
  BY <1>1, <1>4, <1>5 DEF InspectorInv, EvidenceIsOfThePresent, EvidenceNotOlder

(* What an answer is taken from is not older than the document on show.    *)
LEMMA AnswerKeepsInv ==
    ASSUME InspectorInv, NEW r \in requests, NEW answered \in Requests,
           answered.number = r.number, answered.of = r.of,
           answered.source \in {r.source, disk}, answered.diff \in {r.diff, generation},
           Answered(r, answered)
    PROVE  InspectorInv'
<1>1. UNCHANGED <<serverVars, view, occurrence, evidenceRequest, evidenceVars>>
  BY DEF Answered
<1>2. InspectorTypeOK'
  BY <1>1 DEF Answered, InspectorInv, InspectorTypeOK, serverVars, evidenceVars
<1>3. RequestOK(answered, evidenceRequest, Present, view.document)
  <2>1. RequestOK(r, evidenceRequest, Present, view.document)
    BY DEF InspectorInv, RequestsOK
  <2>2. disk >= view.document /\ generation >= view.document
    BY InspectorAssumption DEF InspectorInv, InspectorTypeOK, Versions, Views
  <2> QED
    BY <2>1, <2>2 DEF RequestOK
<1>4. RequestsOK'
  BY <1>1, <1>3 DEF Answered, InspectorInv, RequestsOK, Present
<1> QED
  BY <1>1, <1>2, <1>4
  DEF InspectorInv, EvidenceIsOfThePresent, EvidenceNotOlder, Present, evidenceVars

(* Evidence that is set comes from a request that is current.              *)
LEMMA SettledKeepsInv ==
    ASSUME InspectorInv, NEW r \in requests, Settled(r),
           evidenceError' \in BOOLEAN,
           \/ sourceEvidence' = sourceEvidence
           \/ /\ Current(r) /\ r.source # Nothing
              /\ sourceEvidence' = [of |-> r.of, version |-> r.source],
           \/ diffEvidence' = diffEvidence
           \/ /\ Current(r) /\ r.diff # Nothing /\ r.of.occurrence = Nothing
              /\ diffEvidence' = [of |-> r.of, version |-> r.diff]
    PROVE  InspectorInv'
<1>1. UNCHANGED <<serverVars, view, occurrence, evidenceRequest>> /\ requests' \subseteq requests
  BY DEF Settled
<1>2. r \in Requests /\ RequestOK(r, evidenceRequest, Present, view.document)
  BY DEF InspectorInv, InspectorTypeOK, RequestsOK
<1>3. RequestsOK'
  BY <1>1 DEF InspectorInv, RequestsOK, Present
<1>4. /\ {sourceEvidence', diffEvidence'} \subseteq Evidence \cup {Nothing}
      /\ InspectorTypeOK'
  <2>1. sourceEvidence' \in Evidence \cup {Nothing}
    BY <1>2 DEF InspectorInv, InspectorTypeOK, Evidence, Requests
  <2>2. diffEvidence' \in Evidence \cup {Nothing}
    BY <1>2 DEF InspectorInv, InspectorTypeOK, Evidence, Requests
  <2> QED
    BY <1>1, <2>1, <2>2 DEF InspectorInv, InspectorTypeOK, serverVars
<1>5. EvidenceIsOfThePresent'
  <2>1. Present' = Present
    BY <1>1 DEF Present
  <2>2. sourceEvidence' # Nothing => sourceEvidence'.of = Present
    BY <1>2 DEF InspectorInv, EvidenceIsOfThePresent, Current, RequestOK
  <2>3. diffEvidence' # Nothing => diffEvidence'.of = [Present EXCEPT !.occurrence = Nothing]
    <3>1. CASE diffEvidence' = diffEvidence
      BY <3>1 DEF InspectorInv, EvidenceIsOfThePresent
    <3>2. CASE Current(r) /\ r.of.occurrence = Nothing /\ diffEvidence' = [of |-> r.of, version |-> r.diff]
      BY <1>2, <3>2 DEF Current, RequestOK, Present
    <3> QED
      BY <3>1, <3>2
  <2> QED
    BY <2>1, <2>2, <2>3 DEF EvidenceIsOfThePresent
<1>6. EvidenceNotOlder'
  BY <1>1, <1>2 DEF InspectorInv, EvidenceNotOlder, Current, RequestOK
<1> QED
  BY <1>3, <1>4, <1>5, <1>6 DEF InspectorInv

LEMMA InspectorStep == InspectorInv /\ [InspectorNext]_inspectorVars => InspectorInv'
<1> SUFFICES ASSUME InspectorInv, [InspectorNext]_inspectorVars
             PROVE  InspectorInv'
  OBVIOUS
<1> USE InspectorAssumption
<1>1. ASSUME NEW item \in Nodes \cup Edges \cup {Nothing}, Select(item)
      PROVE  InspectorInv'
  <2>1. view' \in Views /\ view'.document <= generation
    BY <1>1 DEF Select, InspectorInv, InspectorTypeOK, Views
  <2> QED
    BY <1>1, <2>1, EffectKeepsInv DEF Select
<1>2. ASSUME NEW base \in Bases, ChooseBase(base)
      PROVE  InspectorInv'
  <2>1. view' \in Views /\ view'.document <= generation
    BY <1>2 DEF ChooseBase, InspectorInv, InspectorTypeOK, Views
  <2> QED
    BY <1>2, <2>1, EffectKeepsInv DEF ChooseBase
<1>3. ASSUME NEW version \in Versions, DocumentArrives(version)
      PROVE  InspectorInv'
  <2>1. view' \in Views /\ view'.document <= generation
    BY <1>3 DEF DocumentArrives, InspectorInv, InspectorTypeOK, Views
  <2> QED
    BY <1>3, <2>1, EffectKeepsInv DEF DocumentArrives
<1>4. ASSUME NEW place \in Occurrences, InspectOccurrence(place)
      PROVE  InspectorInv'
  <2> DEFINE new == Request(evidenceRequest', [view |-> view, occurrence |-> place])
  <2>1. /\ evidenceRequest \in Nat
        /\ evidenceRequest' = evidenceRequest + 1
        /\ occurrence' = place
        /\ sourceEvidence' = Nothing /\ evidenceError' = FALSE
        /\ requests' = requests \cup {new}
        /\ UNCHANGED <<serverVars, view, diffEvidence>>
    BY <1>4 DEF InspectOccurrence, InspectorInv, InspectorTypeOK
  <2>2. Present' = [view |-> view, occurrence |-> place]
    BY <2>1 DEF Present
  <2>3. new \in Requests
    BY <2>1 DEF Request, Requests, Subjects, InspectorInv, InspectorTypeOK
  <2>4. InspectorTypeOK'
    <3>1. disk' = disk /\ generation' = generation
      BY <2>1 DEF serverVars
    <3>2. evidenceError' \in BOOLEAN
      BY <2>1, Zenon
    <3>3. evidenceRequest' \in Nat /\ requests' \subseteq Requests
      BY <2>1, <2>3 DEF InspectorInv, InspectorTypeOK
    <3> QED
      BY <2>1, <3>1, <3>2, <3>3 DEF InspectorInv, InspectorTypeOK
  <2>5. RequestsOK'
    <3>1. ASSUME NEW r \in requests
          PROVE  RequestOK(r, evidenceRequest', Present', view.document)
      <4>1. r.number \in Nat /\ r.number <= evidenceRequest
        BY DEF InspectorInv, InspectorTypeOK, RequestsOK, RequestOK, Requests
      <4> QED
        BY <2>1, <4>1 DEF RequestOK
    <3>2. RequestOK(new, evidenceRequest', Present', view.document)
      BY <2>1, <2>2 DEF Request, RequestOK
    <3> QED
      BY <2>1, <3>1, <3>2 DEF RequestsOK
  <2>6. EvidenceIsOfThePresent'
    BY <2>1, <2>2 DEF InspectorInv, EvidenceIsOfThePresent, Present
  <2> QED
    BY <2>1, <2>4, <2>5, <2>6 DEF InspectorInv, EvidenceNotOlder
<1>5. CASE Edit
  <2>1. /\ disk' \in Versions /\ disk' >= disk
        /\ UNCHANGED <<generation, view, occurrence, evidenceRequest, requests, evidenceVars>>
    BY <1>5 DEF Edit, InspectorInv, InspectorTypeOK, Versions
  <2>2. InspectorTypeOK'
    BY <2>1 DEF InspectorInv, InspectorTypeOK, evidenceVars, Versions
  <2> QED
    BY <2>1, <2>2
    DEF InspectorInv, RequestsOK, Present, EvidenceIsOfThePresent, EvidenceNotOlder, evidenceVars
<1>6. CASE Publish
  <2>1. /\ generation' \in 0 .. disk /\ generation' >= generation
        /\ UNCHANGED <<disk, view, occurrence, evidenceRequest, requests, evidenceVars>>
    BY <1>6 DEF Publish, InspectorInv, InspectorTypeOK, Versions
  <2>2. InspectorTypeOK'
    BY <2>1 DEF InspectorInv, InspectorTypeOK, evidenceVars, Versions, Views
  <2> QED
    BY <2>1, <2>2
    DEF InspectorInv, RequestsOK, Present, EvidenceIsOfThePresent, EvidenceNotOlder, evidenceVars
<1>7. ASSUME NEW r \in requests, SourceHandled(r)
      PROVE  InspectorInv'
  <2> DEFINE answered == [r EXCEPT !.source = disk]
  <2>1. /\ answered \in Requests
        /\ answered.number = r.number /\ answered.of = r.of
        /\ answered.source = disk /\ answered.diff = r.diff
    BY DEF InspectorInv, InspectorTypeOK, Requests
  <2> QED
    BY <1>7, <2>1, AnswerKeepsInv DEF SourceHandled
<1>8. ASSUME NEW r \in requests, DiffHandled(r)
      PROVE  InspectorInv'
  <2> DEFINE answered == [r EXCEPT !.diff = generation]
  <2>1. /\ answered \in Requests
        /\ answered.number = r.number /\ answered.of = r.of
        /\ answered.source = r.source /\ answered.diff = generation
    BY DEF InspectorInv, InspectorTypeOK, Requests, Versions
  <2> QED
    BY <1>8, <2>1, AnswerKeepsInv DEF DiffHandled
<1>9. ASSUME NEW r \in requests, Received(r)
      PROVE  InspectorInv'
  <2>0. evidenceError \in BOOLEAN
    BY DEF InspectorInv, InspectorTypeOK
  <2>1. CASE EvidenceLoaded(r)
    BY <2>0, <2>1, SettledKeepsInv DEF EvidenceLoaded, evidenceVars
  <2>2. CASE OccurrenceLoaded(r)
    BY <2>0, <2>2, SettledKeepsInv DEF OccurrenceLoaded, evidenceVars
  <2>3. CASE RequestFailed(r)
    BY <2>0, <2>3, SettledKeepsInv DEF RequestFailed
  <2> QED
    BY <1>9, <2>1, <2>2, <2>3 DEF Received
<1>10. CASE UNCHANGED inspectorVars
  BY <1>10 DEF inspectorVars, serverVars, evidenceVars, InspectorInv, InspectorTypeOK,
       RequestsOK, Present, EvidenceIsOfThePresent, EvidenceNotOlder
<1> QED
  BY <1>1, <1>2, <1>3, <1>4, <1>5, <1>6, <1>7, <1>8, <1>9, <1>10
  DEF InspectorNext, ViewChanges, Handled

LEMMA InspectorStart == InspectorInit => InspectorInv
<1> SUFFICES ASSUME InspectorInit PROVE InspectorInv
  OBVIOUS
<1> USE InspectorAssumption
<1>1. evidenceError \in BOOLEAN
  BY Zenon DEF InspectorInit
<1>2. view \in Views /\ view.document <= generation
  BY DEF InspectorInit, Views, Versions
<1>3. InspectorTypeOK
  BY <1>1, <1>2 DEF InspectorInit, InspectorTypeOK
<1> QED
  BY <1>3 DEF InspectorInit, InspectorInv, RequestsOK, EvidenceIsOfThePresent, EvidenceNotOlder

THEOREM InspectorInvariant == InspectorSpec => []InspectorInv
BY InspectorStart, InspectorStep, PTL DEF InspectorSpec

(* The variables of the Inspector keep their shapes.                       *)
THEOREM InspectorTypeCorrect == InspectorSpec => []InspectorTypeOK
<1>1. InspectorInv => InspectorTypeOK
  BY DEF InspectorInv
<1> QED
  BY <1>1, InspectorInvariant, PTL

(* No late answer is shown as evidence of something else: for any nodes,   *)
(* edges, occurrences and bases, and any number of requests under way      *)
(* (Inspector.tsx:49-72).                                                  *)
THEOREM LateAnswersAreIgnored == InspectorSpec => []EvidenceIsOfThePresent
<1>1. InspectorInv => EvidenceIsOfThePresent
  BY DEF InspectorInv
<1> QED
  BY <1>1, InspectorInvariant, PTL

(* Evidence is never older than the graph it is shown beside, even when    *)
(* the document goes back and forth (Inspector.tsx:59).                    *)
THEOREM EvidenceKeepsUp == InspectorSpec => []EvidenceNotOlder
<1>1. InspectorInv => EvidenceNotOlder
  BY DEF InspectorInv
<1> QED
  BY <1>1, InspectorInvariant, PTL
=============================================================================
