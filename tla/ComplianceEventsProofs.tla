----------------------- MODULE ComplianceEventsProofs -----------------------
(***************************************************************************)
(* Why no change of a reference and no change of an unpaused cluster's     *)
(* labels is lost, for any number of clusters, references, compliances and *)
(* workers, and any sequence of events, edits, failures, deletions and     *)
(* restarts.                                                               *)
(***************************************************************************)
EXTENDS ComplianceMapsProofs

-----------------------------------------------------------------------------
(* References.                                                              *)

\* The kinds whose content is read; the keys of the others may differ too.
ReadKinds == \A r \in Reference : KindOf[r] \notin {"OCIRepository", "Bucket"}

Covered(a) == CoveredPass(a) /\ CoveredStatus(a)

\* What a step must leave of the events for what a content covers to stay covered.
EventsKept(b) ==
  /\ Pending(b) => Pending(b)'
  /\ AddonComplianceToReferenceMap'[b] = AddonComplianceToReferenceMap[b]
  /\ \A r \in Reference : resource'[r].data = resource[r].data \/ r \in referenceEvents'
  /\ \A r \in Reference : WillFind(b, r) => WillFind(b, r)' \/ Pending(b)'

\* Recorded references stay covered when data changes or an event is handled.
LEMMA CoversKept ==
  ASSUME NEW b \in Compliance, NEW content, NEW spec, spec.refs \subseteq Reference,
         NEW refs \in SUBSET spec.refs, RecordedAre(b, spec), Covers(content, refs, b),
         EventsKept(b)
  PROVE  \A r \in Reference :
           IF r \in refs THEN content[r].data = resource'[r].data \/ Pending(b)' \/ WillFind(b, r)'
           ELSE content[r].data = NoData
<1> SUFFICES ASSUME NEW r \in Reference
             PROVE  IF r \in refs
                    THEN content[r].data = resource'[r].data \/ Pending(b)' \/ WillFind(b, r)'
                    ELSE content[r].data = NoData
  OBVIOUS
<1>1. CASE r \notin refs
  BY <1>1 DEF Covers
<1>2. CASE r \in refs
  <2>1. RecordedKey(r) \in AddonComplianceToReferenceMap[b]
    BY <1>2 DEF RecordedAre, CurrentReferences
  <2>2. content[r].data = resource[r].data \/ Pending(b) \/ WillFind(b, r)
    BY <1>2 DEF Covers
  <2>3. resource'[r].data # resource[r].data => WillFind(b, r)'
    BY <2>1 DEF EventsKept, WillFind
  <2> QED BY <1>2, <2>2, <2>3 DEF EventsKept
<1> QED BY <1>1, <1>2

\* A compliance that is not touched itself stays covered, and so does one whose
\* object changes if that puts it in the queue.
LEMMA CoveredFrame ==
  ASSUME TypeOK, NEW b \in Compliance, Covered(b), EventsKept(b), pass'[b] = pass[b],
         compliance'[b] = compliance[b] \/ Pending(b)'
  PROVE  Covered(b)'
<1>0. /\ pass[b].spec.refs \subseteq Reference
      /\ compliance[b].spec.refs \subseteq Reference
  <2>1. pass[b].spec \in Specs \cup {BlankSpec} /\ compliance[b].spec \in Specs \cup {BlankSpec}
    BY DEF TypeOK, PassStates, ComplianceObjects
  <2> QED BY <2>1, SpecTypes
<1>1. CoveredPass(b)'
  <2>1. compliance[b]'.phase = "live" /\ pass[b]'.pc # "idle" => Pending(b)' \/ OnCurrentSpec(b)'
    BY DEF Covered, CoveredPass, OnCurrentSpec, EventsKept
  <2>2. \A spec : RecordedAre(b, spec) => AddonComplianceToReferenceMap'[b] = CurrentReferences(spec)
    BY DEF EventsKept, RecordedAre
  <2>3. ASSUME ~pass[b].deleting, RecordedPass(b)
        PROVE  RecordedAre(b, pass[b].spec)'
    <3>1. RecordedAre(b, pass[b].spec)
      BY <2>3 DEF Covered, CoveredPass
    <3> QED BY <3>1, <2>2 DEF RecordedAre, CurrentReferences, RecordedKey
  <2>4. ASSUME ~pass[b].deleting, pass[b].pc = "collect"
        PROVE  Covers(pass[b].content, pass[b].spec.refs \ pass[b].toCollect, b)'
    <3>1. /\ RecordedAre(b, pass[b].spec)
          /\ Covers(pass[b].content, pass[b].spec.refs \ pass[b].toCollect, b)
      BY <2>4 DEF Covered, CoveredPass, RecordedPass
    <3> DEFINE content == pass[b].content
               refs == pass[b].spec.refs \ pass[b].toCollect
    <3>2. \A r \in Reference :
            IF r \in refs THEN content[r].data = resource'[r].data \/ Pending(b)' \/ WillFind(b, r)'
            ELSE content[r].data = NoData
      <4>1. refs \in SUBSET pass[b].spec.refs
        OBVIOUS
      <4>2. Covers(content, refs, b)
        BY <3>1
      <4> HIDE DEF content, refs
      <4> QED BY <1>0, <3>1, <4>1, <4>2, CoversKept
    <3> QED BY <3>2 DEF Covers
  <2>5. ASSUME ~pass[b].deleting, Complete(b)
        PROVE  Covers(pass[b].content, pass[b].spec.refs, b)'
    <3>1. RecordedAre(b, pass[b].spec) /\ Covers(pass[b].content, pass[b].spec.refs, b)
      BY <2>5 DEF Covered, CoveredPass, RecordedPass
    <3> DEFINE content == pass[b].content
               refs == pass[b].spec.refs
    <3>2. \A r \in Reference :
            IF r \in refs THEN content[r].data = resource'[r].data \/ Pending(b)' \/ WillFind(b, r)'
            ELSE content[r].data = NoData
      <4>1. refs \in SUBSET pass[b].spec.refs
        OBVIOUS
      <4>2. Covers(content, refs, b)
        BY <3>1
      <4> HIDE DEF content, refs
      <4> QED BY <1>0, <3>1, <4>1, <4>2, CoversKept
    <3> QED BY <3>2 DEF Covers
  <2>6. /\ pass[b].done => pass[b].pc \in {"close", "status"}
        /\ ~pass[b].deleting /\ pass[b].pc = "collect" =>
             pass[b].toCollect \subseteq pass[b].spec.refs
    BY DEF Covered, CoveredPass
  <2> QED BY <2>1, <2>3, <2>4, <2>5, <2>6 DEF CoveredPass, RecordedPass, Complete
<1>2. CoveredStatus(b)'
  <2> SUFFICES ASSUME compliance'[b].phase = "live", pass'[b].pc = "idle", ~Pending(b)'
               PROVE  /\ RecordedAre(b, compliance[b].spec)'
                      /\ Covers(compliance[b].content, compliance[b].spec.refs, b)'
    BY DEF CoveredStatus
  <2>1. compliance'[b] = compliance[b] /\ ~Pending(b)
    BY DEF EventsKept
  <2>2. /\ RecordedAre(b, compliance[b].spec)
        /\ Covers(compliance[b].content, compliance[b].spec.refs, b)
    BY <2>1 DEF Covered, CoveredStatus
  <2>3. RecordedAre(b, compliance[b].spec)'
    BY <2>1, <2>2 DEF EventsKept, RecordedAre, CurrentReferences, RecordedKey
  <2>4. Covers(compliance[b].content, compliance[b].spec.refs, b)'
    <3> DEFINE content == compliance[b].content
               refs == compliance[b].spec.refs
    <3>1. \A r \in Reference :
            IF r \in refs THEN content[r].data = resource'[r].data \/ Pending(b)' \/ WillFind(b, r)'
            ELSE content[r].data = NoData
      <4>1. refs \in SUBSET compliance[b].spec.refs /\ Covers(content, refs, b)
        BY <2>2
      <4> HIDE DEF content, refs
      <4> QED BY <1>0, <2>2, <4>1, CoversKept
    <3> QED BY <2>1, <3>1 DEF Covers
  <2> QED BY <2>3, <2>4
<1> QED BY <1>1, <1>2 DEF Covered

\* Every change of the data of a reference passes the predicate of its kind.
LEMMA ChangesPass ==
  ASSUME NEW r \in Reference, NEW new, new.data # resource[r].data,
         resource[r].present \/ new.present
  PROVE  ReferenceEventPasses(r, resource[r], new)
<1>1. KindOf[r] \in Kinds
  BY MapsAssumption
<1> QED BY <1>1 DEF ReferenceEventPasses, ConfigMapPasses, SecretPasses, FluxSourcePasses,
                    HasArtifactChanged, Creates, Updates, Deletes, Kinds, FluxKinds

\* So it leaves an event for the compliances that recorded the reference.
LEMMA ReferenceStepKeeps ==
  ASSUME TypeOK, NEW b \in Compliance, NEW r \in Reference,
         \/ DeleteReference(r)
         \/ \E new \in ResourceVersions(r) : CreateReference(r, new) \/ UpdateReference(r, new)
  PROVE  EventsKept(b) /\ UNCHANGED <<pass, compliance, handler>>
<1>1. PICK new : ChangeReference(r, new) /\ (resource[r].present \/ new.present)
  BY DEF DeleteReference, CreateReference, UpdateReference, ResourceVersions
<1>2. UNCHANGED <<pass, compliance, queue, handler, AddonComplianceToReferenceMap>>
  BY <1>1 DEF ChangeReference, references
<1>3. referenceEvents \subseteq referenceEvents'
  BY <1>1 DEF ChangeReference
<1>4. ASSUME NEW q \in Reference
      PROVE  resource'[q].data = resource[q].data \/ q \in referenceEvents'
  <2>1. CASE q # r
    BY <1>1, <2>1 DEF ChangeReference, TypeOK
  <2>2. CASE q = r /\ new.data # resource[r].data
    BY <1>1, <2>2, ChangesPass DEF ChangeReference
  <2>3. CASE q = r /\ new.data = resource[r].data
    BY <1>1, <2>3 DEF ChangeReference, TypeOK
  <2> QED BY <2>1, <2>2, <2>3
<1> QED BY <1>2, <1>3, <1>4 DEF EventsKept, Pending, WillFind

\* Users do nothing that uncovers a compliance.
LEMMA CoveredUserStep ==
  ASSUME TypeOK, ContentCovered, UserStep
  PROVE  ContentCovered'
<1> USE DEF ContentCovered
<1>1. ASSUME NEW r \in Reference,
             \/ DeleteReference(r)
             \/ \E new \in ResourceVersions(r) : CreateReference(r, new) \/ UpdateReference(r, new)
      PROVE  ContentCovered'
  <2>1. ASSUME NEW b \in Compliance
        PROVE  Covered(b)'
    <3>1. EventsKept(b) /\ UNCHANGED <<pass, compliance, handler>>
      BY <1>1, ReferenceStepKeeps
    <3> QED BY <3>1, CoveredFrame DEF Covered
  <2>2. UNCHANGED handler
    BY <1>1 DEF DeleteReference, CreateReference, UpdateReference, ChangeReference
  <2> QED BY <2>1, <2>2 DEF Covered, MuxFree
<1>2. ASSUME NEW a \in Compliance, NEW object, ComplianceChanges(a, object)
      PROVE  ContentCovered'
  <2>1. /\ UNCHANGED <<resource, referenceEvents, handler, pass, AddonComplianceToReferenceMap>>
        /\ queue' = queue \cup {a}
        /\ compliance' = [compliance EXCEPT ![a] = object]
    BY <1>2 DEF ComplianceChanges, references, events
  <2>2. ASSUME NEW b \in Compliance
        PROVE  Covered(b)'
    <3>1. EventsKept(b)
      BY <2>1 DEF EventsKept, Pending, WillFind
    <3>2. compliance'[b] = compliance[b] \/ Pending(b)'
      BY <2>1 DEF TypeOK, Pending
    <3> QED BY <2>1, <3>1, <3>2, CoveredFrame DEF Covered
  <2> QED BY <2>1, <2>2 DEF Covered, MuxFree
<1>3. ASSUME UNCHANGED <<resource, referenceEvents, handler, pass, compliance, queue,
                         AddonComplianceToReferenceMap>>
      PROVE  ContentCovered'
  <2>1. ASSUME NEW b \in Compliance
        PROVE  Covered(b)'
    <3>1. EventsKept(b)
      BY <1>3 DEF EventsKept, Pending, WillFind
    <3> QED BY <1>3, <3>1, CoveredFrame DEF Covered
  <2> QED BY <1>3, <2>1 DEF Covered, MuxFree
<1>4. CASE \/ \E c \in Cluster : \E new \in ClusterVersions(c) :
                CreateCluster(c, new) \/ UpdateCluster(c, new)
           \/ \E c \in Cluster : DeleteCluster(c) \/ ClusterGone(c)
           \/ \E c \in Cluster, phase \in Phases : ChangeMachine(c, phase)
  BY <1>3, <1>4 DEF CreateCluster, UpdateCluster, DeleteCluster, ClusterGone, ChangeCluster,
                    ChangeMachine, references
<1>5. CASE \/ \E a \in Compliance, spec \in Specs : CreateCompliance(a, spec) \/ EditCompliance(a, spec)
           \/ \E a \in Compliance : DeleteCompliance(a)
  BY <1>2, <1>5 DEF CreateCompliance, EditCompliance, DeleteCompliance
<1> QED BY <1>1, <1>4, <1>5 DEF UserStep

\* A handler finds who recorded the reference, and loses nobody it found.
LEMMA CoveredHandlerStep ==
  ASSUME TypeOK, MapsInverse, ReadKinds, ContentCovered, HandlerStep
  PROVE  ContentCovered'
<1>1. /\ UNCHANGED <<pass, compliance, resource, AddonComplianceToReferenceMap>>
      /\ queue \subseteq queue'
      /\ MuxFree' => handler'.requests = {}
  BY DEF HandlerStep, RequeueForCluster, RequeueForMachine, RequeueForReference, HandlerReturns,
         objects, references, MuxFree, NoHandler
<1>2. ASSUME NEW b \in Compliance
      PROVE  EventsKept(b)
  <2>1. Pending(b) => Pending(b)'
    <3>1. CASE MuxFree
      BY <1>1, <3>1 DEF Pending, ContentCovered
    <3>2. CASE ~MuxFree
      BY <3>2 DEF HandlerStep, RequeueForCluster, RequeueForMachine, RequeueForReference,
                  HandlerReturns, Pending
    <3> QED BY <3>1, <3>2
  <2>2. ASSUME NEW r \in Reference, WillFind(b, r)
        PROVE  WillFind(b, r)' \/ Pending(b)'
    <3>1. CASE RequeueForReference(r)
      <4>1. b \in ReferenceMap[RecordedKey(r)]
        BY <2>2, KeyTypes DEF MapsInverse, WillFind
      <4>2. RecordedKey(r) = EventKey(r)
        <5>1. KindOf[r] \in {"ConfigMap", "Secret", "GitRepository"}
          BY MapsAssumption DEF ReadKinds, Kinds, FluxKinds
        <5> QED BY <5>1 DEF RecordedKey, EventKey, ReferenceAPIVersion, EventAPIVersion
      <4> QED BY <3>1, <4>1, <4>2 DEF RequeueForReference, Pending
    <3>2. CASE ~RequeueForReference(r)
      <4>1. r \in referenceEvents'
        BY <2>2, <3>2 DEF HandlerStep, RequeueForCluster, RequeueForMachine, RequeueForReference,
                          HandlerReturns, WillFind
      <4> QED BY <1>1, <2>2, <4>1 DEF WillFind
    <3> QED BY <3>1, <3>2
  <2> QED BY <1>1, <2>1, <2>2 DEF EventsKept
<1>3. ASSUME NEW b \in Compliance
      PROVE  Covered(b)'
  BY <1>1, <1>2, CoveredFrame DEF Covered, ContentCovered
<1> QED BY <1>1, <1>3 DEF ContentCovered, Covered

\* A pass takes nothing from the queue and no event away.
LEMMA PassLeavesEvents ==
  ASSUME TypeOK, NEW a \in Compliance, PassStep(a)
  PROVE  UNCHANGED <<resource, referenceEvents, handler>> /\ queue \subseteq queue'
BY DEF PassStep, AddFinalizer, GetMatchingClusters, UpdateReferenceMap, UpdateClusterMap,
       WriteSelector, CollectLuaValidations, CleanMaps, AnnotateClusters, PatchMetadata,
       PatchStatus, objects, events

\* What a pass that collected covers stays so while nobody records.
LEMMA CoversStay ==
  ASSUME NEW a \in Compliance, NEW content, NEW refs, Covers(content, refs, a),
         UNCHANGED <<resource, referenceEvents, AddonComplianceToReferenceMap>>,
         Pending(a) => Pending(a)'
  PROVE  \A r \in Reference :
           IF r \in refs THEN content[r].data = resource'[r].data \/ Pending(a)' \/ WillFind(a, r)'
           ELSE content[r].data = NoData
BY DEF Covers, WillFind

\* The start of a pass takes the current spec with the compliance from the queue.
LEMMA CoveredReconcile ==
  ASSUME TypeOK, NEW a \in Compliance, Reconcile(a)
  PROVE  Covered(a)'
<1>1. compliance'[a] = compliance[a]
  BY DEF Reconcile, objects
<1>2. compliance[a].phase \in {"absent", "terminating", "live"}
  BY DEF TypeOK, ComplianceObjects
<1>3. \/ compliance[a].phase # "live" /\ pass'[a].pc = "idle" /\ ~pass'[a].done
      \/ /\ compliance[a].phase # "live"
         /\ pass'[a].pc = "clean" /\ pass'[a].deleting /\ ~pass'[a].done
      \/ /\ pass'[a].pc \in {"match", "finalize"} /\ ~pass'[a].deleting /\ ~pass'[a].done
         /\ pass'[a].spec = compliance[a].spec
  BY <1>2 DEF Reconcile, NoPass, TypeOK
<1> QED BY <1>1, <1>3 DEF Covered, CoveredPass, CoveredStatus, OnCurrentSpec, RecordedPass, Complete

\* Until it has recorded its references a pass need not cover anything, and a
\* failed pass or one that deletes need not either.
LEMMA CoveredIfNothingRead ==
  ASSUME TypeOK, NEW a \in Compliance, Covered(a), PassStep(a),
         pass'[a].deleting = pass[a].deleting, pass'[a].spec = pass[a].spec,
         compliance'[a].phase = "live" =>
           compliance[a].phase = "live" /\ compliance'[a].spec = compliance[a].spec,
         pass[a].pc # "idle", pass'[a].pc # "idle", ~pass'[a].done,
         \/ pass'[a].deleting
         \/ pass'[a].pc \in {"match", "references", "close", "status"}
  PROVE  Covered(a)'
<1>1. Pending(a) => Pending(a)'
  BY PassLeavesEvents DEF Pending
<1> QED BY <1>1 DEF Covered, CoveredPass, CoveredStatus, OnCurrentSpec, RecordedPass, Complete

\* A pass reads what it has recorded, and what it has read stays covered.
LEMMA CoveredPassStep ==
  ASSUME TypeOK, RecordedHeld, ReadKinds, NEW a \in Compliance, Covered(a), PassStep(a)
  PROVE  Covered(a)'
<1>0. /\ pass[a] \in PassStates /\ compliance[a] \in ComplianceObjects
      /\ pass[a].spec.refs \subseteq Reference
      /\ HeldOrClean(a)
  <2>1. pass[a] \in PassStates /\ pass[a].spec \in Specs \cup {BlankSpec}
    BY DEF TypeOK, PassStates
  <2> QED BY <2>1, SpecTypes DEF TypeOK, RecordedHeld
<1>p. /\ UNCHANGED <<resource, referenceEvents, handler>> /\ queue \subseteq queue'
      /\ Pending(a) => Pending(a)'
  BY PassLeavesEvents DEF Pending
<1>d. pass[a].done => pass[a].pc \in {"close", "status"}
  BY DEF Covered, CoveredPass
<1>1. CASE AddFinalizer(a)
  <2>1. /\ pass[a].pc = "finalize"
        /\ \/ pass'[a] = [pass[a] EXCEPT !.pc = "match"]
           \/ pass'[a] = [pass[a] EXCEPT !.pc = "close"]
        /\ \/ compliance'[a] = compliance[a]
           \/ compliance'[a] = [compliance[a] EXCEPT !.finalizer = TRUE]
    BY <1>1 DEF AddFinalizer, TypeOK
  <2>2. /\ pass'[a].deleting = pass[a].deleting /\ pass'[a].spec = pass[a].spec
        /\ pass'[a].done = pass[a].done /\ pass'[a].pc \in {"match", "close"}
        /\ compliance'[a].phase = compliance[a].phase /\ compliance'[a].spec = compliance[a].spec
    BY <1>0, <2>1 DEF PassStates, ComplianceObjects
  <2> QED BY <1>d, <2>1, <2>2, CoveredIfNothingRead
<1>2. CASE GetMatchingClusters(a)
  <2>1. /\ pass[a].pc = "match" /\ compliance' = compliance
        /\ \/ pass'[a] = [pass[a] EXCEPT !.pc = "references", !.labels = MatchingClusters(pass[a].spec),
                                         !.matching = MatchingClusters(pass[a].spec),
                                         !.tracked = SelectorRecorded(a, pass[a].spec)]
           \/ pass'[a] = [pass[a] EXCEPT !.pc = "close", !.failed = TRUE]
    BY <1>2 DEF GetMatchingClusters, TypeOK, objects
  <2>2. /\ pass'[a].deleting = pass[a].deleting /\ pass'[a].spec = pass[a].spec
        /\ pass'[a].done = pass[a].done /\ pass'[a].pc \in {"references", "close"}
    BY <1>0, <2>1 DEF PassStates
  <2> QED BY <1>d, <2>1, <2>2, CoveredIfNothingRead
<1>3. CASE UpdateReferenceMap(a)
  <2>1. /\ pass[a].pc = "references" /\ compliance' = compliance
        /\ pass'[a] = [pass[a] EXCEPT !.pc = "clusters"]
        /\ AddonComplianceToReferenceMap'[a] = CurrentReferences(pass[a].spec)
    BY <1>3 DEF UpdateReferenceMap, TypeOK, objects
  <2>2. /\ pass'[a].deleting = pass[a].deleting /\ pass'[a].spec = pass[a].spec
        /\ pass'[a].done = pass[a].done /\ pass'[a].pc = "clusters"
    BY <1>0, <2>1 DEF PassStates
  <2>3. RecordedAre(a, pass[a].spec)'
    BY <2>1, <2>2 DEF RecordedAre, CurrentReferences, RecordedKey
  <2> QED BY <1>p, <1>d, <2>1, <2>2, <2>3
          DEF Covered, CoveredPass, CoveredStatus, OnCurrentSpec, RecordedPass, Complete
<1>4. CASE UpdateClusterMap(a)
  <2>1. /\ pass[a].pc = "clusters" /\ compliance' = compliance
        /\ pass'[a] = [pass[a] EXCEPT !.pc = "write"]
        /\ UNCHANGED AddonComplianceToReferenceMap
    BY <1>4 DEF UpdateClusterMap, TypeOK, objects, references
  <2>2. /\ pass'[a].deleting = pass[a].deleting /\ pass'[a].spec = pass[a].spec
        /\ pass'[a].done = pass[a].done /\ pass'[a].pc = "write"
    BY <1>0, <2>1 DEF PassStates
  <2>3. ~pass[a].deleting => RecordedAre(a, pass[a].spec)'
    BY <2>1, <2>2 DEF Covered, CoveredPass, RecordedPass, RecordedAre, CurrentReferences, RecordedKey
  <2> QED BY <1>p, <1>d, <2>1, <2>2, <2>3
          DEF Covered, CoveredPass, CoveredStatus, OnCurrentSpec, RecordedPass, Complete
<1>5. CASE WriteSelector(a)
  <2>1. /\ pass[a].pc = "write" /\ compliance' = compliance
        /\ pass'[a] = [pass[a] EXCEPT !.pc = "collect", !.toCollect = pass[a].spec.refs,
                                      !.content = NoContent]
        /\ UNCHANGED AddonComplianceToReferenceMap
    BY <1>5 DEF WriteSelector, TypeOK, objects, references
  <2>2. /\ pass'[a].deleting = pass[a].deleting /\ pass'[a].spec = pass[a].spec
        /\ pass'[a].done = pass[a].done /\ pass'[a].pc = "collect"
        /\ pass'[a].toCollect = pass[a].spec.refs /\ pass'[a].content = NoContent
    BY <1>0, <2>1 DEF PassStates
  <2>3. ~pass[a].deleting => RecordedAre(a, pass[a].spec)'
    BY <2>1, <2>2 DEF Covered, CoveredPass, RecordedPass, RecordedAre, CurrentReferences, RecordedKey
  <2>4. Covers(pass[a].content, pass[a].spec.refs \ pass[a].toCollect, a)'
    BY <2>2 DEF Covers, NoContent, NotCollected
  <2> QED BY <1>p, <1>d, <2>1, <2>2, <2>3, <2>4
          DEF Covered, CoveredPass, CoveredStatus, OnCurrentSpec, RecordedPass, Complete
<1>7. CASE CleanMaps(a)
  <2>1. /\ pass[a].pc = "clean" /\ compliance' = compliance
        /\ pass'[a] = [pass[a] EXCEPT !.pc = "annotate"]
    BY <1>7 DEF CleanMaps, TypeOK, objects
  <2>2. /\ pass'[a].deleting /\ pass[a].deleting /\ pass'[a].spec = pass[a].spec
        /\ pass'[a].done = pass[a].done /\ pass'[a].pc = "annotate"
    BY <1>0, <2>1 DEF PassStates, HeldOrClean
  <2> QED BY <1>d, <2>1, <2>2, CoveredIfNothingRead
<1>6. CASE CollectLuaValidations(a)
  <2>1. /\ pass[a].pc = "collect" /\ compliance' = compliance
        /\ ~pass[a].deleting /\ ~pass[a].done
        /\ UNCHANGED AddonComplianceToReferenceMap
    BY <1>0, <1>6, <1>d DEF CollectLuaValidations, objects, references, HeldOrClean
  <2>2. /\ RecordedAre(a, pass[a].spec)
        /\ pass[a].toCollect \subseteq pass[a].spec.refs
        /\ Covers(pass[a].content, pass[a].spec.refs \ pass[a].toCollect, a)
    BY <2>1 DEF Covered, CoveredPass, RecordedPass
  <2>3. RecordedAre(a, pass[a].spec) => AddonComplianceToReferenceMap'[a] = CurrentReferences(pass[a].spec)
    BY <2>1 DEF RecordedAre
  <2> DEFINE content == pass[a].content
             refs == pass[a].spec.refs \ pass[a].toCollect
  <2>4. \A q \in Reference :
          IF q \in refs THEN content[q].data = resource'[q].data \/ Pending(a)' \/ WillFind(a, q)'
          ELSE content[q].data = NoData
    <3>1. Covers(content, refs, a)
      BY <2>2
    <3> HIDE DEF content, refs
    <3> QED BY <1>p, <2>1, <3>1, CoversStay
  <2>5. ASSUME NEW r \in pass[a].toCollect, NEW order \in 1..Walks[r],
               pass'[a] = [pass[a] EXCEPT !.toCollect = @ \ {r}, !.content[r] = Collected(r, order)]
        PROVE  Covered(a)'
    <3>1. r \in pass[a].spec.refs /\ r \in Reference
      BY <1>0, <2>2
    <3>2. /\ pass'[a].deleting = pass[a].deleting /\ pass'[a].spec = pass[a].spec
          /\ pass'[a].done = pass[a].done /\ pass'[a].pc = "collect"
          /\ pass'[a].toCollect = pass[a].toCollect \ {r}
          /\ pass'[a].content = [content EXCEPT ![r] = Collected(r, order)]
      BY <1>0, <2>1, <2>5 DEF PassStates
    <3>3. Collected(r, order).data = resource'[r].data
      BY <1>p, <3>1 DEF Collected, NotCollected, ReadKinds
    <3>4. content \in Contents
      BY <1>0 DEF PassStates
    <3>5. Covers(pass[a].content, pass[a].spec.refs \ pass[a].toCollect, a)'
      <4>1. \A q \in Reference :
              IF q \in refs \cup {r}
              THEN pass'[a].content[q].data = resource'[q].data \/ Pending(a)' \/ WillFind(a, q)'
              ELSE pass'[a].content[q].data = NoData
        <5> HIDE DEF content, refs
        <5> QED BY <2>4, <3>1, <3>2, <3>3, <3>4 DEF Contents
      <4>2. pass'[a].spec.refs \ pass'[a].toCollect = refs \cup {r}
        BY <3>1, <3>2
      <4> QED BY <4>1, <4>2 DEF Covers
    <3>6. RecordedAre(a, pass[a].spec)'
      BY <2>2, <2>3, <3>2 DEF RecordedAre, CurrentReferences, RecordedKey
    <3> QED BY <1>p, <2>1, <2>2, <3>2, <3>5, <3>6
            DEF Covered, CoveredPass, CoveredStatus, OnCurrentSpec, RecordedPass, Complete
  <2>6. ASSUME pass[a].toCollect = {}, pass'[a] = [pass[a] EXCEPT !.pc = "annotate"]
        PROVE  Covered(a)'
    <3>1. /\ pass'[a].deleting = pass[a].deleting /\ pass'[a].spec = pass[a].spec
          /\ pass'[a].done = pass[a].done /\ pass'[a].pc = "annotate"
          /\ pass'[a].content = content
      BY <1>0, <2>6 DEF PassStates
    <3>2. Covers(pass[a].content, pass[a].spec.refs, a)'
      <4>1. refs = pass[a].spec.refs
        BY <2>6
      <4> QED BY <2>4, <3>1, <4>1 DEF Covers
    <3>3. RecordedAre(a, pass[a].spec)'
      BY <2>2, <2>3, <3>1 DEF RecordedAre, CurrentReferences, RecordedKey
    <3> QED BY <1>p, <2>1, <3>1, <3>2, <3>3
            DEF Covered, CoveredPass, CoveredStatus, OnCurrentSpec, RecordedPass, Complete
  <2>7. ASSUME pass'[a] = [pass[a] EXCEPT !.pc = "close", !.toCollect = {},
                                          !.content = compliance[a].content, !.failed = TRUE]
        PROVE  Covered(a)'
    <3>1. /\ pass'[a].deleting = pass[a].deleting /\ pass'[a].spec = pass[a].spec
          /\ pass'[a].done = pass[a].done /\ pass'[a].pc = "close"
      BY <1>0, <2>7 DEF PassStates
    <3> QED BY <2>1, <3>1, CoveredIfNothingRead
  <2>8. \/ \E r \in pass[a].toCollect : \E order \in 1..Walks[r] :
             pass'[a] = [pass[a] EXCEPT !.toCollect = @ \ {r}, !.content[r] = Collected(r, order)]
        \/ pass[a].toCollect = {} /\ pass'[a] = [pass[a] EXCEPT !.pc = "annotate"]
        \/ pass'[a] = [pass[a] EXCEPT !.pc = "close", !.toCollect = {},
                                      !.content = compliance[a].content, !.failed = TRUE]
    BY <1>6 DEF CollectLuaValidations, TypeOK
  <2> QED BY <2>5, <2>6, <2>7, <2>8
<1>8. CASE AnnotateClusters(a)
  <2>1. /\ pass[a].pc = "annotate" /\ compliance' = compliance /\ ~pass[a].done
        /\ UNCHANGED AddonComplianceToReferenceMap
        /\ \/ pass'[a] = [pass[a] EXCEPT !.pc = "close", !.failed = FALSE, !.done = TRUE]
           \/ pass'[a] = [pass[a] EXCEPT !.pc = "close", !.failed = TRUE]
    BY <1>8, <1>d DEF AnnotateClusters, TypeOK, objects, references
  <2>2. /\ pass'[a].deleting = pass[a].deleting /\ pass'[a].spec = pass[a].spec
        /\ pass'[a].pc = "close" /\ pass'[a].content = pass[a].content
    BY <1>0, <2>1 DEF PassStates
  <2>3. ASSUME ~pass[a].deleting
        PROVE  RecordedAre(a, pass[a].spec)' /\ Covers(pass[a].content, pass[a].spec.refs, a)'
    <3>1. RecordedAre(a, pass[a].spec) /\ Covers(pass[a].content, pass[a].spec.refs, a)
      BY <2>1, <2>3 DEF Covered, CoveredPass, RecordedPass, Complete
    <3> DEFINE content == pass[a].content
               refs == pass[a].spec.refs
    <3>2. \A q \in Reference :
            IF q \in refs THEN content[q].data = resource'[q].data \/ Pending(a)' \/ WillFind(a, q)'
            ELSE content[q].data = NoData
      <4>1. Covers(content, refs, a)
        BY <3>1
      <4> HIDE DEF content, refs
      <4> QED BY <1>p, <2>1, <4>1, CoversStay
    <3> QED BY <2>1, <2>2, <3>1, <3>2 DEF Covers, RecordedAre, CurrentReferences, RecordedKey
  <2> QED BY <1>p, <2>1, <2>2, <2>3
          DEF Covered, CoveredPass, CoveredStatus, OnCurrentSpec, RecordedPass, Complete
<1>9. CASE PatchMetadata(a)
  <2>1. /\ pass[a].pc = "close" /\ UNCHANGED AddonComplianceToReferenceMap
        /\ \/ pass'[a] = [pass[a] EXCEPT !.pc = "status"]
           \/ pass'[a] = [pass[a] EXCEPT !.pc = "status", !.done = FALSE]
        /\ \/ compliance'[a] = compliance[a]
           \/ compliance'[a] = NoObject
           \/ compliance'[a] = [compliance[a] EXCEPT !.finalizer = TRUE, !.labels = pass[a].labels]
    BY <1>9 DEF PatchMetadata, MetadataPatched, TypeOK, references
  <2>2. /\ pass'[a].deleting = pass[a].deleting /\ pass'[a].spec = pass[a].spec
        /\ pass'[a].pc = "status" /\ pass'[a].content = pass[a].content
        /\ pass'[a].done => pass[a].done
    BY <1>0, <2>1 DEF PassStates
  <2>3. compliance'[a].phase = "live" =>
          compliance[a].phase = "live" /\ compliance'[a].spec = compliance[a].spec
    <3>1. CASE compliance'[a] = NoObject
      BY <3>1 DEF NoObject
    <3>2. CASE compliance'[a] = [compliance[a] EXCEPT !.finalizer = TRUE, !.labels = pass[a].labels]
      BY <1>0, <3>2 DEF ComplianceObjects
    <3> QED BY <2>1, <3>1, <3>2
  <2>4. ASSUME ~pass[a].deleting, pass'[a].done
        PROVE  RecordedAre(a, pass[a].spec)' /\ Covers(pass[a].content, pass[a].spec.refs, a)'
    <3>1. RecordedAre(a, pass[a].spec) /\ Covers(pass[a].content, pass[a].spec.refs, a)
      BY <2>2, <2>4 DEF Covered, CoveredPass, RecordedPass, Complete
    <3> DEFINE content == pass[a].content
               refs == pass[a].spec.refs
    <3>2. \A q \in Reference :
            IF q \in refs THEN content[q].data = resource'[q].data \/ Pending(a)' \/ WillFind(a, q)'
            ELSE content[q].data = NoData
      <4>1. Covers(content, refs, a)
        BY <3>1
      <4> HIDE DEF content, refs
      <4> QED BY <1>p, <2>1, <4>1, CoversStay
    <3> QED BY <2>1, <2>2, <3>1, <3>2 DEF Covers, RecordedAre, CurrentReferences, RecordedKey
  <2> QED BY <1>p, <2>1, <2>2, <2>3, <2>4
          DEF Covered, CoveredPass, CoveredStatus, OnCurrentSpec, RecordedPass, Complete
<1>10. CASE PatchStatus(a)
  <2>1. /\ pass[a].pc = "status" /\ UNCHANGED AddonComplianceToReferenceMap
        /\ pass'[a] = NoPassAfter(a)
        /\ \/ a \in queue'
           \/ pass[a].done /\ StatusPatched(a) = compliance[a] /\ compliance'[a] = compliance[a]
    BY <1>10 DEF PatchStatus, TypeOK, references
  <2>2. CASE Pending(a)'
    BY <2>1, <2>2 DEF Covered, CoveredPass, CoveredStatus, RecordedPass, Complete, NoPass, NoPassAfter
  <2>3. CASE ~Pending(a)'
    <3>1. /\ ~Pending(a) /\ pass[a].done
          /\ StatusPatched(a) = compliance[a] /\ compliance'[a] = compliance[a]
      BY <1>p, <2>1, <2>3 DEF Pending
    <3>2. ASSUME compliance[a].phase = "live"
          PROVE  /\ RecordedAre(a, compliance[a].spec)'
                 /\ Covers(compliance[a].content, compliance[a].spec.refs, a)'
      <4>1. ~pass[a].deleting /\ pass[a].spec = compliance[a].spec
        BY <2>1, <3>1, <3>2 DEF Covered, CoveredPass, OnCurrentSpec
      <4>2. compliance[a].content = pass[a].content
        BY <1>0, <3>1, <4>1 DEF StatusPatched, ComplianceObjects
      <4>3. RecordedAre(a, compliance[a].spec) /\ Covers(compliance[a].content, compliance[a].spec.refs, a)
        BY <3>1, <4>1, <4>2 DEF Covered, CoveredPass, RecordedPass, Complete
      <4> DEFINE content == compliance[a].content
                 refs == compliance[a].spec.refs
      <4>4. \A q \in Reference :
              IF q \in refs THEN content[q].data = resource'[q].data \/ Pending(a)' \/ WillFind(a, q)'
              ELSE content[q].data = NoData
        <5>1. Covers(content, refs, a)
          BY <4>3
        <5> HIDE DEF content, refs
        <5> QED BY <1>p, <2>1, <5>1, CoversStay
      <4> QED BY <2>1, <3>1, <4>3, <4>4 DEF Covers, RecordedAre, CurrentReferences, RecordedKey
    <3> QED BY <2>1, <3>1, <3>2
            DEF Covered, CoveredPass, CoveredStatus, RecordedPass, Complete, NoPass, NoPassAfter
  <2> QED BY <2>2, <2>3
<1> QED BY <1>1, <1>2, <1>3, <1>4, <1>5, <1>6, <1>7, <1>8, <1>9, <1>10 DEF PassStep

\* No step uncovers a compliance.
LEMMA ContentCoveredStep ==
  ASSUME ReadKinds, TypeOK, MapsInverse, RecordedHeld, ContentCovered, [Next]_vars
  PROVE  ContentCovered'
<1>1. CASE UNCHANGED vars
  BY <1>1 DEF vars, objects, references, events, ContentCovered, CoveredPass, CoveredStatus,
              Covers, Pending, WillFind, OnCurrentSpec, RecordedPass, RecordedAre, Complete,
              CurrentReferences, RecordedKey, MuxFree
<1>2. CASE Restart
  <2>1. /\ compliance' = compliance /\ handler' = NoHandler
        /\ \A a \in Compliance : /\ pass'[a] = NoPass
                                 /\ compliance[a].phase = "live" => a \in queue'
    BY <1>2 DEF Restart, objects
  <2> QED BY <2>1 DEF ContentCovered, CoveredPass, CoveredStatus, RecordedPass, Complete, Pending,
                      NoPass, NoHandler
<1>3. ASSUME NEW a \in Compliance, Reconcile(a) \/ PassStep(a)
      PROVE  ContentCovered'
  <2>1. Covered(a)'
    BY <1>3, CoveredReconcile, CoveredPassStep DEF ContentCovered, Covered
  <2>2. /\ UNCHANGED <<resource, referenceEvents, handler>>
        /\ queue \ {a} \subseteq queue'
    BY <1>3, PassLeavesEvents DEF Reconcile, objects, events
  <2>3. ASSUME NEW b \in Compliance, b # a
        PROVE  Covered(b)'
    <3>1. EventsKept(b)
      BY <1>3, <2>2, <2>3, PassStepFrame DEF EventsKept, Pending, WillFind
    <3> QED BY <1>3, <2>3, <3>1, PassStepFrame, CoveredFrame DEF ContentCovered, Covered
  <2> QED BY <2>1, <2>2, <2>3 DEF ContentCovered, Covered, MuxFree
<1> QED BY <1>1, <1>2, <1>3, CoveredUserStep, CoveredHandlerStep DEF Next

\* The content of every status is current, or an event or a pass to come will
\* renew it, if all references are of kinds whose content is read.
THEOREM ContentCoveredHolds == ASSUME ReadKinds PROVE Spec => []ContentCovered
<1>1. Init => ContentCovered
  BY DEF Init, ContentCovered, CoveredPass, CoveredStatus, RecordedPass, Complete, NoPass,
         NoObject, NoHandler
<1>2. TypeOK /\ MapsInverse /\ RecordedHeld /\ ContentCovered /\ [Next]_vars => ContentCovered'
  BY ContentCoveredStep
<1> QED BY <1>1, <1>2, MapsTypeCorrect, MapsInverseHolds, RecordedHeldHolds, PTL DEF Spec

\* So no change of a reference is lost: at rest, each status shows it.
THEOREM QuietContentHolds == ASSUME ReadKinds PROVE Spec => []QuietContent
<1>1. ContentCovered => QuietContent
  <2> SUFFICES ASSUME ContentCovered, Quiet, NEW a \in Compliance, compliance[a].phase = "live"
               PROVE  Shows(a)
    BY DEF QuietContent
  <2>1. ~Pending(a) /\ pass[a].pc = "idle" /\ \A r \in Reference : ~WillFind(a, r)
    BY DEF Quiet, Passes, ContentCovered, Pending, WillFind
  <2>2. Covers(compliance[a].content, compliance[a].spec.refs, a)
    BY <2>1 DEF ContentCovered, CoveredStatus
  <2> QED BY <2>1, <2>2 DEF Covers, Shows
<1> QED BY <1>1, ContentCoveredHolds, PTL

-----------------------------------------------------------------------------
(* Clusters.                                                                *)

\* The last element of a sequence.
LEMMA LastElement ==
  ASSUME NEW S, NEW s \in Seq(S), NEW x \in S, NEW y \in S
  PROVE  /\ s \o <<x>> # <<>> /\ (s \o <<x>>)[Len(s \o <<x>>)] = x
         /\ s \o <<y, x>> # <<>> /\ (s \o <<y, x>>)[Len(s \o <<y, x>>)] = x
         /\ s # <<>> => IF Tail(s) = <<>> THEN Head(s) = s[Len(s)]
                        ELSE Tail(s)[Len(Tail(s))] = s[Len(s)]
<1>1. Len(s \o <<x>>) = Len(s) + 1 /\ (s \o <<x>>)[Len(s) + 1] = x
  OBVIOUS
<1>2. Len(s \o <<y, x>>) = Len(s) + 2 /\ (s \o <<y, x>>)[Len(s) + 2] = x
  OBVIOUS
<1>3. Len(s) \in Nat /\ Len(<<>>) = 0
  OBVIOUS
<1>4. ASSUME s # <<>>
      PROVE  IF Tail(s) = <<>> THEN Head(s) = s[Len(s)]
             ELSE Tail(s)[Len(Tail(s))] = s[Len(s)]
  <2>1. /\ Tail(s) \in Seq(S) /\ Len(Tail(s)) = Len(s) - 1 /\ Head(s) = s[1]
        /\ \A i \in 1..Len(s) - 1 : Tail(s)[i] = s[i + 1]
    BY <1>4
  <2>2. CASE Tail(s) = <<>>
    <3>1. Len(s) = 1
      BY <1>3, <2>1, <2>2
    <3> QED BY <2>1, <2>2, <3>1
  <2>3. CASE Tail(s) # <<>>
    <3>1. Len(Tail(s)) \in 1..Len(s) - 1
      BY <1>3, <2>1, <2>3
    <3> QED BY <1>3, <2>1, <2>3, <3>1
  <2> QED BY <2>2, <2>3
<1> QED BY <1>1, <1>2, <1>3, <1>4

\* A change of an unpaused cluster that its predicate drops leaves its labels.
LEMMA TrackedChange ==
  ASSUME TypeOK, LabelsTracked, NEW c \in Cluster, NEW new \in ClusterObjects,
         ChangeCluster(c, new), cluster[c].present \/ new.present
  PROVE  LabelsTracked'
<1>0. /\ ClusterLabels' = ClusterLabels
      /\ \A d \in Cluster : clusterEvents[d] \in Seq(SUBSET Label)
      /\ cluster[c].labels \in SUBSET Label /\ new.labels \in SUBSET Label
  BY DEF ChangeCluster, cached, TypeOK, ClusterObjects
<1>1. ASSUME NEW d \in Cluster, d # c
      PROVE  cluster'[d] = cluster[d] /\ clusterEvents'[d] = clusterEvents[d]
  BY <1>1 DEF ChangeCluster, TypeOK
<1>2. cluster'[c] = new
  BY DEF ChangeCluster, TypeOK
<1>3. CASE ClusterEventPasses(c, cluster[c], new) /\ new.present
  <2>1. \/ HandledLabels(cluster[c], new) = <<new.labels>>
        \/ HandledLabels(cluster[c], new) = <<cluster[c].labels, new.labels>>
    BY <1>3 DEF HandledLabels, Creates, Deletes
  <2>2. clusterEvents'[c] = clusterEvents[c] \o HandledLabels(cluster[c], new)
    BY <1>3 DEF ChangeCluster, TypeOK
  <2>3. /\ clusterEvents'[c] # <<>>
        /\ clusterEvents'[c][Len(clusterEvents'[c])] = new.labels
    <3> DEFINE s == clusterEvents[c]
               y == cluster[c].labels
               x == new.labels
    <3>1. clusterEvents'[c] = s \o <<x>> \/ clusterEvents'[c] = s \o <<y, x>>
      BY <2>1, <2>2
    <3>2. s \in Seq(SUBSET Label) /\ x \in SUBSET Label /\ y \in SUBSET Label
      BY <1>0
    <3> HIDE DEF s, x, y
    <3>3. clusterEvents'[c] # <<>> /\ clusterEvents'[c][Len(clusterEvents'[c])] = x
      BY <3>1, <3>2, LastElement
    <3> QED BY <3>3 DEF x
  <2> QED BY <1>0, <1>1, <1>2, <2>3 DEF LabelsTracked
<1>4. CASE ~ClusterEventPasses(c, cluster[c], new) \/ ~new.present
  <2>1. CASE ~new.present \/ new.paused
    BY <1>0, <1>1, <1>2, <2>1 DEF LabelsTracked
  <2>2. CASE new.present /\ ~new.paused
    <3>1. /\ cluster[c].present /\ ~cluster[c].paused /\ cluster[c].labels = new.labels
          /\ clusterEvents'[c] = clusterEvents[c]
      BY <1>4, <2>2 DEF ClusterEventPasses, SveltosClusterPasses, ClusterPasses, Creates, Updates,
                        ChangeCluster, TypeOK, ClusterObjects
    <3> QED BY <1>0, <1>1, <1>2, <3>1 DEF LabelsTracked
  <2> QED BY <2>1, <2>2
<1> QED BY <1>3, <1>4

\* Passes do nothing to clusters and to what handlers know of them.
LEMMA PassLeavesClusters ==
  ASSUME NEW a \in Compliance, Reconcile(a) \/ PassStep(a)
  PROVE  UNCHANGED <<cluster, clusterEvents, ClusterLabels>>
<1> USE DEF objects, cached, events
<1>1. CASE Reconcile(a) \/ AddFinalizer(a) \/ GetMatchingClusters(a) \/ UpdateReferenceMap(a)
  BY <1>1 DEF Reconcile, AddFinalizer, GetMatchingClusters, UpdateReferenceMap
<1>2. CASE UpdateClusterMap(a) \/ WriteSelector(a) \/ CollectLuaValidations(a)
  BY <1>2 DEF UpdateClusterMap, WriteSelector, CollectLuaValidations
<1>3. CASE CleanMaps(a) \/ AnnotateClusters(a) \/ PatchMetadata(a) \/ PatchStatus(a)
  BY <1>3 DEF CleanMaps, AnnotateClusters, PatchMetadata, PatchStatus
<1> QED BY <1>1, <1>2, <1>3 DEF PassStep

\* No step loses track of the labels of an unpaused cluster.
LEMMA LabelsTrackedStep ==
  ASSUME TypeOK, LabelsTracked, [Next]_vars
  PROVE  LabelsTracked'
<1>0. CASE UNCHANGED <<cluster, clusterEvents, ClusterLabels>>
  BY <1>0 DEF LabelsTracked
<1>1. CASE UserStep
  <2>1. CASE \E c \in Cluster : \/ DeleteCluster(c) \/ ClusterGone(c)
                                \/ \E new \in ClusterVersions(c) :
                                     CreateCluster(c, new) \/ UpdateCluster(c, new)
    <3>1. PICK c \in Cluster, new \in ClusterObjects :
             ChangeCluster(c, new) /\ (cluster[c].present \/ new.present)
      <4>1. \A c \in Cluster : [cluster[c] EXCEPT !.terminating = TRUE] \in ClusterObjects
        BY DEF TypeOK, ClusterObjects
      <4> QED BY <2>1, <4>1, VersionTypes, BlankTypes
              DEF CreateCluster, UpdateCluster, DeleteCluster, ClusterGone, ClusterVersions
    <3> QED BY <3>1, TrackedChange
  <2>2. CASE \/ \E c \in Cluster, phase \in Phases : ChangeMachine(c, phase)
             \/ \E r \in Reference : \E new \in ResourceVersions(r) :
                  CreateReference(r, new) \/ UpdateReference(r, new)
             \/ \E r \in Reference : DeleteReference(r)
             \/ \E a \in Compliance, spec \in Specs :
                  CreateCompliance(a, spec) \/ EditCompliance(a, spec)
             \/ \E a \in Compliance : DeleteCompliance(a)
    BY <1>0, <2>2 DEF ChangeMachine, CreateReference, UpdateReference, DeleteReference,
         ChangeReference, CreateCompliance, EditCompliance, DeleteCompliance, ComplianceChanges,
         cached, events
  <2> QED BY <1>1, <2>1, <2>2 DEF UserStep
<1>2. CASE Restart
  <2>1. ASSUME NEW c \in Cluster, cluster'[c].present, ~cluster'[c].paused
        PROVE  /\ clusterEvents'[c] # <<>>
               /\ clusterEvents'[c][Len(clusterEvents'[c])] = cluster'[c].labels
    <3>1. cluster' = cluster
      BY <1>2 DEF Restart, objects
    <3>2. ClusterEventPasses(c, NoCluster, cluster[c])
      BY <2>1, <3>1 DEF ClusterEventPasses, SveltosClusterPasses, ClusterPasses, Creates, NoCluster
    <3>3. clusterEvents'[c] = <<cluster[c].labels>>
      BY <1>2, <3>2 DEF Restart
    <3> QED BY <3>1, <3>3
  <2> QED BY <2>1 DEF LabelsTracked
<1>3. ASSUME NEW c \in Cluster, RequeueForCluster(c)
      PROVE  LabelsTracked'
  <2>1. /\ clusterEvents[c] \in Seq(SUBSET Label) /\ clusterEvents[c] # <<>>
        /\ clusterEvents'[c] = Tail(clusterEvents[c])
        /\ ClusterLabels' = Put(ClusterLabels, c, Head(clusterEvents[c]))
        /\ \A d \in Cluster \ {c} : clusterEvents'[d] = clusterEvents[d]
        /\ cluster' = cluster
    BY <1>3 DEF RequeueForCluster, TypeOK, objects
  <2>2. /\ c \in DOMAIN ClusterLabels' /\ ClusterLabels'[c] = Head(clusterEvents[c])
        /\ \A d \in DOMAIN ClusterLabels \ {c} :
             d \in DOMAIN ClusterLabels' /\ ClusterLabels'[d] = ClusterLabels[d]
    BY <2>1 DEF Put
  <2>3. IF clusterEvents'[c] = <<>>
        THEN Head(clusterEvents[c]) = clusterEvents[c][Len(clusterEvents[c])]
        ELSE clusterEvents'[c][Len(clusterEvents'[c])] = clusterEvents[c][Len(clusterEvents[c])]
    BY <2>1, LastElement
  <2>4. ASSUME cluster'[c].present, ~cluster'[c].paused
        PROVE  IF clusterEvents'[c] = <<>>
               THEN c \in DOMAIN ClusterLabels' /\ ClusterLabels'[c] = cluster'[c].labels
               ELSE clusterEvents'[c][Len(clusterEvents'[c])] = cluster'[c].labels
    <3>1. clusterEvents[c][Len(clusterEvents[c])] = cluster'[c].labels
      BY <2>1, <2>4 DEF LabelsTracked
    <3> QED BY <2>2, <2>3, <3>1
  <2>5. ASSUME NEW d \in Cluster \ {c}, cluster'[d].present, ~cluster'[d].paused
        PROVE  IF clusterEvents'[d] = <<>>
               THEN d \in DOMAIN ClusterLabels' /\ ClusterLabels'[d] = cluster'[d].labels
               ELSE clusterEvents'[d][Len(clusterEvents'[d])] = cluster'[d].labels
    BY <2>1, <2>2, <2>5 DEF LabelsTracked
  <2> QED BY <2>4, <2>5 DEF LabelsTracked
<1>4. CASE \/ \E c \in Cluster : RequeueForMachine(c)
           \/ \E r \in Reference : RequeueForReference(r)
           \/ HandlerReturns
  BY <1>0, <1>4 DEF RequeueForMachine, RequeueForReference, HandlerReturns, objects, cached
<1>6. ASSUME NEW a \in Compliance, Reconcile(a) \/ PassStep(a)
      PROVE  LabelsTracked'
  BY <1>0, <1>6, PassLeavesClusters
<1>5. CASE UNCHANGED vars
  BY <1>0, <1>5 DEF vars, objects, cached, events
<1> QED BY <1>1, <1>2, <1>3, <1>4, <1>5, <1>6 DEF Next, HandlerStep

\* What is known of an unpaused cluster, or about to be, is what it is.
THEOREM LabelsTrackedHolds == Spec => []LabelsTracked
<1>1. Init => LabelsTracked
  BY DEF Init, LabelsTracked, NoCluster
<1>2. TypeOK /\ LabelsTracked /\ [Next]_vars => LabelsTracked'
  BY LabelsTrackedStep
<1> QED BY <1>1, <1>2, MapsTypeCorrect, PTL DEF Spec

\* So a machine event finds the compliances that match the cluster now.
THEOREM LabelsFreshHolds == Spec => []LabelsFresh
<1>1. LabelsTracked => LabelsFresh
  BY DEF LabelsTracked, LabelsFresh
<1> QED BY <1>1, LabelsTrackedHolds, PTL
=============================================================================
