------------------------ MODULE ComplianceMapsProofs ------------------------
(***************************************************************************)
(* What the reconciler's maps guarantee for any number of clusters,        *)
(* references, compliances and workers, and any sequence of events, edits, *)
(* failures, deletions and restarts.                                       *)
(***************************************************************************)
EXTENDS ComplianceMaps, TLAPS

-----------------------------------------------------------------------------
(* Types. *)

\* Put gives a key of the wanted kind a value of the wanted kind.
LEMMA PutType ==
  ASSUME NEW K, NEW V, NEW f \in UNION {[D -> V] : D \in SUBSET K}, NEW k \in K, NEW v \in V
  PROVE  Put(f, k, v) \in UNION {[D -> V] : D \in SUBSET K}
<1>1. PICK D \in SUBSET K : f \in [D -> V]
  OBVIOUS
<1>2. Put(f, k, v) \in [D \cup {k} -> V]
  BY <1>1 DEF Put
<1>3. D \cup {k} \in SUBSET K
  OBVIOUS
<1> QED BY <1>2, <1>3

\* The empty map has every type.
LEMMA NothingType ==
  ASSUME NEW K, NEW V
  PROVE  Nothing \in UNION {[D -> V] : D \in SUBSET K}
<1>1. Nothing \in [{} -> V]
  BY DEF Nothing
<1> QED BY <1>1

\* A bounded counter stays a natural number when one more use is made of it.
LEMMA SpendType ==
  ASSUME TypeOK, NEW counter \in Counters, Spend(counter)
  PROVE  left' \in [Counters -> Nat]
BY DEF TypeOK, Spend

\* A failing API call uses up one failure at most.
LEMMA FailsType ==
  ASSUME TypeOK, NEW call, Fails(call)
  PROVE  left' \in [Counters -> Nat]
BY SpendType DEF Fails, Counters

\* The keys recorded and looked up are keys of ReferenceMap.
LEMMA KeyTypes ==
  ASSUME NEW r \in Reference
  PROVE  RecordedKey(r) \in Keys /\ EventKey(r) \in Keys
<1>1. KindOf[r] \in Kinds
  BY MapsAssumption
<1> QED BY <1>1 DEF RecordedKey, EventKey, Keys, ReferenceAPIVersion, EventAPIVersion, Kinds, FluxKinds

\* A spec names clusters and references that can exist.
LEMMA SpecTypes ==
  ASSUME NEW spec \in Specs \cup {BlankSpec}
  PROVE  /\ spec.selector \subseteq Label
         /\ spec.clusterRefs \subseteq Cluster
         /\ spec.refs \subseteq Reference
         /\ CurrentReferences(spec) \subseteq Keys
<1>1. spec.selector \subseteq Label /\ spec.clusterRefs \subseteq Cluster /\ spec.refs \subseteq Reference
  BY MapsAssumption DEF BlankSpec
<1> QED BY <1>1, KeyTypes DEF CurrentReferences

\* What users and passes make of a compliance.
LEMMA ObjectUpdates ==
  ASSUME NEW o \in ComplianceObjects, NEW spec \in Specs
  PROVE  /\ [o EXCEPT !.phase = "live", !.spec = spec] \in ComplianceObjects
         /\ [o EXCEPT !.spec = spec] \in ComplianceObjects
<1>1. spec \in Specs \cup {BlankSpec}
  OBVIOUS
<1> QED BY <1>1 DEF ComplianceObjects

\* What things are while they are absent or idle.
LEMMA BlankTypes ==
  /\ NoCluster \in ClusterObjects /\ NoResource \in Resources
  /\ NoContent \in Contents /\ NotCollected \in [data : Data \cup {NoData}, order : Nat]
  /\ NoObject \in ComplianceObjects /\ NoPass \in PassStates /\ NoHandler \in Handlers
<1>1. NoContent \in Contents /\ NotCollected \in [data : Data \cup {NoData}, order : Nat]
  BY DEF NoContent, NotCollected, Contents
<1>2. NoObject \in ComplianceObjects
  BY <1>1 DEF NoObject, ComplianceObjects
<1>3. NoPass \in PassStates
  BY <1>1 DEF NoPass, PassStates
<1> QED BY <1>1, <1>2, <1>3 DEF NoCluster, ClusterObjects, NoResource, Resources, NoHandler, Handlers

\* What users make of clusters and of references.
LEMMA VersionTypes ==
  /\ \A c \in Cluster : ClusterVersions(c) \subseteq ClusterObjects
  /\ \A r \in Reference : ResourceVersions(r) \subseteq Resources
<1>1. ASSUME NEW c \in Cluster, NEW new \in ClusterVersions(c)
      PROVE  new \in ClusterObjects
  BY <1>1 DEF ClusterVersions, ClusterObjects
<1>2. ASSUME NEW r \in Reference, NEW new \in ResourceVersions(r)
      PROVE  new \in Resources
  BY <1>2 DEF ResourceVersions, Resources
<1> QED BY <1>1, <1>2

\* The initial state is well typed.
LEMMA InitType == Init => TypeOK
<1> SUFFICES ASSUME Init PROVE TypeOK
  OBVIOUS
<1>1. /\ AddonCompliances \in UNION {[D -> SUBSET Label] : D \in SUBSET Compliance}
      /\ ClusterLabels \in UNION {[D -> SUBSET Label] : D \in SUBSET Cluster}
  BY NothingType DEF Init
<1>3. left \in [Counters -> Nat]
  BY MapsAssumption DEF Init
<1> QED BY <1>1, <1>3, BlankTypes DEF Init, TypeOK, Phases

\* Events of a cluster are appended in order.
LEMMA ChangeClusterType ==
  ASSUME TypeOK, left' \in [Counters -> Nat], NEW c \in Cluster, NEW new \in ClusterObjects,
         ChangeCluster(c, new)
  PROVE  TypeOK'
<1>1. clusterEvents' \in [Cluster -> Seq(SUBSET Label)]
  <2>1. cluster[c].labels \in SUBSET Label /\ new.labels \in SUBSET Label
    BY DEF TypeOK, ClusterObjects
  <2>2. HandledLabels(cluster[c], new) \in Seq(SUBSET Label)
    <3>1. /\ <<cluster[c].labels>> \in Seq(SUBSET Label) /\ <<new.labels>> \in Seq(SUBSET Label)
          /\ <<cluster[c].labels, new.labels>> \in Seq(SUBSET Label)
      BY <2>1
    <3> QED BY <3>1 DEF HandledLabels
  <2>3. clusterEvents[c] \o HandledLabels(cluster[c], new) \in Seq(SUBSET Label)
    BY <2>2 DEF TypeOK
  <2> QED BY <2>3 DEF TypeOK, ChangeCluster
<1> QED BY <1>1 DEF TypeOK, ChangeCluster, references, clusters, cached

\* So are the changes of references.
LEMMA ChangeReferenceType ==
  ASSUME TypeOK, left' \in [Counters -> Nat], NEW r \in Reference, NEW new \in Resources,
         ChangeReference(r, new)
  PROVE  TypeOK'
BY DEF TypeOK, ChangeReference, references, clusters, cached

\* Every change of a compliance puts it in the queue.
LEMMA ComplianceChangesType ==
  ASSUME TypeOK, left' \in [Counters -> Nat], NEW a \in Compliance,
         NEW object \in ComplianceObjects, ComplianceChanges(a, object)
  PROVE  TypeOK'
BY DEF TypeOK, ComplianceChanges, references, clusters, cached, events

\* What users do keeps the types.
LEMMA UserStepType == TypeOK /\ UserStep => TypeOK'
<1> SUFFICES ASSUME TypeOK, UserStep PROVE TypeOK'
  OBVIOUS
<1>1. ASSUME NEW c \in Cluster, NEW new \in ClusterVersions(c),
             CreateCluster(c, new) \/ UpdateCluster(c, new)
      PROVE  TypeOK'
  <2>1. left' \in [Counters -> Nat] /\ ChangeCluster(c, new)
    BY <1>1, SpendType DEF CreateCluster, UpdateCluster, Counters
  <2> QED BY <2>1, ChangeClusterType, VersionTypes
<1>2. ASSUME NEW c \in Cluster, DeleteCluster(c) \/ ClusterGone(c)
      PROVE  TypeOK'
  <2>1. left' \in [Counters -> Nat]
    BY <1>2, SpendType DEF DeleteCluster, ClusterGone, Counters, TypeOK
  <2>2. [cluster[c] EXCEPT !.terminating = TRUE] \in ClusterObjects
    <3>1. cluster[c] \in ClusterObjects
      BY DEF TypeOK
    <3> QED BY <3>1 DEF ClusterObjects
  <2> QED BY <1>2, <2>1, <2>2, ChangeClusterType, BlankTypes DEF DeleteCluster, ClusterGone
<1>3. ASSUME NEW c \in Cluster, NEW phase \in Phases, ChangeMachine(c, phase)
      PROVE  TypeOK'
  <2>1. left' \in [Counters -> Nat]
    BY <1>3, SpendType DEF ChangeMachine, Counters
  <2> QED BY <1>3, <2>1 DEF ChangeMachine, TypeOK, references, clusters, cached
<1>4. ASSUME NEW r \in Reference, NEW new \in ResourceVersions(r),
             CreateReference(r, new) \/ UpdateReference(r, new)
      PROVE  TypeOK'
  <2>1. left' \in [Counters -> Nat] /\ ChangeReference(r, new)
    BY <1>4, SpendType DEF CreateReference, UpdateReference, Counters, TypeOK
  <2> QED BY <2>1, ChangeReferenceType, VersionTypes
<1>5. ASSUME NEW r \in Reference, DeleteReference(r)
      PROVE  TypeOK'
  <2>1. left' \in [Counters -> Nat] /\ ChangeReference(r, NoResource)
    BY <1>5, SpendType DEF DeleteReference, Counters
  <2> QED BY <2>1, ChangeReferenceType, BlankTypes
<1>6. ASSUME NEW a \in Compliance, NEW spec \in Specs, CreateCompliance(a, spec)
      PROVE  TypeOK'
  <2>1. left' \in [Counters -> Nat]
    BY <1>6 DEF CreateCompliance, TypeOK
  <2>2. [NoObject EXCEPT !.phase = "live", !.spec = spec] \in ComplianceObjects
    BY BlankTypes, ObjectUpdates
  <2> QED BY <1>6, <2>1, <2>2, ComplianceChangesType DEF CreateCompliance
<1>7. ASSUME NEW a \in Compliance, NEW spec \in Specs, EditCompliance(a, spec)
      PROVE  TypeOK'
  <2>1. left' \in [Counters -> Nat]
    BY <1>7, SpendType DEF EditCompliance, Counters
  <2>2. [compliance[a] EXCEPT !.spec = spec] \in ComplianceObjects
    <3>1. compliance[a] \in ComplianceObjects
      BY DEF TypeOK
    <3> QED BY <3>1, ObjectUpdates
  <2> QED BY <1>7, <2>1, <2>2, ComplianceChangesType DEF EditCompliance
<1>8. ASSUME NEW a \in Compliance, DeleteCompliance(a)
      PROVE  TypeOK'
  <2>1. left' \in [Counters -> Nat]
    BY <1>8, SpendType DEF DeleteCompliance, Counters
  <2>2. [compliance[a] EXCEPT !.phase = "terminating"] \in ComplianceObjects
    <3>1. compliance[a] \in ComplianceObjects
      BY DEF TypeOK
    <3> QED BY <3>1 DEF ComplianceObjects
  <2> QED BY <1>8, <2>1, <2>2, BlankTypes, ComplianceChangesType DEF DeleteCompliance
<1> QED BY <1>1, <1>2, <1>3, <1>4, <1>5, <1>6, <1>7, <1>8 DEF UserStep

\* A restart empties the maps and lists the objects.
LEMMA RestartType == TypeOK /\ Restart => TypeOK'
<1> SUFFICES ASSUME TypeOK, Restart PROVE TypeOK'
  OBVIOUS
<1>1. /\ AddonCompliances' \in UNION {[D -> SUBSET Label] : D \in SUBSET Compliance}
      /\ ClusterLabels' \in UNION {[D -> SUBSET Label] : D \in SUBSET Cluster}
  BY NothingType DEF Restart
<1>2. clusterEvents' \in [Cluster -> Seq(SUBSET Label)]
  <2>1. \A c \in Cluster : cluster[c].labels \in SUBSET Label
    BY DEF TypeOK, ClusterObjects
  <2>2. \A c \in Cluster : <<cluster[c].labels>> \in Seq(SUBSET Label)
    BY <2>1
  <2>3. <<>> \in Seq(SUBSET Label)
    OBVIOUS
  <2> QED BY <2>2, <2>3 DEF Restart
<1>3. left' \in [Counters -> Nat]
  BY SpendType DEF Restart, Counters
<1> QED BY <1>1, <1>2, <1>3, BlankTypes DEF Restart, TypeOK, objects

\* The handlers keep the types.
LEMMA HandlerStepType == TypeOK /\ HandlerStep => TypeOK'
<1> SUFFICES ASSUME TypeOK, HandlerStep PROVE TypeOK'
  OBVIOUS
<1>0. DOMAIN AddonCompliances \subseteq Compliance
  BY DEF TypeOK
<1>1. ASSUME NEW c \in Cluster, RequeueForCluster(c)
      PROVE  TypeOK'
  <2> DEFINE labels == Head(clusterEvents[c])
  <2>1. labels \in SUBSET Label /\ Tail(clusterEvents[c]) \in Seq(SUBSET Label)
    BY <1>1 DEF RequeueForCluster, TypeOK
  <2>2. ClusterLabels' \in UNION {[D -> SUBSET Label] : D \in SUBSET Cluster}
    <3>1. ClusterLabels' = Put(ClusterLabels, c, labels)
      BY <1>1 DEF RequeueForCluster
    <3>2. ClusterLabels \in UNION {[D -> SUBSET Label] : D \in SUBSET Cluster}
      BY DEF TypeOK
    <3> HIDE DEF labels
    <3> QED BY <2>1, <3>1, <3>2, PutType
  <2>3. handler' \in Handlers
    <3>1. ClusterMap[c] \cup NowMatching(labels) \subseteq Compliance
      BY <1>0 DEF NowMatching, TypeOK
    <3>2. handler' = [pc |-> "iterate", requests |-> ClusterMap[c] \cup NowMatching(labels)]
      BY <1>1 DEF RequeueForCluster
    <3> HIDE DEF labels
    <3> QED BY <3>1, <3>2 DEF Handlers
  <2>4. clusterEvents' \in [Cluster -> Seq(SUBSET Label)]
    BY <1>1, <2>1 DEF RequeueForCluster, TypeOK
  <2> QED BY <1>1, <2>2, <2>3, <2>4 DEF RequeueForCluster, TypeOK, objects, references, clusters
<1>2. ASSUME NEW c \in Cluster, RequeueForMachine(c)
      PROVE  TypeOK'
  <2>1. ClusterMap[c] \cup NowMatching(ClusterLabels[c]) \subseteq Compliance
    BY <1>0 DEF NowMatching, TypeOK
  <2>2. handler' \in Handlers
    BY <1>2, <2>1 DEF RequeueForMachine, Handlers
  <2> QED BY <1>2, <2>2 DEF RequeueForMachine, TypeOK, objects, references, clusters, cached
<1>3. ASSUME NEW r \in Reference, RequeueForReference(r)
      PROVE  TypeOK'
  <2>1. ReferenceMap[EventKey(r)] \subseteq Compliance
    BY KeyTypes DEF TypeOK
  <2>2. handler' \in Handlers
    BY <1>3, <2>1 DEF RequeueForReference, Handlers
  <2> QED BY <1>3, <2>2 DEF RequeueForReference, TypeOK, objects, references, clusters, cached
<1>4. CASE HandlerReturns
  <2>1. handler.requests \subseteq Compliance
    BY DEF TypeOK, Handlers
  <2> QED BY <1>4, <2>1, BlankTypes DEF HandlerReturns, TypeOK, objects, references, clusters, cached
<1> QED BY <1>1, <1>2, <1>3, <1>4 DEF HandlerStep

\* What the steps of a pass make of its state.
LEMMA PassUpdates ==
  ASSUME NEW p \in PassStates
  PROVE  /\ \A pc \in {"match", "close", "clusters", "write", "annotate", "status"} :
              [p EXCEPT !.pc = pc] \in PassStates
         /\ [p EXCEPT !.pc = "close", !.failed = TRUE] \in PassStates
         /\ [p EXCEPT !.pc = "close", !.failed = FALSE, !.done = TRUE] \in PassStates
         /\ [p EXCEPT !.pc = "status", !.done = FALSE] \in PassStates
BY DEF PassStates

\* The set-valued parts of a pass keep their types as well.
LEMMA PassSetUpdates ==
  ASSUME NEW p \in PassStates, NEW C \in SUBSET Cluster, NEW R \in SUBSET Reference,
         NEW content \in Contents
  PROVE  /\ \A t \in BOOLEAN :
              [p EXCEPT !.pc = "references", !.labels = C, !.matching = C, !.tracked = t] \in PassStates
         /\ [p EXCEPT !.pc = "collect", !.toCollect = R, !.content = content] \in PassStates
         /\ [p EXCEPT !.toCollect = R, !.content = content] \in PassStates
         /\ [p EXCEPT !.pc = "close", !.toCollect = R, !.content = content, !.failed = TRUE]
              \in PassStates
BY DEF PassStates

\* Replacing the state of one pass keeps the others.
LEMMA PassReplaced ==
  ASSUME TypeOK, NEW a \in Compliance, NEW p \in PassStates, pass' = [pass EXCEPT ![a] = p]
  PROVE  pass' \in [Compliance -> PassStates]
BY DEF TypeOK

\* The passes keep the types.
LEMMA PassStepType ==
  ASSUME TypeOK, NEW a \in Compliance, Reconcile(a) \/ PassStep(a)
  PROVE  TypeOK'
<1> USE DEF objects, references, clusters, cached, events
<1>0. /\ pass[a] \in PassStates
      /\ compliance[a] \in ComplianceObjects
      /\ pass[a].spec \in Specs \cup {BlankSpec}
  BY DEF TypeOK, PassStates
<1>n. NoPass \in PassStates
  BY BlankTypes
<1>1. CASE Reconcile(a)
  <2>1. [NoPass EXCEPT !.pc = "clean", !.deleting = TRUE] \in PassStates
    BY <1>n DEF PassStates
  <2>2. [NoPass EXCEPT !.pc = IF compliance[a].finalizer THEN "match" ELSE "finalize",
                       !.spec = compliance[a].spec, !.labels = compliance[a].labels,
                       !.matching = compliance[a].matching, !.content = compliance[a].content,
                       !.failed = compliance[a].failed] \in PassStates
    BY <1>0, <1>n DEF PassStates, ComplianceObjects
  <2>3. compliance[a].phase \in {"absent", "terminating", "live"}
    BY <1>0 DEF ComplianceObjects
  <2>4. pass' \in [Compliance -> PassStates]
    BY <1>1, <1>n, <2>1, <2>2, <2>3 DEF Reconcile, TypeOK
  <2> QED BY <1>1, <2>4 DEF Reconcile, TypeOK
<1>2. CASE AddFinalizer(a)
  <2>1. left' \in [Counters -> Nat]
    BY <1>2, FailsType DEF AddFinalizer, TypeOK
  <2>2. compliance' \in [Compliance -> ComplianceObjects]
    <3>1. [compliance[a] EXCEPT !.finalizer = TRUE] \in ComplianceObjects
      BY <1>0 DEF ComplianceObjects
    <3> QED BY <1>2, <3>1 DEF AddFinalizer, TypeOK
  <2>3. pass' \in [Compliance -> PassStates]
    <3>1. [pass[a] EXCEPT !.pc = "match"] \in PassStates /\ [pass[a] EXCEPT !.pc = "close"] \in PassStates
      BY <1>0, PassUpdates
    <3> QED BY <1>2, <3>1 DEF AddFinalizer, TypeOK
  <2> QED BY <1>2, <2>1, <2>2, <2>3 DEF AddFinalizer, TypeOK
<1>3. CASE GetMatchingClusters(a)
  <2>1. left' \in [Counters -> Nat]
    BY <1>3, FailsType DEF GetMatchingClusters, TypeOK
  <2>2. MatchingClusters(pass[a].spec) \subseteq Cluster
    BY <1>0, SpecTypes DEF MatchingClusters
  <2> DEFINE found == [pass[a] EXCEPT !.pc = "references", !.labels = MatchingClusters(pass[a].spec),
                                      !.matching = MatchingClusters(pass[a].spec),
                                      !.tracked = SelectorRecorded(a, pass[a].spec)]
             failing == [pass[a] EXCEPT !.pc = "close", !.failed = TRUE]
  <2>3. pass' \in [Compliance -> PassStates]
    <3>1. found \in PassStates
      BY <1>0, <2>2, BlankTypes, PassSetUpdates DEF SelectorRecorded
    <3>2. failing \in PassStates
      BY <1>0, PassUpdates
    <3>3. pass' = [pass EXCEPT ![a] = found] \/ pass' = [pass EXCEPT ![a] = failing]
      BY <1>3 DEF GetMatchingClusters
    <3> HIDE DEF found, failing
    <3> QED BY <3>1, <3>2, <3>3 DEF TypeOK
  <2> QED BY <1>3, <2>1, <2>3 DEF GetMatchingClusters, TypeOK
<1>4. CASE UpdateReferenceMap(a)
  <2>1. CurrentReferences(pass[a].spec) \subseteq Keys
    BY <1>0, SpecTypes
  <2>2. [pass[a] EXCEPT !.pc = "clusters"] \in PassStates
    BY <1>0, PassUpdates
  <2> QED BY <1>4, <2>1, <2>2 DEF UpdateReferenceMap, TypeOK
<1>5. CASE UpdateClusterMap(a)
  <2>1. pass[a].matching \subseteq Cluster
    BY <1>0 DEF PassStates
  <2>2. [pass[a] EXCEPT !.pc = "write"] \in PassStates
    BY <1>0, PassUpdates
  <2> QED BY <1>5, <2>1, <2>2 DEF UpdateClusterMap, TypeOK
<1>6. CASE WriteSelector(a)
  <2>1. AddonCompliances' \in UNION {[D -> SUBSET Label] : D \in SUBSET Compliance}
    <3>1. pass[a].spec.selector \in SUBSET Label
      BY <1>0, SpecTypes
    <3>2. AddonCompliances \in UNION {[D -> SUBSET Label] : D \in SUBSET Compliance}
      BY DEF TypeOK
    <3> QED BY <1>6, <3>1, <3>2, PutType DEF WriteSelector
  <2>2. [pass[a] EXCEPT !.pc = "collect", !.toCollect = pass[a].spec.refs, !.content = NoContent]
          \in PassStates
    BY <1>0, SpecTypes, BlankTypes, PassSetUpdates
  <2>3. pass' \in [Compliance -> PassStates]
    BY <1>6, <2>2 DEF WriteSelector, TypeOK
  <2> QED BY <1>6, <2>1, <2>3 DEF WriteSelector, TypeOK
<1>7. CASE CollectLuaValidations(a)
  <2>1. left' \in [Counters -> Nat]
    BY <1>7, FailsType DEF CollectLuaValidations, TypeOK
  <2> DEFINE read(r, order) == [pass[a] EXCEPT !.toCollect = @ \ {r},
                                               !.content[r] = Collected(r, order)]
             over == [pass[a] EXCEPT !.pc = "annotate"]
             failing == [pass[a] EXCEPT !.pc = "close", !.toCollect = {},
                                        !.content = compliance[a].content, !.failed = TRUE]
  <2>2. ASSUME NEW r \in pass[a].toCollect, NEW order \in 1..Walks[r]
        PROVE  read(r, order) \in PassStates
    <3>1. r \in Reference /\ pass[a].toCollect \ {r} \in SUBSET Reference
      BY <1>0 DEF PassStates
    <3>2. order \in Nat
      BY <3>1, MapsAssumption
    <3>3. Collected(r, order) \in [data : Data \cup {NoData}, order : Nat]
      BY <3>1, <3>2, BlankTypes DEF Collected, TypeOK, Resources
    <3>4. [pass[a].content EXCEPT ![r] = Collected(r, order)] \in Contents
      BY <1>0, <3>1, <3>3 DEF PassStates, Contents
    <3> QED BY <1>0, <3>1, <3>4 DEF PassStates
  <2>3. over \in PassStates
    BY <1>0, PassUpdates
  <2>4. failing \in PassStates
    <3>1. compliance[a].content \in Contents
      BY <1>0 DEF ComplianceObjects
    <3> QED BY <1>0, <3>1, PassSetUpdates
  <2>5. \/ \E r \in pass[a].toCollect : \E order \in 1..Walks[r] :
             pass' = [pass EXCEPT ![a] = read(r, order)]
        \/ pass' = [pass EXCEPT ![a] = over]
        \/ pass' = [pass EXCEPT ![a] = failing]
    BY <1>7 DEF CollectLuaValidations
  <2>6. pass' \in [Compliance -> PassStates]
    <3>1. ASSUME NEW p \in PassStates, pass' = [pass EXCEPT ![a] = p]
          PROVE  pass' \in [Compliance -> PassStates]
      BY <3>1, PassReplaced
    <3> HIDE DEF read, over, failing
    <3> QED BY <2>2, <2>3, <2>4, <2>5, <3>1, Zenon
  <2> QED BY <1>7, <2>1, <2>6 DEF CollectLuaValidations, TypeOK
<1>8. CASE CleanMaps(a)
  <2>1. [pass[a] EXCEPT !.pc = "annotate"] \in PassStates
    BY <1>0, PassUpdates
  <2> QED BY <1>8, <2>1 DEF CleanMaps, TypeOK
<1>9. CASE AnnotateClusters(a)
  <2>1. left' \in [Counters -> Nat]
    BY <1>9, FailsType DEF AnnotateClusters, TypeOK
  <2>2. /\ [pass[a] EXCEPT !.pc = "close", !.failed = FALSE, !.done = TRUE] \in PassStates
        /\ [pass[a] EXCEPT !.pc = "close", !.failed = TRUE] \in PassStates
    BY <1>0, PassUpdates
  <2> QED BY <1>9, <2>1, <2>2 DEF AnnotateClusters, TypeOK
<1>10. CASE PatchMetadata(a)
  <2>1. left' \in [Counters -> Nat]
    BY <1>10, FailsType DEF PatchMetadata, TypeOK
  <2>2. MetadataPatched(a) \in ComplianceObjects
    BY <1>0, BlankTypes DEF MetadataPatched, ComplianceObjects, PassStates
  <2>3. pass' \in [Compliance -> PassStates]
    <3>1. [pass[a] EXCEPT !.pc = "status"] \in PassStates
      BY <1>0, PassUpdates
    <3>2. [pass[a] EXCEPT !.pc = "status", !.done = FALSE] \in PassStates
      BY <1>0, PassUpdates
    <3> QED BY <1>10, <3>1, <3>2 DEF PatchMetadata, TypeOK
  <2> QED BY <1>10, <2>1, <2>2, <2>3 DEF PatchMetadata, TypeOK
<1>11. CASE PatchStatus(a)
  <2>1. left' \in [Counters -> Nat]
    BY <1>11, FailsType DEF PatchStatus, TypeOK
  <2>2. StatusPatched(a) \in ComplianceObjects
    BY <1>0 DEF StatusPatched, ComplianceObjects, PassStates
  <2>3. NoPassAfter(a) \in PassStates
    BY <1>0, <1>n DEF NoPassAfter, PassStates
  <2> QED BY <1>11, <2>1, <2>2, <2>3 DEF PatchStatus, TypeOK
<1> QED BY <1>1, <1>2, <1>3, <1>4, <1>5, <1>6, <1>7, <1>8, <1>9, <1>10, <1>11 DEF PassStep

\* The maps relate existing names only, whatever happens.
THEOREM MapsTypeCorrect == Spec => []TypeOK
<1>1. Init => TypeOK
  BY InitType
<1>2. TypeOK /\ [Next]_vars => TypeOK'
  <2> SUFFICES ASSUME TypeOK, [Next]_vars PROVE TypeOK'
    OBVIOUS
  <2>1. CASE UNCHANGED vars
    BY <2>1 DEF vars, objects, references, clusters, cached, events, TypeOK
  <2> QED BY <2>1, UserStepType, RestartType, HandlerStepType, PassStepType DEF Next
<1> QED BY <1>1, <1>2, PTL DEF Spec

-----------------------------------------------------------------------------
(* Both directions of the maps agree. *)

\* Users and handlers leave the two relations alone.
LEMMA OthersKeepMaps == UserStep \/ HandlerStep => UNCHANGED <<references, clusters>>
BY DEF UserStep, HandlerStep, CreateCluster, UpdateCluster, DeleteCluster, ClusterGone,
       ChangeCluster, ChangeMachine, CreateReference, UpdateReference, DeleteReference, ChangeReference,
       CreateCompliance, EditCompliance, DeleteCompliance, ComplianceChanges, RequeueForCluster, RequeueForMachine, RequeueForReference, HandlerReturns

\* A pass changes them in three critical sections only.
LEMMA PassKeepsMaps ==
  ASSUME NEW a \in Compliance, Reconcile(a) \/ PassStep(a),
         ~UpdateReferenceMap(a), ~UpdateClusterMap(a), ~CleanMaps(a)
  PROVE  UNCHANGED <<references, clusters>>
BY DEF PassStep, Reconcile, AddFinalizer, GetMatchingClusters, WriteSelector,
       CollectLuaValidations, AnnotateClusters, PatchMetadata, PatchStatus

\* No step breaks the agreement.
LEMMA MapsInverseStep == TypeOK /\ MapsInverse /\ [Next]_vars => MapsInverse'
<1> SUFFICES ASSUME TypeOK, MapsInverse, [Next]_vars PROVE MapsInverse'
  OBVIOUS
<1>0. CASE UNCHANGED <<references, clusters>>
  BY <1>0 DEF references, clusters, MapsInverse
<1>1. CASE UNCHANGED vars
  BY <1>0, <1>1 DEF vars
<1>2. CASE UserStep \/ HandlerStep
  BY <1>0, <1>2, OthersKeepMaps
<1>3. CASE Restart
  BY <1>3 DEF Restart, MapsInverse
<1>4. ASSUME NEW a \in Compliance, UpdateReferenceMap(a)
      PROVE  MapsInverse'
  <2> DEFINE current == CurrentReferences(pass[a].spec)
             toBeRemoved == AddonComplianceToReferenceMap[a] \ current
  <2>1. /\ ReferenceMap' = [k \in Keys |->
              IF k \in current THEN ReferenceMap[k] \cup {a}
              ELSE IF k \in toBeRemoved THEN ReferenceMap[k] \ {a} ELSE ReferenceMap[k]]
        /\ AddonComplianceToReferenceMap' =
              [AddonComplianceToReferenceMap EXCEPT ![a] = current]
        /\ UNCHANGED clusters
    BY <1>4 DEF UpdateReferenceMap
  <2> HIDE DEF current
  <2> QED BY <2>1 DEF MapsInverse, TypeOK, clusters
<1>5. ASSUME NEW a \in Compliance, UpdateClusterMap(a)
      PROVE  MapsInverse'
  BY <1>5 DEF UpdateClusterMap, MapsInverse, TypeOK, references
<1>6. ASSUME NEW a \in Compliance, CleanMaps(a)
      PROVE  MapsInverse'
  BY <1>6 DEF CleanMaps, MapsInverse, TypeOK
<1>7. ASSUME NEW a \in Compliance, Reconcile(a) \/ PassStep(a)
      PROVE  MapsInverse'
  BY <1>0, <1>4, <1>5, <1>6, <1>7, PassKeepsMaps
<1> QED BY <1>1, <1>2, <1>3, <1>7 DEF Next

\* What a compliance is recorded for is what the handlers find it for: the two
\* directions of each relation agree in every reachable state.
THEOREM MapsInverseHolds == Spec => []MapsInverse
<1>1. Init => MapsInverse
  BY DEF Init, MapsInverse
<1>2. TypeOK /\ MapsInverse /\ [Next]_vars => MapsInverse'
  BY MapsInverseStep
<1> QED BY <1>1, <1>2, MapsTypeCorrect, PTL DEF Spec

-----------------------------------------------------------------------------
(* What is recorded is held by a finalizer. *)

\* HeldOrClean speaks of one compliance: it survives what leaves that alone.
LEMMA HeldFrame ==
  ASSUME NEW b \in Compliance, HeldOrClean(b),
         compliance'[b] = compliance[b], pass'[b] = pass[b],
         AddonComplianceToReferenceMap'[b] = AddonComplianceToReferenceMap[b],
         AddonComplianceToClusterMap'[b] = AddonComplianceToClusterMap[b]
  PROVE  HeldOrClean(b)'
BY DEF HeldOrClean, Held, Recorded, Recording

\* A change of a compliance's object keeps it if the object stays held.
LEMMA HeldChange ==
  ASSUME TypeOK, RecordedHeld, NEW a \in Compliance, NEW object \in ComplianceObjects,
         ComplianceChanges(a, object),
         Held(a) => object.phase # "absent" /\ object.finalizer,
         object.phase = "terminating" => object.finalizer,
         compliance[a].phase # "terminating"
  PROVE  RecordedHeld'
<1>1. /\ compliance' = [compliance EXCEPT ![a] = object]
      /\ UNCHANGED <<pass, references, clusters>>
  BY DEF ComplianceChanges
<1>2. ASSUME NEW b \in Compliance, b # a
      PROVE  HeldOrClean(b)'
  <2>1. HeldOrClean(b) /\ compliance'[b] = compliance[b] /\ pass'[b] = pass[b]
    BY <1>1, <1>2 DEF RecordedHeld, TypeOK
  <2> QED BY <1>1, <2>1, HeldFrame DEF references, clusters
<1>3. HeldOrClean(a)'
  <2>1. compliance'[a] = object /\ HeldOrClean(a)
    BY <1>1 DEF RecordedHeld, TypeOK
  <2> QED BY <1>1, <2>1 DEF HeldOrClean, Held, Recorded, Recording, references, clusters
<1> QED BY <1>2, <1>3 DEF RecordedHeld

\* Users cannot take the finalizer away.
LEMMA HeldUserStep == TypeOK /\ RecordedHeld /\ UserStep => RecordedHeld'
<1> SUFFICES ASSUME TypeOK, RecordedHeld, UserStep PROVE RecordedHeld'
  OBVIOUS
<1>o. \A a \in Compliance : compliance[a] \in ComplianceObjects
  BY DEF TypeOK
<1>n. NoObject \in ComplianceObjects /\ NoObject.phase = "absent" /\ ~NoObject.finalizer
  BY BlankTypes DEF NoObject
<1>1. CASE UNCHANGED <<compliance, pass, references, clusters>>
  BY <1>1, HeldFrame DEF RecordedHeld, references, clusters
<1>2. ASSUME NEW a \in Compliance, NEW spec \in Specs, CreateCompliance(a, spec)
      PROVE  RecordedHeld'
  <2> DEFINE object == [NoObject EXCEPT !.phase = "live", !.spec = spec]
  <2>1. object \in ComplianceObjects /\ object.phase = "live"
    <3>1. object.phase = "live"
      BY DEF NoObject
    <3> QED BY <1>n, <3>1, ObjectUpdates
  <2>2. compliance[a].phase = "absent" /\ ComplianceChanges(a, object)
    BY <1>2 DEF CreateCompliance
  <2> HIDE DEF object
  <2> QED BY <2>1, <2>2, HeldChange DEF Held
<1>3. ASSUME NEW a \in Compliance, NEW spec \in Specs, EditCompliance(a, spec)
      PROVE  RecordedHeld'
  <2> DEFINE object == [compliance[a] EXCEPT !.spec = spec]
  <2>1. object \in ComplianceObjects
    BY <1>o, ObjectUpdates
  <2>2. object.phase = compliance[a].phase /\ object.finalizer = compliance[a].finalizer
    BY <1>o DEF ComplianceObjects
  <2>3. compliance[a].phase = "live" /\ ComplianceChanges(a, object)
    BY <1>3 DEF EditCompliance
  <2> HIDE DEF object
  <2> QED BY <2>1, <2>2, <2>3, HeldChange DEF Held
<1>4. ASSUME NEW a \in Compliance, DeleteCompliance(a)
      PROVE  RecordedHeld'
  <2>1. compliance[a].phase = "live"
    BY <1>4 DEF DeleteCompliance
  <2>2. CASE compliance[a].finalizer
    <3> DEFINE object == [compliance[a] EXCEPT !.phase = "terminating"]
    <3>1. object \in ComplianceObjects
      BY <1>o DEF ComplianceObjects
    <3>2. object.phase = "terminating" /\ object.finalizer
      BY <1>o, <2>2 DEF ComplianceObjects
    <3>3. ComplianceChanges(a, object)
      BY <1>4, <2>2 DEF DeleteCompliance
    <3> HIDE DEF object
    <3> QED BY <2>1, <3>1, <3>2, <3>3, HeldChange
  <2>3. CASE ~compliance[a].finalizer
    <3>1. ComplianceChanges(a, NoObject)
      BY <1>4, <2>3 DEF DeleteCompliance
    <3> QED BY <1>n, <2>1, <2>3, <3>1, HeldChange DEF Held
  <2> QED BY <2>2, <2>3
<1>5. CASE \/ \E c \in Cluster : \E new \in ClusterVersions(c) :
                CreateCluster(c, new) \/ UpdateCluster(c, new)
           \/ \E c \in Cluster : DeleteCluster(c) \/ ClusterGone(c)
           \/ \E c \in Cluster, phase \in Phases : ChangeMachine(c, phase)
           \/ \E r \in Reference : \E new \in ResourceVersions(r) :
                CreateReference(r, new) \/ UpdateReference(r, new)
           \/ \E r \in Reference : DeleteReference(r)
  BY <1>1, <1>5 DEF CreateCluster, UpdateCluster, DeleteCluster, ClusterGone, ChangeCluster,
                    ChangeMachine, CreateReference, UpdateReference, DeleteReference, ChangeReference
<1> QED BY <1>2, <1>3, <1>4, <1>5 DEF UserStep

\* A step of the pass of one compliance leaves the others alone.
LEMMA PassStepFrame ==
  ASSUME TypeOK, NEW a \in Compliance, Reconcile(a) \/ PassStep(a), NEW b \in Compliance, b # a
  PROVE  /\ compliance'[b] = compliance[b] /\ pass'[b] = pass[b]
         /\ AddonComplianceToReferenceMap'[b] = AddonComplianceToReferenceMap[b]
         /\ AddonComplianceToClusterMap'[b] = AddonComplianceToClusterMap[b]
<1> USE DEF TypeOK, objects, references, clusters
<1>1. CASE Reconcile(a)
  BY <1>1 DEF Reconcile
<1>2. CASE AddFinalizer(a)
  BY <1>2 DEF AddFinalizer
<1>3. CASE GetMatchingClusters(a)
  BY <1>3 DEF GetMatchingClusters
<1>4. CASE UpdateReferenceMap(a)
  BY <1>4 DEF UpdateReferenceMap
<1>5. CASE UpdateClusterMap(a)
  BY <1>5 DEF UpdateClusterMap
<1>6. CASE WriteSelector(a)
  BY <1>6 DEF WriteSelector
<1>7. CASE CollectLuaValidations(a)
  BY <1>7 DEF CollectLuaValidations
<1>8. CASE CleanMaps(a)
  BY <1>8 DEF CleanMaps
<1>9. CASE AnnotateClusters(a)
  BY <1>9 DEF AnnotateClusters
<1>10. CASE PatchMetadata(a)
  BY <1>10 DEF PatchMetadata
<1>11. CASE PatchStatus(a)
  BY <1>11 DEF PatchStatus
<1> QED BY <1>1, <1>2, <1>3, <1>4, <1>5, <1>6, <1>7, <1>8, <1>9, <1>10, <1>11 DEF PassStep

\* A pass records only what is held, and lets go of what it has cleaned.
LEMMA HeldPassStep ==
  ASSUME TypeOK, RecordedHeld, NEW a \in Compliance, Reconcile(a) \/ PassStep(a)
  PROVE  HeldOrClean(a)'
<1>0. HeldOrClean(a) /\ pass[a] \in PassStates /\ compliance[a] \in ComplianceObjects
  BY DEF RecordedHeld, TypeOK
<1> USE DEF HeldOrClean, Held, Recorded, Recording, objects, references, clusters
<1>1. CASE Reconcile(a)
  <2>1. UNCHANGED <<compliance, references, clusters>> /\ pass[a].pc = "idle"
    BY <1>1 DEF Reconcile
  <2>2. compliance[a].phase \in {"absent", "terminating", "live"}
    BY <1>0 DEF ComplianceObjects
  <2>3. \/ pass'[a] = NoPass
        \/ compliance[a].phase = "terminating" /\ pass'[a].pc = "clean" /\ pass'[a].deleting
        \/ /\ compliance[a].phase = "live"
           /\ pass'[a].pc = IF compliance[a].finalizer THEN "match" ELSE "finalize"
           /\ ~pass'[a].deleting
    BY <1>1, <2>2 DEF Reconcile, NoPass, TypeOK
  <2> QED BY <1>0, <2>1, <2>3 DEF NoPass
<1>2. CASE AddFinalizer(a)
  <2>1. pass[a].pc = "finalize" /\ UNCHANGED <<references, clusters>>
    BY <1>2 DEF AddFinalizer
  <2>2. \/ /\ compliance[a].phase # "absent"
           /\ compliance'[a] = [compliance[a] EXCEPT !.finalizer = TRUE]
           /\ pass'[a] = [pass[a] EXCEPT !.pc = "match"]
        \/ /\ compliance'[a] = compliance[a]
           /\ pass'[a] = [pass[a] EXCEPT !.pc = "close"]
    BY <1>2 DEF AddFinalizer, TypeOK
  <2> QED BY <1>0, <2>1, <2>2 DEF PassStates, ComplianceObjects
<1>3. CASE GetMatchingClusters(a)
  <2>1. pass[a].pc = "match" /\ UNCHANGED <<compliance, references, clusters>>
    BY <1>3 DEF GetMatchingClusters
  <2>2. pass'[a].pc \in {"references", "close"} /\ pass'[a].deleting = pass[a].deleting
    <3>1. \/ pass'[a] = [pass[a] EXCEPT !.pc = "references", !.labels = MatchingClusters(pass[a].spec),
                                        !.matching = MatchingClusters(pass[a].spec),
                                        !.tracked = SelectorRecorded(a, pass[a].spec)]
          \/ pass'[a] = [pass[a] EXCEPT !.pc = "close", !.failed = TRUE]
      BY <1>3 DEF GetMatchingClusters, TypeOK
    <3> QED BY <1>0, <3>1 DEF PassStates
  <2> QED BY <1>0, <2>1, <2>2
<1>4. CASE UpdateReferenceMap(a)
  <2>1. pass[a].pc = "references" /\ UNCHANGED <<compliance, clusters>>
    BY <1>4 DEF UpdateReferenceMap
  <2>2. pass'[a].pc = "clusters" /\ pass'[a].deleting = pass[a].deleting
    BY <1>0, <1>4 DEF UpdateReferenceMap, TypeOK, PassStates
  <2> QED BY <1>0, <2>1, <2>2
<1>5. CASE UpdateClusterMap(a)
  <2>1. pass[a].pc = "clusters" /\ UNCHANGED <<compliance, references>>
    BY <1>5 DEF UpdateClusterMap
  <2>2. pass'[a].pc = "write" /\ pass'[a].deleting = pass[a].deleting
    BY <1>0, <1>5 DEF UpdateClusterMap, TypeOK, PassStates
  <2> QED BY <1>0, <2>1, <2>2
<1>6. CASE WriteSelector(a)
  <2>1. pass[a].pc = "write" /\ UNCHANGED <<compliance, references, clusters>>
    BY <1>6 DEF WriteSelector
  <2>2. pass'[a].pc = "collect" /\ pass'[a].deleting = pass[a].deleting
    BY <1>0, <1>6 DEF WriteSelector, TypeOK, PassStates
  <2> QED BY <1>0, <2>1, <2>2
<1>7. CASE CollectLuaValidations(a)
  <2>1. pass[a].pc = "collect" /\ UNCHANGED <<compliance, references, clusters>>
    BY <1>7 DEF CollectLuaValidations
  <2>2. pass'[a].pc \in {"collect", "annotate", "close"} /\ pass'[a].deleting = pass[a].deleting
    <3>1. \/ \E r \in pass[a].toCollect : \E order \in 1..Walks[r] :
                pass'[a] = [pass[a] EXCEPT !.toCollect = @ \ {r},
                                           !.content[r] = Collected(r, order)]
          \/ pass'[a] = [pass[a] EXCEPT !.pc = "annotate"]
          \/ pass'[a] = [pass[a] EXCEPT !.pc = "close", !.toCollect = {},
                                        !.content = compliance[a].content, !.failed = TRUE]
      BY <1>7 DEF CollectLuaValidations, TypeOK
    <3> QED BY <1>0, <2>1, <3>1 DEF PassStates
  <2> QED BY <1>0, <2>1, <2>2
<1>8. CASE CleanMaps(a)
  <2>1. pass[a].pc = "clean" /\ UNCHANGED compliance
    BY <1>8 DEF CleanMaps
  <2>2. pass'[a].pc = "annotate" /\ pass'[a].deleting = pass[a].deleting
    BY <1>0, <1>8 DEF CleanMaps, TypeOK, PassStates
  <2>3. AddonComplianceToReferenceMap'[a] = {} /\ AddonComplianceToClusterMap'[a] = {}
    BY <1>8 DEF CleanMaps, TypeOK
  <2> QED BY <1>0, <2>1, <2>2, <2>3
<1>9. CASE AnnotateClusters(a)
  <2>1. pass[a].pc = "annotate" /\ UNCHANGED <<compliance, references, clusters>>
    BY <1>9 DEF AnnotateClusters
  <2>2. pass'[a].pc = "close" /\ pass'[a].deleting = pass[a].deleting
    <3>1. \/ pass'[a] = [pass[a] EXCEPT !.pc = "close", !.failed = FALSE, !.done = TRUE]
          \/ pass'[a] = [pass[a] EXCEPT !.pc = "close", !.failed = TRUE]
      BY <1>9 DEF AnnotateClusters, TypeOK
    <3> QED BY <1>0, <3>1 DEF PassStates
  <2> QED BY <1>0, <2>1, <2>2
<1>10. CASE PatchMetadata(a)
  <2>1. pass[a].pc = "close" /\ UNCHANGED <<references, clusters>>
    BY <1>10 DEF PatchMetadata
  <2>2. pass'[a].pc = "status" /\ pass'[a].deleting = pass[a].deleting
    BY <1>0, <1>10 DEF PatchMetadata, TypeOK, PassStates
  <2>3. \/ compliance'[a] = compliance[a]
        \/ pass[a].deleting /\ compliance'[a] = NoObject
        \/ /\ ~pass[a].deleting
           /\ compliance[a].phase # "absent"
           /\ compliance'[a].phase = compliance[a].phase
           /\ compliance'[a].finalizer
    <3>1. \/ compliance[a].phase # "absent" /\ compliance'[a] = MetadataPatched(a)
          \/ compliance'[a] = compliance[a]
      BY <1>10 DEF PatchMetadata, TypeOK
    <3> QED BY <1>0, <3>1 DEF MetadataPatched, ComplianceObjects
  <2> QED BY <1>0, <2>1, <2>2, <2>3 DEF NoObject
<1>11. CASE PatchStatus(a)
  <2>1. pass[a].pc = "status" /\ UNCHANGED <<references, clusters>>
    BY <1>11 DEF PatchStatus
  <2>2. pass'[a] = NoPassAfter(a)
    BY <1>11 DEF PatchStatus, TypeOK
  <2>3. compliance'[a].phase = compliance[a].phase /\ compliance'[a].finalizer = compliance[a].finalizer
    <3>1. compliance'[a] = StatusPatched(a) \/ compliance'[a] = compliance[a]
      BY <1>11 DEF PatchStatus, TypeOK
    <3> QED BY <1>0, <3>1 DEF StatusPatched, ComplianceObjects
  <2> QED BY <1>0, <2>1, <2>2, <2>3 DEF NoPass, NoPassAfter
<1> QED BY <1>1, <1>2, <1>3, <1>4, <1>5, <1>6, <1>7, <1>8, <1>9, <1>10, <1>11 DEF PassStep

\* No step records what no finalizer holds.
LEMMA HeldStep == TypeOK /\ RecordedHeld /\ [Next]_vars => RecordedHeld'
<1> SUFFICES ASSUME TypeOK, RecordedHeld, [Next]_vars PROVE RecordedHeld'
  OBVIOUS
<1>1. CASE UNCHANGED vars \/ HandlerStep
  <2>1. UNCHANGED <<compliance, pass, references, clusters>>
    BY <1>1, OthersKeepMaps DEF vars, objects, HandlerStep, RequeueForCluster, RequeueForMachine,
                               RequeueForReference, HandlerReturns
  <2> QED BY <2>1, HeldFrame DEF RecordedHeld, references, clusters
<1>2. CASE Restart
  <2>1. ASSUME NEW b \in Compliance
        PROVE  HeldOrClean(b)'
    <3>1. HeldOrClean(b) /\ pass'[b] = NoPass /\ compliance'[b] = compliance[b]
      BY <1>2 DEF RecordedHeld, Restart, objects
    <3>2. AddonComplianceToReferenceMap'[b] = {} /\ AddonComplianceToClusterMap'[b] = {}
      BY <1>2 DEF Restart
    <3> QED BY <3>1, <3>2 DEF HeldOrClean, Held, Recorded, Recording, NoPass
  <2> QED BY <2>1 DEF RecordedHeld
<1>3. ASSUME NEW a \in Compliance, Reconcile(a) \/ PassStep(a)
      PROVE  RecordedHeld'
  <2>1. ASSUME NEW b \in Compliance, b # a
        PROVE  HeldOrClean(b)'
    BY <1>3, <2>1, PassStepFrame, HeldFrame DEF RecordedHeld
  <2> QED BY <1>3, <2>1, HeldPassStep DEF RecordedHeld
<1> QED BY <1>1, <1>2, <1>3, HeldUserStep DEF Next

\* What is recorded is held by a finalizer, and clean before that is removed.
THEOREM RecordedHeldHolds == Spec => []RecordedHeld
<1>1. Init => RecordedHeld
  BY DEF Init, RecordedHeld, HeldOrClean, Held, Recorded, Recording, NoPass, NoObject
<1>2. TypeOK /\ RecordedHeld /\ [Next]_vars => RecordedHeld'
  BY HeldStep
<1> QED BY <1>1, <1>2, MapsTypeCorrect, PTL DEF Spec

\* So the maps know nothing of a compliance that is gone.
THEOREM DeletedForgottenHolds == Spec => []DeletedForgotten
<1>1. TypeOK /\ MapsInverse /\ RecordedHeld => DeletedForgotten
  <2> SUFFICES ASSUME TypeOK, MapsInverse, RecordedHeld, NEW a \in Compliance,
                      compliance[a].phase = "absent"
               PROVE  /\ \A k \in Keys : a \notin ReferenceMap[k]
                      /\ \A c \in Cluster : a \notin ClusterMap[c]
    BY DEF DeletedForgotten
  <2>1. ~Recorded(a)
    BY DEF RecordedHeld, HeldOrClean, Held
  <2> QED BY <2>1 DEF Recorded, MapsInverse
<1> QED BY <1>1, MapsTypeCorrect, MapsInverseHolds, RecordedHeldHolds, PTL
=============================================================================
