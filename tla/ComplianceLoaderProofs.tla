----------------------- MODULE ComplianceLoaderProofs -----------------------
(***************************************************************************)
(* What ComplianceLoader guarantees for any number of clusters, compliances*)
(* and workers, and any sequence of failures, edits, deletions and         *)
(* restarts.                                                               *)
(***************************************************************************)
EXTENDS ComplianceLoader, TLAPS

-----------------------------------------------------------------------------
(* The manager's map. *)

\* A value of the map is a function from some clusters to sets of compliances.
LEMMA EntryMapsDef ==
  ASSUME NEW Cs, NEW As, NEW m
  PROVE  m \in EntryMaps(Cs, As) <=>
           DOMAIN m \subseteq Cs /\ m \in [DOMAIN m -> SUBSET As]
<1>1. ASSUME m \in EntryMaps(Cs, As)
      PROVE  DOMAIN m \subseteq Cs /\ m \in [DOMAIN m -> SUBSET As]
  <2>1. PICK D \in SUBSET Cs : m \in [D -> SUBSET As]
    BY <1>1 DEF EntryMaps
  <2> QED BY <2>1
<1>2. ASSUME DOMAIN m \subseteq Cs, m \in [DOMAIN m -> SUBSET As]
      PROVE  m \in EntryMaps(Cs, As)
  BY <1>2 DEF EntryMaps
<1> QED BY <1>1, <1>2

\* Each method of the manager keeps the map's type.
LEMMA NoEntriesType ==
  ASSUME NEW Cs, NEW As
  PROVE  NoEntries \in EntryMaps(Cs, As)
BY EntryMapsDef DEF NoEntries

\* AddClusterEntry maps one more cluster, or the same one again.
LEMMA AddEntryType ==
  ASSUME NEW Cs, NEW As, NEW m \in EntryMaps(Cs, As), NEW c \in Cs, NEW S \in SUBSET As
  PROVE  AddClusterEntry(m, c, S) \in EntryMaps(Cs, As)
BY EntryMapsDef DEF AddClusterEntry

\* RemoveClusterEntry maps one cluster less.
LEMMA RemoveEntryType ==
  ASSUME NEW Cs, NEW As, NEW m \in EntryMaps(Cs, As), NEW c
  PROVE  RemoveClusterEntry(m, c) \in EntryMaps(Cs, As)
BY EntryMapsDef DEF RemoveClusterEntry

\* RemoveAddonCompliance keeps the tracked clusters and shrinks their sets.
LEMMA RemoveComplianceType ==
  ASSUME NEW Cs, NEW As, NEW m \in EntryMaps(Cs, As), NEW a
  PROVE  /\ RemoveAddonCompliance(m, a) \in EntryMaps(Cs, As)
         /\ ClustersToAnnotate(m, a) \subseteq Cs
BY EntryMapsDef DEF RemoveAddonCompliance, ClustersToAnnotate

-----------------------------------------------------------------------------
(* Types. *)

\* A bounded counter stays a natural number when one more use is made of it.
LEMMA SpendType ==
  ASSUME TypeOK, NEW counter \in Counters, Spend(counter)
  PROVE  left' \in [Counters -> Nat]
BY DEF TypeOK, Spend

\* A failing API call uses up one failure at most.
LEMMA FailsType ==
  ASSUME TypeOK, NEW call, Fails(call)
  PROVE  left' \in [Counters -> Nat]
BY SpendType DEF Fails, Counters

\* Annotating a cluster keeps the cluster objects well typed.
LEMMA SetAnnotationType ==
  ASSUME TypeOK, NEW c \in Cluster, SetAnnotation(c)
  PROVE  cluster' \in [Cluster -> ClusterObjects]
<1>1. \A o \in ClusterObjects : [o EXCEPT !.annotated = TRUE] \in ClusterObjects
  BY DEF ClusterObjects
<1> QED BY <1>1 DEF TypeOK, SetAnnotation

\* The initial state is well typed.
LEMMA InitType == Init => TypeOK
<1> SUFFICES ASSUME Init PROVE TypeOK
  OBVIOUS
<1> QED BY NoEntriesType, ConstantsAssumption DEF Init, TypeOK, ClusterObjects, ComplianceObjects, Workers,
                             PassStates, Phases, NoWorker, NoPass

\* What users do keeps the types.
LEMMA UserStepType == TypeOK /\ UserStep => TypeOK'
<1> SUFFICES ASSUME TypeOK, UserStep PROVE TypeOK'
  OBVIOUS
<1> USE DEF TypeOK
<1>1. ASSUME NEW c \in Cluster, NEW labels \in SUBSET Label, CreateCluster(c, labels)
      PROVE  TypeOK'
  BY <1>1 DEF CreateCluster, ClusterObjects, Phases
<1>2. ASSUME NEW c \in Cluster, NEW labels \in SUBSET Label, RelabelCluster(c, labels)
      PROVE  TypeOK'
  BY <1>2, SpendType DEF Counters, RelabelCluster, ClusterObjects, Phases
<1>3. ASSUME NEW c \in Cluster, DeleteCluster(c)
      PROVE  TypeOK'
  BY <1>3, SpendType DEF Counters, DeleteCluster, ClusterObjects, Phases
<1>4. ASSUME NEW c \in Cluster, ClusterGone(c)
      PROVE  TypeOK'
  BY <1>4 DEF ClusterGone, ClusterObjects, Phases
<1>5. ASSUME NEW a \in Compliance, NEW spec \in Specs, CreateCompliance(a, spec)
      PROVE  TypeOK'
  BY <1>5 DEF CreateCompliance, ComplianceObjects, Phases
<1>6. ASSUME NEW a \in Compliance, NEW spec \in Specs, EditCompliance(a, spec)
      PROVE  TypeOK'
  <2>1. left' \in [Counters -> Nat]
    BY <1>6, SpendType DEF EditCompliance, Counters
  <2>2. compliance' \in [Compliance -> ComplianceObjects]
    <3>1. compliance' = [compliance EXCEPT ![a] = [compliance[a] EXCEPT !.spec = spec]]
      BY <1>6 DEF EditCompliance
    <3>2. [compliance[a] EXCEPT !.spec = spec] \in ComplianceObjects
      BY DEF ComplianceObjects
    <3> QED BY <3>1, <3>2
  <2>3. UNCHANGED <<cluster, addonConstraints, worker, pass, owed, collected>>
    BY <1>6 DEF EditCompliance
  <2> QED BY <2>1, <2>2, <2>3
<1>7. ASSUME NEW a \in Compliance, DeleteCompliance(a)
      PROVE  TypeOK'
  <2>1. Dropped(a) \in ComplianceObjects
    BY DEF Dropped, ComplianceObjects, Phases
  <2>2. \A o \in ComplianceObjects : [o EXCEPT !.phase = "terminating"] \in ComplianceObjects
    BY DEF ComplianceObjects, Phases
  <2> QED BY <1>7, <2>1, <2>2, SpendType DEF Counters, DeleteCompliance
<1> QED BY <1>1, <1>2, <1>3, <1>4, <1>5, <1>6, <1>7 DEF UserStep

\* Replacing the state of one worker keeps all workers well typed.
LEMMA WorkerUpdate ==
  ASSUME NEW w \in Workers, NEW F \in SUBSET Compliance
  PROVE  [w EXCEPT !.pc = "add", !.found = F] \in Workers
BY DEF Workers

\* The cluster reconcilers keep the types.
LEMMA ClusterStepType ==
  ASSUME TypeOK, NEW c \in Cluster, ReconcileCluster(c) \/ ClusterStep(c)
  PROVE  TypeOK'
<1> USE DEF TypeOK
<1>1. CASE ReconcileCluster(c)
  <2>1. [NoWorker EXCEPT !.pc = "list", !.labels = cluster[c].labels] \in Workers
    BY DEF Workers, NoWorker, ClusterObjects
  <2>2. [worker[c] EXCEPT !.pc = "remove"] \in Workers
    BY DEF Workers
  <2>3. worker' \in [Cluster -> Workers]
    BY <1>1, <2>1, <2>2 DEF ReconcileCluster
  <2> QED BY <1>1, <2>3 DEF ReconcileCluster
<1>2. CASE RemoveEntry(c)
  <2>1. NoWorker \in Workers
    BY DEF Workers, NoWorker
  <2> QED BY <1>2, <2>1, RemoveEntryType DEF RemoveEntry
<1>3. CASE ListCompliances(c)
  <2>1. left' \in [Counters -> Nat]
    BY <1>3, FailsType DEF ListCompliances
  <2>2. NoWorker \in Workers
    BY DEF Workers, NoWorker
  <2> DEFINE F == {a \in Compliance : /\ compliance[a].phase # "absent"
                                      /\ Matches(compliance[a].spec.selector, worker[c].labels)}
  <2>3. [worker[c] EXCEPT !.pc = "add", !.found = F] \in Workers
    BY WorkerUpdate
  <2> QED BY <1>3, <2>1, <2>2, <2>3 DEF ListCompliances
<1>4. CASE AddEntry(c)
  <2>1. [NoWorker EXCEPT !.pc = "count"] \in Workers
    BY DEF Workers, NoWorker
  <2>2. worker[c].found \in SUBSET Compliance
    BY DEF Workers
  <2> QED BY <1>4, <2>1, <2>2, AddEntryType DEF AddEntry
<1>5. CASE CountCompliances(c)
  BY <1>5 DEF CountCompliances, Workers, NoWorker
<1>6. CASE AnnotateNewCluster(c)
  <2>1. NoWorker \in Workers
    BY DEF Workers, NoWorker
  <2>2. left' \in [Counters -> Nat]
    BY <1>6, FailsType DEF AnnotateNewCluster
  <2>3. SetAnnotation(c) => cluster' \in [Cluster -> ClusterObjects]
    BY SetAnnotationType
  <2> QED BY <1>6, <2>1, <2>2, <2>3 DEF AnnotateNewCluster
<1> QED BY <1>1, <1>2, <1>3, <1>4, <1>5, <1>6 DEF ClusterStep

\* What the steps of a pass make of its state.
LEMMA PassUpdates ==
  ASSUME NEW p \in PassStates
  PROVE  /\ [p EXCEPT !.pc = "match"] \in PassStates
         /\ [p EXCEPT !.pc = "close"] \in PassStates
         /\ [p EXCEPT !.pc = "close", !.spec = BlankSpec] \in PassStates
         /\ [p EXCEPT !.pc = "close", !.toAnnotate = {}] \in PassStates
         /\ [p EXCEPT !.pc = "close", !.done = TRUE] \in PassStates
         /\ [p EXCEPT !.pc = "clear", !.loaded = TRUE] \in PassStates
BY DEF PassStates

\* The set-valued parts of a pass keep their types as well.
LEMMA PassSetUpdates ==
  ASSUME NEW p \in PassStates, NEW C \in SUBSET Cluster
  PROVE  /\ [p EXCEPT !.pc = "collect", !.spec = BlankSpec, !.matching = C] \in PassStates
         /\ [p EXCEPT !.pc = "annotate", !.toAnnotate = C] \in PassStates
         /\ \A c : [p EXCEPT !.toAnnotate = p.toAnnotate \ {c}] \in PassStates
BY DEF PassStates

\* The passes keep the types.
LEMMA PassStepType ==
  ASSUME TypeOK, NEW a \in Compliance, Reconcile(a) \/ PassStep(a)
  PROVE  TypeOK'
<1>0. pass \in [Compliance -> PassStates] /\ compliance \in [Compliance -> ComplianceObjects]
  BY DEF TypeOK
<1>1. CASE Reconcile(a)
  BY <1>1 DEF Reconcile, TypeOK, PassStates, NoPass, ComplianceObjects
<1>2. CASE AddFinalizer(a)
  <2>1. left' \in [Counters -> Nat]
    BY <1>2, FailsType DEF AddFinalizer, TypeOK
  <2>2. compliance' \in [Compliance -> ComplianceObjects]
    <3>1. \A o \in ComplianceObjects : [o EXCEPT !.finalizer = TRUE] \in ComplianceObjects
      BY DEF ComplianceObjects
    <3> QED BY <1>0, <1>2, <3>1 DEF AddFinalizer
  <2>3. pass' \in [Compliance -> PassStates]
    <3>1. /\ [pass[a] EXCEPT !.pc = "match"] \in PassStates
          /\ [pass[a] EXCEPT !.pc = "close", !.spec = BlankSpec] \in PassStates
      BY <1>0, PassUpdates
    <3> QED BY <1>0, <1>2, <3>1 DEF AddFinalizer
  <2> QED BY <1>2, <2>1, <2>2, <2>3 DEF AddFinalizer, TypeOK
<1>3. CASE GetMatchingClusters(a)
  <2>1. MatchingClusters(pass[a].spec) \subseteq Cluster
    BY <1>0, SpecsAssumption DEF MatchingClusters, BlankSpec, PassStates
  <2>2. left' \in [Counters -> Nat]
    BY <1>3, FailsType DEF GetMatchingClusters, TypeOK
  <2>3. pass' \in [Compliance -> PassStates]
    <3>1. /\ [pass[a] EXCEPT !.pc = "collect", !.spec = BlankSpec,
                              !.matching = MatchingClusters(pass[a].spec)] \in PassStates
          /\ [pass[a] EXCEPT !.pc = "close", !.spec = BlankSpec] \in PassStates
      BY <1>0, <2>1, PassUpdates, PassSetUpdates
    <3> QED BY <1>0, <1>3, <2>1, <3>1 DEF GetMatchingClusters
  <2> QED BY <1>3, <2>2, <2>3 DEF GetMatchingClusters, TypeOK
<1>4. CASE CollectLuaValidations(a)
  <2>1. left' \in [Counters -> Nat]
    BY <1>4, FailsType DEF CollectLuaValidations, TypeOK
  <2>2. pass' \in [Compliance -> PassStates]
    <3>1. /\ [pass[a] EXCEPT !.pc = "clear", !.loaded = TRUE] \in PassStates
          /\ [pass[a] EXCEPT !.pc = "close"] \in PassStates
      BY <1>0, PassUpdates
    <3> QED BY <1>0, <1>4, <3>1 DEF CollectLuaValidations
  <2> QED BY <1>4, <2>1, <2>2 DEF CollectLuaValidations, TypeOK
<1>5. CASE ClearCompliance(a)
  <2>1. ClustersToAnnotate(addonConstraints, a) \subseteq Cluster
    BY RemoveComplianceType DEF TypeOK
  <2>2. pass' \in [Compliance -> PassStates]
    <3>1. [pass[a] EXCEPT !.pc = "annotate",
                          !.toAnnotate = ClustersToAnnotate(addonConstraints, a)] \in PassStates
      BY <1>0, <2>1, PassSetUpdates
    <3> QED BY <1>0, <1>5, <2>1, <3>1 DEF ClearCompliance
  <2> QED BY <1>5, <2>2, RemoveComplianceType DEF ClearCompliance, TypeOK
<1>6. CASE AnnotateCluster(a)
  <2>1. left' \in [Counters -> Nat]
    BY <1>6, FailsType DEF AnnotateCluster, TypeOK
  <2>2. pass' \in [Compliance -> PassStates]
    <3>1. /\ \A c : [pass[a] EXCEPT !.toAnnotate = pass[a].toAnnotate \ {c}] \in PassStates
          /\ [pass[a] EXCEPT !.pc = "close", !.toAnnotate = {}] \in PassStates
          /\ [pass[a] EXCEPT !.pc = "close", !.done = TRUE] \in PassStates
      BY <1>0, PassUpdates, PassSetUpdates
    <3>2. ASSUME NEW c, pass' = [pass EXCEPT ![a].toAnnotate = @ \ {c}]
          PROVE  pass' \in [Compliance -> PassStates]
      BY <1>0, <3>1, <3>2
    <3>3. \/ \E c : pass' = [pass EXCEPT ![a].toAnnotate = @ \ {c}]
          \/ pass' = [pass EXCEPT ![a] = [@ EXCEPT !.pc = "close", !.toAnnotate = {}]]
          \/ pass' = [pass EXCEPT ![a] = [@ EXCEPT !.pc = "close", !.done = TRUE]]
      BY <1>6 DEF AnnotateCluster
    <3> QED BY <1>0, <3>1, <3>2, <3>3
  <2>3. pass[a].toAnnotate \subseteq Cluster
    BY <1>0 DEF PassStates
  <2>4. \A c \in Cluster : SetAnnotation(c) => cluster' \in [Cluster -> ClusterObjects]
    BY SetAnnotationType
  <2>5. cluster' \in [Cluster -> ClusterObjects]
    BY <1>6, <2>3, <2>4 DEF AnnotateCluster, TypeOK
  <2> QED BY <1>6, <2>1, <2>2, <2>5 DEF AnnotateCluster, TypeOK
<1>7. CASE Close(a)
  <2>1. left' \in [Counters -> Nat]
    BY <1>7, FailsType DEF Close, TypeOK
  <2>2. Dropped(a) \in ComplianceObjects
    BY <1>0 DEF Dropped, ComplianceObjects, Phases
  <2>3. Closed(a) \in ComplianceObjects
    BY <1>0, <2>2 DEF Closed, ComplianceObjects, PassStates
  <2>4. NoPass \in PassStates
    BY DEF NoPass, PassStates
  <2> QED BY <1>7, <2>1, <2>3, <2>4 DEF Close, TypeOK
<1> QED BY <1>1, <1>2, <1>3, <1>4, <1>5, <1>6, <1>7 DEF PassStep

\* Every step keeps the types.
LEMMA NextType == TypeOK /\ [Next]_vars => TypeOK'
<1> SUFFICES ASSUME TypeOK, [Next]_vars PROVE TypeOK'
  OBVIOUS
<1>1. CASE UserStep
  BY <1>1, UserStepType
<1>2. CASE Restart
  BY <1>2, NoEntriesType, SpendType DEF Counters, Restart, TypeOK, Workers, NoWorker, PassStates, NoPass
<1>3. ASSUME NEW c \in Cluster, ReconcileCluster(c) \/ ClusterStep(c) PROVE TypeOK'
  BY <1>3, ClusterStepType
<1>4. ASSUME NEW a \in Compliance, Reconcile(a) \/ PassStep(a) PROVE TypeOK'
  BY <1>4, PassStepType
<1>5. CASE UNCHANGED vars
  BY <1>5 DEF vars, TypeOK
<1> QED BY <1>1, <1>2, <1>3, <1>4, <1>5 DEF Next

\* Every reachable state is well typed, whatever the constants.
THEOREM TypeCorrect == Spec => []TypeOK
BY InitType, NextType, PTL DEF Spec

-----------------------------------------------------------------------------
(* What an action does to the variables, one cluster or compliance at a time. *)

\* One pass changes, the others do not.
LEMMA PassChange ==
  ASSUME TypeOK, NEW a \in Compliance, NEW q, pass' = [pass EXCEPT ![a] = q]
  PROVE  pass[a] \in PassStates /\ pass'[a] = q /\ \A b \in Compliance \ {a} : pass'[b] = pass[b]
BY DEF TypeOK

\* Which parts of a pass the invariant looks at, and what leaves them alone.
LEMMA PassFields ==
  ASSUME NEW p \in PassStates, NEW q, NEW M,
         \/ q = [p EXCEPT !.pc = "match"]
         \/ q = [p EXCEPT !.pc = "close"]
         \/ q = [p EXCEPT !.pc = "close", !.spec = BlankSpec]
         \/ q = [p EXCEPT !.pc = "collect", !.spec = BlankSpec, !.matching = M]
         \/ q = [p EXCEPT !.pc = "clear", !.loaded = TRUE]
  PROVE  /\ q.pc \in {"match", "close", "collect", "clear"}
         /\ q.deleting = p.deleting /\ q.toAnnotate = p.toAnnotate
BY DEF PassStates

\* A pass that adds the finalizer has the same clusters to annotate, and goes on or closes.
LEMMA AddFinalizerEffect ==
  ASSUME TypeOK, NEW a \in Compliance, AddFinalizer(a)
  PROVE  /\ pass[a].pc = "finalize"
         /\ \A b \in Compliance \ {a} : pass'[b] = pass[b]
         /\ pass'[a].toAnnotate = pass[a].toAnnotate
         /\ pass'[a].deleting = pass[a].deleting
         /\ pass'[a].pc \in {"match", "close"}
<1>1. PICK q : /\ pass' = [pass EXCEPT ![a] = q]
               /\ \/ q = [pass[a] EXCEPT !.pc = "match"]
                  \/ q = [pass[a] EXCEPT !.pc = "close", !.spec = BlankSpec]
  BY DEF AddFinalizer
<1>2. pass[a] \in PassStates /\ pass'[a] = q /\ \A b \in Compliance \ {a} : pass'[b] = pass[b]
  BY <1>1, PassChange
<1>3. q.pc \in {"match", "close"}
  BY <1>1, <1>2 DEF PassStates
<1>4. q.deleting = pass[a].deleting /\ q.toAnnotate = pass[a].toAnnotate
  BY <1>1, <1>2, PassFields
<1> QED BY <1>2, <1>3, <1>4 DEF AddFinalizer

\* A pass that matches clusters keeps its clusters to annotate, and goes on or closes.
LEMMA GetMatchingClustersEffect ==
  ASSUME TypeOK, NEW a \in Compliance, GetMatchingClusters(a)
  PROVE  /\ pass[a].pc = "match"
         /\ \A b \in Compliance \ {a} : pass'[b] = pass[b]
         /\ pass'[a].toAnnotate = pass[a].toAnnotate
         /\ pass'[a].deleting = pass[a].deleting
         /\ pass'[a].pc \in {"collect", "close"}
<1>1. PICK q, M : /\ pass' = [pass EXCEPT ![a] = q]
                  /\ \/ q = [pass[a] EXCEPT !.pc = "collect", !.spec = BlankSpec, !.matching = M]
                     \/ q = [pass[a] EXCEPT !.pc = "close", !.spec = BlankSpec]
  BY DEF GetMatchingClusters
<1>2. pass[a] \in PassStates /\ pass'[a] = q /\ \A b \in Compliance \ {a} : pass'[b] = pass[b]
  BY <1>1, PassChange
<1>3. q.pc \in {"collect", "close"}
  BY <1>1, <1>2 DEF PassStates
<1>4. PICK p \in PassStates : p = pass[a]
  BY <1>2
<1>5. q.deleting = p.deleting /\ q.toAnnotate = p.toAnnotate
  <2>1. \/ q = [p EXCEPT !.pc = "collect", !.spec = BlankSpec, !.matching = M]
        \/ q = [p EXCEPT !.pc = "close", !.spec = BlankSpec]
    BY <1>1, <1>4
  <2> QED BY <2>1, PassFields
<1> QED BY <1>2, <1>3, <1>4, <1>5 DEF GetMatchingClusters

\* A pass goes on to clear its compliance only after collecting its validations.
LEMMA CollectEffect ==
  ASSUME TypeOK, NEW a \in Compliance, CollectLuaValidations(a)
  PROVE  /\ pass[a].pc = "collect"
         /\ \A b \in Compliance \ {a} : pass'[b] = pass[b]
         /\ pass'[a].toAnnotate = pass[a].toAnnotate
         /\ pass'[a].deleting = pass[a].deleting
         /\ \/ pass'[a].pc = "clear" /\ collected' = collected \cup {a}
            \/ pass'[a].pc = "close" /\ collected' = collected
<1>1. PICK q : /\ pass' = [pass EXCEPT ![a] = q]
               /\ \/ q = [pass[a] EXCEPT !.pc = "clear", !.loaded = TRUE]
                     /\ collected' = collected \cup {a}
                  \/ q = [pass[a] EXCEPT !.pc = "close"] /\ collected' = collected
  BY DEF CollectLuaValidations
<1>2. pass[a] \in PassStates /\ pass'[a] = q /\ \A b \in Compliance \ {a} : pass'[b] = pass[b]
  BY <1>1, PassChange
<1>3. \/ q.pc = "clear" /\ collected' = collected \cup {a}
      \/ q.pc = "close" /\ collected' = collected
  BY <1>1, <1>2 DEF PassStates
<1>4. q.deleting = pass[a].deleting /\ q.toAnnotate = pass[a].toAnnotate
  BY <1>1, <1>2, PassFields
<1> QED BY <1>2, <1>3, <1>4 DEF CollectLuaValidations

\* A pass that annotates clusters keeps its compliance and its deleting flag.
LEMMA AnnotateFields ==
  ASSUME NEW p \in PassStates, NEW q, NEW c,
         \/ q = [p EXCEPT !.toAnnotate = p.toAnnotate \ {c}]
         \/ q = [p EXCEPT !.pc = "close", !.toAnnotate = {}]
         \/ q = [p EXCEPT !.pc = "close", !.done = TRUE]
  PROVE  /\ q.pc \in {p.pc, "close"}
         /\ q.deleting = p.deleting /\ q.toAnnotate \subseteq p.toAnnotate
BY DEF PassStates

\* A pass annotates one of the clusters it has to, forgets them, or is done.
LEMMA AnnotateEffect ==
  ASSUME TypeOK, NEW a \in Compliance, AnnotateCluster(a)
  PROVE  /\ pass[a].pc = "annotate"
         /\ \A b \in Compliance \ {a} : pass'[b] = pass[b]
         /\ pass'[a].toAnnotate \subseteq pass[a].toAnnotate
         /\ pass'[a].deleting = pass[a].deleting
         /\ pass'[a].pc \in {"annotate", "close"}
<1>1. PICK q, c : /\ pass' = [pass EXCEPT ![a] = q]
                  /\ \/ q = [pass[a] EXCEPT !.toAnnotate = pass[a].toAnnotate \ {c}]
                     \/ q = [pass[a] EXCEPT !.pc = "close", !.toAnnotate = {}]
                     \/ q = [pass[a] EXCEPT !.pc = "close", !.done = TRUE]
  BY DEF AnnotateCluster
<1>2. pass[a] \in PassStates /\ pass'[a] = q /\ \A b \in Compliance \ {a} : pass'[b] = pass[b]
  BY <1>1, PassChange
<1>3. PICK p \in PassStates : p = pass[a]
  BY <1>2
<1>4. q.pc \in {p.pc, "close"} /\ q.deleting = p.deleting /\ q.toAnnotate \subseteq p.toAnnotate
  <2>1. \/ q = [p EXCEPT !.toAnnotate = p.toAnnotate \ {c}]
        \/ q = [p EXCEPT !.pc = "close", !.toAnnotate = {}]
        \/ q = [p EXCEPT !.pc = "close", !.done = TRUE]
    BY <1>1, <1>3
  <2> QED BY <2>1, AnnotateFields
<1>5. pass[a].pc = "annotate"
  BY DEF AnnotateCluster
<1> QED BY <1>2, <1>3, <1>4, <1>5

\* A pass that closes its scope makes its compliance no younger and gives up its state.
LEMMA CloseEffect ==
  ASSUME TypeOK, NEW a \in Compliance, Close(a)
  PROVE  /\ compliance'[a].uid = compliance[a].uid
         /\ compliance'[a].phase \in {compliance[a].phase, "absent"}
<1>1. compliance[a] \in ComplianceObjects
  BY DEF TypeOK
<1>2. Closed(a).uid = compliance[a].uid /\ Closed(a).phase \in {compliance[a].phase, "absent"}
  BY <1>1 DEF Closed, Dropped, ComplianceObjects
<1>3. compliance' = [compliance EXCEPT ![a] = Closed(a)] \/ compliance' = compliance
  BY DEF Close
<1> QED BY <1>2, <1>3 DEF TypeOK

\* A worker that lists compliances finds existing ones only, or gives up.
LEMMA ListEffect ==
  ASSUME TypeOK, NEW c \in Cluster, ListCompliances(c)
  PROVE  /\ \A d \in Cluster \ {c} : worker'[d] = worker[d]
         /\ worker'[c].pc \in {"add", "idle"}
         /\ \A a \in worker'[c].found : compliance[a].phase # "absent"
<1> DEFINE F == {a \in Compliance : /\ compliance[a].phase # "absent"
                                    /\ Matches(compliance[a].spec.selector, worker[c].labels)}
<1>1. CASE worker' = [worker EXCEPT ![c] = [worker[c] EXCEPT !.pc = "add", !.found = F]]
  <2>1. worker'[c] = [worker[c] EXCEPT !.pc = "add", !.found = F]
    BY <1>1 DEF TypeOK
  <2>2. worker[c] \in Workers
    BY DEF TypeOK
  <2> HIDE DEF F
  <2>3. worker'[c].pc = "add" /\ worker'[c].found = F
    BY <2>1, <2>2 DEF Workers
  <2>4. \A a \in F : compliance[a].phase # "absent"
    BY DEF F
  <2> QED BY <1>1, <2>3, <2>4 DEF TypeOK
<1>2. CASE worker' = [worker EXCEPT ![c] = NoWorker]
  BY <1>2 DEF TypeOK, NoWorker
<1> QED BY <1>1, <1>2 DEF ListCompliances

\* A reconciliation starts to track a live cluster without entry and annotation,
\* or to drop the entry of a cluster that is not live.
LEMMA ReconcileClusterEffect ==
  ASSUME TypeOK, NEW c \in Cluster, ReconcileCluster(c)
  PROVE  /\ \A d \in Cluster \ {c} : worker'[d] = worker[d]
         /\ \/ worker'[c].pc = "list" /\ ShouldAddClusterEntry(c)
            \/ worker'[c].pc = "remove" /\ ~Live(c)
         /\ worker'[c].found = {} \/ worker'[c].found = worker[c].found
<1>1. CASE Live(c)
  BY <1>1 DEF ReconcileCluster, TypeOK, NoWorker
<1>2. CASE ~Live(c)
  BY <1>2 DEF ReconcileCluster, TypeOK, Workers
<1> QED BY <1>1, <1>2

-----------------------------------------------------------------------------
(* Inductive is preserved.  Each step first says what the action does to    *)
(* every single cluster and compliance; what it breaks or keeps is then a   *)
(* matter of logic.                                                         *)

\* The two history variables and the map start empty.
LEMMA InitInductive == Init => Inductive
BY DEF Init, Inductive, WorkerEntry, UnseenCluster, AbsentNotAnnotated, FirstLifeEntry,
       AnnotatedEntryEmpty, UnseenCompliance, PassSettled, StruckSettled,
       LoadedBeforeReady, FirstLife, Live, Annotated, Current, Settled,
       HasEntryForCluster, NoEntries, NoWorker, NoPass

\* Users keep the invariant: a name used again is not in its first life.
LEMMA UserStepInductive ==
  ASSUME TypeOK, Inductive, UserStep
  PROVE  Inductive'
<1> USE DEF Inductive, WorkerEntry, UnseenCluster, AbsentNotAnnotated, FirstLifeEntry,
            AnnotatedEntryEmpty, UnseenCompliance, PassSettled, StruckSettled,
            LoadedBeforeReady, FirstLife, Live, Annotated, Current, Settled,
            HasEntryForCluster
<1>1. ASSUME NEW c \in Cluster, NEW labels \in SUBSET Label, CreateCluster(c, labels)
      PROVE  Inductive'
  <2>1. /\ \A d \in Cluster \ {c} : cluster'[d] = cluster[d]
        /\ cluster'[c].phase = "live" /\ ~cluster'[c].annotated
        /\ cluster[c].uid \in Nat /\ cluster'[c].uid = cluster[c].uid + 1
        /\ UNCHANGED <<compliance, addonConstraints, worker, pass, owed, collected>>
    BY <1>1 DEF CreateCluster, TypeOK, ClusterObjects
  <2> QED BY <2>1
<1>2. ASSUME NEW c \in Cluster, NEW labels \in SUBSET Label, RelabelCluster(c, labels)
      PROVE  Inductive'
  <2>1. /\ \A d \in Cluster : /\ cluster'[d].phase = cluster[d].phase
                             /\ cluster'[d].uid = cluster[d].uid
                             /\ cluster'[d].annotated = cluster[d].annotated
        /\ UNCHANGED <<compliance, addonConstraints, worker, pass, owed, collected>>
    BY <1>2 DEF RelabelCluster, TypeOK, ClusterObjects
  <2> QED BY <2>1
<1>3. ASSUME NEW c \in Cluster, DeleteCluster(c)
      PROVE  Inductive'
  <2>1. /\ \A d \in Cluster \ {c} : cluster'[d] = cluster[d]
        /\ cluster[c].phase = "live" /\ cluster'[c].phase = "terminating"
        /\ cluster'[c].uid = cluster[c].uid
        /\ cluster'[c].annotated = cluster[c].annotated
        /\ UNCHANGED <<compliance, addonConstraints, worker, pass, owed, collected>>
    BY <1>3 DEF DeleteCluster, TypeOK, ClusterObjects
  <2> QED BY <2>1
<1>4. ASSUME NEW c \in Cluster, ClusterGone(c)
      PROVE  Inductive'
  <2>1. /\ \A d \in Cluster \ {c} : cluster'[d] = cluster[d]
        /\ cluster'[c].phase = "absent" /\ ~cluster'[c].annotated
        /\ cluster'[c].uid = cluster[c].uid
        /\ UNCHANGED <<compliance, addonConstraints, worker, pass, owed, collected>>
    BY <1>4 DEF ClusterGone, TypeOK, ClusterObjects
  <2> QED BY <2>1
<1>5. ASSUME NEW a \in Compliance, NEW spec \in Specs, CreateCompliance(a, spec)
      PROVE  Inductive'
  <2>1. /\ \A b \in Compliance \ {a} : compliance'[b] = compliance[b]
        /\ collected' = collected \ {a}
        /\ compliance'[a].uid # 0
        /\ compliance[a].uid # 0 => compliance'[a].uid # 1
        /\ UNCHANGED <<cluster, addonConstraints, worker, pass, owed>>
        /\ \A c \in Cluster : owed[c] \subseteq Compliance
    <3>1. compliance[a].uid \in Nat /\ compliance'[a].uid = compliance[a].uid + 1
      BY <1>5 DEF CreateCompliance, TypeOK, ComplianceObjects
    <3>2. compliance'[a].uid # 0 /\ (compliance[a].uid # 0 => compliance'[a].uid # 1)
      BY <3>1
    <3>3. \A c \in Cluster : owed[c] \subseteq Compliance
      BY DEF TypeOK
    <3>4. \A b \in Compliance \ {a} : compliance'[b] = compliance[b]
      BY <1>5 DEF CreateCompliance, TypeOK
    <3> QED BY <1>5, <3>2, <3>3, <3>4 DEF CreateCompliance
  <2>2. ASSUME NEW b \in Compliance, Settled(b), compliance[b].uid # 0
        PROVE  Settled(b)'
    <3>1. CASE b = a
      BY <2>1, <2>2, <3>1
    <3>2. CASE b # a
      BY <2>1, <2>2, <3>2
    <3> QED BY <3>1, <3>2
  <2>3. UnseenCompliance'
    BY <2>1
  <2>4. PassSettled'
    <3>1. ASSUME NEW b \in Compliance, pass[b].pc # "idle" PROVE compliance[b].uid # 0
      BY <3>1
    <3> QED BY <2>1, <2>2, <3>1
  <2>5. StruckSettled' /\ LoadedBeforeReady'
    <3>1. ASSUME NEW c \in Cluster, NEW b \in owed[c]
          PROVE  b \in Compliance /\ compliance[b].uid # 0
      BY <2>1
    <3> QED BY <2>1, <2>2, <3>1
  <2> QED BY <2>1, <2>3, <2>4, <2>5
<1>6. ASSUME NEW a \in Compliance, NEW spec \in Specs, EditCompliance(a, spec)
      PROVE  Inductive'
  <2>1. /\ \A b \in Compliance : /\ compliance'[b].phase = compliance[b].phase
                                /\ compliance'[b].uid = compliance[b].uid
        /\ UNCHANGED <<cluster, addonConstraints, worker, pass, owed, collected>>
        /\ \A c \in Cluster : owed[c] \subseteq Compliance
    BY <1>6 DEF EditCompliance, TypeOK, ComplianceObjects
  <2> QED BY <2>1
<1>7. ASSUME NEW a \in Compliance, DeleteCompliance(a)
      PROVE  Inductive'
  <2>1. /\ \A b \in Compliance \ {a} : compliance'[b] = compliance[b]
        /\ compliance[a].phase = "live"
        /\ UNCHANGED <<cluster, addonConstraints, worker, pass, owed, collected>>
        /\ \A c \in Cluster : owed[c] \subseteq Compliance
    BY <1>7 DEF DeleteCompliance, TypeOK
  <2>2. compliance'[a].phase # "live" /\ compliance'[a].uid = compliance[a].uid
    <3>1. CASE compliance[a].finalizer
      BY <1>7, <3>1 DEF DeleteCompliance, TypeOK, ComplianceObjects
    <3>2. CASE ~compliance[a].finalizer
      BY <1>7, <3>2 DEF DeleteCompliance, Dropped, TypeOK, ComplianceObjects
    <3> QED BY <3>1, <3>2
  <2> QED BY <2>1, <2>2
<1> QED BY <1>1, <1>2, <1>3, <1>4, <1>5, <1>6, <1>7 DEF UserStep

\* What SetAnnotation does to each cluster.
LEMMA SetAnnotationEffect ==
  ASSUME TypeOK, NEW c \in Cluster, SetAnnotation(c)
  PROVE  \A d \in Cluster :
           /\ cluster'[d].phase = cluster[d].phase
           /\ cluster'[d].uid = cluster[d].uid
           /\ cluster'[d].annotated =>
                cluster[d].annotated \/ (d = c /\ cluster[d].phase # "absent")
BY DEF SetAnnotation, TypeOK, ClusterObjects

\* The cluster reconcilers keep the invariant.
LEMMA ClusterStepInductive ==
  ASSUME TypeOK, Inductive, NEW c \in Cluster, ReconcileCluster(c) \/ ClusterStep(c)
  PROVE  Inductive'
<1> USE DEF Inductive, WorkerEntry, UnseenCluster, AbsentNotAnnotated, FirstLifeEntry,
            AnnotatedEntryEmpty, UnseenCompliance, PassSettled, StruckSettled,
            LoadedBeforeReady, FirstLife, Live, Annotated, Current, Settled,
            HasEntryForCluster
<1>1. CASE ReconcileCluster(c)
  <2>1. /\ \A d \in Cluster \ {c} : worker'[d] = worker[d]
        /\ \/ worker'[c].pc = "list" /\ ShouldAddClusterEntry(c)
           \/ worker'[c].pc = "remove" /\ ~Live(c)
        /\ worker'[c].found = {} \/ worker'[c].found = worker[c].found
    BY <1>1, ReconcileClusterEffect
  <2>2. /\ cluster[c].uid # 0
        /\ UNCHANGED <<cluster, compliance, addonConstraints, pass, owed, collected>>
    <3>1. cluster[c].uid > 0 => cluster[c].uid # 0
      BY DEF TypeOK, ClusterObjects
    <3> QED BY <1>1, <3>1 DEF ReconcileCluster
  <2> QED BY <2>1, <2>2 DEF ShouldAddClusterEntry
<1>2. CASE RemoveEntry(c)
  <2>1. /\ worker[c].pc = "remove"
        /\ \A d \in Cluster \ {c} : worker'[d] = worker[d]
        /\ worker'[c].pc = "idle" /\ worker'[c].found = {}
        /\ DOMAIN addonConstraints' = DOMAIN addonConstraints \ {c}
        /\ \A d \in DOMAIN addonConstraints' : addonConstraints'[d] = addonConstraints[d]
        /\ UNCHANGED <<cluster, compliance, pass, owed, collected>>
    BY <1>2 DEF RemoveEntry, RemoveClusterEntry, TypeOK, NoWorker
  <2> QED BY <2>1
<1>3. CASE ListCompliances(c)
  <2>1. /\ worker[c].pc = "list"
        /\ \A d \in Cluster \ {c} : worker'[d] = worker[d]
        /\ worker'[c].pc \in {"add", "idle"}
        /\ \A a \in worker'[c].found : compliance[a].phase # "absent"
        /\ UNCHANGED <<cluster, compliance, addonConstraints, pass, owed, collected>>
    BY <1>3, ListEffect DEF ListCompliances
  <2> QED BY <2>1
<1>4. CASE AddEntry(c)
  <2>1. /\ worker[c].pc = "add"
        /\ \A d \in Cluster \ {c} : worker'[d] = worker[d] /\ owed'[d] = owed[d]
        /\ worker'[c].pc = "count" /\ worker'[c].found = {}
        /\ owed'[c] = worker[c].found
        /\ DOMAIN addonConstraints' = DOMAIN addonConstraints \cup {c}
        /\ addonConstraints'[c] = worker[c].found
        /\ \A d \in Cluster \ {c} : addonConstraints'[d] = addonConstraints[d]
                                    \/ d \notin DOMAIN addonConstraints
        /\ UNCHANGED <<cluster, compliance, pass, collected>>
    BY <1>4 DEF AddEntry, AddClusterEntry, TypeOK, NoWorker
  <2> QED BY <2>1
<1>5. CASE CountCompliances(c)
  <2>1. /\ worker[c].pc = "count"
        /\ \A d \in Cluster \ {c} : worker'[d] = worker[d]
        /\ \/ worker'[c].pc = "annotate" /\ AwaitsNone(addonConstraints, c)
           \/ worker'[c].pc = "idle"
        /\ worker'[c].found \subseteq worker[c].found
        /\ UNCHANGED <<cluster, compliance, addonConstraints, pass, owed, collected>>
    BY <1>5 DEF CountCompliances, TypeOK, Workers, NoWorker
  <2> QED BY <2>1 DEF AwaitsNone
<1>6. CASE AnnotateNewCluster(c)
  <2>1. /\ worker[c].pc = "annotate"
        /\ \A d \in Cluster \ {c} : worker'[d] = worker[d]
        /\ worker'[c].pc = "idle" /\ worker'[c].found = {}
        /\ SetAnnotation(c) \/ UNCHANGED cluster
        /\ UNCHANGED <<compliance, addonConstraints, pass, owed, collected>>
    BY <1>6 DEF AnnotateNewCluster, TypeOK, NoWorker
  <2>2. \A d \in Cluster :
           /\ cluster'[d].phase = cluster[d].phase
           /\ cluster'[d].uid = cluster[d].uid
           /\ cluster'[d].annotated =>
                cluster[d].annotated \/ (d = c /\ cluster[d].phase # "absent")
    BY <2>1, SetAnnotationEffect
  <2> QED BY <2>1, <2>2
<1> QED BY <1>1, <1>2, <1>3, <1>4, <1>5, <1>6 DEF ClusterStep

\* The passes keep the invariant.
LEMMA PassStepInductive ==
  ASSUME TypeOK, Inductive, NEW a \in Compliance, Reconcile(a) \/ PassStep(a)
  PROVE  Inductive'
<1> USE DEF Inductive, WorkerEntry, UnseenCluster, AbsentNotAnnotated, FirstLifeEntry,
            AnnotatedEntryEmpty, UnseenCompliance, PassSettled, StruckSettled,
            LoadedBeforeReady, FirstLife, Live, Annotated, Current, Settled,
            HasEntryForCluster
<1>1. CASE Reconcile(a)
  <2>1. /\ compliance[a].phase # "absent"
        /\ \A b \in Compliance \ {a} : pass'[b] = pass[b]
        /\ pass'[a].toAnnotate = {}
        /\ \/ compliance[a].phase = "terminating" /\ pass'[a].deleting
           \/ pass'[a].pc # "clear" /\ ~pass'[a].deleting
        /\ UNCHANGED <<cluster, compliance, addonConstraints, worker, owed, collected>>
    BY <1>1 DEF Reconcile, TypeOK, NoPass
  <2> QED BY <2>1
<1>2. CASE AddFinalizer(a)
  <2>1. /\ pass[a].pc = "finalize"
        /\ \A b \in Compliance \ {a} : pass'[b] = pass[b]
        /\ pass'[a].toAnnotate = pass[a].toAnnotate
        /\ pass'[a].deleting = pass[a].deleting
        /\ pass'[a].pc \in {"match", "close"}
        /\ UNCHANGED <<cluster, addonConstraints, worker, owed, collected>>
    BY <1>2, AddFinalizerEffect DEF AddFinalizer
  <2>2. \A b \in Compliance : /\ compliance'[b].phase = compliance[b].phase
                             /\ compliance'[b].uid = compliance[b].uid
    BY <1>2 DEF AddFinalizer, TypeOK, ComplianceObjects
  <2>3. \A c \in Cluster : owed[c] \subseteq Compliance /\ worker[c].found \subseteq Compliance
    BY DEF TypeOK, Workers
  <2> QED BY <2>1, <2>2, <2>3
<1>3. CASE GetMatchingClusters(a)
  <2>1. /\ pass[a].pc = "match"
        /\ \A b \in Compliance \ {a} : pass'[b] = pass[b]
        /\ pass'[a].toAnnotate = pass[a].toAnnotate
        /\ pass'[a].deleting = pass[a].deleting
        /\ pass'[a].pc \in {"collect", "close"}
        /\ UNCHANGED <<cluster, compliance, addonConstraints, worker, owed, collected>>
    BY <1>3, GetMatchingClustersEffect DEF GetMatchingClusters
  <2> QED BY <2>1
<1>4. CASE CollectLuaValidations(a)
  <2>1. /\ pass[a].pc = "collect"
        /\ \A b \in Compliance \ {a} : pass'[b] = pass[b]
        /\ pass'[a].toAnnotate = pass[a].toAnnotate
        /\ pass'[a].deleting = pass[a].deleting
        /\ \/ pass'[a].pc = "clear" /\ collected' = collected \cup {a}
           \/ pass'[a].pc = "close" /\ collected' = collected
        /\ UNCHANGED <<cluster, compliance, addonConstraints, worker, owed>>
    BY <1>4, CollectEffect DEF CollectLuaValidations
  <2> QED BY <2>1
<1>5. CASE ClearCompliance(a)
  <2>1. /\ pass[a].pc = "clear"
        /\ \A b \in Compliance \ {a} : pass'[b] = pass[b]
        /\ pass'[a].pc = "annotate" /\ pass'[a].deleting = pass[a].deleting
        /\ pass'[a].toAnnotate =
             {c \in DOMAIN addonConstraints :
                addonConstraints[c] # {} /\ addonConstraints[c] \ {a} = {}}
        /\ DOMAIN addonConstraints' = DOMAIN addonConstraints
        /\ \A c \in DOMAIN addonConstraints : addonConstraints'[c] = addonConstraints[c] \ {a}
        /\ UNCHANGED <<cluster, compliance, worker, owed, collected>>
    BY <1>5 DEF ClearCompliance, TypeOK, PassStates, RemoveAddonCompliance, ClustersToAnnotate
  <2> QED BY <2>1
<1>6. CASE AnnotateCluster(a)
  <2>1. /\ pass[a].pc = "annotate"
        /\ \A b \in Compliance \ {a} : pass'[b] = pass[b]
        /\ pass'[a].pc \in {"annotate", "close"}
        /\ pass'[a].deleting = pass[a].deleting
        /\ pass'[a].toAnnotate \subseteq pass[a].toAnnotate
    BY <1>6, AnnotateEffect
  <2>2. UNCHANGED <<compliance, addonConstraints, worker, owed, collected>>
    BY <1>6 DEF AnnotateCluster
  <2>3. \/ \E c \in pass[a].toAnnotate : SetAnnotation(c)
        \/ UNCHANGED cluster
    BY <1>6 DEF AnnotateCluster
  <2>4. pass[a].toAnnotate \subseteq Cluster
    BY DEF TypeOK, PassStates
  <2>5. \A d \in Cluster :
           /\ cluster'[d].phase = cluster[d].phase
           /\ cluster'[d].uid = cluster[d].uid
           /\ cluster'[d].annotated =>
                \/ cluster[d].annotated
                \/ d \in pass[a].toAnnotate /\ cluster[d].phase # "absent"
    BY <2>3, <2>4, SetAnnotationEffect
  <2> QED BY <2>1, <2>2, <2>5
<1>7. CASE Close(a)
  <2>1. /\ pass[a].pc = "close"
        /\ \A b \in Compliance \ {a} : pass'[b] = pass[b] /\ compliance'[b] = compliance[b]
        /\ pass'[a].pc = "idle" /\ pass'[a].toAnnotate = {}
        /\ UNCHANGED <<cluster, addonConstraints, worker, owed, collected>>
    BY <1>7 DEF Close, TypeOK, NoPass
  <2>2. /\ compliance'[a].uid = compliance[a].uid
        /\ compliance'[a].phase \in {compliance[a].phase, "absent"}
    BY <1>7, CloseEffect
  <2>3. \A c \in Cluster : owed[c] \subseteq Compliance /\ worker[c].found \subseteq Compliance
    BY DEF TypeOK, Workers
  <2> QED BY <2>1, <2>2, <2>3
<1> QED BY <1>1, <1>2, <1>3, <1>4, <1>5, <1>6, <1>7 DEF PassStep

\* A restart keeps the invariant: no entry is left that could be wrong.
LEMMA RestartInductive ==
  ASSUME TypeOK, Inductive, Restart
  PROVE  Inductive'
<1>1. /\ DOMAIN addonConstraints' = {}
      /\ \A c \in Cluster : worker'[c].pc = "idle" /\ worker'[c].found = {}
      /\ \A a \in Compliance : pass'[a].pc = "idle" /\ pass'[a].toAnnotate = {}
      /\ UNCHANGED <<cluster, compliance, owed, collected>>
  BY DEF Restart, NoEntries, NoWorker, NoPass
<1> QED BY <1>1 DEF Inductive, WorkerEntry, UnseenCluster, AbsentNotAnnotated,
                    FirstLifeEntry, AnnotatedEntryEmpty, UnseenCompliance, PassSettled,
                    StruckSettled, LoadedBeforeReady, FirstLife, Live, Annotated, Current,
                    Settled, HasEntryForCluster

\* Every step keeps the invariant.
LEMMA NextInductive == TypeOK /\ Inductive /\ [Next]_vars => Inductive'
<1> SUFFICES ASSUME TypeOK, Inductive, [Next]_vars PROVE Inductive'
  OBVIOUS
<1>1. CASE UserStep
  BY <1>1, UserStepInductive
<1>2. CASE Restart
  BY <1>2, RestartInductive
<1>3. ASSUME NEW c \in Cluster, ReconcileCluster(c) \/ ClusterStep(c) PROVE Inductive'
  BY <1>3, ClusterStepInductive
<1>4. ASSUME NEW a \in Compliance, Reconcile(a) \/ PassStep(a) PROVE Inductive'
  BY <1>4, PassStepInductive
<1>5. CASE UNCHANGED vars
  BY <1>5 DEF vars, Inductive, WorkerEntry, UnseenCluster, AbsentNotAnnotated,
              FirstLifeEntry, AnnotatedEntryEmpty, UnseenCompliance, PassSettled,
              StruckSettled, LoadedBeforeReady, FirstLife, Live, Annotated, Current,
              Settled, HasEntryForCluster
<1> QED BY <1>1, <1>2, <1>3, <1>4, <1>5 DEF Next

\* Every reachable state satisfies the inductive invariant.
THEOREM InductiveHolds == Spec => []Inductive
<1>1. Init => TypeOK /\ Inductive
  BY InitType, InitInductive
<1>2. TypeOK /\ Inductive /\ [Next]_vars => (TypeOK /\ Inductive)'
  BY NextType, NextInductive
<1> QED BY <1>1, <1>2, PTL DEF Spec

\* Whatever fails, is deleted or restarts, an annotated cluster in its first
\* life waits for no compliance.
THEOREM AnnotatedEntryEmptyHolds == Spec => []AnnotatedEntryEmpty
<1>1. Inductive => AnnotatedEntryEmpty
  BY DEF Inductive
<1> QED BY <1>1, InductiveHolds, PTL

\* Whatever fails, is deleted or restarts, a cluster in its first life is
\* annotated only after the validations of every compliance recorded for it
\* have been collected.
THEOREM LoadedBeforeReadyHolds == Spec => []LoadedBeforeReady
<1>1. Inductive => LoadedBeforeReady
  BY DEF Inductive
<1> QED BY <1>1, InductiveHolds, PTL

\* However reconcilers and passes interleave, the entry of a cluster only
\* shrinks until it is dropped.
THEOREM EntryOnlyShrinksHolds == Spec => EntryOnlyShrinks
<1> DEFINE Shrinks == \A c \in DOMAIN addonConstraints \cap DOMAIN addonConstraints' :
                        addonConstraints'[c] \subseteq addonConstraints[c]
<1>1. ASSUME Inductive, [Next]_vars PROVE Shrinks
  <2>1. CASE UNCHANGED addonConstraints
    BY <2>1
  <2>2. CASE Restart
    BY <2>2 DEF Restart, NoEntries
  <2>3. ASSUME NEW c \in Cluster, RemoveEntry(c) PROVE Shrinks
    BY <2>3 DEF RemoveEntry, RemoveClusterEntry
  <2>4. ASSUME NEW c \in Cluster, AddEntry(c) PROVE Shrinks
    <3>1. c \notin DOMAIN addonConstraints
      BY <1>1, <2>4 DEF AddEntry, Inductive, WorkerEntry, HasEntryForCluster
    <3> QED BY <2>4, <3>1 DEF AddEntry, AddClusterEntry
  <2>5. ASSUME NEW a \in Compliance, ClearCompliance(a) PROVE Shrinks
    BY <2>5 DEF ClearCompliance, RemoveAddonCompliance
  <2>6. \/ UNCHANGED addonConstraints
        \/ Restart
        \/ \E c \in Cluster : RemoveEntry(c) \/ AddEntry(c)
        \/ \E a \in Compliance : ClearCompliance(a)
    BY <1>1 DEF Next, UserStep, CreateCluster, RelabelCluster, DeleteCluster, ClusterGone,
                CreateCompliance, EditCompliance, DeleteCompliance, ClusterStep,
                ReconcileCluster, ListCompliances, CountCompliances, AnnotateNewCluster,
                PassStep, Reconcile, AddFinalizer, GetMatchingClusters,
                CollectLuaValidations, AnnotateCluster, Close, vars
  <2> QED BY <2>1, <2>2, <2>3, <2>4, <2>5, <2>6
<1>2. [Next]_vars /\ Inductive => [Shrinks]_vars
  BY <1>1
<1> QED BY <1>2, InductiveHolds, PTL DEF Spec, EntryOnlyShrinks

-----------------------------------------------------------------------------
(* ComplianceLoader implements ReadyGate as long as no cluster name is      *)
(* reused.                                                                  *)

UidBound == \A c \in Cluster : cluster[c].uid <= MaxUid

\* No name has more incarnations than MaxUid.
LEMMA UidBoundHolds == Spec => []UidBound
<1>1. Init => UidBound
  BY ConstantsAssumption DEF Init, UidBound
<1>2. ASSUME TypeOK, UidBound, [Next]_vars PROVE UidBound'
  <2>1. ASSUME NEW c \in Cluster, NEW labels \in SUBSET Label, CreateCluster(c, labels)
        PROVE  UidBound'
    BY <1>2, <2>1, ConstantsAssumption DEF CreateCluster, TypeOK, ClusterObjects, UidBound
  <2>2. CASE \A c \in Cluster : cluster'[c].uid = cluster[c].uid
    BY <1>2, <2>2 DEF UidBound
  <2>3. ASSUME NEW c \in Cluster, \/ \E labels \in SUBSET Label : RelabelCluster(c, labels)
                                 \/ DeleteCluster(c) \/ ClusterGone(c)
        PROVE  \A d \in Cluster : cluster'[d].uid = cluster[d].uid
    BY <1>2, <2>3 DEF RelabelCluster, DeleteCluster, ClusterGone, TypeOK, ClusterObjects
  <2>4. ASSUME NEW c \in Cluster, SetAnnotation(c)
        PROVE  \A d \in Cluster : cluster'[d].uid = cluster[d].uid
    BY <1>2, <2>4, SetAnnotationEffect
  <2>5. ASSUME NEW a \in Compliance, AnnotateCluster(a)
        PROVE  (\E c \in Cluster : SetAnnotation(c)) \/ UNCHANGED cluster
    BY <1>2, <2>5 DEF AnnotateCluster, TypeOK, PassStates
  <2>6. \/ \E c \in Cluster, labels \in SUBSET Label : CreateCluster(c, labels)
        \/ \E c \in Cluster : \/ \E labels \in SUBSET Label : RelabelCluster(c, labels)
                             \/ DeleteCluster(c) \/ ClusterGone(c)
        \/ \E c \in Cluster : SetAnnotation(c)
        \/ \E a \in Compliance : AnnotateCluster(a)
        \/ UNCHANGED cluster
    BY <1>2 DEF Next, UserStep, CreateCompliance, EditCompliance, DeleteCompliance, Restart,
                ClusterStep, ReconcileCluster, RemoveEntry, ListCompliances, AddEntry,
                CountCompliances, AnnotateNewCluster, PassStep, Reconcile, AddFinalizer,
                GetMatchingClusters, CollectLuaValidations, ClearCompliance, Close, vars
  <2> QED BY <2>1, <2>2, <2>3, <2>4, <2>5, <2>6
<1> QED BY <1>1, <1>2, TypeCorrect, PTL DEF Spec

\* The initial states are initial states of the gate.
LEMMA GateInit == Init => Gate!Init
BY DEF Init, Gate!Init, Live, Annotated, NoEntries, Gate!NoEntries

Ready == {c \in Cluster : Live(c) /\ Annotated(c)}

\* Annotating a cluster that has no name-sake opens the gate, or changes nothing.
LEMMA AnnotationOpens ==
  ASSUME TypeOK, NEW c \in Cluster, SetAnnotation(c), UNCHANGED addonConstraints,
         Live(c) => HasEntryForCluster(addonConstraints, c) /\ addonConstraints[c] = {}
  PROVE  [Gate!Next]_Gate!vars
<1>1. CASE Live(c)
  <2>1. /\ cluster'[c].phase = "live" /\ cluster'[c].annotated
        /\ \A d \in Cluster \ {c} : cluster'[d] = cluster[d]
    BY <1>1 DEF SetAnnotation, Live, TypeOK, ClusterObjects
  <2>2. Ready' = Ready \cup {c}
    BY <2>1 DEF Ready, Live, Annotated
  <2>3. Gate!Open(c)
    BY <1>1, <2>2 DEF Gate!Open, Ready, HasEntryForCluster, Gate!HasEntryForCluster
  <2> QED BY <2>3 DEF Gate!Next
<1>2. CASE ~Live(c)
  <2>1. /\ cluster'[c].phase = cluster[c].phase
        /\ \A d \in Cluster \ {c} : cluster'[d] = cluster[d]
    BY DEF SetAnnotation, TypeOK, ClusterObjects
  <2>2. \A d \in Cluster : Live(d)' /\ Annotated(d)' <=> Live(d) /\ Annotated(d)
    <3>1. ~Live(c)' /\ ~Live(c)
      BY <1>2, <2>1 DEF Live
    <3>2. ASSUME NEW d \in Cluster \ {c}
          PROVE  Live(d)' /\ Annotated(d)' <=> Live(d) /\ Annotated(d)
      BY <2>1 DEF Live, Annotated
    <3> QED BY <3>1, <3>2
  <2>3. Ready' = Ready
    BY <2>2 DEF Ready
  <2> QED BY <2>3 DEF Gate!vars, Ready
<1> QED BY <1>1, <1>2

\* What users do to clusters retires them from the gate, or changes nothing.
LEMMA UserStepGate ==
  ASSUME TypeOK, UserStep
  PROVE  [Gate!Next]_Gate!vars
<1>1. ASSUME NEW c \in Cluster, NEW labels \in SUBSET Label, CreateCluster(c, labels)
      PROVE  Ready' = Ready /\ UNCHANGED addonConstraints
  BY <1>1 DEF CreateCluster, TypeOK, Ready, Live, Annotated
<1>2. ASSUME NEW c \in Cluster, NEW labels \in SUBSET Label, RelabelCluster(c, labels)
      PROVE  Ready' = Ready /\ UNCHANGED addonConstraints
  <2>1. \A d \in Cluster : /\ cluster'[d].phase = cluster[d].phase
                          /\ cluster'[d].annotated = cluster[d].annotated
    BY <1>2 DEF RelabelCluster, TypeOK, ClusterObjects
  <2> QED BY <1>2, <2>1 DEF RelabelCluster, Ready, Live, Annotated
<1>3. ASSUME NEW c \in Cluster, DeleteCluster(c)
      PROVE  Gate!Retire(c)
  <2>1. /\ \A d \in Cluster \ {c} : cluster'[d] = cluster[d]
        /\ cluster'[c].phase = "terminating"
    BY <1>3 DEF DeleteCluster, TypeOK, ClusterObjects
  <2>2. Ready' = Ready \ {c}
    BY <2>1 DEF Ready, Live, Annotated
  <2> QED BY <1>3, <2>2 DEF DeleteCluster, Gate!Retire, Ready
<1>4. ASSUME NEW c \in Cluster, ClusterGone(c)
      PROVE  Ready' = Ready /\ UNCHANGED addonConstraints
  BY <1>4 DEF ClusterGone, TypeOK, Ready, Live, Annotated
<1>5. ASSUME UNCHANGED <<cluster, addonConstraints>>
      PROVE  Ready' = Ready /\ UNCHANGED addonConstraints
  BY <1>5 DEF Ready, Live, Annotated
<1>6. \/ \E c \in Cluster : Gate!Retire(c)
      \/ Ready' = Ready /\ UNCHANGED addonConstraints
  BY <1>1, <1>2, <1>3, <1>4, <1>5
     DEF UserStep, CreateCompliance, EditCompliance, DeleteCompliance
<1> QED BY <1>6 DEF Gate!Next, Gate!vars, Ready

\* Each step of the controller is a step of the gate, or changes nothing there.
LEMMA GateStep ==
  ASSUME MaxUid = 1, TypeOK, Inductive, UidBound, [Next]_vars
  PROVE  [Gate!Next]_Gate!vars
<1>0. \A c \in Cluster : Live(c) => FirstLife(c)
  <2>1. \A c \in Cluster : cluster[c].uid \in Nat /\ cluster[c].uid <= 1
    BY DEF UidBound, TypeOK, ClusterObjects
  <2>2. \A c \in Cluster : Live(c) => cluster[c].uid # 0
    BY DEF Inductive, UnseenCluster, Live
  <2> QED BY <2>1, <2>2 DEF FirstLife
<1>1. CASE UserStep
  BY <1>1, UserStepGate
<1>2. CASE Restart
  BY <1>2 DEF Restart, Gate!Next, Gate!Lose, NoEntries, Gate!NoEntries, Live, Annotated
<1>3. ASSUME NEW c \in Cluster, RemoveEntry(c) PROVE [Gate!Next]_Gate!vars
  <2>1. ~Live(c)
    BY <1>0, <1>3 DEF RemoveEntry, Inductive, FirstLifeEntry
  <2>2. Gate!Forget(c)
    BY <1>3, <2>1 DEF RemoveEntry, Gate!Forget, RemoveClusterEntry, Gate!RemoveClusterEntry,
                      Live, Annotated
  <2> QED BY <2>2 DEF Gate!Next
<1>4. ASSUME NEW c \in Cluster, AddEntry(c) PROVE [Gate!Next]_Gate!vars
  <2>1. ~(Live(c) /\ Annotated(c)) /\ ~HasEntryForCluster(addonConstraints, c)
    BY <1>0, <1>4 DEF AddEntry, Inductive, FirstLifeEntry, WorkerEntry
  <2>2. worker[c].found \in SUBSET Compliance
    BY DEF TypeOK, Workers
  <2>3. Gate!Track(c, worker[c].found)
    BY <1>4, <2>1 DEF AddEntry, Gate!Track, AddClusterEntry, Gate!AddClusterEntry,
                      HasEntryForCluster, Gate!HasEntryForCluster, Live, Annotated
  <2> QED BY <2>2, <2>3 DEF Gate!Next
<1>5. ASSUME NEW c \in Cluster, AnnotateNewCluster(c), SetAnnotation(c)
      PROVE  [Gate!Next]_Gate!vars
  BY <1>5, AnnotationOpens DEF AnnotateNewCluster, Inductive, WorkerEntry
<1>6. ASSUME NEW a \in Compliance, ClearCompliance(a) PROVE [Gate!Next]_Gate!vars
  <2>1. Gate!Load(a)
    BY <1>6 DEF ClearCompliance, Gate!Load, RemoveAddonCompliance, Gate!RemoveAddonCompliance,
                Live, Annotated
  <2> QED BY <2>1 DEF Gate!Next
<1>7. ASSUME NEW a \in Compliance, AnnotateCluster(a),
             NEW c \in pass[a].toAnnotate, SetAnnotation(c)
      PROVE  [Gate!Next]_Gate!vars
  <2>1. c \in Cluster
    BY DEF TypeOK, PassStates
  <2>2. Live(c) => HasEntryForCluster(addonConstraints, c) /\ addonConstraints[c] = {}
    BY <1>0, <2>1 DEF Inductive, FirstLifeEntry
  <2> QED BY <1>7, <2>1, <2>2, AnnotationOpens DEF AnnotateCluster
<1>8. CASE UNCHANGED <<cluster, addonConstraints>>
  BY <1>8 DEF Gate!vars, Live, Annotated
<1>9. ASSUME NEW c \in Cluster, ReconcileCluster(c) \/ ClusterStep(c)
      PROVE  [Gate!Next]_Gate!vars
  <2>1. \/ RemoveEntry(c) \/ AddEntry(c)
        \/ AnnotateNewCluster(c) /\ SetAnnotation(c)
        \/ UNCHANGED <<cluster, addonConstraints>>
    BY <1>9 DEF ClusterStep, ReconcileCluster, ListCompliances, CountCompliances,
                AnnotateNewCluster
  <2> QED BY <1>3, <1>4, <1>5, <1>8, <2>1
<1>10. ASSUME NEW a \in Compliance, Reconcile(a) \/ PassStep(a)
       PROVE  [Gate!Next]_Gate!vars
  <2>1. CASE AnnotateCluster(a)
    <3>1. \/ \E c \in pass[a].toAnnotate : SetAnnotation(c)
          \/ UNCHANGED <<cluster, addonConstraints>>
      BY <2>1 DEF AnnotateCluster
    <3> QED BY <1>7, <1>8, <2>1, <3>1
  <2>2. CASE ~AnnotateCluster(a)
    <3>1. ClearCompliance(a) \/ UNCHANGED <<cluster, addonConstraints>>
      BY <1>10, <2>2 DEF PassStep, Reconcile, AddFinalizer, GetMatchingClusters,
                         CollectLuaValidations, Close
    <3> QED BY <1>6, <1>8, <3>1
  <2> QED BY <2>1, <2>2
<1>11. CASE UNCHANGED vars
  BY <1>8, <1>11 DEF vars
<1> QED BY <1>1, <1>2, <1>9, <1>10, <1>11 DEF Next

\* When no cluster name is reused, the annotation is the gate ReadyGate
\* describes: it opens for a cluster only while the cluster is tracked and waits
\* for nothing.
THEOREM LoaderImplementsGate ==
  ASSUME MaxUid = 1
  PROVE  Spec => GateSpec
<1>1. TypeOK /\ Inductive /\ UidBound /\ [Next]_vars => [Gate!Next]_Gate!vars
  BY GateStep
<1> QED BY <1>1, GateInit, TypeCorrect, InductiveHolds, UidBoundHolds, PTL
        DEF Spec, GateSpec, Gate!Spec

-----------------------------------------------------------------------------
(* No annotation is forgotten.                                              *)

\* What is said of one cluster.
NotForgotten(c) ==
  FirstLife(c) /\ HasEntryForCluster(addonConstraints, c) /\ addonConstraints[c] = {}
    => Annotated(c) \/ WillAnnotate(c)

\* Users create clusters without entry, and take no annotation from a live one.
LEMMA UserRemembers ==
  ASSUME TypeOK, Inductive, UserStep, NEW c \in Cluster, NotForgotten(c)
  PROVE  NotForgotten(c)'
<1>1. UNCHANGED <<addonConstraints, worker, pass>>
  BY DEF UserStep, CreateCluster, RelabelCluster, DeleteCluster, ClusterGone, CreateCompliance,
     EditCompliance, DeleteCompliance
<1>2. ASSUME NEW d \in Cluster, NEW labels \in SUBSET Label, CreateCluster(d, labels)
      PROVE  NotForgotten(c)'
  <2>1. CASE c = d
    <3>1. cluster[c].uid \in Nat /\ cluster'[c].uid = cluster[c].uid + 1
      BY <1>2, <2>1 DEF CreateCluster, TypeOK, ClusterObjects
    <3>2. FirstLife(c)' => cluster[c].uid = 0
      BY <3>1 DEF FirstLife
    <3>3. cluster[c].uid = 0 => ~HasEntryForCluster(addonConstraints, c)
      BY DEF Inductive, UnseenCluster
    <3> QED BY <1>1, <3>2, <3>3 DEF NotForgotten, HasEntryForCluster
  <2>2. CASE c # d
    <3>1. cluster'[c] = cluster[c]
      BY <1>2, <2>2 DEF CreateCluster, TypeOK
    <3> QED BY <1>1, <3>1 DEF NotForgotten, FirstLife, Live, Annotated, WillAnnotate,
                              HasEntryForCluster
  <2> QED BY <2>1, <2>2
<1>3. ASSUME NEW d \in Cluster, NEW labels \in SUBSET Label,
             RelabelCluster(d, labels) \/ DeleteCluster(d) \/ ClusterGone(d)
      PROVE  NotForgotten(c)'
  <2>1. \/ cluster'[c] = cluster[c]
        \/ cluster'[c] = [cluster[c] EXCEPT !.labels = labels]
        \/ ~Live(c)'
    BY <1>3 DEF RelabelCluster, DeleteCluster, ClusterGone, TypeOK, ClusterObjects, Live
  <2>2. FirstLife(c)' => FirstLife(c) /\ Annotated(c)' = Annotated(c)
    BY <2>1 DEF FirstLife, Live, Annotated, TypeOK, ClusterObjects
  <2> QED BY <1>1, <2>2 DEF NotForgotten, WillAnnotate, HasEntryForCluster
<1>4. CASE UNCHANGED cluster
  BY <1>1, <1>4 DEF NotForgotten, FirstLife, Live, Annotated, WillAnnotate, HasEntryForCluster
<1>5. {} \in SUBSET Label
  OBVIOUS
<1>6. CASE \E d \in Cluster : DeleteCluster(d) \/ ClusterGone(d)
  BY <1>3, <1>5, <1>6
<1>7. CASE \E d \in Cluster, labels \in SUBSET Label : CreateCluster(d, labels) \/ RelabelCluster(d, labels)
  BY <1>2, <1>3, <1>7
<1>8. CASE \/ \E a \in Compliance, spec \in Specs : CreateCompliance(a, spec) \/ EditCompliance(a, spec)
           \/ \E a \in Compliance : DeleteCompliance(a)
  BY <1>4, <1>8 DEF CreateCompliance, EditCompliance, DeleteCompliance
<1> QED BY <1>6, <1>7, <1>8 DEF UserStep

\* An Update that succeeds annotates its cluster, and no step of a reconciler
\* takes an annotation.
LEMMA AnnotationStays ==
  ASSUME TypeOK, NEW c \in Cluster, SetAnnotation(c)
  PROVE  /\ cluster[c].phase # "absent" => Annotated(c)'
         /\ \A d \in Cluster : /\ cluster'[d].phase = cluster[d].phase
                               /\ cluster'[d].uid = cluster[d].uid
                               /\ Annotated(d) => Annotated(d)'
BY DEF SetAnnotation, TypeOK, ClusterObjects, Annotated

\* A cluster's own reconciler annotates it when it finds the entry empty.
LEMMA ClusterRemembers ==
  ASSUME TypeOK, Inductive, "updateCluster" \notin Fallible,
         NEW d \in Cluster, ReconcileCluster(d) \/ ClusterStep(d), NEW c \in Cluster, NotForgotten(c)
  PROVE  NotForgotten(c)'
<1>0. UNCHANGED pass /\ (c # d => worker'[c] = worker[c])
  BY DEF ReconcileCluster, ClusterStep, RemoveEntry, ListCompliances, AddEntry, CountCompliances,
     AnnotateNewCluster, TypeOK
<1>1. CASE ReconcileCluster(d)
  <2>1. c = d => worker[c].pc = "idle"
    BY <1>1 DEF ReconcileCluster, WorkerFree
  <2> QED BY <1>0, <1>1, <2>1 DEF ReconcileCluster, NotForgotten, FirstLife, Live, Annotated,
                              WillAnnotate, HasEntryForCluster
<1>2. CASE RemoveEntry(d)
  <2>1. /\ worker[d].pc = "remove" /\ UNCHANGED cluster
        /\ DOMAIN addonConstraints' = DOMAIN addonConstraints \ {d}
        /\ \A e \in DOMAIN addonConstraints' : addonConstraints'[e] = addonConstraints[e]
    BY <1>2 DEF RemoveEntry, RemoveClusterEntry
  <2> QED BY <1>0, <2>1 DEF NotForgotten, FirstLife, Live, Annotated, WillAnnotate, HasEntryForCluster
<1>3. CASE ListCompliances(d)
  <2>1. worker[d].pc = "list" /\ UNCHANGED <<cluster, addonConstraints>>
    BY <1>3 DEF ListCompliances
  <2> QED BY <1>0, <2>1 DEF NotForgotten, FirstLife, Live, Annotated, WillAnnotate, HasEntryForCluster
<1>4. CASE AddEntry(d)
  <2>1. /\ worker[d].pc = "add" /\ UNCHANGED cluster /\ worker'[d].pc = "count"
        /\ DOMAIN addonConstraints' = DOMAIN addonConstraints \cup {d}
        /\ \A e \in DOMAIN addonConstraints \ {d} : addonConstraints'[e] = addonConstraints[e]
    BY <1>4 DEF AddEntry, AddClusterEntry, NoWorker, TypeOK
  <2> QED BY <1>0, <2>1 DEF NotForgotten, FirstLife, Live, Annotated, WillAnnotate, HasEntryForCluster
<1>5. CASE CountCompliances(d)
  <2>1. /\ UNCHANGED <<cluster, addonConstraints>>
        /\ HasEntryForCluster(addonConstraints, d)
        /\ addonConstraints[d] = {} => worker'[d].pc = "annotate"
    BY <1>5 DEF CountCompliances, AwaitsNone, TypeOK, Workers, Inductive, WorkerEntry
  <2> QED BY <1>0, <2>1 DEF NotForgotten, FirstLife, Live, Annotated, WillAnnotate, HasEntryForCluster
<1>6. CASE AnnotateNewCluster(d)
  <2>1. SetAnnotation(d) /\ UNCHANGED addonConstraints
    BY <1>6 DEF AnnotateNewCluster, Fails
  <2> QED BY <1>0, <2>1, AnnotationStays
          DEF NotForgotten, FirstLife, Live, WillAnnotate, HasEntryForCluster
<1> QED BY <1>1, <1>2, <1>3, <1>4, <1>5, <1>6 DEF ClusterStep

\* A pass annotates the clusters whose entries it made empty.
LEMMA PassRemembers ==
  ASSUME TypeOK, "updateCluster" \notin Fallible,
         NEW a \in Compliance, Reconcile(a) \/ PassStep(a), NEW c \in Cluster, NotForgotten(c)
  PROVE  NotForgotten(c)'
<1>0. UNCHANGED worker /\ \A b \in Compliance \ {a} : pass'[b] = pass[b]
  BY DEF Reconcile, PassStep, AddFinalizer, GetMatchingClusters, CollectLuaValidations,
     ClearCompliance, AnnotateCluster, Close, TypeOK
<1>1. CASE ~ClearCompliance(a) /\ ~AnnotateCluster(a)
  <2>1. pass[a].pc # "annotate" /\ UNCHANGED <<cluster, addonConstraints>>
    BY <1>1 DEF Reconcile, PassStep, AddFinalizer, GetMatchingClusters, CollectLuaValidations, Close
  <2> QED BY <1>0, <2>1 DEF NotForgotten, FirstLife, Live, Annotated, WillAnnotate, HasEntryForCluster
<1>2. CASE ClearCompliance(a)
  <2>1. /\ pass[a].pc = "clear" /\ UNCHANGED cluster
        /\ pass'[a].pc = "annotate"
        /\ pass'[a].toAnnotate =
             {d \in DOMAIN addonConstraints :
                addonConstraints[d] # {} /\ addonConstraints[d] \ {a} = {}}
        /\ DOMAIN addonConstraints' = DOMAIN addonConstraints
        /\ \A d \in DOMAIN addonConstraints : addonConstraints'[d] = addonConstraints[d] \ {a}
    BY <1>2 DEF ClearCompliance, TypeOK, PassStates, RemoveAddonCompliance, ClustersToAnnotate
  <2> QED BY <1>0, <2>1 DEF NotForgotten, FirstLife, Live, Annotated, WillAnnotate, HasEntryForCluster
<1>3. CASE AnnotateCluster(a)
  <2>0. pass[a] \in PassStates /\ pass[a].pc = "annotate" /\ UNCHANGED addonConstraints
    BY <1>3 DEF AnnotateCluster, TypeOK
  <2>1. CASE \E d \in pass[a].toAnnotate :
               SetAnnotation(d) /\ pass' = [pass EXCEPT ![a].toAnnotate = @ \ {d}]
    <3>1. PICK d \in pass[a].toAnnotate :
            SetAnnotation(d) /\ pass' = [pass EXCEPT ![a].toAnnotate = @ \ {d}]
      BY <2>1
    <3>2. d \in Cluster /\ pass'[a] = [pass[a] EXCEPT !.toAnnotate = @ \ {d}]
      BY <2>0, <3>1 DEF TypeOK, PassStates
    <3>3. pass'[a].pc = "annotate" /\ pass'[a].toAnnotate = pass[a].toAnnotate \ {d}
      BY <2>0, <3>2 DEF PassStates
    <3>4. /\ cluster[d].phase # "absent" => Annotated(d)'
          /\ \A e \in Cluster : /\ cluster'[e].phase = cluster[e].phase
                                /\ cluster'[e].uid = cluster[e].uid
                                /\ Annotated(e) => Annotated(e)'
      BY <3>1, <3>2, AnnotationStays
    <3> QED BY <1>0, <2>0, <3>2, <3>3, <3>4
            DEF NotForgotten, FirstLife, Live, WillAnnotate, HasEntryForCluster
  <2>2. CASE pass[a].toAnnotate = {} /\ UNCHANGED cluster
    BY <1>0, <2>0, <2>2 DEF NotForgotten, FirstLife, Live, Annotated, WillAnnotate, HasEntryForCluster
  <2> QED BY <1>3, <2>1, <2>2 DEF AnnotateCluster, Fails
<1> QED BY <1>1, <1>2, <1>3

\* If no Update fails, every cluster in its first life whose entry is empty is
\* annotated or about to be, however reconcilers, passes, other failures and
\* restarts interleave.
THEOREM NothingForgottenHolds == Spec => []NothingForgotten
<1>1. Init => NothingForgotten
  BY DEF Init, NothingForgotten, FirstLife, Live
<1>2. TypeOK /\ Inductive /\ NothingForgotten /\ [Next]_vars => NothingForgotten'
  <2> SUFFICES ASSUME TypeOK, Inductive, NothingForgotten, [Next]_vars,
                      "updateCluster" \notin Fallible, NEW c \in Cluster
               PROVE  NotForgotten(c)'
    BY DEF NothingForgotten, NotForgotten
  <2>0. NotForgotten(c)
    BY DEF NothingForgotten, NotForgotten
  <2>1. CASE UserStep
    BY <2>0, <2>1, UserRemembers
  <2>2. CASE Restart
    BY <2>2 DEF Restart, NoEntries, NotForgotten, HasEntryForCluster
  <2>3. CASE \E d \in Cluster : ReconcileCluster(d) \/ ClusterStep(d)
    BY <2>0, <2>3, ClusterRemembers
  <2>4. CASE \E a \in Compliance : Reconcile(a) \/ PassStep(a)
    BY <2>0, <2>4, PassRemembers
  <2>5. CASE UNCHANGED vars
    BY <2>0, <2>5 DEF vars, NotForgotten, FirstLife, Live, Annotated, WillAnnotate, HasEntryForCluster
  <2> QED BY <2>1, <2>2, <2>3, <2>4, <2>5 DEF Next
<1> QED BY <1>1, <1>2, TypeCorrect, InductiveHolds, PTL DEF Spec
=============================================================================
