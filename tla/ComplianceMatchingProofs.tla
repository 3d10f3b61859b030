----------------------- MODULE ComplianceMatchingProofs -----------------------
(***************************************************************************)
(* What a status tells of the clusters that match, for any number of       *)
(* clusters, compliances and workers and any sequence of events, edits,    *)
(* failures, deletions and restarts.                                       *)
(***************************************************************************)
EXTENDS ComplianceEventsProofs, ComplianceMatching

-----------------------------------------------------------------------------
(* What the steps do to the fields of a pass.                               *)

Moves == {<<"finalize", "match">>, <<"finalize", "close">>,
          <<"match", "references">>, <<"match", "close">>,
          <<"references", "clusters">>, <<"clusters", "write">>, <<"write", "collect">>,
          <<"collect", "collect">>, <<"collect", "annotate">>, <<"collect", "close">>,
          <<"clean", "annotate">>, <<"annotate", "close">>, <<"close", "status">>}

\* The step in which a pass lists the clusters.
Lists(a) == pass[a].pc = "match" /\ pass'[a].pc = "references"

\* Until it patches the status, a pass keeps its spec; what it matches and the
\* labels it writes are what it listed, and only its end makes it done.
LEMMA PassFields ==
  ASSUME TypeOK, NEW a \in Compliance, PassStep(a), ~PatchStatus(a)
  PROVE  /\ <<pass[a].pc, pass'[a].pc>> \in Moves
         /\ pass'[a].spec = pass[a].spec /\ pass'[a].deleting = pass[a].deleting
         /\ IF pass[a].pc = "match"
            THEN Lists(a) =>
                   /\ pass'[a].matching = MatchingClusters(pass[a].spec)
                   /\ pass'[a].labels = MatchingClusters(pass[a].spec)
            ELSE pass'[a].matching = pass[a].matching /\ pass'[a].labels = pass[a].labels
         /\ pass'[a].tracked = IF Lists(a) THEN SelectorRecorded(a, pass[a].spec)
                               ELSE pass[a].tracked
         /\ pass[a].pc \notin {"annotate", "close"} => pass'[a].done = pass[a].done
         /\ pass[a].pc = "close" /\ pass'[a].done => pass[a].done
<1>0. pass[a] \in PassStates
  BY DEF TypeOK
<1>1. CASE AddFinalizer(a)
  <2>1. /\ pass[a].pc = "finalize"
        /\ \/ pass'[a] = [pass[a] EXCEPT !.pc = "match"]
           \/ pass'[a] = [pass[a] EXCEPT !.pc = "close"]
    BY <1>1 DEF AddFinalizer, TypeOK
  <2> QED BY <1>0, <2>1 DEF PassStates, Moves, Lists
<1>2. CASE GetMatchingClusters(a)
  <2>1. /\ pass[a].pc = "match"
        /\ \/ pass'[a] = [pass[a] EXCEPT !.pc = "references", !.labels = MatchingClusters(pass[a].spec),
                                         !.matching = MatchingClusters(pass[a].spec),
                                         !.tracked = SelectorRecorded(a, pass[a].spec)]
           \/ pass'[a] = [pass[a] EXCEPT !.pc = "close", !.failed = TRUE]
    BY <1>2 DEF GetMatchingClusters, TypeOK
  <2> QED BY <1>0, <2>1 DEF PassStates, Moves, Lists
<1>3. CASE UpdateReferenceMap(a) \/ UpdateClusterMap(a) \/ CleanMaps(a)
  <2>1. \/ pass[a].pc = "references" /\ pass'[a] = [pass[a] EXCEPT !.pc = "clusters"]
        \/ pass[a].pc = "clusters" /\ pass'[a] = [pass[a] EXCEPT !.pc = "write"]
        \/ pass[a].pc = "clean" /\ pass'[a] = [pass[a] EXCEPT !.pc = "annotate"]
    BY <1>3 DEF UpdateReferenceMap, UpdateClusterMap, CleanMaps, TypeOK
  <2> QED BY <1>0, <2>1 DEF PassStates, Moves, Lists
<1>4. CASE WriteSelector(a)
  <2>1. /\ pass[a].pc = "write"
        /\ pass'[a] = [pass[a] EXCEPT !.pc = "collect", !.toCollect = pass[a].spec.refs,
                                      !.content = NoContent]
    BY <1>4 DEF WriteSelector, TypeOK
  <2> QED BY <1>0, <2>1 DEF PassStates, Moves, Lists
<1>5. CASE CollectLuaValidations(a)
  <2>1. /\ pass[a].pc = "collect"
        /\ \/ \E r \in pass[a].toCollect : \E order \in 1..Walks[r] :
                pass'[a] = [pass[a] EXCEPT !.toCollect = @ \ {r}, !.content[r] = Collected(r, order)]
           \/ pass'[a] = [pass[a] EXCEPT !.pc = "annotate"]
           \/ pass'[a] = [pass[a] EXCEPT !.pc = "close", !.toCollect = {},
                                         !.content = compliance[a].content, !.failed = TRUE]
    BY <1>5 DEF CollectLuaValidations, TypeOK
  <2> QED BY <1>0, <2>1 DEF PassStates, Moves, Lists
<1>6. CASE AnnotateClusters(a)
  <2>1. /\ pass[a].pc = "annotate"
        /\ \/ pass'[a] = [pass[a] EXCEPT !.pc = "close", !.failed = FALSE, !.done = TRUE]
           \/ pass'[a] = [pass[a] EXCEPT !.pc = "close", !.failed = TRUE]
    BY <1>6 DEF AnnotateClusters, TypeOK
  <2> QED BY <1>0, <2>1 DEF PassStates, Moves, Lists
<1>7. CASE PatchMetadata(a)
  <2>1. /\ pass[a].pc = "close"
        /\ \/ pass'[a] = [pass[a] EXCEPT !.pc = "status"]
           \/ pass'[a] = [pass[a] EXCEPT !.pc = "status", !.done = FALSE]
    BY <1>7 DEF PatchMetadata, TypeOK
  <2> QED BY <1>0, <2>1 DEF PassStates, Moves, Lists
<1> QED BY <1>1, <1>2, <1>3, <1>4, <1>5, <1>6, <1>7 DEF PassStep

\* A pass touches its object only in three steps.
LEMMA PassLeavesObject ==
  ASSUME NEW a \in Compliance, PassStep(a),
         pass[a].pc \notin {"finalize", "close", "status"}
  PROVE  compliance' = compliance
BY DEF PassStep, AddFinalizer, GetMatchingClusters, UpdateReferenceMap, UpdateClusterMap,
       WriteSelector, CollectLuaValidations, CleanMaps, AnnotateClusters, PatchMetadata,
       PatchStatus, objects

\* What the patch of the metadata leaves.
LEMMA MetadataWritten ==
  ASSUME TypeOK, NEW a \in Compliance, HeldOrClean(a), PatchMetadata(a)
  PROVE  /\ pass[a].pc = "close" /\ pass'[a].pc = "status"
         /\ compliance'[a].phase = "live" =>
              /\ compliance[a].phase = "live" /\ ~pass[a].deleting
              /\ compliance'[a].spec = compliance[a].spec
              /\ compliance'[a].matching = compliance[a].matching
              /\ compliance[a].finalizer => compliance'[a].finalizer
              /\ pass'[a].done => compliance'[a].labels = pass[a].labels
<1>0. pass[a] \in PassStates /\ compliance[a] \in ComplianceObjects
  BY DEF TypeOK
<1>1. pass[a].pc = "close"
  BY DEF PatchMetadata
<1>2. \/ /\ pass'[a] = [pass[a] EXCEPT !.pc = "status"]
         /\ compliance'[a] = MetadataPatched(a)
      \/ /\ pass'[a] = [pass[a] EXCEPT !.pc = "status", !.done = FALSE]
         /\ compliance'[a] = compliance[a]
  BY DEF PatchMetadata, TypeOK
<1>3. CASE pass[a].deleting
  <2>1. compliance'[a].phase # "live"
    BY <1>1, <1>2, <1>3 DEF HeldOrClean, MetadataPatched, NoObject
  <2> QED BY <1>0, <1>1, <1>2, <2>1 DEF PassStates
<1>4. CASE ~pass[a].deleting
  <2>1. MetadataPatched(a) = [compliance[a] EXCEPT !.finalizer = TRUE, !.labels = pass[a].labels]
    BY <1>4 DEF MetadataPatched
  <2>2. CASE /\ pass'[a] = [pass[a] EXCEPT !.pc = "status"]
             /\ compliance'[a] = [compliance[a] EXCEPT !.finalizer = TRUE, !.labels = pass[a].labels]
    <3>1. pass'[a].pc = "status"
      BY <1>0, <2>2 DEF PassStates
    <3>2. /\ compliance'[a].phase = compliance[a].phase /\ compliance'[a].finalizer
          /\ compliance'[a].spec = compliance[a].spec
          /\ compliance'[a].matching = compliance[a].matching
          /\ compliance'[a].labels = pass[a].labels
      BY <1>0, <2>2 DEF ComplianceObjects
    <3> QED BY <1>1, <1>4, <3>1, <3>2
  <2>3. CASE /\ pass'[a] = [pass[a] EXCEPT !.pc = "status", !.done = FALSE]
             /\ compliance'[a] = compliance[a]
    <3>1. pass'[a].pc = "status" /\ ~pass'[a].done
      BY <1>0, <2>3 DEF PassStates
    <3> QED BY <1>1, <1>4, <2>3, <3>1
  <2> QED BY <1>2, <2>1, <2>2, <2>3
<1> QED BY <1>3, <1>4

\* A pass that ends without being repeated changed nothing of its object.
LEMMA StatusWritten ==
  ASSUME TypeOK, NEW a \in Compliance, PatchStatus(a)
  PROVE  /\ pass[a].pc = "status" /\ pass'[a] = NoPassAfter(a)
         /\ compliance'[a].phase = compliance[a].phase
         /\ compliance'[a].spec = compliance[a].spec
         /\ compliance'[a].finalizer = compliance[a].finalizer
         /\ a \notin queue' =>
              /\ a \notin queue /\ pass[a].done /\ compliance'[a] = compliance[a]
              /\ ~pass[a].deleting => compliance[a].matching = pass[a].matching
<1>0. compliance[a] \in ComplianceObjects
  BY DEF TypeOK
<1>1. pass[a].pc = "status" /\ pass'[a] = NoPassAfter(a)
  BY DEF PatchStatus, TypeOK
<1>2. compliance'[a] = compliance[a] \/ compliance'[a] = StatusPatched(a)
  BY DEF PatchStatus, TypeOK
<1>3. \/ StatusPatched(a) = compliance[a] /\ pass[a].deleting
      \/ StatusPatched(a) = [compliance[a] EXCEPT !.matching = pass[a].matching,
                                   !.content = pass[a].content, !.failed = pass[a].failed]
  BY DEF StatusPatched
<1>4. /\ compliance'[a].phase = compliance[a].phase /\ compliance'[a].spec = compliance[a].spec
      /\ compliance'[a].finalizer = compliance[a].finalizer
  <2>1. CASE compliance'[a] = compliance[a]
    BY <2>1
  <2>2. CASE compliance'[a] = [compliance[a] EXCEPT !.matching = pass[a].matching,
                                   !.content = pass[a].content, !.failed = pass[a].failed]
    BY <1>0, <2>2 DEF ComplianceObjects
  <2> QED BY <1>2, <1>3, <2>1, <2>2
<1>5. ASSUME a \notin queue'
      PROVE  /\ a \notin queue /\ pass[a].done /\ compliance'[a] = compliance[a]
             /\ StatusPatched(a) = compliance[a]
  BY <1>5 DEF PatchStatus, TypeOK
<1>6. ASSUME a \notin queue', ~pass[a].deleting
      PROVE  compliance[a].matching = pass[a].matching
  <2> DEFINE patched == [compliance[a] EXCEPT !.matching = pass[a].matching,
                                   !.content = pass[a].content, !.failed = pass[a].failed]
  <2>1. compliance[a] = patched
    BY <1>3, <1>5, <1>6
  <2>2. patched.matching = pass[a].matching
    BY <1>0 DEF ComplianceObjects
  <2> QED BY <2>1, <2>2
<1> QED BY <1>1, <1>4, <1>5, <1>6

-----------------------------------------------------------------------------
(* Labels and status.                                                       *)

\* A compliance that is not touched keeps what its patches wrote, and so does one
\* whose object changes if that puts it in the queue.
LEMMA WrittenFrame ==
  ASSUME NEW b \in Compliance, LabelsWrittenOf(b), pass'[b] = pass[b],
         b \in queue => b \in queue', compliance'[b] = compliance[b] \/ b \in queue'
  PROVE  LabelsWrittenOf(b)'
BY DEF LabelsWrittenOf

\* A step of a pass leaves the labels as listed until they are patched.
LEMMA WrittenPassStep ==
  ASSUME TypeOK, RecordedHeld, NEW a \in Compliance, LabelsWrittenOf(a), PassStep(a)
  PROVE  LabelsWrittenOf(a)'
<1>0. HeldOrClean(a) /\ queue \subseteq queue'
  BY PassLeavesEvents DEF RecordedHeld
<1>1. CASE PatchMetadata(a)
  <2>1. /\ pass'[a].deleting = pass[a].deleting
        /\ pass'[a].matching = pass[a].matching /\ pass'[a].labels = pass[a].labels
        /\ pass'[a].done => pass[a].done
    <3>1. pass[a].pc = "close" /\ ~PatchStatus(a)
      BY <1>1 DEF PatchMetadata, PatchStatus
    <3> QED BY <3>1, PassFields
  <2> QED BY <1>0, <1>1, <2>1, MetadataWritten DEF LabelsWrittenOf
<1>2. CASE PatchStatus(a)
  <2>1. pass'[a] = NoPassAfter(a) /\ pass[a].pc = "status" /\ compliance'[a].phase = compliance[a].phase
    BY <1>2, StatusWritten
  <2>2. pass'[a].pc = "idle" /\ ~pass'[a].done /\ ~pass'[a].deleting
    BY <2>1 DEF NoPassAfter, NoPass
  <2>3. ASSUME compliance'[a].phase = "live", a \notin queue'
        PROVE  compliance'[a].labels = compliance'[a].matching
    <3>1. /\ a \notin queue /\ pass[a].done /\ compliance'[a] = compliance[a]
          /\ ~pass[a].deleting => compliance[a].matching = pass[a].matching
      BY <1>2, <2>3, StatusWritten
    <3>2. ~pass[a].deleting /\ compliance[a].phase = "live"
      BY <2>1, <2>3, <3>1 DEF LabelsWrittenOf
    <3>3. compliance[a].labels = pass[a].labels /\ pass[a].labels = pass[a].matching
      BY <2>1, <3>1, <3>2 DEF LabelsWrittenOf
    <3> QED BY <3>1, <3>2, <3>3
  <2> QED BY <2>2, <2>3 DEF LabelsWrittenOf
<1>3. CASE ~PatchMetadata(a) /\ ~PatchStatus(a)
  <2>1. /\ <<pass[a].pc, pass'[a].pc>> \in Moves
        /\ pass[a].pc # "close"
    BY <1>3, PassFields DEF PassStep, AddFinalizer, GetMatchingClusters, UpdateReferenceMap,
       UpdateClusterMap, WriteSelector, CollectLuaValidations, CleanMaps, AnnotateClusters
  <2>2. pass[a].deleting => compliance' = compliance
    BY <1>0, <2>1, PassLeavesObject DEF HeldOrClean, Moves
  <2>3. /\ pass'[a].deleting = pass[a].deleting
        /\ pass'[a].done => pass[a].done \/ <<pass[a].pc, pass'[a].pc>> = <<"annotate", "close">>
        /\ IF pass[a].pc = "match"
           THEN Lists(a) => pass'[a].labels = pass'[a].matching
           ELSE pass'[a].labels = pass[a].labels /\ pass'[a].matching = pass[a].matching
    BY <1>3, <2>1, PassFields DEF Moves
  <2>4. pass[a].done => pass[a].pc \in {"close", "status"}
    BY DEF LabelsWrittenOf
  <2>5. ~pass[a].done
    BY <2>1, <2>4 DEF Moves
  <2>6. pass'[a].pc \notin {"idle", "status"}
    BY <2>1 DEF Moves
  <2>7. CASE pass[a].deleting
    <3>1. compliance'[a].phase = "terminating"
      BY <1>0, <2>1, <2>2, <2>7 DEF HeldOrClean, Moves
    <3> QED BY <2>3, <2>5, <2>6, <2>7, <3>1 DEF LabelsWrittenOf
  <2>8. CASE ~pass[a].deleting
    <3>1. pass'[a].done \/ pass'[a].pc \in {"references", "clusters", "write", "collect", "annotate"}
            => pass'[a].labels = pass'[a].matching
      <4>1. CASE pass[a].pc = "match"
        BY <2>1, <2>3, <2>5, <4>1 DEF Moves, Lists
      <4>2. CASE pass[a].pc # "match"
        <5>1. pass[a].pc \in {"references", "clusters", "write", "collect", "annotate"}
                => pass[a].labels = pass[a].matching
          BY <2>8 DEF LabelsWrittenOf
        <5>2. pass[a].pc # "clean"
          BY <1>0, <2>8 DEF HeldOrClean
        <5> QED BY <2>1, <2>3, <2>5, <4>2, <5>1, <5>2 DEF Moves
      <4> QED BY <4>1, <4>2
    <3> QED BY <2>3, <2>5, <2>6, <2>8, <3>1 DEF LabelsWrittenOf
  <2> QED BY <2>7, <2>8
<1> QED BY <1>1, <1>2, <1>3

\* A pass that starts has listed nothing yet.
LEMMA WrittenReconcile ==
  ASSUME TypeOK, NEW a \in Compliance, Reconcile(a)
  PROVE  LabelsWrittenOf(a)'
<1>1. compliance' = compliance
  BY DEF Reconcile, objects
<1>2. compliance[a].phase \in {"absent", "terminating", "live"}
  BY DEF TypeOK, ComplianceObjects
<1>3. \/ compliance[a].phase # "live" /\ pass'[a].pc = "idle" /\ ~pass'[a].done
      \/ compliance[a].phase # "live" /\ pass'[a].pc = "clean" /\ ~pass'[a].done /\ pass'[a].deleting
      \/ pass'[a].pc \in {"match", "finalize"} /\ ~pass'[a].done /\ ~pass'[a].deleting
  BY <1>2 DEF Reconcile, NoPass, TypeOK
<1> QED BY <1>1, <1>3 DEF LabelsWrittenOf

\* What users do to a compliance puts it in the queue.
LEMMA UserChanges ==
  ASSUME TypeOK, UserStep, NEW b \in Compliance
  PROVE  /\ pass' = pass /\ handler' = handler /\ AddonCompliances' = AddonCompliances
         /\ queue \subseteq queue'
         /\ compliance'[b] = compliance[b] \/ b \in queue'
<1>1. CASE \/ \E c \in Cluster : \E new \in ClusterVersions(c) :
                CreateCluster(c, new) \/ UpdateCluster(c, new)
           \/ \E c \in Cluster : DeleteCluster(c) \/ ClusterGone(c)
           \/ \E c \in Cluster, phase \in Phases : ChangeMachine(c, phase)
  BY <1>1 DEF CreateCluster, UpdateCluster, DeleteCluster, ClusterGone, ChangeCluster,
              ChangeMachine, cached
<1>2. CASE \/ \E r \in Reference : \E new \in ResourceVersions(r) :
                CreateReference(r, new) \/ UpdateReference(r, new)
           \/ \E r \in Reference : DeleteReference(r)
  BY <1>2 DEF CreateReference, UpdateReference, DeleteReference, ChangeReference, cached
<1>3. ASSUME NEW a \in Compliance, NEW object, ComplianceChanges(a, object)
      PROVE  /\ pass' = pass /\ handler' = handler /\ AddonCompliances' = AddonCompliances
             /\ queue \subseteq queue'
             /\ compliance'[b] = compliance[b] \/ b \in queue'
  BY <1>3 DEF ComplianceChanges, TypeOK, cached, events
<1>4. CASE \/ \E a \in Compliance, spec \in Specs : CreateCompliance(a, spec) \/ EditCompliance(a, spec)
           \/ \E a \in Compliance : DeleteCompliance(a)
  BY <1>3, <1>4 DEF CreateCompliance, EditCompliance, DeleteCompliance
<1> QED BY <1>1, <1>2, <1>4 DEF UserStep

\* A handler touches no compliance and no pass, and queues what it found.
LEMMA HandlerLeaves ==
  ASSUME HandlerStep
  PROVE  /\ UNCHANGED <<cluster, compliance, pass, AddonCompliances, left>>
         /\ queue \subseteq queue'
BY DEF HandlerStep, RequeueForCluster, RequeueForMachine, RequeueForReference, HandlerReturns,
       objects, cached

\* No step makes the labels differ from the status for good.
LEMMA LabelsWrittenStep ==
  ASSUME TypeOK, RecordedHeld, LabelsWritten, [Next]_vars
  PROVE  LabelsWritten'
<1>1. CASE UNCHANGED vars
  BY <1>1 DEF LabelsWritten, LabelsWrittenOf, vars, objects
<1>2. CASE UserStep
  BY <1>2, UserChanges, WrittenFrame DEF LabelsWritten
<1>3. CASE HandlerStep
  BY <1>3, HandlerLeaves, WrittenFrame DEF LabelsWritten
<1>4. CASE Restart
  <2>1. /\ compliance' = compliance
        /\ \A a \in Compliance : /\ pass'[a] = NoPass
                                 /\ compliance[a].phase = "live" => a \in queue'
    BY <1>4 DEF Restart, objects
  <2> QED BY <2>1 DEF LabelsWritten, LabelsWrittenOf, NoPass
<1>5. ASSUME NEW a \in Compliance, Reconcile(a) \/ PassStep(a)
      PROVE  LabelsWritten'
  <2>1. LabelsWrittenOf(a)'
    BY <1>5, WrittenReconcile, WrittenPassStep DEF LabelsWritten
  <2>2. queue \ {a} \subseteq queue'
    BY <1>5, PassLeavesEvents DEF Reconcile
  <2>3. ASSUME NEW b \in Compliance, b # a
        PROVE  LabelsWrittenOf(b)'
    BY <1>5, <2>2, <2>3, PassStepFrame, WrittenFrame DEF LabelsWritten
  <2> QED BY <2>1, <2>3 DEF LabelsWritten
<1> QED BY <1>1, <1>2, <1>3, <1>4, <1>5 DEF Next

\* Both patches succeeded with the same clusters, or else a pass is to come.
THEOREM LabelsWrittenHolds == Spec => []LabelsWritten
<1>1. Init => LabelsWritten
  BY DEF Init, LabelsWritten, LabelsWrittenOf, NoPass, NoObject
<1>2. TypeOK /\ RecordedHeld /\ LabelsWritten /\ [Next]_vars => LabelsWritten'
  BY LabelsWrittenStep
<1> QED BY <1>1, <1>2, MapsTypeCorrect, RecordedHeldHolds, PTL DEF Spec

\* So at rest the labels of each compliance name the clusters of its status,
\* whatever failed between the two patches.
THEOREM QuietLabelsHolds == Spec => []QuietLabels
<1>1. LabelsWritten => QuietLabels
  BY DEF LabelsWritten, LabelsWrittenOf, QuietLabels, Quiet, Passes
<1> QED BY <1>1, LabelsWrittenHolds, PTL

-----------------------------------------------------------------------------
(* Clusters: what one of them, its events and a status say.                 *)

\* The cluster c, in this version and with these events to come, is among those
\* that match if matching says so, or else an event will be handled for it.
Found(c, object, spec) ==
  \/ c \in spec.clusterRefs
  \/ /\ object.present /\ ~object.terminating
     /\ spec.selector # {} /\ Matches(spec.selector, object.labels)
Some(selector, coming) == \E i \in DOMAIN coming : Matches(selector, coming[i])
Told(c, object, coming, matching, spec) ==
  \/ c \in matching <=> Found(c, object, spec)
  \/ object.paused /\ Found(c, object, spec) /\ c \notin matching \cup spec.clusterRefs
  \/ /\ object.present /\ object.terminating
     /\ c \in matching /\ Matches(spec.selector, object.labels)
  \/ Some(spec.selector, coming)

LEMMA CoveredMeans ==
  ASSUME NEW a, NEW matching, NEW spec, spec.clusterRefs \subseteq Cluster
  PROVE  MatchingCovered(matching, spec, a) <=>
           Pending(a) \/ \A c \in Cluster : Told(c, cluster[c], clusterEvents[c], matching, spec)
BY DEF MatchingCovered, Unnoticed, Lingers, WillMatch, MatchingClusters,
         Told, Found, Some

\* Events that come later take none away.
LEMMA SomeOfOneMore ==
  ASSUME NEW selector, NEW s, s \in Seq(SUBSET Label), NEW x, x \in SUBSET Label,
         Some(selector, s) \/ Matches(selector, x)
  PROVE  Some(selector, s \o <<x>>)
<1>1. Len(s) + 1 \in DOMAIN (s \o <<x>>) /\ (s \o <<x>>)[Len(s) + 1] = x
  OBVIOUS
<1>2. ASSUME NEW i \in DOMAIN s
      PROVE  i \in DOMAIN (s \o <<x>>) /\ (s \o <<x>>)[i] = s[i]
  OBVIOUS
<1> QED BY <1>1, <1>2 DEF Some

LEMMA SomeOfTwoMore ==
  ASSUME NEW selector, NEW s, s \in Seq(SUBSET Label), NEW x, x \in SUBSET Label,
         NEW y, y \in SUBSET Label, Some(selector, s) \/ Matches(selector, x) \/ Matches(selector, y)
  PROVE  Some(selector, s \o <<x, y>>)
<1> DEFINE t == s \o <<x, y>>
<1>1. Len(s) + 1 \in DOMAIN t /\ t[Len(s) + 1] = x
  OBVIOUS
<1>2. Len(s) + 2 \in DOMAIN t /\ t[Len(s) + 2] = y
  OBVIOUS
<1>3. ASSUME NEW i \in DOMAIN s
      PROVE  i \in DOMAIN t /\ t[i] = s[i]
  OBVIOUS
<1> HIDE DEF t
<1>4. Some(selector, t)
  BY <1>1, <1>2, <1>3 DEF Some
<1> QED BY <1>4 DEF t

\* Handling an event that does not match leaves those that do.
LEMMA SomeLeft ==
  ASSUME NEW selector, NEW s, s \in Seq(SUBSET Label), Some(selector, s),
         ~Matches(selector, Head(s))
  PROVE  Some(selector, Tail(s))
<1>1. PICK i \in DOMAIN s : Matches(selector, s[i])
  BY DEF Some
<1>2. i - 1 \in DOMAIN Tail(s) /\ Tail(s)[i - 1] = s[i]
  BY <1>1
<1> QED BY <1>1, <1>2 DEF Some

\* A change is an event with labels that match, if it adds the cluster to those
\* that match or takes it from them, unless a paused cluster is created or the
\* deletion timestamp is set, which stays.
LEMMA ChangeTold ==
  ASSUME NEW c \in Cluster, NEW old \in ClusterObjects, NEW new \in ClusterObjects,
         NEW coming, coming \in Seq(SUBSET Label), NEW matching, NEW spec,
         old.present \/ new.present, Told(c, old, coming, matching, spec),
         old.present /\ new.present /\ old.terminating => new.terminating
  PROVE  /\ ClusterEventPasses(c, old, new) =>
              Told(c, new, coming \o HandledLabels(old, new), matching, spec)
         /\ ~ClusterEventPasses(c, old, new) => Told(c, new, coming, matching, spec)
<1>0. old.labels \in SUBSET Label /\ new.labels \in SUBSET Label
  BY DEF ClusterObjects
<1>1. \/ HandledLabels(old, new) = <<new.labels>> /\ ~old.present
      \/ HandledLabels(old, new) = <<old.labels>> /\ ~new.present
      \/ HandledLabels(old, new) = <<old.labels, new.labels>>
  BY DEF HandledLabels, Creates, Deletes, ClusterObjects
<1>2. CASE \/ Some(spec.selector, coming)
           \/ old.present /\ Matches(spec.selector, old.labels)
           \/ new.present /\ Matches(spec.selector, new.labels)
  <2>1. Some(spec.selector, coming \o HandledLabels(old, new))
    <3>1. CASE HandledLabels(old, new) = <<new.labels>> /\ ~old.present
      <4>1. Some(spec.selector, coming) \/ Matches(spec.selector, new.labels)
        BY <1>2, <3>1
      <4> QED BY <1>0, <3>1, <4>1, SomeOfOneMore
    <3>2. CASE HandledLabels(old, new) = <<old.labels>> /\ ~new.present
      <4>1. Some(spec.selector, coming) \/ Matches(spec.selector, old.labels)
        BY <1>2, <3>2
      <4> QED BY <1>0, <3>2, <4>1, SomeOfOneMore
    <3>3. CASE HandledLabels(old, new) = <<old.labels, new.labels>>
      <4>1. \/ Some(spec.selector, coming)
            \/ Matches(spec.selector, old.labels) \/ Matches(spec.selector, new.labels)
        BY <1>2
      <4> QED BY <1>0, <3>3, <4>1, SomeOfTwoMore
    <3> QED BY <1>1, <3>1, <3>2, <3>3
  <2>2. ASSUME ~ClusterEventPasses(c, old, new), ~Some(spec.selector, coming)
        PROVE  Told(c, new, coming, matching, spec)
    <3>1. /\ ~old.present => new.paused
          /\ old.present => new.present
          /\ old.present => old.labels = new.labels
          /\ old.present => (old.paused => new.paused)
      BY <2>2 DEF ClusterEventPasses, SveltosClusterPasses, ClusterPasses, Creates, Updates, Deletes,
                  ClusterObjects
    <3>2. \/ c \in matching <=> Found(c, old, spec)
          \/ old.paused /\ Found(c, old, spec) /\ c \notin matching \cup spec.clusterRefs
          \/ /\ old.present /\ old.terminating
             /\ c \in matching /\ Matches(spec.selector, old.labels)
      BY <2>2 DEF Told
    <3>3. CASE old.present
      <4>1. CASE new.terminating <=> old.terminating
        <5>1. Found(c, new, spec) <=> Found(c, old, spec)
          BY <3>1, <3>3, <4>1 DEF Found
        <5> QED BY <3>1, <3>2, <3>3, <4>1, <5>1 DEF Told
      <4>2. CASE new.terminating /\ ~old.terminating
        <5>1. /\ Found(c, new, spec) <=> c \in spec.clusterRefs
              /\ c \in spec.clusterRefs => Found(c, old, spec)
          BY <4>2 DEF Found
        <5>2. Found(c, old, spec) => c \in spec.clusterRefs \/ Matches(spec.selector, new.labels)
          BY <3>1, <3>3 DEF Found
        <5> QED BY <3>1, <3>2, <3>3, <4>2, <5>1, <5>2 DEF Told
      <4> QED BY <3>1, <3>3, <4>1, <4>2 DEF ClusterObjects
    <3>4. CASE ~old.present
      <4>1. Found(c, old, spec) <=> c \in spec.clusterRefs
        BY <3>4 DEF Found
      <4>2. c \in matching <=> c \in spec.clusterRefs
        BY <3>2, <3>4, <4>1
      <4>3. c \in spec.clusterRefs => Found(c, new, spec)
        BY DEF Found
      <4> QED BY <3>1, <3>4, <4>2, <4>3 DEF Told
    <3> QED BY <3>3, <3>4
  <2>3. Some(spec.selector, coming) => Told(c, new, coming, matching, spec)
    BY DEF Told
  <2> QED BY <2>1, <2>2, <2>3 DEF Told
<1>3. CASE /\ ~Some(spec.selector, coming)
           /\ ~(old.present /\ Matches(spec.selector, old.labels))
           /\ ~(new.present /\ Matches(spec.selector, new.labels))
  <2>1. Found(c, old, spec) <=> c \in spec.clusterRefs
    BY <1>3 DEF Found
  <2>2. Found(c, new, spec) <=> c \in spec.clusterRefs
    BY <1>3 DEF Found
  <2>3. c \in matching <=> c \in spec.clusterRefs
    BY <1>3, <2>1 DEF Told
  <2> QED BY <2>2, <2>3 DEF Told
<1> QED BY <1>2, <1>3

LEMMA HandledTold ==
  ASSUME NEW c, NEW object, NEW coming, coming \in Seq(SUBSET Label),
         NEW matching, NEW spec, Told(c, object, coming, matching, spec),
         ~Matches(spec.selector, Head(coming))
  PROVE  Told(c, object, Tail(coming), matching, spec)
BY SomeLeft DEF Told

-----------------------------------------------------------------------------
(* Tracked listings miss nothing.                                           *)

TrackedOf(a) == TrackedPass(a) /\ TrackedStatus(a)

\* What a step must leave of clusters and events for a listing to stay covered.
ChangesTold(b) ==
  \A c \in Cluster : \A matching, spec :
    SelectorRecorded(b, spec) /\ Told(c, cluster[c], clusterEvents[c], matching, spec)
      => Pending(b)' \/ Told(c, cluster'[c], clusterEvents'[c], matching, spec)

LEMMA CoverageKept ==
  ASSUME NEW b, NEW matching, NEW spec, spec.clusterRefs \subseteq Cluster,
         SelectorRecorded(b, spec), MatchingCovered(matching, spec, b),
         Pending(b) => Pending(b)', ChangesTold(b)
  PROVE  Pending(b)' \/ \A c \in Cluster : Told(c, cluster'[c], clusterEvents'[c], matching, spec)
<1>1. Pending(b) \/ \A c \in Cluster : Told(c, cluster[c], clusterEvents[c], matching, spec)
  BY CoveredMeans
<1> QED BY <1>1 DEF ChangesTold

\* A compliance that is not touched keeps its coverage, and so does one whose
\* object changes if that puts it in the queue.
LEMMA TrackedFrame ==
  ASSUME TypeOK, NEW b \in Compliance, TrackedOf(b), pass'[b] = pass[b],
         Pending(b) => Pending(b)', compliance'[b] = compliance[b] \/ Pending(b)',
         b \in DOMAIN AddonCompliances =>
           b \in DOMAIN AddonCompliances' /\ AddonCompliances'[b] = AddonCompliances[b],
         ChangesTold(b)
  PROVE  TrackedOf(b)'
<1>0. /\ pass[b].spec.clusterRefs \subseteq Cluster
      /\ compliance[b].spec.clusterRefs \subseteq Cluster
  <2>1. pass[b].spec \in Specs \cup {BlankSpec} /\ compliance[b].spec \in Specs \cup {BlankSpec}
    BY DEF TypeOK, PassStates, ComplianceObjects
  <2> QED BY <2>1, SpecTypes
<1>1. TrackedPass(b)'
  <2>1. compliance'[b].phase = "live" /\ pass'[b].pc # "idle" => Pending(b)' \/ OnCurrentSpec(b)'
    BY DEF TrackedOf, TrackedPass, OnCurrentSpec
  <2>2. ASSUME ~pass[b].deleting, Listed(b), pass[b].tracked
        PROVE  /\ SelectorRecorded(b, pass[b].spec)'
               /\ MatchingCovered(pass[b].matching, pass[b].spec, b)'
    <3>1. /\ SelectorRecorded(b, pass[b].spec)
          /\ MatchingCovered(pass[b].matching, pass[b].spec, b)
      BY <2>2 DEF TrackedOf, TrackedPass
    <3>2. SelectorRecorded(b, pass[b].spec)'
      BY <3>1 DEF SelectorRecorded
    <3>3. Pending(b)' \/ \A c \in Cluster : Told(c, cluster'[c], clusterEvents'[c],
                                                 pass[b].matching, pass[b].spec)
      BY <1>0, <3>1, CoverageKept
    <3>4. MatchingCovered(pass[b].matching, pass[b].spec, b)'
      BY <1>0, <3>3 DEF MatchingCovered, Unnoticed, Lingers, WillMatch, MatchingClusters,
         Told, Found, Some
    <3> QED BY <3>2, <3>4
  <2>3. pass'[b].done => pass'[b].pc \in {"close", "status"}
    BY DEF TrackedOf, TrackedPass
  <2> QED BY <2>1, <2>2, <2>3 DEF TrackedPass, Listed
<1>2. TrackedStatus(b)'
  <2> SUFFICES ASSUME compliance'[b].phase = "live", pass'[b].pc = "idle", pass'[b].tracked, ~Pending(b)'
               PROVE  /\ SelectorRecorded(b, compliance[b].spec)'
                      /\ MatchingCovered(compliance[b].matching, compliance[b].spec, b)'
    BY DEF TrackedStatus
  <2>1. compliance'[b] = compliance[b] /\ ~Pending(b)
    OBVIOUS
  <2>2. /\ SelectorRecorded(b, compliance[b].spec)
        /\ MatchingCovered(compliance[b].matching, compliance[b].spec, b)
    BY <2>1 DEF TrackedOf, TrackedStatus
  <2>3. SelectorRecorded(b, compliance[b].spec)'
    BY <2>1, <2>2 DEF SelectorRecorded
  <2>4. \A c \in Cluster : Told(c, cluster'[c], clusterEvents'[c],
                                compliance[b].matching, compliance[b].spec)
    BY <1>0, <2>2, CoverageKept
  <2>5. MatchingCovered(compliance[b].matching, compliance[b].spec, b)'
    BY <1>0, <2>1, <2>4 DEF MatchingCovered, Unnoticed, Lingers, WillMatch, MatchingClusters,
         Told, Found, Some
  <2> QED BY <2>3, <2>5
<1> QED BY <1>1, <1>2 DEF TrackedOf

\* Users change clusters by events, compliances by way of the queue.
LEMMA TrackedUserStep ==
  ASSUME TypeOK, UserStep, NEW b \in Compliance, TrackedOf(b)
  PROVE  TrackedOf(b)'
<1>1. /\ pass'[b] = pass[b]
      /\ Pending(b) => Pending(b)'
      /\ compliance'[b] = compliance[b] \/ Pending(b)'
      /\ AddonCompliances' = AddonCompliances
  BY UserChanges DEF Pending
<1>2. ASSUME NEW c \in Cluster, NEW new \in ClusterObjects, ChangeCluster(c, new),
             cluster[c].present \/ new.present,
             cluster[c].present /\ new.present /\ cluster[c].terminating => new.terminating
      PROVE  ChangesTold(b)
  <2> SUFFICES ASSUME NEW d \in Cluster, NEW matching, NEW spec,
                      Told(d, cluster[d], clusterEvents[d], matching, spec)
               PROVE  Told(d, cluster'[d], clusterEvents'[d], matching, spec)
    BY DEF ChangesTold
  <2>1. CASE d # c
    <3>1. cluster'[d] = cluster[d] /\ clusterEvents'[d] = clusterEvents[d]
      BY <1>2, <2>1 DEF ChangeCluster, TypeOK
    <3> QED BY <3>1
  <2>2. CASE d = c
    <3>1. /\ cluster'[c] = new
          /\ clusterEvents'[c] = IF ClusterEventPasses(c, cluster[c], new)
                                 THEN clusterEvents[c] \o HandledLabels(cluster[c], new)
                                 ELSE clusterEvents[c]
      BY <1>2 DEF ChangeCluster, TypeOK
    <3>2. cluster[c] \in ClusterObjects /\ clusterEvents[c] \in Seq(SUBSET Label)
      BY DEF TypeOK
    <3> QED BY <1>2, <2>2, <3>1, <3>2, ChangeTold
  <2> QED BY <2>1, <2>2
<1>3. CASE \E c \in Cluster : \/ DeleteCluster(c) \/ ClusterGone(c)
                              \/ \E new \in ClusterVersions(c) :
                                   CreateCluster(c, new) \/ UpdateCluster(c, new)
  <2>1. PICK c \in Cluster, new \in ClusterObjects :
          /\ ChangeCluster(c, new)
          /\ cluster[c].present \/ new.present
          /\ cluster[c].present /\ new.present /\ cluster[c].terminating => new.terminating
    <3>1. CASE \E c \in Cluster : DeleteCluster(c)
      <4>1. \A c \in Cluster : /\ [cluster[c] EXCEPT !.terminating = TRUE] \in ClusterObjects
                               /\ [cluster[c] EXCEPT !.terminating = TRUE].terminating
        BY DEF TypeOK, ClusterObjects
      <4> QED BY <3>1, <4>1 DEF DeleteCluster
    <3>2. CASE \E c \in Cluster : ClusterGone(c)
      BY <3>2, BlankTypes DEF ClusterGone, NoCluster
    <3>3. CASE \E c \in Cluster : \E new \in ClusterVersions(c) :
                 CreateCluster(c, new) \/ UpdateCluster(c, new)
      BY <3>3, VersionTypes DEF CreateCluster, UpdateCluster, ClusterVersions
    <3> QED BY <1>3, <3>1, <3>2, <3>3
  <2> QED BY <1>1, <1>2, <2>1, TrackedFrame
<1>4. CASE \/ \E c \in Cluster, phase \in Phases : ChangeMachine(c, phase)
           \/ \E r \in Reference : \E new \in ResourceVersions(r) :
                CreateReference(r, new) \/ UpdateReference(r, new)
           \/ \E r \in Reference : DeleteReference(r)
           \/ \E a \in Compliance, spec \in Specs :
                CreateCompliance(a, spec) \/ EditCompliance(a, spec)
           \/ \E a \in Compliance : DeleteCompliance(a)
  <2>1. UNCHANGED <<cluster, clusterEvents>>
    BY <1>4 DEF ChangeMachine, CreateReference, UpdateReference, DeleteReference,
         ChangeReference, CreateCompliance, EditCompliance, DeleteCompliance, ComplianceChanges,
         events
  <2> QED BY <1>1, <2>1, TrackedFrame DEF ChangesTold
<1> QED BY <1>3, <1>4 DEF UserStep

\* The handler of an event that matches finds who recorded the selector.
LEMMA TrackedHandlerStep ==
  ASSUME TypeOK, HandlerStep, MuxFree => handler.requests = {},
         NEW b \in Compliance, TrackedOf(b)
  PROVE  TrackedOf(b)'
<1>1. UNCHANGED <<cluster, compliance, pass, AddonCompliances>>
  BY HandlerLeaves
<1>2. Pending(b) => Pending(b)'
  <2>1. CASE MuxFree
    BY <2>1, HandlerLeaves DEF Pending
  <2>2. CASE ~MuxFree
    BY <2>2 DEF HandlerStep, RequeueForCluster, RequeueForMachine, RequeueForReference,
                HandlerReturns, Pending
  <2> QED BY <2>1, <2>2
<1>3. ASSUME NEW c \in Cluster, RequeueForCluster(c)
      PROVE  ChangesTold(b)
  <2> SUFFICES ASSUME NEW d \in Cluster, NEW matching, NEW spec, SelectorRecorded(b, spec),
                      Told(d, cluster[d], clusterEvents[d], matching, spec)
               PROVE  Pending(b)' \/ Told(d, cluster'[d], clusterEvents'[d], matching, spec)
    BY DEF ChangesTold
  <2>1. CASE d # c
    <3>1. clusterEvents'[d] = clusterEvents[d]
      BY <1>3, <2>1 DEF RequeueForCluster, TypeOK
    <3> QED BY <1>1, <3>1
  <2>2. CASE d = c /\ Matches(spec.selector, Head(clusterEvents[c]))
    <3>1. b \in NowMatching(Head(clusterEvents[c]))
      BY <2>2 DEF NowMatching, SelectorRecorded
    <3> QED BY <1>3, <3>1 DEF RequeueForCluster, Pending
  <2>3. CASE d = c /\ ~Matches(spec.selector, Head(clusterEvents[c]))
    <3>1. clusterEvents'[c] = Tail(clusterEvents[c]) /\ clusterEvents[c] \in Seq(SUBSET Label)
      BY <1>3 DEF RequeueForCluster, TypeOK
    <3> QED BY <1>1, <2>3, <3>1, HandledTold
  <2> QED BY <2>1, <2>2, <2>3
<1>4. CASE UNCHANGED clusterEvents
  BY <1>1, <1>2, <1>4, TrackedFrame DEF ChangesTold
<1>5. CASE \E c \in Cluster : RequeueForCluster(c)
  BY <1>1, <1>2, <1>3, <1>5, TrackedFrame
<1> QED BY <1>4, <1>5 DEF HandlerStep, RequeueForMachine, RequeueForReference, HandlerReturns

\* A pass that lists what it recorded before covers all changes to come.
LEMMA TrackedPassStep ==
  ASSUME TypeOK, RecordedHeld, NEW a \in Compliance, PassStep(a), TrackedOf(a)
  PROVE  TrackedOf(a)'
<1>0. /\ HeldOrClean(a)
      /\ pass[a].spec.clusterRefs \subseteq Cluster
      /\ compliance[a].spec.clusterRefs \subseteq Cluster
  <2>1. pass[a].spec \in Specs \cup {BlankSpec} /\ compliance[a].spec \in Specs \cup {BlankSpec}
    BY DEF TypeOK, PassStates, ComplianceObjects
  <2> QED BY <2>1, SpecTypes DEF RecordedHeld
<1>p. /\ UNCHANGED <<cluster, clusterEvents, handler>> /\ queue \subseteq queue'
      /\ Pending(a) => Pending(a)'
  BY PassLeavesEvents, PassLeavesClusters DEF Pending
<1>c. ChangesTold(a)
  BY <1>p DEF ChangesTold
<1>d. pass[a].done => pass[a].pc \in {"close", "status"}
  BY DEF TrackedOf, TrackedPass
<1>1. CASE PatchMetadata(a)
  <2>1. /\ pass[a].pc = "close" /\ ~PatchStatus(a) /\ UNCHANGED AddonCompliances
    BY <1>1 DEF PatchMetadata, PatchStatus, cached
  <2>2. /\ pass'[a].deleting = pass[a].deleting /\ pass'[a].spec = pass[a].spec
        /\ pass'[a].matching = pass[a].matching
        /\ pass'[a].done => pass[a].done
    BY <2>1, PassFields
  <2>3. pass'[a].pc = "status" /\ pass'[a].tracked = pass[a].tracked
    BY <1>0, <1>1, <2>1, MetadataWritten, PassFields DEF Lists
  <2>4. compliance'[a].phase = "live" => Pending(a)' \/ OnCurrentSpec(a)'
    BY <1>0, <1>1, <1>p, <2>1, <2>2, MetadataWritten DEF TrackedOf, TrackedPass, OnCurrentSpec
  <2>5. ASSUME ~pass[a].deleting, pass'[a].done, pass[a].tracked
        PROVE  /\ SelectorRecorded(a, pass[a].spec)'
               /\ MatchingCovered(pass[a].matching, pass[a].spec, a)'
    <3>1. /\ SelectorRecorded(a, pass[a].spec)
          /\ MatchingCovered(pass[a].matching, pass[a].spec, a)
      BY <2>2, <2>5 DEF TrackedOf, TrackedPass, Listed
    <3> QED BY <1>p, <2>1, <2>2, <3>1
            DEF SelectorRecorded, MatchingCovered, Unnoticed, Lingers, WillMatch,
                MatchingClusters
  <2> QED BY <2>2, <2>3, <2>4, <2>5 DEF TrackedOf, TrackedPass, TrackedStatus, Listed
<1>2. CASE PatchStatus(a)
  <2>1. /\ pass[a].pc = "status" /\ pass'[a] = NoPassAfter(a) /\ UNCHANGED AddonCompliances
        /\ pass'[a].tracked = pass[a].tracked
    <3>1. pass[a].pc = "status" /\ pass'[a] = NoPassAfter(a)
      BY <1>2, StatusWritten
    <3>2. pass'[a].tracked = pass[a].tracked
      BY <3>1 DEF NoPass, NoPassAfter
    <3> QED BY <1>2, <3>1, <3>2 DEF PatchStatus, cached
  <2>2. ASSUME compliance'[a].phase = "live", pass[a].tracked, ~Pending(a)'
        PROVE  /\ SelectorRecorded(a, compliance[a].spec)'
               /\ MatchingCovered(compliance[a].matching, compliance[a].spec, a)'
    <3>1. /\ ~Pending(a) /\ pass[a].done /\ compliance'[a] = compliance[a]
          /\ ~pass[a].deleting => compliance[a].matching = pass[a].matching
      BY <1>2, <1>p, <2>2, StatusWritten DEF Pending
    <3>2. ~pass[a].deleting /\ pass[a].spec = compliance[a].spec
      BY <2>1, <2>2, <3>1 DEF TrackedOf, TrackedPass, OnCurrentSpec
    <3>3. /\ SelectorRecorded(a, compliance[a].spec)
          /\ MatchingCovered(compliance[a].matching, compliance[a].spec, a)
      BY <2>2, <3>1, <3>2 DEF TrackedOf, TrackedPass, Listed
    <3> QED BY <1>p, <2>1, <3>1, <3>3
            DEF SelectorRecorded, MatchingCovered, Unnoticed, Lingers, WillMatch,
                MatchingClusters
  <2> QED BY <2>1, <2>2 DEF TrackedOf, TrackedPass, TrackedStatus, Listed, NoPass, NoPassAfter
<1>3. CASE ~PatchMetadata(a) /\ ~PatchStatus(a)
  <2>1. /\ <<pass[a].pc, pass'[a].pc>> \in Moves /\ pass[a].pc # "close"
        /\ pass'[a].spec = pass[a].spec /\ pass'[a].deleting = pass[a].deleting
    BY <1>3, PassFields DEF PassStep, AddFinalizer, GetMatchingClusters, UpdateReferenceMap,
       UpdateClusterMap, WriteSelector, CollectLuaValidations, CleanMaps, AnnotateClusters
  <2>2. /\ compliance'[a].phase = compliance[a].phase /\ compliance'[a].spec = compliance[a].spec
    <3>1. CASE pass[a].pc = "finalize"
      <4>1. AddFinalizer(a)
        BY <3>1 DEF PassStep, GetMatchingClusters, UpdateReferenceMap, UpdateClusterMap,
           WriteSelector, CollectLuaValidations, CleanMaps, AnnotateClusters, PatchMetadata,
           PatchStatus
      <4>2. /\ compliance[a] \in ComplianceObjects
            /\ \/ compliance'[a] = compliance[a]
               \/ compliance'[a] = [compliance[a] EXCEPT !.finalizer = TRUE]
        BY <4>1 DEF AddFinalizer, TypeOK
      <4> QED BY <4>2 DEF ComplianceObjects
    <3>2. CASE pass[a].pc # "finalize"
      BY <2>1, <3>2, PassLeavesObject DEF Moves
    <3> QED BY <3>1, <3>2
  <2>3. pass'[a].done => pass'[a].pc = "close"
    BY <1>3, <1>d, <2>1, PassFields DEF Moves
  <2>4. compliance'[a].phase = "live" => Pending(a)' \/ OnCurrentSpec(a)'
    BY <1>p, <2>1, <2>2 DEF TrackedOf, TrackedPass, OnCurrentSpec, Moves
  <2>5. CASE pass[a].pc \in {"finalize", "clean"}
    <3>1. pass'[a].deleting \/ (pass'[a].pc \in {"match", "close"} /\ ~pass'[a].done)
      BY <1>0, <1>3, <1>d, <2>1, <2>5, PassFields DEF HeldOrClean, Moves
    <3> QED BY <2>1, <2>3, <2>4, <3>1 DEF TrackedOf, TrackedPass, TrackedStatus, Listed, Moves
  <2>6. CASE pass[a].pc = "match" /\ pass'[a].pc # "references"
    <3>1. pass'[a].pc = "close" /\ ~pass'[a].done
      BY <1>3, <1>d, <2>1, <2>6, PassFields DEF Moves
    <3> QED BY <2>4, <3>1 DEF TrackedOf, TrackedPass, TrackedStatus, Listed
  <2>7. CASE Lists(a)
    <3>1. UNCHANGED AddonCompliances /\ pass'[a].matching = MatchingClusters(pass[a].spec)
      BY <1>3, <2>7, PassFields DEF PassStep, Lists, AddFinalizer, GetMatchingClusters, UpdateReferenceMap,
         UpdateClusterMap, WriteSelector, CollectLuaValidations, CleanMaps, AnnotateClusters, cached
    <3>2. pass'[a].tracked => SelectorRecorded(a, pass[a].spec)'
      BY <1>3, <2>1, <2>7, <3>1, PassFields DEF SelectorRecorded
    <3>3. MatchingCovered(pass[a].matching, pass[a].spec, a)'
      BY <1>p, <2>1, <3>1 DEF MatchingCovered, MatchingClusters
    <3> QED BY <2>1, <2>3, <2>4, <2>7, <3>2, <3>3
            DEF TrackedOf, TrackedPass, TrackedStatus, Lists
  <2>8. CASE pass[a].pc \in {"references", "clusters", "write", "collect", "annotate"}
    <3>1. pass'[a].matching = pass[a].matching /\ pass'[a].tracked = pass[a].tracked
      BY <1>3, <2>8, PassFields DEF Lists
    <3>2. ASSUME ~pass[a].deleting, pass[a].tracked
          PROVE  /\ SelectorRecorded(a, pass[a].spec)'
                 /\ MatchingCovered(pass[a].matching, pass[a].spec, a)'
      <4>1. /\ SelectorRecorded(a, pass[a].spec)
            /\ MatchingCovered(pass[a].matching, pass[a].spec, a)
        BY <2>8, <3>2 DEF TrackedOf, TrackedPass, Listed
      <4>2. \/ UNCHANGED AddonCompliances
            \/ AddonCompliances' = Put(AddonCompliances, a, pass[a].spec.selector)
        BY <1>3 DEF PassStep, AddFinalizer, GetMatchingClusters, UpdateReferenceMap,
           UpdateClusterMap, WriteSelector, CollectLuaValidations, CleanMaps, AnnotateClusters, cached
      <4>3. SelectorRecorded(a, pass[a].spec)'
        BY <2>1, <4>1, <4>2 DEF SelectorRecorded, Put
      <4> QED BY <1>p, <2>1, <3>1, <4>1, <4>3
              DEF MatchingCovered, Unnoticed, Lingers, WillMatch,
                MatchingClusters
    <3> QED BY <2>1, <2>3, <2>4, <2>8, <3>1, <3>2
            DEF TrackedOf, TrackedPass, TrackedStatus, Listed, Moves
  <2> QED BY <2>1, <2>5, <2>6, <2>7, <2>8 DEF Moves, Lists
<1> QED BY <1>1, <1>2, <1>3

\* A pass that starts has listed nothing yet, and takes the current spec.
LEMMA TrackedReconcile ==
  ASSUME TypeOK, NEW a \in Compliance, Reconcile(a)
  PROVE  TrackedOf(a)'
<1>1. compliance' = compliance
  BY DEF Reconcile, objects
<1>2. compliance[a].phase \in {"absent", "terminating", "live"}
  BY DEF TypeOK, ComplianceObjects
<1>3. \/ compliance[a].phase # "live" /\ pass'[a].pc = "idle" /\ ~pass'[a].done
      \/ /\ compliance[a].phase # "live"
         /\ pass'[a].pc = "clean" /\ pass'[a].deleting /\ ~pass'[a].done
      \/ /\ pass'[a].pc \in {"match", "finalize"} /\ ~pass'[a].deleting /\ ~pass'[a].done
         /\ pass'[a].spec = compliance[a].spec
  BY <1>2 DEF Reconcile, NoPass, TypeOK
<1> QED BY <1>1, <1>3 DEF TrackedOf, TrackedPass, TrackedStatus, OnCurrentSpec, Listed

\* No step makes a tracked listing miss a change.
LEMMA TrackedCoveredStep ==
  ASSUME TypeOK, RecordedHeld, TrackedCovered, [Next]_vars
  PROVE  TrackedCovered'
<1>1. CASE UNCHANGED vars
  BY <1>1 DEF vars, objects, cached, events, TrackedCovered, TrackedPass, TrackedStatus,
              Listed, OnCurrentSpec, SelectorRecorded, MatchingCovered, Unnoticed, Lingers, WillMatch,
              MatchingClusters, Pending, MuxFree
<1>2. CASE Restart
  <2>1. /\ compliance' = compliance /\ handler' = NoHandler
        /\ \A a \in Compliance : /\ pass'[a] = NoPass
                                 /\ compliance[a].phase = "live" => a \in queue'
    BY <1>2 DEF Restart, objects
  <2> QED BY <2>1 DEF TrackedCovered, TrackedPass, TrackedStatus, Listed, Pending, NoPass, NoHandler
<1>3. CASE UserStep
  <2>1. handler' = handler
    BY <1>3 DEF UserStep, CreateCluster, UpdateCluster, DeleteCluster, ClusterGone, ChangeCluster,
       ChangeMachine, CreateReference, UpdateReference, DeleteReference, ChangeReference, CreateCompliance,
       EditCompliance, DeleteCompliance, ComplianceChanges, events
  <2> QED BY <1>3, <2>1, TrackedUserStep DEF TrackedCovered, TrackedOf, MuxFree
<1>4. CASE HandlerStep
  <2>1. MuxFree' => handler'.requests = {}
    BY <1>4 DEF HandlerStep, RequeueForCluster, RequeueForMachine, RequeueForReference,
                HandlerReturns, MuxFree, NoHandler
  <2> QED BY <1>4, <2>1, TrackedHandlerStep DEF TrackedCovered, TrackedOf
<1>5. ASSUME NEW a \in Compliance, Reconcile(a) \/ PassStep(a)
      PROVE  TrackedCovered'
  <2>1. TrackedOf(a)'
    BY <1>5, TrackedReconcile, TrackedPassStep DEF TrackedCovered, TrackedOf
  <2>2. UNCHANGED <<cluster, clusterEvents, handler>> /\ queue \ {a} \subseteq queue'
    BY <1>5, PassLeavesEvents, PassLeavesClusters DEF Reconcile, events
  <2>3. ASSUME NEW b \in Compliance, b # a
        PROVE  TrackedOf(b)'
    <3>1. pass'[b] = pass[b] /\ compliance'[b] = compliance[b]
      BY <1>5, <2>3, PassStepFrame
    <3>2. Pending(b) => Pending(b)'
      BY <2>2, <2>3 DEF Pending
    <3>3. \/ UNCHANGED AddonCompliances
          \/ AddonCompliances' = Put(AddonCompliances, a, pass[a].spec.selector)
      BY <1>5 DEF Reconcile, PassStep, AddFinalizer, GetMatchingClusters, UpdateReferenceMap,
         UpdateClusterMap, WriteSelector, CollectLuaValidations, CleanMaps, AnnotateClusters,
         PatchMetadata, PatchStatus, cached
    <3>4. b \in DOMAIN AddonCompliances =>
            b \in DOMAIN AddonCompliances' /\ AddonCompliances'[b] = AddonCompliances[b]
      BY <2>3, <3>3 DEF Put
    <3>5. ChangesTold(b)
      BY <2>2 DEF ChangesTold
    <3> QED BY <1>5, <3>1, <3>2, <3>4, <3>5, TrackedFrame DEF TrackedCovered, TrackedOf
  <2> QED BY <2>1, <2>2, <2>3 DEF TrackedCovered, TrackedOf, MuxFree
<1> QED BY <1>1, <1>2, <1>3, <1>4, <1>5 DEF Next

\* Whatever happens, a listing made when the selector was recorded and the status
\* written from it miss no change that an event or a pass to come will not tell,
\* but for clusters created paused, and for clusters listed before that are being
\* deleted and still have the labels selected.
THEOREM TrackedCoveredHolds == Spec => []TrackedCovered
<1>1. Init => TrackedCovered
  BY DEF Init, TrackedCovered, TrackedPass, TrackedStatus, Listed, NoPass, NoObject,
         NoHandler
<1>2. TypeOK /\ RecordedHeld /\ TrackedCovered /\ [Next]_vars => TrackedCovered'
  BY TrackedCoveredStep
<1> QED BY <1>1, <1>2, MapsTypeCorrect, RecordedHeldHolds, PTL DEF Spec

\* So at rest the status of each compliance whose selector was recorded in time
\* shows the clusters that match.  Those it misses are paused, those it shows
\* beyond them are being deleted and have the labels selected.
THEOREM QuietTrackedHolds == Spec => []QuietTracked
<1>1. TypeOK /\ TrackedCovered => QuietTracked
  <2> SUFFICES ASSUME TypeOK, TrackedCovered, Quiet,
                      NEW a \in Compliance, compliance[a].phase = "live", pass[a].tracked
               PROVE  /\ \A c \in compliance[a].matching \ MatchingClusters(compliance[a].spec) :
                           Lingers(c, compliance[a].matching, compliance[a].spec)
                      /\ \A c \in MatchingClusters(compliance[a].spec) \ compliance[a].matching :
                           cluster[c].paused
    BY DEF QuietTracked
  <2>1. ~Pending(a) /\ pass[a].pc = "idle"
    BY DEF Quiet, Passes, Pending, TrackedCovered
  <2>2. MatchingCovered(compliance[a].matching, compliance[a].spec, a)
    BY <2>1 DEF TrackedCovered, TrackedStatus
  <2>3. \A c \in Cluster : ~WillMatch(compliance[a].spec.selector, c)
    BY DEF Quiet, WillMatch
  <2>4. /\ compliance[a].matching \subseteq Cluster
        /\ MatchingClusters(compliance[a].spec) \subseteq Cluster
    <3>1. /\ compliance[a].matching \subseteq Cluster
          /\ compliance[a].spec \in Specs \cup {BlankSpec}
      BY DEF TypeOK, ComplianceObjects
    <3> QED BY <3>1, SpecTypes DEF MatchingClusters
  <2>5. ASSUME NEW c \in Cluster
        PROVE  \/ c \in compliance[a].matching <=> c \in MatchingClusters(compliance[a].spec)
               \/ /\ c \in MatchingClusters(compliance[a].spec) \ compliance[a].matching
                  /\ cluster[c].paused
               \/ Lingers(c, compliance[a].matching, compliance[a].spec)
    <3>1. Lingers(c, compliance[a].matching, compliance[a].spec) => c \in compliance[a].matching
      BY DEF Lingers
    <3> QED BY <2>1, <2>2, <2>3, <3>1 DEF MatchingCovered, Unnoticed
  <2>6. ASSUME NEW c \in MatchingClusters(compliance[a].spec) \ compliance[a].matching
        PROVE  cluster[c].paused
    BY <2>4, <2>5 DEF Lingers
  <2> QED BY <2>4, <2>5, <2>6
<1> QED BY <1>1, TrackedCoveredHolds, MapsTypeCorrect, PTL

-----------------------------------------------------------------------------
(* The budgets: what happened once shows for ever.                          *)

LeftBounded == \A counter \in Counters : left[counter] <= Budget[counter]

\* A step spends one unit of one counter, or none.
LEMMA Spending ==
  ASSUME Next
  PROVE  UNCHANGED left \/ \E counter \in Counters : Spend(counter)
<1>0. /\ {"failures", "restarts", "edits", "updates", "changes", "machines",
          "clusters", "clusterDeletes", "complianceDeletes"} \subseteq Counters
      /\ \A call : Fails(call) => Spend("failures")
  BY DEF Counters, Fails
<1>1. CASE UserStep
  BY <1>0, <1>1 DEF UserStep, CreateCluster, UpdateCluster, DeleteCluster, ClusterGone,
     ChangeMachine, CreateReference, UpdateReference, DeleteReference, CreateCompliance, EditCompliance,
     DeleteCompliance
<1>2. CASE Restart
  BY <1>0, <1>2 DEF Restart
<1>3. CASE HandlerStep
  BY <1>3, HandlerLeaves
<1>4. ASSUME NEW a \in Compliance, Reconcile(a) \/ PassStep(a)
      PROVE  UNCHANGED left \/ Spend("failures")
  BY <1>0, <1>4 DEF Reconcile, PassStep, AddFinalizer, GetMatchingClusters, UpdateReferenceMap,
     UpdateClusterMap, WriteSelector, CollectLuaValidations, CleanMaps, AnnotateClusters,
     PatchMetadata, PatchStatus
<1> QED BY <1>0, <1>1, <1>2, <1>3, <1>4 DEF Next

\* What was spent stays spent.
LEMMA SpentForEver ==
  ASSUME TypeOK, LeftBounded, [Next]_vars
  PROVE  /\ LeftBounded'
         /\ \A counter \in Counters : Unused(counter)' => Unused(counter)
         /\ \A counter \in Counters : Spend(counter) => ~Unused(counter)'
<1>0. left \in [Counters -> Nat] /\ Budget \in [Counters -> Nat]
  BY MapsAssumption DEF TypeOK
<1>1. ASSUME NEW counter \in Counters, Spend(counter)
      PROVE  /\ left'[counter] = left[counter] - 1
             /\ \A other \in Counters \ {counter} : left'[other] = left[other]
  BY <1>0, <1>1 DEF Spend
<1>2. UNCHANGED left \/ \E counter \in Counters : Spend(counter)
  BY Spending DEF vars
<1>3. \A counter \in Counters : left'[counter] = left[counter] \/ left'[counter] = left[counter] - 1
  BY <1>1, <1>2
<1> QED BY <1>0, <1>1, <1>3 DEF LeftBounded, Unused

\* So nothing that disturbs happened before or in a step that ends undisturbed.
LEMMA UndisturbedStep ==
  ASSUME TypeOK, LeftBounded, [Next]_vars, Undisturbed'
  PROVE  /\ Undisturbed
         /\ ~Spend("restarts") /\ ~Spend("edits") /\ ~Spend("complianceDeletes")
         /\ ~Fails("patchFinalizer") /\ ~Fails("listClusters")
<1>1. {"edits", "restarts", "complianceDeletes", "failures"} \subseteq Counters
  BY DEF Counters
<1> QED BY <1>1, SpentForEver DEF Undisturbed, Fails

-----------------------------------------------------------------------------
(* A second pass follows the first.                                         *)

LEMMA SecondFrame ==
  ASSUME NEW b \in Compliance, SecondPass(b), pass'[b] = pass[b], compliance'[b] = compliance[b],
         b \in queue => b \in queue',
         b \in DOMAIN AddonCompliances =>
           b \in DOMAIN AddonCompliances' /\ AddonCompliances'[b] = AddonCompliances[b]
  PROVE  SecondPass(b)'
<1>1. /\ (b \in queue)' <=> b \in queue'
      /\ SelectorRecorded(b, compliance[b].spec) => SelectorRecorded(b, compliance[b].spec)'
  BY DEF SelectorRecorded
<1> QED BY <1>1 DEF SecondPass

\* A pass that deletes nothing leaves a live object live, and its finalizer.
LEMMA StaysLive ==
  ASSUME TypeOK, NEW a \in Compliance, PassStep(a), compliance[a].phase = "live", ~pass[a].deleting
  PROVE  /\ compliance'[a].phase = "live" /\ compliance'[a].spec = compliance[a].spec
         /\ compliance[a].finalizer => compliance'[a].finalizer
<1>0. compliance[a] \in ComplianceObjects
  BY DEF TypeOK
<1>1. CASE AddFinalizer(a)
  <2>1. compliance'[a] = compliance[a] \/ compliance'[a] = [compliance[a] EXCEPT !.finalizer = TRUE]
    BY <1>1 DEF AddFinalizer, TypeOK
  <2> QED BY <1>0, <2>1 DEF ComplianceObjects
<1>2. CASE PatchMetadata(a)
  <2>1. \/ compliance'[a] = compliance[a]
        \/ compliance'[a] = [compliance[a] EXCEPT !.finalizer = TRUE, !.labels = pass[a].labels]
    BY <1>2 DEF PatchMetadata, MetadataPatched, TypeOK
  <2> QED BY <1>0, <2>1 DEF ComplianceObjects
<1>3. CASE PatchStatus(a)
  BY <1>3, StatusWritten
<1>4. CASE ~AddFinalizer(a) /\ ~PatchMetadata(a) /\ ~PatchStatus(a)
  BY <1>4 DEF PassStep, GetMatchingClusters, UpdateReferenceMap, UpdateClusterMap,
     WriteSelector, CollectLuaValidations, CleanMaps, AnnotateClusters, objects
<1> QED BY <1>1, <1>2, <1>3, <1>4

\* A pass that nothing disturbs lists its clusters again, or did when the
\* selector was recorded.
LEMMA SecondPassStep ==
  ASSUME TypeOK, NEW a \in Compliance, PassStep(a), SecondPass(a),
         ~Fails("patchFinalizer"), ~Fails("listClusters")
  PROVE  SecondPass(a)'
<1>0. queue \subseteq queue'
  BY PassLeavesEvents
<1>1. /\ pass[a].pc # "idle"
      /\ compliance[a].phase = "live" /\ ~pass[a].deleting
      /\ pass[a].spec = compliance[a].spec
      /\ compliance[a].finalizer \/ pass[a].pc = "finalize"
  BY DEF SecondPass, PassStep, AddFinalizer, GetMatchingClusters, UpdateReferenceMap, UpdateClusterMap,
     WriteSelector, CollectLuaValidations, CleanMaps, AnnotateClusters, PatchMetadata, PatchStatus
<1>2. /\ compliance'[a].phase = "live" /\ compliance'[a].spec = compliance[a].spec
      /\ compliance[a].finalizer => compliance'[a].finalizer
  BY <1>1, StaysLive
<1>3. CASE pass[a].pc = "finalize"
  <2>1. AddFinalizer(a)
    BY <1>3 DEF PassStep, GetMatchingClusters, UpdateReferenceMap, UpdateClusterMap,
       WriteSelector, CollectLuaValidations, CleanMaps, AnnotateClusters, PatchMetadata, PatchStatus
  <2>2. /\ pass[a] \in PassStates /\ compliance[a] \in ComplianceObjects
        /\ pass'[a] = [pass[a] EXCEPT !.pc = "match"]
        /\ compliance'[a] = [compliance[a] EXCEPT !.finalizer = TRUE]
        /\ a \in queue'
    BY <1>1, <2>1 DEF AddFinalizer, TypeOK
  <2>3. /\ pass'[a].pc = "match" /\ pass'[a].deleting = pass[a].deleting
        /\ pass'[a].spec = pass[a].spec
    BY <2>2 DEF PassStates
  <2>4. compliance'[a].finalizer
    BY <2>2 DEF ComplianceObjects
  <2> QED BY <1>1, <1>2, <2>2, <2>3, <2>4 DEF SecondPass
<1>4. CASE PatchStatus(a)
  <2>1. pass[a].pc = "status" /\ pass'[a].pc = "idle" /\ ~pass'[a].deleting
    BY <1>4, StatusWritten DEF NoPass, NoPassAfter
  <2>2. UNCHANGED AddonCompliances /\ pass'[a].tracked = pass[a].tracked
    BY <1>4, StatusWritten DEF PatchStatus, cached, NoPass, NoPassAfter
  <2> QED BY <1>0, <1>1, <1>2, <2>1, <2>2 DEF SecondPass, SelectorRecorded
<1>5. CASE pass[a].pc # "finalize" /\ ~PatchStatus(a)
  <2>1. /\ <<pass[a].pc, pass'[a].pc>> \in Moves
        /\ pass'[a].spec = pass[a].spec /\ pass'[a].deleting = pass[a].deleting
    BY <1>5, PassFields
  <2>2. CASE pass[a].pc = "match"
    <3>1. /\ GetMatchingClusters(a) /\ UNCHANGED AddonCompliances
          /\ pass'[a].pc = "references"
      <4>1. GetMatchingClusters(a)
        BY <2>2 DEF PassStep, AddFinalizer, UpdateReferenceMap, UpdateClusterMap,
           WriteSelector, CollectLuaValidations, CleanMaps, AnnotateClusters, PatchMetadata, PatchStatus
      <4>2. /\ pass[a] \in PassStates
            /\ pass'[a] = [pass[a] EXCEPT !.pc = "references",
                             !.labels = MatchingClusters(pass[a].spec),
                             !.matching = MatchingClusters(pass[a].spec),
                             !.tracked = SelectorRecorded(a, pass[a].spec)]
        BY <4>1 DEF GetMatchingClusters, TypeOK
      <4>3. pass'[a].pc = "references"
        BY <4>2 DEF PassStates
      <4> QED BY <4>1, <4>3 DEF GetMatchingClusters, cached
    <3>2. pass'[a].tracked = SelectorRecorded(a, compliance[a].spec)
      BY <1>1, <1>5, <2>2, <3>1, PassFields DEF Lists
    <3> QED BY <1>0, <1>1, <1>2, <2>1, <2>2, <3>1, <3>2 DEF SecondPass
  <2>3. CASE pass[a].pc = "write"
    <3>1. /\ AddonCompliances' = Put(AddonCompliances, a, pass[a].spec.selector)
          /\ pass'[a].pc = "collect" /\ pass'[a].tracked = pass[a].tracked
      BY <1>5, <2>1, <2>3, PassFields DEF Moves, Lists, PassStep, AddFinalizer, GetMatchingClusters,
         UpdateReferenceMap, UpdateClusterMap, WriteSelector, CollectLuaValidations, CleanMaps,
         AnnotateClusters, PatchMetadata, PatchStatus
    <3>2. SelectorRecorded(a, compliance[a].spec)'
      BY <1>1, <1>2, <3>1 DEF SelectorRecorded, Put
    <3> QED BY <1>0, <1>1, <1>2, <2>1, <2>3, <3>1, <3>2 DEF SecondPass
  <2>4. CASE pass[a].pc \notin {"match", "write"}
    <3>1. UNCHANGED AddonCompliances /\ pass'[a].tracked = pass[a].tracked
      BY <1>5, <2>4, PassFields DEF Lists, PassStep, AddFinalizer, GetMatchingClusters,
         UpdateReferenceMap, UpdateClusterMap, WriteSelector, CollectLuaValidations, CleanMaps,
         AnnotateClusters, PatchMetadata, PatchStatus, cached
    <3> QED BY <1>0, <1>1, <1>2, <1>5, <2>1, <2>4, <3>1 DEF SecondPass, SelectorRecorded, Moves
  <2> QED BY <2>2, <2>3, <2>4
<1> QED BY <1>3, <1>4, <1>5

\* A pass starts where its compliance is left.
LEMMA SecondReconcile ==
  ASSUME TypeOK, NEW a \in Compliance, Reconcile(a), SecondPass(a)
  PROVE  SecondPass(a)'
<1>1. compliance' = compliance /\ AddonCompliances' = AddonCompliances /\ pass[a].pc = "idle"
  BY DEF Reconcile, objects, cached
<1>2. CASE compliance[a].phase = "absent"
  <2>1. pass'[a] = NoPass
    BY <1>2 DEF Reconcile, TypeOK
  <2> QED BY <1>1, <1>2, <2>1 DEF SecondPass, NoPass
<1>3. CASE compliance[a].phase = "live"
  <2>1. /\ pass'[a].pc = IF compliance[a].finalizer THEN "match" ELSE "finalize"
        /\ ~pass'[a].deleting /\ pass'[a].spec = compliance[a].spec
    BY <1>3 DEF Reconcile, NoPass, TypeOK
  <2> QED BY <1>1, <1>3, <2>1 DEF SecondPass, SelectorRecorded
<1> QED BY <1>1, <1>2, <1>3 DEF SecondPass

\* Users who edit and delete nothing add new compliances at most.
LEMMA SecondUserStep ==
  ASSUME TypeOK, UserStep, ~Spend("edits"), ~Spend("complianceDeletes"),
         NEW b \in Compliance, SecondPass(b)
  PROVE  SecondPass(b)'
<1>1. /\ pass' = pass /\ AddonCompliances' = AddonCompliances /\ queue \subseteq queue'
     
  BY UserChanges
<1>2. CASE UNCHANGED compliance
  BY <1>1, <1>2, SecondFrame
<1>3. ASSUME NEW a \in Compliance, NEW spec \in Specs, CreateCompliance(a, spec)
      PROVE  SecondPass(b)'
  <2>1. CASE b # a
    <3>1. compliance'[b] = compliance[b]
      BY <1>3, <2>1 DEF CreateCompliance, ComplianceChanges, TypeOK
    <3> QED BY <1>1, <3>1, SecondFrame
  <2>2. CASE b = a
    <3>1. /\ compliance'[a].phase = "live" /\ ~compliance'[a].finalizer /\ a \in queue'
          /\ pass[b].pc = "idle" /\ ~pass[b].deleting
      BY <1>3, <2>2 DEF SecondPass, CreateCompliance, ComplianceChanges, TypeOK, NoObject
    <3> QED BY <1>1, <2>2, <3>1 DEF SecondPass
  <2> QED BY <2>1, <2>2
<1>4. UNCHANGED compliance \/ \E a \in Compliance, spec \in Specs : CreateCompliance(a, spec)
  BY DEF UserStep, CreateCluster, UpdateCluster, DeleteCluster, ClusterGone, ChangeCluster,
     ChangeMachine, CreateReference, UpdateReference, DeleteReference, ChangeReference, EditCompliance,
     DeleteCompliance
<1> QED BY <1>2, <1>3, <1>4

LEMMA SecondPassesStep ==
  ASSUME TypeOK, LeftBounded, SecondPasses, [Next]_vars
  PROVE  SecondPasses'
<1> SUFFICES ASSUME Undisturbed', NEW b \in Compliance
             PROVE  SecondPass(b)'
  BY DEF SecondPasses
<1>1. /\ SecondPass(b)
      /\ ~Spend("restarts") /\ ~Spend("edits") /\ ~Spend("complianceDeletes")
      /\ ~Fails("patchFinalizer") /\ ~Fails("listClusters")
  BY UndisturbedStep DEF SecondPasses
<1>2. CASE UNCHANGED vars
  BY <1>1, <1>2, SecondFrame DEF vars, objects, cached
<1>3. CASE UserStep
  BY <1>1, <1>3, SecondUserStep
<1>4. CASE HandlerStep
  BY <1>1, <1>4, HandlerLeaves, SecondFrame
<1>5. CASE Restart
  BY <1>1, <1>5 DEF Restart
<1>6. ASSUME NEW a \in Compliance, Reconcile(a) \/ PassStep(a)
      PROVE  SecondPass(b)'
  <2>1. CASE b = a
    BY <1>1, <1>6, <2>1, SecondReconcile, SecondPassStep
  <2>2. CASE b # a
    <3>1. pass'[b] = pass[b] /\ compliance'[b] = compliance[b]
      BY <1>6, <2>2, PassStepFrame
    <3>2. b \in queue => b \in queue'
      BY <1>6, <2>2, PassLeavesEvents DEF Reconcile
    <3>3. \/ UNCHANGED AddonCompliances
          \/ AddonCompliances' = Put(AddonCompliances, a, pass[a].spec.selector)
      BY <1>6 DEF Reconcile, PassStep, AddFinalizer, GetMatchingClusters, UpdateReferenceMap,
         UpdateClusterMap, WriteSelector, CollectLuaValidations, CleanMaps, AnnotateClusters,
         PatchMetadata, PatchStatus, cached
    <3>4. b \in DOMAIN AddonCompliances =>
            b \in DOMAIN AddonCompliances' /\ AddonCompliances'[b] = AddonCompliances[b]
      BY <2>2, <3>3 DEF Put
    <3> QED BY <1>1, <1>6, <3>1, <3>2, <3>4, SecondFrame
  <2> QED BY <2>1, <2>2
<1> QED BY <1>2, <1>3, <1>4, <1>5, <1>6 DEF Next

\* Without edits, restarts and deletions of compliances, and if adding the
\* finalizer and listing the clusters do not fail, whatever else fails, every
\* listing that is not followed by another is tracked.
THEOREM SecondPassesHolds == Spec => []SecondPasses
<1>1. Init => LeftBounded
  BY MapsAssumption DEF Init, LeftBounded
<1>2. TypeOK /\ LeftBounded /\ [Next]_vars => LeftBounded'
  BY SpentForEver
<1>3. Spec => []LeftBounded
  BY <1>1, <1>2, MapsTypeCorrect, PTL DEF Spec
<1>4. Init => SecondPasses
  BY DEF Init, SecondPasses, SecondPass, NoPass, NoObject
<1>5. TypeOK /\ LeftBounded /\ SecondPasses /\ [Next]_vars => SecondPasses'
  BY SecondPassesStep
<1> QED BY <1>3, <1>4, <1>5, MapsTypeCorrect, PTL DEF Spec

\* So undisturbed the status at rest agrees with the clusters that match on every
\* cluster that is neither paused nor being deleted, whatever else is, was or is not
\* there, however cluster events interleave with the passes.
THEOREM UndisturbedMatchingHolds == Spec => []UndisturbedMatching
<1>1. SecondPasses /\ QuietTracked => UndisturbedMatching
  <2> SUFFICES ASSUME SecondPasses, QuietTracked, Undisturbed, Quiet,
                      NEW a \in Compliance, compliance[a].phase = "live"
               PROVE  compliance[a].matching \cap Evident
                        = MatchingClusters(compliance[a].spec) \cap Evident
    BY DEF UndisturbedMatching, QuietMatching
  <2>1. pass[a].tracked
    BY DEF SecondPasses, SecondPass, Quiet, Passes
  <2> QED BY <2>1 DEF QuietTracked, Lingers, Evident
<1> QED BY <1>1, SecondPassesHolds, QuietTrackedHolds, PTL
=============================================================================
