--------------------------- MODULE ComplianceMaps ---------------------------
(***************************************************************************)
(* The maps that tell the AddonCompliance reconciler whom a change         *)
(* concerns.  A pass records, per compliance, what it references and which *)
(* clusters it matches; the event handlers look a changed object up and    *)
(* put the compliances concerned in the work queue.  PolicyMux protects    *)
(* the maps, but for one write of AddonCompliances.                        *)
(*                                                                         *)
(* The periodic resync is left out: the properties are about what events   *)
(* alone achieve.  annotateClusters, which touches nothing of this module, *)
(* either succeeds or fails (see ComplianceLoader).                        *)
(***************************************************************************)
EXTENDS Predicates, Integers, FiniteSets, Sequences

CONSTANTS
  Cluster, Compliance, Reference,   \* names of objects
  Label,                            \* cluster labels; a selector is a set of them
  Data, NoData,                     \* contents of references, and having none
  Specs,                            \* the specs a compliance may have
  ClusterKind,                      \* cluster -> its kind
  KindOf,                           \* reference -> its kind
  Walks,                            \* reference -> in how many orders its sections are read
  ConcurrentReconciles,             \* AddonCompliance workers
  Fallible,                         \* the API calls that may fail
  Budget                            \* how often failures, restarts, edits, ... happen

ApiCalls == {"patchFinalizer", "listClusters", "collect", "updateCluster", "close"}
Counters == {"failures", "restarts", "edits", "updates", "changes", "machines",
             "clusters", "clusterDeletes", "complianceDeletes"}
FluxKinds == {"GitRepository", "OCIRepository", "Bucket"}
Kinds == {"ConfigMap", "Secret"} \cup FluxKinds
Phases == {"absent", "Pending", "Running"}
BlankSpec == [selector |-> {}, clusterRefs |-> {}, refs |-> {}]

ASSUME MapsAssumption ==
  /\ Specs \subseteq [selector : SUBSET Label, clusterRefs : SUBSET Cluster,
                      refs : SUBSET Reference]
  /\ NoData \notin Data
  /\ ClusterKind \in [Cluster -> {"SveltosCluster", "Cluster"}]
  /\ KindOf \in [Reference -> Kinds]
  /\ Walks \in [Reference -> Nat \ {0}]
  /\ ConcurrentReconciles \in Nat \ {0}
  /\ Fallible \subseteq ApiCalls
  /\ Budget \in [Counters -> Nat]

VARIABLES
  \* the objects, as the reconciler's cache shows them
  cluster, machine, compliance, resource,
  \* the reconciler's maps; a missing key and an empty set behave alike
  ReferenceMap, AddonComplianceToReferenceMap,
  ClusterMap, AddonComplianceToClusterMap,
  AddonCompliances, ClusterLabels,
  \* events not handled yet, the handler that holds PolicyMux, the work queue
  clusterEvents, machineEvents, referenceEvents, handler, queue,
  \* per compliance, the reconciliation under way; what remains of Budget
  pass, left

objects == <<cluster, machine, compliance, resource>>
references == <<ReferenceMap, AddonComplianceToReferenceMap>>
clusters == <<ClusterMap, AddonComplianceToClusterMap>>
cached == <<AddonCompliances, ClusterLabels>>
events == <<clusterEvents, machineEvents, referenceEvents, handler>>
vars == <<objects, references, clusters, cached, events, queue, pass, left>>

\* What a status holds of a reference: its data and the order of its sections.
NotCollected == [data |-> NoData, order |-> 0]
NoContent == [r \in Reference |-> NotCollected]

NoPass == [pc |-> "idle", spec |-> BlankSpec, labels |-> {}, matching |-> {},
           toCollect |-> {}, content |-> NoContent, failed |-> FALSE, deleting |-> FALSE,
           done |-> FALSE, tracked |-> FALSE]
NoHandler == [pc |-> "idle", requests |-> {}]
NoObject == [phase |-> "absent", spec |-> BlankSpec, finalizer |-> FALSE, labels |-> {},
             matching |-> {}, content |-> NoContent, failed |-> FALSE]
NoCluster == [present |-> FALSE, terminating |-> FALSE, labels |-> {}, paused |-> FALSE,
              ready |-> FALSE]
NoResource == [present |-> FALSE, data |-> NoData, binaryData |-> FALSE, supported |-> TRUE]

\* The versions of a cluster and of a referenced object.  A cluster is terminating
\* from its deletion until its finalizers are gone.  The data of a Flux source is its
\* artifact, NoData if it has none yet; only one type of Secret is supported.
ClusterVersions(c) ==
  [present : {TRUE}, terminating : BOOLEAN, labels : SUBSET Label, paused : BOOLEAN,
   ready : IF ClusterKind[c] = "SveltosCluster" THEN BOOLEAN ELSE {FALSE}]
ResourceVersions(r) ==
  [present : {TRUE}, data : Data \cup {NoData},
   binaryData : IF KindOf[r] = "ConfigMap" THEN BOOLEAN ELSE {FALSE},
   supported : IF KindOf[r] = "Secret" THEN BOOLEAN ELSE {TRUE}]

Spend(counter) == left[counter] > 0 /\ left' = [left EXCEPT ![counter] = @ - 1]
Fails(call) == call \in Fallible /\ Spend("failures")

\* f with v at k.
Put(f, k, v) == [x \in DOMAIN f \cup {k} |-> IF x = k THEN v ELSE f[x]]
Nothing == [x \in {} |-> {}]

\* labels.Parse(selector).Matches(labels): the empty selector matches all.
Matches(selector, labels) == selector \subseteq labels

\* getMatchingClusters: here an empty selector matches none.  The library it calls
\* skips clusters that are being deleted.
MatchingClusters(spec) ==
  {c \in Cluster : /\ cluster[c].present
                   /\ ~cluster[c].terminating
                   /\ spec.selector # {}
                   /\ Matches(spec.selector, cluster[c].labels)}
    \cup spec.clusterRefs

\* getReferenceAPIVersion: the case of OCIRepository is empty.
ReferenceAPIVersion(kind) ==
  CASE kind \in {"ConfigMap", "Secret"} -> "v1"
    [] kind = "Bucket"                  -> "source/v1beta2"
    [] kind = "GitRepository"           -> "source/v1"
    [] kind = "OCIRepository"           -> ""

\* Mutant of EventAPIVersion: one group version for all Flux sources.
SingleFluxVersion(kind) ==
  IF kind \in {"ConfigMap", "Secret"} THEN "v1" ELSE "source/v1beta2"

\* The keys the handlers make of a changed object.
EventAPIVersion(kind) ==
  CASE kind \in {"ConfigMap", "Secret"}        -> "v1"
    [] kind \in {"OCIRepository", "Bucket"}    -> "source/v1beta2"
    [] kind = "GitRepository"                  -> "source/v1"

RecordedKey(r) == [apiVersion |-> ReferenceAPIVersion(KindOf[r]), object |-> r]
EventKey(r) == [apiVersion |-> EventAPIVersion(KindOf[r]), object |-> r]
Keys == [apiVersion : {"v1", "source/v1", "source/v1beta2", ""}, object : Reference]

\* Mutant of CurrentReferences: keys without their API version.
BareReferences(spec) == spec.refs

CurrentReferences(spec) == {RecordedKey(r) : r \in spec.refs}

Init ==
  /\ cluster = [c \in Cluster |-> NoCluster]
  /\ machine = [c \in Cluster |-> "absent"]
  /\ compliance = [a \in Compliance |-> NoObject]
  /\ resource = [r \in Reference |-> NoResource]
  /\ ReferenceMap = [k \in Keys |-> {}]
  /\ AddonComplianceToReferenceMap = [a \in Compliance |-> {}]
  /\ ClusterMap = [c \in Cluster |-> {}]
  /\ AddonComplianceToClusterMap = [a \in Compliance |-> {}]
  /\ AddonCompliances = Nothing
  /\ ClusterLabels = Nothing
  /\ clusterEvents = [c \in Cluster |-> <<>>]
  /\ machineEvents = {}
  /\ referenceEvents = {}
  /\ handler = NoHandler
  /\ queue = {}
  /\ pass = [a \in Compliance |-> NoPass]
  /\ left = Budget

-----------------------------------------------------------------------------
(* Users and other controllers.  A change of a watched object that passes    *)
(* the predicate of its kind is an event.  An update is handled twice, for   *)
(* the old object and for the new.                                           *)

ClusterEventPasses(c, old, new) ==
  IF ClusterKind[c] = "SveltosCluster" THEN SveltosClusterPasses(old, new)
  ELSE ClusterPasses(old, new)

\* Mutant of HandledLabels: the handler is called for the new object first.
NewFirst(old, new) == IF Creates(old, new) THEN <<new.labels>>
                      ELSE IF Deletes(old, new) THEN <<old.labels>>
                      ELSE <<new.labels, old.labels>>

\* Mutant of HandledLabels: an update is handled for the old object only.
OldOnly(old, new) == IF Creates(old, new) THEN <<new.labels>> ELSE <<old.labels>>

\* The labels the handler is called with, one call after the other.
HandledLabels(old, new) == IF Creates(old, new) THEN <<new.labels>>
                           ELSE IF Deletes(old, new) THEN <<old.labels>>
                           ELSE <<old.labels, new.labels>>

ChangeCluster(c, new) ==
  /\ cluster' = [cluster EXCEPT ![c] = new]
  /\ clusterEvents' =
       IF ClusterEventPasses(c, cluster[c], new)
       THEN [clusterEvents EXCEPT ![c] = @ \o HandledLabels(cluster[c], new)] ELSE clusterEvents
  /\ UNCHANGED <<machine, compliance, resource, references, clusters, cached,
                 machineEvents, referenceEvents, handler, queue, pass>>

CreateCluster(c, new) ==
  /\ ~cluster[c].present
  /\ ~new.terminating
  /\ Spend("clusters")
  /\ ChangeCluster(c, new)

UpdateCluster(c, new) ==
  /\ cluster[c].present
  /\ new # cluster[c]
  /\ new.terminating = cluster[c].terminating
  /\ Spend("updates")
  /\ ChangeCluster(c, new)

\* The deletion timestamp of a cluster is set, which is an update of nothing the
\* predicates look at.  A cluster without finalizers is gone right after.
DeleteCluster(c) ==
  /\ cluster[c].present
  /\ ~cluster[c].terminating
  /\ Spend("clusterDeletes")
  /\ ChangeCluster(c, [cluster[c] EXCEPT !.terminating = TRUE])

\* The last finalizer of a deleted cluster is removed, and the object with it.
ClusterGone(c) ==
  /\ cluster[c].present /\ cluster[c].terminating
  /\ ChangeCluster(c, NoCluster)
  /\ UNCHANGED left

\* The machine of a Cluster is created, deleted or enters another phase.
ChangeMachine(c, phase) ==
  /\ ClusterKind[c] = "Cluster"
  /\ phase # machine[c]
  /\ Spend("machines")
  /\ machine' = [machine EXCEPT ![c] = phase]
  /\ machineEvents' = IF MachinePasses(machine[c], phase)
                      THEN machineEvents \cup {c} ELSE machineEvents
  /\ UNCHANGED <<cluster, compliance, resource, references, clusters, cached,
                 clusterEvents, referenceEvents, handler, queue, pass>>

ReferenceEventPasses(r, old, new) ==
  CASE KindOf[r] = "ConfigMap"    -> ConfigMapPasses(old, new)
    [] KindOf[r] = "Secret"       -> SecretPasses(old, new)
    [] KindOf[r] \in FluxKinds    -> FluxSourcePasses(old, new)

ChangeReference(r, new) ==
  /\ resource' = [resource EXCEPT ![r] = new]
  /\ referenceEvents' = IF ReferenceEventPasses(r, resource[r], new)
                        THEN referenceEvents \cup {r} ELSE referenceEvents
  /\ UNCHANGED <<cluster, machine, compliance, references, clusters, cached,
                 clusterEvents, machineEvents, handler, queue, pass>>

CreateReference(r, new) ==
  /\ ~resource[r].present
  /\ ChangeReference(r, new)
  /\ UNCHANGED left

\* The type of a Secret cannot be changed.
UpdateReference(r, new) ==
  /\ resource[r].present
  /\ new # resource[r]
  /\ new.supported = resource[r].supported
  /\ Spend("changes")
  /\ ChangeReference(r, new)

DeleteReference(r) ==
  /\ resource[r].present
  /\ Spend("changes")
  /\ ChangeReference(r, NoResource)

ComplianceChanges(a, object) ==
  /\ compliance' = [compliance EXCEPT ![a] = object]
  /\ queue' = queue \cup {a}
  /\ UNCHANGED <<cluster, machine, resource, references, clusters, cached, events, pass>>

CreateCompliance(a, spec) ==
  /\ compliance[a].phase = "absent"
  /\ ComplianceChanges(a, [NoObject EXCEPT !.phase = "live", !.spec = spec])
  /\ UNCHANGED left

EditCompliance(a, spec) ==
  /\ compliance[a].phase = "live"
  /\ spec # compliance[a].spec
  /\ Spend("edits")
  /\ ComplianceChanges(a, [compliance[a] EXCEPT !.spec = spec])

\* Only a finalizer keeps a deleted object until the reconciler lets it go.
DeleteCompliance(a) ==
  /\ compliance[a].phase = "live"
  /\ Spend("complianceDeletes")
  /\ ComplianceChanges(a, IF compliance[a].finalizer
                          THEN [compliance[a] EXCEPT !.phase = "terminating"]
                          ELSE NoObject)

\* The process dies, of whatever reason, and starts again with empty maps; its
\* informers list every object that exists, as a creation.
Restart ==
  /\ Spend("restarts")
  /\ ReferenceMap' = [k \in Keys |-> {}]
  /\ AddonComplianceToReferenceMap' = [a \in Compliance |-> {}]
  /\ ClusterMap' = [c \in Cluster |-> {}]
  /\ AddonComplianceToClusterMap' = [a \in Compliance |-> {}]
  /\ AddonCompliances' = Nothing
  /\ ClusterLabels' = Nothing
  /\ clusterEvents' = [c \in Cluster |->
                        IF ClusterEventPasses(c, NoCluster, cluster[c])
                        THEN <<cluster[c].labels>> ELSE <<>>]
  /\ machineEvents' = {c \in Cluster : MachinePasses("absent", machine[c])}
  /\ referenceEvents' = {r \in Reference :
                          ReferenceEventPasses(r, NoResource, resource[r])}
  /\ handler' = NoHandler
  /\ queue' = {a \in Compliance : compliance[a].phase # "absent"}
  /\ pass' = [a \in Compliance |-> NoPass]
  /\ UNCHANGED objects

-----------------------------------------------------------------------------
(* The event handlers.  Each holds PolicyMux; the compliances it found go   *)
(* to the queue when it returns.                                            *)

MuxFree == handler.pc = "idle"

\* The compliances a cluster with these labels matches, by the cached selectors.
NowMatching(labels) ==
  {a \in DOMAIN AddonCompliances : Matches(AddonCompliances[a], labels)}

RequeueForCluster(c) ==
  /\ MuxFree
  /\ clusterEvents[c] # <<>>
  /\ LET labels == Head(clusterEvents[c])
     IN  /\ ClusterLabels' = Put(ClusterLabels, c, labels)
         /\ handler' = [pc |-> "iterate", requests |-> ClusterMap[c] \cup NowMatching(labels)]
  /\ clusterEvents' = [clusterEvents EXCEPT ![c] = Tail(@)]
  /\ UNCHANGED <<objects, references, clusters, AddonCompliances, machineEvents,
                 referenceEvents, queue, pass, left>>

\* The labels of the cluster come from its last event, if there was one.
RequeueForMachine(c) ==
  /\ MuxFree
  /\ c \in machineEvents
  /\ handler' = IF c \in DOMAIN ClusterLabels
                THEN [pc |-> "iterate",
                      requests |-> ClusterMap[c] \cup NowMatching(ClusterLabels[c])]
                ELSE [pc |-> "return", requests |-> ClusterMap[c]]
  /\ machineEvents' = machineEvents \ {c}
  /\ UNCHANGED <<objects, references, clusters, cached, clusterEvents,
                 referenceEvents, queue, pass, left>>

\* requeueAddonComplianceForReference and ...ForFluxSources
RequeueForReference(r) ==
  /\ MuxFree
  /\ r \in referenceEvents
  /\ handler' = [pc |-> "return", requests |-> ReferenceMap[EventKey(r)]]
  /\ referenceEvents' = referenceEvents \ {r}
  /\ UNCHANGED <<objects, references, clusters, cached, clusterEvents,
                 machineEvents, queue, pass, left>>

HandlerReturns ==
  /\ ~MuxFree
  /\ queue' = queue \cup handler.requests
  /\ handler' = NoHandler
  /\ UNCHANGED <<objects, references, clusters, cached, clusterEvents,
                 machineEvents, referenceEvents, pass, left>>

HandlerStep ==
  \/ \E c \in Cluster : RequeueForCluster(c) \/ RequeueForMachine(c)
  \/ \E r \in Reference : RequeueForReference(r)
  \/ HandlerReturns

-----------------------------------------------------------------------------
(* The reconciler.                                                          *)

Passes == {a \in Compliance : pass[a].pc # "idle"}

\* The queue keeps a compliance that is being reconciled until its pass is over.
Reconcile(a) ==
  /\ a \in queue
  /\ pass[a].pc = "idle"
  /\ Cardinality(Passes) < ConcurrentReconciles
  /\ queue' = queue \ {a}
  /\ pass' = [pass EXCEPT ![a] =
       CASE compliance[a].phase = "absent" -> NoPass
         [] compliance[a].phase = "terminating" ->
              [NoPass EXCEPT !.pc = "clean", !.deleting = TRUE]
         [] compliance[a].phase = "live" ->
              [NoPass EXCEPT !.pc = IF compliance[a].finalizer THEN "match" ELSE "finalize",
                             !.spec = compliance[a].spec,
                             !.labels = compliance[a].labels,
                             !.matching = compliance[a].matching,
                             !.content = compliance[a].content,
                             !.failed = compliance[a].failed]]
  /\ UNCHANGED <<objects, references, clusters, cached, events, left>>

\* Mutant of AddFinalizer: an error does not end the pass.
AddFinalizerIgnoringErrors(a) ==
  /\ pass[a].pc = "finalize"
  /\ pass' = [pass EXCEPT ![a].pc = "match"]
  /\ \/ /\ compliance[a].phase # "absent"
        /\ compliance' = [compliance EXCEPT ![a].finalizer = TRUE]
        /\ queue' = queue \cup {a}
        /\ UNCHANGED left
     \/ Fails("patchFinalizer") /\ UNCHANGED <<compliance, queue>>
  /\ UNCHANGED <<cluster, machine, resource, references, clusters, cached, events>>

\* Mutant of AddFinalizer: its patch does not wake the reconciler.
AddFinalizerUnnoticed(a) ==
  /\ pass[a].pc = "finalize"
  /\ \/ /\ compliance[a].phase # "absent"
        /\ compliance' = [compliance EXCEPT ![a].finalizer = TRUE]
        /\ pass' = [pass EXCEPT ![a].pc = "match"]
        /\ UNCHANGED left
     \/ /\ \/ compliance[a].phase = "absent" /\ UNCHANGED left
           \/ Fails("patchFinalizer")
        /\ pass' = [pass EXCEPT ![a].pc = "close"]
        /\ UNCHANGED compliance
  /\ UNCHANGED <<cluster, machine, resource, references, clusters, cached, events, queue>>

\* Patching an object that is gone is an error, a successful patch an event.
AddFinalizer(a) ==
  /\ pass[a].pc = "finalize"
  /\ \/ /\ compliance[a].phase # "absent"
        /\ compliance' = [compliance EXCEPT ![a].finalizer = TRUE]
        /\ queue' = queue \cup {a}
        /\ pass' = [pass EXCEPT ![a].pc = "match"]
        /\ UNCHANGED left
     \/ /\ \/ compliance[a].phase = "absent" /\ UNCHANGED left
           \/ Fails("patchFinalizer")
        /\ pass' = [pass EXCEPT ![a].pc = "close"]
        /\ UNCHANGED <<compliance, queue>>
  /\ UNCHANGED <<cluster, machine, resource, references, clusters, cached, events>>

\* UpdateLabels makes the clusters found the labels of the compliance.  History:
\* tracked tells whether the selector was recorded when the clusters were listed.
SelectorRecorded(a, spec) ==
  a \in DOMAIN AddonCompliances /\ AddonCompliances[a] = spec.selector

GetMatchingClusters(a) ==
  /\ pass[a].pc = "match"
  /\ \/ /\ LET found == MatchingClusters(pass[a].spec)
           IN  pass' = [pass EXCEPT ![a] =
                 [@ EXCEPT !.pc = "references", !.labels = found, !.matching = found,
                           !.tracked = SelectorRecorded(a, pass[a].spec)]]
        /\ UNCHANGED left
     \/ /\ Fails("listClusters")
        /\ pass' = [pass EXCEPT ![a] = [@ EXCEPT !.pc = "close", !.failed = TRUE]]
  /\ UNCHANGED <<objects, references, clusters, cached, events, queue>>

\* Mutant of UpdateReferenceMap: what is not referenced any more stays recorded.
AddToReferenceMap(a) ==
  /\ pass[a].pc = "references"
  /\ MuxFree
  /\ LET current == CurrentReferences(pass[a].spec)
     IN  /\ ReferenceMap' = [k \in Keys |->
              IF k \in current THEN ReferenceMap[k] \cup {a} ELSE ReferenceMap[k]]
         /\ AddonComplianceToReferenceMap' =
              [AddonComplianceToReferenceMap EXCEPT ![a] = current]
  /\ pass' = [pass EXCEPT ![a].pc = "clusters"]
  /\ UNCHANGED <<objects, clusters, cached, events, queue, left>>

\* updateReferenceMap, in its critical section.
UpdateReferenceMap(a) ==
  /\ pass[a].pc = "references"
  /\ MuxFree
  /\ LET current == CurrentReferences(pass[a].spec)
         toBeRemoved == AddonComplianceToReferenceMap[a] \ current
     IN  /\ ReferenceMap' = [k \in Keys |->
              IF k \in current THEN ReferenceMap[k] \cup {a}
              ELSE IF k \in toBeRemoved THEN ReferenceMap[k] \ {a}
              ELSE ReferenceMap[k]]
         /\ AddonComplianceToReferenceMap' =
              [AddonComplianceToReferenceMap EXCEPT ![a] = current]
  /\ pass' = [pass EXCEPT ![a].pc = "clusters"]
  /\ UNCHANGED <<objects, clusters, cached, events, queue, left>>

\* updateClusterMap, in its critical section.
UpdateClusterMap(a) ==
  /\ pass[a].pc = "clusters"
  /\ MuxFree
  /\ LET current == pass[a].matching
         toBeRemoved == AddonComplianceToClusterMap[a] \ current
     IN  /\ ClusterMap' = [c \in Cluster |->
              IF c \in current THEN ClusterMap[c] \cup {a}
              ELSE IF c \in toBeRemoved THEN ClusterMap[c] \ {a}
              ELSE ClusterMap[c]]
         /\ AddonComplianceToClusterMap' =
              [AddonComplianceToClusterMap EXCEPT ![a] = current]
  /\ pass' = [pass EXCEPT ![a].pc = "write"]
  /\ UNCHANGED <<objects, references, cached, events, queue, left>>

\* updateMaps writes AddonCompliances without PolicyMux: a pass at "write" is
\* in the middle of it.
WriteSelector(a) ==
  /\ pass[a].pc = "write"
  /\ AddonCompliances' = Put(AddonCompliances, a, pass[a].spec.selector)
  /\ pass' = [pass EXCEPT ![a] =
       [@ EXCEPT !.pc = "collect", !.toCollect = pass[a].spec.refs, !.content = NoContent]]
  /\ UNCHANGED <<objects, references, clusters, ClusterLabels, events, queue, left>>

\* collectValidations: the cases of OCIRepository and Bucket are empty.
Collected(r, order) ==
  IF KindOf[r] \in {"OCIRepository", "Bucket"} \/ resource[r].data = NoData
  THEN NotCollected ELSE [data |-> resource[r].data, order |-> order]

\* A ConfigMap or a Secret that is not there has no content; a GitRepository must be
\* there, and a Secret have the type that is supported.
Unreadable(r) ==
  \/ KindOf[r] = "GitRepository" /\ ~resource[r].present
  \/ KindOf[r] = "Secret" /\ ~resource[r].supported

\* One reference is read after another; content holds what was read of each.
\* After an error the status keeps what it had.
CollectLuaValidations(a) ==
  /\ pass[a].pc = "collect"
  /\ \/ /\ \E r \in pass[a].toCollect : \E order \in 1..Walks[r] :
             /\ ~Unreadable(r)
             /\ pass' = [pass EXCEPT ![a] =
                  [pass[a] EXCEPT !.toCollect = @ \ {r}, !.content[r] = Collected(r, order)]]
        /\ UNCHANGED left
     \/ /\ pass[a].toCollect = {}
        /\ pass' = [pass EXCEPT ![a].pc = "annotate"]
        /\ UNCHANGED left
     \/ /\ \/ Fails("collect")
           \/ (\E r \in pass[a].toCollect : Unreadable(r)) /\ UNCHANGED left
        /\ pass' = [pass EXCEPT ![a] =
             [@ EXCEPT !.pc = "close", !.toCollect = {}, !.content = compliance[a].content,
                       !.failed = TRUE]]
  /\ UNCHANGED <<objects, references, clusters, cached, events, queue>>

AnnotateClusters(a) ==
  /\ pass[a].pc = "annotate"
  /\ \/ /\ pass' = [pass EXCEPT ![a] =
             [@ EXCEPT !.pc = "close", !.failed = FALSE, !.done = TRUE]]
        /\ UNCHANGED left
     \/ /\ Fails("updateCluster")
        /\ pass' = [pass EXCEPT ![a] = [@ EXCEPT !.pc = "close", !.failed = TRUE]]
  /\ UNCHANGED <<objects, references, clusters, cached, events, queue>>

\* AddonCompliances keeps its entry.
CleanMaps(a) ==
  /\ pass[a].pc = "clean"
  /\ MuxFree
  /\ AddonComplianceToClusterMap' = [AddonComplianceToClusterMap EXCEPT ![a] = {}]
  /\ AddonComplianceToReferenceMap' = [AddonComplianceToReferenceMap EXCEPT ![a] = {}]
  /\ ReferenceMap' = [k \in Keys |-> ReferenceMap[k] \ {a}]
  /\ ClusterMap' = [c \in Cluster |-> ClusterMap[c] \ {a}]
  /\ pass' = [pass EXCEPT ![a].pc = "annotate"]
  /\ UNCHANGED <<objects, cached, events, queue, left>>

\* scope.Close patches the metadata, then the status, each by a call of its own.
\* A patch that changes the object is an event for the reconciler itself; an
\* error of the pass or of a patch makes it try again.
MetadataPatched(a) ==
  IF pass[a].deleting
  THEN IF pass[a].done THEN NoObject ELSE compliance[a]
  ELSE [compliance[a] EXCEPT !.finalizer = TRUE, !.labels = pass[a].labels]

\* Mutant of PatchMetadata: its error is forgotten.
PatchMetadataOnce(a) ==
  /\ pass[a].pc = "close"
  /\ pass' = [pass EXCEPT ![a].pc = "status"]
  /\ \/ /\ compliance[a].phase # "absent"
        /\ compliance' = [compliance EXCEPT ![a] = MetadataPatched(a)]
        /\ queue' = IF MetadataPatched(a) # compliance[a] THEN queue \cup {a} ELSE queue
        /\ UNCHANGED left
     \/ /\ \/ compliance[a].phase = "absent" /\ UNCHANGED left
           \/ Fails("close")
        /\ UNCHANGED <<compliance, queue>>
  /\ UNCHANGED <<cluster, machine, resource, references, clusters, cached, events>>

PatchMetadata(a) ==
  /\ pass[a].pc = "close"
  /\ \/ /\ compliance[a].phase # "absent"
        /\ compliance' = [compliance EXCEPT ![a] = MetadataPatched(a)]
        /\ queue' = IF MetadataPatched(a) # compliance[a] THEN queue \cup {a} ELSE queue
        /\ pass' = [pass EXCEPT ![a].pc = "status"]
        /\ UNCHANGED left
     \/ /\ \/ compliance[a].phase = "absent" /\ UNCHANGED left
           \/ MetadataPatched(a) # compliance[a] /\ Fails("close")
        /\ pass' = [pass EXCEPT ![a].pc = "status", ![a].done = FALSE]
        /\ UNCHANGED <<compliance, queue>>
  /\ UNCHANGED <<cluster, machine, resource, references, clusters, cached, events>>

\* A pass that deletes changes no status.
StatusPatched(a) ==
  IF pass[a].deleting THEN compliance[a]
  ELSE [compliance[a] EXCEPT !.matching = pass[a].matching, !.content = pass[a].content,
                             !.failed = pass[a].failed]

\* Of a pass that is over, the history is kept.
NoPassAfter(a) == [NoPass EXCEPT !.tracked = pass[a].tracked]

\* Mutant of PatchStatus: every pass makes another one.
PatchStatusAndRequeue(a) ==
  /\ pass[a].pc = "status"
  /\ compliance' = IF compliance[a].phase = "absent" THEN compliance
                   ELSE [compliance EXCEPT ![a] = StatusPatched(a)]
  /\ queue' = queue \cup {a}
  /\ pass' = [pass EXCEPT ![a] = NoPassAfter(a)]
  /\ UNCHANGED <<cluster, machine, resource, references, clusters, cached, events, left>>

PatchStatus(a) ==
  /\ pass[a].pc = "status"
  /\ \/ /\ compliance[a].phase # "absent" \/ pass[a].deleting
        /\ compliance' = [compliance EXCEPT ![a] = StatusPatched(a)]
        /\ queue' = IF StatusPatched(a) # compliance[a] \/ ~pass[a].done
                    THEN queue \cup {a} ELSE queue
        /\ UNCHANGED left
     \/ /\ \/ compliance[a].phase = "absent" /\ ~pass[a].deleting /\ UNCHANGED left
           \/ StatusPatched(a) # compliance[a] /\ Fails("close")
        /\ queue' = queue \cup {a}
        /\ UNCHANGED compliance
  /\ pass' = [pass EXCEPT ![a] = NoPassAfter(a)]
  /\ UNCHANGED <<cluster, machine, resource, references, clusters, cached, events>>

PassStep(a) ==
  \/ AddFinalizer(a)
  \/ GetMatchingClusters(a)
  \/ UpdateReferenceMap(a)
  \/ UpdateClusterMap(a)
  \/ WriteSelector(a)
  \/ CollectLuaValidations(a)
  \/ CleanMaps(a)
  \/ AnnotateClusters(a)
  \/ PatchMetadata(a)
  \/ PatchStatus(a)

-----------------------------------------------------------------------------
UserStep ==
  \/ \E c \in Cluster : \E new \in ClusterVersions(c) :
       CreateCluster(c, new) \/ UpdateCluster(c, new)
  \/ \E c \in Cluster : DeleteCluster(c) \/ ClusterGone(c)
  \/ \E c \in Cluster, phase \in Phases : ChangeMachine(c, phase)
  \/ \E r \in Reference : \E new \in ResourceVersions(r) :
       CreateReference(r, new) \/ UpdateReference(r, new)
  \/ \E r \in Reference : DeleteReference(r)
  \/ \E a \in Compliance, spec \in Specs :
       CreateCompliance(a, spec) \/ EditCompliance(a, spec)
  \/ \E a \in Compliance : DeleteCompliance(a)

Next ==
  \/ UserStep
  \/ Restart
  \/ HandlerStep
  \/ \E a \in Compliance : Reconcile(a) \/ PassStep(a)

Spec == Init /\ [][Next]_vars

\* Events are delivered, a running pass goes on, and the first-in first-out
\* work queue starves no compliance.
Fairness ==
  /\ WF_vars(HandlerStep)
  /\ \A a \in Compliance : WF_vars(PassStep(a)) /\ SF_vars(Reconcile(a))

LiveSpec == Spec /\ Fairness

-----------------------------------------------------------------------------
(* Properties. *)

ClusterObjects ==
  [present : BOOLEAN, terminating : BOOLEAN, labels : SUBSET Label, paused : BOOLEAN,
   ready : BOOLEAN]
Resources ==
  [present : BOOLEAN, data : Data \cup {NoData}, binaryData : BOOLEAN, supported : BOOLEAN]
Contents == [Reference -> [data : Data \cup {NoData}, order : Nat]]
ComplianceObjects ==
  [phase : {"absent", "live", "terminating"}, spec : Specs \cup {BlankSpec},
   finalizer : BOOLEAN, labels : SUBSET Cluster, matching : SUBSET Cluster,
   content : Contents, failed : BOOLEAN]
PassStates ==
  [pc : {"idle", "finalize", "match", "references", "clusters", "write", "collect",
         "annotate", "clean", "close", "status"},
   spec : Specs \cup {BlankSpec}, labels : SUBSET Cluster, matching : SUBSET Cluster,
   toCollect : SUBSET Reference, content : Contents, failed : BOOLEAN,
   deleting : BOOLEAN, done : BOOLEAN, tracked : BOOLEAN]
Handlers == [pc : {"idle", "iterate", "return"}, requests : SUBSET Compliance]

\* Every variable keeps its type: the maps relate existing names only.
TypeOK ==
  /\ cluster \in [Cluster -> ClusterObjects]
  /\ compliance \in [Compliance -> ComplianceObjects]
  /\ machine \in [Cluster -> Phases]
  /\ resource \in [Reference -> Resources]
  /\ ReferenceMap \in [Keys -> SUBSET Compliance]
  /\ AddonComplianceToReferenceMap \in [Compliance -> SUBSET Keys]
  /\ ClusterMap \in [Cluster -> SUBSET Compliance]
  /\ AddonComplianceToClusterMap \in [Compliance -> SUBSET Cluster]
  /\ AddonCompliances \in UNION {[D -> SUBSET Label] : D \in SUBSET Compliance}
  /\ ClusterLabels \in UNION {[D -> SUBSET Label] : D \in SUBSET Cluster}
  /\ clusterEvents \in [Cluster -> Seq(SUBSET Label)]
  /\ machineEvents \subseteq Cluster
  /\ referenceEvents \subseteq Reference
  /\ handler \in Handlers
  /\ queue \subseteq Compliance
  /\ pass \in [Compliance -> PassStates]
  /\ left \in [Counters -> Nat]

\* The two directions of each relation agree whatever passes, edits and
\* deletions are interleaved: the removals of one pass are computed from what
\* the previous pass of the same compliance recorded (lines 352-450).
MapsInverse ==
  /\ \A k \in Keys, a \in Compliance :
       a \in ReferenceMap[k] <=> k \in AddonComplianceToReferenceMap[a]
  /\ \A c \in Cluster, a \in Compliance :
       a \in ClusterMap[c] <=> c \in AddonComplianceToClusterMap[a]

\* A compliance is recorded, or about to be, only while its finalizer keeps the
\* object, so that a deletion must come by cleanMaps; and nothing is recorded
\* between cleanMaps and the removal of the finalizer (lines 164-185, 452-465).
Recorded(a) == AddonComplianceToReferenceMap[a] # {} \/ AddonComplianceToClusterMap[a] # {}
Held(a) == compliance[a].phase # "absent" /\ compliance[a].finalizer
Recording(a) == pass[a].pc \in {"match", "references", "clusters", "write", "collect", "annotate"}
HeldOrClean(a) ==
  /\ Recorded(a) => Held(a)
  /\ Recording(a) /\ ~pass[a].deleting => Held(a)
  /\ compliance[a].phase = "terminating" => compliance[a].finalizer
  /\ pass[a].pc = "clean" => pass[a].deleting
  /\ pass[a].deleting => /\ pass[a].pc \in {"clean", "annotate", "close", "status"}
                         /\ pass[a].pc # "status" => compliance[a].phase = "terminating"
                         /\ pass[a].pc # "clean" => ~Recorded(a)
RecordedHeld == \A a \in Compliance : HeldOrClean(a)

\* So a compliance that is gone is recorded as no consumer of a reference or of
\* a cluster, also when its deletion overtook a pass or was retried
\* (addoncompliance_controller_test.go:425-426).  It follows from MapsInverse
\* and RecordedHeld.
DeletedForgotten ==
  \A a \in Compliance : compliance[a].phase = "absent" =>
    /\ \A k \in Keys : a \notin ReferenceMap[k]
    /\ \A c \in Cluster : a \notin ClusterMap[c]

\* Nothing will happen unless somebody changes an object.
Quiet ==
  /\ queue = {}
  /\ Passes = {}
  /\ MuxFree
  /\ \A c \in Cluster : clusterEvents[c] = <<>>
  /\ machineEvents = {}
  /\ referenceEvents = {}

\* No change of a reference is lost, whatever order its sections are read in:
\* when everything is quiet, the validations of each compliance are the current
\* content of what it references.  A pass records its references before it reads
\* them, so that a change it does not see finds it in ReferenceMap
\* (reconcileNormal, lines 211-214), and the predicates let every change pass
\* that a collection would tell (addoncompliance_predicates.go:38-219).
Shows(a) ==
  \A r \in Reference : compliance[a].content[r].data =
    IF r \in compliance[a].spec.refs THEN resource[r].data ELSE NoData
QuietContent == Quiet => \A a \in Compliance : compliance[a].phase = "live" => Shows(a)

\* No change of a cluster is lost: when everything is quiet, the status of each
\* compliance shows the clusters that match it.  Neither the creation of a paused
\* cluster nor its deletion timestamp is an event (addoncompliance_predicates.go:303,
\* 258-295, 339-370), so this is said of the other clusters: unpausing, or the end of
\* the deletion, must make up for it.
Evident == {c \in Cluster : ~cluster[c].paused /\ ~cluster[c].terminating}
QuietMatching ==
  Quiet => \A a \in Compliance : compliance[a].phase = "live" =>
    compliance[a].matching \cap Evident
      = MatchingClusters(compliance[a].spec) \cap Evident

\* The labels of a compliance name the clusters its status lists, although a
\* failure may come between the two patches that write them (scope.Close).
QuietLabels ==
  Quiet => \A a \in Compliance : compliance[a].phase = "live" =>
    compliance[a].labels = compliance[a].matching

\* What the handler of a machine event knows of an unpaused cluster is current,
\* unless an event that tells better waits to be handled
\* (addoncompliance_transformations.go:247).
LabelsFresh ==
  \A c \in Cluster :
    cluster[c].present /\ ~cluster[c].paused /\ clusterEvents[c] = <<>> =>
      c \in DOMAIN ClusterLabels /\ ClusterLabels[c] = cluster[c].labels

\* The controller comes to rest, unless a reference of a live compliance stays
\* unreadable: its own patches, which are events for it, do not keep it busy.  This is
\* so if references have one order to be read in; several may give the status another
\* content each time (utils.go:165).
Unfinished ==
  \E a \in Compliance : /\ compliance[a].phase = "live"
                        /\ \E r \in compliance[a].spec.refs : Unreadable(r)
Settles == <>[]Quiet \/ []<>Unfinished

-----------------------------------------------------------------------------
(* Why QuietContent, LabelsFresh and QuietLabels hold.                      *)

\* A pass of the compliance is to come; an event is to come that finds it.
Pending(a) == a \in queue \/ a \in handler.requests
WillFind(a, r) ==
  r \in referenceEvents /\ RecordedKey(r) \in AddonComplianceToReferenceMap[a]

\* Of these references, and of no other, content tells the data, or else will
\* be made to.
Covers(content, refs, a) ==
  \A r \in Reference :
    IF r \in refs
    THEN content[r].data = resource[r].data \/ Pending(a) \/ WillFind(a, r)
    ELSE content[r].data = NoData
RecordedAre(a, spec) == AddonComplianceToReferenceMap[a] = CurrentReferences(spec)

\* A pass works on the current spec or is followed by another; once it recorded
\* its references, what it has read of them is covered until its last patch.
Complete(a) == pass[a].pc = "annotate" \/ pass[a].done
RecordedPass(a) == pass[a].pc \in {"clusters", "write", "collect"} \/ Complete(a)
OnCurrentSpec(a) == ~pass[a].deleting /\ pass[a].spec = compliance[a].spec
CoveredPass(a) ==
  /\ compliance[a].phase = "live" /\ pass[a].pc # "idle" => Pending(a) \/ OnCurrentSpec(a)
  /\ pass[a].done => pass[a].pc \in {"close", "status"}
  /\ ~pass[a].deleting =>
       /\ RecordedPass(a) => RecordedAre(a, pass[a].spec)
       /\ pass[a].pc = "collect" =>
            /\ pass[a].toCollect \subseteq pass[a].spec.refs
            /\ Covers(pass[a].content, pass[a].spec.refs \ pass[a].toCollect, a)
       /\ Complete(a) => Covers(pass[a].content, pass[a].spec.refs, a)

\* Without a pass the same is true of the status.
CoveredStatus(a) ==
  compliance[a].phase = "live" /\ pass[a].pc = "idle" =>
    \/ Pending(a)
    \/ /\ RecordedAre(a, compliance[a].spec)
       /\ Covers(compliance[a].content, compliance[a].spec.refs, a)

\* The content of a status is current or some event will renew it, in every
\* state and for references whose content is collected at all.
ContentCovered ==
  /\ MuxFree => handler.requests = {}
  /\ \A a \in Compliance : CoveredPass(a) /\ CoveredStatus(a)

\* The last event of an unpaused cluster that is not handled, or else the last
\* one that was, tells its labels.
LabelsTracked ==
  \A c \in Cluster : cluster[c].present /\ ~cluster[c].paused =>
    IF clusterEvents[c] = <<>>
    THEN c \in DOMAIN ClusterLabels /\ ClusterLabels[c] = cluster[c].labels
    ELSE clusterEvents[c][Len(clusterEvents[c])] = cluster[c].labels

\* Once a pass listed the clusters its labels name them, and so do those of the
\* object if both patches succeeded, unless another pass is to come.
LabelsWrittenOf(a) ==
  /\ pass[a].done => pass[a].pc \in {"close", "status"}
  /\ compliance[a].phase = "live" /\ pass[a].deleting => a \in queue
  /\ ~pass[a].deleting =>
       /\ pass[a].done \/ pass[a].pc \in {"references", "clusters", "write", "collect", "annotate"}
            => pass[a].labels = pass[a].matching
       /\ compliance[a].phase = "live" /\ pass[a].pc = "status" /\ pass[a].done
            => a \in queue \/ compliance[a].labels = pass[a].labels
  /\ compliance[a].phase = "live" /\ pass[a].pc = "idle"
       => a \in queue \/ compliance[a].labels = compliance[a].matching
LabelsWritten == \A a \in Compliance : LabelsWrittenOf(a)

-----------------------------------------------------------------------------
(* What comments and tests of the code say and the code does not do. *)

\* A mutex protects the maps (addoncompliance_controller.go:70): nobody iterates
\* or writes AddonCompliances while somebody writes it.
NoDataRace ==
  \A a \in Compliance : pass[a].pc = "write" =>
    /\ handler.pc # "iterate"
    /\ \A b \in Compliance \ {a} : pass[b].pc # "write"

\* A change of a Flux source requeues who recorded it as a reference
\* (addoncompliance_controller.go:298-299).
Handled(r) == MuxFree /\ r \in referenceEvents /\ r \notin referenceEvents'
                      /\ handler'.pc = "return"
ConsumersRequeued ==
  [][\A r \in Reference, a \in Compliance :
       Handled(r) /\ RecordedKey(r) \in AddonComplianceToReferenceMap[a]
         => a \in handler'.requests]_vars
=============================================================================
