-------------------------- MODULE ComplianceLoader --------------------------
(***************************************************************************)
(* How a cluster becomes ready for addons.  The SveltosCluster and Cluster *)
(* reconcilers record, per new cluster, the compliances that match it; the *)
(* passes of the AddonCompliance reconciler strike them off one by one and *)
(* annotate a cluster when its last one goes.  The reconcilers share only  *)
(* the manager's map and the objects kept by the API server; every step    *)
(* below is one critical section or one API call, so that reconcilers,     *)
(* users, API failures and restarts interleave wherever the code can be    *)
(* preempted.                                                              *)
(***************************************************************************)
EXTENDS Manager, FiniteSets, Integers

CONSTANTS
  Cluster, Compliance,   \* names of objects
  Label,                 \* cluster labels; a selector is a set of them
  Specs,                 \* the specs a compliance may have
  KindOf,                \* cluster -> its kind; each kind has one worker
  ConcurrentReconciles,  \* AddonCompliance workers
  Fallible,              \* the API calls that may fail
  Budget,                \* how often failures, restarts, edits, ... happen
  MaxUid                 \* incarnations of one object name

BlankSpec == [selector |-> {}, clusterRefs |-> {}]
ApiCalls == {"listCompliances", "patchFinalizer", "listClusters", "collect",
             "updateCluster", "close"}
Counters == {"failures", "restarts", "edits", "clusterDeletes", "complianceDeletes"}

ASSUME SpecsAssumption == Specs \subseteq
         [selector : SUBSET Label, clusterRefs : SUBSET Cluster]
ASSUME FiniteAssumption == IsFiniteSet(Compliance)
ASSUME ConstantsAssumption ==
  /\ ConcurrentReconciles \in Nat \ {0}
  /\ Fallible \subseteq ApiCalls
  /\ Budget \in [Counters -> Nat]
  /\ MaxUid \in Nat

VARIABLES
  cluster,           \* the cluster objects of the API server
  compliance,        \* the AddonCompliance objects of the API server
  addonConstraints,  \* the manager's map
  worker,            \* per cluster, the reconciliation under way
  pass,              \* per compliance, the reconciliation under way
  left,              \* what remains of Budget
  owed,              \* history: the set last recorded for a cluster
  collected          \* history: compliances whose validations were collected

vars == <<cluster, compliance, addonConstraints, worker, pass, left, owed, collected>>

Phases == {"absent", "live", "terminating"}
NoWorker == [pc |-> "idle", labels |-> {}, found |-> {}]
NoPass == [pc |-> "idle", spec |-> BlankSpec, matching |-> {}, toAnnotate |-> {},
           deleting |-> FALSE, loaded |-> FALSE, done |-> FALSE]

Live(c) == cluster[c].phase = "live"
Annotated(c) == cluster[c].annotated

\* labels.Parse(selector).Matches(labels): the empty selector matches all.
Matches(selector, labels) == selector \subseteq labels

\* getMatchingClusters: here an empty selector matches none, and clusterRefs
\* are taken as they are.
MatchingClusters(spec) ==
  {c \in Cluster : Live(c) /\ spec.selector # {} /\ Matches(spec.selector, cluster[c].labels)}
    \cup spec.clusterRefs

\* One more use of a bounded counter.
Spend(counter) == left[counter] > 0 /\ left' = [left EXCEPT ![counter] = @ - 1]
Fails(call) == call \in Fallible /\ Spend("failures")

Init ==
  /\ cluster = [c \in Cluster |->
                 [phase |-> "absent", uid |-> 0, labels |-> {}, annotated |-> FALSE]]
  /\ compliance = [a \in Compliance |->
                    [phase |-> "absent", uid |-> 0, spec |-> BlankSpec,
                     finalizer |-> FALSE, matching |-> {}, loaded |-> FALSE]]
  /\ addonConstraints = NoEntries
  /\ worker = [c \in Cluster |-> NoWorker]
  /\ pass = [a \in Compliance |-> NoPass]
  /\ left = Budget
  /\ owed = [c \in Cluster |-> {}]
  /\ collected = {}

-----------------------------------------------------------------------------
(* Users and other controllers. *)

CreateCluster(c, labels) ==
  /\ cluster[c].phase = "absent"
  /\ cluster[c].uid < MaxUid
  /\ cluster' = [cluster EXCEPT ![c] =
       [phase |-> "live", uid |-> @.uid + 1, labels |-> labels, annotated |-> FALSE]]
  /\ UNCHANGED <<compliance, addonConstraints, worker, pass, left, owed, collected>>

RelabelCluster(c, labels) ==
  /\ Live(c)
  /\ Spend("edits")
  /\ cluster' = [cluster EXCEPT ![c].labels = labels]
  /\ UNCHANGED <<compliance, addonConstraints, worker, pass, owed, collected>>

DeleteCluster(c) ==
  /\ Live(c)
  /\ Spend("clusterDeletes")
  /\ cluster' = [cluster EXCEPT ![c].phase = "terminating"]
  /\ UNCHANGED <<compliance, addonConstraints, worker, pass, owed, collected>>

\* The finalizers of a deleted cluster are gone, and the object with them.
ClusterGone(c) ==
  /\ cluster[c].phase = "terminating"
  /\ cluster' = [cluster EXCEPT ![c] =
       [phase |-> "absent", uid |-> @.uid, labels |-> {}, annotated |-> FALSE]]
  /\ UNCHANGED <<compliance, addonConstraints, worker, pass, left, owed, collected>>

\* What is left of a compliance once the API server has dropped it.
Dropped(a) ==
  [phase |-> "absent", uid |-> compliance[a].uid, spec |-> BlankSpec,
   finalizer |-> FALSE, matching |-> {}, loaded |-> FALSE]

CreateCompliance(a, spec) ==
  /\ compliance[a].phase = "absent"
  /\ compliance[a].uid < MaxUid
  /\ compliance' = [compliance EXCEPT ![a] =
       [phase |-> "live", uid |-> @.uid + 1, spec |-> spec, finalizer |-> FALSE,
        matching |-> {}, loaded |-> FALSE]]
  /\ collected' = collected \ {a}
  /\ UNCHANGED <<cluster, addonConstraints, worker, pass, left, owed>>

EditCompliance(a, spec) ==
  /\ compliance[a].phase = "live"
  /\ Spend("edits")
  /\ compliance' = [compliance EXCEPT ![a].spec = spec]
  /\ UNCHANGED <<cluster, addonConstraints, worker, pass, owed, collected>>

\* Only a finalizer keeps a deleted object until the reconciler lets it go.
DeleteCompliance(a) ==
  /\ compliance[a].phase = "live"
  /\ Spend("complianceDeletes")
  /\ compliance' = [compliance EXCEPT ![a] =
       IF @.finalizer THEN [@ EXCEPT !.phase = "terminating"] ELSE Dropped(a)]
  /\ UNCHANGED <<cluster, addonConstraints, worker, pass, owed, collected>>

\* The controller's process dies and starts again: what it kept in memory is lost.
Restart ==
  /\ Spend("restarts")
  /\ addonConstraints' = NoEntries
  /\ worker' = [c \in Cluster |-> NoWorker]
  /\ pass' = [a \in Compliance |-> NoPass]
  /\ UNCHANGED <<cluster, compliance, owed, collected>>

-----------------------------------------------------------------------------
(* The SveltosCluster and Cluster reconcilers.  They are the only ones that *)
(* add or remove keys of the map, so whether a key is present is decided    *)
(* together with the Get that starts the reconciliation; a Get that finds   *)
(* nothing to do changes nothing and is left out.                           *)

\* Mutant of ShouldAddClusterEntry: only the annotation is looked at.
ShouldAddUnlessAnnotated(c) == ~Annotated(c)

\* shouldAddClusterEntry
ShouldAddClusterEntry(c) ==
  ~Annotated(c) /\ ~HasEntryForCluster(addonConstraints, c)

\* Each kind has a single worker (MaxConcurrentReconciles is left at 1).
WorkerFree(c) == \A d \in Cluster : KindOf[d] = KindOf[c] => worker[d].pc = "idle"

ReconcileCluster(c) ==
  /\ cluster[c].uid > 0
  /\ WorkerFree(c)
  /\ IF Live(c)
     THEN /\ ShouldAddClusterEntry(c)
          /\ worker' = [worker EXCEPT ![c] =
               [NoWorker EXCEPT !.pc = "list", !.labels = cluster[c].labels]]
     ELSE worker' = [worker EXCEPT ![c].pc = "remove"]
  /\ UNCHANGED <<cluster, compliance, addonConstraints, pass, left, owed, collected>>

RemoveEntry(c) ==
  /\ worker[c].pc = "remove"
  /\ addonConstraints' = RemoveClusterEntry(addonConstraints, c)
  /\ worker' = [worker EXCEPT ![c] = NoWorker]
  /\ UNCHANGED <<cluster, compliance, pass, left, owed, collected>>

\* The first half of addClusterEntry: only selectors are looked at, and a
\* compliance being deleted is listed as well.
ListCompliances(c) ==
  /\ worker[c].pc = "list"
  /\ \/ /\ worker' = [worker EXCEPT ![c] = [@ EXCEPT !.pc = "add", !.found =
             {a \in Compliance : /\ compliance[a].phase # "absent"
                                 /\ Matches(compliance[a].spec.selector, worker[c].labels)}]]
        /\ UNCHANGED left
     \/ /\ Fails("listCompliances")
        /\ worker' = [worker EXCEPT ![c] = NoWorker]
  /\ UNCHANGED <<cluster, compliance, addonConstraints, pass, owed, collected>>

AddEntry(c) ==
  /\ worker[c].pc = "add"
  /\ addonConstraints' = AddClusterEntry(addonConstraints, c, worker[c].found)
  /\ owed' = [owed EXCEPT ![c] = worker[c].found]
  /\ worker' = [worker EXCEPT ![c] = [NoWorker EXCEPT !.pc = "count"]]
  /\ UNCHANGED <<cluster, compliance, pass, left, collected>>

\* Mutants of CountCompliances: the count is ignored, one way or the other.
AnnotateUncounted(c) ==
  /\ worker[c].pc = "count"
  /\ worker' = [worker EXCEPT ![c].pc = "annotate"]
  /\ UNCHANGED <<cluster, compliance, addonConstraints, pass, left, owed, collected>>
LeaveToPasses(c) ==
  /\ worker[c].pc = "count"
  /\ worker' = [worker EXCEPT ![c] = NoWorker]
  /\ UNCHANGED <<cluster, compliance, addonConstraints, pass, left, owed, collected>>

CountCompliances(c) ==
  /\ worker[c].pc = "count"
  /\ worker' = [worker EXCEPT ![c] =
       IF AwaitsNone(addonConstraints, c) THEN [@ EXCEPT !.pc = "annotate"] ELSE NoWorker]
  /\ UNCHANGED <<cluster, compliance, addonConstraints, pass, left, owed, collected>>

\* annotateCluster's Get and Update: a cluster that is gone is no error.
\* A conflicting write makes it start again, so the two are one step.
SetAnnotation(c) ==
  cluster' = IF cluster[c].phase = "absent" THEN cluster
             ELSE [cluster EXCEPT ![c].annotated = TRUE]

AnnotateNewCluster(c) ==
  /\ worker[c].pc = "annotate"
  /\ \/ SetAnnotation(c) /\ UNCHANGED left
     \/ Fails("updateCluster") /\ UNCHANGED cluster
  /\ worker' = [worker EXCEPT ![c] = NoWorker]
  /\ UNCHANGED <<compliance, addonConstraints, pass, owed, collected>>

ClusterStep(c) ==
  \/ RemoveEntry(c)
  \/ ListCompliances(c)
  \/ AddEntry(c)
  \/ CountCompliances(c)
  \/ AnnotateNewCluster(c)

-----------------------------------------------------------------------------
(* The AddonCompliance reconciler.  The work queue hands a compliance to at *)
(* most one of the ConcurrentReconciles workers at a time.                  *)

Passes == {a \in Compliance : pass[a].pc # "idle"}

\* Reconcile's Get: the pass works on this copy of the object from here on.
Reconcile(a) ==
  /\ pass[a].pc = "idle"
  /\ Cardinality(Passes) < ConcurrentReconciles
  /\ compliance[a].phase # "absent"
  /\ pass' = [pass EXCEPT ![a] =
       IF compliance[a].phase = "terminating"
       THEN [NoPass EXCEPT !.pc = "clear", !.deleting = TRUE]
       ELSE [NoPass EXCEPT !.pc = IF compliance[a].finalizer THEN "match" ELSE "finalize",
                           !.spec = compliance[a].spec,
                           !.matching = compliance[a].matching]]
  /\ UNCHANGED <<cluster, compliance, addonConstraints, worker, left, owed, collected>>

\* Patching an object that is gone is an error.
AddFinalizer(a) ==
  /\ pass[a].pc = "finalize"
  /\ \/ /\ compliance[a].phase # "absent"
        /\ compliance' = [compliance EXCEPT ![a].finalizer = TRUE]
        /\ pass' = [pass EXCEPT ![a].pc = "match"]
        /\ UNCHANGED left
     \/ /\ \/ compliance[a].phase = "absent" /\ UNCHANGED left
           \/ Fails("patchFinalizer")
        /\ pass' = [pass EXCEPT ![a] = [@ EXCEPT !.pc = "close", !.spec = BlankSpec]]
        /\ UNCHANGED compliance
  /\ UNCHANGED <<cluster, addonConstraints, worker, owed, collected>>

GetMatchingClusters(a) ==
  /\ pass[a].pc = "match"
  /\ \/ /\ pass' = [pass EXCEPT ![a] =
             [@ EXCEPT !.pc = "collect", !.spec = BlankSpec,
                       !.matching = MatchingClusters(pass[a].spec)]]
        /\ UNCHANGED left
     \/ /\ Fails("listClusters")
        /\ pass' = [pass EXCEPT ![a] = [@ EXCEPT !.pc = "close", !.spec = BlankSpec]]
  /\ UNCHANGED <<cluster, compliance, addonConstraints, worker, owed, collected>>

\* Mutant of CollectLuaValidations: an error does not end the pass.
CollectIgnoringErrors(a) ==
  /\ pass[a].pc = "collect"
  /\ pass' = [pass EXCEPT ![a] = [@ EXCEPT !.pc = "clear", !.loaded = TRUE]]
  /\ \/ collected' = collected \cup {a} /\ UNCHANGED left
     \/ Fails("collect") /\ UNCHANGED collected
  /\ UNCHANGED <<cluster, compliance, addonConstraints, worker, owed>>

CollectLuaValidations(a) ==
  /\ pass[a].pc = "collect"
  /\ \/ /\ pass' = [pass EXCEPT ![a] = [@ EXCEPT !.pc = "clear", !.loaded = TRUE]]
        /\ collected' = collected \cup {a}
        /\ UNCHANGED left
     \/ /\ Fails("collect")
        /\ pass' = [pass EXCEPT ![a].pc = "close"]
        /\ UNCHANGED collected
  /\ UNCHANGED <<cluster, compliance, addonConstraints, worker, owed>>

\* The first half of annotateClusters.
ClearCompliance(a) ==
  /\ pass[a].pc = "clear"
  /\ addonConstraints' = RemoveAddonCompliance(addonConstraints, a)
  /\ pass' = [pass EXCEPT ![a] =
       [@ EXCEPT !.pc = "annotate", !.toAnnotate = ClustersToAnnotate(addonConstraints, a)]]
  /\ UNCHANGED <<cluster, compliance, worker, left, owed, collected>>

\* The loop of annotateClusters, in any order: the first failure ends it and
\* the clusters that are left are forgotten.
AnnotateCluster(a) ==
  /\ pass[a].pc = "annotate"
  /\ \/ \E c \in pass[a].toAnnotate :
          \/ /\ SetAnnotation(c)
             /\ pass' = [pass EXCEPT ![a].toAnnotate = @ \ {c}]
             /\ UNCHANGED left
          \/ /\ Fails("updateCluster")
             /\ pass' = [pass EXCEPT ![a] = [@ EXCEPT !.pc = "close", !.toAnnotate = {}]]
             /\ UNCHANGED cluster
     \/ /\ pass[a].toAnnotate = {}
        /\ pass' = [pass EXCEPT ![a] = [@ EXCEPT !.pc = "close", !.done = TRUE]]
        /\ UNCHANGED <<cluster, left>>
  /\ UNCHANGED <<compliance, addonConstraints, worker, owed, collected>>

\* Mutants of Closed: the clusters found are not stored; the finalizer stays.
ClosedWithoutMatching(a) ==
  IF pass[a].deleting
  THEN IF pass[a].done THEN Dropped(a) ELSE compliance[a]
  ELSE [compliance[a] EXCEPT !.finalizer = TRUE, !.loaded = @ \/ pass[a].loaded]
ClosedWithFinalizer(a) ==
  IF pass[a].deleting THEN compliance[a]
  ELSE [compliance[a] EXCEPT !.finalizer = TRUE, !.matching = pass[a].matching,
                             !.loaded = @ \/ pass[a].loaded]

\* scope.Close persists what the pass changed in its copy of the object: the
\* finalizer it added or, deletion over, removed; the status it computed.
Closed(a) ==
  IF pass[a].deleting
  THEN IF pass[a].done THEN Dropped(a) ELSE compliance[a]
  ELSE [compliance[a] EXCEPT !.finalizer = TRUE, !.matching = pass[a].matching,
                             !.loaded = @ \/ pass[a].loaded]

Close(a) ==
  /\ pass[a].pc = "close"
  /\ \/ /\ compliance[a].phase # "absent"
        /\ compliance' = [compliance EXCEPT ![a] = Closed(a)]
        /\ UNCHANGED left
     \/ compliance[a].phase = "absent" /\ UNCHANGED <<compliance, left>>
     \/ Fails("close") /\ UNCHANGED compliance
  /\ pass' = [pass EXCEPT ![a] = NoPass]
  /\ UNCHANGED <<cluster, addonConstraints, worker, owed, collected>>

PassStep(a) ==
  \/ AddFinalizer(a)
  \/ GetMatchingClusters(a)
  \/ CollectLuaValidations(a)
  \/ ClearCompliance(a)
  \/ AnnotateCluster(a)
  \/ Close(a)

-----------------------------------------------------------------------------
UserStep ==
  \/ \E c \in Cluster, labels \in SUBSET Label :
       CreateCluster(c, labels) \/ RelabelCluster(c, labels)
  \/ \E c \in Cluster : DeleteCluster(c) \/ ClusterGone(c)
  \/ \E a \in Compliance, spec \in Specs :
       CreateCompliance(a, spec) \/ EditCompliance(a, spec)
  \/ \E a \in Compliance : DeleteCompliance(a)

Next ==
  \/ UserStep
  \/ Restart
  \/ \E c \in Cluster : ReconcileCluster(c) \/ ClusterStep(c)
  \/ \E a \in Compliance : Reconcile(a) \/ PassStep(a)

Spec == Init /\ [][Next]_vars

\* A running reconciliation goes on, and the first-in first-out work queues,
\* refilled by events, requeues and the periodic resync, starve no object.
Fairness ==
  /\ \A c \in Cluster : WF_vars(ClusterStep(c)) /\ SF_vars(ReconcileCluster(c))
  /\ \A a \in Compliance : WF_vars(PassStep(a)) /\ SF_vars(Reconcile(a))

LiveSpec == Spec /\ Fairness

-----------------------------------------------------------------------------
(* Properties. *)

ClusterObjects ==
  [phase : Phases, uid : Nat, labels : SUBSET Label, annotated : BOOLEAN]
ComplianceObjects ==
  [phase : Phases, uid : Nat, spec : Specs \cup {BlankSpec}, finalizer : BOOLEAN,
   matching : SUBSET Cluster, loaded : BOOLEAN]
Workers ==
  [pc : {"idle", "remove", "list", "add", "count", "annotate"},
   labels : SUBSET Label, found : SUBSET Compliance]
PassStates ==
  [pc : {"idle", "finalize", "match", "collect", "clear", "annotate", "close"},
   spec : Specs \cup {BlankSpec}, matching : SUBSET Cluster, toAnnotate : SUBSET Cluster,
   deleting : BOOLEAN, loaded : BOOLEAN, done : BOOLEAN]

\* Every variable keeps its type: the map's keys are clusters, its values and
\* the work in flight are sets of existing names, the counters never wrap.
TypeOK ==
  /\ cluster \in [Cluster -> ClusterObjects]
  /\ compliance \in [Compliance -> ComplianceObjects]
  /\ addonConstraints \in EntryMaps(Cluster, Compliance)
  /\ worker \in [Cluster -> Workers]
  /\ pass \in [Compliance -> PassStates]
  /\ left \in [Counters -> Nat]
  /\ owed \in [Cluster -> SUBSET Compliance]
  /\ collected \subseteq Compliance

\* The name was never reused: one cluster, resp. compliance, ever had it.
FirstLife(c) == Live(c) /\ cluster[c].uid = 1
Current(a) == compliance[a].phase = "live" /\ compliance[a].uid = 1

\* An annotated cluster waits for nothing: no interleaving of its reconciler
\* with the passes annotates a cluster whose entry is not empty, or fills the
\* entry of a cluster that is annotated already (loader.go:79-83).
AnnotatedEntryEmpty ==
  \A c \in Cluster :
    FirstLife(c) /\ Annotated(c) /\ HasEntryForCluster(addonConstraints, c)
      => addonConstraints[c] = {}

\* A cluster is annotated only after the validations of every compliance that
\* was recorded for it have been collected, unless that compliance is being
\* deleted (loader.go:35-38, 78-83).
LoadedBeforeReady ==
  \A c \in Cluster : FirstLife(c) /\ Annotated(c) =>
    \A a \in owed[c] : Current(a) => a \in collected

\* What a cluster waits for is decided once: until its entry is dropped, it
\* only shrinks (loader.go:69-72, "if an entry is present, no further action").
EntryOnlyShrinks ==
  [][\A c \in DOMAIN addonConstraints \cap DOMAIN addonConstraints' :
       addonConstraints'[c] \subseteq addonConstraints[c]]_vars

\* Seen from the addon controller, the annotation is a gate: the reconcilers,
\* their workers and failures implement ReadyGate, as long as the name of a
\* cluster is not reused.
Gate == INSTANCE ReadyGate
          WITH waiting <- addonConstraints,
               ready <- {c \in Cluster : Live(c) /\ Annotated(c)}
GateSpec == Gate!Spec

\* Every live cluster is annotated in the end, or deleted: nothing it waits for
\* stays in its entry and no annotation is forgotten (addoncompliance_controller
\* .go:673-675).
EventuallyReady ==
  \A c \in Cluster : Live(c) ~> (Annotated(c) \/ ~Live(c))

\* What keeps EventuallyReady in every state: if no Update of a cluster fails,
\* whoever empties an entry, or finds it empty, annotates the cluster.  Nobody
\* looks at an empty entry again (loader.go:181, sveltoscluster_controller.go:104).
WillAnnotate(c) ==
  \/ worker[c].pc \in {"count", "annotate"}
  \/ \E a \in Compliance : pass[a].pc = "annotate" /\ c \in pass[a].toAnnotate
NothingForgotten ==
  "updateCluster" \notin Fallible =>
    \A c \in Cluster :
      FirstLife(c) /\ HasEntryForCluster(addonConstraints, c) /\ addonConstraints[c] = {}
        => Annotated(c) \/ WillAnnotate(c)

\* Once specs, labels and clusters stop changing, the status of each compliance
\* shows its validations and exactly the clusters that match it.
EventuallyPublished ==
  <>[](\A a \in Compliance : compliance[a].phase = "live" =>
         /\ compliance[a].loaded
         /\ compliance[a].matching = MatchingClusters(compliance[a].spec))

\* A deleted compliance disappears: its finalizer is removed in the end, also
\* when annotating a cluster on the way fails (addoncompliance_controller.go:174-181).
DeletedEventuallyGone ==
  \A a \in Compliance :
    compliance[a].phase = "terminating" ~> compliance[a].phase = "absent"

-----------------------------------------------------------------------------
(* Why AnnotatedEntryEmpty and LoadedBeforeReady hold: together with TypeOK *)
(* the parts of Inductive are preserved by every step.                      *)

\* An entry appears only while its reconciler adds it, and stays meanwhile.
WorkerEntry ==
  \A c \in Cluster :
    /\ worker[c].pc \in {"list", "add"} => ~HasEntryForCluster(addonConstraints, c)
    /\ worker[c].pc \in {"count", "annotate"} => HasEntryForCluster(addonConstraints, c)
    /\ worker[c].pc = "annotate" => addonConstraints[c] = {}

\* Nothing knows a cluster that was never created.
UnseenCluster ==
  \A c \in Cluster : cluster[c].uid = 0 =>
    /\ cluster[c].phase = "absent"
    /\ ~HasEntryForCluster(addonConstraints, c)
    /\ worker[c].pc = "idle"
    /\ \A a \in Compliance : c \notin pass[a].toAnnotate

\* An absent cluster has no annotation.
AbsentNotAnnotated ==
  \A c \in Cluster : Annotated(c) => cluster[c].phase # "absent"

\* The entry of a cluster in its first life is not dropped, is not added after
\* the annotation, and is empty once a pass is about to annotate the cluster.
FirstLifeEntry ==
  \A c \in Cluster : FirstLife(c) =>
    /\ worker[c].pc # "remove"
    /\ worker[c].pc \in {"list", "add"} => ~Annotated(c)
    /\ \A a \in Compliance : c \in pass[a].toAnnotate =>
         HasEntryForCluster(addonConstraints, c) /\ addonConstraints[c] = {}

\* Nothing knows a compliance that was never created.
UnseenCompliance ==
  \A a \in Compliance : compliance[a].uid = 0 =>
    /\ compliance[a].phase = "absent"
    /\ pass[a].pc = "idle"
    /\ \A c \in Cluster : a \notin owed[c] /\ a \notin worker[c].found

Settled(a) == Current(a) => a \in collected

\* A pass that strikes its compliance off has collected its validations, or
\* deletes it.
PassSettled ==
  \A a \in Compliance :
    /\ pass[a].pc = "clear" => Settled(a)
    /\ pass[a].pc # "idle" /\ pass[a].deleting => ~Current(a)

\* What a cluster was waiting for and does not wait for any more is settled.
StruckSettled ==
  \A c \in Cluster : HasEntryForCluster(addonConstraints, c) =>
    \A a \in owed[c] \ addonConstraints[c] : Settled(a)

Inductive ==
  /\ WorkerEntry
  /\ UnseenCluster
  /\ AbsentNotAnnotated
  /\ FirstLifeEntry
  /\ AnnotatedEntryEmpty
  /\ UnseenCompliance
  /\ PassSettled
  /\ StruckSettled
  /\ LoadedBeforeReady

-----------------------------------------------------------------------------
(* What comments of the code say and the code does not do. *)

\* No compliance stays in an entry for good (loader.go:73-76).
EntriesDrain ==
  \A c \in Cluster, a \in Compliance :
    (HasEntryForCluster(addonConstraints, c) /\ a \in addonConstraints[c])
      ~> ~(HasEntryForCluster(addonConstraints, c) /\ a \in addonConstraints[c])

\* The compliances that match a new cluster, by getMatchingClusters, are all recorded
\* for it, so that it is not annotated before their validations are loaded
\* (loader.go:35-38, 45-49).
Found(c) == worker[c].pc = "list" /\ worker'[c].pc = "add"
Matching(c) == {a \in Compliance : /\ compliance[a].phase # "absent"
                                   /\ c \in MatchingClusters(compliance[a].spec)}
FindsMatches ==
  [][\A c \in Cluster : Found(c) /\ Live(c) => Matching(c) \subseteq worker'[c].found]_vars
=============================================================================
