# Verification of the addon compliance controller

The controller loads the validations of `AddonCompliance` objects and tells the
addon controller, by an annotation on each cluster, when a new cluster may get
addons. This directory holds TLA+ models of it, TLC runs and TLAPS proofs.
Paths are relative to the repository; `loader.go` etc. are in `controllers/`.

## Inventory

| Component | State | Operations | Hard parts |
|---|---|---|---|
| Manager (`loader.go`) | `addonConstraints`: cluster -> compliances it waits for, under `muMap` | AddClusterEntry, RemoveClusterEntry, HasEntryForCluster, GetNumberOfAddonCompliance, RemoveAddonCompliance | shared by all reconcilers, lost on restart, keyed by name |
| SveltosCluster and Cluster reconcilers | none | Reconcile: drop the entry of a deleted cluster; record a new one and annotate it if it waits for nothing | check, list, add and count are separate steps |
| AddonCompliance reconciler (`addoncompliance_controller.go`) | six maps under `PolicyMux` (one write is not) | reconcileNormal, reconcileDelete | concurrent workers, failure at every API call, status patched last |
| Event handlers (`addoncompliance_transformations.go`) | the same maps | requeue the compliances a changed cluster, machine or reference concerns | race with the passes that maintain the maps |
| Predicates (`addoncompliance_predicates.go`) | none | filter events | paused clusters, changes that are no event |
| Collection of validations (`utils.go`, `collect*`) | temporary directories; the keys of what was read | read ConfigMaps, Secrets, Flux archives | missing sources, calls failing in the middle, order of a map's walk, shared keys |
| Scope (`pkg/scope`) | the copy of the object a pass works on | PatchObject, Close, UpdateLabels | one update is two patches, either may fail or meet another incarnation |
| Watchers (`main.go`) | two goroutines, two watchers of CRDs | look for a CRD, start watches when it exists, end the process when CRDs change | retries, CRDs installed at any moment |
| Start-up, manifests, test helpers | none | wiring | none |

Interaction. A cluster reconciler and the passes meet in the manager's map and
in the cluster objects of the API server. A pass records references, clusters
and selector in the reconciler's maps; the handlers, called by informers for
what the predicates let pass, look changes up there and put compliances in the
work queue; a pass's own patches are events for the same queue. Whether there
are events of Clusters, Machines and Flux sources at all depends on the
watchers. The addon controller sees the annotation and the status only.

What makes it correct: a cluster is annotated only when nothing it waits for is
left, and after the validations of all it waited for were loaded; every live
cluster is annotated in the end; no change of a reference or of a cluster is
lost; a status is never a mixture of passes and leaves no files behind; both
directions of the maps agree; a deleted compliance leaves nothing behind; what
is installed is watched. The hazards of the code are listed, each at its line,
in PROJECT.json.

## Modules

* **Manager** - the map and its methods as operators. A method body is one
  critical section of `muMap`, so an operator is used within one step.
* **ReadyGate** - the abstract promise: a tracked cluster waits for a set that
  only shrinks, and opens only when the set is empty. No workers, calls or
  failures.
* **ComplianceLoader** - the gate in detail. `worker[c]` is a reconciliation of
  a cluster (`ReconcileCluster`, `ListCompliances`, `AddEntry`,
  `CountCompliances`, `AnnotateNewCluster`, `RemoveEntry`); `pass[a]` is one of
  a compliance (`Reconcile`, `AddFinalizer`, `GetMatchingClusters`,
  `CollectLuaValidations`, `ClearCompliance`, `AnnotateCluster`, `Close`).
  Each step is one API call or one critical section, so goroutines interleave
  wherever the code can be preempted; each API call has a failing alternative
  that follows the error path of the code.
  `owed` and `collected` are history variables the properties need.
* **Predicates** - each filter as an operator on two versions of an object.
* **ComplianceMaps** - the reconciler's maps, handlers and queue; extends
  Predicates. Users change clusters, machines and references; a change is an
  event if its predicate lets it pass, an update of a cluster is handled with
  the old and with the new labels, and after a restart everything that exists is
  listed as created. A critical section of `PolicyMux` is one step; a handler is
  two, and holds the mutex (`handler.pc # "idle"`) in between. A pass at `"write"`
  is in the middle of the unprotected write of `AddonCompliances`. If a race
  ends the process, that is `Restart`. `PatchMetadata` and `PatchStatus` are the
  two patches of `Close`; a patch that changes the object requeues it. The field
  `tracked` of a pass is history: whether the selector was recorded when the
  clusters were listed. It outlives the pass.
* **ComplianceMatching** - no state of its own: what ComplianceMaps promises of
  clusters, and under which conditions.
* **Collection** - the `collect` step of a pass in detail: one action per kind
  of source and call (`ReadObject`, `SkipSource`, `GetSource`, `MkdirTemp`,
  `Fetch`, `Walk`), the map of sections it fills, the temporary directories.
  `found` and `seen` are history variables: the sections that were read of each
  reference and the files they are from; `saved` and `shown` are those of the pass
  that wrote the status.
* **AtomicCollection** - what Collection implements: a pass reads each reference in
  one step and replaces what is shown at once. ComplianceMaps collects in this way.
* **Watchers** - `capiWatchers` and `fluxWatchers` (`CheckInstalled`, `Watch`,
  `SetUpController`), the handlers of CRD events, and the process: started,
  running, told to stop, crashed.
* **MCComplianceLoader**, **MCComplianceMaps**, **MCComplianceMatching**,
  **MCCollection**, **MCWatchers** - small instances for TLC.
* **ComplianceLoaderProofs**, **ComplianceMapsProofs**, **ComplianceEventsProofs**
  (what the events of ComplianceMaps achieve), **ComplianceMatchingProofs** (what a
  status tells of clusters), **CollectionProofs**, **WatchersProofs** - theorems.

Operators called a mutant of another are plausible bugs; substituted for the
original, each must break the property it is listed with in PROJECT.json.

## Abstractions

* Objects are names; a selector is a set of required labels, so
  `Matches` is inclusion and the empty selector matches all, as
  `labels.Parse("")` does. Selectors that do not parse are left out.
* Reads go to an up-to-date API server. The cached client may lag behind; a lag
  of one kind of object is an edit that comes later, a lag between two
  kinds is not covered.
* `annotateCluster` reads and updates under optimistic concurrency and retries
  on conflict: it is one step. A conflict that outlasts the retries is a failed
  `updateCluster`.
* A patch has no precondition on the object's incarnation, so `Close` may meet
  another object of the same name. The patch helper sends a difference to the
  copy read first; since the passes of one compliance are serial, nobody else
  writes the status and the difference amounts to the whole status.
* The status is reduced to the clusters it lists and to its content:
  in ComplianceLoader whether it was loaded, in ComplianceMaps the data of each
  reference and which of its `Walks` orders it was read in, in Collection the
  sections by key.
* `MatchingClusters` models the library's `clusterproxy.GetMatchingClusters`
  as used: clusters being deleted are skipped. `DeleteCluster` sets the deletion
  timestamp, which is no event, `ClusterGone` is the end of the finalizers and of the
  object, which is one. A cluster without finalizers takes the two steps in a row.
* A Secret has the type that is supported or another one, for good; reading one of
  another type is an error, as is reading a GitRepository that is not there.
* In ComplianceMaps a missing key and an empty set are the same, events of one
  object keep their order, and the periodic resync is left out: the properties
  are about what events alone achieve. `annotateClusters` either succeeds or
  fails there; ComplianceLoader leaves out the maps. They share no variable but
  the object.
* In Collection a key `kind:namespace/name-n` is a triple, which loses nothing:
  a kind has no colon and the number is what follows the last dash.
  A file is a directory and a name, a section an atom or `Blank`; the digest of an
  artifact identifies it, so `Fetch` gets what `getSource` saw, or fails. Errors of
  `RemoveAll` are ignored by the code and here. A crash takes `/tmp` along, as
  the container's does. Any change of a source requeues the compliance; that the
  maps see to that is shown by ComplianceMaps.
* In Watchers time is left out (a second between retries; after twenty of them
  the count starts again), as are informers: one lists the existing CRDs first,
  then tells every change. A second SIGTERM ends the process at once, as
  `SetupSignalHandler` does.

## Runs

Every counter is bounded by `Budget`; `MaxUid` bounds how often a name is used.
One failure is enough to reach each error path at each point, since after it the
code keeps no count of errors; two compliances are enough for "the last one
empties the set" and for two workers; one restart reaches every state with empty
maps and old objects. `maps` and `matching` have one compliance, since a critical
section changes only what is recorded for its own compliance; the proofs cover any
number. `core` has two that nothing tells apart, hence its symmetry; its
properties are safety properties. Deadlock is not checked: with all budgets spent
and every event handled the controller is idle, as it should be.

| Run | Instance | Shows |
|---|---|---|
| core | 1 cluster, 2 compliances, 2 workers; a failure, a restart, deletions of both kinds | TypeOK, AnnotatedEntryEmpty, LoadedBeforeReady, EntryOnlyShrinks; ComplianceLoader implements ReadyGate (GateSpec) |
| ready | 1 cluster, 2 compliances; failures but of the cluster's Update, a restart | NothingForgotten, EventuallyReady |
| published | 1 cluster, 1 compliance, names used twice; one of everything | EventuallyPublished, DeletedEventuallyGone, Inductive |
| maps | 1 cluster, named by some specs, 1 compliance, 1 GitRepository, fair; any call fails once, an edit, a change, a deletion, a restart | TypeOK, MapsInverse, RecordedHeld, QuietContent, ContentCovered, QuietLabels, LabelsWritten, Settles |
| matching | 1 Cluster and its machine, 1 compliance; two creations and a deletion of the cluster, two updates (labels, paused), a failure, a restart | TrackedCovered, QuietTracked, SecondPasses, UndisturbedMatching, LabelsFresh, LabelsTracked |
| collect | a ConfigMap and a Secret of one name, two paths of one GitRepository, another one, an OCIRepository; a change, a failed call, a failed fetch, a crash | TypeOK, StatusWhole, NoLeak, QuietUpToDate, EventuallyCollected; Collection implements AtomicCollection (AtomicSpec) |
| watchers | both providers and a CRD of neither; two failures, two CRD changes, a crash, any CRDs installed at first | TypeOK, NeverGivesUp, InstallNoticed, QuietWatched, EventuallyWatched |

The properties called `Quiet...` speak of states in which nothing is left to do:
what they show is that events alone suffice.
For references of kinds whose content is read they always do, because a pass
records what it references before it reads it. For clusters the code has the
opposite order: a label change between listing the clusters and recording the
selector is looked up in a map that does not know the selector, and is lost. What
repairs the first pass is the event of the finalizer patch, which makes a second
one follow. Hence `QuietMatching`, that each status at rest shows the clusters
that match, fails after an edit, after a restart, and after failures to add the
finalizer or to list clusters; what the code does promise is:

* `QuietTracked`: it holds of each status whose clusters were listed when the
  selector was recorded, whatever happened, with the two exceptions below;
* `UndisturbedMatching`: it holds of all as long as none of these happened and no
  compliance was deleted, since then every listing that counts is such a one
  (`SecondPasses`).

Two changes of a cluster are no event. The creation of a paused cluster is dropped by
the predicates, so a status may miss a cluster that is paused. Setting the
deletion timestamp changes nothing the predicates look at, while listing skips the
cluster from then on, so a status may show a cluster that is being deleted and has the
labels selected (`Lingers`): until it is relabelled or gone, which are events, or a pass
happens for another reason. `QuietTracked` says that a status at rest differs in no other
way from the clusters that match, `TrackedCovered` the same of every state, and
`QuietMatching` speaks of the clusters that are neither paused nor being deleted.

`matching` allows failures and a restart; edits and deletions of compliances are left
to the theorems. With two updates a cluster can be created paused, relabelled and
unpaused, the only way to change its labels unseen, or be relabelled while it is being
deleted; with two creations it comes back under its name. It has no references, and
`maps` has no labels, as neither looks at the other's. `maps` has a GitRepository because
that is the kind whose absence fails a pass, with one content in one order, as `Settles`
needs (see below); the theorems hold for any number of references of each kind that is read.
`Settles` leaves out that a reference of a live compliance stays unreadable, since its
passes are then retried for ever.

`collect` has two references that share their keys, one of each failing case of
each source, and files with more than one section, with a blank one and in
two directories; one change is enough to meet a pass at every point.
`EventuallyCollected` speaks of references that can be read in the end and share
no keys. `EventuallyWatched` assumes of each provider that it ends up installed or
absent: with half of its CRDs the process starts again and again.

Fairness.

* ComplianceLoader: a running reconciliation goes on (weak fairness of each
  worker and pass): goroutines are scheduled and API calls time out.
  `ReconcileCluster` and `Reconcile` are strongly fair per object, since a free
  worker alternates with a busy one: the work queues are first in first out, and
  objects enter them by events, by the requeue after an error and, every ten
  minutes by default (`main.go:203`), by the resync.
* ComplianceMaps: events are delivered (weak fairness of `HandlerStep`), a pass
  goes on, and `Reconcile` is strongly fair per compliance that is in the queue.
* Collection: a worker takes what is queued and goes on (weak fairness of `PassStep`).
* Watchers: the container is restarted, the manager starts and stops, each goroutine
  and each CRD handler runs (weak fairness of each).

No fairness is assumed of users, failures or restarts, whose number is bounded.

Disagreements of code and comments, each a run that TLC ends with a
counterexample:

| Run | What happens |
|---|---|
| forgotten | one failed Update of a cluster: its set is empty, nobody looks at it again, it is never annotated |
| deadname | a compliance deleted between listing and recording stays in the set for ever |
| matches | addClusterEntry and getMatchingClusters disagree on `clusterRefs`: a compliance that names a cluster its selector does not match is not waited for by that cluster |
| race | `AddonCompliances` is written without the mutex |
| oci | changes of an OCIRepository find no consumer: the keys differ |

The models also show these, for which no run is kept:

* A cluster deleted and created again under its name before its reconciler saw it
  gone finds the entry of its predecessor; if that is empty, nobody annotates it.
* A pass annotates by name after it released the manager's mutex, so a cluster
  created again meanwhile may be annotated while its own set is not empty.
* A compliance without selector, which only names its clusters, is waited for by every
  other new cluster too: addClusterEntry takes the empty selector to match all
  (`sveltoscluster_controller.go:121`), getMatchingClusters to match none.
* A cluster that is being deleted stays in a status at rest, as said above.
* Clusters are annotated before the status patch that publishes the validations
  (`loader.go:37-38` says only after all are loaded).
* A pass does not fail on a matching cluster without an entry
  (`loader.go:50-51`).
* `cleanMaps` leaves the selector of a deleted compliance in `AddonCompliances`,
  so cluster events requeue a name that is gone (`addoncompliance_transformations.go:192`).
* `collectContent` walks a Go map (`utils.go:165`): content with several orders
  may change the status at each pass, and each change wakes the reconciler again.
  `Settles` holds for one order only.
* Two references to paths of one GitRepository have the same keys; the sections
  of the later one replace those of the earlier.
* A deleted ConfigMap clears its validations; a deleted GitRepository keeps them and
  fails every pass.
* Each failed fetch leaves a temporary directory, so a source that cannot be fetched
  leaves one per retry.
* A watch that fails after another was started starts that one twice
  (`main.go:251-272`).
* `UpdateLabels` replaces the labels users gave a compliance.

## Proofs

`ComplianceLoaderProofs` proves, for all sets of clusters and compliances, specs,
numbers of workers, failing calls and budgets (assumptions:
`SpecsAssumption`, `FiniteAssumption`, `ConstantsAssumption`):

* `TypeCorrect`: `Spec => []TypeOK`.
* `InductiveHolds`: `Spec => []Inductive`.
* `AnnotatedEntryEmptyHolds`, `LoadedBeforeReadyHolds`, from it.
* `EntryOnlyShrinksHolds`: an entry is added only where there is none, which is
  `WorkerEntry`.
* `NothingForgottenHolds`, if no Update of a cluster fails: a cluster in its first
  life whose entry is empty is annotated, or about to be by its worker or by a
  pass. It is the safety half of `EventuallyReady`, and what `forgotten` breaks.
* `LoaderImplementsGate`: with `MaxUid = 1`, every step is a step of ReadyGate
  or a stutter.

Neither safety property is inductive. A worker between `ReconcileCluster` and
`AddEntry` could fill the entry of a cluster a pass has just annotated;
`WorkerEntry` says there is no entry yet, so no pass has struck anything off,
and `FirstLifeEntry` that a cluster some pass is to annotate has an entry, which
is empty. Names used again break both, so these parts
speak of a cluster's first life, and `UnseenCluster` and `UnseenCompliance`
carry the fact that nothing knows a name before its first life starts. For
LoadedBeforeReady, `StruckSettled` says that what was recorded and is no longer
waited for was collected or is being deleted, and `PassSettled` that a pass
about to strike its compliance off collected it. One lemma per
reconciler shows that its steps keep the invariant.

`ComplianceMapsProofs` proves, from `MapsAssumption` alone:

* `MapsTypeCorrect`, `MapsInverseHolds`: both are inductive (the latter with
  types). The removals of one pass are computed from what the previous pass of
  the same compliance recorded, so a pass never touches another's records.
* `RecordedHeldHolds`: what the maps record is held by a finalizer. `HeldOrClean`
  adds where a pass is between the two: one that is past its finalizer is
  held, one that deletes works on a terminating object and has nothing recorded
  once it has called cleanMaps. It speaks of one compliance, so it is proved
  for the one whose pass moves and framed for the others.
* `DeletedForgottenHolds`: a compliance that is gone is in no map, from the two.

`ComplianceEventsProofs` proves, from the same assumption:

* `ContentCoveredHolds`, `QuietContentHolds`, if no reference is an OCIRepository or a
  Bucket (`ReadKinds`): their content is never read, and the keys of the former
  differ. `QuietContent` is not inductive: it says nothing while anything is
  under way. `ContentCovered` is what holds then: of each reference, the
  status, or what the pass has read so far, is current, or the compliance is
  requeued or about to be, or there is an event that will find it recorded. The
  last is where the order of the code matters: by the time a pass reads, its
  references are recorded (`RecordedAre`), and an event is looked up with the key
  they were recorded with.
* `LabelsTrackedHolds`, `LabelsFreshHolds`: the last event of a cluster's queue, or else
  the last one handled, tells the labels of the cluster unless it is
  paused. That unpausing passes the predicate is what keeps this.

`ComplianceMatchingProofs` proves, from the same assumption:

* `LabelsWrittenHolds`, `QuietLabelsHolds`: labels and status of a compliance agree
  or a pass is to come. A pass is done only if both patches succeeded, and a patch
  that changed the object has requeued it.
* `TrackedCoveredHolds`, `QuietTrackedHolds`: of a listing that is tracked, each
  cluster is listed if and only if it matches, or a pass is to come, or an event
  whose handler will find the selector. An update is handled with
  the old and with the new labels, so whichever way a cluster crosses the selector one
  of the two calls finds it; a cluster that is gone is found by its last labels. The
  changes that are no event are excepted: `Unnoticed`, the creation of a paused cluster,
  and `Lingers`, a cluster listed before that is being deleted. `ChangeTold` shows
  that the exceptions end with an event: a cluster of `Lingers` keeps the selected labels,
  so that its relabelling and its end are both looked up with labels that match.
* `SecondPassesHolds`, `UndisturbedMatchingHolds`. What is spent is never given
  back (`LeftBounded`), so that a state in which a counter is unused was reached
  by steps that did not use it. Along those, `SecondPass` follows a compliance from
  its creation: without a finalizer it is queued or at its first pass; with one, its
  selector is recorded, or the pass at work is followed by another.

`CollectionProofs` proves, from `CollectionAssumption`: `CollectionTypeCorrect`,
`StatusWholeHolds`, `NoLeakHolds`, `CollectionIsAtomic`, `QuietUpToDateHolds`. The
invariant adds `Read` (what a pass has in hand holds exactly the references it has read so
far, each a walk over its files), `Fetched` (an artifact in hand is one some source had)
and `Bounds`. `AddedHolds` is the argument for shared keys: a later reference replaces
exactly the keys it has. `CollectionIsAtomic` is the refinement of AtomicCollection: its
`View` counts a GitRepository as read from the moment its artifact is looked up, because
the digest binds the pass to that artifact; so `GetSource` is the step that reads it
(`ReadAtOnce`), the directory, the fetch and the walk are steps that change nothing there
(`FetchUnseen`), and every failure and crash gives the pass up (`GiveUpStep`).
`QuietUpToDate` then comes from AtomicCollection (`FreshStep`): as long as the compliance
is not queued again, what was read is what the references have now. `AsOften` turns walks into counts: a
walk is an injection of the positions into the policies, of which there are as many,
hence a bijection, also between the positions and the occurrences of one section. `OwnNames`
is the same between the positions and the keys of a reference that shares its name with
no other.

`WatchersProofs` proves, from `WatchersAssumption`: `WatchersTypeCorrect`,
`NeverGivesUpHolds`, `InstallNoticedHolds`, `QuietWatchedHolds`. `Progress` says that the
kinds before the one a goroutine is at are watched, `Noticed` that a watcher of CRDs has an
event for each CRD of its group unless the process is about to end. From the two, a
goroutine that ended without watching left a watcher of CRDs, and if that has nothing to
handle there is nothing to watch.

Model-checked only: liveness (`EventuallyReady`, `EventuallyPublished`,
`DeletedEventuallyGone`, `Settles`, `EventuallyCollected`, `EventuallyWatched`), out of
the prover's reach. Every invariant and every action property of the runs that pass is
a theorem.

## Not modelled, and the plan

Flags, metrics, health endpoints, manifests and test helpers have no behaviour
to model. Archives, the regular expression that splits sections, the TLS client and the
patch helper are library code, modelled by what the callers rely on. Selectors that
do not parse are left out: the admission schema does not exclude them, and the code goes on with a
nil selector, which the handlers dereference.

The plan: a composition of ComplianceLoader and ComplianceMaps, in which the queue of
ComplianceMaps justifies the fairness ComplianceLoader assumes.
