------------------------------ MODULE Watchers ------------------------------
(***************************************************************************)
(* The part of main.go that waits for Cluster API and Flux.  Their kinds   *)
(* can be watched only once their CRDs are installed, so a goroutine per   *)
(* provider looks for one CRD: if it is there, the kinds are watched; if   *)
(* not, all CRDs are, and a change of one of the provider's group makes    *)
(* the process end, to start again and look again.                         *)
(*                                                                         *)
(* Time is left out: whether a failed look at the CRD is repeated after a  *)
(* second or, after twenty failures, at once.                              *)
(***************************************************************************)
EXTENDS Integers, Sequences

CONSTANTS
  Provider, Kind,  \* capiWatchers and fluxWatchers; the kinds that CRDs define
  Group,           \* provider -> the kinds of its API group
  Checked,         \* provider -> the kind whose CRD tells that it is installed
  Watches,         \* provider -> the kinds to be watched, in order
  Controllers,     \* the providers that come with a controller of their own
  Budget           \* how often a call fails, the process dies, a CRD changes

Counters == {"failures", "crashes", "changes"}

ASSUME WatchersAssumption ==
  /\ Group \in [Provider -> SUBSET Kind]
  /\ Checked \in [Provider -> Kind]
  /\ Watches \in [Provider -> Seq(Kind)]
  /\ \A p \in Provider : Checked[p] \in Group[p] /\ Watches[p] # <<>>
  /\ Controllers \subseteq Provider
  /\ Budget \in [Counters -> Nat]

VARIABLES
  installed,   \* the kinds whose CRDs are installed
  process,     \* of the controller
  pc, next,    \* per provider, where its goroutine is; the kind it watches next
  watches,     \* per kind, how many watches were started
  crdWatcher,  \* per provider, its watcher of CRDs
  crdEvents,   \* per provider, the CRDs whose change it has yet to handle
  left         \* what remains of Budget

goroutines == <<pc, next, watches>>
crds == <<crdWatcher, crdEvents>>
vars == <<installed, process, goroutines, crds, left>>

Spend(counter) == left[counter] > 0 /\ left' = [left EXCEPT ![counter] = @ - 1]

Init ==
  /\ installed \in SUBSET Kind
  /\ process = "down"
  /\ pc = [p \in Provider |-> "off"]
  /\ next = [p \in Provider |-> 1]
  /\ watches = [k \in Kind |-> 0]
  /\ crdWatcher = [p \in Provider |-> "off"]
  /\ crdEvents = [p \in Provider |-> {}]
  /\ left = Budget

-----------------------------------------------------------------------------
(* CRDs.  An informer tells every change to the watchers that run.           *)

CRDChanges(k, now) ==
  /\ Spend("changes")
  /\ installed' = now
  /\ crdEvents' = [p \in Provider |->
       IF crdWatcher[p] = "on" THEN crdEvents[p] \cup {k} ELSE crdEvents[p]]
  /\ UNCHANGED <<process, goroutines, crdWatcher>>

InstallCRD(k) == k \notin installed /\ CRDChanges(k, installed \cup {k})
RemoveCRD(k) == k \in installed /\ CRDChanges(k, installed \ {k})

-----------------------------------------------------------------------------
(* The process.  What it knows is lost when it ends.                         *)

ProcessIs(state, goroutine) ==
  /\ process' = state
  /\ pc' = [p \in Provider |-> goroutine]
  /\ next' = [p \in Provider |-> 1]
  /\ watches' = [k \in Kind |-> 0]
  /\ crdWatcher' = [p \in Provider |-> "off"]
  /\ crdEvents' = [p \in Provider |-> {}]

\* main starts the goroutines before the manager.
Start ==
  /\ process = "down"
  /\ ProcessIs("starting", "check")
  /\ UNCHANGED <<installed, left>>

\* mgr.Start: from now on the client's cache answers.
CacheStarts ==
  /\ process = "starting"
  /\ process' = "running"
  /\ UNCHANGED <<installed, goroutines, crds, left>>

\* mgr.Start returns after the signal.
Stop ==
  /\ process = "terminating"
  /\ ProcessIs("down", "off")
  /\ UNCHANGED <<installed, left>>

Crash ==
  /\ process # "down"
  /\ Spend("crashes")
  /\ ProcessIs("down", "off")
  /\ UNCHANGED installed

-----------------------------------------------------------------------------
(* capiWatchers and fluxWatchers.                                            *)

\* Mutant of CheckInstalled: nobody waits for what is absent.
CheckInstalledOnce(p) ==
  /\ pc[p] = "check"
  /\ process \in {"running", "terminating"}
  /\ pc' = [pc EXCEPT ![p] = IF Checked[p] \in installed THEN "watch" ELSE "done"]
  /\ next' = [next EXCEPT ![p] = 1]
  /\ UNCHANGED <<installed, process, watches, crds, left>>

\* isCAPIInstalled, isFluxInstalled.  Until the cache is started they fail.
CheckInstalled(p) ==
  /\ pc[p] = "check"
  /\ process \in {"running", "terminating"}
  /\ \/ /\ Checked[p] \in installed
        /\ pc' = [pc EXCEPT ![p] = "watch"]
        /\ UNCHANGED <<crdWatcher, left>>
     \/ /\ Checked[p] \notin installed
        /\ pc' = [pc EXCEPT ![p] = "done"]
        /\ crdWatcher' = [crdWatcher EXCEPT ![p] = "starting"]
        /\ UNCHANGED left
     \/ /\ Spend("failures")
        /\ UNCHANGED <<pc, crdWatcher>>
  /\ next' = [next EXCEPT ![p] = 1]
  /\ UNCHANGED <<installed, process, watches, crdEvents>>

Last(p) == next[p] = Len(Watches[p])
Watched(p) == IF p \in Controllers THEN "controller" ELSE "done"

\* Mutants of Watch: the goroutine ends when a watch fails, and does not end.
WatchOrGiveUp(p) ==
  /\ pc[p] = "watch"
  /\ \/ /\ watches' = [watches EXCEPT ![Watches[p][next[p]]] = @ + 1]
        /\ IF Last(p) THEN pc' = [pc EXCEPT ![p] = Watched(p)] /\ UNCHANGED next
           ELSE next' = [next EXCEPT ![p] = @ + 1] /\ UNCHANGED pc
        /\ UNCHANGED left
     \/ /\ Spend("failures")
        /\ pc' = [pc EXCEPT ![p] = "done"]
        /\ UNCHANGED <<next, watches>>
  /\ UNCHANGED <<installed, process, crds>>
WatchPastTheEnd(p) ==
  /\ pc[p] = "watch"
  /\ watches' = [watches EXCEPT ![Watches[p][next[p]]] = @ + 1]
  /\ next' = [next EXCEPT ![p] = @ + 1]
  /\ UNCHANGED <<installed, process, pc, crds, left>>

\* WatchForCAPI, WatchForFlux: after an error everything is done again, the
\* watches already started included.
Watch(p) ==
  /\ pc[p] = "watch"
  /\ \/ /\ watches' = [watches EXCEPT ![Watches[p][next[p]]] = @ + 1]
        /\ IF Last(p) THEN pc' = [pc EXCEPT ![p] = Watched(p)] /\ UNCHANGED next
           ELSE next' = [next EXCEPT ![p] = @ + 1] /\ UNCHANGED pc
        /\ UNCHANGED left
     \/ /\ Spend("failures")
        /\ pc' = [pc EXCEPT ![p] = "check"]
        /\ UNCHANGED <<next, watches>>
  /\ UNCHANGED <<installed, process, crds>>

\* ClusterReconciler.SetupWithManager; the process exits if it fails.
SetUpController(p) ==
  /\ pc[p] = "controller"
  /\ \/ /\ pc' = [pc EXCEPT ![p] = "done"]
        /\ UNCHANGED <<process, next, watches, crds, left>>
     \/ Spend("failures") /\ ProcessIs("down", "off")
  /\ UNCHANGED installed

-----------------------------------------------------------------------------
(* The watcher of CRDs.                                                      *)

\* crd.WatchCustomResourceDefinition: the first events are the CRDs that exist.
ListCRDs(p) ==
  /\ crdWatcher[p] = "starting"
  /\ crdWatcher' = [crdWatcher EXCEPT ![p] = "on"]
  /\ crdEvents' = [crdEvents EXCEPT ![p] = installed]
  /\ UNCHANGED <<installed, process, goroutines, left>>

\* Mutant of Concerns: the group of the other provider.
ConcernsOthers(p, k) == k \notin Group[p]
Concerns(p, k) == k \in Group[p]

\* capiCRDHandler, fluxCRDHandler.  The first SIGTERM asks the manager to stop,
\* a second one ends the process at once.
HandleCRD(p, k) ==
  /\ k \in crdEvents[p]
  /\ IF Concerns(p, k) /\ process = "terminating" THEN ProcessIs("down", "off")
     ELSE /\ process' = IF Concerns(p, k) THEN "terminating" ELSE process
          /\ crdEvents' = [crdEvents EXCEPT ![p] = @ \ {k}]
          /\ UNCHANGED <<goroutines, crdWatcher>>
  /\ UNCHANGED <<installed, left>>

-----------------------------------------------------------------------------
Goroutine(p) ==
  \/ CheckInstalled(p) \/ Watch(p) \/ SetUpController(p)
  \/ ListCRDs(p)

Next ==
  \/ \E k \in Kind : InstallCRD(k) \/ RemoveCRD(k)
  \/ Start \/ CacheStarts \/ Stop \/ Crash
  \/ \E p \in Provider : Goroutine(p) \/ \E k \in Kind : HandleCRD(p, k)

Spec == Init /\ [][Next]_vars

\* The process is restarted, its manager starts and stops, its goroutines run.
Fairness ==
  /\ WF_vars(Start) /\ WF_vars(CacheStarts) /\ WF_vars(Stop)
  /\ \A p \in Provider : /\ WF_vars(Goroutine(p))
                         /\ \A k \in Kind : WF_vars(HandleCRD(p, k))

LiveSpec == Spec /\ Fairness

-----------------------------------------------------------------------------
(* Properties. *)

\* Every variable keeps its type; a goroutine that watches has a kind to watch.
TypeOK ==
  /\ installed \subseteq Kind
  /\ process \in {"down", "starting", "running", "terminating"}
  /\ pc \in [Provider -> {"off", "check", "watch", "controller", "done"}]
  /\ next \in [Provider -> Nat \ {0}]
  /\ watches \in [Kind -> Nat]
  /\ crdWatcher \in [Provider -> {"off", "starting", "on"}]
  /\ crdEvents \in [Provider -> SUBSET Kind]
  /\ left \in [Counters -> Nat]
  /\ \A p \in Provider : next[p] \leq Len(Watches[p])

\* A goroutine ends only when all kinds of its provider are watched or a watcher
\* of CRDs was started, whatever failed and whichever watches were repeated
\* (main.go:251-272, 305-333).
IsWatched(p) == \A i \in 1..Len(Watches[p]) : watches[Watches[p][i]] > 0
NeverGivesUp ==
  \A p \in Provider : pc[p] = "done" => IsWatched(p) \/ crdWatcher[p] # "off"

\* No installation is missed, also one between the look at the CRD and the start
\* of the watcher of CRDs: a watcher that runs has an event for each CRD of its
\* group, or else the process has been told to end (main.go:220-227, 275-282).
InstallNoticed ==
  \A p \in Provider : crdWatcher[p] = "on" =>
    \A k \in Group[p] \cap installed : k \in crdEvents[p] \/ process = "terminating"

\* Once a process runs, its goroutines have ended and nothing waits to be handled,
\* each provider is watched or has no CRD at all, so nothing but a change of its
\* CRDs is needed to have it watched (main.go:220-227, 244-262, 275-282, 300-318).
QuietWatched ==
  process = "running" =>
    \A p \in Provider :
      pc[p] = "done" /\ crdWatcher[p] # "starting" /\ crdEvents[p] = {} =>
        IsWatched(p) \/ Group[p] \cap installed = {}

\* If each provider is finally installed or absent, the process comes to stay
\* and watches the kinds of each that is installed.  A provider of which only
\* other CRDs are left makes it start again and again.
Settled(p) == Checked[p] \in installed \/ Group[p] \cap installed = {}
EventuallyWatched ==
  (\A p \in Provider : <>[]Settled(p)) =>
    /\ <>[](process = "running")
    /\ \A p \in Provider : <>[](Checked[p] \in installed => pc[p] = "done" /\ IsWatched(p))
=============================================================================
