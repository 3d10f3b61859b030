----------------------------- MODULE ReadyGate -----------------------------
(***************************************************************************)
(* What loader.go promises the addon controller, without workers, API      *)
(* calls or failures: a cluster is opened for addons only while it is      *)
(* tracked and every compliance recorded for it has been loaded.           *)
(***************************************************************************)
EXTENDS Manager

CONSTANTS Cluster, Compliance

VARIABLES
  waiting,  \* tracked cluster -> compliances it still waits for
  ready     \* clusters open for addons

vars == <<waiting, ready>>

Init == waiting = NoEntries /\ ready = {}

\* A cluster is recorded once, before it is open, with any set of compliances.
Track(c, S) ==
  /\ ~HasEntryForCluster(waiting, c)
  /\ c \notin ready
  /\ waiting' = AddClusterEntry(waiting, c, S)
  /\ UNCHANGED ready

\* A compliance has been loaded (or deleted): no cluster waits for it any more.
Load(a) ==
  /\ waiting' = RemoveAddonCompliance(waiting, a)
  /\ UNCHANGED ready

\* The gate: nothing is left to wait for.
Open(c) ==
  /\ HasEntryForCluster(waiting, c)
  /\ waiting[c] = {}
  /\ ready' = ready \cup {c}
  /\ UNCHANGED waiting

\* The cluster is being deleted.
Retire(c) ==
  /\ ready' = ready \ {c}
  /\ UNCHANGED waiting

\* The record of a cluster that is not open is dropped.
Forget(c) ==
  /\ c \notin ready
  /\ waiting' = RemoveClusterEntry(waiting, c)
  /\ UNCHANGED ready

\* The process restarts: records are lost, open clusters stay open.
Lose == waiting' = NoEntries /\ UNCHANGED ready

Next ==
  \/ \E c \in Cluster, S \in SUBSET Compliance : Track(c, S)
  \/ \E a \in Compliance : Load(a)
  \/ \E c \in Cluster : Open(c) \/ Retire(c) \/ Forget(c)
  \/ Lose

Spec == Init /\ [][Next]_vars
============================================================================
