------------------------------ MODULE Manager ------------------------------
(***************************************************************************)
(* The manager singleton of controllers/loader.go.  Its only state is the  *)
(* map addonConstraints: for each cluster it tracks, the compliances that  *)
(* still have to be loaded before the cluster may be annotated.  A key is  *)
(* present as long as the cluster is tracked, with an empty set once every *)
(* compliance has been loaded.  Each method body runs under muMap, so each *)
(* operator below is one atomic step of the modules that use it.           *)
(***************************************************************************)

\* The map of a freshly started process (initializeManager).
NoEntries == [c \in {} |-> {}]

\* Every value the map can take.
EntryMaps(Clusters, Compliances) ==
  UNION {[D -> SUBSET Compliances] : D \in SUBSET Clusters}

AddClusterEntry(m, c, s) ==
  [d \in DOMAIN m \cup {c} |-> IF d = c THEN s ELSE m[d]]

RemoveClusterEntry(m, c) == [d \in DOMAIN m \ {c} |-> m[d]]

HasEntryForCluster(m, c) == c \in DOMAIN m

\* Mutant of AwaitsNone: off by one.
AwaitsAtMostOne(m, c) == HasEntryForCluster(m, c) => \A x, y \in m[c] : x = y

\* GetNumberOfAddonCompliance(c) = 0: a cluster without an entry counts as 0.
AwaitsNone(m, c) == HasEntryForCluster(m, c) => m[c] = {}

\* RemoveAddonCompliance erases a from every set ...
RemoveAddonCompliance(m, a) == [d \in DOMAIN m |-> m[d] \ {a}]

\* Mutants of ClustersToAnnotate: the length is not tested; the values of the
\* map are returned for its keys.
ClustersWaitingFor(m, a) == {d \in DOMAIN m : a \in m[d]}
EntriesToAnnotate(m, a) ==
  {m[d] : d \in {e \in DOMAIN m : m[e] # {} /\ m[e] \ {a} = {}}}

\* ... and returns the clusters whose set this very call made empty.
ClustersToAnnotate(m, a) ==
  {d \in DOMAIN m : m[d] # {} /\ m[d] \ {a} = {}}
============================================================================
