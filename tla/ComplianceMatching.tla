-------------------------- MODULE ComplianceMatching --------------------------
(***************************************************************************)
(* When ComplianceMaps loses no change of a cluster.  A pass lists the     *)
(* clusters before it records the selector, so that a change in between is *)
(* found by nobody unless an earlier pass recorded the same selector.  The *)
(* history that a pass keeps, tracked, tells whether one had.              *)
(***************************************************************************)
EXTENDS ComplianceMaps

-----------------------------------------------------------------------------
(* Properties. *)

\* An event is to come whose handler will find the compliance.
WillMatch(selector, c) ==
  \E i \in DOMAIN clusterEvents[c] : Matches(selector, clusterEvents[c][i])

\* These are the clusters that match, or else a pass is to come.  Two changes go
\* unnoticed: the creation of a paused cluster, until it is unpaused, and the deletion
\* timestamp of a cluster listed before, until it is relabelled or gone.
Unnoticed(c, matching, spec) ==
  cluster[c].paused /\ c \in MatchingClusters(spec) \ (matching \cup spec.clusterRefs)
Lingers(c, matching, spec) ==
  /\ cluster[c].present /\ cluster[c].terminating
  /\ c \in matching /\ Matches(spec.selector, cluster[c].labels)
MatchingCovered(matching, spec, a) ==
  \A c \in Cluster :
    \/ c \in matching <=> c \in MatchingClusters(spec)
    \/ Unnoticed(c, matching, spec)
    \/ Lingers(c, matching, spec)
    \/ Pending(a)
    \/ WillMatch(spec.selector, c)

\* A pass whose listing is tracked, and the status it leaves, miss no change.
Listed(a) ==
  \/ pass[a].pc \in {"references", "clusters", "write", "collect", "annotate"}
  \/ pass[a].done
TrackedPass(a) ==
  /\ compliance[a].phase = "live" /\ pass[a].pc # "idle" => Pending(a) \/ OnCurrentSpec(a)
  /\ pass[a].done => pass[a].pc \in {"close", "status"}
  /\ ~pass[a].deleting /\ Listed(a) /\ pass[a].tracked =>
       /\ SelectorRecorded(a, pass[a].spec)
       /\ MatchingCovered(pass[a].matching, pass[a].spec, a)
TrackedStatus(a) ==
  compliance[a].phase = "live" /\ pass[a].pc = "idle" /\ pass[a].tracked =>
    \/ Pending(a)
    \/ /\ SelectorRecorded(a, compliance[a].spec)
       /\ MatchingCovered(compliance[a].matching, compliance[a].spec, a)
TrackedCovered ==
  /\ MuxFree => handler.requests = {}
  /\ \A a \in Compliance : TrackedPass(a) /\ TrackedStatus(a)

\* When everything is quiet, the status of each compliance whose selector was
\* recorded before its clusters were listed shows the clusters that match.  It may
\* miss only clusters that are paused, and beyond them show only clusters that are
\* being deleted and have the labels selected; none that is gone, and none that was
\* relabelled out of the selector (reconcileNormal, lines 201-214, and
\* addoncompliance_predicates.go:258-303, 339-386).
QuietTracked ==
  Quiet => \A a \in Compliance : compliance[a].phase = "live" /\ pass[a].tracked =>
    LET shown == compliance[a].matching
        spec  == compliance[a].spec
    IN  /\ \A c \in shown \ MatchingClusters(spec) : Lingers(c, shown, spec)
        /\ \A c \in MatchingClusters(spec) \ shown : cluster[c].paused

\* Nothing happened yet that separates the first pass of a compliance from its
\* second: no edit, restart or deletion, and no failure to add the finalizer or
\* to list the clusters.
Unused(counter) == left[counter] = Budget[counter]
Undisturbed ==
  /\ Unused("edits") /\ Unused("restarts") /\ Unused("complianceDeletes")
  /\ "patchFinalizer" \in Fallible \/ "listClusters" \in Fallible => Unused("failures")

\* Then every listing that counts is tracked: the patch of the finalizer, which
\* is an event, makes a second pass follow the first (lines 194-199, 452-465),
\* so that no change of a cluster is lost.
SecondPass(a) ==
  LET again == a \in queue
      recorded == SelectorRecorded(a, compliance[a].spec)
  IN  \/ compliance[a].phase = "absent" /\ pass[a].pc = "idle" /\ ~pass[a].deleting
      \/ /\ compliance[a].phase = "live" /\ ~pass[a].deleting
         /\ pass[a].pc # "idle" => pass[a].spec = compliance[a].spec
         /\ \/ ~compliance[a].finalizer /\ pass[a].pc = "finalize"
            \/ ~compliance[a].finalizer /\ pass[a].pc = "idle" /\ again
            \/ compliance[a].finalizer /\ pass[a].pc = "match" /\ (again \/ recorded)
            \/ /\ compliance[a].finalizer
               /\ pass[a].pc \in {"references", "clusters", "write"}
               /\ again \/ pass[a].tracked
            \/ /\ compliance[a].finalizer
               /\ pass[a].pc \in {"collect", "annotate", "close", "status", "idle"}
               /\ recorded
               /\ again \/ pass[a].tracked
SecondPasses == Undisturbed => \A a \in Compliance : SecondPass(a)
UndisturbedMatching == Undisturbed => QuietMatching
=============================================================================
