-------------------------- MODULE MCComplianceMaps --------------------------
(***************************************************************************)
(* Small instances of ComplianceMaps, one per question.                    *)
(***************************************************************************)
EXTENDS ComplianceMaps, TLC

CONSTANTS c1, a1, r1, d1

OneCluster == {c1}
OneCompliance == {a1}
NoReference == {}
OneReference == {r1}
NoLabels == {}
Env == {"env"}

References(rs) == [selector |-> {}, clusterRefs |-> {}, refs |-> rs]
Selects(labels) == [selector |-> labels, clusterRefs |-> {}, refs |-> {}]
Picks == {References({}), References({r1}),
          [selector |-> {}, clusterRefs |-> {c1}, refs |-> {r1}]}
SelectorsOnly == {Selects({"env"})}
AllOrNothing == {BlankSpec, [selector |-> {"env"}, clusterRefs |-> {}, refs |-> {r1}]}

OneContent == {d1}

SveltosClusters == [c \in Cluster |-> "SveltosCluster"]
CAPIClusters == [c \in Cluster |-> "Cluster"]
ConfigMaps == [r \in Reference |-> "ConfigMap"]
GitRepositories == [r \in Reference |-> "GitRepository"]
OCIRepositories == [r \in Reference |-> "OCIRepository"]
OneOrder == [r \in Reference |-> 1]

Zero == [counter \in Counters |-> 0]
OneCreation == [Zero EXCEPT !["clusters"] = 1]
MapsBudget ==
  [Zero EXCEPT !["failures"] = 1, !["restarts"] = 1, !["changes"] = 1, !["edits"] = 1,
               !["complianceDeletes"] = 1]
OneChange == [Zero EXCEPT !["changes"] = 1]
=============================================================================
