------------------------ MODULE MCComplianceMatching ------------------------
(***************************************************************************)
(* A small instance of ComplianceMatching: a cluster that changes, its     *)
(* machine, calls that fail and a process that dies.                       *)
(***************************************************************************)
EXTENDS MCComplianceMaps, ComplianceMatching

ClusterBudget ==
  [Zero EXCEPT !["failures"] = 1, !["restarts"] = 1, !["updates"] = 2, !["machines"] = 1,
               !["clusters"] = 2, !["clusterDeletes"] = 1]
=============================================================================
