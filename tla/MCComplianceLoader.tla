------------------------ MODULE MCComplianceLoader ------------------------
(***************************************************************************)
(* Small instances of ComplianceLoader, one per question.                  *)
(***************************************************************************)
EXTENDS ComplianceLoader, TLC

CONSTANTS c1, a1, a2, sveltos

OneCluster == {c1}
OneCompliance == {a1}
TwoCompliances == {a1, a2}
Env == {"env"}

\* A compliance picks its clusters by label, or by label and by name.
BySelector == {[selector |-> {"env"}, clusterRefs |-> {}]}
BySelectorAndReference ==
  {[selector |-> {"env"}, clusterRefs |-> {c1}]}

OneKind == [c \in Cluster |-> sveltos]
Symmetry == Permutations(Compliance)

Counts(failures, restarts, edits, clusterDeletes, complianceDeletes) ==
  [failures |-> failures, restarts |-> restarts, edits |-> edits,
   clusterDeletes |-> clusterDeletes, complianceDeletes |-> complianceDeletes]
NoBudget == Counts(0, 0, 0, 0, 0)
OneFailure == Counts(1, 0, 0, 0, 0)
OneComplianceDelete == Counts(0, 0, 0, 0, 1)
AllButEdits == Counts(1, 1, 0, 1, 1)
FailuresAndRestarts == Counts(1, 1, 0, 1, 0)
OneOfEach == Counts(1, 1, 1, 1, 1)
=============================================================================
