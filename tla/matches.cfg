\* A compliance with a selector also names the cluster; nothing fails.
SPECIFICATION Spec
CONSTANTS
  c1 = c1  a1 = a1  a2 = a2  sveltos = sveltos
  Cluster <- OneCluster
  Compliance <- OneCompliance
  Label <- Env
  Specs <- BySelectorAndReference
  KindOf <- OneKind
  ConcurrentReconciles = 1
  Fallible = {}
  Budget <- NoBudget
  MaxUid = 1
\* With every object created and every budget spent the system may be idle.
CHECK_DEADLOCK FALSE
PROPERTIES FindsMatches
