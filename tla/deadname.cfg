\* A compliance is deleted; nothing fails.
SPECIFICATION LiveSpec
CONSTANTS
  c1 = c1  a1 = a1  a2 = a2  sveltos = sveltos
  Cluster <- OneCluster
  Compliance <- OneCompliance
  Label <- Env
  Specs <- BySelector
  KindOf <- OneKind
  ConcurrentReconciles = 1
  Fallible = {}
  Budget <- OneComplianceDelete
  MaxUid = 1
\* With every object created and every budget spent the system may be idle.
CHECK_DEADLOCK FALSE
PROPERTIES EntriesDrain
