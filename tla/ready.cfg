\* One cluster, two compliances, fair; every call but the Update of a cluster may fail.
SPECIFICATION LiveSpec
CONSTANTS
  c1 = c1  a1 = a1  a2 = a2  sveltos = sveltos
  Cluster <- OneCluster
  Compliance <- TwoCompliances
  Label <- Env
  Specs <- BySelector
  KindOf <- OneKind
  ConcurrentReconciles = 1
  Fallible = {"listCompliances", "patchFinalizer", "listClusters", "collect", "close"}
  Budget <- FailuresAndRestarts
  MaxUid = 1
\* With every object created and every budget spent the system may be idle.
CHECK_DEADLOCK FALSE
INVARIANTS NothingForgotten
PROPERTIES EventuallyReady
