\* One cluster, one compliance, names used twice, fair; everything may happen.
SPECIFICATION LiveSpec
CONSTANTS
  c1 = c1  a1 = a1  a2 = a2  sveltos = sveltos
  Cluster <- OneCluster
  Compliance <- OneCompliance
  Label <- Env
  Specs <- BySelector
  KindOf <- OneKind
  ConcurrentReconciles = 1
  Fallible = {"listCompliances", "patchFinalizer", "listClusters", "collect", "updateCluster", "close"}
  Budget <- OneOfEach
  MaxUid = 2
\* With every object created and every budget spent the system may be idle.
CHECK_DEADLOCK FALSE
INVARIANTS Inductive
PROPERTIES EventuallyPublished DeletedEventuallyGone
