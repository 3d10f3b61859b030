\* A cluster that changes around passes that fail; specs stay.
SPECIFICATION Spec
CONSTANTS
  c1 = c1  a1 = a1  r1 = r1  d1 = d1
  Cluster <- OneCluster
  Compliance <- OneCompliance
  Reference <- NoReference
  NoData = NoData
  Data <- OneContent
  Label <- Env
  Specs <- SelectorsOnly
  ClusterKind <- CAPIClusters
  Walks <- OneOrder
  KindOf <- ConfigMaps
  ConcurrentReconciles = 1
  Fallible = {"patchFinalizer", "listClusters", "close"}
  Budget <- ClusterBudget
\* With every event handled and every budget spent the system is idle.
CHECK_DEADLOCK FALSE
INVARIANTS QuietTracked TrackedCovered SecondPasses UndisturbedMatching LabelsFresh LabelsTracked
