\* A cluster named and a GitRepository that changes, fair; everything may happen.
SPECIFICATION LiveSpec
CONSTANTS
  c1 = c1  a1 = a1  r1 = r1  d1 = d1
  Cluster <- OneCluster
  Compliance <- OneCompliance
  Reference <- OneReference
  NoData = NoData
  Data <- OneContent
  Label <- NoLabels
  Specs <- Picks
  ClusterKind <- CAPIClusters
  Walks <- OneOrder
  KindOf <- GitRepositories
  ConcurrentReconciles = 1
  Fallible = {"patchFinalizer", "listClusters", "collect", "updateCluster", "close"}
  Budget <- MapsBudget
\* With every event handled and every budget spent the system is idle.
CHECK_DEADLOCK FALSE
INVARIANTS TypeOK MapsInverse RecordedHeld QuietContent QuietLabels ContentCovered LabelsWritten
PROPERTIES Settles
