\* An OCIRepository changes.
SPECIFICATION Spec
CONSTANTS
  c1 = c1  a1 = a1  r1 = r1  d1 = d1
  Cluster <- OneCluster
  Compliance <- OneCompliance
  Reference <- OneReference
  NoData = NoData
  Data <- OneContent
  Label <- Env
  Specs <- AllOrNothing
  ClusterKind <- CAPIClusters
  Walks <- OneOrder
  KindOf <- OCIRepositories
  ConcurrentReconciles = 1
  Fallible = {}
  Budget <- OneChange
\* With every event handled and every budget spent the system is idle.
CHECK_DEADLOCK FALSE
PROPERTIES ConsumersRequeued
