\* One cluster, two compliances; everything but edits may happen.
SPECIFICATION Spec
CONSTANTS
  c1 = c1  a1 = a1  a2 = a2  sveltos = sveltos
  Cluster <- OneCluster
  Compliance <- TwoCompliances
  Label <- Env
  Specs <- BySelector
  KindOf <- OneKind
  ConcurrentReconciles = 2
  Fallible = {"listCompliances", "patchFinalizer", "listClusters", "collect", "updateCluster", "close"}
  Budget <- AllButEdits
  MaxUid = 1
\* With every object created and every budget spent the system may be idle.
CHECK_DEADLOCK FALSE
SYMMETRY Symmetry
INVARIANTS TypeOK AnnotatedEntryEmpty LoadedBeforeReady
PROPERTIES EntryOnlyShrinks GateSpec
