\* Both providers; CRDs come and go, calls fail, the process crashes once.
SPECIFICATION LiveSpec
CONSTANTS
  capi = capi  flux = flux
  Provider <- Providers
  Kind <- Kinds
  Group <- Groups
  Checked <- CheckedKinds
  Watches <- WatchedKinds
  Controllers <- WithController
  Budget <- Counts
\* Once everything is watched nothing is left to do.
CHECK_DEADLOCK FALSE
INVARIANTS TypeOK NeverGivesUp InstallNoticed QuietWatched
PROPERTIES EventuallyWatched
