\* References of every kind; sources change, calls fail, the process crashes.
SPECIFICATION LiveSpec
CONSTANTS
  x = x  y = y  blank = blank
  Name = {x, y}
  Section = {"p", "q"}
  Blank = blank
  Root = ""
  References <- RefSeq
  Versions <- VersionsOf
  Budget <- Counts
\* Once everything is collected nothing is left to do.
CHECK_DEADLOCK FALSE
INVARIANTS TypeOK StatusWhole NoLeak QuietUpToDate
PROPERTIES AtomicSpec EventuallyCollected
