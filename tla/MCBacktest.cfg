\* Calls of the ordinary backtest, the variants of a grid, and overlapping
\* invocations of forward-prefix.
SPECIFICATION MCSpec
CONSTANTS
  Runs = {r1, r2, r3}
  Paths = {p1, p2}
  None = None
  MaxBars = 2
  MaxCrashes = 1
SYMMETRY MCSymmetry
INVARIANTS
  HonestRunPublished
  ReportReconciles
  AnswerBound
  PublishedComplete
  PrintedIsDurable
  BookedOnce
PROPERTIES
  NeverReplaced
