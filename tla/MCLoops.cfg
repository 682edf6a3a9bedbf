SPECIFICATION MCSpec
CONSTANTS
  LoopRuns <- MCLoopRuns
  Sides <- MCSides
  Price = 20
  Offsets <- MCOffsets
  QuoteSpread = 1
  Grid = 2
  Lags = {0, 1}
  LastTime = 4
  LastSeq = 1
  Expires = 4
  MaxPredecessorAge = 2
  MaxObservationAge = 1
  SubmissionLatency = 1
  Busy = {TRUE, FALSE}
  Stops <- MCStops
  ScaleDistance = 1
  LadderPivots <- MCPivots
  ActivationR = 1
  AmendLatency = 1
  Fee = 1
CHECK_DEADLOCK FALSE
INVARIANTS
  DailyInputsCausal
  HonestExits
  RowsAccountForPositions
  ExecutableAfterSubmission
  HeldInsideBarriers
  LocksExitFirst
PROPERTY
  PositionKept
