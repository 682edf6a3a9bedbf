SPECIFICATION MCSpec
CONSTANTS
  None = None
  Requests <- MCRequests
  Quotes <- MCQuotes
  Candles <- MCCandles
  Duration = 3
  Horizon = 9
  MaxStep = 3
  MaxLag = 1
  MaxQuotes = 2
  MaxQuoteAge = 0
  MaxSignalAge = 2
  Spread = 1
  Slip = 1
  Lots = 1
  EntryFee = 1
  ExitFee = 2
  StopDist = 4
  TargetDist = 4
  Levels = {6}
INVARIANTS
  DecisionAccounted
  AccountReconciles
PROPERTIES
  CoverageIsFinal
  NoLookAhead
  OneAuthority
CHECK_DEADLOCK FALSE
