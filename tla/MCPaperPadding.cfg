SPECIFICATION SourceAlone
CONSTANTS
  Runs <- MCRuns
  Candles <- MCBars
  Bindings <- MCBindings
  Highers <- Rows
  Timeframe = 12
  MaxRecorded = 4
  MaxCorrections = 1
  StartEquity = 100
  Unset = Unset
  MaxLines = 4
CHECK_DEADLOCK FALSE
INVARIANT PaddingIsNotABound
