SPECIFICATION SequentialSpec
CONSTANTS
  Candles <- MCCandles
  Asks <- CoreCalls
  Hold <- MCHold
  Offsets = {0, 2, 4}
  MaxHoles = 2
  Timeframe = 2
  StepTime = 2
  MaxIndex = 10
  Lookback = 3
  SetupCount = 2
  CountdownCount = 3
  FirstRef = 1
  DeferRef = 2
  RecycleAt = 4
  Warmup = 5
  Response = 1
  AtrLength = 2
  Slippage = 1
  RiskUSD = 300
  MaxNotionalUSD = 600
  StartEquity = 1000
  FeePerUnit = 1
  MaxTime = 99
  Digits = 2
  MaxListed = 1
INVARIANTS
  CheckpointUsable
