SPECIFICATION Spec
CONSTANTS
  Candles <- MCCandles
  RunConfigs <- MCRunConfigs
  Horizon = 4
  Lots = 2
  PartLots = 1
  Fee = 1
  Slip = 1
  StopDist = 2
  TargetDist = 5
  TrailDist = 1
  MaxHold = 2
  ExpireBars = 2
  SlotBars = 2
  Levels = {3, 5}
INVARIANTS
  TypeOK
  SingleExposure
  ExitsMatchPosition
  OrdersOnTime
  WindowRespected
PROPERTIES
  PositionPersists
