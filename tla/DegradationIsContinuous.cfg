SPECIFICATION HealthSpec
CONSTANTS
  Parent = {p1}
  Wrap = 8
  MaxGap = 1
  HardTimeout = 3
  PersistTime = 3
  RxAge <- RxAges
INVARIANT DegradationIsContinuous
