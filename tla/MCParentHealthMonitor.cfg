SPECIFICATION HealthSpec
CONSTANTS
  Parent = {p1, p2}
  Wrap = 6
  MaxGap = 2
  HardTimeout = 3
  PersistTime = 2
  RxAge <- RxAges
INVARIANTS HealthTypeOK DegradedMeansPersistence DegradationRecognised
           HardFailureIsReal
