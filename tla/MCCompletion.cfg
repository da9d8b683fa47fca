SPECIFICATION SystemSpec
CONSTANTS
  Router = {r1, r2}
  NoRloc = none
  Wrap = 3
  CounterWrap = 1
  MaxGap = 1
  HoldDown = 2
  EligibleDelay = 1
  StabilizeTime = 1
  PreferredTimeout = 2
  QuietCap = 2
  ParentInfoFails = FALSE
PROPERTIES FailoverCompletesAtLast NoStateOverstays DecisionIsCarriedOut
