SPECIFICATION CallSpec
CONSTANTS
  Router = {r1, r2}
  NoRloc = none
  Wrap = 5
  CounterWrap = 2
  MaxGap = 2
  HoldDown = 4
  EligibleDelay = 2
  StabilizeTime = 2
  PreferredTimeout = 2
  QuietCap = 4
SYMMETRY RouterSymmetry
INVARIANTS TypeOK HoldDownRespected AttemptsAccounted TargetOnlyInFlight
           NoDeadlineMissed
PROPERTIES PolicySpec DecisionJustified
