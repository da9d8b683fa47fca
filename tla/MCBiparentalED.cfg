SPECIFICATION SystemSpec
CONSTANTS
  Router = {r1, r2}
  NoRloc = none
  Wrap = 6
  CounterWrap = 1
  MaxGap = 1
  HoldDown = 5
  EligibleDelay = 1
  StabilizeTime = 2
  PreferredTimeout = 2
  QuietCap = 5
  ParentInfoFails = FALSE
SYMMETRY RouterSymmetry
INVARIANTS SystemTypeOK DetachesBounded
PROPERTIES DetachRespectsHoldDown SuccessWasOnTarget SystemFollowsPolicy
