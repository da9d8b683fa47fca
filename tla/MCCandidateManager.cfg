SPECIFICATION CandidateSpec
CONSTANTS
  r1 = r1
  r2 = r2
  r3 = r3
  e1 = e1
  e2 = e2
  e3 = e3
  e4 = e4
  Router = {r1, r2, r3}
  NoRloc = none
  Ext = {e1, e2, e3, e4}
  NoExt = noext
  CacheSize = 2
  Announced <- Pairs
  Signals <- HeardSignals
  Wrap = 5
  MaxGap = 2
  RefreshInterval = 3
  Hysteresis = 5
INVARIANTS CandidateTypeOK StandbyIsNotActive OfferedStandbyIsFresh
           StandbyPairIsAuthentic KnownAddressIsUsed
PROPERTY FreshStandbyYieldsToBetter
