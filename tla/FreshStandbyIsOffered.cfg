SPECIFICATION TrackingSpec
CONSTANTS
  Router = {r1, r2}
  NoRloc = none
  CacheSize = 1
  Wrap = 7
  MaxGap = 2
  MaxLag = 1
  RefreshInterval = 4
PROPERTY FreshStandbyIsOffered
SYMMETRY RouterSymmetry
