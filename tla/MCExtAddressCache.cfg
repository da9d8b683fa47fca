SPECIFICATION CacheSpec
CONSTANTS
  Router = {r1, r2, r3, r4}
  NoRloc = none
  Ext = {e1, e2}
  NoExt = noext
  CacheSize = 3
  MaxUpdates = 7
SYMMETRY CacheSymmetry
INVARIANTS CacheTypeOK NeverOutdated NoGapsNoDuplicates
PROPERTY ImplementsLru
