SPECIFICATION WorkSpec
CONSTANTS
  Wrap = 8
  MaxGap = 2
  MaxLag = 1
  ScanInterval = 2
  SearchInterval = 3
  PublishInterval = 4
  Verbose = TRUE
  Compared = {state, standby}
  Volatile = {age}
  Value = {u, v}
INVARIANTS WorkTypeOK PublicationCurrent ScanKept SearchRetried
PROPERTY SteadyCadence
