CONSTANTS
  BufSize = 12
  Bufs = 3
  BufHead = 6
  EvHead = 1
  VeHead = 2
  FileHead = 2
  MbsHead = 2
  TableHead = 4
  MaxOffset = 22
  Entries = 2
  Setups <- MCSetups
SPECIFICATION SpecTags
INVARIANTS FilesDescribed AllReadBack
PROPERTIES FilesKeepPromise
CHECK_DEADLOCK FALSE
