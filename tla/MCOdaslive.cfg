CONSTANTS
  Configs <- MCConfigs
  MaxReads = 2
SPECIFICATION MCSpec
INVARIANTS
  TypesOK
  ProcessInBounds
  HeapBalanced
  EndpointsServe
  StreamDelivered
  SourceMemoryIsOwn
\* the program ends
CHECK_DEADLOCK FALSE
