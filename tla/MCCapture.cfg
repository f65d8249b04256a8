SPECIFICATION Spec
INVARIANTS
  TypesOK
  SharingIsSafe
  DevicesAreSafe
PROPERTIES
  RingsAreQueues
  CaptureEnds
\* the recorder and the workers may stop
CHECK_DEADLOCK FALSE
