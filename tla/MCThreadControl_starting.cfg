\* SIGINTs as soon as the handler is installed, handled in main,
\* which may then block for ever on a mutex of its own.
CONSTANTS
  Workers <- ThreeWorkers
  SignalTargets = {"main"}
  SignalFrom <- FromTheStart
  MaxSignals = 1
SPECIFICATION FairSpec
CHECK_DEADLOCK FALSE
PROPERTIES
  StopEndsProcess
