\* SIGINTs from the first join on, handled in any thread but the source.
CONSTANTS
  Workers <- ThreeWorkers
  SignalTargets = {"main", "acon_hops", "amod_stft", "asnk_pots"}
  SignalFrom <- UntilTheEnd
  MaxSignals = 3
SPECIFICATION FairSpec
INVARIANTS
  OnlyMainIsLate
PROPERTIES
  StopEndsProcess
