CONSTANTS
  Program <- ResampleProgram
  Clock <- ResampleClock
  Rate <- SameRate
  Enabled = {"amod_resample_seps"}
  nMessages = 2
  MaxHops = 3
SPECIFICATION FairSpec
PROPERTIES
  SinksAreFed
