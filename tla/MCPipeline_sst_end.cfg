CONSTANTS
  Program <- SstProgram
  Clock <- SstClock
  Rate <- NoRates
  Enabled = {}
  nMessages = 2
  MaxHops = 1
SPECIFICATION FairSpec
PROPERTIES
  Termination
  SinksAreFed
