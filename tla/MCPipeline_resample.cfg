CONSTANTS
  Program <- ResampleProgram
  Clock <- ResampleClock
  Rate <- DownUp
  Enabled <- BothResamplers
  nMessages = 2
  MaxHops = 8
SPECIFICATION Spec
INVARIANTS
  ResamplerEndsOnlyAtEnd
  ResamplerConverts
