CONSTANTS
  Program <- SssProgram
  Clock <- SssClock
  Rate <- NoRates
  Enabled = {}
  nMessages = 1
  MaxHops = 2
SPECIFICATION Spec
INVARIANTS
  NoTimeStampMismatch
  SinksInOrder
  NothingLeftBehind
