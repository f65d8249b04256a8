CONSTANTS
  Program <- SstProgram
  Clock <- SstClock
  Rate <- NoRates
  Enabled = {}
  nMessages = 1
  MaxHops = 2
SPECIFICATION Spec
INVARIANTS
  TypeOK
  MessagesConserved
PROPERTIES
  ImplementsStream
