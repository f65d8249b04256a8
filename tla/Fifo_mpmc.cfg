\* Two producers, two consumers and an observer on two cells.
CONSTANTS
  Producers = {p1, p2}
  Consumers = {c1, c2}
  Observers = {o1}
  Elements = {e1, e2}
  nMaxElements = 2
  NULL = NULL
  Nobody = Nobody
SPECIFICATION Spec
INVARIANTS
  TypeOK
  MutualExclusion
  SemaphoreAccounting
  IndexInBounds
  NoNullMessage
PROPERTIES
  ImplementsQueue
  CountIsExact
