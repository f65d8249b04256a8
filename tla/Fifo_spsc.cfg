\* One producer and one consumer, as on every FIFO of the pipeline, on three cells.
\* The producer may stop pushing for ever, and the consumer then waits for ever.
CONSTANTS
  Producers = {p1}
  Consumers = {c1}
  Observers = {}
  Elements = {e1, e2}
  nMaxElements = 3
  NULL = NULL
  Nobody = Nobody
SPECIFICATION FairSpec
CHECK_DEADLOCK FALSE
PROPERTIES
  CallsReturn
