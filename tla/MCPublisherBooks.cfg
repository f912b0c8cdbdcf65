\* Room for one consumer, so that two subscribers race for it.
CONSTANTS
  Consumers = {c1, c2}
  Recorders = {c2}
  MaxConsumers = 1
  QueueUnits = 6
  Chunk = 2
  MaxSeq <- BoundsBySubscribers
SPECIFICATION Spec
INVARIANT BooksBalance
CHECK_DEADLOCK FALSE
