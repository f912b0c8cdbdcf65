\* Room for one consumer, so that two subscribers race for it.
CONSTANTS
  Consumers = {c1, c2}
  Recorders = {c2}
  MaxConsumers = 1
  QueueUnits = 6
  Chunk = 2
  MaxSeq <- BoundsBySubscribers
SPECIFICATION FairSpec
INVARIANTS StreamIsComplete AtMostMaxConsumers SleepersHaveNothingToDo BooksOnceTold
PROPERTIES FinishClosesEveryone
CHECK_DEADLOCK FALSE
