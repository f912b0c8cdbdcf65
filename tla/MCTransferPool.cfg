\* Three buffers and five transfers: every queue slot is reused, the pool runs dry and refills.
CONSTANTS
  Buffers = 3
  BufferLen = 2
  Lens = {1, 3}
  MaxTransfers = 5
SPECIFICATION FairSpec
INVARIANTS OneHolder TakenIsIntact NoLostWakeup
PROPERTIES AcceptedIsTaken ImplementsTransferQueue
CHECK_DEADLOCK FALSE
