\* Two control threads set gains, whole and by stage, and stop; the radio may fall silent, lag or hand over nothing.
CONSTANTS
  c1 = c1
  c2 = c2
  Buffers = 1
  BufferLen = 2
  Lens = {0, 2}
  MaxTransfers = 1
  Payloads <- MCPayloads
  Controllers = {c1, c2}
  Operations = {"gains", "gain"}
  Values = {0, 1}
  GainChoices <- MCGainChoices
  MaxPosts = 2
  MaxFaults = 0
  Clips = {FALSE}
  CallbackLag = 1
SPECIFICATION FairSpec
INVARIANTS RadioIsAsRequested
PROPERTIES PostedIsApplied StopEnds
CHECK_DEADLOCK FALSE
