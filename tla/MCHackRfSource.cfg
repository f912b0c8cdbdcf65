\* Two changes of rate, one device error, blocks that clip, drops, transfers that are cut, and one that may wait for its callback.
CONSTANTS
  c1 = c1
  c2 = c2
  Buffers = 1
  BufferLen = 2
  Lens = {3}
  MaxTransfers = 3
  Payloads <- MCPayloads
  Controllers = {c1}
  Operations = {"rate"}
  Values = {0, 1}
  GainChoices <- MCGainChoices
  MaxPosts = 2
  MaxFaults = 1
  Clips = {FALSE, TRUE}
  CallbackLag = 1
SPECIFICATION Spec
PROPERTIES MixedOnlyIfHeldBack GapsAreExact ChangesAreFlagged
CHECK_DEADLOCK FALSE
