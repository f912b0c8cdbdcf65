\* One change of rate while a filled transfer waits for its callback.
CONSTANTS
  c1 = c1
  c2 = c2
  Buffers = 1
  BufferLen = 2
  Lens = {2}
  MaxTransfers = 2
  Payloads <- MCPayloads
  Controllers = {c1}
  Operations = {"rate"}
  Values = {0, 1}
  GainChoices <- MCGainChoices
  MaxPosts = 1
  MaxFaults = 0
  Clips = {FALSE}
  CallbackLag = 1
SPECIFICATION Spec
INVARIANTS NoBlockMixesSettings
CHECK_DEADLOCK FALSE
