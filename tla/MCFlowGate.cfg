\* Ring of three samples, slack of one: one ordinary length, one longer than the slack, one longer than the ring; gaps.
CONSTANTS
  iq = iq
  detect = detect
  chain = chain
  p1 = p1
  SampleCap = 3
  BlockCap = 3
  MaxIndex = 5
  BlockLens = {1, 2, 4}
  Provenances = {p1}
  AlwaysOn = {iq, detect}
  Early = {iq}
  Chains = {chain}
  Gaps = {0, 2}
SPECIFICATION Spec
INVARIANTS ClaimsAreKept HoldHasACause
PROPERTIES AttachWithinSlackIsKept
CHECK_DEADLOCK FALSE
