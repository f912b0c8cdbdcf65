SPECIFICATION Spec
CONSTANTS
  None = None
  Slots = 2
  SlotSamples = 2
  Retention = 3
  VerifySlots = 4
  MaxAppend = 2
  MaxGap = 0
  MaxClip = 2
  Faults = {"lost"}
  MaxIndex = 6
  MaxRuns = 2
CHECK_DEADLOCK FALSE
INVARIANT FloorWithinLog
