SPECIFICATION Spec
CONSTANTS
  None = None
  Slots = 2
  SlotSamples = 2
  Retention = 3
  VerifySlots = 4
  MaxAppend = 2
  MaxGap = 1
  MaxClip = 2
  Faults = {"write", "fsync", "journal", "space", "power"}
  MaxIndex = 5
  MaxRuns = 2
CHECK_DEADLOCK FALSE
INVARIANT IndexIsExact
INVARIANT PositionsArePartitioned
INVARIANT FloorWithinLog
INVARIANT ClipExactUnlessRolledBack
PROPERTY ImplementsCaptureLog
