\* Two records and no spare provenance slot: two pushes lap the records and reuse the slots.
SPECIFICATION Spec
CONSTANTS
  SampleCap = 2
  BlockCap = 2
  TableSlack = 0
  MaxIndex = 5
  BlockLens = {0, 1, 2, 3}
  Provenances = {p1, p2, p3}
  Readers = {r1}
SYMMETRY ProvenanceSymmetry
INVARIANTS
  RingInv
  NoTornRecord
  CopiedSamplesExact
  HandleIsTheBlocks
  PushNeverWaits
PROPERTIES
  ImplementsRingLog
  MetaIsAbstractMeta
