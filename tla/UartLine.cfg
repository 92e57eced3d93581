\* Seven of sixteen samples wrong, one by noise and six by drift.
SPECIFICATION Spec
CONSTANTS
  Bytes <- SomeBytes
  Noise = 1
  Drift = 6
INVARIANTS
  FramesArrive
  ParityCatchesOneBit
