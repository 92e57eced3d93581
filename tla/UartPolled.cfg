\* Two bytes each way, the sender waits until the program polls again.
SPECIFICATION FairSpec
CONSTANTS
  Bytes = {x, y}
  UCR_PEN = FALSE
  MaxBytes = 2
  Pacing = "polled"
INVARIANTS
  TransmittedInOrder
  ReceivedInOrder
PROPERTY
  PutcReturns
