\* Any driver and any line, with parity.
SPECIFICATION Spec
CONSTANTS
  Bytes = {x}
  UCR_PEN = TRUE
INVARIANTS
  UartTypeOK
PROPERTIES
  IdleWriteTaken
