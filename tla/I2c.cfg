\* The I2C master, its driver, a slave and another master. It stops when the calls
\* are used up.
SPECIFICATION Spec
CONSTANTS
  BITS = 2
  I2C_TIMEOUT = 1
  MaxBytes = 3
  MaxCalls = 4
  MaxOthers = 1
INVARIANTS
  I2cTypeOK
  NothingRepeated
  AnswerIsTrue
PROPERTIES
  CallsReturn
  StopIsDone
CHECK_DEADLOCK FALSE
