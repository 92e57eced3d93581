\* A byte is reported as sent on the flag of the one before it.
SPECIFICATION Spec
CONSTANTS
  BITS = 2
  I2C_TIMEOUT = 1
  MaxBytes = 3
  MaxCalls = 4
  MaxOthers = 0
INVARIANT GoodMeansAcknowledged
CHECK_DEADLOCK FALSE
