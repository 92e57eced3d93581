\* Bytes of two bits: every input of seven bytes and every stream of 14 bits, with
\* a dictionary that is full after three strings, or cleared early as soon as the
\* output exceeds the input, and room for three bytes or all.
SPECIFICATION Spec
CONSTANTS
  BYTE_BITS = 2
  LZW_MAX_BITS = 3
  SLACK = 0
  MaxInput = 7
  MaxStream = 14
  Rooms = {4, 40}
INVARIANTS LzwTypeOK RoundTrip WithinRoom TablesDescend
CHECK_DEADLOCK FALSE
