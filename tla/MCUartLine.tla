----------------------------- MODULE MCUartLine -----------------------------
EXTENDS UartLine
\* One byte of each parity, with every pair of neighbouring bits.
SomeBytes == {<<1, 1, 0, 1, 0, 0, 0, 1>>, <<0, 0, 1, 0, 1, 1, 1, 1>>}
=============================================================================
