--------------------------- MODULE UartPortProofs ---------------------------
(***************************************************************************)
(* A byte written to an idle transmitter is taken, and every register      *)
(* keeps to its values, whatever the program and the line do, for every    *)
(* set of bytes, with parity and without.                                  *)
(***************************************************************************)
EXTENDS UartPort, TLAPS

(* clr_start_tx is set by the edge that starts a frame and cleared by the    *)
(* next one, which a frame is long enough to reach.                           *)
ResetWithinFrame ==
  /\ tx_in_progress \in BOOLEAN /\ start_tx \in BOOLEAN /\ clr_start_tx \in BOOLEAN
  /\ clr_start_tx => tx_in_progress

LEMMA InitResetWithinFrame == UartInit => ResetWithinFrame
  BY DEF UartInit, ResetWithinFrame

LEMMA ResetWithinFrameInductive ==
  ResetWithinFrame /\ [Next]_uartVars => ResetWithinFrame'
<1> SUFFICES ASSUME ResetWithinFrame, [Next]_uartVars PROVE ResetWithinFrame'
  OBVIOUS
<1> USE DEF ResetWithinFrame
<1>1. CASE TxClock
  BY <1>1 DEF TxClock, TxLoad, TxDone, busVars
<1>2. CASE Line
  BY <1>2 DEF Line, RxStart, RxAbort, RxComplete, busVars, txVars
<1>3. CASE AccessOther \/ AccessRX \/ \E flags \in SUBSET TxFlags : WriteSR(flags)
  <2>1. UNCHANGED <<start_tx, clr_start_tx, tx_in_progress>>
    BY <1>3, Zenon DEF AccessOther, AccessRX, WriteSR, txVars
  <2> QED
    BY <2>1
<1>4. CASE \E byte \in Bytes : WriteTX(byte)
  BY <1>4 DEF WriteTX
<1>5. CASE \E cr \in ControlWords : WriteCR(cr)
  <2> PICK cr \in ControlWords : WriteCR(cr)
    BY <1>5
  <2> QED
    BY DEF WriteCR, txVars
<1>6. CASE UNCHANGED uartVars
  BY <1>6 DEF uartVars
<1> QED
  BY <1>1, <1>2, <1>3, <1>4, <1>5, <1>6 DEF Next, Access

(* The property run uart_port checks: the status register's TX busy flag is  *)
(* enough to know that a write will be taken.                                 *)
THEOREM IdleWriteIsTaken == Spec => IdleWriteTaken
<1>1. ResetWithinFrame /\ [Next]_uartVars
        => [(\E byte \in Bytes : WriteTX(byte)) /\ ~USR_TX_busy => start_tx']_uartVars
  BY DEF ResetWithinFrame, WriteTX, USR_TX_busy
<1> QED
  BY <1>1, InitResetWithinFrame, ResetWithinFrameInductive, PTL DEF Spec, IdleWriteTaken

----------------------------------------------------------------------------
(* The flags apart from the registers that hold bytes and the counter. *)
DataTyped ==
  /\ UART_CR \in ControlWords
  /\ UART_TX \in Bytes /\ UART_RX \in Bytes /\ UART_RX_ltch \in Bytes /\ tx_sr \in Bytes
  /\ tx_bit_cntr \in 0..BIT_COUNTER_START

FlagsTyped ==
  /\ start_tx \in BOOLEAN /\ clr_start_tx \in BOOLEAN
  /\ tx_in_progress \in BOOLEAN /\ rx_in_progress \in BOOLEAN
  /\ USR_UTEIF \in BOOLEAN /\ USR_UTCIF \in BOOLEAN /\ USR_RCIF \in BOOLEAN
  /\ USR_OVF \in BOOLEAN /\ USR_FEF \in BOOLEAN /\ USR_PEF \in BOOLEAN

LEMMA TypedInParts == UartTypeOK <=> DataTyped /\ FlagsTyped
  BY Zenon DEF UartTypeOK, DataTyped, FlagsTyped

LEMMA ResetIsByte == Reset \in Bytes
  BY BytesExist DEF Reset

LEMMA DataTypedInductive ==
  ASSUME DataTyped, [Next]_uartVars
  PROVE  DataTyped'
<1> USE DEF DataTyped, BIT_COUNTER_START
<1>1. CASE TxClock
  <2>1. tx_bit_cntr' \in 0..BIT_COUNTER_START
    BY <1>1 DEF TxClock, LastBit
  <2>2. UNCHANGED <<UART_CR, UART_TX, UART_RX, UART_RX_ltch>> /\ tx_sr' \in {UART_TX, tx_sr}
    BY <1>1 DEF TxClock, busVars, rxVars
  <2> QED BY <2>1, <2>2
<1>2. CASE Line
  BY <1>2 DEF Line, RxStart, RxAbort, RxComplete, busVars, txVars
<1>3. CASE AccessOther \/ AccessRX \/ \E flags \in SUBSET TxFlags : WriteSR(flags)
  BY <1>3 DEF AccessOther, AccessRX, WriteSR, Clear, txVars
<1>4. CASE \E byte \in Bytes : WriteTX(byte)
  BY <1>4 DEF WriteTX, Clear
<1>5. CASE \E cr \in ControlWords : WriteCR(cr)
  BY <1>5, ResetIsByte DEF WriteCR, txVars
<1>6. CASE UNCHANGED uartVars
  BY <1>6 DEF uartVars
<1> QED
  BY <1>1, <1>2, <1>3, <1>4, <1>5, <1>6 DEF Next, Access

LEMMA FlagsTypedInductive ==
  ASSUME FlagsTyped, [Next]_uartVars
  PROVE  FlagsTyped'
<1> USE DEF FlagsTyped
<1>1. CASE TxClock
  <2>1. /\ start_tx' = (start_tx /\ ~TxLoad) /\ clr_start_tx' = TxLoad
        /\ tx_in_progress' = ~TxDone
        /\ USR_UTEIF' = ((USR_UTEIF \/ TxLoad) /\ ~clr_UTEIF)
        /\ USR_UTCIF' = ((USR_UTCIF \/ TxDone) /\ ~clr_UTCIF)
    BY <1>1 DEF TxClock
  <2>2. TxLoad \in BOOLEAN /\ TxDone \in BOOLEAN
    BY DEF TxLoad, TxDone
  <2>3. /\ start_tx' \in BOOLEAN /\ clr_start_tx' \in BOOLEAN
        /\ tx_in_progress' \in BOOLEAN
        /\ USR_UTEIF' \in BOOLEAN /\ USR_UTCIF' \in BOOLEAN
    BY <2>1, <2>2
  <2>4. UNCHANGED <<rx_in_progress, USR_RCIF, USR_OVF, USR_FEF, USR_PEF>>
    BY <1>1 DEF TxClock, rxVars
  <2> QED BY <2>3, <2>4
<1>2. CASE Line
  BY <1>2 DEF Line, RxStart, RxAbort, RxComplete, busVars, txVars
<1>3. CASE AccessOther \/ AccessRX \/ \E flags \in SUBSET TxFlags : WriteSR(flags)
  BY <1>3 DEF AccessOther, AccessRX, WriteSR, Clear, KeepFlags, txVars
<1>4. CASE \E byte \in Bytes : WriteTX(byte)
  BY <1>4 DEF WriteTX, Clear, KeepFlags
<1>5. CASE \E cr \in ControlWords : WriteCR(cr)
  BY <1>5 DEF WriteCR, txVars
<1>6. CASE UNCHANGED uartVars
  BY <1>6 DEF uartVars
<1> QED
  BY <1>1, <1>2, <1>3, <1>4, <1>5, <1>6 DEF Next, Access

(* Type correctness: in particular tx_bit_cntr, which the hardware would let     *)
(* wrap around, is never decremented below zero.                                 *)
THEOREM PortIsTyped == Spec => []UartTypeOK
<1>1. UartInit => DataTyped /\ FlagsTyped
  <2> SUFFICES ASSUME UartInit PROVE DataTyped /\ FlagsTyped
    OBVIOUS
  <2>1. DataTyped
    BY ResetIsByte DEF UartInit, DataTyped, ControlWords, BIT_COUNTER_START
  <2>2. FlagsTyped
    BY Zenon DEF UartInit, FlagsTyped
  <2> QED BY <2>1, <2>2
<1>2. (DataTyped /\ FlagsTyped) /\ [Next]_uartVars => (DataTyped /\ FlagsTyped)'
  BY DataTypedInductive, FlagsTypedInductive
<1> QED
  BY <1>1, <1>2, TypedInParts, PTL DEF Spec

=============================================================================
