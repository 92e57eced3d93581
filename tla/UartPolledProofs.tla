-------------------------- MODULE UartPolledProofs --------------------------
(***************************************************************************)
(* The bytes that uartx_putc sends and uartx_getc returns, for every set   *)
(* of bytes, any number of them, with parity and without; and that the     *)
(* driver is one of the programs of UartPort.                              *)
(***************************************************************************)
EXTENDS UartPolled, SequenceTheorems, TLAPS

Pcs == InitSteps \union {"idle", "putc_poll", "putc_write", "getc_poll", "getc_read"}

TransmitterTyped ==
  /\ pc \in Pcs
  /\ tx_in_progress \in BOOLEAN /\ start_tx \in BOOLEAN /\ clr_start_tx \in BOOLEAN
  /\ UART_TX \in Bytes /\ tx_sr \in Bytes
  /\ put \in Seq(Bytes) /\ sent \in Seq(Bytes)

(* The driver writes a byte only after it has seen the transmitter idle, and *)
(* nobody else starts it: what the status register showed is still true when  *)
(* the write arrives.  So no byte waits while another is sent, and no write   *)
(* falls into the bit in which start_tx is held in reset.                     *)
IdleSeenIsIdle ==
  /\ clr_start_tx => tx_in_progress
  /\ tx_in_progress => ~start_tx
  /\ pc = "putc_poll" /\ bus /\ ~UART_SR_ltch.TX_busy => ~tx_in_progress /\ ~start_tx
  /\ pc = "putc_write" => ~tx_in_progress /\ ~start_tx
  /\ pc = "idle" => ~bus

TransmitInv == TransmitterTyped /\ IdleSeenIsIdle /\ TransmittedInOrder

----------------------------------------------------------------------------
LEMMA InitTransmitInv == Init => TransmitInv
<1> SUFFICES ASSUME Init PROVE TransmitInv
  OBVIOUS
<1>1. Reset \in Bytes
  BY BytesExist DEF Reset
<1>2. TransmitterTyped
  <2>1. pc \in Pcs /\ put \in Seq(Bytes) /\ sent \in Seq(Bytes)
    BY DEF Init, Pcs, InitSteps
  <2>2. UART_TX \in Bytes /\ tx_sr \in Bytes
    BY <1>1 DEF Init, UartInit
  <2> QED
    BY <2>1, <2>2 DEF Init, UartInit, TransmitterTyped
<1>3. IdleSeenIsIdle
  BY DEF Init, UartInit, IdleSeenIsIdle
<1>4. TransmittedInOrder
  BY DEF Init, UartInit, TransmittedInOrder, InShiftRegister, InTransmitRegister
<1> QED
  BY <1>2, <1>3, <1>4 DEF TransmitInv

----------------------------------------------------------------------------
(* A step that leaves the transmitter, its register and the bytes alone      *)
(* keeps their order.                                                         *)
LEMMA OrderKept ==
  ASSUME TransmittedInOrder,
         UNCHANGED <<put, sent, tx_in_progress, start_tx, UART_TX, tx_sr>>
  PROVE  TransmittedInOrder'
  BY DEF TransmittedInOrder, InShiftRegister, InTransmitRegister

(* A write to the idle transmitter.                                           *)
LEMMA PutcWriteKeepsOrder ==
  ASSUME TransmitInv, pc = "putc_write", NEW c \in Bytes, WriteTX(c), put' = Append(put, c),
         sent' = sent
  PROVE  start_tx' = TRUE /\ UART_TX' = c /\ TransmittedInOrder'
<1>1. ~tx_in_progress /\ ~start_tx /\ ~clr_start_tx
  BY DEF TransmitInv, IdleSeenIsIdle
<1>2. start_tx' = TRUE /\ UART_TX' = c /\ tx_in_progress' = tx_in_progress /\ tx_sr' = tx_sr
  BY <1>1 DEF WriteTX
<1>3. sent \in Seq(Bytes) /\ put = (sent \o <<>>) \o <<>>
  BY <1>1 DEF TransmitInv, TransmitterTyped, TransmittedInOrder, InShiftRegister,
              InTransmitRegister
<1>4. put = sent
  BY <1>3, ConcatEmptySeq
<1>5. put' = (sent \o <<>>) \o <<c>>
  BY <1>3, <1>4, ConcatEmptySeq, AppendIsConcat
<1> QED
  BY <1>1, <1>2, <1>5 DEF TransmittedInOrder, InShiftRegister, InTransmitRegister

(* An edge of clk_tx: it loads a byte, ends a frame, or goes on with it.     *)
LEMMA ClockKeepsOrder ==
  ASSUME TransmitInv, TxClock, put' = put,
         sent' = IF FrameEnds THEN Append(sent, tx_sr) ELSE sent
  PROVE  TransmittedInOrder'
<1> USE DEF TransmitInv
<1>0. UART_TX' = UART_TX
  BY DEF TxClock, busVars
<1>1. CASE ~tx_in_progress
  <2>1. start_tx /\ TxLoad /\ ~TxDone
    BY <1>1 DEF TxClock, TxLoad, TxDone
  <2>2. tx_in_progress' = TRUE /\ start_tx' = FALSE /\ tx_sr' = UART_TX /\ sent' = sent
    BY <1>1, <2>1 DEF TxClock, FrameEnds
  <2>3. put = (sent \o <<>>) \o <<UART_TX>>
    BY <1>1, <2>1 DEF TransmittedInOrder, InShiftRegister, InTransmitRegister
  <2>4. put = (sent \o <<UART_TX>>) \o <<>>
    BY <2>3, ConcatEmptySeq, ConcatProperties DEF TransmitterTyped
  <2> QED
    BY <1>0, <2>2, <2>4 DEF TransmittedInOrder, InShiftRegister, InTransmitRegister
<1>2. CASE tx_in_progress /\ LastBit
  <2>1. ~start_tx /\ ~TxLoad /\ TxDone
    BY <1>2 DEF IdleSeenIsIdle, TxLoad, TxDone
  <2>2. tx_in_progress' = FALSE /\ start_tx' = FALSE /\ sent' = Append(sent, tx_sr)
    BY <1>2, <2>1 DEF TxClock, FrameEnds
  <2>3. put = (sent \o <<tx_sr>>) \o <<>>
    BY <1>2, <2>1 DEF TransmittedInOrder, InShiftRegister, InTransmitRegister
  <2>4. put = (Append(sent, tx_sr) \o <<>>) \o <<>>
    BY <2>3, ConcatEmptySeq, AppendIsConcat, ConcatProperties DEF TransmitterTyped
  <2> QED
    BY <2>2, <2>4 DEF TransmittedInOrder, InShiftRegister, InTransmitRegister
<1>3. CASE tx_in_progress /\ ~LastBit
  <2>1. ~start_tx /\ ~TxLoad /\ ~TxDone
    BY <1>3 DEF IdleSeenIsIdle, TxLoad, TxDone
  <2>2. tx_in_progress' = tx_in_progress /\ start_tx' = start_tx /\ tx_sr' = tx_sr
        /\ sent' = sent
    BY <1>3, <2>1 DEF TxClock, TransmitterTyped, FrameEnds
  <2> QED
    BY <1>0, <2>2, OrderKept
<1> QED
  BY <1>1, <1>2, <1>3

----------------------------------------------------------------------------
LEMMA LatchKeepsInv == TransmitInv /\ Latch => TransmitInv'
<1> SUFFICES ASSUME TransmitInv, Latch PROVE TransmitInv'
  OBVIOUS
<1> USE DEF TransmitInv
<1>1. /\ UNCHANGED <<pc, put, sent, start_tx, clr_start_tx, tx_in_progress, UART_TX, tx_sr>>
      /\ UART_SR_ltch'.TX_busy = (tx_in_progress \/ start_tx)
      /\ pc # "idle"
  BY DEF Latch, BusLatch, txVars, UART_SR, USR_TX_busy
<1>2. TransmitterTyped'
  BY <1>1 DEF TransmitterTyped
<1>3. IdleSeenIsIdle'
  BY <1>1 DEF IdleSeenIsIdle, TransmitterTyped
<1>4. TransmittedInOrder'
  BY <1>1, OrderKept
<1> QED
  BY <1>2, <1>3, <1>4

(* The accesses that do not touch the transmitter. *)
LEMMA OtherAccess ==
  ASSUME NEW flags \in SUBSET TxFlags,
         AccessOther \/ AccessRX \/ WriteSR(flags)
  PROVE  UNCHANGED <<start_tx, clr_start_tx, tx_in_progress, UART_TX, tx_sr>>
  BY Zenon DEF AccessOther, AccessRX, WriteSR, txVars

LEMMA EdgeKeepsInv == TransmitInv /\ Edge => TransmitInv'
<1> SUFFICES ASSUME TransmitInv, Edge PROVE TransmitInv'
  OBVIOUS
<1> USE DEF TransmitInv
<1>0. bus /\ ~bus' /\ sent' = sent
  BY DEF Edge
<1>1. ASSUME UNCHANGED <<put, start_tx, clr_start_tx, tx_in_progress, UART_TX, tx_sr>>,
             pc' \in Pcs,
             pc' = "putc_write" => ~tx_in_progress /\ ~start_tx
      PROVE  TransmitInv'
  <2>1. TransmitterTyped'
    BY <1>0, <1>1 DEF TransmitterTyped
  <2>2. IdleSeenIsIdle'
    BY <1>0, <1>1 DEF IdleSeenIsIdle
  <2>3. TransmittedInOrder'
    BY <1>0, <1>1, OrderKept
  <2> QED
    BY <2>1, <2>2, <2>3
<1>2. CASE InitDefault
  <2>1. put' = put /\ pc' \in Pcs /\ pc' # "putc_write"
    BY <1>2 DEF InitDefault, Pcs, InitSteps
  <2>2. UNCHANGED <<start_tx, clr_start_tx, tx_in_progress, UART_TX, tx_sr>>
    <3>1. CASE pc = "init_cr"
      BY <1>2, <3>1 DEF InitDefault, WriteCR, txVars
    <3>2. CASE pc # "init_cr"
      <4>1. AccessOther \/ AccessRX \/ WriteSR({"UTEIF", "UTCIF"})
        BY <1>2, <3>2 DEF InitDefault
      <4> QED
        BY <4>1, OtherAccess DEF TxFlags
    <3> QED
      BY <3>1, <3>2
  <2> QED
    BY <1>1, <2>1, <2>2
<1>3. CASE Putc
  <2>1. CASE pc = "putc_poll"
    <3>1. AccessOther /\ put' = put
          /\ pc' = IF UART_SR_ltch.TX_busy THEN "putc_poll" ELSE "putc_write"
      BY <1>3, <2>1 DEF Putc
    <3>2. UNCHANGED <<start_tx, clr_start_tx, tx_in_progress, UART_TX, tx_sr>>
      BY <3>1, OtherAccess
    <3>3. pc' \in Pcs
      BY <3>1 DEF Pcs
    <3>4. pc' = "putc_write" => ~tx_in_progress /\ ~start_tx
      BY <1>0, <2>1, <3>1 DEF IdleSeenIsIdle
    <3> QED
      BY <1>1, <3>1, <3>2, <3>3, <3>4
  <2>2. CASE pc = "putc_write"
    <3>1. PICK c \in Bytes : WriteTX(c) /\ put' = Append(put, c)
      BY <1>3, <2>2 DEF Putc
    <3>2. start_tx' = TRUE /\ UART_TX' = c /\ TransmittedInOrder'
      BY <1>0, <2>2, <3>1, PutcWriteKeepsOrder
    <3>3. pc' = "idle" /\ UNCHANGED <<clr_start_tx, tx_in_progress, tx_sr>>
      BY <1>3, <2>2, <3>1 DEF Putc, WriteTX
    <3>4. TransmitterTyped'
      BY <1>0, <3>1, <3>2, <3>3, AppendProperties DEF TransmitterTyped, Pcs
    <3>5. IdleSeenIsIdle'
      BY <1>0, <2>2, <3>3 DEF IdleSeenIsIdle
    <3> QED
      BY <3>2, <3>4, <3>5
  <2> QED
    BY <1>3, <2>1, <2>2 DEF Putc
<1>4. CASE Getc
  <2>1. put' = put /\ pc' \in Pcs /\ pc' # "putc_write" /\ (AccessOther \/ AccessRX)
    BY <1>4 DEF Getc, Pcs
  <2>2. UNCHANGED <<start_tx, clr_start_tx, tx_in_progress, UART_TX, tx_sr>>
    BY <2>1, OtherAccess
  <2> QED
    BY <1>1, <2>1, <2>2
<1> QED
  BY <1>2, <1>3, <1>4 DEF Edge

LEMMA TransmitKeepsInv == TransmitInv /\ Transmit => TransmitInv'
<1> SUFFICES ASSUME TransmitInv, Transmit PROVE TransmitInv'
  OBVIOUS
<1> USE DEF TransmitInv
<1>1. /\ TxClock /\ put' = put /\ pc' = pc /\ bus' = bus
      /\ sent' = IF FrameEnds THEN Append(sent, tx_sr) ELSE sent
      /\ UNCHANGED <<UART_TX, UART_SR_ltch>>
  BY DEF Transmit, TxClock, busVars
<1>2. tx_in_progress \/ start_tx
  BY <1>1 DEF TxClock
<1>3. TransmitterTyped'
  <2>1. sent' \in Seq(Bytes)
    BY <1>1, AppendProperties DEF TransmitterTyped
  <2>2. /\ tx_in_progress' \in BOOLEAN /\ start_tx' \in BOOLEAN /\ clr_start_tx' \in BOOLEAN
        /\ tx_sr' \in Bytes
    BY <1>1 DEF TransmitterTyped, TxClock, TxLoad, TxDone
  <2> QED
    BY <1>1, <2>1, <2>2 DEF TransmitterTyped
<1>4. IdleSeenIsIdle'
  BY <1>1, <1>2 DEF IdleSeenIsIdle, TransmitterTyped, TxClock, TxLoad, TxDone
<1>5. TransmittedInOrder'
  BY <1>1, ClockKeepsOrder
<1> QED
  BY <1>3, <1>4, <1>5

LEMMA TransmitInvInductive == TransmitInv /\ [Next]_vars => TransmitInv'
<1> SUFFICES ASSUME TransmitInv, [Next]_vars PROVE TransmitInv'
  OBVIOUS
<1> USE DEF TransmitInv
<1>1. CASE Call \/ Receive \/ UNCHANGED vars
  <2>1. /\ UNCHANGED <<put, sent, start_tx, clr_start_tx, tx_in_progress, UART_TX, tx_sr, bus,
                       UART_SR_ltch>>
        /\ pc' = pc \/ (pc' \in {"putc_poll", "getc_poll"} /\ pc = "idle")
    BY <1>1, Zenon DEF Call, Receive, RxStart, RxAbort, RxComplete, uartVars, busVars, txVars, vars
  <2>2. TransmitterTyped'
    BY <2>1 DEF TransmitterTyped, Pcs
  <2>3. IdleSeenIsIdle'
    BY <2>1 DEF IdleSeenIsIdle
  <2>4. TransmittedInOrder'
    BY <2>1, OrderKept
  <2> QED
    BY <2>2, <2>3, <2>4
<1> QED
  BY <1>1, LatchKeepsInv, EdgeKeepsInv, TransmitKeepsInv DEF Next

(* What run uart_polled checks with two bytes, for all of them: no byte is   *)
(* lost, repeated or overtaken between uartx_putc and the line.               *)
THEOREM PutcTransmitsInOrder == Spec => []TransmittedInOrder
<1>1. TransmitInv => TransmittedInOrder
  BY DEF TransmitInv
<1> QED
  BY <1>1, InitTransmitInv, TransmitInvInductive, PTL DEF Spec

----------------------------------------------------------------------------
(* The receive side.  What uartx_getc saw is still there when it reads: the  *)
(* sender waits for the flag to go, and only uartx_getc takes it away.        *)
ReceiverTyped ==
  /\ USR_RCIF \in BOOLEAN
  /\ UART_RX \in Bytes
  /\ received \in Seq(Bytes) /\ got \in Seq(Bytes)

FlagSeenIsSet ==
  /\ ~clr_URCIF
  /\ pc \in InitSteps => ~USR_RCIF
  /\ pc = "getc_poll" /\ bus /\ UART_SR_ltch.RCIF => USR_RCIF
  /\ pc = "getc_read" => USR_RCIF
  /\ pc = "getc_read" /\ bus => UART_RX_ltch = UART_RX
  /\ pc = "idle" => ~bus

Listening == ReceiverTyped /\ FlagSeenIsSet

(* What a step does to the bytes that were received: nothing, or a byte         *)
(* completes, or uartx_getc returns one.  The byte that completes is not told    *)
(* of while the clears of the last access are held.                              *)
Completes ==
  \E c \in Bytes :
    /\ ~USR_RCIF /\ USR_RCIF' = ~clr_SR_RX /\ UART_RX' = c
    /\ received' = Append(received, c) /\ got' = got
    /\ Pacing = "polled" => ~clr_SR_RX

Returns ==
  /\ USR_RCIF /\ ~USR_RCIF'
  /\ got' = Append(got, UART_RX) /\ UNCHANGED <<received, UART_RX>>

Hears == UNCHANGED <<USR_RCIF, UART_RX, received, got>> \/ Completes \/ Returns

LEMMA InitListening == Init => Listening
<1> SUFFICES ASSUME Init PROVE Listening
  OBVIOUS
<1>1. UART_RX \in Bytes
  BY BytesExist DEF Init, UartInit, Reset
<1>2. ~USR_RCIF /\ USR_RCIF \in BOOLEAN /\ ~clr_URCIF /\ ~bus
  BY DEF Init, UartInit
<1>3. pc = "init_br" /\ received = <<>> /\ got = <<>>
  BY DEF Init
<1> QED
  BY <1>1, <1>2, <1>3 DEF Listening, ReceiverTyped, FlagSeenIsSet

LEMMA ReceiveIsHeard ==
  ASSUME Listening, Receive
  PROVE  Listening' /\ Hears
<1>1. UNCHANGED <<pc, bus, got, clr_URCIF, UART_SR_ltch, UART_RX_ltch>>
  BY Zenon DEF Receive, RxStart, RxAbort, RxComplete, busVars
<1>2. pc \notin InitSteps /\ ReceiverTyped /\ FlagSeenIsSet
  BY DEF Receive, Listening
<1>3. CASE UNCHANGED <<received, UART_RX, USR_RCIF>>
  <2>1. ReceiverTyped'
    BY <1>1, <1>2, <1>3 DEF ReceiverTyped
  <2>2. FlagSeenIsSet'
    BY <1>1, <1>2, <1>3 DEF FlagSeenIsSet
  <2> QED
    BY <1>1, <1>3, <2>1, <2>2 DEF Listening, Hears
<1>4. ASSUME NEW c \in Bytes, LineReady, RxComplete(c, FALSE, FALSE),
             received' = Append(received, c)
      PROVE  Listening' /\ Hears
  <2>1. ~USR_RCIF /\ (Pacing = "polled" => ~clr_SR_RX)
    BY <1>4 DEF LineReady
  <2>2. USR_RCIF' = ~clr_SR_RX /\ UART_RX' = c
    BY <1>2, <1>4, <2>1 DEF RxComplete, FlagSeenIsSet
  <2>3. ReceiverTyped'
    BY <1>1, <1>2, <1>4, <2>2, AppendProperties DEF ReceiverTyped
  <2>4. FlagSeenIsSet'
    BY <1>1, <1>2, <2>1, <2>2 DEF FlagSeenIsSet
  <2> QED
    BY <1>1, <1>4, <2>1, <2>2, <2>3, <2>4 DEF Listening, Hears, Completes
<1> QED
  BY <1>3, <1>4, Zenon DEF Receive, RxStart, RxAbort

LEMMA EdgeIsHeard ==
  ASSUME Listening, Edge
  PROVE  Listening' /\ Hears
<1>0. bus /\ ~bus' /\ received' = received /\ ReceiverTyped /\ FlagSeenIsSet
  BY DEF Edge, Listening
<1>1. ASSUME got' = got, UNCHANGED <<USR_RCIF, UART_RX>>, ~clr_URCIF',
             pc' \in InitSteps => pc \in InitSteps,
             pc' = "getc_read" => USR_RCIF
      PROVE  Listening' /\ Hears
  <2>1. ReceiverTyped'
    BY <1>0, <1>1 DEF ReceiverTyped
  <2>2. FlagSeenIsSet'
    BY <1>0, <1>1 DEF FlagSeenIsSet
  <2> QED
    BY <1>0, <1>1, <2>1, <2>2 DEF Listening, Hears
<1>2. CASE InitDefault
  <2>1. got' = got /\ pc \in InitSteps /\ pc' # "getc_read"
    BY <1>2 DEF InitDefault, InitSteps
  <2>2. USR_RCIF = FALSE
    BY <1>0, <2>1 DEF FlagSeenIsSet, ReceiverTyped
  <2>3. USR_RCIF' = FALSE /\ UART_RX' = UART_RX /\ ~clr_URCIF'
    <3>1. CASE AccessOther
      BY <2>2, <3>1 DEF AccessOther, Clear, KeepFlags
    <3>2. CASE AccessRX
      BY <3>2 DEF AccessRX, Clear
    <3>3. CASE WriteSR({"UTEIF", "UTCIF"})
      BY <2>2, <3>3 DEF WriteSR, Clear
    <3>4. ASSUME NEW cr, WriteCR(cr)
          PROVE  USR_RCIF' = FALSE /\ UART_RX' = UART_RX /\ ~clr_URCIF'
      BY <2>2, <3>4 DEF WriteCR
    <3> QED
      BY <1>2, <3>1, <3>2, <3>3, <3>4, Zenon DEF InitDefault
  <2> QED
    BY <1>1, <2>1, <2>2, <2>3
<1>3. CASE Putc
  <2>1. got' = got /\ pc' \notin InitSteps /\ pc' # "getc_read"
    BY <1>3 DEF Putc, InitSteps
  <2>2. UNCHANGED <<USR_RCIF, UART_RX>> /\ ~clr_URCIF'
    <3>1. CASE AccessOther
      BY <3>1 DEF AccessOther, Clear, KeepFlags
    <3>2. ASSUME NEW c \in Bytes, WriteTX(c)
          PROVE  UNCHANGED <<USR_RCIF, UART_RX>> /\ ~clr_URCIF'
      BY <3>2 DEF WriteTX, Clear, KeepFlags
    <3> QED
      BY <1>3, <3>1, <3>2, Zenon DEF Putc
  <2> QED
    BY <1>1, <2>1, <2>2
<1>4. CASE Getc
  <2>1. CASE pc = "getc_poll"
    <3>1. AccessOther /\ got' = got
          /\ pc' = IF UART_SR_ltch.RCIF THEN "getc_read" ELSE "getc_poll"
      BY <1>4, <2>1 DEF Getc
    <3>2. UNCHANGED <<USR_RCIF, UART_RX>> /\ ~clr_URCIF'
      BY <3>1 DEF AccessOther, Clear, KeepFlags
    <3>3. pc' = "getc_read" => USR_RCIF
      BY <1>0, <2>1, <3>1 DEF FlagSeenIsSet
    <3> QED
      BY <1>1, <3>1, <3>2, <3>3 DEF InitSteps
  <2>2. CASE pc = "getc_read"
    <3>1. AccessRX /\ pc' = "idle" /\ got' = Append(got, UART_RX) /\ USR_RCIF
      BY <1>0, <1>4, <2>2 DEF Getc, FlagSeenIsSet
    <3>2. USR_RCIF' = FALSE /\ UART_RX' = UART_RX /\ ~clr_URCIF'
      BY <3>1 DEF AccessRX, Clear
    <3>3. ReceiverTyped'
      BY <1>0, <3>1, <3>2, AppendProperties DEF ReceiverTyped
    <3>4. FlagSeenIsSet'
      BY <1>0, <3>1, <3>2 DEF FlagSeenIsSet, InitSteps
    <3> QED
      BY <1>0, <3>1, <3>2, <3>3, <3>4 DEF Listening, Hears, Returns
  <2> QED
    BY <1>4, <2>1, <2>2 DEF Getc
<1> QED
  BY <1>2, <1>3, <1>4 DEF Edge

LEMMA StepIsHeard ==
  ASSUME Listening, [Next]_vars
  PROVE  Listening' /\ Hears
<1>0. ReceiverTyped /\ FlagSeenIsSet
  BY DEF Listening
<1>1. CASE Latch
  <2>1. /\ UNCHANGED <<pc, got, received, USR_RCIF, UART_RX, clr_URCIF>>
        /\ UART_SR_ltch'.RCIF = USR_RCIF /\ UART_RX_ltch' = UART_RX /\ pc # "idle"
    BY <1>1 DEF Latch, BusLatch, rxVars, UART_SR
  <2>2. ReceiverTyped'
    BY <1>0, <2>1 DEF ReceiverTyped
  <2>3. FlagSeenIsSet'
    BY <1>0, <2>1 DEF FlagSeenIsSet
  <2> QED
    BY <2>1, <2>2, <2>3 DEF Listening, Hears
<1>2. CASE Call \/ Transmit \/ UNCHANGED vars
  <2>1. /\ UNCHANGED <<bus, got, received, USR_RCIF, UART_RX, clr_URCIF, UART_SR_ltch,
                       UART_RX_ltch>>
        /\ pc' = pc \/ (pc' \in {"putc_poll", "getc_poll"} /\ pc = "idle")
    BY <1>2, Zenon DEF Call, Transmit, TxClock, uartVars, busVars, rxVars, vars
  <2>2. ReceiverTyped'
    BY <1>0, <2>1 DEF ReceiverTyped
  <2>3. FlagSeenIsSet'
    BY <1>0, <2>1 DEF FlagSeenIsSet, InitSteps
  <2> QED
    BY <2>1, <2>2, <2>3 DEF Listening, Hears
<1> QED
  BY <1>1, <1>2, ReceiveIsHeard, EdgeIsHeard DEF Next

(* What run uart_polled checks with two bytes: when the sender waits for the *)
(* program to poll again, no byte is lost, repeated or overtaken.             *)
THEOREM GetcReturnsInOrder ==
  ASSUME Pacing = "polled"
  PROVE  Spec => []ReceivedInOrder
<1>1. Init => ReceivedInOrder
  BY DEF Init, UartInit, ReceivedInOrder
<1>2. Listening /\ ReceivedInOrder /\ [Next]_vars => ReceivedInOrder'
  <2> SUFFICES ASSUME Listening, ReceivedInOrder, [Next]_vars PROVE ReceivedInOrder'
    OBVIOUS
  <2>1. ReceiverTyped /\ Hears
    BY StepIsHeard DEF Listening
  <2>2. CASE UNCHANGED <<USR_RCIF, UART_RX, received, got>>
    BY <2>2 DEF ReceivedInOrder
  <2>3. CASE Completes
    <3>1. PICK c \in Bytes : /\ ~USR_RCIF /\ USR_RCIF' /\ UART_RX' = c
                             /\ received' = Append(received, c) /\ got' = got
      BY <2>3 DEF Completes
    <3>2. received = got
      BY <2>1, <3>1, ConcatEmptySeq DEF ReceivedInOrder, ReceiverTyped
    <3>3. received' = got' \o <<UART_RX'>>
      BY <2>1, <3>1, <3>2, AppendIsConcat DEF ReceiverTyped
    <3> QED
      BY <3>1, <3>3 DEF ReceivedInOrder
  <2>4. CASE Returns
    <3>1. received = got \o <<UART_RX>>
      BY <2>4 DEF Returns, ReceivedInOrder
    <3>2. got' = received /\ got' \in Seq(Bytes)
      BY <2>1, <2>4, <3>1, AppendIsConcat, AppendProperties DEF Returns, ReceiverTyped
    <3>3. received' = got' \o <<>>
      BY <2>4, <3>2, ConcatEmptySeq DEF Returns
    <3> QED
      BY <2>4, <3>3 DEF Returns, ReceivedInOrder
  <2> QED
    BY <2>1, <2>2, <2>3, <2>4 DEF Hears
<1>3. Listening /\ [Next]_vars => Listening'
  BY StepIsHeard
<1> QED
  BY <1>1, <1>2, <1>3, InitListening, PTL DEF Spec

----------------------------------------------------------------------------
(* A sender that does not wait for the poll.  place[i] is the place among the   *)
(* bytes received of the i-th byte returned; the byte that the flag tells of is *)
(* the last one received, and was not returned yet.                              *)
Placed(place) ==
  /\ place \in [1 .. Len(got) -> 1 .. Len(received)]
  /\ \A i \in 1 .. Len(got) : got[i] = received[place[i]]
  /\ \A i, j \in 1 .. Len(got) : i < j => place[i] < place[j]
  /\ USR_RCIF => /\ Len(received) > 0 /\ UART_RX = received[Len(received)]
                 /\ \A i \in 1 .. Len(got) : place[i] < Len(received)

(* uartx_getc returns bytes that were received, none of them twice and in their *)
(* order; bytes can only be missing.                                             *)
NothingInvented == \E place : Placed(place)

LEMMA CompletesIsPlaced ==
  ASSUME ReceiverTyped, NEW place, Placed(place), Completes
  PROVE  Placed(place)'
<1>1. PICK c \in Bytes : /\ UART_RX' = c /\ received' = Append(received, c) /\ got' = got
  BY DEF Completes
<1>2. Len(received) \in Nat /\ Len(got) \in Nat
  BY DEF ReceiverTyped
<1>3. /\ Len(received') = Len(received) + 1
      /\ received'[Len(received) + 1] = c
      /\ \A k \in 1 .. Len(received) : received'[k] = received[k]
  BY <1>1, AppendProperties DEF ReceiverTyped
<1>4. \A i \in 1 .. Len(got) : place[i] \in 1 .. Len(received)
  BY DEF Placed
<1>5. \A i \in 1 .. Len(got) :
        place[i] \in 1 .. Len(received) + 1 /\ place[i] < Len(received) + 1
  BY <1>2, <1>4
<1>6. place \in [1 .. Len(got') -> 1 .. Len(received')]
  BY <1>1, <1>3, <1>5 DEF Placed
<1>7. \A i \in 1 .. Len(got') : got'[i] = received'[place[i]]
  BY <1>1, <1>3, <1>4 DEF Placed
<1>8. Len(received') > 0 /\ UART_RX' = received'[Len(received')]
  BY <1>1, <1>2, <1>3
<1> QED
  BY <1>1, <1>3, <1>5, <1>6, <1>7, <1>8 DEF Placed

LEMMA ReturnsIsPlaced ==
  ASSUME ReceiverTyped, NEW place, Placed(place), Returns
  PROVE  NothingInvented'
<1> DEFINE n == Len(got)
<1> DEFINE m == Len(received)
<1> DEFINE more == [i \in 1 .. n + 1 |-> IF i = n + 1 THEN m ELSE place[i]]
<1>1. /\ m \in Nat /\ n \in Nat /\ m > 0 /\ UART_RX = received[m]
      /\ \A i \in 1 .. n : place[i] \in 1 .. m /\ place[i] < m
      /\ \A i \in 1 .. n : got[i] = received[place[i]]
      /\ \A i, j \in 1 .. n : i < j => place[i] < place[j]
  <2>1. m \in Nat /\ n \in Nat
    BY DEF ReceiverTyped
  <2>2. USR_RCIF
    BY DEF Returns
  <2>3. place \in [1 .. n -> 1 .. m]
    BY DEF Placed
  <2>4. m > 0 /\ UART_RX = received[m] /\ \A i \in 1 .. n : place[i] < m
    BY <2>2 DEF Placed
  <2>5. /\ \A i \in 1 .. n : got[i] = received[place[i]]
        /\ \A i, j \in 1 .. n : i < j => place[i] < place[j]
    BY DEF Placed
  <2> QED
    BY <2>1, <2>3, <2>4, <2>5
<1>2. /\ received' = received /\ ~USR_RCIF'
      /\ Len(got') = n + 1 /\ got'[n + 1] = UART_RX
      /\ \A i \in 1 .. n : got'[i] = got[i]
  BY AppendProperties DEF ReceiverTyped, Returns
<1>3. m = Len(received) /\ n = Len(got)
  OBVIOUS
<1> HIDE DEF n, m
<1>4. PICK further : further = more
  OBVIOUS
<1>5. /\ further[n + 1] = m
      /\ \A i \in 1 .. n : further[i] = place[i]
      /\ \A i \in 1 .. n + 1 : i \in 1 .. n \/ i = n + 1
  BY <1>1, <1>4
<1>6. further \in [1 .. n + 1 -> 1 .. m]
  BY <1>1, <1>4, <1>5
<1> HIDE DEF more
<1>7. \A i \in 1 .. n + 1 : got'[i] = received[further[i]]
  BY <1>1, <1>2, <1>5
<1>8. \A i, j \in 1 .. n + 1 : i < j => further[i] < further[j]
  <2>1. SUFFICES ASSUME NEW i \in 1 .. n + 1, NEW j \in 1 .. n + 1, i < j
                 PROVE  further[i] < further[j]
    OBVIOUS
  <2>2. i \in 1 .. n
    BY <1>1, <2>1
  <2>3. CASE j = n + 1
    BY <1>1, <1>5, <2>2, <2>3
  <2>4. CASE j \in 1 .. n
    BY <1>1, <1>5, <2>1, <2>2, <2>4
  <2> QED
    BY <1>5, <2>3, <2>4
<1>9. Len(received') = m /\ Len(got') = n + 1
  BY <1>2, <1>3
<1>10. Placed(further)'
  BY <1>2, <1>6, <1>7, <1>8, <1>9 DEF Placed
<1> QED
  BY <1>10 DEF NothingInvented

(* However fast the sender is: what uartx_getc returns are bytes of the line, *)
(* once and in order.  That none is missing needs the pace of GetcReturnsInOrder. *)
THEOREM GetcInventsNothing == Spec => []NothingInvented
<1>1. Init => NothingInvented
  <2> SUFFICES ASSUME Init PROVE NothingInvented
    OBVIOUS
  <2>1. got = <<>> /\ received = <<>> /\ ~USR_RCIF
    BY DEF Init, UartInit
  <2>2. Placed([i \in 1 .. 0 |-> i])
    BY <2>1 DEF Placed
  <2> QED
    BY <2>2 DEF NothingInvented
<1>2. Listening /\ NothingInvented /\ [Next]_vars => NothingInvented'
  <2> SUFFICES ASSUME Listening, NothingInvented, [Next]_vars PROVE NothingInvented'
    OBVIOUS
  <2>1. ReceiverTyped /\ Hears
    BY StepIsHeard DEF Listening
  <2>2. PICK place : Placed(place)
    BY DEF NothingInvented
  <2>3. CASE UNCHANGED <<USR_RCIF, UART_RX, received, got>>
    BY <2>2, <2>3 DEF NothingInvented, Placed
  <2>4. CASE Completes
    BY <2>1, <2>2, <2>4, CompletesIsPlaced DEF NothingInvented
  <2>5. CASE Returns
    BY <2>1, <2>2, <2>5, ReturnsIsPlaced
  <2> QED
    BY <2>1, <2>3, <2>4, <2>5 DEF Hears
<1>3. Listening /\ [Next]_vars => Listening'
  BY StepIsHeard
<1> QED
  BY <1>1, <1>2, <1>3, InitListening, PTL DEF Spec

----------------------------------------------------------------------------
(* The driver on the UART is one of the programs that UartPort allows.  Its    *)
(* view has no latches: what a read returns does not come back into the UART. *)
NoFlags == [RX_busy |-> FALSE, TX_busy |-> FALSE, FEF |-> FALSE, PEF |-> FALSE, OVF |-> FALSE,
            RCIF |-> FALSE, UTEIF |-> FALSE, UTCIF |-> FALSE]

Port == INSTANCE UartPortProofs WITH UART_SR_ltch <- NoFlags, UART_RX_ltch <- Reset

LEMMA InitIsPortInit == Init => Port!UartInit
  BY DEF Init, UartInit, NoFlags, Reset, Port!UartInit, Port!UART_SR, Port!USR_TX_busy, Port!Reset

LEMMA EdgeIsAccess ==
  ASSUME Edge
  PROVE  Port!Access
<1> USE DEF Port!Access
<1>1. CASE AccessOther
  BY <1>1 DEF AccessOther, Clear, KeepFlags, Port!AccessOther, Port!Clear, Port!KeepFlags
<1>2. CASE AccessRX
  BY <1>2 DEF AccessRX, Clear, txVars, Port!AccessRX, Port!Clear, Port!txVars
<1>3. CASE \E c \in Bytes : WriteTX(c)
  <2>1. PICK c \in Bytes : WriteTX(c)
    BY <1>3
  <2>2. Port!WriteTX(c)
    BY <2>1 DEF WriteTX, Clear, KeepFlags, Port!WriteTX, Port!Clear, Port!KeepFlags
  <2> QED
    BY <2>2
<1>4. CASE WriteSR({"UTEIF", "UTCIF"})
  <2>1. Port!WriteSR({"UTEIF", "UTCIF"})
    BY <1>4 DEF WriteSR, Clear, Port!WriteSR, Port!Clear
  <2> QED
    BY <2>1 DEF Port!TxFlags
<1>5. CASE WriteCR([EN |-> TRUE, CIE |-> FALSE, TEIE |-> FALSE, TCIE |-> FALSE])
  <2> DEFINE cr == [EN |-> TRUE, CIE |-> FALSE, TEIE |-> FALSE, TCIE |-> FALSE]
  <2>1. Port!WriteCR(cr)
    BY <1>5 DEF WriteCR, txVars, Port!WriteCR, Port!txVars
  <2>2. cr \in Port!ControlWords
    BY DEF Port!ControlWords
  <2> QED
    BY <2>1, <2>2
<1> QED
  BY <1>1, <1>2, <1>3, <1>4, <1>5 DEF Edge, InitDefault, Putc, Getc

LEMMA ReceiveIsLine ==
  ASSUME Receive
  PROVE  Port!Line
<1> USE DEF Port!Line
<1>1. CASE RxStart
  BY <1>1 DEF RxStart, busVars, txVars, Port!RxStart, Port!busVars, Port!txVars
<1>2. CASE RxAbort
  BY <1>2 DEF RxAbort, busVars, txVars, Port!RxAbort, Port!busVars, Port!txVars
<1>3. CASE \E c \in Bytes : RxComplete(c, FALSE, FALSE)
  <2>1. PICK c \in Bytes : RxComplete(c, FALSE, FALSE)
    BY <1>3
  <2>2. Port!RxComplete(c, FALSE, FALSE)
    BY <2>1 DEF RxComplete, busVars, txVars, Port!RxComplete, Port!busVars, Port!txVars
  <2> QED
    BY <2>2
<1> QED
  BY <1>1, <1>2, <1>3 DEF Receive

LEMMA TransmitIsTxClock ==
  ASSUME Transmit
  PROVE  Port!TxClock
  BY DEF Transmit, TxClock, TxLoad, TxDone, LastBit, busVars, rxVars, Port!TxClock,
         Port!TxLoad, Port!TxDone, Port!LastBit, BIT_COUNTER_START,
         Port!BIT_COUNTER_START, Port!busVars, Port!rxVars

(* Every step of driver, UART and line is an access, an edge or a frame of      *)
(* UartPort, or does not concern the UART: so what uart_port shows of any       *)
(* program holds of this one.                                                    *)
THEOREM PolledIsAProgram == Spec => Port!Spec
<1>1. [Next]_vars => [Port!Next]_(Port!uartVars)
  <2> SUFFICES ASSUME [Next]_vars PROVE Port!Next \/ UNCHANGED Port!uartVars
    OBVIOUS
  <2>1. CASE Latch
    BY <2>1 DEF Latch, BusLatch, txVars, rxVars, Port!uartVars, NoFlags, Reset
  <2>2. CASE Edge
    BY <2>2, EdgeIsAccess DEF Port!Next
  <2>3. CASE Call \/ UNCHANGED vars
    BY <2>3 DEF Call, uartVars, vars, Port!uartVars, NoFlags, Reset
  <2>4. CASE Transmit
    BY <2>4, TransmitIsTxClock DEF Port!Next
  <2>5. CASE Receive
    BY <2>5, ReceiveIsLine DEF Port!Next
  <2> QED
    BY <2>1, <2>2, <2>3, <2>4, <2>5 DEF Next
<1> QED
  BY <1>1, InitIsPortInit, PTL DEF Spec, Port!Spec

(* Hence a byte that uartx_putc writes while the transmitter shows idle is      *)
(* taken, whatever the driver has seen before.                                   *)
COROLLARY PolledWriteIsTaken == Spec => Port!IdleWriteTaken
  BY PolledIsAProgram, Port!IdleWriteIsTaken, BytesExist

=============================================================================
