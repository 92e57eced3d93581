----------------------------- MODULE UartPolled -----------------------------
(***************************************************************************)
(* The polling driver (uart.c: uartx_init_default, uartx_putc, uartx_getc) *)
(* on the UART.  The program calls the two functions in any order; its     *)
(* accesses take two steps, so that the UART's own clocks can fall between *)
(* the sampling of a register and the access.                              *)
(***************************************************************************)
EXTENDS Uart, Sequences

CONSTANTS MaxBytes,        \* bound on the bytes sent and on the bytes received
          Pacing           \* "polled" or "read", see LineReady

VARIABLES
  pc,                      \* the access of the driver that comes next
  bus,                     \* the access is under way
  put, sent,               \* bytes given to uartx_putc, bytes whose frame is on the line
  received, got            \* bytes the receiver completed, bytes uartx_getc returned

vars == <<UART_CR, UART_TX, UART_RX, start_tx, clr_start_tx, tx_in_progress, tx_sr,
          tx_bit_cntr, rx_in_progress, USR_UTEIF, USR_UTCIF, USR_RCIF, USR_OVF, USR_FEF,
          USR_PEF, clr_UTEIF, clr_UTCIF, clr_URCIF, clr_SR_RX, UART_SR_ltch, UART_RX_ltch,
          pc, bus, put, sent, received, got>>

InitSteps == {"init_br", "init_cr", "init_sr", "init_rx", "init_rx_again"}

----------------------------------------------------------------------------
Latch ==
  /\ pc # "idle" /\ ~bus
  /\ bus' = TRUE
  /\ BusLatch
  /\ UNCHANGED <<pc, put, sent, received, got>>

(* uartx_init_default. *)
InitDefault ==
  /\ \/ pc = "init_br" /\ AccessOther /\ pc' = "init_cr"
     \/ /\ pc = "init_cr" /\ pc' = "init_sr"
        /\ WriteCR([EN |-> TRUE, CIE |-> FALSE, TEIE |-> FALSE, TCIE |-> FALSE])
     \/ pc = "init_sr" /\ WriteSR({"UTEIF", "UTCIF"}) /\ pc' = "init_rx"
     \/ pc = "init_rx" /\ AccessRX /\ pc' = "init_rx_again"
     \/ pc = "init_rx_again" /\ AccessRX /\ pc' = "idle"
  /\ UNCHANGED <<put, got>>

(* uartx_putc: wait while the transmitter is busy, then write the byte. *)
Putc ==
  \/ /\ pc = "putc_poll" /\ AccessOther
     /\ pc' = IF UART_SR_ltch.TX_busy THEN "putc_poll" ELSE "putc_write"
     /\ UNCHANGED <<put, got>>
  \/ /\ pc = "putc_write" /\ pc' = "idle"
     /\ \E c \in Bytes : WriteTX(c) /\ put' = Append(put, c)
     /\ UNCHANGED got

(* uartx_getc: wait for the receive flag, then read the byte. *)
Getc ==
  \/ /\ pc = "getc_poll" /\ AccessOther
     /\ pc' = IF UART_SR_ltch.RCIF THEN "getc_read" ELSE "getc_poll"
     /\ UNCHANGED <<put, got>>
  \/ /\ pc = "getc_read" /\ pc' = "idle"
     /\ AccessRX /\ got' = Append(got, UART_RX_ltch)
     /\ UNCHANGED put

Edge ==
  /\ bus /\ bus' = FALSE
  /\ InitDefault \/ Putc \/ Getc
  /\ UNCHANGED <<sent, received>>

Call ==
  /\ pc = "idle"
  /\ \/ pc' = "putc_poll" /\ Len(put) < MaxBytes
     \/ pc' = "getc_poll"
  /\ UNCHANGED <<uartVars, bus, put, sent, received, got>>

FrameEnds == TxDone \/ (tx_in_progress /\ TxLoad)

Transmit ==
  /\ TxClock
  /\ sent' = IF FrameEnds THEN Append(sent, tx_sr) ELSE sent
  /\ UNCHANGED <<pc, bus, put, received, got>>

(* The other side sends a byte only when the last one has been read, and with *)
(* Pacing = "polled" only when the program has come back to poll.              *)
LineReady == ~USR_RCIF /\ (Pacing = "polled" => ~clr_SR_RX)

Receive ==
  /\ pc \notin InitSteps /\ Len(received) < MaxBytes
  /\ \/ RxStart /\ UNCHANGED received
     \/ RxAbort /\ UNCHANGED received
     \/ /\ LineReady
        /\ \E c \in Bytes : RxComplete(c, FALSE, FALSE) /\ received' = Append(received, c)
  /\ UNCHANGED <<pc, bus, put, sent, got>>

Init ==
  /\ UartInit
  /\ pc = "init_br" /\ bus = FALSE
  /\ put = <<>> /\ sent = <<>> /\ received = <<>> /\ got = <<>>

Next == Latch \/ Edge \/ Call \/ Transmit \/ Receive

Spec == Init /\ [][Next]_vars

----------------------------------------------------------------------------
InShiftRegister == IF tx_in_progress THEN <<tx_sr>> ELSE <<>>
InTransmitRegister == IF start_tx THEN <<UART_TX>> ELSE <<>>

(* Every byte given to uartx_putc leaves the transmitter exactly once and in  *)
(* order, although UARTxTX ignores writes for one bit time after it has been  *)
(* emptied: the busy flag keeps the driver away from that window.             *)
TransmittedInOrder == put = sent \o InShiftRegister \o InTransmitRegister

(* Every byte the receiver completes is returned by uartx_getc exactly once   *)
(* and in order.                                                               *)
ReceivedInOrder == received = got \o (IF USR_RCIF THEN <<UART_RX>> ELSE <<>>)

(* Fairness: the transmitter's clock runs while it is busy, the bus completes *)
(* an access, the program runs.                                                *)
FairSpec == Spec /\ WF_vars(Transmit) /\ WF_vars(Latch) /\ WF_vars(Edge)

(* A call of uartx_putc returns.                                               *)
PutcReturns == pc = "putc_poll" ~> pc = "idle"

=============================================================================
