------------------------------ MODULE UartPort ------------------------------
(***************************************************************************)
(* The UART as its bus sees it: any access at any time, and a line that    *)
(* sends frames, with errors or without, whether or not anybody reads      *)
(* them.  What holds here holds for every driver.  BusLatch is left out:   *)
(* what a read returns does not come back into the UART.                   *)
(***************************************************************************)
EXTENDS Uart

Access ==
  \/ AccessOther
  \/ AccessRX
  \/ \E flags \in SUBSET TxFlags : WriteSR(flags)
  \/ \E byte \in Bytes : WriteTX(byte)
  \/ \E cr \in ControlWords : WriteCR(cr)

Line ==
  \/ RxStart
  \/ RxAbort
  \/ \E byte \in Bytes, pe, fe \in BOOLEAN : RxComplete(byte, pe, fe)

Next == Access \/ TxClock \/ Line

Spec == UartInit /\ [][Next]_uartVars

----------------------------------------------------------------------------
(* Every register keeps to its values; tx_bit_cntr never wraps around.       *)
UartTypeOK ==
  /\ UART_CR \in ControlWords
  /\ UART_TX \in Bytes /\ UART_RX \in Bytes /\ UART_RX_ltch \in Bytes /\ tx_sr \in Bytes
  /\ tx_bit_cntr \in 0..BIT_COUNTER_START
  /\ \A flag \in {start_tx, clr_start_tx, tx_in_progress, rx_in_progress, USR_UTEIF, USR_UTCIF,
                  USR_RCIF, USR_OVF, USR_FEF, USR_PEF} : flag \in BOOLEAN

(* A byte written while the status register shows the transmitter idle is    *)
(* taken: the signal that holds start_tx in reset never outlives the frame.  *)
IdleWriteTaken ==
  [][ (\E byte \in Bytes : WriteTX(byte)) /\ ~USR_TX_busy => start_tx' ]_uartVars

=============================================================================
