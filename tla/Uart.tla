-------------------------------- MODULE Uart --------------------------------
(***************************************************************************)
(* UART.vhd: the registers of the UART and the two machines behind them.   *)
(* Three clocks meet here: the bus clock clk_mem, which adddec.vhd gates   *)
(* so that it has one edge per access of this peripheral and none          *)
(* otherwise; clk_tx, one edge per transmitted bit; and the sampling clock *)
(* of the receiver, of which a step is a whole frame (module UartLine has  *)
(* the bits).  A step is an edge of one of them, so every interleaving of  *)
(* the three is covered.                                                   *)
(***************************************************************************)
EXTENDS Integers

CONSTANTS Bytes,           \* what a frame carries
          UCR_PEN          \* parity bit enabled

ASSUME BytesExist == Bytes # {}

VARIABLES
  UART_CR,                 \* [EN, CIE, TEIE, TCIE]: enable and interrupt enables
  UART_TX, UART_RX,
  start_tx, clr_start_tx,
  tx_in_progress, tx_sr, tx_bit_cntr,
  rx_in_progress,
  USR_UTEIF, USR_UTCIF,
  USR_RCIF, USR_OVF, USR_FEF, USR_PEF,
  clr_UTEIF, clr_UTCIF, clr_URCIF, clr_SR_RX,
  UART_SR_ltch, UART_RX_ltch

uartVars == <<UART_CR, UART_TX, UART_RX, start_tx, clr_start_tx, tx_in_progress, tx_sr,
              tx_bit_cntr, rx_in_progress, USR_UTEIF, USR_UTCIF, USR_RCIF, USR_OVF, USR_FEF,
              USR_PEF, clr_UTEIF, clr_UTCIF, clr_URCIF, clr_SR_RX, UART_SR_ltch, UART_RX_ltch>>

txVars == <<start_tx, clr_start_tx, tx_in_progress, tx_sr, tx_bit_cntr, USR_UTEIF, USR_UTCIF>>
rxVars == <<rx_in_progress, UART_RX, USR_RCIF, USR_OVF, USR_FEF, USR_PEF>>
busVars == <<UART_CR, UART_TX, clr_UTEIF, clr_UTCIF, clr_URCIF, clr_SR_RX, UART_SR_ltch,
             UART_RX_ltch>>

BIT_COUNTER_START == 10
Reset == CHOOSE b \in Bytes : TRUE         \* the byte that stands for all zeros

ControlWords == [EN : BOOLEAN, CIE : BOOLEAN, TEIE : BOOLEAN, TCIE : BOOLEAN]
TxFlags == {"UTEIF", "UTCIF", "URCIF"}     \* bits of UARTxSR that a write clears

----------------------------------------------------------------------------
(* The status register and the interrupt lines. *)
\* Variant: busy only until the byte has left UARTxTX.
busy_until_loaded == start_tx
USR_TX_busy == tx_in_progress \/ start_tx

UART_SR == [RX_busy |-> rx_in_progress, TX_busy |-> USR_TX_busy, FEF |-> USR_FEF,
            PEF |-> USR_PEF, OVF |-> USR_OVF, RCIF |-> USR_RCIF, UTEIF |-> USR_UTEIF,
            UTCIF |-> USR_UTCIF]

irq_rc == UART_CR.CIE /\ USR_RCIF
irq_te == UART_CR.TEIE /\ USR_UTEIF
irq_tc == UART_CR.TCIE /\ USR_UTCIF

----------------------------------------------------------------------------
(* Transmitter: one edge of clk_tx. *)
\* Variant: with parity the counter is not looked at.
last_without_parity == tx_bit_cntr = 1 /\ ~UCR_PEN
LastBit == tx_bit_cntr = 0 \/ (tx_bit_cntr = 1 /\ ~UCR_PEN)
TxLoad == start_tx /\ (~tx_in_progress \/ LastBit)
\* Variant: the end of a frame without parity bit is missed.
done_after_parity == tx_in_progress /\ tx_bit_cntr = 0 /\ ~start_tx
TxDone == tx_in_progress /\ LastBit /\ ~start_tx

(* start_tx is reset by clr_start_tx, a register of this clock: it stays set *)
(* until the next edge, a whole bit later.                                    *)
TxClock ==
  /\ UART_CR.EN /\ (tx_in_progress \/ start_tx)
  /\ clr_start_tx' = TxLoad
  /\ start_tx' = (start_tx /\ ~TxLoad)
  /\ tx_sr' = IF TxLoad THEN UART_TX ELSE tx_sr
  /\ tx_bit_cntr' = IF TxLoad THEN BIT_COUNTER_START
                    ELSE IF LastBit THEN tx_bit_cntr ELSE tx_bit_cntr - 1
  /\ tx_in_progress' = ~TxDone
  /\ USR_UTEIF' = ((USR_UTEIF \/ TxLoad) /\ ~clr_UTEIF)
  /\ USR_UTCIF' = ((USR_UTCIF \/ TxDone) /\ ~clr_UTCIF)
  /\ UNCHANGED <<busVars, rxVars>>

(* Receiver: a falling edge on the line, a start bit that was noise, and the *)
(* middle of the stop bit.  clr_SR_RX and clr_URCIF reset the flags as long   *)
(* as they are set.                                                           *)
RxStart ==
  /\ UART_CR.EN /\ ~rx_in_progress
  /\ rx_in_progress' = TRUE
  /\ UNCHANGED <<busVars, txVars, UART_RX, USR_RCIF, USR_OVF, USR_FEF, USR_PEF>>

RxAbort ==
  /\ rx_in_progress
  /\ rx_in_progress' = FALSE
  /\ UNCHANGED <<busVars, txVars, UART_RX, USR_RCIF, USR_OVF, USR_FEF, USR_PEF>>

RxComplete(byte, parity_error, framing_error) ==
  /\ rx_in_progress
  /\ rx_in_progress' = FALSE
  /\ UART_RX' = byte
  /\ USR_RCIF' = (~clr_SR_RX /\ ~clr_URCIF)
  /\ USR_OVF' = ((USR_OVF \/ USR_UTCIF) /\ ~clr_SR_RX)
  /\ USR_PEF' = (UCR_PEN /\ parity_error /\ ~clr_SR_RX)
  /\ USR_FEF' = (framing_error /\ ~clr_SR_RX)
  /\ UNCHANGED <<busVars, txVars>>

----------------------------------------------------------------------------
(* Bus: the falling edge of en_mem samples what a read will return, the      *)
(* rising edge of clk_mem half a cycle later performs the access.             *)
BusLatch ==
  /\ UART_SR_ltch' = UART_SR
  /\ UART_RX_ltch' = UART_RX
  /\ UNCHANGED <<UART_CR, UART_TX, clr_UTEIF, clr_UTCIF, clr_URCIF, clr_SR_RX, txVars, rxVars>>

(* Every edge loads the clear signals, with what this access asks for. *)
Clear(flags, rx) ==
  /\ clr_UTEIF' = ("UTEIF" \in flags)
  /\ clr_UTCIF' = ("UTCIF" \in flags)
  /\ clr_URCIF' = ("URCIF" \in flags)
  /\ clr_SR_RX' = rx
  /\ UNCHANGED <<UART_SR_ltch, UART_RX_ltch, rx_in_progress, UART_RX>>

KeepFlags == UNCHANGED <<USR_UTEIF, USR_UTCIF, USR_RCIF, USR_OVF, USR_FEF, USR_PEF>>

(* Reads of SR, CR, BR and TX, and writes of BR. *)
AccessOther ==
  /\ Clear({}, FALSE) /\ KeepFlags
  /\ UNCHANGED <<UART_CR, UART_TX, start_tx, clr_start_tx, tx_in_progress, tx_sr, tx_bit_cntr>>

AccessRX ==
  /\ Clear({}, TRUE)
  /\ USR_RCIF' = FALSE /\ USR_OVF' = FALSE /\ USR_FEF' = FALSE /\ USR_PEF' = FALSE
  /\ UNCHANGED <<UART_CR, UART_TX, txVars>>

WriteSR(flags) ==
  /\ Clear(flags, FALSE)
  /\ USR_UTEIF' = (USR_UTEIF /\ "UTEIF" \notin flags)
  /\ USR_UTCIF' = (USR_UTCIF /\ "UTCIF" \notin flags)
  /\ USR_RCIF' = (USR_RCIF /\ "URCIF" \notin flags)
  /\ UNCHANGED <<UART_CR, UART_TX, start_tx, clr_start_tx, tx_in_progress, tx_sr, tx_bit_cntr,
                 USR_OVF, USR_FEF, USR_PEF>>

WriteTX(byte) ==
  /\ Clear({}, FALSE) /\ KeepFlags
  /\ UART_TX' = byte
  /\ start_tx' = ~clr_start_tx
  /\ UNCHANGED <<UART_CR, clr_start_tx, tx_in_progress, tx_sr, tx_bit_cntr>>

(* Disabling the UART resets the transmitter and, with the next edge of      *)
(* smclk, ends a reception; start_tx and the receive flags stay.              *)
WriteCR(cr) ==
  /\ clr_UTEIF' = FALSE /\ clr_UTCIF' = FALSE /\ clr_URCIF' = FALSE /\ clr_SR_RX' = FALSE
  /\ UART_CR' = cr
  /\ IF cr.EN THEN UNCHANGED <<txVars, rx_in_progress>>
     ELSE /\ clr_start_tx' = FALSE /\ tx_in_progress' = FALSE /\ tx_bit_cntr' = 0
          /\ tx_sr' = Reset
          /\ USR_UTEIF' = FALSE /\ USR_UTCIF' = FALSE /\ rx_in_progress' = FALSE
          /\ UNCHANGED start_tx
  /\ UNCHANGED <<UART_TX, UART_RX, USR_RCIF, USR_OVF, USR_FEF, USR_PEF, UART_SR_ltch,
                 UART_RX_ltch>>

----------------------------------------------------------------------------
UartInit ==
  /\ UART_CR = [EN |-> FALSE, CIE |-> FALSE, TEIE |-> FALSE, TCIE |-> FALSE]
  /\ UART_TX = Reset /\ UART_RX = Reset /\ tx_sr = Reset
  /\ start_tx = FALSE /\ clr_start_tx = FALSE /\ tx_in_progress = FALSE /\ tx_bit_cntr = 0
  /\ rx_in_progress = FALSE
  /\ USR_UTEIF = FALSE /\ USR_UTCIF = FALSE
  /\ USR_RCIF = FALSE /\ USR_OVF = FALSE /\ USR_FEF = FALSE /\ USR_PEF = FALSE
  /\ clr_UTEIF = FALSE /\ clr_UTCIF = FALSE /\ clr_URCIF = FALSE /\ clr_SR_RX = FALSE
  /\ UART_SR_ltch = UART_SR /\ UART_RX_ltch = Reset

=============================================================================
