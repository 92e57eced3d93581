------------------------------ MODULE UartLine ------------------------------
(***************************************************************************)
(* The transmitter of one UART (UART.vhd) and the receiver of another,     *)
(* bit by bit: both count sixteen edges of their own baud clock to a bit,  *)
(* and the receiver takes the majority of sixteen samples.  A step is one  *)
(* edge of either clock.  One of the clocks is the faster one and gains at *)
(* most Drift edges within a frame, at most Noise samples of a bit are     *)
(* read wrong, and one bit of a frame may be lost altogether (broken).     *)
(***************************************************************************)
EXTENDS Integers, Sequences

CONSTANTS Bytes,           \* what is sent: sequences of eight bits, the lowest first
          Noise, Drift

VARIABLES
  UCR_PEN, UCR_PSEL,       \* parity enabled, odd parity (1) or even (0), the same on both sides
  tx_fast,                 \* the transmitter's clock is the faster one
  tx_in_progress, tx_sr, tx_bit_cntr, tx_parity, tx_clk_cntr,
  rx_in_progress, rx_sr, rx_bit_cntr, rx_parity, rx_clk_cntr, ud_cntr,
  byte, broken,            \* the frame on the line: its byte, the bit count at which it is broken
  got,                     \* what the receiver made of it
  lead, wrong              \* edges the transmitter is ahead, samples read wrong in this bit

configVars == <<UCR_PEN, UCR_PSEL, tx_fast>>
txVars == <<tx_in_progress, tx_sr, tx_bit_cntr, tx_parity, tx_clk_cntr, byte, broken>>
rxVars == <<rx_in_progress, rx_sr, rx_bit_cntr, rx_parity, rx_clk_cntr, ud_cntr, wrong>>
vars == <<configVars, txVars, rxVars, got, lead>>

BIT_COUNTER_START == 10
BIT_COUNT_PARITY == 1
BIT_COUNT_STOP == 0
UD_COUNTER_INIT == 32
\* Variant: the stop bit is read at its end.
stop_bit_end == 0
RX_SAMPLE_POINT == 7
Bit == {0, 1}
Xor(a, b) == (a + b) % 2
Nothing == <<>>            \* value of got: no frame completed
Whole == BIT_COUNTER_START + 1   \* value of broken: no bit is

ASSUME LineAssumption == Bytes \subseteq [1..8 -> Bit] /\ Noise \in Nat /\ Drift \in Nat

(* What the receiver stands: fewer than half of the samples of a bit wrong,  *)
(* and the stop bit sampled, half way, before the transmitter has ended it.  *)
ASSUME Tolerance == Noise + Drift <= 7 /\ Drift <= 6

StopCount == IF UCR_PEN = 1 THEN BIT_COUNT_STOP ELSE BIT_COUNT_PARITY

----------------------------------------------------------------------------
(* The line. *)
TX_OUT ==
  IF ~tx_in_progress \/ tx_bit_cntr = StopCount THEN 1
  ELSE IF tx_bit_cntr = BIT_COUNT_PARITY THEN tx_parity
  ELSE tx_sr[1]

RX_IN == IF tx_in_progress /\ tx_bit_cntr = broken THEN 1 - TX_OUT ELSE TX_OUT

----------------------------------------------------------------------------
(* When the receiver takes a sample, the transmitter is lead edges further   *)
(* than it was at the same sample of a perfect frame.                         *)
MaxLead == IF tx_fast THEN Drift ELSE 0

TxAhead ==
  IF rx_in_progress THEN lead < MaxLead /\ lead' = lead + 1 ELSE UNCHANGED lead

RxBehind ==
  /\ tx_in_progress => lead >= MaxLead - Drift
  /\ lead' = lead - 1

----------------------------------------------------------------------------
(* Transmitter.  A frame is loaded when the line is idle, or at the end of   *)
(* the one before.  Every data bit, or the parity bit, may break.             *)
Load ==
  /\ \E b \in Bytes : byte' = b /\ tx_sr' = <<0>> \o b
  /\ broken' \in {Whole} \union (StopCount + 1)..(BIT_COUNTER_START - 1)
  /\ tx_in_progress' = TRUE
  /\ tx_bit_cntr' = BIT_COUNTER_START
  /\ tx_parity' = UCR_PSEL
  /\ tx_clk_cntr' = 15
  /\ got' = Nothing

(* The falling edge of a start bit starts an idle receiver. *)
FallingEdge ==
  IF rx_in_progress THEN UNCHANGED <<rxVars, lead>>
  ELSE /\ rx_in_progress' = TRUE
       /\ rx_bit_cntr' = BIT_COUNTER_START /\ rx_clk_cntr' = 15 /\ ud_cntr' = UD_COUNTER_INIT
       /\ lead' = 0 /\ wrong' = 0
       /\ UNCHANGED <<rx_sr, rx_parity>>

TxStart == ~tx_in_progress /\ Load /\ FallingEdge /\ UNCHANGED configVars

TxCount ==
  /\ tx_in_progress /\ tx_clk_cntr > 0
  /\ tx_clk_cntr' = tx_clk_cntr - 1
  /\ TxAhead
  /\ UNCHANGED <<configVars, tx_in_progress, tx_sr, tx_bit_cntr, tx_parity, byte, broken, rxVars,
                 got>>

TxNextBit ==
  /\ tx_in_progress /\ tx_clk_cntr = 0 /\ tx_bit_cntr # StopCount
  /\ tx_clk_cntr' = 15
  /\ tx_sr' = Append(Tail(tx_sr), 0)
  /\ tx_bit_cntr' = tx_bit_cntr - 1
  /\ tx_parity' = Xor(tx_parity, tx_sr[1])
  /\ TxAhead
  /\ UNCHANGED <<configVars, tx_in_progress, byte, broken, rxVars, got>>

TxChain ==
  /\ tx_in_progress /\ tx_clk_cntr = 0 /\ tx_bit_cntr = StopCount
  /\ Load /\ FallingEdge
  /\ UNCHANGED configVars

TxDone ==
  /\ tx_in_progress /\ tx_clk_cntr = 0 /\ tx_bit_cntr = StopCount
  /\ tx_in_progress' = FALSE
  /\ TxAhead
  /\ UNCHANGED <<configVars, tx_sr, tx_bit_cntr, tx_parity, tx_clk_cntr, byte, broken, rxVars,
                 got>>

----------------------------------------------------------------------------
(* Receiver: one edge of its baud clock.  The stop bit is read once, half    *)
(* way, and is not disturbed.                                                 *)
ud_cntr_next(sample) == IF sample = 1 THEN ud_cntr + 1 ELSE ud_cntr - 1
BitValue(count) == IF count >= UD_COUNTER_INIT THEN 1 ELSE 0
InStopBit == rx_bit_cntr = StopCount

RxSample(sample) ==
  /\ rx_clk_cntr > 0 /\ ~(InStopBit /\ rx_clk_cntr = RX_SAMPLE_POINT)
  /\ ud_cntr' = ud_cntr_next(sample)
  /\ rx_clk_cntr' = rx_clk_cntr - 1
  /\ rx_parity' = IF rx_bit_cntr = BIT_COUNTER_START THEN UCR_PSEL ELSE rx_parity
  /\ UNCHANGED <<rx_in_progress, rx_sr, rx_bit_cntr, got>>

(* The sixteenth sample decides the bit; a start bit that reads one ends the *)
(* reception.                                                                 *)
RxBit(sample) ==
  LET value == BitValue(ud_cntr_next(sample)) IN
  /\ rx_clk_cntr = 0
  /\ rx_sr' = Append(Tail(rx_sr), value)
  /\ rx_parity' = Xor(rx_parity, value)
  /\ rx_bit_cntr' = rx_bit_cntr - 1
  /\ rx_clk_cntr' = 15
  /\ ud_cntr' = UD_COUNTER_INIT
  /\ rx_in_progress' = (rx_bit_cntr # BIT_COUNTER_START \/ value = 0)
  /\ UNCHANGED got

\* Variant: the flag shows the parity bit, not the check.
parity_bit_received == rx_sr[9] = 1
ParityError == rx_parity = 1

(* got is what the program can read: UARTxRX, USR_PEF, USR_FEF. *)
RxComplete(sample) ==
  /\ InStopBit /\ rx_clk_cntr = RX_SAMPLE_POINT
  /\ got' = IF UCR_PEN = 1 THEN <<SubSeq(rx_sr, 1, 8), ParityError, sample = 0>>
            ELSE <<SubSeq(rx_sr, 2, 9), FALSE, sample = 0>>
  /\ rx_in_progress' = FALSE
  /\ UNCHANGED <<rx_sr, rx_bit_cntr, rx_parity, rx_clk_cntr, ud_cntr>>

RxEdge ==
  /\ rx_in_progress
  /\ RxBehind
  /\ \E flipped \in Bit :
       /\ flipped = 1 => wrong < Noise /\ ~InStopBit
       /\ wrong' = IF rx_clk_cntr = 0 THEN 0 ELSE wrong + flipped
       /\ LET sample == Xor(RX_IN, flipped) IN
          RxSample(sample) \/ RxBit(sample) \/ RxComplete(sample)
  /\ UNCHANGED <<configVars, txVars>>

----------------------------------------------------------------------------
Init ==
  /\ UCR_PEN \in Bit /\ UCR_PSEL \in Bit /\ tx_fast \in BOOLEAN
  /\ tx_in_progress = FALSE /\ tx_sr = [i \in 1..9 |-> 0] /\ tx_bit_cntr = 0 /\ tx_parity = 0
  /\ tx_clk_cntr = 0
  /\ rx_in_progress = FALSE /\ rx_sr = [i \in 1..9 |-> 0] /\ rx_bit_cntr = BIT_COUNTER_START
  /\ rx_parity = 0 /\ rx_clk_cntr = 15 /\ ud_cntr = UD_COUNTER_INIT
  /\ byte \in Bytes /\ broken = Whole /\ got = Nothing /\ lead = 0 /\ wrong = 0

Next == TxStart \/ TxCount \/ TxNextBit \/ TxChain \/ TxDone \/ RxEdge

Spec == Init /\ [][Next]_vars

----------------------------------------------------------------------------
(* Every whole frame is received before it ends, without an error and with   *)
(* the byte that was sent, although the samples drift into the neighbouring   *)
(* bits and some are wrong, and although frames follow each other at once.    *)
FramesArrive ==
  tx_in_progress /\ tx_clk_cntr = 0 /\ tx_bit_cntr = StopCount /\ broken = Whole
    => got = <<byte, FALSE, FALSE>>

(* A frame of which one bit was lost is never taken for a good one when      *)
(* parity is on.                                                              *)
ParityCatchesOneBit ==
  got # Nothing /\ broken # Whole /\ UCR_PEN = 1 => got[2]

=============================================================================
