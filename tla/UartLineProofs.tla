--------------------------- MODULE UartLineProofs ---------------------------
(***************************************************************************)
(* Frames arrive, and a frame that lost a bit is reported, for every set   *)
(* of bytes and every noise and drift within the tolerance of the receiver. *)
(***************************************************************************)
EXTENDS UartLine, SequenceTheorems, TLAPS

(* The bits of the frame on the line by their bit count, from the start bit  *)
(* down to the stop bit: as they are sent, and as they are seen.              *)
BitCounts == 0..BIT_COUNTER_START
Before(c, n) == IF c < 10 - n THEN byte[n] ELSE 0
Ones(c) == UCR_PSEL + Before(c, 1) + Before(c, 2) + Before(c, 3) + Before(c, 4)
           + Before(c, 5) + Before(c, 6) + Before(c, 7) + Before(c, 8)
Parity(c) == Ones(c) % 2
Sent(c) ==
  IF c = BIT_COUNTER_START THEN 0
  ELSE IF c > BIT_COUNT_PARITY THEN byte[BIT_COUNTER_START - c]
  ELSE IF c = BIT_COUNT_PARITY /\ UCR_PEN = 1 THEN Parity(BIT_COUNT_PARITY)
  ELSE 1
Seen(c) == IF c = broken THEN 1 - Sent(c) ELSE Sent(c)

(* The parity of what is seen before bit c; it starts with the parity chosen. *)
Lost(c) == IF broken # Whole /\ broken > c THEN 1 ELSE 0
SeenParity(c) == IF c = BIT_COUNT_STOP THEN Lost(c) ELSE (Ones(c) + Lost(c)) % 2

LineTyped ==
  /\ UCR_PEN \in Bit /\ UCR_PSEL \in Bit /\ tx_fast \in BOOLEAN
  /\ tx_in_progress \in BOOLEAN /\ rx_in_progress \in BOOLEAN
  /\ tx_sr \in [1..9 -> Bit] /\ rx_sr \in [1..9 -> Bit]
  /\ tx_parity \in Bit /\ rx_parity \in Bit
  /\ tx_bit_cntr \in Int /\ tx_clk_cntr \in 0..15
  /\ rx_bit_cntr \in Int /\ rx_clk_cntr \in 0..15
  /\ ud_cntr \in Int /\ lead \in Int /\ wrong \in 0..Noise
  /\ byte \in [1..8 -> Bit]
  /\ broken \in {Whole} \union (StopCount + 1)..(BIT_COUNTER_START - 1)

(* The transmitter is at a bit of the frame. *)
Sending ==
  tx_in_progress =>
    /\ tx_bit_cntr \in StopCount..BIT_COUNTER_START
    /\ \A i \in 1..9 : tx_bit_cntr - i >= 1 => tx_sr[i] = Sent(tx_bit_cntr - i + 1)
    /\ tx_bit_cntr >= 1 => tx_parity = Parity(tx_bit_cntr)

(* Edges since the start bit began, at either end. *)
TxEdges == 16 * (BIT_COUNTER_START - tx_bit_cntr) + 15 - tx_clk_cntr
RxEdges == 16 * (BIT_COUNTER_START - rx_bit_cntr) + 15 - rx_clk_cntr
Samples == 15 - rx_clk_cntr

(* Of the first n samples of a bit, those that may be of a neighbouring bit;  *)
(* and what the counter can be, when w more were read wrong.                  *)
Drifted(n) ==
  IF tx_fast THEN (IF n > 16 - Drift THEN n - (16 - Drift) ELSE 0)
  ELSE (IF n < Drift THEN n ELSE Drift)
Counted(count, n, w) ==
  /\ Seen(rx_bit_cntr) = 1 => count >= UD_COUNTER_INIT + n - 2 * (w + Drifted(n))
  /\ Seen(rx_bit_cntr) = 0 => count <= UD_COUNTER_INIT - n + 2 * (w + Drifted(n))

(* The receiver follows: it is never further from the transmitter than the   *)
(* drift, and has every bit that it is past as that bit is seen.              *)
Following ==
  rx_in_progress =>
    /\ tx_in_progress /\ got = Nothing
    /\ rx_bit_cntr \in StopCount..BIT_COUNTER_START
    /\ lead = TxEdges - RxEdges
    /\ lead <= MaxLead /\ lead >= MaxLead - Drift - 1
    /\ rx_bit_cntr = StopCount => rx_clk_cntr >= RX_SAMPLE_POINT
    /\ \A i \in 1..9 : i >= rx_bit_cntr => rx_sr[i] = Seen(BIT_COUNTER_START + rx_bit_cntr - i)
    /\ rx_bit_cntr < BIT_COUNTER_START \/ Samples > 0 => rx_parity = SeenParity(rx_bit_cntr)
    /\ rx_bit_cntr # StopCount => Counted(ud_cntr, Samples, wrong)

(* What the program can read of a frame that has been received. *)
Received ==
  /\ tx_in_progress /\ ~rx_in_progress => got # Nothing
  /\ got # Nothing =>
       /\ broken = Whole => got = <<byte, FALSE, FALSE>>
       /\ broken # Whole /\ UCR_PEN = 1 => got[2] = TRUE

LineInv == LineTyped /\ Sending /\ Following /\ Received

----------------------------------------------------------------------------
(* Facts about the frame. *)

LEMMA OnesAreCounted ==
  ASSUME LineTyped, NEW c \in BitCounts
  PROVE  Ones(c) \in Int /\ Parity(c) \in Bit
<1>1. ASSUME NEW n \in 1..8 PROVE Before(c, n) \in Int
  BY DEF LineTyped, Before, Bit
<1>2. Ones(c) \in Int
  <2> UCR_PSEL \in Int
    BY DEF LineTyped, Bit
  <2> QED
    BY <1>1 DEF Ones
<1> QED
  BY <1>2 DEF Parity, Bit

LEMMA BitsOfTheFrame ==
  ASSUME LineTyped, NEW c \in BitCounts
  PROVE  /\ Sent(c) \in Bit /\ Seen(c) \in Bit
         /\ Lost(c) \in Bit /\ SeenParity(c) \in Bit
<1> USE DEF BitCounts, BIT_COUNTER_START, BIT_COUNT_PARITY, Bit
<1>1. Ones(c) \in Int /\ Parity(BIT_COUNT_PARITY) \in Bit
  BY OnesAreCounted
<1>2. Sent(c) \in Bit
  BY <1>1 DEF Sent, LineTyped
<1> QED
  BY <1>1, <1>2 DEF Seen, SeenParity, Lost

LEMMA XorOfBits ==
  ASSUME NEW a \in Bit, NEW b \in Bit
  PROVE  Xor(a, b) \in Bit
BY DEF Xor, Bit

LEMMA ParityStep ==
  ASSUME LineTyped, NEW c \in 2..BIT_COUNTER_START
  PROVE  /\ Ones(c - 1) = Ones(c) + Sent(c)
         /\ Parity(c - 1) = Xor(Parity(c), Sent(c))
<1> USE DEF BIT_COUNTER_START
<1>1. \A n \in 1..8 : byte[n] \in Bit /\ byte[n] \in Int
  BY DEF LineTyped, Bit
<1>2. UCR_PSEL \in Int
  BY DEF LineTyped, Bit
<1>3. Ones(c - 1) = Ones(c) + Sent(c)
  BY <1>1, <1>2 DEF Ones, Before, Sent, BIT_COUNT_PARITY
<1>4. Ones(c) \in Int /\ Sent(c) \in Int
  BY BitsOfTheFrame, OnesAreCounted DEF BitCounts, Bit
<1> QED
  BY <1>3, <1>4 DEF Parity, Xor

LEMMA SeenParityStep ==
  ASSUME LineTyped, NEW c \in (StopCount + 1)..BIT_COUNTER_START
  PROVE  SeenParity(c - 1) = Xor(SeenParity(c), Seen(c))
<1> USE DEF BIT_COUNTER_START, BIT_COUNT_STOP, BIT_COUNT_PARITY, StopCount
<1>1. c \in BitCounts /\ c - 1 \in BitCounts /\ c \in 1..10
  BY DEF LineTyped, Bit, BitCounts
<1>2. /\ Ones(c) \in Int /\ Lost(c) \in {0, 1} /\ Lost(c - 1) \in {0, 1}
      /\ Sent(c) \in {0, 1}
  BY <1>1, BitsOfTheFrame, OnesAreCounted DEF Bit
<1>3. /\ c # broken => Lost(c - 1) = Lost(c) /\ Seen(c) = Sent(c)
      /\ c = broken => Lost(c - 1) = 1 /\ Lost(c) = 0 /\ Seen(c) = 1 - Sent(c)
  BY <1>1 DEF Lost, Whole, LineTyped, Seen
<1>4. CASE c >= 2
  <2>1. Ones(c - 1) = Ones(c) + Sent(c)
    BY <1>1, <1>4, ParityStep
  <2>2. SeenParity(c - 1) = (Ones(c) + Sent(c) + Lost(c - 1)) % 2
        /\ SeenParity(c) = (Ones(c) + Lost(c)) % 2
    BY <1>1, <1>4, <2>1 DEF SeenParity
  <2> QED
    BY <1>2, <1>3, <2>2 DEF Xor
<1>5. CASE c = 1
  <2>1. UCR_PEN = 1
    BY <1>5 DEF LineTyped, Bit
  <2>2. Sent(c) = Ones(c) % 2
    BY <1>5, <2>1 DEF Sent, Parity
  <2>3. SeenParity(c - 1) = Lost(c - 1) /\ SeenParity(c) = (Ones(c) + Lost(c)) % 2
    BY <1>5 DEF SeenParity
  <2> QED
    BY <1>2, <1>3, <2>2, <2>3 DEF Xor
<1> QED
  BY <1>1, <1>4, <1>5

(* The line shows the bit that the transmitter is at. *)
LEMMA LineShowsBit ==
  ASSUME LineTyped, Sending, tx_in_progress
  PROVE  TX_OUT = Sent(tx_bit_cntr) /\ RX_IN = Seen(tx_bit_cntr)
<1> USE DEF BIT_COUNTER_START, BIT_COUNT_STOP, BIT_COUNT_PARITY
<1>1. /\ tx_bit_cntr \in StopCount..10 /\ StopCount \in 0..1
      /\ UCR_PEN = 1 <=> StopCount = 0
      /\ tx_bit_cntr >= 2 => tx_sr[1] = Sent(tx_bit_cntr)
      /\ tx_bit_cntr >= 1 => tx_parity = Parity(tx_bit_cntr)
  BY DEF Sending, StopCount, LineTyped, Bit
<1>2. TX_OUT = Sent(tx_bit_cntr)
  BY <1>1 DEF TX_OUT, Sent
<1> QED
  BY <1>2 DEF RX_IN, Seen

LEMMA FrameUnchanged ==
  ASSUME UNCHANGED <<configVars, byte, broken>>
  PROVE  \A c \in BitCounts : /\ Sent(c)' = Sent(c) /\ Seen(c)' = Seen(c)
                              /\ Parity(c)' = Parity(c) /\ SeenParity(c)' = SeenParity(c)
<1> TAKE c \in BitCounts
<1>1. \A d \in Int, n \in Int : Before(d, n)' = Before(d, n)
  BY DEF Before
<1>2. Ones(c)' = Ones(c) /\ Ones(BIT_COUNT_PARITY)' = Ones(BIT_COUNT_PARITY)
  BY DEF Ones, Before, configVars
<1>3. Parity(c)' = Parity(c) /\ Parity(BIT_COUNT_PARITY)' = Parity(BIT_COUNT_PARITY)
  BY <1>2 DEF Parity
<1>4. Sent(c)' = Sent(c)
  BY <1>3 DEF Sent, configVars
<1> QED
  BY <1>2, <1>3, <1>4 DEF Seen, SeenParity, Lost

(* The two shift registers. *)
LEMMA SameBounds ==
  ASSUME NEW n \in Nat, NEW m \in Nat, 1..n = 1..m
  PROVE  n = m
<1>1. \A i \in Int : (1 <= i /\ i <= n) <=> (1 <= i /\ i <= m)
  OBVIOUS
<1> QED
  BY <1>1

LEMMA FixedLength ==
  ASSUME NEW S, NEW n \in Nat, NEW s
  PROVE  s \in [1..n -> S] <=> s \in Seq(S) /\ Len(s) = n
<1>1. ASSUME s \in [1..n -> S] PROVE s \in Seq(S) /\ Len(s) = n
  <2>1. s \in Seq(S)
    BY <1>1, SeqDef
  <2>2. Len(s) \in Nat /\ DOMAIN s = 1..Len(s)
    BY <2>1, LenProperties
  <2>3. 1..n = 1..Len(s)
    BY <1>1, <2>2, Zenon
  <2> QED
    BY <2>1, <2>2, <2>3, SameBounds, Zenon
<1>2. ASSUME s \in Seq(S), Len(s) = n PROVE s \in [1..n -> S]
  BY <1>2, LenProperties
<1> QED
  BY <1>1, <1>2

LEMMA ShiftedIn ==
  ASSUME NEW s \in [1..9 -> Bit], NEW v \in Bit
  PROVE  /\ Append(Tail(s), v) \in [1..9 -> Bit]
         /\ \A i \in 1..9 : Append(Tail(s), v)[i] = IF i = 9 THEN v ELSE s[i + 1]
<1>1. s \in Seq(Bit) /\ Len(s) = 9
  BY FixedLength
<1>2. s # <<>>
  <2>1. Len(<<>>) = 0
    OBVIOUS
  <2>2. s = <<>> => Len(s) = 0
    BY <2>1, Zenon
  <2> QED
    BY <1>1, <2>2
<1>3. Tail(s) \in Seq(Bit) /\ Len(Tail(s)) = Len(s) - 1
      /\ \A i \in 1..Len(Tail(s)) : Tail(s)[i] = s[i + 1]
  BY <1>1, <1>2, HeadTailProperties, Zenon
<1>4. Len(Tail(s)) = 8
  BY <1>1, <1>3
<1> DEFINE r == Tail(s)
           t == Append(r, v)
<1> HIDE DEF r
<1>5. t \in Seq(Bit) /\ Len(t) = Len(r) + 1 /\ t[Len(r) + 1] = v /\ \A i \in 1..Len(r) : t[i] = r[i]
  <2> r \in Seq(Bit)
    BY <1>3 DEF r
  <2> QED
    BY AppendProperties
<1>6. Len(t) = 9 /\ t[9] = v /\ \A i \in 1..8 : t[i] = s[i + 1]
  <2> HIDE DEF t
  <2> QED
    BY <1>3, <1>4, <1>5 DEF r
<1>7. t \in [1..9 -> Bit]
  BY <1>5, <1>6, FixedLength
<1> QED
  BY <1>6, <1>7 DEF r

LEMMA LoadedRegister ==
  ASSUME NEW b \in [1..8 -> Bit]
  PROVE  /\ <<0>> \o b \in [1..9 -> Bit]
         /\ \A i \in 1..9 : (<<0>> \o b)[i] = IF i = 1 THEN 0 ELSE b[i - 1]
<1>1. b \in Seq(Bit) /\ Len(b) = 8
  BY FixedLength
<1> DEFINE a == <<0>>
           t == a \o b
<1>2. a \in Seq(Bit) /\ Len(a) = 1 /\ a[1] = 0
  BY DEF Bit
<1> HIDE DEF a
<1>3. t \in Seq(Bit) /\ Len(t) = Len(a) + Len(b)
      /\ \A i \in 1..Len(a) + Len(b) : t[i] = IF i <= Len(a) THEN a[i] ELSE b[i - Len(a)]
  BY <1>1, <1>2, ConcatProperties, Zenon
<1>4. Len(t) = 9 /\ \A i \in 1..9 : t[i] = IF i = 1 THEN 0 ELSE b[i - 1]
  <2> HIDE DEF t
  <2> QED
    BY <1>1, <1>2, <1>3
<1>5. t \in [1..9 -> Bit]
  BY <1>3, <1>4, FixedLength
<1> QED
  BY <1>4, <1>5 DEF a

(* At the end of the stop bit the receiver has always completed the frame. *)
LEMMA ReceiverIsDone ==
  ASSUME LineTyped, Following, tx_clk_cntr = 0, tx_bit_cntr = StopCount
  PROVE  ~rx_in_progress
<1> SUFFICES ASSUME rx_in_progress PROVE FALSE
  OBVIOUS
<1> USE DEF BIT_COUNTER_START, RX_SAMPLE_POINT
<1>1. /\ rx_bit_cntr \in Int /\ rx_bit_cntr >= StopCount /\ rx_clk_cntr \in 0..15
      /\ StopCount \in Int /\ lead \in Int
      /\ rx_bit_cntr = StopCount => rx_clk_cntr >= 7
      /\ lead = 16 * (rx_bit_cntr - StopCount) + rx_clk_cntr
  BY DEF LineTyped, Following, TxEdges, RxEdges, StopCount, BIT_COUNT_STOP, BIT_COUNT_PARITY
<1>2. lead <= 6
  <2> lead <= MaxLead /\ MaxLead \in {0, Drift} /\ Drift \in Nat /\ Drift <= 6
    BY Tolerance, LineAssumption DEF Following, MaxLead
  <2> QED
    BY <1>1
<1> QED
  BY <1>1, <1>2

(* A sample is of the bit that the receiver is at, or counted as drifted. *)
LEMMA SamplesOfNeighbours ==
  ASSUME LineTyped, Following, rx_in_progress, lead >= MaxLead - Drift, tx_bit_cntr \in Int,
         tx_bit_cntr # rx_bit_cntr
  PROVE  Drifted(Samples + 1) = Drifted(Samples) + 1
<1> USE DEF BIT_COUNTER_START
<1>1. /\ lead = 16 * (rx_bit_cntr - tx_bit_cntr) + rx_clk_cntr - tx_clk_cntr
      /\ rx_bit_cntr \in Int /\ rx_clk_cntr \in 0..15 /\ tx_clk_cntr \in 0..15
      /\ Drift \in 0..6 /\ tx_fast \in BOOLEAN
  BY LineAssumption, Tolerance DEF LineTyped, Following, TxEdges, RxEdges
<1>2. CASE tx_fast
  <2>1. lead >= 0 /\ lead <= Drift
    BY <1>1, <1>2 DEF Following, MaxLead
  <2>2. rx_bit_cntr - tx_bit_cntr >= 1
    BY <1>1, <2>1
  <2>3. 15 - rx_clk_cntr >= 16 - Drift
    BY <1>1, <2>1, <2>2
  <2> QED
    BY <1>1, <1>2, <2>3 DEF Drifted, Samples
<1>3. CASE ~tx_fast
  <2>1. lead >= -Drift /\ lead <= 0
    BY <1>1, <1>3 DEF Following, MaxLead
  <2>2. rx_bit_cntr - tx_bit_cntr <= -1
    BY <1>1, <2>1
  <2>3. 15 - rx_clk_cntr < Drift
    BY <1>1, <2>1, <2>2
  <2> QED
    BY <1>1, <1>3, <2>3 DEF Drifted, Samples
<1> QED
  BY <1>2, <1>3

LEMMA SampleIsCounted ==
  ASSUME LineInv, rx_in_progress, rx_bit_cntr # StopCount, lead >= MaxLead - Drift,
         NEW flipped \in Bit, flipped = 1 => wrong < Noise
  PROVE  LET count == ud_cntr_next(Xor(RX_IN, flipped)) IN
         /\ count \in Int
         /\ Counted(count, Samples + 1, wrong + flipped)
         /\ Samples = 15 => BitValue(count) = Seen(rx_bit_cntr)
<1> DEFINE count == ud_cntr_next(Xor(RX_IN, flipped))
<1> USE DEF UD_COUNTER_INIT, Bit
<1>1. /\ rx_clk_cntr \in 0..15 /\ ud_cntr \in Int /\ wrong \in 0..Noise /\ tx_fast \in BOOLEAN
      /\ Noise \in Nat /\ Drift \in 0..6 /\ Noise + Drift <= 7
      /\ Counted(ud_cntr, Samples, wrong) /\ tx_in_progress
      /\ rx_bit_cntr \in BitCounts /\ tx_bit_cntr \in BitCounts
  BY LineAssumption, Tolerance
     DEF LineInv, LineTyped, Following, Sending, BitCounts, StopCount, BIT_COUNT_STOP,
         BIT_COUNT_PARITY
<1>2. Seen(rx_bit_cntr) \in Bit /\ Seen(tx_bit_cntr) \in Bit /\ RX_IN = Seen(tx_bit_cntr)
  BY <1>1, BitsOfTheFrame, LineShowsBit DEF LineInv
<1>3. /\ count \in Int
      /\ Xor(RX_IN, flipped) = 1 => count = ud_cntr + 1
      /\ Xor(RX_IN, flipped) # 1 => count = ud_cntr - 1
  BY <1>1 DEF ud_cntr_next
<1>4. /\ Drifted(Samples) \in Int /\ Drifted(Samples + 1) \in 0..Drift
      /\ Drifted(Samples + 1) >= Drifted(Samples)
  BY <1>1 DEF Drifted, Samples
<1>5. Seen(tx_bit_cntr) # Seen(rx_bit_cntr) => Drifted(Samples + 1) = Drifted(Samples) + 1
  BY <1>1, SamplesOfNeighbours DEF LineInv, BitCounts
<1>6. flipped = 0 => Xor(RX_IN, flipped) = Seen(tx_bit_cntr)
  BY <1>2 DEF Xor
<1>7. Counted(count, Samples + 1, wrong + flipped)
  BY <1>1, <1>2, <1>3, <1>4, <1>5, <1>6 DEF Counted, Samples
<1>8. ASSUME Samples = 15 PROVE BitValue(count) = Seen(rx_bit_cntr)
  <2>1. wrong + flipped + Drifted(16) <= 7 /\ wrong + flipped + Drifted(16) \in Int
    BY <1>1, <1>4, <1>8
  <2>2. /\ Seen(rx_bit_cntr) = 1 => count >= 32 + 16 - 2 * (wrong + flipped + Drifted(16))
        /\ Seen(rx_bit_cntr) = 0 => count <= 32 - 16 + 2 * (wrong + flipped + Drifted(16))
    BY <1>7, <1>8 DEF Counted
  <2> QED
    BY <1>2, <1>3, <2>1, <2>2 DEF BitValue
<1> QED
  BY <1>3, <1>7, <1>8

----------------------------------------------------------------------------
(* The invariant holds at first, and every step keeps it. *)

LEMMA InitLine == Init => LineInv
<1> SUFFICES ASSUME Init PROVE LineInv
  OBVIOUS
<1>1. byte \in [1..8 -> Bit] /\ Noise \in Nat
  BY LineAssumption DEF Init
<1>2. LineTyped
  <2>1. [i \in 1..9 |-> 0] \in [1..9 -> Bit]
    BY DEF Bit
  <2>2. /\ 0 \in Bit /\ 0 \in Int /\ 0 \in 0..15 /\ 15 \in 0..15 /\ 0 \in 0..Noise
        /\ BIT_COUNTER_START \in Int /\ UD_COUNTER_INIT \in Int
    BY <1>1 DEF Bit, BIT_COUNTER_START, UD_COUNTER_INIT
  <2> QED
    BY <1>1, <2>1, <2>2, Zenon DEF Init, LineTyped
<1>3. Sending /\ Following /\ Received
  BY DEF Init, Sending, Following, Received
<1> QED
  BY <1>2, <1>3 DEF LineInv

(* A frame is loaded: the receiver is idle and starts with it. *)
LEMMA LoadKeeps ==
  ASSUME LineInv, ~rx_in_progress, Load, FallingEdge, UNCHANGED configVars
  PROVE  LineInv'
<1> USE DEF BIT_COUNTER_START, UD_COUNTER_INIT, Bit
<1>1. PICK b \in Bytes : byte' = b /\ tx_sr' = <<0>> \o b
  BY DEF Load
<1>2. b \in [1..8 -> Bit] /\ Noise \in Nat /\ Drift \in 0..6
  BY LineAssumption, Tolerance
<1>3. tx_sr' \in [1..9 -> Bit] /\ \A i \in 1..9 : tx_sr'[i] = IF i = 1 THEN 0 ELSE b[i - 1]
  BY <1>1, <1>2, LoadedRegister
<1>4. /\ tx_in_progress' = TRUE /\ rx_in_progress' = TRUE /\ got' = Nothing
      /\ tx_bit_cntr' = 10 /\ tx_clk_cntr' = 15 /\ tx_parity' = UCR_PSEL
      /\ rx_bit_cntr' = 10 /\ rx_clk_cntr' = 15 /\ ud_cntr' = 32 /\ lead' = 0 /\ wrong' = 0
      /\ rx_sr' = rx_sr /\ rx_parity' = rx_parity
      /\ UCR_PEN' = UCR_PEN /\ UCR_PSEL' = UCR_PSEL /\ tx_fast' = tx_fast
      /\ broken' \in {Whole} \union (StopCount + 1)..9 /\ StopCount' = StopCount
  BY DEF Load, FallingEdge, configVars, StopCount
<1>5. LineTyped'
  BY <1>1, <1>2, <1>3, <1>4 DEF LineInv, LineTyped, Whole
<1>6. Sending'
  <2>1. StopCount' \in 0..1
    BY <1>4 DEF StopCount, BIT_COUNT_PARITY, BIT_COUNT_STOP
  <2>2. \A i \in 1..9 : tx_bit_cntr' - i >= 1 => tx_sr'[i] = Sent(tx_bit_cntr - i + 1)'
    BY <1>1, <1>3, <1>4 DEF Sent, BIT_COUNT_PARITY
  <2>3. Parity(tx_bit_cntr)' = UCR_PSEL
    BY <1>4, <1>5 DEF Parity, Ones, Before, LineInv, LineTyped
  <2> QED
    BY <1>4, <2>1, <2>2, <2>3 DEF Sending
<1>7. Following'
  <2>1. StopCount' \in 0..1
    BY <1>4 DEF StopCount, BIT_COUNT_PARITY, BIT_COUNT_STOP
  <2>2. lead' = (TxEdges - RxEdges)'
    BY <1>4 DEF TxEdges, RxEdges
  <2>3. Drifted(Samples)' = 0 /\ Samples' = 0
    BY <1>2, <1>4 DEF Drifted, Samples
  <2>4. Counted(ud_cntr, Samples, wrong)'
    BY <1>4, <2>3 DEF Counted
  <2>5. lead' <= MaxLead' /\ lead' >= MaxLead' - Drift - 1
    BY <1>2, <1>4 DEF MaxLead, LineInv, LineTyped
  <2>6. \A i \in 1..9 : ~ i >= rx_bit_cntr'
    BY <1>4
  <2> QED
    BY <1>4, <2>1, <2>2, <2>3, <2>4, <2>5, <2>6 DEF Following
<1>8. Received'
  BY <1>4 DEF Received
<1> QED
  BY <1>5, <1>6, <1>7, <1>8 DEF LineInv

(* An edge of the transmitter within a frame. *)
LEMMA TxEdgeKeeps ==
  ASSUME LineInv, TxCount \/ TxNextBit
  PROVE  LineInv'
<1> USE DEF BIT_COUNTER_START
<1>1. /\ tx_in_progress /\ tx_in_progress' /\ UNCHANGED <<configVars, byte, broken, rxVars, got>>
      /\ TxAhead
  BY DEF TxCount, TxNextBit
<1>2. \A c \in BitCounts : /\ Sent(c)' = Sent(c) /\ Seen(c)' = Seen(c)
                           /\ Parity(c)' = Parity(c) /\ SeenParity(c)' = SeenParity(c)
  BY <1>1, FrameUnchanged
<1>3. StopCount' = StopCount /\ StopCount \in 0..1
  BY <1>1 DEF StopCount, configVars, BIT_COUNT_PARITY, BIT_COUNT_STOP
<1>4. LineTyped' /\ Sending' /\ TxEdges' = TxEdges + 1
  <2>1. CASE TxCount
    <3>1. tx_clk_cntr' = tx_clk_cntr - 1 /\ tx_clk_cntr > 0
          /\ UNCHANGED <<tx_sr, tx_bit_cntr, tx_parity>>
      BY <2>1 DEF TxCount
    <3>2. LineTyped'
      BY <1>1, <1>3, <3>1 DEF LineInv, LineTyped, TxAhead, rxVars, configVars
    <3>3. Sending'
      BY <1>1, <1>2, <1>3, <3>1 DEF LineInv, Sending, BitCounts
    <3> QED
      BY <3>1, <3>2, <3>3 DEF TxEdges, LineInv, LineTyped
  <2>2. CASE TxNextBit
    <3>1. /\ tx_clk_cntr = 0 /\ tx_bit_cntr # StopCount /\ tx_clk_cntr' = 15
          /\ tx_sr' = Append(Tail(tx_sr), 0) /\ tx_bit_cntr' = tx_bit_cntr - 1
          /\ tx_parity' = Xor(tx_parity, tx_sr[1])
      BY <2>2 DEF TxNextBit
    <3>2. tx_sr' \in [1..9 -> Bit] /\ \A i \in 1..9 : tx_sr'[i] = IF i = 9 THEN 0 ELSE tx_sr[i + 1]
      BY <3>1, ShiftedIn DEF LineInv, LineTyped, Bit
    <3>3. tx_parity' \in Bit
      <4>1. tx_parity \in Bit /\ tx_sr[1] \in Bit
        BY DEF LineInv, LineTyped
      <4> QED
        BY <3>1, <4>1, XorOfBits
    <3>4. LineTyped'
      BY <1>1, <1>3, <3>1, <3>2, <3>3 DEF LineInv, LineTyped, TxAhead, rxVars, configVars
    <3>5. tx_bit_cntr' \in StopCount..10 /\ tx_bit_cntr \in 1..10
      <4> tx_bit_cntr \in StopCount..10
        BY <1>1 DEF LineInv, Sending
      <4> QED
        BY <1>3, <3>1
    <3>6. \A i \in 1..9 : tx_bit_cntr' - i >= 1 => tx_sr'[i] = Sent(tx_bit_cntr - i + 1)'
      <4> SUFFICES ASSUME NEW i \in 1..9, tx_bit_cntr' - i >= 1
                   PROVE  tx_sr'[i] = Sent(tx_bit_cntr - i + 1)'
        OBVIOUS
      <4>1. i + 1 \in 1..9 /\ tx_bit_cntr - (i + 1) >= 1 /\ tx_sr'[i] = tx_sr[i + 1]
        <5>1. i + 1 \in 1..9 /\ tx_bit_cntr - (i + 1) >= 1 /\ i # 9
          BY <3>1, <3>5
        <5> QED
          BY <3>2, <5>1
      <4>2. tx_sr[i + 1] = Sent(tx_bit_cntr - (i + 1) + 1)
        BY <1>1, <4>1 DEF LineInv, Sending
      <4>3. tx_bit_cntr - (i + 1) + 1 = tx_bit_cntr - i /\ tx_bit_cntr' - i + 1 = tx_bit_cntr - i
            /\ tx_bit_cntr - i \in BitCounts
        BY <3>1, <3>5, <4>1 DEF BitCounts
      <4> QED
        BY <1>2, <4>1, <4>2, <4>3
    <3>7. tx_bit_cntr' >= 1 => tx_parity' = Parity(tx_bit_cntr)'
      <4> SUFFICES ASSUME tx_bit_cntr' >= 1 PROVE tx_parity' = Parity(tx_bit_cntr)'
        OBVIOUS
      <4>1. tx_bit_cntr \in 2..10
        BY <3>1, <3>5
      <4>2. Parity(tx_bit_cntr - 1) = Xor(Parity(tx_bit_cntr), Sent(tx_bit_cntr))
        BY <4>1, ParityStep DEF LineInv
      <4>3. tx_parity = Parity(tx_bit_cntr) /\ tx_sr[1] = Sent(tx_bit_cntr)
        BY <1>1, <4>1 DEF LineInv, Sending
      <4>4. Parity(tx_bit_cntr)' = Parity(tx_bit_cntr - 1)
        BY <1>1, <3>1 DEF Parity, Ones, Before, configVars
      <4> QED
        BY <3>1, <4>2, <4>3, <4>4
    <3>8. Sending'
      BY <1>3, <3>5, <3>6, <3>7 DEF Sending
    <3> QED
      BY <3>1, <3>4, <3>8 DEF TxEdges, LineInv, LineTyped
  <2> QED
    BY <2>1, <2>2
<1>5. Following'
  <2> SUFFICES ASSUME rx_in_progress' PROVE Following'
    BY DEF Following
  <2>1. rx_in_progress /\ lead < MaxLead /\ lead' = lead + 1 /\ lead \in Int /\ MaxLead' = MaxLead
    BY <1>1 DEF rxVars, TxAhead, LineInv, LineTyped, MaxLead, configVars
  <2>2. MaxLead \in Int /\ Drift \in Int /\ TxEdges \in Int /\ RxEdges \in Int /\ RxEdges' = RxEdges
    BY <1>1, LineAssumption DEF MaxLead, TxEdges, RxEdges, LineInv, LineTyped, rxVars
  <2>3. lead' = TxEdges' - RxEdges' /\ lead' <= MaxLead' /\ lead' >= MaxLead' - Drift - 1
    BY <1>4, <2>1, <2>2 DEF LineInv, Following
  <2>4. rx_bit_cntr \in StopCount..10 /\ rx_bit_cntr \in BitCounts /\ rx_bit_cntr' = rx_bit_cntr
        /\ Samples' = Samples /\ UNCHANGED <<rx_sr, rx_parity, rx_clk_cntr, ud_cntr, wrong>>
    BY <1>1, <1>3, <2>1 DEF LineInv, Following, BitCounts, rxVars, Samples
  <2>5. \A i \in 1..9 : i >= rx_bit_cntr' => rx_sr'[i] = Seen(10 + rx_bit_cntr - i)'
    BY <1>2, <2>1, <2>4 DEF LineInv, Following, BitCounts
  <2>6. Counted(ud_cntr, Samples, wrong)' <=> Counted(ud_cntr, Samples, wrong)
    BY <1>1, <1>2, <2>4 DEF Counted, Drifted, configVars, Samples
  <2> QED
    BY <1>1, <1>2, <1>3, <2>1, <2>3, <2>4, <2>5, <2>6 DEF LineInv, Following
<1>6. Received'
  BY <1>1 DEF LineInv, Received, rxVars, configVars
<1> QED
  BY <1>4, <1>5, <1>6 DEF LineInv

LEMMA TxDoneKeeps ==
  ASSUME LineInv, TxDone
  PROVE  LineInv'
<1>1. ~rx_in_progress
  BY ReceiverIsDone DEF LineInv, TxDone
<1>2. LineTyped'
  BY <1>1 DEF LineInv, LineTyped, TxDone, TxAhead, rxVars, configVars, StopCount
<1>3. Sending' /\ Following'
  BY <1>1 DEF TxDone, Sending, Following, rxVars
<1>4. Received'
  BY <1>1 DEF TxDone, LineInv, Received, rxVars, configVars
<1> QED
  BY <1>2, <1>3, <1>4 DEF LineInv

(* What every edge of the receiver leaves alone, and what it counts. *)
RxContext ==
  /\ LineTyped /\ tx_in_progress /\ tx_in_progress' /\ got = Nothing
  /\ lead \in Int /\ lead' = lead - 1 /\ lead >= MaxLead - Drift
  /\ MaxLead \in Int /\ MaxLead' = MaxLead /\ lead <= MaxLead /\ Drift \in Nat
  /\ lead = TxEdges - RxEdges /\ TxEdges' = TxEdges /\ TxEdges \in Int
  /\ StopCount \in 0..1 /\ StopCount' = StopCount
  /\ rx_bit_cntr \in StopCount..10 /\ rx_bit_cntr \in BitCounts
  /\ tx_bit_cntr \in StopCount..10 /\ tx_bit_cntr \in BitCounts
  /\ rx_clk_cntr \in 0..15 /\ tx_clk_cntr \in 0..15 /\ Sending'

LEMMA RxEdgeFrame ==
  ASSUME LineInv, rx_in_progress, RxBehind, UNCHANGED <<configVars, txVars>>
  PROVE  RxContext
<1> USE DEF BIT_COUNTER_START
<1>1. LineTyped /\ tx_in_progress /\ tx_in_progress' /\ got = Nothing
  BY DEF LineInv, Following, txVars
<1>2. /\ lead \in Int /\ lead' = lead - 1 /\ lead >= MaxLead - Drift
      /\ MaxLead \in Int /\ MaxLead' = MaxLead /\ lead <= MaxLead /\ Drift \in Nat
  BY <1>1, LineAssumption DEF LineInv, LineTyped, Following, RxBehind, MaxLead, configVars
<1>3. /\ lead = TxEdges - RxEdges /\ TxEdges' = TxEdges /\ TxEdges \in Int
      /\ rx_clk_cntr \in 0..15 /\ tx_clk_cntr \in 0..15
  BY <1>1 DEF LineInv, LineTyped, Following, TxEdges, txVars
<1>4. StopCount \in 0..1 /\ StopCount' = StopCount
  BY DEF StopCount, configVars, BIT_COUNT_PARITY, BIT_COUNT_STOP
<1>5. rx_bit_cntr \in StopCount..10 /\ tx_bit_cntr \in StopCount..10
  BY <1>1 DEF LineInv, Following, Sending
<1>6. \A c \in BitCounts : Sent(c)' = Sent(c) /\ Parity(c)' = Parity(c)
  BY FrameUnchanged DEF txVars
<1>7. Sending'
  BY <1>1, <1>4, <1>5, <1>6 DEF LineInv, Sending, txVars, BitCounts
<1> QED
  BY <1>1, <1>2, <1>3, <1>4, <1>5, <1>7 DEF BitCounts, RxContext

(* A sample within a bit. *)
LEMMA RxSampleKeeps ==
  ASSUME LineInv, rx_in_progress, RxBehind, UNCHANGED <<configVars, txVars>>,
         NEW flipped \in Bit, flipped = 1 => wrong < Noise /\ ~InStopBit,
         wrong' = IF rx_clk_cntr = 0 THEN 0 ELSE wrong + flipped,
         RxSample(Xor(RX_IN, flipped))
  PROVE  LineInv'
<1> RxContext
  BY RxEdgeFrame
<1> USE DEF RxContext, BIT_COUNTER_START, RX_SAMPLE_POINT
<1> DEFINE count == ud_cntr_next(Xor(RX_IN, flipped))
<1>1. /\ rx_clk_cntr > 0 /\ rx_clk_cntr' = rx_clk_cntr - 1 /\ ud_cntr' = count
      /\ rx_bit_cntr = StopCount => rx_clk_cntr # 7
      /\ rx_parity' = IF rx_bit_cntr = 10 THEN UCR_PSEL ELSE rx_parity
      /\ UNCHANGED <<rx_in_progress, rx_sr, rx_bit_cntr, got>>
      /\ wrong' = wrong + flipped
  BY DEF RxSample, InStopBit
<1>2. count \in Int
  BY DEF ud_cntr_next, LineTyped
<1>3. LineTyped'
  <2>1. /\ rx_clk_cntr' \in 0..15 /\ ud_cntr' \in Int /\ lead' \in Int
        /\ rx_parity' \in Bit /\ rx_sr' \in [1..9 -> Bit] /\ rx_bit_cntr' \in Int
        /\ rx_in_progress' \in BOOLEAN
    BY <1>1, <1>2 DEF LineTyped
  <2>2. wrong' \in 0..Noise
    BY <1>1, LineAssumption DEF LineTyped, Bit
  <2> QED
    BY <2>1, <2>2 DEF LineTyped, txVars, configVars
<1>4. \A c \in BitCounts : Seen(c)' = Seen(c) /\ SeenParity(c)' = SeenParity(c)
  BY FrameUnchanged DEF txVars
<1>5. Samples \in 0..14 /\ Samples' = Samples + 1
  BY <1>1 DEF Samples
<1>6. Following'
  <2>1. RxEdges' = RxEdges + 1
    BY <1>1 DEF RxEdges
  <2>2. RxEdges \in Int
    BY DEF RxEdges
  <2>3. lead' = TxEdges' - RxEdges' /\ lead' <= MaxLead' /\ lead' >= MaxLead' - Drift - 1
    BY <2>1, <2>2
  <2>4. rx_bit_cntr' = StopCount' => rx_clk_cntr' >= 7
    BY <1>1 DEF LineInv, Following
  <2>5. \A i \in 1..9 : i >= rx_bit_cntr' => rx_sr'[i] = Seen(10 + rx_bit_cntr - i)'
    BY <1>1, <1>4 DEF LineInv, Following, BitCounts
  <2>6. rx_parity' = SeenParity(rx_bit_cntr)'
    <3>1. CASE rx_bit_cntr = 10
      <4>1. Ones(10) = UCR_PSEL /\ Lost(10) = 0 /\ UCR_PSEL \in Bit
        BY DEF Ones, Before, Lost, LineTyped, Whole, Bit
      <4>2. SeenParity(10) = UCR_PSEL
        BY <4>1 DEF SeenParity, BIT_COUNT_STOP, Bit
      <4> QED
        BY <1>1, <1>4, <3>1, <4>2 DEF BitCounts
    <3>2. CASE rx_bit_cntr < 10
      BY <1>1, <1>4, <3>2 DEF LineInv, Following
    <3> QED
      BY <3>1, <3>2
  <2>7. rx_bit_cntr' # StopCount' => Counted(ud_cntr, Samples, wrong)'
    <3> SUFFICES ASSUME rx_bit_cntr # StopCount PROVE Counted(ud_cntr, Samples, wrong)'
      BY <1>1
    <3>1. Counted(count, Samples + 1, wrong + flipped)
      BY SampleIsCounted
    <3>2. Drifted(Samples)' = Drifted(Samples + 1)
      BY <1>5 DEF Drifted, configVars
    <3> QED
      BY <1>1, <1>4, <1>5, <3>1, <3>2 DEF Counted
  <2> QED
    BY <1>1, <2>3, <2>4, <2>5, <2>6, <2>7 DEF Following
<1>7. Received'
  BY <1>1 DEF Received
<1> QED
  BY <1>3, <1>6, <1>7 DEF LineInv

(* The sixteenth sample: the bit is what is seen on the line. *)
LEMMA RxBitKeeps ==
  ASSUME LineInv, rx_in_progress, RxBehind, UNCHANGED <<configVars, txVars>>,
         NEW flipped \in Bit, flipped = 1 => wrong < Noise /\ ~InStopBit,
         wrong' = IF rx_clk_cntr = 0 THEN 0 ELSE wrong + flipped,
         RxBit(Xor(RX_IN, flipped))
  PROVE  LineInv'
<1> RxContext
  BY RxEdgeFrame
<1> USE DEF RxContext, BIT_COUNTER_START, RX_SAMPLE_POINT, UD_COUNTER_INIT
<1> DEFINE value == BitValue(ud_cntr_next(Xor(RX_IN, flipped)))
<1>1. /\ rx_clk_cntr = 0 /\ rx_sr' = Append(Tail(rx_sr), value)
      /\ rx_parity' = Xor(rx_parity, value) /\ rx_bit_cntr' = rx_bit_cntr - 1
      /\ rx_clk_cntr' = 15 /\ ud_cntr' = 32 /\ wrong' = 0
      /\ rx_in_progress' = (rx_bit_cntr # 10 \/ value = 0) /\ got' = got
  BY DEF RxBit
<1>2. rx_bit_cntr # StopCount /\ rx_bit_cntr \in (StopCount + 1)..10
  <2>1. rx_bit_cntr # StopCount
    BY <1>1 DEF LineInv, Following
  <2> QED
    BY <2>1
<1>3. Samples = 15 /\ value = Seen(rx_bit_cntr) /\ value \in Bit
  <2>1. Samples = 15
    BY <1>1 DEF Samples
  <2>2. value = Seen(rx_bit_cntr)
    BY <1>2, <2>1, SampleIsCounted
  <2> QED
    BY <2>1, <2>2, BitsOfTheFrame
<1> HIDE DEF value
<1>4. rx_in_progress'
  <2>1. rx_bit_cntr = 10 => Seen(rx_bit_cntr) = 0
    BY DEF Seen, Sent, LineTyped, Whole
  <2> QED
    BY <1>1, <1>3, <2>1
<1>5. rx_sr' \in [1..9 -> Bit] /\ \A i \in 1..9 : rx_sr'[i] = IF i = 9 THEN value ELSE rx_sr[i + 1]
  <2>1. rx_sr \in [1..9 -> Bit]
    BY DEF LineTyped
  <2> QED
    BY <1>1, <1>3, <2>1, ShiftedIn, Zenon
<1>6. LineTyped'
  <2>1. rx_parity' \in Bit
    BY <1>1, <1>3, XorOfBits DEF LineTyped
  <2>2. /\ wrong' \in 0..Noise /\ rx_clk_cntr' \in 0..15 /\ ud_cntr' \in Int /\ lead' \in Int
        /\ rx_bit_cntr' \in Int /\ rx_in_progress' \in BOOLEAN
    BY <1>1, <1>4, LineAssumption
  <2> QED
    BY <1>5, <2>1, <2>2 DEF LineTyped, txVars, configVars
<1>7. \A c \in BitCounts : Seen(c)' = Seen(c) /\ SeenParity(c)' = SeenParity(c)
  BY FrameUnchanged DEF txVars
<1>8. Following'
  <2>1. RxEdges' = RxEdges + 1 /\ RxEdges \in Int
    <3> rx_bit_cntr \in Int
      OBVIOUS
    <3> QED
      BY <1>1 DEF RxEdges
  <2>2. lead' = TxEdges' - RxEdges' /\ lead' <= MaxLead' /\ lead' >= MaxLead' - Drift - 1
    BY <2>1
  <2>3. rx_bit_cntr' \in StopCount'..10 /\ rx_bit_cntr' \in BitCounts
    BY <1>1, <1>2 DEF BitCounts
  <2>4. ASSUME NEW i \in 1..9, i >= rx_bit_cntr'
        PROVE  rx_sr'[i] = Seen(10 + rx_bit_cntr - i)'
    <3>1. 10 + rx_bit_cntr' - i = 10 + rx_bit_cntr - (i + 1) /\ 10 + rx_bit_cntr - (i + 1) \in BitCounts
      BY <1>1, <1>2, <2>4 DEF BitCounts
    <3>2. rx_sr'[i] = Seen(10 + rx_bit_cntr - (i + 1))
      <4>1. CASE i = 9
        BY <1>3, <1>5, <4>1
      <4>2. CASE i # 9
        <5> i + 1 \in 1..9 /\ i + 1 >= rx_bit_cntr
          BY <1>1, <2>4, <4>2
        <5> QED
          BY <1>5, <4>2 DEF LineInv, Following
      <4> QED
        BY <4>1, <4>2
    <3> QED
      BY <1>7, <3>1, <3>2
  <2>5. rx_parity' = SeenParity(rx_bit_cntr)'
    <3>1. rx_parity = SeenParity(rx_bit_cntr)
      BY <1>3 DEF LineInv, Following
    <3>2. SeenParity(rx_bit_cntr - 1) = Xor(SeenParity(rx_bit_cntr), Seen(rx_bit_cntr))
      BY <1>2, SeenParityStep
    <3>3. rx_parity' = SeenParity(rx_bit_cntr - 1)
      BY <1>1, <1>3, <3>1, <3>2
    <3> QED
      BY <1>1, <1>7, <2>3, <3>3
  <2>6. Counted(ud_cntr, Samples, wrong)'
    <3>1. Samples' = 0 /\ Drifted(Samples)' = 0
      BY <1>1, Tolerance DEF Samples, Drifted
    <3> QED
      BY <1>1, <3>1 DEF Counted
  <2>7. tx_in_progress' /\ got' = Nothing /\ rx_clk_cntr' >= 7
    BY <1>1
  <2> HIDE DEF RxContext
  <2> QED
    BY <1>4, <2>2, <2>3, <2>4, <2>5, <2>6, <2>7 DEF Following
<1>9. Received'
  BY <1>1, <1>4 DEF Received
<1> QED
  BY <1>6, <1>8, <1>9 DEF LineInv

(* Half way into the stop bit every data bit has come through, and the       *)
(* parity tells whether one was lost.                                         *)
LEMMA RxCompleteKeeps ==
  ASSUME LineInv, rx_in_progress, RxBehind, UNCHANGED <<configVars, txVars>>,
         NEW flipped \in Bit, flipped = 1 => wrong < Noise /\ ~InStopBit,
         wrong' = IF rx_clk_cntr = 0 THEN 0 ELSE wrong + flipped,
         RxComplete(Xor(RX_IN, flipped))
  PROVE  LineInv'
<1> RxContext
  BY RxEdgeFrame
<1> USE DEF RxContext, BIT_COUNTER_START, RX_SAMPLE_POINT, BIT_COUNT_STOP, BIT_COUNT_PARITY
<1> DEFINE sample == Xor(RX_IN, flipped)
<1>1. /\ rx_bit_cntr = StopCount /\ rx_clk_cntr = 7 /\ rx_in_progress' = FALSE
      /\ UNCHANGED <<rx_sr, rx_bit_cntr, rx_parity, rx_clk_cntr, ud_cntr>>
      /\ wrong' = wrong /\ flipped = 0
  BY DEF RxComplete, InStopBit, LineTyped, Bit
<1>g. got' = IF UCR_PEN = 1 THEN <<SubSeq(rx_sr, 1, 8), ParityError, sample = 0>>
             ELSE <<SubSeq(rx_sr, 2, 9), FALSE, sample = 0>>
  BY DEF RxComplete
<1>2. sample = 1
  <2>1. tx_bit_cntr = StopCount
    <3>1. lead = 16 * (rx_bit_cntr - tx_bit_cntr) + 7 - tx_clk_cntr
      BY <1>1 DEF TxEdges, RxEdges
    <3>2. lead >= -6
      BY Tolerance DEF MaxLead
    <3> QED
      BY <1>1, <3>1, <3>2
  <2>2. Seen(StopCount) = 1
    BY DEF Seen, Sent, StopCount, LineTyped, Bit, Whole
  <2>3. RX_IN = 1
    BY <2>1, <2>2, LineShowsBit DEF LineInv
  <2> QED
    BY <1>1, <2>3 DEF Xor
<1>3. LineTyped'
  <2>1. lead' \in Int
    OBVIOUS
  <2>2. rx_in_progress' \in BOOLEAN
    BY <1>1, Zenon
  <2>3. StopCount' = StopCount
    OBVIOUS
  <2> HIDE DEF RxContext
  <2> QED
    BY <1>1, <2>1, <2>2, <2>3, Zenon DEF LineInv, LineTyped, txVars, configVars
<1>4. got' # Nothing
  BY <1>g DEF Nothing
<1>5. broken = Whole => got' = <<byte, FALSE, FALSE>>
  <2> SUFFICES ASSUME broken = Whole PROVE got' = <<byte, FALSE, FALSE>>
    OBVIOUS
  <2>1. \A i \in 1..9 : i >= StopCount => rx_sr[i] = Seen(10 + StopCount - i)
    BY <1>1 DEF LineInv, Following
  <2>2. \A c \in 2..9 : Seen(c) = byte[10 - c]
    BY DEF Seen, Sent, Whole
  <2>3. rx_sr \in Seq(Bit) /\ Len(rx_sr) = 9 /\ byte \in Seq(Bit) /\ Len(byte) = 8
    <3>1. rx_sr \in [1..9 -> Bit] /\ byte \in [1..8 -> Bit]
      BY DEF LineTyped
    <3>2. \A n \in Nat : \A f : f \in [1..n -> Bit] => f \in Seq(Bit) /\ Len(f) = n
      BY FixedLength
    <3> QED
      BY <3>1, <3>2
  <2>4. CASE UCR_PEN = 1
    <3>1. \A i \in 1..8 : rx_sr[i] = byte[i]
      BY <2>1, <2>2, <2>4 DEF StopCount
    <3>2. SubSeq(rx_sr, 1, 8) = byte
      BY <2>3, <3>1
    <3>3. rx_parity = 0
      BY <1>1, <2>4 DEF LineInv, Following, StopCount, SeenParity, Lost
    <3>4. (sample = 0) = FALSE /\ ParityError = FALSE
      BY <1>2, <3>3 DEF ParityError
    <3> HIDE DEF sample
    <3> QED
      BY <1>g, <2>4, <3>2, <3>4, Zenon
  <2>5. CASE UCR_PEN # 1
    <3>1. \A i \in 1..8 : rx_sr[i + 1] = byte[i]
      BY <2>1, <2>2, <2>5 DEF StopCount
    <3>2. SubSeq(rx_sr, 2, 9) = byte
      BY <2>3, <3>1
    <3>3. (sample = 0) = FALSE
      BY <1>2
    <3> HIDE DEF sample
    <3> QED
      BY <1>g, <2>5, <3>2, <3>3, Zenon
  <2> QED
    BY <2>4, <2>5
<1>6. broken # Whole /\ UCR_PEN = 1 => got'[2] = TRUE
  <2> SUFFICES ASSUME broken # Whole, UCR_PEN = 1 PROVE got'[2] = TRUE
    OBVIOUS
  <2>1. rx_parity = 1
    BY <1>1 DEF LineInv, LineTyped, Following, StopCount, SeenParity, Lost, Whole
  <2> QED
    BY <1>g, <2>1 DEF ParityError
<1>7. Following' /\ Received'
  BY <1>1, <1>4, <1>5, <1>6 DEF Following, Received, txVars, configVars, Whole
<1> QED
  BY <1>3, <1>7 DEF LineInv

LEMMA LineInvInductive == LineInv /\ [Next]_vars => LineInv'
<1> SUFFICES ASSUME LineInv, [Next]_vars PROVE LineInv'
  OBVIOUS
<1>1. CASE TxStart
  BY <1>1, LoadKeeps DEF TxStart, LineInv, Following
<1>2. CASE TxCount \/ TxNextBit
  BY <1>2, TxEdgeKeeps
<1>3. CASE TxChain
  BY <1>3, LoadKeeps, ReceiverIsDone DEF TxChain, LineInv
<1>4. CASE TxDone
  BY <1>4, TxDoneKeeps
<1>5. CASE RxEdge
  <2>1. rx_in_progress /\ RxBehind /\ UNCHANGED <<configVars, txVars>>
    BY <1>5 DEF RxEdge
  <2>2. PICK flipped \in Bit :
          /\ flipped = 1 => wrong < Noise /\ ~InStopBit
          /\ wrong' = IF rx_clk_cntr = 0 THEN 0 ELSE wrong + flipped
          /\ \/ RxSample(Xor(RX_IN, flipped))
             \/ RxBit(Xor(RX_IN, flipped))
             \/ RxComplete(Xor(RX_IN, flipped))
    BY <1>5 DEF RxEdge
  <2> QED
    BY <2>1, <2>2, RxSampleKeeps, RxBitKeeps, RxCompleteKeeps
<1>6. CASE UNCHANGED vars
  <2>1. UNCHANGED <<configVars, txVars, rxVars, got, lead>>
    BY <1>6 DEF vars
  <2>2. \A c \in BitCounts : /\ Sent(c)' = Sent(c) /\ Seen(c)' = Seen(c)
                             /\ Parity(c)' = Parity(c) /\ SeenParity(c)' = SeenParity(c)
    BY <2>1, FrameUnchanged DEF txVars
  <2>3. UNCHANGED <<StopCount, Samples, TxEdges, RxEdges, MaxLead>>
    BY <2>1 DEF configVars, txVars, rxVars, StopCount, Samples, TxEdges, RxEdges, MaxLead
  <2>4. LineTyped'
    BY <2>1, <2>3 DEF configVars, txVars, rxVars, LineInv, LineTyped
  <2>5. Sending'
    BY <2>1 DEF configVars, txVars, LineInv, Sending, StopCount, Sent, Parity, Ones, Before
  <2>6. Following'
    BY <2>1 DEF configVars, txVars, rxVars, LineInv, Following, StopCount, Sent, Seen, Parity,
                Ones, Before, Lost, SeenParity, Samples, Drifted, Counted, TxEdges, RxEdges, MaxLead
  <2>7. Received'
    BY <2>1 DEF configVars, txVars, rxVars, LineInv, Received
  <2> QED
    BY <2>4, <2>5, <2>6, <2>7 DEF LineInv
<1> QED
  BY <1>1, <1>2, <1>3, <1>4, <1>5, <1>6 DEF Next

----------------------------------------------------------------------------
(* Every whole frame is received before it ends and as it was sent, for all  *)
(* bytes, with parity of either kind and without, when at most seven of the  *)
(* sixteen samples of a bit come from noise and drift, six of them from the  *)
(* drift (UART.vhd:361-427).                                                  *)
THEOREM EveryFrameArrives == Spec => []FramesArrive
<1>1. LineInv => FramesArrive
  BY ReceiverIsDone DEF LineInv, FramesArrive, Received
<1> QED
  BY <1>1, InitLine, LineInvInductive, PTL DEF Spec

(* A frame that lost one bit, whichever it is, the parity bit included, is    *)
(* received with the parity error flag, for all bytes and both parities      *)
(* (UART.vhd:404-413).                                                        *)
THEOREM OneBitIsCaught == Spec => []ParityCatchesOneBit
<1>1. LineInv => ParityCatchesOneBit
  BY DEF LineInv, ParityCatchesOneBit, Received
<1> QED
  BY <1>1, InitLine, LineInvInductive, PTL DEF Spec

=============================================================================
