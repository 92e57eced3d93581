------------------------------ MODULE I2cProofs ------------------------------
(***************************************************************************)
(* The bus carries the bytes of the driver at most once and in order, for  *)
(* every length of a byte, every timeout and any number of calls; and the   *)
(* driver reports a byte as it was answered, as long as no flag of an       *)
(* earlier byte is left over, whatever the slave and the other master do.   *)
(***************************************************************************)
EXTENDS I2c, TLAPS

-----------------------------------------------------------------------------
(* The bytes on the bus. *)

Sending == MasterState \in {"DataTransmitter1", "DataTransmitter3"}
Below(n) == \A i \in DOMAIN bus : bus[i][1] < n

BytesTyped ==
  /\ written \in Nat
  /\ I2CxMTX \in Nat \X Kinds
  /\ MasterData \in Nat \X Kinds
  /\ bus \in Seq(Nat \X BOOLEAN)
  /\ cmd \subseteq Commands

\* What is written last is in I2CxMTX; nothing on the bus is later than that.
Latest == I2CxMTX[1] = written /\ Below(written + 1)

\* The byte that is being sent is later than those the bus has carried.
InHand == Sending => Below(MasterData[1]) /\ MasterData[1] <= written

\* A byte whose command stands has neither been sent nor begun.
Pending == "Write" \in cmd => Below(written) /\ (Sending => MasterData[1] < written)

BytesInv == BytesTyped /\ Latest /\ InHand /\ Pending /\ NothingRepeated

\* The initial states satisfy the invariant.
LEMMA BytesInit == Init => BytesInv
  BY DEF Init, BytesInv, BytesTyped, Latest, InHand, Pending, NothingRepeated, Below,
         Sending, Kinds, Commands

\* A step that leaves the bytes, the bus and the registers alone, keeps or clears
\* commands and does not begin to send keeps the invariant.
LEMMA QuietStep ==
  ASSUME BytesInv, UNCHANGED <<written, I2CxMTX, bus>>, MasterData' \in Nat \X Kinds,
         cmd' \subseteq Commands, "Write" \in cmd' => "Write" \in cmd,
         Sending' => Sending /\ MasterData' = MasterData
  PROVE  BytesInv'
  BY DEF BytesInv, BytesTyped, Latest, InHand, Pending, NothingRepeated, Below

\* Taking the byte ends its command.
LEMMA TakingStep ==
  ASSUME BytesInv, "Write" \in cmd, TakeByte, UNCHANGED <<written, I2CxMTX, bus>>
  PROVE  BytesInv'
  <1>1. "Write" \notin cmd' /\ cmd' \subseteq Commands /\ MasterData' = I2CxMTX
    BY DEF TakeByte, Clears, BytesInv, BytesTyped
  <1>2. Below(MasterData'[1]) /\ MasterData'[1] = written
    BY <1>1 DEF BytesInv, Latest, Pending
  <1> QED
    BY <1>1, <1>2 DEF BytesInv, BytesTyped, Latest, InHand, Pending, NothingRepeated, Below

\* The byte in hand goes to the end of the bus.
LEMMA CarryingStep ==
  ASSUME BytesInv, AckTransmitter3, UNCHANGED <<written, I2CxMTX>>
  PROVE  BytesInv'
  <1>1. PICK acknowledges \in BOOLEAN : bus' = Append(bus, <<MasterData[1], acknowledges>>)
    BY DEF AckTransmitter3
  <1>2. /\ Sending /\ ~Sending' /\ cmd' = cmd /\ MasterData' = MasterData
        /\ bus \in Seq(Nat \X BOOLEAN) /\ MasterData[1] \in Nat /\ written \in Nat
    BY DEF AckTransmitter3, Sending, Clears, BytesInv, BytesTyped
  <1>3. <<MasterData[1], acknowledges>> \in Nat \X BOOLEAN
    BY <1>2
  <1>4. bus' \in Seq(Nat \X BOOLEAN)
    BY <1>1, <1>2, <1>3
  <1>5. \A i \in DOMAIN bus' : \/ i \in DOMAIN bus /\ bus'[i] = bus[i]
                               \/ i = Len(bus) + 1 /\ bus'[i] = <<MasterData[1], acknowledges>>
    BY <1>1, <1>2, <1>3
  <1>6. \A i \in DOMAIN bus : i \in Nat /\ i < Len(bus) + 1 /\ bus[i][1] \in Nat
    BY <1>2
  <1>7. Below(MasterData[1]) /\ MasterData[1] <= written
    BY <1>2 DEF BytesInv, InHand
  <1>8. NothingRepeated'
    BY <1>5, <1>6, <1>7 DEF BytesInv, NothingRepeated, Below
  <1>9. Latest'
    BY <1>2, <1>5, <1>6, <1>7 DEF BytesInv, Latest, Below
  <1>10. Pending'
    <2> SUFFICES ASSUME "Write" \in cmd' PROVE Below(written)'
      BY <1>2 DEF Pending
    <2>1. Below(written) /\ MasterData[1] < written
      BY <1>2 DEF BytesInv, Pending
    <2> QED
      BY <1>5, <2>1 DEF Below
  <1> QED
    BY <1>2, <1>4, <1>8, <1>9, <1>10 DEF BytesInv, BytesTyped, InHand

\* A step of the machine.
LEMMA ClkMasterStep ==
  ASSUME BytesInv, ClkMaster
  PROVE  BytesInv'
  <1> UNCHANGED <<written, I2CxMTX>>
    BY DEF ClkMaster, driver
  <1> cmd \subseteq Commands /\ MasterData \in Nat \X Kinds
    BY DEF BytesInv, BytesTyped
  <1>1. CASE Start1
    BY <1>1, QuietStep DEF Start1, Clears, Sending
  <1>2. CASE Start2
    <2>1. CASE "Write" \in cmd
      BY <1>2, <2>1, TakingStep DEF Start2
    <2>2. CASE "Write" \notin cmd
      BY <1>2, <2>2, QuietStep DEF Start2, Clears, Sending
    <2> QED BY <2>1, <2>2
  <1>3. CASE DataTransmitter1
    BY <1>3, QuietStep DEF DataTransmitter1, Clears, Sending
  <1>4. CASE ArbitrationLost
    BY <1>4, QuietStep DEF ArbitrationLost, Clears, Sending
  <1>5. CASE AckTransmitter3
    BY <1>5, CarryingStep
  <1>6. CASE AckTransmitter4
    <2>1. CASE TakeByte /\ "Write" \in cmd
      BY <1>6, <2>1, TakingStep DEF AckTransmitter4
    <2>2. CASE ~(TakeByte /\ "Write" \in cmd)
      BY <1>6, <2>2, QuietStep DEF AckTransmitter4, Command4, Clears, Sending
    <2> QED BY <2>1, <2>2
  <1>7. CASE DataReceiver1
    BY <1>7, QuietStep DEF DataReceiver1, Clears, Sending
  <1>8. CASE DataReceiver3
    BY <1>8, QuietStep DEF DataReceiver3, Clears, Sending
  <1>9. CASE DataReceiver4
    BY <1>9, QuietStep DEF DataReceiver4, Clears, Sending
  <1>10. CASE AckReceiver1
    BY <1>10, QuietStep DEF AckReceiver1, Clears, Sending
  <1>11. CASE AckReceiver4
    BY <1>11, QuietStep DEF AckReceiver4, Clears, Sending
  <1>12. CASE Stop1
    BY <1>12, QuietStep DEF Stop1, Clears, Sending
  <1>13. CASE Stop2
    BY <1>13, QuietStep DEF Stop2, Clears, Sending
  <1>14. CASE Stop3
    BY <1>14, QuietStep DEF Stop3, Sending
  <1> QED
    BY <1>1, <1>2, <1>3, <1>4, <1>5, <1>6, <1>7, <1>8, <1>9, <1>10, <1>11, <1>12, <1>13,
       <1>14 DEF ClkMaster

\* Writing a byte names it by a number that nothing has yet.
LEMMA CommandStep ==
  ASSUME BytesInv, Command
  PROVE  BytesInv'
  <1>0. UNCHANGED <<bus, MasterData, MasterState>> /\ cmd \subseteq Commands
    BY DEF Command, Outside, fsm, BytesInv, BytesTyped
  <1>1. CASE act \in {"start", "read", "stop"}
    <2>1. /\ UNCHANGED <<written, I2CxMTX>>
          /\ \E c \in {"MST", "MRB", "MSP"} : WriteFCR(c)
      BY <1>1 DEF Command
    <2>2. cmd' \subseteq Commands /\ ("Write" \in cmd' => "Write" \in cmd)
      BY <1>0, <2>1 DEF WriteFCR, Commands
    <2> QED
      BY <1>0, <2>1, <2>2, QuietStep DEF BytesInv, BytesTyped, Sending
  <1>2. CASE act \notin {"start", "read", "stop"}
    <2>1. /\ written' = written + 1 /\ I2CxMTX' = <<written + 1, Address>>
          /\ cmd' = (cmd \cup {"Write"}) \ clearing
      BY <1>2 DEF Command, WriteMTX
    <2>2. Address \in Kinds /\ written \in Nat /\ MasterData \in Nat \X Kinds
      BY DEF Address, Kinds, BytesInv, BytesTyped
    <2>3. BytesTyped'
      <3>1. cmd' \subseteq Commands
        BY <1>0, <2>1 DEF Commands
      <3>2. I2CxMTX' \in Nat \X Kinds /\ written' \in Nat
        BY <2>1, <2>2
      <3> QED
        BY <1>0, <3>1, <3>2 DEF BytesInv, BytesTyped
    <2>4. bus \in Seq(Nat \X BOOLEAN) /\ Below(written + 1)
      BY DEF BytesInv, BytesTyped, Latest
    <2>5. \A i \in DOMAIN bus : bus[i][1] \in Nat
      BY <2>4
    <2>6. Latest' /\ Pending' /\ InHand' /\ NothingRepeated'
      BY <1>0, <2>1, <2>2, <2>4, <2>5
      DEF BytesInv, Latest, Pending, InHand, NothingRepeated, Below, Sending
    <2> QED
      BY <2>3, <2>6 DEF BytesInv
  <1> QED
    BY <1>1, <1>2

\* Every other step of the driver or of the bus leaves the bytes alone.
LEMMA OtherSteps ==
  ASSUME BytesInv,
         \/ Check \/ Enable \/ Poll \/ PollEnds \/ GivesUp \/ GiveUp \/ SwitchOff
         \/ Arbitration \/ Verdict
         \/ (\E c \in Calls : Call(c)) \/ OtherStarts \/ OtherStops
  PROVE  BytesInv'
  <1>0. cmd \subseteq Commands /\ MasterData \in Nat \X Kinds
    BY DEF BytesInv, BytesTyped
  <1>1. CASE \/ Check \/ Enable \/ Poll \/ PollEnds \/ GivesUp \/ Arbitration \/ Verdict
             \/ (\E c \in Calls : Call(c)) \/ OtherStarts \/ OtherStops
    <2>1. UNCHANGED <<written, I2CxMTX, bus, MasterData, MasterState, cmd>>
      BY <1>1 DEF Check, Enable, Poll, PollEnds, GivesUp, Arbitration, Verdict, Call, OtherStarts,
                  OtherStops, Hardware, Outside, fsm, driver
    <2> QED
      BY <1>0, <2>1, QuietStep DEF Sending
  <1>2. CASE GiveUp
    BY <1>0, <1>2, QuietStep DEF GiveUp, WriteFCR, Outside, fsm, Sending, Commands
  <1>3. CASE SwitchOff
    <2>1. /\ UNCHANGED <<written, I2CxMTX, bus>> /\ cmd' = {} /\ ~Sending'
          /\ MasterData' = <<0, "write">>
      BY <1>3 DEF SwitchOff, Disable, Outside, Sending
    <2> QED
      BY <2>1, QuietStep DEF Kinds
  <1> QED
    BY <1>1, <1>2, <1>3

\* Nothing the driver or the machine does sends a byte twice or out of order: the
\* clear line of MasterWrite is up before the machine can ask for the next byte.
THEOREM BytesGoOutOnce == Spec => []NothingRepeated
  <1>1. BytesInv /\ [Next]_vars => BytesInv'
    <2> SUFFICES ASSUME BytesInv, [Next]_vars PROVE BytesInv'
      OBVIOUS
    <2>1. CASE ClkMaster
      BY <2>1, ClkMasterStep
    <2>2. CASE Command
      BY <2>2, CommandStep
    <2>3. CASE \/ Check \/ Enable \/ Poll \/ PollEnds \/ GivesUp \/ GiveUp \/ SwitchOff
               \/ Arbitration \/ Verdict \/ (\E c \in Calls : Call(c)) \/ OtherStarts \/ OtherStops
      BY <2>3, OtherSteps
    <2>4. CASE UNCHANGED vars
      <3>1. UNCHANGED <<written, I2CxMTX, bus, MasterData, MasterState, cmd>>
        BY <2>4 DEF vars, fsm, driver
      <3> QED
        BY <3>1, QuietStep DEF BytesInv, BytesTyped, Sending
    <2> QED
      BY <2>1, <2>2, <2>3, <2>4 DEF Next, Driver
  <1>2. BytesInv => NothingRepeated
    BY DEF BytesInv
  <1> QED
    BY BytesInit, <1>1, <1>2, PTL DEF Spec

-----------------------------------------------------------------------------
(* What the driver reports. *)

\* No byte has been answered or lost since the flags were last clear. The
\* driver never clears one, so that once this is false it remains so.
Unanswered == flags \cap {"MXC", "MNR", "MARB"} = {}

\* The machine has no byte and no command but to start.
Ready == MasterState \in {"Start1", "Start2"} /\ cmd \subseteq {"MST"}

\* Where the driver can be.
Places ==
  /\ act \in {"none", "start", "byte", "queue", "last", "read", "stop"}
  /\ at \in {"none", "check", "enable", "command", "poll", "arbitration", "verdict", "give up",
         "disable"}
  /\ call = "none" <=> act = "none"
  /\ at = "none" <=> act = "none"
  /\ at \in {"check", "enable"} => act = "start"
  /\ at = "arbitration" => act \in {"byte", "queue", "last"}
  /\ at \in {"give up", "disable"} => act # "start"

\* What a call may rely on: past its first byte, a byte has been answered.
Later ==
  /\ open # "closed" => ~Unanswered
  /\ act \in {"queue", "last", "read", "stop"} => ~Unanswered
  /\ act = "byte" /\ at \in {"arbitration", "verdict"} => ~Unanswered

\* Before its first byte, the machine is ready.
Before == Unanswered /\ ~(act = "byte" /\ at # "command") => Ready

\* The byte the driver waits for, from its command to its answer.
Lost == "MARB" \in flags
Unsent == Unanswered /\ MasterState \in {"Start1", "Start2"} /\ cmd \subseteq {"MST", "Write"}
InFlight == Unanswered /\ Sending /\ MasterData[1] = written /\ cmd \subseteq {"MST"}
OnBus == \E i \in DOMAIN bus : bus[i] = <<written, "MNR" \notin flags>>
Answered == /\ MasterState \in {"AckTransmitter4", "Start1", "Start2"}
            /\ cmd \subseteq {"MST"} /\ OnBus
Waits == clean /\ act = "byte" =>
           /\ at \in {"poll", "arbitration"} => Lost \/ Unsent \/ InFlight \/ Answered
           /\ at = "verdict" => Answered

AnswerInv == BytesInv /\ Places /\ Later /\ Before /\ Waits

LEMMA AnswerInit == Init => AnswerInv
  BY BytesInit DEF Init, AnswerInv, Places, Later, Before, Waits, Ready, Unanswered

----------------------------------------------------------------------------
\* A step of the machine only adds to the flags of an answer.
LEMMA AnswersStay ==
  ASSUME ClkMaster
  PROVE  flags \cap {"MXC", "MNR", "MARB"} \subseteq flags'
  BY DEF ClkMaster, Start1, Start2, DataTransmitter1, ArbitrationLost, AckTransmitter3,
         AckTransmitter4, DataReceiver1, DataReceiver3, DataReceiver4, AckReceiver1,
         AckReceiver4, Stop1, Stop2, Stop3, Started, Stopped, Sampled

\* A machine that is ready stays so.
LEMMA ReadyStays ==
  ASSUME ClkMaster, Ready
  PROVE  Ready'
  <1>1. Start1 \/ Start2
    BY DEF Ready, ClkMaster, Start1, Start2, DataTransmitter1, ArbitrationLost,
           AckTransmitter3, AckTransmitter4, DataReceiver1, DataReceiver3, DataReceiver4,
           AckReceiver1, AckReceiver4, Stop1, Stop2, Stop3
  <1> QED BY <1>1 DEF Ready, Start1, Start2, Clears

\* An answered byte stays on the bus, with the answer that the flags show.
LEMMA AnswerRemains ==
  ASSUME BytesInv, ClkMaster, Answered
  PROVE  Answered'
  <1> UNCHANGED written
    BY DEF ClkMaster, driver
  <1>1. Start1 \/ Start2 \/ AckTransmitter4
    BY DEF Answered, ClkMaster, Start1, Start2, DataTransmitter1, ArbitrationLost,
           AckTransmitter3, AckTransmitter4, DataReceiver1, DataReceiver3, DataReceiver4,
           AckReceiver1, AckReceiver4, Stop1, Stop2, Stop3
  <1>2. UNCHANGED bus /\ ("MNR" \in flags' <=> "MNR" \in flags)
    <2>1. CASE Start1
      <3>1. PICK falls \in BOOLEAN :
              flags' \in {flags, {"MSTS"} \cup (IF falls THEN Started ELSE flags)}
        BY <2>1 DEF Start1, Edges
      <3> QED BY <2>1, <3>1 DEF Start1, Started
    <2>2. CASE Start2
      BY <2>2 DEF Start2
    <2>3. CASE AckTransmitter4
      BY <2>3 DEF AckTransmitter4
    <2> QED BY <1>1, <2>1, <2>2, <2>3
  <1>3. OnBus'
    BY <1>2 DEF Answered, OnBus
  <1>4. /\ MasterState' \in {"AckTransmitter4", "Start1", "Start2"}
        /\ cmd' \subseteq {"MST"}
    <2>1. CASE Start1
      BY <2>1 DEF Answered, Start1, Clears
    <2>2. CASE Start2
      BY <2>2 DEF Answered, Start2, Clears
    <2>3. CASE AckTransmitter4
      BY <2>3 DEF Answered, AckTransmitter4, Command4, Clears
    <2> QED BY <1>1, <2>1, <2>2, <2>3
  <1> QED BY <1>3, <1>4 DEF Answered

\* The byte is taken by Start2, and goes to the bus by AckTransmitter3.
LEMMA ByteGoesOn ==
  ASSUME BytesInv, ClkMaster, Lost \/ Unsent \/ InFlight \/ Answered
  PROVE  (Lost \/ Unsent \/ InFlight \/ Answered)'
  <1> UNCHANGED written
    BY DEF ClkMaster, driver
  <1>1. CASE Lost
    BY <1>1, AnswersStay DEF Lost
  <1>2. CASE Unsent
    <2>1. Start1 \/ Start2
      BY <1>2 DEF Unsent, ClkMaster, Start1, Start2, DataTransmitter1, ArbitrationLost,
             AckTransmitter3, AckTransmitter4, DataReceiver1, DataReceiver3, DataReceiver4,
             AckReceiver1, AckReceiver4, Stop1, Stop2, Stop3
    <2>2. CASE Start1
      BY <1>2, <2>2 DEF Unsent, Start1, Clears, Unanswered, Started
    <2>3. CASE Start2 /\ "Write" \in cmd
      <3>1. MasterData' = I2CxMTX /\ I2CxMTX[1] = written
        BY <2>3 DEF Start2, TakeByte, BytesInv, Latest
      <3>2. InFlight'
        BY <1>2, <2>3, <3>1 DEF Unsent, InFlight, Sending, Start2, TakeByte, Clears, Unanswered
      <3> QED BY <3>2
    <2>4. CASE Start2 /\ "Write" \notin cmd
      BY <1>2, <2>4 DEF Unsent, Start2, Clears, Unanswered
    <2> QED BY <2>1, <2>2, <2>3, <2>4
  <1>3. CASE InFlight
    <2>1. DataTransmitter1 \/ ArbitrationLost \/ AckTransmitter3
      BY <1>3 DEF InFlight, Sending, ClkMaster, Start1, Start2, DataTransmitter1,
             ArbitrationLost, AckTransmitter3, AckTransmitter4, DataReceiver1, DataReceiver3,
             DataReceiver4, AckReceiver1, AckReceiver4, Stop1, Stop2, Stop3
    <2>2. CASE DataTransmitter1
      BY <1>3, <2>2 DEF InFlight, Sending, DataTransmitter1, Clears, Unanswered
    <2>3. CASE ArbitrationLost
      BY <2>3 DEF ArbitrationLost, Lost
    <2>4. CASE AckTransmitter3
      <3>1. PICK acknowledges \in BOOLEAN : /\ flags' = Sampled(acknowledges)
                                            /\ bus' = Append(bus, <<written, acknowledges>>)
        BY <1>3, <2>4 DEF AckTransmitter3, InFlight
      <3>2. bus \in Seq(Nat \X BOOLEAN) /\ written \in Nat
        BY DEF BytesInv, BytesTyped
      <3>3. Len(bus) + 1 \in DOMAIN bus' /\ bus'[Len(bus) + 1] = <<written, acknowledges>>
        BY <3>1, <3>2
      <3>4. acknowledges = ("MNR" \notin flags')
        BY <1>3, <3>1 DEF InFlight, Unanswered, Sampled
      <3>5. OnBus'
        BY <3>3, <3>4 DEF OnBus
      <3>6. MasterState' = "AckTransmitter4" /\ cmd' \subseteq {"MST"}
        BY <1>3, <2>4 DEF AckTransmitter3, InFlight, Clears
      <3> QED BY <3>5, <3>6 DEF Answered
    <2> QED BY <2>1, <2>2, <2>3, <2>4
  <1>4. CASE Answered
    BY <1>4, AnswerRemains
  <1> QED BY <1>1, <1>2, <1>3, <1>4

\* A step of the machine.
LEMMA MachineAnswers ==
  ASSUME AnswerInv, ClkMaster
  PROVE  AnswerInv'
  <1>1. UNCHANGED <<call, act, at, open, clean>>
    BY DEF ClkMaster, driver
  <1>2. BytesInv'
    BY ClkMasterStep DEF AnswerInv
  <1>3. Unanswered' => Unanswered
    BY AnswersStay DEF Unanswered
  <1>4. Places' /\ Later'
    BY <1>1, <1>3 DEF AnswerInv, Places, Later
  <1>5. Before'
    BY <1>1, <1>3, ReadyStays DEF AnswerInv, Before
  <1>6. Waits'
    BY <1>1, ByteGoesOn, AnswerRemains DEF AnswerInv, Waits
  <1> QED BY <1>2, <1>4, <1>5, <1>6 DEF AnswerInv

----------------------------------------------------------------------------
\* A part that gives up or is judged returns, and the call is closed or answered.
LEMMA Returns ==
  ASSUME NEW value, Return(value)
  PROVE  /\ call' = "none" /\ act' = "none" /\ at' = "none"
         /\ open' # "closed" => /\ value \in {"I2C_GOOD", "I2C_MASTER_NACK_RECEIVED"}
                                /\ act = "byte" \/ call = "rx_start" \/ open # "closed"
  BY DEF Return

\* A start that failed closes the call.
LEMMA Closes ==
  ASSUME \/ Return("I2C_BUS_BUSY") \/ Return("I2C_START_CONDITION_TIMEOUT")
         \/ Return("I2C_START_CONDITION_FAILED")
  PROVE  call' = "none" /\ act' = "none" /\ at' = "none" /\ open' = "closed"
  BY DEF Return

\* The command of a part; with the byte of a start, the machine is ready for it.
LEMMA CommandAnswers ==
  ASSUME AnswerInv, Command
  PROVE  AnswerInv'
  <1>1. BytesInv'
    BY CommandStep DEF AnswerInv
  <1>2. /\ at = "command" /\ at' = "poll" /\ flags' = flags
        /\ UNCHANGED <<call, act, open, MasterState>>
    BY DEF Command, WriteSR, fsm
  <1>3. Unanswered' <=> Unanswered
    BY <1>2 DEF Unanswered
  <1>4. Places' /\ Later'
    BY <1>2, <1>3 DEF AnswerInv, Places, Later
  <1>5. CASE act = "byte"
    <2>1. /\ clean' <=> Unanswered
          /\ cmd' \subseteq cmd \cup {"Write"}
      BY <1>5 DEF Command, WriteMTX, Unanswered
    <2>2. Unanswered => Unsent'
      BY <1>2, <1>3, <2>1 DEF AnswerInv, Before, Ready, Unsent
    <2> QED
      BY <1>1, <1>2, <1>4, <1>5, <2>1, <2>2 DEF AnswerInv, Before, Waits
  <1>6. CASE act = "start"
    <2>1. cmd' \subseteq cmd \cup {"MST"}
      BY <1>6 DEF Command, WriteFCR
    <2> QED
      BY <1>1, <1>2, <1>3, <1>4, <1>6, <2>1 DEF AnswerInv, Before, Ready, Waits
  <1>7. CASE act \notin {"byte", "start"}
    BY <1>1, <1>2, <1>3, <1>4, <1>7 DEF AnswerInv, Places, Later, Before, Waits
  <1> QED BY <1>5, <1>6, <1>7

\* What the steps below have in common: flags of an answer, bytes and machine stay.
Still == UNCHANGED <<flags, cmd, MasterState, MasterData, written, bus, clean>>

LEMMA StillHelps ==
  ASSUME Still
  PROVE  /\ Unanswered' <=> Unanswered
         /\ Ready' <=> Ready
         /\ (Lost \/ Unsent \/ InFlight \/ Answered)' <=> (Lost \/ Unsent \/ InFlight \/ Answered)
         /\ Answered' <=> Answered
  BY DEF Still, Unanswered, Ready, Lost, Unsent, InFlight, Answered, OnBus, Sending

LEMMA DriverAnswers ==
  ASSUME AnswerInv,
         \/ Check \/ Enable \/ Poll \/ PollEnds \/ GivesUp \/ Arbitration \/ Verdict
         \/ \E c \in Calls : Call(c)
  PROVE  AnswerInv'
  <1>1. BytesInv'
    BY OtherSteps DEF AnswerInv
  <1>2. Still
    BY DEF Check, Enable, Poll, PollEnds, GivesUp, Arbitration, Verdict, Call, Hardware, Outside, fsm,
           WriteSR, Still
  <1> USE DEF AnswerInv
  <1>3. CASE Check
    <2>1. CASE Return("I2C_BUS_BUSY")
      BY <1>1, <1>2, <1>3, <2>1, Closes, StillHelps DEF Check, Places, Later, Before, Waits
    <2>2. CASE Part("start", "enable") /\ UNCHANGED <<call, ret, open>>
      BY <1>1, <1>2, <1>3, <2>2, StillHelps DEF Check, Part, Places, Later, Before, Waits
    <2> QED BY <1>3, <2>1, <2>2 DEF Check
  <1>4. CASE Enable
    BY <1>1, <1>2, <1>4, StillHelps DEF Enable, Places, Later, Before, Waits
  <1>5. CASE Poll
    BY <1>1, <1>2, <1>5, StillHelps DEF Poll, Places, Later, Before, Waits
  <1>6. CASE PollEnds
    <2>1. act = "byte" => ~Unanswered
      BY <1>6 DEF PollEnds, Awaited, Unanswered
    <2> QED
      BY <1>1, <1>2, <1>6, <2>1, StillHelps DEF PollEnds, Places, Later, Before, Waits
  <1>7. CASE GivesUp
    <2>1. CASE act = "start"
      <3>1. Return("I2C_START_CONDITION_TIMEOUT")
        BY <1>7, <2>1 DEF GivesUp
      <3> QED
        BY <1>1, <1>2, <2>1, <3>1, Closes, StillHelps DEF Places, Later, Before, Waits
    <2>2. CASE act = "stop"
      BY <1>1, <1>2, <1>7, <2>2, Returns, StillHelps DEF GivesUp, Places, Later, Before, Waits
    <2>3. CASE act \notin {"start", "stop"}
      BY <1>1, <1>2, <1>7, <2>3, StillHelps DEF GivesUp, Places, Later, Before, Waits
    <2> QED BY <2>1, <2>2, <2>3
  <1>8. CASE Arbitration
    <2>1. CASE Lost
      <3>1. Return("I2C_ARBITRATION_LOSS")
        BY <1>8, <2>1 DEF Arbitration, Lost
      <3>2. ~Unanswered
        BY <2>1 DEF Lost, Unanswered
      <3> QED
        BY <1>1, <1>2, <3>1, <3>2, Returns, StillHelps DEF Places, Later, Before, Waits
    <2>2. CASE ~Lost
      <3>1. /\ at = "arbitration" /\ at' = "verdict" /\ UNCHANGED <<call, act, open>>
        BY <1>8, <2>2 DEF Arbitration, Lost
      <3>2. clean /\ act = "byte" => Answered
        BY <2>2, <3>1 DEF Later, Waits, Unsent, InFlight
      <3> QED
        BY <1>1, <1>2, <3>1, <3>2, StillHelps DEF Still, Places, Later, Before, Waits
    <2> QED BY <2>1, <2>2
  <1>9. CASE Verdict
    <2>1. CASE act = "start"
      <3>1. CASE "STR" \in flags
        BY <1>1, <1>2, <1>9, <2>1, <3>1, StillHelps
        DEF Verdict, Part, Places, Later, Before, Waits
      <3>2. CASE "STR" \notin flags
        <4>1. Return("I2C_START_CONDITION_FAILED")
          BY <1>9, <2>1, <3>2 DEF Verdict
        <4> QED
          BY <1>1, <1>2, <2>1, <4>1, Closes, StillHelps DEF Places, Later, Before, Waits
      <3> QED BY <3>1, <3>2
    <2>2. CASE act # "start"
      <3>1. ~Unanswered
        BY <1>9, <2>2 DEF Verdict, Places, Later
      <3>2. CASE act = "queue" /\ Answer = "I2C_GOOD"
        BY <1>1, <1>2, <1>9, <3>1, <3>2, StillHelps
        DEF Verdict, Part, Places, Later, Before, Waits
      <3>3. CASE ~(act = "queue" /\ Answer = "I2C_GOOD")
        <4>1. \E value : Return(value)
          BY <1>9, <2>2, <3>3 DEF Verdict, Places
        <4> QED
          BY <1>1, <1>2, <3>1, <4>1, Returns, StillHelps DEF Places, Later, Before, Waits
      <3> QED BY <3>2, <3>3
    <2> QED BY <2>1, <2>2
  <1>10. ASSUME NEW c \in Calls, Call(c) PROVE AnswerInv'
    <2>1. /\ call = "none" /\ act = "none" /\ call' = c /\ c # "none" /\ open' = open
          /\ MayCall(c)
      BY <1>10 DEF Call, Calls, Places
    <2>2. CASE c \in {"tx_start", "rx_start"}
      BY <1>1, <1>2, <1>10, <2>1, <2>2, StillHelps DEF Call, Part, Places, Later, Before, Waits
    <2>3. CASE c \notin {"tx_start", "rx_start"}
      <3>1. ~Unanswered
        BY <2>1, <2>3 DEF MayCall, Later
      <3>2. act' \in {"byte", "queue", "read", "stop"} /\ at' = "command"
        BY <1>10, <2>3 DEF Call, Part, Calls
      <3> QED
        BY <1>1, <1>2, <2>1, <3>1, <3>2, StillHelps DEF Places, Later, Before, Waits
    <2> QED BY <2>2, <2>3
  <1> QED BY <1>3, <1>4, <1>5, <1>6, <1>7, <1>8, <1>9, <1>10

\* Giving a byte up leaves a machine that has been switched off.
LEMMA GivingUpAnswers ==
  ASSUME AnswerInv, GiveUp \/ SwitchOff
  PROVE  AnswerInv'
  <1>1. BytesInv'
    BY OtherSteps DEF AnswerInv
  <1> USE DEF AnswerInv
  <1>2. CASE GiveUp
    <2>1. /\ at = "give up" /\ at' = "disable"
          /\ UNCHANGED <<call, act, open, flags>>
      BY <1>2 DEF GiveUp
    <2> QED
      BY <1>1, <2>1 DEF Places, Later, Before, Waits, Unanswered
  <1>3. CASE SwitchOff
    <2>1. PICK value \in {"I2C_MASTER_RX_TIMEOUT", "I2C_MASTER_TX_TIMEOUT"} : Return(value)
      BY <1>3 DEF SwitchOff
    <2>2. call' = "none" /\ act' = "none" /\ at' = "none" /\ open' = "closed"
      BY <2>1, Returns
    <2>3. Ready'
      BY <1>3 DEF SwitchOff, Disable, Ready
    <2> QED
      BY <1>1, <2>2, <2>3 DEF Places, Later, Before, Waits
  <1> QED BY <1>2, <1>3

\* Another master only makes the sensor of the bus set its flags.
LEMMA OthersAnswer ==
  ASSUME AnswerInv, OtherStarts \/ OtherStops
  PROVE  AnswerInv'
  <1>1. BytesInv'
    BY OtherSteps DEF AnswerInv
  <1>2. /\ UNCHANGED <<cmd, MasterState, MasterData, written, bus, clean, call, act, at, open>>
        /\ flags' \cap {"MXC", "MNR", "MARB"} = flags \cap {"MXC", "MNR", "MARB"}
    BY DEF OtherStarts, OtherStops, Started, Stopped, fsm, driver
  <1>3. /\ Unanswered' <=> Unanswered
        /\ Ready' <=> Ready
        /\ Lost' <=> Lost
        /\ OnBus' <=> OnBus
    BY <1>2 DEF Unanswered, Ready, Lost, OnBus
  <1>4. Places' /\ Later' /\ Before'
    BY <1>2, <1>3 DEF AnswerInv, Places, Later, Before
  <1>5. Waits'
    BY <1>2, <1>3 DEF AnswerInv, Waits, Unsent, InFlight, Sending, Answered
  <1> QED BY <1>1, <1>4, <1>5 DEF AnswerInv

\* With no flag of an earlier byte left over, i2cx_master_tx_byte reports an
\* acknowledge only of its own byte, and a refusal only when it was refused
\* (i2c_master.c 66-99).
THEOREM AnswersAreTrue == Spec => []AnswerIsTrue
  <1>1. AnswerInv /\ [Next]_vars => AnswerInv'
    <2> SUFFICES ASSUME AnswerInv, [Next]_vars PROVE AnswerInv'
      OBVIOUS
    <2>1. CASE UNCHANGED vars
      <3>1. /\ UNCHANGED <<written, I2CxMTX, bus, MasterData, MasterState, cmd, flags, clean>>
            /\ UNCHANGED <<call, act, at, open>>
        BY <2>1 DEF vars, fsm, driver
      <3>2. BytesInv'
        BY <3>1, QuietStep DEF AnswerInv, BytesInv, BytesTyped, Sending
      <3> QED
        BY <3>1, <3>2, StillHelps DEF Still, AnswerInv, Places, Later, Before, Waits
    <2> QED
      BY <2>1, MachineAnswers, CommandAnswers, DriverAnswers, GivingUpAnswers, OthersAnswer
      DEF Next, Driver
  <1>2. AnswerInv => AnswerIsTrue
    <2> SUFFICES ASSUME AnswerInv, Reporting, clean PROVE AnswerIsTrue
      BY DEF AnswerIsTrue
    <2>1. OnBus
      BY DEF AnswerInv, Reporting, Waits, Answered
    <2> QED
      BY <2>1 DEF AnswerIsTrue, Answer, OnBus, Acknowledged, Refused
  <1> QED
    BY AnswerInit, <1>1, <1>2, PTL DEF Spec

----------------------------------------------------------------------------
(* Types. The names of bytes keep to their bound because a call is made     *)
(* only when there is room for the bytes it writes, and it writes no more.  *)

MachineTyped ==
  /\ MasterState \in States /\ MasterSCL \in {0, 1} /\ MasterSDA \in {0, 1}
  /\ MasterBit \in 0..BITS - 1 /\ MasterData \in (0..MaxBytes) \X Kinds
  /\ I2CMCB \in BOOLEAN /\ I2CBS \in BOOLEAN
  /\ flags \subseteq Flags /\ cmd \subseteq Commands /\ clearing \subseteq Commands
  /\ slave \in {"off", "address", "receiver", "transmitter", "released"}
  /\ bus \in Seq((1..MaxBytes) \X BOOLEAN)

DriverTyped ==
  /\ I2CxMTX \in (0..MaxBytes) \X Kinds /\ I2CMEN \in BOOLEAN /\ other \in BOOLEAN
  /\ call \in Calls \cup {"none"} /\ timeout \in 0..I2C_TIMEOUT /\ left \in 0..2
  /\ open \in {"closed", "tx", "rx"} /\ written \in 0..MaxBytes /\ clean \in BOOLEAN

Budget ==
  /\ written + left <= MaxBytes
  /\ act = "start" \/ (act \in {"byte", "queue"} /\ at = "command") => left >= 1
  /\ act = "last" => at # "command"

\* A byte that stands to be sent, or is being sent, has a name.
Named == /\ I2CxMTX[1] = written
         /\ "Write" \in cmd => written >= 1
         /\ Sending => MasterData[1] >= 1

TypeInv == MachineTyped /\ DriverTyped /\ Places /\ Budget /\ Named

LEMMA TypeInit == Init => TypeInv
  <1> SUFFICES ASSUME Init PROVE TypeInv
    OBVIOUS
  <1> USE I2cAssumption DEF Init
  <1>1. MachineTyped
    <2>1. BITS - 1 \in 0..BITS - 1
      OBVIOUS
    <2>3. bus \in Seq((1..MaxBytes) \X BOOLEAN)
      OBVIOUS
    <2>2. <<0, "write">> \in (0..MaxBytes) \X Kinds
      BY DEF Kinds
    <2> QED BY <2>1, <2>2, <2>3 DEF MachineTyped, States, Flags, Commands
  <1>2. DriverTyped
    <2>1. 0 \in 0..MaxBytes /\ 0 \in 0..I2C_TIMEOUT
      OBVIOUS
    <2>2. I2CxMTX \in (0..MaxBytes) \X Kinds
      BY <2>1 DEF Kinds
    <2>3. left \in 0..2 /\ written \in 0..MaxBytes /\ timeout \in 0..I2C_TIMEOUT
      BY <2>1
    <2> QED BY <2>2, <2>3 DEF DriverTyped
  <1>3. Places /\ Budget /\ Named
    BY DEF Places, Budget, Named, Sending
  <1> QED BY <1>1, <1>2, <1>3 DEF TypeInv

LEMMA MachineIsTyped ==
  ASSUME TypeInv, ClkMaster
  PROVE  MachineTyped' /\ Named'
  <1> UNCHANGED <<I2CxMTX, written>>
    BY DEF ClkMaster, driver
  <1> MachineTyped /\ Named /\ I2CxMTX \in (0..MaxBytes) \X Kinds
    BY DEF TypeInv, DriverTyped
  <1> {0, BITS - 1} \subseteq 0..BITS - 1
    BY I2cAssumption
  <1> USE DEF MachineTyped, Named, Sending, States, Flags, Commands, Clears
  <1>1. CASE Start1
    BY <1>1 DEF Start1, Edges, Started
  <1>2. CASE Start2
    BY <1>2 DEF Start2, TakeByte
  <1>3. CASE DataTransmitter1
    BY <1>3 DEF DataTransmitter1
  <1>4. CASE ArbitrationLost
    BY <1>4 DEF ArbitrationLost
  <1>5. CASE AckTransmitter3
    <2>1. PICK acknowledges \in BOOLEAN :
            /\ flags' = Sampled(acknowledges) /\ slave' = Answering(acknowledges)
            /\ bus' = Append(bus, <<MasterData[1], acknowledges>>)
      BY <1>5 DEF AckTransmitter3
    <2>2. <<MasterData[1], acknowledges>> \in (1..MaxBytes) \X BOOLEAN
      BY <1>5 DEF AckTransmitter3
    <2>3. bus' \in Seq((1..MaxBytes) \X BOOLEAN)
      BY <2>1, <2>2
    <2>4. flags' \subseteq Flags /\ slave' \in {"receiver", "transmitter", "released"}
      BY <2>1 DEF Sampled, Answering
    <2> QED
      BY <1>5, <2>3, <2>4 DEF AckTransmitter3
  <1>6. CASE AckTransmitter4
    BY <1>6 DEF AckTransmitter4, Command4, TakeByte
  <1>7. CASE DataReceiver1
    BY <1>7 DEF DataReceiver1
  <1>8. CASE DataReceiver3
    BY <1>8 DEF DataReceiver3
  <1>9. CASE DataReceiver4
    <2>1. MasterBit' \in 0..BITS - 1
      BY <1>9, I2cAssumption DEF DataReceiver4
    <2> QED BY <1>9, <2>1 DEF DataReceiver4
  <1>10. CASE AckReceiver1
    BY <1>10 DEF AckReceiver1, Sampled
  <1>11. CASE AckReceiver4
    BY <1>11 DEF AckReceiver4
  <1>12. CASE Stop1
    BY <1>12 DEF Stop1, Started
  <1>13. CASE Stop2
    BY <1>13 DEF Stop2
  <1>14. CASE Stop3
    BY <1>14 DEF Stop3, Edges, Stopped
  <1> QED
    BY <1>1, <1>2, <1>3, <1>4, <1>5, <1>6, <1>7, <1>8, <1>9, <1>10, <1>11, <1>12, <1>13,
       <1>14 DEF ClkMaster

\* A write of a byte uses up one of those there was room for.
LEMMA CommandIsTyped ==
  ASSUME TypeInv, Command
  PROVE  TypeInv'
  <1> USE DEF TypeInv
  <1>1. /\ at = "command" /\ at' = "poll" /\ flags' = flags
        /\ UNCHANGED <<fsm, I2CMEN, I2CBS, clearing, slave, other, bus, call, act, timeout, open>>
    BY DEF Command, WriteSR, Outside
  <1>2. CASE act \in {"start", "read", "stop"}
    <2>1. UNCHANGED <<I2CxMTX, written, clean, left>> /\ \E c \in {"MST", "MRB", "MSP"} : WriteFCR(c)
      BY <1>2 DEF Command
    <2>2. cmd' \subseteq Commands /\ ("Write" \in cmd' => "Write" \in cmd)
      BY <2>1 DEF WriteFCR, MachineTyped, Commands
    <2> QED
      BY <1>1, <1>2, <2>1, <2>2 DEF fsm, MachineTyped, DriverTyped, Places, Budget, Named, Sending
  <1>3. CASE act \notin {"start", "read", "stop"}
    <2>1. /\ I2CxMTX' = <<written + 1, Address>> /\ written' = written + 1 /\ left' = left - 1
          /\ cmd' = (cmd \cup {"Write"}) \ clearing /\ clean' \in BOOLEAN
      BY <1>3 DEF Command, WriteMTX
    <2>2. act \in {"byte", "queue", "last"}
      BY <1>1, <1>3 DEF Places
    <2>3. act # "last" /\ left >= 1 /\ written \in Nat /\ left \in 0..2 /\ written + left <= MaxBytes
      BY <1>1, <2>2 DEF Budget, DriverTyped
    <2>4. cmd' \subseteq Commands
      BY <2>1 DEF MachineTyped, Commands
    <2>5. written' \in 1..MaxBytes /\ left' \in 0..1 /\ written' + left' <= MaxBytes
      BY <2>1, <2>3, I2cAssumption
    <2>6. I2CxMTX' \in (0..MaxBytes) \X Kinds /\ I2CxMTX'[1] = written'
      BY <2>1, <2>5 DEF Address, Kinds
    <2>7. MachineTyped' /\ Named'
      BY <1>1, <2>4, <2>5, <2>6 DEF fsm, MachineTyped, Named, Sending
    <2>8. DriverTyped'
      BY <1>1, <2>1, <2>5, <2>6 DEF DriverTyped
    <2>9. Places' /\ Budget'
      BY <1>1, <2>2, <2>3, <2>5 DEF Places, Budget
    <2> QED
      BY <2>7, <2>8, <2>9
  <1> QED BY <1>2, <1>3

\* The other steps of the driver. What a part hands on to the next, or to the caller:
LEMMA Handed ==
  ASSUME \/ \E value : Return(value)
         \/ \E a, place : Part(a, place) /\ UNCHANGED <<call, open>>,
         TypeInv
  PROVE  /\ call' \in Calls \cup {"none"} /\ timeout' \in 0..I2C_TIMEOUT
         /\ open' \in {"closed", "tx", "rx"}
  BY I2cAssumption DEF Return, Part, TypeInv, DriverTyped

LEMMA DriverIsTyped ==
  ASSUME TypeInv,
         \/ Check \/ Enable \/ Poll \/ PollEnds \/ GivesUp \/ GiveUp \/ SwitchOff
         \/ Arbitration \/ Verdict
         \/ \E c \in Calls : Call(c)
  PROVE  TypeInv'
  <1> USE DEF TypeInv
  <1>1. CASE Check
    <2>1. MachineTyped' /\ Named' /\ DriverTyped'
      BY <1>1, Handed DEF Check, Hardware, Outside, fsm, MachineTyped, Named, Sending, DriverTyped
    <2>2. Places' /\ Budget'
      BY <1>1 DEF Check, Return, Part, Places, Budget
    <2> QED BY <2>1, <2>2
  <1>2. CASE Enable
    BY <1>2 DEF Enable, WriteSR, Outside, fsm, MachineTyped, Named, Sending, DriverTyped, Places,
                Budget
  <1>3. CASE Poll
    <2>1. timeout' \in 0..I2C_TIMEOUT
      BY <1>3, I2cAssumption DEF Poll, Expired, Waited, DriverTyped
    <2> QED
      BY <1>3, <2>1 DEF Poll, Hardware, Outside, fsm, MachineTyped, Named, Sending, DriverTyped,
                        Places, Budget
  <1>4. CASE PollEnds
    BY <1>4 DEF PollEnds, Hardware, Outside, fsm, MachineTyped, Named, Sending, DriverTyped, Places,
                Budget
  <1>5. CASE GivesUp
    <2>1. MachineTyped' /\ Named'
      BY <1>5 DEF GivesUp, Hardware, Outside, fsm, MachineTyped, Named, Sending
    <2>2. CASE act \in {"start", "stop"}
      <3>1. DriverTyped'
        BY <1>5, <2>2, Handed DEF GivesUp, Hardware, Outside, DriverTyped
      <3>2. Places' /\ Budget'
        BY <1>5, <2>2 DEF GivesUp, Return, Places, Budget
      <3> QED BY <2>1, <3>1, <3>2
    <2>3. CASE act \notin {"start", "stop"}
      <3>1. DriverTyped'
        BY <1>5, <2>3 DEF GivesUp, Hardware, Outside, DriverTyped
      <3>2. Places' /\ Budget'
        BY <1>5, <2>3 DEF GivesUp, Places, Budget
      <3> QED BY <2>1, <3>1, <3>2
    <2> QED BY <2>2, <2>3
  <1>6. CASE GiveUp
    <2>1. cmd' \subseteq Commands /\ ("Write" \in cmd' => "Write" \in cmd)
      BY <1>6 DEF GiveUp, WriteFCR, MachineTyped, Commands
    <2>2. MachineTyped' /\ Named'
      BY <1>6, <2>1 DEF GiveUp, Outside, fsm, MachineTyped, Named, Sending
    <2>3. DriverTyped'
      BY <1>6 DEF GiveUp, Outside, DriverTyped
    <2>4. Places' /\ Budget'
      BY <1>6 DEF GiveUp, Places, Budget
    <2> QED BY <2>2, <2>3, <2>4
  <1>7. CASE SwitchOff
    <2>1. MachineTyped' /\ Named'
      <3>1. BITS - 1 \in 0..BITS - 1 /\ <<0, "write">> \in (0..MaxBytes) \X Kinds
        BY I2cAssumption DEF Kinds
      <3>2. /\ cmd' = {} /\ clearing' = {} /\ MasterState' = "Start1"
            /\ UNCHANGED <<I2CxMTX, written, bus>>
        BY <1>7 DEF SwitchOff, Disable, Outside
      <3>3. flags' \subseteq Flags
        BY <1>7 DEF SwitchOff, Disable, MachineTyped
      <3>4. MachineTyped'
        BY <1>7, <3>1, <3>2, <3>3 DEF SwitchOff, Disable, MachineTyped, States
      <3> QED BY <3>2, <3>4 DEF Named, Sending
    <2>2. DriverTyped'
      BY <1>7, Handed DEF SwitchOff, Disable, Outside, DriverTyped
    <2>3. Places' /\ Budget'
      BY <1>7 DEF SwitchOff, Return, Places, Budget
    <2> QED BY <2>1, <2>2, <2>3
  <1>8. CASE Arbitration
    <2>1. MachineTyped' /\ Named'
      BY <1>8 DEF Arbitration, Hardware, Outside, fsm, MachineTyped, Named, Sending
    <2>2. CASE "MARB" \in flags
      <3>1. DriverTyped'
        BY <1>8, <2>2, Handed DEF Arbitration, Hardware, Outside, DriverTyped
      <3>2. Places' /\ Budget'
        BY <1>8, <2>2 DEF Arbitration, Return, Places, Budget
      <3> QED BY <2>1, <3>1, <3>2
    <2>3. CASE "MARB" \notin flags
      <3>1. DriverTyped'
        BY <1>8, <2>3 DEF Arbitration, Hardware, Outside, DriverTyped
      <3>2. Places' /\ Budget'
        BY <1>8, <2>3 DEF Arbitration, Places, Budget
      <3> QED BY <2>1, <3>1, <3>2
    <2> QED BY <2>2, <2>3
  <1>9. CASE Verdict
    <2>1. MachineTyped' /\ Named'
      BY <1>9 DEF Verdict, WriteSR, Outside, fsm, MachineTyped, Named, Sending
    <2>2. \/ \E value : Return(value)
          \/ /\ UNCHANGED <<call, open>>
             /\ \/ act = "start" /\ Part("byte", "command")
                \/ act = "queue" /\ left > 0 /\ Part("queue", "command")
                \/ act = "queue" /\ Part("last", "poll")
      BY <1>9 DEF Verdict, Places
    <2>3. DriverTyped'
      BY <1>9, <2>2, Handed DEF Verdict, Outside, DriverTyped
    <2>4. left \in Int /\ UNCHANGED <<left, written>> /\ at = "verdict"
      BY <1>9 DEF Verdict, DriverTyped
    <2>5. Places' /\ Budget'
      <3>1. CASE \E value : Return(value)
        BY <2>4, <3>1 DEF Return, Places, Budget
      <3>2. CASE act = "start" /\ Part("byte", "command") /\ UNCHANGED <<call, open>>
        BY <2>4, <3>2 DEF Part, Places, Budget
      <3>3. CASE act = "queue" /\ left > 0 /\ Part("queue", "command") /\ UNCHANGED <<call, open>>
        BY <2>4, <3>3 DEF Part, Places, Budget
      <3>4. CASE act = "queue" /\ Part("last", "poll") /\ UNCHANGED <<call, open>>
        BY <2>4, <3>4 DEF Part, Places, Budget
      <3> QED BY <2>2, <3>1, <3>2, <3>3, <3>4
    <2> QED BY <2>1, <2>3, <2>5
  <1>10. ASSUME NEW c \in Calls, Call(c) PROVE TypeInv'
    <2>1. MachineTyped' /\ Named'
      BY <1>10 DEF Call, Hardware, Outside, fsm, MachineTyped, Named, Sending
    <2>2. /\ call' = c /\ timeout' = I2C_TIMEOUT /\ left' = Writes(c) /\ written' = written
          /\ written + Writes(c) <= MaxBytes
      BY <1>10 DEF Call, Part, Calls
    <2>3. Writes(c) \in 0..2
      BY DEF Writes
    <2>4. DriverTyped'
      BY <1>10, <2>2, <2>3, I2cAssumption DEF Call, Hardware, Outside, DriverTyped
    <2>5. \/ act' = "start" /\ at' = "check" /\ Writes(c) = 1
          \/ act' = "byte" /\ at' = "command" /\ Writes(c) = 1
          \/ act' = "queue" /\ at' = "command" /\ Writes(c) = 2
          \/ act' \in {"read", "stop"} /\ at' = "command" /\ Writes(c) = 0
      BY <1>10 DEF Call, Part, Calls, Writes
    <2>6. Places'
      BY <2>2, <2>5 DEF Calls, Places
    <2>7. Budget'
      BY <2>2, <2>5 DEF Budget
    <2> QED BY <2>1, <2>4, <2>6, <2>7
  <1> QED BY <1>1, <1>2, <1>3, <1>4, <1>5, <1>6, <1>7, <1>8, <1>9, <1>10

\* The registers of the peripheral, the bus and the driver keep to their values: no
\* poll counts below zero, and no call writes more bytes than there is room for.
THEOREM I2cIsTyped == Spec => []I2cTypeOK
  <1>1. TypeInv /\ [Next]_vars => TypeInv'
    <2> SUFFICES ASSUME TypeInv, [Next]_vars PROVE TypeInv'
      OBVIOUS
    <2>1. CASE ClkMaster
      <3>1. MachineTyped' /\ Named'
        BY <2>1, MachineIsTyped
      <3>2. UNCHANGED <<I2CxMTX, I2CMEN, driver>> /\ other' = other
        BY <2>1 DEF ClkMaster, Start1, Start2, DataTransmitter1, ArbitrationLost,
             AckTransmitter3, AckTransmitter4, DataReceiver1, DataReceiver3, DataReceiver4,
             AckReceiver1, AckReceiver4, Stop1, Stop2, Stop3
      <3> QED
        BY <3>1, <3>2 DEF TypeInv, driver, DriverTyped, Places, Budget
    <2>2. CASE OtherStarts \/ OtherStops
      <3>1. /\ flags' \subseteq Flags /\ I2CBS' \in BOOLEAN /\ other' \in BOOLEAN
            /\ UNCHANGED <<fsm, I2CxMTX, I2CMEN, cmd, clearing, slave, bus, driver>>
        BY <2>2 DEF OtherStarts, OtherStops, Started, Stopped, TypeInv, MachineTyped, Flags
      <3>2. MachineTyped' /\ Named'
        BY <3>1 DEF TypeInv, fsm, driver, MachineTyped, Named, Sending
      <3>3. DriverTyped' /\ Places' /\ Budget'
        BY <3>1 DEF TypeInv, driver, DriverTyped, Places, Budget
      <3> QED BY <3>2, <3>3 DEF TypeInv
    <2>3. CASE UNCHANGED vars
      <3>1. MachineTyped' /\ Named'
        BY <2>3 DEF vars, fsm, driver, TypeInv, MachineTyped, Named, Sending
      <3>2. DriverTyped' /\ Places' /\ Budget'
        BY <2>3 DEF vars, driver, TypeInv, DriverTyped, Places, Budget
      <3> QED BY <3>1, <3>2 DEF TypeInv
    <2> QED
      BY <2>1, <2>2, <2>3, CommandIsTyped, DriverIsTyped DEF Next, Driver
  <1>2. TypeInv => I2cTypeOK
    BY DEF TypeInv, MachineTyped, DriverTyped, I2cTypeOK
  <1> QED
    BY TypeInit, <1>1, <1>2, PTL DEF Spec
=============================================================================
