--------------------------------- MODULE I2c ---------------------------------
(***************************************************************************)
(* The master half of the I2C peripheral (I2C.vhd), the driver above it    *)
(* (i2c_master.c) and the bus below it.                                    *)
(*                                                                         *)
(* The machine of the peripheral runs on ClkMaster, which has no relation  *)
(* to the processor's clock: between any two accesses of the driver it may *)
(* take any number of steps, or none. The bits of a byte that is sent are  *)
(* one step; those of a byte that is received are counted, because each of *)
(* them clears the command to receive. What is received is left out: no    *)
(* property tells one value from another.                                  *)
(* External: the slave, which may answer a byte or not and may hold the    *)
(* clock as long as it likes, and a second master.                         *)
(***************************************************************************)
EXTENDS Integers, Sequences

CONSTANTS
  BITS,                        \* of a byte: 8 in the code
  I2C_TIMEOUT,                 \* polls before the driver gives up
  MaxBytes, MaxCalls,          \* bounds: bytes that are written, calls
  MaxOthers                    \* bound: transactions of another master

ASSUME I2cAssumption == BITS \in Nat \ {0} /\ I2C_TIMEOUT \in Nat /\ MaxBytes \in Nat

VARIABLES
  MasterState, MasterSCL, MasterSDA, MasterBit, MasterData,
  I2CxMTX,
  I2CMEN, I2CMCB, I2CBS,
  flags,                       \* the flags of I2CxSR that are set
  cmd,                         \* I2CMST, I2CMSP, I2CMRB, MasterWrite that are set
  clearing,                    \* ... and those whose clear line is up
  slave, other,                \* the bus: a slave and another master
  bus,                         \* the bytes it has carried, with their answers
  call, act, at,               \* the driver: the call, its part, the place in it
  timeout, left, ret,
  open,                        \* what the caller may go on with
  written,                     \* bytes written so far, which names them
  clean,                       \* was no flag of an answer set at the last one?
  calls, others                \* counted for the bounds

fsm == <<MasterState, MasterSCL, MasterSDA, MasterBit, MasterData, I2CMCB>>
driver == <<call, act, at, timeout, left, ret, open, written, clean, calls>>
vars == <<fsm, I2CxMTX, I2CMEN, I2CBS, flags, cmd, clearing, slave, other, bus, driver,
          others>>

Flags == {"STR", "SPR", "MXC", "MNR", "MTXE", "MARB", "MSPS", "MSTS"}
Commands == {"MST", "MSP", "MRB", "Write"}
States == {"Start1", "Start2", "DataTransmitter1", "DataTransmitter3", "AckTransmitter4",
           "DataReceiver1", "DataReceiver3", "DataReceiver4", "AckReceiver1",
           "AckReceiver4", "Stop1", "Stop2", "Stop3"}
Calls == {"tx_start", "rx_start", "tx_byte", "tx_bytes", "rx_byte", "stop"}
Kinds == {"write", "read"}     \* the lowest bit of an address

Init ==
  /\ MasterState = "Start1" /\ MasterSCL = 1 /\ MasterSDA = 1 /\ MasterBit = BITS - 1
  /\ MasterData = <<0, "write">> /\ I2CxMTX = <<0, "write">>
  /\ I2CMEN = FALSE /\ I2CMCB = FALSE /\ I2CBS = FALSE
  /\ flags = {} /\ cmd = {} /\ clearing = {}
  /\ slave = "off" /\ other = FALSE /\ bus = <<>>
  /\ call = "none" /\ act = "none" /\ at = "none" /\ timeout = 0 /\ left = 0
  /\ ret = "I2C_GOOD" /\ open = "closed" /\ written = 0 /\ clean = FALSE
  /\ calls = 0 /\ others = 0

-----------------------------------------------------------------------------
(* The machine of the master. *)

\* Puts up the clear lines for the period that begins and takes down the others.
Clears(lines) == clearing' = lines /\ cmd' = cmd \ lines

\* SDA follows the master, unless somebody else holds it down.
Edges == IF other \/ slave = "transmitter" THEN BOOLEAN ELSE {TRUE}

\* The edges of SDA under a high SCL, as the sensor of the peripheral sees them.
Started == flags \cup {"STR"}
Stopped == flags \cup {"SPR"}

Start1 ==
  /\ MasterState = "Start1"
  /\ Clears({"MST"})
  /\ MasterSCL' = 1 /\ MasterBit' = BITS - 1
  /\ IF (I2CMCB \/ ~I2CBS) /\ MasterSCL = 1
     THEN /\ \E falls \in IF MasterSDA = 0 THEN {FALSE} ELSE Edges :
                /\ flags' = {"MSTS"} \cup (IF falls THEN Started ELSE flags)
                /\ I2CBS' = (I2CBS \/ falls)
                /\ slave' = IF falls THEN "address" ELSE slave
          /\ I2CMCB' = TRUE /\ MasterSDA' = 0 /\ MasterState' = "Start2"
     ELSE UNCHANGED <<flags, I2CBS, slave, I2CMCB, MasterSDA, MasterState>>
  /\ UNCHANGED <<MasterData, bus, other>>

\* Variant: the command to send stays up.
TakeByteVariant == MasterData' = I2CxMTX /\ MasterState' = "DataTransmitter1" /\ Clears({})
TakeByte == MasterData' = I2CxMTX /\ MasterState' = "DataTransmitter1" /\ Clears({"Write"})

Start2 ==
  /\ MasterState = "Start2"
  /\ MasterSCL' = 0
  /\ IF "Write" \in cmd THEN TakeByte
     ELSE Clears({}) /\ UNCHANGED <<MasterData, MasterState>>
  /\ UNCHANGED <<MasterSDA, MasterBit, I2CMCB, I2CBS, flags, slave, other, bus>>

DataTransmitter1 ==
  /\ MasterState = "DataTransmitter1"
  /\ Clears({})
  /\ flags' = flags \cup {"MTXE"}
  /\ MasterState' = "DataTransmitter3"
  /\ UNCHANGED <<MasterSCL, MasterSDA, MasterBit, MasterData, I2CMCB, I2CBS, slave, other,
                 bus>>

\* Another master or a slave that sends pulls SDA down where a one is sent.
ArbitrationLost ==
  /\ MasterState = "DataTransmitter3" /\ (other \/ slave = "transmitter")
  /\ Clears({})
  /\ flags' = flags \cup {"MARB"}
  /\ MasterSDA' = 1 /\ MasterSCL' = 1 /\ MasterState' = "Stop1"
  /\ UNCHANGED <<MasterBit, MasterData, I2CMCB, I2CBS, slave, other, bus>>

\* What a slave is after it has answered the byte in MasterData.
Answering(acknowledges) ==
  IF ~acknowledges THEN "released"
  ELSE IF slave = "address" /\ MasterData[2] = "read" THEN "transmitter" ELSE "receiver"

\* Variant: takes the answer for the opposite.
SampledVariant(acknowledges) == IF acknowledges THEN flags \cup {"MNR"} ELSE flags
Sampled(acknowledges) == IF acknowledges THEN flags ELSE flags \cup {"MNR"}

\* The bits, and the ninth clock under which the slave answers.
AckTransmitter3 ==
  /\ MasterState = "DataTransmitter3"
  /\ Clears({})
  /\ \E acknowledges \in IF slave \in {"address", "receiver"} THEN BOOLEAN ELSE {FALSE} :
        /\ flags' = Sampled(acknowledges)
        /\ slave' = Answering(acknowledges)
        /\ bus' = Append(bus, <<MasterData[1], acknowledges>>)
  /\ MasterSDA' = 1 /\ MasterSCL' = 1 /\ MasterState' = "AckTransmitter4"
  /\ UNCHANGED <<MasterBit, MasterData, I2CMCB, I2CBS, other>>

Command4 ==
  IF "MSP" \in cmd THEN MasterState' = "Stop1" /\ Clears({}) /\ UNCHANGED MasterData
  ELSE IF "MST" \in cmd THEN MasterState' = "Start1" /\ Clears({}) /\ UNCHANGED MasterData
  ELSE IF "Write" \in cmd THEN TakeByte
  ELSE /\ MasterState' = IF "MRB" \in cmd THEN "DataReceiver1" ELSE MasterState
       /\ Clears({}) /\ UNCHANGED MasterData

AckTransmitter4 ==
  /\ MasterState = "AckTransmitter4"
  /\ flags' = IF MasterSCL = 1 THEN flags \cup {"MXC"} ELSE flags
  /\ MasterSCL' = 0
  /\ Command4
  /\ UNCHANGED <<MasterSDA, MasterBit, I2CMCB, I2CBS, slave, other, bus>>

DataReceiver1 ==
  /\ MasterState = "DataReceiver1"
  /\ Clears({"MRB"})
  /\ MasterSDA' = 1 /\ MasterState' = "DataReceiver3"
  /\ UNCHANGED <<MasterSCL, MasterBit, MasterData, I2CMCB, I2CBS, flags, slave, other, bus>>

DataReceiver3 ==
  /\ MasterState = "DataReceiver3"
  /\ Clears({})
  /\ MasterSCL' = 1 /\ MasterState' = "DataReceiver4"
  /\ UNCHANGED <<MasterSDA, MasterBit, MasterData, I2CMCB, I2CBS, flags, slave, other, bus>>

\* Variant: only the command to receive ends the wait.
AnswerDueVariant == "MRB" \in cmd
AnswerDue == cmd \cap {"MRB", "MST", "MSP"} # {}

DataReceiver4 ==
  /\ MasterState = "DataReceiver4"
  /\ Clears({})
  /\ MasterSCL' = 0
  /\ flags' = IF MasterBit = 0 /\ MasterSCL = 1 THEN flags \cup {"MXC"} ELSE flags
  /\ IF MasterBit # 0 THEN MasterBit' = MasterBit - 1 /\ MasterState' = "DataReceiver1"
     ELSE IF AnswerDue
     THEN MasterBit' = BITS - 1 /\ MasterState' = "AckReceiver1"
     ELSE UNCHANGED <<MasterBit, MasterState>>
  /\ UNCHANGED <<MasterSDA, MasterData, I2CMCB, I2CBS, slave, other, bus>>

\* The master's answer, and the clock under which it is given.
AckReceiver1 ==
  /\ MasterState = "AckReceiver1"
  /\ Clears({})
  /\ LET more == cmd \cap {"MSP", "MST"} = {} IN
       /\ MasterSDA' = IF more THEN 0 ELSE 1
       /\ flags' = Sampled(more)
       /\ slave' = IF more THEN slave ELSE "released"
  /\ MasterSCL' = 1 /\ MasterState' = "AckReceiver4"
  /\ UNCHANGED <<MasterBit, MasterData, I2CMCB, I2CBS, other, bus>>

AckReceiver4 ==
  /\ MasterState = "AckReceiver4"
  /\ Clears({})
  /\ IF "MSP" \in cmd THEN MasterState' = "Stop1" /\ MasterSCL' = 0
     ELSE IF "MST" \in cmd
     THEN IF MasterSCL = 0 THEN MasterState' = "Start1" /\ MasterSCL' = 1
          ELSE MasterSCL' = 0 /\ UNCHANGED MasterState
     ELSE MasterState' = "DataReceiver1" /\ MasterSCL' = 0
  /\ UNCHANGED <<MasterSDA, MasterBit, MasterData, I2CMCB, I2CBS, flags, slave, other, bus>>

\* After a lost arbitration SCL is up, and SDA may fall where others see a start.
Stop1 ==
  /\ MasterState = "Stop1"
  /\ Clears({})
  /\ \E falls \in IF MasterSCL = 1 THEN BOOLEAN ELSE {FALSE} :
        /\ flags' = IF falls THEN Started ELSE flags
        /\ I2CBS' = (I2CBS \/ falls)
        /\ slave' = IF falls THEN "address" ELSE slave
  /\ MasterSDA' = 0 /\ MasterState' = "Stop2"
  /\ UNCHANGED <<MasterSCL, MasterBit, MasterData, I2CMCB, other, bus>>

Stop2 ==
  /\ MasterState = "Stop2"
  /\ Clears(Commands)
  /\ MasterSCL' = 1 /\ MasterState' = "Stop3"
  /\ UNCHANGED <<MasterSDA, MasterBit, MasterData, I2CMCB, I2CBS, flags, slave, other, bus>>

\* A start seen in Stop1 hides the stop from the sensor, unless SCL falls in between.
Stop3 ==
  /\ MasterState = "Stop3"
  /\ clearing' = {} /\ cmd' = cmd \ {"MSP", "MRB"}
  /\ \E rises \in IF slave = "address" THEN BOOLEAN ELSE Edges :
        /\ flags' = {"MSPS"} \cup (IF rises THEN Stopped ELSE flags)
        /\ I2CBS' = (I2CBS /\ ~rises)
        /\ slave' = IF rises \/ slave = "address" THEN "off" ELSE slave
  /\ MasterSDA' = 1 /\ I2CMCB' = FALSE /\ MasterState' = "Start1"
  /\ UNCHANGED <<MasterSCL, MasterBit, MasterData, other, bus>>

\* An edge of ClkMaster, which runs while the master is enabled and has a reason to.
EnClkMaster == I2CMEN /\ ("MST" \in cmd \/ "MST" \in clearing \/ I2CMCB)

ClkMaster ==
  /\ EnClkMaster
  /\ \/ Start1 \/ Start2 \/ DataTransmitter1 \/ ArbitrationLost \/ AckTransmitter3
     \/ AckTransmitter4 \/ DataReceiver1 \/ DataReceiver3 \/ DataReceiver4
     \/ AckReceiver1 \/ AckReceiver4 \/ Stop1 \/ Stop2 \/ Stop3
  /\ UNCHANGED <<I2CxMTX, I2CMEN, driver, others>>

OtherStarts ==
  /\ ~other /\ ~I2CMCB /\ slave \in {"off", "released"} /\ others < MaxOthers
  /\ other' = TRUE /\ others' = others + 1
  /\ IF I2CMEN THEN flags' = Started /\ I2CBS' = TRUE ELSE UNCHANGED <<flags, I2CBS>>
  /\ UNCHANGED <<fsm, I2CxMTX, I2CMEN, cmd, clearing, slave, bus, driver>>

OtherStops ==
  /\ other /\ other' = FALSE
  /\ IF I2CMEN /\ MasterSDA = 1 THEN flags' = Stopped /\ I2CBS' = FALSE
     ELSE UNCHANGED <<flags, I2CBS>>
  /\ UNCHANGED <<fsm, I2CxMTX, I2CMEN, cmd, clearing, slave, bus, driver, others>>

-----------------------------------------------------------------------------
(* The driver. A call is a chain of parts; a part gives a command and polls. *)

\* A write to I2CxSR clears the flags where it has ones. The driver writes zero.
WriteSR(ones) == flags' = flags \ ones

\* A write to I2CxFCR: stop and receive are refused while the bus is not ours.
WriteFCR(c) ==
  cmd' = IF I2CMEN /\ (c = "MST" \/ I2CMCB) THEN (cmd \cup {c}) \ clearing ELSE cmd

\* A write to I2CxMTX, which the driver does only while I2CMEN is set.
WriteMTX(kind) ==
  /\ I2CxMTX' = <<written + 1, kind>>
  /\ cmd' = (cmd \cup {"Write"}) \ clearing
  /\ written' = written + 1
  /\ clean' = (flags \cap {"MXC", "MNR", "MARB"} = {})

\* Clearing I2CMEN resets the machine and the sensor of the bus, but not the flags
\* of the machine; both lines are released at once.
Disable ==
  /\ I2CMEN' = FALSE
  /\ MasterState' = "Start1" /\ MasterSCL' = 1 /\ MasterSDA' = 1 /\ MasterBit' = BITS - 1
  /\ MasterData' = <<0, "write">> /\ I2CMCB' = FALSE /\ I2CBS' = FALSE
  /\ flags' = flags \ {"STR", "SPR"} /\ cmd' = {} /\ clearing' = {}
  /\ slave' \in {slave, "off"}

Hardware == <<fsm, I2CxMTX, I2CMEN, I2CBS, flags, cmd, clearing, slave>>
Outside == <<other, bus, others>>

\* The flags that end the poll of a part.
Awaited == CASE act = "start" -> {"MSTS"}
             [] act = "queue" -> {"MTXE", "MARB"}
             [] act = "stop" -> {"MSPS"}
             [] OTHER -> {"MXC", "MARB"}

Part(a, place) == act' = a /\ at' = place /\ timeout' = I2C_TIMEOUT
Return(value) ==
  /\ ret' = value
  /\ open' = IF value \notin {"I2C_GOOD", "I2C_MASTER_NACK_RECEIVED"} \/ call = "stop"
             THEN "closed" ELSE IF act = "byte" /\ call = "tx_start" THEN "tx"
             ELSE IF call = "rx_start" THEN "rx" ELSE open
  /\ call' = "none" /\ act' = "none" /\ at' = "none" /\ timeout' = 0

\* What the caller may call: bytes and the stop belong to a start that went well.
MayCall(c) ==
  \/ c \in {"tx_start", "rx_start"}
  \/ c = "stop" /\ open # "closed"
  \/ c \in {"tx_byte", "tx_bytes"} /\ open = "tx"
  \/ c = "rx_byte" /\ open = "rx"
Writes(c) == CASE c = "tx_bytes" -> 2 [] c \in {"stop", "rx_byte"} -> 0 [] OTHER -> 1

Call(c) ==
  /\ call = "none" /\ MayCall(c) /\ calls < MaxCalls /\ written + Writes(c) <= MaxBytes
  /\ call' = c /\ calls' = calls + 1 /\ left' = Writes(c)
  /\ CASE c \in {"tx_start", "rx_start"} -> Part("start", "check")
       [] c = "tx_byte" -> Part("byte", "command")
       [] c = "tx_bytes" -> Part("queue", "command")
       [] c = "rx_byte" -> Part("read", "command")
       [] c = "stop" -> Part("stop", "command")
  /\ UNCHANGED <<Hardware, Outside, ret, open, written, clean>>

\* i2cx_master_send_start up to its command. It also asks whether the slave half is
\* enabled and finds the bus busy (i2c_master.c 335), which is left out with the slave
\* half: no function of the master driver enables that.
Check ==
  /\ at = "check"
  /\ IF I2CMEN /\ ~I2CBS /\ I2CMCB
     THEN Return("I2C_BUS_BUSY")
     ELSE Part("start", "enable") /\ UNCHANGED <<call, ret, open>>
  /\ UNCHANGED <<Hardware, Outside, left, written, clean, calls>>

Enable ==
  /\ at = "enable" /\ I2CMEN' = TRUE /\ WriteSR({}) /\ at' = "command"
  /\ UNCHANGED <<fsm, I2CxMTX, I2CBS, cmd, clearing, slave, Outside, call, act, timeout,
                 left, ret, open, written, clean, calls>>

Address == IF call = "rx_start" THEN "read" ELSE "write"

Command ==
  /\ at = "command" /\ at' = "poll" /\ WriteSR({})
  /\ CASE act = "start" -> WriteFCR("MST") /\ UNCHANGED <<I2CxMTX, written, clean, left>>
       [] act = "read" -> WriteFCR("MRB") /\ UNCHANGED <<I2CxMTX, written, clean, left>>
       [] act = "stop" -> WriteFCR("MSP") /\ UNCHANGED <<I2CxMTX, written, clean, left>>
       [] OTHER -> WriteMTX(Address) /\ left' = left - 1
  /\ UNCHANGED <<fsm, I2CMEN, I2CBS, clearing, slave, Outside, call, act, timeout, ret,
                 open, calls>>

\* Variant: the counter is tested after it has passed zero.
ExpiredVariant == timeout < 0
Expired == timeout = 0
\* Variant: the counter is loaded again in every round.
WaitedVariant == I2C_TIMEOUT
Waited == timeout - 1

Poll ==
  /\ at = "poll" /\ Awaited \cap flags = {} /\ ~Expired
  /\ timeout' = Waited
  /\ UNCHANGED <<Hardware, Outside, call, act, at, left, ret, open, written, clean, calls>>

PollEnds ==
  /\ at = "poll" /\ Awaited \cap flags # {}
  /\ at' = IF act \in {"byte", "queue", "last"} THEN "arbitration" ELSE "verdict"
  /\ UNCHANGED <<Hardware, Outside, call, act, timeout, left, ret, open, written, clean,
                 calls>>

GivesUp ==
  /\ at = "poll" /\ Awaited \cap flags = {} /\ Expired
  /\ CASE act = "start" -> Return("I2C_START_CONDITION_TIMEOUT")
       [] act = "stop" -> Return("I2C_STOP_CONDITION_TIMEOUT")
       [] OTHER -> at' = "give up" /\ UNCHANGED <<call, act, timeout, ret, open>>
  /\ UNCHANGED <<Hardware, Outside, left, written, clean, calls>>

\* A timeout of a byte: asks for a stop ...
GiveUp ==
  /\ at = "give up" /\ at' = "disable" /\ WriteFCR("MSP")
  /\ UNCHANGED <<fsm, I2CxMTX, I2CMEN, I2CBS, flags, clearing, slave, Outside, call, act,
                 timeout, left, ret, open, written, clean, calls>>

\* ... and switches the master off.
SwitchOff ==
  /\ at = "disable" /\ Disable
  /\ Return(IF act = "read" THEN "I2C_MASTER_RX_TIMEOUT" ELSE "I2C_MASTER_TX_TIMEOUT")
  /\ UNCHANGED <<I2CxMTX, Outside, left, written, clean, calls>>

\* Of a byte it sent the driver asks first whether the bus was lost, with one read
\* of I2CxSR, and then, with another, for the answer of the slave.
Arbitration ==
  /\ at = "arbitration"
  /\ IF "MARB" \in flags THEN Return("I2C_ARBITRATION_LOSS")
     ELSE at' = "verdict" /\ UNCHANGED <<call, act, timeout, ret, open>>
  /\ UNCHANGED <<Hardware, Outside, left, written, clean, calls>>

Answer == IF "MNR" \in flags THEN "I2C_MASTER_NACK_RECEIVED" ELSE "I2C_GOOD"

Verdict ==
  /\ at = "verdict"
  /\ CASE act = "start" /\ "STR" \in flags ->
            Part("byte", "command") /\ UNCHANGED <<call, ret, open>>
       [] act = "start" /\ "STR" \notin flags -> Return("I2C_START_CONDITION_FAILED")
       [] act = "queue" /\ Answer = "I2C_GOOD" ->
            /\ Part(IF left > 0 THEN "queue" ELSE "last", IF left > 0 THEN "command" ELSE "poll")
            /\ UNCHANGED <<call, ret, open>>
       [] act = "queue" /\ Answer # "I2C_GOOD" -> Return(Answer)
       [] act \in {"byte", "last"} -> Return(Answer)
       [] act = "read" -> Return("I2C_GOOD")
       [] act = "stop" -> Return(IF "SPR" \in flags THEN "I2C_GOOD"
                                 ELSE "I2C_STOP_CONDITION_FAILED")
  /\ WriteSR({})
  /\ UNCHANGED <<fsm, I2CxMTX, I2CMEN, I2CBS, cmd, clearing, slave, Outside, left, written,
                 clean, calls>>

Driver == \/ Check \/ Enable \/ Command \/ Poll \/ PollEnds \/ GivesUp \/ GiveUp \/ SwitchOff
          \/ Arbitration \/ Verdict
Next == ClkMaster \/ Driver \/ (\E c \in Calls : Call(c)) \/ OtherStarts \/ OtherStops

\* The processor runs. The clock need not: a slave may hold it for ever.
Spec == Init /\ [][Next]_vars /\ WF_vars(Driver)
ClockRuns == WF_vars(ClkMaster)

-----------------------------------------------------------------------------
(* Properties. *)

\* Every register, line and variable keeps to its values; the counter of a poll,
\* which the driver tests before it decrements it, does not go below zero.
I2cTypeOK ==
  /\ MasterState \in States /\ MasterSCL \in {0, 1} /\ MasterSDA \in {0, 1}
  /\ MasterBit \in 0..BITS - 1
  /\ MasterData \in (0..MaxBytes) \X Kinds /\ I2CxMTX \in (0..MaxBytes) \X Kinds
  /\ I2CMEN \in BOOLEAN /\ I2CMCB \in BOOLEAN /\ I2CBS \in BOOLEAN
  /\ flags \subseteq Flags /\ cmd \subseteq Commands /\ clearing \subseteq Commands
  /\ slave \in {"off", "address", "receiver", "transmitter", "released"} /\ other \in BOOLEAN
  /\ bus \in Seq((1..MaxBytes) \X BOOLEAN)
  /\ call \in Calls \cup {"none"} /\ timeout \in 0..I2C_TIMEOUT /\ left \in 0..2
  /\ open \in {"closed", "tx", "rx"} /\ written \in 0..MaxBytes /\ clean \in BOOLEAN

\* No byte is sent twice and none overtakes another: whatever the driver gives up,
\* repeats or overwrites, the bus carries the bytes written to I2CxMTX in their order.
NothingRepeated == \A i, j \in DOMAIN bus : i < j => bus[i][1] < bus[j][1]

Acknowledged(n) == \E i \in DOMAIN bus : bus[i] = <<n, TRUE>>
Refused(n) == \E i \in DOMAIN bus : bus[i] = <<n, FALSE>>
Reporting == at = "verdict" /\ act = "byte"

\* With no flag of an earlier byte left over, i2cx_master_tx_byte reports an
\* acknowledge only of its own byte, and a refusal only when it was refused.
AnswerIsTrue ==
  Reporting /\ clean => /\ Answer = "I2C_GOOD" => Acknowledged(written)
                        /\ Answer = "I2C_MASTER_NACK_RECEIVED" => Refused(written)

\* Every call comes back, although the slave may hold the clock for ever: each
\* poll of the driver is bounded.
CallsReturn == call # "none" ~> call = "none"

\* "The master MUST send the first byte after a start condition": the machine waits
\* for it and looks at no other command. The driver can fail to send it, see the README.
FirstByteComes == MasterState = "Start2" ~> MasterState # "Start2"

\* While the clock runs and each start has its first byte, a stop that the peripheral
\* has accepted ends in the bus let go, whatever byte or command it meets and whether or
\* not the driver still waits for it.
StopIsDone == ClockRuns /\ FirstByteComes => ("MSP" \in cmd ~> ~I2CMCB)

\* "Wait for the transmission to complete": a byte reported as sent has been sent.
GoodMeansAcknowledged == Reporting /\ Answer = "I2C_GOOD" => Acknowledged(written)
=============================================================================
