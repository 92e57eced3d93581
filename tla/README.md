# Verification of VestaRV32

TLA+ models of the VestaRV32 microcontroller, TLC configurations that check
them on small instances, and proofs that TLAPS checks for every instance. The
hardware is the VHDL under `hdl/MCU`, the firmware the C code under
`riscv-tests/gcc`; paths below are relative to the root of the repository, and
`PROJECT.json` maps every definition to the lines it models.

1. [The system](#the-system)
2. [Modules](#modules)
3. [Runs](#runs)
4. [Proofs](#proofs)
5. [What the models show of the code](#what-the-models-show-of-the-code)
6. [Not modelled](#not-modelled)
7. [Plan](#plan)

## The system

| Part | State it keeps | Operations | Meets | Hard behaviour | Correct when |
|---|---|---|---|---|---|
| Interrupt handler (`vesta/irq_handler.vhd`) | a machine of nine states, in-service vector, latched line, nesting count | accept, save, jump, preempt, restore, next | core: `irq_save`/`irq_save_ack`, `irq_restore`/`irq_restore_ack`, `ivt_jump`, `isr_ret` | inputs change between the cycle in which a line is chosen and the one in which it is latched | one routine per accepted request; priority respected; no routine re-entered |
| Core (`vesta/vesta.vhd`) | `cpu_state` (seventeen states in use), pc and its two shadow registers, the instruction held back, `sleep_cpu` | execute, multi-cycle instructions, push, jump, pop, sleep | handler; memory; sleep input of NPU and flash | the core's clock is gated, the handler's is not; interrupts between the cycles of an instruction | the program goes on where it was interrupted, with its registers, asleep if it was asleep |
| Decoder, data path, CSRs, divider | registers, counters, a division in progress | combinational except for divider and counters | core | start/done handshake, counter carry | instruction set |
| UART (`periph/UART.vhd`) | control, data and flag registers; transmitter; receiver | register accesses, bit clock, sampling clock | bus (a clock with an edge per access only), line, interrupt lines | three clocks; clears that last until the next access | every byte once and in order; errors reported |
| SYSTEM (`periph/SYSTEM.vhd`) | clocks, watchdog, unlock timer, interrupt enables and priorities, CRC | register accesses, watchdog | handler, clock muxes, reset | unlock timer racing writes; watchdog ends with a return instruction | watchdog fires unless it is served; protected registers change only when unlocked |
| TIMER, GPIO | counter, compare and capture registers; edge flags | register accesses, edges | handler | flag set while it is cleared; 32-bit value read while it counts | no event lost or invented |
| SPI, flash access | shift registers, a memory access turned into a transfer | register accesses, transfers | core (sleep input), pads | the core is held until the transfer ends | words as stored in flash |
| Flash driver and console words (`flash_memory.c`, `spi.c`, words `fr`, `fe`, `fem`, `fw` of `rv4th.c`) | `flash_is_initialized`, the page buffer, the length of a transfer | initialize, read, erase, write a page | the chip, the host that types the words | the chip is busy for milliseconds after each page; a reset may fall between two accesses; the line damages bytes | a page changes only as the host confirmed; every command reaches a chip that can take it |
| I2C (`periph/I2C.vhd`) and its master driver (`i2c_master.c`) | machines of the master and of the slave, commands and their clear lines, flags; in the driver a timeout | start, stop, send, receive, arbitration; calls of the driver | the bus, slaves, other masters | two clocks without relation; arbitration lost at any bit, clock stretching; the driver gives up in the middle of a byte | every byte once and in order; what a call returns is what happened; calls end, the bus is let go |
| NPU | a program counter of layers, memory addresses | start, run | memory, core (sleep input) | holds the core while it runs | ends; results as the reference |
| AFE, SAR ADC | conversion machines | start, sample | timer, memory | events while a conversion runs | samples in order |
| Clock mux, gates, synchronizers | one enable chain per clock | select | SYSTEM | independent clocks | never two clocks on, always one again |
| Bus decoder, memory map, top level | chip enables, wiring | address decoding | all | gates the peripheral clocks | one slave per address |
| LZW (`lzw.c`) | dictionary, pending string, shifter | compress, decompress | `fw` | both dictionaries must be cleared at the same symbol; the decoder is one entry behind; a damaged stream | decompress after compress is the identity; nothing outside tables and destination is touched |
| Other drivers (`gcc/lib/src`) | ring buffers, roll-over counter, transfer state | calls of the program, routines | peripherals | routines interrupt calls; polls without a limit | see each driver |
| Forth (`rv4th/src/rv4th.c`, again in `bootrom`) | math stack, address stack, program space, names and starts of the words | monitor, compiler, built-in words | UART, all peripherals | the monitor and the compiler are programs of the machine, written by hand as a table of opcodes; branches are resolved on the stack that numbers use; most accesses are unchecked | compiled code does what its source says; the prompt leaves nothing behind |
| Boot ROM | | copies the program, starts Forth | SPI, UART | | |

There is no `mepc`: the core pushes the return address itself at `sp - 4`
(state IRQ_SV), jumps to the vector slot of the latched line (IRQ_JUMP) and
pops on a custom return instruction (IRQ_REST). Without recursion one flag,
`single_isr_active`, masks all requests while a routine is in service; with
recursion a line of higher priority may preempt it.

## Modules

| Module | What it is | Code |
|---|---|---|
| `IrqPriority` | the priority encoder and the comparison of two lines | `irq_handler.vhd` 62-233 |
| `IrqHandler` | the handler; one action per state, the clocked and the next-state case together. `HandlerSpec` drives its inputs freely | `irq_handler.vhd` |
| `Program` | addresses of a program: a main loop, a vector slot and a routine per line | external |
| `VestaCpu` | the core's state machine; `CpuClocked` is a step in which `clk_cpu` rises, `CpuGated` one in which only `clk` does | `vesta.vhd` |
| `VestaIrq` | core and handler on their two clocks, wired as in `vesta.vhd`, with peripherals that raise lines at any time | `vesta.vhd` 1122-1142, `MCU.vhd` |
| `InterruptService` | what interrupts promise to software: execute, enter a routine between two instructions, leave it for the same point | abstract |
| `VestaSleep` | `VestaIrq` with a history of the sleep and wake instructions that were executed | `vesta.vhd` 484-505, 1013-1028 |
| `VestaHistory` | `VestaIrq` with a register that instructions increment | `vesta.vhd`, `regfile_sbirq.vhd` |
| `Uart` | registers of the UART; a step is a bus access, a bit clock edge, or a frame of the receiver | `UART.vhd` |
| `UartPort` | `Uart` with any access at any time | `UART.vhd` |
| `UartPolled` | `Uart` with the polling driver and a sender at the other end | `uart.c` 358-432 |
| `UartLine` | transmitter and receiver of two UARTs, sample by sample | `UART.vhd` 213-427 |
| `I2c` | the master half of the peripheral, its driver, a slave and another master | `I2C.vhd`, `i2c_master.c` |
| `Flash` | the console words, the flash driver, the chip and the host | `rv4th.c` 979-1137, `flash_memory.c`, `spi.c` |
| `Lzw` | compressor and decompressor, one turn of a loop a step | `lzw.c` |
| `Forth` | the virtual machine, and the table of opcodes that is its monitor and compiler | `rv4th.c` |
| `ForthLanguage` | what a text means, without compiler or machine | comments of `execVM` |
| `VestaIrqProofs`, `UartPortProofs`, `UartPolledProofs`, `UartLineProofs`, `I2cProofs`, `FlashProofs`, `LzwProofs`, `ForthProofs` | proofs | |
| `MCIrqHandler`, `MCUartLine`, `MCForth` | instances for TLC; `MCForth` also the texts and the properties of the interpreter | |

**State and steps.** Variables have the names of the signals. A step of
`VestaIrq` is one edge of `clk`, at which every register of both machines moves
at once; outputs that the code computes combinationally are operators of the
old state. In `Uart` the three clocks are independent, so each step is one edge
of one of them and every order is explored.

**Data.** A fetched word is its decoder class (`op`, `mem`, `div`, `sleep`,
`wake`, `fence`, `amo`, `lr`, `sc`, `trap`, `iret`), and which class an address
holds is chosen at every fetch, so one run covers all programs of the length.
A 32-bit instruction on a half-word boundary is a fetch of class `split`
followed by the instruction. In AMO_WRITE, LR_READ and SC_CHECK the word on the
bus is data: whatever class it decodes to is allowed. The stack is the sequence
of return addresses the core pushed; routines are taken to restore `sp`, as the
calling convention demands. In `Uart` a frame carries a byte; in `UartLine` it
is eight bits.

**Drivers.** A step is one access of a peripheral. In `I2c` the driver is a
place in the code (`call`, `act`, `at`) and the peripheral steps on its own
clock in between: a command is a bit that the driver sets and that a *clear
line* of the other clock holds at zero for a period. The bits of a byte sent
are one step, those of a byte received are counted, because each of them clears
the command again. In `Flash` a function of the driver is a *script* of
accesses, so that a reset can fall between any two; the chip collects bytes
while it is selected and acts when it is deselected.

**The interpreter.** `Forth` contains the table `progBi` word for word, since
the table is the program in question. The monitor, the compiler and the words of
the user run on the same stacks; `nested` is the one opcode that `exec` runs
out of turn. Addresses above 10000 are in the table, opcodes above 20000 are
built-in words, as in the code. `strayed` records an access outside an array,
after which the model stops: what memory holds there is unknown.

**LZW.** The sizes are parameters. The shifters of the two functions are a
sequence of bits; the linked lists of the dictionary are the map they keep.

**The abstract specifications.** `PreciseService` says that `VestaIrq`
implements `InterruptService`. The refinement mapping `ArchPoint` is the
address of the next instruction: `pc` in most states, `pc_next_reg` while the
core sleeps or saves (the address it is about to push), and the address of the
return instruction while it restores. `ArchSuspended` is the stack, without the
address already pushed while the jump is still to come. `ForthLanguage` gives
the reference for `MeansWhatItSays`: it executes the words of a text one by
one, `if`, `begin` and `do` choose among the words up to their ends, and a word
of the user stands for the words of its last definition. For `Lzw` the
reference is the identity.

## Runs

| Run | Configuration | Question | Distinct states |
|---|---|---|---|
| `handler` | 3 lines, every priority vector, every input in every cycle, recursion | encoder and comparison agree; preemption follows priority; no re-entry; `nesting_count` in its range | 6,680 |
| `core_single` | 2 lines, no recursion, all instruction classes, sleep in the program and in routines, traps in the program | the core and the handler implement `InterruptService`; they agree on the stack; vectors are right; sleep is kept; the top line is served; routines end | 515,456 |
| `uart_port` | one byte, parity, any accesses | a byte written to an idle transmitter is taken | 82,512 |
| `uart_polled` | two bytes, two each way | no byte lost, repeated or overtaken; `uartx_putc` returns | 31,428 |
| `uart_line` | a byte of each parity, both parities and none, drift 6, noise 1 | frames arrive; a lost bit is reported | 8,765,824 |
| `i2c` | bytes of two bits, a timeout of one poll, three bytes, four calls, one transaction of another master | no byte twice; answers are true; calls return; a stop lets the bus go | 810,097 |
| `flash` | two pages of two bytes, three words, one reset | pages change only as confirmed; reads are right; no command is lost; words end | 542,020 |
| `lzw` | bytes of two bits, 8 codes, seven bytes of input, any stream of 14 bits | round trip; tables and destination are kept to | 446,767 |
| `forth` | 448 texts from a grammar | compiled code means what its source says; the prompt is clean; open branches are told of | 186,881 |

Every property of these runs has a mutant in `PROJECT.json`: a plausible bug in
a definition, with which TLC finds the property violated. The operators that
serve as mutants are marked `Variant` in the modules.

**Bounds.** Three lines are the fewest with which a line can be below one and
above another in both rules of `has_higher_priority`; the encoder is proved for
any number. Two lines are enough for `VestaIrq` without recursion, where the
second matters only as one more request that waits. `MainLen = 2` tells the
interrupted instruction from the next; a routine has one instruction and the
return. In `uart_polled` (`MaxBytes = 2`) the second byte meets the window that
the first leaves; the order of more is proved. `uart_line` runs without a bound
on frames: state repeats. Drift and noise add up to seven of sixteen samples,
the largest number the majority tolerates; TLC finds `FramesArrive` violated
with eight. The stop bit is a single sample and stays undisturbed.
In `i2c`, two bits are enough for a byte to have a first and a last one, and one
poll for a timeout both to happen and not; three bytes are a byte, one queued
behind it and one after a new start. In `flash`, a page of two bytes has a first
and a last one, the second page shows that the other is left alone, and three
words are one that is broken off and one on either side. A dictionary of eight codes has three
strings, so that seven bytes fill it with the text compressing, not compressing, or
with its last symbol. `SLACK` is how many bytes the output may exceed the input by before the
dictionary is cleared early; the 8 of `lzw.c` are more than so few codes ever
reach, and with `SLACK = 0` seven bytes do clear it before it is full.
A stream of 14 bits is any sequence of four symbols or more. One boundary
of `WithinRoom`, a compressed text that does not fit where its bytes do, is not reached with
these rooms; `RoomIsKept` proves it. The texts of `forth`
nest three constructs of every kind in definitions that call one another and are
redefined; twelve cells of each stack and 64 of the program space are enough for
every text that keeps to the language.

**Environment.** `Withdraw = FALSE`: a request stays until its routine runs,
which is what level-triggered flags do that only the routine clears.
In `uart_polled`, `Pacing = "polled"` means that the sender waits until
the program has read the last byte and accessed the UART again; nothing in the
hardware makes it wait, and with less (`Pacing = "read"`) bytes are lost.

**Fairness.** `VestaSleep!FairSpec` assumes that `clk` does not stop and that a
division ends while its clock runs (`WF` of `DivisionEnds`; the divider counts
down from 31, `div.vhd` 129). Every step is an edge of `clk`; that it does not stop is
stated as "the state changes again and again" (`ClkRuns`). Edges that change nothing
exist only where nothing waits - no request of the top line, no routine that
could go on - or in a division and in the two states below that only a reset leaves,
so no behaviour that matters is left out.

Three things that the program does can keep a request or a routine waiting for ever, and
the two properties name them, since the run has them all: an instruction that
traps (TRAP_STATE is left only by reset; in the run only instructions of the program do,
since a trap in a routine breaks `FrameAgreement`); a routine that executes sleep, which
without recursion is woken by nothing, since its own service masks every request
(`vesta.vhd` 982-992); and a core that is for ever at fences, which look at no
request (882-889). The first two are among the ends of `TopLineServed` and
`RoutinesEnd`; that the core is again and again not at a fence is a hypothesis of
`TopLineServed`. A routine of the model is a straight line, so what
`RoutinesEnd` says of a routine that loops is that the core does not keep it from ending.

`UartPolled!FairSpec` assumes that the bit clock runs while
the transmitter is busy, which is its enable (`UART.vhd` 172, 231), that an
access under way ends, and that the program goes on with a call it is in. It
does not assume that the program makes calls, or that anything is received.

`I2c!Spec` assumes only that the processor runs: that is enough for the calls to
return. `StopIsDone` also needs a clock on the bus that no slave holds for ever
(`ClockRuns`) and a first byte after each start (`FirstByteComes`, which
the peripheral's documentation demands of the program); both are hypotheses in
the property. `Flash!Spec` assumes that the processor goes on, that the host
sends what it is asked for, and that the chip ends what it does ("a maximum of
25 ms", `flash_memory.c` 103). `Forth!Spec` assumes that the machine runs; it is
the only program.

**Deadlock** is checked in every run but `forth`, `lzw`, `flash`, `i2c` and
`i2c_stale_flags`, whose systems stop when the text, the stream, the words or
the calls are used up.

## Proofs

| Theorem | For every | States |
|---|---|---|
| `EncodeIsTop` | number of lines, priority vector, pending set | the encoder's line has priority over the others |
| `RegistersAreTyped` | lines, mode, inputs | registers keep to their values |
| `EncoderAlwaysPicksTop` | lines, mode, inputs | property `EncoderPicksTop` |
| `OneRoutineAtATime` | lines, inputs, no recursion | property `SingleService` |
| `PreemptionFollowsPriority` | lines, mode, inputs | property `PreemptsLowerOnly` |
| `RoutinesAreNotReentered` | lines, mode, inputs | property `NoReentry` |
| `NestingKeepsToItsRange` | lines, mode, inputs | property `HandlerTypeOK` |
| `IdleWriteIsTaken` | bytes, parity, accesses, line | property `IdleWriteTaken` |
| `PutcTransmitsInOrder` | bytes, how many, parity, line | property `TransmittedInOrder` |
| `GetcReturnsInOrder` | bytes, how many, parity, `Pacing = "polled"` | property `ReceivedInOrder` |
| `GetcInventsNothing` | the same, and any `Pacing` | `uartx_getc` returns bytes received, none twice, in order |
| `PolledIsAProgram` | the same | driver, UART and line implement `UartPort` |
| `PortIsTyped` | bytes, parity, accesses, line | property `UartTypeOK` |
| `CoreIsTyped` | mode, program, lines, raising and withdrawing of lines, traps | property `CpuTypeOK` |
| `HandshakesAreKept` | the same | pushes, jumps and restores of the core meet the states of the handler |
| `ReturnsHaveAnAddress` | the same | a return finds an address on the stack, at the bottom one of the main program |
| `ProgramFollowsTheStack` | the same | where a step can take the program, and what it pushes or pops |
| `CoreDrivesTheHandler` | the same | core and handler implement `HandlerSpec` |
| `SleepNeedsOnlyTheVector` | the same | in `VestaSleep`, `AsleepUntilWoken` follows from `VectorTaken` |
| `HandlerAndStackAgree` | the same, but no recursion and no trap in a routine | property `FrameAgreement` |
| `RoutinesAreEnteredByVector` | the same, but no recursion and no withdrawing | property `VectorTaken` |
| `SleepLastsUntilWoken` | no recursion and no withdrawing | property `AsleepUntilWoken` of `VestaSleep` |
| `StackIsRestored` | no recursion and no withdrawing | property `StackRestored` |
| `ServiceIsPrecise` | no recursion and no withdrawing | refinement `PreciseService` |
| `BytesGoOutOnce` | bits, timeout, bytes, calls, other masters | property `NothingRepeated` |
| `AnswersAreTrue` | the same | property `AnswerIsTrue` |
| `I2cIsTyped` | the same | property `I2cTypeOK` |
| `EveryFrameArrives` | bytes, parity, noise and drift up to 7 together, drift up to 6 | property `FramesArrive` |
| `OneBitIsCaught` | the same, with parity | property `ParityCatchesOneBit` |
| `FlashInvariant` | pages, bytes of a page, words, resets | the invariant below |
| `FlashIsTyped` | the same | property `FlashTypeOK` |
| `CommandsAreTaken` | the same | property `NeverDisturbed` |
| `ReadBackIsKnown` | the same, and every length read | property `ReadsBack` |
| `ChangesNeedConfirmation` | the same | property `ChangesAreConfirmed` |
| `LzwInvariant` | bits of a byte and of a code, input, stream, sizes of the destination | the invariant below |
| `LzwIsTyped` | the same | property `LzwTypeOK` |
| `WhatGoesInComesOut` | the same | property `RoundTrip` |
| `RoomIsKept` | the same | property `WithinRoom` |
| `StringsAreFound` | the same, and any stream, damaged or not | property `TablesDescend` |
| `MachineIsTyped` | texts, numbers, sizes of the stacks, the program space and the list of words | property `ForthTypeOK` |
| `OpcodesStay` | the same | a word keeps the opcode it was given |

**Assumptions**: `NUM_IRQS` is a positive natural number, `irq_recursion_en` a Boolean,
`Bytes` is not empty, a program and a routine have at least one instruction, a
byte of `I2c` has at least one bit and its other bounds are natural numbers; the
pages of `Flash` are numbered from zero, a page has at least one byte and what is
written are bytes; in `Lzw` a byte has at least two bits and a code more than a
byte. With bytes of one bit the dictionary can have room for one string
only, which the decoder's first code already fills, although it tests for a full
dictionary only at later ones; `lzw.c` has 8 and 11. A text of `Forth` is a sequence of
words, those that are numbers have one, and no array is empty.
All are checked by TLC in the runs.
Six theorems about core and handler assume nothing more. The other five assume
`~irq_recursion_en`; beyond that `HandlerAndStackAgree` assumes that no routine traps and
the others that no request is withdrawn, and no more. Each of these is needed: TLC
refutes the property without it (see "With another value of a constant").

**Handler.** The inductive invariant `HandlerInv` is `RegistersTyped`, the
connection that carries a choice over the two cycles to CHECK_NESTED, and, in
the mode without recursion, `SingleService` with `NoLateChoice`.

- `NestedChoice`: in CHECK_NESTED the registered line is pending, not in
  service and has priority over the latched one. CHECK_NESTED is only entered
  when `higher_priority_pending` holds, and the encoder output registered in
  that cycle is the line it was computed from. `PreemptsLowerOnly` and
  `NoReentry` follow in the next step, whatever the request lines do meanwhile.
- `NoLateChoice`: without recursion the encoder reports nothing from the second
  cycle of a service on, because the mask is set one cycle after the request is
  accepted. Without it DECIDE_NEXT could take a line that was registered before
  the mask, and `SingleService` is not inductive.
- `NestingBounded`: `nesting_count` and the lines above the latched one are
  together at most `NUM_IRQS`. A routine whose end meets a preemption is still
  counted although it is no longer in service, so the in-service vector does not
  bound the count; what does is that each preemption raises the priority of the
  latched line, and that the count starts again at one.

**UART.** `ResetWithinFrame`: the signal that holds `start_tx` in reset is only
set while a frame is under way. `TransmitInv` adds `IdleSeenIsIdle`: what the
driver saw in the status register, sampled at the start of the access, still
holds when it writes the byte, since nobody else starts a transmission. Then a
byte is in one of three places (sent, shift register, transmit register), and
each edge moves it from one to the next.

For the receiver, `Listening` says that the flag, once seen, stays until `uartx_getc`
reads, and that the latch holds the byte it tells of. So every step is one of
three (`Hears`): a byte completes, `uartx_getc` returns the byte that the flag tells of, or
neither. That is enough for `NothingInvented` at any pace: the places of the returned
bytes among the received ones grow, and the flag tells of the last one received.
`ReceivedInOrder` needs the pace, since only then does a byte that completes find the flag
out of reset. `PolledIsAProgram` maps each step to an access, an edge of the bit clock or
a step of the line; the two latches, which `UartPort` leaves alone, are mapped to constants.
`PolledWriteIsTaken` then has `IdleWriteTaken` for this driver.

**Core and handler.** There are two inductive invariants. `MachineInv` holds in every mode
and environment; beside the type of the core's registers and the handler's
own invariant it has three parts.

- `Sequencing`: in the states in which the core waits, `pc`, `pc_next_reg` and
  the address of the word at the decoder agree in the way the state demands, and
  the word at the decoder was fetched from `pc`. Without it nothing is known of the
  address that IRQ_SV pushes.
- `Handshakes`: the core is in IRQ_SV and IRQ_JUMP only while the handler is in
  WAIT_SAVE_ACK, and the handler is in JUMP_TO_IVT in the very cycle in which the core is
  at the entry.
- `Frames`: the address at the bottom of the stack is one of the main program, and outside
  the main program there is one.

From it follow the six theorems for every mode. `PointStep` says what one clock
does to `ArchPoint` and the stack (`Flow`): the program goes on by one instruction, enters at
the vector after its place was pushed, or returns to the address on top, which is popped
unless another save request meets the pop. In that last case an address stays behind,
and it is why the other theorems need the mode without recursion.

The two theorems about sleep are about `VestaSleep`, whose variable `slept` says whether a sleep
instruction was *executed* and no wake since. `SleepNeedsOnlyTheVector` adds
`Dormant`: while `slept` is "asleep" the core is in the main program only to wait or to
take an interrupt, and `sleep_cpu` is set, unless a wake instruction is already at
the decoder and will be executed. `WakeAtHand` says that there is no other way
for the flag to be cleared than a wake that is executed or one that is misread in
IRQ_SV or IRQ_JUMP (`Misread`); of the latter the property says nothing, and
`sleep_lost` shows that then sleep is lost.

`SingleInv`, without recursion, says for each state of the handler in which
states the core can be (`Meeting`). The two machines change on different clocks and each
waits for a line of the other, so this is where a pulse could be missed. There
are two exceptions: `Stuck`, a routine has trapped and the handler goes on without the
core; and `Lost`, the request was withdrawn, the core went to address 0, and the handler
waits for an end of interrupt that does not come. Neither is ever left, except by reset.
`Accepting` says that the request being accepted is still there, which is what
`Withdraw` breaks. `Stuck` is excluded where no routine traps and `Lost` where no request
is withdrawn (`Settled`), so each theorem assumes only the one that its property
does not survive: `FrameAgreement` survives `Lost`, since the address pushed stays
on the stack, and the others survive `Stuck`, since the core does nothing more.

Each step of core and handler is then a step of `InterruptService` (execute,
enter, leave) or leaves `ArchPoint` and `ArchSuspended` alone; the sleep
instruction is executed when the core falls asleep.

**I2C.** `BytesInv` follows a byte from the register `I2CxMTX` to `MasterData` and the
bus. `Latest`: the register holds the byte written last. `Pending`: a byte whose
command to send still stands, outside the period in which it is being cleared,
has neither been sent nor begun. `InHand`: what the machine is sending is newer
than all that the bus has carried. A driver that gives up, repeats or overwrites
only ever moves bytes forward along this chain.

`AnswerInv` follows the byte a call waits for: it is lost to another master, not
yet taken, being sent, or on the bus with the answer the flags show (`Waits`). The driver
asks first for the loss and then, with another read, for the answer; once it has seen no
loss only the last is left, and the machine does not change it (`AnswerRemains`). It needs
that the machine is idle when a first byte is written (`Before`), and that all
later calls find a flag of an earlier byte (`Later`), since the driver never clears one;
which is also why `AnswerIsTrue` says nothing of later bytes, and
`i2c_stale_flags` fails. `TypeInv` adds what keeps the numbers of bytes in range:
a call has room for all the bytes it is going to write (`Budget`).

**Line of the UART.** The counters of the two ends say how many edges each has counted
since the start bit began, and `LineInv` ties them together (`Following`): the
transmitter is ahead of the receiver by exactly `lead`, which drift bounds. So of the
first `n` samples of a bit at most `Drifted(n)` belong to its neighbour, with those
that noise has turned (`wrong`) the up/down counter is at most twice that far from
the count of a clean bit (`Counted`), and below eight wrong samples the majority is that of the
bit. The bits taken so far are those of the frame (`Seen`: as sent, but for the one
that is lost), and `rx_parity` is the parity of what was seen. `Tolerance` has two
bounds: seven samples of noise and drift together for the majority, and six
of drift alone for the stop bit, which is sampled half way.

**Flash.** A script is a sequence built from the functions of the driver, so an
invariant over what is left of it cannot be written as a formula over its steps.
The proof describes the driver instead by a *view*: the command as far as it is
sent, how far the chip was brought since the last reset (`level`), whether
it is known to be ready, and the pages that the host expects to change and
that have not yet. `After` is what a step makes of a view and `Allowed` when it may
be taken. `Leads(c, v, s, n)` says that script `s`, played from view `v`, takes
only steps that are allowed and ends in view `n`; it is proved once for every
function of the driver and every word, by composition (`LeadsOn`) and, for the loops
over pages and bytes, by induction over their number. `FlashInv` then says: the
state agrees with some view from which the rest of the script leads to rest.
Each action is one step of the view, and the chip, which works on its own, keeps
the agreement.

- `LevelAgrees` and `ReadyAgrees`: what the view takes the chip to be, it is. That
  a chip takes its next command follows from them (`Collects`); the exception is
  `Missed`, a wake or unprotect sent to a chip that had been given it before a
  reset, and this is why `NeverDisturbed` ends with the first reset.
- `HostAgrees`: a page that is not owed holds what the host knows of it. A page is
  owed from the answer of the host to the deselection of the chip.
- `ReadAgrees` with `Prints`: the byte just received is the one at the address
  that the host has counted to. That the addresses agree across the ends of
  pages and of the memory is arithmetic (`Places`, `PlaceIs`).

**LZW.** The compressor does not know its reader, and the reader is always one
entry behind; the proof puts the two side by side. A decompressor that reads
what has been written so far is imagined beside the compressor (`Accompanied`,
with `Reaches` for a decompressor that reads a stream from its start). It is `InStep`: it
has written everything up to the pending string, has the same next code, and
the string of every code in the dictionary is in its tables, except that of the
newest it lacks the last byte, which is the first of the pending string. Each
way on keeps this: a longer string (`LongerInStep`), a symbol sent
(`SentInStep`), and a reset, early or of a full dictionary (`ResetInStep`); the last
symbol may be the one that fills it (`CompressEndStep`). Once the stream is complete the decompressor that runs is on the way that
was imagined (`OnTheWay`, `Passes`), so what it reads next is the next symbol of that way
or the code that is not used, and it arrives at `src`. If it finds no room on the way, the
whole of `src` has none, since what is written stays (`PassesGrows`).

- Symbols: `SymbolIsRead` says that the code read at the start of a symbol is the
  one written, and that the same number of bits is taken. Below it are the powers of two
  (`PowerGrows`), the choice of the width (`CodeBits`) and the binary numbers
  (`NumberOfBinary`).
- `Sound` is what the decoder keeps for any stream: the entries made since
  the last clear are each built on an earlier code (`Made`), those left from before
  still descend (`Descending`), and before the first code nothing is looked up. It makes
  `String` well defined (`StringIs`) and bounds its length (`StringBounds`).

**Forth.** `ForthTypeOK` is inductive as it stands. The arrays are only safe because
`Outside` stops the model before a step that leaves them, so each action's proof takes from
`Outside` what the word reaches and how far its stack grows (`MathRoom`, `AddrRoom`) and shows
that what it does is no more than that (`MathAfterIs` for the words that only calculate).
`DictionaryOK` is the part that no check of the model gives: a call goes through
three tables - the names, the opcodes and the starts - and a name defined twice is listed twice,
with its start under the first entry. `LookupLonger` says what a longer list answers; from it,
what could be found can still be called (`DefineStep`), and a word keeps its opcode
(`OpcodesStay`), so that what was compiled never comes to mean another word. `OpcodesStay` is stated in
`ForthProofs` and is no property of a run.

**Induction over data.** The induction theorems of the library take an operator,
which the provers cannot instantiate. For natural numbers, `FlashProofs` and
`LzwProofs` state induction for a set instead (`Induct`, from
`NatLessThanWellFounded` and `WFMin` of the library). `FlashProofs` shows with it
that a function defined by recursion over a sequence exists and what it
computes (`FlattenedExists`), `LzwProofs` that a function on the natural numbers
does whose every value is a step from the one before (`Recursion`); the powers, the
numbers in binary and the strings of `Lzw` are brought to that form.

**Left to TLC**: liveness (`TopLineServed`, `RoutinesEnd`, `WordsEnd` and the others
under fairness), which TLAPS cannot prove; and the properties of `MCForth`, which hold
for the texts of its grammar only and not for every text: `MeansWhatItSays` compares the machine
with a language defined by recursion over programs, whose operators are `RECURSIVE`, and
`StraysOnlyWhenAsked`, `PromptIsClean` and `HolesAreTold` are about the programs that
the table makes of those texts.

## What the models show of the code

Three runs expect a violation: each is a sentence of the repository that the code
does not keep.

| Run | Where | What happens |
|---|---|---|
| `registers_lost` | `vesta.vhd` 939 | the instruction at the return address is decoded in IRQ_SV with its register write enabled, so it takes effect twice |
| `sleep_lost` | `vesta.vhd` 486, 1022 | where a wake instruction follows the sleep instruction, IRQ_SV decodes it while it takes an interrupt, which clears `sleep_cpu`; the return goes to EXECUTE and not back to sleep (967), although no wake was executed. The word on the bus in IRQ_JUMP does the same |
| `i2c_stale_flags` | `i2c_master.c` 70, `I2C.vhd` 843-860 | the driver clears flags by writing zeros where the peripheral wants ones; from the second byte on it reports the byte as sent on the flag of the byte before |

**With another value of a constant** TLC shows these:

| Constant | Property refuted | Where | What happens |
|---|---|---|---|
| `VestaIrq`: `Withdraw = TRUE` | `VectorTaken`, `AsleepUntilWoken`, `StackRestored`, `PreciseService` | `irq_handler.vhd` 270 | a request taken back one cycle after it was seen interrupts the core all the same and sends it to address 0 |
| `VestaIrq`: `"trap"` in `IsrClasses` | `FrameAgreement` | `vesta.vhd` 994 | a routine traps while its last instruction is already seen as a return: the handler goes on, the core does not |
| `VestaIrq`: `irq_recursion_en = TRUE` | `StackRestored` and the other four | `vesta.vhd` 962 | a request that meets the return of a routine leaves a return address on the stack |
| `UartPolled`: `Pacing = "read"` | `ReceivedInOrder` | `UART.vhd` 530 | the clears of the receive flags last until the next access of the UART, and hide a byte that completes before it |

**Seen while reading**, without a run:

- Core: a routine that executes sleep never ends without recursion (`vesta.vhd`
  982-992). A program of fences only is never interrupted (`vesta.vhd` 882-889). With
  recursion the handler goes idle when an inner routine ends although the outer
  one is in service (`irq_handler.vhd` 325, 455). The watchdog compares a bit
  with a copy of itself (`SYSTEM.vhd` 260).
- UART: a byte written in the first bit of a frame, when UTEIF says that the
  register is empty, is not sent (`UART.vhd` 549): `IdleWriteTaken` is about
  writes that also saw the transmitter idle. The overflow check looks at the flag of the transmitter (416).
- I2C peripheral: a master that lost the arbitration goes on to Stop1 and pulls
  the data line of the winner down (`I2C.vhd` 401, 547). AckReceiver3 does not
  wait for a slave that holds the clock. A byte written while the line that
  clears `MasterWrite` is up is not sent.
- I2C driver: `i2cx_master_send_start` tests the opposite of its comment
  (`i2c_master.c` 326, 327). A received byte is read whether or not one arrived
  (202, 224). A timeout asks for a stop and switches the master off before it can take
  place (82, 83). A start that timed out stays pending.
  `rx_byte_no_timeout` polls without a limit. `i2cx_slave_available` never clears the
  flag of the start, and so reports every connection as ended (`i2c_slave.c` 118-134).
- Flash: the opcode for pages of 256 bytes is sent after the poll has set the
  length to one byte, so that only its last byte goes out (`flash_memory.c` 65,
  69). The address of a page is OR-ed with the opcode without a mask (117, 150).
  After a reset, `flash_memory_init` wakes a chip that may still be busy, which
  is why `NeverDisturbed` holds only up to a reset. The host's answer is a
  single character without protection.
- Forth: typed at the prompt, `]` does not end the monitor that `[` started
  (`rv4th.c` 184-190): the opcode of the word is compared with the character `]`. The texts
  of `forth` use no brackets there. `[`, `:` and `var` within a definition look up a cell that no
  definition has; `then` without `if` writes to `prog[0x5555]`; `+!` lacks the
  scaling of the other memory words; `getLine` and `getWordFunc` reach one past
  their buffers (516-560, 651-681). `StraysOnlyWhenAsked` lists in `Careless`
  the texts that do this.
- Timing: `timing_init` enables the interrupt of the compare register but not
  the reset of the counter, on which its roll-over depends (`timing.c` 52-81). NPU: the driver tests a flag and
  then sleeps, and misses the interrupt in between (`HardwareMLPNN.c` 88-136).

## Not modelled

- Reset and INITIALIZE: runs start in the state reset leaves. DIRECT_JUMP of
  the handler, which nothing enters.
- The instruction set: decoding, arithmetic and immediates are tables, covered
  by the RISC-V tests under `riscv-tests/isa`. The models use only the classes
  of instruction that the control tells apart.
- The reservation of LR/SC and the CSRs, until the modules planned below.
- Handshakes below a clock cycle: gates and latches are taken to work as
  `sim/ClkGate.vhd` says. In `Uart` a flag set by one clock is seen by the
  next edge of another without metastability.
- `irq_pri` and `irq_recursion_en` change only before interrupts are enabled;
  parity is configured once.
- Noise on an idle line, which `UartLine` excludes: a glitch within sixteen
  samples before a start bit makes the receiver miss it.
- I2C: the slave half, and with it the question of `i2cx_master_send_start` whether it is
  enabled (`i2c_master.c` 335); the interrupts, the data received. Flash: the second SPI
  and the shift engine below `spi_transfer`.
- Forth: the words that access memory and peripherals, the cutting of a line
  into words and of a word into a number, `bye`, the width of numbers, the room for
  the characters of the names. The boot
  ROM holds a copy of the interpreter with `fem`, of which only that is modelled.
- TIMER, GPIO, SYSTEM, NPU, the clock multiplexer, the memory-mapped path to the
  flash: left for later, see the plan.
- Most lines of C in the repository are tables of constants: the headers of
  registers and memory map (`myshkin*.h`, `MemoryMap.h`) and of instruction
  encodings (`encoding.h`). They have no state and no control, and neither have the
  test macros under `isa/macros`.
- `uart_irq.c`, which calls functions and registers the library no longer has.
- Everything analogue, the generated netlists (`genus`, `innovus`), the memory
  macros, and the firmware's number formatting.

The components of `PROJECT.json` give the reason for each part.

## Plan

Done: handler, core, their composition, its abstract specification and the proof
of the refinement, and what the core keeps to in every mode; UART with its polling
driver, and down to the samples of the line; I2C master with its driver; flash driver with the words above and the chip
below it; LZW; the Forth machine with its compiler. What is left, in order:

1. The recursive mode of the core beyond what the six theorems say of it: which addresses
   stay behind on the stack, and which line a return ends for the handler.
2. `Reservation`: LR/SC and atomic accesses against an atomic memory, with
   interrupts between the two.
3. `ClockMux`: at most one clock on, and a switch that ends; `System`: watchdog
   and unlock timer.
4. `Timer` with `Timing` (`micros` across a roll-over, against a clock that
   jumps); `Gpio` edge flags.
5. The slave half of I2C opposite `I2c`; the shift engine of `Spi` under `Flash`.
6. `Npu` sequencing, `Divider` against division.
