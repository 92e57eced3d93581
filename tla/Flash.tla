-------------------------------- MODULE Flash --------------------------------
(***************************************************************************)
(* The console words fw, fe and fr (rv4th.c), the flash memory driver      *)
(* below them (flash_memory.c, spi.c), the flash memory and the host that  *)
(* types the words and sends the pages.                                    *)
(*                                                                         *)
(* A function of the driver is a script of steps, each of which is one     *)
(* access of the SPI or of the chip select pin; the chip works on its own  *)
(* between them, and the processor may be reset between any two.  A word   *)
(* of 32 bits is the sequence of its bytes.  External: the flash memory, as *)
(* the driver's comments describe it, set to pages of 256 bytes, and the   *)
(* host, as the comment of flashWritePageFunc describes it.                *)
(***************************************************************************)
EXTENDS Integers, Sequences, SequencesExt

CONSTANTS
  Pages, PAGE_BYTES,           \* pages of 256 bytes in the code
  Data,                        \* values of a byte that is written
  MaxCommands, MaxResets       \* bounds

ASSUME FlashAssumption ==
  /\ Pages \subseteq Nat /\ \E last \in Pages : Pages = 0..last
  /\ PAGE_BYTES \in Nat \ {0} /\ Data \subseteq 0..255

VARIABLES
  script,                      \* what the processor still has to do for this word
  flash_is_initialized,
  data_length,                 \* of the SPI, in bytes
  rx,                          \* the byte last received
  buffer,                      \* flash_write_buffer
  chip,                        \* the flash memory
  pages,                       \* its contents
  host,                        \* what the host is doing
  known,                       \* what it knows of a page, or <<>>
  commands, resets             \* counted for the bounds

vars == <<script, flash_is_initialized, data_length, rx, buffer, chip, pages, host,
          known, commands, resets>>
mcu == <<flash_is_initialized, data_length, rx, buffer>>
outside == <<host, known, commands, resets>>

SPI_FLASH_OPCODE_WAKE == \hAB
SPI_FLASH_OPCODE_UNPROTECT == <<\h3D, \h2A, \h80, \hA6>>
SPI_FLASH_OPCODE_256B_PAGE == <<\h3D, \h2A, \h7F, \h9A>>
SPI_FLASH_OPCODE_READ_HF == \h0B
SPI_FLASH_OPCODE_WRITE == \h82
SPI_FLASH_OPCODE_PAGE_ERASE == \h81
SPI_FLASH_OPCODE_STATUS_REGISTER_READ == \hD7
RDY == 128                     \* bit 7 of the status register
Contents == [1..PAGE_BYTES -> Data]
PageCount == 1 + CHOOSE p \in Pages : \A q \in Pages : q <= p
Erased == [n \in 1..PAGE_BYTES |-> 255]
Torn == [n \in 1..PAGE_BYTES |-> -1]

-----------------------------------------------------------------------------
(* The driver: scripts. *)

\* Variant: in bits.
LengthVariant(n) == <<<<"length", 8 * n>>>>
Length(n) == <<<<"length", n>>>>
assert_CS_FLASH == <<<<"select">>>>
deassert_CS_FLASH == <<<<"deselect">>>>
spi_transfer(word) == <<<<"transfer", word>>>>
spi_init(n) == Length(n)
Times(n, s) == FlattenSeq([k \in 1..n |-> s])

\* while (flash_memory_busy()) {}
flash_memory_busy ==
  spi_init(1) \o assert_CS_FLASH \o spi_transfer(<<SPI_FLASH_OPCODE_STATUS_REGISTER_READ>>)
  \o spi_transfer(<<0>>) \o deassert_CS_FLASH \o <<<<"again">>>>

\* The pin becomes an output, low, before it is set high.
flash_memory_init ==
  spi_init(1) \o assert_CS_FLASH \o deassert_CS_FLASH
  \o assert_CS_FLASH \o spi_transfer(<<SPI_FLASH_OPCODE_WAKE>>) \o deassert_CS_FLASH
  \o <<<<"delay">>>> \o Length(4)
  \o assert_CS_FLASH \o spi_transfer(SPI_FLASH_OPCODE_UNPROTECT) \o deassert_CS_FLASH
  \o flash_memory_busy
  \o assert_CS_FLASH \o spi_transfer(SPI_FLASH_OPCODE_256B_PAGE) \o deassert_CS_FLASH

\* Variant: the chip is not asked whether it is busy.
beginReadVariant(p, offset) ==
  spi_init(1) \o assert_CS_FLASH \o spi_transfer(<<SPI_FLASH_OPCODE_READ_HF>>)
  \o Length(4) \o spi_transfer(<<0, p, offset, 0>>)
flash_memory_beginRead(p, offset) ==
  flash_memory_busy
  \o spi_init(1) \o assert_CS_FLASH \o spi_transfer(<<SPI_FLASH_OPCODE_READ_HF>>)
  \o Length(4) \o spi_transfer(<<0, p, offset, 0>>)

flash_memory_writePage(p, data) ==
  flash_memory_busy
  \o spi_init(4) \o assert_CS_FLASH \o spi_transfer(<<SPI_FLASH_OPCODE_WRITE, 0, p, 0>>)
  \o Length(1) \o FlattenSeq([n \in 1..PAGE_BYTES |-> spi_transfer(<<data[n]>>)])
  \o deassert_CS_FLASH

\* Variant: the chip is not asked whether it is busy.
erasePageVariant(p) ==
  spi_init(4) \o assert_CS_FLASH
  \o spi_transfer(<<SPI_FLASH_OPCODE_PAGE_ERASE, 0, p, 0>>) \o deassert_CS_FLASH
flash_memory_erasePage(p) ==
  flash_memory_busy
  \o spi_init(4) \o assert_CS_FLASH
  \o spi_transfer(<<SPI_FLASH_OPCODE_PAGE_ERASE, 0, p, 0>>) \o deassert_CS_FLASH

\* The first word that uses the flash memory initializes it.
Initialized ==
  IF flash_is_initialized THEN <<>> ELSE flash_memory_init \o <<<<"initialized">>>>

-----------------------------------------------------------------------------
(* The chip. It collects the bytes sent while it is selected, and carries  *)
(* the command out when it is deselected.                                  *)

\* An asleep chip takes only the command that wakes it, a busy one only a
\* question for its status; a command not taken is collected as <<-1>>.
Takes(op) ==
  CASE chip.state = "awake" -> ~chip.busy \/ op = SPI_FLASH_OPCODE_STATUS_REGISTER_READ
    [] chip.state = "waking" -> FALSE
    [] OTHER -> op = SPI_FLASH_OPCODE_WAKE
Collected(bytes) ==
  IF chip.command = <<>> /\ ~Takes(Head(bytes)) THEN <<-1>> ELSE chip.command \o bytes

\* What it sends back during the last byte of a command; -2 where nothing drives the line.
Answer(command) ==
  LET n == Len(command)
      at == command[4] + n - 6
  IN CASE command[1] = SPI_FLASH_OPCODE_STATUS_REGISTER_READ /\ n > 1 ->
            IF chip.busy THEN 0 ELSE RDY
       [] command[1] = SPI_FLASH_OPCODE_READ_HF /\ n > 5 ->
            pages[(command[3] + at \div PAGE_BYTES) % PageCount][(at % PAGE_BYTES) + 1]
       [] OTHER -> -2

\* A page written with fewer bytes than it has, or with more, is not what was meant.
Written(command) ==
  IF Len(command) = 4 + PAGE_BYTES THEN SubSeq(command, 5, 4 + PAGE_BYTES) ELSE Torn

\* Carried out at the deselection: a page takes time, as does unprotecting.
Carries(command) ==
  LET op == IF command = <<>> THEN -1 ELSE command[1]
      programs == op \in {SPI_FLASH_OPCODE_WRITE, SPI_FLASH_OPCODE_PAGE_ERASE}
                  /\ Len(command) >= 4 /\ ~chip.protected
  IN /\ pages' = IF programs
                 THEN [pages EXCEPT ![command[3]] =
                         IF op = SPI_FLASH_OPCODE_WRITE THEN Written(command) ELSE Erased]
                 ELSE pages
     /\ chip' = [chip EXCEPT
          !.selected = FALSE, !.command = <<>>,
          !.state = IF op = SPI_FLASH_OPCODE_WAKE /\ @ = "asleep" THEN "waking" ELSE @,
          !.protected = @ /\ command # SPI_FLASH_OPCODE_UNPROTECT,
          !.busy = @ \/ programs \/ command \in {SPI_FLASH_OPCODE_UNPROTECT,
                                                 SPI_FLASH_OPCODE_256B_PAGE}]

ChipReady ==
  /\ chip.busy
  /\ chip' = [chip EXCEPT !.busy = FALSE]
  /\ UNCHANGED <<script, mcu, pages, outside>>
ChipAwake ==
  /\ chip.state = "waking"
  /\ chip' = [chip EXCEPT !.state = "awake"]
  /\ UNCHANGED <<script, mcu, pages, outside>>

-----------------------------------------------------------------------------
(* The processor: one step of the script.                                  *)

Step(what) == script # <<>> /\ Head(script)[1] = what
Done == script' = Tail(script)

SetLength ==
  /\ Step("length") /\ Done
  /\ data_length' = Head(script)[2]
  /\ UNCHANGED <<flash_is_initialized, rx, buffer, chip, pages, outside>>

Select ==
  /\ Step("select") /\ Done
  /\ chip' = [chip EXCEPT !.selected = TRUE, !.command = <<>>]
  /\ UNCHANGED <<mcu, pages, outside>>

Deselect ==
  /\ Step("deselect") /\ Done
  /\ Carries(chip.command)
  /\ UNCHANGED <<mcu, outside>>

\* spi_transfer sends as many of the low bytes as the length says.
LowBytes(word) ==
  LET w == <<0, 0, 0>> \o word IN SubSeq(w, Len(w) - data_length + 1, Len(w))
Transfer ==
  LET bytes == LowBytes(Head(script)[2])
      command == Collected(bytes)
  IN /\ Step("transfer") /\ Done
     /\ rx' = Answer(command)
     /\ chip' = [chip EXCEPT !.command = command,
                   !.disturbed = @ \/ (chip.command = <<>> /\ ~Takes(Head(bytes)))]
     /\ UNCHANGED <<flash_is_initialized, data_length, buffer, pages, outside>>

\* Variant: the status bit taken for a busy bit.
AgainVariant ==
  /\ Step("again")
  /\ script' = IF rx < RDY THEN Tail(script) ELSE flash_memory_busy \o Tail(script)
  /\ UNCHANGED <<mcu, chip, pages, outside>>
Again ==
  /\ Step("again")
  /\ script' = IF rx >= RDY THEN Tail(script) ELSE flash_memory_busy \o Tail(script)
  /\ UNCHANGED <<mcu, chip, pages, outside>>

\* The delay loop is longer than the chip takes to wake.
Delay ==
  /\ Step("delay") /\ Done /\ chip.state # "waking"
  /\ UNCHANGED <<mcu, chip, pages, outside>>

SetInitialized ==
  /\ Step("initialized") /\ Done
  /\ flash_is_initialized' = TRUE
  /\ UNCHANGED <<data_length, rx, buffer, chip, pages, outside>>

-----------------------------------------------------------------------------
(* The words and the host. *)

Types == script = <<>> /\ commands < MaxCommands /\ commands' = commands + 1
Idle == [page |-> 0, image |-> <<>>, at |-> 0, damaged |-> FALSE, good |-> FALSE, changing |-> {}]

\* fr: length bytes from an address on.
flashReadFunc ==
  /\ Types
  /\ \E p \in Pages, offset \in 0..(PAGE_BYTES - 1), length \in {1, PAGE_BYTES} :
       /\ script' = Initialized \o flash_memory_beginRead(p, offset) \o Length(1)
                    \o Times(length, spi_transfer(<<0>>) \o <<<<"print">>>>)
                    \o deassert_CS_FLASH
       /\ host' = [Idle EXCEPT !.at = p * PAGE_BYTES + offset]
  /\ UNCHANGED <<mcu, chip, pages, known, resets>>

PrintByte ==
  /\ Step("print") /\ Done
  /\ host' = [host EXCEPT !.at = (@ + 1) % (PageCount * PAGE_BYTES)]
  /\ UNCHANGED <<mcu, chip, pages, known, commands, resets>>

\* fe, with the right key or another.
flashErasePageFunc ==
  /\ Types
  /\ \E p \in Pages, confirmed \in BOOLEAN :
       /\ script' = IF confirmed THEN Initialized \o flash_memory_erasePage(p) ELSE <<>>
       /\ host' = [Idle EXCEPT !.changing = IF confirmed THEN {p} ELSE {}]
       /\ known' = IF confirmed THEN [known EXCEPT ![p] = Erased] ELSE known
  /\ UNCHANGED <<mcu, chip, pages, resets>>

\* fem, in the boot ROM: consecutive pages, one after the other. It does nothing when
\* the key is wrong, the address is not that of a page, or the length not that of pages.
flashEraseMultiplePagesFunc ==
  /\ Types
  /\ \E p, q \in Pages, confirmed \in BOOLEAN :
       LET changing == IF confirmed THEN p..q ELSE {} IN
       /\ p <= q
       /\ script' = IF confirmed
                    THEN Initialized \o FlattenSeq([n \in 1..(q - p + 1) |->
                                                     flash_memory_erasePage(p + n - 1)])
                    ELSE <<>>
       /\ host' = [Idle EXCEPT !.changing = changing]
       /\ known' = [r \in Pages |-> IF r \in changing THEN Erased ELSE known[r]]
  /\ UNCHANGED <<mcu, chip, pages, resets>>

\* fw: `$', the page byte by byte or compressed, its CRC, and the host's answer.
flashWritePageFunc ==
  /\ Types
  /\ \E p \in Pages, image \in Contents, compressed \in BOOLEAN :
       /\ script' = Initialized
                    \o (IF compressed THEN <<<<"inflate">>>> ELSE Times(PAGE_BYTES, <<<<"receive">>>>))
                    \o <<<<"crc">>, <<"answer">>>>
       /\ host' = [Idle EXCEPT !.page = p, !.image = image]
  /\ buffer' = <<>>
  /\ UNCHANGED <<flash_is_initialized, data_length, rx, chip, pages, known, resets>>

\* A byte of the page, which may be damaged on the line.
Receive ==
  /\ Step("receive") /\ Done
  /\ \E b \in Data :
       /\ buffer' = Append(buffer, b)
       /\ host' = [host EXCEPT !.damaged = @ \/ b # host.image[Len(buffer) + 1]]
  /\ UNCHANGED <<flash_is_initialized, data_length, rx, chip, pages, known, commands, resets>>

\* A compressed page (Lzw); damaged, it is another page or none.
Inflate ==
  /\ Step("inflate")
  /\ \/ /\ Done
        /\ \E page \in Contents :
             /\ buffer' = page
             /\ host' = [host EXCEPT !.damaged = page # host.image]
     \/ /\ script' = <<>>                                       \* "FAIL"
        /\ host' = [host EXCEPT !.damaged = TRUE] /\ UNCHANGED buffer
  /\ UNCHANGED <<flash_is_initialized, data_length, rx, chip, pages, known, commands, resets>>

\* The host compares the CRC with that of its page: pages that differ are
\* taken to have different CRCs.
PrintCrc ==
  /\ Step("crc") /\ Done
  /\ host' = [host EXCEPT !.good = buffer = host.image]
  /\ UNCHANGED <<mcu, chip, pages, known, commands, resets>>

\* Variant: written whatever the host answers.
GoodVariant == TRUE
Good == host.good
ReceiveAnswer ==
  /\ Step("answer")
  /\ script' = IF Good THEN flash_memory_writePage(host.page, buffer) ELSE <<>>
  /\ host' = [host EXCEPT !.changing = IF host.good THEN {host.page} ELSE {}]
  /\ known' = IF host.good THEN [known EXCEPT ![host.page] = host.image] ELSE known
  /\ UNCHANGED <<mcu, chip, pages, commands, resets>>

\* The processor restarts, the pins go back to inputs and deselect the chip,
\* which keeps what it has; the host gives the word up, and does not know how
\* far a change of a page had come.
Reset ==
  /\ resets < MaxResets /\ resets' = resets + 1
  /\ script' = <<>> /\ flash_is_initialized' = FALSE /\ data_length' = 1
  /\ rx' = 0 /\ buffer' = <<>>
  /\ IF chip.selected THEN Carries(chip.command) ELSE UNCHANGED <<chip, pages>>
  /\ known' = [p \in Pages |-> IF script # <<>> /\ p \in host.changing THEN <<>> ELSE known[p]]
  /\ host' = Idle
  /\ UNCHANGED commands

-----------------------------------------------------------------------------
Init ==
  /\ script = <<>> /\ flash_is_initialized = FALSE /\ data_length = 1
  /\ rx = 0 /\ buffer = <<>>
  /\ \E state \in {"asleep", "awake"} :
       chip = [state |-> state, selected |-> FALSE, command |-> <<>>, busy |-> FALSE,
               protected |-> TRUE, disturbed |-> FALSE]
  /\ pages = [p \in Pages |-> Erased] /\ known = [p \in Pages |-> <<>>]
  /\ host = Idle /\ commands = 0 /\ resets = 0

Driver == SetLength \/ Select \/ Deselect \/ Transfer \/ Again \/ Delay \/ SetInitialized
Word == PrintByte \/ Receive \/ Inflate \/ PrintCrc \/ ReceiveAnswer
Chip == ChipReady \/ ChipAwake
Next == Driver \/ Word \/ Chip \/ Reset \/ flashReadFunc \/ flashErasePageFunc
        \/ flashEraseMultiplePagesFunc \/ flashWritePageFunc

\* The processor goes on, the host sends what it is asked for, and the chip
\* ends what it does ("a maximum of 25 ms", flash_memory.c:103).
Spec == Init /\ [][Next]_vars /\ WF_vars(Driver) /\ WF_vars(Word) /\ WF_vars(ChipReady)
        /\ WF_vars(ChipAwake)

-----------------------------------------------------------------------------
(* Properties. *)

\* Type invariant.
FlashTypeOK ==
  /\ data_length \in {1, 4} /\ rx \in Int
  /\ flash_is_initialized \in BOOLEAN /\ buffer \in Seq(Data)
  /\ chip.state \in {"asleep", "waking", "awake"} /\ chip.command \in Seq(Int)
  /\ pages \in [Pages -> Contents \union {Erased, Torn}]
  /\ known \in [Pages -> Contents \union {Erased, <<>>}]

\* Until the processor is reset, the chip is given no command that it cannot
\* take, and no page in part: every word waits for the page that the one before it left the chip
\* busy with (flash_memory.c 83, 110, 143), and the first for the chip to wake.
NeverDisturbed == chip.disturbed \/ (\E p \in Pages : pages[p] = Torn) => resets > 0

\* What is read is what the host knows of the page: that it was erased, or
\* that it holds what the host confirmed, however the line damages a page on its
\* way and wherever a reset falls, also while the chip is busy.
ReadsBack ==
  LET page == known[host.at \div PAGE_BYTES]
  IN  Step("print") /\ page # <<>> => rx = page[(host.at % PAGE_BYTES) + 1]

\* A page changes only when the host has confirmed that it shall, in the fe
\* or in answer to the CRC, and no other page does; a reset in the middle of a
\* transfer makes no exception.
ChangesAreConfirmed ==
  [][\A p \in Pages : pages'[p] # pages[p] => p \in host.changing]_vars

\* Every word comes to its end.
WordsEnd == script # <<>> ~> script = <<>>
=============================================================================
