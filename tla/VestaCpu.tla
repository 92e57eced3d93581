------------------------------ MODULE VestaCpu ------------------------------
(***************************************************************************)
(* vesta.vhd: the control of the Vesta core, as far as interrupts, sleep   *)
(* and the instruction sequence are concerned.  One step is one rising     *)
(* edge of clk; CpuClocked is a step in which the gated clock clk_cpu also *)
(* rises.  The wires from the interrupt handler are the parameters.        *)
(*                                                                         *)
(* Data is abstracted to what the control distinguishes: a fetched word is *)
(* its class (the decoder output), the stack is the sequence of return     *)
(* addresses the core itself pushes (a service routine leaves sp as it     *)
(* found it), and a 32-bit instruction on a half-word boundary costs one   *)
(* more fetch cycle (class "split").  INITIALIZE is left out: reset        *)
(* enters EXECUTE and no transition leads to it.  So is the load of        *)
(* pc_next_trad_reg with a branch target in IRQ_SV: the register is        *)
(* loaded again before it is next read.                                    *)
(***************************************************************************)
EXTENDS Program, Sequences, SequencesExt

CONSTANTS MainClasses,     \* classes of instruction the main program contains
          IsrClasses       \* classes of instruction the service routines contain

VARIABLES
  cpu_state,
  read_data,               \* class of the word the memory returns in this cycle
  instr_curr_prev,
  repeat_if,
  pc,
  pc_next_reg,
  pc_next_trad_reg,
  stack,                   \* return addresses in memory, from the initial sp down
  irq_restore_ack,
  sleep_cpu

cpuVars == <<cpu_state, read_data, instr_curr_prev, repeat_if, pc, pc_next_reg,
             pc_next_trad_reg, stack, irq_restore_ack, sleep_cpu>>

(* The states an instruction that takes more than one cycle goes to.         *)
FirstState == [trap |-> "TRAP_STATE", sleep |-> "SLEEPING", lr |-> "LR_READ",
               sc |-> "SC_CHECK", amo |-> "AMO_READ", fence |-> "FENCE_WAIT",
               mem |-> "MEMORY_WAIT", div |-> "DIV_WAIT"]

AllClasses == DOMAIN FirstState \union {"op", "wake"}

ASSUME ClassAssumption == MainClasses \subseteq AllClasses /\ IsrClasses \subseteq AllClasses

Words == AllClasses \union {"iret", "split", "data"}

CpuStates == {"EXECUTE", "MEMORY_WAIT", "DIV_WAIT", "DIV_DONE", "AMO_READ", "AMO_WRITEBACK",
              "AMO_COMPUTE", "AMO_WRITE", "AMO_COMPLETE", "LR_READ", "SC_CHECK", "FENCE_WAIT",
              "IRQ_SV", "IRQ_JUMP", "IRQ_REST", "SLEEPING", "TRAP_STATE"}

----------------------------------------------------------------------------
(* Instruction memory: the classes a fetch from p may return. *)
Instructions(p) ==
  IF AtReturn(p) THEN {"iret"}
  ELSE IF p.unit = Main THEN MainClasses
  ELSE IF p.off \in 1 .. IsrLen THEN IsrClasses
  ELSE {"op"}

FetchedWords(p) == Instructions(p) \union (IF p.unit # Main /\ p.off = 0 THEN {} ELSE {"split"})

\* A word that was not fetched as an instruction and yet reaches the decoder.
AnyWord == MainClasses \union IsrClasses \union {"op", "iret"}

(* instr_curr: the word at the decoder. *)
instr_curr ==
  IF \/ cpu_state = "EXECUTE" /\ read_data # "split"
     \/ cpu_state \in {"IRQ_SV", "IRQ_JUMP", "FENCE_WAIT", "TRAP_STATE"}
  THEN read_data ELSE instr_curr_prev

isr_ret == instr_curr = "iret"
irq_save_ack == cpu_state = "IRQ_JUMP"

----------------------------------------------------------------------------
(* What every clk_cpu edge does; pc_en selects whether pc is loaded. *)
Tick(next_state, pc_next, pc_en) ==
  /\ cpu_state' = next_state
  /\ pc_next_reg' = pc_next
  /\ pc' = IF pc_en THEN pc_next ELSE pc
  /\ instr_curr_prev' = instr_curr

Fetch(p) == read_data' \in FetchedWords(p)

(* First cycle of a 32-bit instruction on a half-word boundary.  pc + 2 is   *)
(* not told apart from pc: no interrupt is accepted in this cycle.            *)
SplitFetch ==
  /\ cpu_state = "EXECUTE" /\ read_data = "split"
  /\ Tick("EXECUTE", pc, FALSE)
  /\ pc_next_trad_reg' = pc
  /\ repeat_if' = TRUE
  /\ read_data' \in Instructions(pc)
  /\ UNCHANGED stack

(* An instruction at the decoder.  Everything that takes more than a cycle   *)
(* is started before irq_save is looked at, and irq_save before isr_ret.      *)
Execute(irq_save) ==
  /\ cpu_state = "EXECUTE" /\ read_data # "split"
  /\ LET next_state == IF read_data \in DOMAIN FirstState THEN FirstState[read_data]
                       ELSE IF irq_save THEN "IRQ_SV"
                       ELSE IF isr_ret THEN "IRQ_REST"
                       ELSE "EXECUTE"
     IN  /\ Tick(next_state, Successor(pc), next_state \in {"EXECUTE", "FENCE_WAIT", "IRQ_REST"})
         /\ IF next_state \in {"EXECUTE", "FENCE_WAIT", "IRQ_SV", "TRAP_STATE"}
            THEN Fetch(Successor(pc)) ELSE read_data' = "data"
  /\ pc_next_trad_reg' = Successor(pc)
  /\ repeat_if' = FALSE
  /\ UNCHANGED stack

(* The instruction after a fence is already at the decoder here, and is      *)
(* fetched again for EXECUTE.                                                 *)
FenceWait ==
  /\ cpu_state = "FENCE_WAIT"
  /\ Tick("EXECUTE", pc_next_trad_reg, TRUE)
  /\ UNCHANGED <<read_data, pc_next_trad_reg, repeat_if, stack>>

(* Last cycle of a load, a store, a division or an atomic operation. *)
Complete(irq_save) ==
  /\ cpu_state \in {"MEMORY_WAIT", "DIV_DONE", "AMO_COMPLETE"}
  /\ IF irq_save THEN Tick("IRQ_SV", pc_next_trad_reg, FALSE)
     ELSE IF isr_ret /\ cpu_state # "AMO_COMPLETE"
     THEN Tick("IRQ_REST", pc_next_trad_reg, cpu_state = "DIV_DONE")
     ELSE Tick("EXECUTE", pc_next_trad_reg, TRUE)
  /\ Fetch(pc_next_trad_reg)
  /\ UNCHANGED <<pc_next_trad_reg, repeat_if, stack>>

DivWait(alu_done) ==
  /\ cpu_state = "DIV_WAIT"
  /\ Tick(IF alu_done THEN "DIV_DONE" ELSE "DIV_WAIT", pc_next_trad_reg, FALSE)
  /\ UNCHANGED <<read_data, pc_next_trad_reg, repeat_if, stack>>

(* The phases of an atomic memory operation before its write. *)
AmoPhase ==
  /\ \/ cpu_state = "AMO_READ" /\ Tick("AMO_WRITEBACK", pc_next_reg, FALSE)
     \/ cpu_state = "AMO_WRITEBACK" /\ Tick("AMO_COMPUTE", pc_next_reg, FALSE)
     \/ cpu_state = "AMO_COMPUTE" /\ Tick("AMO_WRITE", pc_next_reg, FALSE)
  /\ UNCHANGED <<read_data, pc_next_trad_reg, repeat_if, stack>>

(* The bus carries a data address in these states, so what reaches the       *)
(* decoder in the next cycle is a data word.                                  *)
AtomicAccess(irq_save) ==
  /\ cpu_state \in {"AMO_WRITE", "LR_READ", "SC_CHECK"}
  /\ IF irq_save THEN Tick("IRQ_SV", pc_next_reg, FALSE) /\ read_data' \in AnyWord
     ELSE Tick("AMO_COMPLETE", pc_next_reg, TRUE) /\ read_data' = "data"
  /\ UNCHANGED <<pc_next_trad_reg, repeat_if, stack>>

\* Variant: push the address of the instruction that was executed last.
PushOldPc ==
  /\ cpu_state = "IRQ_SV"
  /\ Tick("IRQ_JUMP", pc_next_reg, FALSE)
  /\ stack' = Append(stack, pc)
  /\ read_data' \in AnyWord
  /\ UNCHANGED <<pc_next_trad_reg, repeat_if>>

(* Push the return address. *)
IrqSv ==
  /\ cpu_state = "IRQ_SV"
  /\ Tick("IRQ_JUMP", pc_next_reg, FALSE)
  /\ stack' = Append(stack, pc_next_reg)
  /\ read_data' \in AnyWord
  /\ UNCHANGED <<pc_next_trad_reg, repeat_if>>

IrqJump(ivt_entry) ==
  /\ cpu_state = "IRQ_JUMP"
  /\ Tick("EXECUTE", ivt_entry, TRUE)
  /\ Fetch(ivt_entry)
  /\ UNCHANGED <<pc_next_trad_reg, repeat_if, stack>>

pc_next_ret == IF stack = <<>> THEN ResetPc ELSE Last(stack)
Popped == IF stack = <<>> THEN <<>> ELSE Front(stack)

\* Variant: a return always resumes execution.
ReturnAwake(irq_save) ==
  /\ cpu_state = "IRQ_REST"
  /\ IF irq_save THEN Tick("IRQ_SV", pc_next_ret, FALSE) /\ UNCHANGED stack
     ELSE Tick("EXECUTE", pc_next_ret, TRUE) /\ stack' = Popped
  /\ Fetch(pc_next_ret)
  /\ UNCHANGED <<pc_next_trad_reg, repeat_if>>

(* Pop the return address, unless a save request arrives in this very cycle: *)
(* then the address read from the stack is pushed again on top of itself.     *)
CpuIrqRest(irq_save) ==
  /\ cpu_state = "IRQ_REST"
  /\ IF irq_save
     THEN Tick("IRQ_SV", pc_next_ret, FALSE) /\ Fetch(pc_next_ret) /\ UNCHANGED stack
     ELSE /\ stack' = Popped
          /\ IF sleep_cpu THEN Tick("SLEEPING", pc_next_ret, FALSE) /\ read_data' = "data"
             ELSE Tick("EXECUTE", pc_next_ret, TRUE) /\ Fetch(pc_next_ret)
  /\ UNCHANGED <<pc_next_trad_reg, repeat_if>>

Sleeping(irq_save) ==
  /\ cpu_state = "SLEEPING"
  /\ IF irq_save THEN Tick("IRQ_SV", pc_next_reg, FALSE) /\ Fetch(pc_next_reg)
     ELSE Tick("SLEEPING", pc_next_reg, FALSE) /\ read_data' = "data"
  /\ UNCHANGED <<pc_next_trad_reg, repeat_if, stack>>

TrapState ==
  /\ cpu_state = "TRAP_STATE"
  /\ Tick("TRAP_STATE", pc_next_trad_reg, FALSE)
  /\ UNCHANGED <<read_data, pc_next_trad_reg, repeat_if, stack>>

----------------------------------------------------------------------------
CpuInit ==
  /\ cpu_state = "EXECUTE"
  /\ read_data \in FetchedWords(ResetPc)
  /\ instr_curr_prev = "op"
  /\ repeat_if = FALSE
  /\ pc = ResetPc
  /\ pc_next_reg = ResetPc
  /\ pc_next_trad_reg = ResetPc
  /\ stack = <<>>
  /\ irq_restore_ack = FALSE
  /\ sleep_cpu = FALSE

CpuClocked(irq_save, irq_restore, ivt_entry) ==
  /\ irq_restore_ack' = irq_restore
  /\ \/ SplitFetch
     \/ Execute(irq_save)
     \/ FenceWait
     \/ Complete(irq_save)
     \/ \E alu_done \in BOOLEAN : DivWait(alu_done)
     \/ AmoPhase
     \/ AtomicAccess(irq_save)
     \/ IrqSv
     \/ IrqJump(ivt_entry)
     \/ CpuIrqRest(irq_save)
     \/ Sleeping(irq_save)
     \/ TrapState

CpuGated == UNCHANGED <<cpu_state, read_data, instr_curr_prev, repeat_if, pc, pc_next_reg,
                        pc_next_trad_reg, stack, irq_restore_ack>>

(* sleep_cpu is clocked by clk, not by clk_cpu; wake_rq wins over sleep_rq. *)
SleepControl ==
  sleep_cpu' = IF instr_curr = "wake" THEN FALSE
               ELSE IF instr_curr = "sleep" THEN TRUE ELSE sleep_cpu

\* Variant: an interrupt does not start the clock of a sleeping core.
clock_asleep(irq_active, sleep) == ~sleep /\ cpu_state # "SLEEPING"

(* The core's clock runs while an interrupt is handled, and otherwise unless *)
(* the core sleeps or is held by the sleep input.                             *)
en_clk_cpu(irq_active, sleep) == irq_active \/ (~sleep /\ cpu_state # "SLEEPING")

CpuStep(irq_active, sleep, irq_save, irq_restore, ivt_entry) ==
  /\ SleepControl
  /\ IF en_clk_cpu(irq_active, sleep)
     THEN CpuClocked(irq_save, irq_restore, ivt_entry) ELSE CpuGated

=============================================================================
