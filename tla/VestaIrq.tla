------------------------------ MODULE VestaIrq ------------------------------
(***************************************************************************)
(* The core and its interrupt handler, wired as in vesta.vhd, with the     *)
(* peripherals that raise request lines and the sleep input driven by the  *)
(* NPU and the flash controller (MCU.vhd).  One step is one edge of clk:   *)
(* the handler always takes one, the core unless its clock is gated.       *)
(***************************************************************************)
EXTENDS IrqHandler, VestaCpu

CONSTANT Withdraw      \* may a request be taken back before its routine runs?
ASSUME WithdrawAssumption == Withdraw \in BOOLEAN

VARIABLES
  irq,                 \* request lines that are asserted and enabled
  sleep                \* sleep input: NPU active or external flash access

vars == <<irq_pri, current_state, highest_priority_irq_reg, latched_irq, context_saved,
          context_restored, nesting_count, irqs_in_service, single_isr_active,
          cpu_state, read_data, instr_curr_prev, repeat_if, pc, pc_next_reg,
          pc_next_trad_reg, stack, irq_restore_ack, sleep_cpu, irq, sleep>>

\* Variant: the slots counted from one.
ivt_entry_from_one == IF latched_irq # NoIrq THEN VectorSlot(latched_irq - 1) ELSE ResetPc

ivt_entry == IF latched_irq # NoIrq THEN VectorSlot(latched_irq) ELSE ResetPc

(* A peripheral raises its line at any time.  The routine of a line may      *)
(* clear it; with Withdraw the main program and the peripheral may, too.      *)
Running(i) == pc.unit = i /\ cpu_state \notin {"IRQ_SV", "IRQ_JUMP", "IRQ_REST", "SLEEPING"}

Peripherals ==
  /\ irq' \in SUBSET Irqs
  /\ \A i \in irq \ irq' : Withdraw \/ Running(i)

SleepInput == sleep' \in BOOLEAN

Init == HandlerInit /\ CpuInit /\ irq = {} /\ sleep = FALSE

Next ==
  /\ HandlerStep(irq, isr_ret, irq_save_ack, irq_restore_ack)
  /\ CpuStep(irq_active, sleep, irq_save, irq_restore, ivt_entry)
  /\ Peripherals
  /\ SleepInput

Spec == Init /\ [][Next]_vars

----------------------------------------------------------------------------
(* Refinement mapping: the point and the suspended points that the registers *)
(* of the core stand for.                                                     *)
ArchPoint ==
  CASE cpu_state \in {"SLEEPING", "IRQ_SV", "IRQ_JUMP"} -> pc_next_reg
    [] cpu_state = "IRQ_REST" -> [pc EXCEPT !.off = IsrLen]
    [] OTHER -> pc

ArchSuspended == IF cpu_state = "IRQ_JUMP" THEN Front(stack) ELSE stack

Service == INSTANCE InterruptService
             WITH Recursive <- irq_recursion_en, requests <- irq,
                  point <- ArchPoint, suspended <- ArchSuspended

PreciseService == Service!ServiceSpec

----------------------------------------------------------------------------
(* Every register of the core keeps to its values.                           *)
CpuTypeOK ==
  /\ cpu_state \in CpuStates
  /\ read_data \in Words
  /\ instr_curr_prev \in Words
  /\ repeat_if \in BOOLEAN
  /\ {pc, pc_next_reg, pc_next_trad_reg} \subseteq Pcs
  /\ stack \in Seq(Pcs)
  /\ irq_restore_ack \in BOOLEAN
  /\ sleep_cpu \in BOOLEAN
  /\ irq \in SUBSET Irqs
  /\ sleep \in BOOLEAN

(* Without recursion the handler and the stack in memory agree: a routine the *)
(* handler regards as running has its one return address on the stack, and    *)
(* when the handler is idle nothing the core pushed is left there, although   *)
(* the two machines run on different clocks and meet only in two handshakes.  *)
FrameAgreement ==
  /\ current_state \in {"JUMP_TO_IVT", "WAIT_EOI"} => Len(stack) = 1
  /\ current_state \in {"IDLE", "ISR_TRIGGERED"} => stack = <<>>
  /\ Len(stack) <= 1

(* The handler jumps to a slot of the vector table ("Jump to interrupt vector *)
(* table entry", irq_handler.vhd:52), the slot of a line: what IDLE latches    *)
(* one cycle after it saw a request is a request.  (Not so with Withdraw.)     *)
VectorTaken == ivt_jump => ivt_entry.unit \in Irqs

(* "SP should be restored" (riscv-tests/isa/periph/IRQ.S:186): when the main   *)
(* program executes, no return address is left on the stack.  (Not so with     *)
(* irq_recursion_en.)                                                           *)
StackRestored == cpu_state = "EXECUTE" /\ pc.unit = Main => stack = <<>>

----------------------------------------------------------------------------
(* Fairness: clk does not stop, and a division that has its clock finishes    *)
(* (the divider counts down a fixed number of iterations, div.vhd).            *)
ClkRuns == []<><<TRUE>>_vars

DivisionEnds ==
  /\ en_clk_cpu(irq_active, sleep)
  /\ cpu_state = "DIV_WAIT" /\ cpu_state' = "DIV_DONE"

Fairness == ClkRuns /\ WF_cpu_state(DivisionEnds)

(* Two states that only a reset leaves: an instruction trapped, and a routine *)
(* went to sleep with every request masked until it ends.                      *)
Trapped == cpu_state = "TRAP_STATE"
RoutineAsleep == cpu_state = "SLEEPING" /\ stack # <<>>

(* A fence looks at no request, and neither does the instruction after it     *)
(* while it is at the decoder: a program of fences only is never interrupted. *)
FenceAtHand ==
  \/ cpu_state = "FENCE_WAIT"
  \/ cpu_state = "EXECUTE" /\ read_data \in {"fence", "split"}

TopLine(i) == \A j \in Irqs \ {i} : has_higher_priority(i, j, irq_pri)

(* A request on the line with the highest priority is eventually served, also *)
(* if the main program sleeps or the NPU holds the core, provided that the     *)
(* core is not for ever at a fence; or the core traps or a routine sleeps.     *)
TopLineServed ==
  []<>~FenceAtHand =>
    \A i \in Irqs : (i \in irq /\ TopLine(i)) ~> (Running(i) \/ Trapped \/ RoutineAsleep)

(* Every interrupted activity is eventually gone back to, unless the routine  *)
(* traps or sleeps.                                                            *)
RoutinesEnd == stack # <<>> ~> (stack = <<>> \/ Trapped \/ RoutineAsleep)

=============================================================================
