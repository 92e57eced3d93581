---------------------------- MODULE VestaHistory ----------------------------
(***************************************************************************)
(* The core with a register that every plain instruction of the main       *)
(* program increments, next to the number of them that were executed.      *)
(***************************************************************************)
EXTENDS VestaIrq

CONSTANT Width            \* the register counts modulo 2^Width

VARIABLES
  a0,                     \* the register
  executed                \* instructions of the main program executed

historyVars == <<irq_pri, current_state, highest_priority_irq_reg, latched_irq, context_saved,
                 context_restored, nesting_count, irqs_in_service, single_isr_active,
                 cpu_state, read_data, instr_curr_prev, repeat_if, pc, pc_next_reg,
                 pc_next_trad_reg, stack, irq_restore_ack, sleep_cpu, irq, sleep,
                 a0, executed>>

ClockOn == en_clk_cpu(irq_active, sleep)

ExecutesMain == cpu_state = "EXECUTE" /\ read_data = "op" /\ pc.unit = Main

(* reg_write_dp is the decoder's reg_write in EXECUTE, and also in IRQ_SV,    *)
(* where the instruction at the return address is at the decoder.              *)
WritesRegister ==
  \/ ExecutesMain
  \/ cpu_state = "IRQ_SV" /\ read_data = "op" /\ pc_next_reg.unit = Main

HistoryInit == Init /\ a0 = 0 /\ executed = 0

HistoryNext ==
  /\ Next
  /\ a0' = IF ClockOn /\ WritesRegister THEN (a0 + 1) % 2^Width ELSE a0
  /\ executed' = IF ClockOn /\ ExecutesMain THEN (executed + 1) % 2^Width ELSE executed

HistorySpec == HistoryInit /\ [][HistoryNext]_historyVars

(* "Register preservation (x1-x31)" (riscv-tests/isa/periph/IRQ.S:171): when   *)
(* the main program executes, its instructions have taken effect once each,   *)
(* however often it was interrupted.                                           *)
RegistersPreserved == cpu_state = "EXECUTE" /\ pc.unit = Main => a0 = executed

=============================================================================
