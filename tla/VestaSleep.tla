----------------------------- MODULE VestaSleep -----------------------------
(***************************************************************************)
(* The core with a history variable that remembers which of the sleep and  *)
(* wake instructions was executed last.  The core itself has only the flag *)
(* sleep_cpu, which every word at the decoder sets and clears, executed or *)
(* not.                                                                    *)
(***************************************************************************)
EXTENDS VestaIrq

VARIABLE slept            \* "asleep" from the execution of a sleep to that of a wake; in
                          \* between, "peeked" or "misread" if a wake was misread

sleepVars == <<irq_pri, current_state, highest_priority_irq_reg, latched_irq, context_saved,
               context_restored, nesting_count, irqs_in_service, single_isr_active,
               cpu_state, read_data, instr_curr_prev, repeat_if, pc, pc_next_reg,
               pc_next_trad_reg, stack, irq_restore_ack, sleep_cpu, irq, sleep, slept>>

(* An instruction is executed when the core is clocked in EXECUTE.           *)
Executes(word) == en_clk_cpu(irq_active, sleep) /\ cpu_state = "EXECUTE" /\ read_data = word

(* In IRQ_SV and IRQ_JUMP a word is at the decoder that is not being executed *)
(* (the instruction at the return address, then whatever is on the bus).       *)
Misread(word) == cpu_state \in {"IRQ_SV", "IRQ_JUMP"} /\ instr_curr = word

SleepInit == Init /\ slept = "awake"

SleepNext ==
  /\ Next
  /\ slept' = CASE Executes("sleep") -> "asleep"
                [] Executes("wake") -> "awake"
                [] slept = "asleep" /\ Misread("wake") ->
                     IF cpu_state = "IRQ_SV" THEN "peeked" ELSE "misread"
                [] OTHER -> slept

SleepSpec == SleepInit /\ [][SleepNext]_sleepVars

FairSpec == SleepSpec /\ Fairness

----------------------------------------------------------------------------
MainExecutes == cpu_state = "EXECUTE" /\ pc.unit = Main

(* After the program executed its sleep instruction, nothing more of the main *)
(* program is executed until a wake instruction is, however many interrupts   *)
(* the core takes and returns from meanwhile; unless, in the two cycles that  *)
(* save the return address, a wake instruction was misread.                    *)
AsleepUntilWoken == slept = "asleep" => ~MainExecutes

(* "Return to sleep after interrupt" (vesta.vhd:967): the same, also when the   *)
(* instruction at the return address, which IRQ_SV looks at, is the one that     *)
(* "Wakes Vesta up from sleep" (riscv-tests/env/p/riscv_test.h:30): the core has *)
(* not come to it yet.                                                            *)
ReturnsToSleep == slept \in {"asleep", "peeked"} => ~MainExecutes

=============================================================================
