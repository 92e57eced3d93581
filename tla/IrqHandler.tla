----------------------------- MODULE IrqHandler -----------------------------
(***************************************************************************)
(* irq_handler.vhd: the interrupt controller of the Vesta core.  One step  *)
(* is one rising edge of clk.  The registers are the variables; the input  *)
(* ports are the parameters of HandlerStep, so that the module can be run  *)
(* against any environment (Spec below) or against the processor (module   *)
(* VestaIrq).                                                              *)
(*                                                                         *)
(* Abstracted: irq and irq_en are only ever used as their conjunction, so  *)
(* `req' is the set of enabled, asserted lines.  irq_found_reg is          *)
(* highest_priority_irq_reg # NoIrq (both are latched from the same        *)
(* encoder output).  pending_irqs_reg and prev_state are left out: what    *)
(* is computed from them selects between two identical branches.  The      *)
(* state DIRECT_JUMP is left out: no transition of the source enters it.   *)
(***************************************************************************)
EXTENDS IrqPriority, FiniteSets

CONSTANT irq_recursion_en       \* level of the irq_recursion_en port

ASSUME RecursionAssumption == irq_recursion_en \in BOOLEAN

VARIABLES
  irq_pri,                   \* priority vector, written before interrupts are enabled
  current_state,
  highest_priority_irq_reg,
  latched_irq,
  context_saved,
  context_restored,
  nesting_count,
  irqs_in_service,
  single_isr_active

handlerVars == <<irq_pri, current_state, highest_priority_irq_reg, latched_irq,
                 context_saved, context_restored, nesting_count, irqs_in_service,
                 single_isr_active>>

HandlerStates == {"IDLE", "ISR_TRIGGERED", "WAIT_SAVE_ACK", "JUMP_TO_IVT", "WAIT_EOI",
                  "CHECK_NESTED", "IRQ_REST", "WAIT_RESTORE_ACK", "DECIDE_NEXT"}

----------------------------------------------------------------------------
(* Combinational signals. *)

\* Variants of pending_irqs_comb with a mask forgotten, for the mutant runs.
pending_without_mask(req) == IF irq_recursion_en THEN req \ irqs_in_service ELSE req
pending_in_service_too(req) == IF ~irq_recursion_en /\ single_isr_active THEN {} ELSE req

pending_irqs_comb(req) ==
  IF irq_recursion_en THEN req \ irqs_in_service
  ELSE IF single_isr_active THEN {} ELSE req

is_servicing == current_state \in {"WAIT_EOI", "CHECK_NESTED"} /\ latched_irq # NoIrq

\* Variant: any pending line may preempt.
any_priority_pending(req) ==
  is_servicing /\ irq_recursion_en /\ pending_irqs_comb(req) # {}

higher_priority_pending(req) ==
  /\ is_servicing /\ irq_recursion_en
  /\ has_higher_priority(Encode(pending_irqs_comb(req), irq_pri), latched_irq, irq_pri)

(* Second pass of the encoder: while a line is serviced, only a line that may *)
(* preempt it is reported.                                                     *)
highest_priority_irq_comb(req) ==
  IF is_servicing /\ ~higher_priority_pending(req) THEN NoIrq
  ELSE Encode(pending_irqs_comb(req), irq_pri)

irq_found_reg == highest_priority_irq_reg # NoIrq

any_in_service == irqs_in_service # {}

\* Variants of the output ports: the clock request dropped, or the save request
\* held, once the jump is under way.
active_until_jump == current_state \in {"ISR_TRIGGERED", "WAIT_SAVE_ACK", "JUMP_TO_IVT"}
save_through_jump == \/ current_state = "JUMP_TO_IVT"
                     \/ current_state \in {"ISR_TRIGGERED", "WAIT_SAVE_ACK"} /\ ~context_saved

(* Output ports. *)
irq_active == current_state # "IDLE"
irq_save == current_state \in {"ISR_TRIGGERED", "WAIT_SAVE_ACK"} /\ ~context_saved
irq_restore == \/ current_state = "IRQ_REST"
               \/ current_state = "WAIT_RESTORE_ACK" /\ ~context_restored
ivt_jump == current_state = "JUMP_TO_IVT"

----------------------------------------------------------------------------
(* One action per state of the machine: the case of the clocked process and *)
(* the case of the next-state process for that state, together.             *)

Idle(req) ==
  /\ current_state = "IDLE"
  /\ IF irq_found_reg
     THEN LET irq == highest_priority_irq_comb(req)
          IN  /\ current_state' = "ISR_TRIGGERED"
              /\ latched_irq' = irq
              /\ irqs_in_service' = irqs_in_service \union ({irq} \ {NoIrq})
              /\ context_saved' = FALSE
              /\ nesting_count' = 1
              /\ single_isr_active' = TRUE
     ELSE UNCHANGED <<current_state, latched_irq, irqs_in_service, context_saved,
                      nesting_count, single_isr_active>>
  /\ UNCHANGED context_restored

IsrTriggered(saveAck) ==
  /\ current_state = "ISR_TRIGGERED"
  /\ current_state' = IF saveAck \/ context_saved THEN "JUMP_TO_IVT" ELSE "WAIT_SAVE_ACK"
  /\ context_saved' = (saveAck \/ context_saved)
  /\ UNCHANGED <<latched_irq, context_restored, nesting_count, irqs_in_service,
                 single_isr_active>>

WaitSaveAck(saveAck) ==
  /\ current_state = "WAIT_SAVE_ACK"
  /\ current_state' = IF saveAck THEN "JUMP_TO_IVT" ELSE "WAIT_SAVE_ACK"
  /\ context_saved' = (saveAck \/ context_saved)
  /\ UNCHANGED <<latched_irq, context_restored, nesting_count, irqs_in_service,
                 single_isr_active>>

JumpToIvt ==
  /\ current_state = "JUMP_TO_IVT"
  /\ current_state' = "WAIT_EOI"
  /\ UNCHANGED <<latched_irq, context_saved, context_restored, nesting_count,
                 irqs_in_service, single_isr_active>>

WaitEoi(req, isrRet) ==
  /\ current_state = "WAIT_EOI"
  /\ current_state' = IF higher_priority_pending(req) /\ irq_found_reg THEN "CHECK_NESTED"
                      ELSE IF isrRet THEN "IRQ_REST"
                      ELSE "WAIT_EOI"
  /\ irqs_in_service' = IF isrRet THEN irqs_in_service \ {latched_irq} ELSE irqs_in_service
  /\ UNCHANGED <<latched_irq, context_saved, context_restored, nesting_count,
                 single_isr_active>>

(* The registers are updated on irq_found_reg alone; the state follows only  *)
(* if the preempting request is also still pending.                          *)
CheckNested(req) ==
  /\ current_state = "CHECK_NESTED"
  /\ current_state' = IF higher_priority_pending(req) /\ irq_found_reg
                      THEN "ISR_TRIGGERED" ELSE "WAIT_EOI"
  /\ IF irq_recursion_en /\ irq_found_reg
     THEN /\ latched_irq' = highest_priority_irq_reg
          /\ irqs_in_service' = irqs_in_service \union {highest_priority_irq_reg}
          /\ nesting_count' = nesting_count + 1
          /\ context_saved' = FALSE
     ELSE UNCHANGED <<latched_irq, irqs_in_service, nesting_count, context_saved>>
  /\ UNCHANGED <<context_restored, single_isr_active>>

IrqRest ==
  /\ current_state = "IRQ_REST"
  /\ current_state' = "WAIT_RESTORE_ACK"
  /\ context_restored' = FALSE
  /\ UNCHANGED <<latched_irq, context_saved, nesting_count, irqs_in_service,
                 single_isr_active>>

WaitRestoreAck(restoreAck) ==
  /\ current_state = "WAIT_RESTORE_ACK"
  /\ IF restoreAck
     THEN /\ current_state' = "DECIDE_NEXT"
          /\ context_restored' = TRUE
          /\ nesting_count' = IF nesting_count > 0 THEN nesting_count - 1 ELSE 0
     ELSE UNCHANGED <<current_state, context_restored, nesting_count>>
  /\ UNCHANGED <<latched_irq, context_saved, irqs_in_service, single_isr_active>>

(* The next state looks at the number of bits set, the registers at whether *)
(* any bit is set.                                                           *)
DecideNext ==
  /\ current_state = "DECIDE_NEXT"
  /\ current_state' = IF Cardinality(irqs_in_service) > 1 THEN "WAIT_EOI" ELSE "IDLE"
  /\ \/ /\ any_in_service
        /\ latched_irq' = NoIrq
        /\ UNCHANGED <<irqs_in_service, nesting_count, context_saved, single_isr_active>>
     \/ /\ ~any_in_service /\ irq_found_reg
        /\ latched_irq' = highest_priority_irq_reg
        /\ irqs_in_service' = {highest_priority_irq_reg}
        /\ nesting_count' = 1
        /\ context_saved' = FALSE
        /\ UNCHANGED single_isr_active
     \/ /\ ~any_in_service /\ ~irq_found_reg
        /\ latched_irq' = NoIrq
        /\ context_saved' = FALSE
        /\ irqs_in_service' = {}
        /\ single_isr_active' = FALSE
        /\ UNCHANGED nesting_count
  /\ UNCHANGED context_restored

----------------------------------------------------------------------------
HandlerInit ==
  /\ irq_pri \in [Irqs -> BOOLEAN]
  /\ current_state = "IDLE"
  /\ highest_priority_irq_reg = NoIrq
  /\ latched_irq = NoIrq
  /\ context_saved = FALSE
  /\ context_restored = FALSE
  /\ nesting_count = 0
  /\ irqs_in_service = {}
  /\ single_isr_active = FALSE

HandlerStep(req, isrRet, saveAck, restoreAck) ==
  /\ highest_priority_irq_reg' = highest_priority_irq_comb(req)
  /\ irq_pri' = irq_pri
  /\ \/ Idle(req)
     \/ IsrTriggered(saveAck)
     \/ WaitSaveAck(saveAck)
     \/ JumpToIvt
     \/ WaitEoi(req, isrRet)
     \/ CheckNested(req)
     \/ IrqRest
     \/ WaitRestoreAck(restoreAck)
     \/ DecideNext

(* Every input port takes any value in every cycle. *)
HandlerNext ==
  \E req \in SUBSET Irqs, isrRet, saveAck, restoreAck \in BOOLEAN :
    HandlerStep(req, isrRet, saveAck, restoreAck)

HandlerSpec == HandlerInit /\ [][HandlerNext]_handlerVars

----------------------------------------------------------------------------
(* Every register keeps to its declared range: nesting_count is declared      *)
(* "integer range 0 to NUM_IRQS", and nothing in the code stops the           *)
(* increment of CHECK_NESTED there.                                            *)
RegistersTyped ==
  /\ irq_pri \in [Irqs -> BOOLEAN]
  /\ current_state \in HandlerStates
  /\ highest_priority_irq_reg \in Irqs \union {NoIrq}
  /\ latched_irq \in Irqs \union {NoIrq}
  /\ context_saved \in BOOLEAN
  /\ context_restored \in BOOLEAN
  /\ nesting_count \in Nat
  /\ irqs_in_service \in SUBSET Irqs
  /\ single_isr_active \in BOOLEAN

HandlerTypeOK == RegistersTyped /\ nesting_count <= NUM_IRQS

(* The encoder's two scans and the comparison function agree: the line picked *)
(* from a set of pending lines is the one that has priority over each of the  *)
(* others.                                                                     *)
EncoderPicksTop ==
  \A pending \in (SUBSET Irqs) \ {{}} :
    LET top == Encode(pending, irq_pri)
    IN  top \in pending /\ \A i \in pending \ {top} : has_higher_priority(top, i, irq_pri)

Servicing == {"ISR_TRIGGERED", "WAIT_SAVE_ACK", "JUMP_TO_IVT", "WAIT_EOI"}

(* Without recursion, the in-service vector holds exactly the latched line    *)
(* from the moment a request is accepted until its end of interrupt, and is   *)
(* empty otherwise, whatever the core answers and whenever: the flag that     *)
(* masks further requests cannot outlive the routine or end before it.        *)
SingleService ==
  /\ single_isr_active <=> current_state # "IDLE"
  /\ irqs_in_service = IF current_state \in Servicing THEN {latched_irq} \ {NoIrq} ELSE {}

(* Recursion: a routine is preempted only by a line that has priority over    *)
(* the one in service, although the line is chosen in WAIT_EOI and latched    *)
(* from a register two states later.                                           *)
PreemptsLowerOnly ==
  [][current_state = "CHECK_NESTED" /\ current_state' = "ISR_TRIGGERED"
       => has_higher_priority(latched_irq', latched_irq, irq_pri)]_handlerVars

(* A line whose routine is in progress is never accepted a second time.       *)
NoReentry ==
  [][latched_irq' \notin {latched_irq, NoIrq} => latched_irq' \notin irqs_in_service]_handlerVars

=============================================================================
