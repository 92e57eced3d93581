--------------------------- MODULE VestaIrqProofs ---------------------------
(***************************************************************************)
(* First irq_handler.vhd by itself, for every number of lines, every       *)
(* priority vector and every behaviour of the input ports; then the core   *)
(* and its interrupt handler, for every program and every behaviour of the *)
(* peripherals: what holds in every mode, and what holds without recursion. *)
(***************************************************************************)
EXTENDS VestaSleep, FiniteSetTheorems, SequenceTheorems, WellFoundedInduction, TLAPS

----------------------------------------------------------------------------
(* The priority encoder. *)

(* A non-empty set of naturals has a least element. *)
LEMMA LeastElement ==
  ASSUME NEW T, T \subseteq Nat, T # {}
  PROVE  \E x \in T : \A y \in T : x <= y
<1> DEFINE R == OpToRel(<, Nat)
<1>1. IsWellFoundedOn(R, Nat)
  BY NatLessThanWellFounded
<1>2. \A x, y \in Nat : x < y => <<x, y>> \in R
  BY DEF OpToRel
<1> HIDE DEF R
<1>3. PICK x \in T : \A y \in T : ~ (<<y, x>> \in R)
  BY <1>1, WFMin
<1>4. ASSUME NEW y \in T PROVE x <= y
  <2>1. x \in Nat /\ y \in Nat
    OBVIOUS
  <2>2. ~(y < x)
    BY <1>2, <1>3, <2>1
  <2> QED BY <2>1, <2>2
<1> QED BY <1>4

(* The scan stops at the lowest index of the vector. *)
LEMMA FirstOfIsLeast ==
  ASSUME NEW S \in SUBSET Irqs, S # {}
  PROVE  FirstOf(S) \in S /\ \A j \in S : FirstOf(S) <= j
<1>1. S \subseteq Nat
  BY NumIrqsAssumption DEF Irqs
<1>2. \E i \in S : \A j \in S : i <= j
  BY <1>1, LeastElement
<1> QED BY <1>2 DEF FirstOf

(* The encoder returns a pending line, or NoIrq if there is none. *)
LEMMA EncodeResult ==
  ASSUME NEW S \in SUBSET Irqs, NEW pri \in [Irqs -> BOOLEAN]
  PROVE  /\ S = {} => Encode(S, pri) = NoIrq
         /\ S # {} => Encode(S, pri) \in S
<1> DEFINE high == {i \in S : pri[i]}
<1>1. high \in SUBSET Irqs /\ high \subseteq S
  OBVIOUS
<1>2. high # {} => FirstOf(high) \in high
  BY <1>1, FirstOfIsLeast
<1>3. S # {} => FirstOf(S) \in S
  BY FirstOfIsLeast
<1> QED BY <1>1, <1>2, <1>3 DEF Encode

(* The encoder returns the line that has priority over all other pending      *)
(* lines: its two scans agree with has_higher_priority.                        *)
THEOREM EncodeIsTop ==
  ASSUME NEW S \in SUBSET Irqs, S # {}, NEW pri \in [Irqs -> BOOLEAN],
         NEW i \in S \ {Encode(S, pri)}
  PROVE  has_higher_priority(Encode(S, pri), i, pri)
<1> DEFINE high == {k \in S : pri[k]}
           top == Encode(S, pri)
<1>1. top \in S
  BY EncodeResult
<1>2. top \in Irqs /\ i \in Irqs /\ top \in Nat /\ i \in Nat /\ top < NUM_IRQS /\ i < NUM_IRQS
  <2>1. top \in Irqs /\ i \in Irqs
    BY <1>1
  <2>2. \A k \in Irqs : k \in Nat /\ k < NUM_IRQS
    BY NumIrqsAssumption DEF Irqs
  <2> QED BY <2>1, <2>2
<1>3. top # i
  OBVIOUS
<1>4. CASE high # {}
  <2>1. high \in SUBSET Irqs
    OBVIOUS
  <2>2. top = FirstOf(high)
    BY <1>4 DEF Encode
  <2>3. top \in high /\ \A j \in high : top <= j
    BY <1>4, <2>1, <2>2, FirstOfIsLeast
  <2>4. pri[top] = TRUE
    BY <2>3, <1>2
  <2>5. CASE pri[i]
    <3>1. top <= i
      BY <2>3, <2>5
    <3>2. top < i
      BY <3>1, <1>2, <1>3
    <3>3. pri[top] = pri[i]
      BY <2>4, <2>5, <1>2
    <3> QED BY <3>2, <3>3, <1>2 DEF has_higher_priority
  <2>6. CASE ~pri[i]
    <3>1. pri[top] # pri[i]
      BY <2>4, <2>6
    <3> QED BY <3>1, <2>4, <2>6, <1>2 DEF has_higher_priority
  <2> QED BY <2>5, <2>6
<1>5. CASE high = {}
  <2>1. top = FirstOf(S)
    BY <1>5 DEF Encode
  <2>2. top <= i
    BY <2>1, FirstOfIsLeast
  <2>3. top < i
    BY <2>2, <1>2, <1>3
  <2>4. pri[top] = FALSE /\ pri[i] = FALSE
    BY <1>1, <1>2, <1>5
  <2> QED BY <2>3, <2>4, <1>2 DEF has_higher_priority
<1> QED BY <1>4, <1>5

----------------------------------------------------------------------------
(* The combinational signals have the types of the registers they feed. *)
LEMMA CombTyped ==
  ASSUME RegistersTyped, NEW req \in SUBSET Irqs
  PROVE  /\ pending_irqs_comb(req) \in SUBSET Irqs
         /\ Encode(pending_irqs_comb(req), irq_pri) \in Irqs \union {NoIrq}
         /\ highest_priority_irq_comb(req) \in Irqs \union {NoIrq}
<1>1. pending_irqs_comb(req) \in SUBSET Irqs
  BY DEF pending_irqs_comb
<1>2. irq_pri \in [Irqs -> BOOLEAN]
  BY DEF RegistersTyped
<1>3. Encode(pending_irqs_comb(req), irq_pri) \in Irqs \union {NoIrq}
  BY <1>1, <1>2, EncodeResult
<1> QED BY <1>1, <1>3 DEF highest_priority_irq_comb

(* A line the second pass lets through is pending. *)
LEMMA PreemptingLinePending ==
  ASSUME RegistersTyped, NEW req \in SUBSET Irqs, higher_priority_pending(req)
  PROVE  /\ irq_recursion_en
         /\ Encode(pending_irqs_comb(req), irq_pri) \in req \ irqs_in_service
<1> DEFINE S == pending_irqs_comb(req)
<1>1. irq_recursion_en /\ has_higher_priority(Encode(S, irq_pri), latched_irq, irq_pri)
  BY DEF higher_priority_pending
<1>2. Encode(S, irq_pri) < NUM_IRQS
  BY <1>1 DEF has_higher_priority
<1>3. S \in SUBSET Irqs /\ irq_pri \in [Irqs -> BOOLEAN]
  BY CombTyped DEF RegistersTyped
<1>4. S # {}
  <2>1. Encode({}, irq_pri) = NUM_IRQS
    BY <1>3, EncodeResult DEF NoIrq
  <2> QED BY <2>1, <1>2, NumIrqsAssumption
<1>5. Encode(S, irq_pri) \in S
  BY <1>3, <1>4, EncodeResult
<1> QED BY <1>1, <1>5 DEF pending_irqs_comb

(* Every step keeps the registers typed. *)
LEMMA StepTyped ==
  ASSUME RegistersTyped, NEW req \in SUBSET Irqs, NEW isrRet \in BOOLEAN,
         NEW saveAck \in BOOLEAN, NEW restoreAck \in BOOLEAN,
         HandlerStep(req, isrRet, saveAck, restoreAck)
  PROVE  RegistersTyped'
<1> USE DEF RegistersTyped
<1>1. /\ highest_priority_irq_reg' \in Irqs \union {NoIrq}
      /\ irq_pri' \in [Irqs -> BOOLEAN]
      /\ highest_priority_irq_comb(req) \in Irqs \union {NoIrq}
  BY CombTyped DEF HandlerStep
<1>2. CASE Idle(req)
  <2>1. CASE irq_found_reg
    <3>1. /\ current_state' = "ISR_TRIGGERED"
          /\ latched_irq' = highest_priority_irq_comb(req)
          /\ nesting_count' = 1
          /\ irqs_in_service' =
               irqs_in_service \union ({highest_priority_irq_comb(req)} \ {NoIrq})
      BY <1>2, <2>1 DEF Idle
    <3>2. /\ context_saved' \in BOOLEAN
          /\ context_restored' \in BOOLEAN
          /\ single_isr_active' \in BOOLEAN
      BY <1>2, <2>1, Zenon DEF Idle
    <3> QED BY <1>1, <3>1, <3>2 DEF HandlerStates
  <2>2. CASE ~irq_found_reg
    BY <1>1, <1>2, <2>2 DEF Idle
  <2> QED BY <2>1, <2>2
<1>3. CASE IsrTriggered(saveAck)
  BY <1>1, <1>3 DEF IsrTriggered, HandlerStates
<1>4. CASE WaitSaveAck(saveAck)
  BY <1>1, <1>4 DEF WaitSaveAck, HandlerStates
<1>5. CASE JumpToIvt
  BY <1>1, <1>5 DEF JumpToIvt, HandlerStates
<1>6. CASE WaitEoi(req, isrRet)
  <2>1. current_state' \in HandlerStates
    BY <1>6 DEF WaitEoi, HandlerStates
  <2> QED BY <1>1, <2>1, <1>6 DEF WaitEoi
<1>7. CASE CheckNested(req)
  <2>1. current_state' \in HandlerStates
    BY <1>7 DEF CheckNested, HandlerStates
  <2>2. irqs_in_service' \in SUBSET Irqs /\ nesting_count' \in Nat
    BY <1>7 DEF CheckNested, irq_found_reg
  <2> QED BY <1>1, <2>1, <2>2, <1>7 DEF CheckNested
<1>8. CASE IrqRest
  BY <1>1, <1>8 DEF IrqRest, HandlerStates
<1>9. CASE WaitRestoreAck(restoreAck)
  <2>1. nesting_count' \in Nat
    BY <1>9 DEF WaitRestoreAck
  <2> QED BY <1>1, <2>1, <1>9 DEF WaitRestoreAck, HandlerStates
<1>10. CASE DecideNext
  <2>1. current_state' \in HandlerStates
    BY <1>10 DEF DecideNext, HandlerStates
  <2>2. irqs_in_service' \in SUBSET Irqs /\ nesting_count' \in Nat
    BY <1>10 DEF DecideNext, irq_found_reg
  <2> QED BY <1>1, <2>1, <2>2, <1>10 DEF DecideNext
<1> QED
  BY <1>2, <1>3, <1>4, <1>5, <1>6, <1>7, <1>8, <1>9, <1>10 DEF HandlerStep

LEMMA InitTyped == HandlerInit => RegistersTyped
<1> SUFFICES ASSUME HandlerInit PROVE RegistersTyped
  OBVIOUS
<1>1. nesting_count \in Nat
  BY DEF HandlerInit
<1>2. current_state \in HandlerStates
  BY DEF HandlerInit, HandlerStates
<1>3. /\ irq_pri \in [Irqs -> BOOLEAN]
      /\ highest_priority_irq_reg \in Irqs \union {NoIrq}
      /\ latched_irq \in Irqs \union {NoIrq}
      /\ irqs_in_service \in SUBSET Irqs
  BY DEF HandlerInit
<1>4. /\ context_saved \in BOOLEAN
      /\ context_restored \in BOOLEAN
      /\ single_isr_active \in BOOLEAN
  BY Zenon DEF HandlerInit
<1> QED BY <1>1, <1>2, <1>3, <1>4 DEF RegistersTyped

(* Type correctness: every register keeps to its values, in both modes and    *)
(* for every sequence of inputs.                                               *)
THEOREM RegistersAreTyped == HandlerSpec => []RegistersTyped
<1>1. RegistersTyped /\ [HandlerNext]_handlerVars => RegistersTyped'
  <2> SUFFICES ASSUME RegistersTyped, [HandlerNext]_handlerVars PROVE RegistersTyped'
    OBVIOUS
  <2>1. CASE HandlerNext
    BY <2>1, StepTyped DEF HandlerNext
  <2>2. CASE UNCHANGED handlerVars
    BY <2>2 DEF handlerVars, RegistersTyped
  <2> QED BY <2>1, <2>2
<1> QED BY <1>1, InitTyped, PTL DEF HandlerSpec

(* The encoder's choice has priority over every other pending line, in every  *)
(* reachable state and for every set of pending lines.                         *)
THEOREM EncoderAlwaysPicksTop == HandlerSpec => []EncoderPicksTop
<1>1. RegistersTyped => EncoderPicksTop
  <2> SUFFICES ASSUME irq_pri \in [Irqs -> BOOLEAN], NEW S \in SUBSET Irqs, S # {}
               PROVE  /\ Encode(S, irq_pri) \in S
                      /\ \A i \in S \ {Encode(S, irq_pri)} :
                            has_higher_priority(Encode(S, irq_pri), i, irq_pri)
    BY DEF RegistersTyped, EncoderPicksTop
  <2> QED BY EncodeResult, EncodeIsTop
<1> QED BY <1>1, RegistersAreTyped, PTL

----------------------------------------------------------------------------
(* The inductive invariant.  SingleService is not inductive by itself: its     *)
(* step from DECIDE_NEXT needs that no choice of the encoder is still held in  *)
(* the register, which the mask guarantees one cycle after a request has been  *)
(* accepted.  In CHECK_NESTED the registers are updated with a choice made one *)
(* cycle earlier; NestedChoice says what is still true of that choice.          *)

NoLateChoice ==
  current_state \notin {"IDLE", "ISR_TRIGGERED"} => highest_priority_irq_reg = NoIrq

NestedChoice ==
  current_state = "CHECK_NESTED" =>
    /\ irq_recursion_en
    /\ highest_priority_irq_reg \in Irqs \ irqs_in_service
    /\ has_higher_priority(highest_priority_irq_reg, latched_irq, irq_pri)

HandlerInv ==
  /\ RegistersTyped
  /\ NestedChoice
  /\ ~irq_recursion_en => SingleService /\ NoLateChoice

LEMMA InitInv == HandlerInit => HandlerInv
<1> SUFFICES ASSUME HandlerInit PROVE HandlerInv
  OBVIOUS
<1>1. RegistersTyped
  BY InitTyped
<1>2. NestedChoice
  BY DEF HandlerInit, NestedChoice
<1>3. SingleService
  BY Zenon DEF HandlerInit, SingleService, Servicing
<1>4. NoLateChoice
  BY DEF HandlerInit, NoLateChoice
<1> QED BY <1>1, <1>2, <1>3, <1>4 DEF HandlerInv

(* Only WAIT_EOI leads to CHECK_NESTED, and only on a request that preempts.   *)
LEMMA StepNestedChoice ==
  ASSUME RegistersTyped, NEW req \in SUBSET Irqs, NEW isrRet \in BOOLEAN,
         NEW saveAck \in BOOLEAN, NEW restoreAck \in BOOLEAN,
         HandlerStep(req, isrRet, saveAck, restoreAck)
  PROVE  NestedChoice'
<1>1. SUFFICES ASSUME current_state' = "CHECK_NESTED" PROVE NestedChoice'
  BY DEF NestedChoice
<1>2. WaitEoi(req, isrRet)
  BY <1>1 DEF HandlerStep, Idle, IsrTriggered, WaitSaveAck, JumpToIvt, CheckNested,
              IrqRest, WaitRestoreAck, DecideNext
<1>3. higher_priority_pending(req)
  BY <1>1, <1>2 DEF WaitEoi
<1>4. highest_priority_irq_reg' = Encode(pending_irqs_comb(req), irq_pri)
  BY <1>3 DEF HandlerStep, highest_priority_irq_comb
<1>5. /\ irq_recursion_en
      /\ highest_priority_irq_reg' \in req \ irqs_in_service
  BY <1>3, <1>4, PreemptingLinePending
<1>6. irqs_in_service' \subseteq irqs_in_service /\ latched_irq' = latched_irq
  BY <1>2 DEF WaitEoi
<1>7. has_higher_priority(highest_priority_irq_reg', latched_irq', irq_pri')
  BY <1>3, <1>4, <1>6 DEF higher_priority_pending, HandlerStep
<1> QED BY <1>5, <1>6, <1>7 DEF NestedChoice

(* Without recursion, a routine that is accepted masks every line.             *)
LEMMA StepSingle ==
  ASSUME RegistersTyped, NestedChoice, ~irq_recursion_en, SingleService, NoLateChoice,
         NEW req \in SUBSET Irqs, NEW isrRet \in BOOLEAN,
         NEW saveAck \in BOOLEAN, NEW restoreAck \in BOOLEAN,
         HandlerStep(req, isrRet, saveAck, restoreAck)
  PROVE  SingleService' /\ NoLateChoice'
<1>1. ~higher_priority_pending(req)
  BY DEF higher_priority_pending
<1>2. current_state # "IDLE" => highest_priority_irq_reg' = NoIrq
  <2>1. SUFFICES ASSUME current_state # "IDLE"
                 PROVE  highest_priority_irq_comb(req) = NoIrq
    BY DEF HandlerStep
  <2>2. pending_irqs_comb(req) = {}
    BY <2>1 DEF pending_irqs_comb, SingleService
  <2>3. Encode({}, irq_pri) = NoIrq
    BY EncodeResult DEF RegistersTyped
  <2> QED BY <2>2, <2>3 DEF highest_priority_irq_comb
<1>3. CASE Idle(req)
  <2>1. CASE irq_found_reg
    <3>1. /\ current_state' = "ISR_TRIGGERED"
          /\ single_isr_active' = TRUE
          /\ irqs_in_service' = irqs_in_service \union ({latched_irq'} \ {NoIrq})
      BY <1>3, <2>1 DEF Idle
    <3>2. irqs_in_service = {}
      BY <1>3 DEF Idle, SingleService, Servicing
    <3> QED BY <3>1, <3>2, Zenon DEF SingleService, Servicing, NoLateChoice
  <2>2. CASE ~irq_found_reg
    <3>1. UNCHANGED <<current_state, latched_irq, irqs_in_service, single_isr_active>>
      BY <1>3, <2>2 DEF Idle
    <3> QED BY <1>2, <3>1 DEF SingleService, Servicing, NoLateChoice
  <2> QED BY <2>1, <2>2
<1>4. CASE IsrTriggered(saveAck)
  <2>1. /\ current_state = "ISR_TRIGGERED"
        /\ current_state' \in {"JUMP_TO_IVT", "WAIT_SAVE_ACK"}
        /\ UNCHANGED <<latched_irq, irqs_in_service, single_isr_active>>
    BY <1>4 DEF IsrTriggered
  <2> QED BY <1>2, <2>1 DEF SingleService, Servicing, NoLateChoice
<1>5. CASE WaitSaveAck(saveAck)
  <2>1. /\ current_state = "WAIT_SAVE_ACK"
        /\ current_state' \in {"JUMP_TO_IVT", "WAIT_SAVE_ACK"}
        /\ UNCHANGED <<latched_irq, irqs_in_service, single_isr_active>>
    BY <1>5 DEF WaitSaveAck
  <2> QED BY <1>2, <2>1 DEF SingleService, Servicing, NoLateChoice
<1>6. CASE JumpToIvt
  BY <1>2, <1>6 DEF JumpToIvt, SingleService, Servicing, NoLateChoice
<1>7. CASE WaitEoi(req, isrRet)
  <2>0. /\ current_state = "WAIT_EOI"
        /\ UNCHANGED <<latched_irq, single_isr_active>>
        /\ irqs_in_service = {latched_irq} \ {NoIrq}
        /\ single_isr_active
    BY <1>7 DEF WaitEoi, SingleService, Servicing
  <2>1. CASE isrRet
    <3>1. /\ current_state' = "IRQ_REST"
          /\ irqs_in_service' = irqs_in_service \ {latched_irq}
      BY <1>1, <1>7, <2>1 DEF WaitEoi
    <3> QED BY <1>2, <2>0, <3>1 DEF SingleService, Servicing, NoLateChoice
  <2>2. CASE ~isrRet
    <3>1. /\ current_state' = "WAIT_EOI"
          /\ irqs_in_service' = irqs_in_service
      BY <1>1, <1>7, <2>2 DEF WaitEoi
    <3> QED BY <1>2, <2>0, <3>1 DEF SingleService, Servicing, NoLateChoice
  <2> QED BY <2>1, <2>2
<1>8. CASE CheckNested(req)
  BY <1>8 DEF CheckNested, NestedChoice
<1>9. CASE IrqRest
  BY <1>2, <1>9 DEF IrqRest, SingleService, Servicing, NoLateChoice
<1>10. CASE WaitRestoreAck(restoreAck)
  <2>1. /\ current_state = "WAIT_RESTORE_ACK"
        /\ current_state' \in {"WAIT_RESTORE_ACK", "DECIDE_NEXT"}
        /\ UNCHANGED <<latched_irq, irqs_in_service, single_isr_active>>
    BY <1>10 DEF WaitRestoreAck
  <2> QED BY <1>2, <2>1 DEF SingleService, Servicing, NoLateChoice
<1>11. CASE DecideNext
  <2>1. current_state = "DECIDE_NEXT" /\ irqs_in_service = {} /\ ~irq_found_reg
    BY <1>11 DEF DecideNext, SingleService, Servicing, NoLateChoice, irq_found_reg
  <2>2. current_state' = "IDLE"
    BY <1>11, <2>1, FS_EmptySet DEF DecideNext
  <2>3. irqs_in_service' = {} /\ single_isr_active' = FALSE
    BY <1>11, <2>1 DEF DecideNext, any_in_service
  <2> QED BY <1>2, <2>1, <2>2, <2>3, Zenon DEF SingleService, Servicing, NoLateChoice
<1> QED
  BY <1>3, <1>4, <1>5, <1>6, <1>7, <1>8, <1>9, <1>10, <1>11 DEF HandlerStep

LEMMA InvHolds == HandlerSpec => []HandlerInv
<1>1. HandlerInv /\ [HandlerNext]_handlerVars => HandlerInv'
  <2> SUFFICES ASSUME HandlerInv, [HandlerNext]_handlerVars PROVE HandlerInv'
    OBVIOUS
  <2>1. CASE HandlerNext
    <3>1. PICK req \in SUBSET Irqs, isrRet, saveAck, restoreAck \in BOOLEAN :
            HandlerStep(req, isrRet, saveAck, restoreAck)
      BY <2>1 DEF HandlerNext
    <3>2. RegistersTyped'
      BY <3>1, StepTyped DEF HandlerInv
    <3>3. NestedChoice'
      BY <3>1, StepNestedChoice DEF HandlerInv
    <3>4. ~irq_recursion_en => SingleService' /\ NoLateChoice'
      BY <3>1, StepSingle DEF HandlerInv
    <3> QED BY <3>2, <3>3, <3>4 DEF HandlerInv
  <2>2. CASE UNCHANGED handlerVars
    BY <2>2 DEF handlerVars, HandlerInv, RegistersTyped, NestedChoice, SingleService,
                NoLateChoice
  <2> QED BY <2>1, <2>2
<1> QED BY <1>1, InitInv, PTL DEF HandlerSpec

----------------------------------------------------------------------------
(* Without recursion, the in-service vector is the latched line from the       *)
(* acceptance of a request to its end of interrupt and empty otherwise, and    *)
(* the mask is on exactly while a request is being handled.                     *)
THEOREM OneRoutineAtATime ==
  ASSUME ~irq_recursion_en
  PROVE  HandlerSpec => []SingleService
<1>1. HandlerInv => SingleService
  BY DEF HandlerInv
<1> QED BY <1>1, InvHolds, PTL

(* A routine is preempted only by a line with priority over its own.            *)
THEOREM PreemptionFollowsPriority == HandlerSpec => PreemptsLowerOnly
<1>1. HandlerInv /\ [HandlerNext]_handlerVars
        => [current_state = "CHECK_NESTED" /\ current_state' = "ISR_TRIGGERED"
              => has_higher_priority(latched_irq', latched_irq, irq_pri)]_handlerVars
  <2> SUFFICES ASSUME HandlerInv, HandlerNext,
                      current_state = "CHECK_NESTED", current_state' = "ISR_TRIGGERED"
               PROVE  has_higher_priority(latched_irq', latched_irq, irq_pri)
    OBVIOUS
  <2>1. PICK req \in SUBSET Irqs, isrRet, saveAck, restoreAck \in BOOLEAN :
          HandlerStep(req, isrRet, saveAck, restoreAck)
    BY DEF HandlerNext
  <2>2. CheckNested(req)
    BY <2>1 DEF HandlerStep, Idle, IsrTriggered, WaitSaveAck, JumpToIvt, WaitEoi,
                IrqRest, WaitRestoreAck, DecideNext
  <2>3. irq_found_reg /\ irq_recursion_en
    BY <2>2 DEF CheckNested, HandlerInv, NestedChoice
  <2>4. latched_irq' = highest_priority_irq_reg
    BY <2>2, <2>3 DEF CheckNested
  <2> QED BY <2>4 DEF HandlerInv, NestedChoice
<1> QED BY <1>1, InvHolds, PTL DEF HandlerSpec, PreemptsLowerOnly

(* A line whose routine is in progress is never accepted a second time.         *)
THEOREM RoutinesAreNotReentered == HandlerSpec => NoReentry
<1>1. HandlerInv /\ [HandlerNext]_handlerVars
        => [latched_irq' \notin {latched_irq, NoIrq}
              => latched_irq' \notin irqs_in_service]_handlerVars
  <2> SUFFICES ASSUME HandlerInv, HandlerNext, latched_irq' \notin {latched_irq, NoIrq}
               PROVE  latched_irq' \notin irqs_in_service
    OBVIOUS
  <2>1. PICK req \in SUBSET Irqs, isrRet, saveAck, restoreAck \in BOOLEAN :
          HandlerStep(req, isrRet, saveAck, restoreAck)
    BY DEF HandlerNext
  <2>2. Idle(req) \/ CheckNested(req) \/ DecideNext
    BY <2>1 DEF HandlerStep, IsrTriggered, WaitSaveAck, JumpToIvt, WaitEoi, IrqRest,
                WaitRestoreAck
  <2>3. CASE Idle(req)
    <3>1. /\ latched_irq' = highest_priority_irq_comb(req)
          /\ current_state = "IDLE"
      BY <2>3 DEF Idle
    <3>2. latched_irq' = Encode(pending_irqs_comb(req), irq_pri)
      BY <3>1 DEF highest_priority_irq_comb
    <3>3. latched_irq' \in pending_irqs_comb(req)
      BY <3>2, CombTyped, EncodeResult DEF HandlerInv, RegistersTyped
    <3>4. CASE irq_recursion_en
      BY <3>3, <3>4 DEF pending_irqs_comb
    <3>5. CASE ~irq_recursion_en
      BY <3>1, <3>5 DEF HandlerInv, SingleService, Servicing
    <3> QED BY <3>4, <3>5
  <2>4. CASE CheckNested(req)
    BY <2>4 DEF CheckNested, HandlerInv, NestedChoice
  <2>5. CASE DecideNext
    BY <2>5 DEF DecideNext, any_in_service
  <2> QED BY <2>2, <2>3, <2>4, <2>5
<1> QED BY <1>1, InvHolds, PTL DEF HandlerSpec, NoReentry

----------------------------------------------------------------------------
(* The range of nesting_count.  Nothing in the code ends the count at NUM_IRQS, *)
(* and a routine whose end meets a preemption is counted although it is no      *)
(* longer in service.  What bounds it is that each preemption raises the        *)
(* priority of the latched line, and that the count starts again at one.       *)

Above(line) == {i \in Irqs : has_higher_priority(i, line, irq_pri)}

NestingBounded ==
  /\ latched_irq \in Irqs => nesting_count + Cardinality(Above(latched_irq)) <= NUM_IRQS
  /\ nesting_count <= NUM_IRQS

LEMMA AboveIsFinite ==
  ASSUME NEW line \in Irqs, irq_pri \in [Irqs -> BOOLEAN]
  PROVE  /\ IsFiniteSet(Above(line)) /\ Cardinality(Above(line)) \in Nat
         /\ 1 + Cardinality(Above(line)) <= NUM_IRQS
<1>1. IsFiniteSet(Irqs) /\ Cardinality(Irqs) = NUM_IRQS
  BY FS_Interval, NumIrqsAssumption DEF Irqs
<1>2. line \notin Above(line)
  BY DEF Above, has_higher_priority, Irqs
<1>3. Above(line) \cup {line} \in SUBSET Irqs /\ Above(line) \in SUBSET Irqs
  BY DEF Above
<1>4. IsFiniteSet(Above(line)) /\ Cardinality(Above(line) \cup {line}) <= NUM_IRQS
  BY <1>1, <1>3, FS_Subset
<1>5. Cardinality(Above(line) \cup {line}) = Cardinality(Above(line)) + 1
  BY <1>2, <1>4, FS_AddElement
<1> QED BY <1>4, <1>5, FS_CardinalityType, NumIrqsAssumption

(* A line above another has fewer lines above it. *)
LEMMA AboveShrinks ==
  ASSUME NEW a \in Irqs, NEW b \in Irqs, irq_pri \in [Irqs -> BOOLEAN],
         has_higher_priority(a, b, irq_pri)
  PROVE  1 + Cardinality(Above(a)) <= Cardinality(Above(b))
<1>1. a \in Above(b) /\ a \notin Above(a)
  BY DEF Above, has_higher_priority, Irqs
<1>2. ASSUME NEW i \in Above(a) PROVE i \in Above(b)
  <2>1. i \in Irqs /\ has_higher_priority(i, a, irq_pri)
    BY DEF Above
  <2>2. i \in Nat /\ a \in Nat /\ b \in Nat /\ i < NUM_IRQS /\ b < NUM_IRQS
    BY <2>1, NumIrqsAssumption DEF Irqs
  <2>3. has_higher_priority(i, b, irq_pri)
    BY <2>1, <2>2 DEF has_higher_priority
  <2> QED BY <2>1, <2>3 DEF Above
<1>3. Above(a) \cup {a} \in SUBSET Above(b)
  BY <1>1, <1>2
<1>4. Cardinality(Above(a) \cup {a}) <= Cardinality(Above(b))
  BY <1>3, AboveIsFinite, FS_Subset
<1>5. Cardinality(Above(a) \cup {a}) = Cardinality(Above(a)) + 1
  BY <1>1, AboveIsFinite, FS_AddElement
<1> QED BY <1>4, <1>5, AboveIsFinite

LEMMA StepNestingBounded ==
  ASSUME HandlerInv, NestingBounded, NEW req \in SUBSET Irqs, NEW isrRet \in BOOLEAN,
         NEW saveAck \in BOOLEAN, NEW restoreAck \in BOOLEAN,
         HandlerStep(req, isrRet, saveAck, restoreAck)
  PROVE  NestingBounded'
<1>1. /\ irq_pri' = irq_pri /\ irq_pri \in [Irqs -> BOOLEAN] /\ nesting_count \in Nat
      /\ latched_irq \in Irqs \cup {NoIrq} /\ NUM_IRQS \in Nat /\ 1 <= NUM_IRQS
  BY NumIrqsAssumption DEF HandlerStep, HandlerInv, RegistersTyped
<1>2. CASE nesting_count' = 1
  BY <1>1, <1>2, AboveIsFinite DEF NestingBounded, Above
<1>3. CASE latched_irq' = latched_irq /\ nesting_count' \in Nat /\ nesting_count' <= nesting_count
  <2>1. Above(latched_irq)' = Above(latched_irq)
    BY <1>1, <1>3 DEF Above
  <2>2. latched_irq \in Irqs => Cardinality(Above(latched_irq)) \in Nat
    BY <1>1, AboveIsFinite
  <2> QED BY <1>1, <1>3, <2>1, <2>2 DEF NestingBounded
<1>4. CASE latched_irq' = NoIrq /\ nesting_count' = nesting_count
  <2>1. NoIrq \notin Irqs
    BY <1>1 DEF NoIrq, Irqs
  <2> QED BY <1>4, <2>1 DEF NestingBounded
<1>5. CASE /\ current_state = "CHECK_NESTED" /\ irq_recursion_en
           /\ latched_irq' = highest_priority_irq_reg /\ nesting_count' = nesting_count + 1
  <2>1. /\ latched_irq' \in Irqs
        /\ has_higher_priority(latched_irq', latched_irq, irq_pri)
    BY <1>5 DEF HandlerInv, NestedChoice
  <2>2. latched_irq \in Irqs
    BY <1>1, <2>1 DEF has_higher_priority, NoIrq
  <2>3. 1 + Cardinality(Above(latched_irq')) <= Cardinality(Above(latched_irq))
    BY <1>1, <2>1, <2>2, AboveShrinks
  <2>4. /\ Cardinality(Above(latched_irq')) \in Nat
        /\ Cardinality(Above(latched_irq)) \in Nat
    BY <1>1, <2>1, <2>2, AboveIsFinite
  <2>5. Above(latched_irq)' = Above(latched_irq')
    BY <1>1 DEF Above
  <2>6. nesting_count + Cardinality(Above(latched_irq)) <= NUM_IRQS
    BY <2>2 DEF NestingBounded
  <2> QED BY <1>1, <1>5, <2>3, <2>4, <2>5, <2>6 DEF NestingBounded
<1>6. \/ nesting_count' = 1
      \/ latched_irq' = latched_irq /\ nesting_count' \in Nat /\ nesting_count' <= nesting_count
      \/ latched_irq' = NoIrq /\ nesting_count' = nesting_count
      \/ /\ current_state = "CHECK_NESTED" /\ irq_recursion_en
         /\ latched_irq' = highest_priority_irq_reg /\ nesting_count' = nesting_count + 1
  <2>1. CASE WaitRestoreAck(restoreAck)
    BY <1>1, <2>1 DEF WaitRestoreAck
  <2>2. CASE CheckNested(req)
    BY <1>1, <2>2 DEF CheckNested
  <2>3. CASE Idle(req)
    BY <1>1, <2>3 DEF Idle
  <2>4. CASE DecideNext
    BY <1>1, <2>4 DEF DecideNext
  <2>5. CASE IsrTriggered(saveAck) \/ WaitSaveAck(saveAck) \/ JumpToIvt \/ WaitEoi(req, isrRet)
             \/ IrqRest
    BY <1>1, <2>5 DEF IsrTriggered, WaitSaveAck, JumpToIvt, WaitEoi, IrqRest
  <2> QED BY <2>1, <2>2, <2>3, <2>4, <2>5 DEF HandlerStep
<1> QED BY <1>2, <1>3, <1>4, <1>5, <1>6

(* Every register keeps to its range, nesting_count to "integer range 0 to     *)
(* NUM_IRQS" (irq_handler.vhd 300), although nothing stops its increment.      *)
THEOREM NestingKeepsToItsRange == HandlerSpec => []HandlerTypeOK
<1>1. HandlerInit => NestingBounded
  <2>1. NoIrq \notin Irqs
    BY NumIrqsAssumption DEF NoIrq, Irqs
  <2> QED BY <2>1, NumIrqsAssumption DEF HandlerInit, NestingBounded
<1>2. HandlerInv /\ NestingBounded /\ [HandlerNext]_handlerVars => NestingBounded'
  <2> SUFFICES ASSUME HandlerInv, NestingBounded, [HandlerNext]_handlerVars
               PROVE  NestingBounded'
    OBVIOUS
  <2>1. CASE HandlerNext
    BY <2>1, StepNestingBounded DEF HandlerNext
  <2>2. CASE UNCHANGED handlerVars
    BY <2>2 DEF handlerVars, NestingBounded, Above
  <2> QED BY <2>1, <2>2
<1>3. HandlerInv /\ NestingBounded => HandlerTypeOK
  BY DEF HandlerInv, NestingBounded, HandlerTypeOK
<1> QED BY InvHolds, <1>1, <1>2, <1>3, PTL DEF HandlerSpec

----------------------------------------------------------------------------
(* The inductive invariant of every mode. *)

Waiting == {"MEMORY_WAIT", "DIV_WAIT", "DIV_DONE", "AMO_READ", "AMO_WRITEBACK",
            "AMO_COMPUTE", "AMO_WRITE", "LR_READ", "SC_CHECK"}
Calm == cpu_state \notin {"IRQ_SV", "IRQ_JUMP", "IRQ_REST"}

(* What the core keeps to whatever the handler does: in a state that waits,  *)
(* the three registers of the program counter agree on what comes next; a    *)
(* word at the decoder was fetched from pc; a return leaves pc behind it.    *)
Sequencing ==
  /\ cpu_state \in Waiting =>
       /\ pc_next_trad_reg = Successor(pc) /\ pc_next_reg = Successor(pc) /\ ~AtReturn(pc)
  /\ cpu_state \in {"AMO_COMPLETE", "FENCE_WAIT"} => pc_next_trad_reg = pc
  /\ cpu_state \in {"EXECUTE", "FENCE_WAIT"} => read_data \in FetchedWords(pc)
  /\ cpu_state \in Waiting \cup {"AMO_COMPLETE"} =>
       instr_curr_prev \in {"mem", "div", "amo", "lr", "sc"}
  /\ cpu_state = "SLEEPING" => instr_curr_prev \in {"sleep", "iret"}
  /\ cpu_state = "IRQ_REST" =>
       instr_curr_prev = "iret" /\ pc.unit \in Irqs /\ pc.off = IsrLen + 1

(* The two handshakes: an address is pushed only while the handler waits for  *)
(* it, the handler goes on exactly when the core jumps, and a restore is       *)
(* acknowledged one cycle after it is asked for.                               *)
Handshakes ==
  /\ current_state \in {"ISR_TRIGGERED", "WAIT_SAVE_ACK"} => ~context_saved
  /\ cpu_state \in {"IRQ_SV", "IRQ_JUMP"} => current_state = "WAIT_SAVE_ACK"
  /\ current_state = "JUMP_TO_IVT" =>
       cpu_state = "EXECUTE" /\ pc = ivt_entry /\ stack # <<>>
  /\ current_state = "WAIT_RESTORE_ACK" => irq_restore_ack

(* The lowest address on the stack is one of the main program, and outside the *)
(* main program there is one.                                                   *)
Frames ==
  /\ stack # <<>> => stack[1].unit = Main
  /\ stack = <<>> => ArchPoint.unit = Main
  /\ cpu_state = "IRQ_JUMP" => stack # <<>> /\ pc_next_reg = Last(stack)

MachineInv == CpuTypeOK /\ HandlerInv /\ Sequencing /\ Handshakes /\ Frames

----------------------------------------------------------------------------
(* The inductive invariant without recursion. *)

AtMain == Calm /\ ArchPoint.unit = Main
InMain == stack = <<>> /\ AtMain
Framed == Len(stack) = 1 /\ stack[1].unit = Main

(* A routine that the core follows until its return instruction is at the     *)
(* decoder.                                                                    *)
InRoutine ==
  /\ Calm /\ cpu_state # "TRAP_STATE" /\ pc.unit \in Irqs
  /\ isr_ret => cpu_state \in {"EXECUTE", "FENCE_WAIT"} /\ read_data = "iret"

(* A routine that has trapped: the core stays where it is, whatever the       *)
(* handler goes on to.                                                         *)
Stuck ==
  /\ "trap" \in IsrClasses
  /\ cpu_state = "TRAP_STATE" /\ pc.unit \in Irqs /\ Framed
  /\ current_state \notin {"JUMP_TO_IVT", "CHECK_NESTED"}

(* The request was taken back: the core is in the main program instead of a   *)
(* routine, and the handler waits for an end that does not come.               *)
Lost ==
  /\ Withdraw /\ latched_irq = NoIrq /\ Framed /\ AtMain
  /\ \/ current_state = "JUMP_TO_IVT"
     \/ current_state = "WAIT_EOI" /\ ~isr_ret

(* Where the core is otherwise, for each state of the handler. *)
Meeting ==
  /\ current_state # "CHECK_NESTED"
  /\ current_state \in {"IDLE", "ISR_TRIGGERED", "DECIDE_NEXT"} => InMain
  /\ current_state = "WAIT_SAVE_ACK" =>
       \/ InMain
       \/ cpu_state = "IRQ_SV" /\ stack = <<>> /\ pc_next_reg.unit = Main
       \/ cpu_state = "IRQ_JUMP" /\ Framed /\ pc_next_reg = stack[1]
  /\ current_state = "JUMP_TO_IVT" =>
       Framed /\ cpu_state = "EXECUTE" /\ latched_irq \in Irqs /\ pc = VectorSlot(latched_irq)
  /\ current_state = "WAIT_EOI" => Framed /\ InRoutine
  /\ current_state = "IRQ_REST" =>
       /\ Framed /\ pc.unit \in Irqs
       /\ cpu_state = "IRQ_REST" \/ (cpu_state = "EXECUTE" /\ read_data = "iret")
  /\ current_state = "WAIT_RESTORE_ACK" =>
       InMain \/ (Framed /\ cpu_state = "IRQ_REST" /\ pc.unit \in Irqs)

(* A request that is being accepted is still there. *)
Accepting ==
  /\ current_state = "IDLE" => highest_priority_irq_reg \in irq \cup {NoIrq}
  /\ current_state \in {"ISR_TRIGGERED", "WAIT_SAVE_ACK"} => latched_irq \in irq

SingleInv ==
  /\ Stuck \/ Lost \/ Meeting
  /\ Withdraw \/ Stuck \/ Accepting

(* A core that executed a sleep instruction and no wake since: it is in the   *)
(* main program only to wait or to take an interrupt, and the flag that tells   *)
(* IRQ_REST so is set, unless the wake instruction is already at the decoder.   *)
Dormant ==
  slept = "asleep" =>
    /\ pc.unit = Main => cpu_state \in {"SLEEPING", "IRQ_SV", "IRQ_JUMP"}
    /\ \/ sleep_cpu
       \/ cpu_state \in {"EXECUTE", "FENCE_WAIT"} /\ read_data = "wake"
       \/ cpu_state = "TRAP_STATE"
    /\ cpu_state = "EXECUTE" /\ read_data = "split" => instr_curr_prev # "wake"

----------------------------------------------------------------------------
(* Addresses and the words fetched from them. *)

LEMMA Addresses ==
  ASSUME NEW p \in Pcs
  PROVE  /\ ResetPc \in Pcs /\ ResetPc.unit = Main /\ Main \notin Irqs
         /\ p.unit \in Irqs \cup {Main}
         /\ Successor(p) \in Pcs /\ Successor(p).unit = p.unit
         /\ AtReturn(p) => p.unit \in Irqs /\ Successor(p).off = IsrLen + 1
<1> USE NumIrqsAssumption, ProgramAssumption DEF Irqs, Main, NoIrq
<1>1. ResetPc \in Pcs /\ ResetPc.unit = Main /\ Main \notin Irqs
  BY DEF Pcs, ResetPc
<1>2. CASE p.unit = Main
  <2>1. p \in [unit : {Main}, off : 0 .. MainLen - 1]
    BY <1>2 DEF Pcs
  <2>2. Successor(p) \in [unit : {Main}, off : 0 .. MainLen - 1]
    BY <1>2, <2>1 DEF Successor
  <2> QED BY <1>1, <1>2, <2>2 DEF Pcs, AtReturn
<1>3. CASE p.unit # Main
  <2>1. p \in [unit : Irqs, off : 0 .. IsrLen + 1]
    BY <1>3 DEF Pcs
  <2>2. Successor(p) \in [unit : Irqs, off : 0 .. IsrLen + 1] /\ Successor(p).unit = p.unit
    BY <1>3, <2>1 DEF Successor
  <2>3. AtReturn(p) => Successor(p).off = IsrLen + 1
    BY <1>3, <2>1 DEF AtReturn, Successor
  <2> QED BY <1>1, <2>1, <2>2, <2>3 DEF Pcs
<1> QED BY <1>2, <1>3

LEMMA Slots ==
  ASSUME NEW i \in Irqs
  PROVE  /\ VectorSlot(i) \in Pcs /\ VectorSlot(i).unit = i
         /\ FetchedWords(VectorSlot(i)) = {"op"}
<1> USE NumIrqsAssumption, ProgramAssumption
<1>1. i # Main
  BY DEF Irqs, Main, NoIrq
<1>2. VectorSlot(i) \in [unit : Irqs, off : 0 .. IsrLen + 1]
  BY DEF VectorSlot
<1>3. ~AtReturn(VectorSlot(i))
  BY DEF VectorSlot, AtReturn
<1> QED BY <1>1, <1>2, <1>3 DEF Pcs, VectorSlot, FetchedWords, Instructions

LEMMA Fetches ==
  ASSUME NEW p \in Pcs
  PROVE  /\ Instructions(p) \subseteq FetchedWords(p)
         /\ FetchedWords(p) \subseteq Words
         /\ "split" \notin Instructions(p) /\ "data" \notin FetchedWords(p)
         /\ "iret" \in FetchedWords(p) => AtReturn(p)
         /\ AtReturn(p) => FetchedWords(p) \subseteq {"iret", "split"}
         /\ p.unit # Main /\ "trap" \notin IsrClasses => "trap" \notin FetchedWords(p)
<1>1. /\ AllClasses \subseteq Words /\ {"iret", "split", "op"} \subseteq Words
      /\ {"iret", "split", "data"} \cap AllClasses = {}
  BY DEF Words, AllClasses, FirstState
<1>2. MainClasses \subseteq AllClasses /\ IsrClasses \subseteq AllClasses
  BY ClassAssumption
<1> QED BY <1>1, <1>2 DEF FetchedWords, Instructions, AtReturn

----------------------------------------------------------------------------
(* What a clocked step of the core does, whatever the handler asks for. *)

CpuRegisters ==
  /\ cpu_state \in CpuStates
  /\ read_data \in Words
  /\ instr_curr_prev \in Words
  /\ repeat_if \in BOOLEAN
  /\ pc \in Pcs /\ pc_next_reg \in Pcs /\ pc_next_trad_reg \in Pcs
  /\ stack \in Seq(Pcs)
  /\ irq_restore_ack \in BOOLEAN

(* An address popped from the stack is an address. *)
LEMMA Return ==
  ASSUME stack \in Seq(Pcs), NEW p \in Pcs
  PROVE  /\ pc_next_ret \in Pcs
         /\ Popped \in Seq(Pcs)
         /\ Append(stack, p) \in Seq(Pcs)
<1>1. CASE stack = <<>>
  BY <1>1, Addresses DEF pc_next_ret, Popped
<1>2. CASE stack # <<>>
  <2>1. Len(stack) \in Nat /\ Len(stack) > 0
    BY <1>2
  <2>2. stack[Len(stack)] \in Pcs
    BY <2>1
  <2>3. SubSeq(stack, 1, Len(stack) - 1) \in Seq(Pcs)
    BY <2>1
  <2> QED BY <1>2, <2>2, <2>3 DEF pc_next_ret, Popped, Last, Front
<1> QED BY <1>1, <1>2

LEMMA ClockedTyped ==
  ASSUME CpuRegisters, NEW save \in BOOLEAN, NEW restore \in BOOLEAN,
         NEW entry \in Pcs, CpuClocked(save, restore, entry)
  PROVE  CpuRegisters'
<1> USE DEF CpuRegisters
<1>1. irq_restore_ack' \in BOOLEAN
  BY DEF CpuClocked
<1>2. instr_curr \in Words
  BY DEF instr_curr
<1>3. /\ \A p \in Pcs : FetchedWords(p) \subseteq Words /\ Instructions(p) \subseteq Words
      /\ \A p \in Pcs : Successor(p) \in Pcs
  BY Fetches, Addresses
<1>4. "data" \in Words /\ AnyWord \subseteq Words
  BY ClassAssumption DEF Words, AnyWord, AllClasses, FirstState
<1> USE DEF Tick, Fetch
<1>5. CASE SplitFetch
  BY <1>1, <1>2, <1>3, <1>5 DEF SplitFetch, CpuStates
<1>6. CASE Execute(save)
  <2>1. cpu_state' \in CpuStates
    <3>1. DOMAIN FirstState = {"trap", "sleep", "lr", "sc", "amo", "fence", "mem", "div"}
      BY DEF FirstState
    <3>2. \A w \in DOMAIN FirstState : FirstState[w] \in CpuStates
      BY DEF FirstState, CpuStates
    <3> QED BY <1>6, <3>2 DEF Execute, CpuStates
  <2>2. Successor(pc) \in Pcs
    BY <1>3
  <2>3. read_data' \in Words
    BY <1>3, <1>4, <1>6, <2>2, Zenon DEF Execute
  <2>4. pc' \in Pcs /\ pc_next_reg' \in Pcs /\ pc_next_trad_reg' \in Pcs
    BY <1>6, <2>2, Zenon DEF Execute
  <2>5. repeat_if' = FALSE /\ stack' = stack /\ instr_curr_prev' = instr_curr
    BY <1>6, Zenon DEF Execute
  <2> QED BY <1>1, <1>2, <2>1, <2>3, <2>4, <2>5
<1>7. CASE FenceWait
  BY <1>1, <1>2, <1>7 DEF FenceWait, CpuStates
<1>8. CASE Complete(save)
  BY <1>1, <1>2, <1>3, <1>8 DEF Complete, CpuStates
<1>9. ASSUME NEW alu_done \in BOOLEAN, DivWait(alu_done) PROVE CpuRegisters'
  BY <1>1, <1>2, <1>9 DEF DivWait, CpuStates
<1>10. CASE AmoPhase
  BY <1>1, <1>2, <1>10 DEF AmoPhase, CpuStates
<1>11. CASE AtomicAccess(save)
  BY <1>1, <1>2, <1>4, <1>11 DEF AtomicAccess, CpuStates
<1>12. CASE IrqSv
  BY <1>1, <1>2, <1>4, <1>12, Return DEF IrqSv, CpuStates
<1>13. CASE IrqJump(entry)
  BY <1>1, <1>2, <1>3, <1>13 DEF IrqJump, CpuStates
<1>14. CASE CpuIrqRest(save)
  BY <1>1, <1>2, <1>3, <1>4, <1>14, Return DEF CpuIrqRest, CpuStates
<1>15. CASE Sleeping(save)
  BY <1>1, <1>2, <1>3, <1>4, <1>15 DEF Sleeping, CpuStates
<1>16. CASE TrapState
  BY <1>1, <1>2, <1>16 DEF TrapState, CpuStates
<1> QED
  BY <1>5, <1>6, <1>7, <1>8, <1>9, <1>10, <1>11, <1>12, <1>13, <1>14, <1>15, <1>16
  DEF CpuClocked

(* A word at the decoder was fetched from pc, and a multi-cycle instruction     *)
(* goes on where it left off.                                                   *)
LEMMA ClockedSequencing ==
  ASSUME CpuRegisters, Sequencing, NEW save \in BOOLEAN, NEW restore \in BOOLEAN,
         NEW entry \in Pcs, CpuClocked(save, restore, entry)
  PROVE  Sequencing'
<1>1. /\ pc \in Pcs /\ pc_next_reg \in Pcs /\ pc_next_trad_reg \in Pcs
      /\ stack \in Seq(Pcs)
  BY DEF CpuRegisters
<1>2. /\ Instructions(pc) \subseteq FetchedWords(pc)
      /\ "iret" \in FetchedWords(pc) => AtReturn(pc)
      /\ AtReturn(pc) => FetchedWords(pc) \subseteq {"iret", "split"}
      /\ AtReturn(pc) => pc.unit \in Irqs /\ Successor(pc).off = IsrLen + 1
      /\ Successor(pc).unit = pc.unit
  BY <1>1, Fetches, Addresses
<1> USE DEF Tick, Fetch, Waiting
<1>3. CASE SplitFetch
  BY <1>2, <1>3 DEF SplitFetch, Sequencing
<1>4. CASE Execute(save)
  <2>1. /\ cpu_state = "EXECUTE" /\ read_data # "split"
        /\ read_data \in FetchedWords(pc)
        /\ instr_curr = read_data /\ instr_curr_prev' = read_data
        /\ pc_next_reg' = Successor(pc) /\ pc_next_trad_reg' = Successor(pc)
    BY <1>4 DEF Execute, Sequencing, instr_curr
  <2>2. CASE read_data \in DOMAIN FirstState
    <3>1. cpu_state' = FirstState[read_data]
      BY <1>4, <2>2 DEF Execute
    <3>2. read_data \in {"trap", "sleep", "lr", "sc", "amo", "fence", "mem", "div"}
      BY <2>2 DEF FirstState
    <3>3. ~AtReturn(pc)
      BY <1>2, <2>1, <3>2
    <3>4. CASE read_data = "fence"
      <4>1. cpu_state' = "FENCE_WAIT"
        BY <3>1, <3>4 DEF FirstState
      <4>2. pc' = Successor(pc) /\ read_data' \in FetchedWords(Successor(pc))
        BY <1>4, <2>2, <3>1, <4>1 DEF Execute
      <4> QED BY <2>1, <4>1, <4>2 DEF Sequencing
    <3>5. CASE read_data # "fence"
      <4>1. cpu_state' \in {"TRAP_STATE", "SLEEPING", "LR_READ", "SC_CHECK", "AMO_READ",
                            "MEMORY_WAIT", "DIV_WAIT"}
        BY <3>1, <3>2, <3>5 DEF FirstState
      <4>2. cpu_state' = "SLEEPING" => read_data = "sleep"
        BY <3>1, <3>2, <3>5 DEF FirstState
      <4>3. cpu_state' \in Waiting => read_data \in {"mem", "div", "amo", "lr", "sc"}
        BY <3>1, <3>2, <3>5 DEF FirstState
      <4>4. pc' = pc
        BY <1>4, <2>2, <3>1, <4>1 DEF Execute
      <4> QED BY <2>1, <3>3, <4>1, <4>2, <4>3, <4>4 DEF Sequencing
    <3> QED BY <3>4, <3>5
  <2>3. CASE read_data \notin DOMAIN FirstState /\ save
    <3>1. cpu_state' = "IRQ_SV"
      BY <1>4, <2>3 DEF Execute
    <3> QED BY <3>1 DEF Sequencing
  <2>4. CASE read_data \notin DOMAIN FirstState /\ ~save /\ isr_ret
    <3>1. cpu_state' = "IRQ_REST" /\ pc' = Successor(pc) /\ read_data = "iret"
      BY <1>4, <2>1, <2>4 DEF Execute, isr_ret
    <3> QED BY <1>2, <2>1, <3>1 DEF Sequencing
  <2>5. CASE read_data \notin DOMAIN FirstState /\ ~save /\ ~isr_ret
    <3>1. /\ cpu_state' = "EXECUTE" /\ pc' = Successor(pc)
          /\ read_data' \in FetchedWords(Successor(pc))
      BY <1>4, <2>5 DEF Execute
    <3> QED BY <3>1 DEF Sequencing
  <2> QED BY <2>2, <2>3, <2>4, <2>5
<1>5. CASE FenceWait
  BY <1>5 DEF FenceWait, Sequencing
<1>6. CASE Complete(save)
  <2>1. instr_curr = instr_curr_prev /\ ~isr_ret
    BY <1>6 DEF Complete, Sequencing, instr_curr, isr_ret
  <2>2. \/ cpu_state' = "IRQ_SV"
        \/ /\ cpu_state' = "EXECUTE" /\ pc' = pc_next_trad_reg
           /\ read_data' \in FetchedWords(pc_next_trad_reg)
    BY <1>6, <2>1 DEF Complete
  <2> QED BY <2>2 DEF Sequencing
<1>7. ASSUME NEW alu_done \in BOOLEAN, DivWait(alu_done) PROVE Sequencing'
  <2>1. instr_curr = instr_curr_prev
    BY <1>7 DEF DivWait, instr_curr
  <2> QED BY <1>7, <2>1 DEF DivWait, Sequencing
<1>8. CASE AmoPhase
  <2>1. instr_curr = instr_curr_prev
    BY <1>8 DEF AmoPhase, instr_curr
  <2> QED BY <1>8, <2>1 DEF AmoPhase, Sequencing
<1>9. CASE AtomicAccess(save)
  <2>1. instr_curr = instr_curr_prev
    BY <1>9 DEF AtomicAccess, instr_curr
  <2> QED BY <1>9, <2>1 DEF AtomicAccess, Sequencing
<1>10. CASE IrqSv
  BY <1>10 DEF IrqSv, Sequencing
<1>11. CASE IrqJump(entry)
  BY <1>11 DEF IrqJump, Sequencing
<1>12. CASE CpuIrqRest(save)
  <2>1. instr_curr = instr_curr_prev
    BY <1>12 DEF CpuIrqRest, instr_curr
  <2> QED BY <1>12, <2>1 DEF CpuIrqRest, Sequencing
<1>13. CASE Sleeping(save)
  <2>1. instr_curr = instr_curr_prev
    BY <1>13 DEF Sleeping, instr_curr
  <2> QED BY <1>13, <2>1 DEF Sleeping, Sequencing
<1>14. CASE TrapState
  BY <1>14 DEF TrapState, Sequencing
<1> QED
  BY <1>3, <1>4, <1>5, <1>6, <1>7, <1>8, <1>9, <1>10, <1>11, <1>12, <1>13, <1>14
  DEF CpuClocked

(* A step of the main program: one instruction, or none, and a save request is  *)
(* answered only with the address of the next instruction in pc_next_reg.       *)
LEMMA MainStep ==
  ASSUME CpuRegisters, Sequencing, AtMain,
         NEW save \in BOOLEAN, NEW restore \in BOOLEAN, NEW entry \in Pcs,
         CpuClocked(save, restore, entry)
  PROVE  /\ AtMain' \/ (save /\ cpu_state' = "IRQ_SV")
         /\ stack' = stack
         /\ ArchPoint'.unit = Main
         /\ ArchPoint' = ArchPoint \/ ArchPoint' = Successor(ArchPoint)
<1> USE DEF Tick, Waiting
<1>1. /\ pc \in Pcs /\ pc_next_reg \in Pcs
      /\ cpu_state \notin {"IRQ_SV", "IRQ_JUMP", "IRQ_REST"}
      /\ ArchPoint = IF cpu_state = "SLEEPING" THEN pc_next_reg ELSE pc
      /\ ArchPoint.unit = Main
  BY DEF CpuRegisters, AtMain, Calm, ArchPoint
<1>2. \/ ~isr_ret
      \/ cpu_state \in {"SLEEPING", "TRAP_STATE", "FENCE_WAIT"}
      \/ cpu_state = "EXECUTE" /\ read_data = "split"
  <2>1. cpu_state = "EXECUTE" => "iret" \notin FetchedWords(pc)
    BY <1>1, Fetches DEF AtReturn
  <2>2. cpu_state \in Waiting \cup {"AMO_COMPLETE"} => instr_curr = instr_curr_prev
    BY DEF instr_curr
  <2>3. cpu_state \in CpuStates
    BY DEF CpuRegisters
  <2> QED BY <1>1, <2>1, <2>2, <2>3 DEF CpuStates, Sequencing, isr_ret, instr_curr
<1>3. Successor(pc).unit = pc.unit
  BY <1>1, Addresses
<1>4. SUFFICES /\ stack' = stack
               /\ ArchPoint' = ArchPoint \/ ArchPoint' = Successor(ArchPoint)
               /\ \/ cpu_state' \notin {"IRQ_SV", "IRQ_JUMP", "IRQ_REST"}
                  \/ save /\ cpu_state' = "IRQ_SV"
  <2>1. Successor(ArchPoint).unit = ArchPoint.unit
    BY <1>1, Addresses
  <2> QED BY <1>1, <1>4, <2>1 DEF AtMain, Calm
<1>5. \/ cpu_state' \in {"SLEEPING", "IRQ_SV", "IRQ_JUMP"} /\ ArchPoint' = pc_next_reg'
      \/ cpu_state' = "IRQ_REST"
      \/ cpu_state' \notin {"SLEEPING", "IRQ_SV", "IRQ_JUMP", "IRQ_REST"} /\ ArchPoint' = pc'
  BY DEF ArchPoint
<1>6. CASE SplitFetch
  BY <1>1, <1>5, <1>6 DEF SplitFetch
<1>7. CASE Execute(save)
  <2>1. cpu_state' \in {FirstState[w] : w \in DOMAIN FirstState} \cup {"IRQ_SV", "EXECUTE"}
    BY <1>1, <1>2, <1>7 DEF Execute
  <2>2. \A w \in DOMAIN FirstState :
          FirstState[w] \notin {"IRQ_SV", "IRQ_JUMP", "IRQ_REST", "EXECUTE"}
    BY DEF FirstState
  <2>3. cpu_state' = "IRQ_SV" => save
    BY <1>1, <1>2, <1>7, <2>2 DEF Execute
  <2>4. /\ stack' = stack /\ pc_next_reg' = Successor(pc)
        /\ pc' = pc \/ pc' = Successor(pc)
    BY <1>7 DEF Execute
  <2>5. cpu_state = "EXECUTE"
    BY <1>7 DEF Execute
  <2> QED BY <1>1, <1>5, <2>1, <2>2, <2>3, <2>4, <2>5
<1>8. CASE FenceWait
  BY <1>1, <1>5, <1>8 DEF FenceWait, Sequencing
<1>9. CASE Complete(save)
  BY <1>1, <1>2, <1>5, <1>9 DEF Complete, Sequencing
<1>10. ASSUME NEW alu_done \in BOOLEAN, DivWait(alu_done)
       PROVE  /\ stack' = stack /\ ArchPoint' = ArchPoint
              /\ cpu_state' \in {"DIV_WAIT", "DIV_DONE"}
  BY <1>1, <1>5, <1>10 DEF DivWait
<1>11. CASE AmoPhase
  BY <1>1, <1>5, <1>11 DEF AmoPhase
<1>12. CASE AtomicAccess(save)
  BY <1>1, <1>5, <1>12 DEF AtomicAccess, Sequencing
<1>13. CASE Sleeping(save)
  BY <1>1, <1>5, <1>13 DEF Sleeping
<1>14. CASE TrapState
  BY <1>1, <1>5, <1>14 DEF TrapState
<1> QED
  BY <1>1, <1>6, <1>7, <1>8, <1>9, <1>10, <1>11, <1>12, <1>13, <1>14
  DEF CpuClocked, IrqSv, IrqJump, CpuIrqRest

(* A step of a routine: the core follows the routine until the word at the      *)
(* decoder is the return instruction, and then goes to IRQ_REST, or takes one    *)
(* more step when the return follows a fence; or an instruction traps.           *)
LEMMA RoutineStep ==
  ASSUME CpuRegisters, Sequencing, InRoutine, NEW restore \in BOOLEAN,
         NEW entry \in Pcs, CpuClocked(FALSE, restore, entry)
  PROVE  /\ stack' = stack /\ pc'.unit = pc.unit
         /\ ~isr_ret => \/ InRoutine'
                        \/ "trap" \in IsrClasses /\ cpu_state' = "TRAP_STATE"
         /\ isr_ret => \/ cpu_state' = "IRQ_REST"
                       \/ cpu_state' = "EXECUTE" /\ read_data' = "iret"
         /\ \/ ArchPoint' = ArchPoint
            \/ ~AtReturn(ArchPoint) /\ ArchPoint' = Successor(ArchPoint)
<1> USE DEF Tick, Waiting
<1>1. /\ pc \in Pcs /\ pc_next_reg \in Pcs /\ pc.unit \in Irqs
      /\ cpu_state \notin {"IRQ_SV", "IRQ_JUMP", "IRQ_REST", "TRAP_STATE"}
      /\ isr_ret => cpu_state \in {"EXECUTE", "FENCE_WAIT"} /\ read_data = "iret"
  BY DEF CpuRegisters, InRoutine, Calm
<1>2. /\ Successor(pc).unit = pc.unit /\ pc.unit # Main
      /\ "iret" \in FetchedWords(pc) <=> AtReturn(pc)
      /\ AtReturn(pc) => FetchedWords(pc) \subseteq {"iret", "split"}
      /\ "trap" \in FetchedWords(pc) => "trap" \in IsrClasses
  <2>1. pc.unit # Main
    BY <1>1, Addresses
  <2>2. AtReturn(pc) => "iret" \in FetchedWords(pc)
    BY DEF FetchedWords, Instructions
  <2> QED BY <1>1, <2>1, <2>2, Addresses, Fetches
<1>3. ArchPoint = IF cpu_state = "SLEEPING" THEN pc_next_reg ELSE pc
  BY <1>1 DEF ArchPoint
<1>4. /\ cpu_state' = "SLEEPING" => ArchPoint' = pc_next_reg'
      /\ cpu_state' = "IRQ_REST" => ArchPoint' = [pc' EXCEPT !.off = IsrLen]
      /\ cpu_state' \notin {"SLEEPING", "IRQ_SV", "IRQ_JUMP", "IRQ_REST"} => ArchPoint' = pc'
  BY DEF ArchPoint
<1>5. isr_ret' <=> instr_curr' = "iret"
  BY DEF isr_ret
<1>6. /\ cpu_state' \in {"EXECUTE", "FENCE_WAIT"} /\ read_data' # "split"
           => instr_curr' = read_data'
      /\ cpu_state' = "EXECUTE" /\ read_data' = "split" => instr_curr' = instr_curr_prev'
      /\ cpu_state' \in Waiting \cup {"AMO_COMPLETE", "SLEEPING"}
           => instr_curr' = instr_curr_prev'
      /\ cpu_state' = "FENCE_WAIT" => instr_curr' = read_data'
  BY DEF instr_curr
<1> USE DEF InRoutine, Calm
<1>7. CASE SplitFetch
  <2>1. ~isr_ret
    BY <1>1, <1>7 DEF SplitFetch
  <2> QED BY <1>1, <1>3, <1>4, <1>5, <1>6, <1>7, <2>1 DEF SplitFetch, isr_ret
<1>8. CASE Execute(FALSE)
  <2>1. /\ cpu_state = "EXECUTE" /\ read_data # "split" /\ instr_curr = read_data
        /\ read_data \in FetchedWords(pc) /\ stack' = stack
        /\ pc_next_reg' = Successor(pc) /\ instr_curr_prev' = read_data
    BY <1>8 DEF Execute, Sequencing, instr_curr
  <2>2. CASE isr_ret
    <3>1. read_data = "iret" /\ AtReturn(pc)
      BY <1>2, <2>1, <2>2 DEF isr_ret
    <3>2. read_data \notin DOMAIN FirstState
      BY <3>1 DEF FirstState
    <3>3. cpu_state' = "IRQ_REST" /\ pc' = Successor(pc)
      BY <1>8, <2>2, <3>2 DEF Execute
    <3>4. [Successor(pc) EXCEPT !.off = IsrLen] = pc
      <4>1. pc.unit # Main /\ pc.off = IsrLen
        BY <3>1 DEF AtReturn
      <4>2. pc \in [unit : Irqs, off : 0 .. IsrLen + 1]
        BY <1>1, <1>2 DEF Pcs
      <4> QED BY <4>1, <4>2, ProgramAssumption DEF Successor
    <3> QED BY <1>2, <1>3, <1>4, <2>1, <2>2, <3>3, <3>4
  <2>3. CASE ~isr_ret
    <3>1. /\ ~AtReturn(pc) /\ read_data # "iret"
          /\ read_data = "trap" => "trap" \in IsrClasses
      BY <1>2, <2>1, <2>3 DEF isr_ret
    <3>2. \/ cpu_state' \in Waiting \cup {"SLEEPING"} /\ pc' = pc
          \/ cpu_state' = "TRAP_STATE" /\ read_data = "trap" /\ pc' = pc
          \/ cpu_state' \in {"EXECUTE", "FENCE_WAIT"} /\ pc' = Successor(pc)
      <4>1. CASE read_data \in DOMAIN FirstState
        <5>1. cpu_state' = FirstState[read_data]
          BY <1>8, <4>1 DEF Execute
        <5>2. \/ cpu_state' \in Waiting \cup {"SLEEPING", "FENCE_WAIT"}
              \/ cpu_state' = "TRAP_STATE" /\ read_data = "trap"
          BY <3>1, <4>1, <5>1 DEF FirstState
        <5> QED BY <1>8, <4>1, <5>1, <5>2 DEF Execute
      <4>2. CASE read_data \notin DOMAIN FirstState
        BY <1>8, <2>3, <4>2 DEF Execute
      <4> QED BY <4>1, <4>2
    <3>3. \/ isr_ret' => cpu_state' \in {"EXECUTE", "FENCE_WAIT"} /\ read_data' = "iret"
          \/ cpu_state' = "TRAP_STATE"
      BY <1>5, <1>6, <2>1, <3>1, <3>2
    <3> QED BY <1>1, <1>2, <1>3, <1>4, <2>1, <2>3, <3>1, <3>2, <3>3
  <2> QED BY <2>2, <2>3
<1>9. CASE FenceWait
  <2>1. instr_curr = read_data
    BY <1>9 DEF FenceWait, instr_curr
  <2>2. isr_ret => read_data = "iret"
    BY <2>1 DEF isr_ret
  <2>3. instr_curr_prev' = read_data /\ read_data' = read_data /\ cpu_state' = "EXECUTE"
    BY <1>9, <2>1 DEF FenceWait
  <2>4. ~isr_ret => ~isr_ret'
    BY <1>5, <1>6, <2>1, <2>3 DEF isr_ret
  <2> QED BY <1>1, <1>3, <1>4, <1>9, <2>2, <2>3, <2>4 DEF FenceWait, Sequencing
<1>10. CASE Complete(FALSE)
  <2>1. ~isr_ret /\ instr_curr = instr_curr_prev /\ instr_curr # "iret"
    BY <1>1, <1>10 DEF Complete, instr_curr, isr_ret
  <2>2. /\ cpu_state' = "EXECUTE" /\ pc' = pc_next_trad_reg /\ stack' = stack
        /\ instr_curr_prev' # "iret"
    BY <1>10, <2>1 DEF Complete
  <2>3. \/ pc_next_trad_reg = pc
        \/ pc_next_trad_reg = Successor(pc) /\ ~AtReturn(pc)
    BY <1>10 DEF Complete, Sequencing
  <2>4. cpu_state # "SLEEPING"
    BY <1>10 DEF Complete
  <2> QED BY <1>1, <1>2, <1>3, <1>4, <1>5, <1>6, <2>1, <2>2, <2>3, <2>4
<1>11. ASSUME NEW alu_done \in BOOLEAN, DivWait(alu_done)
       PROVE  /\ stack' = stack /\ pc' = pc /\ ArchPoint' = ArchPoint
              /\ ~isr_ret /\ ~isr_ret' /\ cpu_state' \in {"DIV_WAIT", "DIV_DONE"}
  <2>1. ~isr_ret /\ instr_curr = instr_curr_prev
    BY <1>1, <1>11 DEF DivWait, instr_curr
  <2> QED BY <1>3, <1>4, <1>5, <1>6, <1>11, <2>1 DEF DivWait, isr_ret
<1>12. CASE AmoPhase
  <2>1. ~isr_ret /\ instr_curr = instr_curr_prev
    BY <1>1, <1>12 DEF AmoPhase, instr_curr
  <2> QED BY <1>1, <1>3, <1>4, <1>5, <1>6, <1>12, <2>1 DEF AmoPhase, isr_ret
<1>13. CASE AtomicAccess(FALSE)
  <2>1. ~isr_ret /\ instr_curr = instr_curr_prev
    BY <1>1, <1>13 DEF AtomicAccess, instr_curr
  <2>2. pc_next_reg = Successor(pc) /\ ~AtReturn(pc)
    BY <1>13 DEF AtomicAccess, Sequencing
  <2> QED BY <1>1, <1>2, <1>3, <1>4, <1>5, <1>6, <1>13, <2>1, <2>2 DEF AtomicAccess, isr_ret
<1>14. CASE Sleeping(FALSE)
  <2>1. ~isr_ret /\ instr_curr = instr_curr_prev
    BY <1>1, <1>14 DEF Sleeping, instr_curr
  <2> QED BY <1>1, <1>3, <1>4, <1>5, <1>6, <1>14, <2>1 DEF Sleeping, isr_ret
<1> QED
  BY <1>1, <1>7, <1>8, <1>9, <1>10, <1>11, <1>12, <1>13, <1>14
  DEF CpuClocked, IrqSv, IrqJump, CpuIrqRest, TrapState

(* The two cycles of an entry. *)
LEMMA EntrySteps ==
  ASSUME NEW save, NEW restore, NEW entry, CpuClocked(save, restore, entry)
  PROVE  /\ cpu_state = "IRQ_SV" =>
              /\ cpu_state' = "IRQ_JUMP" /\ pc_next_reg' = pc_next_reg
              /\ stack' = Append(stack, pc_next_reg)
         /\ cpu_state = "IRQ_JUMP" =>
              /\ cpu_state' = "EXECUTE" /\ pc' = entry /\ stack' = stack
              /\ read_data' \in FetchedWords(entry)
<1>1. CASE cpu_state = "IRQ_SV"
  <2>1. IrqSv
    BY <1>1 DEF CpuClocked, SplitFetch, Execute, FenceWait, Complete, DivWait, AmoPhase,
                AtomicAccess, IrqSv, IrqJump, CpuIrqRest, Sleeping, TrapState
  <2> QED BY <1>1, <2>1 DEF IrqSv, Tick
<1>2. CASE cpu_state = "IRQ_JUMP"
  <2>1. IrqJump(entry)
    BY <1>2 DEF CpuClocked, SplitFetch, Execute, FenceWait, Complete, DivWait, AmoPhase,
                AtomicAccess, IrqSv, IrqJump, CpuIrqRest, Sleeping, TrapState
  <2> QED BY <1>2, <2>1 DEF IrqJump, Tick, Fetch
<1> QED BY <1>1, <1>2

(* The return: the one address on the stack is where the core goes on, asleep   *)
(* or not.                                                                       *)
LEMMA ReturnStep ==
  ASSUME stack \in Seq(Pcs), Framed, cpu_state = "IRQ_REST",
         NEW restore, NEW entry, CpuClocked(FALSE, restore, entry)
  PROVE  InMain' /\ ArchPoint' = stack[1]
<1>1. CpuIrqRest(FALSE)
  BY DEF CpuClocked, SplitFetch, Execute, FenceWait, Complete, DivWait, AmoPhase,
         AtomicAccess, IrqSv, IrqJump, CpuIrqRest, Sleeping, TrapState
<1>2. Len(stack) = 1 /\ stack # <<>> /\ stack[1].unit = Main
  BY DEF Framed
<1>3. pc_next_ret = stack[1]
  BY <1>2 DEF pc_next_ret, Last
<1>4. stack' = <<>>
  BY <1>1, <1>2 DEF CpuIrqRest, Popped, Front
<1>5. \/ cpu_state' = "SLEEPING" /\ pc_next_reg' = stack[1]
      \/ cpu_state' = "EXECUTE" /\ pc' = stack[1]
  BY <1>1, <1>3 DEF CpuIrqRest, Tick
<1>6. ArchPoint' = stack[1]
  BY <1>5 DEF ArchPoint
<1> QED BY <1>2, <1>4, <1>5, <1>6 DEF InMain, AtMain, Calm

(* What the history variable remembers.                                          *)
LEMMA Remembers ==
  ASSUME SleepNext, slept' = "asleep"
  PROVE  \/ Executes("sleep")
         \/ slept = "asleep" /\ ~Executes("wake") /\ ~Misread("wake")
<1>1. CASE Executes("sleep")
  BY <1>1
<1>2. CASE ~Executes("sleep") /\ Executes("wake")
  BY <1>2 DEF SleepNext
<1>3. CASE ~Executes("sleep") /\ ~Executes("wake") /\ slept = "asleep" /\ Misread("wake")
  BY <1>3 DEF SleepNext
<1>4. CASE ~Executes("sleep") /\ ~Executes("wake") /\ ~(slept = "asleep" /\ Misread("wake"))
  <2>1. slept' = slept
    BY <1>4 DEF SleepNext
  <2> QED BY <1>4, <2>1
<1> QED BY <1>1, <1>2, <1>3, <1>4

(* The words at the decoder of a core that sleeps: those that clear the flag     *)
(* although the core does not execute them are at the decoder in IRQ_SV,          *)
(* IRQ_JUMP, FENCE_WAIT and TRAP_STATE.                                            *)
LEMMA WakeAtHand ==
  ASSUME CpuRegisters, Sequencing, Dormant, slept = "asleep", instr_curr = "wake"
  PROVE  \/ cpu_state = "EXECUTE" /\ read_data = "wake"
         \/ cpu_state = "FENCE_WAIT" /\ read_data = "wake"
         \/ cpu_state \in {"IRQ_SV", "IRQ_JUMP", "TRAP_STATE"}
<1>1. cpu_state \in CpuStates
  BY DEF CpuRegisters
<1>2. cpu_state \notin Waiting \cup {"AMO_COMPLETE", "SLEEPING", "IRQ_REST"}
  BY DEF instr_curr, Sequencing, Waiting
<1>3. cpu_state = "EXECUTE" => read_data # "split"
  BY DEF Dormant, instr_curr
<1> QED BY <1>1, <1>2, <1>3 DEF CpuStates, Waiting, instr_curr

(* The sleep instruction stops the core and sets the flag.                        *)
LEMMA FallsAsleep ==
  ASSUME SleepControl, cpu_state = "EXECUTE", read_data = "sleep",
         NEW save, NEW restore, NEW entry, CpuClocked(save, restore, entry)
  PROVE  Dormant'
<1>1. Execute(save) /\ instr_curr = "sleep"
  BY DEF CpuClocked, SplitFetch, Execute, FenceWait, Complete, DivWait, AmoPhase,
         AtomicAccess, IrqSv, IrqJump, CpuIrqRest, Sleeping, TrapState, instr_curr
<1>2. cpu_state' = "SLEEPING"
  BY <1>1 DEF Execute, FirstState, Tick
<1>3. sleep_cpu'
  BY <1>1 DEF SleepControl
<1> QED BY <1>2, <1>3 DEF Dormant

(* A core that slept stays asleep: outside the main program it goes from one       *)
(* instruction to the next, and IRQ_REST, the only way back, finds the flag set.   *)
LEMMA ClockedDormant ==
  ASSUME CpuRegisters, Sequencing, Dormant, SleepControl, slept = "asleep",
         ~(cpu_state = "EXECUTE" /\ read_data = "wake"), ~Misread("wake"),
         NEW save \in BOOLEAN, NEW restore \in BOOLEAN, NEW entry \in Pcs,
         cpu_state = "IRQ_JUMP" => entry.unit # Main,
         CpuClocked(save, restore, entry)
  PROVE  Dormant'
<1> USE DEF Tick, Waiting
<1>1. /\ pc \in Pcs /\ cpu_state \in CpuStates
      /\ Successor(pc).unit = pc.unit
      /\ "split" \notin Instructions(pc)
  BY Addresses, Fetches DEF CpuRegisters
<1>2. /\ pc.unit = Main => cpu_state \in {"SLEEPING", "IRQ_SV", "IRQ_JUMP"}
      /\ \/ sleep_cpu
         \/ cpu_state = "FENCE_WAIT" /\ read_data = "wake"
         \/ cpu_state = "TRAP_STATE"
      /\ cpu_state = "EXECUTE" /\ read_data = "split" => instr_curr_prev # "wake"
  BY DEF Dormant
<1>3. instr_curr = "wake" =>
        \/ cpu_state = "FENCE_WAIT" /\ read_data = "wake"
        \/ cpu_state = "TRAP_STATE"
  BY WakeAtHand DEF Misread
<1>4. instr_curr_prev' = instr_curr
  BY DEF CpuClocked, SplitFetch, Execute, FenceWait, Complete, DivWait,
         AmoPhase, AtomicAccess, IrqSv, IrqJump, CpuIrqRest, Sleeping, TrapState
<1>5. /\ cpu_state = "FENCE_WAIT" => cpu_state' = "EXECUTE" /\ read_data' = read_data
      /\ cpu_state = "TRAP_STATE" => cpu_state' = "TRAP_STATE"
  BY DEF CpuClocked, SplitFetch, Execute, FenceWait, Complete, DivWait,
         AmoPhase, AtomicAccess, IrqSv, IrqJump, CpuIrqRest, Sleeping, TrapState
<1>6. \/ sleep_cpu'
      \/ cpu_state' = "EXECUTE" /\ read_data' = "wake"
      \/ cpu_state' = "TRAP_STATE"
  BY <1>2, <1>3, <1>5 DEF SleepControl
<1>7. cpu_state' = "EXECUTE" /\ read_data' = "split" => instr_curr_prev' # "wake"
  BY <1>3, <1>4, <1>5
<1>8. pc'.unit = Main => cpu_state' \in {"SLEEPING", "IRQ_SV", "IRQ_JUMP"}
  <2>1. CASE cpu_state \in Waiting \cup {"EXECUTE", "FENCE_WAIT", "AMO_COMPLETE", "TRAP_STATE"}
    <3>1. pc'.unit = pc.unit
      BY <1>1, <2>1 DEF CpuClocked, SplitFetch, Execute, FenceWait, Complete, DivWait,
         AmoPhase, AtomicAccess, IrqSv, IrqJump, CpuIrqRest, Sleeping, TrapState,
         Sequencing, isr_ret
    <3> QED BY <1>2, <2>1, <3>1
  <2>2. CASE cpu_state = "IRQ_SV"
    BY <2>2, EntrySteps
  <2>3. CASE cpu_state = "IRQ_JUMP"
    BY <2>3, EntrySteps
  <2>4. CASE cpu_state = "IRQ_REST"
    <3>1. sleep_cpu
      BY <1>2, <2>4
    <3>2. CpuIrqRest(save)
      BY <2>4 DEF CpuClocked, SplitFetch, Execute, FenceWait, Complete, DivWait, AmoPhase,
         AtomicAccess, IrqSv, IrqJump, CpuIrqRest, Sleeping, TrapState
    <3> QED BY <3>1, <3>2 DEF CpuIrqRest
  <2>5. CASE cpu_state = "SLEEPING"
    BY <2>5 DEF CpuClocked, SplitFetch, Execute, FenceWait, Complete, DivWait, AmoPhase,
         AtomicAccess, IrqSv, IrqJump, CpuIrqRest, Sleeping, TrapState
  <2> QED BY <1>1, <2>1, <2>2, <2>3, <2>4, <2>5 DEF CpuStates
<1> QED BY <1>6, <1>7, <1>8 DEF Dormant

----------------------------------------------------------------------------
(* Every mode: where a step leads, whatever the handler asks for. *)

(* What an edge of the core's clock can do to the address of the next           *)
(* instruction and to the stack; a save request that meets the return            *)
(* instruction pushes the address behind it, one that meets the pop leaves the   *)
(* address on the stack.                                                          *)
Flow(save, entry) ==
  \/ ArchPoint' = ArchPoint /\ stack' = stack
  \/ cpu_state = "IRQ_SV" /\ ArchPoint' = ArchPoint /\ stack' = Append(stack, ArchPoint)
  \/ /\ ~AtReturn(ArchPoint) \/ save
     /\ cpu_state \notin {"IRQ_SV", "IRQ_JUMP", "IRQ_REST"}
     /\ ArchPoint' = Successor(ArchPoint) /\ stack' = stack
  \/ cpu_state = "IRQ_JUMP" /\ ArchPoint' = entry /\ stack' = stack
  \/ /\ cpu_state = "IRQ_REST" /\ AtReturn(ArchPoint)
     /\ ArchPoint' = pc_next_ret
     /\ stack' = Popped \/ (save /\ stack' = stack)

LEMMA PointStep ==
  ASSUME CpuRegisters, Sequencing, NEW save \in BOOLEAN, NEW restore \in BOOLEAN,
         NEW entry \in Pcs, CpuClocked(save, restore, entry)
  PROVE  Flow(save, entry)
<1> USE DEF Tick
<1>1. pc \in Pcs /\ pc_next_reg \in Pcs /\ pc_next_trad_reg \in Pcs
  BY DEF CpuRegisters
<1>2. /\ cpu_state \in {"SLEEPING", "IRQ_SV", "IRQ_JUMP"} => ArchPoint = pc_next_reg
      /\ cpu_state = "IRQ_REST" => ArchPoint = [pc EXCEPT !.off = IsrLen]
      /\ cpu_state \notin {"SLEEPING", "IRQ_SV", "IRQ_JUMP", "IRQ_REST"} => ArchPoint = pc
  BY DEF ArchPoint
<1>3. /\ cpu_state' \in {"SLEEPING", "IRQ_SV", "IRQ_JUMP"} => ArchPoint' = pc_next_reg'
      /\ cpu_state' = "IRQ_REST" => ArchPoint' = [pc' EXCEPT !.off = IsrLen]
      /\ cpu_state' \notin {"SLEEPING", "IRQ_SV", "IRQ_JUMP", "IRQ_REST"} => ArchPoint' = pc'
  BY DEF ArchPoint
<1>4. AtReturn(pc) => [Successor(pc) EXCEPT !.off = IsrLen] = pc
  <2>1. SUFFICES ASSUME AtReturn(pc) PROVE [Successor(pc) EXCEPT !.off = IsrLen] = pc
    OBVIOUS
  <2>2. pc.unit # Main /\ pc.off = IsrLen
    BY <2>1 DEF AtReturn
  <2>3. pc \in [unit : Irqs, off : 0 .. IsrLen + 1]
    BY <1>1, <2>2 DEF Pcs
  <2> QED BY <2>2, <2>3, ProgramAssumption DEF Successor
<1>5. CASE SplitFetch
  BY <1>2, <1>3, <1>5 DEF SplitFetch, Flow
<1>6. CASE Execute(save)
  <2>1. /\ cpu_state = "EXECUTE" /\ read_data # "split" /\ instr_curr = read_data
        /\ read_data \in FetchedWords(pc) /\ stack' = stack /\ ArchPoint = pc
        /\ pc_next_reg' = Successor(pc)
    BY <1>2, <1>6 DEF Execute, Sequencing, instr_curr
  <2>2. /\ read_data = "iret" <=> AtReturn(pc)
        /\ "iret" \notin DOMAIN FirstState
    <3>1. "iret" \notin DOMAIN FirstState
      BY DEF FirstState
    <3>2. AtReturn(pc) => FetchedWords(pc) \subseteq {"iret", "split"}
      BY <1>1, Fetches
    <3>3. "iret" \in FetchedWords(pc) => AtReturn(pc)
      BY <1>1, Fetches
    <3> QED BY <2>1, <3>1, <3>2, <3>3
  <2>3. CASE AtReturn(pc) /\ ~save
    <3>1. cpu_state' = "IRQ_REST" /\ pc' = Successor(pc)
      BY <1>6, <2>1, <2>2, <2>3 DEF Execute, isr_ret
    <3> QED BY <1>3, <1>4, <2>1, <2>3, <3>1 DEF Flow
  <2>4. CASE AtReturn(pc) /\ save
    <3>1. cpu_state' = "IRQ_SV"
      BY <1>6, <2>1, <2>2, <2>4 DEF Execute
    <3> QED BY <1>3, <2>1, <2>4, <3>1 DEF Flow
  <2>5. CASE ~AtReturn(pc)
    <3>1. ~isr_ret
      BY <2>1, <2>2, <2>5 DEF isr_ret
    <3>2. \/ cpu_state' \in {"EXECUTE", "FENCE_WAIT"} /\ pc' = Successor(pc)
          \/ cpu_state' \in {"SLEEPING", "IRQ_SV"}
          \/ cpu_state' \in Waiting \cup {"TRAP_STATE"} /\ pc' = pc
      <4>1. CASE read_data \in DOMAIN FirstState
        <5>1. cpu_state' = FirstState[read_data]
          BY <1>6, <4>1 DEF Execute
        <5>2. cpu_state' \in Waiting \cup {"SLEEPING", "FENCE_WAIT", "TRAP_STATE"}
          BY <4>1, <5>1 DEF FirstState, Waiting
        <5> QED BY <1>6, <4>1, <5>1, <5>2 DEF Execute, Waiting
      <4>2. CASE read_data \notin DOMAIN FirstState
        BY <1>6, <3>1, <4>2 DEF Execute
      <4> QED BY <4>1, <4>2
    <3> QED BY <1>3, <2>1, <2>5, <3>2 DEF Flow, Waiting
  <2> QED BY <2>3, <2>4, <2>5
<1>7. CASE FenceWait
  BY <1>2, <1>3, <1>7 DEF FenceWait, Sequencing, Flow
<1>8. CASE Complete(save)
  <2>1. instr_curr = instr_curr_prev /\ ~isr_ret
    BY <1>8 DEF Complete, Sequencing, Waiting, instr_curr, isr_ret
  <2>2. \/ cpu_state' = "IRQ_SV" /\ pc_next_reg' = pc_next_trad_reg
        \/ cpu_state' = "EXECUTE" /\ pc' = pc_next_trad_reg
    BY <1>8, <2>1 DEF Complete
  <2>3. stack' = stack /\ ArchPoint = pc /\ ArchPoint' = pc_next_trad_reg
    BY <1>2, <1>3, <1>8, <2>2 DEF Complete
  <2>4. \/ pc_next_trad_reg = pc
        \/ pc_next_trad_reg = Successor(pc) /\ ~AtReturn(pc)
    BY <1>8 DEF Complete, Sequencing, Waiting
  <2> QED BY <1>8, <2>3, <2>4 DEF Complete, Flow
<1>9. ASSUME NEW alu_done \in BOOLEAN, DivWait(alu_done) PROVE Flow(save, entry)
  BY <1>2, <1>3, <1>9 DEF DivWait, Flow
<1>10. CASE AmoPhase
  BY <1>2, <1>3, <1>10 DEF AmoPhase, Flow
<1>11. CASE AtomicAccess(save)
  <2>1. pc_next_reg = Successor(pc) /\ ~AtReturn(pc)
    BY <1>11 DEF AtomicAccess, Sequencing, Waiting
  <2>2. stack' = stack /\ ArchPoint = pc /\ ArchPoint' = pc_next_reg
    BY <1>2, <1>3, <1>11 DEF AtomicAccess
  <2> QED BY <1>11, <2>1, <2>2 DEF AtomicAccess, Flow
<1>12. CASE IrqSv
  BY <1>2, <1>3, <1>12 DEF IrqSv, Flow
<1>13. CASE IrqJump(entry)
  BY <1>3, <1>13 DEF IrqJump, Flow
<1>14. CASE CpuIrqRest(save)
  <2>1. /\ pc.unit \in Irqs /\ ArchPoint = [pc EXCEPT !.off = IsrLen]
    BY <1>2, <1>14 DEF CpuIrqRest, Sequencing
  <2>2. AtReturn(ArchPoint)
    <3>1. pc.unit # Main
      BY <2>1, Addresses
    <3>2. pc \in [unit : Irqs, off : 0 .. IsrLen + 1]
      BY <1>1, <3>1 DEF Pcs
    <3> QED BY <2>1, <3>1, <3>2 DEF AtReturn
  <2>3. /\ ArchPoint' = pc_next_ret
        /\ stack' = Popped \/ (save /\ stack' = stack)
    BY <1>3, <1>14 DEF CpuIrqRest
  <2> QED BY <1>14, <2>2, <2>3 DEF CpuIrqRest, Flow
<1>15. CASE Sleeping(save)
  BY <1>2, <1>3, <1>15 DEF Sleeping, Flow
<1>16. CASE TrapState
  BY <1>2, <1>3, <1>16 DEF TrapState, Flow
<1> QED
  BY <1>5, <1>6, <1>7, <1>8, <1>9, <1>10, <1>11, <1>12, <1>13, <1>14, <1>15, <1>16
  DEF CpuClocked

(* All but the last element of a sequence. *)
LEMMA FrontOf ==
  ASSUME NEW S, NEW s \in Seq(S), s # <<>>
  PROVE  /\ Len(s) \in Nat /\ Len(s) >= 1
         /\ Front(s) \in Seq(S) /\ Len(Front(s)) = Len(s) - 1
         /\ \A k \in 1 .. Len(s) - 1 : Front(s)[k] = s[k]
<1>1. Len(s) \in Nat /\ Len(s) # 0
  OBVIOUS
<1>2. Len(s) >= 1
  BY ONLY <1>1
<1>3. Front(s) = SubSeq(s, 1, Len(s) - 1)
  BY DEF Front
<1>4. Front(s) \in Seq(S) /\ \A k \in 1 .. Len(s) - 1 : Front(s)[k] = s[k]
  BY <1>1, <1>2, <1>3
<1>5. 1 \in Int /\ Len(s) - 1 \in Int /\ \A i \in 1 .. Len(s) - 1 : s[i] \in S
  BY <1>1
<1>6. Len(SubSeq(s, 1, Len(s) - 1)) = IF 1 <= Len(s) - 1 THEN Len(s) - 1 - 1 + 1 ELSE 0
  BY ONLY <1>5, SubSeqProperties
<1>7. Len(SubSeq(s, 1, Len(s) - 1)) = Len(s) - 1
  <2>1. \A n \in Nat : \A l :
          n >= 1 /\ l = (IF 1 <= n - 1 THEN n - 1 - 1 + 1 ELSE 0) => l = n - 1
    OBVIOUS
  <2> QED BY ONLY <1>1, <1>2, <1>6, <2>1
<1> QED BY <1>1, <1>2, <1>3, <1>4, <1>7

(* A return has an address to go back to, since a routine is only entered over   *)
(* an address that was pushed.                                                    *)
LEMMA FramesStep ==
  ASSUME CpuRegisters, Sequencing, Frames, NEW save \in BOOLEAN, NEW restore \in BOOLEAN,
         NEW entry \in Pcs, CpuClocked(save, restore, entry)
  PROVE  Frames'
<1>1. Flow(save, entry)
  BY PointStep
<1>2. /\ stack \in Seq(Pcs) /\ ArchPoint \in Pcs
      /\ Successor(ArchPoint).unit = ArchPoint.unit
  <2>1. ArchPoint \in Pcs
    <3>1. CASE cpu_state = "IRQ_REST"
      <4>1. pc.unit \in Irqs /\ pc.unit # Main /\ pc \in Pcs
        BY <3>1, Addresses DEF Sequencing, CpuRegisters
      <4>2. pc \in [unit : Irqs, off : 0 .. IsrLen + 1]
        BY <4>1 DEF Pcs
      <4>3. [pc EXCEPT !.off = IsrLen] \in [unit : Irqs, off : 0 .. IsrLen + 1]
        BY <4>2, ProgramAssumption
      <4> QED BY <3>1, <4>3 DEF ArchPoint, Pcs
    <3>2. CASE cpu_state # "IRQ_REST"
      BY <3>2 DEF ArchPoint, CpuRegisters
    <3> QED BY <3>1, <3>2
  <2> QED BY <2>1, Addresses DEF CpuRegisters
<1>3. cpu_state' = "IRQ_JUMP" => cpu_state = "IRQ_SV"
  BY DEF CpuClocked, SplitFetch, Execute, FirstState, FenceWait, Complete, DivWait, AmoPhase,
         AtomicAccess, IrqSv, IrqJump, CpuIrqRest, Sleeping, TrapState, Tick
<1>4. /\ stack' # <<>> => stack'[1].unit = Main
      /\ stack' = <<>> => ArchPoint'.unit = Main
  <2>1. CASE ArchPoint' = ArchPoint /\ stack' = stack
    BY <2>1 DEF Frames
  <2>2. CASE ArchPoint' = ArchPoint /\ stack' = Append(stack, ArchPoint)
    <3>1. stack' # <<>> /\ (stack = <<>> => stack'[1] = ArchPoint)
      BY <1>2, <2>2
    <3>2. stack # <<>> => stack'[1] = stack[1]
      BY <1>2, <2>2
    <3> QED BY <3>1, <3>2 DEF Frames
  <2>3. CASE ArchPoint' = Successor(ArchPoint) /\ stack' = stack
    BY <1>2, <2>3 DEF Frames
  <2>4. CASE cpu_state = "IRQ_JUMP" /\ stack' = stack
    BY <2>4 DEF Frames
  <2>5. CASE /\ cpu_state = "IRQ_REST" /\ ArchPoint' = pc_next_ret
             /\ stack' = Popped \/ stack' = stack
    <3>1. stack # <<>>
      <4>1. ArchPoint.unit = pc.unit /\ pc.unit \in Irqs
        BY <2>5 DEF ArchPoint, Sequencing, CpuRegisters, Pcs
      <4>2. ArchPoint.unit # Main
        BY <4>1, <1>2, Addresses
      <4> QED BY <4>2 DEF Frames
    <3>2. /\ Len(stack) \in Nat /\ Len(stack) >= 1
          /\ Len(Popped) = Len(stack) - 1
          /\ \A k \in 1 .. Len(stack) - 1 : Popped[k] = stack[k]
      BY <1>2, <3>1, FrontOf DEF Popped
    <3>3. pc_next_ret = stack[Len(stack)] /\ stack[1].unit = Main
      BY <3>1 DEF pc_next_ret, Last, Frames
    <3>4. Popped = <<>> => Len(stack) = 1
      <4>1. Popped = <<>> => Len(Popped) = 0
        OBVIOUS
      <4> QED BY ONLY <3>2, <4>1
    <3>5. Popped # <<>> => Popped[1] = stack[1]
      <4>1. Popped # <<>> => Len(Popped) # 0
        BY <1>2, Return
      <4>2. Popped # <<>> => 1 \in 1 .. Len(stack) - 1
        BY ONLY <3>2, <4>1
      <4> QED BY <3>2, <4>2
    <3> QED BY <2>5, <3>1, <3>2, <3>3, <3>4, <3>5
  <2> QED BY <1>1, <2>1, <2>2, <2>3, <2>4, <2>5 DEF Flow
<1>5. ASSUME cpu_state' = "IRQ_JUMP" PROVE stack' # <<>> /\ pc_next_reg' = Last(stack')
  <2>1. stack' = Append(stack, pc_next_reg) /\ pc_next_reg' = pc_next_reg
    BY <1>3, <1>5, EntrySteps
  <2>2. pc_next_reg \in Pcs
    BY DEF CpuRegisters
  <2>3. Len(stack') = Len(stack) + 1 /\ stack'[Len(stack) + 1] = pc_next_reg
    BY <1>2, <2>1, <2>2
  <2> QED BY <1>2, <2>1, <2>2, <2>3 DEF Last
<1> QED BY <1>4, <1>5 DEF Frames

(* The steps of the handler that the core takes part in. *)
LEMMA HandlerPaths ==
  ASSUME HandlerInv, NEW req \in SUBSET Irqs, NEW isrRet \in BOOLEAN,
         NEW saveAck \in BOOLEAN, NEW restoreAck \in BOOLEAN,
         HandlerStep(req, isrRet, saveAck, restoreAck)
  PROVE  /\ current_state' = "ISR_TRIGGERED" => ~context_saved'
         /\ current_state' = "WAIT_SAVE_ACK" /\ ~context_saved => ~context_saved'
         /\ current_state' = "WAIT_SAVE_ACK" =>
              current_state \in {"ISR_TRIGGERED", "WAIT_SAVE_ACK"}
         /\ current_state' = "JUMP_TO_IVT" =>
              /\ latched_irq' = latched_irq
              /\ \/ current_state = "WAIT_SAVE_ACK" /\ saveAck
                 \/ current_state = "ISR_TRIGGERED" /\ (saveAck \/ context_saved)
         /\ current_state = "WAIT_SAVE_ACK" =>
              current_state' = IF saveAck THEN "JUMP_TO_IVT" ELSE "WAIT_SAVE_ACK"
         /\ current_state = "ISR_TRIGGERED" /\ ~saveAck /\ ~context_saved =>
              current_state' = "WAIT_SAVE_ACK"
         /\ current_state' = "WAIT_RESTORE_ACK" =>
              \/ current_state = "IRQ_REST"
              \/ current_state = "WAIT_RESTORE_ACK" /\ ~restoreAck
<1>1. higher_priority_pending(req) => irq_recursion_en
  BY DEF higher_priority_pending
<1>2. CASE Idle(req)
  BY <1>2 DEF Idle
<1>3. CASE IsrTriggered(saveAck)
  BY <1>3 DEF IsrTriggered
<1>4. CASE WaitSaveAck(saveAck)
  BY <1>4 DEF WaitSaveAck
<1>5. CASE JumpToIvt
  BY <1>5 DEF JumpToIvt
<1>6. CASE WaitEoi(req, isrRet)
  BY <1>6 DEF WaitEoi
<1>7. CASE CheckNested(req)
  BY <1>1, <1>7 DEF CheckNested
<1>8. CASE IrqRest
  BY <1>8 DEF IrqRest
<1>9. CASE WaitRestoreAck(restoreAck)
  BY <1>9 DEF WaitRestoreAck
<1>10. CASE DecideNext
  BY <1>10 DEF DecideNext
<1> QED
  BY <1>2, <1>3, <1>4, <1>5, <1>6, <1>7, <1>8, <1>9, <1>10 DEF HandlerStep

(* The wires have the types of the ports. *)
LEMMA Wires ==
  ASSUME HandlerInv
  PROVE  /\ isr_ret \in BOOLEAN /\ irq_save_ack \in BOOLEAN
         /\ irq_save \in BOOLEAN /\ irq_restore \in BOOLEAN
         /\ ivt_entry \in Pcs
<1>1. isr_ret \in BOOLEAN /\ irq_save_ack \in BOOLEAN
  BY Zenon DEF isr_ret, irq_save_ack
<1>2. irq_save \in BOOLEAN /\ irq_restore \in BOOLEAN
  BY Zenon DEF irq_save, irq_restore
<1>3. latched_irq \in Irqs \cup {NoIrq}
  BY DEF HandlerInv, RegistersTyped
<1>4. ResetPc \in Pcs
  <2>1. 0 \in 0 .. MainLen - 1
    BY ProgramAssumption
  <2> QED BY <2>1 DEF ResetPc, Pcs
<1>5. ivt_entry \in Pcs
  BY <1>3, <1>4, Slots DEF ivt_entry
<1> QED BY <1>1, <1>2, <1>5

(* When the clock of the core is gated nothing moves but the flag of a sleeping  *)
(* core.                                                                          *)
LEMMA GatedStep ==
  ASSUME CpuRegisters, Sequencing, CpuGated
  PROVE  /\ CpuRegisters' /\ Sequencing'
         /\ UNCHANGED <<cpu_state, read_data, pc, pc_next_reg, stack, irq_restore_ack>>
         /\ UNCHANGED <<instr_curr, isr_ret, ArchPoint>>
<1> USE DEF CpuGated
<1>1. CpuRegisters'
  BY DEF CpuRegisters
<1>2. Sequencing'
  BY DEF Sequencing
<1>3. instr_curr' = instr_curr
  BY DEF instr_curr
<1>4. isr_ret' = isr_ret
  BY <1>3 DEF isr_ret
<1>5. ArchPoint' = ArchPoint
  BY DEF ArchPoint
<1> QED BY <1>1, <1>2, <1>3, <1>4, <1>5

(* What the parts of a step are. *)
LEMMA Parts ==
  ASSUME MachineInv, Next
  PROVE  /\ CpuTypeOK /\ HandlerInv /\ Sequencing /\ Handshakes /\ Frames /\ CpuRegisters
         /\ current_state \in HandlerStates /\ irq \in SUBSET Irqs
         /\ HandlerStep(irq, isr_ret, irq_save_ack, irq_restore_ack)
         /\ SleepControl /\ Peripherals /\ sleep' \in BOOLEAN
         /\ isr_ret \in BOOLEAN /\ irq_save_ack \in BOOLEAN /\ irq_restore_ack \in BOOLEAN
         /\ irq_save \in BOOLEAN /\ irq_restore \in BOOLEAN /\ ivt_entry \in Pcs
         /\ \/ CpuClocked(irq_save, irq_restore, ivt_entry) /\ irq_restore_ack' = irq_restore
            \/ CpuGated /\ current_state = "IDLE"
<1>1. /\ CpuTypeOK /\ HandlerInv /\ Sequencing /\ Handshakes /\ Frames /\ CpuRegisters
      /\ current_state \in HandlerStates /\ irq \in SUBSET Irqs /\ irq_restore_ack \in BOOLEAN
  BY DEF MachineInv, CpuTypeOK, CpuRegisters, HandlerInv, RegistersTyped
<1>2. /\ HandlerStep(irq, isr_ret, irq_save_ack, irq_restore_ack)
      /\ CpuStep(irq_active, sleep, irq_save, irq_restore, ivt_entry)
      /\ Peripherals /\ sleep' \in BOOLEAN
  BY DEF Next, SleepInput
<1>3. SleepControl
  BY <1>2 DEF CpuStep
<1>4. \/ CpuClocked(irq_save, irq_restore, ivt_entry) /\ irq_restore_ack' = irq_restore
      \/ CpuGated /\ current_state = "IDLE"
  BY <1>2 DEF CpuStep, en_clk_cpu, irq_active, CpuClocked
<1>5. /\ isr_ret \in BOOLEAN /\ irq_save_ack \in BOOLEAN
      /\ irq_save \in BOOLEAN /\ irq_restore \in BOOLEAN /\ ivt_entry \in Pcs
  BY <1>1, Wires
<1> QED BY <1>1, <1>2, <1>3, <1>4, <1>5

LEMMA MachineInvInit == Init => MachineInv
<1> SUFFICES ASSUME Init PROVE MachineInv
  OBVIOUS
<1> USE DEF Init, CpuInit, HandlerInit
<1>1. HandlerInv
  BY InitInv
<1>2. ResetPc \in Pcs /\ ResetPc.unit = Main
  <2>1. 0 \in 0 .. MainLen - 1
    BY ProgramAssumption
  <2> QED BY <2>1 DEF ResetPc, Pcs
<1>3. FetchedWords(ResetPc) \subseteq Words
  BY <1>2, ClassAssumption DEF FetchedWords, Instructions, Words, AllClasses, AtReturn
<1>4. CpuTypeOK
  <2>1. repeat_if \in BOOLEAN /\ irq_restore_ack \in BOOLEAN /\ sleep_cpu \in BOOLEAN
        /\ sleep \in BOOLEAN
    OBVIOUS
  <2>2. cpu_state \in CpuStates /\ instr_curr_prev \in Words /\ read_data \in Words
    BY <1>3 DEF CpuStates, Words, AllClasses
  <2> QED BY <1>2, <2>1, <2>2 DEF CpuTypeOK
<1>5. Sequencing
  BY DEF Sequencing, Waiting
<1>6. Handshakes
  BY DEF Handshakes
<1>7. Frames
  BY <1>2 DEF Frames, ArchPoint
<1> QED BY <1>1, <1>4, <1>5, <1>6, <1>7 DEF MachineInv

LEMMA HandshakesStep ==
  ASSUME MachineInv, Next
  PROVE  Handshakes'
<1>1. /\ HandlerInv /\ Handshakes /\ Frames /\ irq \in SUBSET Irqs
      /\ HandlerStep(irq, isr_ret, irq_save_ack, irq_restore_ack)
      /\ isr_ret \in BOOLEAN /\ irq_save_ack \in BOOLEAN /\ irq_restore_ack \in BOOLEAN
      /\ \/ CpuClocked(irq_save, irq_restore, ivt_entry) /\ irq_restore_ack' = irq_restore
         \/ CpuGated /\ current_state = "IDLE"
  BY Parts
<1>2. irq_save <=> current_state \in {"ISR_TRIGGERED", "WAIT_SAVE_ACK"} /\ ~context_saved
  BY DEF irq_save
<1>3. irq_save_ack <=> cpu_state = "IRQ_JUMP"
  BY DEF irq_save_ack
<1>4. current_state' \in {"ISR_TRIGGERED", "WAIT_SAVE_ACK"} => ~context_saved'
  BY <1>1, HandlerPaths DEF Handshakes
<1>5. cpu_state' \in {"IRQ_SV", "IRQ_JUMP"} => current_state' = "WAIT_SAVE_ACK"
  <2>1. SUFFICES ASSUME cpu_state' \in {"IRQ_SV", "IRQ_JUMP"}
                 PROVE  current_state' = "WAIT_SAVE_ACK"
    OBVIOUS
  <2>2. CASE CpuGated /\ current_state = "IDLE"
    BY <1>1, <2>1, <2>2 DEF CpuGated, Handshakes
  <2>3. CASE CpuClocked(irq_save, irq_restore, ivt_entry)
    <3>1. /\ cpu_state' = "IRQ_SV" => irq_save /\ cpu_state # "IRQ_JUMP"
          /\ cpu_state' = "IRQ_JUMP" => cpu_state = "IRQ_SV"
      BY <2>3 DEF CpuClocked, SplitFetch, Execute, FirstState, FenceWait, Complete, DivWait,
           AmoPhase, AtomicAccess, IrqSv, IrqJump, CpuIrqRest, Sleeping, TrapState, Tick
    <3>2. ~irq_save_ack /\ current_state \in {"ISR_TRIGGERED", "WAIT_SAVE_ACK"}
      BY <1>1, <1>2, <1>3, <2>1, <3>1 DEF Handshakes
    <3> QED BY <1>1, <3>2, HandlerPaths DEF Handshakes
  <2> QED BY <1>1, <2>2, <2>3
<1>6. ASSUME current_state' = "JUMP_TO_IVT"
      PROVE  cpu_state' = "EXECUTE" /\ pc' = ivt_entry' /\ stack' # <<>>
  <2>1. latched_irq' = latched_irq /\ current_state \in {"ISR_TRIGGERED", "WAIT_SAVE_ACK"}
    BY <1>1, <1>6, HandlerPaths
  <2>2. cpu_state = "IRQ_JUMP"
    BY <1>1, <1>3, <1>6, HandlerPaths DEF Handshakes
  <2>3. cpu_state' = "EXECUTE" /\ pc' = ivt_entry /\ stack' = stack
    BY <1>1, <2>1, <2>2, EntrySteps
  <2>4. ivt_entry' = ivt_entry
    BY <2>1 DEF ivt_entry
  <2> QED BY <1>1, <2>2, <2>3, <2>4 DEF Frames
<1>7. current_state' = "WAIT_RESTORE_ACK" => irq_restore_ack'
  BY <1>1, HandlerPaths DEF Handshakes, irq_restore
<1> QED BY <1>4, <1>5, <1>6, <1>7 DEF Handshakes

LEMMA MachineInvStep ==
  ASSUME MachineInv, Next
  PROVE  MachineInv'
<1>1. /\ CpuTypeOK /\ HandlerInv /\ Sequencing /\ Frames /\ CpuRegisters
      /\ irq \in SUBSET Irqs /\ current_state \in HandlerStates
      /\ HandlerStep(irq, isr_ret, irq_save_ack, irq_restore_ack)
      /\ SleepControl /\ Peripherals /\ sleep' \in BOOLEAN
      /\ isr_ret \in BOOLEAN /\ irq_save_ack \in BOOLEAN /\ irq_restore_ack \in BOOLEAN
      /\ irq_save \in BOOLEAN /\ irq_restore \in BOOLEAN /\ ivt_entry \in Pcs
      /\ CpuClocked(irq_save, irq_restore, ivt_entry) \/ CpuGated
  BY Parts
<1>2. HandlerInv'
  <2>1. RegistersTyped'
    BY <1>1, StepTyped DEF HandlerInv
  <2>2. NestedChoice'
    BY <1>1, StepNestedChoice DEF HandlerInv
  <2>3. ~irq_recursion_en => SingleService' /\ NoLateChoice'
    BY <1>1, StepSingle DEF HandlerInv
  <2> QED BY <2>1, <2>2, <2>3 DEF HandlerInv
<1>3. CpuRegisters' /\ Sequencing'
  BY <1>1, ClockedTyped, ClockedSequencing, GatedStep
<1>4. Frames'
  <2>1. CASE CpuGated
    BY <1>1, <2>1, GatedStep DEF Frames
  <2>2. CASE CpuClocked(irq_save, irq_restore, ivt_entry)
    BY <1>1, <2>2, FramesStep
  <2> QED BY <1>1, <2>1, <2>2
<1>5. sleep_cpu' \in BOOLEAN
  BY <1>1 DEF SleepControl, CpuTypeOK
<1>6. CpuTypeOK'
  BY <1>1, <1>3, <1>5 DEF CpuTypeOK, CpuRegisters, Peripherals
<1> QED BY <1>2, <1>3, <1>4, <1>6, HandshakesStep DEF MachineInv

LEMMA MachineInvHolds == Spec => []MachineInv
<1>1. MachineInv /\ [Next]_vars => MachineInv'
  <2> SUFFICES ASSUME MachineInv, [Next]_vars PROVE MachineInv'
    OBVIOUS
  <2>1. CASE Next
    BY <2>1, MachineInvStep
  <2>2. CASE UNCHANGED vars
    <3>1. UNCHANGED <<ArchPoint, ivt_entry>>
      BY <2>2 DEF vars, ArchPoint, ivt_entry
    <3>2. HandlerInv'
      BY <2>2 DEF vars, MachineInv, HandlerInv, RegistersTyped, NestedChoice, SingleService,
                  NoLateChoice
    <3>3. CpuTypeOK' /\ Sequencing'
      BY <2>2 DEF vars, MachineInv, CpuTypeOK, Sequencing
    <3>4. Handshakes' /\ Frames'
      BY <2>2, <3>1 DEF vars, MachineInv, Handshakes, Frames
    <3> QED BY <3>2, <3>3, <3>4 DEF MachineInv
  <2> QED BY <2>1, <2>2
<1> QED BY <1>1, MachineInvInit, PTL DEF Spec

----------------------------------------------------------------------------
(* What holds in every mode: with and without recursion, for requests that are  *)
(* taken back and for routines that trap.                                        *)

(* Type correctness of the composition: the registers of the core keep to their *)
(* values, in particular the vector a routine is entered by and the address it   *)
(* returns to are addresses of the program.                                       *)
THEOREM CoreIsTyped == Spec => []CpuTypeOK
<1>1. MachineInv => CpuTypeOK
  BY DEF MachineInv
<1> QED BY <1>1, MachineInvHolds, PTL

(* The handshakes: the core is in the two states of an entry only while the      *)
(* handler waits for its acknowledgement, and the handler announces the jump in   *)
(* the very cycle in which the core is at the entry, with an address to go back   *)
(* to on the stack.                                                                *)
THEOREM HandshakesAreKept == Spec => []Handshakes
<1>1. MachineInv => Handshakes
  BY DEF MachineInv
<1> QED BY <1>1, MachineInvHolds, PTL

(* The stack is never overdrawn: a core that returns, or executes a routine, has *)
(* pushed an address before, and the first one pushed is one of the main program. *)
NeverOverdrawn ==
  /\ cpu_state = "IRQ_REST" \/ ArchPoint.unit # Main => stack # <<>>
  /\ stack # <<>> => stack[1].unit = Main

THEOREM ReturnsHaveAnAddress == Spec => []NeverOverdrawn
<1>1. MachineInv => NeverOverdrawn
  <2> SUFFICES ASSUME MachineInv PROVE NeverOverdrawn
    OBVIOUS
  <2>1. Frames /\ Sequencing /\ pc \in Pcs
    BY DEF MachineInv, CpuTypeOK
  <2>2. cpu_state = "IRQ_REST" => ArchPoint.unit # Main
    <3>1. SUFFICES ASSUME cpu_state = "IRQ_REST" PROVE ArchPoint.unit # Main
      OBVIOUS
    <3>2. pc.unit \in Irqs /\ pc.unit # Main
      BY <2>1, <3>1, Addresses DEF Sequencing
    <3>3. pc \in [unit : Irqs, off : 0 .. IsrLen + 1]
      BY <2>1, <3>2 DEF Pcs
    <3> QED BY <3>1, <3>2, <3>3 DEF ArchPoint
  <2> QED BY <2>1, <2>2 DEF Frames, NeverOverdrawn
<1> QED BY <1>1, MachineInvHolds, PTL

(* Where a step may take the program: it stays where it is, goes on by one        *)
(* instruction, enters at the vector, or returns to the address on top of the     *)
(* stack; addresses are pushed in IRQ_SV and popped by a return, and never         *)
(* otherwise.                                                                      *)
THEOREM ProgramFollowsTheStack == Spec => [][Flow(irq_save, ivt_entry)]_vars
<1>1. MachineInv /\ [Next]_vars => [Flow(irq_save, ivt_entry)]_vars
  <2> SUFFICES ASSUME MachineInv, Next PROVE Flow(irq_save, ivt_entry)
    OBVIOUS
  <2>1. /\ CpuRegisters /\ Sequencing
        /\ irq_save \in BOOLEAN /\ irq_restore \in BOOLEAN /\ ivt_entry \in Pcs
        /\ CpuClocked(irq_save, irq_restore, ivt_entry) \/ CpuGated
    BY Parts
  <2>2. CASE CpuGated
    BY <2>1, <2>2, GatedStep DEF Flow
  <2>3. CASE CpuClocked(irq_save, irq_restore, ivt_entry)
    BY <2>1, <2>3, PointStep
  <2> QED BY <2>1, <2>2, <2>3
<1> QED BY <1>1, MachineInvHolds, PTL DEF Spec

(* The core is one of the environments of the handler: what is proved above of    *)
(* irq_handler.vhd by itself holds of the handler inside the core.                *)
THEOREM CoreDrivesTheHandler == Spec => HandlerSpec
<1>1. Init => HandlerInit
  BY DEF Init
<1>2. MachineInv /\ [Next]_vars => [HandlerNext]_handlerVars
  <2> SUFFICES ASSUME MachineInv, [Next]_vars PROVE HandlerNext \/ UNCHANGED handlerVars
    OBVIOUS
  <2>1. CASE Next
    <3>1. /\ HandlerStep(irq, isr_ret, irq_save_ack, irq_restore_ack)
          /\ irq \in SUBSET Irqs /\ isr_ret \in BOOLEAN /\ irq_save_ack \in BOOLEAN
          /\ irq_restore_ack \in BOOLEAN
      BY <2>1, Parts
    <3> QED BY <3>1 DEF HandlerNext
  <2>2. CASE UNCHANGED vars
    BY <2>2 DEF vars, handlerVars
  <2> QED BY <2>1, <2>2
<1> QED BY <1>1, <1>2, MachineInvHolds, PTL DEF Spec, HandlerSpec

(* A sleeping core while its clock is gated. *)
LEMMA GatedDormant ==
  ASSUME CpuRegisters, Sequencing, Dormant, SleepControl, CpuGated,
         slept = "asleep", ~Misread("wake")
  PROVE  Dormant'
<1>1. UNCHANGED <<cpu_state, read_data, pc, instr_curr_prev>>
  BY DEF CpuGated
<1>2. sleep_cpu /\ ~sleep_cpu' =>
        \/ cpu_state \in {"EXECUTE", "FENCE_WAIT"} /\ read_data = "wake"
        \/ cpu_state = "TRAP_STATE"
  BY WakeAtHand DEF SleepControl, Misread
<1> QED BY <1>1, <1>2 DEF Dormant

LEMMA DormantStep ==
  ASSUME MachineInv, Dormant, VectorTaken', SleepNext
  PROVE  Dormant'
<1>1. /\ CpuRegisters /\ Sequencing /\ Handshakes /\ HandlerInv
      /\ SleepControl
      /\ irq_save \in BOOLEAN /\ irq_restore \in BOOLEAN /\ ivt_entry \in Pcs
      /\ HandlerStep(irq, isr_ret, irq_save_ack, irq_restore_ack)
      /\ irq \in SUBSET Irqs /\ isr_ret \in BOOLEAN /\ irq_save_ack \in BOOLEAN
      /\ irq_restore_ack \in BOOLEAN
  BY Parts DEF SleepNext
<1>2. IF en_clk_cpu(irq_active, sleep)
      THEN CpuClocked(irq_save, irq_restore, ivt_entry) ELSE CpuGated
  BY DEF SleepNext, Next, CpuStep
<1>3. ASSUME cpu_state = "IRQ_JUMP" PROVE ivt_entry.unit # Main
  <2>1. current_state = "WAIT_SAVE_ACK" /\ irq_save_ack
    BY <1>1, <1>3 DEF Handshakes, irq_save_ack
  <2>2. current_state' = "JUMP_TO_IVT"
    BY <1>1, <2>1, HandlerPaths
  <2>3. latched_irq' = latched_irq
    BY <1>1, <2>2, HandlerPaths
  <2>4. ivt_entry'.unit \in Irqs /\ ivt_entry' = ivt_entry
    BY <2>2, <2>3 DEF VectorTaken, ivt_jump, ivt_entry
  <2> QED BY <1>1, <2>4, Addresses
<1>4. CASE slept' # "asleep"
  BY <1>4 DEF Dormant
<1>5. CASE Executes("sleep")
  BY <1>1, <1>2, <1>5, FallsAsleep DEF Executes
<1>6. CASE slept = "asleep" /\ ~Executes("wake") /\ ~Misread("wake")
  <2>1. CASE en_clk_cpu(irq_active, sleep)
    <3>1. ~(cpu_state = "EXECUTE" /\ read_data = "wake")
      BY <1>6, <2>1 DEF Executes
    <3> QED BY <1>1, <1>2, <1>3, <1>6, <2>1, <3>1, ClockedDormant
  <2>2. CASE ~en_clk_cpu(irq_active, sleep)
    BY <1>1, <1>2, <1>6, <2>2, GatedDormant
  <2> QED BY <2>1, <2>2
<1> QED BY <1>4, <1>5, <1>6, Remembers

(* The history variable adds nothing to the core: what is proved of Spec holds     *)
(* beside it.                                                                       *)
LEMMA SleepIsWatched == SleepSpec => Spec
<1>1. SleepInit => Init
  BY DEF SleepInit
<1>2. [SleepNext]_sleepVars => [Next]_vars
  BY DEF SleepNext, sleepVars, vars
<1> QED BY <1>1, <1>2, PTL DEF SleepSpec, Spec

(* A program that executed its sleep instruction stays asleep until it or a        *)
(* routine executes the wake instruction, in every mode, as long as every routine   *)
(* is entered by its vector: beside a wake that is misread in IRQ_SV or IRQ_JUMP,    *)
(* only a jump to the reset address, which runs the main program, breaks its sleep.   *)
THEOREM SleepNeedsOnlyTheVector == SleepSpec /\ []VectorTaken => []AsleepUntilWoken
<1>1. SleepInit => Dormant
  BY DEF SleepInit, Dormant
<1>2. MachineInv /\ Dormant /\ VectorTaken' /\ [SleepNext]_sleepVars => Dormant'
  <2> SUFFICES ASSUME MachineInv, Dormant, VectorTaken', [SleepNext]_sleepVars PROVE Dormant'
    OBVIOUS
  <2>1. CASE SleepNext
    BY <2>1, DormantStep
  <2>2. CASE UNCHANGED sleepVars
    BY <2>2 DEF sleepVars, Dormant
  <2> QED BY <2>1, <2>2
<1>3. Dormant => AsleepUntilWoken
  BY DEF Dormant, AsleepUntilWoken, MainExecutes
<1> QED BY <1>1, <1>2, <1>3, SleepIsWatched, MachineInvHolds, PTL DEF SleepSpec

----------------------------------------------------------------------------
(* Without recursion. *)

(* What a step of the handler does. *)
LEMMA HandlerMoves ==
  ASSUME HandlerInv, ~irq_recursion_en, current_state # "CHECK_NESTED",
         NEW req \in SUBSET Irqs, NEW isrRet \in BOOLEAN,
         NEW saveAck \in BOOLEAN, NEW restoreAck \in BOOLEAN,
         HandlerStep(req, isrRet, saveAck, restoreAck)
  PROVE  /\ current_state = "IDLE" =>
              /\ highest_priority_irq_reg' = Encode(req, irq_pri)
              /\ \/ current_state' = "IDLE" /\ latched_irq' = latched_irq
                 \/ /\ current_state' = "ISR_TRIGGERED" /\ ~context_saved'
                    /\ irq_found_reg /\ latched_irq' = Encode(req, irq_pri)
         /\ current_state = "ISR_TRIGGERED" /\ ~saveAck /\ ~context_saved =>
              current_state' = "WAIT_SAVE_ACK" /\ ~context_saved' /\ latched_irq' = latched_irq
         /\ current_state = "WAIT_SAVE_ACK" =>
              /\ latched_irq' = latched_irq
              /\ saveAck => current_state' = "JUMP_TO_IVT"
              /\ ~saveAck => current_state' = "WAIT_SAVE_ACK"
              /\ ~saveAck /\ ~context_saved => ~context_saved'
         /\ current_state = "JUMP_TO_IVT" =>
              current_state' = "WAIT_EOI" /\ latched_irq' = latched_irq
         /\ current_state = "WAIT_EOI" =>
              /\ latched_irq' = latched_irq
              /\ current_state' = IF isrRet THEN "IRQ_REST" ELSE "WAIT_EOI"
         /\ current_state = "IRQ_REST" =>
              current_state' = "WAIT_RESTORE_ACK" /\ latched_irq' = latched_irq
         /\ current_state = "WAIT_RESTORE_ACK" /\ restoreAck => current_state' = "DECIDE_NEXT"
         /\ current_state = "DECIDE_NEXT" =>
              current_state' = "IDLE" /\ highest_priority_irq_reg' = NoIrq
<1>1. ~irq_recursion_en /\ RegistersTyped /\ SingleService /\ NoLateChoice
  BY DEF HandlerInv
<1>2. ~higher_priority_pending(req)
  BY <1>1 DEF higher_priority_pending
<1>3. current_state = "IDLE" => highest_priority_irq_comb(req) = Encode(req, irq_pri)
  BY <1>1 DEF highest_priority_irq_comb, is_servicing, pending_irqs_comb, SingleService
<1>4. current_state = "DECIDE_NEXT" => highest_priority_irq_comb(req) = NoIrq
  <2>1. SUFFICES ASSUME current_state = "DECIDE_NEXT"
                 PROVE  Encode(pending_irqs_comb(req), irq_pri) = NoIrq
    BY DEF highest_priority_irq_comb
  <2>2. pending_irqs_comb(req) = {}
    BY <1>1, <2>1 DEF pending_irqs_comb, SingleService
  <2> QED BY <1>1, <2>2, EncodeResult DEF RegistersTyped
<1>5. highest_priority_irq_reg' = highest_priority_irq_comb(req)
  BY DEF HandlerStep
<1>6. CASE Idle(req)
  BY <1>3, <1>5, <1>6 DEF Idle
<1>7. CASE IsrTriggered(saveAck)
  BY <1>7 DEF IsrTriggered
<1>8. CASE WaitSaveAck(saveAck)
  BY <1>8 DEF WaitSaveAck
<1>9. CASE JumpToIvt
  BY <1>9 DEF JumpToIvt
<1>10. CASE WaitEoi(req, isrRet)
  BY <1>2, <1>10 DEF WaitEoi
<1>11. CASE IrqRest
  BY <1>11 DEF IrqRest
<1>12. CASE WaitRestoreAck(restoreAck)
  BY <1>12 DEF WaitRestoreAck
<1>13. CASE DecideNext
  <2>1. current_state = "DECIDE_NEXT" /\ irqs_in_service = {}
    BY <1>1, <1>13 DEF DecideNext, SingleService, Servicing
  <2>2. current_state' = "IDLE"
    BY <1>13, <2>1, FS_EmptySet DEF DecideNext
  <2> QED BY <1>4, <1>5, <2>1, <2>2
<1> QED
  BY <1>6, <1>7, <1>8, <1>9, <1>10, <1>11, <1>12, <1>13 DEF HandlerStep, CheckNested

(* A line that is not being served keeps its request, unless it is taken back. *)
LEMMA RequestsStay ==
  ASSUME ~Withdraw, Peripherals, NEW i \in irq, ~Running(i)
  PROVE  i \in irq'
BY DEF Peripherals

(* The main program does not execute the return instruction. *)
LEMMA MainNeverReturns ==
  ASSUME CpuRegisters, Sequencing, AtMain, ~isr_ret \/ cpu_state = "EXECUTE",
         NEW restore \in BOOLEAN, NEW entry \in Pcs, CpuClocked(FALSE, restore, entry)
  PROVE  ~isr_ret'
<1>1. /\ CpuRegisters' /\ Sequencing' /\ AtMain'
      /\ pc \in Pcs /\ pc' \in Pcs /\ cpu_state' \in CpuStates
  BY ClockedTyped, ClockedSequencing, MainStep DEF CpuRegisters
<1>2. instr_curr_prev' = instr_curr
  BY DEF CpuClocked, SplitFetch, Execute, FenceWait, Complete, DivWait, AmoPhase,
         AtomicAccess, IrqSv, IrqJump, CpuIrqRest, Sleeping, TrapState, Tick
<1>3. /\ cpu_state # "SLEEPING" => pc.unit = Main
      /\ cpu_state' # "SLEEPING" => pc'.unit = Main
  BY <1>1 DEF AtMain, Calm, ArchPoint
<1>4. \A p \in Pcs : p.unit = Main => "iret" \notin FetchedWords(p)
  BY Fetches DEF AtReturn
<1>5. cpu_state = "EXECUTE" /\ read_data # "split" => ~isr_ret
  BY <1>1, <1>3, <1>4 DEF Sequencing, isr_ret, instr_curr
<1>6. SUFFICES instr_curr' # "iret"
  BY DEF isr_ret
<1>7. CASE cpu_state' = "FENCE_WAIT" \/ (cpu_state' = "EXECUTE" /\ read_data' # "split")
  <2>1. instr_curr' = read_data' /\ read_data' \in FetchedWords(pc')
    BY <1>1, <1>7 DEF instr_curr, Sequencing
  <2> QED BY <1>1, <1>3, <1>4, <1>7, <2>1
<1>8. CASE cpu_state' \in Waiting \cup {"AMO_COMPLETE"}
  BY <1>1, <1>8 DEF instr_curr, Sequencing, Waiting
<1>9. CASE cpu_state' = "TRAP_STATE"
  <2>1. instr_curr' = read_data'
    BY <1>9 DEF instr_curr
  <2>2. \/ cpu_state = "EXECUTE" /\ read_data' \in FetchedWords(Successor(pc))
        \/ cpu_state = "TRAP_STATE" /\ read_data' = read_data
    BY <1>9 DEF CpuClocked, SplitFetch, Execute, FenceWait, Complete, DivWait, AmoPhase,
         AtomicAccess, IrqSv, IrqJump, CpuIrqRest, Sleeping, TrapState, Tick, Fetch
  <2>3. CASE cpu_state = "EXECUTE" /\ read_data' \in FetchedWords(Successor(pc))
    BY <1>1, <1>3, <1>4, <2>1, <2>3, Addresses
  <2>4. CASE cpu_state = "TRAP_STATE" /\ read_data' = read_data
    BY <2>1, <2>4 DEF isr_ret, instr_curr
  <2> QED BY <2>2, <2>3, <2>4
<1>10. CASE cpu_state' = "EXECUTE" /\ read_data' = "split"
  <2>1. cpu_state = "EXECUTE" => read_data # "split"
    <3>1. SUFFICES ASSUME cpu_state = "EXECUTE", read_data = "split" PROVE FALSE
      OBVIOUS
    <3>2. SplitFetch
      BY <3>1 DEF CpuClocked, Execute, FenceWait, Complete, DivWait, AmoPhase,
         AtomicAccess, IrqSv, IrqJump, CpuIrqRest, Sleeping, TrapState
    <3> QED BY <1>1, <1>10, <3>2, Fetches DEF SplitFetch
  <2> QED BY <1>2, <1>5, <1>10, <2>1 DEF instr_curr, isr_ret
<1>11. CASE cpu_state' = "SLEEPING"
  <2>1. cpu_state \in {"EXECUTE", "SLEEPING"} /\ (cpu_state = "EXECUTE" => read_data # "split")
    BY <1>11 DEF CpuClocked, SplitFetch, Execute, FenceWait, Complete, DivWait, AmoPhase,
         AtomicAccess, IrqSv, IrqJump, CpuIrqRest, Sleeping, TrapState, Tick, AtMain, Calm
  <2> QED BY <1>2, <1>5, <1>11, <2>1 DEF instr_curr, isr_ret
<1> QED
  BY <1>1, <1>7, <1>8, <1>9, <1>10, <1>11 DEF CpuStates, Waiting, AtMain, Calm

(* A routine that has trapped stays where it is. *)
LEMMA StuckStep ==
  ASSUME MachineInv, ~irq_recursion_en, Stuck, Next
  PROVE  Stuck' /\ UNCHANGED <<cpu_state, stack, ArchPoint>>
<1>1. /\ HandlerInv /\ Handshakes /\ current_state \in HandlerStates
      /\ CpuRegisters /\ Sequencing
      /\ HandlerStep(irq, isr_ret, irq_save_ack, irq_restore_ack)
      /\ irq \in SUBSET Irqs /\ isr_ret \in BOOLEAN /\ irq_save_ack \in BOOLEAN
      /\ irq_restore_ack \in BOOLEAN
      /\ CpuClocked(irq_save, irq_restore, ivt_entry) \/ CpuGated
  BY Parts
<1>2. UNCHANGED <<cpu_state, stack, pc>>
  BY <1>1 DEF Stuck, CpuGated, CpuClocked, SplitFetch, Execute, FenceWait, Complete, DivWait,
     AmoPhase, AtomicAccess, IrqSv, IrqJump, CpuIrqRest, Sleeping, TrapState, Tick
<1>3. ArchPoint' = ArchPoint
  BY <1>2 DEF Stuck, ArchPoint
<1>4. ~irq_save_ack
  BY DEF Stuck, irq_save_ack
<1>5. /\ current_state \in {"ISR_TRIGGERED", "WAIT_SAVE_ACK"} => ~context_saved
      /\ current_state = "WAIT_RESTORE_ACK" => irq_restore_ack
      /\ current_state # "CHECK_NESTED" /\ current_state # "JUMP_TO_IVT"
  BY <1>1 DEF Handshakes, Stuck
<1>6. current_state' \notin {"JUMP_TO_IVT", "CHECK_NESTED"}
  BY <1>1, <1>4, <1>5, HandlerMoves DEF HandlerStates
<1> QED BY <1>2, <1>3, <1>6 DEF Stuck, Framed

(* A request that was taken back leaves the core in the main program. *)
LEMMA LostStep ==
  ASSUME MachineInv, ~irq_recursion_en, Lost, Next
  PROVE  Lost'
<1>1. /\ HandlerInv /\ Handshakes
      /\ CpuRegisters /\ Sequencing
      /\ HandlerStep(irq, isr_ret, irq_save_ack, irq_restore_ack)
      /\ irq \in SUBSET Irqs /\ isr_ret \in BOOLEAN /\ irq_save_ack \in BOOLEAN
      /\ irq_restore_ack \in BOOLEAN /\ irq_restore \in BOOLEAN /\ ivt_entry \in Pcs
      /\ \/ CpuClocked(irq_save, irq_restore, ivt_entry)
         \/ CpuGated /\ current_state = "IDLE"
  BY Parts
<1>2. ~irq_save /\ current_state \notin {"IDLE", "CHECK_NESTED"}
  BY DEF Lost, irq_save
<1>3. CpuClocked(FALSE, irq_restore, ivt_entry)
  <2>1. irq_save = FALSE
    BY <1>1, <1>2, Wires
  <2> QED BY <1>1, <1>2, <2>1
<1>4. AtMain' /\ stack' = stack
  BY <1>1, <1>3, MainStep DEF Lost
<1>5. ~isr_ret \/ cpu_state = "EXECUTE"
  BY <1>1 DEF Lost, Handshakes
<1>6. ~isr_ret'
  BY <1>1, <1>3, <1>5, MainNeverReturns DEF Lost
<1>7. current_state' = "WAIT_EOI" /\ latched_irq' = latched_irq
  BY <1>1, <1>2, HandlerMoves DEF Lost
<1> QED BY <1>4, <1>6, <1>7 DEF Lost, Framed

(* The request at the encoder and the latched one are still there. *)
LEMMA AcceptingStep ==
  ASSUME MachineInv, ~irq_recursion_en, ~Withdraw, Meeting, Accepting, Next
  PROVE  Accepting'
<1>1. /\ CpuTypeOK /\ HandlerInv /\ Handshakes /\ CpuRegisters
      /\ HandlerStep(irq, isr_ret, irq_save_ack, irq_restore_ack) /\ Peripherals
      /\ irq \in SUBSET Irqs /\ isr_ret \in BOOLEAN /\ irq_save_ack \in BOOLEAN
      /\ irq_restore_ack \in BOOLEAN /\ current_state \in HandlerStates
  BY Parts
<1>2. /\ current_state \in {"ISR_TRIGGERED", "WAIT_SAVE_ACK"} => ~context_saved
      /\ current_state = "WAIT_RESTORE_ACK" => irq_restore_ack
      /\ current_state # "CHECK_NESTED"
  BY <1>1 DEF Handshakes, Meeting
<1>3. \A i \in irq : AtMain => i \in irq'
  <2>1. SUFFICES ASSUME NEW i \in irq, AtMain PROVE ~Running(i)
    BY <1>1, RequestsStay
  <2>2. Main \notin Irqs /\ i # Main
    BY <1>1, Addresses DEF CpuRegisters
  <2> QED BY <2>1, <2>2 DEF Running, AtMain, Calm, ArchPoint
<1>4. \A i \in irq : cpu_state \in {"IRQ_SV", "IRQ_JUMP"} => i \in irq'
  BY <1>1, RequestsStay DEF Running
<1>5. CASE current_state = "IDLE"
  <2>1. AtMain
    BY <1>5 DEF Meeting, InMain
  <2>2. /\ highest_priority_irq_reg' = Encode(irq, irq_pri)
        /\ \/ current_state' = "IDLE"
           \/ /\ current_state' = "ISR_TRIGGERED"
              /\ irq_found_reg /\ latched_irq' = Encode(irq, irq_pri)
    BY <1>1, <1>2, <1>5, HandlerMoves
  <2>3. /\ irq = {} => Encode(irq, irq_pri) = NoIrq
        /\ irq # {} => Encode(irq, irq_pri) \in irq
    BY <1>1, EncodeResult DEF HandlerInv, RegistersTyped
  <2>4. irq_found_reg => irq # {}
    BY <1>5 DEF irq_found_reg, Accepting
  <2> QED BY <1>3, <2>1, <2>2, <2>3, <2>4 DEF Accepting
<1>6. CASE current_state \in {"ISR_TRIGGERED", "WAIT_SAVE_ACK"}
  <2>1. /\ latched_irq \in irq
        /\ AtMain \/ cpu_state \in {"IRQ_SV", "IRQ_JUMP"}
        /\ current_state = "ISR_TRIGGERED" => ~irq_save_ack
    BY <1>6 DEF Meeting, InMain, Accepting, irq_save_ack, AtMain, Calm
  <2>2. latched_irq' = latched_irq /\ current_state' # "IDLE"
    BY <1>1, <1>2, <1>6, <2>1, HandlerMoves
  <2> QED BY <1>3, <1>4, <2>1, <2>2 DEF Accepting
<1>7. CASE current_state \notin {"IDLE", "ISR_TRIGGERED", "WAIT_SAVE_ACK"}
  <2>1. /\ current_state' \notin {"ISR_TRIGGERED", "WAIT_SAVE_ACK"}
        /\ current_state' = "IDLE" => highest_priority_irq_reg' = NoIrq
    BY <1>1, <1>2, <1>7, HandlerMoves DEF HandlerStates
  <2> QED BY <2>1 DEF Accepting
<1> QED BY <1>5, <1>6, <1>7

(* Where the core is after a step, for each state of the handler. *)
LEMMA MeetingStep ==
  ASSUME MachineInv, ~irq_recursion_en, Meeting, Withdraw \/ Accepting, Next
  PROVE  Stuck' \/ Lost' \/ Meeting'
<1>1. /\ CpuTypeOK /\ HandlerInv /\ Sequencing /\ Handshakes /\ CpuRegisters
      /\ HandlerStep(irq, isr_ret, irq_save_ack, irq_restore_ack)
      /\ irq \in SUBSET Irqs
  BY Parts
<1>2. current_state # "CHECK_NESTED" /\ current_state \in HandlerStates
  BY <1>1 DEF Meeting, HandlerInv, RegistersTyped
<1>3. /\ isr_ret \in BOOLEAN /\ irq_save_ack \in BOOLEAN
      /\ irq_save \in BOOLEAN /\ irq_restore \in BOOLEAN /\ ivt_entry \in Pcs
      /\ irq_restore_ack \in BOOLEAN
  BY Parts
<1> DEFINE Clocked == CpuClocked(irq_save, irq_restore, ivt_entry)
<1>4. Clocked \/ (CpuGated /\ current_state = "IDLE")
  BY Parts
<1>5. InMain /\ Clocked => InMain' \/ (irq_save /\ cpu_state' = "IRQ_SV")
  BY <1>1, <1>3, MainStep DEF InMain
<1>6. InMain /\ CpuGated => InMain'
  BY DEF InMain, AtMain, Calm, ArchPoint, CpuGated
<1>7. InMain /\ Clocked => stack' = <<>> /\ ArchPoint'.unit = Main
  BY <1>1, <1>3, MainStep DEF InMain
<1>8. irq_save <=> current_state \in {"ISR_TRIGGERED", "WAIT_SAVE_ACK"} /\ ~context_saved
  BY DEF irq_save
<1>9. cpu_state' = "IRQ_SV" => ArchPoint' = pc_next_reg'
  BY DEF ArchPoint
<1>10. current_state \in {"ISR_TRIGGERED", "WAIT_SAVE_ACK"} => ~context_saved
  BY <1>1 DEF Handshakes
<1> HIDE DEF Clocked
<1>11. CASE current_state = "IDLE"
  <2>1. InMain'
    BY <1>4, <1>5, <1>6, <1>8, <1>11 DEF Meeting
  <2>2. current_state' \in {"IDLE", "ISR_TRIGGERED"}
    BY <1>1, <1>2, <1>3, <1>11, HandlerMoves
  <2> QED BY <2>1, <2>2 DEF Meeting
<1>12. CASE current_state = "ISR_TRIGGERED"
  <2>1. InMain /\ ~irq_save_ack /\ Clocked
    BY <1>4, <1>12 DEF Meeting, irq_save_ack, InMain, AtMain, Calm
  <2>2. current_state' = "WAIT_SAVE_ACK"
    BY <1>1, <1>2, <1>3, <1>10, <1>12, <2>1, HandlerMoves
  <2>3. \/ InMain'
        \/ cpu_state' = "IRQ_SV" /\ stack' = <<>> /\ pc_next_reg'.unit = Main
    BY <1>5, <1>7, <1>9, <2>1
  <2> QED BY <2>2, <2>3 DEF Meeting
<1>13. CASE current_state = "WAIT_SAVE_ACK"
  <2>1. Clocked /\ ~context_saved
    BY <1>4, <1>10, <1>13
  <2>2. /\ latched_irq' = latched_irq
        /\ irq_save_ack => current_state' = "JUMP_TO_IVT"
        /\ ~irq_save_ack => current_state' = "WAIT_SAVE_ACK"
    BY <1>1, <1>2, <1>3, <1>13, HandlerMoves
  <2>3. CASE InMain
    <3>1. ~irq_save_ack
      BY <2>3 DEF irq_save_ack, InMain, AtMain, Calm
    <3>2. \/ InMain'
          \/ cpu_state' = "IRQ_SV" /\ stack' = <<>> /\ pc_next_reg'.unit = Main
      BY <1>5, <1>7, <1>9, <2>1, <2>3
    <3> QED BY <2>2, <3>1, <3>2 DEF Meeting
  <2>4. CASE cpu_state = "IRQ_SV" /\ stack = <<>> /\ pc_next_reg.unit = Main
    <3>1. /\ cpu_state' = "IRQ_JUMP" /\ pc_next_reg' = pc_next_reg
          /\ stack' = Append(stack, pc_next_reg)
      BY <2>1, <2>4, EntrySteps DEF Clocked
    <3>2. Len(stack') = 1 /\ stack'[1] = pc_next_reg
      BY <2>4, <3>1
    <3>3. ~irq_save_ack
      BY <2>4 DEF irq_save_ack
    <3> QED BY <2>2, <2>4, <3>1, <3>2, <3>3 DEF Meeting, Framed
  <2>5. CASE cpu_state = "IRQ_JUMP" /\ Framed
    <3>1. cpu_state' = "EXECUTE" /\ pc' = ivt_entry /\ stack' = stack
      BY <2>1, <2>5, EntrySteps DEF Clocked
    <3>2. current_state' = "JUMP_TO_IVT" /\ Framed'
      BY <2>2, <2>5, <3>1 DEF irq_save_ack, Framed
    <3>3. CASE latched_irq = NoIrq
      <4>1. Withdraw
        <5>1. NoIrq \notin Irqs
          BY <1>1, Addresses DEF CpuRegisters, Main
        <5> QED BY <1>1, <1>13, <3>3, <5>1 DEF Accepting
      <4>2. ivt_entry = ResetPc /\ ResetPc.unit = Main
        BY <3>3 DEF ivt_entry, ResetPc
      <4>3. AtMain'
        BY <3>1, <4>2 DEF AtMain, Calm, ArchPoint
      <4> QED BY <2>2, <3>2, <3>3, <4>1, <4>3 DEF Lost
    <3>4. CASE latched_irq # NoIrq
      <4>1. latched_irq \in Irqs /\ ivt_entry = VectorSlot(latched_irq)
        BY <1>1, <3>4 DEF HandlerInv, RegistersTyped, ivt_entry
      <4> QED BY <2>2, <3>1, <3>2, <4>1 DEF Meeting
    <3> QED BY <3>3, <3>4
  <2> QED BY <1>13, <2>3, <2>4, <2>5 DEF Meeting
<1>14. CASE current_state = "JUMP_TO_IVT" \/ current_state = "WAIT_EOI"
  <2>1. Framed /\ InRoutine
    <3>1. CASE current_state = "JUMP_TO_IVT"
      <4>1. /\ Framed /\ cpu_state = "EXECUTE" /\ pc = VectorSlot(latched_irq)
            /\ latched_irq \in Irqs
        BY <3>1 DEF Meeting
      <4>2. read_data = "op" /\ pc.unit = latched_irq
        BY <1>1, <4>1, Slots DEF Sequencing
      <4>3. ~isr_ret
        BY <4>1, <4>2 DEF isr_ret, instr_curr
      <4> QED BY <4>1, <4>2, <4>3 DEF InRoutine, Calm
    <3>2. CASE current_state = "WAIT_EOI"
      BY <3>2 DEF Meeting
    <3> QED BY <1>14, <3>1, <3>2
  <2>2. CpuClocked(FALSE, irq_restore, ivt_entry)
    <3>1. irq_save = FALSE
      BY <1>3, <1>8, <1>14
    <3> QED BY <1>4, <1>14, <3>1 DEF Clocked
  <2>3. \/ current_state' = "WAIT_EOI" /\ (current_state = "JUMP_TO_IVT" \/ ~isr_ret)
        \/ current_state' = "IRQ_REST" /\ isr_ret
    BY <1>1, <1>2, <1>3, <1>14, HandlerMoves
  <2>4. current_state = "JUMP_TO_IVT" => ~isr_ret
    <3>1. SUFFICES ASSUME current_state = "JUMP_TO_IVT", latched_irq \in Irqs,
                          cpu_state = "EXECUTE", pc = VectorSlot(latched_irq)
                   PROVE  ~isr_ret
      BY DEF Meeting
    <3>2. read_data = "op"
      BY <1>1, <3>1, Slots DEF Sequencing
    <3> QED BY <3>1, <3>2 DEF isr_ret, instr_curr
  <2>5. /\ stack' = stack /\ pc'.unit = pc.unit
        /\ ~isr_ret => \/ InRoutine'
                       \/ "trap" \in IsrClasses /\ cpu_state' = "TRAP_STATE"
        /\ isr_ret => \/ cpu_state' = "IRQ_REST"
                      \/ cpu_state' = "EXECUTE" /\ read_data' = "iret"
    BY <1>1, <1>3, <2>1, <2>2, RoutineStep
  <2>6. Framed' /\ pc'.unit \in Irqs
    BY <2>1, <2>5 DEF Framed, InRoutine
  <2>7. CASE isr_ret
    BY <2>3, <2>4, <2>5, <2>6, <2>7 DEF Meeting
  <2>8. CASE ~isr_ret /\ InRoutine'
    BY <2>3, <2>6, <2>8 DEF Meeting
  <2>9. CASE ~isr_ret /\ "trap" \in IsrClasses /\ cpu_state' = "TRAP_STATE"
    BY <2>3, <2>6, <2>9 DEF Stuck
  <2> QED BY <2>5, <2>7, <2>8, <2>9
<1>15. CASE current_state = "IRQ_REST"
  <2>1. Framed /\ pc.unit \in Irqs
    BY <1>15 DEF Meeting
  <2>2. CpuClocked(FALSE, irq_restore, ivt_entry)
    <3>1. irq_save = FALSE
      BY <1>3, <1>8, <1>15
    <3> QED BY <1>4, <1>15, <3>1 DEF Clocked
  <2>3. current_state' = "WAIT_RESTORE_ACK"
    BY <1>1, <1>2, <1>3, <1>15, HandlerMoves
  <2>4. CASE cpu_state = "IRQ_REST"
    <3>1. InMain'
      BY <1>1, <2>1, <2>2, <2>4, ReturnStep DEF CpuRegisters
    <3> QED BY <2>3, <3>1 DEF Meeting
  <2>5. CASE cpu_state = "EXECUTE" /\ read_data = "iret"
    <3>1. instr_curr = "iret" /\ isr_ret
      BY <2>5 DEF instr_curr, isr_ret
    <3>2. InRoutine
      BY <2>1, <2>5 DEF InRoutine, Calm
    <3>3. stack' = stack /\ pc'.unit = pc.unit
      BY <1>1, <1>3, <2>2, <3>2, RoutineStep
    <3>4. cpu_state' = "IRQ_REST"
      BY <2>2, <2>5, <3>1 DEF CpuClocked, SplitFetch, Execute, FenceWait, Complete, DivWait,
        AmoPhase, AtomicAccess, IrqSv, IrqJump, CpuIrqRest, Sleeping, TrapState, Tick, FirstState
    <3> QED BY <2>1, <2>3, <3>3, <3>4 DEF Meeting, Framed
  <2> QED BY <1>15, <2>4, <2>5 DEF Meeting
<1>16. CASE current_state = "WAIT_RESTORE_ACK"
  <2>1. irq_restore_ack /\ Clocked /\ ~irq_save
    BY <1>1, <1>4, <1>8, <1>16 DEF Handshakes
  <2>2. CpuClocked(FALSE, irq_restore, ivt_entry)
    <3>1. irq_save = FALSE
      BY <1>3, <2>1
    <3> QED BY <2>1, <3>1 DEF Clocked
  <2>3. current_state' = "DECIDE_NEXT"
    BY <1>1, <1>2, <1>3, <1>16, <2>1, HandlerMoves
  <2>4. CASE InMain
    <3>1. InMain'
      BY <1>5, <2>1, <2>4
    <3> QED BY <2>3, <3>1 DEF Meeting
  <2>5. CASE Framed /\ cpu_state = "IRQ_REST"
    <3>1. InMain'
      BY <1>1, <2>2, <2>5, ReturnStep DEF CpuRegisters
    <3> QED BY <2>3, <3>1 DEF Meeting
  <2> QED BY <1>16, <2>4, <2>5 DEF Meeting
<1>17. CASE current_state = "DECIDE_NEXT"
  <2>1. InMain'
    BY <1>4, <1>5, <1>8, <1>17 DEF Meeting
  <2>2. current_state' = "IDLE"
    BY <1>1, <1>2, <1>3, <1>17, HandlerMoves
  <2> QED BY <2>1, <2>2 DEF Meeting
<1> QED
  BY <1>2, <1>11, <1>12, <1>13, <1>14, <1>15, <1>16, <1>17 DEF HandlerStates

LEMMA SingleInvStep ==
  ASSUME MachineInv, ~irq_recursion_en, SingleInv, Next
  PROVE  SingleInv'
<1>1. CASE Stuck
  BY <1>1, StuckStep DEF SingleInv
<1>2. CASE Lost
  BY <1>2, LostStep DEF SingleInv, Lost
<1>3. CASE Meeting /\ ~Stuck
  <2>1. Withdraw \/ Accepting
    BY <1>3 DEF SingleInv
  <2>2. Stuck' \/ Lost' \/ Meeting'
    BY <1>3, <2>1, MeetingStep
  <2>3. Withdraw \/ Accepting'
    BY <1>3, <2>1, AcceptingStep
  <2> QED BY <2>2, <2>3 DEF SingleInv
<1> QED BY <1>1, <1>2, <1>3 DEF SingleInv

LEMMA SingleInvHolds ==
  ASSUME ~irq_recursion_en
  PROVE  Spec => [](MachineInv /\ SingleInv)
<1>1. Init => SingleInv
  <2> SUFFICES ASSUME Init PROVE SingleInv
    OBVIOUS
  <2>1. /\ current_state = "IDLE" /\ highest_priority_irq_reg = NoIrq
        /\ cpu_state = "EXECUTE" /\ pc = ResetPc /\ stack = <<>>
    BY DEF Init, CpuInit, HandlerInit
  <2>2. InMain
    BY <2>1 DEF InMain, AtMain, Calm, ArchPoint, ResetPc
  <2>3. Meeting /\ Accepting
    BY <2>1, <2>2 DEF Meeting, Accepting
  <2> QED BY <2>3 DEF SingleInv
<1>2. MachineInv /\ SingleInv /\ [Next]_vars => SingleInv'
  <2> SUFFICES ASSUME MachineInv, SingleInv, [Next]_vars PROVE SingleInv'
    OBVIOUS
  <2>1. CASE Next
    BY <2>1, SingleInvStep
  <2>2. CASE UNCHANGED vars
    <3>1. UNCHANGED <<instr_curr, isr_ret, ArchPoint>>
      BY <2>2 DEF vars, instr_curr, isr_ret, ArchPoint
    <3>2. UNCHANGED <<Stuck, Lost, Accepting>>
      BY <2>2, <3>1 DEF vars, Stuck, Lost, Accepting, Framed, AtMain, Calm
    <3>3. Meeting => Meeting'
      BY <2>2, <3>1 DEF vars, Meeting, Framed, InMain, AtMain, InRoutine, Calm
    <3> QED BY <3>2, <3>3 DEF SingleInv
  <2> QED BY <2>1, <2>2
<1> QED BY <1>1, <1>2, MachineInvHolds, PTL DEF Spec

(* What is left of the invariant when no request is taken back. *)
LEMMA Settled ==
  ASSUME MachineInv, SingleInv, ~Withdraw
  PROVE  Stuck \/ (Meeting /\ Accepting)
BY DEF SingleInv, Lost

----------------------------------------------------------------------------
(* The handler and the stack in memory agree about what is running, as long as   *)
(* no instruction of a routine traps; a request that is taken back does not       *)
(* disturb the agreement.                                                          *)
THEOREM HandlerAndStackAgree ==
  ASSUME ~irq_recursion_en, "trap" \notin IsrClasses
  PROVE  Spec => []FrameAgreement
<1>1. MachineInv /\ SingleInv => FrameAgreement
  <2> SUFFICES ASSUME MachineInv, SingleInv PROVE FrameAgreement
    OBVIOUS
  <2>1. (Meeting \/ Lost) /\ current_state \in HandlerStates
    BY DEF MachineInv, HandlerInv, RegistersTyped, SingleInv, Stuck
  <2>2. /\ current_state \in {"JUMP_TO_IVT", "WAIT_EOI"} => Len(stack) = 1
        /\ current_state \in {"IDLE", "ISR_TRIGGERED"} => stack = <<>>
        /\ stack = <<>> \/ Len(stack) = 1
    BY <2>1 DEF Meeting, Lost, InMain, Framed, HandlerStates
  <2>3. stack = <<>> => Len(stack) = 0
    OBVIOUS
  <2>4. Len(stack) = 0 \/ Len(stack) = 1
    BY <2>2, <2>3
  <2>5. \A n : n = 0 \/ n = 1 => n <= 1
    OBVIOUS
  <2> QED BY ONLY <2>2, <2>4, <2>5 DEF FrameAgreement
<1> QED BY <1>1, SingleInvHolds, PTL

(* The core jumps to the vector of a line, never to the reset address, whether    *)
(* routines trap or not.                                                           *)
THEOREM RoutinesAreEnteredByVector ==
  ASSUME ~irq_recursion_en, ~Withdraw
  PROVE  Spec => []VectorTaken
<1>1. MachineInv /\ SingleInv => VectorTaken
  <2> SUFFICES ASSUME MachineInv, SingleInv, ivt_jump PROVE ivt_entry.unit \in Irqs
    BY DEF VectorTaken
  <2>1. latched_irq \in Irqs /\ Main \notin Irqs
    BY Settled, Addresses DEF MachineInv, CpuTypeOK, Meeting, Stuck, ivt_jump
  <2> QED BY <2>1, Slots DEF ivt_entry, Main
<1> QED BY <1>1, SingleInvHolds, PTL

(* A program that executed its sleep instruction executes nothing more until a    *)
(* wake instruction is executed, unless one is misread in IRQ_SV or IRQ_JUMP.      *)
THEOREM SleepLastsUntilWoken ==
  ASSUME ~irq_recursion_en, ~Withdraw
  PROVE  SleepSpec => []AsleepUntilWoken
BY RoutinesAreEnteredByVector, SleepNeedsOnlyTheVector, SleepIsWatched, PTL

(* When the main program executes, no return address is left on the stack.       *)
THEOREM StackIsRestored ==
  ASSUME ~irq_recursion_en, ~Withdraw
  PROVE  Spec => []StackRestored
<1>1. MachineInv /\ SingleInv => StackRestored
  <2> SUFFICES ASSUME MachineInv, SingleInv, cpu_state = "EXECUTE", pc.unit = Main
               PROVE  stack = <<>>
    BY DEF StackRestored
  <2>1. Meeting /\ current_state \in HandlerStates /\ Main \notin Irqs
    BY Settled, Addresses DEF MachineInv, HandlerInv, RegistersTyped, CpuTypeOK, Stuck
  <2>2. \A i \in Irqs : VectorSlot(i).unit = i
    BY Slots
  <2> QED BY <2>1, <2>2 DEF Meeting, InMain, InRoutine, HandlerStates
<1> QED BY <1>1, SingleInvHolds, PTL

----------------------------------------------------------------------------
(* The refinement. *)

LEMMA SameProgram ==
  /\ \A p : Service!Successor(p) = Successor(p) /\ Service!AtReturn(p) = AtReturn(p)
  /\ \A i : Service!VectorSlot(i) = VectorSlot(i)
  /\ Service!ResetPc = ResetPc /\ Service!Irqs = Irqs /\ Service!Main = Main
BY DEF Service!Successor, Service!AtReturn, Service!VectorSlot, Service!ResetPc, Service!Irqs,
       Service!Main, Service!NoIrq, Successor, AtReturn, VectorSlot, ResetPc, Irqs, Main, NoIrq

LEMMA ServiceStep ==
  ASSUME MachineInv, SingleInv, ~irq_recursion_en, ~Withdraw, Next
  PROVE  Service!ServiceNext
<1>1. /\ CpuTypeOK /\ HandlerInv /\ Sequencing /\ CpuRegisters
      /\ irq \in SUBSET Irqs /\ current_state \in HandlerStates
  BY Parts
<1>2. Peripherals
  BY DEF Next
<1>3. irq_save \in BOOLEAN /\ irq_restore \in BOOLEAN /\ ivt_entry \in Pcs
  BY Parts
<1> DEFINE Clocked == CpuClocked(irq_save, irq_restore, ivt_entry)
<1>4. Clocked \/ (CpuGated /\ current_state = "IDLE")
  BY Parts
<1>5. Service!RequestsChange
  <2>1. irq' \in SUBSET Irqs /\ \A i \in irq \ irq' : Running(i)
    BY <1>2 DEF Peripherals
  <2>2. \A i \in irq : Running(i) => i = ArchPoint.unit
    BY DEF Running, ArchPoint
  <2> QED BY <2>1, <2>2, SameProgram DEF Service!RequestsChange
<1>6. SUFFICES \/ Service!Work
               \/ \E i \in Irqs : Service!Enter(i)
               \/ Service!Leave
               \/ UNCHANGED <<ArchPoint, ArchSuspended>>
  BY <1>5, SameProgram DEF Service!ServiceNext
<1>7. /\ cpu_state = "IRQ_JUMP" => ArchSuspended = Front(stack)
      /\ cpu_state # "IRQ_JUMP" => ArchSuspended = stack
      /\ cpu_state' = "IRQ_JUMP" => ArchSuspended' = Front(stack')
      /\ cpu_state' # "IRQ_JUMP" => ArchSuspended' = stack'
  BY DEF ArchSuspended
<1>8. CASE InMain /\ CpuGated
  BY <1>7, <1>8 DEF CpuGated, ArchPoint
<1>9. CASE InMain /\ Clocked
  <2>1. /\ InMain' \/ (irq_save /\ cpu_state' = "IRQ_SV")
        /\ stack' = <<>>
        /\ ArchPoint' = ArchPoint \/ ArchPoint' = Successor(ArchPoint)
    BY <1>1, <1>3, <1>9, MainStep DEF InMain
  <2>2. cpu_state # "IRQ_JUMP" /\ cpu_state' # "IRQ_JUMP" /\ stack = <<>>
    BY <1>9, <2>1 DEF InMain, AtMain, Calm
  <2>3. ArchSuspended' = ArchSuspended
    BY <1>7, <2>1, <2>2
  <2>4. ~AtReturn(ArchPoint)
    BY <1>9 DEF InMain, AtMain, AtReturn
  <2> QED BY <2>1, <2>3, <2>4, SameProgram DEF Service!Work
<1>10. CASE Clocked /\ cpu_state = "IRQ_SV" /\ stack = <<>>
  <2>1. /\ cpu_state' = "IRQ_JUMP" /\ pc_next_reg' = pc_next_reg
        /\ stack' = <<pc_next_reg>>
    BY <1>10, EntrySteps
  <2>2. ArchPoint = pc_next_reg /\ ArchPoint' = pc_next_reg'
    BY <1>10, <2>1 DEF ArchPoint
  <2>3. Front(stack') = <<>>
    BY <2>1 DEF Front
  <2> QED BY <1>7, <1>10, <2>1, <2>2, <2>3
<1>11. CASE Clocked /\ cpu_state = "IRQ_JUMP" /\ Framed /\ pc_next_reg = stack[1]
              /\ current_state = "WAIT_SAVE_ACK" /\ Accepting
  <2>1. cpu_state' = "EXECUTE" /\ pc' = ivt_entry /\ stack' = stack
    BY <1>11, EntrySteps
  <2>2. latched_irq \in irq /\ latched_irq \in Irqs /\ Main \notin Irqs
    BY <1>1, <1>11, Addresses DEF Accepting, CpuRegisters
  <2>3. ivt_entry = VectorSlot(latched_irq)
    BY <2>2 DEF ivt_entry, Main
  <2>4. ArchPoint = pc_next_reg /\ ArchPoint' = VectorSlot(latched_irq)
    BY <1>11, <2>1, <2>3 DEF ArchPoint
  <2>5. Len(stack) = 1 /\ stack \in Seq(Pcs) /\ stack[1].unit = Main
    BY <1>1, <1>11 DEF Framed, CpuTypeOK
  <2>6. Front(stack) = <<>> /\ Append(<<>>, stack[1]) = stack
    BY <2>5 DEF Front
  <2>7. ArchSuspended = <<>> /\ ArchSuspended' = Append(ArchSuspended, ArchPoint)
    BY <1>7, <1>11, <2>1, <2>4, <2>6
  <2>8. ArchPoint.unit # latched_irq
    BY <1>11, <2>2, <2>4, <2>5
  <2>9. Service!Enter(latched_irq)
    BY <2>2, <2>4, <2>7, <2>8, SameProgram DEF Service!Enter
  <2> QED BY <2>2, <2>9
<1>12. CASE Clocked /\ ~irq_save /\ InRoutine
  <2>1. CpuClocked(FALSE, irq_restore, ivt_entry)
    BY <1>3, <1>12
  <2>2. /\ stack' = stack
        /\ ~isr_ret => InRoutine' \/ cpu_state' = "TRAP_STATE"
        /\ isr_ret => \/ cpu_state' = "IRQ_REST"
                      \/ cpu_state' = "EXECUTE" /\ read_data' = "iret"
        /\ \/ ArchPoint' = ArchPoint
           \/ ~AtReturn(ArchPoint) /\ ArchPoint' = Successor(ArchPoint)
    BY <1>1, <1>3, <1>12, <2>1, RoutineStep
  <2>3. cpu_state # "IRQ_JUMP" /\ cpu_state' # "IRQ_JUMP"
    BY <1>12, <2>2 DEF InRoutine, Calm
  <2>4. ArchSuspended' = ArchSuspended
    BY <1>7, <2>2, <2>3
  <2> QED BY <2>2, <2>4, SameProgram DEF Service!Work
<1>13. CASE Clocked /\ ~irq_save /\ Framed /\ cpu_state = "IRQ_REST"
  <2>1. CpuClocked(FALSE, irq_restore, ivt_entry)
    BY <1>3, <1>13
  <2>2. InMain' /\ ArchPoint' = stack[1]
    BY <1>1, <1>13, <2>1, ReturnStep DEF CpuRegisters
  <2>3. Len(stack) = 1 /\ stack \in Seq(Pcs)
    BY <1>1, <1>13 DEF Framed, CpuTypeOK
  <2>4. Last(stack) = stack[1] /\ Front(stack) = <<>> /\ stack # <<>>
    BY <2>3 DEF Last, Front
  <2>5. ArchSuspended = stack /\ ArchSuspended' = <<>>
    BY <1>7, <1>13, <2>2 DEF InMain, AtMain, Calm
  <2>6. AtReturn(ArchPoint)
    <3>1. ArchPoint = [pc EXCEPT !.off = IsrLen] /\ pc.unit \in Irqs /\ pc \in Pcs
      BY <1>1, <1>13 DEF ArchPoint, Sequencing, CpuRegisters
    <3>2. pc.unit # Main
      BY <3>1, Addresses
    <3>3. pc \in [unit : Irqs, off : 0 .. IsrLen + 1]
      BY <3>1, <3>2 DEF Pcs
    <3> QED BY <3>1, <3>2, <3>3 DEF AtReturn
  <2>7. Service!Last(stack) = stack[1] /\ Service!Front(stack) = <<>>
    BY <2>3 DEF Service!Last, Service!Front
  <2>8. Service!Leave
    BY <2>2, <2>4, <2>5, <2>6, <2>7, SameProgram DEF Service!Leave
  <2> QED BY <2>8
<1>14. irq_save <=> current_state \in {"ISR_TRIGGERED", "WAIT_SAVE_ACK"} /\ ~context_saved
  BY DEF irq_save
<1>15. CASE Stuck
  <2>1. UNCHANGED <<cpu_state, stack, ArchPoint>> /\ cpu_state # "IRQ_JUMP"
    BY <1>15, StuckStep DEF Stuck
  <2> QED BY <1>7, <2>1
<1>16. CASE Meeting /\ Accepting
  <2>1. CASE current_state \in {"IDLE", "ISR_TRIGGERED", "DECIDE_NEXT"}
    BY <1>4, <1>8, <1>9, <1>16, <2>1 DEF Meeting
  <2>2. CASE current_state = "WAIT_SAVE_ACK"
    BY <1>4, <1>9, <1>10, <1>11, <1>16, <2>2 DEF Meeting
  <2>3. CASE current_state = "JUMP_TO_IVT"
    <3>1. cpu_state = "EXECUTE" /\ pc = VectorSlot(latched_irq) /\ latched_irq \in Irqs
      BY <1>16, <2>3 DEF Meeting
    <3>2. read_data = "op" /\ pc.unit = latched_irq
      BY <1>1, <3>1, Slots DEF Sequencing
    <3>3. InRoutine
      BY <3>1, <3>2 DEF InRoutine, Calm, isr_ret, instr_curr
    <3> QED BY <1>4, <1>12, <1>14, <2>3, <3>3
  <2>4. CASE current_state = "WAIT_EOI"
    <3>1. InRoutine
      BY <1>16, <2>4 DEF Meeting
    <3> QED BY <1>4, <1>12, <1>14, <2>4, <3>1
  <2>5. CASE current_state = "IRQ_REST"
    <3>1. CASE cpu_state = "IRQ_REST"
      BY <1>4, <1>13, <1>14, <1>16, <2>5, <3>1 DEF Meeting
    <3>2. CASE cpu_state = "EXECUTE" /\ read_data = "iret"
      <4>1. InRoutine
        BY <1>16, <2>5, <3>2 DEF Meeting, InRoutine, Calm
      <4> QED BY <1>4, <1>12, <1>14, <2>5, <4>1
    <3> QED BY <1>16, <2>5, <3>1, <3>2 DEF Meeting
  <2>6. CASE current_state = "WAIT_RESTORE_ACK"
    BY <1>4, <1>9, <1>13, <1>14, <1>16, <2>6 DEF Meeting
  <2> QED
    BY <1>1, <1>16, <2>1, <2>2, <2>3, <2>4, <2>5, <2>6 DEF HandlerStates, Meeting
<1> QED BY <1>15, <1>16, Settled

(* Interrupt handling is precise: whatever the peripherals do and whatever the   *)
(* program consists of, the two machines together implement the idealised one    *)
(* that enters a routine between two instructions and goes back to exactly the   *)
(* point where it stopped.                                                        *)
THEOREM ServiceIsPrecise ==
  ASSUME ~irq_recursion_en, ~Withdraw
  PROVE  Spec => PreciseService
<1>1. Init => Service!ServiceInit
  <2> SUFFICES ASSUME Init PROVE Service!ServiceInit
    OBVIOUS
  <2>1. ArchPoint = ResetPc /\ ArchSuspended = <<>> /\ irq = {}
    BY DEF Init, CpuInit, ArchPoint, ArchSuspended
  <2> QED BY <2>1, SameProgram DEF Service!ServiceInit
<1>2. MachineInv /\ SingleInv /\ [Next]_vars => [Service!ServiceNext]_<<irq, ArchPoint, ArchSuspended>>
  <2> SUFFICES ASSUME MachineInv, SingleInv, [Next]_vars
               PROVE  Service!ServiceNext \/ UNCHANGED <<irq, ArchPoint, ArchSuspended>>
    OBVIOUS
  <2>1. CASE Next
    BY <2>1, ServiceStep
  <2>2. CASE UNCHANGED vars
    BY <2>2 DEF vars, ArchPoint, ArchSuspended
  <2> QED BY <2>1, <2>2
<1> QED
  BY <1>1, <1>2, SingleInvHolds, PTL
  DEF Spec, PreciseService, Service!ServiceSpec, Service!serviceVars

=============================================================================
