---------------------------- MODULE IrqPriority ----------------------------
(***************************************************************************)
(* The combinational part of irq_handler.vhd: the order on interrupt       *)
(* request lines and the priority encoder that picks one of them.  A line  *)
(* is its index, a vector of lines is a set of indices, and a priority     *)
(* vector is a Boolean function (TRUE is '1', high priority).              *)
(***************************************************************************)
EXTENDS Integers

CONSTANT NUM_IRQS      \* number of request lines (generic of the entity)

ASSUME NumIrqsAssumption == NUM_IRQS \in Nat \ {0}

Irqs == 0 .. NUM_IRQS - 1

\* The integer NUM_IRQS encodes "no interrupt" (MAX_IRQ_VALUE in the source).
NoIrq == NUM_IRQS

(* Line a is served before line b: the priority bit first, then the lower index. *)
has_higher_priority(a, b, pri) ==
  /\ a < NUM_IRQS /\ b < NUM_IRQS
  /\ IF pri[a] = pri[b] THEN a < b ELSE pri[a] /\ ~pri[b]

(* The first hit of a "for i in 0 to NUM_IRQS-1" scan of a non-empty vector. *)
FirstOf(lines) == CHOOSE i \in lines : \A j \in lines : i <= j

\* Variant of the encoder that never looks at the priority bits.
EncodeByIndex(pending, pri) == IF pending # {} THEN FirstOf(pending) ELSE NoIrq

(* First pass of the encoder: high priority lines, then all pending lines. *)
Encode(pending, pri) ==
  LET pending_irqs_high_pri == {i \in pending : pri[i]}
  IN  IF pending_irqs_high_pri # {} THEN FirstOf(pending_irqs_high_pri)
      ELSE IF pending # {} THEN FirstOf(pending)
      ELSE NoIrq

=============================================================================
