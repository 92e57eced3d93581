-------------------------- MODULE InterruptService --------------------------
(***************************************************************************)
(* What interrupt handling promises to the software: an idealised machine  *)
(* that executes one instruction at a time, enters the service routine of  *)
(* a requested line between two instructions by remembering the point      *)
(* where it stopped, and at the end of the routine goes back to exactly    *)
(* that point ("stack-based mechanism", README.md; "program counter        *)
(* preservation" and "SP should be restored", riscv-tests/isa/periph/      *)
(* IRQ.S).  Recursive says whether a routine may itself be interrupted.    *)
(***************************************************************************)
EXTENDS Program, Sequences, SequencesExt

CONSTANT Recursive

VARIABLES
  requests,      \* lines that request service
  point,         \* address of the next instruction
  suspended      \* points of the interrupted activities, the latest one last

serviceVars == <<requests, point, suspended>>

ServiceInit ==
  /\ requests = {}
  /\ point = ResetPc
  /\ suspended = <<>>

(* A line can be raised at any time; only its routine takes it back. *)
RequestsChange ==
  /\ requests' \in SUBSET Irqs
  /\ requests \ requests' \subseteq {point.unit}

Work == ~AtReturn(point) /\ point' = Successor(point) /\ UNCHANGED suspended

Enter(i) ==
  /\ i \in requests
  /\ Recursive \/ suspended = <<>>
  /\ \A k \in DOMAIN suspended : suspended[k].unit # i
  /\ point.unit # i
  /\ suspended' = Append(suspended, point)
  /\ point' = VectorSlot(i)

Leave ==
  /\ AtReturn(point)
  /\ suspended # <<>>
  /\ point' = Last(suspended)
  /\ suspended' = Front(suspended)

ServiceNext ==
  /\ RequestsChange
  /\ \/ Work
     \/ \E i \in Irqs : Enter(i)
     \/ Leave
     \/ UNCHANGED <<point, suspended>>

ServiceSpec == ServiceInit /\ [][ServiceNext]_serviceVars

=============================================================================
