------------------------------ MODULE Program ------------------------------
(***************************************************************************)
(* External to the core: the program it executes, as far as interrupt      *)
(* handling can tell one address from another.  The main program is a loop *)
(* of MainLen instructions.  Line i has one vector table slot (offset 0, a *)
(* jump, see DEFINE_IVT in riscv-tests/env/p/riscv_test.h) and a service   *)
(* routine at offsets 1 .. IsrLen whose last instruction is the custom     *)
(* return instruction.  Offset IsrLen + 1 is whatever code follows it.     *)
(***************************************************************************)
EXTENDS IrqPriority

CONSTANTS MainLen, IsrLen

ASSUME ProgramAssumption == MainLen \in Nat \ {0} /\ IsrLen \in Nat \ {0}

Main == NoIrq

Pcs == [unit : {Main}, off : 0 .. MainLen - 1] \union [unit : Irqs, off : 0 .. IsrLen + 1]

\* PC_RST_VAL, address 0: the first instruction of the boot program.
ResetPc == [unit |-> Main, off |-> 0]

VectorSlot(i) == [unit |-> i, off |-> 0]

(* The address of the instruction executed after the one at p when nothing  *)
(* interrupts it (pc_plus_2, pc_plus_4 or pc_target).                        *)
Successor(p) ==
  IF p.unit = Main THEN [p EXCEPT !.off = IF p.off + 1 = MainLen THEN 0 ELSE p.off + 1]
  ELSE [p EXCEPT !.off = IF p.off > IsrLen THEN p.off ELSE p.off + 1]

AtReturn(p) == p.unit # Main /\ p.off = IsrLen

=============================================================================
