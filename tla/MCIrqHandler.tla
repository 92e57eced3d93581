---------------------------- MODULE MCIrqHandler ----------------------------
(* The interrupt handler alone, with arbitrary inputs in every cycle.        *)
EXTENDS IrqHandler
=============================================================================
