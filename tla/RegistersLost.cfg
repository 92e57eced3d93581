\* One interrupt of a main program of plain instructions.
SPECIFICATION HistorySpec
CONSTANTS
  NUM_IRQS = 1
  irq_recursion_en = FALSE
  MainLen = 2
  IsrLen = 2
  Withdraw = FALSE
  MainClasses = {"op"}
  IsrClasses = {"op"}
  Width = 3
INVARIANT RegistersPreserved
