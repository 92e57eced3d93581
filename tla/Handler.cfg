\* Recursive mode, three lines, every priority vector, every input.
SPECIFICATION HandlerSpec
CONSTANTS
  NUM_IRQS = 3
  irq_recursion_en = TRUE
INVARIANTS
  HandlerTypeOK
  EncoderPicksTop
PROPERTIES
  PreemptsLowerOnly
  NoReentry
