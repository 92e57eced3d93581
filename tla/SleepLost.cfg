\* One line, a main program that sleeps and wakes.
SPECIFICATION SleepSpec
CONSTANTS
  NUM_IRQS = 1
  irq_recursion_en = FALSE
  MainLen = 2
  IsrLen = 2
  Withdraw = FALSE
  MainClasses = {"op", "sleep", "wake"}
  IsrClasses = {"op"}
INVARIANT ReturnsToSleep
