\* The core and its handler without recursion: all classes of instruction.
SPECIFICATION FairSpec
CONSTANTS
  NUM_IRQS = 2
  irq_recursion_en = FALSE
  MainLen = 2
  IsrLen = 2
  Withdraw = FALSE
  MainClasses = {"op", "mem", "div", "sleep", "wake", "fence", "amo", "lr", "sc", "trap"}
  IsrClasses = {"op", "mem", "div", "sleep", "wake", "fence", "amo", "lr", "sc"}
INVARIANTS
  CpuTypeOK
  SingleService
  FrameAgreement
  AsleepUntilWoken
  VectorTaken
  StackRestored
PROPERTIES
  PreciseService
  TopLineServed
  RoutinesEnd
