SPECIFICATION Spec
CONSTANTS
  Texts <- MCTexts
  NumberOf <- MCNumberOf
  MATH_STACK_SIZE = 12
  ADDR_STACK_SIZE = 12
  USER_PROG_SIZE = 64
  USER_OPCODE_MAPPING_SIZE = 8
INVARIANTS ForthTypeOK StraysOnlyWhenAsked MeansWhatItSays PromptIsClean HolesAreTold
PROPERTY ComesBack
CHECK_DEADLOCK FALSE
