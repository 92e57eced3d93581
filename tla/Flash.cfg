\* Two pages of two bytes, three words, one reset anywhere.
SPECIFICATION Spec
CONSTANTS
  Pages = {0, 1}
  PAGE_BYTES = 2
  Data = {1, 2}
  MaxCommands = 3
  MaxResets = 1
INVARIANTS FlashTypeOK NeverDisturbed ReadsBack
PROPERTIES ChangesAreConfirmed WordsEnd
CHECK_DEADLOCK FALSE
