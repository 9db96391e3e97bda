SPECIFICATION Spec
CONSTANTS
  Names = {"a"}
  Texts <- MCTexts
  MAXOBJ = 4
  MAXDEPTH = 2
CHECK_DEADLOCK FALSE
INVARIANTS EntriesFound CwdIsHome
