CONSTANTS
  Property <- MCProperty
  Type <- MCType
  Default <- MCDefault
  Mapping <- MCMapping
  Texts <- MCTexts
  NumberOf <- MCNumberOf
  NoString = NoString
  Absent = Absent
  MaxEdits = 3
  MayTear = TRUE
SPECIFICATION Spec
INVARIANTS
  FileDecides
  RunsOnlyAccepted
CHECK_DEADLOCK FALSE
