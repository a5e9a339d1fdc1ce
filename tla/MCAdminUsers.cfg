SPECIFICATION Spec
CONSTANTS
  NONE = NONE
  Reader = 1
  MaxUsers = 4
  PerPage = 2
  Matching <- MCMatching
  MaxPage = 3
INVARIANTS ReadingOnMissesNobody
PROPERTIES AdministratorsAreLedToOpenDoors PageLinksLeadToRows RowsWereTrue
CHECK_DEADLOCK FALSE
