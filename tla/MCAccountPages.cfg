SPECIFICATION Spec
CONSTANTS
  NONE = NONE
  Addresses = {"a", "b"}
  MaxBegun = 2
  MaxDisturbances = 3
INVARIANTS HandOversEnd
PROPERTIES OffersAreKept
CHECK_DEADLOCK FALSE
