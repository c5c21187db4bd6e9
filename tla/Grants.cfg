SPECIFICATION Spec
CONSTANTS
  Accounts = {"manufacturer", "distributor", "retailer", "eavesdropper"}
  Subjects = {"lot", "dist"}
  Wanted <- Chain
  NoGrant = NoGrant
INVARIANTS
  GrantTakesEffect
  OnlyGrantsFlow
PROPERTIES
  GrantsStayInEffect
CHECK_DEADLOCK FALSE
