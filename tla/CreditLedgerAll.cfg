SPECIFICATION Spec
CONSTANTS
  Requests = {r1, r2}
  Kinds = {"consume", "add", "set", "buy", "lifetime", "status", "vip"}
  Initial = 2
  Amounts = {1, 2}
  Bonus = 1
  Monthly = 1
  Period = 1
  CatchUp = 1
  Forever = 2
  Faultless = FALSE
  MaxTime = 2
  MaxOps = 4
INVARIANTS LedgerInv GrantsBounded LoggedUnlessTorn
PROPERTIES PurchaseExtends
CHECK_DEADLOCK FALSE
