SPECIFICATION Spec
CONSTANTS
  BuyQty = 1
  SellQty = 1
  InitialStop = 1
  ArmAt = 1
  RaiseTo <- MCRaiseTo
  PlanRow = "plan"
  MaxGtts = 6
  MaxFaults = 0
INVARIANTS StopsMatchBook
CHECK_DEADLOCK FALSE
