SPECIFICATION FairSpec
CONSTANTS
  BuyQty = 3
  SellQty = 2
  InitialStop = 1
  ArmAt = 1
  RaiseTo <- MCRaiseTo
  PlanRow = "today"
  MaxGtts = 6
  MaxFaults = 1
INVARIANTS TypeOK  StopsMatchBook 
PROPERTIES StopNeverFalls EveryFillBooked
CHECK_DEADLOCK FALSE
