\* A sleeve's gateway, built on demand, perhaps twice.
CONSTANTS
  r1 = r1
  r2 = r2
  r3 = r3
  c1 = c1
  c2 = c2
  Desk = Desk
  NoInst = NoInst
  Calls = {r1, r2}
  Cids = {c1}
  Symbols = {"X"}
  Values = {1}
  MaxOrders = 2
  PosCap = 1
  Prebuilt = FALSE
  MaxLives = 1
SPECIFICATION FairSpec
CHECK_DEADLOCK FALSE
INVARIANT WireWithinCap
PROPERTY EveryCallIsAnswered
