\* The process dies after the exchange accepted and before the journal says so.
CONSTANTS
  r1 = r1
  r2 = r2
  r3 = r3
  c1 = c1
  c2 = c2
  Desk = Desk
  NoInst = NoInst
  Calls = {r1, r2}
  Cids = {c1}
  Symbols = {"X"}
  Values = {1}
  MaxOrders = 2
  PosCap = 1
  Prebuilt = TRUE
  MaxLives = 2
SPECIFICATION Spec
SYMMETRY CallSymmetry
\* the process may stay down
CHECK_DEADLOCK FALSE
INVARIANT RestartNeverResends
