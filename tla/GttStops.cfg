\* Two lives of the process and two racing calls on one stop, with a coarse tick.
CONSTANTS
  r1 = r1
  r2 = r2
  c1 = c1
  Calls = {r1, r2}
  Cids = {c1}
  Prices = {2, 3, 4, 5}
  Requests <- MCRequests
  Tick = 2
  MaxTriggers = 2
  MaxLives = 2
SPECIFICATION Spec
SYMMETRY CallSymmetry
\* the process may stay down
CHECK_DEADLOCK FALSE
INVARIANT TypeOK
INVARIANT OneTriggerPerId
INVARIANT RestingIsAStop
PROPERTY FloorKept
PROPERTY JournaledNeverRearmed
