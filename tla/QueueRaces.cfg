\* Two processes, a task acknowledged late and one nobody registered, with three faults.
CONSTANTS
  w1 = w1
  w2 = w2
  s1 = s1
  late = late
  stray = stray
  Workers = {w1, w2}
  Slots = {s1}
  Concurrency = 1
  Tasks = {late, stray}
  Late = {late}
  Quiet = {}
  Expiring = {}
  Unknown = {stray}
  Retried = {late}
  MaxRetries = 0
  MaxTags = 2
  MaxFaults = 3
SPECIFICATION Spec
SYMMETRY WorkerSymmetry
CHECK_DEADLOCK FALSE
INVARIANT OneToken
INVARIANT KeptUntilDone
