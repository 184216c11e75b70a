\* One process with a permit and two deliveries in hand: a task acknowledged late and retried
\* once and one acknowledged early.
CONSTANTS
  w1 = w1
  s1 = s1
  s2 = s2
  late = late
  early = early
  Workers = {w1}
  Slots = {s1, s2}
  Concurrency = 1
  Tasks = {late, early}
  Late = {late}
  Quiet = {early}
  Expiring = {early}
  Unknown = {}
  Retried = {late}
  MaxRetries = 1
  MaxTags = 3
  MaxFaults = 1
SPECIFICATION FairSpec
CHECK_DEADLOCK FALSE
INVARIANT TypeOK
INVARIANT EarlyRunsOnce
PROPERTY EverythingSettles
