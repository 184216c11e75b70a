\* Two processes and two days, one of them a session the calendar only guessed; two faults.
CONSTANTS
  p1 = p1
  p2 = p2
  Procs = {p1, p2}
  Days = {1, 2}
  Derived = {1}
  Traded = {2}
  MaxSessions = 2
  MaxRuns = 6
  MaxVersions = 3
  MaxFaults = 2
SPECIFICATION FairSpec
\* everything may be decided
CHECK_DEADLOCK FALSE
INVARIANT TypeOK
INVARIANT VersionsUnique
 
PROPERTY PublishedForGood
PROPERTY EverySessionDecided
PROPERTY EveryRunEnds
