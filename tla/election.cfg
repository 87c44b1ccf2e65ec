SPECIFICATION FairSpec
CONSTANTS
  Instances = {1, 2}
  Priority <- MCPriority
  RegTtl = 2
  FirstUp = {1, 2}
  MaxMisses = 1
  MaxFails = 1
  MaxStarts = 1
  MaxStops = 1
  MaxCrashes = 1
  MaxRequests = 1
INVARIANTS SettledWorkKept
PROPERTIES EventuallyOneController OrphansAreSwept
CHECK_DEADLOCK FALSE
