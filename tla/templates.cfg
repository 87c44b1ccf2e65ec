\* One instance on two handlers, one of which starts later.
CONSTANTS
    r1 = r1
    r2 = r2
    Replicas = {r1, r2}
    FirstUp = {r1}
    MaxAdds = 1
    MaxRemoves = 1
    MaxStarts = 1
    MaxCrashes = 1
    MaxFailures = 1
    MaxTokens = 1
SPECIFICATION Spec
INVARIANTS NoGhostClient ReplicasConverge RemovalPurges
CHECK_DEADLOCK FALSE
