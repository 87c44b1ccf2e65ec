\* One request through starts, a stop and a rebuild in every order.
CONSTANTS
    q1 = q1
    Requests = {q1}
    MaxStarts = 2
    MaxStops = 2
    MaxRebuilds = 1
    MaxFails = 1
SPECIFICATION FairSpec
INVARIANTS NothingLeftWaiting SlotsReturnedBeforeClose LastCallWins
PROPERTIES NothingSentAfterStop StopEnds NobodyWaitsForever
CHECK_DEADLOCK FALSE
