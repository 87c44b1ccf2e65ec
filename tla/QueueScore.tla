---------------------------- MODULE QueueScore ----------------------------
(***************************************************************************)
(* The sort score of a queue entry (backend/queueScore.ts): one integer    *)
(* that orders entries by priority (higher first), then retries (more      *)
(* first), then arrival (earlier first).  Priority and retries are clamped *)
(* to their bands, arrival is counted from the epoch and has to stay below *)
(* one retry band.                                                         *)
(***************************************************************************)
EXTENDS Integers

CONSTANTS
    MaxQueuePriority, \* MAX_QUEUE_PRIORITY
    MaxQueueRetries,  \* MAX_QUEUE_RETRIES
    RetryBand         \* QUEUE_RETRY_BAND

ASSUME BandAssumption ==
    /\ MaxQueuePriority \in Nat
    /\ MaxQueueRetries \in Nat
    /\ RetryBand \in Nat \ {0}

\* QUEUE_PRIORITY_BAND: room for every retry band beneath it.
PriorityBand == RetryBand * (MaxQueueRetries + 1)

\* Math.min(Math.max(x, 0), top)
Clamp(x, top) == IF x < 0 THEN 0 ELSE IF x > top THEN top ELSE x

\* calculateQueueScore throws a RangeError on any other arrival.
InEpoch(arrival) == arrival < RetryBand

\* Mutant: priority bands one retry band too narrow.
NarrowScore(priority, retries, arrival) ==
    (MaxQueuePriority - Clamp(priority, MaxQueuePriority))
        * (RetryBand * MaxQueueRetries)
    + (MaxQueueRetries - Clamp(retries, MaxQueueRetries)) * RetryBand
    + arrival

CalculateQueueScore(priority, retries, arrival) ==
    (MaxQueuePriority - Clamp(priority, MaxQueuePriority)) * PriorityBand
    + (MaxQueueRetries - Clamp(retries, MaxQueueRetries)) * RetryBand
    + arrival

\* rescore, for the fields of a stored entry: an arrival outside the epoch is
\* clamped into its band instead of refused.
Rescore(priority, retries, arrival) ==
    CalculateQueueScore(priority, retries, Clamp(arrival, RetryBand - 1))

\* The order the score stands for: is (p, r, a) handed out before (q, s, b)?
HandedOutBefore(p, r, a, q, s, b) ==
    LET cp == Clamp(p, MaxQueuePriority)
        cq == Clamp(q, MaxQueuePriority)
        cr == Clamp(r, MaxQueueRetries)
        cs == Clamp(s, MaxQueueRetries)
    IN
    \/ cp > cq
    \/ cp = cq /\ cr > cs
    \/ cp = cq /\ cr = cs /\ a < b
===========================================================================
