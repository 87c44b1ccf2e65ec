---------------------------- MODULE QueueOrder ----------------------------
(***************************************************************************)
(* The order of a client's queue: entries are added with their score, keep *)
(* their place through claims, write-backs and lapsed leases, are scored   *)
(* again when a retry raises their retries, and are handed out by score,   *)
(* ties by id (backend/memory.ts and lua/queue.ts).  The caller may skip   *)
(* entries: those of a frozen grant, and those its pass has tried.         *)
(***************************************************************************)
EXTENDS QueueScore

CONSTANTS
    Ids,         \* request ids, in the order ties are broken
    Priorities,  \* what callers ask for, outside the band included
    MaxRetries,  \* bound: how often a request is retried
    MaxClock     \* bound: how far the clock runs, past the score epoch

ASSUME QueueAssumption ==
    /\ Ids \subseteq Nat /\ Priorities \subseteq Int
    /\ MaxRetries \in Nat /\ MaxClock \in Nat

VARIABLES
    entry,  \* each id's metadata hash and its score in the sorted set
    clock,  \* the owners' clock, in ticks since the score epoch
    call    \* ghost: what the last getNextRequest skipped

orderVars == <<entry, clock, call>>

EntryType == [status: {"none", "pending", "inProgress", "lapsed"},
              priority: Int, retries: Nat, arrival: 0 .. RetryBand - 1,
              score: Int]
Absent    == [status |-> "none", priority |-> 0, retries |-> 0,
              arrival |-> 0, score |-> 0]

Queued(r)    == entry[r].status # "none"
Claimable(r) == entry[r].status \in {"pending", "lapsed"}

OrderInit ==
    /\ entry = [r \in Ids |-> Absent]
    /\ clock = 0
    /\ call = {}

\* addRequest: a request made at the present time.  Outside the epoch the
\* score throws before anything is written, and an entry that exists is kept.
AddRequest(r, priority) ==
    /\ ~Queued(r) /\ InEpoch(clock)
    /\ entry' = [entry EXCEPT ![r] =
                    [status |-> "pending", priority |-> priority,
                     retries |-> 0, arrival |-> clock,
                     score |-> CalculateQueueScore(priority, 0, clock)]]
    /\ UNCHANGED <<clock, call>>

\* The sorted set's order: by score, then by member.
Ahead(r, o) ==
    \/ entry[r].score < entry[o].score
    \/ entry[r].score = entry[o].score /\ r <= o

\* getNextRequest, past the entries the caller skips.
GetNextRequest(skip) ==
    /\ \E r \in Ids \ skip :
         /\ Claimable(r)
         /\ \A o \in Ids \ skip : Claimable(o) => Ahead(r, o)
         /\ entry' = [entry EXCEPT ![r].status = "inProgress"]
    /\ call' = skip
    /\ UNCHANGED clock

\* A claim's lease runs out.
Lapse(r) ==
    /\ entry[r].status = "inProgress"
    /\ entry' = [entry EXCEPT ![r].status = "lapsed"]
    /\ UNCHANGED <<clock, call>>

\* updateRequest with a status: the place in the queue is kept.
UpdateStatus(r) ==
    /\ Queued(r)
    /\ entry' = [entry EXCEPT ![r].status = "pending"]
    /\ UNCHANGED <<clock, call>>

\* updateRequest with retries: the fields and the place change together.
UpdateRetries(r) ==
    LET e == entry[r] IN
    /\ Queued(r) /\ e.retries < MaxRetries
    /\ entry' = [entry EXCEPT ![r].retries = e.retries + 1,
                     ![r].score = Rescore(e.priority, e.retries + 1, e.arrival)]
    /\ UNCHANGED <<clock, call>>

RemoveRequest(r) ==
    /\ Queued(r)
    /\ entry' = [entry EXCEPT ![r] = Absent]
    /\ UNCHANGED <<clock, call>>

OrderTick ==
    /\ clock < MaxClock
    /\ clock' = clock + 1
    /\ UNCHANGED <<entry, call>>

OrderNext ==
    \/ \E r \in Ids, priority \in Priorities : AddRequest(r, priority)
    \/ \E skip \in SUBSET Ids : GetNextRequest(skip)
    \/ \E r \in Ids :
          \/ Lapse(r) \/ UpdateStatus(r) \/ UpdateRetries(r)
          \/ RemoveRequest(r)
    \/ OrderTick

OrderSpec == OrderInit /\ [][OrderNext]_orderVars

---------------------------------------------------------------------------
(* Properties.                                                             *)

\* Shapes; no entry's arrival ever reaches out of its retry band, however late
\* in the score epoch it is added.
OrderTypeOK ==
    /\ entry \in [Ids -> EntryType]
    /\ clock \in 0 .. MaxClock
    /\ call \subseteq Ids

Before(r, o) ==
    HandedOutBefore(entry[r].priority, entry[r].retries, entry[r].arrival,
                    entry[o].priority, entry[o].retries, entry[o].arrival)

\* The request handed out is first by priority, then by retries, then by
\* arrival, among those that may be: whatever retries, write-backs and lapsed
\* claims came before, one stored integer carries the whole order.
HandedOutInOrder ==
    [][\A r \in Ids :
          Claimable(r) /\ entry'[r].status = "inProgress"
          => \A o \in Ids \ call' : Claimable(o) => ~Before(o, r)]_orderVars
===========================================================================
