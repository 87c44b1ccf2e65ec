---------------------- MODULE OrderAndElectionProofs ----------------------
(***************************************************************************)
(* Which request of a client is served first, and whose are swept.         *)
(*                                                                         *)
(* QueueOrder: the score orders every pair of entries as documented, for   *)
(* any number of bands, and the queue hands out by it.                     *)
(*                                                                         *)
(* Election: the orphan sweep deletes nothing of a running replica, for    *)
(* every fleet, every assignment of priorities and any number of stops,    *)
(* crashes, failed elections and requests, until a beat is missed or a     *)
(* replica starts.                                                         *)
(***************************************************************************)
EXTENDS Election, QueueOrder, FiniteSetTheorems, TLAPS

---------------------------------------------------------------------------
(* The order of the queue.                                                 *)

USE BandAssumption, QueueAssumption DEF BandAssumption, QueueAssumption

LEMMA ClampType ==
  ASSUME NEW x \in Int, NEW top \in Nat
  PROVE  Clamp(x, top) \in 0 .. top
  BY DEF Clamp

LEMMA Widths ==
  /\ \A x, y \in Int : x * y \in Int
  /\ \A x, y, z \in Int : x <= y /\ z >= 0 => x * z <= y * z
  /\ \A x, y, z \in Int : (x + y) * z = x * z + y * z
<1>1. \A x, y \in Int : x * y \in Int
  OBVIOUS
<1>2. \A x, y, z \in Int : x <= y /\ z >= 0 => x * z <= y * z
  OBVIOUS
<1>3. \A x, y, z \in Int : (x + y) * z = x * z + y * z
  OBVIOUS
<1> QED BY <1>1, <1>2, <1>3

\* A digit of width w that is larger outweighs whatever stands below it.
LEMMA Digit ==
  ASSUME NEW w \in Nat, NEW x \in Int, NEW y \in Int, x < y,
         NEW u \in 0 .. w - 1, NEW v \in 0 .. w - 1
  PROVE  x * w + u < y * w + v
<1>1. (x + 1) * w <= y * w
  BY Widths
<1>2. (x + 1) * w = x * w + 1 * w /\ 1 * w = w
  BY Widths
<1>3. x * w \in Int /\ y * w \in Int
  BY Widths
<1> QED BY <1>1, <1>2, <1>3

\* Entries with arrivals inside their band sort by priority, then retries,
\* then arrival, and by nothing else.
LEMMA ScoreIsLexicographic ==
  ASSUME NEW p \in Int, NEW r \in Int, NEW a \in 0 .. RetryBand - 1,
         NEW q \in Int, NEW s \in Int, NEW b \in 0 .. RetryBand - 1,
         HandedOutBefore(p, r, a, q, s, b)
  PROVE  CalculateQueueScore(p, r, a) < CalculateQueueScore(q, s, b)
<1> DEFINE P == MaxQueuePriority - Clamp(p, MaxQueuePriority)
           Q == MaxQueuePriority - Clamp(q, MaxQueuePriority)
           R == MaxQueueRetries - Clamp(r, MaxQueueRetries)
           S == MaxQueueRetries - Clamp(s, MaxQueueRetries)
           w == PriorityBand
           u == R * RetryBand + a
           v == S * RetryBand + b
<1>1. /\ Clamp(p, MaxQueuePriority) \in 0 .. MaxQueuePriority
      /\ Clamp(q, MaxQueuePriority) \in 0 .. MaxQueuePriority
      /\ Clamp(r, MaxQueueRetries) \in 0 .. MaxQueueRetries
      /\ Clamp(s, MaxQueueRetries) \in 0 .. MaxQueueRetries
  BY ClampType
<1>2. /\ P \in 0 .. MaxQueuePriority /\ Q \in 0 .. MaxQueuePriority
      /\ R \in 0 .. MaxQueueRetries /\ S \in 0 .. MaxQueueRetries
  BY <1>1
<1>3. \/ P < Q
      \/ P = Q /\ R < S
      \/ P = Q /\ R = S /\ a < b
  BY <1>1 DEF HandedOutBefore
<1>4. /\ CalculateQueueScore(p, r, a) = P * w + R * RetryBand + a
      /\ CalculateQueueScore(q, s, b) = Q * w + S * RetryBand + b
  BY DEF CalculateQueueScore
<1> HIDE DEF P, Q, R, S
<1>5. /\ R * RetryBand \in Int /\ S * RetryBand \in Int /\ w \in Int
      /\ P * w \in Int /\ Q * w \in Int
  <2>1. w \in Int
    BY Widths DEF PriorityBand
  <2> QED BY <1>2, <2>1, Widths
<1>6. w = MaxQueueRetries * RetryBand + RetryBand
  BY DEF PriorityBand
<1>7. /\ 0 <= R * RetryBand /\ R * RetryBand <= MaxQueueRetries * RetryBand
      /\ 0 <= S * RetryBand /\ S * RetryBand <= MaxQueueRetries * RetryBand
      /\ MaxQueueRetries * RetryBand \in Int
  <2>1. 0 * RetryBand = 0
    OBVIOUS
  <2> QED BY <1>2, <2>1, Widths
<1> HIDE DEF w
<1>8. u \in 0 .. w - 1 /\ v \in 0 .. w - 1 /\ w \in Nat
  BY <1>5, <1>6, <1>7
<1>9. CASE P < Q
  <2>1. P * w + u < Q * w + v
    <3> HIDE DEF u, v
    <3> QED BY <1>2, <1>8, <1>9, Digit
  <2> QED BY <1>4, <1>5, <2>1
<1>10. CASE P = Q /\ R < S
  <2>1. u < v
    BY <1>2, <1>10, Digit
  <2> QED BY <1>4, <1>5, <1>10, <2>1
<1>11. CASE P = Q /\ R = S /\ a < b
  BY <1>4, <1>5, <1>11
<1> QED BY <1>3, <1>9, <1>10, <1>11

---------------------------------------------------------------------------
(* The inductive invariant: besides the shapes, every queued entry is      *)
(* stored under the score of the fields it carries now.                    *)

Scored(e) ==
    e.status # "none"
    => e.score = CalculateQueueScore(e.priority, e.retries, e.arrival)

OrderInv == OrderTypeOK /\ \A r \in Ids : Scored(entry[r])

LEMMA ScoreType ==
  ASSUME NEW p \in Int, NEW r \in Int, NEW a \in Int
  PROVE  CalculateQueueScore(p, r, a) \in Int
<1>1. /\ Clamp(p, MaxQueuePriority) \in Int
      /\ Clamp(r, MaxQueueRetries) \in Int
  BY DEF Clamp
<1> QED BY <1>1, Widths DEF CalculateQueueScore, PriorityBand

\* An operation writes one entry, of the right shape and score.
LEMMA OneEntry ==
  ASSUME OrderInv, NEW r \in Ids, NEW e \in EntryType, Scored(e),
         entry' = [entry EXCEPT ![r] = e],
         clock' \in 0 .. MaxClock, call' \subseteq Ids
  PROVE  OrderInv'
<1>1. OrderTypeOK'
  BY DEF OrderInv, OrderTypeOK
<1>2. \A x \in Ids : entry'[x] = entry[x] \/ entry'[x] = e
  BY DEF OrderInv, OrderTypeOK
<1>3. \A x \in Ids : Scored(entry'[x])
  BY <1>2 DEF OrderInv
<1> QED BY <1>1, <1>3 DEF OrderInv, Scored

LEMMA OrderNextInv == OrderInv /\ [OrderNext]_orderVars => OrderInv'
<1> SUFFICES ASSUME OrderInv, [OrderNext]_orderVars PROVE OrderInv'
  OBVIOUS
<1>0. /\ OrderTypeOK /\ clock \in 0 .. MaxClock /\ call \subseteq Ids
      /\ \A r \in Ids : entry[r] \in EntryType /\ Scored(entry[r])
  BY DEF OrderInv, OrderTypeOK
<1>1. ASSUME NEW r \in Ids, NEW priority \in Priorities,
             AddRequest(r, priority)
      PROVE  OrderInv'
  <2> DEFINE e == [status |-> "pending", priority |-> priority,
                   retries |-> 0, arrival |-> clock,
                   score |-> CalculateQueueScore(priority, 0, clock)]
  <2>1. clock \in 0 .. RetryBand - 1
    BY <1>0, <1>1 DEF AddRequest, InEpoch
  <2>2. e \in EntryType /\ Scored(e)
    <3>1. CalculateQueueScore(priority, 0, clock) \in Int
      BY <2>1, ScoreType
    <3> QED BY <2>1, <3>1 DEF EntryType, Scored
  <2> HIDE DEF e
  <2>3. entry' = [entry EXCEPT ![r] = e] /\ UNCHANGED <<clock, call>>
    BY <1>1 DEF AddRequest, e
  <2> QED BY <1>0, <2>2, <2>3, OneEntry
<1>2. ASSUME NEW r \in Ids, NEW s \in {"pending", "inProgress", "lapsed"},
             Queued(r), entry' = [entry EXCEPT ![r].status = s],
             clock' = clock, call' \subseteq Ids
      PROVE  OrderInv'
  <2> DEFINE e == [entry[r] EXCEPT !.status = s]
  <2>1. e \in EntryType /\ Scored(e)
    BY <1>0, <1>2 DEF EntryType, Scored, Queued
  <2>2. entry' = [entry EXCEPT ![r] = e]
    BY <1>2
  <2> HIDE DEF e
  <2> QED BY <1>0, <1>2, <2>1, <2>2, OneEntry
<1>3. ASSUME NEW skip \in SUBSET Ids, GetNextRequest(skip) PROVE OrderInv'
  <2>1. PICK r \in Ids : Claimable(r)
                         /\ entry' = [entry EXCEPT ![r].status = "inProgress"]
    BY <1>3 DEF GetNextRequest
  <2>2. Queued(r)
    BY <2>1 DEF Claimable, Queued
  <2> QED BY <1>2, <1>3, <2>1, <2>2 DEF GetNextRequest
<1>4. ASSUME NEW r \in Ids, Lapse(r) \/ UpdateStatus(r) PROVE OrderInv'
  BY <1>0, <1>2, <1>4 DEF Lapse, UpdateStatus, Queued
<1>5. ASSUME NEW r \in Ids, UpdateRetries(r) PROVE OrderInv'
  <2> DEFINE n == entry[r].retries + 1
             sc == Rescore(entry[r].priority, n, entry[r].arrival)
             e == [entry[r] EXCEPT !.retries = n, !.score = sc]
  <2>1. /\ entry[r].priority \in Int /\ n \in Nat
        /\ entry[r].arrival \in 0 .. RetryBand - 1
    BY <1>0 DEF EntryType
  <2>2. Clamp(entry[r].arrival, RetryBand - 1) = entry[r].arrival
    BY <2>1 DEF Clamp
  <2>3. sc = CalculateQueueScore(entry[r].priority, n, entry[r].arrival)
        /\ sc \in Int
    <3>1. sc = CalculateQueueScore(entry[r].priority, n, entry[r].arrival)
      BY <2>2 DEF Rescore
    <3>2. CalculateQueueScore(entry[r].priority, n, entry[r].arrival) \in Int
      <4>1. n \in Int /\ entry[r].arrival \in Int
        BY <2>1
      <4> HIDE DEF n
      <4> QED BY <2>1, <4>1, ScoreType
    <3> QED BY <3>1, <3>2
  <2> HIDE DEF n, sc
  <2>4. e \in EntryType /\ Scored(e)
    BY <1>0, <2>1, <2>3 DEF EntryType, Scored
  <2>5. entry' = [entry EXCEPT ![r] = e] /\ UNCHANGED <<clock, call>>
    BY <1>5 DEF UpdateRetries, n, sc
  <2> HIDE DEF e
  <2> QED BY <1>0, <2>4, <2>5, OneEntry
<1>6. ASSUME NEW r \in Ids, RemoveRequest(r) PROVE OrderInv'
  <2>1. Absent \in EntryType /\ Scored(Absent)
    BY DEF Absent, EntryType, Scored
  <2> QED BY <1>0, <1>6, <2>1, OneEntry DEF RemoveRequest
<1>7. CASE OrderTick
  BY <1>0, <1>7 DEF OrderTick, OrderInv, OrderTypeOK, Scored
<1>8. CASE UNCHANGED orderVars
  BY <1>8 DEF orderVars, OrderInv, OrderTypeOK, Scored
<1> QED BY <1>1, <1>3, <1>4, <1>5, <1>6, <1>7, <1>8 DEF OrderNext

LEMMA OrderInitInv == OrderInit => OrderInv
<1>1. Absent \in EntryType /\ Scored(Absent)
  BY DEF Absent, EntryType, Scored
<1> QED BY <1>1 DEF OrderInit, OrderInv, OrderTypeOK, Scored

\* No arrival ever reaches out of its retry band (queueScore.ts, the range
\* guard of calculateQueueScore; memory.ts, addRequest and updateRequest).
THEOREM QueueTypeCorrect == OrderSpec => []OrderTypeOK
<1>1. OrderInv => OrderTypeOK
  BY DEF OrderInv
<1> QED BY <1>1, OrderInitInv, OrderNextInv, PTL DEF OrderSpec

\* Whatever adds, retries, write-backs and lapsed claims came before, the
\* entry handed out is first by priority, then retries, then arrival among
\* those that may be, for any number and width of bands (memory.ts,
\* getNextRequest, updateRequest and rescore).
THEOREM QueueInOrder == OrderSpec => HandedOutInOrder
<1>1. ASSUME OrderInv, [OrderNext]_orderVars, NEW r \in Ids, Claimable(r),
             entry'[r].status = "inProgress",
             NEW o \in Ids \ call', Claimable(o)
      PROVE  ~Before(o, r)
  <2>1. entry[r].status # "inProgress" /\ OrderTypeOK
    BY <1>1 DEF Claimable, OrderInv
  <2>2. PICK skip \in SUBSET Ids : GetNextRequest(skip)
    <3>1. ASSUME NEW x \in Ids, NEW e, e.status # "inProgress",
                 entry' = [entry EXCEPT ![x] = e]
          PROVE  FALSE
      BY <1>1, <2>1, <3>1 DEF OrderTypeOK
    <3>2. ~(\E x \in Ids, priority \in Priorities : AddRequest(x, priority))
      BY <3>1 DEF AddRequest
    <3>3. ASSUME NEW x \in Ids, NEW s \in {"pending", "lapsed"},
                 entry' = [entry EXCEPT ![x].status = s]
          PROVE  FALSE
      BY <1>1, <2>1, <3>3 DEF OrderTypeOK, EntryType
    <3>4. ~(\E x \in Ids : Lapse(x) \/ UpdateStatus(x))
      BY <3>3 DEF Lapse, UpdateStatus
    <3>5. ASSUME NEW x \in Ids, UpdateRetries(x) PROVE FALSE
      <4>1. entry'[r].status = entry[r].status
        BY <2>1, <3>5 DEF UpdateRetries, OrderTypeOK, EntryType
      <4> QED BY <1>1, <2>1, <4>1
    <3>6. ~(\E x \in Ids : RemoveRequest(x))
      BY <3>1 DEF RemoveRequest, Absent
    <3>7. ~OrderTick /\ ~UNCHANGED orderVars
      BY <1>1, <2>1 DEF OrderTick, orderVars
    <3> QED BY <1>1, <3>2, <3>4, <3>5, <3>6, <3>7 DEF OrderNext
  <2>3. PICK x \in Ids \ skip :
           /\ \A y \in Ids \ skip : Claimable(y) => Ahead(x, y)
           /\ entry' = [entry EXCEPT ![x].status = "inProgress"]
    BY <2>2 DEF GetNextRequest
  <2>4. x = r
    <3>1. x # r => entry'[r] = entry[r]
      BY <2>1, <2>3 DEF OrderTypeOK
    <3> QED BY <1>1, <2>1, <3>1
  <2>5. Ahead(r, o)
    BY <1>1, <2>2, <2>3, <2>4 DEF GetNextRequest
  <2>6. /\ entry[r] \in EntryType /\ entry[o] \in EntryType
        /\ Scored(entry[r]) /\ Scored(entry[o])
    BY <1>1 DEF OrderInv, OrderTypeOK
  <2>7. /\ entry[r].score = CalculateQueueScore(entry[r].priority,
                              entry[r].retries, entry[r].arrival)
        /\ entry[o].score = CalculateQueueScore(entry[o].priority,
                              entry[o].retries, entry[o].arrival)
    BY <1>1, <2>6 DEF Scored, Claimable
  <2>8. Before(o, r) => entry[o].score < entry[r].score
    <3>1. /\ entry[o].priority \in Int /\ entry[o].retries \in Int
          /\ entry[o].arrival \in 0 .. RetryBand - 1
          /\ entry[r].priority \in Int /\ entry[r].retries \in Int
          /\ entry[r].arrival \in 0 .. RetryBand - 1
      BY <2>6 DEF EntryType
    <3>2. Before(o, r)
          => CalculateQueueScore(entry[o].priority, entry[o].retries,
                                 entry[o].arrival)
             < CalculateQueueScore(entry[r].priority, entry[r].retries,
                                   entry[r].arrival)
      BY <3>1, ScoreIsLexicographic DEF Before
    <3> QED BY <2>7, <3>2
  <2>9. entry[o].score \in Int /\ entry[r].score \in Int
    BY <2>6 DEF EntryType
  <2> QED BY <2>5, <2>8, <2>9 DEF Ahead
<1>2. OrderInv /\ [OrderNext]_orderVars
      => [\A r \in Ids :
            Claimable(r) /\ entry'[r].status = "inProgress"
            => \A o \in Ids \ call' : Claimable(o) => ~Before(o, r)]_orderVars
  BY <1>1
<1> QED BY <1>2, OrderInitInv, OrderNextInv, PTL DEF OrderSpec, HandedOutInOrder

HIDE DEF BandAssumption, QueueAssumption

---------------------------------------------------------------------------
(* The election and its sweep.                                             *)

USE ElectionAssumption DEF ElectionAssumption

\* Nobody has missed a beat, and nobody has started.
Settled == budget.misses = MaxMisses /\ budget.starts = MaxStarts

\* Whoever runs beats, is registered and is listed, and no election under way
\* will make anybody run.
Beating ==
    /\ \A i \in Instances : ~ run[i].startup /\ status[i] # "starting"
    /\ \A i \in Instances : Running(i) =>
          heartbeat[i] /\ reg[i] > 0 /\ i \in alive

\* A sweep that has read the set will spare whoever runs.
SweepsSpare ==
    \A i, k \in Instances :
        Running(i) /\ sweep[k].at = "delete" => i \in sweep[k].alive

\* Whoever waits is queued.
WaitersQueued == \A i \in Instances : Running(i) /\ i \in waiting => i \in queued

Inv == TypeOK /\ (Settled => Beating /\ SweepsSpare /\ WaitersQueued)

---------------------------------------------------------------------------
(* Every step keeps it.                                                    *)

\* An interval costs one miss for every replica that beats and has not.
LEMMA MissesCounted ==
  ASSUME TypeOK, Tick
  PROVE  \E n \in 0 .. budget.misses :
            /\ budget' = [budget EXCEPT !.misses = @ - n]
            /\ n = 0 => \A i \in Instances : heartbeat[i] => reg[i] = RegTtl
<1> DEFINE late == {i \in Instances : heartbeat[i] /\ reg[i] # RegTtl}
<1>1. IsFiniteSet(late)
  BY FS_Subset
<1>2. Cardinality(late) \in Nat /\ (Cardinality(late) = 0 <=> late = {})
  BY <1>1, FS_CardinalityType, FS_EmptySet
<1>3. /\ Cardinality(late) <= budget.misses
      /\ budget' = [budget EXCEPT !.misses = @ - Cardinality(late)]
  BY DEF Tick
<1>4. budget.misses \in Nat
  BY DEF TypeOK, BudgetType
<1>5. Cardinality(late) \in 0 .. budget.misses
  BY <1>2, <1>3, <1>4
<1>6. Cardinality(late) = 0 =>
         \A i \in Instances : heartbeat[i] => reg[i] = RegTtl
  BY <1>2
<1> HIDE DEF late
<1> QED BY <1>3, <1>5, <1>6

LEMMA TypeKept ==
  ASSUME TypeOK, [Next]_vars
  PROVE  TypeOK'
<1>1. ASSUME NEW i \in Instances, Reconcile(i)
      PROVE  TypeOK'
  BY <1>1
    DEF Reconcile, ScheduleClientRoles, TypeOK, Statuses, RunType, NoRun,
        SweepType, NoSweep, BudgetType
<1>2. ASSUME NEW i \in Instances, TaskElected(i)
      PROVE  TypeOK'
  <2>1. sweep[i] \in SweepType /\ [sweep[i] EXCEPT !.at = "read"] \in SweepType
    BY DEF TypeOK, SweepType
  <2>2. sweep' \in [Instances -> SweepType]
    BY <1>2, <2>1 DEF TaskElected, TypeOK
  <2>3. task' \in [Instances -> BOOLEAN]
    BY <1>2 DEF TaskElected, TypeOK
  <2> QED BY <1>2, <2>2, <2>3 DEF TaskElected, TypeOK
<1>3. ASSUME NEW i \in Instances, Read(i)
      PROVE  TypeOK'
  <2>1. alive' \subseteq Instances
    BY <1>3 DEF Read, Pruned, TypeOK
  <2>2. PICK b \in BOOLEAN :
           run' = [run EXCEPT ![i].at = "decide", ![i].outranked = b]
    BY <1>3 DEF Read
  <2>3. run[i] \in RunType
    BY DEF TypeOK
  <2>4. [run[i] EXCEPT !.at = "decide", !.outranked = b] \in RunType
    BY <2>3 DEF RunType
  <2>5. run' = [run EXCEPT ![i] =
                   [run[i] EXCEPT !.at = "decide", !.outranked = b]]
    BY <2>2 DEF TypeOK
  <2>6. run' \in [Instances -> RunType]
    BY <2>4, <2>5 DEF TypeOK
  <2> QED BY <1>3, <2>1, <2>6 DEF Read, TypeOK
<1>4. ASSUME NEW i \in Instances, Decide(i)
      PROVE  TypeOK'
  <2>1. role' \in [Instances -> {"worker", "controller"}]
    BY <1>4 DEF Decide, TypeOK
  <2>2. sweep' \in [Instances -> SweepType]
    BY <1>4, SMTT(30) DEF Decide, TypeOK, SweepType
  <2>3. [run[i] EXCEPT !.at = "register"] \in RunType /\ NoRun \in RunType
    BY DEF TypeOK, RunType, NoRun
  <2>4. run' \in [Instances -> RunType]
    BY <1>4, <2>3 DEF Decide, TypeOK
  <2> QED BY <1>4, <2>1, <2>2, <2>4 DEF Decide, TypeOK
<1>5. ASSUME NEW i \in Instances, Register(i)
      PROVE  TypeOK'
  BY <1>5
    DEF Register, TypeOK, Statuses, RunType, NoRun, SweepType, NoSweep,
        BudgetType
<1>6. ASSUME NEW i \in Instances, FailRun(i)
      PROVE  TypeOK'
  BY <1>6
    DEF FailRun, Spent, TypeOK, Statuses, RunType, NoRun, SweepType, NoSweep,
        BudgetType
<1>7. ASSUME NEW i \in Instances, Beat(i)
      PROVE  TypeOK'
  BY <1>7
    DEF Beat, TypeOK, Statuses, RunType, NoRun, SweepType, NoSweep, BudgetType
<1>8. ASSUME NEW i \in Instances, Start(i)
      PROVE  TypeOK'
  <2>1. [NoRun EXCEPT !.at = "read", !.startup = TRUE] \in RunType
    BY DEF RunType, NoRun
  <2>2. run' \in [Instances -> RunType]
    BY <1>8, <2>1 DEF Start, ScheduleClientRoles, TypeOK
  <2>3. budget' \in BudgetType
    BY <1>8 DEF Start, Spent, TypeOK, BudgetType
  <2> QED BY <1>8, <2>2, <2>3 DEF Start, TypeOK, Statuses
<1>9. ASSUME NEW i \in Instances, Stop(i)
      PROVE  TypeOK'
  <2>1. status' \in [Instances -> Statuses]
    BY <1>9 DEF Stop, TypeOK, Statuses
  <2>2. budget' \in BudgetType
    BY <1>9 DEF Stop, Spent, TypeOK, BudgetType
  <2>3. queued' \subseteq Instances /\ waiting' \subseteq Instances
    BY <1>9 DEF Stop, TypeOK
  <2> QED BY <1>9, <2>1, <2>2, <2>3 DEF Stop, TypeOK
<1>10. ASSUME NEW i \in Instances, Deregister(i)
      PROVE  TypeOK'
  <2>1. budget' \in BudgetType
    BY <1>10 DEF Deregister, Spent, TypeOK, BudgetType
  <2>2. CASE alive' = alive \ {i} /\ reg' = [reg EXCEPT ![i] = 0]
    BY <1>10, <2>1, <2>2 DEF Deregister, TypeOK, Statuses
  <2>3. CASE UNCHANGED <<alive, reg>>
    BY <1>10, <2>1, <2>3 DEF Deregister, TypeOK, Statuses
  <2> QED BY <1>10, <2>2, <2>3 DEF Deregister
<1>11. ASSUME NEW i \in Instances, Close(i)
      PROVE  TypeOK'
  BY <1>11
    DEF Close, TypeOK, Statuses, RunType, NoRun, SweepType, NoSweep, BudgetType
<1>12. ASSUME NEW i \in Instances, Crash(i)
      PROVE  TypeOK'
  BY <1>12
    DEF Crash, Spent, TypeOK, Statuses, RunType, NoRun, SweepType, NoSweep,
        BudgetType
<1>13. ASSUME NEW i \in Instances, Enqueue(i)
      PROVE  TypeOK'
  BY <1>13
    DEF Enqueue, Spent, TypeOK, Statuses, RunType, NoRun, SweepType, NoSweep,
        BudgetType
<1>14. ASSUME NEW i \in Instances, SweepRead(i)
      PROVE  TypeOK'
  BY <1>14
    DEF SweepRead, IsController, TypeOK, Statuses, RunType, NoRun, SweepType,
        NoSweep, BudgetType
<1>15. ASSUME NEW i \in Instances, SweepDelete(i)
      PROVE  TypeOK'
  BY <1>15
    DEF SweepDelete, TypeOK, Statuses, RunType, NoRun, SweepType, NoSweep,
        BudgetType
<1>16. ASSUME NEW i \in Instances, NEW j \in Instances, Admit(i, j)
      PROVE  TypeOK'
  BY <1>16
    DEF Admit, TypeOK, Statuses, RunType, NoRun, SweepType, NoSweep, BudgetType
<1>17. CASE Tick
  <2>1. reg' \in [Instances -> 0 .. RegTtl]
    BY <1>17 DEF Tick, TypeOK
  <2>2. budget' \in BudgetType
    BY <1>17, MissesCounted DEF TypeOK, BudgetType
  <2> QED BY <1>17, <2>1, <2>2 DEF Tick, TypeOK
<1>18. CASE UNCHANGED vars
  BY <1>18
    DEF vars, TypeOK, Statuses, RunType, NoRun, SweepType, NoSweep, BudgetType
<1> QED BY <1>1, <1>2, <1>3, <1>4, <1>5, <1>6, <1>7, <1>8, <1>9, <1>10, <1>11,
           <1>12, <1>13, <1>14, <1>15, <1>16, <1>17, <1>18
          DEF Next

LEMMA SettledKept ==
  ASSUME Inv, [Next]_vars
  PROVE  (Settled => Beating /\ SweepsSpare /\ WaitersQueued)'
<1>1. ASSUME NEW i \in Instances, Reconcile(i)
      PROVE  (Settled => Beating /\ SweepsSpare /\ WaitersQueued)'
  BY <1>1
    DEF Reconcile, ScheduleClientRoles, Inv, Settled, Beating, SweepsSpare,
        WaitersQueued, Running, TypeOK, Statuses, RunType, NoRun, SweepType,
        NoSweep, BudgetType
<1>2. ASSUME NEW i \in Instances, TaskElected(i)
      PROVE  (Settled => Beating /\ SweepsSpare /\ WaitersQueued)'
  BY <1>2
    DEF TaskElected, IsController, Inv, Settled, Beating, SweepsSpare,
        WaitersQueued, Running, TypeOK, Statuses, RunType, NoRun, SweepType,
        NoSweep, BudgetType
<1>3. ASSUME NEW i \in Instances, Read(i)
      PROVE  (Settled => Beating /\ SweepsSpare /\ WaitersQueued)'
  BY <1>3
    DEF Read, Pruned, Inv, Settled, Beating, SweepsSpare, WaitersQueued,
        Running, TypeOK, Statuses, RunType, NoRun, SweepType, NoSweep,
        BudgetType
<1>4. ASSUME NEW i \in Instances, Decide(i)
      PROVE  (Settled => Beating /\ SweepsSpare /\ WaitersQueued)'
  BY <1>4
    DEF Decide, Builds, Inv, Settled, Beating, SweepsSpare, WaitersQueued,
        Running, TypeOK, Statuses, RunType, NoRun, SweepType, NoSweep,
        BudgetType
<1>5. ASSUME NEW i \in Instances, Register(i)
      PROVE  (Settled => Beating /\ SweepsSpare /\ WaitersQueued)'
  BY <1>5
    DEF Register, Inv, Settled, Beating, SweepsSpare, WaitersQueued, Running,
        TypeOK, Statuses, RunType, NoRun, SweepType, NoSweep, BudgetType
<1>6. ASSUME NEW i \in Instances, FailRun(i)
      PROVE  (Settled => Beating /\ SweepsSpare /\ WaitersQueued)'
  BY <1>6
    DEF FailRun, Spent, Inv, Settled, Beating, SweepsSpare, WaitersQueued,
        Running, TypeOK, Statuses, RunType, NoRun, SweepType, NoSweep,
        BudgetType
<1>7. ASSUME NEW i \in Instances, Beat(i)
      PROVE  (Settled => Beating /\ SweepsSpare /\ WaitersQueued)'
  BY <1>7
    DEF Beat, Inv, Settled, Beating, SweepsSpare, WaitersQueued, Running,
        TypeOK, Statuses, RunType, NoRun, SweepType, NoSweep, BudgetType
<1>8. ASSUME NEW i \in Instances, Start(i)
      PROVE  (Settled => Beating /\ SweepsSpare /\ WaitersQueued)'
  BY <1>8
    DEF Start, ScheduleClientRoles, Spent, Inv, Settled, Beating, SweepsSpare,
        WaitersQueued, Running, TypeOK, Statuses, RunType, NoRun, SweepType,
        NoSweep, BudgetType
<1>9. ASSUME NEW i \in Instances, Stop(i)
      PROVE  (Settled => Beating /\ SweepsSpare /\ WaitersQueued)'
  BY <1>9
    DEF Stop, Spent, Inv, Settled, Beating, SweepsSpare, WaitersQueued,
        Running, TypeOK, Statuses, RunType, NoRun, SweepType, NoSweep,
        BudgetType
<1>10. ASSUME NEW i \in Instances, Deregister(i)
      PROVE  (Settled => Beating /\ SweepsSpare /\ WaitersQueued)'
  BY <1>10
    DEF Deregister, Spent, Inv, Settled, Beating, SweepsSpare, WaitersQueued,
        Running, TypeOK, Statuses, RunType, NoRun, SweepType, NoSweep,
        BudgetType
<1>11. ASSUME NEW i \in Instances, Close(i)
      PROVE  (Settled => Beating /\ SweepsSpare /\ WaitersQueued)'
  BY <1>11
    DEF Close, Inv, Settled, Beating, SweepsSpare, WaitersQueued, Running,
        TypeOK, Statuses, RunType, NoRun, SweepType, NoSweep, BudgetType
<1>12. ASSUME NEW i \in Instances, Crash(i)
      PROVE  (Settled => Beating /\ SweepsSpare /\ WaitersQueued)'
  BY <1>12
    DEF Crash, Spent, Inv, Settled, Beating, SweepsSpare, WaitersQueued,
        Running, TypeOK, Statuses, RunType, NoRun, SweepType, NoSweep,
        BudgetType
<1>13. ASSUME NEW i \in Instances, Enqueue(i)
      PROVE  (Settled => Beating /\ SweepsSpare /\ WaitersQueued)'
  BY <1>13
    DEF Enqueue, Spent, Inv, Settled, Beating, SweepsSpare, WaitersQueued,
        Running, TypeOK, Statuses, RunType, NoRun, SweepType, NoSweep,
        BudgetType
<1>14. ASSUME NEW i \in Instances, SweepRead(i)
      PROVE  (Settled => Beating /\ SweepsSpare /\ WaitersQueued)'
  BY <1>14
    DEF SweepRead, IsController, Inv, Settled, Beating, SweepsSpare,
        WaitersQueued, Running, TypeOK, Statuses, RunType, NoRun, SweepType,
        NoSweep, BudgetType
<1>15. ASSUME NEW i \in Instances, SweepDelete(i)
      PROVE  (Settled => Beating /\ SweepsSpare /\ WaitersQueued)'
  BY <1>15
    DEF SweepDelete, Inv, Settled, Beating, SweepsSpare, WaitersQueued,
        Running, TypeOK, Statuses, RunType, NoRun, SweepType, NoSweep,
        BudgetType
<1>16. ASSUME NEW i \in Instances, NEW j \in Instances, Admit(i, j)
      PROVE  (Settled => Beating /\ SweepsSpare /\ WaitersQueued)'
  BY <1>16
    DEF Admit, Inv, Settled, Beating, SweepsSpare, WaitersQueued, Running,
        TypeOK, Statuses, RunType, NoRun, SweepType, NoSweep, BudgetType
<1>17. CASE Tick
  <2> SUFFICES ASSUME Settled'
               PROVE  Beating' /\ SweepsSpare' /\ WaitersQueued'
    OBVIOUS
  <2>1. Settled /\ \A i \in Instances : heartbeat[i] => reg[i] = RegTtl
    BY <1>17, MissesCounted DEF Inv, TypeOK, BudgetType, Settled
  <2>2. \A i \in Instances : Running(i) => reg'[i] > 0
    BY <1>17, <2>1 DEF Tick, Inv, Beating, TypeOK
  <2> QED BY <1>17, <2>1, <2>2
          DEF Tick, Inv, Beating, SweepsSpare, WaitersQueued, Running
<1>18. CASE UNCHANGED vars
  BY <1>18
    DEF vars, Inv, Settled, Beating, SweepsSpare, WaitersQueued, Running,
        TypeOK, Statuses, RunType, NoRun, SweepType, NoSweep, BudgetType
<1> QED BY <1>1, <1>2, <1>3, <1>4, <1>5, <1>6, <1>7, <1>8, <1>9, <1>10, <1>11,
           <1>12, <1>13, <1>14, <1>15, <1>16, <1>17, <1>18
          DEF Next

\* Every replica's role, elections and registrations keep their types, and
\* while settled whoever runs is known to every sweep.
THEOREM ElectionInvariant == Spec => []Inv
<1>1. Init => Inv
  <2> SUFFICES ASSUME Init
               PROVE  Inv
    OBVIOUS
  <2>1. TypeOK
    BY DEF Init, TypeOK, Statuses, RunType, NoRun, SweepType, NoSweep,
           BudgetType
  <2>2. \A i \in Instances : Running(i) => i \in FirstUp
    BY DEF Init, Running
  <2>3. \A i \in Instances : ~ run[i].startup /\ status[i] # "starting"
    BY DEF Init, NoRun
  <2>4. \A i \in Instances : i \in FirstUp => heartbeat[i]
    BY Zenon DEF Init
  <2>5. \A i \in FirstUp : reg[i] > 0 /\ i \in alive
    BY DEF Init
  <2>6. SweepsSpare /\ WaitersQueued
    BY DEF Init, SweepsSpare, WaitersQueued, NoSweep
  <2> QED BY <2>1, <2>2, <2>3, <2>4, <2>5, <2>6 DEF Inv, Beating
<1>2. Inv /\ [Next]_vars => Inv'
  BY TypeKept, SettledKept DEF Inv
<1> QED BY <1>1, <1>2, PTL DEF Spec

\* As long as replicas beat in time and none starts, cleanupOrphanedRequests
\* with a set read any time before deletes no request of a running replica.
THEOREM SweepsKeepSettledWork == Spec => []SettledWorkKept
<1>1. Inv => SettledWorkKept
  BY DEF Inv, Settled, WaitersQueued, SettledWorkKept
<1> QED BY <1>1, ElectionInvariant, PTL

=============================================================================
