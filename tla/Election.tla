------------------------------ MODULE Election ------------------------------
(***************************************************************************)
(* Who drains a client's queue, and whose queued work is swept             *)
(* (utils/updateClientRoles.ts, scheduleClientRoles and start/stop in      *)
(* index.ts, cleanupOrphanedRequests in client/index.ts, getInstances and  *)
(* cleanupOrphanedRequests of the backends).                               *)
(*                                                                         *)
(* Every replica keeps a registration that expires unless it beats, in a   *)
(* set that does not.  An election reads both and makes the replica the    *)
(* controller unless a registered one outranks it.  Whatever a backend     *)
(* call returns is used in a later step than the one it was read in.       *)
(*                                                                         *)
(* One client, which every replica builds.  Time is counted in heartbeats. *)
(* Pub/sub and the timers that watch peers only ever ask for an election,  *)
(* with or without the sweep the health tick adds to it.  A health tick    *)
(* may come at any time (Reconcile), so its elections stand for theirs and *)
(* messages, lost, late or repeated, have no state here.  Failed starts    *)
(* are left out.                                                           *)
(***************************************************************************)
EXTENDS Integers, FiniteSets

CONSTANTS
    Instances,   \* the replicas' ids
    Priority,    \* the priority each is configured with
    RegTtl,      \* INSTANCE_TTL_SECONDS, in heartbeats: more than one
    FirstUp,     \* the replicas started at first
    MaxMisses,   \* bound: heartbeats that do not reach the backend
    MaxFails,    \* bound: elections that fail
    MaxStarts,   \* bound: starts
    MaxStops,    \* bound: graceful stops
    MaxCrashes,  \* bound: crashes
    MaxRequests  \* bound: requests queued

ASSUME ElectionAssumption ==
    /\ Instances \subseteq Nat /\ IsFiniteSet(Instances)
    /\ Priority \in [Instances -> Int]
    /\ RegTtl \in Nat /\ RegTtl > 1
    /\ FirstUp \subseteq Instances
    /\ {MaxMisses, MaxFails, MaxStarts, MaxStops, MaxCrashes, MaxRequests}
          \subseteq Nat

VARIABLES
    status,     \* the handler's status on each replica
    role,       \* the role its client has
    run,        \* scheduleClientRoles: the election running, if any
    task,       \* a health tick, or a departure, waits for that election
    sweep,      \* the orphan sweep of a promotion or of that task
    heartbeat,  \* heartbeatInterval is armed
    alive,      \* backend: the set of instances
    reg,        \* backend: what is left of each registration's life
    queued,     \* backend: owners of the requests queued
    waiting,    \* owners whose caller still waits for admission
    budget      \* what is left of the bounds

vars == <<status, role, run, task, sweep, heartbeat, alive, reg, queued,
          waiting, budget>>

---------------------------------------------------------------------------

Statuses == {"down", "starting", "started", "stopping", "left", "dead"}
RunType == [at: {"idle", "read", "decide", "register"}, outranked: BOOLEAN,
            startup: BOOLEAN]
NoRun == [at |-> "idle", outranked |-> FALSE, startup |-> FALSE]
SweepType == [at: {"none", "read", "delete"}, alive: SUBSET Instances]
NoSweep == [at |-> "none", alive |-> {}]
BudgetType == [misses: 0 .. MaxMisses, fails: 0 .. MaxFails,
               starts: 0 .. MaxStarts, stops: 0 .. MaxStops,
               crashes: 0 .. MaxCrashes, requests: 0 .. MaxRequests]

TypeOK ==
    /\ status \in [Instances -> Statuses]
    /\ role \in [Instances -> {"worker", "controller"}]
    /\ run \in [Instances -> RunType]
    /\ task \in [Instances -> BOOLEAN]
    /\ sweep \in [Instances -> SweepType]
    /\ heartbeat \in [Instances -> BOOLEAN]
    /\ alive \subseteq Instances
    /\ reg \in [Instances -> 0 .. RegTtl]
    /\ queued \subseteq Instances /\ waiting \subseteq Instances
    /\ budget \in BudgetType

\* Mutant: equal priorities do not outrank each other.
OutranksByPriority(a, b) == Priority[a] > Priority[b]

\* getClientsBefore's order: priority, then the id.
Outranks(a, b) ==
    \/ Priority[a] > Priority[b]
    \/ Priority[a] = Priority[b] /\ a > b

IsController(i) == role[i] = "controller"
Builds(i)       == status[i] \notin {"down", "dead"}

Init ==
    /\ status = [i \in Instances |-> IF i \in FirstUp THEN "started" ELSE "down"]
    /\ role = [i \in Instances |->
          IF i \in FirstUp /\ \A j \in FirstUp : ~Outranks(j, i)
          THEN "controller" ELSE "worker"]
    /\ run = [i \in Instances |-> NoRun]
    /\ task = [i \in Instances |-> FALSE]
    /\ sweep = [i \in Instances |-> NoSweep]
    /\ heartbeat = [i \in Instances |-> i \in FirstUp]
    /\ alive = FirstUp
    /\ reg = [i \in Instances |-> IF i \in FirstUp THEN RegTtl ELSE 0]
    /\ queued = {} /\ waiting = {}
    /\ budget = [misses |-> MaxMisses, fails |-> MaxFails, starts |-> MaxStarts,
                 stops |-> MaxStops, crashes |-> MaxCrashes,
                 requests |-> MaxRequests]

Spent(b, what) == [b EXCEPT ![what] = @ - 1]

---------------------------------------------------------------------------
(* Elections.                                                              *)

\* scheduleClientRoles: one run at a time.  A call during a run has it followed
\* by another, and returns when that is over, as a call right after it would.
ScheduleClientRoles(i, startup) ==
    /\ run[i].at = "idle"
    /\ run' = [run EXCEPT ![i] = [NoRun EXCEPT !.at = "read",
                                               !.startup = startup]]

\* A health tick, or a peer that left or went silent (which is still heard of
\* during a stop): an election, then the sweep.
Reconcile(i) ==
    /\ status[i] \in {"started", "stopping", "left"}
    /\ ~task[i] /\ sweep[i].at = "none"
    /\ task' = [task EXCEPT ![i] = TRUE]
    /\ ScheduleClientRoles(i, FALSE)
    /\ UNCHANGED <<status, role, sweep, heartbeat, alive, reg, queued, waiting,
                   budget>>

\* ... the election it waited for is over.
TaskElected(i) ==
    /\ task[i] /\ run[i].at = "idle"
    /\ task' = [task EXCEPT ![i] = FALSE]
    /\ sweep' = IF IsController(i)
                THEN [sweep EXCEPT ![i].at = "read"] ELSE sweep
    /\ UNCHANGED <<status, role, run, heartbeat, alive, reg, queued, waiting,
                   budget>>

\* Mutant: an expired registration stays in the set.
Kept(i) == alive

\* Mutant: a registration counts as expired a beat early.
PrunedEarly(i) == {j \in alive : j = i \/ reg[j] > 1}

\* getInstances drops the ids whose registration has expired, except one's own.
Pruned(i) == {j \in alive : j = i \/ reg[j] > 0}

\* getClientsBefore
Read(i) ==
    /\ run[i].at = "read"
    /\ alive' = Pruned(i)
    /\ run' = [run EXCEPT ![i].at = "decide", ![i].outranked =
                  \E j \in alive \ {i} : reg[j] > 0 /\ Outranks(j, i)]
    /\ UNCHANGED <<status, role, task, sweep, heartbeat, reg, queued, waiting,
                   budget>>

\* updateClientRoles with what was read, and updateRole: a promoted client
\* sweeps before its replica registers.  A stopped handler has no clients.
Decide(i) ==
    LET new == IF run[i].outranked THEN "worker" ELSE "controller"
        changes == Builds(i) /\ role[i] # new
    IN
    /\ run[i].at = "decide"
    /\ role' = IF changes THEN [role EXCEPT ![i] = new] ELSE role
    /\ sweep' = IF changes /\ new = "controller"
                THEN [sweep EXCEPT ![i].at = "read"] ELSE sweep
    /\ run' = [run EXCEPT ![i] = IF changes \/ @.startup
                                 THEN [@ EXCEPT !.at = "register"]
                                 ELSE NoRun]
    /\ UNCHANGED <<status, task, heartbeat, alive, reg, queued, waiting, budget>>

\* updateInstanceRegistration.  The start that waited for it is over.
Register(i) ==
    /\ run[i].at = "register" /\ sweep[i].at = "none"
    /\ reg' = [reg EXCEPT ![i] = RegTtl]
    /\ alive' = IF run[i].startup THEN alive \cup {i} ELSE alive
    /\ heartbeat' = IF status[i] \in {"starting", "started"}
                    THEN [heartbeat EXCEPT ![i] = TRUE] ELSE heartbeat
    /\ run' = [run EXCEPT ![i] = NoRun]
    /\ status' = IF run[i].startup THEN [status EXCEPT ![i] = "started"]
                 ELSE status
    /\ UNCHANGED <<role, task, sweep, queued, waiting, budget>>

\* A backend call of an election fails: the run ends, and with it the task that
\* waited for it.
FailRun(i) ==
    /\ run[i].at # "idle" /\ ~run[i].startup
    /\ budget.fails > 0
    /\ run' = [run EXCEPT ![i] = NoRun]
    /\ sweep' = [sweep EXCEPT ![i] = NoSweep]
    /\ task' = [task EXCEPT ![i] = FALSE]
    /\ budget' = Spent(budget, "fails")
    /\ UNCHANGED <<status, role, heartbeat, alive, reg, queued, waiting>>

---------------------------------------------------------------------------
(* Orphan sweeps.                                                          *)

\* cleanupOrphanedRequests reads the set, and gives up if it is not in it, ...
SweepRead(i) ==
    /\ sweep[i].at = "read"
    /\ sweep' = [sweep EXCEPT ![i] =
          IF IsController(i) /\ i \in alive
          THEN [at |-> "delete", alive |-> alive] ELSE NoSweep]
    /\ UNCHANGED <<status, role, run, task, heartbeat, alive, reg, queued,
                   waiting, budget>>

\* ... and has the backend delete what anyone else owns.
SweepDelete(i) ==
    /\ sweep[i].at = "delete"
    /\ queued' = queued \cap sweep[i].alive
    /\ sweep' = [sweep EXCEPT ![i] = NoSweep]
    /\ UNCHANGED <<status, role, run, task, heartbeat, alive, reg, waiting,
                   budget>>

---------------------------------------------------------------------------
(* Heartbeats and time.                                                    *)

\* The interval's batch sets the registration anew and lists the id again.
Beat(i) ==
    /\ heartbeat[i] /\ (reg[i] # RegTtl \/ i \notin alive)
    /\ reg' = [reg EXCEPT ![i] = RegTtl]
    /\ alive' = alive \cup {i}
    /\ UNCHANGED <<status, role, run, task, sweep, heartbeat, queued, waiting,
                   budget>>

\* An interval passes, in which every replica with a heartbeat has beaten or
\* its batch has failed.
Tick ==
    LET late == {i \in Instances : heartbeat[i] /\ reg[i] # RegTtl} IN
    /\ Cardinality(late) <= budget.misses
    /\ \E i \in Instances : reg[i] > 0
    /\ reg' = [i \in Instances |-> IF reg[i] > 0 THEN reg[i] - 1 ELSE 0]
    /\ budget' = [budget EXCEPT !.misses = @ - Cardinality(late)]
    /\ UNCHANGED <<status, role, run, task, sweep, heartbeat, alive, queued,
                   waiting>>

---------------------------------------------------------------------------
(* Start, stop, crash.                                                     *)

\* doStart builds the clients and waits for the election that registers it.
Start(i) ==
    /\ status[i] = "down" /\ budget.starts > 0
    /\ status' = [status EXCEPT ![i] = "starting"]
    /\ ScheduleClientRoles(i, TRUE)
    /\ budget' = Spent(budget, "starts")
    /\ UNCHANGED <<role, task, sweep, heartbeat, alive, reg, queued, waiting>>

\* doStop, once what this replica has queued is drained or the drain has taken
\* its time (until then it runs as before, without new requests): the health
\* ticks stop and who still waits fails, ...
Stop(i) ==
    /\ status[i] = "started" /\ budget.stops > 0
    /\ status' = [status EXCEPT ![i] = "stopping"]
    /\ queued' = queued \ (waiting \cap {i})
    /\ waiting' = waiting \ {i}
    /\ budget' = Spent(budget, "stops")
    /\ UNCHANGED <<role, run, task, sweep, heartbeat, alive, reg>>

\* ... deregister, unless the backend does not answer in time, ...
Deregister(i) ==
    /\ status[i] = "stopping"
    /\ status' = [status EXCEPT ![i] = "left"]
    /\ \/ /\ alive' = alive \ {i}
          /\ reg' = [reg EXCEPT ![i] = 0]
          /\ UNCHANGED budget
       \/ /\ budget.fails > 0
          /\ budget' = Spent(budget, "fails")
          /\ UNCHANGED <<alive, reg>>
    /\ UNCHANGED <<role, run, task, sweep, heartbeat, queued, waiting>>

\* ... and close: the clients are dropped, and only now the heartbeat stops.
Close(i) ==
    /\ status[i] = "left"
    /\ status' = [status EXCEPT ![i] = "down"]
    /\ role' = [role EXCEPT ![i] = "worker"]
    /\ heartbeat' = [heartbeat EXCEPT ![i] = FALSE]
    /\ UNCHANGED <<run, task, sweep, alive, reg, queued, waiting, budget>>

\* The process dies; its id never comes back.
Crash(i) ==
    /\ status[i] \notin {"down", "dead"} /\ budget.crashes > 0
    /\ status' = [status EXCEPT ![i] = "dead"]
    /\ role' = [role EXCEPT ![i] = "worker"]
    /\ run' = [run EXCEPT ![i] = NoRun]
    /\ task' = [task EXCEPT ![i] = FALSE]
    /\ sweep' = [sweep EXCEPT ![i] = NoSweep]
    /\ heartbeat' = [heartbeat EXCEPT ![i] = FALSE]
    /\ waiting' = waiting \ {i}
    /\ budget' = Spent(budget, "crashes")
    /\ UNCHANGED <<alive, reg, queued>>

---------------------------------------------------------------------------
(* What the queue holds: at most one request of each replica.              *)

Enqueue(i) ==
    /\ status[i] = "started" /\ i \notin queued \cup waiting
    /\ budget.requests > 0
    /\ queued' = queued \cup {i} /\ waiting' = waiting \cup {i}
    /\ budget' = Spent(budget, "requests")
    /\ UNCHANGED <<status, role, run, task, sweep, heartbeat, alive, reg>>

\* A controller admits it, and it completes.
Admit(i, j) ==
    /\ IsController(i) /\ status[i] \in {"starting", "started"}
    /\ j \in queued \cap waiting
    /\ queued' = queued \ {j} /\ waiting' = waiting \ {j}
    /\ UNCHANGED <<status, role, run, task, sweep, heartbeat, alive, reg, budget>>

---------------------------------------------------------------------------

Next ==
    \/ \E i \in Instances :
          \/ Reconcile(i) \/ TaskElected(i) \/ Read(i)
          \/ Decide(i) \/ Register(i) \/ FailRun(i) \/ Beat(i)
          \/ Start(i) \/ Stop(i) \/ Deregister(i)
          \/ Close(i) \/ Crash(i) \/ Enqueue(i)
          \/ SweepRead(i) \/ SweepDelete(i)
    \/ \E i, j \in Instances : Admit(i, j)
    \/ Tick

Spec == Init /\ [][Next]_vars

\* Intervals fire, promises settle and a stop that began ends.  Nobody has to
\* start, stop, crash or queue anything, and no message has to arrive.
Fairness ==
    /\ \A i \in Instances :
          /\ WF_vars(Reconcile(i)) /\ WF_vars(TaskElected(i))
          /\ WF_vars(Read(i)) /\ WF_vars(Decide(i)) /\ WF_vars(Register(i))
          /\ WF_vars(Beat(i))
          /\ WF_vars(Deregister(i)) /\ WF_vars(Close(i))
          /\ WF_vars(SweepRead(i)) /\ WF_vars(SweepDelete(i))
    /\ WF_vars(Tick)

FairSpec == Spec /\ Fairness

---------------------------------------------------------------------------
(* Properties.                                                             *)

Running(i) == status[i] = "started"

\* Until a beat is missed or a replica starts, no sweep deletes the request of
\* a replica that is running, whoever stops, crashes, is promoted or sweeps
\* with what it read before.
SettledWorkKept ==
    budget.misses = MaxMisses /\ budget.starts = MaxStarts =>
        \A i \in Instances : Running(i) /\ i \in waiting => i \in queued

\* Once replicas stop coming and going, exactly one of those running drains the
\* queue and nobody else does, although two may have for a while, and although
\* the one that stopped may have registered itself again on its way out.
EventuallyOneController ==
    <>[](\/ \A i \in Instances : ~Running(i) /\ ~IsController(i)
         \/ \E i \in Instances : /\ Running(i)
                                 /\ \A j \in Instances : IsController(j) <=> j = i)

\* What a replica leaves in the queue when it dies is removed, as long as some
\* replica is left to do it.
OrphansAreSwept ==
    \A i \in Instances :
        (i \in queued /\ status[i] = "dead")
            ~> (i \notin queued \/ \A j \in Instances : ~Running(j))
=============================================================================
