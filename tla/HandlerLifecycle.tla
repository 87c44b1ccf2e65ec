-------------------------- MODULE HandlerLifecycle --------------------------
(***************************************************************************)
(* Starting and stopping one handler, with requests under way (start,      *)
(* doStart, stop, drainClients, awaitInFlightRequests and doStop in        *)
(* index.ts, the waiting requests, the streams and the halting of a client *)
(* in client/index.ts, the path of a request in                            *)
(* client/methods/handleRequest.ts, resetClient and prepareClients in      *)
(* utils/createClients.ts).                                                *)
(*                                                                         *)
(* The handler has one client.  A start builds it, a broadcast may rebuild *)
(* it; each time it is a new object, numbered in the order they are made.  *)
(* A request keeps the object it was given, which counts it in flight and  *)
(* has it in its map of waiting requests while it waits.                   *)
(*                                                                         *)
(* One action per await.  Timers may fire at any time; the drain budget is *)
(* a timer.  Who admits a waiting request, this replica's drain loop or a  *)
(* peer's, depends on the role, which does not change here.                *)
(***************************************************************************)
EXTENDS Integers

CONSTANTS
    Requests,      \* the calls of handleRequest
    MaxStarts,     \* bound: calls of start
    MaxStops,      \* bound: calls of stop
    MaxRebuilds,   \* bound: rebuilds of the client
    MaxFails       \* bound: starts that fail

ASSUME LifecycleAssumption ==
    {MaxStarts, MaxStops, MaxRebuilds, MaxFails} \subseteq Nat

VARIABLES
    status,      \* "stopped", "starting", "started" or "stopping"
    startp,      \* startPromise: where the start is
    stopp,       \* stopPromise: where the stop is
    byCaller,    \* stoppedByCaller
    restart,     \* a start waits for the stop to end
    threw,       \* the last stop rejected
    subscribed,  \* the backend delivers messages to this handler
    made,        \* client objects made so far
    cur,         \* the registered client, 0: none
    swap,        \* the client a rebuild has taken out, 0: none
    halted,      \* the clients with admissionHalted
    watched,     \* the client the stop is draining or awaiting
    role,        \* this replica's role for the client
    pc,          \* where each request is
    on,          \* the client it was given, 0: none yet
    waiting,     \* the client that has it in waitingRequests, 0: none
    entry,       \* it has an entry in the queue
    slot,        \* it holds a concurrency slot
    answer,      \* what its caller was told
    budget,      \* what is left of the bounds
    elapsed,     \* history: the waits of this stop that left something
    stray,       \* history: clients a rebuild replaced or a failed start left
    missed,      \* history: requests that waited where no stop would look
    late,        \* history: a rebuild ended while or after the handler stopped
    wanted       \* history: what the last call of start or stop asked for

handler == <<status, startp, stopp, byCaller, restart, threw>>
clients == <<made, cur, swap, halted>>
requests == <<pc, on, waiting, entry, slot, answer>>
history == <<elapsed, stray, missed, late, wanted>>
vars == <<handler, subscribed, clients, watched, role, requests, budget, history>>

---------------------------------------------------------------------------

\* The client objects, numbered as they are made.
Objects == Nat \ {0}

TypeOK ==
    /\ status \in {"stopped", "starting", "started", "stopping"}
    /\ startp \in {"none", "subscribe", "build", "roles"}
    /\ stopp \in {"none", "start", "drain", "await", "streams", "deregister",
                  "close"}
    /\ {byCaller, restart, threw, subscribed} \subseteq BOOLEAN
    /\ made \in Nat /\ cur \in Nat /\ swap \in Nat /\ watched \in Nat
    /\ halted \subseteq Objects /\ stray \subseteq Objects
    /\ role \in {"controller", "worker"}
    /\ pc \in [Requests -> {"new", "start", "lookup", "enter", "probe", "parked",
                            "pre", "upstream", "retry", "backoff", "stream",
                            "abandon", "finish", "done"}]
    /\ on \in [Requests -> Nat]
    /\ waiting \in [Requests -> Nat]
    /\ entry \in [Requests -> BOOLEAN] /\ slot \in [Requests -> BOOLEAN]
    /\ answer \in [Requests -> {"none", "ok", "stopping", "stopped", "timeout",
                                "notFound", "failed"}]
    /\ elapsed \subseteq {"drain", "await"}
    /\ missed \subseteq Requests
    /\ late \in BOOLEAN
    /\ wanted \in {"up", "down", "overruled"}

Spend(what) ==
    /\ budget[what] > 0
    /\ budget' = [budget EXCEPT ![what] = @ - 1]

\* A request inside handleRequest of its client, from trackRequestStarted on.
InFlight(q) ==
    pc[q] \in {"probe", "parked", "pre", "upstream", "retry", "backoff",
               "stream", "abandon", "finish"}

---------------------------------------------------------------------------
(* Starting.                                                               *)

\* doStart begins.
Begin ==
    /\ status' = "starting"
    /\ startp' = "subscribe"

\* start: during a stop it waits; a start under way is shared.
CallStart ==
    /\ Spend("starts")
    /\ wanted' = "up"
    /\ \/ /\ stopp # "none"
          /\ restart' = TRUE
          /\ UNCHANGED <<status, startp, byCaller>>
       \/ /\ stopp = "none"
          /\ byCaller' = FALSE
          /\ IF status = "stopped" THEN Begin ELSE UNCHANGED <<status, startp>>
          /\ UNCHANGED restart
    /\ UNCHANGED <<stopp, threw, subscribed, clients, watched, role, requests,
                   elapsed, stray, missed, late>>

\* The stop it waited for has ended.
StopEnded ==
    /\ restart /\ stopp = "none"
    /\ restart' = FALSE
    /\ UNCHANGED <<stopp, threw, subscribed, clients, watched, role, requests,
                   budget, elapsed, stray, missed, late>>

\* It starts, ...
Restart ==
    /\ StopEnded /\ ~ threw
    /\ byCaller' = FALSE
    /\ IF status = "stopped" THEN Begin ELSE UNCHANGED <<status, startp>>
    /\ UNCHANGED wanted

\* ... or rejects as the stop did, and the handler stays stopped.
RestartRejected ==
    /\ StopEnded /\ threw
    /\ wanted' = IF wanted = "up" THEN "overruled" ELSE wanted
    /\ UNCHANGED <<status, startp, byCaller>>

Subscribe ==
    /\ startp = "subscribe"
    /\ subscribed' = TRUE
    /\ startp' = "build"
    /\ UNCHANGED <<status, stopp, byCaller, restart, threw, clients, watched,
                   role, requests, budget, history>>

\* The stored templates are built: an equal client is kept, and a rebuild that
\* is under way has the lock and builds it.
BuildClients ==
    /\ startp = "build"
    /\ IF cur = 0 /\ swap = 0
       THEN cur' = made + 1 /\ made' = made + 1
       ELSE UNCHANGED <<cur, made>>
    /\ startp' = "roles"
    /\ UNCHANGED <<status, stopp, byCaller, restart, threw, subscribed, swap,
                   halted, watched, role, requests, budget, history>>

Started ==
    /\ startp = "roles"
    /\ status' = "started"
    /\ startp' = "none"
    /\ pc' = [q \in Requests |-> IF pc[q] = "start" THEN "lookup" ELSE pc[q]]
    /\ UNCHANGED <<stopp, byCaller, restart, threw, subscribed, clients, watched,
                   role, on, waiting, entry, slot, answer, budget, history>>

\* A start fails: back to stopped, for everyone who waits for it.  The backend
\* is closed in the same step, which the code awaits after the reset.
StartFails ==
    /\ startp # "none" /\ Spend("fails")
    /\ status' = "stopped"
    /\ startp' = "none"
    /\ subscribed' = FALSE
    /\ pc' = [q \in Requests |-> IF pc[q] = "start" THEN "done" ELSE pc[q]]
    /\ answer' = [q \in Requests |-> IF pc[q] = "start" THEN "failed"
                                     ELSE answer[q]]
    /\ wanted' = IF wanted = "up" THEN "overruled" ELSE wanted
    /\ stray' = stray \cup ({cur} \ {0})
    /\ missed' = missed \cup {q \in Requests : waiting[q] # 0}
    /\ UNCHANGED <<stopp, byCaller, restart, threw, clients, watched, role, on,
                   waiting, entry, slot, elapsed, late>>

---------------------------------------------------------------------------
(* Stopping.                                                               *)

\* Mutant: a stop during a start finds nothing to stop.
StopsOnlyStarted ==
    /\ status # "started"
    /\ byCaller' = TRUE
    /\ UNCHANGED stopp

\* A stop during a start waits for it; with nothing started it is recorded.
StopsLater ==
    \/ /\ status = "starting"
       /\ stopp' = "start"
       /\ UNCHANGED byCaller
    \/ /\ status = "stopped"
       /\ byCaller' = TRUE
       /\ UNCHANGED stopp

\* doStop begins, with the clients of the moment to drain.
Drains ==
    /\ status' = "stopping"
    /\ stopp' = "drain"
    /\ watched' = cur
    /\ elapsed' = {}

\* stop: while one is under way it is shared.
CallStop ==
    /\ Spend("stops")
    /\ wanted' = IF restart THEN "overruled" ELSE "down"
    /\ \/ /\ stopp # "none"
          /\ UNCHANGED <<status, stopp, byCaller, watched, elapsed>>
       \/ /\ stopp = "none"
          /\ StopsLater
          /\ UNCHANGED <<status, watched, elapsed>>
       \/ /\ stopp = "none" /\ status = "started"
          /\ Drains
          /\ UNCHANGED byCaller
    /\ UNCHANGED <<startp, restart, threw, subscribed, clients, role, requests,
                   stray, missed, late>>

\* finishStartupThenStop: a start that failed leaves nothing to stop.
StartSettled ==
    /\ stopp = "start" /\ startp = "none"
    /\ \/ /\ status = "started"
          /\ Drains
          /\ UNCHANGED <<byCaller, threw>>
       \/ /\ status = "stopped"
          /\ stopp' = "none"
          /\ threw' = FALSE
          /\ byCaller' = TRUE
          /\ UNCHANGED <<status, watched, elapsed>>
    /\ UNCHANGED <<startp, restart, subscribed, clients, role, requests, budget,
                   stray, missed, late, wanted>>

\* hasOutstandingWork, of the client that is drained.
Outstanding ==
    /\ watched # 0
    /\ \E q \in Requests :
          \/ InFlight(q) /\ on[q] = watched
          \/ role = "controller" /\ pc[q] = "done" /\ slot[q]
          \/ entry[q]

\* drainClients has ended, drained or out of time: what is outstanding at the
\* halt.
DrainEnds == elapsed' = IF Outstanding THEN {"drain"} ELSE {}

\* cancelWaitingRequests: everyone in the registered client's map.
Cancelled == {q \in Requests : waiting[q] # 0 /\ waiting[q] = cur}

\* After the drain the registered client admits no more and what waits in it
\* fails; awaitInFlightRequests begins.
HaltAndCancel ==
    /\ stopp = "drain"
    /\ DrainEnds
    /\ halted' = halted \cup ({cur} \ {0})
    /\ pc' = [q \in Requests |-> IF q \in Cancelled THEN "abandon" ELSE pc[q]]
    /\ answer' = [q \in Requests |-> IF q \in Cancelled THEN "stopped"
                                     ELSE answer[q]]
    /\ waiting' = [q \in Requests |-> IF q \in Cancelled THEN 0 ELSE waiting[q]]
    /\ stopp' = "await"
    /\ watched' = cur
    /\ UNCHANGED <<status, startp, byCaller, restart, threw, subscribed, made, cur,
                   swap, role, on, entry, slot, budget, stray, missed, late,
                   wanted>>

\* Mutant: what is queued is counted, and not what is upstream.
NothingQueued == ~ \E q \in Requests : pc[q] = "parked" /\ on[q] = watched

\* countInFlight is zero.
NothingInFlight == ~ \E q \in Requests : InFlight(q) /\ on[q] = watched

\* awaitInFlightRequests: everything came back, ...
AllBack ==
    /\ stopp = "await" /\ NothingInFlight
    /\ stopp' = "deregister"
    /\ UNCHANGED <<status, startp, byCaller, restart, threw, subscribed, clients,
                   watched, role, requests, budget, history>>

\* ... or the time is up, and the streams are closed.
CloseStreams ==
    /\ stopp = "await" /\ ~ NothingInFlight
    /\ elapsed' = elapsed \cup {"await"}
    /\ pc' = [q \in Requests |-> IF pc[q] = "stream" /\ on[q] = watched
                                 THEN "finish" ELSE pc[q]]
    /\ stopp' = "streams"
    /\ UNCHANGED <<status, startp, byCaller, restart, threw, subscribed, clients,
                   watched, role, on, waiting, entry, slot, answer, budget, stray,
                   missed, late, wanted>>

\* They have ended, or took too long.
StreamsClosed ==
    /\ stopp = "streams"
    /\ stopp' = "deregister"
    /\ UNCHANGED <<status, startp, byCaller, restart, threw, subscribed, clients,
                   watched, role, requests, budget, history>>

\* Mutant: a deregistration that fails ends the stop where it is.
MayThrow == {"close", "none"}

\* Deregistered, out of time or failed: the finally block is next.
AfterDeregister == {"close"}

\* A deregistration that fails rejects the stop, once the rest is done.
Deregister ==
    /\ stopp = "deregister"
    /\ stopp' \in AfterDeregister
    /\ threw' \in BOOLEAN
    /\ UNCHANGED <<status, startp, byCaller, restart, subscribed, clients, watched,
                   role, requests, budget, history>>

\* clients.clear.
ClearedClients == 0

\* The finally block: closed, cleared, stopped.
Close ==
    /\ stopp = "close"
    /\ subscribed' = FALSE
    /\ cur' = ClearedClients
    /\ status' = "stopped"
    /\ stopp' = "none"
    /\ byCaller' = TRUE
    /\ UNCHANGED <<startp, restart, threw, made, swap, halted, watched, role,
                   requests, budget, history>>

---------------------------------------------------------------------------
(* A rebuild of the client.                                                *)

\* resetClient takes the client out; its waiters stay in its map.
ResetClient ==
    /\ subscribed /\ cur # 0 /\ swap = 0 /\ Spend("rebuilds")
    /\ swap' = cur
    /\ cur' = 0
    /\ UNCHANGED <<handler, subscribed, made, halted, watched, role, requests,
                   history>>

\* Mutant: the new client does not adopt the waiters.
NotAdopted(q) == waiting[q]

\* adoptWaitingRequests.
Adopted(q) == IF waiting[q] = swap THEN made + 1 ELSE waiting[q]

\* The new client is registered and takes over the waiters of the old one.
RegisterClient ==
    /\ swap # 0
    /\ made' = made + 1
    /\ cur' = made + 1
    /\ swap' = 0
    /\ waiting' = [q \in Requests |-> Adopted(q)]
    /\ stray' = stray \cup {swap}
    /\ late' = (late \/ status \in {"stopping", "stopped"})
    /\ UNCHANGED <<handler, subscribed, halted, watched, role, pc, on, entry, slot,
                   answer, budget, elapsed, missed, wanted>>

---------------------------------------------------------------------------
(* Requests.                                                               *)

Goes(q, to) == pc' = [pc EXCEPT ![q] = to]
Told(q, what) == answer' = [answer EXCEPT ![q] = what]

\* Everything but the requests.
others == <<handler, subscribed, clients, watched, role, budget, history>>

\* handleRequest of the handler: refused while or after it stops; it starts a
\* handler that was never stopped.
Call(q) ==
    /\ pc[q] = "new"
    /\ \/ /\ stopp # "none" \/ byCaller
          /\ Goes(q, "done")
          /\ Told(q, IF stopp # "none" THEN "stopping" ELSE "stopped")
          /\ UNCHANGED <<status, startp>>
       \/ /\ stopp = "none" /\ ~ byCaller
          /\ Goes(q, IF status = "started" THEN "lookup" ELSE "start")
          /\ IF status = "stopped" THEN Begin ELSE UNCHANGED <<status, startp>>
          /\ UNCHANGED answer
    /\ UNCHANGED <<stopp, byCaller, restart, threw, subscribed, clients, watched,
                   role, on, waiting, entry, slot, budget, history>>

\* Mutant: it polls for its client without a deadline.
LookupForever(q) ==
    /\ pc[q] = "lookup" /\ cur # 0
    /\ on' = [on EXCEPT ![q] = cur]
    /\ Goes(q, "enter")
    /\ UNCHANGED <<others, waiting, entry, slot, answer>>

\* waitForClient.
Lookup(q) ==
    /\ pc[q] = "lookup"
    /\ IF cur # 0
       THEN /\ on' = [on EXCEPT ![q] = cur]
            /\ Goes(q, "enter")
            /\ UNCHANGED answer
       ELSE /\ Goes(q, "done")
            /\ Told(q, "notFound")
            /\ UNCHANGED on
    /\ UNCHANGED <<others, waiting, entry, slot>>

\* A halted client admits nothing: the request is abandoned.
Halted(q) ==
    /\ on[q] \in halted
    /\ Goes(q, "abandon")
    /\ Told(q, "stopped")

\* handleRequest of the client, to the call of the fast path.
Enter(q) ==
    /\ pc[q] = "enter"
    /\ \/ Halted(q)
       \/ on[q] \notin halted /\ Goes(q, "probe") /\ UNCHANGED answer
    /\ UNCHANGED <<others, on, waiting, entry, slot>>

\* registerWaitingRequest, in the map of its client.
Waits(q) ==
    /\ waiting' = [waiting EXCEPT ![q] = on[q]]
    /\ missed' = IF \/ on[q] \in halted \/ on[q] \notin {cur, swap}
                    \/ status = "stopped"
                 THEN missed \cup {q} ELSE missed

\* tryAdmitImmediately admits it, or it waits in its client's map and queues.
Probe(q) ==
    /\ pc[q] = "probe"
    /\ \/ /\ Goes(q, "pre")
          /\ slot' = [slot EXCEPT ![q] = TRUE]
          /\ UNCHANGED <<waiting, entry, missed>>
       \/ /\ Goes(q, "parked")
          /\ Waits(q)
          /\ entry' = [entry EXCEPT ![q] = TRUE]
          /\ UNCHANGED slot
    /\ UNCHANGED <<handler, subscribed, clients, watched, role, on, answer, budget,
                   elapsed, stray, late, wanted>>

\* requestReady reaches it: from this replica's drain loop or from a peer's.
Admit(q) ==
    /\ pc[q] = "parked" /\ subscribed
    /\ role = "controller" => cur # 0 /\ cur \notin halted
    /\ Goes(q, "pre")
    /\ waiting' = [waiting EXCEPT ![q] = 0]
    /\ slot' = [slot EXCEPT ![q] = TRUE]
    /\ UNCHANGED <<others, on, entry, answer>>

\* cleanupTimeout.
TimeOut(q) ==
    /\ pc[q] = "parked"
    /\ Goes(q, "abandon")
    /\ Told(q, "timeout")
    /\ waiting' = [waiting EXCEPT ![q] = 0]
    /\ UNCHANGED <<others, on, entry, slot>>

\* Mutant: what was admitted is sent.
SendsAdmitted(q) == Goes(q, "upstream") /\ UNCHANGED answer

\* The last look at admissionHalted, after the interceptor and the token.
SendsUnlessHalted(q) ==
    \/ Halted(q)
    \/ on[q] \notin halted /\ Goes(q, "upstream") /\ UNCHANGED answer

Dispatch(q) ==
    /\ pc[q] = "pre"
    /\ SendsUnlessHalted(q)
    /\ UNCHANGED <<others, on, waiting, entry, slot>>

\* The upstream answers, with a body, a stream or something to retry.
Respond(q) ==
    /\ pc[q] = "upstream"
    /\ \E to \in {"finish", "stream", "retry"} : Goes(q, to)
    /\ UNCHANGED <<others, on, waiting, entry, slot, answer>>

\* The failed attempt is announced, and the back-off begins.
BackOff(q) ==
    /\ pc[q] = "retry"
    /\ slot' = [slot EXCEPT ![q] = FALSE]
    /\ \/ Halted(q) /\ UNCHANGED <<waiting, missed>>
       \/ /\ on[q] \notin halted
          /\ Goes(q, "backoff")
          /\ Waits(q)
          /\ UNCHANGED answer
    /\ UNCHANGED <<handler, subscribed, clients, watched, role, on, entry, budget,
                   elapsed, stray, late, wanted>>

\* waitOutBackoff ends, and the next attempt asks for the fast path.
Retry(q) ==
    /\ pc[q] = "backoff"
    /\ waiting' = [waiting EXCEPT ![q] = 0]
    /\ \/ Halted(q)
       \/ on[q] \notin halted /\ Goes(q, "probe") /\ UNCHANGED answer
    /\ UNCHANGED <<others, on, entry, slot>>

EndStream(q) ==
    /\ pc[q] = "stream"
    /\ Goes(q, "finish")
    /\ UNCHANGED <<others, on, waiting, entry, slot, answer>>

\* publishRequestDone; what it held is released by its own clean-up.
Finish(q) ==
    /\ pc[q] = "finish"
    /\ Goes(q, "done")
    /\ Told(q, "ok")
    /\ UNCHANGED <<others, on, waiting, entry, slot>>

\* releaseAbandonedRequest, which hands the slot back before it announces.
Abandon(q) ==
    /\ pc[q] = "abandon"
    /\ Goes(q, "done")
    /\ slot' = [slot EXCEPT ![q] = FALSE]
    /\ UNCHANGED <<others, on, waiting, entry, answer>>

\* finalizeOwnedRequest has taken the entry and the slot away.
Finalize(q) ==
    /\ pc[q] = "done" /\ (entry[q] \/ slot[q])
    /\ entry' = [entry EXCEPT ![q] = FALSE]
    /\ slot' = [slot EXCEPT ![q] = FALSE]
    /\ UNCHANGED <<others, pc, on, waiting, answer>>

---------------------------------------------------------------------------

Init ==
    /\ status = "stopped" /\ startp = "none" /\ stopp = "none"
    /\ byCaller = FALSE /\ restart = FALSE /\ threw = FALSE /\ subscribed = FALSE
    /\ made = 0 /\ cur = 0 /\ swap = 0 /\ halted = {} /\ watched = 0
    /\ role \in {"controller", "worker"}
    /\ pc = [q \in Requests |-> "new"]
    /\ on = [q \in Requests |-> 0]
    /\ waiting = [q \in Requests |-> 0]
    /\ entry = [q \in Requests |-> FALSE]
    /\ slot = [q \in Requests |-> FALSE]
    /\ answer = [q \in Requests |-> "none"]
    /\ budget = [starts |-> MaxStarts, stops |-> MaxStops,
                 rebuilds |-> MaxRebuilds, fails |-> MaxFails]
    /\ elapsed = {} /\ stray = {} /\ missed = {} /\ late = FALSE
    /\ wanted = "overruled"

StartSteps ==
    \/ Restart \/ RestartRejected \/ Subscribe \/ BuildClients \/ Started
    \/ StartFails

StopSteps ==
    \/ StartSettled \/ HaltAndCancel \/ AllBack \/ CloseStreams
    \/ StreamsClosed \/ Deregister \/ Close

\* What a request does by itself, and what its timers do.
RequestSteps(q) ==
    \/ Lookup(q) \/ Enter(q) \/ Probe(q) \/ TimeOut(q) \/ Dispatch(q)
    \/ BackOff(q) \/ Retry(q) \/ Finish(q) \/ Abandon(q) \/ Finalize(q)

\* What others do: the callers, peers and upstreams.
Environment ==
    \/ CallStart \/ CallStop \/ ResetClient
    \/ \E q \in Requests : Call(q) \/ Admit(q) \/ Respond(q) \/ EndStream(q)

Next ==
    \/ StartSteps \/ StopSteps \/ RegisterClient \/ Environment
    \/ \E q \in Requests : RequestSteps(q)

Spec == Init /\ [][Next]_vars

\* The handler's own steps are taken, and its timers fire; callers, peers and
\* upstreams promise nothing.
FairSpec ==
    /\ Spec
    /\ WF_vars(StartSteps) /\ WF_vars(StopSteps) /\ WF_vars(RegisterClient)
    /\ \A q \in Requests : WF_vars(RequestSteps(q))

---------------------------------------------------------------------------
(* Properties.                                                             *)

\* A request given to a client that no stop looks after.
Orphan(q) == on[q] \in stray \cup ({swap} \ {0})

\* Every stop ends with the handler stopped, though the upstream never answers,
\* a stream never ends and the backend cannot be told.
StopEnds == stopp # "none" ~> status = "stopped"

\* Every request that gets its client is answered or on its way upstream in the
\* end: a stop, a failed start or a rebuild leaves none waiting.
NobodyWaitsForever ==
    \A q \in Requests :
        pc[q] \in {"start", "lookup", "parked", "pre"} ~>
            pc[q] \in {"upstream", "done"}

\* Once a stop has ended, nothing waits for admission or for its next attempt:
\* cancelWaitingRequests reached it, in the client that had adopted it too.
NothingLeftWaiting ==
    byCaller /\ stopp = "none" /\ ~ late =>
        \A q \in Requests :
            waiting[q] # 0 => q \in missed \/ waiting[q] = swap

\* Nothing goes upstream from a client the handler has dropped.
NothingSentAfterStop ==
    [][\A q \in Requests :
          pc'[q] = "upstream" /\ pc[q] # "upstream" =>
              on[q] = cur \/ Orphan(q) \/ late]_vars

\* The backend is not closed over a slot the client has in use, unless the time
\* to wait for it ran out; nor, when nothing was outstanding at the halt, over a
\* completion the controller still has to apply.
SlotsReturnedBeforeClose ==
    stopp = "close" /\ ~ late =>
        \A q \in Requests : slot[q] /\ on[q] = watched =>
            \/ "await" \in elapsed
            \/ pc[q] = "done" /\ (role = "worker" \/ "drain" \in elapsed)

\* When nothing is under way the handler is in the state the last call of start
\* or stop asked for, unless that start rejected (it failed, or the stop it had
\* waited for did), or that stop shared a stop that a start was already waiting
\* for.
LastCallWins ==
    startp = "none" /\ stopp = "none" /\ ~ restart =>
        /\ wanted = "up" => status = "started" /\ ~ byCaller
        /\ wanted = "down" => status = "stopped" /\ byCaller

=============================================================================
