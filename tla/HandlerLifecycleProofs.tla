----------------------- MODULE HandlerLifecycleProofs -----------------------
(***************************************************************************)
(* What starting, stopping and rebuilding keep, for any number of requests,*)
(* calls of start and stop, rebuilds and failed starts.                    *)
(***************************************************************************)
EXTENDS HandlerLifecycle, TLAPS

USE DEF handler, clients, requests, history, others, Goes, Told

---------------------------------------------------------------------------
(* The invariants.                                                         *)

\* doStop is past its drain: the client is halted, its waiters cancelled.
Halting == {"await", "streams", "deregister", "close"}

\* The promises and the status go together, and only a stopped handler can
\* have been stopped by its caller.
Phases ==
    /\ status = "starting" <=> startp # "none"
    /\ status = "stopping" <=> stopp \in {"drain"} \cup Halting
    /\ byCaller => status = "stopped"

\* What the last call asked for is so, or somebody is at it.
LastCall ==
    /\ wanted = "up" =>
          \/ restart
          \/ stopp = "none" /\ ~ byCaller /\ status \in {"starting", "started"}
    /\ wanted = "down" =>
          /\ ~ restart
          /\ stopp # "none" \/ byCaller

\* A request has a client from its lookup on, waits only where it can be
\* admitted or retried, and has a slot only once admitted.
Placed ==
    /\ {made, cur, swap} \subseteq 0 .. made
    /\ \A q \in Requests :
          /\ on[q] \in 0 .. made
          /\ pc[q] \in {"new", "start", "lookup"} => on[q] = 0
          /\ on[q] = 0 => pc[q] \in {"new", "start", "lookup", "done"}
          /\ waiting[q] # 0 => pc[q] \in {"parked", "backoff"}
          /\ slot[q] => on[q] # 0 /\ pc[q] \in {"pre", "upstream", "retry",
                                   "stream", "abandon", "finish", "done"}

\* Every client that was made is registered, halted, or one that no stop sees.
Accounted ==
    /\ swap # 0 => cur = 0
    /\ ~ late => \A o \in 1 .. made : o \in {cur, swap} \cup stray \cup halted

\* Whoever waits does so in the registered client or the one being replaced.
WaitersKnown ==
    ~ late => \A q \in Requests :
        waiting[q] # 0 => q \in missed \/ waiting[q] \in {cur, swap}

\* Past its drain a stop has halted the registered client and emptied its map,
\* and nobody enters it.
MapEmptied ==
    ~ late =>
        /\ stopp \in Halting => cur = 0 \/ cur \in halted
        /\ stopp \in Halting \/ status = "stopped" =>
              \A q \in Requests :
                  waiting[q] # 0 => q \in missed \/ waiting[q] = swap

\* The client the stop looks at: until it is halted it is the registered one,
\* then nothing of it is in flight once awaited, nor is anything of it left
\* when nothing was outstanding at the halt.
Watched ==
    /\ stopp = "drain" /\ ~ late => cur \in {0, watched}
    /\ stopp \in Halting => watched = 0 \/ watched \in halted
    /\ stopp = "streams" => "await" \in elapsed
    /\ stopp \in {"deregister", "close"} /\ "await" \notin elapsed =>
          \A q \in Requests :
              InFlight(q) /\ on[q] = watched => pc[q] = "abandon" /\ ~ slot[q]
    /\ stopp \in Halting /\ ~ late /\ role = "controller"
          /\ "drain" \notin elapsed =>
          \A q \in Requests :
              on[q] = watched /\ watched # 0 =>
                  pc[q] \in {"enter", "abandon", "done"} /\ ~ slot[q]

Inv ==
    /\ TypeOK /\ Phases /\ LastCall /\ Placed /\ Accounted
    /\ WaitersKnown /\ MapEmptied /\ Watched

---------------------------------------------------------------------------
(* Every step keeps them.                                                  *)

LEMMA TypeOKKept ==
  ASSUME Inv, [Next]_vars
  PROVE  TypeOK'
<1>1. CASE StartSteps
  <2>1. CASE Restart
    BY <2>1 DEF Restart, StopEnded, Begin, Inv, TypeOK, Objects
  <2>2. CASE Subscribe
    BY <2>2 DEF Subscribe, Inv, TypeOK, Objects
  <2>3. CASE BuildClients
    BY <2>3 DEF BuildClients, Inv, TypeOK, Objects
  <2>4. CASE Started
    BY <2>4 DEF Started, Inv, TypeOK, Objects
  <2>5. CASE StartFails
    BY <2>5 DEF StartFails, Spend, Inv, TypeOK, Objects
  <2>6. CASE RestartRejected
    BY <2>6 DEF RestartRejected, StopEnded, Inv, TypeOK, Objects
  <2> QED BY <1>1, <2>1, <2>2, <2>3, <2>4, <2>5, <2>6 DEF StartSteps
<1>2. CASE StopSteps
  <2>1. CASE StartSettled
    BY <2>1 DEF StartSettled, Drains, Inv, TypeOK, Objects
  <2>2. CASE HaltAndCancel
    BY <2>2
      DEF HaltAndCancel, DrainEnds, Cancelled, Outstanding, Inv, TypeOK,
          Objects
  <2>3. CASE AllBack
    BY <2>3 DEF AllBack, NothingInFlight, Inv, TypeOK, Objects
  <2>4. CASE CloseStreams
    BY <2>4 DEF CloseStreams, NothingInFlight, Inv, TypeOK, Objects
  <2>5. CASE StreamsClosed
    BY <2>5 DEF StreamsClosed, Inv, TypeOK, Objects
  <2>6. CASE Deregister
    BY <2>6 DEF Deregister, AfterDeregister, Inv, TypeOK, Objects
  <2>7. CASE Close
    BY <2>7 DEF Close, ClearedClients, Inv, TypeOK, Objects
  <2> QED BY <1>2, <2>1, <2>2, <2>3, <2>4, <2>5, <2>6, <2>7 DEF StopSteps
<1>3. CASE RegisterClient
  BY <1>3 DEF RegisterClient, Adopted, Inv, TypeOK, Objects
<1>4. CASE CallStart
  BY <1>4, ZenonT(60) DEF CallStart, Begin, Spend, Inv, TypeOK, Objects
<1>5. CASE CallStop
  <2>1. wanted' \in {"up", "down", "overruled"}
    BY <1>5 DEF CallStop
  <2>2. CASE UNCHANGED <<status, stopp, byCaller, watched, elapsed>>
    BY <1>5, <2>1, <2>2 DEF CallStop, Inv, TypeOK, Objects
  <2>3. CASE StopsLater /\ UNCHANGED <<status, watched, elapsed>>
    BY <1>5, <2>1, <2>3, ZenonT(60) DEF CallStop, StopsLater, Inv, TypeOK, Objects
  <2>4. CASE Drains /\ UNCHANGED byCaller
    BY <1>5, <2>1, <2>4 DEF CallStop, Drains, Inv, TypeOK, Objects
  <2> QED BY <1>5, <2>2, <2>3, <2>4 DEF CallStop
<1>6. CASE ResetClient
  BY <1>6 DEF ResetClient, Spend, Inv, TypeOK, Objects
<1>7. ASSUME NEW q \in Requests,
             Call(q) \/ Admit(q) \/ Respond(q) \/ EndStream(q)
      PROVE  TypeOK'
  <2>1. CASE Call(q)
    BY <2>1 DEF Call, Call, Begin, Inv, TypeOK, Objects
  <2>2. CASE Admit(q)
    BY <2>2 DEF Admit, Admit, Inv, TypeOK, Objects
  <2>3. CASE Respond(q)
    BY <2>3 DEF Respond, Respond, Inv, TypeOK, Objects
  <2>4. CASE EndStream(q)
    BY <2>4 DEF EndStream, EndStream, Inv, TypeOK, Objects
  <2> QED BY <1>7, <2>1, <2>2, <2>3, <2>4
<1>8. ASSUME NEW q \in Requests, RequestSteps(q)
      PROVE  TypeOK'
  <2>1. CASE Lookup(q)
    BY <2>1 DEF Lookup, Inv, TypeOK, Objects
  <2>2. CASE Enter(q)
    BY <2>2 DEF Enter, Halted, Inv, TypeOK, Objects
  <2>3. CASE Probe(q)
    <3>1. UNCHANGED <<handler, subscribed, clients, watched, role, on, answer,
                      elapsed, stray, late, wanted>>
      BY <2>3 DEF Probe
    <3>2. pc' = [pc EXCEPT ![q] = "pre"] \/ pc' = [pc EXCEPT ![q] = "parked"]
      BY <2>3 DEF Probe
    <3>3. waiting' \in [Requests -> Nat] /\ missed' \subseteq Requests
      BY <2>3 DEF Probe, Waits, Inv, TypeOK
    <3>4. entry' \in [Requests -> BOOLEAN] /\ slot' \in [Requests -> BOOLEAN]
      BY <2>3 DEF Probe, Inv, TypeOK
    <3> QED BY <3>1, <3>2, <3>3, <3>4 DEF Inv, TypeOK, Objects
  <2>4. CASE TimeOut(q)
    BY <2>4 DEF TimeOut, Inv, TypeOK, Objects
  <2>5. CASE Dispatch(q)
    BY <2>5 DEF Dispatch, SendsUnlessHalted, Halted, Inv, TypeOK, Objects
  <2>6. CASE BackOff(q)
    BY <2>6 DEF BackOff, Halted, Waits, Inv, TypeOK, Objects
  <2>7. CASE Retry(q)
    BY <2>7 DEF Retry, Halted, Inv, TypeOK, Objects
  <2>8. CASE Finish(q)
    BY <2>8 DEF Finish, Inv, TypeOK, Objects
  <2>9. CASE Abandon(q)
    BY <2>9 DEF Abandon, Inv, TypeOK, Objects
  <2>10. CASE Finalize(q)
    BY <2>10 DEF Finalize, Inv, TypeOK, Objects
  <2> QED BY <1>8, <2>1, <2>2, <2>3, <2>4, <2>5, <2>6, <2>7, <2>8, <2>9, <2>10
            DEF RequestSteps
<1>9. CASE UNCHANGED vars
  BY <1>9 DEF vars, Inv, TypeOK, Objects
<1> QED BY <1>1, <1>2, <1>3, <1>4, <1>5, <1>6, <1>7, <1>8, <1>9
          DEF Next, Environment

LEMMA PhasesKept ==
  ASSUME Inv, [Next]_vars
  PROVE  Phases'
<1>1. CASE StartSteps
  BY <1>1
    DEF StartSteps, Restart, RestartRejected, StopEnded, Subscribe, BuildClients, Started, StartFails,
        Begin, Spend, Inv, Phases, Halting, TypeOK
<1>2. CASE StopSteps
  BY <1>2
    DEF StopSteps, StartSettled, Drains, HaltAndCancel, DrainEnds, Cancelled,
        AllBack, CloseStreams, StreamsClosed, Deregister, AfterDeregister,
        Close, ClearedClients, NothingInFlight, Outstanding, Inv, Phases,
        Halting, TypeOK
<1>3. CASE RegisterClient
  BY <1>3 DEF RegisterClient, Adopted, Inv, Phases, Halting, TypeOK
<1>4. CASE CallStart
  BY <1>4 DEF CallStart, Begin, Spend, Inv, Phases, Halting, TypeOK
<1>5. CASE CallStop
  BY <1>5 DEF CallStop, StopsLater, Drains, Spend, Inv, Phases, Halting, TypeOK
<1>6. CASE ResetClient
  BY <1>6 DEF ResetClient, Spend, Inv, Phases, Halting, TypeOK
<1>7. ASSUME NEW q \in Requests,
             Call(q) \/ Admit(q) \/ Respond(q) \/ EndStream(q)
      PROVE  Phases'
  BY <1>7
    DEF Call, Begin, Admit, Respond, EndStream, Inv, Phases, Halting, TypeOK
<1>8. ASSUME NEW q \in Requests, RequestSteps(q)
      PROVE  Phases'
  BY <1>8
    DEF RequestSteps, Lookup, Enter, Halted, Probe, Waits, TimeOut, Dispatch,
        SendsUnlessHalted, BackOff, Retry, Finish, Abandon, Finalize, Inv,
        Phases, Halting, TypeOK
<1>9. CASE UNCHANGED vars
  BY <1>9 DEF vars, Inv, Phases, Halting, TypeOK
<1> QED BY <1>1, <1>2, <1>3, <1>4, <1>5, <1>6, <1>7, <1>8, <1>9
          DEF Next, Environment

LEMMA LastCallKept ==
  ASSUME Inv, [Next]_vars
  PROVE  LastCall'
<1>1. CASE StartSteps
  BY <1>1
    DEF StartSteps, Restart, RestartRejected, StopEnded, Subscribe, BuildClients, Started, StartFails,
        Begin, Spend, Inv, Phases, LastCall, Halting, TypeOK
<1>2. CASE StopSteps
  BY <1>2
    DEF StopSteps, StartSettled, Drains, HaltAndCancel, DrainEnds, Cancelled,
        AllBack, CloseStreams, StreamsClosed, Deregister, AfterDeregister,
        Close, ClearedClients, NothingInFlight, Outstanding, Inv, Phases,
        LastCall, Halting, TypeOK
<1>3. CASE RegisterClient
  BY <1>3 DEF RegisterClient, Adopted, Inv, Phases, LastCall, Halting, TypeOK
<1>4. CASE CallStart
  BY <1>4 DEF CallStart, Begin, Spend, Inv, Phases, LastCall, Halting, TypeOK
<1>5. CASE CallStop
  BY <1>5
    DEF CallStop, StopsLater, Drains, Spend, Inv, Phases, LastCall, Halting,
        TypeOK
<1>6. CASE ResetClient
  BY <1>6 DEF ResetClient, Spend, Inv, Phases, LastCall, Halting, TypeOK
<1>7. ASSUME NEW q \in Requests,
             Call(q) \/ Admit(q) \/ Respond(q) \/ EndStream(q)
      PROVE  LastCall'
  BY <1>7
    DEF Call, Begin, Admit, Respond, EndStream, Inv, Phases, LastCall, Halting,
        TypeOK
<1>8. ASSUME NEW q \in Requests, RequestSteps(q)
      PROVE  LastCall'
  BY <1>8
    DEF RequestSteps, Lookup, Enter, Halted, Probe, Waits, TimeOut, Dispatch,
        SendsUnlessHalted, BackOff, Retry, Finish, Abandon, Finalize, Inv,
        Phases, LastCall, Halting, TypeOK
<1>9. CASE UNCHANGED vars
  BY <1>9 DEF vars, Inv, Phases, LastCall, Halting, TypeOK
<1> QED BY <1>1, <1>2, <1>3, <1>4, <1>5, <1>6, <1>7, <1>8, <1>9
          DEF Next, Environment

LEMMA PlacedKept ==
  ASSUME Inv, [Next]_vars
  PROVE  Placed'
<1>1. CASE StartSteps
  BY <1>1
    DEF StartSteps, Restart, RestartRejected, StopEnded, Subscribe, BuildClients, Started, StartFails,
        Begin, Spend, Inv, Placed, TypeOK, Objects
<1>2. CASE StopSteps
  BY <1>2
    DEF StopSteps, StartSettled, Drains, HaltAndCancel, DrainEnds, Cancelled,
        AllBack, CloseStreams, StreamsClosed, Deregister, AfterDeregister,
        Close, ClearedClients, NothingInFlight, Outstanding, Inv, Placed,
        TypeOK, Objects
<1>3. CASE RegisterClient
  BY <1>3 DEF RegisterClient, Adopted, Inv, Placed, TypeOK, Objects
<1>4. CASE CallStart
  BY <1>4 DEF CallStart, Begin, Spend, Inv, Placed, TypeOK, Objects
<1>5. CASE CallStop
  BY <1>5 DEF CallStop, StopsLater, Drains, Spend, Inv, Placed, TypeOK, Objects
<1>6. CASE ResetClient
  BY <1>6 DEF ResetClient, Spend, Inv, Placed, TypeOK, Objects
<1>7. ASSUME NEW q \in Requests,
             Call(q) \/ Admit(q) \/ Respond(q) \/ EndStream(q)
      PROVE  Placed'
  BY <1>7
    DEF Call, Begin, Admit, Respond, EndStream, Inv, Placed, TypeOK, Objects
<1>8. ASSUME NEW q \in Requests, RequestSteps(q)
      PROVE  Placed'
  BY <1>8
    DEF RequestSteps, Lookup, Enter, Halted, Probe, Waits, TimeOut, Dispatch,
        SendsUnlessHalted, BackOff, Retry, Finish, Abandon, Finalize, Inv,
        Placed, TypeOK, Objects
<1>9. CASE UNCHANGED vars
  BY <1>9 DEF vars, Inv, Placed, TypeOK, Objects
<1> QED BY <1>1, <1>2, <1>3, <1>4, <1>5, <1>6, <1>7, <1>8, <1>9
          DEF Next, Environment

LEMMA AccountedKept ==
  ASSUME Inv, [Next]_vars
  PROVE  Accounted'
<1>1. CASE StartSteps
  BY <1>1
    DEF StartSteps, Restart, RestartRejected, StopEnded, Subscribe, BuildClients, Started, StartFails,
        Begin, Spend, Inv, Accounted, Phases, MapEmptied, Placed, Halting,
        TypeOK, Objects
<1>2. CASE StopSteps
  BY <1>2
    DEF StopSteps, StartSettled, Drains, HaltAndCancel, DrainEnds, Cancelled,
        AllBack, CloseStreams, StreamsClosed, Deregister, AfterDeregister,
        Close, ClearedClients, NothingInFlight, Outstanding, Inv, Accounted,
        Phases, MapEmptied, Placed, Halting, TypeOK, Objects
<1>3. CASE RegisterClient
  BY <1>3
    DEF RegisterClient, Adopted, Inv, Accounted, Phases, MapEmptied, Placed,
        Halting, TypeOK, Objects
<1>4. CASE CallStart
  BY <1>4
    DEF CallStart, Begin, Spend, Inv, Accounted, Phases, MapEmptied, Placed,
        Halting, TypeOK, Objects
<1>5. CASE CallStop
  BY <1>5
    DEF CallStop, StopsLater, Drains, Spend, Inv, Accounted, Phases,
        MapEmptied, Placed, Halting, TypeOK, Objects
<1>6. CASE ResetClient
  BY <1>6
    DEF ResetClient, Spend, Inv, Accounted, Phases, MapEmptied, Placed,
        Halting, TypeOK, Objects
<1>7. ASSUME NEW q \in Requests,
             Call(q) \/ Admit(q) \/ Respond(q) \/ EndStream(q)
      PROVE  Accounted'
  BY <1>7
    DEF Call, Begin, Admit, Respond, EndStream, Inv, Accounted, Phases,
        MapEmptied, Placed, Halting, TypeOK, Objects
<1>8. ASSUME NEW q \in Requests, RequestSteps(q)
      PROVE  Accounted'
  BY <1>8
    DEF RequestSteps, Lookup, Enter, Halted, Probe, Waits, TimeOut, Dispatch,
        SendsUnlessHalted, BackOff, Retry, Finish, Abandon, Finalize, Inv,
        Accounted, Phases, MapEmptied, Placed, Halting, TypeOK, Objects
<1>9. CASE UNCHANGED vars
  BY <1>9
    DEF vars, Inv, Accounted, Phases, MapEmptied, Placed, Halting, TypeOK,
        Objects
<1> QED BY <1>1, <1>2, <1>3, <1>4, <1>5, <1>6, <1>7, <1>8, <1>9
          DEF Next, Environment

LEMMA WaitersKnownKept ==
  ASSUME Inv, [Next]_vars
  PROVE  WaitersKnown'
<1>1. CASE StartSteps
  BY <1>1
    DEF StartSteps, Restart, RestartRejected, StopEnded, Subscribe, BuildClients, Started, StartFails,
        Begin, Spend, Inv, WaitersKnown, Accounted, Phases, MapEmptied,
        Halting, TypeOK, Objects
<1>2. CASE StopSteps
  BY <1>2
    DEF StopSteps, StartSettled, Drains, HaltAndCancel, DrainEnds, Cancelled,
        AllBack, CloseStreams, StreamsClosed, Deregister, AfterDeregister,
        Close, ClearedClients, NothingInFlight, Outstanding, Inv, WaitersKnown,
        Accounted, Phases, MapEmptied, Halting, TypeOK, Objects
<1>3. CASE RegisterClient
  BY <1>3
    DEF RegisterClient, Adopted, Inv, WaitersKnown, Accounted, Phases,
        MapEmptied, Halting, TypeOK, Objects
<1>4. CASE CallStart
  BY <1>4
    DEF CallStart, Begin, Spend, Inv, WaitersKnown, Accounted, Phases,
        MapEmptied, Halting, TypeOK, Objects
<1>5. CASE CallStop
  BY <1>5
    DEF CallStop, StopsLater, Drains, Spend, Inv, WaitersKnown, Accounted,
        Phases, MapEmptied, Halting, TypeOK, Objects
<1>6. CASE ResetClient
  BY <1>6
    DEF ResetClient, Spend, Inv, WaitersKnown, Accounted, Phases, MapEmptied,
        Halting, TypeOK, Objects
<1>7. ASSUME NEW q \in Requests,
             Call(q) \/ Admit(q) \/ Respond(q) \/ EndStream(q)
      PROVE  WaitersKnown'
  BY <1>7
    DEF Call, Begin, Admit, Respond, EndStream, Inv, WaitersKnown, Accounted,
        Phases, MapEmptied, Halting, TypeOK, Objects
<1>8. ASSUME NEW q \in Requests, RequestSteps(q)
      PROVE  WaitersKnown'
  BY <1>8
    DEF RequestSteps, Lookup, Enter, Halted, Probe, Waits, TimeOut, Dispatch,
        SendsUnlessHalted, BackOff, Retry, Finish, Abandon, Finalize, Inv,
        WaitersKnown, Accounted, Phases, MapEmptied, Halting, TypeOK, Objects
<1>9. CASE UNCHANGED vars
  BY <1>9
    DEF vars, Inv, WaitersKnown, Accounted, Phases, MapEmptied, Halting,
        TypeOK, Objects
<1> QED BY <1>1, <1>2, <1>3, <1>4, <1>5, <1>6, <1>7, <1>8, <1>9
          DEF Next, Environment

LEMMA MapEmptiedKept ==
  ASSUME Inv, [Next]_vars
  PROVE  MapEmptied'
<1>1. CASE StartSteps
  BY <1>1
    DEF StartSteps, Restart, RestartRejected, StopEnded, Subscribe, BuildClients, Started, StartFails,
        Begin, Spend, Inv, WaitersKnown, Accounted, Phases, MapEmptied, Placed,
        Halting, TypeOK, Objects
<1>2. CASE StopSteps
  BY <1>2
    DEF StopSteps, StartSettled, Drains, HaltAndCancel, DrainEnds, Cancelled,
        AllBack, CloseStreams, StreamsClosed, Deregister, AfterDeregister,
        Close, ClearedClients, NothingInFlight, Outstanding, Inv, WaitersKnown,
        Accounted, Phases, MapEmptied, Placed, Halting, TypeOK, Objects
<1>3. CASE RegisterClient
  BY <1>3
    DEF RegisterClient, Adopted, Inv, WaitersKnown, Accounted, Phases,
        MapEmptied, Placed, Halting, TypeOK, Objects
<1>4. CASE CallStart
  BY <1>4
    DEF CallStart, Begin, Spend, Inv, WaitersKnown, Accounted, Phases,
        MapEmptied, Placed, Halting, TypeOK, Objects
<1>5. CASE CallStop
  BY <1>5
    DEF CallStop, StopsLater, Drains, Spend, Inv, WaitersKnown, Accounted,
        Phases, MapEmptied, Placed, Halting, TypeOK, Objects
<1>6. CASE ResetClient
  BY <1>6
    DEF ResetClient, Spend, Inv, WaitersKnown, Accounted, Phases, MapEmptied,
        Placed, Halting, TypeOK, Objects
<1>7. ASSUME NEW q \in Requests,
             Call(q) \/ Admit(q) \/ Respond(q) \/ EndStream(q)
      PROVE  MapEmptied'
  BY <1>7
    DEF Call, Begin, Admit, Respond, EndStream, Inv, WaitersKnown, Accounted,
        Phases, MapEmptied, Placed, Halting, TypeOK, Objects
<1>8. ASSUME NEW q \in Requests, RequestSteps(q)
      PROVE  MapEmptied'
  BY <1>8
    DEF RequestSteps, Lookup, Enter, Halted, Probe, Waits, TimeOut, Dispatch,
        SendsUnlessHalted, BackOff, Retry, Finish, Abandon, Finalize, Inv,
        WaitersKnown, Accounted, Phases, MapEmptied, Placed, Halting, TypeOK,
        Objects
<1>9. CASE UNCHANGED vars
  BY <1>9
    DEF vars, Inv, WaitersKnown, Accounted, Phases, MapEmptied, Placed,
        Halting, TypeOK, Objects
<1> QED BY <1>1, <1>2, <1>3, <1>4, <1>5, <1>6, <1>7, <1>8, <1>9
          DEF Next, Environment

LEMMA WatchedKept ==
  ASSUME Inv, [Next]_vars
  PROVE  Watched'
<1>1. CASE StartSteps
  BY <1>1
    DEF StartSteps, Restart, RestartRejected, StopEnded, Subscribe, BuildClients, Started, StartFails,
        Begin, Spend, Inv, Accounted, Phases, Watched, InFlight, Placed,
        MapEmptied, Halting, TypeOK, Objects
<1>2. CASE StopSteps
  <2>1. CASE StartSettled
    BY <2>1
      DEF StartSettled, Drains, Inv, Accounted, Phases, Watched, InFlight,
          Placed, MapEmptied, Halting, TypeOK, Objects
  <2>2. CASE HaltAndCancel
    BY <2>2
      DEF HaltAndCancel, DrainEnds, Cancelled, Outstanding, Inv, Accounted,
          Phases, Watched, InFlight, Placed, MapEmptied, Halting, TypeOK,
          Objects
  <2>3. CASE AllBack
    BY <2>3
      DEF AllBack, NothingInFlight, Inv, Accounted, Phases, Watched, InFlight,
          Placed, MapEmptied, Halting, TypeOK, Objects
  <2>4. CASE CloseStreams
    BY <2>4
      DEF CloseStreams, NothingInFlight, Inv, Accounted, Phases, Watched,
          InFlight, Placed, MapEmptied, Halting, TypeOK, Objects
  <2>5. CASE StreamsClosed
    BY <2>5
      DEF StreamsClosed, Inv, Accounted, Phases, Watched, InFlight, Placed,
          MapEmptied, Halting, TypeOK, Objects
  <2>6. CASE Deregister
    BY <2>6
      DEF Deregister, AfterDeregister, Inv, Accounted, Phases, Watched,
          InFlight, Placed, MapEmptied, Halting, TypeOK, Objects
  <2>7. CASE Close
    BY <2>7
      DEF Close, ClearedClients, Inv, Accounted, Phases, Watched, InFlight,
          Placed, MapEmptied, Halting, TypeOK, Objects
  <2> QED BY <1>2, <2>1, <2>2, <2>3, <2>4, <2>5, <2>6, <2>7 DEF StopSteps
<1>3. CASE RegisterClient
  BY <1>3
    DEF RegisterClient, Adopted, Inv, Accounted, Phases, Watched, InFlight,
        Placed, MapEmptied, Halting, TypeOK, Objects
<1>4. CASE CallStart
  BY <1>4
    DEF CallStart, Begin, Spend, Inv, Accounted, Phases, Watched, InFlight,
        Placed, MapEmptied, Halting, TypeOK, Objects
<1>5. CASE CallStop
  BY <1>5
    DEF CallStop, StopsLater, Drains, Spend, Inv, Accounted, Phases, Watched,
        InFlight, Placed, MapEmptied, Halting, TypeOK, Objects
<1>6. CASE ResetClient
  BY <1>6
    DEF ResetClient, Spend, Inv, Accounted, Phases, Watched, InFlight, Placed,
        MapEmptied, Halting, TypeOK, Objects
<1>7. ASSUME NEW q \in Requests,
             Call(q) \/ Admit(q) \/ Respond(q) \/ EndStream(q)
      PROVE  Watched'
  BY <1>7
    DEF Call, Begin, Admit, Respond, EndStream, Inv, Accounted, Phases,
        Watched, InFlight, Placed, MapEmptied, Halting, TypeOK, Objects
<1>8. ASSUME NEW q \in Requests, RequestSteps(q)
      PROVE  Watched'
  BY <1>8
    DEF RequestSteps, Lookup, Enter, Halted, Probe, Waits, TimeOut, Dispatch,
        SendsUnlessHalted, BackOff, Retry, Finish, Abandon, Finalize, Inv,
        Accounted, Phases, Watched, InFlight, Placed, MapEmptied, Halting,
        TypeOK, Objects
<1>9. CASE UNCHANGED vars
  BY <1>9
    DEF vars, Inv, Accounted, Phases, Watched, InFlight, Placed, MapEmptied,
        Halting, TypeOK, Objects
<1> QED BY <1>1, <1>2, <1>3, <1>4, <1>5, <1>6, <1>7, <1>8, <1>9
          DEF Next, Environment

LEMMA InvKept == Inv /\ [Next]_vars => Inv'
  BY TypeOKKept, PhasesKept, LastCallKept, PlacedKept, AccountedKept,
     WaitersKnownKept, MapEmptiedKept, WatchedKept DEF Inv

LEMMA InitInv == Init => Inv
<1> SUFFICES ASSUME Init
             PROVE  Inv
  OBVIOUS
<1>1. TypeOK
  BY DEF Init, TypeOK, Objects
<1>2. Phases /\ LastCall /\ Placed /\ Accounted
  BY DEF Init, Phases, LastCall, Placed, Accounted, Halting
<1>3. WaitersKnown /\ MapEmptied /\ Watched
  BY DEF Init, WaitersKnown, MapEmptied, Watched, Halting
<1> QED BY <1>1, <1>2, <1>3 DEF Inv

\* The handler's promises, its clients and its requests stay in step: the
\* inductive invariant that the theorems below rest on.
THEOREM LifecycleInvariant == Spec => []Inv
  BY InitInv, InvKept, PTL DEF Spec

---------------------------------------------------------------------------
(* What they show.                                                         *)

\* However calls of start and stop overlap each other, a start that fails and a
\* stop that throws, the handler comes to rest as the last of them asked, unless
\* that was a start which rejected.
THEOREM LastCallDecides == Spec => []LastCallWins
<1>1. Inv => LastCallWins
  BY DEF Inv, TypeOK, Phases, LastCall, LastCallWins
<1> QED BY <1>1, LifecycleInvariant, PTL

\* A stop that has ended left nothing waiting in a client it knew of, in the
\* map of the client that had adopted it either.
THEOREM StopLeavesNobodyWaiting == Spec => []NothingLeftWaiting
<1>1. Inv => NothingLeftWaiting
  BY DEF Inv, Phases, MapEmptied, NothingLeftWaiting
<1> QED BY <1>1, LifecycleInvariant, PTL

\* A stop closes the backend over no slot in use, unless a wait of it ran out.
THEOREM SlotsComeBackFirst == Spec => []SlotsReturnedBeforeClose
<1>1. Inv => SlotsReturnedBeforeClose
  <2> SUFFICES ASSUME Inv, stopp = "close", ~ late, "await" \notin elapsed,
                      NEW q \in Requests, slot[q], on[q] = watched
               PROVE  pc[q] = "done" /\ (role = "worker" \/ "drain" \in elapsed)
    BY DEF SlotsReturnedBeforeClose
  <2>1. pc[q] = "done"
    BY DEF Inv, TypeOK, Placed, Watched, InFlight
  <2>2. role = "worker" \/ "drain" \in elapsed
    BY DEF Inv, TypeOK, Placed, Watched, Halting
  <2> QED BY <2>1, <2>2
<1> QED BY <1>1, LifecycleInvariant, PTL

\* The halt a stop leaves behind holds: nothing goes upstream from a client the
\* handler has dropped.
THEOREM SilentAfterStop == Spec => NothingSentAfterStop
<1> DEFINE Sent == \A q \in Requests :
              pc'[q] = "upstream" /\ pc[q] # "upstream" =>
                  on[q] = cur \/ Orphan(q) \/ late
<1>1. Inv /\ [Next]_vars => [Sent]_vars
  <2> SUFFICES ASSUME Inv, Next, NEW q \in Requests,
                      pc'[q] = "upstream", pc[q] # "upstream"
               PROVE  on[q] = cur \/ Orphan(q) \/ late
    OBVIOUS
  <2>1. pc[q] = "pre" /\ on[q] \notin halted
    <3> USE DEF Inv, TypeOK
    <3>1. CASE StartSteps
      BY <3>1 DEF StartSteps, Restart, RestartRejected, StopEnded, Subscribe, BuildClients, Started,
                  StartFails, Begin
    <3>2. CASE StopSteps
      BY <3>2 DEF StopSteps, StartSettled, HaltAndCancel, AllBack, CloseStreams,
                  StreamsClosed, Deregister, Close
    <3>3. CASE RegisterClient \/ CallStart \/ CallStop \/ ResetClient
      BY <3>3 DEF RegisterClient, CallStart, CallStop, ResetClient
    <3>4. ASSUME NEW r \in Requests,
                 Call(r) \/ Admit(r) \/ Respond(r) \/ EndStream(r)
          PROVE  FALSE
      BY <3>4 DEF Call, Admit, Respond, EndStream
    <3>5. ASSUME NEW r \in Requests, RequestSteps(r)
          PROVE  pc[q] = "pre" /\ on[q] \notin halted
      BY <3>5 DEF RequestSteps, Lookup, Enter, Halted, Probe, TimeOut, Dispatch,
                  SendsUnlessHalted, BackOff, Retry, Finish, Abandon, Finalize
    <3> QED BY <3>1, <3>2, <3>3, <3>4, <3>5 DEF Next, Environment
  <2>2. on[q] \in 1 .. made
    BY <2>1 DEF Inv, Placed, TypeOK
  <2> QED BY <2>1, <2>2 DEF Inv, Accounted, Orphan
<1> QED BY <1>1, LifecycleInvariant, PTL DEF Spec, NothingSentAfterStop

=============================================================================
