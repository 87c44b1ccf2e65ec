------------------------- MODULE CompletionHandoff -------------------------
(***************************************************************************)
(* How a completion travels from the replica that ran the request (its     *)
(* owner) to the controller that applies it (client/index.ts, "request     *)
(* event handlers"; utils/startSubscriptions.ts).                          *)
(*                                                                         *)
(* The owner announces requestDone to every replica and keeps the          *)
(* completion until a controller's requestDoneApplied says it was applied, *)
(* announcing it again on its health tick.  Pub/sub is at most once: a     *)
(* message may be lost, and any two may be reordered; two equal ones on    *)
(* their way to the same replica count as one.  Roles change at any time,  *)
(* two controllers at once included, replicas crash, and the backend calls *)
(* of an application fail with or without having taken effect.             *)
(*                                                                         *)
(* handleRequestDone's parts are applied in a fixed order, each behind its *)
(* flag in the retained record, so a record's flags are the number of      *)
(* parts it has handled.  What the parts do is AdmissionQueue's subject.   *)
(* Left out: rebuilt clients and sharedLimit children, which pass their    *)
(* completions on inside one process, and the 10 000 ids a client          *)
(* remembers, more than an instance of this module has.                    *)
(***************************************************************************)
EXTENDS Integers, FiniteSets

CONSTANTS
    Instances,      \* the replicas
    Completions,    \* completion ids (completionIdOf)
    Owner,          \* the replica that announces each completion
    Steps,          \* how many guarded parts handleRequestDone has
    MaxForwards,    \* MAX_COMPLETION_FORWARDS
    PromptDelivery, \* TRUE: an interval outlasts deliveries, elections, flushes
    MaxLost,        \* bound: messages and announcements lost
    MaxFails,       \* bound: backend calls of an application that fail
    MaxRoleChanges, \* bound: role changes no vacancy asked for
    MaxCrashes      \* bound: replicas that crash

ASSUME HandoffAssumption ==
    /\ Owner \in [Completions -> Instances]
    /\ Steps \in Nat \ {0} /\ MaxForwards \in Nat
    /\ PromptDelivery \in BOOLEAN
    /\ MaxLost \in Nat /\ MaxFails \in Nat
    /\ MaxRoleChanges \in Nat /\ MaxCrashes \in Nat

VARIABLES
    up,        \* the replicas running
    role,      \* each replica's role for the client
    phase,     \* what the owner has done with each completion
    pending,   \* pendingRequestDone of each replica
    completed, \* completedRequestIds of each replica
    flush,     \* completionFlushes: the application running on a replica
    sweep,     \* what a flush of everything has snapshot and not reached yet
    net,       \* pub/sub messages in flight
    applied,   \* ghost: the parts of each completion that took effect
    budget     \* what is left of the bounds

vars == <<up, role, phase, pending, completed, flush, sweep, net, applied,
          budget>>

---------------------------------------------------------------------------

Messages == [kind: {"requestDone", "requestDoneApplied"}, c: Completions,
             to: Instances]
RequestDone(c, i)  == [kind |-> "requestDone", c |-> c, to |-> i]
AppliedTo(c, i)    == [kind |-> "requestDoneApplied", c |-> c, to |-> i]

\* A retained record.  It outlives its entry in the map (held) for as long as
\* a flush still refers to it; byController: it was stored by a controller.
RecordType == [held: BOOLEAN, at: 0 .. Steps, due: BOOLEAN,
               forwards: 0 .. MaxForwards, byController: BOOLEAN]
NoRecord   == [held |-> FALSE, at |-> 0, due |-> FALSE, forwards |-> 0,
               byController |-> FALSE]

\* A reference to a record, from a running application or from a snapshot: to
\* the replica's latest record (linked), or to one that another has replaced.
RefType == [on: BOOLEAN, linked: BOOLEAN, at: 0 .. Steps,
            byController: BOOLEAN]
NoRef   == [on |-> FALSE, linked |-> FALSE, at |-> 0, byController |-> FALSE]
Ref     == [NoRef EXCEPT !.on = TRUE, !.linked = TRUE]

BudgetType == [lost: 0 .. MaxLost, fails: 0 .. MaxFails,
               changes: 0 .. MaxRoleChanges, crashes: 0 .. MaxCrashes]

TypeOK ==
    /\ up \subseteq Instances
    /\ role \in [Instances -> {"worker", "controller"}]
    /\ phase \in [Completions -> {"running", "published", "finalized"}]
    /\ pending \in [Instances -> [Completions -> RecordType]]
    /\ completed \in [Instances -> SUBSET Completions]
    /\ flush \in [Instances -> [Completions -> RefType]]
    /\ sweep \in [Instances -> [Completions -> RefType]]
    /\ net \subseteq Messages
    /\ applied \in [Completions -> 0 .. Steps]
    /\ budget \in BudgetType

Init ==
    /\ up = Instances
    /\ role = [i \in Instances |-> "worker"]
    /\ phase = [c \in Completions |-> "running"]
    /\ pending = [i \in Instances |-> [c \in Completions |-> NoRecord]]
    /\ completed = [i \in Instances |-> {}]
    /\ flush = [i \in Instances |-> [c \in Completions |-> NoRef]]
    /\ sweep = [i \in Instances |-> [c \in Completions |-> NoRef]]
    /\ net = {}
    /\ applied = [c \in Completions |-> 0]
    /\ budget = [lost |-> MaxLost, fails |-> MaxFails,
                 changes |-> MaxRoleChanges, crashes |-> MaxCrashes]

---------------------------------------------------------------------------

Held(i)       == {c \in Completions : pending[i][c].held}
IsController(i) == role[i] = "controller"

\* backend.publish: one copy to every replica subscribed.
Announced(cs) == {RequestDone(c, i) : c \in cs, i \in up}

\* acknowledgeCompletion: a controller's word to the owner, never to itself.
Acknowledged(i, c) ==
    IF Owner[c] = i \/ Owner[c] \notin up THEN {} ELSE {AppliedTo(c, Owner[c])}

\* pendingRequestDone.delete
Dropped(rec) == [rec EXCEPT !.held = FALSE]

\* storePendingRequestDone, for a completion that is not remembered.
Stored(i, c) ==
    IF pending[i][c].held THEN pending[i][c]
    ELSE [NoRecord EXCEPT !.held = TRUE, !.byController = IsController(i)]

\* What a reference still finds once that record is stored.
Kept(ref, i, c) ==
    IF ref.linked /\ ~pending[i][c].held
    THEN [on |-> ref.on, linked |-> FALSE, at |-> pending[i][c].at,
          byController |-> pending[i][c].byController]
    ELSE ref

\* The record a reference is to.
Record(ref, i, c) == IF ref.linked THEN pending[i][c] ELSE ref

\* Mutant: its own completions are dropped too.
WithoutAny(i) ==
    [c \in Completions |-> Dropped(pending[i][c])]

\* dropRetainedCopies: other replicas' completions are not kept.
WithoutCopies(i) ==
    [c \in Completions |->
        IF Owner[c] = i THEN pending[i][c] ELSE Dropped(pending[i][c])]

\* finalizeOwnedRequest, for the owner itself and for every replica that hears
\* of the completion.  Remembered: a controller acknowledges again.  Otherwise
\* it is stored, and a controller flushes it unless a flush of it is running.
FinalizeOwnedRequest(i, c, others) ==
    \/ /\ c \in completed[i]
       /\ net' = others \cup (IF IsController(i) THEN Acknowledged(i, c) ELSE {})
       /\ UNCHANGED <<pending, flush, sweep>>
    \/ /\ c \notin completed[i]
       /\ pending' = [pending EXCEPT ![i][c] = Stored(i, c)]
       /\ flush' = [flush EXCEPT ![i][c] =
                       IF IsController(i) /\ ~flush[i][c].on THEN Ref
                       ELSE Kept(flush[i][c], i, c)]
       /\ sweep' = [sweep EXCEPT ![i][c] = Kept(sweep[i][c], i, c)]
       /\ net' = others

---------------------------------------------------------------------------
(* The owner.                                                              *)

\* publishRequestDone: three attempts to announce, all of which may fail.
PublishRequestDone(c) ==
    /\ phase[c] = "running" /\ Owner[c] \in up
    /\ phase' = [phase EXCEPT ![c] = "published"]
    /\ \/ net' = net \cup Announced({c}) /\ UNCHANGED budget
       \/ /\ budget.lost > 0
          /\ budget' = [budget EXCEPT !.lost = @ - 1]
          /\ UNCHANGED net
    /\ UNCHANGED <<up, role, pending, completed, flush, sweep, applied>>

\* ... and then it is finalized here, announced or not.
FinalizeOwn(c) ==
    /\ phase[c] = "published" /\ Owner[c] \in up
    /\ phase' = [phase EXCEPT ![c] = "finalized"]
    /\ FinalizeOwnedRequest(Owner[c], c, net)
    /\ UNCHANGED <<up, role, completed, applied, budget>>

\* Mutant: the acknowledged completion is not remembered.
AppliedForgotten(m) ==
    /\ m \in net /\ m.kind = "requestDoneApplied"
    /\ net' = net \ {m}
    /\ pending' = [pending EXCEPT ![m.to][m.c] = Dropped(@)]
    /\ UNCHANGED <<up, role, phase, completed, flush, sweep, applied, budget>>

\* handleRequestDoneApplied: the owner stops announcing, and remembers, so
\* that a late echo of its own announcement is not stored again.
RequestDoneApplied(m) ==
    /\ m \in net /\ m.kind = "requestDoneApplied"
    /\ net' = net \ {m}
    /\ pending' = [pending EXCEPT ![m.to][m.c] = Dropped(@)]
    /\ completed' = [completed EXCEPT ![m.to] = @ \cup {m.c}]
    /\ UNCHANGED <<up, role, phase, flush, sweep, applied, budget>>

\* Any replica hears an announcement, the owner its own echo.
OnRequestDone(m) ==
    /\ m \in net /\ m.kind = "requestDone"
    /\ FinalizeOwnedRequest(m.to, m.c, net \ {m})
    /\ UNCHANGED <<up, role, phase, completed, applied, budget>>

\* Something about the completion is still under way: a message, a flush, the
\* controller's next tick, or an election.
Unsettled(c) ==
    \/ \E m \in net : m.c = c
    \/ \E i \in up : flush[i][c].on \/ sweep[i][c].on
    \/ \E i \in up : IsController(i) /\ pending[i][c].held
    \/ \A i \in up : ~IsController(i)

\* A full interval has passed since the record was stored or announced.
ForwardDue(i, c) ==
    /\ i \in up /\ Owner[c] = i
    /\ pending[i][c].held /\ ~pending[i][c].due
    /\ PromptDelivery => ~Unsettled(c)
    /\ pending' = [pending EXCEPT ![i][c].due = TRUE]
    /\ UNCHANGED <<up, role, phase, completed, flush, sweep, net, applied,
                   budget>>

\* What forwardPendingRequestDone makes of a due record: announced once more,
\* or given up after MaxForwards.
Forwarded(rec) ==
    IF rec.forwards >= MaxForwards THEN Dropped(rec)
    ELSE [rec EXCEPT !.forwards = @ + 1, !.due = FALSE]

\* The health tick of a worker: forwardPendingRequestDone.  cs are the due
\* completions it reaches; a failing publish ends the loop and the next tick
\* takes the rest.
ForwardPending(i, cs) ==
    LET spent == {c \in cs : pending[i][c].forwards >= MaxForwards} IN
    /\ pending' = [pending EXCEPT ![i] = [c \in Completions |->
          IF c \in cs THEN Forwarded(pending[i][c]) ELSE WithoutCopies(i)[c]]]
    /\ completed' = [completed EXCEPT ![i] = @ \cup spent]
    /\ net' = net \cup Announced(cs \ spent)

WorkerTick(i) ==
    LET due == {c \in Held(i) : Owner[c] = i /\ pending[i][c].due} IN
    /\ i \in up /\ ~IsController(i)
    /\ Held(i) # {c \in Held(i) : Owner[c] = i} \/ due # {}
    /\ \E cs \in SUBSET due : (due # {} => cs # {}) /\ ForwardPending(i, cs)
    /\ UNCHANGED <<up, role, phase, flush, sweep, applied, budget>>

---------------------------------------------------------------------------
(* The controller.                                                         *)

\* flushPendingRequestDone over everything retained, from a snapshot.
Snapshot(records) ==
    [c \in Completions |-> IF records[c].held THEN Ref ELSE NoRef]

ControllerTick(i) ==
    /\ i \in up /\ IsController(i)
    /\ sweep[i] = Snapshot([c \in Completions |-> NoRecord])
    /\ \E c \in Held(i) : ~flush[i][c].on
    /\ sweep' = [sweep EXCEPT ![i] = Snapshot(pending[i])]
    /\ UNCHANGED <<up, role, phase, pending, completed, flush, net, applied,
                   budget>>

\* The next of the snapshot: one that is being flushed is waited for and
\* passed over, any other is flushed, whatever became of its record or of the
\* role since the snapshot.
SweepNext(i, c) ==
    /\ i \in up /\ sweep[i][c].on
    /\ sweep' = [sweep EXCEPT ![i][c] = NoRef]
    /\ flush' = IF flush[i][c].on THEN flush
                ELSE [flush EXCEPT ![i][c] = sweep[i][c]]
    /\ UNCHANGED <<up, role, phase, pending, completed, net, applied, budget>>

\* The parts the record of a running flush has handled.
HandledParts(i, c) == Record(flush[i][c], i, c).at

\* handleRequestDone takes its next part and sets the record's flag, ...
ApplyPart(i, c) ==
    LET n == HandledParts(i, c) + 1 IN
    /\ i \in up /\ flush[i][c].on /\ n <= Steps
    /\ applied' = [applied EXCEPT ![c] = IF @ < n THEN n ELSE @]
    /\ \/ flush[i][c].linked /\ pending' = [pending EXCEPT ![i][c].at = n]
                              /\ UNCHANGED flush
       \/ ~flush[i][c].linked /\ flush' = [flush EXCEPT ![i][c].at = n]
                               /\ UNCHANGED pending
    /\ UNCHANGED <<up, role, phase, completed, sweep, net, budget>>

\* Mutant: the failure is swallowed, and the part counts as handled.
FailSwallowed(i, c) ==
    /\ i \in up /\ flush[i][c].on /\ HandledParts(i, c) + 1 <= Steps
    /\ budget.fails > 0
    /\ IF flush[i][c].linked
       THEN pending' = [pending EXCEPT ![i][c].at = @ + 1] /\ UNCHANGED flush
       ELSE flush' = [flush EXCEPT ![i][c].at = @ + 1] /\ UNCHANGED pending
    /\ budget' = [budget EXCEPT !.fails = @ - 1]
    /\ UNCHANGED <<up, role, phase, completed, sweep, net, applied>>

\* ... or its backend call fails, having taken effect or not: the flush ends
\* and the record keeps the flags it has.
FailPart(i, c) ==
    LET n == HandledParts(i, c) + 1 IN
    /\ i \in up /\ flush[i][c].on /\ n <= Steps /\ budget.fails > 0
    /\ applied' \in {applied, [applied EXCEPT ![c] = IF @ < n THEN n ELSE @]}
    /\ flush' = [flush EXCEPT ![i][c] = NoRef]
    /\ budget' = [budget EXCEPT !.fails = @ - 1]
    /\ UNCHANGED <<up, role, phase, pending, completed, sweep, net>>

\* All parts done: forget the record, remember the completion, acknowledge.
FlushDone(i, c) ==
    /\ i \in up /\ flush[i][c].on /\ HandledParts(i, c) = Steps
    /\ pending' = [pending EXCEPT ![i][c] = Dropped(@)]
    /\ completed' = [completed EXCEPT ![i] = @ \cup {c}]
    /\ net' = net \cup Acknowledged(i, c)
    /\ flush' = [flush EXCEPT ![i][c] = NoRef]
    /\ UNCHANGED <<up, role, phase, sweep, applied, budget>>

---------------------------------------------------------------------------
(* Roles, crashes, lost messages.                                          *)

\* Mutant: what was retained as a worker is flushed on promotion.
PromotedWithCopies(i) ==
    /\ role' = [role EXCEPT ![i] = "controller"]
    /\ sweep' = [sweep EXCEPT ![i] = Snapshot(pending[i])]
    /\ UNCHANGED pending

\* updateRole to controller: other replicas' completions are dropped before
\* anything is flushed.
Promoted(i) ==
    /\ role' = [role EXCEPT ![i] = "controller"]
    /\ pending' = [pending EXCEPT ![i] = WithoutCopies(i)]
    /\ sweep' = [sweep EXCEPT ![i] = Snapshot(WithoutCopies(i))]

\* A vacant role is always filled again.
Elect(i) ==
    /\ i \in up /\ \A j \in up : ~IsController(j)
    /\ Promoted(i)
    /\ UNCHANGED <<up, phase, completed, flush, net, applied, budget>>

\* An election may also see replicas come and go, and promote or demote.
UpdateRole(i) ==
    /\ i \in up /\ budget.changes > 0
    /\ budget' = [budget EXCEPT !.changes = @ - 1]
    /\ \/ IsController(i) /\ role' = [role EXCEPT ![i] = "worker"]
                          /\ UNCHANGED <<pending, sweep>>
       \/ ~IsController(i) /\ Promoted(i)
    /\ UNCHANGED <<up, phase, completed, flush, net, applied>>

\* A replica dies with everything it kept in memory.
Crash(i) ==
    /\ i \in up /\ budget.crashes > 0
    /\ up' = up \ {i}
    /\ role' = [role EXCEPT ![i] = "worker"]
    /\ pending' = [pending EXCEPT ![i] = [c \in Completions |-> NoRecord]]
    /\ completed' = [completed EXCEPT ![i] = {}]
    /\ flush' = [flush EXCEPT ![i] = [c \in Completions |-> NoRef]]
    /\ sweep' = [sweep EXCEPT ![i] = [c \in Completions |-> NoRef]]
    /\ net' = {m \in net : m.to # i}
    /\ budget' = [budget EXCEPT !.crashes = @ - 1]
    /\ UNCHANGED <<phase, applied>>

Lose(m) ==
    /\ m \in net /\ budget.lost > 0
    /\ net' = net \ {m}
    /\ budget' = [budget EXCEPT !.lost = @ - 1]
    /\ UNCHANGED <<up, role, phase, pending, completed, flush, sweep, applied>>

---------------------------------------------------------------------------

Next ==
    \/ \E c \in Completions : PublishRequestDone(c) \/ FinalizeOwn(c)
    \/ \E m \in Messages : RequestDoneApplied(m) \/ OnRequestDone(m) \/ Lose(m)
    \/ \E i \in Instances : WorkerTick(i) \/ ControllerTick(i) \/ Elect(i)
                            \/ UpdateRole(i) \/ Crash(i)
    \/ \E i \in Instances, c \in Completions :
          \/ ForwardDue(i, c) \/ SweepNext(i, c) \/ ApplyPart(i, c)
          \/ FailPart(i, c) \/ FlushDone(i, c)

Spec == Init /\ [][Next]_vars

\* What timers, the event loop and the elections of the health tick provide.
\* Nothing obliges a message to be lost, a call to fail or a replica to crash.
Fairness ==
    /\ \A c \in Completions : WF_vars(PublishRequestDone(c)) /\ WF_vars(FinalizeOwn(c))
    /\ \A m \in Messages : WF_vars(RequestDoneApplied(m) \/ OnRequestDone(m))
    /\ \A i \in Instances : WF_vars(WorkerTick(i)) /\ WF_vars(ControllerTick(i))
    /\ \A i \in Instances, c \in Completions :
          /\ WF_vars(ForwardDue(i, c)) /\ WF_vars(SweepNext(i, c))
          /\ WF_vars(ApplyPart(i, c)) /\ WF_vars(FlushDone(i, c))
    /\ WF_vars(\E i \in Instances : Elect(i))

FairSpec == Spec /\ Fairness

---------------------------------------------------------------------------
(* Properties.                                                             *)

IsApplied(c) == applied[c] = Steps

\* The owner has announced it as often as it ever will.
GivenUp(c) ==
    /\ c \in completed[Owner[c]]
    /\ pending[Owner[c]][c].forwards = MaxForwards

\* While its owner lives, a completion is applied in all its parts, or still
\* retained by its owner, or was announced MaxForwards times to nobody who
\* would say it was applied.  Whatever is lost, reordered or demoted, neither
\* an acknowledgement nor a dropped copy makes the owner forget a slot that
\* was never released.
NeverForgotten ==
    \A c \in Completions : phase[c] = "finalized" /\ Owner[c] \in up =>
        \/ IsApplied(c)
        \/ pending[Owner[c]][c].held
        \/ GivenUp(c)

\* A replica applies another's completion only from an announcement it heard
\* as a controller.  A copy it retained as a worker may long have been applied
\* by the controller before it, and applying it on promotion would arm again a
\* freeze that a probe has lifted.
NoReplayOnPromotion ==
    \A i \in Instances, c \in Completions :
        flush[i][c].on /\ Owner[c] # i
        => Record(flush[i][c], i, c).byController

\* An owner that stays up gets its completion applied, past lost messages,
\* failed calls, elections and dead controllers.
EventuallyApplied ==
    \A c \in Completions :
        (phase[c] = "finalized") ~> (IsApplied(c) \/ Owner[c] \notin up)

\* Announcements stop: the channel does not carry a completion for ever.
EventuallyQuiet == <>[](net = {})
===========================================================================
