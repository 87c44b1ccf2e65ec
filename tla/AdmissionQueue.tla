-------------------------- MODULE AdmissionQueue --------------------------
(***************************************************************************)
(* The admission path of one client of dianemo: requests wait in a queue   *)
(* kept by the backend, drain passes hand them out one at a time, and the  *)
(* completion of an attempt gives back what admission granted it.          *)
(*                                                                         *)
(*   - a request's owner  (client/methods/handleRequest.ts)                *)
(*   - drain passes       (client/methods/processRequests.ts); a pass is   *)
(*     serialised by its own client object's processingLock, but a         *)
(*     rebuilt client's old pass, or a second controller's, runs beside it *)
(*   - the controller's clean-up (client/index.ts, handleRequestDone)      *)
(*   - the backend operations all of them call (backend/memory.ts and the  *)
(*     Redis backend's Lua scripts), each of which is atomic.              *)
(*                                                                         *)
(* The client has one concurrency limit, every request costs one slot, and *)
(* grants share the client's freeze (no grant isolation).  Every await is  *)
(* a step of its own, so passes, owners and clean-ups interleave at each.  *)
(*                                                                         *)
(* Time is kept as ages: a claim's age is the backend clock minus its      *)
(* claimedAt stamp, and a freeze is the time left of its window.  Both     *)
(* clocks of a comparison are the backend's, so nothing else of time is    *)
(* observable.  Slots do not reach their TTL here: it is far longer than   *)
(* the lease, and an attempt in flight renews its slot.                    *)
(***************************************************************************)
EXTENDS Integers, FiniteSets, FiniteSetsExt

CONSTANTS
    Requests,        \* request ids, numbered in order of arrival
    Passes,          \* drain passes that can be running at the same time
    Lease,           \* QUEUE_CLAIM_LEASE_MS, in ticks
    FreezeTime,      \* the length of the freeze a failed attempt asks for
    ThawRequestCount,\* retryOptions.thawRequestCount, owed after a 429
    MaxConcurrency,  \* the client's concurrency limit
    MaxRetries,      \* retryOptions.maxRetries
    Abandonable,     \* requests whose caller may stop waiting
    Outcomes,        \* what the upstream may answer: see OutcomeSet
    LossyCalls,      \* the backend calls of a pass whose reply can be lost
    PromptPasses,    \* TRUE: an iteration finishes before its lease lapses
    MaxLost          \* bound: how many replies are lost in a behaviour

OutcomeSet == {"ok", "retry", "5xx", "429", "noAnswer", "stream"}
CallSet    == {"select", "judge", "nominate", "isFrozen", "claim",
               "isFrozen2", "release", "reread", "confirm", "now", "publish", "write"}

ASSUME ConstantsAssumption ==
    /\ Requests \subseteq Nat \ {0} /\ IsFiniteSet(Requests)
    /\ Lease \in Nat \ {0} /\ FreezeTime \in Nat
    /\ ThawRequestCount \in Nat /\ MaxConcurrency \in Nat \ {0}
    /\ MaxRetries \in Nat /\ MaxLost \in Nat
    /\ Outcomes \subseteq OutcomeSet /\ LossyCalls \subseteq CallSet
    /\ Abandonable \subseteq Requests /\ PromptPasses \in BOOLEAN

VARIABLES
    entry,       \* queue entry and metadata hash of each request
    tombstone,   \* ids whose removal is remembered
    freeze,      \* the client's freeze state
    slots,       \* the concurrency ledger: the slot ids it holds
    pass,        \* what each drain pass is doing
    owner,       \* what the replica that made the request is doing
    ready,       \* requestReady notifications in flight
    completions, \* completions the controller has not finished applying
    lost,        \* replies lost so far
    overtaken    \* history: passes that judged before the freeze was armed

vars == <<entry, tombstone, freeze, slots, pass, owner, ready, completions,
          lost, overtaken>>

---------------------------------------------------------------------------
(* The shapes of the state.                                                *)

NoClaim   == -1                  \* no claimedAt stamp on the entry
NoRequest == 0                   \* the pass has claimed nothing

Attempts == 0 .. MaxRetries
SlotIds  == Requests \X Attempts \* getSlotId: the request, then its retry

EntryType == [status: {"none", "pending", "inProgress"}, claim: -1 .. Lease,
              thaw: BOOLEAN, retries: Attempts]
NoEntry   == [status |-> "none", claim |-> NoClaim, thaw |-> FALSE,
              retries |-> 0]

PassPcs  == {"idle", "judge", "nominate", "isFrozen", "claim", "isFrozen2",
             "release", "reread", "confirm", "regone", "gone", "goneRelease",
             "handover", "returnConfirm", "returnWrite"}
PassType == [pc: PassPcs, r: Requests \cup {NoRequest}, n: Attempts,
             thaw: BOOLEAN, age: 0 .. Lease, sent: BOOLEAN, caught: BOOLEAN]
IdlePass == [pc |-> "idle", r |-> NoRequest, n |-> 0, thaw |-> FALSE,
             age |-> 0, sent |-> FALSE, caught |-> FALSE]

OwnerPhases == {"new", "adding", "flipping", "waiting", "running",
                "streaming", "doneAdding", "doneFlipping", "done"}
OwnerType   == [phase: OwnerPhases, n: Attempts, thaw: BOOLEAN,
                fast: BOOLEAN]

\* The steps of handleRequestDone still to be taken, in the order of the code,
\* and what is left of the window it asks for once it has read the clock.
AllSteps == {"queue", "clock", "freeze", "slot", "thaw"}
CompletionType ==
    [r: Requests, n: Attempts, final: BOOLEAN, fast: BOOLEAN, thaw: BOOLEAN,
     outcome: {"ok", "retry", "5xx", "429", "noAnswer"},
     steps: SUBSET AllSteps, due: 0 .. FreezeTime]

FreezeType == [left: 0 .. FreezeTime, thawCount: 0 .. ThawRequestCount]
NoFreeze   == [left |-> 0, thawCount |-> 0]

\* A pass that is not idle has claimed a request.
PassOK ==
    /\ pass \in [Passes -> PassType]
    /\ \A p \in Passes : pass[p].pc # "idle" => pass[p].r \in Requests

\* Every variable has its shape.
TypeOK ==
    /\ entry \in [Requests -> EntryType]
    /\ tombstone \subseteq Requests
    /\ freeze \in FreezeType
    /\ slots \subseteq SlotIds
    /\ PassOK
    /\ owner \in [Requests -> OwnerType]
    /\ ready \subseteq [r: Requests, n: Attempts, thaw: BOOLEAN]
    /\ completions \subseteq CompletionType
    /\ lost \in 0 .. MaxLost
    /\ overtaken \subseteq Passes

Init ==
    /\ entry = [r \in Requests |-> NoEntry]
    /\ tombstone = {}
    /\ freeze = NoFreeze
    /\ slots = {}
    /\ pass = [p \in Passes |-> IdlePass]
    /\ owner = [r \in Requests |->
                   [phase |-> "new", n |-> 0, thaw |-> FALSE, fast |-> FALSE]]
    /\ ready = {}
    /\ completions = {}
    /\ lost = 0
    /\ overtaken = {}

---------------------------------------------------------------------------
(* What the backend operations read and write.                             *)

Queued(r) == entry[r].status # "none"

\* Every request here has the same priority, and arrives in the order of ids.
Bands == INSTANCE QueueScore WITH MaxQueuePriority <- 0,
             MaxQueueRetries <- MaxRetries, RetryBand <- Max(Requests) + 1

Score(r) == Bands!CalculateQueueScore(0, entry[r].retries, r)

MaxOf(a, b) == IF a >= b THEN a ELSE b

ClaimLapsed(r) == entry[r].claim >= Lease

\* Mutant: a claim without a lease; only pending entries are handed out.
ClaimableNoLease(r) == entry[r].status = "pending"

Claimable(r) ==
    \/ entry[r].status = "pending"
    \/ entry[r].status = "inProgress" /\ ClaimLapsed(r)

\* Mutant: a probe competes only while it carries its claim's stamp.
CompetingWhileStamped(r) ==
    /\ entry[r].status = "inProgress" /\ entry[r].thaw
    /\ entry[r].claim # NoClaim /\ ~ClaimLapsed(r)

\* isCompetingProbe: somebody is admitting, or has sent, a probe.
CompetingProbe(r) ==
    entry[r].status = "inProgress" /\ entry[r].thaw /\ ~ClaimLapsed(r)

\* canProcessRequest's three answers.
Frozen  == freeze.left > 0
Thawing == freeze.left = 0 /\ freeze.thawCount > 0

\* freezeBlocksAdmission: the fast path also waits for owed probes.
FreezeBlocksAdmission == Frozen \/ freeze.thawCount > 0

\* Mutant: one slot too many.
HasRoomOffByOne(id) == Cardinality(slots \ {id}) <= MaxConcurrency

\* A request's own slot never counts against it.
HasRoom(id) == Cardinality(slots \ {id}) + 1 <= MaxConcurrency

\* Mutant: the status alone is checked, as before claims carried stamps.
ConfirmableByStatus(p) == entry[pass[p].r].status = "inProgress"

\* confirmRequest's test, on the stamp this pass was handed.
Confirmable(p) ==
    LET c == pass[p] IN
    /\ entry[c.r].status = "inProgress"
    /\ entry[c.r].claim = c.age
    /\ ~ClaimLapsed(c.r)

Loses(call) == call \in LossyCalls /\ lost < MaxLost /\ lost' = lost + 1

---------------------------------------------------------------------------
(* A drain pass: one iteration of the loop in processRequests.             *)

\* This iteration admits nobody on what it has judged.
GivesUp(p)  == overtaken' = overtaken \ {p}
Goto(p, pc) == pass' = [pass EXCEPT ![p].pc = pc] /\ UNCHANGED overtaken
EndPass(p)  == pass' = [pass EXCEPT ![p] = IdlePass] /\ GivesUp(p)
At(p, pc)   == pass[p].pc = pc

\* The catch of the loop: whatever was thrown, the entry goes back, and a
\* failure of that write-back is swallowed.
Catch(p) ==
    /\ pass' = [pass EXCEPT ![p].caught = TRUE,
                            ![p].pc = IF pass[p].sent THEN "returnWrite"
                                      ELSE "returnConfirm"]
    /\ GivesUp(p)

\* getNextRequest: the first claimable entry is stamped and handed out; a
\* lapsed claim's probe nomination lapses with it.
Select(p) ==
    /\ At(p, "idle")
    /\ \E r \in Requests :
         /\ Claimable(r)
         /\ \A o \in Requests : Claimable(o) => Score(r) <= Score(o)
         /\ LET thaw == entry[r].thaw /\ entry[r].status = "pending" IN
            /\ entry' = [entry EXCEPT ![r].status = "inProgress",
                                      ![r].claim = 0, ![r].thaw = thaw]
            /\ \/ /\ pass' = [pass EXCEPT ![p] =
                         [IdlePass EXCEPT !.pc = "judge", !.r = r,
                             !.n = entry[r].retries, !.thaw = thaw]]
                  /\ UNCHANGED lost
               \/ Loses("select") /\ UNCHANGED pass
    /\ UNCHANGED <<tombstone, freeze, slots, owner, ready, completions,
                   overtaken>>

\* Mutant: a lapsed window is taken for a thawed client.
JudgeSkipsThaw(p) ==
    /\ At(p, "judge")
    /\ \/ Goto(p, IF Frozen THEN "returnConfirm" ELSE "isFrozen")
          /\ UNCHANGED lost
       \/ Loses("judge") /\ Catch(p)
    /\ UNCHANGED <<entry, tombstone, freeze, slots, owner, ready, completions>>

\* canProcessNextRequest: declined inside a window, a probe past it.
Judge(p) ==
    /\ At(p, "judge")
    /\ \/ Goto(p, IF Frozen THEN "returnConfirm"
                  ELSE IF Thawing THEN "nominate" ELSE "isFrozen")
          /\ UNCHANGED lost
       \/ Loses("judge") /\ Catch(p)
    /\ UNCHANGED <<entry, tombstone, freeze, slots, owner, ready, completions>>

\* tryStartThawRequest, one atomic test-and-mark.
Nominate(p) ==
    LET r == pass[p].r
        exists == \/ \E o \in Requests \ {r} : CompetingProbe(o)
                  \/ ~Queued(r)
    IN
    /\ At(p, "nominate")
    /\ entry' = IF exists THEN entry ELSE [entry EXCEPT ![r].thaw = TRUE]
    /\ \/ /\ IF exists THEN Goto(p, "returnConfirm")
             ELSE /\ pass' = [pass EXCEPT ![p].pc = "isFrozen",
                                          ![p].thaw = TRUE]
                  /\ UNCHANGED overtaken
          /\ UNCHANGED lost
       \/ Loses("nominate") /\ Catch(p)
    /\ UNCHANGED <<tombstone, freeze, slots, owner, ready, completions>>

\* tryAcquireTurn's first look at the freeze: ClientFrozenError is thrown.
CheckFrozen(p) ==
    /\ At(p, "isFrozen")
    /\ \/ /\ IF Frozen THEN Catch(p) ELSE Goto(p, "claim")
          /\ UNCHANGED lost
       \/ Loses("isFrozen") /\ Catch(p)
    /\ UNCHANGED <<entry, tombstone, freeze, slots, owner, ready, completions>>

\* acquireQueuedConcurrency: only while the entry still reads inProgress.
ClaimSlot(p) ==
    LET id == <<pass[p].r, pass[p].n>>
        acquired == entry[pass[p].r].status = "inProgress" /\ HasRoom(id)
    IN
    /\ At(p, "claim")
    /\ slots' = IF acquired THEN slots \cup {id} ELSE slots
    /\ \/ /\ Goto(p, IF acquired THEN "isFrozen2" ELSE "returnConfirm")
          /\ UNCHANGED lost
       \/ Loses("claim") /\ Catch(p)
    /\ UNCHANGED <<entry, tombstone, freeze, owner, ready, completions>>

\* tryAcquireTurn's second look, after the claim.
RecheckFrozen(p) ==
    /\ At(p, "isFrozen2")
    /\ \/ Goto(p, IF Frozen THEN "release" ELSE "reread") /\ UNCHANGED lost
       \/ Loses("isFrozen2") /\ Catch(p)
    /\ UNCHANGED <<entry, tombstone, freeze, slots, owner, ready, completions>>

\* releaseClaim, whose failure is only logged, then ClientFrozenError.
ReleaseFrozen(p) ==
    /\ At(p, "release")
    /\ \/ slots' = slots \ {<<pass[p].r, pass[p].n>>} /\ UNCHANGED lost
       \/ Loses("release") /\ UNCHANGED slots
    /\ Catch(p)
    /\ UNCHANGED <<entry, tombstone, freeze, owner, ready, completions>>

\* The re-read after a claim that holds a slot; a failed read counts as queued.
Reread(p) ==
    /\ At(p, "reread")
    /\ \/ /\ Goto(p, IF Queued(pass[p].r) THEN "confirm" ELSE "gone")
          /\ UNCHANGED lost
       \/ Loses("reread") /\ Goto(p, "confirm")
    /\ UNCHANGED <<entry, tombstone, freeze, slots, owner, ready, completions>>

\* confirmRequest: the stamp goes, and with it the lease.
Unstamp(p) ==
    IF Confirmable(p) THEN [entry EXCEPT ![pass[p].r].claim = NoClaim]
    ELSE entry

Confirm(p) ==
    /\ At(p, "confirm")
    /\ entry' = Unstamp(p)
    /\ \/ /\ pass' = [pass EXCEPT
                 ![p].sent = TRUE,
                 ![p].pc = IF Confirmable(p) THEN "handover" ELSE "regone"]
          /\ UNCHANGED lost
       \/ /\ Loses("confirm")
          /\ pass' = [pass EXCEPT ![p].sent = TRUE, ![p].caught = TRUE,
                                  ![p].pc = "returnWrite"]
    /\ GivesUp(p)
    /\ UNCHANGED <<tombstone, freeze, slots, owner, ready, completions>>

\* A refused confirmation releases nothing unless the entry is gone.
RereadRefused(p) ==
    /\ At(p, "regone")
    /\ \/ /\ IF Queued(pass[p].r) THEN EndPass(p) ELSE Goto(p, "gone")
          /\ UNCHANGED lost
       \/ Loses("reread") /\ EndPass(p)
    /\ UNCHANGED <<entry, tombstone, freeze, slots, owner, ready, completions>>

\* Mutant: the claim of an entry that is gone is released at any age.
GoneClockAnyAge(p) ==
    /\ At(p, "gone")
    /\ \/ Goto(p, "goneRelease") /\ UNCHANGED lost
       \/ Loses("now") /\ EndPass(p)
    /\ UNCHANGED <<entry, tombstone, freeze, slots, owner, ready, completions>>

\* releaseGoneClaim samples the clock: past the lease the slot may be the
\* one a stream of another dispatch is using.
GoneClock(p) ==
    /\ At(p, "gone")
    /\ \/ /\ IF pass[p].age >= Lease THEN EndPass(p) ELSE Goto(p, "goneRelease")
          /\ UNCHANGED lost
       \/ Loses("now") /\ EndPass(p)
    /\ UNCHANGED <<entry, tombstone, freeze, slots, owner, ready, completions>>

GoneRelease(p) ==
    /\ At(p, "goneRelease")
    /\ \/ slots' = slots \ {<<pass[p].r, pass[p].n>>} /\ UNCHANGED lost
       \/ Loses("release") /\ UNCHANGED slots
    /\ EndPass(p)
    /\ UNCHANGED <<entry, tombstone, freeze, owner, ready, completions>>

\* The request's owner is told; a publish that fails may still be delivered.
HandOver(p) ==
    LET msg == [r |-> pass[p].r, n |-> pass[p].n, thaw |-> pass[p].thaw] IN
    /\ At(p, "handover")
    /\ \/ ready' = ready \cup {msg} /\ EndPass(p) /\ UNCHANGED lost
       \/ /\ Loses("publish") /\ Catch(p)
          /\ (ready' = ready \/ ready' = ready \cup {msg})
    /\ UNCHANGED <<entry, tombstone, freeze, slots, owner, completions>>

\* returnToQueue confirms first unless a confirmation was already sent.
ReturnConfirm(p) ==
    /\ At(p, "returnConfirm")
    /\ entry' = Unstamp(p)
    /\ GivesUp(p)
    /\ \/ /\ IF Confirmable(p)
             THEN pass' = [pass EXCEPT ![p].pc = "returnWrite",
                                       ![p].sent = TRUE]
             ELSE EndPass(p)
          /\ UNCHANGED lost
       \/ /\ Loses("confirm")
          /\ IF pass[p].caught THEN EndPass(p)
             ELSE pass' = [pass EXCEPT ![p].pc = "returnWrite",
                                       ![p].sent = TRUE, ![p].caught = TRUE]
    /\ UNCHANGED <<tombstone, freeze, slots, owner, ready, completions>>

\* updateRequest: the entry, if it still exists, is plainly pending again, and
\* a probe that this pass knows of gives its mark back.
Returned(p) ==
    LET r == pass[p].r IN
    IF ~Queued(r) THEN entry
    ELSE [entry EXCEPT ![r].status = "pending", ![r].claim = NoClaim,
                       ![r].thaw = @ /\ ~pass[p].thaw]

ReturnWrite(p) ==
    /\ At(p, "returnWrite")
    /\ \/ entry' = Returned(p) /\ EndPass(p) /\ UNCHANGED lost
       \/ /\ Loses("write")
          /\ (entry' = entry \/ entry' = Returned(p))
          /\ IF pass[p].caught THEN EndPass(p)
             ELSE /\ pass' = [pass EXCEPT ![p].caught = TRUE, ![p].thaw = FALSE]
                  /\ GivesUp(p)
    /\ UNCHANGED <<tombstone, freeze, slots, owner, ready, completions>>

\* A pass that has judged its request, and may still confirm it.
Admitting == {"nominate", "isFrozen", "claim", "isFrozen2", "reread", "confirm"}

PassStep(p) ==
    \/ Judge(p) \/ Nominate(p) \/ CheckFrozen(p) \/ ClaimSlot(p)
    \/ RecheckFrozen(p) \/ ReleaseFrozen(p) \/ Reread(p) \/ Confirm(p)
    \/ RereadRefused(p) \/ GoneClock(p) \/ GoneRelease(p) \/ HandOver(p)
    \/ ReturnConfirm(p) \/ ReturnWrite(p)

---------------------------------------------------------------------------
(* The owner of a request: waitForRequestReady, the attempt, the retry.    *)

Phase(r, ph) == owner[r].phase = ph

\* What is owed once an attempt is over.  A completion keeps only the steps
\* of handleRequestDone that have something to do; the removal may find the
\* entry marked as a probe and add the last one.
Freezes(o) == o \in {"429", "5xx"} /\ FreezeTime > 0

Completion(r, o, final, halves) ==
    LET w == owner[r] IN
    [r |-> r, n |-> w.n, final |-> final, fast |-> w.fast, thaw |-> w.thaw,
     outcome |-> o, due |-> 0,
     steps |-> {s \in halves :
                  \/ s = "queue" /\ final /\ ~w.fast
                  \/ s \in {"clock", "freeze"} /\ Freezes(o)
                  \/ s = "slot"
                  \/ s = "thaw" /\ w.thaw}]

Announce(c) == completions' =
    IF c.steps = {} THEN completions ELSE completions \cup {c}

\* tryAdmitImmediately: nothing queued, nothing frozen, and room at once.
FastPathOpen(id) ==
    (\A o \in Requests : ~Queued(o)) /\ ~FreezeBlocksAdmission /\ HasRoom(id)

FastAdmit(r) ==
    /\ Phase(r, "new")
    /\ FastPathOpen(<<r, owner[r].n>>)
    /\ slots' = slots \cup {<<r, owner[r].n>>}
    /\ owner' = [owner EXCEPT ![r].phase = "running", ![r].fast = TRUE]
    /\ UNCHANGED <<entry, tombstone, freeze, pass, ready, completions, lost,
                   overtaken>>

\* The listener is registered, then the add is issued.
Enqueue(r) ==
    /\ Phase(r, "new")
    /\ ~FastPathOpen(<<r, owner[r].n>>)
    /\ owner' = [owner EXCEPT ![r].phase = "adding", ![r].fast = FALSE]
    /\ UNCHANGED <<entry, tombstone, freeze, slots, pass, ready, completions,
                   lost, overtaken>>

\* Mutant: a removed id is not remembered.
AddableAgain(r) == ~Queued(r)

\* addRequest refuses a removed id and leaves an existing entry alone.
Addable(r) == r \notin tombstone /\ ~Queued(r)

AddRequest(r) ==
    /\ owner[r].phase \in {"adding", "doneAdding"}
    /\ entry' = IF Addable(r)
                THEN [entry EXCEPT ![r] = [NoEntry EXCEPT
                        !.status = "pending", !.thaw = owner[r].thaw,
                        !.retries = owner[r].n]]
                ELSE entry
    /\ owner' = [owner EXCEPT ![r].phase =
                    CASE @ = "doneAdding" -> "done"
                      [] @ = "adding" /\ owner[r].n > 0 /\ ~Addable(r) -> "flipping"
                      [] OTHER -> "waiting"]
    /\ UNCHANGED <<tombstone, freeze, slots, pass, ready, completions, lost,
                   overtaken>>

\* Mutant: the retry's write leaves the status as the attempt left it.
FlipForgotten(r) ==
    /\ owner[r].phase \in {"flipping", "doneFlipping"}
    /\ owner' = [owner EXCEPT ![r].phase =
                    IF @ = "doneFlipping" THEN "done" ELSE "waiting"]
    /\ UNCHANGED <<entry, tombstone, freeze, slots, pass, ready, completions,
                   lost, overtaken>>

\* A retry whose entry survived is made claimable only now.
FlipToPending(r) ==
    /\ owner[r].phase \in {"flipping", "doneFlipping"}
    /\ entry' = IF Queued(r) THEN [entry EXCEPT ![r].status = "pending",
                                                ![r].claim = NoClaim]
                ELSE entry
    /\ owner' = [owner EXCEPT ![r].phase =
                    IF @ = "doneFlipping" THEN "done" ELSE "waiting"]
    /\ UNCHANGED <<tombstone, freeze, slots, pass, ready, completions, lost,
                   overtaken>>

\* onReady, once; without a listener the notification is lost.
OnReady(m) ==
    /\ owner[m.r].phase \notin {"adding", "flipping"}
    /\ ready' = ready \ {m}
    /\ owner' = IF Phase(m.r, "waiting")
                THEN [owner EXCEPT ![m.r].phase = "running",
                                   ![m.r].thaw = m.thaw]
                ELSE owner
    /\ UNCHANGED <<entry, tombstone, freeze, slots, pass, completions, lost,
                   overtaken>>

\* The admission timeout, an abort, or shutdown while no attempt is running; a
\* write the owner has issued still lands.
Abandon(r) ==
    /\ r \in Abandonable
    /\ owner[r].phase \in {"new", "adding", "flipping", "waiting"}
    /\ Announce(Completion(r, "noAnswer", TRUE, AllSteps))
    /\ owner' = [owner EXCEPT ![r].phase =
                    CASE @ = "adding" -> "doneAdding"
                      [] @ = "flipping" -> "doneFlipping"
                      [] OTHER -> "done"]
    /\ UNCHANGED <<entry, tombstone, freeze, slots, pass, ready, lost, overtaken>>

\* The attempt's result: handleRetry decides, the entry is re-scored for a
\* retry (its status is left alone), and the completion is announced.
Finish(r, o) ==
    LET retry == o \in {"retry", "5xx", "429"} /\ owner[r].n < MaxRetries IN
    /\ Phase(r, "running") /\ o # "stream"
    /\ Announce(Completion(r, o, ~retry, AllSteps))
    /\ entry' = IF retry /\ Queued(r)
                THEN [entry EXCEPT ![r].retries = owner[r].n + 1] ELSE entry
    /\ owner' = [owner EXCEPT ![r].phase = IF retry THEN "new" ELSE "done",
                              ![r].n = IF retry THEN @ + 1 ELSE @]
    /\ UNCHANGED <<tombstone, freeze, slots, pass, ready, lost, overtaken>>

\* A streamed response settles the queue at its headers and holds its slot
\* to its end, where a broken stream may still freeze the client.  A fast
\* admission has no entry, so its headers announce nothing.
StreamHeaders(r) ==
    /\ Phase(r, "running")
    /\ Announce(Completion(r, "ok", TRUE,
                           IF owner[r].fast THEN {} ELSE {"queue", "thaw"}))
    /\ owner' = [owner EXCEPT ![r].phase = "streaming"]
    /\ UNCHANGED <<entry, tombstone, freeze, slots, pass, ready, lost, overtaken>>

StreamEnd(r, o) ==
    /\ Phase(r, "streaming") /\ o \in {"ok", "5xx"}
    /\ Announce(Completion(r, o, TRUE, {"clock", "freeze", "slot"}))
    /\ owner' = [owner EXCEPT ![r].phase = "done"]
    /\ UNCHANGED <<entry, tombstone, freeze, slots, pass, ready, lost, overtaken>>

---------------------------------------------------------------------------
(* The controller applies a completion, one backend call at a time.        *)

\* c has taken a step and is now new, or gone once nothing is owed.
Progress(c, new) ==
    completions' = (completions \ {c}) \cup {x \in {new} : x.steps # {}}

NextStep(c, s) == s \in c.steps /\ \A q \in c.steps :
    CASE s = "queue"  -> TRUE
      [] s = "clock"  -> q # "queue"
      [] s = "freeze" -> q \notin {"queue", "clock"}
      [] s = "slot"   -> q \in {"slot", "thaw"}
      [] s = "thaw"   -> q = "thaw"

\* removeRequest: the entry goes, the id is remembered, and the removal says
\* whether this was the probe.
DoneRemove(c) ==
    LET thaw == c.thaw \/ entry[c.r].thaw IN
    /\ NextStep(c, "queue")
    /\ entry' = [entry EXCEPT ![c.r] = NoEntry]
    /\ tombstone' = tombstone \cup {c.r}
    /\ Progress(c, [c EXCEPT !.thaw = thaw,
          !.steps = (@ \ {"queue"}) \cup (IF thaw THEN {"thaw"} ELSE {})])
    /\ UNCHANGED <<freeze, slots, pass, owner, ready, lost, overtaken>>

\* handleFreezeRequests reads the backend's clock for the window's end, ...
DoneClock(c) ==
    /\ NextStep(c, "clock")
    /\ Progress(c, [c EXCEPT !.steps = @ \ {"clock"}, !.due = FreezeTime])
    /\ UNCHANGED <<entry, tombstone, freeze, slots, pass, owner, ready, lost,
                   overtaken>>

\* ... then arms it: armFreeze keeps the longer window and the larger probe
\* budget.  Who has judged by then does not know of it.
DoneFreeze(c) ==
    /\ NextStep(c, "freeze")
    /\ freeze' = [left |-> MaxOf(freeze.left, c.due),
                  thawCount |-> MaxOf(freeze.thawCount,
                      IF c.outcome = "429" THEN ThawRequestCount ELSE 0)]
    /\ Progress(c, [c EXCEPT !.steps = @ \ {"freeze"}, !.due = 0])
    /\ overtaken' = {p \in Passes : pass[p].pc \in Admitting}
    /\ UNCHANGED <<entry, tombstone, slots, pass, owner, ready, lost>>

\* handleOwnTypeRequestDone: the slot of the attempt that ran.
DoneSlot(c) ==
    /\ NextStep(c, "slot")
    /\ slots' = slots \ {<<c.r, c.n>>}
    /\ Progress(c, [c EXCEPT !.steps = @ \ {"slot"}])
    /\ UNCHANGED <<entry, tombstone, freeze, pass, owner, ready, lost, overtaken>>

\* updateThawProgress: an answer that does not freeze is progress.
DoneThaw(c) ==
    /\ NextStep(c, "thaw")
    /\ freeze' = IF c.outcome \in {"ok", "retry"}
                 THEN [freeze EXCEPT !.thawCount = MaxOf(0, @ - 1)]
                 ELSE freeze
    /\ Progress(c, [c EXCEPT !.steps = @ \ {"thaw"}])
    /\ UNCHANGED <<entry, tombstone, slots, pass, owner, ready, lost, overtaken>>

DoneStep(c) ==
    \/ DoneRemove(c) \/ DoneClock(c) \/ DoneFreeze(c) \/ DoneSlot(c)
    \/ DoneThaw(c)

---------------------------------------------------------------------------
(* Time passes for every claim and every window at once.                   *)

Aged(a) == IF a = NoClaim \/ a = Lease THEN a ELSE a + 1

Tick ==
    /\ PromptPasses => \A p \in Passes :
          pass[p].pc # "idle" => pass[p].age + 1 < Lease
    /\ entry' = [r \in Requests |-> [entry[r] EXCEPT !.claim = Aged(@)]]
    /\ pass' = [p \in Passes |-> IF pass[p].pc = "idle" THEN pass[p]
                                  ELSE [pass[p] EXCEPT !.age = Aged(@)]]
    /\ freeze' = [freeze EXCEPT !.left = MaxOf(0, @ - 1)]
    /\ completions' = {[c EXCEPT !.due = MaxOf(0, @ - 1)] : c \in completions}
    /\ UNCHANGED <<tombstone, slots, owner, ready, lost, overtaken>>

OwnerStep(r) ==
    \/ FastAdmit(r) \/ Enqueue(r) \/ AddRequest(r) \/ FlipToPending(r)
    \/ Abandon(r)
    \/ \E o \in Outcomes \ {"stream"} : Finish(r, o)
    \/ "stream" \in Outcomes /\ StreamHeaders(r)
    \/ \E o \in Outcomes : StreamEnd(r, o)

Next ==
    \/ \E p \in Passes : Select(p) \/ PassStep(p)
    \/ \E r \in Requests : OwnerStep(r)
    \/ \E m \in ready : OnReady(m)
    \/ \E c \in completions : DoneStep(c)
    \/ Tick

Spec == Init /\ [][Next]_vars

\* What the code schedules by itself: a pass runs to its end and is started
\* again by ticks and completions, an issued call lands, a notification is
\* delivered, the upstream answers or times out, the controller cleans up.
\* Nobody is obliged to abandon a request.
Fairness ==
    /\ \A p \in Passes : WF_vars(Select(p)) /\ WF_vars(PassStep(p))
    /\ \A r \in Requests :
         /\ WF_vars(FastAdmit(r) \/ Enqueue(r))
         /\ WF_vars(AddRequest(r) \/ FlipToPending(r))
         /\ WF_vars(\E o \in Outcomes : Finish(r, o) \/ StreamEnd(r, o))
    /\ WF_vars(\E m \in ready : OnReady(m))
    /\ WF_vars(\E c \in completions : DoneStep(c))
    /\ WF_vars(Tick)

FairSpec == Spec /\ Fairness

---------------------------------------------------------------------------
(* Properties.                                                             *)

\* The attempt is with its owner, or on its way there.
HandedOver(r) ==
    \/ owner[r].phase \in {"running", "streaming"} /\ ~owner[r].fast
    \/ \E m \in ready : m.r = r /\ m.n = owner[r].n
                       /\ owner[r].phase \in {"adding", "flipping", "waiting"}

\* A request that a pass has handed to its owner cannot be handed out by
\* another: its entry, while it has one, is neither pending nor under a claim
\* that may lapse.  The confirmation before every dispatch and before every
\* write-back in processRequests is there for this.
AdmittedNotClaimable ==
    \A r \in Requests : HandedOver(r) => ~Claimable(r)

\* Every attempt in flight, a stream to its end included, holds its slot, so
\* that the ledger bounds what is really running: nobody but the attempt's
\* own completion gives the slot back (processRequests, releaseGoneClaim).
RunningHoldsSlot ==
    \A r \in Requests : owner[r].phase \in {"running", "streaming"} =>
        <<r, owner[r].n>> \in slots

\* The ledger never holds more slots than maxConcurrency, whoever claims and
\* whatever replies are lost.
LedgerWithinLimit == Cardinality(slots) <= MaxConcurrency

\* Once the removal of a finished request is applied nothing brings its entry
\* back, an add that the removal overtook included: an entry without a waiter
\* would close the fast path of the whole client.
NoEntryWithoutWaiter ==
    \A r \in Requests : r \in tombstone => ~Queued(r)

\* An entry taken out of the lease by a confirmation is in somebody's hands:
\* a pass is about to act on it, or its owner knows.  Otherwise nothing hands
\* it out again before its admission times out.
NotStranded ==
    \A r \in Requests :
        (entry[r].status = "inProgress" /\ entry[r].claim = NoClaim
            /\ Phase(r, "waiting"))
        => \/ \E p \in Passes : pass[p].r = r
                  /\ pass[p].pc \in {"handover", "returnWrite"}
           \/ \E m \in ready : m.r = r

\* A probe that was confirmed for a caller who waits, and is not answered yet.
ProbeOut(r) ==
    \/ Phase(r, "running") /\ ~owner[r].fast /\ owner[r].thaw
    \/ /\ Phase(r, "waiting")
       /\ \/ \E m \in ready : m.r = r /\ m.thaw
          \/ \E p \in Passes : At(p, "handover") /\ pass[p].r = r
                               /\ pass[p].thaw

\* While probes are owed they go out one at a time: a pass that judged since the
\* freeze was armed confirms a waiting request only when no other probe is
\* unanswered (tryStartThawRequest's test-and-mark, and the lease on it), however
\* the lease compares with the window.  Said of behaviours in which every reply
\* arrived: a pass that loses the reply of a confirmation or of a hand-over
\* writes back an entry that may be out.
OneProbeAtATime ==
    [][\A p \in Passes :
          (/\ lost = 0 /\ At(p, "confirm") /\ pass'[p].pc = "handover"
           /\ Thawing /\ p \notin overtaken /\ Phase(pass[p].r, "waiting"))
          => \A o \in Requests \ {pass[p].r} : ~ProbeOut(o)]_vars

\* A freeze holds back all it can: while it stands, and while probes are owed
\* after it, a pass confirms a request only as a probe past the window, unless
\* the freeze was armed after the pass had judged and neither of the pass's later
\* looks (tryAcquireTurn) fell inside the window.
FreezeHoldsBack ==
    [][\A p \in Passes :
          (/\ At(p, "confirm") /\ pass'[p].pc = "handover"
           /\ FreezeBlocksAdmission /\ p \notin overtaken)
          => Thawing /\ pass[p].thaw]_vars

\* A queued request does not wait for ever.
EventuallyAdmitted ==
    \A r \in Requests : Phase(r, "waiting") ~> ~Phase(r, "waiting")
===========================================================================
