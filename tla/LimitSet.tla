----------------------------- MODULE LimitSet -----------------------------
(***************************************************************************)
(* A client's list of limits, claimed as one operation and handed back by  *)
(* name while operators rename, drop and retune the limits underneath.     *)
(*                                                                         *)
(* A claim (meteredClient.ts tryAdmitImmediately, tryAcquireTurn) plans    *)
(* every budget of the list before it spends any of them, and records the  *)
(* keys it claimed; completion, refund and abandonment act on those keys   *)
(* and not on the list the client has by then.  The replica that drains    *)
(* the queue and the one that owns the requests each hold their own copy   *)
(* of the list, changed by broadcasts they receive at different times.     *)
(*                                                                         *)
(* One drain pass runs at a time and its lease does not lapse: two passes, *)
(* leases, lost replies and thaw probes are the subject of AdmissionQueue. *)
(* Refill counters, marks and settlements are those of TokenBucket.        *)
(***************************************************************************)
EXTENDS Integers, Sequences, FiniteSets, FiniteSetsExt, Functions

CONSTANTS
    Attempts,    \* attempts, each with a slot id of its own
    Names,       \* the names a limit may have
    DefaultName, \* the one a limit without a name takes
    NoName,      \* a declared limit's name left out
    Cost,        \* what each attempt asks: [each, of], see CostProblem
    InitLimits,  \* the list the client is built with
    Declared,    \* the lists an operator may publish
    Interval,    \* a bucket's refill interval, one token each
    RequestTtl,  \* how long a slot lives untouched
    FreezeTime,  \* how long a 429 stands the client down
    MaxTime, MaxUpdates \* bounds

Replicas == {"controller", "owner"}
Types == {"requestLimit", "concurrencyLimit", "noLimit"}
NamedLimit == [type : Types, name : Names, max : Nat]
DeclaredLimit == [type : Types, name : Names \cup {NoName}, max : Nat]

ASSUME LimitSetAssumption ==
    /\ IsFiniteSet(Attempts) /\ DefaultName \in Names /\ NoName \notin Names
    /\ Cost \in [Attempts -> [each : BOOLEAN, of : [Names -> Nat]]]
    /\ InitLimits \in Seq(NamedLimit)
    /\ Declared \subseteq Seq(DeclaredLimit)
    /\ {Interval, RequestTtl, FreezeTime} \subseteq Nat \ {0}
    /\ {MaxTime, MaxUpdates} \subseteq Nat

VARIABLES
    limits,    \* the list each replica has
    published, \* the updates broadcast so far, in order
    seen,      \* how many of them each replica has received or missed
    ledger,    \* the slots: by name, then by attempt
    bucket,    \* the balances, by name; an absent one reads as full
    freeze,    \* [until, emptied] of the standing freeze
    entry,     \* an attempt's place in the queue
    att,       \* an attempt as its owner sees it
    pass,      \* the drain pass of the controller
    cleanup,   \* slots a completion has still to give back
    now,       \* the backend's clock
    taken      \* what each attempt took from the buckets, not yet returned, when,
               \* and whether a list that meters nothing admitted it

vars == <<limits, published, seen, ledger, bucket, freeze, entry, att, pass,
          cleanup, now, taken>>

Slots(n)   == <<"concurrency", n>>
Tokens(n)  == <<"rateLimit", n>>
Keys       == {Slots(n) : n \in Names} \cup {Tokens(n) : n \in Names}
\* claimedKeys left undefined, and a requestReady that has not come: keys no
\* limit has stand for them.
Unknown    == {<<"unknown", DefaultName>>}
Untold     == {<<"untold", DefaultName>>}
NoSlot     == [at |-> -1, cost |-> 0]
Idle       == [on |-> {}, step |-> "idle", keys |-> {}, stale |-> {}, multi |-> {}]

---------------------------------------------------------------------------
(* The list of limits: names, usability, and what an attempt is charged.   *)

Of(list, type) == {l \in Range(list) : l.type = type}
SlotLimits(list)  == Of(list, "concurrencyLimit")
TokenLimits(list) == Of(list, "requestLimit")
Metered(list) == SlotLimits(list) \cup TokenLimits(list)
KeyOf(l) == IF l.type = "concurrencyLimit" THEN Slots(l.name) ELSE Tokens(l.name)

\* inheritedName: that of the one limit of the type, unless it is taken.
InheritedName(config, type, previous) ==
    LET sameType == Of(previous, type)
        free == {p.name : p \in sameType} \ {l.name : l \in Range(config)} IN
    IF Cardinality(sameType) = 1 /\ free # {}
    THEN CHOOSE n \in free : TRUE ELSE DefaultName

\* normalizeRateLimit: a list's one unnamed limit inherits a name, several
\* all take the default.
NormalizeRateLimit(config, previous) ==
    LET sole == Cardinality({i \in DOMAIN config : config[i].name = NoName}) = 1 IN
    [i \in DOMAIN config |->
        IF config[i].name # NoName THEN config[i]
        ELSE [config[i] EXCEPT !.name =
                IF sole THEN InheritedName(config, config[i].type, previous)
                ELSE DefaultName]]

\* assertUsableRateLimits.
UsableRateLimits(list) ==
    /\ list # <<>>
    /\ \A i, j \in DOMAIN list : list[i].name = list[j].name => i = j
    /\ \A l \in Metered(list) : l.max > 0

\* costProblem: a cost by limit names exactly the metered limits, and no
\* amount exceeds its own limit's ceiling.
CostProblem(a, list) ==
    \/ /\ Cost[a].each
       /\ {l.name : l \in Metered(list)} # {n \in Names : Cost[a].of[n] > 0}
    \/ \E l \in Metered(list) : Cost[a].of[l.name] > l.max

\* getLimitSpecs: what an attempt spends in every budget of a list.
GetLimitSpecs(a, list) ==
    {[key |-> KeyOf(l), limit |-> l, cost |-> Cost[a].of[l.name]]
        : l \in Metered(list)}

\* The claimedKeys of an admission: a list that meters nothing sets none.
ClaimedKeys(specs) == IF specs = {} THEN Unknown ELSE {s.key : s \in specs}

\* wasClaimed: undefined claimedKeys read as everything.
WasClaimed(keys, k) == keys = Unknown \/ k \in keys

---------------------------------------------------------------------------
(* The backend: one operation plans every budget, then spends all or none. *)

\* refill: whole intervals since the last update, up to the limit's maximum.
Refill(l) ==
    LET b == bucket[l.name] IN
    IF b.absent THEN [absent |-> FALSE, tokens |-> l.max, last |-> now]
    ELSE LET k == (now - b.last) \div Interval IN
         [b EXCEPT !.tokens = Min({l.max, @ + k}), !.last = @ + k * Interval]

\* Mutant: the reaper takes a slot an instant early.
ReapedEarly(n) ==
    [a \in Attempts |-> IF ledger[n][a].at < now
                        THEN NoSlot ELSE ledger[n][a]]

\* reapConcurrency: a slot nobody touched for its lifetime is a crashed
\* holder's.
Reaped(n) ==
    [a \in Attempts |-> IF ledger[n][a].at <= now - RequestTtl
                        THEN NoSlot ELSE ledger[n][a]]

\* concurrencyCost, ignoring the attempt's own slot.
ConcurrencyCost(slots, except) ==
    MapThenSumSet(LAMBDA a : slots[a].cost, Attempts \ {except})

\* One budget's verdict in planMultiLimit.
Fits(a, s) ==
    IF s.limit.type = "requestLimit" THEN Refill(s.limit).tokens >= s.cost
    ELSE ConcurrencyCost(Reaped(s.limit.name), a) + s.cost <= s.limit.max

\* Mutant: each budget is spent as soon as it agrees.
SpendsEach(a, specs, s) == Fits(a, s)

\* Nothing is spent in one budget unless every budget agrees.
Spends(a, specs, s) == \A t \in specs : Fits(a, t)

\* acquireMultiLimit and the single-budget claims: the refill and the reaping
\* are written either way.  The claim of a sole concurrency limit may be
\* refused (ok) for its entry's status.
Commit(a, specs, ok) ==
    LET spec(k) == CHOOSE s \in specs : s.key = k
        claims(k) == \E s \in specs : s.key = k
        spends(k) == ok /\ claims(k) /\ Spends(a, specs, spec(k)) IN
    /\ ledger' = [n \in Names |->
          IF ~claims(Slots(n)) THEN ledger[n]
          ELSE IF ~spends(Slots(n)) THEN Reaped(n)
          ELSE [Reaped(n) EXCEPT ![a] = [at |-> now, cost |-> Cost[a].of[n]]]]
    /\ bucket' = [n \in Names |->
          IF ~claims(Tokens(n)) THEN bucket[n]
          ELSE [Refill(spec(Tokens(n)).limit) EXCEPT !.tokens =
                  @ - (IF spends(Tokens(n)) THEN Cost[a].of[n] ELSE 0)]]
    /\ taken' = [taken EXCEPT ![a] =
          [free |-> @.free \/ specs = {},
           at |-> IF \E s \in specs : spends(s.key) THEN now ELSE @.at,
           of |-> [n \in Names |->
              @.of[n] + (IF spends(Tokens(n)) THEN Cost[a].of[n] ELSE 0)]]]

Acquired(a, specs) == \A s \in specs : Fits(a, s)
Frozen == now < freeze.until

\* releaseMultiLimit, refundTokens and releaseConcurrency: slots always,
\* tokens unless the standing freeze emptied the buckets or the bucket is
\* absent, and never above the ceiling.
ReleaseMulti(a, specs) ==
    /\ ledger' = [n \in Names |->
          IF \E s \in specs : s.key = Slots(n)
          THEN [ledger[n] EXCEPT ![a] = NoSlot] ELSE ledger[n]]
    /\ LET paid(n) == {s \in specs : /\ s.key = Tokens(n) /\ ~bucket[n].absent
                                     /\ ~(Frozen /\ freeze.emptied)} IN
       /\ bucket' = [n \in Names |-> IF paid(n) = {} THEN bucket[n] ELSE
             LET s == CHOOSE s \in paid(n) : TRUE IN
             [bucket[n] EXCEPT !.tokens = Min({s.limit.max, @ + s.cost})]]
       /\ taken' = [taken EXCEPT ![a].of = [n \in Names |->
             @[n] - (IF paid(n) = {} THEN 0 ELSE Cost[a].of[n])]]

\* releaseConcurrency.
ReleaseSlot(a, n) == ledger' = [ledger EXCEPT ![n][a] = NoSlot]

---------------------------------------------------------------------------
(* What is handed back, from the list a replica has at that moment.        *)

\* Mutant: everything the list names now is handed back.
HeldSpecsByName(a, keys, list) == GetLimitSpecs(a, list)

\* The budgets of a list that the attempt claimed from (heldSpecs, and the
\* filter of releaseClaim).
HeldSpecs(a, keys, list) ==
    {s \in GetLimitSpecs(a, list) : WasClaimed(keys, s.key)}

\* Mutant: a ledger the list no longer names is forgotten.
StaleSlotsForgotten(keys, list) == {}

\* releaseStaleSlots: ledgers claimed from that the list no longer names.
StaleSlots(keys, list) ==
    IF keys = Unknown THEN {}
    ELSE {n \in Names : Slots(n) \in keys
                        /\ \A l \in SlotLimits(list) : l.name # n}

\* handleOwnTypeRequestDone: the ledgers a completion is to be released from.
ToRelease(a, keys, list) ==
    StaleSlots(keys, list)
    \cup {s.limit.name : s \in {h \in HeldSpecs(a, keys, list) :
                                  h.limit.type = "concurrencyLimit"}}

---------------------------------------------------------------------------
(* The owner's side of an attempt.                                         *)

QueueEmpty == \A a \in Attempts : entry[a] = "absent"

\* tryAdmitImmediately while nothing is queued and nothing frozen: the claim
\* is the owner's own, without limits nothing is claimed (tryAdmitNoLimit);
\* declined, the attempt takes its place in the queue.
TryAdmitImmediately(a) ==
    LET list == limits["owner"]
        specs == GetLimitSpecs(a, list) IN
    /\ att[a].state = "new" /\ ~CostProblem(a, list)
    /\ IF QueueEmpty /\ ~Frozen
       THEN Commit(a, specs, TRUE) ELSE UNCHANGED <<ledger, bucket, taken>>
    /\ IF QueueEmpty /\ ~Frozen /\ Acquired(a, specs)
       THEN /\ att' = [att EXCEPT ![a] = [@ EXCEPT !.state = "running",
                          !.keys = ClaimedKeys(specs)]]
            /\ UNCHANGED entry
       ELSE /\ att' = [att EXCEPT ![a].state = "waiting"]
            /\ entry' = [entry EXCEPT ![a] = "pending"]
    /\ UNCHANGED <<limits, published, seen, freeze, pass, cleanup, now>>

\* onReady: the pass's word, with the keys it claimed.
OnReady(a) ==
    /\ att[a].state = "waiting" /\ att[a].ready # Untold
    /\ att' = [att EXCEPT ![a] = [@ EXCEPT !.state = "running",
                  !.keys = att[a].ready]]
    /\ UNCHANGED <<limits, published, seen, ledger, bucket, freeze, entry, pass,
                   cleanup, now, taken>>

\* publishAbandoned, on a timeout or an abort of the wait: the owner was told
\* no keys.
Abandon(a) ==
    /\ att[a].state = "waiting"
    /\ att' = [att EXCEPT ![a].state = "announced"]
    /\ UNCHANGED <<limits, published, seen, ledger, bucket, freeze, entry, pass,
                   cleanup, now, taken>>

\* keepAttemptAlive: the slots the attempt holds under the current names.
KeepAttemptAlive(a) ==
    /\ att[a].state = "running"
    /\ ledger' = [n \in Names |->
          IF /\ \E s \in HeldSpecs(a, att[a].keys, limits["owner"]) : s.key = Slots(n)
             /\ ledger[n][a] # NoSlot
          THEN [ledger[n] EXCEPT ![a].at = now] ELSE ledger[n]]
    /\ UNCHANGED <<limits, published, seen, bucket, freeze, entry, att, pass,
                   cleanup, now, taken>>

\* The vendor answered; a 429 and a 5xx ask for a freeze.
Finish(a) ==
    /\ att[a].state = "running"
    /\ \E outcome \in {"ok", "429", "5xx"} :
          att' = [att EXCEPT ![a] = [@ EXCEPT !.state = "announced",
                                              !.outcome = outcome]]
    /\ UNCHANGED <<limits, published, seen, ledger, bucket, freeze, entry, pass,
                   cleanup, now, taken>>

\* releaseAbandonedRequest: the attempt fails between admission and dispatch,
\* and the owner starts to hand its claim back; see releaseClaim.
FailBeforeDispatch(a) ==
    LET list == limits["owner"] IN
    /\ att[a].state = "running"
    /\ att' = [att EXCEPT ![a].state = "refunding"]
    /\ cleanup' = [cleanup EXCEPT ![a] =
          IF Metered(list) = {} THEN [stale |-> {}, multi |-> {}]
          ELSE [stale |-> StaleSlots(att[a].keys, list),
                multi |-> HeldSpecs(a, att[a].keys, list)]]
    /\ UNCHANGED <<limits, published, seen, ledger, bucket, freeze, entry, pass,
                   now, taken>>

\* Its releases of stale slots, one call each, then of the rest in one.
Refund(a) ==
    LET c == cleanup[a] IN
    /\ att[a].state = "refunding"
    /\ \/ \E n \in c.stale :
             /\ ReleaseSlot(a, n)
             /\ cleanup' = [cleanup EXCEPT ![a].stale = @ \ {n}]
             /\ UNCHANGED <<bucket, taken, att>>
       \/ /\ c.stale = {}
          /\ ReleaseMulti(a, c.multi)
          /\ cleanup' = [cleanup EXCEPT ![a].multi = {}]
          /\ att' = [att EXCEPT ![a].state = "announced"]
    /\ UNCHANGED <<limits, published, seen, freeze, entry, pass, now>>

---------------------------------------------------------------------------
(* The controller: the drain pass, and completions.                        *)

\* getNextRequest.
Select(a) ==
    /\ pass = Idle /\ entry[a] = "pending"
    /\ entry' = [entry EXCEPT ![a] = "inProgress"]
    /\ pass' = [Idle EXCEPT !.on = {a}, !.step = "judge"]
    /\ UNCHANGED <<limits, published, seen, ledger, bucket, freeze, att, cleanup,
                   now, taken>>

\* returnToQueue: written only over an entry that is still there.
ReturnToQueue(a) ==
    /\ entry' = [entry EXCEPT ![a] = IF @ = "absent" THEN @ ELSE "pending"]
    /\ pass' = Idle

\* canProcessNextRequest: a standing freeze returns the entry to the queue.
CanProcessNextRequest(a) ==
    /\ pass.on = {a} /\ pass.step = "judge"
    /\ IF Frozen THEN ReturnToQueue(a)
       ELSE pass' = [pass EXCEPT !.step = "claim"] /\ UNCHANGED entry
    /\ UNCHANGED <<limits, published, seen, ledger, bucket, freeze, att, cleanup,
                   now, taken>>

\* A sole concurrency limit checks the entry in the operation that claims.
StatusChecked(list) == Len(list) = 1 /\ SlotLimits(list) # {}

\* tryAcquireTurn up to the claim: a cost the limits can never admit, a
\* freeze and a decline all return the entry to the queue.  A list that meters
\* nothing asks nothing of the attempt and goes straight to the confirmation.
TryAcquireTurn(a) ==
    LET list == limits["controller"]
        specs == GetLimitSpecs(a, list)
        open == specs = {} \/ (~CostProblem(a, list) /\ ~Frozen)
        ok == StatusChecked(list) => entry[a] = "inProgress" IN
    /\ pass.on = {a} /\ pass.step = "claim"
    /\ IF open THEN Commit(a, specs, ok) ELSE UNCHANGED <<ledger, bucket, taken>>
    /\ IF open /\ ok /\ Acquired(a, specs)
       THEN /\ pass' = [pass EXCEPT !.step = IF specs = {} THEN "confirm" ELSE "recheck",
                                     !.keys = ClaimedKeys(specs)]
            /\ UNCHANGED entry
       ELSE ReturnToQueue(a)
    /\ UNCHANGED <<limits, published, seen, freeze, att, cleanup, now>>

\* releaseClaim by the pass, from the list as it stands, then onwards to step.
StartRelease(a, step) ==
    pass' = [pass EXCEPT !.step = step,
               !.stale = StaleSlots(pass.keys, limits["controller"]),
               !.multi = HeldSpecs(a, pass.keys, limits["controller"])]

\* A freeze that landed during the claim hands it back.
RecheckFrozen(a) ==
    /\ pass.on = {a} /\ pass.step = "recheck"
    /\ IF Frozen THEN StartRelease(a, "return")
       ELSE pass' = [pass EXCEPT !.step = "confirm"]
    /\ UNCHANGED <<limits, published, seen, ledger, bucket, freeze, entry, att,
                   cleanup, now, taken>>

\* confirmRequest: an entry still there is handed to its owner; a claim for
\* one that is gone is handed back where slots are at stake.
Confirm(a) ==
    /\ pass.on = {a} /\ pass.step = "confirm"
    /\ \/ /\ entry[a] # "absent"
          /\ att' = [att EXCEPT ![a].ready = pass.keys]
          /\ pass' = Idle
       \/ /\ entry[a] = "absent"
          /\ IF SlotLimits(limits["controller"]) # {}
             THEN StartRelease(a, "drop") ELSE pass' = Idle
          /\ UNCHANGED att
    /\ UNCHANGED <<limits, published, seen, ledger, bucket, freeze, entry,
                   cleanup, now, taken>>

\* The pass's calls of releaseClaim.
PassRelease(a) ==
    /\ pass.on = {a} /\ pass.step \in {"return", "drop"}
    /\ \/ \E n \in pass.stale :
             /\ ReleaseSlot(a, n)
             /\ pass' = [pass EXCEPT !.stale = @ \ {n}]
             /\ UNCHANGED <<bucket, taken, entry>>
       \/ /\ pass.stale = {}
          /\ ReleaseMulti(a, pass.multi)
          /\ IF pass.step = "return" THEN ReturnToQueue(a)
             ELSE pass' = Idle /\ UNCHANGED entry
    /\ UNCHANGED <<limits, published, seen, freeze, att, cleanup, now>>

\* freezeEmptiesBucket, emptiedOnFreeze: only where there is one to empty.
EmptiedOnFreeze == Cardinality(TokenLimits(limits["controller"])) = 1

\* handleRequestDone: the entry goes, and a refusal arms the freeze: the
\* longest wins, and one that emptied buckets goes on having done so.
HandleRequestDone(a) ==
    /\ att[a].state = "announced"
    /\ entry' = [entry EXCEPT ![a] = "absent"]
    /\ att' = [att EXCEPT ![a].state = "freezing"]
    /\ freeze' = IF att[a].outcome = "ok" THEN freeze
                 ELSE [until |-> Max({freeze.until, now + FreezeTime}),
                       emptied |-> \/ att[a].outcome = "429" /\ EmptiedOnFreeze
                                   \/ Frozen /\ freeze.emptied]
    /\ UNCHANGED <<limits, published, seen, ledger, bucket, pass, cleanup, now,
                   taken>>

\* handleFreezeOwnTypeRequests, which reads the list again, and then the slots
\* the completion has to give back.
HandleFreezeOwnType(a) ==
    LET list == limits["controller"] IN
    /\ att[a].state = "freezing"
    /\ bucket' = [n \in Names |->
          IF /\ att[a].outcome = "429" /\ EmptiedOnFreeze
             /\ \E l \in TokenLimits(list) : l.name = n
          THEN [absent |-> FALSE, tokens |-> 0, last |-> now] ELSE bucket[n]]
    /\ att' = [att EXCEPT ![a].state = "releasing"]
    /\ cleanup' = [cleanup EXCEPT ![a] =
          [stale |-> ToRelease(a, att[a].keys, list), multi |-> {}]]
    /\ UNCHANGED <<limits, published, seen, ledger, freeze, entry, pass, now, taken>>

\* handleOwnTypeRequestDone's calls, one ledger each.  A call that fails
\* leaves the completion pending, and the health tick starts it over with the
\* list of that moment.
ReleaseDone(a) ==
    /\ att[a].state = "releasing"
    /\ \/ \E n \in cleanup[a].stale :
             /\ ReleaseSlot(a, n)
             /\ cleanup' = [cleanup EXCEPT ![a].stale = @ \ {n}]
             /\ UNCHANGED att
       \/ /\ cleanup[a].stale # {}
          /\ cleanup' = [cleanup EXCEPT ![a].stale =
                ToRelease(a, att[a].keys, limits["controller"])]
          /\ UNCHANGED <<ledger, att>>
       \/ /\ cleanup[a].stale = {}
          /\ att' = [att EXCEPT ![a].state = "done"]
          /\ UNCHANGED <<ledger, cleanup>>
    /\ UNCHANGED <<limits, published, seen, bucket, freeze, entry, pass, now, taken>>

---------------------------------------------------------------------------
(* Updates of the list, and time.                                          *)

\* updateRateLimit: the publisher resolves the names against its own list.
UpdateRateLimit(r) ==
    /\ Len(published) < MaxUpdates
    /\ \E config \in Declared :
          published' = Append(published, NormalizeRateLimit(config, limits[r]))
    /\ UNCHANGED <<limits, seen, ledger, bucket, freeze, entry, att, pass, cleanup,
                   now, taken>>

\* handleRateLimitUpdated, for a broadcast that may have been missed before:
\* a list that is not usable is ignored.
HandleRateLimitUpdated(r) ==
    \E i \in (seen[r] + 1)..Len(published) :
       LET list == NormalizeRateLimit(published[i], limits[r]) IN
       /\ seen' = [seen EXCEPT ![r] = i]
       /\ limits' = [limits EXCEPT ![r] = IF UsableRateLimits(list) THEN list ELSE @]
       /\ UNCHANGED <<published, ledger, bucket, freeze, entry, att, pass, cleanup,
                      now, taken>>

Tick ==
    /\ now < MaxTime /\ now' = now + 1
    /\ UNCHANGED <<limits, published, seen, ledger, bucket, freeze, entry, att,
                   pass, cleanup, taken>>

Init ==
    /\ limits = [r \in Replicas |-> InitLimits]
    /\ published = <<>> /\ seen = [r \in Replicas |-> 0]
    /\ ledger = [n \in Names |-> [a \in Attempts |-> NoSlot]]
    /\ bucket = [n \in Names |-> [absent |-> TRUE, tokens |-> 0, last |-> 0]]
    /\ freeze = [until |-> 0, emptied |-> FALSE]
    /\ entry = [a \in Attempts |-> "absent"]
    /\ att = [a \in Attempts |-> [state |-> "new", keys |-> Unknown,
                 ready |-> Untold, outcome |-> "ok"]]
    /\ pass = Idle
    /\ cleanup = [a \in Attempts |-> [stale |-> {}, multi |-> {}]]
    /\ now = 0
    /\ taken = [a \in Attempts |->
          [free |-> FALSE, at |-> -1, of |-> [n \in Names |-> 0]]]

Next ==
    \/ \E a \in Attempts :
          \/ TryAdmitImmediately(a) \/ OnReady(a) \/ Abandon(a)
          \/ KeepAttemptAlive(a) \/ Finish(a) \/ FailBeforeDispatch(a)
          \/ Refund(a) \/ Select(a) \/ CanProcessNextRequest(a)
          \/ TryAcquireTurn(a) \/ RecheckFrozen(a) \/ Confirm(a)
          \/ PassRelease(a) \/ HandleRequestDone(a) \/ HandleFreezeOwnType(a)
          \/ ReleaseDone(a)
    \/ \E r \in Replicas : UpdateRateLimit(r) \/ HandleRateLimitUpdated(r)
    \/ Tick

Spec == Init /\ [][Next]_vars

---------------------------------------------------------------------------
(* Properties.                                                             *)

SpecType == [key : Keys, limit : NamedLimit, cost : Nat]
KeySets == (SUBSET Keys) \cup {Unknown}

\* Lists are usable wherever a replica holds one, no balance is negative,
\* slots belong to the clock's past, and keys are keys.
TypeOK ==
    /\ \A r \in Replicas : /\ limits[r] \in Seq(NamedLimit)
                           /\ UsableRateLimits(limits[r])
                           /\ seen[r] \in 0..Len(published)
    /\ \A i \in DOMAIN published : published[i] \in Seq(NamedLimit)
    /\ \A n \in Names, a \in Attempts :
          ledger[n][a] \in {NoSlot} \cup [at : 0..now, cost : Nat]
    /\ bucket \in [Names -> [absent : BOOLEAN, tokens : Nat, last : 0..now]]
    /\ freeze \in [until : Nat, emptied : BOOLEAN]
    /\ entry \in [Attempts -> {"absent", "pending", "inProgress"}]
    /\ \A a \in Attempts :
          /\ att[a].state \in {"new", "waiting", "running", "refunding",
                               "announced", "freezing", "releasing", "done"}
          /\ att[a].keys \in KeySets /\ att[a].ready \in KeySets \cup {Untold}
          /\ att[a].outcome \in {"ok", "429", "5xx"}
          /\ cleanup[a].stale \subseteq Names /\ cleanup[a].multi \subseteq SpecType
          /\ taken[a] \in [free : BOOLEAN, at : -1..now, of : [Names -> Int]]
    /\ pass.on \subseteq Attempts /\ Cardinality(pass.on) <= 1
    /\ pass.keys \in KeySets /\ pass.stale \subseteq Names
    /\ pass.multi \subseteq SpecType

\* No attempt hands a bucket tokens it did not take from that bucket: a
\* refund goes only to budgets the attempt claimed (releaseClaim), once,
\* whichever limits were renamed, added or dropped in between.  An attempt
\* admitted by a list that meters nothing is not covered: it has no
\* claimedKeys, and where the list it is refunded by meters again, wasClaimed
\* takes every budget of that list for its claim.
RefundsOnlyWhatItTook ==
    \A a \in Attempts, n \in Names : ~taken[a].free => taken[a].of[n] >= 0

\* An attempt that was handed its claim leaves no slot behind in any ledger
\* once its completion is handled, and neither does one that gave up before,
\* as long as the limits stood still (handleOwnTypeRequestDone,
\* releaseStaleSlots, releaseGoneClaim).
FinishedHoldsNoSlot ==
    \A a \in Attempts :
        (/\ att[a].state = "done" /\ a \notin pass.on
         /\ att[a].keys # Unknown \/ \A r \in Replicas : seen[r] = 0)
        => \A n \in Names : ledger[n][a] = NoSlot

\* Until its slots have gone a lifetime without a refresh, an attempt that is
\* running counts in every ledger it claimed, renamed ones included: neither
\* another's completion nor a reaping takes its place.
RunningIsCounted ==
    \A a \in Attempts : \A n \in Names :
        (att[a].state = "running" /\ Slots(n) \in att[a].keys
         /\ now < taken[a].at + RequestTtl)
        => ledger[n][a] # NoSlot

\* Gains a slot or spends a token.
Gains(a, k) ==
    \E n \in Names : \/ k = Slots(n) /\ ledger[n][a] # ledger'[n][a] /\ ledger'[n][a].at = now
                     \/ k = Tokens(n) /\ taken'[a].of[n] > taken[a].of[n]

\* A step that spends in one budget of a list spends in every budget of it
\* (acquireMultiLimit, tryAdmitMultiLimit): a per-second token is never gone
\* for a request the daily budget refused.  Keep-alives spend nothing.
AllOrNothing ==
    [][\A a \in Attempts :
          (\E k \in Keys : Gains(a, k)) /\ att[a].state # "running"
          => \E r \in Replicas :
                /\ Metered(limits[r]) # {}
                /\ \A l \in Metered(limits[r]) :
                      Cost[a].of[l.name] > 0 => Gains(a, KeyOf(l))]_vars

===========================================================================
