# Verification of dianemo

dianemo is a TypeScript library that puts rate limits, queueing, retries and
authentication in front of outgoing HTTP requests, for a fleet of replicas that
share one backend (in memory, or Redis through Lua scripts). This directory holds
TLA+ modules of the parts that decide who is admitted when, what is charged, and
what is given back; TLC configurations that check them on small instances; and
TLAPS proofs of the properties that matter most, for every instance.

Paths below are under `src/packages/core/src` unless they say otherwise.
`PROJECT.json` maps every definition to its lines.

## 1. The system

| Component | State it keeps | Operations | Talks to |
| --- | --- | --- | --- |
| **Request queue** (`backend/memory.ts`, `backend-redis/src/lua/queue.ts`, `backend/queueScore.ts`) | a sorted set of requests per client, a metadata hash each (status, claim stamp, thaw mark, retries), tombstones | add, claim the next (a lease), confirm, update and re-score, remove, sweep orphans | called by owners, drain passes, clean-up |
| **Drain loop** (`client/methods/processRequests.ts`) | one iteration's claim | select, judge against the freeze, nominate a probe, acquire a turn, re-read, confirm, hand over, return to the queue | queue, ledger, buckets, freeze; `requestReady` to the owner |
| **Request owner** (`client/methods/handleRequest.ts`, `request/`) | the request, its waiter, the keys it was charged | fast path, enqueue, wait, abandon, send, stream, retry, announce completion | fast-path claims; `requestDone` to the fleet |
| **Completion clean-up** (`client/index.ts` `handleRequestDone`) | per completion: which of queue, freeze, slot, thaw is done | remove or keep the entry, arm the freeze, release slots, count thaw progress | every backend structure |
| **Completion hand-off** (`client/index.ts`, `utils/startSubscriptions.ts`) | retained completions, ids applied, flushes running | store, announce, apply, acknowledge, announce again, give up, drop copies | pub/sub, health tick, roles |
| **Token bucket** (`backend/memory.ts`, `lua/tokenBucket.ts`, `lua/fragments.ts`, `backend/settlement.ts`) | balance, last refill, overflow, fills and forgiven counters, generation; claim marks | acquire, fast path, refund, settle, touch a mark, empty, reset, expire | metered client |
| **Concurrency ledger** (`backend/memory.ts`, `lua/concurrency.ts`) | slot ids with their cost and last touch | claim, claim if queued, fast path, touch, reap, release | metered client |
| **Several limits** (`client/clientTypes/meteredClient.ts`, `lua/multiLimit.ts`, `utils/rateLimit.ts`, `utils/cost.ts`) | each replica's list of limits; `claimedKeys` of a request | plan and commit, release by key, update the list, name and validate it | buckets and ledgers; `rateLimitUpdated` broadcasts |
| **Freeze and thaw** (`backend/memory.ts`, `lua/freeze.ts`) | window, probes owed, whether it emptied the bucket, frozen grants | arm, judge, nominate, count progress | drain loop, clean-up |
| **Controller election** (`utils/updateClientRoles.ts`, `index.ts`, `lua/instances.ts`) | registrations with a lifetime, the instance set, roles | beat, list and prune, decide, promote, demote, sweep | clients' roles; pub/sub |
| **Lifecycle** (`index.ts`, `client/index.ts`) | handler status, the start and the stop under way, whether a caller stopped it; per client: halted, requests in flight, waiting, streaming | start, stop, drain, halt, cancel, wait, close streams, deregister, close | election, request owners, rebuilds |
| **OAuth refresh** (`client/methods/authenticate.ts`, `utils/credentialTtl.ts`) | one hash of tokens per client or grant, the refresh lock, the mark of a failed refresh; per handler the refresh under way | join or start a refresh, lock, poll, re-check, call, save, mark, release; `setGrantTokens` | backend, token endpoint |
| **Template clients** (`utils/templateClients.ts`, `utils/createClients.ts`, `index.ts`) | the stored record of an instance and its client names; per replica the clients built, a lock and a generation per instance | add, rebuild, remove, load at start, sweep, purge | `templateClientAdded` and `templateClientRemoved` broadcasts, credentials |
| shared-limit client, Redis transport, encryption, redaction, errors | none of their own that matters here | conversions, delegation | |

What is hard in this code, and hard to test: every `await` of a drain pass is a place
where its lease may lapse, its entry be claimed by another pass, completed or removed;
replies are lost after the effect; pub/sub loses, delays and reorders; controllers
change, overlap and die half way through a clean-up; a settlement arrives after the
bucket was refilled, emptied, reset or expired; limits are renamed while requests hold
claims on them; a refresh outlives its lock; a removal meets builds and token writes in
flight on every replica; a stop meets requests in every phase, and the client they were
given may have been replaced. `PROJECT.json` lists these as hazards, line by line, with
the properties that would catch each.

What makes each part correct, in one line: the queue hands out the first by
priority, retries and arrival; a request is admitted by one pass and its slot is held
while it runs; a thawing client sends one probe at a time; a budget never gives out
more than it earned; a settlement charges once; a claim over several budgets is whole
or nothing and is handed back where it was taken; a completion is applied although
messages and controllers are lost; exactly one controller is left in the end; no
redeemed refresh token is presented again or left stored; replicas converge on the last
record of an instance and nothing of a removed one is left; a stop ends, fails what
waits and sends nothing more.

## 2. The modules

| Module | What it models |
| --- | --- |
| `QueueScore` | `calculateQueueScore`: priority, retries and arrival packed into one number. |
| `QueueOrder` | A queue that stores only that score: add, claim, lapse, status and retry updates, removal, up to the end of the score epoch. |
| `AdmissionQueue` | The whole admission path of one client with one concurrency limit: owners, several drain passes at once, the clean-up's four backend steps, freeze and thaw, lost replies. One step per await. Uses `QueueScore` for the order. |
| `BucketMath` | Refill, lifetimes, and `settleAmount`. |
| `TokenBucket` | One bucket with its claim marks, freezes, expiry and resets: every backend operation on it, in any order. |
| `SettlementOracle` | `TokenBucket` beside an account that charged the actual amount at the moment of the claim; the reference for `settleAmount`. |
| `LimitSet` | A list of limits per replica, its updates, all-or-nothing claims, slot reaping and keep-alive, refunds and releases by claimed key. |
| `CompletionHandoff` | Retained completions from their owner to whoever is controller, over lossy pub/sub, with failing backend calls, role changes and crashes. |
| `Election` | Heartbeats, expiring registrations, elections that use what they read a step earlier, orphan sweeps, start, stop and crash. |
| `OAuthRefresh` | How requests get an OAuth token: one refresh per handler, a lock between handlers that lapses, polls, the failure mark, the token endpoint, the save, seeding of grants. Times are what is left of them, so nothing counts up. |
| `TemplateRegistry` | One template instance on every replica: the record, builds and removals under a lock and a generation, broadcasts heard in order, start-up load and sweep, and the writers of credentials a removal must stop. |
| `HandlerLifecycle` | Start and stop of one handler with requests in every phase, failing starts, opposed calls and a client that is rebuilt under them. |
| `MC*` | The instances TLC checks. |
| `*Proofs` | The theorems (section 5). |

How state and actions correspond to code: a variable is a backend structure
(`entry`, `slots`, `bucket`, `ledger`, `reg`), an in-memory field (`pending`,
`completed`, `role`, `limits`) or the program counter of an asynchronous function
(`pass[p].pc`, `run`, `att[a].state`). A backend operation is atomic, because it is one
Lua script or one stretch of synchronous JavaScript; everything between two awaits is
one action. Ghost variables (`applied`, `taken`, `out`, `paid`) are only read by
properties.

Abstractions. Costs are whole numbers, so the rounding tolerance of
`backend/balance.ts` is zero. Time is the backend's clock in ticks, or ages. An
attempt's HTTP exchange is its outcome. `AdmissionQueue` takes one cost-1 concurrency
limit and no isolated grants; slots do not reach their TTL there (`LimitSet` has
reaping). `LimitSet` has a single pass whose lease holds (`AdmissionQueue` has the
others), treats each retry as an attempt of its own, and leaves thaw probes out; a cost
given by limit names no zero amounts. There `Unknown` is the code's undefined
`claimedKeys`, which an admission by a list without metered limits leaves so. `CompletionHandoff` keeps of the four clean-up
parts their order and flags. `Election` has one client that every replica builds;
pub/sub and peer timers only ever ask for an election, and its health tick, which may
come at any time, stands for them. `OAuthRefresh` has three kinds of refresh token
(current, redeemed, superseded by a new authorization) instead of values, and the
provider's answer either rotates the token or omits it; a call made without a refresh
token is answered without one (the code would keep one it got, `authenticate.ts:506-515`).
How long the provider honours a token is counted up to the store's maximum life, since no
key outlives that. `TemplateRegistry` has one
instance with one client, whose credentials and settings are the numbers of the
additions that wrote them; the transaction that writes a record and the pipeline that
erases it are one step each, a start that rejects because the backend fails is a crash of
its replica, and publications reach every replica in one order, as Redis delivers them.
`HandlerLifecycle` has one client besides its successive objects; the role does not
change, and admission by a drain loop is one step there. Two awaits are merged with what
surrounds them: the last look of a drain at what is outstanding is the halt's own (so
"drain" in `elapsed` says that something was outstanding at the halt), and a start that
fails closes the backend in the step that resets its status.

Some properties are stated up to a gap in the code: a history variable (`overtaken` in
`AdmissionQueue`; `taken[a].free` in `LimitSet`; `loose`, `lost`; `excused`; `missed`,
`stray`, `late` and the `wanted` value "overruled" in the last three) records that the gap
was met and the property exempts only what met it. Section 6 lists the gaps.

## 3. The runs

All times are with two workers; each run finishes in under four minutes.

| Run | What it shows |
| --- | --- |
| `admission_lease` | Two passes, a lease that lapses under a slow one, retries, streams, abandoned waits. Nobody admitted is claimable again (`AdmittedNotClaimable`), every attempt in flight holds its slot (`RunningHoldsSlot`), an entry without a lease has somebody to bring it on (`NotStranded`), and no entry outlives its request (`NoEntryWithoutWaiter`). No response freezes the client here: with a freeze `RunningHoldsSlot` fails (section 6). |
| `admission_freeze` | Three requests through a 429 and its thaw, with a lease of two ticks against a freeze of one (the defaults have 10 s against 1 s), the backend's clock read in a step before the arming, and one lost reply of a selection, a judgement, a nomination, a claim, a freeze check, a release or the clock. A pass that judged since the freeze was armed confirms nothing inside the window, and past it only probes while probes are owed (`FreezeHoldsBack`); while no reply was lost none goes out beside another (`OneProbeAtATime`); the ledger stays within its limit. Nobody gives up here. 1.7 million states. Lost replies of confirmations, hand-overs and write-backs were checked separately with two requests (the ledger and removed entries; section 6 for the others). |
| `admission_live` | A queued request is admitted or given up in the end although a reply is lost mid-claim and a freeze has to thaw. |
| `queue_order` | The entry handed out is first by priority, retries and arrival, with clamping at both ends. |
| `bucket_life` | Claims, refunds, settlements, freezes, resets and expiries in every order: nothing is minted, an emptied bucket stays empty under its freeze, a settlement charges once, a key expires only once refilled. No debt is allowed here: with one, `ExpiryEarned` fails (section 6). |
| `settlement` | Three overlapping claims with a debt limit against the oracle: debits never undercharge, credits are never lost. |
| `limits` | Two attempts while an operator renames, drops and retunes limits and the two replicas learn of it at different times, lists that meter nothing included. An attempt that some limit metered refunds only the buckets its tokens came from, and once (`RefundsOnlyWhatItTook`); a finished attempt leaves no slot in any ledger (`FinishedHoldsNoSlot`); a running one is counted (`RunningIsCounted`); a claim spends in every budget or in none (`AllOrNothing`). 1.1 million states. |
| `handoff` | Three replicas, one completion with two parts, one loss, failure, role change and crash: it is never forgotten, never applied from a stale copy, and is applied and acknowledged in the end. |
| `election` | Two replicas that miss beats, fail elections, stop, start and crash: one controller in the end, a dead one's queued requests are swept, a settled one's are not. |
| `oauth` | Two handlers, a lock of one tick, answers that rotate or omit the refresh token with usable and unusable lifetimes, a fault and a new authorization. While refreshes end within their lock no redeemed token is presented (`NoReplay`); the token left stored is redeemable also across lapsed locks (`StoredTokenRedeemable`); the hash lives as long as the refresh token in it or as a key may (`RefreshTokenOutlived`; a default life of four ticks is cut at the maximum of three); waiters that take over within the tick of the failure do not repeat a call that failed while the cached token is good (`FailureNotRepeated`); every refresh ends (`EventuallyAuthenticated`). 715 000 states. |
| `templates` | Two replicas, one of them started later or crashing, an addition, a removal, a failed read or call and a token write. Once everything has been heard and done: a removed instance has no client (`NoGhostClient`) and no stored credential (`RemovalPurges`), a present one runs the last record on every replica (`ReplicasConverge`). 3.4 million states; two removals and a token write with both replicas up were checked separately, and three replicas with three additions and removals were simulated. |
| `lifecycle` | One request, two starts and stops, one rebuild, one failing start, and deregistrations that may fail. A stop leaves nothing waiting (`NothingLeftWaiting`), closes over no slot in use unless its time ran out (`SlotsReturnedBeforeClose`), lets nothing go upstream from a client it dropped (`NothingSentAfterStop`), and ends (`StopEnds`); no request waits for ever (`NobodyWaitsForever`); the last call decides unless it was a start that rejected (`LastCallWins`). 1.2 million states. |

**Bounds.** Two passes are what overlaps in practice (a rebuilt client's old pass, or
two controllers); two requests let one lapse while the other takes its place, three let
a probe, a competing one and a bystander exist. A lease of two ticks can be young, old
or lapsed, and outlasts a freeze of one. Buckets of
two or three tokens reach empty, full and overflow; the times cover a refill from empty
and an expiry. In `limits` one update separates claim from release, and the slot's life
of two ticks lets a slot be touched, aged or reaped. One loss, failure or crash each is
enough because the retry paths are the same the second time; the handoff theorems remove
that bound. `MaxForwards` is 4 instead of 30; with prompt delivery TLC does not reach
the give-up branch, which the proof covers for every bound. In `oauth` lifetimes are
small numbers: an answer's life is unusable (0) or two ticks, the margin of such a token
is half its life, the lock lapses after one tick so that a slow refresh overlaps its
successor, and one seed and one fault let an answer be lost, overtaken or repeated. In
`templates` one addition after an instance that may already exist gives a re-add, and a
start or a crash on one replica overlaps every step of the other's. In `lifecycle` one
rebuild gives a request a client that is no longer registered, before, during or after
the stop.

**Deadlock** is not checked where a system may come to rest: all requests done, all
replicas stopped, the clock at its bound.

**Fairness** is weak and only on what the code schedules by itself: a pass goes on
once its call has answered, and is started again by the wake-ups and the health tick;
an owner carries on; the upstream answers (requests have timeouts); a published message
that is not lost is delivered; health ticks, heartbeats and the clock go on; a running
replica finishes an election or a flush; a handler goes on with its refresh, its start
and its stop, and its timers fire. Nothing is asked of the token endpoint, and in
`lifecycle` nothing of upstreams and peers. Nothing obliges callers to give up, operators
to act, or replicas to start, stop or crash. `admission_live` assumes `PromptPasses`
(an iteration ends before its 10 s lease does) and `handoff` assumes `PromptDelivery`
(a delivery, an election and a flush take less than the health interval between two
announcements); without them a retry can be outrun for ever, in the code as well.

## 4. Mutants

Every property of every passing run has a mutant: an operator defined just before
the one it replaces, changed as a plausible bug would change it (a guard that looks at
the status only, a refund by current names, a reset forgotten, an off-by-one). The
property must fail with it.

## 5. What is proved

Constants are assumed to have their types (the named `ASSUME` of each module):
any number of requests, passes, replicas, bands, tokens, losses. A theorem that assumes
more says so below.

- `OrderAndElectionProofs`, its first part. *QueueTypeCorrect*; *QueueInOrder*: the
  entry handed out is first by priority, then retries, then arrival. The inductive
  invariant adds to the types that every stored score is the one its fields pack to
  (`Scored`); the arithmetic is the lemma that two packed numbers compare as their
  digits do.
- `AdmissionQueueProofs`. *TypeCorrect*; *RemovedStaysRemoved*
  (`NoEntryWithoutWaiter`: once removed, a request's entry never returns, since an
  add respects the tombstone and every other write needs the entry);
  *LedgerNeverOverflows* (from the type invariant: only a claim that found room adds
  a slot, also when its reply is lost). *AdmittedOnce* (`AdmittedNotClaimable`) and
  *NobodyStranded* (`NotStranded`) rest on `LeaseInv`: while a request waits, the one claim
  on it that has not lapsed is the one stamped on its entry, and once confirmed it is with
  one pass or in one notification (`OneAdmission`); while it does not wait, nobody is
  admitting it and its entry is out of the lease (`Calm`); a pass that could still release
  because the entry is gone is never on a request that is not over (`FindsGone`), and a
  removal is owed of such a request only while it streams. They assume that confirmations,
  hand-overs and write-backs are answered (`ConfirmationsArrive`; section 6 says what
  happens otherwise); every other reply may be lost. *RunningStaysInLedger*
  (`RunningHoldsSlot`) adds `SlotInv`: who runs, is notified or is carried by a pass in
  time has the slot of its attempt, and the slots that completions still give back are of
  earlier attempts. It assumes further that no answer freezes the client or that every
  iteration ends within its lease (`ReleasesInTime`), which excludes the late release of
  section 6. *ProbesGoFirst* (`FreezeHoldsBack`) assumes nothing: a pass that the arming of
  the freeze did not overtake judged past its window, and judged its request a probe if
  probes are owed (`Heeded`). *ProbesOneByOne* (`OneProbeAtATime`) assumes
  `ConfirmationsArrive`, and takes in retries, passes that outlive their lease and freezes
  shorter than it. `ProbeInv` adds to `LeaseInv` and `Heeded` that whoever admits or runs a
  request as a probe has the mark on its entry (`Borne`, `Carried`), so while probes are
  owed the pass that can still confirm, and was not overtaken, has the only probe (`Alone`).
- `TokenBucketProofs`. *BucketTypeCorrect*, *DiscardForgivenOnce*,
  *SettledWithinReport* from `Inv == TypeOK /\ Forgiveness /\ Charge(a)` for each
  attempt: what was forgiven never exceeds what was discarded, and an attempt's charge
  lies between its reservation and its report. *NothingMinted* and *ExpiryIsEarned*
  assume `MaxDebt = 0` and rest on `BooksInv`, which balances what was handed out
  against the ceiling plus the refill earned and bounds the key's remaining life.
  *EmptiedBucketStaysEmptied* (`EmptiedStaysEmptied`), debt and expiry included, rests on
  `EmptiedInv`: each claim made since the emptying has a stretch of tokens of its own above
  the balance and below what refill earned (`Stretches`), so no credit of one reaches past
  what refill earned, and marks from before are of another generation (`MarksOfThePast`).
  *DebitsChargedInFull* (`DebitsNeverUndercharged`) and *CreditsGivenBack*
  (`CreditsNeverLost`) compare with `SettlementOracle` in runs of any length in which the
  bucket's key does not expire (`KeyKept`; across an expiry nothing is settled). `OracleInv`:
  the bucket is ahead of the oracle by no more than some open claims still owe, those that
  saw at least `h` discarded, less what was discarded beyond `h` (`DebitsOwed`; which `h`
  changes with each refill that the oracle's ceiling cuts and each settlement that is
  forgiven); and behind it by no more than the open claims that have not seen it fill will
  hand back (`CreditsDue`). A sum over claims is the number of its units (`Units`,
  `Weight`), since nothing can be proved of a fold.
- `CompletionHandoffProofs`. *HandoffTypeCorrect*; *CompletionsNeverForgotten* from
  `Inv`: the parts a record or flush counts as handled have taken effect (`Counted`), an
  id is remembered only when applied in full or spent (`Remembered`), and an
  acknowledgement in flight is true (`AcksAreTrue`); *CopiesNeverReplayed* from
  `ReplayInv`: a foreign record on a controller was stored by that controller.
- `HandlerLifecycleProofs`. *LastCallDecides* (`LastCallWins`),
  *StopLeavesNobodyWaiting* (`NothingLeftWaiting`), *SlotsComeBackFirst*
  (`SlotsReturnedBeforeClose`), *SilentAfterStop* (`NothingSentAfterStop`). `Inv`:
  the status agrees with the promise under way (`Phases`); what the last call asked for is
  so, or somebody is at it, or the call was a start that rejected (`LastCall`); a request waits or has a slot only at the steps
  where it can (`Placed`); a client is registered, halted or one no stop sees
  (`Accounted`), and whoever waits does so in one a stop knows (`WaitersKnown`); past its
  drain a stop has emptied the map (`MapEmptied`), and past its wait nothing of the client
  it watches is in flight unless the wait ran out (`Watched`).
- `OrderAndElectionProofs`, its second part. *SweepsKeepSettledWork*
  (`SettledWorkKept`). While no beat was missed and no replica started, every running
  replica's registration is alive (`Beating`), every set a sweep read names it
  (`SweepsSpare`) and its request is queued (`WaitersQueued`). Assumes `RegTtl > 1`: a
  registration outlives one beat, as the code's lifetime (ten seconds against a beat
  every second) does.
- `OAuthRefreshProofs`. *RefreshNeverReplays* (`NoReplay`), *StoredTokenStaysRedeemable*,
  *HashOutlivesRefreshToken* (`RefreshTokenOutlived`), *FailureServedFromCache*
  (`FailureNotRepeated`). `Inv`: a replica that counts on
  the lock has it, and until one runs loose refreshing takes it (`Exclusive`); whoever
  waited for a refresh that failed finds the mark, or the lock taken until it does
  (`Marked`); an answer not stored yet has the only current copy of the refresh token, and
  what is stored is redeemable or about to be replaced (`OneCurrent`); neither the hash nor
  the life an answer will give it ends before the provider's (`Sized`), which is counted up to
  the store's maximum (`Capped`). Nothing is assumed of the stated lives, the default, the
  buffer or the maximum.
- `LimitSetProofs`. *RefundsAreOwed*, *CompletionsLeaveNoSlot*, *RunningStaysCounted*
  and *ClaimsAreWhole* (`AllOrNothing`), for every list of limits, declared lists, costs
  and order of updates. `Inv` follows the claim: pass or owner has it, never both
  (`Owned`); whoever has it knows the ledger of each slot the attempt holds (`Tracked`); a
  completion's list covers what is left (`Returned`); the slots of a claim in use are as
  young as the claim (`Counted`); a bucket that a refund can still reach was paid,
  unless the attempt was admitted without a limit (`Known`, `Paid`). Each step is shown to leave every other attempt as it was, reapings aside
  (`About`, `OthersSound`), so only its own attempt needs an argument. Balances play no
  part.
- `TemplateRegistryProofs`. *RegistryTyped*; *NoClientOutlivesItsRecord*
  (`NoGhostClient`), *ReplicasRunTheRecord* (`ReplicasConverge`) and *RemovalLeavesNothing*
  (`RemovalPurges`), for any number of replicas, additions, removals, crashes and token
  writes, the gaps of section 6 aside (a failing read costs `ReplicasConverge` only). `Shape` says what each step of a build, a removal, a
  load and a purge has in hand. To it `GhostInv` adds that a client of an erased record has
  its removal still to be heard or under way (`Doomed`), and `ConvergeInv` that a replica
  not at the record has the news or the build that brings it there under way (`Arriving`).
  `PurgeInv` adds that a live refresh, or a seed to be tracked, has a client or a build that
  puts one back (`WritersManned`), and that a stored token or grant is within reach of a
  purge: some replica has the client or is purging, or the record and the client names
  stand and nobody is past the decision to purge (`WithinReach`, `GrantWithinReach`).

Only model-checked: liveness, since fairness and `ENABLED` are out of the prover's reach
(that a queued request is admitted, a completion is applied, one controller is left,
every refresh and every stop ends, nobody waits for ever). Every invariant and every
action property of a run is stated by a theorem, some under the assumptions given above.
Nothing is proved by induction over data.

## 6. Where code and documents disagree

All were seen while modelling. Those of the admission path, the bucket, the limits and the
election can be reproduced by the change given; those of the last three modules by dropping
the named exemption of a property.

Admission, buckets, limits, election:

- After its claim, `tryAcquireTurn` asks again whether the client is frozen and if so
  releases the slot, before any confirmation (`meteredClient.ts:325`). A pass whose lease
  has lapsed thereby gives away the slot that the new holder's attempt is using, which
  `docs/design-notes.md:395-397` rules out: "It does not release what it claimed either".
  `admission_lease` with `Outcomes = {"ok", "429", "stream"}` and `MaxRetries = 0` violates
  `RunningHoldsSlot`.
- `bucketTtl` is sized for a refill from empty, so a bucket that a settlement pushed into
  debt expires, and reads as full, before the debt is paid (`backend/memory.ts:230`,
  against the comment at 859-860). `bucket_life` with `MaxDebt = 1`, one attempt,
  `Costs = {2}`, `Actuals = {3}`, `MaxTime = 7` and no freezes or resets violates
  `ExpiryEarned`.
- A pass that loses the reply of a confirmation, or of a hand-over that was delivered,
  writes its entry back although it is out, and a second probe may follow the first: drop
  `lost = 0` from `OneProbeAtATime`, with `LossyCalls = {"confirm", "publish"}`.
- A probe that is retried keeps the mark on its entry, and so does a request that a pass
  past its lease nominated and another pass wrote back. Once the probes owed are paid it goes
  out as a probe beside one nominated meanwhile, so two can be out; two requests with one
  retry, or five without, reach it. Nothing is owed any more by then, and no thaw goes
  wrong: `OneProbeAtATime` is stated of confirmations while probes are owed.
- A reply to `confirm` that is lost leaves an entry unstamped; the write-back may then
  reset an entry that was admitted (`AdmittedNotClaimable`, `LossyCalls = {"confirm"}`,
  `MaxLost = 1`; `docs/design-notes.md:426-428`). With outcomes `{"ok", "5xx"}` the
  same loss can strand an entry (`NotStranded`; `docs/design-notes.md:437-443`).
- A request that a pass judged before a freeze was armed goes out during its thaw, beside a
  probe, when the window ends between two of the pass's looks: the lease (10 s) is longer
  than the default freeze (1 s), and the clock read one call before the arming
  (`client/index.ts:1437-1447`) shortens the window further. `docs/design-notes.md:290-291`
  says of the probes that "they go out one at a time". Drop `p \notin overtaken` from
  `FreezeHoldsBack`; with four requests and `MaxLost = 0`, dropped from `OneProbeAtATime` it
  shows the two out together.
- The orphan sweep deletes by a list read one call before (`client/index.ts:483-493`); a
  replica that registers and enqueues in between loses a live request, against
  `docs/design-notes.md:803`. Drop the `budget.starts` conjunct of `SettledWorkKept`
  with `FirstUp = {1}`, `MaxStarts = MaxRequests = 1` and no other bound.
- `stop()` clears its heartbeat after deregistering and closing (`index.ts:825`), so a
  beat in between lists the stopped replica until it expires.
- An abandonment before `requestReady` is heard carries no `claimedKeys`, so if the
  limits changed since the pass claimed, the slot stays in its old ledger until its TTL;
  `docs/design-notes.md:572-573` says abandonment acts on the claimed keys. Drop the last
  hypothesis of `FinishedHoldsNoSlot`.
- An admission by a list without metered limits leaves `claimedKeys` undefined
  (`meteredClient.ts:210-220`, 282), and `wasClaimed` (782-785) reads that as everything. When
  the list that refunds it meters again (after an update that one replica has not heard, or
  a second one), tokens are returned that were never taken: the pass's release of a claim
  whose entry is gone, and the owner's of an attempt that failed before dispatch. The comment
  at `meteredClient.ts:541-542` means to exclude it: "a limit renamed or added since would
  otherwise be refunded tokens it never gave out". Drop `~taken[a].free` from
  `RefundsOnlyWhatItTook`.
- An update that names one limit `default` and leaves another of its type unnamed is
  accepted against a list with one limit of that type, and refused against the list it
  produced, the case the comment at `utils/rateLimit.ts:48-50` means to exclude. Where the
  named one is called otherwise, the repeat moves the unnamed one's budget to `default`.
- `docs/concepts.md:243` gives the claim's lease as 2 s; `backend/queueClaim.ts:15` has
  10 s. `handleRequest.ts:556-557` says peers keep a fallback copy of a completion in case
  its owner disappears; they drop it on promotion without applying it.

OAuth refresh (`loose`, `lost` in `OAuthRefresh`):

- A token call lasts up to the lock's whole lifetime, so with the backend calls around it
  a refresh can outlive its lock. A peer then presents a token that is being redeemed
  (the comment at `authenticate.ts:184-187` accepts the extra call), and the reads that size
  the hash's lifetime and the write that sets it can be of different tokens, so the lifetime
  may shrink below the stored token's. A provider that rotates on one answer and omits on
  another may leave the spent token stored.
- `setGrantTokens` during a refresh whose answer is pending is overwritten by that answer.

Template clients (`excused` in `TemplateRegistry`):

- *crossed*: a removal is announced after the record is erased; when another replica adds
  the instance and announces it in between, every replica hears "removed" last and destroys
  its client although the record exists, until a restart. The comment at `index.ts:1373-1374`
  says that "cross-publisher pub/sub ordering cannot desync replicas".
- *swept*: the start-up load removes what is built and was not listed when it read the list
  (`templateClients.ts:154-161`), an instance added and built from a broadcast meanwhile
  included.
- *slipped*: a grant listed between a purge's read of the grants and its deletion of the
  list stays stored with nothing that names it.
- *kept*: a replica that hears of a removal and finds the instance added again keeps its
  credentials (`templateClients.ts:770-800`). When that instance is then removed by a replica
  that has neither its client nor recorded names, they stay: "stored
  credentials may remain until their TTL expires" (826-831, a log line).
- *untold*, *undone*, *failed*: a replica that dies before it announces, or in the middle
  of a build or a purge, and an ignored backend call that fails, leave peers or keys behind;
  nothing repeats the step.
- *unread*: a read of the record that fails, or credentials that do not decrypt, end the
  build. A peer that heard of the addition only logs it (`startSubscriptions.ts:28-37`), a
  start skips the instance (`templateClients.ts:125-151`), and the caller of an addition gets
  the error while the record it wrote stays, announced to nobody; nothing builds again until
  the next addition or restart.
- A build that a removal superseded may have recorded the client names again
  (`templateClients.ts:414-417`); that key has no lifetime and stays.

Lifecycle (`missed`, `stray`, `late`, `overruled` in `HandlerLifecycle`):

- A request whose fast-path probe is in flight while the stop cancels the waiters parks
  afterwards and is not failed by the stop (`handleRequest.ts:379-408` looks at
  `admissionHalted` only before the probe), although `stop()` says it "fails what is still
  waiting" (`index.ts:585-586`). Its own timeout ends it.
- A request given a client that a rebuild has replaced is not counted in flight by the new
  one, so a stop does not wait for it, and the old client is not halted: it may send after
  the stop.
- A rebuild that ends while or after the handler stops registers a client that is not
  halted.
- A completion that ends while the stop waits for what is upstream is applied after that
  wait, if at all: the drain that observes retained completions is over by then, against the
  comment at `handleRequest.ts:559-560`.
- A start that fails leaves the clients it built registered, and the stop after it returns
  at once: what waits in them is failed by its timeout only.
- A start called during a stop awaits that stop (`index.ts:488`), and when the stop rejects
  because its deregistration failed (787-796) the start rejects with it and the handler stays
  stopped, where the doc comment says that it "waits for it and starts again" (481-482).
- A stop called while a start waits for an earlier stop shares that stop, and the start then
  starts the handler.

By reading only: a stream's keep-alive refreshes the ledgers the limits name now
(`meteredClient.ts:528-536`), so a ledger renamed away and back after a slot's lifetime can
reap a running stream's slot, against `docs/rate-limits/streaming.md:157-159`.

## 7. Not modelled, and the plan

Not modelled because they are conversions, wording or I/O: encryption, redaction,
error classes, logging, Redis connections and codecs, header parsing. The shared-limit
client has no budget of its own and passes every call on.

Left out of modelled parts: isolated grants, the frozen-grant set and the lifetime of
freeze keys; the merging of template plans, overrides and sub-clients, and local template
clients (pure transformations of configuration); plugins, startup hooks and process
signals; the parsing of streamed bodies and of `Retry-After`; queue statistics.

Planned, in this order:

1. Isolated grants and the frozen-grant set in the freeze, the skipping of blocked
   grants by the drain loop, and the lifetime of freeze keys.
2. Proofs: of what is modelled only liveness is left to TLC. The theorems that assume
   answered confirmations or no debt cannot do without, as section 6 shows; a weaker
   property that holds there too is worth stating.
