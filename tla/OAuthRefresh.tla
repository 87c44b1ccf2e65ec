---------------------------- MODULE OAuthRefresh ----------------------------
(***************************************************************************)
(* How requests get an OAuth2 access token (client/methods/                *)
(* authenticate.ts, utils/credentialTtl.ts, setGrantTokens in              *)
(* client/index.ts, acquireLock and releaseLock of the backends).          *)
(*                                                                         *)
(* The tokens of one client, or of one grant of it, are one hash in the    *)
(* backend.  A request that finds no token outside its renewal margin      *)
(* joins its handler's refresh.  Refreshes of several handlers meet at a   *)
(* lock that lapses; one that cannot get it polls, and when the lock must  *)
(* have lapsed refreshes without it.                                       *)
(*                                                                         *)
(* One action per await.  Every backend call may fail, a failed write may  *)
(* have been applied, and a replica may die.  Times are what is left of    *)
(* them, so Tick lowers them all and nothing counts up.  A refresh token   *)
(* is "current" when it is the last the provider issued, "spent" once it   *)
(* was redeemed for another, "old" once the application stored a new       *)
(* authorization.  The lock's value names the handler, which runs one      *)
(* refresh at a time.                                                      *)
(* Ciphertext and the shape of the token request are left out.             *)
(***************************************************************************)
EXTENDS Integers

CONSTANTS
    Handlers,        \* the replicas
    Free,            \* nobody: what owns a lock that is not held
    LockTtl,         \* REFRESH_LOCK_TTL_MS, also the cap on the token call
    Lives,           \* expires_in of the provider's answers, usable or not
    MaxLife,         \* MAX_TOKEN_LIFETIME_SECONDS
    DefaultLife,     \* DEFAULT_TOKEN_LIFETIME_SECONDS
    RefreshLives,    \* refresh_token_expires_in of the answers, 0: not stated
    DefaultRefresh,  \* DEFAULT_REFRESH_TOKEN_TTL_SECONDS
    Margin,          \* RENEWAL_MARGIN_MS
    MinMargin,       \* MIN_RENEWAL_MARGIN_MS
    Buffer,          \* TTL_BUFFER_SECONDS
    MinTtl,          \* MINIMUM_TTL_SECONDS
    MaxTtl,          \* MAXIMUM_TTL_SECONDS
    MaxFaults,       \* bound: writes that fail, answers lost and crashes
    MaxSeeds         \* bound: calls of setGrantTokens

ASSUME OAuthAssumption ==
    /\ Free \notin Handlers
    /\ Lives \subseteq Nat /\ RefreshLives \subseteq Nat
    /\ {LockTtl, MaxLife, DefaultLife, DefaultRefresh, MinMargin, MinTtl}
          \subseteq Nat \ {0}
    /\ {Margin, Buffer, MaxTtl, MaxFaults, MaxSeeds} \subseteq Nat
    /\ DefaultLife <= MaxLife

VARIABLES
    hash,      \* backend: the stored tokens and the life of their key
    lock,      \* backend: the refresh lock
    failed,    \* backend: what is left of the mark a failed refresh leaves
    task,      \* inFlightRefreshes: each handler's refresh
    provider,  \* history: how long the current refresh token is sure to be
               \* honoured, as far as a key may last
    grant,     \* the tokens are a grant's
    budget,    \* what is left of the bounds
    loose,     \* history: a refresh ran without a live lock
    lost       \* history: an answer of the provider was lost, or overtaken by
               \* a new authorization

history == <<loose, lost>>
vars == <<hash, lock, failed, task, provider, grant, budget, history>>

---------------------------------------------------------------------------

Tokens == {"none", "current", "spent", "old"}

Unheld == [owner |-> Free, left |-> 0]

NoHash == [access |-> 0, life |-> 0, refresh |-> "none", refreshLeft |-> 0,
           key |-> 0]

NoTask == [pc |-> "none", holds |-> "no", waited |-> FALSE, wait |-> 0,
           tok |-> "none", life |-> 0, rlife |-> 0, ttl |-> 0, noted |-> FALSE]

\* Where a refresh may still present or store a token.
Refreshing == {"recheck", "checkFailed", "unexpired", "fetch", "call",
               "reply", "write"}

Pcs == Refreshing \cup {"none", "lock", "poll", "pollLock", "mark", "release"}

HashType == [access : Nat, life : Nat, refresh : Tokens, refreshLeft : Nat,
             key : Nat]
TaskType == [pc : Pcs, holds : {"no", "live", "lapsed"}, waited : BOOLEAN,
             wait : 0 .. LockTtl, tok : Tokens, life : 0 .. MaxLife,
             rlife : Nat, ttl : Nat, noted : BOOLEAN]

TypeOK ==
    /\ hash \in HashType
    /\ lock \in [owner : Handlers \cup {Free}, left : Nat]
    /\ lock.left = 0 <=> lock.owner = Free
    /\ failed \in Nat
    /\ task \in [Handlers -> TaskType]
    /\ provider \in Nat
    /\ budget \in [faults : 0 .. MaxFaults, seeds : 0 .. MaxSeeds]
    /\ grant \in BOOLEAN /\ loose \in BOOLEAN /\ lost \in BOOLEAN

---------------------------------------------------------------------------
(* The rules about lifetimes.                                              *)

Least(a, b) == IF a < b THEN a ELSE b
Most(a, b) == IF a > b THEN a ELSE b
Less(n) == IF n = 0 THEN 0 ELSE n - 1

renewalMargin(life) ==
    IF life = 0 THEN Margin ELSE Most(MinMargin, Least(Margin, life \div 2))

\* getExistingToken: there is a token, outside its renewal margin.
Fresh == hash.key > 0 /\ hash.access > renewalMargin(hash.life)

\* getUnexpiredToken: there is a token, in its margin or not.
Unexpired == hash.key > 0 /\ hash.access > 0

expiresIn(l) == IF l > 0 /\ l <= MaxLife THEN l ELSE DefaultLife

credentialTtlSeconds(access, hasRefresh, refreshTtl) ==
    LET known == IF refreshTtl > 0 THEN refreshTtl ELSE DefaultRefresh
        ttl   == IF hasRefresh THEN Most(access, known) ELSE access
    IN  Least(Most(ttl + Buffer, MinTtl), MaxTtl)

\* What a stated or assumed life promises: no key outlives MaxTtl.
Promised(life) == Least(life, MaxTtl)

\* Mutant: the expiry of the refresh token that was replaced is inherited.
refreshTtlInherited(tok, stated, stored) ==
    IF stated > 0 THEN stated ELSE stored

\* refreshTtlSeconds of saveOAuthData: a refresh token that came with no
\* expiry has none known (0), one that did not come keeps what is stored.
refreshTtlSeconds(tok, stated, stored) ==
    IF stated > 0 THEN stated ELSE IF tok # "none" THEN 0 ELSE stored

---------------------------------------------------------------------------
(* One refresh (refreshWithLock, waitForPeerRefresh).                      *)

\* A backend write answers, or fails.  A read that fails ends the refresh as a
\* failed call to the provider does, and needs no bound.
Works == UNCHANGED budget
Breaks == budget.faults > 0 /\ budget' = [budget EXCEPT !.faults = @ - 1]

Go(h, t) == task' = [task EXCEPT ![h] = t]

\* The promise settles and leaves inFlightRefreshes.  Its waiters go on with
\* the token, with a cached one that has not expired, or with the error.
Settle(h, others) == task' = [others EXCEPT ![h] = NoTask]

\* A request finds no token to serve and no refresh to join.  Those that join
\* it, and those that abort and leave it, do not change it.
Start(h) ==
    /\ task[h].pc = "none" /\ ~Fresh
    /\ Go(h, [NoTask EXCEPT !.pc = "lock"])
    /\ UNCHANGED <<hash, lock, failed, provider, grant, budget, history>>

\* Mutant: the lock is set whether or not somebody has it.
TakeAny(h) == lock' = [owner |-> h, left |-> LockTtl]

\* acquireLock: only a free lock is taken.
Take(h) == lock.owner = Free /\ lock' = [owner |-> h, left |-> LockTtl]

Locked(t) == [t EXCEPT !.pc = "recheck", !.holds = "live", !.wait = 0]

\* A call that fails counts as not taken, even if the backend took it.
NotTaken(h) ==
    \/ Works /\ lock.owner # Free /\ UNCHANGED lock
    \/ Breaks /\ (UNCHANGED lock \/ Take(h))

\* tryLock, at first and then on every poll.
TryLock(h) ==
    /\ task[h].pc \in {"lock", "pollLock"}
    /\ \/ Works /\ Take(h) /\ Go(h, Locked(task[h]))
       \/ /\ NotTaken(h)
          /\ Go(h, [task[h] EXCEPT
                      !.pc = "poll", !.waited = TRUE,
                      !.wait = IF task[h].pc = "lock" THEN LockTtl ELSE @])
    /\ UNCHANGED <<hash, failed, provider, grant, history>>

\* A turn of the poll before the deadline: a peer's token ends the refresh, a
\* failed read its promise.
Poll(h) ==
    /\ task[h].pc = "poll" /\ task[h].wait > 0
    /\ \/ Fresh /\ Settle(h, task)
       \/ ~Fresh /\ Go(h, [task[h] EXCEPT !.pc = "pollLock"])
       \/ Settle(h, task)
    /\ UNCHANGED <<hash, lock, failed, provider, grant, budget, history>>

\* The deadline passed: refresh without the lock.
StopWaiting(h) ==
    /\ task[h].pc = "poll" /\ task[h].wait = 0
    /\ Go(h, [task[h] EXCEPT !.pc = "recheck", !.noted = FALSE])
    /\ loose' = TRUE
    /\ UNCHANGED <<hash, lock, failed, provider, grant, budget, lost>>

\* The body returned a token: the finally block releases a lock it holds.
Done(h) ==
    IF task[h].holds = "no" THEN Settle(h, task)
    ELSE Go(h, [NoTask EXCEPT !.pc = "release", !.holds = task[h].holds])

\* The body threw: a holder says so before it releases.  noted is the history
\* of who was waiting when a holder failed.
Fails(h) ==
    LET noting == [g \in Handlers |->
                     [task[g] EXCEPT !.noted = @ \/ (task[h].holds = "live" /\
                                      task[g].pc \in {"poll", "pollLock"})]]
    IN  IF task[h].holds = "no" THEN Settle(h, noting)
        ELSE task' = [noting EXCEPT ![h] =
                        [NoTask EXCEPT !.pc = "mark", !.holds = task[h].holds]]

\* Under the lock, or past the deadline, look for a peer's token once more.
Recheck(h) ==
    /\ task[h].pc = "recheck"
    /\ \/ Fresh /\ Done(h)
       \/ /\ ~Fresh
          /\ Go(h, [task[h] EXCEPT !.pc =
                       IF task[h].waited THEN "checkFailed" ELSE "fetch"])
       \/ Fails(h)
    /\ UNCHANGED <<hash, lock, failed, provider, grant, budget, history>>

\* A waiter asks whether the last holder failed; a failed call means no.
CheckFailed(h) ==
    /\ task[h].pc = "checkFailed"
    /\ \/ Go(h, [task[h] EXCEPT !.pc =
                    IF failed > 0 THEN "unexpired" ELSE "fetch"])
       \/ Go(h, [task[h] EXCEPT !.pc = "fetch", !.noted = FALSE])
    /\ UNCHANGED <<hash, lock, failed, provider, grant, budget, history>>

\* It did: the cached token will do until it expires.
UseUnexpired(h) ==
    /\ task[h].pc = "unexpired"
    /\ \/ Unexpired /\ Done(h)
       \/ ~Unexpired /\ Go(h, [task[h] EXCEPT !.pc = "fetch"])
       \/ Fails(h)
    /\ UNCHANGED <<hash, lock, failed, provider, grant, budget, history>>

\* generateConfig: the stored refresh token goes into the call.  A grant
\* without one cannot be refreshed; a client's own call goes without.
FetchRefreshToken(h) ==
    /\ task[h].pc = "fetch"
    /\ \/ /\ ~grant \/ hash.refresh # "none"
          /\ Go(h, [NoTask EXCEPT !.pc = "call", !.holds = task[h].holds,
                                  !.tok = hash.refresh])
       \/ Fails(h)
    /\ UNCHANGED <<hash, lock, failed, provider, grant, budget, history>>

---------------------------------------------------------------------------
(* The token endpoint, and storing what it answers.                        *)

\* Every copy of the current refresh token becomes s.
Copies(s, tok) == IF tok = "current" THEN s ELSE tok
CopiesInTasks(s) == [g \in Handlers |-> [task[g] EXCEPT !.tok = Copies(s, @)]]

Accepts(tok) == tok \in {"none", "current"}

\* The provider redeems the refresh token.  Its answer carries a new one, or
\* none and then the one presented stays current.  A call without one receives
\* none: a client's own refresh token does not arise here.
Redeem(h, kind, life, rlife) ==
    LET answer == [task[h] EXCEPT
                     !.pc = "reply", !.life = expiresIn(life), !.rlife = rlife,
                     !.tok = IF kind = "omitted" THEN "none" ELSE "current"]
    IN  /\ task[h].pc = "call" /\ Accepts(task[h].tok)
        /\ task[h].tok = "none" => kind = "omitted" /\ rlife = 0
        /\ IF kind = "rotated"
           THEN /\ task' = [CopiesInTasks("spent") EXCEPT ![h] = answer]
                /\ hash' = [hash EXCEPT !.refresh = Copies("spent", @)]
           ELSE task' = [task EXCEPT ![h] = answer] /\ UNCHANGED hash
        /\ provider' = IF rlife > 0 THEN Promised(rlife)
                       ELSE IF kind = "omitted" THEN provider
                       ELSE Promised(DefaultRefresh)
        /\ UNCHANGED <<lock, failed, grant, budget, history>>

\* It refuses one that is not the current one.
Refuse(h) ==
    /\ task[h].pc = "call" /\ ~Accepts(task[h].tok)
    /\ Fails(h)
    /\ UNCHANGED <<hash, lock, failed, provider, grant, budget, history>>

\* Mutant: a call to the token endpoint has no timeout.
CallRefusedOnly(h) ==
    /\ task[h].pc = "call" /\ ~Accepts(task[h].tok)
    /\ Fails(h)
    /\ UNCHANGED <<hash, lock, failed, provider, grant, budget, history>>

\* The call fails, or times out: refreshTimeout ends every one.
CallFails(h) ==
    /\ task[h].pc = "call"
    /\ Fails(h)
    /\ UNCHANGED <<hash, lock, failed, provider, grant, budget, history>>

\* The answer is lost or of no use, or the hash it belongs in cannot be read.
AnswerLost(h) ==
    /\ task[h].pc = "reply" /\ Breaks
    /\ lost' = TRUE
    /\ Fails(h)
    /\ UNCHANGED <<hash, lock, failed, provider, grant, loose>>

\* saveOAuthData reads what is stored, to size the life of the hash.
SaveRead(h) ==
    /\ task[h].pc = "reply"
    /\ LET t == task[h]
           rttl == refreshTtlSeconds(t.tok, t.rlife, hash.refreshLeft)
       IN  Go(h, [t EXCEPT !.pc = "write", !.ttl =
              credentialTtlSeconds(t.life,
                  t.tok # "none" \/ hash.refresh # "none", rttl)])
    /\ UNCHANGED <<hash, lock, failed, provider, grant, budget, history>>

\* Mutant: the answer's refresh token is not stored.
StoredAccessOnly(t) ==
    [access |-> t.life, life |-> t.life, refresh |-> hash.refresh,
     refreshLeft |-> hash.refreshLeft, key |-> t.ttl]

\* What hset leaves: fields the answer does not carry stay as they are.
Stored(t) ==
    [access |-> t.life, life |-> t.life,
     refresh |-> IF t.tok = "none" THEN hash.refresh ELSE t.tok,
     refreshLeft |-> IF t.rlife > 0 THEN t.rlife
                     ELSE IF t.tok # "none" THEN 0 ELSE hash.refreshLeft,
     key |-> t.ttl]

\* saveOAuthData writes.  A write that fails may have been applied.
SaveWrite(h) ==
    /\ task[h].pc = "write"
    /\ \/ Works /\ hash' = Stored(task[h]) /\ UNCHANGED lost /\ Done(h)
       \/ Breaks /\ hash' = Stored(task[h]) /\ UNCHANGED lost /\ Fails(h)
       \/ Breaks /\ UNCHANGED hash /\ lost' = TRUE /\ Fails(h)
    /\ UNCHANGED <<lock, failed, provider, grant, loose>>

\* Mutant: the failure is marked after the lock is released.
ReleasedBeforeMark(h) ==
    /\ task[h].pc = "mark"
    /\ IF lock.owner = h
       THEN /\ lock' = Unheld
            /\ UNCHANGED <<failed, task>>
       ELSE UNCHANGED lock /\ failed' = LockTtl /\ Settle(h, task)
    /\ UNCHANGED <<hash, provider, grant, budget, history>>

\* The failure is marked for the waiters, unless the mark fails too.
MarkFailed(h) ==
    /\ task[h].pc = "mark"
    /\ \/ /\ Works /\ failed' = LockTtl
          /\ Go(h, [task[h] EXCEPT !.pc = "release"])
       \/ /\ Breaks /\ UNCHANGED failed
          /\ task' = [g \in Handlers |->
                        [task[g] EXCEPT !.noted = FALSE,
                                        !.pc = IF g = h THEN "release" ELSE @]]
    /\ UNCHANGED <<hash, lock, provider, grant, history>>

\* releaseLock, which only deletes the handler's own lock, or fails.
Release(h) ==
    /\ task[h].pc = "release"
    /\ \/ Works /\ lock' = IF lock.owner = h THEN Unheld ELSE lock
       \/ Breaks /\ UNCHANGED lock
    /\ Settle(h, task)
    /\ UNCHANGED <<hash, failed, provider, grant, history>>

\* The handler's process dies: the lock stays until it lapses.
Crash(h) ==
    /\ task[h].pc # "none" /\ Breaks
    /\ Settle(h, task)
    /\ lost' = (lost \/ task[h].pc \in {"reply", "write"})
    /\ UNCHANGED <<hash, lock, failed, provider, grant, loose>>

---------------------------------------------------------------------------
(* The application and the clock.                                          *)

\* What setGrantTokens writes.
Seeded(life, rlife) ==
    [access |-> life, life |-> life, refresh |-> "current",
     refreshLeft |-> rlife, key |-> credentialTtlSeconds(life, TRUE, rlife)]

\* setGrantTokens: the user authorized again.
SetGrantTokens(life, rlife) ==
    /\ grant /\ budget.seeds > 0
    /\ budget' = [budget EXCEPT !.seeds = @ - 1]
    /\ hash' = Seeded(life, rlife)
    /\ task' = CopiesInTasks("old")
    /\ provider' = Promised(rlife)
    /\ lost' = (lost \/ \E h \in Handlers : task[h].pc \in {"reply", "write"})
    /\ UNCHANGED <<lock, failed, grant, loose>>

LockLapses == lock.left = 1

\* One unit of time passes.
Tick ==
    /\ hash' = IF hash.key <= 1 THEN NoHash
               ELSE [hash EXCEPT !.access = Less(@), !.refreshLeft = Less(@),
                                 !.key = Less(@)]
    /\ lock' = IF lock.left <= 1 THEN Unheld
               ELSE [lock EXCEPT !.left = @ - 1]
    /\ failed' = Less(failed)
    /\ task' = [h \in Handlers |-> [task[h] EXCEPT
                  !.wait = Less(@), !.noted = FALSE,
                  !.holds = IF @ = "live" /\ LockLapses THEN "lapsed" ELSE @]]
    /\ loose' = (loose \/ \E h \in Handlers :
                   /\ LockLapses /\ task[h].holds = "live"
                   /\ task[h].pc \in Refreshing)
    /\ provider' = Less(provider)
    /\ UNCHANGED <<grant, budget, lost>>

---------------------------------------------------------------------------

\* A client's first use, or a grant whose tokens the application has stored.
Init ==
    /\ \/ hash = NoHash /\ provider = 0 /\ grant = FALSE
       \/ \E life \in Lives \ {0}, rlife \in RefreshLives \ {0} :
             /\ hash = Seeded(life, rlife) /\ provider = Promised(rlife)
             /\ grant = TRUE
    /\ lock = Unheld /\ failed = 0
    /\ task = [h \in Handlers |-> NoTask]
    /\ budget = [faults |-> MaxFaults, seeds |-> MaxSeeds]
    /\ loose = FALSE /\ lost = FALSE

Answers == {"rotated", "omitted"}

\* What the handler's own code does, once its awaits return.
RefreshStep(h) ==
    \/ TryLock(h) \/ Poll(h) \/ StopWaiting(h) \/ Recheck(h) \/ CheckFailed(h)
    \/ UseUnexpired(h) \/ FetchRefreshToken(h) \/ SaveRead(h) \/ SaveWrite(h)
    \/ MarkFailed(h) \/ Release(h) \/ CallFails(h)

Next ==
    \/ \E h \in Handlers :
          \/ Start(h) \/ RefreshStep(h) \/ Refuse(h) \/ AnswerLost(h)
          \/ Crash(h)
          \/ \E kind \in Answers, life \in Lives, rlife \in RefreshLives :
                Redeem(h, kind, life, rlife)
    \/ \E life \in Lives \ {0}, rlife \in RefreshLives \ {0} :
          SetGrantTokens(life, rlife)
    \/ Tick

\* Timers fire, the backend answers or fails, and promises go on.  Nothing is
\* asked of the provider, of callers or of the application.
Fairness ==
    /\ WF_vars(Tick)
    /\ \A h \in Handlers : WF_vars(RefreshStep(h))

Spec == Init /\ [][Next]_vars

FairSpec == Spec /\ Fairness

---------------------------------------------------------------------------
(* Properties.                                                             *)

\* While every refresh ends within the life of its lock, no replica presents
\* a refresh token that was already redeemed, unless an answer of the provider
\* was lost: what the lock and the second look under it are for.
NoReplay ==
    \A h \in Handlers : task[h].pc = "call" /\ task[h].tok = "spent" =>
        loose \/ lost

InFlight == \E h \in Handlers : task[h].pc \in {"reply", "write"}

\* Whatever refreshes overlap, lapsed locks included, the refresh token that
\* stays stored is never one already redeemed for another, unless an answer
\* was lost or a new authorization was stored meanwhile.
StoredTokenRedeemable == hash.refresh \in {"spent", "old"} => InFlight \/ lost

\* The hash outlives the refresh token in it: as long as the provider said it
\* would honour it, or the default time when it did not say, or else for the
\* longest life of a key from when it was said, across rotations that state an
\* expiry and ones that do not, while refreshes end within the life of their
\* lock and no answer is lost.
RefreshTokenOutlived ==
    hash.refresh = "current" /\ ~InFlight /\ ~lost /\ ~loose =>
        hash.key >= provider

\* A waiter that takes over from a refresh that failed while it waited does
\* not call the token endpoint again while the cached token is still good.
\* noted lasts until the clock moves, so this is about a take-over that comes
\* before it does, when the mark cannot have lapsed.
FailureNotRepeated ==
    [][\A h \in Handlers :
          /\ task[h].pc # "fetch" /\ task'[h].pc = "fetch"
          /\ task[h].holds = "live" /\ task[h].noted /\ task'[h].noted
          => ~Unexpired]_vars

\* Every refresh ends, and with it the wait of every request that joined it:
\* none waits for ever on a peer, on a lock whose holder died or on a token
\* endpoint that does not answer.
EventuallyAuthenticated ==
    \A h \in Handlers : task[h].pc # "none" ~> task[h].pc = "none"
=============================================================================
