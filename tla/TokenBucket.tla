---------------------------- MODULE TokenBucket ----------------------------
(***************************************************************************)
(* One token bucket of a metered client over its whole life: claims by the *)
(* drain loop and by the fast path, refunds, late settlements against a    *)
(* claim's mark, the freeze that empties it after a 429, resets, and the   *)
(* expiry of the bucket and of marks.  Each action is one atomic operation *)
(* of the backend (backend/memory.ts, lua/tokenBucket.ts); a freeze is two *)
(* (client/index.ts, handleFreezeRequests: arm first, then empty), so      *)
(* every other operation can land between them.                            *)
(*                                                                         *)
(* The clock is the backend's.  Ghost variables keep the books: out, what  *)
(* has been taken and not handed back; paid, what each attempt has been    *)
(* charged; emptiedAt, when a freeze last emptied the bucket.  An attempt's*)
(* actual, which its response will report, is fixed when it claims.        *)
(* Whether the queue is empty, which the fast path also asks, is left open;*)
(* no probes are owed after a freeze here (thawRequestCount is 0), so the  *)
(* fast path is closed exactly while the freeze window is.                 *)
(***************************************************************************)
EXTENDS BucketMath

CONSTANTS
    Attempts,     \* attempts that claim from the bucket (a mark id each)
    Costs,        \* what an attempt reserves
    Actuals,      \* what its response may report
    FreezeTime,   \* the length of a freeze
    FreezeKinds,  \* whether a freeze empties the bucket (a 429 on one bucket)
    MaxFreezes,   \* bound: how many freezes are armed
    MaxResets,    \* bound: how often the bucket is reset
    MaxTime       \* bound: how long the clock runs

ASSUME LifeAssumption ==
    /\ Costs \subseteq Nat /\ Actuals \subseteq Nat
    /\ FreezeTime \in Nat /\ FreezeKinds \subseteq BOOLEAN
    /\ MaxFreezes \in Nat /\ MaxResets \in Nat /\ MaxTime \in Nat

VARIABLES
    now,      \* the backend's clock
    bucket,   \* the bucket's hash, absent or present
    marks,    \* the claim mark of each attempt, absent or present
    epochs,   \* the source of bucket epochs
    freeze,   \* the standing freeze, and whether it empties the bucket
    emptying, \* freezes armed whose bucket is not emptied yet
    attempt,  \* what each attempt holds
    resets,   \* resets so far
    out,      \* ghost: tokens taken and not handed back
    paid,     \* ghost: what each attempt was charged in the end
    emptiedAt \* ghost: when the bucket was last emptied, or Never

vars == <<now, bucket, marks, epochs, freeze, emptying, attempt, resets, out,
          paid, emptiedAt>>

---------------------------------------------------------------------------

NoEpoch == 0
Never   == -1

\* An absent bucket reads as full, from the present on, with no history.
Fresh == [live |-> TRUE, tokens |-> MaxTokens, lastUpdate |-> now,
          overflow |-> 0, fills |-> 0, generation |-> 0, epoch |-> NoEpoch,
          forgiven |-> 0, expires |-> now + BucketTtl]
Gone  == [live |-> FALSE, tokens |-> MaxTokens, lastUpdate |-> 0,
          overflow |-> 0, fills |-> 0, generation |-> 0, epoch |-> NoEpoch,
          forgiven |-> 0, expires |-> 0]
NoMark == [live |-> FALSE, claimed |-> 0, overflow |-> 0, fills |-> 0,
           generation |-> 0, epoch |-> NoEpoch, forgiven |-> 0, expires |-> 0]
Idle   == [phase |-> "idle", cost |-> 0, actual |-> 0]

\* The shapes of the state: a key written up to time t, after e epochs.
BucketType(t, e) ==
    [live: BOOLEAN, tokens: -MaxDebt .. MaxTokens, lastUpdate: 0 .. t,
     overflow: Nat, fills: Nat, generation: Nat, epoch: 0 .. e,
     forgiven: Nat, expires: Nat]
MarkType(e) ==
    [live: BOOLEAN, claimed: Nat, overflow: Nat, fills: Nat,
     generation: Nat, epoch: 0 .. e, forgiven: Nat, expires: Nat]
FreezeType  == [until: Nat, empties: BOOLEAN, armed: 0 .. MaxFreezes]
AttemptType == [phase: {"idle", "claimed", "settled"}, cost: Nat, actual: Nat]

Init ==
    /\ now = 0
    /\ bucket = Gone
    /\ marks = [a \in Attempts |-> NoMark]
    /\ epochs = 0
    /\ freeze = [until |-> 0, empties |-> FALSE, armed |-> 0]
    /\ emptying = 0
    /\ attempt = [a \in Attempts |-> Idle]
    /\ resets = 0
    /\ out = 0
    /\ paid = [a \in Attempts |-> 0]
    /\ emptiedAt = Never

\* What an operation that refills first works on.
Current == IF bucket.live THEN Refilled(bucket, now) ELSE Fresh

\* writeBucket renews the key's lifetime.
Written(b) == [b EXCEPT !.expires = now + BucketTtl]

FreezeStands        == freeze.until > now
FreezeEmptiedBucket == FreezeStands /\ freeze.empties

\* writeMark: the first mark stamps the bucket with an epoch.
Stamped(b) == IF b.epoch = NoEpoch THEN [b EXCEPT !.epoch = epochs + 1] ELSE b
MarkOf(b, cost) ==
    [live |-> TRUE, claimed |-> cost, overflow |-> b.overflow,
     fills |-> b.fills, generation |-> b.generation, epoch |-> b.epoch,
     forgiven |-> b.forgiven, expires |-> now + MarkTtl]

\* The spend and the mark it leaves; a bucket that cannot cover the cost is
\* still written back refilled.
Spend(a, cost, actual) ==
    LET b == Stamped(Current) IN
    IF CoversCost(Current.tokens, cost)
    THEN /\ bucket' = Written([b EXCEPT !.tokens = @ - cost])
         /\ epochs' = AtLeast(epochs, b.epoch)
         /\ marks' = [marks EXCEPT ![a] = MarkOf(b, cost)]
         /\ attempt' = [attempt EXCEPT ![a] = [phase |-> "claimed",
                          cost |-> cost, actual |-> actual]]
         /\ out' = out + cost
         /\ paid' = [paid EXCEPT ![a] = cost]
    ELSE /\ bucket' = Written(Current)
         /\ UNCHANGED <<marks, epochs, attempt, out, paid>>

\* acquireTokens, for a request of the queue: its caller looked at the freeze
\* before, so one armed since does not stop it.
AcquireTokens(a, cost, actual) ==
    /\ attempt[a].phase = "idle"
    /\ Spend(a, cost, actual)
    /\ UNCHANGED <<now, freeze, emptying, resets, emptiedAt>>

\* tryAdmitImmediately: the fast path reads the freeze in the same operation.
TryAdmitImmediately(a, cost, actual) ==
    /\ attempt[a].phase = "idle"
    /\ ~FreezeStands
    /\ Spend(a, cost, actual)
    /\ UNCHANGED <<now, freeze, emptying, resets, emptiedAt>>

\* Mutant: a refund is credited whatever freeze stands.
RefundThroughFreeze(a) ==
    LET credited == AtMost(MaxTokens, bucket.tokens + attempt[a].cost) IN
    /\ attempt[a].phase = "claimed"
    /\ attempt' = [attempt EXCEPT ![a] = Idle]
    /\ IF bucket.live
       THEN /\ bucket' = [bucket EXCEPT !.tokens = credited]
            /\ out' = out - (credited - bucket.tokens)
            /\ paid' = [paid EXCEPT ![a] = 0]
       ELSE UNCHANGED <<bucket, out, paid>>
    /\ UNCHANGED <<now, marks, epochs, freeze, emptying, resets, emptiedAt>>

\* refundTokens, for a claim that was never sent: refused under a freeze that
\* emptied the bucket, and never the maker of a bucket.
RefundTokens(a) ==
    LET credited == AtMost(MaxTokens, bucket.tokens + attempt[a].cost) IN
    /\ attempt[a].phase = "claimed"
    /\ attempt' = [attempt EXCEPT ![a] = Idle]
    /\ IF bucket.live /\ ~FreezeEmptiedBucket
       THEN /\ bucket' = [bucket EXCEPT !.tokens = credited]
            /\ out' = out - (credited - bucket.tokens)
            /\ paid' = [paid EXCEPT ![a] = 0]
       ELSE UNCHANGED <<bucket, out, paid>>
    /\ UNCHANGED <<now, marks, epochs, freeze, emptying, resets, emptiedAt>>

\* Mutant: the mark outlives the settlement that used it.
SettleKeepsMark(a) ==
    LET mark == marks[a]
        b    == Current
        s    == SettleAmount(b, mark, attempt[a].actual)
    IN
    /\ attempt[a].phase \in {"claimed", "settled"}
    /\ attempt' = [attempt EXCEPT ![a].phase = "settled"]
    /\ IF mark.live /\ bucket.live
       THEN /\ bucket' = Written([b EXCEPT !.tokens = @ - s.applied,
                                           !.forgiven = s.forgiven])
            /\ out' = out + s.applied
            /\ paid' = [paid EXCEPT ![a] = @ + s.applied]
       ELSE UNCHANGED <<bucket, out, paid>>
    /\ UNCHANGED <<now, marks, epochs, freeze, emptying, resets, emptiedAt>>

\* settleTokens: the mark is consumed by the first settlement that finds it; a
\* repeat, or one that comes too late, applies nothing.
SettleTokens(a) ==
    LET mark == marks[a]
        b    == Current
        s    == SettleAmount(b, mark, attempt[a].actual)
    IN
    /\ attempt[a].phase \in {"claimed", "settled"}
    /\ attempt' = [attempt EXCEPT ![a].phase = "settled"]
    /\ marks' = [marks EXCEPT ![a] = NoMark]
    /\ IF mark.live /\ bucket.live
       THEN /\ bucket' = Written([b EXCEPT !.tokens = @ - s.applied,
                                           !.forgiven = s.forgiven])
            /\ out' = out + s.applied
            /\ paid' = [paid EXCEPT ![a] = @ + s.applied]
       ELSE UNCHANGED <<bucket, out, paid>>
    /\ UNCHANGED <<now, epochs, freeze, emptying, resets, emptiedAt>>

\* touchClaimMark, while a stream runs.
TouchClaimMark(a) ==
    /\ attempt[a].phase = "claimed" /\ marks[a].live
    /\ marks' = [marks EXCEPT ![a].expires = now + MarkTtl]
    /\ UNCHANGED <<now, bucket, epochs, freeze, emptying, attempt, resets, out,
                   paid, emptiedAt>>

\* armFreeze: the later deadline and any emptying freeze win.
ArmFreeze(empties) ==
    /\ freeze.armed < MaxFreezes
    /\ freeze' = [until |-> AtLeast(freeze.until, now + FreezeTime),
                  empties |-> empties \/ FreezeEmptiedBucket,
                  armed |-> freeze.armed + 1]
    /\ emptying' = IF empties THEN emptying + 1 ELSE emptying
    /\ UNCHANGED <<now, bucket, marks, epochs, attempt, resets, out, paid,
                   emptiedAt>>

\* emptyTokenBucket: what is there is emptied, a debt stays, and every
\* settlement of an earlier claim is void.
EmptyTokenBucket ==
    /\ emptying > 0
    /\ emptying' = emptying - 1
    /\ LET b == IF bucket.live THEN bucket ELSE [Fresh EXCEPT !.tokens = 0] IN
       bucket' = Written([b EXCEPT !.tokens = AtMost(@, 0),
                                   !.lastUpdate = now,
                                   !.generation = @ + 1])
    /\ emptiedAt' = now
    /\ UNCHANGED <<now, marks, epochs, freeze, attempt, resets, out, paid>>

\* resetTokenBucket: a full bucket, whose key lives the base time.
ResetTokenBucket ==
    /\ resets < MaxResets
    /\ resets' = resets + 1
    /\ LET b == IF bucket.live THEN bucket ELSE Fresh IN
       /\ bucket' = [b EXCEPT !.tokens = MaxTokens, !.lastUpdate = now,
                              !.generation = @ + 1, !.expires = now + BaseTtl]
       /\ out' = out - (MaxTokens - b.tokens)
    /\ emptiedAt' = Never
    /\ UNCHANGED <<now, marks, epochs, freeze, emptying, attempt, paid>>

\* The clock moves on, and a key whose lifetime is over is gone.
Tick ==
    /\ now < MaxTime
    /\ now' = now + 1
    /\ bucket' = IF bucket.live /\ bucket.expires <= now + 1 THEN Gone
                 ELSE bucket
    /\ marks' = [a \in Attempts |->
                    IF marks[a].live /\ marks[a].expires <= now + 1 THEN NoMark
                    ELSE marks[a]]
    /\ UNCHANGED <<epochs, freeze, emptying, attempt, resets, out, paid,
                   emptiedAt>>

Next ==
    \/ \E a \in Attempts, cost \in Costs, actual \in Actuals :
          \/ AcquireTokens(a, cost, actual)
          \/ TryAdmitImmediately(a, cost, actual)
    \/ \E a \in Attempts :
          RefundTokens(a) \/ SettleTokens(a) \/ TouchClaimMark(a)
    \/ \E empties \in FreezeKinds : ArmFreeze(empties)
    \/ EmptyTokenBucket
    \/ ResetTokenBucket
    \/ Tick

Spec == Init /\ [][Next]_vars

---------------------------------------------------------------------------
(* Properties.                                                             *)

\* The balance stays between the debt a settlement may leave and the ceiling,
\* counters only name what happened, and no key outlives its lifetime.
TypeOK ==
    /\ now \in 0 .. MaxTime
    /\ bucket \in BucketType(now, epochs)
    /\ bucket.live => bucket.expires > now
    /\ marks \in [Attempts -> MarkType(epochs)]
    /\ epochs \in Nat
    /\ freeze \in FreezeType
    /\ emptying \in Nat
    /\ attempt \in [Attempts -> AttemptType]
    /\ resets \in 0 .. MaxResets
    /\ out \in Int
    /\ paid \in [Attempts -> Int]
    /\ emptiedAt \in -1 .. now

\* What was taken and not handed back, a late debit included, never exceeds
\* the ceiling, the debt settlements may leave, and the refill that the time
\* passed has earned: whatever the order of claims, refunds, settlements,
\* freezes and expiries, nobody mints a token.
NoOverspend ==
    out * Interval <= (MaxTokens + MaxDebt) * Interval + TokensToAdd * now

\* An attempt ends up charged between what it reserved and what it used: its
\* settlement moves the charge once and never past the response's report, and
\* what the debt limit did not absorb is not charged later.
ChargedOnce ==
    \A a \in Attempts : attempt[a].phase = "settled" =>
        /\ paid[a] >= AtMost(attempt[a].cost, attempt[a].actual)
        /\ paid[a] <= AtLeast(attempt[a].cost, attempt[a].actual)

\* The refill that a debit was forgiven was discarded before: two claims that
\* were open across the same refill are not both forgiven it.
ForgivenOnce == bucket.live => bucket.forgiven <= bucket.overflow

\* A bucket's key disappears, and so reads as full, only once the bucket would
\* have refilled to its ceiling.
ExpiryEarned ==
    [][bucket.live /\ ~bucket'.live
        => Refilled(bucket, now').tokens = MaxTokens]_vars

\* While an emptying freeze stands and its emptying is done, the balance is
\* what refill has added since and no more: neither a refund of an earlier
\* claim nor a settlement of one hands back what the freeze took away.
EmptiedStaysEmptied ==
    FreezeEmptiedBucket /\ emptying = 0 /\ emptiedAt # Never /\ bucket.live
    => bucket.tokens * Interval
         <= TokensToAdd * (bucket.lastUpdate - emptiedAt)
===========================================================================
