---------------------------- MODULE BucketMath ----------------------------
(***************************************************************************)
(* The arithmetic of a token bucket, shared by the state machines that use *)
(* it: the lazy refill, the lifetime of the key, and the amount a late     *)
(* settlement applies (backend/memory.ts, backend/settlement.ts and their  *)
(* Lua twins).  Costs are whole numbers, so the balance tolerance of       *)
(* balance.ts, a rounding guard for fractional ones, is zero.              *)
(***************************************************************************)
EXTENDS Integers

CONSTANTS
    MaxTokens,    \* the bucket's ceiling
    TokensToAdd,  \* what one interval adds
    Interval,     \* the length of an interval, in ticks
    BaseTtl,      \* the least lifetime of the bucket's key
    SettleWindow, \* the least lifetime of a claim's mark
    MaxDebt       \* how far below zero a settlement may push the balance

ASSUME BucketAssumption ==
    /\ MaxTokens \in Nat \ {0} /\ TokensToAdd \in Nat \ {0}
    /\ Interval \in Nat \ {0} /\ BaseTtl \in Nat \ {0}
    /\ SettleWindow \in Nat \ {0} /\ MaxDebt \in Nat

AtMost(a, b)  == IF a <= b THEN a ELSE b
AtLeast(a, b) == IF a >= b THEN a ELSE b

\* coversCost, for whole costs.
CoversCost(tokens, cost) == tokens >= cost

\* How long a bucket takes to refill from empty.
RefillTime == ((MaxTokens + TokensToAdd - 1) \div TokensToAdd) * Interval

\* Mutant: a day of quiet hands back a budget of a week.
BaseTtlOnly == BaseTtl

\* bucketTtl: an expired bucket reads as full, so its key outlives a refill.
BucketTtl == AtLeast(BaseTtl, RefillTime)

\* markFor: the mark outlives the claim's share of the balance.
MarkTtl == AtLeast(SettleWindow, RefillTime)

\* Mutant: the interval that is still running is added too.
RefilledEarly(b, now) ==
    LET k == (now - b.lastUpdate + Interval - 1) \div Interval
        raw == b.tokens + k * TokensToAdd
    IN
    [b EXCEPT !.tokens = AtMost(raw, MaxTokens),
              !.lastUpdate = now,
              !.overflow = @ + AtLeast(0, raw - MaxTokens),
              !.fills = IF raw >= MaxTokens THEN @ + 1 ELSE @]

\* refill: whole intervals only, clamped to the ceiling; what the ceiling
\* discards is counted in overflow, and reaching it in fills.
Refilled(b, now) ==
    LET k == (now - b.lastUpdate) \div Interval
        raw == b.tokens + k * TokensToAdd
    IN
    [b EXCEPT !.tokens = AtMost(raw, MaxTokens),
              !.lastUpdate = @ + k * Interval,
              !.overflow = @ + AtLeast(0, raw - MaxTokens),
              !.fills = IF raw > MaxTokens
                           \/ (b.tokens < MaxTokens /\ raw >= MaxTokens)
                        THEN @ + 1 ELSE @]

\* A mark speaks of this bucket: same incarnation, never overwritten since.
SameBucket(b, mark) ==
    /\ mark.epoch # 0 /\ b.epoch = mark.epoch
    /\ b.generation = mark.generation
    /\ b.overflow >= mark.overflow /\ b.fills >= mark.fills

\* Mutant: every claim is forgiven the same discarded refill.
SlackShared(b, mark) == AtLeast(0, b.overflow - mark.overflow)

\* The refill discarded since the claim that has forgiven nobody yet.
Slack(b, mark) ==
    AtLeast(0, (b.overflow - mark.overflow) - (b.forgiven - mark.forgiven))

\* Mutant: a credit is limited by the balance instead of by its headroom.
SettleCreditByBalance(b, mark, actual) ==
    LET delta == actual - mark.claimed
        used  == AtMost(delta, Slack(b, mark))
        owed  == delta - used
        paid  == AtMost(owed, AtLeast(0, b.tokens + MaxDebt))
    IN
    IF ~SameBucket(b, mark) \/ delta = 0
       \/ (delta < 0 /\ b.fills # mark.fills)
    THEN [applied |-> 0, unapplied |-> 0, forgiven |-> b.forgiven]
    ELSE IF delta > 0
    THEN [applied |-> paid, unapplied |-> owed - paid,
          forgiven |-> b.forgiven + used]
    ELSE [applied |-> -(AtMost(-delta, AtLeast(0, b.tokens))),
          unapplied |-> 0, forgiven |-> b.forgiven]

\* settleAmount: positive applied debits, negative credits.
SettleAmount(b, mark, actual) ==
    LET delta == actual - mark.claimed
        used  == AtMost(delta, Slack(b, mark))
        owed  == delta - used
        paid  == AtMost(owed, AtLeast(0, b.tokens + MaxDebt))
    IN
    IF ~SameBucket(b, mark) \/ delta = 0
       \/ (delta < 0 /\ b.fills # mark.fills)
    THEN [applied |-> 0, unapplied |-> 0, forgiven |-> b.forgiven]
    ELSE IF delta > 0
    THEN [applied |-> paid, unapplied |-> owed - paid,
          forgiven |-> b.forgiven + used]
    ELSE [applied |-> -(AtMost(-delta, AtLeast(0, MaxTokens - b.tokens))),
          unapplied |-> 0, forgiven |-> b.forgiven]
===========================================================================
