------------------------- MODULE TokenBucketProofs -------------------------
(***************************************************************************)
(* Theorems about TokenBucket, and about its settlements beside the        *)
(* balance of SettlementOracle, for any ceiling, rate, interval, costs and *)
(* number of attempts, and for runs of any length.                         *)
(***************************************************************************)
EXTENDS SettlementOracle, FiniteSetTheorems, TLAPS

USE BucketAssumption, LifeAssumption DEF BucketAssumption, LifeAssumption

---------------------------------------------------------------------------
(* The arithmetic.                                                         *)

LEMMA Extremes ==
  ASSUME NEW a \in Int, NEW b \in Int
  PROVE  /\ AtMost(a, b) \in Int /\ AtMost(a, b) <= a /\ AtMost(a, b) <= b
         /\ AtMost(a, b) \in {a, b}
         /\ AtLeast(a, b) \in Int /\ AtLeast(a, b) >= a /\ AtLeast(a, b) >= b
         /\ AtLeast(a, b) \in {a, b}
  BY DEF AtMost, AtLeast

\* The whole intervals in a span of time.
LEMMA WholeIntervals ==
  ASSUME NEW n \in Nat
  PROVE  /\ n \div Interval \in Nat
         /\ (n \div Interval) * Interval <= n
         /\ (n \div Interval) * TokensToAdd \in Nat
         /\ (n \div Interval) * Interval \in Nat
<1>1. n \div Interval \in Nat /\ (n \div Interval) * Interval <= n
  OBVIOUS
<1>2. \A k, c \in Nat : k * c \in Nat
  OBVIOUS
<1> QED BY <1>1, <1>2

\* A bucket's refill time is whole, and long enough to earn the ceiling.
LEMMA RefillTimeEarns ==
  /\ RefillTime \in Nat /\ BucketTtl \in Nat /\ BucketTtl >= RefillTime
  /\ BucketTtl > 0 /\ MarkTtl \in Nat
  /\ TokensToAdd * RefillTime >= MaxTokens * Interval
<1> DEFINE n == MaxTokens + TokensToAdd - 1
           q == n \div TokensToAdd
<1>1. q \in Nat /\ n < q * TokensToAdd + TokensToAdd
  OBVIOUS
<1>2. q * TokensToAdd >= MaxTokens
  <2> HIDE DEF q
  <2>1. q * TokensToAdd \in Int
    BY <1>1
  <2> QED BY <1>1, <2>1
<1> HIDE DEF q
<1>3. RefillTime = q * Interval
  BY DEF RefillTime, q
<1>4. RefillTime \in Nat
  BY <1>1, <1>3
<1>5. TokensToAdd * RefillTime = (q * TokensToAdd) * Interval
  BY <1>1, <1>3
<1>6. \A x, y, z \in Int : x >= y /\ z > 0 => x * z >= y * z
  OBVIOUS
<1>7. (q * TokensToAdd) * Interval >= MaxTokens * Interval
  BY <1>1, <1>2, <1>6
<1> QED BY <1>4, <1>5, <1>7 DEF BucketTtl, MarkTtl, AtLeast

\* What a refill does to a bucket that was written no later than now.
LEMMA RefilledFacts ==
  ASSUME NEW t \in Nat, NEW e \in Nat, NEW b \in BucketType(t, e)
  PROVE  LET c == Refilled(b, t) IN
         /\ c \in BucketType(t, e)
         /\ c.tokens >= b.tokens /\ c.overflow >= b.overflow
         /\ c.live = b.live /\ c.epoch = b.epoch
         /\ c.generation = b.generation /\ c.forgiven = b.forgiven
         /\ c.expires = b.expires /\ c.lastUpdate >= b.lastUpdate
         /\ LET k == (t - b.lastUpdate) \div Interval IN
            /\ k \in Nat /\ c.tokens <= b.tokens + k * TokensToAdd
            /\ c.lastUpdate = b.lastUpdate + k * Interval
<1> DEFINE k == (t - b.lastUpdate) \div Interval
           raw == b.tokens + k * TokensToAdd
           c == Refilled(b, t)
<1>1. /\ b.tokens \in -MaxDebt .. MaxTokens /\ b.lastUpdate \in 0 .. t
      /\ b.overflow \in Nat /\ b.fills \in Nat
  BY DEF BucketType
<1>2. /\ k \in Nat /\ k * Interval \in Nat /\ k * TokensToAdd \in Nat
      /\ b.lastUpdate + k * Interval <= t
  BY <1>1, WholeIntervals
<1>3. raw \in Int /\ raw >= b.tokens
  BY <1>1, <1>2
<1>4. c = [b EXCEPT !.tokens = AtMost(raw, MaxTokens),
              !.lastUpdate = @ + k * Interval,
              !.overflow = @ + AtLeast(0, raw - MaxTokens),
              !.fills = IF raw > MaxTokens
                           \/ (b.tokens < MaxTokens /\ raw >= MaxTokens)
                        THEN @ + 1 ELSE @]
  BY DEF Refilled
<1> HIDE DEF k, raw, c
<1>5. /\ c.tokens = AtMost(raw, MaxTokens)
      /\ c.lastUpdate = b.lastUpdate + k * Interval
      /\ c.overflow = b.overflow + AtLeast(0, raw - MaxTokens)
      /\ c.fills \in {b.fills, b.fills + 1}
      /\ c.live = b.live /\ c.generation = b.generation
      /\ c.epoch = b.epoch /\ c.forgiven = b.forgiven
      /\ c.expires = b.expires
  BY <1>4 DEF BucketType
<1>6. /\ c.tokens \in -MaxDebt .. MaxTokens /\ c.tokens >= b.tokens
      /\ c.tokens <= raw
  BY <1>1, <1>3, <1>5 DEF AtMost
<1>7. c.overflow \in Nat /\ c.overflow >= b.overflow
  BY <1>1, <1>3, <1>5 DEF AtLeast
<1>8. c.lastUpdate \in 0 .. t /\ c.lastUpdate >= b.lastUpdate
  BY <1>1, <1>2, <1>5
<1>9. c \in BucketType(t, e)
  <2>1. c.fills \in Nat
    BY <1>1, <1>5
  <2>2. c = [live |-> c.live, tokens |-> c.tokens,
             lastUpdate |-> c.lastUpdate, overflow |-> c.overflow,
             fills |-> c.fills, generation |-> c.generation,
             epoch |-> c.epoch, forgiven |-> c.forgiven,
             expires |-> c.expires]
    BY <1>4 DEF BucketType
  <2>3. c.live \in BOOLEAN /\ c.generation \in Nat /\ c.epoch \in 0 .. e
        /\ c.forgiven \in Nat /\ c.expires \in Nat
    BY <1>5 DEF BucketType
  <2> QED BY <1>6, <1>7, <1>8, <2>1, <2>2, <2>3 DEF BucketType
<1> QED BY <1>2, <1>5, <1>6, <1>7, <1>8, <1>9 DEF raw, c, k

\* What a settlement applies: within the reservation's error, within the debt
\* limit and the ceiling, and forgiven no more than has been discarded.
LEMMA SettleFacts ==
  ASSUME NEW t \in Nat, NEW e \in Nat, NEW b \in BucketType(t, e),
         NEW mark \in MarkType(e), NEW actual \in Nat
  PROVE  LET s == SettleAmount(b, mark, actual)
             delta == actual - mark.claimed IN
         /\ s.applied \in Int /\ s.forgiven \in Nat
         /\ b.tokens - s.applied \in -MaxDebt .. MaxTokens
         /\ delta >= 0 => 0 <= s.applied /\ s.applied <= delta
         /\ delta <= 0 => delta <= s.applied /\ s.applied <= 0
         /\ b.forgiven <= b.overflow /\ mark.forgiven <= mark.overflow
              => s.forgiven <= b.overflow
<1> DEFINE delta == actual - mark.claimed
           slack == Slack(b, mark)
           used  == AtMost(delta, slack)
           owed  == delta - used
           room  == AtLeast(0, b.tokens + MaxDebt)
           paidUp == AtMost(owed, room)
           s     == SettleAmount(b, mark, actual)
<1>1. /\ b.tokens \in -MaxDebt .. MaxTokens /\ b.overflow \in Nat
      /\ b.forgiven \in Nat /\ mark.claimed \in Nat /\ mark.overflow \in Nat
      /\ mark.forgiven \in Nat
  BY DEF BucketType, MarkType
<1>2. delta \in Int
  BY <1>1
<1>3. /\ slack \in Nat
      /\ slack = 0 \/ slack = (b.overflow - mark.overflow)
                              - (b.forgiven - mark.forgiven)
  BY <1>1 DEF Slack, AtLeast
<1>4. CASE s = [applied |-> 0, unapplied |-> 0, forgiven |-> b.forgiven]
  BY <1>1, <1>2, <1>4
<1>5. CASE delta > 0 /\ s = [applied |-> paidUp, unapplied |-> owed - paidUp,
                             forgiven |-> b.forgiven + used]
  <2>1. used \in Nat /\ used <= slack /\ used <= delta
    BY <1>2, <1>3, <1>5 DEF AtMost
  <2>2. owed \in Nat /\ owed <= delta
    BY <1>2, <2>1
  <2>3. room \in Nat /\ (room = 0 \/ room = b.tokens + MaxDebt)
    BY <1>1 DEF AtLeast
  <2>4. paidUp \in Nat /\ paidUp <= owed /\ paidUp <= room
    BY <2>2, <2>3 DEF AtMost
  <2>5. s.applied = paidUp /\ s.forgiven = b.forgiven + used
    BY <1>5
  <2> HIDE DEF slack, used, owed, room, paidUp, s
  <2>6. b.tokens - paidUp \in -MaxDebt .. MaxTokens
    BY <1>1, <2>3, <2>4
  <2>7. b.forgiven <= b.overflow /\ mark.forgiven <= mark.overflow
          => b.forgiven + used <= b.overflow
    BY <1>1, <1>3, <2>1
  <2> QED BY <1>1, <1>2, <1>5, <2>1, <2>2, <2>4, <2>5, <2>6, <2>7 DEF s
<1>6. CASE delta < 0 /\ s = [applied |-> -(AtMost(-delta,
                                AtLeast(0, MaxTokens - b.tokens))),
                             unapplied |-> 0, forgiven |-> b.forgiven]
  <2> DEFINE credit == AtMost(-delta, AtLeast(0, MaxTokens - b.tokens))
  <2>1. /\ credit \in Nat /\ credit <= -delta
        /\ credit <= MaxTokens - b.tokens
    BY <1>1, <1>2, <1>6 DEF AtMost, AtLeast
  <2>2. s.applied = -credit /\ s.forgiven = b.forgiven
    BY <1>6
  <2> HIDE DEF credit, s
  <2> QED BY <1>1, <1>2, <1>6, <2>1, <2>2 DEF s
<1>7. \/ s = [applied |-> 0, unapplied |-> 0, forgiven |-> b.forgiven]
      \/ delta > 0 /\ s = [applied |-> paidUp, unapplied |-> owed - paidUp,
                           forgiven |-> b.forgiven + used]
      \/ delta < 0 /\ s = [applied |-> -(AtMost(-delta,
                              AtLeast(0, MaxTokens - b.tokens))),
                           unapplied |-> 0, forgiven |-> b.forgiven]
  <2>1. delta = 0 \/ delta > 0 \/ delta < 0
    BY <1>2
  <2> QED BY <2>1 DEF SettleAmount
<1> QED BY <1>4, <1>5, <1>6, <1>7

---------------------------------------------------------------------------
(* Type correctness.                                                       *)

LEMMA Widening ==
  ASSUME NEW t \in Nat, NEW u \in Nat, NEW e \in Nat, NEW f \in Nat,
         t <= u, e <= f
  PROVE  /\ BucketType(t, e) \subseteq BucketType(u, f)
         /\ MarkType(e) \subseteq MarkType(f)
  BY DEF BucketType, MarkType

LEMMA FreshType ==
  ASSUME TypeOK
  PROVE  Fresh \in BucketType(now, epochs)
  BY RefillTimeEarns DEF TypeOK, Fresh, BucketType, NoEpoch

\* What the operations that refill first work on.
LEMMA CurrentType ==
  ASSUME TypeOK
  PROVE  Current \in BucketType(now, epochs) /\ Current.live = TRUE
<1>1. CASE bucket.live = TRUE
  <2>1. Refilled(bucket, now) \in BucketType(now, epochs)
        /\ Refilled(bucket, now).live = bucket.live
    BY RefilledFacts DEF TypeOK
  <2> QED BY <1>1, <2>1 DEF Current
<1>2. CASE bucket.live = FALSE
  BY <1>2, FreshType DEF Current, Fresh
<1> QED BY <1>1, <1>2 DEF TypeOK, BucketType

\* Writing a bucket back gives it its lifetime.
LEMMA WrittenType ==
  ASSUME TypeOK, NEW e \in Nat, NEW b \in BucketType(now, e)
  PROVE  Written(b) \in BucketType(now, e) /\ Written(b).expires > now
  BY RefillTimeEarns DEF TypeOK, Written, BucketType

---------------------------------------------------------------------------
(* The invariant: types; what was forgiven, to the bucket and as each mark *)
(* remembers it, had been discarded; what each attempt was charged.        *)

Forgiveness ==
    /\ bucket.forgiven <= bucket.overflow
    /\ \A a \in Attempts : marks[a].forgiven <= marks[a].overflow

Charge(a) ==
    /\ attempt[a].phase = "claimed" =>
         /\ paid[a] = attempt[a].cost
         /\ marks[a].live => marks[a].claimed = attempt[a].cost
    /\ attempt[a].phase = "settled" =>
         /\ ~marks[a].live
         /\ paid[a] >= AtMost(attempt[a].cost, attempt[a].actual)
         /\ paid[a] <= AtLeast(attempt[a].cost, attempt[a].actual)

Inv == TypeOK /\ Forgiveness /\ \A a \in Attempts : Charge(a)

LEMMA InitInv == Init => Inv
<1> SUFFICES ASSUME Init PROVE Inv
  OBVIOUS
<1>1. bucket \in BucketType(now, epochs)
  BY DEF Init, Gone, BucketType, NoEpoch
<1>2. NoMark \in MarkType(epochs)
  BY DEF Init, NoMark, MarkType, NoEpoch
<1>3. Idle \in AttemptType /\ freeze \in FreezeType
  BY DEF Init, Idle, AttemptType, FreezeType
<1>4. TypeOK
  BY <1>1, <1>2, <1>3 DEF Init, TypeOK, Gone, Never
<1>5. Forgiveness
  BY DEF Init, Forgiveness, Gone, NoMark
<1>6. \A a \in Attempts : Charge(a)
  BY DEF Init, Charge, Idle
<1> QED BY <1>4, <1>5, <1>6 DEF Inv

\* What the refilled bucket has forgiven had been discarded too.
LEMMA CurrentForgiveness ==
  ASSUME Inv
  PROVE  Current.forgiven <= Current.overflow
<1>1. CASE bucket.live = TRUE
  <2>1. /\ Refilled(bucket, now).forgiven = bucket.forgiven
        /\ Refilled(bucket, now).overflow >= bucket.overflow
        /\ Refilled(bucket, now).overflow \in Nat
    BY RefilledFacts DEF Inv, TypeOK, BucketType
  <2> QED BY <1>1, <2>1 DEF Inv, TypeOK, BucketType, Forgiveness, Current
<1>2. CASE bucket.live = FALSE
  BY <1>2 DEF Current, Fresh
<1> QED BY <1>1, <1>2 DEF Inv, TypeOK, BucketType

\* A spend, by the drain loop or by the fast path.
LEMMA SpendInv ==
  ASSUME Inv, NEW a \in Attempts, NEW cost \in Costs, NEW actual \in Actuals,
         Spend(a, cost, actual),
         UNCHANGED <<now, freeze, emptying, resets, emptiedAt>>
  PROVE  Inv'
<1>0. /\ Current \in BucketType(now, epochs)
      /\ Current.forgiven <= Current.overflow
      /\ now \in Nat /\ epochs \in Nat /\ cost \in Nat /\ actual \in Nat
  <2>1. TypeOK
    BY DEF Inv
  <2>2. Current \in BucketType(now, epochs)
    BY <2>1, CurrentType
  <2>3. Current.forgiven <= Current.overflow
    BY CurrentForgiveness
  <2>4. now \in Nat /\ epochs \in Nat /\ cost \in Nat /\ actual \in Nat
    BY <2>1 DEF TypeOK
  <2> QED BY <2>2, <2>3, <2>4
<1> USE DEF Inv
<1>1. CASE CoversCost(Current.tokens, cost)
  <2> DEFINE b == Stamped(Current)
             c == [b EXCEPT !.tokens = @ - cost]
             m == MarkOf(b, cost)
             e == AtLeast(epochs, b.epoch)
  <2>1. /\ bucket' = Written(c) /\ epochs' = e
        /\ marks' = [marks EXCEPT ![a] = m]
        /\ attempt' = [attempt EXCEPT ![a] = [phase |-> "claimed",
                           cost |-> cost, actual |-> actual]]
        /\ out' = out + cost /\ paid' = [paid EXCEPT ![a] = cost]
    BY <1>1 DEF Spend
  <2>2. /\ b = Current \/ b = [Current EXCEPT !.epoch = epochs + 1]
        /\ e \in {epochs, epochs + 1} /\ e \in Nat /\ epochs <= e
        /\ b.epoch <= e
    BY <1>0 DEF Stamped, BucketType, AtLeast
  <2>3. b \in BucketType(now, e) /\ b.forgiven <= b.overflow
        /\ b.tokens = Current.tokens
    BY <1>0, <2>2 DEF BucketType
  <2> HIDE DEF b, e
  <2>4. c \in BucketType(now, e) /\ c.forgiven <= c.overflow
    BY <1>0, <1>1, <2>3 DEF BucketType, CoversCost
  <2>5. m \in MarkType(e) /\ m.forgiven <= m.overflow /\ m.claimed = cost
    BY <1>0, <2>3, RefillTimeEarns DEF MarkOf, MarkType, BucketType
  <2> HIDE DEF c, m
  <2>6. /\ Written(c) \in BucketType(now, e) /\ Written(c).expires > now
        /\ Written(c).forgiven = c.forgiven
        /\ Written(c).overflow = c.overflow
    BY <2>2, <2>4, WrittenType DEF Written, BucketType
  <2>7. marks' \in [Attempts -> MarkType(e)]
    BY <1>0, <2>1, <2>2, <2>5, Widening DEF TypeOK
  <2>8. attempt' \in [Attempts -> AttemptType] /\ paid' \in [Attempts -> Int]
        /\ out' \in Int
    BY <1>0, <2>1 DEF TypeOK, AttemptType
  <2>9. TypeOK'
    BY <2>1, <2>2, <2>6, <2>7, <2>8 DEF TypeOK
  <2>10. Forgiveness'
    BY <2>1, <2>4, <2>5, <2>6 DEF Forgiveness, TypeOK
  <2>11. ASSUME NEW x \in Attempts PROVE Charge(x)'
    <3>1. CASE x = a
      BY <3>1, <2>1, <2>5 DEF Charge, TypeOK
    <3>2. CASE x # a
      BY <3>2, <2>1 DEF Charge, TypeOK
    <3> QED BY <3>1, <3>2
  <2> QED BY <2>9, <2>10, <2>11
<1>2. CASE ~CoversCost(Current.tokens, cost)
  <2>1. bucket' = Written(Current)
        /\ UNCHANGED <<marks, epochs, attempt, out, paid>>
    BY <1>2 DEF Spend
  <2>2. /\ Written(Current) \in BucketType(now, epochs)
        /\ Written(Current).expires > now
        /\ Written(Current).forgiven = Current.forgiven
        /\ Written(Current).overflow = Current.overflow
    BY <1>0, WrittenType DEF Written, BucketType
  <2>3. TypeOK'
    BY <2>1, <2>2 DEF TypeOK
  <2>4. Forgiveness'
    BY <1>0, <2>1, <2>2 DEF Forgiveness
  <2>5. \A x \in Attempts : Charge(x)'
    BY <2>1 DEF Charge
  <2> QED BY <2>3, <2>4, <2>5
<1> QED BY <1>1, <1>2

LEMMA RefundInv ==
  ASSUME Inv, NEW a \in Attempts, RefundTokens(a)
  PROVE  Inv'
<1> USE DEF Inv
<1> DEFINE credited == AtMost(MaxTokens, bucket.tokens + attempt[a].cost)
<1>1. /\ credited \in -MaxDebt .. MaxTokens
      /\ attempt[a].cost \in Nat /\ bucket.tokens \in Int
  BY DEF TypeOK, BucketType, AttemptType, AtMost
<1>2. /\ \/ /\ bucket' = [bucket EXCEPT !.tokens = credited]
            /\ out' = out - (credited - bucket.tokens)
            /\ paid' = [paid EXCEPT ![a] = 0]
         \/ UNCHANGED <<bucket, out, paid>>
      /\ attempt' = [attempt EXCEPT ![a] = Idle]
      /\ UNCHANGED <<now, marks, epochs, freeze, emptying, resets, emptiedAt>>
  BY DEF RefundTokens
<1> HIDE DEF credited
<1>3. /\ bucket' \in BucketType(now, epochs) /\ bucket'.live = bucket.live
      /\ bucket'.expires = bucket.expires
      /\ bucket'.forgiven = bucket.forgiven
      /\ bucket'.overflow = bucket.overflow
  BY <1>1, <1>2 DEF TypeOK, BucketType
<1>4. out' \in Int /\ paid' \in [Attempts -> Int]
  BY <1>1, <1>2 DEF TypeOK
<1>5. Idle \in AttemptType /\ Idle.phase = "idle"
  BY DEF Idle, AttemptType
<1>6. attempt' \in [Attempts -> AttemptType]
  BY <1>2, <1>5 DEF TypeOK
<1>7. TypeOK'
  BY <1>2, <1>3, <1>4, <1>6 DEF TypeOK
<1>8. Forgiveness'
  BY <1>2, <1>3 DEF Forgiveness
<1>9. ASSUME NEW x \in Attempts PROVE Charge(x)'
  <2>1. CASE x = a
    BY <2>1, <1>2, <1>5 DEF Charge, TypeOK
  <2>2. CASE x # a
    BY <2>2, <1>2 DEF Charge, TypeOK
  <2> QED BY <2>1, <2>2
<1> QED BY <1>7, <1>8, <1>9

LEMMA SettleInv ==
  ASSUME Inv, NEW a \in Attempts, SettleTokens(a)
  PROVE  Inv'
<1> DEFINE mark == marks[a]
           b == Current
           s == SettleAmount(b, mark, attempt[a].actual)
           c == [b EXCEPT !.tokens = @ - s.applied, !.forgiven = s.forgiven]
<1>1. TypeOK /\ Forgiveness /\ \A x \in Attempts : Charge(x)
  BY DEF Inv
<1>2. b \in BucketType(now, epochs) /\ b.forgiven <= b.overflow
  BY <1>1, CurrentType, CurrentForgiveness
<1>3. /\ now \in Nat /\ epochs \in Nat /\ mark \in MarkType(epochs)
      /\ attempt[a].actual \in Nat /\ attempt[a].cost \in Nat
      /\ mark.forgiven <= mark.overflow /\ paid[a] \in Int /\ out \in Int
  BY <1>1 DEF TypeOK, AttemptType, Forgiveness
<1>4. LET delta == attempt[a].actual - mark.claimed IN
      /\ s.applied \in Int /\ s.forgiven \in Nat
      /\ b.tokens - s.applied \in -MaxDebt .. MaxTokens
      /\ delta >= 0 => 0 <= s.applied /\ s.applied <= delta
      /\ delta <= 0 => delta <= s.applied /\ s.applied <= 0
      /\ b.forgiven <= b.overflow /\ mark.forgiven <= mark.overflow
           => s.forgiven <= b.overflow
  <2> HIDE DEF b, mark
  <2> QED BY <1>2, <1>3, SettleFacts DEF s
<1>5. /\ attempt[a].phase \in {"claimed", "settled"}
      /\ attempt' = [attempt EXCEPT ![a].phase = "settled"]
      /\ marks' = [marks EXCEPT ![a] = NoMark]
      /\ \/ /\ mark.live
            /\ bucket' = Written(c)
            /\ out' = out + s.applied
            /\ paid' = [paid EXCEPT ![a] = @ + s.applied]
         \/ UNCHANGED <<bucket, out, paid>>
      /\ UNCHANGED <<now, epochs, freeze, emptying, resets, emptiedAt>>
  BY DEF SettleTokens
<1> HIDE DEF s, b
<1>6. c \in BucketType(now, epochs) /\ c.forgiven <= c.overflow
  BY <1>2, <1>3, <1>4 DEF BucketType
<1> HIDE DEF c
<1>7. /\ Written(c) \in BucketType(now, epochs)
      /\ Written(c).expires > now
      /\ Written(c).forgiven = c.forgiven /\ Written(c).overflow = c.overflow
  BY <1>1, <1>3, <1>6, WrittenType DEF Written, BucketType
<1>8. /\ bucket' \in BucketType(now, epochs)
      /\ bucket'.live => bucket'.expires > now
      /\ bucket'.forgiven <= bucket'.overflow
  BY <1>1, <1>5, <1>6, <1>7 DEF TypeOK, Forgiveness
<1>9. NoMark \in MarkType(epochs)
  BY <1>3 DEF NoMark, MarkType, NoEpoch
<1>10. TypeOK'
  <2>1. marks' \in [Attempts -> MarkType(epochs)]
    BY <1>1, <1>5, <1>9 DEF TypeOK
  <2>2. attempt' \in [Attempts -> AttemptType]
    BY <1>1, <1>5 DEF TypeOK, AttemptType
  <2>3. out' \in Int /\ paid' \in [Attempts -> Int]
    BY <1>1, <1>3, <1>4, <1>5 DEF TypeOK
  <2> QED BY <1>1, <1>5, <1>8, <2>1, <2>2, <2>3 DEF TypeOK
<1>11. Forgiveness'
  BY <1>1, <1>5, <1>8 DEF Forgiveness, NoMark, TypeOK
<1>12. ASSUME NEW x \in Attempts PROVE Charge(x)'
  <2>1. CASE x # a
    <3>1. attempt'[x] = attempt[x] /\ marks'[x] = marks[x]
          /\ paid'[x] = paid[x]
      BY <1>1, <1>5, <2>1 DEF TypeOK
    <3> QED BY <1>1, <3>1 DEF Charge
  <2>2. CASE x = a
    <3>1. /\ attempt'[a].phase = "settled" /\ marks'[a] = NoMark
          /\ attempt'[a].cost = attempt[a].cost
          /\ attempt'[a].actual = attempt[a].actual
      BY <1>1, <1>5 DEF TypeOK, AttemptType
    <3>2. /\ paid'[a] >= AtMost(attempt[a].cost, attempt[a].actual)
          /\ paid'[a] <= AtLeast(attempt[a].cost, attempt[a].actual)
      <4>1. CASE attempt[a].phase = "settled"
        <5>1. ~mark.live
          BY <1>1, <4>1 DEF Charge
        <5>2. paid'[a] = paid[a]
          BY <1>5, <5>1
        <5> QED BY <1>1, <4>1, <5>2 DEF Charge
      <4>2. CASE attempt[a].phase = "claimed"
        <5>1. paid[a] = attempt[a].cost
              /\ (mark.live => mark.claimed = attempt[a].cost)
          BY <1>1, <4>2 DEF Charge
        <5>2. CASE paid' = paid
          BY <1>3, <5>1, <5>2 DEF AtMost, AtLeast
        <5>3. CASE mark.live /\ paid' = [paid EXCEPT ![a] = @ + s.applied]
          <6>1. paid'[a] = attempt[a].cost + s.applied
            BY <1>1, <5>1, <5>3 DEF TypeOK
          <6> QED BY <1>3, <1>4, <5>1, <5>3, <6>1 DEF AtMost, AtLeast
        <5> QED BY <1>5, <5>2, <5>3
      <4> QED BY <1>5, <4>1, <4>2
    <3> QED BY <2>2, <3>1, <3>2 DEF Charge, NoMark
  <2> QED BY <2>1, <2>2
<1> QED BY <1>10, <1>11, <1>12 DEF Inv

LEMMA TouchInv ==
  ASSUME Inv, NEW a \in Attempts, TouchClaimMark(a)
  PROVE  Inv'
<1> USE DEF Inv
<1> DEFINE m == [marks[a] EXCEPT !.expires = now + MarkTtl]
<1>1. /\ marks' = [marks EXCEPT ![a] = m]
      /\ UNCHANGED <<now, bucket, epochs, freeze, emptying, attempt, resets,
                     out, paid, emptiedAt>>
  BY DEF TouchClaimMark
<1>2. /\ m \in MarkType(epochs) /\ m.forgiven = marks[a].forgiven
      /\ m.overflow = marks[a].overflow /\ m.claimed = marks[a].claimed
      /\ m.live = marks[a].live
  BY RefillTimeEarns DEF TypeOK, MarkType
<1> HIDE DEF m
<1>3. TypeOK'
  BY <1>1, <1>2 DEF TypeOK
<1>4. Forgiveness'
  BY <1>1, <1>2 DEF Forgiveness, TypeOK
<1>5. ASSUME NEW x \in Attempts PROVE Charge(x)'
  <2>1. marks'[x].live = marks[x].live /\ marks'[x].claimed = marks[x].claimed
    BY <1>1, <1>2 DEF TypeOK
  <2> QED BY <1>1, <2>1 DEF Charge
<1> QED BY <1>3, <1>4, <1>5

LEMMA ArmInv ==
  ASSUME Inv, NEW empties \in FreezeKinds, ArmFreeze(empties)
  PROVE  Inv'
<1> USE DEF Inv
<1>1. freeze' \in FreezeType /\ emptying' \in Nat
  BY DEF ArmFreeze, TypeOK, FreezeType, AtLeast, FreezeEmptiedBucket,
         FreezeStands
<1>2. TypeOK'
  BY <1>1 DEF ArmFreeze, TypeOK
<1>3. Forgiveness' /\ \A x \in Attempts : Charge(x)'
  BY DEF ArmFreeze, Forgiveness, Charge
<1> QED BY <1>2, <1>3

LEMMA EmptyInv ==
  ASSUME Inv, EmptyTokenBucket
  PROVE  Inv'
<1> DEFINE b == IF bucket.live THEN bucket ELSE [Fresh EXCEPT !.tokens = 0]
           c == [b EXCEPT !.tokens = AtMost(@, 0), !.lastUpdate = now,
                          !.generation = @ + 1]
<1>1. TypeOK /\ Forgiveness /\ \A x \in Attempts : Charge(x)
  BY DEF Inv
<1>2. /\ bucket' = Written(c) /\ emptying' = emptying - 1 /\ emptying > 0
      /\ emptiedAt' = now
      /\ UNCHANGED <<now, marks, epochs, freeze, attempt, resets, out, paid>>
  BY DEF EmptyTokenBucket
<1>3. /\ [Fresh EXCEPT !.tokens = 0] \in BucketType(now, epochs)
      /\ [Fresh EXCEPT !.tokens = 0].forgiven = 0
      /\ [Fresh EXCEPT !.tokens = 0].overflow = 0
  <2>1. Fresh \in BucketType(now, epochs)
    BY <1>1, FreshType
  <2>2. Fresh.forgiven = 0 /\ Fresh.overflow = 0
    BY DEF Fresh
  <2> HIDE DEF Fresh
  <2> QED BY <2>1, <2>2 DEF BucketType
<1>4. b \in BucketType(now, epochs) /\ b.forgiven <= b.overflow
  <2>1. CASE bucket.live
    BY <1>1, <2>1 DEF TypeOK, Forgiveness
  <2>2. CASE ~bucket.live
    BY <1>3, <2>2
  <2> QED BY <2>1, <2>2
<1> HIDE DEF b
<1>5. c \in BucketType(now, epochs) /\ c.forgiven <= c.overflow
  <2>1. /\ b.tokens \in -MaxDebt .. MaxTokens /\ now \in Nat
        /\ b.generation + 1 \in Nat
    BY <1>1, <1>4 DEF BucketType, TypeOK
  <2>2. AtMost(b.tokens, 0) \in -MaxDebt .. MaxTokens
    BY <2>1 DEF AtMost
  <2>3. now \in 0 .. now
    BY <2>1
  <2> QED BY <1>4, <2>1, <2>2, <2>3 DEF BucketType
<1> HIDE DEF c
<1>6. /\ Written(c) \in BucketType(now, epochs)
      /\ Written(c).expires > now
      /\ Written(c).forgiven = c.forgiven /\ Written(c).overflow = c.overflow
  <2>1. epochs \in Nat
    BY <1>1 DEF TypeOK
  <2> QED BY <1>1, <1>5, <2>1, WrittenType DEF Written, BucketType
<1>7. TypeOK'
  BY <1>1, <1>2, <1>6 DEF TypeOK
<1>8. Forgiveness' /\ \A x \in Attempts : Charge(x)'
  BY <1>1, <1>2, <1>5, <1>6 DEF Forgiveness, Charge
<1> QED BY <1>7, <1>8 DEF Inv

LEMMA ResetInv ==
  ASSUME Inv, ResetTokenBucket
  PROVE  Inv'
<1> DEFINE b == IF bucket.live THEN bucket ELSE Fresh
           c == [b EXCEPT !.tokens = MaxTokens, !.lastUpdate = now,
                          !.generation = @ + 1, !.expires = now + BaseTtl]
<1>1. TypeOK /\ Forgiveness /\ \A x \in Attempts : Charge(x)
  BY DEF Inv
<1>2. /\ bucket' = c /\ out' = out - (MaxTokens - b.tokens)
      /\ resets < MaxResets /\ resets' = resets + 1 /\ emptiedAt' = Never
      /\ UNCHANGED <<now, marks, epochs, freeze, emptying, attempt, paid>>
  BY DEF ResetTokenBucket
<1>3. Fresh \in BucketType(now, epochs) /\ Fresh.forgiven = 0
      /\ Fresh.overflow = 0
  <2>1. Fresh \in BucketType(now, epochs)
    BY <1>1, FreshType
  <2> QED BY <2>1 DEF Fresh
<1>4. b \in BucketType(now, epochs) /\ b.forgiven <= b.overflow
  <2>1. CASE bucket.live
    BY <1>1, <2>1 DEF TypeOK, Forgiveness
  <2>2. CASE ~bucket.live
    BY <1>3, <2>2
  <2> QED BY <2>1, <2>2
<1> HIDE DEF b
<1>5. /\ c \in BucketType(now, epochs) /\ c.forgiven <= c.overflow
      /\ c.expires > now
  <2>1. now \in Nat /\ b.generation + 1 \in Nat
    BY <1>1, <1>4 DEF BucketType, TypeOK
  <2>2. /\ now \in 0 .. now /\ MaxTokens \in -MaxDebt .. MaxTokens
        /\ now + BaseTtl \in Nat /\ now + BaseTtl > now
    BY <2>1
  <2> QED BY <1>4, <2>1, <2>2 DEF BucketType
<1>6. out' \in Int
  BY <1>1, <1>2, <1>4 DEF TypeOK, BucketType
<1> HIDE DEF c
<1>7. TypeOK'
  BY <1>1, <1>2, <1>5, <1>6 DEF TypeOK, Never
<1>8. Forgiveness' /\ \A x \in Attempts : Charge(x)'
  BY <1>1, <1>2, <1>5 DEF Forgiveness, Charge
<1> QED BY <1>7, <1>8 DEF Inv

LEMMA TickInv ==
  ASSUME Inv, Tick
  PROVE  Inv'
<1>1. TypeOK /\ Forgiveness /\ \A x \in Attempts : Charge(x)
  BY DEF Inv
<1>2. /\ now \in Nat /\ now < MaxTime /\ now' = now + 1 /\ epochs \in Nat
      /\ UNCHANGED <<epochs, freeze, emptying, attempt, resets, out, paid,
                     emptiedAt>>
  BY <1>1 DEF Tick, TypeOK
<1>3. /\ Gone \in BucketType(now + 1, epochs) /\ NoMark \in MarkType(epochs)
      /\ Gone.live = FALSE /\ NoMark.live = FALSE
      /\ Gone.forgiven <= Gone.overflow /\ NoMark.forgiven <= NoMark.overflow
  BY <1>2 DEF Gone, NoMark, BucketType, MarkType, NoEpoch
<1>4. bucket \in BucketType(now + 1, epochs)
  <2>1. BucketType(now, epochs) \subseteq BucketType(now + 1, epochs)
    BY <1>2, Widening
  <2> QED BY <1>1, <2>1 DEF TypeOK
<1>5. /\ bucket' \in BucketType(now + 1, epochs)
      /\ bucket'.live => bucket'.expires > now + 1
      /\ bucket'.forgiven <= bucket'.overflow
  <2>1. CASE bucket.live /\ bucket.expires <= now + 1
    BY <1>3, <2>1 DEF Tick
  <2>2. CASE ~(bucket.live /\ bucket.expires <= now + 1)
    <3>1. bucket' = bucket
      BY <2>2 DEF Tick
    <3>2. bucket.expires \in Nat
      BY <1>4 DEF BucketType
    <3> QED BY <1>1, <1>2, <1>4, <2>2, <3>1, <3>2 DEF Forgiveness
  <2> QED BY <2>1, <2>2
<1>6. \A x \in Attempts : marks'[x] = NoMark \/ marks'[x] = marks[x]
  BY DEF Tick
<1>7. marks' \in [Attempts -> MarkType(epochs)]
  BY <1>1, <1>3 DEF Tick, TypeOK
<1>8. TypeOK'
  BY <1>1, <1>2, <1>5, <1>7 DEF TypeOK
<1>9. Forgiveness'
  BY <1>1, <1>3, <1>5, <1>6 DEF Forgiveness
<1>10. ASSUME NEW x \in Attempts PROVE Charge(x)'
  BY <1>1, <1>2, <1>3, <1>6 DEF Charge
<1> QED BY <1>8, <1>9, <1>10 DEF Inv

LEMMA NextInv == Inv /\ [Next]_vars => Inv'
<1> SUFFICES ASSUME Inv, [Next]_vars PROVE Inv'
  OBVIOUS
<1>1. ASSUME NEW a \in Attempts, NEW cost \in Costs, NEW actual \in Actuals,
             AcquireTokens(a, cost, actual)
      PROVE  Inv'
  BY <1>1, SpendInv DEF AcquireTokens
<1>2. ASSUME NEW a \in Attempts, NEW cost \in Costs, NEW actual \in Actuals,
             TryAdmitImmediately(a, cost, actual)
      PROVE  Inv'
  BY <1>2, SpendInv DEF TryAdmitImmediately
<1>3. ASSUME NEW a \in Attempts, RefundTokens(a) PROVE Inv'
  BY <1>3, RefundInv
<1>4. ASSUME NEW a \in Attempts, SettleTokens(a) PROVE Inv'
  BY <1>4, SettleInv
<1>5. ASSUME NEW a \in Attempts, TouchClaimMark(a) PROVE Inv'
  BY <1>5, TouchInv
<1>6. ASSUME NEW empties \in FreezeKinds, ArmFreeze(empties) PROVE Inv'
  BY <1>6, ArmInv
<1>7. CASE EmptyTokenBucket
  BY <1>7, EmptyInv
<1>8. CASE ResetTokenBucket
  BY <1>8, ResetInv
<1>9. CASE Tick
  BY <1>9, TickInv
<1>10. CASE UNCHANGED vars
  BY <1>10 DEF vars, Inv, TypeOK, Forgiveness, Charge
<1> QED BY <1>1, <1>2, <1>3, <1>4, <1>5, <1>6, <1>7, <1>8, <1>9, <1>10
        DEF Next

\* The invariant holds in every state of every run.
LEMMA Always == Spec => []Inv
<1>1. Init => Inv
  BY InitInv
<1>2. Inv /\ [Next]_vars => Inv'
  BY NextInv
<1> QED BY <1>1, <1>2, PTL DEF Spec

\* The balance never leaves its range, whatever a late settlement, a refund, a
\* freeze or a reset does to it, and no key is read past its lifetime
\* (memory.ts, refill, creditTokens, settleTokens, emptyTokenBucket).
THEOREM BucketTypeCorrect == Spec => []TypeOK
<1>1. Inv => TypeOK
  BY DEF Inv
<1> QED BY <1>1, Always, PTL

\* However many claims were open across a refill that the ceiling discarded,
\* it forgives their late debits once (settlement.ts, settleAmount).
THEOREM DiscardForgivenOnce == Spec => []ForgivenOnce
<1>1. Inv => ForgivenOnce
  BY DEF Inv, Forgiveness, ForgivenOnce
<1> QED BY <1>1, Always, PTL

\* A settlement that is repeated, late, or races a reset, a freeze or an expiry
\* never charges an attempt outside what it reserved and what it used
\* (memory.ts, settleTokens consuming the mark).
THEOREM SettledWithinReport == Spec => []ChargedOnce
<1>1. Inv => ChargedOnce
  BY DEF Inv, Charge, ChargedOnce
<1> QED BY <1>1, Always, PTL

---------------------------------------------------------------------------
(* The books balance.  What was taken and what is left, together, are the  *)
(* ceiling and the refill earned up to the last update; and a bucket that  *)
(* expires has had the time to earn its ceiling.  The second needs a       *)
(* bucket that starts no lower than empty, so debt is excluded: with one,  *)
(* the key may expire before it is repaid.                                 *)

Fair(o, t, l) == (o + t - MaxTokens) * Interval <= TokensToAdd * l

Books ==
    /\ bucket.live => Fair(out, bucket.tokens, bucket.lastUpdate)
    /\ ~bucket.live => Fair(out, MaxTokens, now)

Lifetime(b) == b.tokens = MaxTokens \/ b.expires >= b.lastUpdate + RefillTime

BooksInv == Inv /\ Books /\ (bucket.live => Lifetime(bucket))

LEMMA Products ==
  /\ \A x, y, z \in Int : x <= y /\ z >= 0 => x * z <= y * z
  /\ \A x, y, z \in Int : x <= y /\ z >= 0 => z * x <= z * y
  /\ \A x, y \in Int : x * y \in Int
  /\ \A x, y, z \in Int : (x + y) * z = x * z + y * z
  /\ \A x, y, z \in Int : z * (x + y) = z * x + z * y
<1>1. \A x, y, z \in Int : x <= y /\ z >= 0 => x * z <= y * z
  OBVIOUS
<1>2. \A x, y, z \in Int : x <= y /\ z >= 0 => z * x <= z * y
  OBVIOUS
<1>3. \A x, y \in Int : x * y \in Int
  OBVIOUS
<1>4. \A x, y, z \in Int : (x + y) * z = x * z + y * z
  OBVIOUS
<1>5. \A x, y, z \in Int : z * (x + y) = z * x + z * y
  OBVIOUS
<1> QED BY <1>1, <1>2, <1>3, <1>4, <1>5

\* Handing back or taking away, and letting time pass, keeps the books fair.
LEMMA FairKept ==
  ASSUME NEW o \in Int, NEW t \in Int, NEW l \in Int,
         NEW p \in Int, NEW u \in Int, NEW m \in Int,
         Fair(o, t, l), p + u <= o + t, l <= m
  PROVE  Fair(p, u, m)
<1> DEFINE x == o + t - MaxTokens
           y == p + u - MaxTokens
<1>1. x \in Int /\ y \in Int /\ y <= x
  OBVIOUS
<1>2. y * Interval <= x * Interval
  BY <1>1, Products
<1>3. TokensToAdd * l <= TokensToAdd * m
  BY Products
<1>4. /\ y * Interval \in Int /\ x * Interval \in Int
      /\ TokensToAdd * l \in Int /\ TokensToAdd * m \in Int
  BY <1>1, Products
<1>5. x * Interval <= TokensToAdd * l
  BY DEF Fair
<1> HIDE DEF x, y
<1>6. y * Interval <= TokensToAdd * m
  BY <1>2, <1>3, <1>4, <1>5
<1> QED BY <1>6 DEF Fair, y

\* So does a refill of whole intervals.
LEMMA FairRefill ==
  ASSUME NEW o \in Int, NEW t \in Int, NEW l \in Int, NEW k \in Nat,
         Fair(o, t, l)
  PROVE  Fair(o, t + k * TokensToAdd, l + k * Interval)
<1> DEFINE x == o + t - MaxTokens
           d == k * TokensToAdd
           w == k * Interval
<1>1. x \in Int /\ d \in Int /\ w \in Int
  BY Products
<1>2. (x + d) * Interval = x * Interval + d * Interval
  BY <1>1, Products
<1>3. TokensToAdd * (l + w) = TokensToAdd * l + TokensToAdd * w
  BY <1>1, Products
<1>4. d * Interval = TokensToAdd * w
  OBVIOUS
<1>5. x * Interval <= TokensToAdd * l
  BY DEF Fair
<1>6. /\ x * Interval \in Int /\ d * Interval \in Int
      /\ TokensToAdd * l \in Int
  BY <1>1, Products
<1>7. o + (t + d) - MaxTokens = x + d
  BY <1>1
<1> HIDE DEF x, d, w
<1>8. (x + d) * Interval <= TokensToAdd * (l + w)
  BY <1>2, <1>3, <1>4, <1>5, <1>6
<1> QED BY <1>7, <1>8 DEF Fair, d, w

LEMMA CurrentFair ==
  ASSUME BooksInv
  PROVE  Fair(out, Current.tokens, Current.lastUpdate)
<1>1. TypeOK /\ Books
  BY DEF BooksInv, Inv
<1>2. bucket \in BucketType(now, epochs) /\ now \in Nat /\ epochs \in Nat
      /\ out \in Int
  BY <1>1 DEF TypeOK
<1>3. CASE bucket.live = TRUE
  <2> DEFINE c == Refilled(bucket, now)
  <2> DEFINE k == (now - bucket.lastUpdate) \div Interval
  <2>1. /\ k \in Nat /\ c.tokens <= bucket.tokens + k * TokensToAdd
        /\ c.lastUpdate = bucket.lastUpdate + k * Interval
    BY <1>2, RefilledFacts
  <2>2. c \in BucketType(now, epochs)
    BY <1>2, RefilledFacts
  <2> HIDE DEF k
  <2>3. /\ bucket.tokens \in Int /\ bucket.lastUpdate \in Int
        /\ c.tokens \in Int /\ c.lastUpdate \in Int
        /\ k * TokensToAdd \in Int /\ k * Interval \in Int
    BY <1>2, <2>1, <2>2, Products DEF BucketType
  <2>4. Fair(out, bucket.tokens + k * TokensToAdd,
             bucket.lastUpdate + k * Interval)
    BY <1>1, <1>2, <1>3, <2>1, <2>3, FairRefill DEF Books
  <2> HIDE DEF c
  <2>5. Fair(out, c.tokens, c.lastUpdate)
    BY <1>2, <2>1, <2>3, <2>4, FairKept
  <2> QED BY <1>3, <2>5 DEF c, Current
<1>4. CASE bucket.live = FALSE
  BY <1>1, <1>4 DEF Books, Current, Fresh
<1> QED BY <1>2, <1>3, <1>4 DEF BucketType

\* An operation that refills the bucket, moves its balance against the books
\* and writes it back keeps them.
LEMMA WrittenBooks ==
  ASSUME BooksInv, NEW b \in BucketType(now, epochs'), NEW o \in Int,
         epochs' \in Nat, b.live = TRUE,
         bucket' = Written(b), out' = o, Fair(o, b.tokens, b.lastUpdate)
  PROVE  Books' /\ (bucket'.live => Lifetime(bucket'))
<1>1. /\ bucket'.live = TRUE /\ bucket'.tokens = b.tokens
      /\ bucket'.lastUpdate = b.lastUpdate
      /\ bucket'.expires = now + BucketTtl
  BY DEF Written, BucketType
<1>2. Books'
  BY <1>1 DEF Books
<1>3. now \in Nat /\ b.lastUpdate \in 0 .. now
  BY DEF BooksInv, Inv, TypeOK, BucketType
<1>4. Lifetime(bucket')
  BY <1>1, <1>3, RefillTimeEarns DEF Lifetime
<1> QED BY <1>2, <1>4

LEMMA SpendBooks ==
  ASSUME BooksInv, Inv', NEW a \in Attempts, NEW cost \in Costs,
         NEW actual \in Actuals, Spend(a, cost, actual), UNCHANGED now
  PROVE  BooksInv'
<1>1. /\ TypeOK /\ Current \in BucketType(now, epochs)
      /\ Current.live = TRUE /\ Fair(out, Current.tokens, Current.lastUpdate)
  <2>1. TypeOK
    BY DEF BooksInv, Inv
  <2> QED BY <2>1, CurrentType, CurrentFair
<1>2. /\ now \in Nat /\ epochs \in Nat /\ out \in Int /\ cost \in Nat
      /\ Current.tokens \in Int /\ Current.lastUpdate \in Int
  BY <1>1 DEF TypeOK, BucketType
<1>3. CASE CoversCost(Current.tokens, cost)
  <2> DEFINE b == Stamped(Current)
             c == [b EXCEPT !.tokens = @ - cost]
             e == AtLeast(epochs, b.epoch)
  <2>1. bucket' = Written(c) /\ epochs' = e /\ out' = out + cost
    BY <1>3 DEF Spend
  <2>2. /\ b = Current \/ b = [Current EXCEPT !.epoch = epochs + 1]
        /\ e \in Nat /\ epochs <= e /\ b.epoch <= e
    BY <1>1, <1>2 DEF Stamped, BucketType, AtLeast
  <2>3. /\ b \in BucketType(now, e) /\ b.tokens = Current.tokens
        /\ b.live = TRUE /\ b.lastUpdate = Current.lastUpdate
    BY <1>1, <1>2, <2>2 DEF BucketType
  <2> HIDE DEF b, e
  <2>4. /\ c \in BucketType(now, e) /\ c.live = TRUE
        /\ c.tokens = Current.tokens - cost
        /\ c.lastUpdate = Current.lastUpdate
    BY <1>2, <1>3, <2>3 DEF BucketType, CoversCost
  <2> HIDE DEF c
  <2>5. Fair(out + cost, c.tokens, c.lastUpdate)
    <3>1. (out + cost) + (Current.tokens - cost) <= out + Current.tokens
      BY <1>2
    <3>2. /\ Current.tokens - cost \in Int /\ out + cost \in Int
          /\ Current.lastUpdate <= Current.lastUpdate
      BY <1>2
    <3> HIDE DEF Current
    <3> QED BY <1>1, <1>2, <2>4, <3>1, <3>2, FairKept
  <2>6. Books' /\ (bucket'.live => Lifetime(bucket'))
    <3>1. out + cost \in Int
      BY <1>2
    <3> QED BY <2>1, <2>2, <2>4, <2>5, <3>1, WrittenBooks
  <2> QED BY <2>6 DEF BooksInv, Lifetime
<1>4. CASE ~CoversCost(Current.tokens, cost)
  <2>1. bucket' = Written(Current) /\ epochs' = epochs /\ out' = out
    BY <1>4 DEF Spend
  <2>2. Books' /\ (bucket'.live => Lifetime(bucket'))
    BY <1>1, <1>2, <2>1, WrittenBooks
  <2> QED BY <2>2 DEF BooksInv, Lifetime
<1> QED BY <1>3, <1>4

LEMMA RefundBooks ==
  ASSUME BooksInv, Inv', NEW a \in Attempts, RefundTokens(a)
  PROVE  BooksInv'
<1> DEFINE credited == AtMost(MaxTokens, bucket.tokens + attempt[a].cost)
<1>1. TypeOK /\ Books /\ (bucket.live => Lifetime(bucket))
  BY DEF BooksInv, Inv
<1>2. /\ bucket.tokens \in -MaxDebt .. MaxTokens /\ bucket.lastUpdate \in Int
      /\ attempt[a].cost \in Nat /\ out \in Int /\ now' = now
  BY <1>1 DEF TypeOK, BucketType, AttemptType, RefundTokens
<1>3. CASE UNCHANGED <<bucket, out>>
  BY <1>1, <1>2, <1>3 DEF BooksInv, Books, Lifetime
<1>4. CASE /\ bucket.live
           /\ bucket' = [bucket EXCEPT !.tokens = credited]
           /\ out' = out - (credited - bucket.tokens)
  <2>1. /\ credited \in Int /\ (bucket.tokens = MaxTokens => credited = MaxTokens)
    BY <1>2 DEF AtMost
  <2> HIDE DEF credited
  <2>2. /\ bucket'.live = bucket.live /\ bucket'.tokens = credited
        /\ bucket'.lastUpdate = bucket.lastUpdate
        /\ bucket'.expires = bucket.expires
    BY <1>1, <1>4 DEF TypeOK, BucketType
  <2>3. Fair(out', credited, bucket.lastUpdate)
    <3>1. /\ out' \in Int /\ out' + credited <= out + bucket.tokens
          /\ bucket.lastUpdate <= bucket.lastUpdate /\ bucket.tokens \in Int
      BY <1>2, <1>4, <2>1
    <3>2. Fair(out, bucket.tokens, bucket.lastUpdate)
      BY <1>1, <1>4 DEF Books
    <3> QED BY <1>2, <2>1, <3>1, <3>2, FairKept
  <2> QED BY <1>1, <1>4, <2>1, <2>2, <2>3 DEF BooksInv, Books, Lifetime
<1> QED BY <1>3, <1>4 DEF RefundTokens

LEMMA SettleBooks ==
  ASSUME BooksInv, Inv', NEW a \in Attempts, SettleTokens(a)
  PROVE  BooksInv'
<1> DEFINE b == Current
           s == SettleAmount(b, marks[a], attempt[a].actual)
           c == [b EXCEPT !.tokens = @ - s.applied, !.forgiven = s.forgiven]
<1>1. TypeOK /\ Books /\ (bucket.live => Lifetime(bucket))
  BY DEF BooksInv, Inv
<1>2. /\ b \in BucketType(now, epochs) /\ b.live = TRUE
      /\ Fair(out, b.tokens, b.lastUpdate)
  BY <1>1, CurrentType, CurrentFair
<1>3. /\ now \in Nat /\ epochs \in Nat /\ marks[a] \in MarkType(epochs)
      /\ attempt[a].actual \in Nat /\ out \in Int
      /\ b.tokens \in Int /\ b.lastUpdate \in Int
  BY <1>1, <1>2 DEF TypeOK, AttemptType, BucketType
<1>4. UNCHANGED <<now, epochs>>
      /\ \/ bucket' = Written(c) /\ out' = out + s.applied
         \/ UNCHANGED <<bucket, out>>
  BY DEF SettleTokens
<1> HIDE DEF b
<1>5. /\ s.applied \in Int /\ s.forgiven \in Nat
      /\ b.tokens - s.applied \in -MaxDebt .. MaxTokens
  BY <1>2, <1>3, SettleFacts DEF s
<1> HIDE DEF s
<1>6. CASE bucket' = Written(c) /\ out' = out + s.applied
  <2>1. /\ c \in BucketType(now, epochs) /\ c.live = TRUE
        /\ c.tokens = b.tokens - s.applied /\ c.lastUpdate = b.lastUpdate
    BY <1>2, <1>3, <1>5 DEF BucketType
  <2> HIDE DEF c
  <2>2. /\ out + s.applied \in Int /\ b.tokens - s.applied \in Int
        /\ (out + s.applied) + (b.tokens - s.applied) <= out + b.tokens
        /\ b.lastUpdate <= b.lastUpdate
    BY <1>3, <1>5
  <2>3. Fair(out + s.applied, c.tokens, c.lastUpdate)
    BY <1>2, <1>3, <2>1, <2>2, FairKept
  <2>4. Books' /\ (bucket'.live => Lifetime(bucket'))
    BY <1>3, <1>4, <1>6, <2>1, <2>2, <2>3, WrittenBooks
  <2> QED BY <2>4 DEF BooksInv, Lifetime
<1>7. CASE UNCHANGED <<bucket, out>>
  BY <1>1, <1>4, <1>7 DEF BooksInv, Books, Lifetime
<1> QED BY <1>4, <1>6, <1>7

\* Emptying only takes away; a bucket that was absent counted as full.
LEMMA EmptyBooks ==
  ASSUME BooksInv, Inv', EmptyTokenBucket
  PROVE  BooksInv'
<1> DEFINE b == IF bucket.live THEN bucket ELSE [Fresh EXCEPT !.tokens = 0]
           c == [b EXCEPT !.tokens = AtMost(@, 0), !.lastUpdate = now,
                          !.generation = @ + 1]
<1>1. TypeOK /\ Books
  BY DEF BooksInv, Inv
<1>2. bucket' = Written(c) /\ UNCHANGED <<now, epochs, out>>
  BY DEF EmptyTokenBucket
<1>3. now \in Nat /\ epochs \in Nat /\ out \in Int
  BY <1>1 DEF TypeOK
<1>4. /\ b \in BucketType(now, epochs) /\ b.live = TRUE
      /\ Fair(out, b.tokens, now)
  <2>1. CASE bucket.live
    <3>1. /\ bucket.tokens \in Int /\ bucket.lastUpdate \in Int
          /\ bucket.lastUpdate <= now /\ bucket \in BucketType(now, epochs)
      BY <1>1 DEF TypeOK, BucketType
    <3>2. out + bucket.tokens <= out + bucket.tokens
      BY <1>3, <3>1
    <3>3. Fair(out, bucket.tokens, now)
      BY <1>1, <1>3, <2>1, <3>1, <3>2, FairKept DEF Books
    <3> QED BY <2>1, <3>1, <3>3 DEF BucketType
  <2>2. CASE ~bucket.live
    <3>1. Fresh \in BucketType(now, epochs) /\ Fresh.live = TRUE
      BY <1>1, FreshType DEF Fresh
    <3>2. out + 0 <= out + MaxTokens /\ now <= now
      BY <1>3
    <3>3. Fair(out, 0, now)
      BY <1>1, <1>3, <2>2, <3>2, FairKept DEF Books
    <3> HIDE DEF Fresh
    <3> QED BY <2>2, <3>1, <3>3 DEF BucketType
  <2> QED BY <2>1, <2>2
<1> HIDE DEF b
<1>5. /\ b.tokens \in -MaxDebt .. MaxTokens
      /\ b.generation + 1 \in Nat /\ now \in 0 .. now
  BY <1>3, <1>4 DEF BucketType
<1>6. AtMost(b.tokens, 0) \in -MaxDebt .. MaxTokens
      /\ AtMost(b.tokens, 0) <= b.tokens
  BY <1>5 DEF AtMost
<1>7. /\ c \in BucketType(now, epochs) /\ c.live = TRUE
      /\ c.tokens = AtMost(b.tokens, 0) /\ c.lastUpdate = now
  BY <1>4, <1>5, <1>6 DEF BucketType
<1> HIDE DEF c
<1>8. /\ out + AtMost(b.tokens, 0) <= out + b.tokens /\ now <= now
      /\ AtMost(b.tokens, 0) \in Int /\ b.tokens \in Int
  BY <1>3, <1>5, <1>6
<1>9. Fair(out, c.tokens, c.lastUpdate)
  BY <1>3, <1>4, <1>7, <1>8, FairKept
<1>10. Books' /\ (bucket'.live => Lifetime(bucket'))
  BY <1>2, <1>3, <1>7, <1>9, WrittenBooks
<1> QED BY <1>10 DEF BooksInv, Lifetime

\* A reset hands back what it adds, and leaves a full bucket.
LEMMA ResetBooks ==
  ASSUME BooksInv, Inv', ResetTokenBucket
  PROVE  BooksInv'
<1> DEFINE b == IF bucket.live THEN bucket ELSE Fresh
<1>1. TypeOK /\ Books
  BY DEF BooksInv, Inv
<1>2. /\ bucket' = [b EXCEPT !.tokens = MaxTokens, !.lastUpdate = now,
                      !.generation = @ + 1, !.expires = now + BaseTtl]
      /\ out' = out - (MaxTokens - b.tokens) /\ UNCHANGED <<now, epochs>>
  BY DEF ResetTokenBucket
<1>3. now \in Nat /\ epochs \in Nat /\ out \in Int
  BY <1>1 DEF TypeOK
<1>4. /\ b \in BucketType(now, epochs) /\ b.live = TRUE
      /\ Fair(out, b.tokens, b.lastUpdate)
  <2>1. CASE bucket.live
    BY <1>1, <2>1 DEF TypeOK, BucketType, Books
  <2>2. CASE ~bucket.live
    <3>1. /\ Fresh \in BucketType(now, epochs) /\ Fresh.live = TRUE
          /\ Fresh.tokens = MaxTokens /\ Fresh.lastUpdate = now
      BY <1>1, FreshType DEF Fresh
    <3> HIDE DEF Fresh
    <3> QED BY <1>1, <2>2, <3>1 DEF Books
  <2> QED BY <2>1, <2>2
<1> HIDE DEF b
<1>5. /\ bucket'.live = TRUE /\ bucket'.tokens = MaxTokens
      /\ bucket'.lastUpdate = now
  BY <1>2, <1>4 DEF BucketType
<1>6. /\ b.tokens \in Int /\ b.lastUpdate \in Int /\ b.lastUpdate <= now
      /\ out' \in Int /\ out' + MaxTokens <= out + b.tokens
  BY <1>2, <1>3, <1>4 DEF BucketType
<1>7. Fair(out', MaxTokens, now)
  BY <1>3, <1>4, <1>6, FairKept
<1> QED BY <1>5, <1>7 DEF BooksInv, Books, Lifetime

\* A bucket that expires has earned the ceiling it will read as.
LEMMA TickBooks ==
  ASSUME BooksInv, Inv', Tick, MaxDebt = 0
  PROVE  BooksInv'
<1>1. TypeOK /\ Books /\ (bucket.live => Lifetime(bucket))
  BY DEF BooksInv, Inv
<1>2. /\ now \in Nat /\ now' = now + 1 /\ out' = out /\ out \in Int
      /\ bucket.tokens \in 0 .. MaxTokens /\ bucket.lastUpdate \in 0 .. now
      /\ bucket.expires \in Nat
  BY <1>1 DEF Tick, TypeOK, BucketType
<1>3. CASE bucket.live /\ bucket.expires <= now + 1
  <2>1. bucket' = Gone /\ ~Gone.live
    BY <1>3 DEF Tick, Gone
  <2>2. Fair(out, bucket.tokens, bucket.lastUpdate) /\ Lifetime(bucket)
    BY <1>1, <1>3 DEF Books
  <2>3. Fair(out, MaxTokens, now + 1)
    <3>1. CASE bucket.tokens = MaxTokens
      <4>1. /\ out + MaxTokens <= out + MaxTokens /\ MaxTokens \in Int
            /\ bucket.lastUpdate <= now + 1 /\ bucket.lastUpdate \in Int
            /\ now + 1 \in Int
        BY <1>2
      <4> QED BY <1>2, <2>2, <3>1, <4>1, FairKept
    <3>2. CASE bucket.expires >= bucket.lastUpdate + RefillTime
      <4> DEFINE l == bucket.lastUpdate
      <4>1. l \in Int /\ l + RefillTime <= now + 1 /\ RefillTime \in Int
        BY <1>2, <1>3, <3>2, RefillTimeEarns
      <4>2. Fair(out, 0, l)
        <5>1. out + 0 <= out + bucket.tokens /\ l <= l /\ bucket.tokens \in Int
          BY <1>2
        <5> QED BY <1>2, <2>2, <4>1, <5>1, FairKept
      <4> HIDE DEF l
      <4>3. (out - MaxTokens) * Interval <= TokensToAdd * l
        <5>1. out + 0 - MaxTokens = out - MaxTokens
          BY <1>2
        <5> QED BY <4>2, <5>1 DEF Fair
      <4>4. out * Interval
              = (out - MaxTokens) * Interval + MaxTokens * Interval
        <5>1. out = (out - MaxTokens) + MaxTokens /\ out - MaxTokens \in Int
          BY <1>2
        <5> QED BY <5>1, Products
      <4>5. TokensToAdd * (l + RefillTime)
              = TokensToAdd * l + TokensToAdd * RefillTime
        BY <4>1, Products
      <4>6. TokensToAdd * (l + RefillTime) <= TokensToAdd * (now + 1)
        BY <1>2, <4>1, Products
      <4>7. /\ out * Interval \in Int /\ (out - MaxTokens) * Interval \in Int
            /\ MaxTokens * Interval \in Int /\ TokensToAdd * l \in Int
            /\ TokensToAdd * RefillTime \in Int
            /\ TokensToAdd * (now + 1) \in Int
            /\ TokensToAdd * (l + RefillTime) \in Int
        BY <1>2, <4>1, Products
      <4>8. TokensToAdd * RefillTime >= MaxTokens * Interval
        BY RefillTimeEarns
      <4>9. out * Interval <= TokensToAdd * (now + 1)
        BY <4>3, <4>4, <4>5, <4>6, <4>7, <4>8
      <4>10. out + MaxTokens - MaxTokens = out
        BY <1>2
      <4> QED BY <4>9, <4>10 DEF Fair
    <3> QED BY <2>2, <3>1, <3>2 DEF Lifetime
  <2> QED BY <1>2, <2>1, <2>3 DEF BooksInv, Books
<1>4. CASE ~(bucket.live /\ bucket.expires <= now + 1)
  <2>1. bucket' = bucket
    BY <1>4 DEF Tick
  <2>2. ~bucket.live => Fair(out, MaxTokens, now + 1)
    <3>1. out + MaxTokens <= out + MaxTokens /\ now <= now + 1
          /\ MaxTokens \in Int /\ now + 1 \in Int
      BY <1>2
    <3> QED BY <1>1, <1>2, <3>1, FairKept DEF Books
  <2> QED BY <1>1, <1>2, <2>1, <2>2 DEF BooksInv, Books, Lifetime
<1> QED BY <1>3, <1>4

LEMMA NextBooks ==
  ASSUME BooksInv, [Next]_vars, MaxDebt = 0
  PROVE  BooksInv'
<1>1. Inv'
  BY NextInv DEF BooksInv
<1>2. ASSUME NEW a \in Attempts, NEW cost \in Costs, NEW actual \in Actuals,
             \/ AcquireTokens(a, cost, actual)
             \/ TryAdmitImmediately(a, cost, actual)
      PROVE  BooksInv'
  BY <1>1, <1>2, SpendBooks DEF AcquireTokens, TryAdmitImmediately
<1>3. ASSUME NEW a \in Attempts, RefundTokens(a) PROVE BooksInv'
  BY <1>1, <1>3, RefundBooks
<1>4. ASSUME NEW a \in Attempts, SettleTokens(a) PROVE BooksInv'
  BY <1>1, <1>4, SettleBooks
<1>5. CASE UNCHANGED <<now, bucket, out>>
  BY <1>1, <1>5 DEF BooksInv, Books, Lifetime
<1>6. ASSUME NEW a \in Attempts, TouchClaimMark(a) PROVE BooksInv'
  BY <1>5, <1>6 DEF TouchClaimMark
<1>7. ASSUME NEW empties \in FreezeKinds, ArmFreeze(empties) PROVE BooksInv'
  BY <1>5, <1>7 DEF ArmFreeze
<1>8. CASE EmptyTokenBucket
  BY <1>1, <1>8, EmptyBooks
<1>9. CASE ResetTokenBucket
  BY <1>1, <1>9, ResetBooks
<1>10. CASE Tick
  BY <1>1, <1>10, TickBooks
<1>11. CASE UNCHANGED vars
  BY <1>5, <1>11 DEF vars
<1> QED BY <1>2, <1>3, <1>4, <1>6, <1>7, <1>8, <1>9, <1>10, <1>11 DEF Next

LEMMA BooksBound ==
  ASSUME BooksInv, MaxDebt = 0
  PROVE  NoOverspend
<1>1. TypeOK /\ Books
  BY DEF BooksInv, Inv
<1>2. /\ now \in Nat /\ out \in Int /\ bucket.tokens \in 0 .. MaxTokens
      /\ bucket.lastUpdate \in 0 .. now
  BY <1>1 DEF TypeOK, BucketType
<1>3. Fair(out, 0, now)
  <2>1. /\ out + 0 <= out + bucket.tokens /\ out + 0 <= out + MaxTokens
        /\ bucket.lastUpdate <= now /\ now <= now
        /\ bucket.tokens \in Int /\ bucket.lastUpdate \in Int
    BY <1>2
  <2>2. CASE bucket.live
    BY <1>1, <1>2, <2>1, <2>2, FairKept DEF Books
  <2>3. CASE ~bucket.live
    BY <1>1, <1>2, <2>1, <2>3, FairKept DEF Books
  <2> QED BY <2>2, <2>3
<1>4. out + 0 - MaxTokens = out - MaxTokens /\ out - MaxTokens \in Int
      /\ out = (out - MaxTokens) + MaxTokens /\ MaxTokens + MaxDebt = MaxTokens
  BY <1>2
<1>5. (out - MaxTokens) * Interval <= TokensToAdd * now
  BY <1>3, <1>4 DEF Fair
<1>6. out * Interval = (out - MaxTokens) * Interval + MaxTokens * Interval
  BY <1>4, Products
<1>7. /\ out * Interval \in Int /\ (out - MaxTokens) * Interval \in Int
      /\ MaxTokens * Interval \in Int /\ TokensToAdd * now \in Int
  BY <1>2, <1>4, Products
<1>8. out * Interval <= MaxTokens * Interval + TokensToAdd * now
  BY <1>5, <1>6, <1>7
<1> QED BY <1>4, <1>8 DEF NoOverspend

LEMMA InitBooks == Init => BooksInv
<1> SUFFICES ASSUME Init PROVE BooksInv
  OBVIOUS
<1>1. Fair(out, MaxTokens, now)
  <2>1. out + MaxTokens - MaxTokens = 0 /\ now = 0
    BY DEF Init
  <2>2. 0 * Interval = 0 /\ TokensToAdd * 0 = 0
    OBVIOUS
  <2> QED BY <2>1, <2>2 DEF Fair
<1> QED BY <1>1, InitInv DEF BooksInv, Books, Init, Gone

\* Whatever the order of claims, refunds, settlements, freezes, resets and
\* expiries, what was taken and not handed back is at most the ceiling and the
\* refill that the time passed has earned, on a bucket that no settlement may
\* push into debt (memory.ts, refill, bucketTtl, creditTokens, settleTokens).
THEOREM NothingMinted ==
  ASSUME MaxDebt = 0
  PROVE  Spec => []NoOverspend
<1>1. Init => BooksInv
  BY InitBooks
<1>2. BooksInv /\ [Next]_vars => BooksInv'
  BY NextBooks
<1>3. BooksInv => NoOverspend
  BY BooksBound
<1> QED BY <1>1, <1>2, <1>3, PTL DEF Spec

\* A bucket left alone for its refill time is full.
LEMMA RefillTimeFills ==
  ASSUME NEW n \in Nat, n >= RefillTime
  PROVE  (n \div Interval) * TokensToAdd >= MaxTokens
<1> DEFINE m == MaxTokens + TokensToAdd - 1
           q == m \div TokensToAdd
           k == n \div Interval
<1>1. q \in Nat /\ m < q * TokensToAdd + TokensToAdd
  OBVIOUS
<1>2. k \in Nat /\ n < k * Interval + Interval
  OBVIOUS
<1>3. RefillTime = q * Interval
  BY DEF RefillTime
<1> HIDE DEF q, k
<1>4. q * TokensToAdd >= MaxTokens
  <2>1. q * TokensToAdd \in Int
    BY <1>1
  <2> QED BY <1>1, <2>1
<1>5. k >= q
  <2>1. SUFFICES ASSUME k + 1 <= q PROVE FALSE
    BY <1>1, <1>2
  <2>2. (k + 1) * Interval <= q * Interval
    BY <1>1, <1>2, <2>1, Products
  <2>3. (k + 1) * Interval = k * Interval + Interval
    BY <1>2
  <2>4. k * Interval \in Int /\ q * Interval \in Int
    BY <1>1, <1>2, Products
  <2> QED BY <1>2, <1>3, <2>2, <2>3, <2>4
<1>6. k * TokensToAdd >= q * TokensToAdd
  BY <1>1, <1>2, <1>5, Products
<1>7. k * TokensToAdd \in Int /\ q * TokensToAdd \in Int
  BY <1>1, <1>2, Products
<1> QED BY <1>4, <1>6, <1>7 DEF k

\* Every operation but the clock leaves a bucket that was there in place.
LEMMA OnlyTimeExpires ==
  ASSUME Inv, Next, bucket.live, ~bucket'.live
  PROVE  Tick
<1>1. TypeOK
  BY DEF Inv
<1>2. Current \in BucketType(now, epochs) /\ Current.live = TRUE
  BY <1>1, CurrentType
<1>3. ASSUME NEW a \in Attempts, NEW cost \in Costs, NEW actual \in Actuals,
             Spend(a, cost, actual)
      PROVE  FALSE
  <2>1. /\ Written(Current).live = TRUE
        /\ Written([Stamped(Current) EXCEPT !.tokens = @ - cost]).live = TRUE
    BY <1>2 DEF Written, Stamped, BucketType
  <2> QED BY <1>3, <2>1 DEF Spend
<1>4. ASSUME NEW a \in Attempts, RefundTokens(a) PROVE FALSE
  BY <1>1, <1>4 DEF RefundTokens, TypeOK, BucketType
<1>5. ASSUME NEW a \in Attempts, SettleTokens(a) PROVE FALSE
  <2> DEFINE s == SettleAmount(Current, marks[a], attempt[a].actual)
  <2> HIDE DEF s
  <2>1. Written([Current EXCEPT !.tokens = @ - s.applied,
                                !.forgiven = s.forgiven]).live = TRUE
    BY <1>2 DEF Written, BucketType
  <2> QED BY <1>5, <2>1 DEF SettleTokens, s
<1>6. ASSUME NEW a \in Attempts, TouchClaimMark(a) PROVE FALSE
  BY <1>6 DEF TouchClaimMark
<1>7. ASSUME NEW empties \in FreezeKinds, ArmFreeze(empties) PROVE FALSE
  BY <1>7 DEF ArmFreeze
<1>8. CASE EmptyTokenBucket
  BY <1>1, <1>8 DEF EmptyTokenBucket, Written, TypeOK, BucketType
<1>9. CASE ResetTokenBucket
  BY <1>1, <1>9 DEF ResetTokenBucket, TypeOK, BucketType
<1> QED BY <1>3, <1>4, <1>5, <1>6, <1>7, <1>8, <1>9
        DEF Next, AcquireTokens, TryAdmitImmediately

\* A bucket's key is gone, and the bucket so reads as full, only when refill
\* had filled it, on a bucket no settlement may push into debt (memory.ts,
\* bucketTtl and refill).
THEOREM ExpiryIsEarned ==
  ASSUME MaxDebt = 0
  PROVE  Spec => ExpiryEarned
<1>1. Init => BooksInv
  BY InitBooks
<1>2. BooksInv /\ [Next]_vars => BooksInv'
  BY NextBooks
<1>3. ASSUME BooksInv, [Next]_vars, bucket.live, ~bucket'.live
      PROVE  Refilled(bucket, now').tokens = MaxTokens
  <2>1. CASE UNCHANGED vars
    BY <1>3, <2>1 DEF vars
  <2>2. CASE Next
    <3>1. Tick
      BY <1>3, <2>2, OnlyTimeExpires DEF BooksInv
    <3>2. TypeOK /\ Lifetime(bucket)
      BY <1>3 DEF BooksInv, Inv
    <3>3. now' = now + 1 /\ bucket.expires <= now + 1
      BY <1>3, <3>1 DEF Tick
    <3>4. /\ bucket.tokens \in 0 .. MaxTokens /\ now \in Nat
          /\ bucket.lastUpdate \in 0 .. now /\ bucket.expires \in Nat
          /\ bucket \in BucketType(now, epochs)
      BY <3>2 DEF TypeOK, BucketType
    <3> DEFINE n == now' - bucket.lastUpdate
               raw == bucket.tokens + (n \div Interval) * TokensToAdd
    <3>5. n \in Nat /\ (n \div Interval) * TokensToAdd \in Nat
      BY <3>3, <3>4, WholeIntervals
    <3>6. Refilled(bucket, now').tokens = AtMost(raw, MaxTokens)
      BY <3>4 DEF Refilled, BucketType
    <3>7. bucket.tokens = MaxTokens
            \/ (n \div Interval) * TokensToAdd >= MaxTokens
      <4>1. CASE bucket.expires >= bucket.lastUpdate + RefillTime
        <5>1. n >= RefillTime
          BY <3>3, <3>4, <4>1, RefillTimeEarns
        <5> QED BY <3>5, <5>1, RefillTimeFills
      <4> QED BY <3>2, <4>1 DEF Lifetime
    <3> HIDE DEF n
    <3>8. raw \in Int /\ raw >= MaxTokens
      BY <3>4, <3>5, <3>7
    <3> HIDE DEF raw
    <3> QED BY <3>6, <3>8 DEF AtMost
  <2> QED BY <1>3, <2>1, <2>2
<1>4. BooksInv /\ [Next]_vars
      => [bucket.live /\ ~bucket'.live
            => Refilled(bucket, now').tokens = MaxTokens]_vars
  BY <1>3
<1> QED BY <1>1, <1>2, <1>4, PTL DEF Spec, ExpiryEarned

---------------------------------------------------------------------------
(* A bucket stays emptied.  The balance under a standing emptying freeze   *)
(* is bounded by the refill since, but a settlement may credit it, and     *)
(* several claims made since may be settled in any order: what they can    *)
(* hand back has to be bounded all together.  Instead of a sum, every such *)
(* claim is given a stretch of the tokens above the balance, as long as    *)
(* what it claimed and disjoint from the others', and the whole stands     *)
(* below what refill has earned.  A claim takes the stretch it lowers the  *)
(* balance by; a refill raises all of them; a settled claim's stretch      *)
(* closes, and the ones below it move up by its length.                    *)

Earned(t, l) == t * Interval <= TokensToAdd * (l - emptiedAt)

\* A mark that a settlement would credit or debit to bucket b.
SpeaksOf(m, b) ==
    /\ m.live /\ m.epoch # NoEpoch
    /\ m.epoch = b.epoch /\ m.generation = b.generation

Stretches(b, m, from) ==
    /\ from \in [Attempts -> Int]
    /\ \A a \in Attempts : SpeaksOf(m[a], b) =>
          /\ b.tokens <= from[a]
          /\ Earned(from[a] + m[a].claimed, b.lastUpdate)
    /\ \A a, c \in Attempts :
          SpeaksOf(m[a], b) /\ SpeaksOf(m[c], b) /\ a # c =>
             \/ from[a] + m[a].claimed <= from[c]
             \/ from[c] + m[c].claimed <= from[a]

OnlyRefill(b, m) ==
    /\ b.lastUpdate >= emptiedAt
    /\ Earned(b.tokens, b.lastUpdate)
    /\ \E from : Stretches(b, m, from)

Standing == FreezeEmptiedBucket /\ emptying = 0 /\ emptiedAt # Never

\* No mark is of a later generation than its bucket.
MarksOfThePast ==
    \A a \in Attempts :
        marks[a].live /\ marks[a].epoch # NoEpoch /\ marks[a].epoch = bucket.epoch
        => marks[a].generation <= bucket.generation

EmptiedInv ==
    /\ Inv
    /\ bucket.live => Lifetime(bucket)
    /\ ~bucket.live => bucket.epoch = NoEpoch
    /\ MarksOfThePast
    /\ Standing /\ bucket.live => OnlyRefill(bucket, marks)
    /\ Standing /\ ~bucket.live => Earned(MaxTokens, now)

LEMMA EarnedKept ==
  ASSUME NEW t \in Int, NEW l \in Int, NEW u \in Int, NEW m \in Int,
         emptiedAt \in Int, Earned(t, l), u <= t, l <= m
  PROVE  Earned(u, m)
<1>1. u * Interval <= t * Interval
  BY Products
<1>2. TokensToAdd * (l - emptiedAt) <= TokensToAdd * (m - emptiedAt)
  BY Products
<1>3. /\ u * Interval \in Int /\ t * Interval \in Int
      /\ TokensToAdd * (l - emptiedAt) \in Int
      /\ TokensToAdd * (m - emptiedAt) \in Int
  BY Products
<1> QED BY <1>1, <1>2, <1>3 DEF Earned

LEMMA EarnedRefill ==
  ASSUME NEW t \in Int, NEW l \in Int, NEW k \in Nat, emptiedAt \in Int,
         Earned(t, l)
  PROVE  Earned(t + k * TokensToAdd, l + k * Interval)
<1> DEFINE d == k * TokensToAdd
           w == k * Interval
           x == l - emptiedAt
<1>1. x \in Int /\ d \in Int /\ w \in Int
  BY Products
<1>2. (t + d) * Interval = t * Interval + d * Interval
  BY <1>1, Products
<1>3. TokensToAdd * (x + w) = TokensToAdd * x + TokensToAdd * w
  BY <1>1, Products
<1>4. d * Interval = TokensToAdd * w
  OBVIOUS
<1>5. t * Interval <= TokensToAdd * x
  BY DEF Earned
<1>6. /\ t * Interval \in Int /\ d * Interval \in Int
      /\ TokensToAdd * x \in Int
  BY <1>1, Products
<1>7. l + w - emptiedAt = x + w
  BY <1>1
<1> HIDE DEF x, d, w
<1>8. (t + d) * Interval <= TokensToAdd * (x + w)
  BY <1>2, <1>3, <1>4, <1>5, <1>6
<1> QED BY <1>7, <1>8 DEF Earned, d, w

\* A bucket with no higher balance, and no new mark that speaks of it.
LEMMA OnlyRefillKept ==
  ASSUME NEW t \in Nat, NEW e \in Nat, emptiedAt \in Int,
         NEW b \in BucketType(t, e), NEW c \in BucketType(t, e),
         NEW m \in [Attempts -> MarkType(e)], NEW n \in [Attempts -> MarkType(e)],
         c.lastUpdate = b.lastUpdate, c.tokens <= b.tokens,
         \A a \in Attempts : SpeaksOf(n[a], c) =>
             SpeaksOf(m[a], b) /\ n[a].claimed = m[a].claimed,
         OnlyRefill(b, m)
  PROVE  OnlyRefill(c, n)
<1>1. b.tokens \in Int /\ c.tokens \in Int /\ b.lastUpdate \in Int
  BY DEF BucketType
<1>2. Earned(c.tokens, c.lastUpdate)
  BY <1>1, EarnedKept DEF OnlyRefill
<1>3. PICK from : Stretches(b, m, from)
  BY DEF OnlyRefill
<1>4. Stretches(c, n, from)
  <2>1. from \in [Attempts -> Int]
    BY <1>3 DEF Stretches
  <2>2. ASSUME NEW a \in Attempts, SpeaksOf(n[a], c)
        PROVE  /\ c.tokens <= from[a]
               /\ Earned(from[a] + n[a].claimed, c.lastUpdate)
    <3>1. b.tokens <= from[a] /\ Earned(from[a] + m[a].claimed, b.lastUpdate)
      BY <1>3, <2>2 DEF Stretches
    <3> QED BY <1>1, <2>1, <2>2, <3>1
  <2>3. ASSUME NEW a \in Attempts, NEW x \in Attempts,
               SpeaksOf(n[a], c), SpeaksOf(n[x], c), a # x
        PROVE  \/ from[a] + n[a].claimed <= from[x]
               \/ from[x] + n[x].claimed <= from[a]
    BY <1>3, <2>3 DEF Stretches
  <2> QED BY <2>1, <2>2, <2>3 DEF Stretches
<1>5. \E f : Stretches(c, n, f)
  BY <1>4
<1> QED BY <1>2, <1>5 DEF OnlyRefill

\* A refill raises the balance and every stretch alike.
LEMMA RefilledOnly ==
  ASSUME NEW t \in Nat, NEW e \in Nat, emptiedAt \in Int,
         NEW b \in BucketType(t, e), NEW m \in [Attempts -> MarkType(e)],
         OnlyRefill(b, m)
  PROVE  OnlyRefill(Refilled(b, t), m)
<1> DEFINE c == Refilled(b, t)
           k == (t - b.lastUpdate) \div Interval
           d == k * TokensToAdd
<1>1. /\ c \in BucketType(t, e)
      /\ c.live = b.live /\ c.epoch = b.epoch /\ c.generation = b.generation
      /\ k \in Nat /\ c.tokens <= b.tokens + d
      /\ c.lastUpdate = b.lastUpdate + k * Interval
      /\ c.lastUpdate >= b.lastUpdate
  BY RefilledFacts
<1> HIDE DEF c, k
<1>2. /\ b.tokens \in Int /\ c.tokens \in Int /\ b.lastUpdate \in Int
      /\ c.lastUpdate \in Int /\ d \in Int /\ k * Interval \in Int
      /\ b.tokens + d \in Int
  BY <1>1, Products DEF BucketType
<1>3. ASSUME NEW u \in Int, Earned(u, b.lastUpdate)
      PROVE  Earned(u + d, c.lastUpdate)
  BY <1>1, <1>2, <1>3, EarnedRefill
<1> HIDE DEF d
<1>4. Earned(c.tokens, c.lastUpdate)
  <2>1. Earned(b.tokens + d, c.lastUpdate)
    BY <1>2, <1>3 DEF OnlyRefill
  <2> QED BY <1>1, <1>2, <2>1, EarnedKept
<1>5. PICK from : Stretches(b, m, from)
  BY DEF OnlyRefill
<1> DEFINE up == [a \in Attempts |-> from[a] + d]
<1>6. \A a \in Attempts : SpeaksOf(m[a], c) <=> SpeaksOf(m[a], b)
  BY <1>1 DEF SpeaksOf
<1>7. from \in [Attempts -> Int] /\ up \in [Attempts -> Int]
  BY <1>2, <1>5 DEF Stretches
<1>8. ASSUME NEW a \in Attempts, SpeaksOf(m[a], c)
      PROVE  c.tokens <= up[a] /\ Earned(up[a] + m[a].claimed, c.lastUpdate)
  <2>1. b.tokens <= from[a] /\ Earned(from[a] + m[a].claimed, b.lastUpdate)
    BY <1>5, <1>6, <1>8 DEF Stretches
  <2>2. from[a] \in Int /\ m[a].claimed \in Int
    BY <1>7 DEF MarkType
  <2>3. Earned(from[a] + m[a].claimed + d, c.lastUpdate)
    BY <1>3, <2>1, <2>2
  <2>4. from[a] + m[a].claimed + d = up[a] + m[a].claimed
    BY <1>2, <2>2
  <2> QED BY <1>1, <1>2, <2>1, <2>2, <2>3, <2>4
<1>9. ASSUME NEW a \in Attempts, NEW x \in Attempts,
             SpeaksOf(m[a], c), SpeaksOf(m[x], c), a # x
      PROVE  \/ up[a] + m[a].claimed <= up[x]
             \/ up[x] + m[x].claimed <= up[a]
  <2>1. \/ from[a] + m[a].claimed <= from[x]
        \/ from[x] + m[x].claimed <= from[a]
    BY <1>5, <1>6, <1>9 DEF Stretches
  <2>2. /\ from[a] \in Int /\ m[a].claimed \in Int
        /\ from[x] \in Int /\ m[x].claimed \in Int
    BY <1>7 DEF MarkType
  <2> QED BY <1>2, <2>1, <2>2
<1>10. \E f : Stretches(c, m, f)
  <2> HIDE DEF up
  <2>1. Stretches(c, m, up)
    BY <1>7, <1>8, <1>9 DEF Stretches
  <2> QED BY <2>1
<1>11. c.lastUpdate >= emptiedAt
  BY <1>1, <1>2 DEF OnlyRefill
<1> QED BY <1>4, <1>10, <1>11 DEF OnlyRefill, c

LEMMA CurrentOnlyRefill ==
  ASSUME EmptiedInv, Standing
  PROVE  OnlyRefill(Current, marks)
<1>1. /\ TypeOK /\ now \in Nat /\ epochs \in Nat /\ emptiedAt \in Int
      /\ emptiedAt <= now
      /\ bucket \in BucketType(now, epochs)
      /\ marks \in [Attempts -> MarkType(epochs)]
  BY DEF EmptiedInv, Inv, TypeOK
<1>2. CASE bucket.live = TRUE
  <2>1. OnlyRefill(bucket, marks)
    BY <1>2 DEF EmptiedInv
  <2> QED BY <1>1, <1>2, <2>1, RefilledOnly DEF Current
<1>3. CASE bucket.live = FALSE
  <2>1. Earned(MaxTokens, now)
    BY <1>3 DEF EmptiedInv
  <2>2. Fresh.tokens = MaxTokens /\ Fresh.lastUpdate = now
        /\ Fresh.epoch = NoEpoch
    BY DEF Fresh
  <2>3. Stretches(Fresh, marks, [a \in Attempts |-> 0])
    BY <2>2 DEF Stretches, SpeaksOf
  <2> QED BY <1>1, <1>3, <2>1, <2>2, <2>3 DEF Current, OnlyRefill
<1> QED BY <1>1, <1>2, <1>3 DEF BucketType

\* What is written back lives long enough to earn the ceiling.
LEMMA WrittenLifetime ==
  ASSUME TypeOK, NEW e \in Nat, NEW b \in BucketType(now, e)
  PROVE  /\ Lifetime(Written(b)) /\ Written(b) \in BucketType(now, e)
         /\ Written(b).live = b.live /\ Written(b).tokens = b.tokens
         /\ Written(b).lastUpdate = b.lastUpdate
         /\ Written(b).epoch = b.epoch /\ Written(b).generation = b.generation
<1>1. /\ Written(b).live = b.live /\ Written(b).tokens = b.tokens
      /\ Written(b).lastUpdate = b.lastUpdate
      /\ Written(b).epoch = b.epoch /\ Written(b).generation = b.generation
      /\ Written(b).expires = now + BucketTtl
  BY DEF Written, BucketType
<1>2. now \in Nat /\ b.lastUpdate \in 0 .. now
  BY DEF TypeOK, BucketType
<1>3. Lifetime(Written(b))
  BY <1>1, <1>2, RefillTimeEarns DEF Lifetime
<1> QED BY <1>1, <1>3, WrittenType

\* The refilled bucket is the stored one in all that marks speak of.
LEMMA CurrentMarks ==
  ASSUME EmptiedInv
  PROVE  /\ Current.epoch = bucket.epoch
         /\ Current.epoch # NoEpoch => Current.generation = bucket.generation
<1>1. bucket \in BucketType(now, epochs) /\ now \in Nat /\ epochs \in Nat
  BY DEF EmptiedInv, Inv, TypeOK
<1>2. CASE bucket.live = TRUE
  <2>1. /\ Refilled(bucket, now).epoch = bucket.epoch
        /\ Refilled(bucket, now).generation = bucket.generation
    BY <1>1, RefilledFacts
  <2> QED BY <1>2, <2>1 DEF Current
<1>3. CASE bucket.live = FALSE
  BY <1>3 DEF EmptiedInv, Current, Fresh
<1> QED BY <1>1, <1>2, <1>3 DEF BucketType

\* A claim lowers the balance by its own stretch.
LEMMA SpendEmptied ==
  ASSUME EmptiedInv, Inv', NEW a \in Attempts, NEW cost \in Costs,
         NEW actual \in Actuals, Spend(a, cost, actual),
         UNCHANGED <<now, freeze, emptying, resets, emptiedAt>>
  PROVE  EmptiedInv'
<1>0. /\ TypeOK /\ now \in Nat /\ epochs \in Nat /\ cost \in Nat
      /\ emptiedAt \in Int
      /\ marks \in [Attempts -> MarkType(epochs)]
      /\ Current \in BucketType(now, epochs) /\ Current.live = TRUE
      /\ MarksOfThePast
  <2>1. TypeOK /\ MarksOfThePast
    BY DEF EmptiedInv, Inv
  <2>2. Current \in BucketType(now, epochs) /\ Current.live = TRUE
    BY <2>1, CurrentType
  <2> QED BY <2>1, <2>2 DEF TypeOK
<1>1. Standing' <=> Standing
  BY DEF Standing, FreezeEmptiedBucket, FreezeStands
<1>2. /\ epochs' \in Nat /\ marks' \in [Attempts -> MarkType(epochs')]
  BY DEF Inv, TypeOK
<1>3. CASE CoversCost(Current.tokens, cost)
  <2> DEFINE b == Stamped(Current)
             c == [b EXCEPT !.tokens = @ - cost]
             m == MarkOf(b, cost)
  <2>1. /\ bucket' = Written(c) /\ epochs' = AtLeast(epochs, b.epoch)
        /\ marks' = [marks EXCEPT ![a] = m]
    BY <1>3 DEF Spend
  <2>2. /\ \/ b = Current /\ b.epoch # NoEpoch
           \/ b = [Current EXCEPT !.epoch = epochs + 1] /\ Current.epoch = NoEpoch
        /\ b.epoch # NoEpoch /\ epochs <= epochs' /\ b.epoch <= epochs'
    BY <1>0, <2>1 DEF Stamped, BucketType, AtLeast, NoEpoch
  <2>3. /\ b \in BucketType(now, epochs') /\ b.tokens = Current.tokens
        /\ b.lastUpdate = Current.lastUpdate /\ b.live = TRUE
        /\ b.generation = Current.generation
        /\ b.epoch \in {Current.epoch, epochs + 1}
        /\ b.epoch = Current.epoch => b = Current
        /\ b.epoch # Current.epoch => b.epoch = epochs + 1
    BY <1>0, <1>2, <2>2 DEF BucketType, NoEpoch
  <2> HIDE DEF b
  <2>4. /\ c \in BucketType(now, epochs') /\ c.tokens = Current.tokens - cost
        /\ c.lastUpdate = b.lastUpdate /\ c.live = TRUE
        /\ c.generation = b.generation /\ c.epoch = b.epoch
    BY <1>0, <1>3, <2>3 DEF BucketType, CoversCost
  <2>5. /\ m.claimed = cost /\ m.epoch = b.epoch
        /\ m.generation = b.generation
    BY DEF MarkOf
  <2> HIDE DEF c, m
  <2>6. /\ Lifetime(bucket') /\ bucket' \in BucketType(now, epochs')
        /\ bucket'.live = TRUE /\ bucket'.tokens = Current.tokens - cost
        /\ bucket'.lastUpdate = Current.lastUpdate
        /\ bucket'.epoch = b.epoch /\ bucket'.generation = b.generation
    BY <1>0, <1>2, <2>1, <2>3, <2>4, WrittenLifetime
  <2>7. /\ Current.epoch = bucket.epoch
        /\ Current.epoch # NoEpoch => Current.generation = bucket.generation
    BY CurrentMarks
  <2>8. ASSUME NEW x \in Attempts, x # a, marks'[x].epoch = bucket'.epoch
        PROVE  /\ marks'[x] = marks[x] /\ b.epoch = Current.epoch
               /\ marks[x].epoch = Current.epoch
               /\ marks[x].epoch = bucket.epoch
    <3>1. marks'[x] = marks[x] /\ marks[x].epoch \in 0 .. epochs
      BY <1>0, <2>1, <2>8 DEF MarkType
    <3>2. marks[x].epoch # epochs + 1
      BY <1>0, <3>1
    <3> QED BY <2>3, <2>6, <2>7, <2>8, <3>1, <3>2
  <2>9. MarksOfThePast'
    <3>1. SUFFICES ASSUME NEW x \in Attempts, marks'[x].live,
                          marks'[x].epoch # NoEpoch,
                          marks'[x].epoch = bucket'.epoch
                   PROVE  marks'[x].generation <= bucket'.generation
      BY DEF MarksOfThePast
    <3>2. CASE x = a
      <4>1. marks'[x] = m
        BY <1>0, <2>1, <3>2
      <4>2. bucket'.generation \in Nat
        BY <2>6 DEF BucketType
      <4> QED BY <2>5, <2>6, <4>1, <4>2
    <3>3. CASE x # a
      <4>1. /\ marks'[x] = marks[x] /\ marks[x].epoch = bucket.epoch
            /\ marks[x].epoch = Current.epoch
        BY <2>8, <3>1, <3>3
      <4> QED BY <1>0, <2>3, <2>6, <2>7, <3>1, <4>1 DEF MarksOfThePast
    <3> QED BY <3>2, <3>3
  <2>10. ASSUME Standing PROVE OnlyRefill(bucket', marks')
    <3>1. OnlyRefill(Current, marks)
      BY <2>10, CurrentOnlyRefill
    <3>2. PICK from : Stretches(Current, marks, from)
      BY <3>1 DEF OnlyRefill
    <3> DEFINE cut == [from EXCEPT ![a] = Current.tokens - cost]
    <3>3. /\ Current.tokens \in Int /\ Current.lastUpdate \in Int
          /\ Current.tokens - cost <= Current.tokens
      BY <1>0 DEF BucketType
    <3>4. cut \in [Attempts -> Int] /\ from \in [Attempts -> Int]
          /\ cut[a] = Current.tokens - cost
          /\ \A x \in Attempts : x # a => cut[x] = from[x]
      BY <3>2, <3>3, <1>0 DEF Stretches
    <3>5. Earned(Current.tokens, Current.lastUpdate)
      BY <3>1 DEF OnlyRefill
    <3>6. ASSUME NEW x \in Attempts, x # a, SpeaksOf(marks'[x], bucket')
          PROVE  /\ marks'[x] = marks[x] /\ SpeaksOf(marks[x], Current)
                 /\ marks[x].claimed \in Int
      <4>1. /\ marks'[x] = marks[x] /\ b.epoch = Current.epoch
        BY <2>8, <3>6 DEF SpeaksOf
      <4>2. marks[x].claimed \in Int
        BY <1>0 DEF MarkType
      <4> QED BY <2>3, <2>6, <3>6, <4>1, <4>2 DEF SpeaksOf
    <3>7. marks'[a] = m
      BY <1>0, <2>1
    <3> HIDE DEF cut
    <3>8. ASSUME NEW x \in Attempts, SpeaksOf(marks'[x], bucket')
          PROVE  /\ bucket'.tokens <= cut[x]
                 /\ Earned(cut[x] + marks'[x].claimed, bucket'.lastUpdate)
      <4>1. CASE x = a
        <5>1. cut[x] + marks'[x].claimed = Current.tokens
          BY <1>0, <2>5, <3>3, <3>4, <3>7, <4>1
        <5> QED BY <1>0, <2>6, <3>3, <3>4, <3>5, <4>1, <5>1
      <4>2. CASE x # a
        <5>1. marks'[x] = marks[x] /\ SpeaksOf(marks[x], Current)
          BY <3>6, <3>8, <4>2
        <5>2. /\ Current.tokens <= from[x]
              /\ Earned(from[x] + marks[x].claimed, Current.lastUpdate)
          BY <3>2, <5>1 DEF Stretches
        <5>3. from[x] \in Int /\ cut[x] = from[x]
          BY <3>4, <4>2
        <5> QED BY <1>0, <2>6, <3>3, <5>1, <5>2, <5>3
      <4> QED BY <4>1, <4>2
    <3>9. ASSUME NEW x \in Attempts, x # a, SpeaksOf(marks'[x], bucket')
          PROVE  cut[a] + marks'[a].claimed <= cut[x]
      <4>1. Current.tokens <= from[x]
        BY <3>2, <3>6, <3>9 DEF Stretches
      <4> QED BY <1>0, <2>5, <3>3, <3>4, <3>7, <3>9, <4>1
    <3>10. ASSUME NEW x \in Attempts, NEW y \in Attempts, x # y,
                  SpeaksOf(marks'[x], bucket'), SpeaksOf(marks'[y], bucket')
           PROVE  \/ cut[x] + marks'[x].claimed <= cut[y]
                  \/ cut[y] + marks'[y].claimed <= cut[x]
      <4>1. CASE x = a
        BY <3>9, <3>10, <4>1
      <4>2. CASE y = a
        BY <3>9, <3>10, <4>2
      <4>3. CASE x # a /\ y # a
        BY <3>2, <3>4, <3>6, <3>10, <4>3 DEF Stretches
      <4> QED BY <4>1, <4>2, <4>3
    <3>11. Stretches(bucket', marks', cut)
      BY <3>4, <3>8, <3>10 DEF Stretches
    <3>12. Earned(bucket'.tokens, bucket'.lastUpdate)
      BY <1>0, <2>6, <3>3, <3>5, EarnedKept
    <3>13. bucket'.lastUpdate >= emptiedAt
      BY <2>6, <3>1 DEF OnlyRefill
    <3> QED BY <3>11, <3>12, <3>13 DEF OnlyRefill
  <2>11. ASSUME Standing PROVE OnlyRefill(bucket, marks)'
    BY <2>10, <2>11 DEF OnlyRefill, Earned, Stretches
  <2> QED BY <1>1, <2>6, <2>9, <2>11 DEF EmptiedInv
<1>4. CASE ~CoversCost(Current.tokens, cost)
  <2>1. bucket' = Written(Current) /\ UNCHANGED <<marks, epochs>>
    BY <1>4 DEF Spend
  <2>2. /\ Lifetime(bucket') /\ bucket' \in BucketType(now, epochs)
        /\ bucket'.live = TRUE /\ bucket'.tokens = Current.tokens
        /\ bucket'.lastUpdate = Current.lastUpdate
        /\ bucket'.epoch = Current.epoch
        /\ bucket'.generation = Current.generation
    BY <1>0, <2>1, WrittenLifetime
  <2>3. MarksOfThePast'
    BY <1>0, <2>1, <2>2, CurrentMarks DEF MarksOfThePast
  <2>4. ASSUME Standing PROVE OnlyRefill(bucket', marks)
    <3>1. OnlyRefill(Current, marks)
      BY <2>4, CurrentOnlyRefill
    <3>2. Current.tokens \in Int
      BY <1>0 DEF BucketType
    <3> QED BY <1>0, <2>2, <3>1, <3>2, OnlyRefillKept DEF SpeaksOf
  <2>5. ASSUME Standing PROVE OnlyRefill(bucket, marks)'
    BY <2>1, <2>4, <2>5 DEF OnlyRefill, Earned, Stretches
  <2> QED BY <1>1, <2>2, <2>3, <2>5 DEF EmptiedInv
<1> QED BY <1>3, <1>4

\* A settlement closes its claim's stretch: what it credits is within it.
LEMMA CreditWithin ==
  ASSUME NEW t \in Nat, NEW e \in Nat, emptiedAt \in Int,
         NEW b \in BucketType(t, e), NEW c \in BucketType(t, e),
         NEW m \in [Attempts -> MarkType(e)], NEW n \in [Attempts -> MarkType(e)],
         NEW a \in Attempts, SpeaksOf(m[a], b), ~n[a].live,
         \A x \in Attempts : x # a => n[x] = m[x],
         c.lastUpdate = b.lastUpdate, c.epoch = b.epoch,
         c.generation = b.generation, c.tokens <= b.tokens + m[a].claimed,
         OnlyRefill(b, m)
  PROVE  OnlyRefill(c, n)
<1>1. /\ b.tokens \in Int /\ c.tokens \in Int /\ b.lastUpdate \in Int
      /\ \A x \in Attempts : m[x].claimed \in Nat
  BY DEF BucketType, MarkType
<1>2. PICK from : Stretches(b, m, from)
  BY DEF OnlyRefill
<1> DEFINE cl == m[a].claimed
           below(x) == from[x] + m[x].claimed <= from[a]
           up == [x \in Attempts |-> IF below(x) THEN from[x] + cl ELSE from[x]]
<1>3. /\ from \in [Attempts -> Int] /\ up \in [Attempts -> Int] /\ cl \in Nat
  BY <1>1, <1>2 DEF Stretches
<1>4. /\ b.tokens <= from[a] /\ Earned(from[a] + cl, b.lastUpdate)
      /\ from[a] \in Int /\ from[a] + cl \in Int
  BY <1>1, <1>2, <1>3 DEF Stretches
<1>5. Earned(c.tokens, c.lastUpdate)
  <2>1. c.tokens <= from[a] + cl
    BY <1>1, <1>3, <1>4
  <2> QED BY <1>1, <1>4, <2>1, EarnedKept
<1>6. ASSUME NEW x \in Attempts, SpeaksOf(n[x], c)
      PROVE  /\ x # a /\ n[x] = m[x] /\ SpeaksOf(m[x], b)
             /\ b.tokens <= from[x]
             /\ Earned(from[x] + m[x].claimed, b.lastUpdate)
             /\ below(x) \/ from[a] + cl <= from[x]
             /\ from[x] \in Int /\ m[x].claimed \in Nat
  <2>1. x # a
    BY <1>6 DEF SpeaksOf
  <2>2. n[x] = m[x] /\ SpeaksOf(m[x], b)
    BY <1>6, <2>1 DEF SpeaksOf
  <2> QED BY <1>1, <1>2, <1>3, <2>1, <2>2 DEF Stretches
<1>7. ASSUME NEW x \in Attempts, SpeaksOf(n[x], c)
      PROVE  c.tokens <= up[x] /\ Earned(up[x] + n[x].claimed, c.lastUpdate)
  <2>1. CASE below(x)
    <3>1. up[x] = from[x] + cl /\ up[x] + n[x].claimed <= from[a] + cl
          /\ up[x] + n[x].claimed \in Int
      BY <1>3, <1>4, <1>6, <1>7, <2>1
    <3>2. c.tokens <= up[x]
      BY <1>1, <1>3, <1>6, <1>7, <3>1
    <3> QED BY <1>1, <1>4, <3>1, <3>2, EarnedKept
  <2>2. CASE ~below(x)
    <3>1. up[x] = from[x] /\ from[a] + cl <= from[x]
      BY <1>6, <1>7, <2>2
    <3>2. c.tokens <= up[x]
      BY <1>1, <1>3, <1>4, <1>6, <1>7, <3>1
    <3> QED BY <1>6, <1>7, <3>1, <3>2
  <2> QED BY <2>1, <2>2
<1>8. ASSUME NEW x \in Attempts, NEW y \in Attempts, x # y,
             SpeaksOf(n[x], c), SpeaksOf(n[y], c)
      PROVE  \/ up[x] + n[x].claimed <= up[y]
             \/ up[y] + n[y].claimed <= up[x]
  <2>1. \/ from[x] + m[x].claimed <= from[y]
        \/ from[y] + m[y].claimed <= from[x]
    BY <1>2, <1>6, <1>8 DEF Stretches
  <2>2. /\ n[x] = m[x] /\ n[y] = m[y]
        /\ from[x] \in Int /\ m[x].claimed \in Nat
        /\ from[y] \in Int /\ m[y].claimed \in Nat
        /\ below(x) \/ from[a] + cl <= from[x]
        /\ below(y) \/ from[a] + cl <= from[y]
    BY <1>6, <1>8
  <2>3. /\ up[x] = IF below(x) THEN from[x] + cl ELSE from[x]
        /\ up[y] = IF below(y) THEN from[y] + cl ELSE from[y]
    OBVIOUS
  <2> HIDE DEF up, cl
  <2>4. CASE below(x) /\ below(y)
    BY <1>3, <2>1, <2>2, <2>3, <2>4
  <2>5. CASE below(x) /\ ~below(y)
    BY <1>3, <1>4, <2>2, <2>3, <2>5
  <2>6. CASE ~below(x) /\ below(y)
    BY <1>3, <1>4, <2>2, <2>3, <2>6
  <2>7. CASE ~below(x) /\ ~below(y)
    BY <2>1, <2>2, <2>3, <2>7
  <2> QED BY <2>4, <2>5, <2>6, <2>7
<1> HIDE DEF up
<1>9. Stretches(c, n, up)
  BY <1>3, <1>7, <1>8 DEF Stretches
<1> QED BY <1>5, <1>9 DEF OnlyRefill

LEMMA SettleEmptied ==
  ASSUME EmptiedInv, Inv', NEW a \in Attempts, SettleTokens(a)
  PROVE  EmptiedInv'
<1> DEFINE mark == marks[a]
           b == Current
           s == SettleAmount(b, mark, attempt[a].actual)
           c == [b EXCEPT !.tokens = @ - s.applied, !.forgiven = s.forgiven]
<1>0. /\ TypeOK /\ now \in Nat /\ epochs \in Nat /\ emptiedAt \in Int
      /\ marks \in [Attempts -> MarkType(epochs)] /\ mark \in MarkType(epochs)
      /\ b \in BucketType(now, epochs) /\ b.live = TRUE
      /\ MarksOfThePast /\ attempt[a].actual \in Nat
  <2>1. TypeOK /\ MarksOfThePast
    BY DEF EmptiedInv, Inv
  <2>2. b \in BucketType(now, epochs) /\ b.live = TRUE
    BY <2>1, CurrentType
  <2> QED BY <2>1, <2>2 DEF TypeOK, AttemptType
<1>1. /\ Standing' <=> Standing
      /\ UNCHANGED <<now, epochs, emptiedAt>>
      /\ marks' = [marks EXCEPT ![a] = NoMark]
  BY DEF Standing, FreezeEmptiedBucket, FreezeStands, SettleTokens
<1>2. /\ marks'[a] = NoMark /\ ~marks'[a].live
      /\ \A x \in Attempts : x # a => marks'[x] = marks[x]
      /\ marks' \in [Attempts -> MarkType(epochs)]
  BY <1>0, <1>1 DEF NoMark, Inv, TypeOK
<1>3. CASE mark.live /\ bucket.live
  <2>1. bucket' = Written(c)
    BY <1>3 DEF SettleTokens
  <2>2. /\ s.applied \in Int /\ s.forgiven \in Nat
        /\ b.tokens - s.applied \in -MaxDebt .. MaxTokens
        /\ s.applied >= 0 \/ s.applied >= attempt[a].actual - mark.claimed
    <3> DEFINE delta == attempt[a].actual - mark.claimed
    <3>1. /\ s.applied \in Int /\ s.forgiven \in Nat
          /\ b.tokens - s.applied \in -MaxDebt .. MaxTokens
          /\ delta >= 0 => 0 <= s.applied /\ s.applied <= delta
          /\ delta <= 0 => delta <= s.applied /\ s.applied <= 0
      BY <1>0, SettleFacts
    <3>2. delta \in Int
      BY <1>0 DEF MarkType
    <3> HIDE DEF b, s, mark
    <3> QED BY <3>1, <3>2
  <2>3. s.applied = 0 \/ SameBucket(b, mark)
    BY DEF SettleAmount
  <2> HIDE DEF b, s
  <2>4. /\ c \in BucketType(now, epochs) /\ c.tokens = b.tokens - s.applied
        /\ c.lastUpdate = b.lastUpdate /\ c.live = TRUE
        /\ c.epoch = b.epoch /\ c.generation = b.generation
    BY <1>0, <2>2 DEF BucketType
  <2> HIDE DEF c
  <2>5. /\ Lifetime(bucket') /\ bucket' \in BucketType(now, epochs)
        /\ bucket'.live = TRUE /\ bucket'.tokens = b.tokens - s.applied
        /\ bucket'.lastUpdate = b.lastUpdate
        /\ bucket'.epoch = b.epoch /\ bucket'.generation = b.generation
    BY <1>0, <2>1, <2>4, WrittenLifetime
  <2>6. MarksOfThePast'
    <3>1. /\ b.epoch = bucket.epoch
          /\ b.epoch # NoEpoch => b.generation = bucket.generation
      BY CurrentMarks DEF b
    <3> QED BY <1>0, <1>2, <2>5, <3>1 DEF MarksOfThePast
  <2>7. ASSUME Standing PROVE OnlyRefill(bucket', marks')
    <3>1. OnlyRefill(b, marks)
      BY <2>7, CurrentOnlyRefill DEF b
    <3>2. b.tokens \in Int /\ mark.claimed \in Nat
      BY <1>0 DEF BucketType, MarkType
    <3>3. CASE s.applied >= 0
      <4>1. bucket'.tokens <= b.tokens
        BY <2>2, <2>5, <3>2, <3>3
      <4>2. \A x \in Attempts : SpeaksOf(marks'[x], bucket') =>
               SpeaksOf(marks[x], b) /\ marks'[x].claimed = marks[x].claimed
        BY <1>2, <2>5 DEF SpeaksOf
      <4> QED BY <1>0, <1>2, <2>5, <3>1, <4>1, <4>2, OnlyRefillKept
    <3>4. CASE ~(s.applied >= 0)
      <4>1. SpeaksOf(mark, b)
        BY <1>3, <2>2, <2>3, <3>4 DEF SameBucket, SpeaksOf, NoEpoch
      <4>2. bucket'.tokens <= b.tokens + mark.claimed
        BY <1>0, <2>2, <2>5, <3>2, <3>4
      <4> QED BY <1>0, <1>2, <2>5, <3>1, <4>1, <4>2, CreditWithin
    <3> QED BY <3>3, <3>4
  <2>8. ASSUME Standing PROVE OnlyRefill(bucket, marks)'
    BY <1>1, <2>7, <2>8 DEF OnlyRefill, Earned, Stretches
  <2> QED BY <1>1, <2>5, <2>6, <2>8 DEF EmptiedInv
<1>4. CASE ~(mark.live /\ bucket.live)
  <2>1. UNCHANGED bucket
    BY <1>4 DEF SettleTokens
  <2>2. MarksOfThePast'
    BY <1>0, <1>2, <2>1 DEF MarksOfThePast
  <2>3. ASSUME Standing, bucket.live PROVE OnlyRefill(bucket, marks')
    <3>1. OnlyRefill(bucket, marks)
      BY <2>3 DEF EmptiedInv
    <3>2. \A x \in Attempts : SpeaksOf(marks'[x], bucket) =>
             SpeaksOf(marks[x], bucket) /\ marks'[x].claimed = marks[x].claimed
      BY <1>2 DEF SpeaksOf
    <3>3. bucket \in BucketType(now, epochs) /\ bucket.tokens \in Int
      BY <1>0 DEF TypeOK, BucketType
    <3> QED BY <1>0, <1>2, <3>1, <3>2, <3>3, OnlyRefillKept
  <2>4. ASSUME Standing, bucket.live PROVE OnlyRefill(bucket, marks)'
    BY <1>1, <2>1, <2>3, <2>4 DEF OnlyRefill, Earned, Stretches
  <2> QED BY <1>1, <2>1, <2>2, <2>4 DEF EmptiedInv, Lifetime, Earned
<1> QED BY <1>3, <1>4

\* The emptying: nothing is left, and no mark speaks of the bucket any more.
LEMMA EmptyEmptied ==
  ASSUME EmptiedInv, Inv', EmptyTokenBucket
  PROVE  EmptiedInv'
<1> DEFINE b == IF bucket.live THEN bucket ELSE [Fresh EXCEPT !.tokens = 0]
           c == [b EXCEPT !.tokens = AtMost(@, 0), !.lastUpdate = now,
                          !.generation = @ + 1]
<1>1. /\ TypeOK /\ now \in Nat /\ epochs \in Nat
      /\ bucket \in BucketType(now, epochs) /\ MarksOfThePast
      /\ marks \in [Attempts -> MarkType(epochs)]
  BY DEF EmptiedInv, Inv, TypeOK
<1>2. /\ b \in BucketType(now, epochs) /\ b.live = TRUE
      /\ b.epoch = bucket.epoch
      /\ b.epoch # NoEpoch => b.generation = bucket.generation
  <2>1. CASE bucket.live = TRUE
    BY <1>1, <2>1
  <2>2. CASE bucket.live = FALSE
    <3>1. Fresh \in BucketType(now, epochs)
      BY <1>1, FreshType
    <3>2. b = [Fresh EXCEPT !.tokens = 0] /\ bucket.epoch = NoEpoch
      BY <2>2 DEF EmptiedInv
    <3>3. Fresh.live = TRUE /\ Fresh.epoch = NoEpoch
      BY DEF Fresh
    <3> QED BY <3>1, <3>2, <3>3 DEF BucketType
  <2> QED BY <1>1, <2>1, <2>2 DEF BucketType
<1>3. /\ bucket' = Written(c) /\ emptiedAt' = now
      /\ UNCHANGED <<now, marks, epochs>>
  BY DEF EmptyTokenBucket
<1> HIDE DEF b
<1>4. /\ c \in BucketType(now, epochs) /\ c.live = TRUE /\ c.tokens <= 0
      /\ c.lastUpdate = now /\ c.generation = b.generation + 1
      /\ c.epoch = b.epoch
  <2> DEFINE low == AtMost(b.tokens, 0)
  <2>1. low \in -MaxDebt .. MaxTokens /\ low <= 0
    BY <1>2 DEF BucketType, AtMost
  <2>2. c = [b EXCEPT !.tokens = low, !.lastUpdate = now, !.generation = @ + 1]
    OBVIOUS
  <2> HIDE DEF low, c
  <2>3. b.generation + 1 \in Nat /\ now \in 0 .. now
    BY <1>1, <1>2 DEF BucketType
  <2>4. c \in BucketType(now, epochs)
    BY <1>2, <2>1, <2>2, <2>3 DEF BucketType
  <2>5. /\ c.live = b.live /\ c.tokens = low /\ c.lastUpdate = now
        /\ c.generation = b.generation + 1 /\ c.epoch = b.epoch
    BY <1>2, <2>2 DEF BucketType
  <2> QED BY <1>2, <2>1, <2>4, <2>5
<1> HIDE DEF c
<1>5. /\ Lifetime(bucket') /\ bucket' \in BucketType(now, epochs)
      /\ bucket'.live = TRUE /\ bucket'.tokens <= 0
      /\ bucket'.lastUpdate = now
      /\ bucket'.epoch = bucket.epoch
      /\ bucket'.generation = b.generation + 1
  BY <1>1, <1>2, <1>3, <1>4, WrittenLifetime
<1>6. b.generation \in Nat /\ bucket.generation \in Nat
      /\ \A x \in Attempts : marks[x].generation \in Nat
  BY <1>1, <1>2 DEF BucketType, MarkType
<1>7. ASSUME NEW x \in Attempts, marks[x].live, marks[x].epoch # NoEpoch,
             marks[x].epoch = bucket'.epoch
      PROVE  marks[x].generation < bucket'.generation
  <2>1. marks[x].generation <= b.generation
    BY <1>1, <1>2, <1>5, <1>7 DEF MarksOfThePast
  <2> QED BY <1>5, <1>6, <2>1
<1>8. MarksOfThePast'
  BY <1>3, <1>5, <1>6, <1>7 DEF MarksOfThePast
<1>9. OnlyRefill(bucket, marks)'
  <2>1. \A x \in Attempts : ~SpeaksOf(marks[x], bucket')
    BY <1>5, <1>6, <1>7 DEF SpeaksOf
  <2>2. Stretches(bucket, marks, [x \in Attempts |-> 0])'
    BY <1>3, <2>1 DEF Stretches
  <2>3. Earned(bucket.tokens, bucket.lastUpdate)'
    <3>1. now - now = 0 /\ TokensToAdd * 0 = 0 /\ bucket'.tokens \in Int
      BY <1>1, <1>5 DEF BucketType
    <3>2. bucket'.tokens * Interval <= 0 * Interval /\ 0 * Interval = 0
      BY <1>5, <3>1, Products
    <3> QED BY <1>3, <1>5, <3>1, <3>2 DEF Earned
  <2>4. (bucket.lastUpdate >= emptiedAt)'
    BY <1>1, <1>3, <1>5
  <2> QED BY <2>2, <2>3, <2>4 DEF OnlyRefill
<1> QED BY <1>5, <1>8, <1>9 DEF EmptiedInv

LEMMA ResetEmptied ==
  ASSUME EmptiedInv, Inv', ResetTokenBucket
  PROVE  EmptiedInv'
<1> DEFINE b == IF bucket.live THEN bucket ELSE Fresh
           c == [b EXCEPT !.tokens = MaxTokens, !.lastUpdate = now,
                          !.generation = @ + 1, !.expires = now + BaseTtl]
<1>1. /\ TypeOK /\ now \in Nat /\ epochs \in Nat
      /\ bucket \in BucketType(now, epochs) /\ MarksOfThePast
      /\ marks \in [Attempts -> MarkType(epochs)]
  BY DEF EmptiedInv, Inv, TypeOK
<1>2. /\ b \in BucketType(now, epochs) /\ b.live = TRUE
      /\ b.epoch = bucket.epoch
      /\ b.epoch # NoEpoch => b.generation = bucket.generation
  <2>1. CASE bucket.live = TRUE
    BY <1>1, <2>1
  <2>2. CASE bucket.live = FALSE
    <3>1. Fresh \in BucketType(now, epochs)
      BY <1>1, FreshType
    <3>2. b = Fresh /\ bucket.epoch = NoEpoch
      BY <2>2 DEF EmptiedInv
    <3>3. Fresh.live = TRUE /\ Fresh.epoch = NoEpoch
      BY DEF Fresh
    <3> QED BY <3>1, <3>2, <3>3
  <2> QED BY <1>1, <2>1, <2>2 DEF BucketType
<1>3. /\ bucket' = c /\ emptiedAt' = Never /\ UNCHANGED <<now, marks, epochs>>
  BY DEF ResetTokenBucket
<1> HIDE DEF b
<1>4. /\ c.live = TRUE /\ c.tokens = MaxTokens /\ c.epoch = bucket.epoch
      /\ c.generation = b.generation + 1
  BY <1>2 DEF BucketType
<1> HIDE DEF c
<1>5. b.generation \in Nat /\ \A x \in Attempts : marks[x].generation \in Nat
  BY <1>1, <1>2 DEF BucketType, MarkType
<1>6. MarksOfThePast'
  BY <1>1, <1>2, <1>3, <1>4, <1>5 DEF MarksOfThePast
<1>7. ~Standing'
  BY <1>3 DEF Standing
<1> QED BY <1>3, <1>4, <1>6, <1>7 DEF EmptiedInv, Lifetime

\* A key that expires under the freeze has had the time to earn the ceiling.
LEMMA TickEmptied ==
  ASSUME EmptiedInv, Inv', Tick
  PROVE  EmptiedInv'
<1>1. /\ TypeOK /\ now \in Nat /\ epochs \in Nat /\ emptiedAt \in Int
      /\ bucket \in BucketType(now, epochs) /\ MarksOfThePast
      /\ marks \in [Attempts -> MarkType(epochs)]
  BY DEF EmptiedInv, Inv, TypeOK
<1>2. /\ now' = now + 1 /\ UNCHANGED <<epochs, freeze, emptying, emptiedAt>>
      /\ bucket' = IF bucket.live /\ bucket.expires <= now + 1 THEN Gone
                   ELSE bucket
      /\ \A x \in Attempts : marks'[x] \in {marks[x], NoMark}
      /\ marks' \in [Attempts -> MarkType(epochs)]
  BY DEF Tick, Inv, TypeOK
<1>3. Standing' => Standing
  BY <1>1, <1>2 DEF Standing, FreezeEmptiedBucket, FreezeStands, TypeOK,
     FreezeType
<1>4. \A x \in Attempts : ~NoMark.live /\ (marks'[x].live => marks'[x] = marks[x])
  BY <1>2 DEF NoMark
<1>5. CASE bucket' = bucket
  <2>1. MarksOfThePast'
    BY <1>1, <1>4, <1>5 DEF MarksOfThePast
  <2>2. ASSUME Standing, bucket.live PROVE OnlyRefill(bucket, marks')
    <3>1. OnlyRefill(bucket, marks)
      BY <2>2 DEF EmptiedInv
    <3>2. \A x \in Attempts : SpeaksOf(marks'[x], bucket) =>
             SpeaksOf(marks[x], bucket) /\ marks'[x].claimed = marks[x].claimed
      BY <1>4 DEF SpeaksOf
    <3>3. bucket.tokens \in Int
      BY <1>1 DEF BucketType
    <3> QED BY <1>1, <1>2, <3>1, <3>2, <3>3, OnlyRefillKept
  <2>3. ASSUME Standing, bucket.live PROVE OnlyRefill(bucket, marks)'
    BY <1>2, <1>5, <2>2, <2>3 DEF OnlyRefill, Earned, Stretches
  <2>4. ASSUME Standing, ~bucket.live PROVE Earned(MaxTokens, now)'
    <3>1. Earned(MaxTokens, now)
      BY <2>4 DEF EmptiedInv
    <3>2. Earned(MaxTokens, now + 1)
      BY <1>1, <3>1, EarnedKept
    <3> QED BY <1>2, <3>2 DEF Earned
  <2> QED BY <1>3, <1>5, <2>1, <2>3, <2>4 DEF EmptiedInv, Lifetime
<1>6. CASE bucket.live /\ bucket.expires <= now + 1 /\ bucket' = Gone
  <2>1. ~bucket'.live /\ bucket'.epoch = NoEpoch
    BY <1>6 DEF Gone
  <2>2. MarksOfThePast'
    BY <2>1 DEF MarksOfThePast
  <2>3. ASSUME Standing PROVE Earned(MaxTokens, now)'
    <3>1. OnlyRefill(bucket, marks) /\ Lifetime(bucket)
      BY <1>6, <2>3 DEF EmptiedInv
    <3>2. /\ bucket.tokens \in Int /\ bucket.lastUpdate \in 0 .. now
          /\ bucket.expires \in Nat /\ bucket.lastUpdate >= emptiedAt
          /\ Earned(bucket.tokens, bucket.lastUpdate)
      BY <1>1, <3>1 DEF BucketType, OnlyRefill
    <3>3. Earned(MaxTokens, now + 1)
      <4>1. CASE bucket.tokens = MaxTokens
        BY <1>1, <3>2, <4>1, EarnedKept
      <4>2. CASE bucket.expires >= bucket.lastUpdate + RefillTime
        <5>1. RefillTime <= now + 1 - emptiedAt /\ now + 1 - emptiedAt \in Int
          BY <1>1, <1>6, <3>2, <4>2, RefillTimeEarns
        <5>2. TokensToAdd * RefillTime <= TokensToAdd * (now + 1 - emptiedAt)
          BY <5>1, Products, RefillTimeEarns
        <5>3. /\ TokensToAdd * RefillTime \in Int
              /\ TokensToAdd * (now + 1 - emptiedAt) \in Int
              /\ MaxTokens * Interval \in Int
          BY <5>1, Products, RefillTimeEarns
        <5>4. MaxTokens * Interval <= TokensToAdd * RefillTime
          BY RefillTimeEarns
        <5>5. MaxTokens * Interval <= TokensToAdd * (now + 1 - emptiedAt)
          BY <5>2, <5>3, <5>4
        <5> QED BY <1>1, <5>5 DEF Earned
      <4> QED BY <3>1, <4>1, <4>2 DEF Lifetime
    <3> QED BY <1>2, <3>3 DEF Earned
  <2> QED BY <1>3, <2>1, <2>2, <2>3 DEF EmptiedInv
<1> QED BY <1>2, <1>5, <1>6

\* An operation that leaves the bucket, what marks say and the emptying alone.
LEMMA IdleEmptied ==
  ASSUME EmptiedInv, Inv', UNCHANGED <<now, bucket, emptiedAt>>,
         \A x \in Attempts :
            /\ marks'[x].live = marks[x].live
            /\ marks'[x].epoch = marks[x].epoch
            /\ marks'[x].generation = marks[x].generation
            /\ marks'[x].claimed = marks[x].claimed,
         Standing' => Standing
  PROVE  EmptiedInv'
<1>1. MarksOfThePast'
  BY DEF EmptiedInv, MarksOfThePast
<1>2. ASSUME Standing, bucket.live PROVE OnlyRefill(bucket, marks)'
  <2>1. OnlyRefill(bucket, marks)
    BY <1>2 DEF EmptiedInv
  <2>2. \A x \in Attempts : SpeaksOf(marks'[x], bucket)
                              <=> SpeaksOf(marks[x], bucket)
    BY DEF SpeaksOf
  <2>3. PICK from : Stretches(bucket, marks, from)
    BY <2>1 DEF OnlyRefill
  <2>4. Stretches(bucket, marks', from)
    BY <2>2, <2>3 DEF Stretches
  <2>5. OnlyRefill(bucket, marks')
    BY <2>1, <2>4 DEF OnlyRefill
  <2> QED BY <2>5 DEF OnlyRefill, Earned, Stretches
<1> QED BY <1>1, <1>2 DEF EmptiedInv, Lifetime, Earned

\* A refund raises the balance only when no emptying freeze stands.
LEMMA RefundEmptied ==
  ASSUME EmptiedInv, Inv', NEW a \in Attempts, RefundTokens(a)
  PROVE  EmptiedInv'
<1> DEFINE credited == AtMost(MaxTokens, bucket.tokens + attempt[a].cost)
<1>1. /\ UNCHANGED <<now, marks, epochs, freeze, emptying, emptiedAt>>
      /\ \/ UNCHANGED bucket
         \/ /\ bucket.live /\ ~FreezeEmptiedBucket
            /\ bucket' = [bucket EXCEPT !.tokens = credited]
  BY DEF RefundTokens
<1>2. Standing' => Standing
  BY <1>1 DEF Standing, FreezeEmptiedBucket, FreezeStands
<1>3. CASE UNCHANGED bucket
  BY <1>1, <1>2, <1>3, IdleEmptied
<1>4. CASE /\ bucket.live /\ ~FreezeEmptiedBucket
           /\ bucket' = [bucket EXCEPT !.tokens = credited]
  <2>1. /\ bucket \in BucketType(now, epochs) /\ Lifetime(bucket)
        /\ MarksOfThePast /\ attempt[a].cost \in Nat
    BY <1>4 DEF EmptiedInv, Inv, TypeOK, AttemptType
  <2>2. /\ bucket.tokens <= credited /\ credited <= MaxTokens
        /\ credited \in Int
    BY <2>1 DEF BucketType, AtMost
  <2> HIDE DEF credited
  <2>3. /\ bucket'.live = bucket.live /\ bucket'.tokens = credited
        /\ bucket'.lastUpdate = bucket.lastUpdate
        /\ bucket'.expires = bucket.expires /\ bucket'.epoch = bucket.epoch
        /\ bucket'.generation = bucket.generation
    BY <1>4, <2>1 DEF BucketType
  <2>4. Lifetime(bucket)'
    BY <2>1, <2>2, <2>3 DEF Lifetime, BucketType
  <2>5. MarksOfThePast'
    BY <1>1, <2>1, <2>3 DEF MarksOfThePast
  <2>6. ~Standing'
    BY <1>2, <1>4 DEF Standing
  <2> QED BY <1>4, <2>3, <2>4, <2>5, <2>6 DEF EmptiedInv
<1> QED BY <1>1, <1>3, <1>4

LEMMA NextEmptied ==
  ASSUME EmptiedInv, [Next]_vars
  PROVE  EmptiedInv'
<1>0. TypeOK
  BY DEF EmptiedInv, Inv
<1>1. Inv'
  BY NextInv DEF EmptiedInv
<1>2. ASSUME NEW a \in Attempts, NEW cost \in Costs, NEW actual \in Actuals,
             \/ AcquireTokens(a, cost, actual)
             \/ TryAdmitImmediately(a, cost, actual)
      PROVE  EmptiedInv'
  BY <1>1, <1>2, SpendEmptied DEF AcquireTokens, TryAdmitImmediately
<1>3. ASSUME NEW a \in Attempts, RefundTokens(a) PROVE EmptiedInv'
  BY <1>1, <1>3, RefundEmptied
<1>4. ASSUME NEW a \in Attempts, SettleTokens(a) PROVE EmptiedInv'
  BY <1>1, <1>4, SettleEmptied
<1>5. ASSUME NEW a \in Attempts, TouchClaimMark(a) PROVE EmptiedInv'
  <2>1. /\ UNCHANGED <<now, bucket, emptiedAt, freeze, emptying>>
        /\ marks' = [marks EXCEPT ![a].expires = now + MarkTtl]
    BY <1>5 DEF TouchClaimMark
  <2>2. \A x \in Attempts :
            /\ marks'[x].live = marks[x].live
            /\ marks'[x].epoch = marks[x].epoch
            /\ marks'[x].generation = marks[x].generation
            /\ marks'[x].claimed = marks[x].claimed
    BY <1>0, <2>1 DEF TypeOK, MarkType
  <2>3. Standing' => Standing
    BY <2>1 DEF Standing, FreezeEmptiedBucket, FreezeStands
  <2> QED BY <1>1, <2>1, <2>2, <2>3, IdleEmptied
<1>6. ASSUME NEW empties \in FreezeKinds, ArmFreeze(empties) PROVE EmptiedInv'
  <2>1. UNCHANGED <<now, bucket, emptiedAt, marks>>
    BY <1>6 DEF ArmFreeze
  <2>2. Standing' => Standing
    <3>1. SUFFICES ASSUME Standing' PROVE Standing
      OBVIOUS
    <3>2. empties \in BOOLEAN /\ emptying \in Nat
      BY <1>0 DEF TypeOK
    <3>3. emptying' = 0 /\ emptying' = IF empties THEN emptying + 1 ELSE emptying
      BY <1>6, <3>1 DEF Standing, ArmFreeze
    <3>4. empties = FALSE /\ emptying = 0
      BY <3>2, <3>3
    <3>5. freeze'.empties = (empties \/ FreezeEmptiedBucket) /\ freeze'.empties
      BY <1>6, <3>1 DEF Standing, ArmFreeze, FreezeEmptiedBucket
    <3> QED BY <2>1, <3>1, <3>4, <3>5 DEF Standing
  <2> QED BY <1>1, <2>1, <2>2, IdleEmptied
<1>7. CASE EmptyTokenBucket
  BY <1>1, <1>7, EmptyEmptied
<1>8. CASE ResetTokenBucket
  BY <1>1, <1>8, ResetEmptied
<1>9. CASE Tick
  BY <1>1, <1>9, TickEmptied
<1>10. CASE UNCHANGED vars
  <2>1. Standing' => Standing
    BY <1>10 DEF vars, Standing, FreezeEmptiedBucket, FreezeStands
  <2> QED BY <1>1, <1>10, <2>1, IdleEmptied DEF vars
<1> QED BY <1>2, <1>3, <1>4, <1>5, <1>6, <1>7, <1>8, <1>9, <1>10 DEF Next

LEMMA InitEmptied == Init => EmptiedInv
<1> SUFFICES ASSUME Init PROVE EmptiedInv
  OBVIOUS
<1>1. Inv
  BY InitInv
<1>2. ~bucket.live /\ bucket.epoch = NoEpoch /\ emptiedAt = Never
  BY DEF Init, Gone
<1> QED BY <1>1, <1>2 DEF EmptiedInv, MarksOfThePast, Standing

\* While an emptying freeze stands and its emptying is done, the balance is
\* what refill has added since and no more, for any number of claims before
\* and after it, refunded and settled in any order, a bucket that expires
\* meanwhile and debt included (client/index.ts, handleFreezeRequests;
\* memory.ts, emptyTokenBucket, creditTokens and settleTokens).
THEOREM EmptiedBucketStaysEmptied == Spec => []EmptiedStaysEmptied
<1>1. Init => EmptiedInv
  BY InitEmptied
<1>2. EmptiedInv /\ [Next]_vars => EmptiedInv'
  BY NextEmptied
<1>3. EmptiedInv => EmptiedStaysEmptied
  BY DEF EmptiedInv, EmptiedStaysEmptied, Standing, OnlyRefill, Earned
<1> QED BY <1>1, <1>2, <1>3, PTL DEF Spec

---------------------------------------------------------------------------
(* Against the oracle.  Between the balance and one that charged every     *)
(* actual at its claim lies at most what the open claims will still settle.*)
(* A sum over a set of claims is the number of its units, one for each     *)
(* token of each claim.                                                    *)

Units(S, d)  == UNION {{a} \X (1 .. d[a]) : a \in S}
Weight(S, d) == Cardinality(Units(S, d))

\* What a claim used beyond its reservation, and what it left of it.
Excess == [a \in Attempts |-> attempt[a].actual - attempt[a].cost]
Unused == [a \in Attempts |-> attempt[a].cost - attempt[a].actual]

Open == {a \in Attempts : marks[a].live}

\* The refill a bucket, or the bucket a mark remembers, has discarded and
\* forgiven nobody.
Discarded(b) == b.overflow - b.forgiven

\* The bucket is ahead of the oracle by no more than the open claims that saw
\* more than h discarded owe, less what was discarded beyond h: they are
\* forgiven that much at most.
DebitsOwed(b, s) ==
    \E h \in 0 .. Discarded(b) :
        (b.tokens - s) + (Discarded(b) - h)
            <= Weight({a \in Open : Discarded(marks[a]) >= h}, Excess)

\* The oracle is ahead of the bucket by no more than the open claims that
\* have not seen it fill will hand back.
CreditsDue(b, s) ==
    /\ s <= MaxTokens
    /\ s - b.tokens <= Weight({a \in Open : marks[a].fills = b.fills}, Unused)

\* One life of the bucket: until it is first written it is full, and every
\* mark speaks of it.
OneLife ==
    /\ shadow \in Int
    /\ ~bucket.live => bucket = Gone /\ shadow = MaxTokens
    /\ \A a \in Attempts : marks[a].live =>
          /\ attempt[a].phase = "claimed" /\ marks[a].claimed = attempt[a].cost
          /\ bucket.live /\ SameBucket(bucket, marks[a])

\* No claim has lost its mark: such a claim is never settled.
AllMarked == \A a \in Attempts : attempt[a].phase = "claimed" => marks[a].live

OnlyDebits  == AllMarked /\ \A a \in Made : attempt[a].actual >= attempt[a].cost
OnlyCredits == AllMarked /\ \A a \in Made : attempt[a].actual <= attempt[a].cost

OracleInv ==
    /\ Inv /\ OneLife
    /\ OnlyDebits =>
          IsFiniteSet(Units(Open, Excess)) /\ DebitsOwed(bucket, shadow)
    /\ OnlyCredits =>
          IsFiniteSet(Units(Open, Unused)) /\ CreditsDue(bucket, shadow)

LEMMA UnitsIn ==
  ASSUME NEW S, NEW d, NEW u
  PROVE  u \in Units(S, d) <=> \E a \in S : u \in {a} \X (1 .. d[a])
  BY DEF Units

\* The units are counted only of the claims in the set.
LEMMA UnitsSame ==
  ASSUME NEW S, NEW d, NEW e, \A a \in S : d[a] = e[a]
  PROVE  Units(S, d) = Units(S, e)
<1>1. \A u : u \in Units(S, d) <=> u \in Units(S, e)
  BY UnitsIn
<1> QED BY <1>1

LEMMA UnitsNone ==
  ASSUME NEW d
  PROVE  IsFiniteSet(Units({}, d)) /\ Weight({}, d) = 0
<1>1. Units({}, d) = {}
  BY DEF Units
<1> QED BY <1>1, FS_EmptySet DEF Weight

LEMMA UnitsFewer ==
  ASSUME NEW S, NEW T, NEW d, S \subseteq T, IsFiniteSet(Units(T, d))
  PROVE  /\ IsFiniteSet(Units(S, d)) /\ Weight(S, d) <= Weight(T, d)
         /\ Weight(S, d) \in Nat
<1>1. \A u : u \in Units(S, d) => u \in Units(T, d)
  BY UnitsIn
<1>2. Units(S, d) \in SUBSET Units(T, d)
  BY <1>1
<1>3. IsFiniteSet(Units(S, d)) /\ Weight(S, d) <= Weight(T, d)
  BY <1>2, FS_Subset DEF Weight
<1> QED BY <1>3, FS_CardinalityType DEF Weight

\* One more claim adds what it weighs.
LEMMA UnitsMore ==
  ASSUME NEW S, NEW a, a \notin S, NEW d, d[a] \in Nat, IsFiniteSet(Units(S, d))
  PROVE  /\ IsFiniteSet(Units(S \cup {a}, d))
         /\ Weight(S \cup {a}, d) = Weight(S, d) + d[a]
<1> DEFINE own == {a} \X (1 .. d[a])
<1>1. Units(S \cup {a}, d) = Units(S, d) \cup own
  <2>1. \A u : u \in Units(S \cup {a}, d) <=> u \in Units(S, d) \cup own
    BY UnitsIn
  <2> QED BY <2>1
<1>2. Units(S, d) \cap own = {}
  <2>1. ASSUME NEW u, u \in Units(S, d), u \in own PROVE FALSE
    <3>1. PICK x \in S : u \in {x} \X (1 .. d[x])
      BY <2>1, UnitsIn
    <3>2. u[1] = x
      BY <3>1
    <3>3. u[1] = a
      BY <2>1
    <3> QED BY <3>2, <3>3
  <2> QED BY <2>1
<1>3. IsFiniteSet(own) /\ Cardinality(own) = d[a]
  <2>1. IsFiniteSet({a}) /\ Cardinality({a}) = 1
    BY FS_Singleton
  <2>2. IsFiniteSet(1 .. d[a]) /\ Cardinality(1 .. d[a]) = d[a]
    BY FS_Interval
  <2>3. IsFiniteSet(own) /\ Cardinality(own) = 1 * Cardinality(1 .. d[a])
    BY <2>1, <2>2, FS_Product
  <2> QED BY <2>2, <2>3
<1> HIDE DEF own
<1>4. Cardinality({}) = 0 /\ Cardinality(Units(S, d)) \in Nat
  BY FS_EmptySet, FS_CardinalityType
<1>5. /\ IsFiniteSet(Units(S, d) \cup own)
      /\ Cardinality(Units(S, d) \cup own)
           = Cardinality(Units(S, d)) + Cardinality(own)
               - Cardinality(Units(S, d) \cap own)
  BY <1>3, FS_Union
<1>6. Cardinality(Units(S, d) \cup own) = Cardinality(Units(S, d)) + d[a]
  <2>1. Cardinality(Units(S, d) \cap own) = 0
    BY ONLY <1>2, <1>4, Zenon
  <2> QED BY <1>3, <1>4, <1>5, <2>1
<1>7. /\ IsFiniteSet(Units(S \cup {a}, d))
      /\ Cardinality(Units(S \cup {a}, d)) = Cardinality(Units(S, d)) + d[a]
  BY ONLY <1>1, <1>5, <1>6
<1> QED BY <1>7 DEF Weight

\* One fewer takes it away.
LEMMA UnitsLess ==
  ASSUME NEW S, NEW a \in S, NEW d, d[a] \in Nat, IsFiniteSet(Units(S, d))
  PROVE  /\ IsFiniteSet(Units(S \ {a}, d))
         /\ Weight(S \ {a}, d) = Weight(S, d) - d[a]
<1> DEFINE R == S \ {a}
<1>1. IsFiniteSet(Units(R, d)) /\ Weight(R, d) \in Nat
  BY UnitsFewer
<1>2. Weight(R \cup {a}, d) = Weight(R, d) + d[a]
  BY <1>1, UnitsMore
<1>3. R \cup {a} = S
  OBVIOUS
<1> HIDE DEF R
<1>4. Weight(S, d) = Weight(R, d) + d[a]
  BY <1>2, <1>3
<1>5. Weight(R, d) = Weight(S, d) - d[a]
  BY <1>1, <1>4
<1> QED BY <1>1, <1>5 DEF R

\* What a refill adds, discards and counts.
LEMMA RefilledBy ==
  ASSUME NEW t \in Nat, NEW e \in Nat, NEW b \in BucketType(t, e)
  PROVE  \E r \in Nat :
         /\ r = ((t - b.lastUpdate) \div Interval) * TokensToAdd
         /\ Refilled(b, t).tokens = AtMost(b.tokens + r, MaxTokens)
         /\ Refilled(b, t).overflow
              = b.overflow + AtLeast(0, b.tokens + r - MaxTokens)
         /\ Refilled(b, t).fills
              = IF \/ b.tokens + r > MaxTokens
                   \/ b.tokens < MaxTokens /\ b.tokens + r >= MaxTokens
                THEN b.fills + 1 ELSE b.fills
         /\ Refilled(b, t).forgiven = b.forgiven
         /\ Refilled(b, t).epoch = b.epoch
         /\ Refilled(b, t).generation = b.generation
<1> DEFINE k == (t - b.lastUpdate) \div Interval
           raw == b.tokens + k * TokensToAdd
           r == k * TokensToAdd
           c == Refilled(b, t)
<1>1. c = [b EXCEPT !.tokens = AtMost(raw, MaxTokens),
              !.lastUpdate = @ + k * Interval,
              !.overflow = @ + AtLeast(0, raw - MaxTokens),
              !.fills = IF raw > MaxTokens
                           \/ (b.tokens < MaxTokens /\ raw >= MaxTokens)
                        THEN @ + 1 ELSE @]
  BY DEF Refilled
<1>2. r \in Nat
  BY WholeIntervals DEF BucketType
<1>3. r = ((t - b.lastUpdate) \div Interval) * TokensToAdd /\ raw = b.tokens + r
  OBVIOUS
<1> HIDE DEF k, c, r, raw
<1>4. /\ c.tokens = AtMost(raw, MaxTokens)
      /\ c.overflow = b.overflow + AtLeast(0, raw - MaxTokens)
      /\ c.fills = IF raw > MaxTokens
                       \/ (b.tokens < MaxTokens /\ raw >= MaxTokens)
                   THEN b.fills + 1 ELSE b.fills
      /\ c.forgiven = b.forgiven /\ c.epoch = b.epoch
      /\ c.generation = b.generation
  BY <1>1 DEF BucketType
<1>5. raw = b.tokens + r
  BY <1>3
<1>6. /\ c.tokens = AtMost(b.tokens + r, MaxTokens)
      /\ c.overflow = b.overflow + AtLeast(0, b.tokens + r - MaxTokens)
  <2>1. b.tokens \in Int /\ b.overflow \in Nat
    BY DEF BucketType
  <2> QED BY <1>2, <1>4, <1>5, <2>1 DEF AtMost, AtLeast
<1>7. c.fills = IF \/ b.tokens + r > MaxTokens
                   \/ b.tokens < MaxTokens /\ b.tokens + r >= MaxTokens
                THEN b.fills + 1 ELSE b.fills
  BY ONLY <1>4, <1>5
<1> QED BY ONLY <1>2, <1>3, <1>4, <1>6, <1>7, Zenon DEF c

\* A refill, of the bucket and of the oracle by the same amount.
LEMMA RefillsTogether ==
  ASSUME Inv, OneLife
  PROVE  \E r \in Nat :
           /\ Current.tokens = AtMost(bucket.tokens + r, MaxTokens)
           /\ Current.overflow
                = bucket.overflow + AtLeast(0, bucket.tokens + r - MaxTokens)
           /\ Current.fills
                = IF \/ bucket.tokens + r > MaxTokens
                     \/ /\ bucket.tokens < MaxTokens
                        /\ bucket.tokens + r >= MaxTokens
                  THEN bucket.fills + 1 ELSE bucket.fills
           /\ Current.forgiven = bucket.forgiven
           /\ Current.epoch = bucket.epoch
           /\ Current.generation = bucket.generation
           /\ ShadowNow = AtMost(MaxTokens, shadow + r)
<1>0. /\ bucket \in BucketType(now, epochs) /\ now \in Nat /\ shadow \in Int
      /\ bucket.live \in BOOLEAN /\ epochs \in Nat
  BY DEF Inv, TypeOK, OneLife, BucketType
<1>1. CASE bucket.live
  <2>1. PICK r \in Nat :
         /\ r = ((now - bucket.lastUpdate) \div Interval) * TokensToAdd
         /\ Refilled(bucket, now).tokens = AtMost(bucket.tokens + r, MaxTokens)
         /\ Refilled(bucket, now).overflow
              = bucket.overflow + AtLeast(0, bucket.tokens + r - MaxTokens)
         /\ Refilled(bucket, now).fills
              = IF \/ bucket.tokens + r > MaxTokens
                   \/ bucket.tokens < MaxTokens /\ bucket.tokens + r >= MaxTokens
                THEN bucket.fills + 1 ELSE bucket.fills
         /\ Refilled(bucket, now).forgiven = bucket.forgiven
         /\ Refilled(bucket, now).epoch = bucket.epoch
         /\ Refilled(bucket, now).generation = bucket.generation
    BY <1>0, RefilledBy
  <2>2. Current = Refilled(bucket, now)
        /\ ShadowNow = AtMost(MaxTokens, shadow + r)
    BY <1>1, <2>1, Zenon DEF Current, ShadowNow
  <2> QED BY <2>1, <2>2
<1>2. CASE ~bucket.live
  <2>1. bucket = Gone /\ shadow = MaxTokens /\ Current = Fresh
        /\ ShadowNow = shadow
    BY <1>2 DEF OneLife, Current, ShadowNow
  <2>2. /\ Current.tokens = AtMost(bucket.tokens + 0, MaxTokens)
        /\ Current.overflow
             = bucket.overflow + AtLeast(0, bucket.tokens + 0 - MaxTokens)
        /\ Current.fills = bucket.fills
        /\ bucket.tokens = MaxTokens
        /\ Current.forgiven = bucket.forgiven
        /\ Current.epoch = bucket.epoch
        /\ Current.generation = bucket.generation
        /\ ShadowNow = AtMost(MaxTokens, shadow + 0)
    BY <2>1 DEF Gone, Fresh, AtMost, AtLeast
  <2> WITNESS 0 \in Nat
  <2> QED BY <2>2
<1> QED BY <1>1, <1>2

\* What refills keep: the marks' bucket, and both bounds.
LEMMA RefillKeepsMarks ==
  ASSUME Inv, OneLife, NEW a \in Attempts, marks[a].live
  PROVE  SameBucket(Current, marks[a])
<1>1. PICK r \in Nat :
           /\ Current.overflow
                = bucket.overflow + AtLeast(0, bucket.tokens + r - MaxTokens)
           /\ Current.fills
                = IF \/ bucket.tokens + r > MaxTokens
                     \/ /\ bucket.tokens < MaxTokens
                        /\ bucket.tokens + r >= MaxTokens
                  THEN bucket.fills + 1 ELSE bucket.fills
           /\ Current.epoch = bucket.epoch
           /\ Current.generation = bucket.generation
  BY RefillsTogether
<1>2. SameBucket(bucket, marks[a])
  BY DEF OneLife
<1>3. /\ bucket.overflow \in Nat /\ bucket.fills \in Nat /\ bucket.tokens \in Int
      /\ marks[a].overflow \in Nat /\ marks[a].fills \in Nat
  BY DEF Inv, TypeOK, BucketType, MarkType
<1>4. Current.overflow >= bucket.overflow /\ Current.overflow \in Nat
  BY <1>1, <1>3 DEF AtLeast
<1>5. Current.fills \in {bucket.fills, bucket.fills + 1}
  BY <1>1
<1> QED BY <1>1, <1>2, <1>3, <1>4, <1>5 DEF SameBucket

LEMMA RefillKeepsDebits ==
  ASSUME Inv, OneLife, IsFiniteSet(Units(Open, Excess)),
         DebitsOwed(bucket, shadow)
  PROVE  DebitsOwed(Current, ShadowNow)
<1> DEFINE Since(h) == Weight({a \in Open : Discarded(marks[a]) >= h}, Excess)
           E == Discarded(bucket)
           F == Discarded(Current)
<1>0. /\ bucket.tokens \in Int /\ bucket.tokens <= MaxTokens
      /\ bucket.overflow \in Nat /\ bucket.forgiven \in Nat
      /\ bucket.forgiven <= bucket.overflow /\ shadow \in Int
  BY DEF Inv, TypeOK, BucketType, Forgiveness, OneLife
<1>1. PICK r \in Nat :
           /\ Current.tokens = AtMost(bucket.tokens + r, MaxTokens)
           /\ Current.overflow
                = bucket.overflow + AtLeast(0, bucket.tokens + r - MaxTokens)
           /\ Current.forgiven = bucket.forgiven
           /\ ShadowNow = AtMost(MaxTokens, shadow + r)
  BY RefillsTogether
<1>2. PICK h \in 0 .. E : (bucket.tokens - shadow) + (E - h) <= Since(h)
  BY DEF DebitsOwed
<1>3. \A g \in Int : Since(g) \in Nat
  BY UnitsFewer
<1>4. E \in Nat /\ F = E + AtLeast(0, bucket.tokens + r - MaxTokens)
      /\ AtLeast(0, bucket.tokens + r - MaxTokens) \in Nat
  BY <1>0, <1>1 DEF Discarded, AtLeast
<1>5. SUFFICES \E g \in 0 .. F :
                 (Current.tokens - ShadowNow) + (F - g) <= Since(g)
  BY DEF DebitsOwed
<1> HIDE DEF Since, E, F
<1>6. CASE shadow + r <= MaxTokens
  <2>1. h \in 0 .. F
    BY <1>4
  <2>2. (Current.tokens - ShadowNow) + (F - h) <= Since(h)
    BY <1>0, <1>1, <1>2, <1>3, <1>4, <1>6 DEF AtMost, AtLeast
  <2> QED BY <2>1, <2>2
<1>7. CASE shadow + r > MaxTokens
  <2>1. F \in 0 .. F
    BY <1>4
  <2>2. (Current.tokens - ShadowNow) + (F - F) <= Since(F)
    <3>1. Current.tokens \in Int /\ Current.tokens <= MaxTokens
          /\ ShadowNow = MaxTokens
      BY <1>0, <1>1, <1>7 DEF AtMost
    <3> QED BY <1>3, <1>4, <3>1
  <2> QED BY <2>1, <2>2
<1> QED BY <1>0, <1>6, <1>7

LEMMA RefillKeepsCredits ==
  ASSUME Inv, OneLife, IsFiniteSet(Units(Open, Unused)),
         CreditsDue(bucket, shadow)
  PROVE  CreditsDue(Current, ShadowNow)
<1> DEFINE At(f) == Weight({a \in Open : marks[a].fills = f}, Unused)
<1>0. /\ bucket.tokens \in Int /\ bucket.tokens <= MaxTokens
      /\ bucket.fills \in Nat /\ shadow \in Int
  BY DEF Inv, TypeOK, BucketType, OneLife
<1>1. PICK r \in Nat :
           /\ Current.tokens = AtMost(bucket.tokens + r, MaxTokens)
           /\ Current.fills
                = IF \/ bucket.tokens + r > MaxTokens
                     \/ /\ bucket.tokens < MaxTokens
                        /\ bucket.tokens + r >= MaxTokens
                  THEN bucket.fills + 1 ELSE bucket.fills
           /\ ShadowNow = AtMost(MaxTokens, shadow + r)
  BY RefillsTogether
<1>2. shadow - bucket.tokens <= At(bucket.fills)
  BY DEF CreditsDue
<1>3. \A f \in Int : At(f) \in Nat
  BY UnitsFewer
<1>4. SUFFICES /\ ShadowNow <= MaxTokens
               /\ ShadowNow - Current.tokens <= At(Current.fills)
  BY DEF CreditsDue
<1> HIDE DEF At
<1>5. ShadowNow <= MaxTokens
  BY <1>0, <1>1 DEF AtMost
<1>6. CASE Current.fills = bucket.fills
  <2>1. Current.tokens = bucket.tokens + r
    BY <1>0, <1>1, <1>6 DEF AtMost
  <2>2. ShadowNow \in Int /\ ShadowNow <= shadow + r
    BY <1>0, <1>1 DEF AtMost
  <2>3. ShadowNow - Current.tokens <= shadow - bucket.tokens
    BY <1>0, <2>1, <2>2
  <2>4. At(bucket.fills) \in Nat /\ At(Current.fills) = At(bucket.fills)
    BY <1>0, <1>3, <1>6
  <2> QED BY <1>0, <1>2, <1>5, <2>1, <2>2, <2>3, <2>4
<1>7. CASE Current.fills # bucket.fills
  <2>1. Current.tokens = MaxTokens
    BY <1>0, <1>1, <1>7 DEF AtMost
  <2>2. At(Current.fills) \in Nat
    <3>1. Current.fills \in Int
      BY <1>0, <1>1
    <3> QED BY <1>3, <3>1
  <2>3. ShadowNow \in Int
    BY <1>0, <1>1 DEF AtMost
  <2> QED BY <1>5, <2>1, <2>2, <2>3
<1> QED BY <1>6, <1>7

\* A settlement of this bucket's mark divides a debit between what is
\* forgiven, what is paid and what the debt limit waives; a credit is paid in
\* full, or up to the ceiling, unless the bucket has filled since.
LEMMA SettleDivides ==
  ASSUME NEW t \in Nat, NEW e \in Nat, NEW b \in BucketType(t, e),
         NEW mark \in MarkType(e), NEW actual \in Nat, SameBucket(b, mark)
  PROVE  LET s == SettleAmount(b, mark, actual)
             delta == actual - mark.claimed IN
         /\ s.applied \in Int /\ s.unapplied \in Int
         /\ delta >= 0 =>
              \E u \in 0 .. delta :
                 /\ s.forgiven = b.forgiven + u
                 /\ s.applied + s.unapplied = delta - u
                 /\ u = 0 \/ u <= Discarded(b) - Discarded(mark)
         /\ delta <= 0 =>
              /\ s.unapplied = 0 /\ s.forgiven = b.forgiven
              /\ b.fills # mark.fills => s.applied = 0
              /\ b.fills = mark.fills =>
                   s.applied = delta \/ b.tokens - s.applied = MaxTokens
<1> DEFINE delta == actual - mark.claimed
           slack == Slack(b, mark)
           used  == AtMost(delta, slack)
           owed  == delta - used
           room  == AtLeast(0, b.tokens + MaxDebt)
           paidUp == AtMost(owed, room)
           headroom == AtLeast(0, MaxTokens - b.tokens)
           s     == SettleAmount(b, mark, actual)
<1>1. /\ b.tokens \in -MaxDebt .. MaxTokens /\ b.overflow \in Nat
      /\ b.forgiven \in Nat /\ mark.claimed \in Nat /\ mark.overflow \in Nat
      /\ mark.forgiven \in Nat
  BY DEF BucketType, MarkType
<1>2. delta \in Int
  BY <1>1
<1>3. /\ slack \in Nat
      /\ slack = 0 \/ slack = Discarded(b) - Discarded(mark)
  BY <1>1 DEF Slack, AtLeast, Discarded
<1>4. CASE delta = 0
  <2>1. s = [applied |-> 0, unapplied |-> 0, forgiven |-> b.forgiven]
    BY <1>4 DEF SettleAmount
  <2>2. s.applied = 0 /\ s.unapplied = 0 /\ s.forgiven = b.forgiven
    BY <2>1
  <2> HIDE DEF s
  <2>3. 0 \in 0 .. delta /\ s.forgiven = b.forgiven + 0
        /\ s.applied + s.unapplied = delta - 0
    BY <1>1, <1>4, <2>2
  <2> QED BY <1>4, <2>2, <2>3 DEF s
<1>5. CASE delta > 0
  <2>1. s = [applied |-> paidUp, unapplied |-> owed - paidUp,
             forgiven |-> b.forgiven + used]
    BY <1>2, <1>5 DEF SettleAmount
  <2>2. used \in 0 .. delta /\ used <= slack
    BY <1>2, <1>3, <1>5 DEF AtMost
  <2>3. owed \in Nat
    BY <1>2, <2>2
  <2>4. paidUp \in Int
    BY <1>1, <2>3 DEF AtMost, AtLeast
  <2>5. s.applied = paidUp /\ s.unapplied = owed - paidUp
        /\ s.forgiven = b.forgiven + used
    BY <2>1
  <2>6. owed = delta - used
    OBVIOUS
  <2> HIDE DEF slack, used, owed, room, paidUp, s, delta
  <2>7. s.applied + s.unapplied = delta - used
    BY <2>3, <2>4, <2>5, <2>6
  <2>8. used = 0 \/ used <= Discarded(b) - Discarded(mark)
    BY <1>1, <1>3, <2>2
  <2>9. s.applied \in Int /\ s.unapplied \in Int
    BY <2>3, <2>4, <2>5
  <2> QED BY <1>2, <1>5, <2>2, <2>5, <2>7, <2>8, <2>9 DEF s, delta
<1>6. CASE delta < 0
  <2>1. CASE b.fills # mark.fills
    <3>1. s = [applied |-> 0, unapplied |-> 0, forgiven |-> b.forgiven]
      BY <1>6, <2>1 DEF SettleAmount
    <3>2. s.applied = 0 /\ s.unapplied = 0 /\ s.forgiven = b.forgiven
      BY <3>1
    <3> HIDE DEF s, delta
    <3> QED BY <1>2, <1>6, <2>1, <3>2 DEF s, delta
  <2>2. CASE b.fills = mark.fills
    <3>1. s = [applied |-> -(AtMost(-delta, headroom)),
               unapplied |-> 0, forgiven |-> b.forgiven]
      BY <1>2, <1>6, <2>2 DEF SettleAmount
    <3>2. s.applied = -(AtMost(-delta, headroom)) /\ s.unapplied = 0
          /\ s.forgiven = b.forgiven
      BY <3>1
    <3>3. headroom = MaxTokens - b.tokens
      BY <1>1 DEF AtLeast
    <3> HIDE DEF s, delta, headroom
    <3>4. s.applied \in Int
          /\ (s.applied = delta \/ b.tokens - s.applied = MaxTokens)
      BY <1>1, <1>2, <1>6, <3>2, <3>3 DEF AtMost
    <3> QED BY <1>2, <1>6, <2>2, <3>2, <3>4 DEF s, delta
  <2> QED BY <2>1, <2>2
<1> QED BY <1>2, <1>4, <1>5, <1>6

\* What the state says of itself, in the form the steps use.
LEMMA OracleFacts ==
  ASSUME Inv, OneLife
  PROVE  /\ Current \in BucketType(now, epochs) /\ Current.live = TRUE
         /\ Current.forgiven <= Current.overflow
         /\ Current.tokens \in Int /\ Current.tokens <= MaxTokens
         /\ Current.overflow \in Nat /\ Current.forgiven \in Nat
         /\ Current.fills \in Nat /\ Current.epoch \in Nat
         /\ ShadowNow \in Int
         /\ \A a \in Attempts :
              /\ marks[a] \in MarkType(epochs)
              /\ marks[a].overflow \in Nat /\ marks[a].forgiven \in Nat
              /\ marks[a].forgiven <= marks[a].overflow
              /\ attempt[a].cost \in Nat /\ attempt[a].actual \in Nat
              /\ Excess[a] = attempt[a].actual - attempt[a].cost
              /\ Unused[a] = attempt[a].cost - attempt[a].actual
<1>1. TypeOK
  BY DEF Inv
<1>2. Current \in BucketType(now, epochs) /\ Current.live = TRUE
      /\ Current.forgiven <= Current.overflow
  BY <1>1, CurrentType, CurrentForgiveness
<1>3. /\ Current.tokens \in Int /\ Current.tokens <= MaxTokens
      /\ Current.overflow \in Nat /\ Current.forgiven \in Nat
      /\ Current.fills \in Nat /\ Current.epoch \in Nat
  BY <1>1, <1>2 DEF BucketType, TypeOK
<1>4. ShadowNow \in Int
  <2>1. PICK r \in Nat : ShadowNow = AtMost(MaxTokens, shadow + r)
    BY RefillsTogether
  <2>2. shadow \in Int
    BY DEF OneLife
  <2> QED BY <2>1, <2>2 DEF AtMost
<1>5. ASSUME NEW a \in Attempts
      PROVE  /\ marks[a] \in MarkType(epochs)
             /\ marks[a].overflow \in Nat /\ marks[a].forgiven \in Nat
             /\ marks[a].forgiven <= marks[a].overflow
             /\ attempt[a].cost \in Nat /\ attempt[a].actual \in Nat
             /\ Excess[a] = attempt[a].actual - attempt[a].cost
             /\ Unused[a] = attempt[a].cost - attempt[a].actual
  <2>1. marks[a] \in MarkType(epochs) /\ attempt[a] \in AttemptType
    BY <1>1 DEF TypeOK
  <2>2. marks[a].forgiven <= marks[a].overflow
    BY DEF Inv, Forgiveness
  <2> QED BY <2>1, <2>2 DEF MarkType, AttemptType, Excess, Unused
<1> QED BY <1>2, <1>3, <1>4, <1>5

\* A claim that the bucket does not cover refills it and no more.
LEMMA RefusedOracle ==
  ASSUME OracleInv, Inv', bucket' = Written(Current), shadow' = ShadowNow,
         UNCHANGED <<marks, attempt>>
  PROVE  OracleInv'
<1>0. Inv /\ OneLife
  BY DEF OracleInv
<1>1. /\ Current \in BucketType(now, epochs) /\ Current.live = TRUE
      /\ ShadowNow \in Int
  BY <1>0, OracleFacts
<1>2. /\ bucket'.live = TRUE /\ bucket'.tokens = Current.tokens
      /\ bucket'.overflow = Current.overflow /\ bucket'.fills = Current.fills
      /\ bucket'.forgiven = Current.forgiven /\ bucket'.epoch = Current.epoch
      /\ bucket'.generation = Current.generation
  BY <1>1 DEF Written, BucketType
<1>3. OneLife'
  <2>1. ASSUME NEW a \in Attempts, marks[a].live
        PROVE  SameBucket(bucket', marks[a])
    <3>1. SameBucket(Current, marks[a])
      BY <1>0, <2>1, RefillKeepsMarks
    <3> QED BY <1>2, <3>1 DEF SameBucket
  <2> QED BY <1>0, <1>1, <1>2, <2>1 DEF OneLife
<1>4. /\ Open' = Open /\ Excess' = Excess /\ Unused' = Unused
      /\ (OnlyDebits' <=> OnlyDebits) /\ (OnlyCredits' <=> OnlyCredits)
  BY DEF Open, Excess, Unused, OnlyDebits, OnlyCredits, AllMarked, Made
<1>5. ASSUME OnlyDebits'
      PROVE  IsFiniteSet(Units(Open, Excess))' /\ DebitsOwed(bucket, shadow)'
  <2>1. IsFiniteSet(Units(Open, Excess)) /\ DebitsOwed(bucket, shadow)
    BY <1>4, <1>5 DEF OracleInv
  <2>2. DebitsOwed(Current, ShadowNow)
    BY <1>0, <2>1, RefillKeepsDebits
  <2> QED BY <1>2, <1>4, <2>1, <2>2 DEF DebitsOwed, Discarded
<1>6. ASSUME OnlyCredits'
      PROVE  IsFiniteSet(Units(Open, Unused))' /\ CreditsDue(bucket, shadow)'
  <2>1. IsFiniteSet(Units(Open, Unused)) /\ CreditsDue(bucket, shadow)
    BY <1>4, <1>6 DEF OracleInv
  <2>2. CreditsDue(Current, ShadowNow)
    BY <1>0, <2>1, RefillKeepsCredits
  <2> QED BY <1>2, <1>4, <2>1, <2>2 DEF CreditsDue
<1> QED BY <1>3, <1>5, <1>6 DEF OracleInv

\* A claim that was made is open, and weighs what it will settle.
LEMMA ClaimedOracle ==
  ASSUME OracleInv, Inv', NEW a \in Attempts, NEW cost \in Nat, NEW actual \in Nat,
         attempt[a].phase = "idle",
         bucket' = Written([Stamped(Current) EXCEPT !.tokens = @ - cost]),
         marks' = [marks EXCEPT ![a] = MarkOf(Stamped(Current), cost)],
         attempt' = [attempt EXCEPT ![a] = [phase |-> "claimed",
                       cost |-> cost, actual |-> actual]],
         shadow' = ShadowNow - actual
  PROVE  OracleInv'
<1> DEFINE b == Stamped(Current)
<1>0. Inv /\ OneLife
  BY DEF OracleInv
<1>1. /\ Current \in BucketType(now, epochs) /\ Current.live = TRUE
      /\ Current.forgiven <= Current.overflow
      /\ Current.tokens \in Int /\ Current.tokens <= MaxTokens
      /\ Current.overflow \in Nat /\ Current.forgiven \in Nat
      /\ Current.fills \in Nat /\ Current.epoch \in Nat
      /\ ShadowNow \in Int
      /\ epochs \in Nat
  <2>1. epochs \in Nat
    BY <1>0 DEF Inv, TypeOK
  <2> QED BY <1>0, <2>1, OracleFacts
<1>2. /\ b.live = TRUE /\ b.tokens = Current.tokens
      /\ b.overflow = Current.overflow /\ b.fills = Current.fills
      /\ b.forgiven = Current.forgiven /\ b.generation = Current.generation
      /\ b.epoch # 0 /\ (Current.epoch # 0 => b.epoch = Current.epoch)
      /\ b \in BucketType(now, epochs + 1)
  BY <1>1 DEF Stamped, NoEpoch, BucketType
<1> HIDE DEF b
<1>3. /\ bucket'.live = TRUE /\ bucket'.tokens = Current.tokens - cost
      /\ bucket'.overflow = Current.overflow /\ bucket'.fills = Current.fills
      /\ bucket'.forgiven = Current.forgiven /\ bucket'.epoch = b.epoch
      /\ bucket'.generation = Current.generation
  <2>1. bucket' = Written([b EXCEPT !.tokens = @ - cost])
    BY DEF b
  <2> QED BY <1>2, <2>1 DEF Written, BucketType
<1>4. /\ marks'[a] = MarkOf(b, cost) /\ attempt'[a].phase = "claimed"
      /\ attempt'[a].cost = cost /\ attempt'[a].actual = actual
      /\ \A x \in Attempts : x # a =>
           marks'[x] = marks[x] /\ attempt'[x] = attempt[x]
  BY <1>0 DEF Inv, TypeOK, b
<1>5. /\ marks'[a].live = TRUE /\ marks'[a].claimed = cost
      /\ marks'[a].overflow = Current.overflow
      /\ marks'[a].forgiven = Current.forgiven
      /\ marks'[a].fills = Current.fills /\ marks'[a].epoch = b.epoch
      /\ marks'[a].generation = Current.generation
  BY <1>2, <1>4 DEF MarkOf
<1>6. OneLife'
  <2>1. ASSUME NEW x \in Attempts, marks'[x].live
        PROVE  /\ attempt'[x].phase = "claimed"
               /\ marks'[x].claimed = attempt'[x].cost
               /\ SameBucket(bucket', marks'[x])
    <3>1. CASE x = a
      BY <1>1, <1>2, <1>3, <1>4, <1>5, <3>1 DEF SameBucket
    <3>2. CASE x # a
      <4>1. marks[x].live /\ marks'[x] = marks[x] /\ attempt'[x] = attempt[x]
        BY <1>4, <2>1, <3>2
      <4>2. SameBucket(Current, marks[x])
        BY <1>0, <4>1, RefillKeepsMarks
      <4>3. SameBucket(bucket', marks[x])
        BY <1>2, <1>3, <4>2 DEF SameBucket
      <4> QED BY <1>0, <4>1, <4>3 DEF OneLife
    <3> QED BY <3>1, <3>2
  <2>2. shadow' \in Int
    BY <1>1
  <2> QED BY <1>3, <2>1, <2>2 DEF OneLife
<1>7. a \notin Open /\ Open' = Open \cup {a}
  <2>1. a \notin Open
    BY <1>0 DEF Open, OneLife
  <2> QED BY <1>4, <1>5, <2>1 DEF Open
<1>8. /\ Excess'[a] = actual - cost /\ Unused'[a] = cost - actual
      /\ \A x \in Open : Excess'[x] = Excess[x] /\ Unused'[x] = Unused[x]
  BY <1>4, <1>7 DEF Excess, Unused, Open
<1>9. AllMarked' => AllMarked
  BY <1>4 DEF AllMarked
<1>10. a \in Made' /\ \A x \in Made : x \in Made' /\ x # a /\ attempt'[x] = attempt[x]
  BY <1>4 DEF Made
<1>11. ASSUME OnlyDebits'
       PROVE  IsFiniteSet(Units(Open, Excess))' /\ DebitsOwed(bucket, shadow)'
  <2>1. OnlyDebits /\ actual >= cost
    BY <1>4, <1>9, <1>10, <1>11 DEF OnlyDebits
  <2>2. IsFiniteSet(Units(Open, Excess)) /\ DebitsOwed(bucket, shadow)
    BY <2>1 DEF OracleInv
  <2>3. DebitsOwed(Current, ShadowNow)
    BY <1>0, <2>2, RefillKeepsDebits
  <2> DEFINE Seen(h)  == {x \in Open : Discarded(marks[x]) >= h}
             Seen2(h) == {x \in Open' : Discarded(marks'[x]) >= h}
             d == Excess'
             E == Discarded(Current)
  <2>4. PICK h \in 0 .. E :
          (Current.tokens - ShadowNow) + (E - h) <= Weight(Seen(h), Excess)
    BY <2>3 DEF DebitsOwed
  <2>5. d[a] \in Nat /\ d[a] = actual - cost
    BY <1>8, <2>1
  <2>6. Units(Open, d) = Units(Open, Excess)
        /\ Units(Seen(h), d) = Units(Seen(h), Excess)
    <3>1. \A x \in Open : d[x] = Excess[x]
      BY <1>8
    <3>2. \A x \in Seen(h) : d[x] = Excess[x]
      BY <3>1
    <3> HIDE DEF d, Seen
    <3> QED BY <3>1, <3>2, UnitsSame
  <2>7. IsFiniteSet(Units(Open', d))
    <3> HIDE DEF d
    <3>1. IsFiniteSet(Units(Open, d))
      BY <2>2, <2>6
    <3>2. IsFiniteSet(Units(Open \cup {a}, d))
      BY <1>7, <2>5, <3>1, UnitsMore
    <3> QED BY <1>7, <3>2
  <2>8. Seen2(h) = Seen(h) \cup {a} /\ a \notin Seen(h)
    <3>1. Discarded(marks'[a]) >= h
      BY <1>1, <1>5, <2>4 DEF Discarded
    <3>2. \A x \in Open : marks'[x] = marks[x]
      BY <1>4, <1>7 DEF Open
    <3> QED BY <1>7, <3>1, <3>2
  <2>9. Weight(Seen(h), Excess) \in Nat /\ IsFiniteSet(Units(Seen(h), Excess))
    <3>1. Seen(h) \subseteq Open
      OBVIOUS
    <3> HIDE DEF Seen
    <3> QED BY <2>2, <3>1, UnitsFewer
  <2>10. Weight(Seen2(h), d) = Weight(Seen(h), Excess) + (actual - cost)
    <3> HIDE DEF d, Seen, Seen2
    <3>1. IsFiniteSet(Units(Seen(h), d))
          /\ Weight(Seen(h), d) = Weight(Seen(h), Excess)
      BY <2>6, <2>9 DEF Weight
    <3>2. Weight(Seen(h) \cup {a}, d) = Weight(Seen(h), d) + d[a]
      BY <2>5, <2>8, <3>1, UnitsMore
    <3> QED BY <2>5, <2>8, <3>1, <3>2
  <2>11. Discarded(bucket') = E
    BY <1>3 DEF Discarded
  <2>12. E \in Nat
    BY <1>1 DEF Discarded
  <2>13. (bucket'.tokens - shadow') + (Discarded(bucket') - h)
           <= Weight(Seen2(h), d)
    <3> HIDE DEF Seen, Seen2, d, E
    <3> QED BY <1>1, <1>3, <2>4, <2>9, <2>10, <2>11, <2>12
  <2> QED BY <2>4, <2>7, <2>11, <2>13 DEF DebitsOwed
<1>12. ASSUME OnlyCredits'
       PROVE  IsFiniteSet(Units(Open, Unused))' /\ CreditsDue(bucket, shadow)'
  <2>1. OnlyCredits /\ actual <= cost
    BY <1>4, <1>9, <1>10, <1>12 DEF OnlyCredits
  <2>2. IsFiniteSet(Units(Open, Unused)) /\ CreditsDue(bucket, shadow)
    BY <2>1 DEF OracleInv
  <2>3. CreditsDue(Current, ShadowNow)
    BY <1>0, <2>2, RefillKeepsCredits
  <2> DEFINE f == Current.fills
             Same  == {x \in Open : marks[x].fills = f}
             Same2 == {x \in Open' : marks'[x].fills = f}
             d == Unused'
  <2>4. ShadowNow <= MaxTokens
        /\ ShadowNow - Current.tokens <= Weight(Same, Unused)
    BY <2>3 DEF CreditsDue
  <2>5. d[a] \in Nat /\ d[a] = cost - actual
    BY <1>8, <2>1
  <2>6. Units(Open, d) = Units(Open, Unused)
        /\ Units(Same, d) = Units(Same, Unused)
    <3>1. \A x \in Open : d[x] = Unused[x]
      BY <1>8
    <3>2. \A x \in Same : d[x] = Unused[x]
      BY <3>1
    <3> HIDE DEF d, Same
    <3> QED BY <3>1, <3>2, UnitsSame
  <2>7. IsFiniteSet(Units(Open', d))
    <3> HIDE DEF d
    <3>1. IsFiniteSet(Units(Open, d))
      BY <2>2, <2>6
    <3>2. IsFiniteSet(Units(Open \cup {a}, d))
      BY <1>7, <2>5, <3>1, UnitsMore
    <3> QED BY <1>7, <3>2
  <2>8. Same2 = Same \cup {a} /\ a \notin Same
    <3>1. marks'[a].fills = f
      BY <1>5
    <3>2. \A x \in Open : marks'[x] = marks[x]
      BY <1>4, <1>7 DEF Open
    <3> QED BY <1>7, <3>1, <3>2
  <2>9. Weight(Same, Unused) \in Nat /\ IsFiniteSet(Units(Same, Unused))
    <3>1. Same \subseteq Open
      OBVIOUS
    <3> HIDE DEF Same
    <3> QED BY <2>2, <3>1, UnitsFewer
  <2>10. Weight(Same2, d) = Weight(Same, Unused) + (cost - actual)
    <3> HIDE DEF d, Same, Same2
    <3>1. IsFiniteSet(Units(Same, d)) /\ Weight(Same, d) = Weight(Same, Unused)
      BY <2>6, <2>9 DEF Weight
    <3>2. Weight(Same \cup {a}, d) = Weight(Same, d) + d[a]
      BY <2>5, <2>8, <3>1, UnitsMore
    <3> QED BY <2>5, <2>8, <3>1, <3>2
  <2>11. shadow' <= MaxTokens /\ shadow' - bucket'.tokens <= Weight(Same2, d)
    <3> HIDE DEF Same, Same2, d
    <3> QED BY <1>1, <1>3, <2>4, <2>9, <2>10
  <2> QED BY <1>3, <2>7, <2>11 DEF CreditsDue
<1> QED BY <1>6, <1>11, <1>12 DEF OracleInv

\* A settlement closes its claim: a debit is paid, waived or forgiven out of
\* what the bucket discarded while the claim was open, a credit is paid or
\* finds the bucket full.
LEMMA SettledOracle ==
  ASSUME OracleInv, Inv', NEW a \in Attempts, OracleSettle(a)
  PROVE  OracleInv'
<1> DEFINE b == Current
           mark == marks[a]
           delta == attempt[a].actual - attempt[a].cost
           s == SettleAmount(b, mark, attempt[a].actual)
<1>0. Inv /\ OneLife
  BY DEF OracleInv
<1>1. /\ b \in BucketType(now, epochs) /\ b.live = TRUE
      /\ b.forgiven <= b.overflow
      /\ b.tokens \in Int /\ b.tokens <= MaxTokens
      /\ b.overflow \in Nat /\ b.forgiven \in Nat /\ b.fills \in Nat
      /\ ShadowNow \in Int /\ mark \in MarkType(epochs)
      /\ mark.overflow \in Nat /\ mark.forgiven \in Nat
      /\ mark.forgiven <= mark.overflow
      /\ attempt[a].cost \in Nat /\ attempt[a].actual \in Nat
      /\ Excess[a] = delta /\ Unused[a] = -delta
      /\ epochs \in Nat /\ now \in Nat
  <2>1. epochs \in Nat /\ now \in Nat
    BY <1>0 DEF Inv, TypeOK
  <2>2. /\ Excess[a] = attempt[a].actual - attempt[a].cost
        /\ Unused[a] = attempt[a].cost - attempt[a].actual
        /\ attempt[a].cost \in Nat /\ attempt[a].actual \in Nat
    BY <1>0, OracleFacts
  <2>3. Unused[a] = -delta
    BY <2>2
  <2> QED BY <1>0, <2>1, <2>2, <2>3, OracleFacts
<1>2. /\ mark.live /\ mark.claimed = attempt[a].cost /\ bucket.live
      /\ attempt[a].phase = "claimed" /\ SameBucket(b, mark)
  BY <1>0, RefillKeepsMarks DEF OracleSettle, OneLife
<1>3. /\ s.applied \in Int /\ s.unapplied \in Int
      /\ delta >= 0 =>
           \E u \in 0 .. delta :
              /\ s.forgiven = b.forgiven + u
              /\ s.applied + s.unapplied = delta - u
              /\ u = 0 \/ u <= Discarded(b) - Discarded(mark)
      /\ delta <= 0 =>
           /\ s.unapplied = 0 /\ s.forgiven = b.forgiven
           /\ b.fills # mark.fills => s.applied = 0
           /\ b.fills = mark.fills =>
                s.applied = delta \/ b.tokens - s.applied = MaxTokens
  <2> DEFINE D == attempt[a].actual - mark.claimed
  <2>1. D = delta
    BY <1>2
  <2> HIDE DEF b, mark
  <2>2. /\ s.applied \in Int /\ s.unapplied \in Int
        /\ D >= 0 =>
             \E u \in 0 .. D :
                /\ s.forgiven = b.forgiven + u
                /\ s.applied + s.unapplied = D - u
                /\ u = 0 \/ u <= Discarded(b) - Discarded(mark)
        /\ D <= 0 =>
             /\ s.unapplied = 0 /\ s.forgiven = b.forgiven
             /\ b.fills # mark.fills => s.applied = 0
             /\ b.fills = mark.fills =>
                  s.applied = D \/ b.tokens - s.applied = MaxTokens
    BY ONLY <1>1, <1>2, SettleDivides
  <2> HIDE DEF D, delta, s
  <2> QED BY <2>1, <2>2
<1>4. /\ bucket' = Written([b EXCEPT !.tokens = @ - s.applied,
                                     !.forgiven = s.forgiven])
      /\ attempt' = [attempt EXCEPT ![a].phase = "settled"]
      /\ marks' = [marks EXCEPT ![a] = NoMark]
      /\ shadow' = ShadowNow + s.unapplied
  BY <1>2 DEF OracleSettle, SettleTokens
<1> HIDE DEF b, s, mark
<1>5. /\ bucket'.live = TRUE /\ bucket'.tokens = b.tokens - s.applied
      /\ bucket'.overflow = b.overflow /\ bucket'.fills = b.fills
      /\ bucket'.forgiven = s.forgiven /\ bucket'.epoch = b.epoch
      /\ bucket'.generation = b.generation
  BY <1>1, <1>4 DEF Written, BucketType
<1>6. /\ marks'[a].live = FALSE /\ attempt'[a].phase = "settled"
      /\ \A x \in Attempts : x # a =>
           marks'[x] = marks[x] /\ attempt'[x] = attempt[x]
      /\ \A x \in Attempts : /\ attempt'[x].cost = attempt[x].cost
                             /\ attempt'[x].actual = attempt[x].actual
  BY <1>0, <1>4 DEF Inv, TypeOK, AttemptType, NoMark
<1>7. OneLife'
  <2>1. ASSUME NEW x \in Attempts, marks'[x].live
        PROVE  /\ attempt'[x].phase = "claimed"
               /\ marks'[x].claimed = attempt'[x].cost
               /\ SameBucket(bucket', marks'[x])
    <3>1. x # a
      BY <1>6, <2>1
    <3>2. marks[x].live /\ marks'[x] = marks[x] /\ attempt'[x] = attempt[x]
      BY <1>6, <2>1, <3>1
    <3>3. SameBucket(b, marks[x])
      BY <1>0, <3>2, RefillKeepsMarks DEF b
    <3>4. SameBucket(bucket', marks[x])
      BY <1>5, <3>3 DEF SameBucket
    <3> QED BY <1>0, <3>2, <3>4 DEF OneLife
  <2>2. shadow' \in Int
    BY <1>1, <1>3, <1>4
  <2> QED BY <1>5, <2>1, <2>2 DEF OneLife
<1>8. a \in Open /\ Open' = Open \ {a} /\ Excess' = Excess /\ Unused' = Unused
  <2>1. a \in Open /\ Open' = Open \ {a}
    BY <1>2, <1>6 DEF Open, mark
  <2> QED BY <1>6, <2>1 DEF Excess, Unused
<1>9. AllMarked' => AllMarked
  BY <1>2, <1>6 DEF AllMarked, mark
<1>10. Made' = Made /\ a \in Made
  BY <1>2, <1>6 DEF Made
<1>11. \A x \in Open' : marks'[x] = marks[x] /\ x # a
  BY <1>6, <1>8 DEF Open
<1>12. ASSUME OnlyDebits'
       PROVE  IsFiniteSet(Units(Open, Excess))' /\ DebitsOwed(bucket, shadow)'
  <2>1. OnlyDebits /\ delta >= 0 /\ delta \in Nat
    <3>1. OnlyDebits
      BY <1>6, <1>9, <1>10, <1>12 DEF OnlyDebits, Made
    <3>2. attempt[a].actual >= attempt[a].cost
      BY <1>10, <3>1 DEF OnlyDebits
    <3> QED BY <1>1, <3>1, <3>2
  <2>2. IsFiniteSet(Units(Open, Excess)) /\ DebitsOwed(bucket, shadow)
    BY <2>1 DEF OracleInv
  <2>3. DebitsOwed(b, ShadowNow)
    BY <1>0, <2>2, RefillKeepsDebits DEF b
  <2> DEFINE Seen(h)  == {x \in Open : Discarded(marks[x]) >= h}
             Seen2(h) == {x \in Open' : Discarded(marks'[x]) >= h}
             E == Discarded(b)
             e == Discarded(mark)
  <2>4. PICK h \in 0 .. E :
          (b.tokens - ShadowNow) + (E - h) <= Weight(Seen(h), Excess)
    BY <2>3 DEF DebitsOwed
  <2>5. PICK u \in 0 .. delta :
              /\ s.forgiven = b.forgiven + u
              /\ s.applied + s.unapplied = delta - u
              /\ u = 0 \/ u <= E - e
    BY <1>3, <2>1
  <2>6. E \in Nat /\ e \in Nat /\ Discarded(bucket') = E - u
    BY <1>1, <1>5, <2>5 DEF Discarded
  <2>7. bucket'.tokens - shadow' = (b.tokens - ShadowNow) - (delta - u)
    BY <1>1, <1>3, <1>4, <1>5, <2>5
  <2>8. \A g \in Int : Seen2(g) = Seen(g) \ {a}
    BY <1>8, <1>11
  <2>9. a \in Seen(h) <=> e >= h
    BY <1>8 DEF mark
  <2>10. \A g \in Int : /\ IsFiniteSet(Units(Seen(g), Excess))
                        /\ Weight(Seen(g), Excess) \in Nat
                        /\ Weight(Seen2(g), Excess) \in Nat
    <3>1. \A g \in Int : Seen(g) \subseteq Open /\ Seen2(g) \subseteq Open
      BY <1>8
    <3> HIDE DEF Seen, Seen2
    <3> QED BY <2>2, <3>1, UnitsFewer
  <2>11. IsFiniteSet(Units(Open', Excess))
    BY <1>8, <2>2, UnitsFewer
  <2>12. SUFFICES \E g \in 0 .. (E - u) :
                    (bucket'.tokens - shadow') + ((E - u) - g)
                       <= Weight(Seen2(g), Excess)
    BY <1>8, <2>6, <2>11 DEF DebitsOwed
  <2>13. Excess[a] = delta
    BY <1>1
  <2> HIDE DEF Seen, Seen2, E, e, delta
  <2>14. CASE e >= h
    <3>1. Weight(Seen(h) \ {a}, Excess) = Weight(Seen(h), Excess) - delta
      BY <2>1, <2>9, <2>10, <2>13, <2>14, UnitsLess
    <3>2. Weight(Seen2(h), Excess) = Weight(Seen(h), Excess) - delta
      <4>1. Seen2(h) = Seen(h) \ {a}
        BY <2>4, <2>6, <2>8
      <4> QED BY <3>1, <4>1
    <3>3. h \in 0 .. (E - u)
      BY <2>4, <2>5, <2>6, <2>14
    <3>4. (bucket'.tokens - shadow') + ((E - u) - h) <= Weight(Seen2(h), Excess)
      BY <1>1, <2>1, <2>4, <2>5, <2>6, <2>7, <2>10, <3>2
    <3> QED BY <3>3, <3>4
  <2>15. CASE e < h /\ E - u >= h
    <3>1. Seen2(h) = Seen(h)
      BY <2>6, <2>8, <2>9, <2>15
    <3>2. h \in 0 .. (E - u)
      BY <2>4, <2>5, <2>6, <2>15
    <3>3. (bucket'.tokens - shadow') + ((E - u) - h) <= Weight(Seen2(h), Excess)
      BY <1>1, <2>1, <2>4, <2>5, <2>6, <2>7, <2>10, <3>1
    <3> QED BY <3>2, <3>3
  <2>16. CASE e < h /\ E - u < h
    <3> DEFINE g == E - u
    <3>1. g \in 0 .. (E - u) /\ g < h
      BY <2>4, <2>5, <2>6, <2>16
    <3>2. Seen(h) \subseteq Seen2(g)
      <4>1. \A x \in Open : Discarded(marks[x]) \in Int
        BY <1>0, OracleFacts DEF Open, Discarded
      <4> QED BY <1>8, <1>11, <2>6, <2>9, <2>16, <3>1, <4>1 DEF Seen, Seen2
    <3>3. Weight(Seen(h), Excess) <= Weight(Seen2(g), Excess)
      <4>1. IsFiniteSet(Units(Seen2(g), Excess))
        <5>1. Seen2(g) \subseteq Open
          BY <1>8 DEF Seen2
        <5> QED BY <2>2, <5>1, UnitsFewer
      <4> QED BY <3>2, <4>1, UnitsFewer
    <3>4. Weight(Seen2(g), Excess) \in Nat
      BY <2>10, <3>1
    <3>5. (bucket'.tokens - shadow') + ((E - u) - g) <= Weight(Seen2(g), Excess)
      BY <1>1, <2>1, <2>4, <2>5, <2>6, <2>7, <2>10, <3>3, <3>4
    <3> QED BY <3>1, <3>5
  <2> QED BY <2>4, <2>5, <2>6, <2>14, <2>15, <2>16
<1>13. ASSUME OnlyCredits'
       PROVE  IsFiniteSet(Units(Open, Unused))' /\ CreditsDue(bucket, shadow)'
  <2>1. OnlyCredits /\ delta <= 0 /\ delta \in Int
    <3>1. OnlyCredits
      BY <1>6, <1>9, <1>10, <1>13 DEF OnlyCredits, Made
    <3>2. attempt[a].actual <= attempt[a].cost
      BY <1>10, <3>1 DEF OnlyCredits
    <3> QED BY <1>1, <3>1, <3>2
  <2>2. IsFiniteSet(Units(Open, Unused)) /\ CreditsDue(bucket, shadow)
    BY <2>1 DEF OracleInv
  <2>3. CreditsDue(b, ShadowNow)
    BY <1>0, <2>2, RefillKeepsCredits DEF b
  <2> DEFINE f == b.fills
             Same  == {x \in Open : marks[x].fills = f}
             Same2 == {x \in Open' : marks'[x].fills = f}
  <2>4. ShadowNow <= MaxTokens
        /\ ShadowNow - b.tokens <= Weight(Same, Unused)
    BY <2>3 DEF CreditsDue
  <2>5. Same2 = Same \ {a} /\ (a \in Same <=> mark.fills = f)
    BY <1>8, <1>11 DEF mark
  <2>6. Same \subseteq Open /\ Same2 \subseteq Open
    BY <1>8
  <2>7. IsFiniteSet(Units(Open', Unused))
    BY <1>8, <2>2, UnitsFewer
  <2>8. SUFFICES /\ shadow' <= MaxTokens
                 /\ shadow' - bucket'.tokens <= Weight(Same2, Unused)
    BY <1>5, <1>8, <2>7 DEF CreditsDue
  <2> HIDE DEF Same, Same2, delta
  <2>9. /\ IsFiniteSet(Units(Same, Unused)) /\ Weight(Same, Unused) \in Nat
        /\ Weight(Same2, Unused) \in Nat
    BY <2>2, <2>6, UnitsFewer
  <2>10. shadow' = ShadowNow /\ shadow' <= MaxTokens /\ bucket'.tokens \in Int
    BY <1>1, <1>3, <1>4, <1>5, <2>1, <2>4
  <2>11. CASE mark.fills # f
    <3>1. Same2 = Same
      BY <2>5, <2>11
    <3>2. bucket'.tokens = b.tokens
      BY <1>1, <1>3, <1>5, <2>1, <2>11
    <3> QED BY <2>4, <2>10, <3>1, <3>2
  <2>12. CASE mark.fills = f /\ s.applied = delta
    <3>1. Unused[a] \in Nat /\ Unused[a] = -delta
      BY <1>1, <2>1
    <3>2. Weight(Same \ {a}, Unused) = Weight(Same, Unused) - Unused[a]
      BY <2>5, <2>9, <2>12, <3>1, UnitsLess
    <3>3. Weight(Same2, Unused) = Weight(Same, Unused) - Unused[a]
      BY <2>5, <3>2
    <3>4. bucket'.tokens = b.tokens - delta
      BY <1>5, <2>12
    <3> QED BY <1>1, <2>1, <2>4, <2>9, <2>10, <3>1, <3>3, <3>4
  <2>13. CASE bucket'.tokens = MaxTokens
    BY <1>1, <2>9, <2>10, <2>13
  <2> QED BY <1>3, <1>5, <2>1, <2>11, <2>12, <2>13
<1> QED BY <1>7, <1>12, <1>13 DEF OracleInv

\* Time: while the key lives, only marks go, and with them the claim's hope of
\* being settled.
LEMMA TickedOracle ==
  ASSUME OracleInv, Inv', UNCHANGED <<bucket, attempt, shadow>>,
         \A a \in Attempts :
            marks'[a] = marks[a] \/ (marks[a].live /\ marks'[a] = NoMark)
  PROVE  OracleInv'
<1>0. Inv /\ OneLife
  BY DEF OracleInv
<1>1. OneLife'
  <2>1. ASSUME NEW a \in Attempts, marks'[a].live PROVE marks'[a] = marks[a]
    BY <2>1 DEF NoMark
  <2> QED BY <1>0, <2>1 DEF OneLife
<1>2. AllMarked' => AllMarked /\ \A a \in Attempts : marks'[a] = marks[a]
  <2>1. ASSUME AllMarked', NEW a \in Attempts, marks'[a] # marks[a] PROVE FALSE
    <3>1. marks[a].live /\ ~marks'[a].live
      BY <2>1 DEF NoMark
    <3>2. attempt[a].phase = "claimed"
      BY <1>0, <3>1 DEF OneLife
    <3> QED BY <2>1, <3>1, <3>2 DEF AllMarked
  <2>2. ASSUME AllMarked', \A a \in Attempts : marks'[a] = marks[a]
        PROVE  AllMarked
    BY <2>2 DEF AllMarked
  <2> QED BY <2>1, <2>2
<1>3. ASSUME AllMarked'
      PROVE  /\ Open' = Open /\ Excess' = Excess /\ Unused' = Unused
             /\ (OnlyDebits' => OnlyDebits) /\ (OnlyCredits' => OnlyCredits)
             /\ \A a \in Open : marks'[a] = marks[a]
  BY <1>2, <1>3 DEF Open, Excess, Unused, OnlyDebits, OnlyCredits, Made
<1>4. ASSUME OnlyDebits'
      PROVE  IsFiniteSet(Units(Open, Excess))' /\ DebitsOwed(bucket, shadow)'
  <2>1. AllMarked'
    BY <1>4 DEF OnlyDebits
  <2>2. IsFiniteSet(Units(Open, Excess)) /\ DebitsOwed(bucket, shadow)
    BY <1>3, <1>4, <2>1 DEF OracleInv
  <2>3. \A h \in Int : {a \in Open' : Discarded(marks'[a]) >= h}
                         = {a \in Open : Discarded(marks[a]) >= h}
    BY <1>3, <2>1
  <2>4. PICK h \in 0 .. Discarded(bucket) :
          (bucket.tokens - shadow) + (Discarded(bucket) - h)
            <= Weight({a \in Open : Discarded(marks[a]) >= h}, Excess)
    BY <2>2 DEF DebitsOwed
  <2>5. Weight({a \in Open' : Discarded(marks'[a]) >= h}, Excess')
          = Weight({a \in Open : Discarded(marks[a]) >= h}, Excess)
    BY <1>3, <2>1, <2>3, <2>4
  <2>6. IsFiniteSet(Units(Open', Excess'))
    BY <1>3, <2>1, <2>2
  <2>7. (bucket'.tokens - shadow') + (Discarded(bucket') - h)
            <= Weight({a \in Open' : Discarded(marks'[a]) >= h}, Excess')
    BY <2>4, <2>5
  <2> QED BY <2>4, <2>6, <2>7 DEF DebitsOwed
<1>5. ASSUME OnlyCredits'
      PROVE  IsFiniteSet(Units(Open, Unused))' /\ CreditsDue(bucket, shadow)'
  <2>1. AllMarked'
    BY <1>5 DEF OnlyCredits
  <2>2. IsFiniteSet(Units(Open, Unused)) /\ CreditsDue(bucket, shadow)
    BY <1>3, <1>5, <2>1 DEF OracleInv
  <2>3. {a \in Open' : marks'[a].fills = bucket'.fills}
          = {a \in Open : marks[a].fills = bucket.fills}
    BY <1>3, <2>1
  <2>4. Weight({a \in Open' : marks'[a].fills = bucket'.fills}, Unused')
          = Weight({a \in Open : marks[a].fills = bucket.fills}, Unused)
    BY <1>3, <2>1, <2>3
  <2>5. IsFiniteSet(Units(Open', Unused'))
    BY <1>3, <2>1, <2>2
  <2> QED BY <2>2, <2>4, <2>5 DEF CreditsDue
<1> QED BY <1>1, <1>4, <1>5 DEF OracleInv

\* The bucket's key does not expire: it is used before its lifetime is over.
KeyKept == bucket.live => bucket'.live

LEMMA InitOracle == OracleInit => OracleInv
<1> SUFFICES ASSUME OracleInit PROVE OracleInv
  OBVIOUS
<1>1. Inv
  BY InitInv DEF OracleInit
<1>2. Open = {} /\ bucket = Gone /\ shadow = MaxTokens
  BY DEF OracleInit, Init, Open, NoMark
<1>3. OneLife
  BY <1>2 DEF OneLife, Open
<1>4. Discarded(bucket) = 0 /\ bucket.tokens = MaxTokens
  BY <1>2 DEF Gone, Discarded
<1>5. /\ {a \in Open : Discarded(marks[a]) >= 0} = {}
      /\ {a \in Open : marks[a].fills = bucket.fills} = {}
  BY <1>2
<1>6. IsFiniteSet(Units(Open, Excess)) /\ DebitsOwed(bucket, shadow)
  <2>1. Weight({a \in Open : Discarded(marks[a]) >= 0}, Excess) = 0
    BY <1>5, UnitsNone
  <2>2. 0 \in 0 .. Discarded(bucket)
        /\ (bucket.tokens - shadow) + (Discarded(bucket) - 0) <= 0
    BY <1>2, <1>4
  <2> QED BY <1>2, <2>1, <2>2, UnitsNone DEF DebitsOwed
<1>7. IsFiniteSet(Units(Open, Unused)) /\ CreditsDue(bucket, shadow)
  <2>1. Weight({a \in Open : marks[a].fills = bucket.fills}, Unused) = 0
    BY <1>5, UnitsNone
  <2> QED BY <1>2, <1>4, <2>1, UnitsNone DEF CreditsDue
<1> QED BY <1>1, <1>3, <1>6, <1>7 DEF OracleInv

LEMMA NextOracle ==
  ASSUME OracleInv, [OracleNext]_oracleVars, [KeyKept]_oracleVars
  PROVE  OracleInv'
<1>0. Inv /\ OneLife
  BY DEF OracleInv
<1>1. ASSUME NEW a \in Attempts, NEW cost \in Costs, NEW actual \in Actuals,
             OracleClaim(a, cost, actual)
      PROVE  OracleInv'
  <2>1. AcquireTokens(a, cost, actual) /\ attempt[a].phase = "idle"
        /\ Spend(a, cost, actual) /\ cost \in Nat /\ actual \in Nat
    BY <1>1 DEF OracleClaim, AcquireTokens
  <2>2. Inv'
    BY <1>0, <2>1, SpendInv DEF AcquireTokens
  <2>3. CASE CoversCost(Current.tokens, cost)
    <3>1. /\ bucket' = Written([Stamped(Current) EXCEPT !.tokens = @ - cost])
          /\ marks' = [marks EXCEPT ![a] = MarkOf(Stamped(Current), cost)]
          /\ attempt' = [attempt EXCEPT ![a] = [phase |-> "claimed",
                            cost |-> cost, actual |-> actual]]
      BY <2>1, <2>3 DEF Spend
    <3>2. attempt'[a].phase = "claimed"
      BY <1>0, <3>1 DEF Inv, TypeOK
    <3>3. shadow' = ShadowNow - actual
      BY <1>1, <2>1, <3>2 DEF OracleClaim
    <3> QED BY <2>1, <2>2, <3>1, <3>3, ClaimedOracle
  <2>4. CASE ~CoversCost(Current.tokens, cost)
    <3>1. bucket' = Written(Current) /\ UNCHANGED <<marks, attempt>>
      BY <2>1, <2>4 DEF Spend
    <3>2. shadow' = ShadowNow
      BY <1>1, <3>1 DEF OracleClaim
    <3> QED BY <2>2, <3>1, <3>2, RefusedOracle
  <2> QED BY <2>3, <2>4
<1>2. ASSUME NEW a \in Attempts, OracleSettle(a) PROVE OracleInv'
  <2>1. Inv'
    BY <1>0, <1>2, SettleInv DEF OracleSettle
  <2> QED BY <1>2, <2>1, SettledOracle
<1>3. CASE OracleTick
  <2>1. Tick /\ UNCHANGED <<attempt, shadow>> /\ now' # now
    <3>1. now \in Nat
      BY <1>0 DEF Inv, TypeOK
    <3> QED BY <1>3, <3>1 DEF OracleTick, Tick
  <2>2. Inv'
    BY <1>0, <2>1, TickInv
  <2>3. KeyKept
    BY <2>1 DEF oracleVars, vars
  <2>4. bucket' = bucket
    BY <2>1, <2>3 DEF Tick, KeyKept, Gone
  <2>5. \A a \in Attempts :
          marks'[a] = marks[a] \/ (marks[a].live /\ marks'[a] = NoMark)
    BY <2>1 DEF Tick
  <2> QED BY <2>1, <2>2, <2>4, <2>5, TickedOracle
<1>4. CASE UNCHANGED oracleVars
  <2>1. UNCHANGED vars /\ UNCHANGED shadow
    BY <1>4 DEF oracleVars
  <2>2. Inv'
    BY <1>0, <2>1, NextInv
  <2>3. UNCHANGED <<bucket, attempt, shadow, marks>>
    BY <2>1 DEF vars
  <2> QED BY <2>2, <2>3, TickedOracle
<1> QED BY <1>1, <1>2, <1>3, <1>4 DEF OracleNext

LEMMA OracleAlways == OracleSpec /\ [][KeyKept]_oracleVars => []OracleInv
<1>1. OracleInit => OracleInv
  BY InitOracle
<1>2. OracleInv /\ [OracleNext]_oracleVars /\ [KeyKept]_oracleVars => OracleInv'
  BY NextOracle
<1> QED BY <1>1, <1>2, PTL DEF OracleSpec

\* Once all are settled nothing is open.
LEMMA NothingOpen ==
  ASSUME OracleInv, Settled
  PROVE  AllMarked /\ Open = {}
<1>1. \A a \in Attempts : attempt[a].phase # "claimed"
  BY DEF Settled, Made
<1> QED BY <1>1 DEF AllMarked, Open, OracleInv, OneLife

\* Under-reserving gains nothing: however many claims overlap, whatever the
\* ceiling discarded and forgave while they were open and whatever debt the
\* limit waived, once settled they have been charged at least what charging
\* them up front would have, in runs of any length in which the bucket's key
\* does not expire (settlement.ts, settleAmount; memory.ts, settleTokens).
THEOREM DebitsChargedInFull ==
  OracleSpec /\ [][KeyKept]_oracleVars => []DebitsNeverUndercharged
<1>1. OracleInv => DebitsNeverUndercharged
  <2> SUFFICES ASSUME OracleInv, Settled,
                      \A a \in Made : attempt[a].actual >= attempt[a].cost
               PROVE  bucket.tokens <= shadow
    BY DEF DebitsNeverUndercharged
  <2>1. AllMarked /\ Open = {} /\ OnlyDebits
    BY NothingOpen DEF OnlyDebits
  <2>2. PICK h \in 0 .. Discarded(bucket) :
          (bucket.tokens - shadow) + (Discarded(bucket) - h)
            <= Weight({a \in Open : Discarded(marks[a]) >= h}, Excess)
    BY <2>1 DEF OracleInv, DebitsOwed
  <2>3. {a \in Open : Discarded(marks[a]) >= h} = {}
    BY <2>1
  <2>4. Weight({a \in Open : Discarded(marks[a]) >= h}, Excess) = 0
    BY <2>3, UnitsNone
  <2>5. /\ bucket.tokens \in Int /\ shadow \in Int /\ Discarded(bucket) \in Int
    BY DEF OracleInv, Inv, TypeOK, BucketType, OneLife, Discarded
  <2> QED BY <2>2, <2>4, <2>5
<1> QED BY <1>1, OracleAlways, PTL

\* Over-reserving loses nothing: once settled the claims have been handed back
\* at least what charging them up front would have left, the ceiling aside, in
\* the same runs (settlement.ts, settleAmount: no credit once the bucket has
\* filled, and none above the ceiling).
THEOREM CreditsGivenBack ==
  OracleSpec /\ [][KeyKept]_oracleVars => []CreditsNeverLost
<1>1. OracleInv => CreditsNeverLost
  <2> SUFFICES ASSUME OracleInv, Settled,
                      \A a \in Made : attempt[a].actual <= attempt[a].cost
               PROVE  bucket.tokens >= shadow
    BY DEF CreditsNeverLost
  <2>1. AllMarked /\ Open = {} /\ OnlyCredits
    BY NothingOpen DEF OnlyCredits
  <2>2. shadow - bucket.tokens
          <= Weight({a \in Open : marks[a].fills = bucket.fills}, Unused)
    BY <2>1 DEF OracleInv, CreditsDue
  <2>3. {a \in Open : marks[a].fills = bucket.fills} = {}
    BY <2>1
  <2>4. Weight({a \in Open : marks[a].fills = bucket.fills}, Unused) = 0
    BY <2>3, UnitsNone
  <2>5. bucket.tokens \in Int /\ shadow \in Int
    BY DEF OracleInv, Inv, TypeOK, BucketType, OneLife
  <2> QED BY <2>2, <2>4, <2>5
<1> QED BY <1>1, OracleAlways, PTL

===========================================================================
