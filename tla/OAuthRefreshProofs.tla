------------------------- MODULE OAuthRefreshProofs -------------------------
(***************************************************************************)
(* What a refresh of OAuth tokens keeps, for every number of replicas,     *)
(* every set of lifetimes and any number of lost answers, failed writes,   *)
(* crashes and new authorizations.                                         *)
(***************************************************************************)
EXTENDS OAuthRefresh, TLAPS

USE OAuthAssumption DEF OAuthAssumption

---------------------------------------------------------------------------
(* The inductive invariant.                                                *)

\* A replica that counts on the lock has it; one whose lock lapsed has not
\* taken it again; and until a refresh runs loose, refreshing takes a lock.
Exclusive ==
    \A h \in Handlers :
        /\ task[h].holds = "live" => lock.owner = h
        /\ task[h].holds = "lapsed" => lock.owner # h
        /\ task[h].pc \in {"none", "lock", "poll", "pollLock"} =>
              task[h].holds = "no"
        /\ task[h].pc \in {"mark", "release"} => task[h].holds # "no"
        /\ task[h].pc \in Refreshing => loose \/ task[h].holds = "live"

\* Whoever waited for a refresh that failed finds the mark, or the lock taken
\* until it does: by the one about to leave it, or by one that died.
Marked ==
    \A g \in Handlers :
        /\ task[g].noted \/ task[g].pc \in {"poll", "pollLock"} =>
              task[g].waited
        /\ task[g].noted /\ failed = 0 =>
              \E h \in Handlers \ {g} :
                  /\ lock.owner = h
                  /\ \/ task[h].holds = "no"
                     \/ task[h].holds = "live" /\ task[h].pc = "mark"

Answered(h) == task[h].pc \in {"reply", "write"}

\* An answer not stored yet has the only copy of the current refresh token, or
\* none; what is stored is redeemable unless such an answer replaces it.
OneCurrent ==
    ~lost =>
        /\ \A h \in Handlers : Answered(h) => task[h].tok \in {"none", "current"}
        /\ \A h, g \in Handlers :
              Answered(h) /\ task[h].tok = "current" =>
                  /\ hash.refresh # "current"
                  /\ g # h => task[g].tok # "current"
        /\ hash.refresh \in {"spent", "old"} =>
              \E h \in Handlers : Answered(h) /\ task[h].tok = "current"

\* How long the code takes a refresh token for good, r of it stated.
Known(r) == IF r > 0 THEN r ELSE DefaultRefresh

\* The code never takes the current refresh token for worse than it is, and
\* neither the hash nor the life an answer will give it ends before it.
Sized ==
    ~lost /\ ~loose =>
        /\ hash.refresh = "current" /\ ~InFlight =>
              provider <= hash.key /\ provider <= Known(hash.refreshLeft)
        /\ \A h \in Handlers : Answered(h) =>
              /\ task[h].tok = "current" => provider <= Known(task[h].rlife)
              /\ task[h].tok = "none" /\ hash.refresh = "current" =>
                    provider <= IF task[h].rlife > 0 THEN task[h].rlife
                                ELSE Known(hash.refreshLeft)
              /\ task[h].pc = "write" /\
                 (task[h].tok = "current" \/ hash.refresh = "current") =>
                    provider <= task[h].ttl

\* No promise is longer than a hash may live.
Capped == provider <= MaxTtl

Inv ==
    /\ TypeOK /\ Capped /\ Exclusive /\ Marked
    /\ OneCurrent /\ NoReplay /\ Sized

---------------------------------------------------------------------------
(* What each step makes of the refreshes.                                  *)

\* Nothing but a refresh moves.
Still == UNCHANGED <<hash, lock, failed, provider, grant, budget, loose, lost>>

\* ... or the call to the backend may have failed, too.
Called ==
    /\ budget' \in [faults : 0 .. MaxFaults, seeds : 0 .. MaxSeeds]
    /\ UNCHANGED grant

\* Nobody but h moves.
Apart(h) == \A g \in Handlers \ {h} : task'[g] = task[g]

\* The refresh u is t, but for its phase and a mark it may have lost.
SameRefresh(u, t) ==
    /\ u.holds = t.holds /\ u.waited = t.waited /\ u.tok = t.tok
    /\ u.rlife = t.rlife
    /\ u.noted => t.noted

\* h goes on with its refresh, in phase p.
MovesTo(h, p) ==
    /\ task' \in [Handlers -> TaskType]
    /\ Apart(h) /\ task'[h].pc = p /\ SameRefresh(task'[h], task[h])

\* h has nothing of its refresh left but the lock, in phase p if it holds one.
Empty(u, p, hold) ==
    /\ u.pc = IF hold = "no" THEN "none" ELSE p
    /\ u.holds = hold /\ u.tok = "none" /\ u.rlife = 0 /\ ~ u.noted

\* h waits no more and nobody is told.
EndsIn(h, p, hold) ==
    task' \in [Handlers -> TaskType] /\ Apart(h) /\ Empty(task'[h], p, hold)

\* h ends with an error, which a holder leaves with those that wait.
Errs(h) ==
    /\ task' \in [Handlers -> TaskType]
    /\ Empty(task'[h], "mark", task[h].holds)
    /\ \A g \in Handlers \ {h} :
          /\ task'[g].pc = task[g].pc /\ task'[g].ttl = task[g].ttl
          /\ task'[g].holds = task[g].holds /\ task'[g].waited = task[g].waited
          /\ task'[g].tok = task[g].tok /\ task'[g].rlife = task[g].rlife
          /\ task'[g].noted =>
                \/ task[g].noted
                \/ task[h].holds = "live" /\ task[g].pc \in {"poll", "pollLock"}

LEMMA Phases == \A p \in {"none", "lock", "poll", "pollLock", "mark", "release",
                 "recheck", "checkFailed", "unexpired", "fetch", "call",
                 "reply", "write"} : p \in Pcs
  BY DEF Pcs, Refreshing

LEMMA NoTaskFields ==
  /\ NoTask \in TaskType /\ NoTask.holds = "no" /\ NoTask.tok = "none"
  /\ NoTask.rlife = 0 /\ NoTask.noted = FALSE
  BY Phases DEF NoTask, TaskType, Tokens

LEMMA LockSet ==
  LET u == [NoTask EXCEPT !.pc = "lock"]
  IN  /\ u \in TaskType /\ u.pc = "lock" /\ u.holds = "no" /\ u.tok = "none"
      /\ u.rlife = 0 /\ ~ u.noted
  BY NoTaskFields, Phases DEF TaskType

LEMMA PhaseSet ==
  ASSUME NEW t \in TaskType, NEW p \in Pcs
  PROVE  LET u == [t EXCEPT !.pc = p]
         IN  u \in TaskType /\ u.pc = p /\ u.ttl = t.ttl /\ SameRefresh(u, t)
  BY DEF TaskType, SameRefresh

LEMMA PhaseAndMarkSet ==
  ASSUME NEW t \in TaskType, NEW p \in Pcs
  PROVE  LET u == [t EXCEPT !.pc = p, !.noted = FALSE]
         IN  u \in TaskType /\ u.pc = p /\ ~ u.noted /\ SameRefresh(u, t)
  BY DEF TaskType, SameRefresh

LEMMA MarkSet ==
  ASSUME NEW t \in TaskType, NEW b \in BOOLEAN
  PROVE  LET u == [t EXCEPT !.noted = b]
         IN  /\ u \in TaskType /\ u.pc = t.pc /\ u.ttl = t.ttl
             /\ u.holds = t.holds /\ u.waited = t.waited /\ u.tok = t.tok
             /\ u.rlife = t.rlife /\ u.noted = b
  BY DEF TaskType

LEMMA TokenSet ==
  ASSUME NEW t \in TaskType, NEW k \in Tokens
  PROVE  LET u == [t EXCEPT !.tok = k]
         IN  /\ u \in TaskType /\ u.pc = t.pc /\ u.ttl = t.ttl
             /\ u.holds = t.holds /\ u.waited = t.waited /\ u.tok = k
             /\ u.rlife = t.rlife /\ u.noted = t.noted
  BY DEF TaskType

LEMMA LockedSet ==
  ASSUME NEW t \in TaskType
  PROVE  LET u == Locked(t)
         IN  /\ u \in TaskType /\ u.pc = "recheck" /\ u.holds = "live"
             /\ u.waited = t.waited /\ u.tok = t.tok /\ u.noted = t.noted
             /\ u.rlife = t.rlife
<1>1. "recheck" \in Pcs /\ 0 \in 0 .. LockTtl
  BY Phases
<1> QED BY <1>1 DEF TaskType, Locked

LEMMA PolledSet ==
  ASSUME NEW t \in TaskType, NEW w \in 0 .. LockTtl
  PROVE  LET u == [t EXCEPT !.pc = "poll", !.waited = TRUE, !.wait = w]
         IN  /\ u \in TaskType /\ u.pc = "poll" /\ u.waited
             /\ u.holds = t.holds /\ u.tok = t.tok /\ u.noted = t.noted
             /\ u.rlife = t.rlife
<1>1. "poll" \in Pcs
  BY Phases
<1> QED BY <1>1 DEF TaskType

LEMMA EmptySet ==
  ASSUME NEW p \in Pcs, NEW hold \in {"no", "live", "lapsed"}
  PROVE  LET u == [NoTask EXCEPT !.pc = p, !.holds = hold]
         IN  /\ u \in TaskType /\ u.pc = p /\ u.holds = hold
             /\ u.tok = "none" /\ u.rlife = 0 /\ ~ u.noted
  BY NoTaskFields DEF TaskType

LEMMA SizedSet ==
  ASSUME NEW t \in TaskType, NEW n \in Nat
  PROVE  LET u == [t EXCEPT !.pc = "write", !.ttl = n]
         IN  u \in TaskType /\ u.pc = "write" /\ u.ttl = n /\ SameRefresh(u, t)
<1>1. "write" \in Pcs
  BY Phases
<1> QED BY <1>1 DEF TaskType, SameRefresh

LEMMA Lifetimes ==
  /\ LockTtl \in Nat /\ LockTtl > 0 /\ MaxTtl \in Nat /\ Buffer \in Nat
  /\ DefaultRefresh \in Nat
  /\ MaxFaults \in Nat /\ MaxSeeds \in Nat
  /\ \A r \in RefreshLives : r \in Nat
  OBVIOUS

\* A promise is a life, and no longer than what it was made of or a key lasts.
LEMMA Promises ==
  ASSUME NEW l \in Nat
  PROVE  Promised(l) \in Nat /\ Promised(l) <= l /\ Promised(l) <= MaxTtl
  BY Lifetimes DEF Promised, Least

LEMMA GoEffect ==
  ASSUME TypeOK, NEW h \in Handlers, NEW t \in TaskType, Go(h, t)
  PROVE  task' \in [Handlers -> TaskType] /\ Apart(h) /\ task'[h] = t
  BY DEF TypeOK, Go, Apart

LEMMA SettleEffect ==
  ASSUME TypeOK, NEW h \in Handlers, Settle(h, task)
  PROVE  \A p : EndsIn(h, p, "no")
<1>1. task' \in [Handlers -> TaskType] /\ Apart(h) /\ task'[h] = NoTask
  BY NoTaskFields DEF TypeOK, Settle, Apart
<1> QED BY <1>1 DEF EndsIn, Empty, NoTask

LEMMA DoneEffect ==
  ASSUME TypeOK, NEW h \in Handlers, Done(h)
  PROVE  EndsIn(h, "release", task[h].holds)
<1>1. task[h].holds \in {"no", "live", "lapsed"}
  BY DEF TypeOK, TaskType
<1>2. CASE task[h].holds = "no"
  BY <1>2, SettleEffect DEF Done
<1>3. CASE task[h].holds # "no"
  <2> DEFINE hold == task[h].holds
             u == [NoTask EXCEPT !.pc = "release", !.holds = hold]
  <2>1. u \in TaskType /\ Empty(u, "release", hold)
    <3>1. "release" \in Pcs /\ hold \in {"no", "live", "lapsed"} /\ hold # "no"
      BY <1>1, <1>3, Phases
    <3> HIDE DEF hold
    <3>2. /\ u \in TaskType /\ u.pc = "release" /\ u.holds = hold
          /\ u.tok = "none" /\ u.rlife = 0 /\ ~ u.noted
      BY <3>1, NoTaskFields DEF TaskType
    <3> HIDE DEF u
    <3> QED BY <3>1, <3>2 DEF Empty
  <2>2. Go(h, u)
    BY <1>3 DEF Done
  <2> HIDE DEF u
  <2> QED BY <2>1, <2>2, GoEffect DEF EndsIn
<1> QED BY <1>2, <1>3

LEMMA FailsEffect ==
  ASSUME TypeOK, NEW h \in Handlers, Fails(h)
  PROVE  Errs(h)
<1> DEFINE told(g) == task[g].noted \/ (task[h].holds = "live" /\
                         task[g].pc \in {"poll", "pollLock"})
           noting == [g \in Handlers |-> [task[g] EXCEPT !.noted = told(g)]]
           gone == IF task[h].holds = "no" THEN NoTask
                   ELSE [NoTask EXCEPT !.pc = "mark", !.holds = task[h].holds]
<1>1. task' = [noting EXCEPT ![h] = gone]
  BY DEF Fails, Settle, TypeOK
<1>2. task[h].holds \in {"no", "live", "lapsed"}
  BY DEF TypeOK, TaskType
<1>3. gone \in TaskType /\ Empty(gone, "mark", task[h].holds)
  BY <1>2, NoTaskFields, EmptySet, Phases DEF Empty, NoTask
<1>4. \A g \in Handlers : task[g] \in TaskType /\ told(g) \in BOOLEAN
  BY DEF TypeOK, TaskType
<1>5. \A g \in Handlers :
         /\ noting[g] \in TaskType
         /\ noting[g].pc = task[g].pc /\ noting[g].ttl = task[g].ttl
         /\ noting[g].holds = task[g].holds
         /\ noting[g].waited = task[g].waited /\ noting[g].tok = task[g].tok
         /\ noting[g].rlife = task[g].rlife /\ noting[g].noted = told(g)
  <2> SUFFICES ASSUME NEW g \in Handlers
               PROVE  /\ noting[g] \in TaskType
                      /\ noting[g].pc = task[g].pc /\ noting[g].ttl = task[g].ttl
                      /\ noting[g].holds = task[g].holds
                      /\ noting[g].waited = task[g].waited
                      /\ noting[g].tok = task[g].tok
                      /\ noting[g].rlife = task[g].rlife
                      /\ noting[g].noted = told(g)
    OBVIOUS
  <2>1. noting[g] = [task[g] EXCEPT !.noted = told(g)]
    OBVIOUS
  <2>2. task[g] \in TaskType /\ told(g) \in BOOLEAN
    BY <1>4
  <2> HIDE DEF noting, told
  <2> QED BY <2>1, <2>2, MarkSet
<1>6. /\ task' \in [Handlers -> TaskType] /\ task'[h] = gone
      /\ \A g \in Handlers \ {h} : task'[g] = noting[g]
  <2>1. noting \in [Handlers -> TaskType]
    BY <1>5
  <2> HIDE DEF noting, gone
  <2> QED BY <1>1, <1>3, <2>1
<1> HIDE DEF noting, gone
<1> QED BY <1>3, <1>5, <1>6, ZenonT(60) DEF Errs

\* A step of a refresh that touches nothing but the refresh, before its answer.
Inner(h) ==
    /\ task[h].pc \in Refreshing \ {"reply", "write"}
    /\ Still
    /\ \/ EndsIn(h, "release", task[h].holds)
       \/ \E p \in {"checkFailed", "unexpired", "fetch"} : MovesTo(h, p)
       \/ Errs(h)

LEMMA MoveEffect ==
  ASSUME TypeOK, NEW h \in Handlers, NEW p \in Pcs,
         Go(h, [task[h] EXCEPT !.pc = p])
  PROVE  MovesTo(h, p) /\ task'[h].ttl = task[h].ttl
<1>1. task[h] \in TaskType
  BY DEF TypeOK
<1>2. [task[h] EXCEPT !.pc = p] \in TaskType
  BY <1>1, PhaseSet
<1>3. task' \in [Handlers -> TaskType] /\ Apart(h)
      /\ task'[h] = [task[h] EXCEPT !.pc = p]
  BY <1>2, GoEffect
<1> QED BY <1>1, <1>3, PhaseSet DEF MovesTo

LEMMA UnmarkedMoveEffect ==
  ASSUME TypeOK, NEW h \in Handlers, NEW p \in Pcs,
         Go(h, [task[h] EXCEPT !.pc = p, !.noted = FALSE])
  PROVE  MovesTo(h, p) /\ ~ task'[h].noted
<1>1. task[h] \in TaskType
  BY DEF TypeOK
<1>2. [task[h] EXCEPT !.pc = p, !.noted = FALSE] \in TaskType
  BY <1>1, PhaseAndMarkSet
<1> DEFINE u == [task[h] EXCEPT !.pc = p, !.noted = FALSE]
<1>3. task' \in [Handlers -> TaskType] /\ Apart(h) /\ task'[h] = u
  BY <1>2, GoEffect
<1>4. u.pc = p /\ ~ u.noted /\ SameRefresh(u, task[h])
  BY <1>1, PhaseAndMarkSet
<1> HIDE DEF u
<1> QED BY <1>3, <1>4 DEF MovesTo

LEMMA InnerSteps ==
  ASSUME TypeOK, NEW h \in Handlers,
         \/ Recheck(h) \/ CheckFailed(h) \/ UseUnexpired(h)
         \/ CallFails(h) \/ Refuse(h)
  PROVE  Inner(h)
<1>1. CASE Recheck(h)
  BY <1>1, DoneEffect, FailsEffect, MoveEffect, Phases
    DEF Recheck, Inner, Still, Refreshing, history
<1>2. CASE CheckFailed(h)
  BY <1>2, MoveEffect, UnmarkedMoveEffect, Phases
    DEF CheckFailed, Inner, Still, Refreshing, history
<1>3. CASE UseUnexpired(h)
  BY <1>3, DoneEffect, FailsEffect, MoveEffect, Phases
    DEF UseUnexpired, Inner, Still, Refreshing, history
<1>4. CASE CallFails(h) \/ Refuse(h)
  BY <1>4, FailsEffect DEF CallFails, Refuse, Inner, Still, Refreshing, history
<1> QED BY <1>1, <1>2, <1>3, <1>4

LEMMA StartEffect ==
  ASSUME TypeOK, NEW h \in Handlers, Start(h)
  PROVE  /\ Still /\ task[h].pc = "none"
         /\ task' \in [Handlers -> TaskType] /\ Apart(h)
         /\ task'[h].pc = "lock" /\ task'[h].holds = "no"
         /\ task'[h].tok = "none" /\ task'[h].rlife = 0 /\ ~ task'[h].noted
<1> DEFINE u == [NoTask EXCEPT !.pc = "lock"]
<1>1. /\ u \in TaskType /\ u.pc = "lock" /\ u.holds = "no" /\ u.tok = "none"
      /\ u.rlife = 0 /\ ~ u.noted
  BY LockSet
<1>2. Go(h, u) /\ Still /\ task[h].pc = "none"
  BY DEF Start, Still, history
<1> HIDE DEF u
<1> QED BY <1>1, <1>2, GoEffect

LEMMA BudgetTyped ==
  ASSUME TypeOK, Works \/ Breaks
  PROVE  budget' \in [faults : 0 .. MaxFaults, seeds : 0 .. MaxSeeds]
  BY Lifetimes DEF TypeOK, Works, Breaks

LEMMA TryLockEffect ==
  ASSUME TypeOK, NEW h \in Handlers, TryLock(h)
  PROVE  /\ Called /\ UNCHANGED <<hash, failed, provider, loose, lost>>
         /\ task[h].pc \in {"lock", "pollLock"}
         /\ task' \in [Handlers -> TaskType] /\ Apart(h)
         /\ task'[h].holds = IF task'[h].pc = "poll" THEN task[h].holds ELSE "live"
         /\ task'[h].tok = task[h].tok /\ task'[h].noted = task[h].noted
         /\ task'[h].rlife = task[h].rlife
         /\ \/ task'[h].pc = "recheck" /\ Take(h)
               /\ task'[h].waited = task[h].waited
            \/ task'[h].pc = "poll" /\ task'[h].waited
               /\ (UNCHANGED lock \/ Take(h))
<1>0. /\ Called /\ UNCHANGED <<hash, failed, provider, loose, lost>>
      /\ task[h].pc \in {"lock", "pollLock"}
  <2>1. Works \/ Breaks
    BY DEF TryLock, NotTaken
  <2> QED BY <2>1, BudgetTyped DEF TryLock, Called, history
<1>1. task[h] \in TaskType
  BY DEF TypeOK
<1>2. CASE Works /\ Take(h) /\ Go(h, Locked(task[h]))
  BY <1>0, <1>1, <1>2, LockedSet, GoEffect
<1>3. CASE NotTaken(h) /\
           Go(h, [task[h] EXCEPT
                      !.pc = "poll", !.waited = TRUE,
                      !.wait = IF task[h].pc = "lock" THEN LockTtl ELSE @])
  <2> DEFINE w == IF task[h].pc = "lock" THEN LockTtl ELSE task[h].wait
             u == [task[h] EXCEPT !.pc = "poll", !.waited = TRUE, !.wait = w]
  <2>1. w \in 0 .. LockTtl /\ Go(h, u)
    BY <1>1, <1>3 DEF TaskType
  <2>2. /\ u \in TaskType /\ u.pc = "poll" /\ u.waited
        /\ u.holds = task[h].holds /\ u.tok = task[h].tok
        /\ u.noted = task[h].noted /\ u.rlife = task[h].rlife
    <3> HIDE DEF w
    <3> QED BY <1>1, <2>1, PolledSet
  <2>3. UNCHANGED lock \/ Take(h)
    BY <1>3 DEF NotTaken
  <2> HIDE DEF u
  <2> QED BY <1>0, <2>1, <2>2, <2>3, GoEffect
<1> QED BY <1>2, <1>3 DEF TryLock

LEMMA PollEffect ==
  ASSUME TypeOK, NEW h \in Handlers, Poll(h)
  PROVE  /\ Still /\ task[h].pc = "poll"
         /\ EndsIn(h, "none", "no") \/ MovesTo(h, "pollLock")
  BY SettleEffect, MoveEffect, Phases DEF Poll, Still, history

LEMMA StopWaitingEffect ==
  ASSUME TypeOK, NEW h \in Handlers, StopWaiting(h)
  PROVE  /\ UNCHANGED <<hash, lock, failed, provider, grant, budget, lost>>
         /\ task[h].pc = "poll" /\ MovesTo(h, "recheck") /\ ~ task'[h].noted
         /\ loose' \in BOOLEAN /\ loose'
<1>1. loose' \in BOOLEAN /\ loose'
  BY Zenon DEF StopWaiting
<1> QED BY <1>1, UnmarkedMoveEffect, Phases DEF StopWaiting

LEMMA FetchEffect ==
  ASSUME TypeOK, NEW h \in Handlers, FetchRefreshToken(h)
  PROVE  \/ Inner(h)
         \/ /\ Still /\ task[h].pc = "fetch"
            /\ task' \in [Handlers -> TaskType] /\ Apart(h)
            /\ task'[h].pc = "call" /\ task'[h].holds = task[h].holds
            /\ task'[h].tok = hash.refresh /\ task'[h].rlife = 0
            /\ ~ task'[h].noted
<1>1. task[h].holds \in {"no", "live", "lapsed"} /\ hash.refresh \in Tokens
  BY DEF TypeOK, TaskType, HashType
<1>2. CASE Fails(h)
  BY <1>2, FailsEffect DEF FetchRefreshToken, Inner, Still, Refreshing, history
<1>3. CASE Go(h, [NoTask EXCEPT !.pc = "call", !.holds = task[h].holds,
                                !.tok = hash.refresh])
  <2> DEFINE hold == task[h].holds
             k == hash.refresh
             u == [NoTask EXCEPT !.pc = "call", !.holds = hold, !.tok = k]
  <2>1. /\ u \in TaskType /\ u.pc = "call" /\ u.holds = hold
        /\ u.tok = k /\ u.rlife = 0 /\ ~ u.noted
    <3>1. hold \in {"no", "live", "lapsed"} /\ k \in Tokens
      BY <1>1
    <3> HIDE DEF hold, k
    <3> QED BY <3>1, NoTaskFields, Phases DEF TaskType
  <2>2. Go(h, u) /\ Still /\ task[h].pc = "fetch"
    BY <1>3 DEF FetchRefreshToken, Still, history
  <2> HIDE DEF u
  <2> QED BY <2>1, <2>2, GoEffect
<1> QED BY <1>2, <1>3 DEF FetchRefreshToken

\* The life of the hash covers what is known of the refresh token in it, as
\* far as a key may last.
LEMMA LifeCovers ==
  ASSUME NEW a \in Nat, NEW b \in BOOLEAN, NEW r \in Nat
  PROVE  /\ credentialTtlSeconds(a, b, r) \in Nat
         /\ b => credentialTtlSeconds(a, b, r) >= Promised(Known(r))
<1>1. DefaultRefresh \in Nat /\ MinTtl \in Nat /\ MaxTtl \in Nat /\ Buffer \in Nat
  OBVIOUS
<1> QED BY <1>1 DEF credentialTtlSeconds, Known, Promised, Most, Least

LEMMA SaveReadEffect ==
  ASSUME TypeOK, NEW h \in Handlers, SaveRead(h),
         NEW n \in Nat,
         n = credentialTtlSeconds(task[h].life,
                task[h].tok # "none" \/ hash.refresh # "none",
                refreshTtlSeconds(task[h].tok, task[h].rlife, hash.refreshLeft))
  PROVE  /\ Still /\ task[h].pc = "reply"
         /\ MovesTo(h, "write") /\ task'[h].ttl = n
<1> DEFINE u == [task[h] EXCEPT !.pc = "write", !.ttl = n]
<1>1. task[h] \in TaskType
  BY DEF TypeOK
<1>2. u \in TaskType /\ u.pc = "write" /\ u.ttl = n /\ SameRefresh(u, task[h])
  BY <1>1, SizedSet
<1>3. Go(h, u) /\ Still /\ task[h].pc = "reply"
  BY DEF SaveRead, Still, history
<1> HIDE DEF u
<1> QED BY <1>2, <1>3, GoEffect DEF MovesTo

\* u is t, but for its mark.
SameButMark(u, t) ==
    /\ u.pc = t.pc /\ u.holds = t.holds /\ u.waited = t.waited /\ u.tok = t.tok
    /\ u.rlife = t.rlife /\ u.ttl = t.ttl

LEMMA MarkFailedEffect ==
  ASSUME TypeOK, NEW h \in Handlers, MarkFailed(h)
  PROVE  /\ Called /\ UNCHANGED <<hash, lock, provider, loose, lost>>
         /\ task[h].pc = "mark"
         /\ task' \in [Handlers -> TaskType]
         /\ task'[h].pc = "release" /\ SameRefresh(task'[h], task[h])
         /\ \A g \in Handlers \ {h} : SameButMark(task'[g], task[g])
         /\ \A g \in Handlers : task'[g].noted => task[g].noted
         /\ \/ failed' = LockTtl
            \/ failed' = failed /\ \A g \in Handlers : ~ task'[g].noted
<1>0. /\ Called /\ UNCHANGED <<hash, lock, provider, loose, lost>>
      /\ task[h].pc = "mark"
  BY BudgetTyped DEF MarkFailed, Called, history
<1>1. CASE failed' = LockTtl /\ Go(h, [task[h] EXCEPT !.pc = "release"])
  BY <1>0, <1>1, MoveEffect, Phases
    DEF MovesTo, Apart, SameButMark, SameRefresh
<1>2. CASE /\ UNCHANGED failed
           /\ task' = [g \in Handlers |->
                         [task[g] EXCEPT !.noted = FALSE,
                                         !.pc = IF g = h THEN "release" ELSE @]]
  <2>1. ASSUME NEW g \in Handlers
        PROVE  /\ task'[g] \in TaskType /\ ~ task'[g].noted
               /\ task'[g].pc = IF g = h THEN "release" ELSE task[g].pc
               /\ SameRefresh(task'[g], task[g]) /\ task'[g].ttl = task[g].ttl
    <3> DEFINE p == IF g = h THEN "release" ELSE task[g].pc
    <3>1. task[g] \in TaskType
      BY DEF TypeOK
    <3>2. p \in Pcs
      BY <3>1, Phases DEF TaskType
    <3>3. task'[g] = [task[g] EXCEPT !.noted = FALSE, !.pc = p]
      BY <1>2
    <3> HIDE DEF p
    <3>4. /\ task'[g] \in TaskType /\ ~ task'[g].noted /\ task'[g].pc = p
          /\ SameRefresh(task'[g], task[g]) /\ task'[g].ttl = task[g].ttl
      BY <3>1, <3>2, <3>3 DEF TaskType, SameRefresh
    <3> QED BY <3>4 DEF p
  <2>2. task' \in [Handlers -> TaskType]
    BY <1>2, <2>1
  <2> QED BY <1>0, <1>2, <2>1, <2>2, ZenonT(60) DEF SameButMark, SameRefresh
<1> QED BY <1>1, <1>2 DEF MarkFailed

LEMMA TickEffect ==
  ASSUME TypeOK, Tick
  PROVE  /\ task' \in [Handlers -> TaskType]
         /\ \A g \in Handlers :
               /\ task'[g].pc = task[g].pc /\ task'[g].ttl = task[g].ttl
               /\ task'[g].waited = task[g].waited
               /\ task'[g].tok = task[g].tok /\ task'[g].rlife = task[g].rlife
               /\ ~ task'[g].noted
               /\ task'[g].holds =
                     IF task[g].holds = "live" /\ LockLapses THEN "lapsed"
                     ELSE task[g].holds
<1>1. ASSUME NEW g \in Handlers
      PROVE  /\ task'[g] \in TaskType
             /\ task'[g].pc = task[g].pc /\ task'[g].ttl = task[g].ttl
             /\ task'[g].waited = task[g].waited
             /\ task'[g].tok = task[g].tok /\ task'[g].rlife = task[g].rlife
             /\ ~ task'[g].noted
             /\ task'[g].holds =
                   IF task[g].holds = "live" /\ LockLapses THEN "lapsed"
                   ELSE task[g].holds
  <2> DEFINE w == Less(task[g].wait)
             x == IF task[g].holds = "live" /\ LockLapses THEN "lapsed"
                  ELSE task[g].holds
  <2>1. task[g] \in TaskType
    BY DEF TypeOK
  <2>2. w \in 0 .. LockTtl /\ x \in {"no", "live", "lapsed"}
    BY <2>1 DEF TaskType, Less
  <2>3. task'[g] = [task[g] EXCEPT !.wait = w, !.noted = FALSE, !.holds = x]
    BY DEF Tick
  <2> HIDE DEF w, x
  <2>4. /\ task'[g] \in TaskType
        /\ task'[g].pc = task[g].pc /\ task'[g].ttl = task[g].ttl
        /\ task'[g].waited = task[g].waited
        /\ task'[g].tok = task[g].tok /\ task'[g].rlife = task[g].rlife
        /\ ~ task'[g].noted /\ task'[g].holds = x
    BY <2>1, <2>2, <2>3 DEF TaskType
  <2> QED BY <2>4 DEF x
<1> QED BY <1>1 DEF Tick

\* u is t, but for its refresh token.
SameButToken(u, t) ==
    /\ u.pc = t.pc /\ u.holds = t.holds /\ u.waited = t.waited
    /\ u.rlife = t.rlife /\ u.ttl = t.ttl /\ u.noted = t.noted

LEMMA TickFrame ==
  ASSUME TypeOK, Tick
  PROVE  /\ hash' \in HashType
         /\ lock' \in [owner : Handlers \cup {Free}, left : Nat]
         /\ hash'.refreshLeft <= hash.refreshLeft
         /\ \/ hash'.refresh = "none"
            \/ /\ hash.key > 1 /\ hash'.refresh = hash.refresh
               /\ hash'.refreshLeft = Less(hash.refreshLeft)
               /\ hash'.key = hash.key - 1
         /\ \/ lock.left <= 1 /\ lock' = Unheld
            \/ /\ lock.left > 1 /\ lock'.owner = lock.owner
               /\ lock'.left = lock.left - 1
         /\ failed' = Less(failed) /\ provider' = Less(provider)
         /\ loose' \in BOOLEAN
         /\ loose' <=> loose \/ \E h \in Handlers :
                        /\ LockLapses /\ task[h].holds = "live"
                        /\ task[h].pc \in Refreshing
         /\ UNCHANGED <<grant, budget, lost>>
<1>1. /\ hash' \in HashType /\ hash'.refreshLeft <= hash.refreshLeft
      /\ \/ hash'.refresh = "none"
         \/ /\ hash.key > 1 /\ hash'.refresh = hash.refresh
            /\ hash'.refreshLeft = Less(hash.refreshLeft)
            /\ hash'.key = hash.key - 1
  <2>1. CASE hash.key <= 1
    <3>1. hash' = NoHash /\ hash.refreshLeft \in Nat
      BY <2>1 DEF Tick, TypeOK, HashType
    <3> QED BY <3>1 DEF NoHash, HashType, Tokens
  <2>2. CASE ~ (hash.key <= 1)
    <3>1. hash' = [hash EXCEPT !.access = Less(@), !.refreshLeft = Less(@),
                               !.key = Less(@)]
      BY <2>2 DEF Tick
    <3>2. hash \in HashType /\ hash.key > 1
      BY <2>2 DEF TypeOK, HashType
    <3>3. /\ Less(hash.access) \in Nat /\ Less(hash.refreshLeft) \in Nat
          /\ Less(hash.key) = hash.key - 1 /\ Less(hash.key) \in Nat
          /\ Less(hash.refreshLeft) <= hash.refreshLeft
      BY <3>2 DEF HashType, Less
    <3> DEFINE a == Less(hash.access)
               r == Less(hash.refreshLeft)
               k == Less(hash.key)
    <3>4. /\ hash' = [hash EXCEPT !.access = a, !.refreshLeft = r, !.key = k]
          /\ a \in Nat /\ r \in Nat /\ k \in Nat
      BY <3>1, <3>3
    <3> HIDE DEF a, r, k
    <3>5. /\ hash' \in HashType /\ hash'.refresh = hash.refresh
          /\ hash'.refreshLeft = r /\ hash'.key = k
      BY <3>2, <3>4 DEF HashType
    <3> QED BY <3>2, <3>3, <3>5 DEF r, k
  <2> QED BY <2>1, <2>2
<1>2. /\ lock' \in [owner : Handlers \cup {Free}, left : Nat]
      /\ \/ lock.left <= 1 /\ lock' = Unheld
         \/ /\ lock.left > 1 /\ lock'.owner = lock.owner
            /\ lock'.left = lock.left - 1
  <2>1. CASE lock.left <= 1
    BY <2>1 DEF Tick, Unheld
  <2>2. CASE ~ (lock.left <= 1)
    <3>1. lock' = [lock EXCEPT !.left = @ - 1]
      BY <2>2 DEF Tick
    <3>2. lock \in [owner : Handlers \cup {Free}, left : Nat]
      BY DEF TypeOK
    <3> QED BY <2>2, <3>1, <3>2
  <2> QED BY <2>1, <2>2
<1>3. /\ loose' \in BOOLEAN
      /\ loose' <=> loose \/ \E h \in Handlers :
                     /\ LockLapses /\ task[h].holds = "live"
                     /\ task[h].pc \in Refreshing
  BY Zenon DEF Tick
<1> QED BY <1>1, <1>2, <1>3 DEF Tick

LEMMA CopiesEffect ==
  ASSUME TypeOK, NEW s \in Tokens
  PROVE  /\ CopiesInTasks(s) \in [Handlers -> TaskType]
         /\ \A g \in Handlers :
               /\ SameButToken(CopiesInTasks(s)[g], task[g])
               /\ CopiesInTasks(s)[g].tok = Copies(s, task[g].tok)
<1>1. ASSUME NEW g \in Handlers
      PROVE  /\ CopiesInTasks(s)[g] \in TaskType
             /\ SameButToken(CopiesInTasks(s)[g], task[g])
             /\ CopiesInTasks(s)[g].tok = Copies(s, task[g].tok)
  <2> DEFINE k == Copies(s, task[g].tok)
  <2>1. task[g] \in TaskType
    BY DEF TypeOK
  <2>2. k \in Tokens
    BY <2>1 DEF TaskType, Copies
  <2>3. CopiesInTasks(s)[g] = [task[g] EXCEPT !.tok = k]
    BY DEF CopiesInTasks
  <2> HIDE DEF k
  <2>4. [task[g] EXCEPT !.tok = k] \in TaskType
    BY <2>1, <2>2, TokenSet
  <2>5. SameButToken([task[g] EXCEPT !.tok = k], task[g])
        /\ [task[g] EXCEPT !.tok = k].tok = k
    BY <2>1, <2>2 DEF TaskType, SameButToken
  <2> QED BY <2>3, <2>4, <2>5 DEF k
<1> QED BY <1>1 DEF CopiesInTasks

LEMMA RedeemEffect ==
  ASSUME TypeOK, NEW h \in Handlers, NEW kind \in Answers, NEW life \in Lives,
         NEW rlife \in RefreshLives, Redeem(h, kind, life, rlife)
  PROVE  /\ UNCHANGED <<lock, failed, grant, budget, loose, lost>>
         /\ task[h].pc = "call" /\ task[h].tok \in {"none", "current"}
         /\ task[h].tok = "none" => kind = "omitted" /\ rlife = 0
         /\ hash' = IF kind = "rotated"
                    THEN [hash EXCEPT !.refresh = Copies("spent", @)] ELSE hash
         /\ provider' = IF rlife > 0 THEN Promised(rlife)
                        ELSE IF kind = "omitted" THEN provider
                        ELSE Promised(DefaultRefresh)
         /\ task' \in [Handlers -> TaskType]
         /\ task'[h].pc = "reply" /\ task'[h].rlife = rlife
         /\ task'[h].holds = task[h].holds /\ task'[h].waited = task[h].waited
         /\ task'[h].noted = task[h].noted
         /\ task'[h].tok = IF kind = "omitted" THEN "none" ELSE "current"
         /\ \A g \in Handlers \ {h} :
               /\ SameButToken(task'[g], task[g])
               /\ task'[g].tok = IF kind = "rotated"
                                 THEN Copies("spent", task[g].tok)
                                 ELSE task[g].tok
<1>0. /\ UNCHANGED <<lock, failed, grant, budget, loose, lost>>
      /\ task[h].pc = "call" /\ task[h].tok \in {"none", "current"}
      /\ task[h].tok = "none" => kind = "omitted" /\ rlife = 0
      /\ hash' = IF kind = "rotated"
                 THEN [hash EXCEPT !.refresh = Copies("spent", @)] ELSE hash
      /\ provider' = IF rlife > 0 THEN Promised(rlife)
                     ELSE IF kind = "omitted" THEN provider
                     ELSE Promised(DefaultRefresh)
  BY DEF Redeem, Accepts, history
<1> DEFINE k == IF kind = "omitted" THEN "none" ELSE "current"
           l == expiresIn(life)
           u == [task[h] EXCEPT !.pc = "reply", !.life = l, !.rlife = rlife,
                                !.tok = k]
<1>1. task[h] \in TaskType
  BY DEF TypeOK
<1>2. k \in Tokens /\ l \in 0 .. MaxLife /\ rlife \in Nat
  <2>1. k \in Tokens /\ rlife \in Nat /\ life \in Nat
    BY DEF Tokens
  <2>2. MaxLife \in Nat /\ DefaultLife \in Nat /\ DefaultLife <= MaxLife
    OBVIOUS
  <2> QED BY <2>1, <2>2 DEF expiresIn
<1>3. /\ u \in TaskType /\ u.pc = "reply" /\ u.tok = k /\ u.rlife = rlife
      /\ u.holds = task[h].holds /\ u.waited = task[h].waited
      /\ u.noted = task[h].noted
  <2> HIDE DEF k, l
  <2> QED BY <1>1, <1>2, Phases DEF TaskType
<1>4. IF kind = "rotated" THEN task' = [CopiesInTasks("spent") EXCEPT ![h] = u]
      ELSE task' = [task EXCEPT ![h] = u]
  BY DEF Redeem
<1>5. CASE kind = "rotated"
  <2>1. "spent" \in Tokens
    BY DEF Tokens
  <2> HIDE DEF u
  <2>2. /\ task' \in [Handlers -> TaskType] /\ task'[h] = u
        /\ \A g \in Handlers \ {h} : task'[g] = CopiesInTasks("spent")[g]
    BY <1>3, <1>4, <1>5, <2>1, CopiesEffect
  <2> QED BY <1>0, <1>3, <1>5, <2>1, <2>2, CopiesEffect
<1>6. CASE kind = "omitted"
  <2> HIDE DEF u
  <2>1. /\ task' \in [Handlers -> TaskType] /\ task'[h] = u
        /\ \A g \in Handlers \ {h} : task'[g] = task[g]
    BY <1>3, <1>4, <1>6 DEF TypeOK
  <2> QED BY <1>0, <1>3, <1>6, <2>1 DEF SameButToken
<1> QED BY <1>5, <1>6 DEF Answers

LEMMA SizeTyped ==
  ASSUME TypeOK, NEW h \in Handlers,
         NEW n, n = credentialTtlSeconds(task[h].life,
                task[h].tok # "none" \/ hash.refresh # "none",
                refreshTtlSeconds(task[h].tok, task[h].rlife, hash.refreshLeft))
  PROVE  n \in Nat
<1> DEFINE r == refreshTtlSeconds(task[h].tok, task[h].rlife, hash.refreshLeft)
           a == task[h].life
           b == task[h].tok # "none" \/ hash.refresh # "none"
<1>1. a \in Nat /\ task[h].rlife \in Nat /\ hash.refreshLeft \in Nat
  BY DEF TypeOK, TaskType, HashType
<1>2. r \in Nat /\ b \in BOOLEAN
  BY <1>1 DEF refreshTtlSeconds
<1> HIDE DEF r, a, b
<1>3. credentialTtlSeconds(a, b, r) \in Nat
  BY <1>1, <1>2, LifeCovers
<1> QED BY <1>3 DEF r, a, b

LEMMA StoredTyped ==
  ASSUME TypeOK, NEW h \in Handlers
  PROVE  Stored(task[h]) \in HashType
<1>1. /\ task[h].life \in Nat /\ task[h].rlife \in Nat /\ task[h].ttl \in Nat
      /\ task[h].tok \in Tokens /\ hash.refreshLeft \in Nat
      /\ hash.refresh \in Tokens
  BY DEF TypeOK, TaskType, HashType
<1> QED BY <1>1 DEF Stored, HashType

LEMMA SeededTyped ==
  ASSUME NEW life \in Lives \ {0}, NEW rlife \in RefreshLives \ {0}
  PROVE  /\ Seeded(life, rlife) \in HashType
         /\ Seeded(life, rlife).refresh = "current"
         /\ Seeded(life, rlife).key >= Promised(rlife)
         /\ Seeded(life, rlife).refreshLeft = rlife
<1>1. life \in Nat /\ rlife \in Nat /\ rlife > 0
  BY Lifetimes
<1>2. /\ credentialTtlSeconds(life, TRUE, rlife) \in Nat
      /\ credentialTtlSeconds(life, TRUE, rlife) >= Promised(rlife)
  BY <1>1, LifeCovers DEF Known
<1> QED BY <1>1, <1>2 DEF Seeded, HashType, Tokens

LEMMA StoredFields ==
  ASSUME NEW h \in Handlers
  PROVE  /\ Stored(task[h]).refresh =
               IF task[h].tok = "none" THEN hash.refresh ELSE task[h].tok
         /\ Stored(task[h]).key = task[h].ttl
         /\ Stored(task[h]).refreshLeft =
               IF task[h].rlife > 0 THEN task[h].rlife
               ELSE IF task[h].tok # "none" THEN 0 ELSE hash.refreshLeft
  BY DEF Stored

LEMMA SaveWriteEffect ==
  ASSUME TypeOK, NEW h \in Handlers, SaveWrite(h)
  PROVE  /\ Called /\ UNCHANGED <<lock, failed, provider, loose>>
         /\ task[h].pc = "write"
         /\ \/ /\ hash' = Stored(task[h]) /\ UNCHANGED lost
               /\ EndsIn(h, "release", task[h].holds) \/ Errs(h)
            \/ UNCHANGED hash /\ lost' \in BOOLEAN /\ lost' /\ Errs(h)
<1>1. Works \/ Breaks
  BY DEF SaveWrite
<1>2. \/ hash' = Stored(task[h]) /\ UNCHANGED lost /\ (Done(h) \/ Fails(h))
      \/ UNCHANGED hash /\ lost' \in BOOLEAN /\ lost' /\ Fails(h)
  BY Zenon DEF SaveWrite
<1>3. /\ Called /\ UNCHANGED <<lock, failed, provider, loose>>
      /\ task[h].pc = "write"
  BY <1>1, BudgetTyped DEF SaveWrite, Called
<1> QED BY <1>2, <1>3, DoneEffect, FailsEffect

LEMMA ReleaseEffect ==
  ASSUME TypeOK, NEW h \in Handlers, Release(h)
  PROVE  /\ Called /\ UNCHANGED <<hash, failed, provider, loose, lost>>
         /\ task[h].pc = "release"
         /\ lock' = lock \/ (lock.owner = h /\ lock' = Unheld)
         /\ EndsIn(h, "none", "no")
<1>1. Works \/ Breaks
  BY DEF Release
<1>2. EndsIn(h, "none", "no")
  BY SettleEffect DEF Release
<1>3. lock' = lock \/ (lock.owner = h /\ lock' = Unheld)
  BY Zenon DEF Release
<1>4. Called
  BY <1>1, BudgetTyped DEF Release, Called
<1> QED BY <1>2, <1>3, <1>4 DEF Release, history

LEMMA AnswerLostEffect ==
  ASSUME TypeOK, NEW h \in Handlers, AnswerLost(h)
  PROVE  /\ Called /\ UNCHANGED <<hash, lock, failed, provider, loose>>
         /\ task[h].pc = "reply" /\ lost' \in BOOLEAN /\ lost' /\ Errs(h)
<1>1. lost' \in BOOLEAN /\ lost'
  BY Zenon DEF AnswerLost
<1> QED BY <1>1, BudgetTyped, FailsEffect DEF AnswerLost, Called

LEMMA CrashEffect ==
  ASSUME TypeOK, NEW h \in Handlers, Crash(h)
  PROVE  /\ Called /\ UNCHANGED <<hash, lock, failed, provider, loose>>
         /\ EndsIn(h, "none", "no")
         /\ lost' \in BOOLEAN
         /\ lost' <=> lost \/ task[h].pc \in {"reply", "write"}
<1>1. /\ lost' \in BOOLEAN
      /\ lost' <=> lost \/ task[h].pc \in {"reply", "write"}
  BY Zenon DEF Crash
<1> QED BY <1>1, BudgetTyped, SettleEffect DEF Crash, Called

LEMMA SetEffect ==
  ASSUME TypeOK, NEW life \in Lives \ {0}, NEW rlife \in RefreshLives \ {0},
         SetGrantTokens(life, rlife)
  PROVE  /\ Called /\ UNCHANGED <<lock, failed, loose>>
         /\ hash' = Seeded(life, rlife) /\ provider' = Promised(rlife)
         /\ lost' \in BOOLEAN /\ (lost' <=> lost \/ InFlight)
         /\ task' \in [Handlers -> TaskType]
         /\ \A g \in Handlers :
               /\ SameButToken(task'[g], task[g])
               /\ task'[g].tok = Copies("old", task[g].tok)
<1>1. budget' \in [faults : 0 .. MaxFaults, seeds : 0 .. MaxSeeds]
  BY Lifetimes DEF TypeOK, SetGrantTokens
<1>2. "old" \in Tokens /\ task' = CopiesInTasks("old")
  BY DEF Tokens, SetGrantTokens
<1>3. /\ task' \in [Handlers -> TaskType]
      /\ \A g \in Handlers :
            /\ SameButToken(task'[g], task[g])
            /\ task'[g].tok = Copies("old", task[g].tok)
  BY <1>2, CopiesEffect
<1>4. lost' \in BOOLEAN /\ (lost' <=> lost \/ InFlight)
  BY Zenon DEF SetGrantTokens, InFlight
<1> QED BY <1>1, <1>3, <1>4 DEF SetGrantTokens, Called

---------------------------------------------------------------------------
(* Every step keeps the invariant.                                         *)

LEMMA TypeKept ==
  ASSUME Inv, [Next]_vars
  PROVE  TypeOK' /\ Capped'
<1>0. TypeOK /\ Capped /\ Exclusive /\ Marked /\ OneCurrent /\ NoReplay /\ Sized
  BY DEF Inv
<1>1. ASSUME NEW h \in Handlers, Inner(h)
      PROVE  TypeOK' /\ Capped'
  BY <1>0, <1>1
    DEF Inner, Still, Errs, EndsIn, MovesTo, Apart, SameRefresh, Empty,
        Refreshing, TypeOK, HashType, Capped
<1>2. ASSUME NEW h \in Handlers, Start(h)
      PROVE  TypeOK' /\ Capped'
  BY <1>0, <1>2, StartEffect DEF Apart, Still, TypeOK, HashType, Capped
<1>3. ASSUME NEW h \in Handlers, TryLock(h)
      PROVE  TypeOK' /\ Capped'
  BY <1>0, <1>3, TryLockEffect, Lifetimes
    DEF Called, Take, Apart, TypeOK, HashType, Capped
<1>4. ASSUME NEW h \in Handlers, Poll(h)
      PROVE  TypeOK' /\ Capped'
  BY <1>0, <1>4, PollEffect
    DEF Still, MovesTo, EndsIn, Empty, Apart, SameRefresh, TypeOK, HashType,
        Capped
<1>5. ASSUME NEW h \in Handlers, StopWaiting(h)
      PROVE  TypeOK' /\ Capped'
  BY <1>0, <1>5, StopWaitingEffect
    DEF MovesTo, Apart, SameRefresh, TypeOK, HashType, Capped
<1>6. ASSUME NEW h \in Handlers, FetchRefreshToken(h)
      PROVE  TypeOK' /\ Capped'
  BY <1>0, <1>6, <1>1, FetchEffect DEF Apart, Still, TypeOK, HashType, Capped
<1>7. ASSUME NEW h \in Handlers, SaveRead(h)
      PROVE  TypeOK' /\ Capped'
  BY <1>0, <1>7, SizeTyped, SaveReadEffect
    DEF Still, MovesTo, Apart, SameRefresh, TypeOK, HashType, Capped
<1>8. ASSUME NEW h \in Handlers, SaveWrite(h)
      PROVE  TypeOK' /\ Capped'
  BY <1>0, <1>8, SaveWriteEffect, StoredTyped
    DEF Called, Errs, EndsIn, Empty, Apart, TypeOK, HashType, Capped
<1>9. ASSUME NEW h \in Handlers, MarkFailed(h)
      PROVE  TypeOK' /\ Capped'
  BY <1>0, <1>9, MarkFailedEffect, Lifetimes
    DEF Called, SameButMark, SameRefresh, TypeOK, HashType, Capped
<1>10. ASSUME NEW h \in Handlers, Release(h)
      PROVE  TypeOK' /\ Capped'
  BY <1>0, <1>10, ReleaseEffect
    DEF Called, EndsIn, Empty, Apart, Unheld, TypeOK, HashType, Capped
<1>11. ASSUME NEW h \in Handlers, AnswerLost(h)
      PROVE  TypeOK' /\ Capped'
  BY <1>0, <1>11, AnswerLostEffect
    DEF Called, Errs, Empty, TypeOK, HashType, Capped
<1>12. ASSUME NEW h \in Handlers, Crash(h)
      PROVE  TypeOK' /\ Capped'
  BY <1>0, <1>12, CrashEffect
    DEF Called, EndsIn, Empty, Apart, TypeOK, HashType, Capped
<1>13. ASSUME NEW h \in Handlers, NEW kind \in Answers,
             NEW life \in Lives, NEW rlife \in RefreshLives,
             Redeem(h, kind, life, rlife)
      PROVE  TypeOK' /\ Capped'
  <2>1. hash' \in HashType /\ hash'.refreshLeft = hash.refreshLeft
    <3>1. Copies("spent", hash.refresh) \in Tokens
      BY <1>0 DEF TypeOK, HashType, Copies, Tokens
    <3>2. CASE kind = "rotated"
      <4>1. hash' = [hash EXCEPT !.refresh = Copies("spent", hash.refresh)]
        BY <1>0, <1>13, <3>2, RedeemEffect
      <4> QED BY <1>0, <3>1, <4>1 DEF TypeOK, HashType
    <3>3. CASE kind = "omitted"
      BY <1>0, <1>13, <3>3, RedeemEffect DEF TypeOK
    <3> QED BY <3>2, <3>3 DEF Answers
  <2>2. provider' \in Nat /\ provider' <= MaxTtl
    BY <1>0, <1>13, RedeemEffect, Promises, Lifetimes DEF TypeOK, Capped
  <2> QED BY <1>0, <1>13, <2>1, <2>2, RedeemEffect, Lifetimes
          DEF SameButToken, TypeOK, Capped
<1>14. ASSUME NEW life \in Lives \ {0}, NEW rlife \in RefreshLives \ {0},
             SetGrantTokens(life, rlife)
      PROVE  TypeOK' /\ Capped'
  BY <1>0, <1>14, SetEffect, SeededTyped, Promises, Lifetimes
    DEF Called, Copies, SameButToken, TypeOK, HashType, Capped
<1>15. ASSUME Tick
      PROVE  TypeOK' /\ Capped'
  BY <1>0, <1>15, TickEffect, TickFrame, Lifetimes
    DEF Less, LockLapses, Unheld, TypeOK, HashType, Capped
<1>16. ASSUME UNCHANGED vars
      PROVE  TypeOK' /\ Capped'
  BY <1>0, <1>16 DEF vars, history, TypeOK, HashType, Capped
<1>17. ASSUME NEW h \in Handlers, RefreshStep(h) \/ Refuse(h)
      PROVE  TypeOK' /\ Capped'
  BY <1>0, <1>1, <1>3, <1>4, <1>5, <1>6, <1>7, <1>8, <1>9, <1>10, <1>17,
     InnerSteps DEF RefreshStep
<1> QED BY <1>2, <1>11, <1>12, <1>13, <1>14, <1>15, <1>16, <1>17 DEF Next

LEMMA ExclusiveKept ==
  ASSUME Inv, [Next]_vars
  PROVE  Exclusive'
<1>0. TypeOK /\ Capped /\ Exclusive /\ Marked /\ OneCurrent /\ NoReplay /\ Sized
  BY DEF Inv
<1>1. ASSUME NEW h \in Handlers, Inner(h)
      PROVE  Exclusive'
  BY <1>0, <1>1
    DEF Inner, Still, Errs, EndsIn, MovesTo, Apart, SameRefresh, Empty,
        Refreshing, Exclusive, TypeOK
<1>2. ASSUME NEW h \in Handlers, Start(h)
      PROVE  Exclusive'
  BY <1>0, <1>2, StartEffect DEF Apart, Still, Exclusive, Refreshing, TypeOK
<1>3. ASSUME NEW h \in Handlers, TryLock(h)
      PROVE  Exclusive'
  BY <1>0, <1>3, TryLockEffect, Lifetimes
    DEF Called, Take, Apart, Exclusive, Refreshing, TypeOK
<1>4. ASSUME NEW h \in Handlers, Poll(h)
      PROVE  Exclusive'
  BY <1>0, <1>4, PollEffect
    DEF Still, MovesTo, EndsIn, Empty, Apart, SameRefresh, Exclusive,
        Refreshing, TypeOK
<1>5. ASSUME NEW h \in Handlers, StopWaiting(h)
      PROVE  Exclusive'
  BY <1>0, <1>5, StopWaitingEffect
    DEF MovesTo, Apart, SameRefresh, Exclusive, Refreshing, TypeOK
<1>6. ASSUME NEW h \in Handlers, FetchRefreshToken(h)
      PROVE  Exclusive'
  BY <1>0, <1>6, <1>1, FetchEffect
    DEF Apart, Still, Exclusive, Refreshing, TypeOK
<1>7. ASSUME NEW h \in Handlers, SaveRead(h)
      PROVE  Exclusive'
  BY <1>0, <1>7, SizeTyped, SaveReadEffect
    DEF Still, MovesTo, Apart, SameRefresh, Exclusive, Refreshing, TypeOK
<1>8. ASSUME NEW h \in Handlers, SaveWrite(h)
      PROVE  Exclusive'
  BY <1>0, <1>8, SaveWriteEffect, StoredTyped
    DEF Called, Errs, EndsIn, Empty, Apart, Exclusive, Refreshing, TypeOK
<1>9. ASSUME NEW h \in Handlers, MarkFailed(h)
      PROVE  Exclusive'
  BY <1>0, <1>9, MarkFailedEffect, Lifetimes
    DEF Called, SameButMark, SameRefresh, Exclusive, Refreshing, TypeOK
<1>10. ASSUME NEW h \in Handlers, Release(h)
      PROVE  Exclusive'
  BY <1>0, <1>10, ReleaseEffect
    DEF Called, EndsIn, Empty, Apart, Unheld, Exclusive, Refreshing, TypeOK
<1>11. ASSUME NEW h \in Handlers, AnswerLost(h)
      PROVE  Exclusive'
  BY <1>0, <1>11, AnswerLostEffect
    DEF Called, Errs, Empty, Exclusive, Refreshing, TypeOK
<1>12. ASSUME NEW h \in Handlers, Crash(h)
      PROVE  Exclusive'
  BY <1>0, <1>12, CrashEffect
    DEF Called, EndsIn, Empty, Apart, Exclusive, Refreshing, TypeOK
<1>13. ASSUME NEW h \in Handlers, NEW kind \in Answers,
             NEW life \in Lives, NEW rlife \in RefreshLives,
             Redeem(h, kind, life, rlife)
      PROVE  Exclusive'
  BY <1>0, <1>13, RedeemEffect, Lifetimes
    DEF Copies, SameButToken, Answers, Exclusive, Refreshing, TypeOK
<1>14. ASSUME NEW life \in Lives \ {0}, NEW rlife \in RefreshLives \ {0},
             SetGrantTokens(life, rlife)
      PROVE  Exclusive'
  BY <1>0, <1>14, SetEffect, SeededTyped, Lifetimes
    DEF Called, Copies, SameButToken, Exclusive, Refreshing, TypeOK
<1>15. ASSUME Tick
      PROVE  Exclusive'
  BY <1>0, <1>15, TickEffect, TickFrame, Lifetimes
    DEF Less, LockLapses, Unheld, Exclusive, Refreshing, TypeOK
<1>16. ASSUME UNCHANGED vars
      PROVE  Exclusive'
  BY <1>0, <1>16 DEF vars, history, Exclusive, Refreshing, TypeOK
<1>17. ASSUME NEW h \in Handlers, RefreshStep(h) \/ Refuse(h)
      PROVE  Exclusive'
  BY <1>0, <1>1, <1>3, <1>4, <1>5, <1>6, <1>7, <1>8, <1>9, <1>10, <1>17,
     InnerSteps DEF RefreshStep
<1> QED BY <1>2, <1>11, <1>12, <1>13, <1>14, <1>15, <1>16, <1>17 DEF Next

LEMMA MarkedKept ==
  ASSUME Inv, [Next]_vars
  PROVE  Marked'
<1>0. TypeOK /\ Capped /\ Exclusive /\ Marked /\ OneCurrent /\ NoReplay /\ Sized
  BY DEF Inv
<1>1. ASSUME NEW h \in Handlers, Inner(h)
      PROVE  Marked'
  BY <1>0, <1>1
    DEF Inner, Still, Errs, EndsIn, MovesTo, Apart, SameRefresh, Empty,
        Refreshing, Marked, Exclusive, TypeOK
<1>2. ASSUME NEW h \in Handlers, Start(h)
      PROVE  Marked'
  BY <1>0, <1>2, StartEffect
    DEF Apart, Still, Marked, Exclusive, Refreshing, TypeOK
<1>3. ASSUME NEW h \in Handlers, TryLock(h)
      PROVE  Marked'
  BY <1>0, <1>3, TryLockEffect, Lifetimes
    DEF Called, Take, Apart, Marked, Exclusive, Refreshing, TypeOK
<1>4. ASSUME NEW h \in Handlers, Poll(h)
      PROVE  Marked'
  BY <1>0, <1>4, PollEffect
    DEF Still, MovesTo, EndsIn, Empty, Apart, SameRefresh, Marked, Exclusive,
        Refreshing, TypeOK
<1>5. ASSUME NEW h \in Handlers, StopWaiting(h)
      PROVE  Marked'
  BY <1>0, <1>5, StopWaitingEffect
    DEF MovesTo, Apart, SameRefresh, Marked, Exclusive, Refreshing, TypeOK
<1>6. ASSUME NEW h \in Handlers, FetchRefreshToken(h)
      PROVE  Marked'
  BY <1>0, <1>6, <1>1, FetchEffect
    DEF Apart, Still, Marked, Exclusive, Refreshing, TypeOK
<1>7. ASSUME NEW h \in Handlers, SaveRead(h)
      PROVE  Marked'
  BY <1>0, <1>7, SizeTyped, SaveReadEffect
    DEF Still, MovesTo, Apart, SameRefresh, Marked, Exclusive, Refreshing,
        TypeOK
<1>8. ASSUME NEW h \in Handlers, SaveWrite(h)
      PROVE  Marked'
  BY <1>0, <1>8, SaveWriteEffect, StoredTyped
    DEF Called, Errs, EndsIn, Empty, Apart, Marked, Exclusive, Refreshing,
        TypeOK
<1>9. ASSUME NEW h \in Handlers, MarkFailed(h)
      PROVE  Marked'
  BY <1>0, <1>9, MarkFailedEffect, Lifetimes
    DEF Called, SameButMark, SameRefresh, Marked, Exclusive, Refreshing, TypeOK
<1>10. ASSUME NEW h \in Handlers, Release(h)
      PROVE  Marked'
  BY <1>0, <1>10, ReleaseEffect
    DEF Called, EndsIn, Empty, Apart, Unheld, Marked, Exclusive, Refreshing,
        TypeOK
<1>11. ASSUME NEW h \in Handlers, AnswerLost(h)
      PROVE  Marked'
  BY <1>0, <1>11, AnswerLostEffect
    DEF Called, Errs, Empty, Marked, Exclusive, Refreshing, TypeOK
<1>12. ASSUME NEW h \in Handlers, Crash(h)
      PROVE  Marked'
  BY <1>0, <1>12, CrashEffect
    DEF Called, EndsIn, Empty, Apart, Marked, Exclusive, Refreshing, TypeOK
<1>13. ASSUME NEW h \in Handlers, NEW kind \in Answers,
             NEW life \in Lives, NEW rlife \in RefreshLives,
             Redeem(h, kind, life, rlife)
      PROVE  Marked'
  BY <1>0, <1>13, RedeemEffect, Lifetimes
    DEF Copies, SameButToken, Answers, Marked, Exclusive, Refreshing, TypeOK
<1>14. ASSUME NEW life \in Lives \ {0}, NEW rlife \in RefreshLives \ {0},
             SetGrantTokens(life, rlife)
      PROVE  Marked'
  BY <1>0, <1>14, SetEffect, SeededTyped, Lifetimes
    DEF Called, Copies, SameButToken, Marked, Exclusive, Refreshing, TypeOK
<1>15. ASSUME Tick
      PROVE  Marked'
  BY <1>0, <1>15, TickEffect, TickFrame, Lifetimes
    DEF Less, LockLapses, Unheld, Marked, Exclusive, Refreshing, TypeOK
<1>16. ASSUME UNCHANGED vars
      PROVE  Marked'
  BY <1>0, <1>16 DEF vars, history, Marked, Exclusive, Refreshing, TypeOK
<1>17. ASSUME NEW h \in Handlers, RefreshStep(h) \/ Refuse(h)
      PROVE  Marked'
  BY <1>0, <1>1, <1>3, <1>4, <1>5, <1>6, <1>7, <1>8, <1>9, <1>10, <1>17,
     InnerSteps DEF RefreshStep
<1> QED BY <1>2, <1>11, <1>12, <1>13, <1>14, <1>15, <1>16, <1>17 DEF Next

LEMMA OneCurrentKept ==
  ASSUME Inv, [Next]_vars
  PROVE  OneCurrent'
<1>0. TypeOK /\ Capped /\ Exclusive /\ Marked /\ OneCurrent /\ NoReplay /\ Sized
  BY DEF Inv
<1>1. ASSUME NEW h \in Handlers, Inner(h)
      PROVE  OneCurrent'
  BY <1>0, <1>1
    DEF Inner, Still, Errs, EndsIn, MovesTo, Apart, SameRefresh, Empty,
        Refreshing, OneCurrent, Answered, InFlight, TypeOK, HashType
<1>2. ASSUME NEW h \in Handlers, Start(h)
      PROVE  OneCurrent'
  BY <1>0, <1>2, StartEffect
    DEF Apart, Still, OneCurrent, Answered, InFlight, TypeOK, HashType
<1>3. ASSUME NEW h \in Handlers, TryLock(h)
      PROVE  OneCurrent'
  BY <1>0, <1>3, TryLockEffect, Lifetimes
    DEF Called, Take, Apart, OneCurrent, Answered, InFlight, TypeOK, HashType
<1>4. ASSUME NEW h \in Handlers, Poll(h)
      PROVE  OneCurrent'
  BY <1>0, <1>4, PollEffect
    DEF Still, MovesTo, EndsIn, Empty, Apart, SameRefresh, OneCurrent,
        Answered, InFlight, TypeOK, HashType
<1>5. ASSUME NEW h \in Handlers, StopWaiting(h)
      PROVE  OneCurrent'
  BY <1>0, <1>5, StopWaitingEffect
    DEF MovesTo, Apart, SameRefresh, OneCurrent, Answered, InFlight, TypeOK,
        HashType
<1>6. ASSUME NEW h \in Handlers, FetchRefreshToken(h)
      PROVE  OneCurrent'
  BY <1>0, <1>6, <1>1, FetchEffect
    DEF Apart, Still, OneCurrent, Answered, InFlight, TypeOK, HashType
<1>7. ASSUME NEW h \in Handlers, SaveRead(h)
      PROVE  OneCurrent'
  BY <1>0, <1>7, SizeTyped, SaveReadEffect
    DEF Still, MovesTo, Apart, SameRefresh, OneCurrent, Answered, InFlight,
        TypeOK, HashType
<1>8. ASSUME NEW h \in Handlers, SaveWrite(h)
      PROVE  OneCurrent'
  <2> SUFFICES ASSUME ~ lost'
               PROVE  OneCurrent'
    BY DEF OneCurrent
  <2>1. /\ hash'.refresh = IF task[h].tok = "none" THEN hash.refresh
                           ELSE task[h].tok
        /\ ~ lost /\ task[h].pc = "write"
        /\ task'[h].pc \in {"none", "mark", "release"} /\ task'[h].tok = "none"
        /\ \A g \in Handlers \ {h} : /\ task'[g].pc = task[g].pc
                                     /\ task'[g].tok = task[g].tok
    BY <1>0, <1>8, SaveWriteEffect, StoredFields DEF Errs, EndsIn, Empty, Apart
  <2>2. task[h].tok \in {"none", "current"}
    BY <1>0, <2>1 DEF OneCurrent, Answered
  <2> QED BY <1>0, <2>1, <2>2 DEF OneCurrent, Answered
<1>9. ASSUME NEW h \in Handlers, MarkFailed(h)
      PROVE  OneCurrent'
  BY <1>0, <1>9, MarkFailedEffect, Lifetimes
    DEF Called, SameButMark, SameRefresh, OneCurrent, Answered, InFlight,
        TypeOK, HashType
<1>10. ASSUME NEW h \in Handlers, Release(h)
      PROVE  OneCurrent'
  BY <1>0, <1>10, ReleaseEffect
    DEF Called, EndsIn, Empty, Apart, Unheld, OneCurrent, Answered, InFlight,
        TypeOK, HashType
<1>11. ASSUME NEW h \in Handlers, AnswerLost(h)
      PROVE  OneCurrent'
  BY <1>0, <1>11, AnswerLostEffect
    DEF Called, Errs, Empty, OneCurrent, Answered, InFlight, TypeOK, HashType
<1>12. ASSUME NEW h \in Handlers, Crash(h)
      PROVE  OneCurrent'
  BY <1>0, <1>12, CrashEffect
    DEF Called, EndsIn, Empty, Apart, OneCurrent, Answered, InFlight, TypeOK,
        HashType
<1>13. ASSUME NEW h \in Handlers, NEW kind \in Answers,
             NEW life \in Lives, NEW rlife \in RefreshLives,
             Redeem(h, kind, life, rlife)
      PROVE  OneCurrent'
  BY <1>0, <1>13, RedeemEffect, Lifetimes
    DEF Copies, SameButToken, Answers, OneCurrent, Answered, InFlight, TypeOK,
        HashType
<1>14. ASSUME NEW life \in Lives \ {0}, NEW rlife \in RefreshLives \ {0},
             SetGrantTokens(life, rlife)
      PROVE  OneCurrent'
  BY <1>0, <1>14, SetEffect, SeededTyped, Lifetimes
    DEF Called, Copies, SameButToken, OneCurrent, Answered, InFlight, TypeOK,
        HashType
<1>15. ASSUME Tick
      PROVE  OneCurrent'
  BY <1>0, <1>15, TickEffect, TickFrame, Lifetimes
    DEF Less, LockLapses, Unheld, OneCurrent, Answered, InFlight, TypeOK,
        HashType
<1>16. ASSUME UNCHANGED vars
      PROVE  OneCurrent'
  BY <1>0, <1>16
    DEF vars, history, OneCurrent, Answered, InFlight, TypeOK, HashType
<1>17. ASSUME NEW h \in Handlers, RefreshStep(h) \/ Refuse(h)
      PROVE  OneCurrent'
  BY <1>0, <1>1, <1>3, <1>4, <1>5, <1>6, <1>7, <1>8, <1>9, <1>10, <1>17,
     InnerSteps DEF RefreshStep
<1> QED BY <1>2, <1>11, <1>12, <1>13, <1>14, <1>15, <1>16, <1>17 DEF Next

LEMMA NoReplayKept ==
  ASSUME Inv, [Next]_vars
  PROVE  NoReplay'
<1>0. TypeOK /\ Capped /\ Exclusive /\ Marked /\ OneCurrent /\ NoReplay /\ Sized
  BY DEF Inv
<1>1. ASSUME NEW h \in Handlers, Inner(h)
      PROVE  NoReplay'
  BY <1>0, <1>1
    DEF Inner, Still, Errs, EndsIn, MovesTo, Apart, SameRefresh, Empty,
        Refreshing, NoReplay, OneCurrent, Exclusive, Answered, InFlight, TypeOK
<1>2. ASSUME NEW h \in Handlers, Start(h)
      PROVE  NoReplay'
  BY <1>0, <1>2, StartEffect
    DEF Apart, Still, NoReplay, OneCurrent, Exclusive, Answered, InFlight,
        Refreshing, TypeOK
<1>3. ASSUME NEW h \in Handlers, TryLock(h)
      PROVE  NoReplay'
  BY <1>0, <1>3, TryLockEffect, Lifetimes
    DEF Called, Take, Apart, NoReplay, OneCurrent, Exclusive, Answered,
        InFlight, Refreshing, TypeOK
<1>4. ASSUME NEW h \in Handlers, Poll(h)
      PROVE  NoReplay'
  BY <1>0, <1>4, PollEffect
    DEF Still, MovesTo, EndsIn, Empty, Apart, SameRefresh, NoReplay,
        OneCurrent, Exclusive, Answered, InFlight, Refreshing, TypeOK
<1>5. ASSUME NEW h \in Handlers, StopWaiting(h)
      PROVE  NoReplay'
  BY <1>0, <1>5, StopWaitingEffect
    DEF MovesTo, Apart, SameRefresh, NoReplay, OneCurrent, Exclusive, Answered,
        InFlight, Refreshing, TypeOK
<1>6. ASSUME NEW h \in Handlers, FetchRefreshToken(h)
      PROVE  NoReplay'
  BY <1>0, <1>6, <1>1, FetchEffect
    DEF Apart, Still, NoReplay, OneCurrent, Exclusive, Answered, InFlight,
        Refreshing, TypeOK
<1>7. ASSUME NEW h \in Handlers, SaveRead(h)
      PROVE  NoReplay'
  BY <1>0, <1>7, SizeTyped, SaveReadEffect
    DEF Still, MovesTo, Apart, SameRefresh, NoReplay, OneCurrent, Exclusive,
        Answered, InFlight, Refreshing, TypeOK
<1>8. ASSUME NEW h \in Handlers, SaveWrite(h)
      PROVE  NoReplay'
  BY <1>0, <1>8, SaveWriteEffect, StoredTyped
    DEF Called, Errs, EndsIn, Empty, Apart, NoReplay, OneCurrent, Exclusive,
        Answered, InFlight, Refreshing, TypeOK
<1>9. ASSUME NEW h \in Handlers, MarkFailed(h)
      PROVE  NoReplay'
  BY <1>0, <1>9, MarkFailedEffect, Lifetimes
    DEF Called, SameButMark, SameRefresh, NoReplay, OneCurrent, Exclusive,
        Answered, InFlight, Refreshing, TypeOK
<1>10. ASSUME NEW h \in Handlers, Release(h)
      PROVE  NoReplay'
  BY <1>0, <1>10, ReleaseEffect
    DEF Called, EndsIn, Empty, Apart, Unheld, NoReplay, OneCurrent, Exclusive,
        Answered, InFlight, Refreshing, TypeOK
<1>11. ASSUME NEW h \in Handlers, AnswerLost(h)
      PROVE  NoReplay'
  BY <1>0, <1>11, AnswerLostEffect
    DEF Called, Errs, Empty, NoReplay, OneCurrent, Exclusive, Answered,
        InFlight, Refreshing, TypeOK
<1>12. ASSUME NEW h \in Handlers, Crash(h)
      PROVE  NoReplay'
  BY <1>0, <1>12, CrashEffect
    DEF Called, EndsIn, Empty, Apart, NoReplay, OneCurrent, Exclusive,
        Answered, InFlight, Refreshing, TypeOK
<1>13. ASSUME NEW h \in Handlers, NEW kind \in Answers,
             NEW life \in Lives, NEW rlife \in RefreshLives,
             Redeem(h, kind, life, rlife)
      PROVE  NoReplay'
  BY <1>0, <1>13, RedeemEffect, Lifetimes
    DEF Copies, SameButToken, Answers, NoReplay, OneCurrent, Exclusive,
        Answered, InFlight, Refreshing, TypeOK
<1>14. ASSUME NEW life \in Lives \ {0}, NEW rlife \in RefreshLives \ {0},
             SetGrantTokens(life, rlife)
      PROVE  NoReplay'
  BY <1>0, <1>14, SetEffect, SeededTyped, Lifetimes
    DEF Called, Copies, SameButToken, NoReplay, OneCurrent, Exclusive,
        Answered, InFlight, Refreshing, TypeOK
<1>15. ASSUME Tick
      PROVE  NoReplay'
  BY <1>0, <1>15, TickEffect, TickFrame, Lifetimes
    DEF Less, LockLapses, Unheld, NoReplay, OneCurrent, Exclusive, Answered,
        InFlight, Refreshing, TypeOK
<1>16. ASSUME UNCHANGED vars
      PROVE  NoReplay'
  BY <1>0, <1>16
    DEF vars, history, NoReplay, OneCurrent, Exclusive, Answered, InFlight,
        Refreshing, TypeOK
<1>17. ASSUME NEW h \in Handlers, RefreshStep(h) \/ Refuse(h)
      PROVE  NoReplay'
  BY <1>0, <1>1, <1>3, <1>4, <1>5, <1>6, <1>7, <1>8, <1>9, <1>10, <1>17,
     InnerSteps DEF RefreshStep
<1> QED BY <1>2, <1>11, <1>12, <1>13, <1>14, <1>15, <1>16, <1>17 DEF Next

LEMMA SizedKept ==
  ASSUME Inv, [Next]_vars
  PROVE  Sized'
<1>0. TypeOK /\ Capped /\ Exclusive /\ Marked /\ OneCurrent /\ NoReplay /\ Sized
  BY DEF Inv
<1>1. ASSUME NEW h \in Handlers, Inner(h)
      PROVE  Sized'
  BY <1>0, <1>1
    DEF Inner, Still, Errs, EndsIn, MovesTo, Apart, SameRefresh, Empty,
        Refreshing, Sized, OneCurrent, Exclusive, Answered, InFlight, Known,
        TypeOK, HashType
<1>2. ASSUME NEW h \in Handlers, Start(h)
      PROVE  Sized'
  BY <1>0, <1>2, StartEffect
    DEF Apart, Still, Sized, OneCurrent, Exclusive, Answered, InFlight,
        Refreshing, Known, TypeOK, HashType
<1>3. ASSUME NEW h \in Handlers, TryLock(h)
      PROVE  Sized'
  BY <1>0, <1>3, TryLockEffect, Lifetimes
    DEF Called, Take, Apart, Sized, OneCurrent, Exclusive, Answered, InFlight,
        Refreshing, Known, TypeOK, HashType
<1>4. ASSUME NEW h \in Handlers, Poll(h)
      PROVE  Sized'
  BY <1>0, <1>4, PollEffect
    DEF Still, MovesTo, EndsIn, Empty, Apart, SameRefresh, Sized, OneCurrent,
        Exclusive, Answered, InFlight, Refreshing, Known, TypeOK, HashType
<1>5. ASSUME NEW h \in Handlers, StopWaiting(h)
      PROVE  Sized'
  BY <1>0, <1>5, StopWaitingEffect
    DEF MovesTo, Apart, SameRefresh, Sized, OneCurrent, Exclusive, Answered,
        InFlight, Refreshing, Known, TypeOK, HashType
<1>6. ASSUME NEW h \in Handlers, FetchRefreshToken(h)
      PROVE  Sized'
  BY <1>0, <1>6, <1>1, FetchEffect
    DEF Apart, Still, Sized, OneCurrent, Exclusive, Answered, InFlight,
        Refreshing, Known, TypeOK, HashType
<1>7. ASSUME NEW h \in Handlers, SaveRead(h)
      PROVE  Sized'
  <2> SUFFICES ASSUME ~ lost, ~ loose
               PROVE  Sized'
    BY <1>0, <1>7, SizeTyped, SaveReadEffect DEF Sized, Still
  <2> DEFINE r == refreshTtlSeconds(task[h].tok, task[h].rlife,
                                    hash.refreshLeft)
             b == task[h].tok # "none" \/ hash.refresh # "none"
             n == credentialTtlSeconds(task[h].life, b, r)
  <2>1. n \in Nat
    BY <1>0, SizeTyped
  <2>2. /\ Still /\ task[h].pc = "reply" /\ Apart(h)
        /\ task'[h].pc = "write" /\ SameRefresh(task'[h], task[h])
        /\ task'[h].ttl = n
    BY <1>0, <1>7, <2>1, SaveReadEffect DEF MovesTo
  <2>3. /\ task[h].life \in Nat /\ task[h].rlife \in Nat
        /\ hash.refreshLeft \in Nat /\ provider \in Nat
    BY <1>0 DEF TypeOK, TaskType, HashType
  <2>4. r \in Nat /\ b \in BOOLEAN
    BY <2>3 DEF refreshTtlSeconds
  <2>5. b => n >= Promised(Known(r))
    <3>1. \A x \in Nat, y \in BOOLEAN, z \in Nat :
             y => credentialTtlSeconds(x, y, z) >= Promised(Known(z))
      BY LifeCovers
    <3> HIDE DEF r, b
    <3> QED BY <2>3, <2>4, <3>1
  <2>6. task[h].tok \in {"none", "current"}
    BY <1>0, <2>2 DEF OneCurrent, Answered
  <2>7. /\ task[h].tok = "current" => provider <= Known(task[h].rlife)
        /\ task[h].tok = "none" /\ hash.refresh = "current" =>
              provider <= IF task[h].rlife > 0 THEN task[h].rlife
                          ELSE Known(hash.refreshLeft)
    BY <1>0, <2>2 DEF Sized, Answered
  <2>8. task[h].tok = "current" \/ hash.refresh = "current" =>
           b /\ provider <= Known(r)
    BY <2>3, <2>6, <2>7 DEF refreshTtlSeconds, Known
  <2>9. Known(r) \in Nat
    BY <2>4, Lifetimes DEF Known
  <2>10. task[h].tok = "current" \/ hash.refresh = "current" => provider <= n
    <3>1. provider <= MaxTtl /\ MaxTtl \in Nat
      BY <1>0, Lifetimes DEF Capped
    <3> HIDE DEF r, b, n
    <3> QED BY <2>1, <2>3, <2>5, <2>8, <2>9, <3>1 DEF Promised, Least
  <2> HIDE DEF n
  <2> QED BY <1>0, <2>2, <2>7, <2>10
          DEF Sized, Still, Apart, SameRefresh, Answered, InFlight
<1>8. ASSUME NEW h \in Handlers, SaveWrite(h)
      PROVE  Sized'
  <2> SUFFICES ASSUME ~ lost', ~ loose'
               PROVE  Sized'
    BY DEF Sized
  <2>1. /\ hash'.refresh = IF task[h].tok = "none" THEN hash.refresh
                           ELSE task[h].tok
        /\ hash'.key = task[h].ttl
        /\ hash'.refreshLeft =
              IF task[h].rlife > 0 THEN task[h].rlife
              ELSE IF task[h].tok # "none" THEN 0 ELSE hash.refreshLeft
        /\ ~ lost /\ ~ loose /\ task[h].pc = "write" /\ provider' = provider
        /\ task'[h].pc \in {"none", "mark", "release"}
        /\ \A g \in Handlers \ {h} : task'[g].pc = task[g].pc
    BY <1>0, <1>8, SaveWriteEffect, StoredFields DEF Errs, EndsIn, Empty, Apart
  <2>2. \A g \in Handlers : ~ Answered(g)'
    BY <1>0, <2>1 DEF Exclusive, Refreshing, Answered
  <2>3. task[h].tok \in {"none", "current"}
    BY <1>0, <2>1 DEF OneCurrent, Answered
  <2>4. /\ task[h].rlife \in Nat /\ hash.refreshLeft \in Nat
        /\ provider \in Nat /\ task[h].ttl \in Nat
    BY <1>0 DEF TypeOK, TaskType, HashType
  <2>5. /\ task[h].tok = "current" => provider <= Known(task[h].rlife)
        /\ task[h].tok = "none" /\ hash.refresh = "current" =>
              provider <= IF task[h].rlife > 0 THEN task[h].rlife
                          ELSE Known(hash.refreshLeft)
        /\ task[h].tok = "current" \/ hash.refresh = "current" =>
              provider <= task[h].ttl
    BY <1>0, <2>1 DEF Sized, Answered
  <2>6. hash'.refresh = "current" =>
           provider' <= hash'.key /\ provider' <= Known(hash'.refreshLeft)
    BY <2>1, <2>3, <2>4, <2>5 DEF Known
  <2> QED BY <2>2, <2>6 DEF Sized, Known
<1>9. ASSUME NEW h \in Handlers, MarkFailed(h)
      PROVE  Sized'
  BY <1>0, <1>9, MarkFailedEffect, Lifetimes
    DEF Called, SameButMark, SameRefresh, Sized, OneCurrent, Exclusive,
        Answered, InFlight, Refreshing, Known, TypeOK, HashType
<1>10. ASSUME NEW h \in Handlers, Release(h)
      PROVE  Sized'
  BY <1>0, <1>10, ReleaseEffect
    DEF Called, EndsIn, Empty, Apart, Unheld, Sized, OneCurrent, Exclusive,
        Answered, InFlight, Refreshing, Known, TypeOK, HashType
<1>11. ASSUME NEW h \in Handlers, AnswerLost(h)
      PROVE  Sized'
  BY <1>0, <1>11, AnswerLostEffect
    DEF Called, Errs, Empty, Sized, OneCurrent, Exclusive, Answered, InFlight,
        Refreshing, Known, TypeOK, HashType
<1>12. ASSUME NEW h \in Handlers, Crash(h)
      PROVE  Sized'
  BY <1>0, <1>12, CrashEffect
    DEF Called, EndsIn, Empty, Apart, Sized, OneCurrent, Exclusive, Answered,
        InFlight, Refreshing, Known, TypeOK, HashType
<1>13. ASSUME NEW h \in Handlers, NEW kind \in Answers,
             NEW life \in Lives, NEW rlife \in RefreshLives,
             Redeem(h, kind, life, rlife)
      PROVE  Sized'
  BY <1>0, <1>13, RedeemEffect, Promises, Lifetimes
    DEF Copies, SameButToken, Answers, Sized, OneCurrent, Exclusive, Answered,
        InFlight, Refreshing, Known, TypeOK, HashType
<1>14. ASSUME NEW life \in Lives \ {0}, NEW rlife \in RefreshLives \ {0},
             SetGrantTokens(life, rlife)
      PROVE  Sized'
  BY <1>0, <1>14, SetEffect, SeededTyped, Promises, Lifetimes
    DEF Called, Copies, SameButToken, Sized, OneCurrent, Exclusive, Answered,
        InFlight, Refreshing, Known, TypeOK, HashType
<1>15. ASSUME Tick
      PROVE  Sized'
  <2> SUFFICES ASSUME ~ lost', ~ loose'
               PROVE  Sized'
    BY DEF Sized
  <2>1. ~ lost /\ ~ loose /\ provider \in Nat /\ provider' = Less(provider)
    BY <1>0, <1>15, TickFrame DEF TypeOK
  <2>2. \A r \in Nat : provider <= Known(r) =>
           provider' <= Known(Less(r)) /\ provider' <= Known(r)
    BY <2>1, Lifetimes DEF Less, Known
  <2>3. /\ hash.refreshLeft \in Nat /\ hash.key \in Nat
        /\ \A h \in Handlers : task[h].rlife \in Nat /\ task[h].ttl \in Nat
    BY <1>0 DEF TypeOK, TaskType, HashType
  <2>4. hash'.refresh = "current" =>
           /\ hash.refresh = "current"
           /\ hash'.refreshLeft = Less(hash.refreshLeft)
           /\ provider <= hash.key => provider' <= hash'.key
    BY <1>0, <1>15, <2>1, <2>3, TickFrame DEF Less
  <2>5. \A h \in Handlers :
           /\ Answered(h)' <=> Answered(h)
           /\ task'[h].pc = task[h].pc /\ task'[h].tok = task[h].tok
           /\ task'[h].rlife = task[h].rlife /\ task'[h].ttl = task[h].ttl
    BY <1>0, <1>15, TickEffect DEF Answered
  <2>6. InFlight' <=> InFlight
    BY <2>5 DEF InFlight
  <2>7. \A n \in Nat : provider <= n => provider' <= n
    BY <2>1 DEF Less
  <2>8. hash'.refresh = "current" /\ ~ InFlight' =>
           provider' <= hash'.key /\ provider' <= Known(hash'.refreshLeft)
    BY <1>0, <2>1, <2>2, <2>3, <2>4, <2>6 DEF Sized
  <2>9. ASSUME NEW h \in Handlers, Answered(h)'
        PROVE  /\ task'[h].tok = "current" => provider' <= Known(task'[h].rlife)
               /\ task'[h].tok = "none" /\ hash'.refresh = "current" =>
                     provider' <= IF task'[h].rlife > 0 THEN task'[h].rlife
                                  ELSE Known(hash'.refreshLeft)
               /\ task'[h].pc = "write" /\
                  (task'[h].tok = "current" \/ hash'.refresh = "current") =>
                     provider' <= task'[h].ttl
    BY <1>0, <2>1, <2>2, <2>3, <2>4, <2>5, <2>7, <2>9 DEF Sized
  <2> QED BY <2>8, <2>9 DEF Sized, Answered, InFlight, Known
<1>16. ASSUME UNCHANGED vars
      PROVE  Sized'
  BY <1>0, <1>16
    DEF vars, history, Sized, OneCurrent, Exclusive, Answered, InFlight,
        Refreshing, Known, TypeOK, HashType
<1>17. ASSUME NEW h \in Handlers, RefreshStep(h) \/ Refuse(h)
      PROVE  Sized'
  BY <1>0, <1>1, <1>3, <1>4, <1>5, <1>6, <1>7, <1>8, <1>9, <1>10, <1>17,
     InnerSteps DEF RefreshStep
<1> QED BY <1>2, <1>11, <1>12, <1>13, <1>14, <1>15, <1>16, <1>17 DEF Next

---------------------------------------------------------------------------
(* The theorems.                                                           *)

LEMMA InitInv ==
  ASSUME Init
  PROVE  Inv
<1>1. /\ lock = Unheld /\ failed = 0 /\ loose = FALSE /\ lost = FALSE
      /\ task = [h \in Handlers |-> NoTask]
      /\ budget = [faults |-> MaxFaults, seeds |-> MaxSeeds]
  BY DEF Init
<1>2. /\ task \in [Handlers -> TaskType]
      /\ \A h \in Handlers : /\ task[h].pc = "none" /\ task[h].holds = "no"
                             /\ task[h].rlife = 0 /\ task[h].noted = FALSE
  BY <1>1, NoTaskFields DEF NoTask
<1>3. \/ hash = NoHash /\ provider = 0 /\ grant = FALSE
      \/ \E life \in Lives \ {0}, rlife \in RefreshLives \ {0} :
            hash = Seeded(life, rlife) /\ provider = Promised(rlife) /\ grant = TRUE
  BY DEF Init
<1>4. /\ hash \in HashType /\ provider <= MaxTtl
      /\ provider \in Nat /\ grant \in BOOLEAN
      /\ hash.refresh \in {"none", "current"}
      /\ hash.refresh = "current" =>
            provider <= hash.key /\ provider <= Known(hash.refreshLeft)
  <2>1. CASE hash = NoHash /\ provider = 0 /\ grant = FALSE
    <3>1. MaxTtl \in Nat
      BY Lifetimes
    <3>2. hash \in HashType /\ hash.refresh = "none"
      BY <2>1 DEF NoHash, HashType, Tokens
    <3>3. grant \in BOOLEAN
      BY <2>1, Zenon
    <3>4. provider \in Nat /\ provider <= MaxTtl
      BY <2>1, <3>1
    <3>5. hash.refresh # "current"
      BY <3>2
    <3> QED BY <3>2, <3>3, <3>4, <3>5, Zenon
  <2>2. CASE \E life \in Lives \ {0}, rlife \in RefreshLives \ {0} :
               hash = Seeded(life, rlife) /\ provider = Promised(rlife) /\ grant = TRUE
    <3>1. PICK life \in Lives \ {0}, rlife \in RefreshLives \ {0} :
             hash = Seeded(life, rlife) /\ provider = Promised(rlife) /\ grant = TRUE
      BY <2>2
    <3>2. rlife \in Nat /\ rlife > 0
      BY Lifetimes
    <3>3. /\ Promised(rlife) \in Nat /\ Promised(rlife) <= rlife
          /\ Promised(rlife) <= MaxTtl
      BY <3>2, Promises
    <3> QED BY <3>1, <3>2, <3>3, SeededTyped DEF Known, HashType
  <2> QED BY <1>3, <2>1, <2>2
<1>5. TypeOK
  <2>1. /\ lock \in [owner : Handlers \cup {Free}, left : Nat]
        /\ lock.left = 0 <=> lock.owner = Free
    BY <1>1 DEF Unheld
  <2>2. budget \in [faults : 0 .. MaxFaults, seeds : 0 .. MaxSeeds]
    BY <1>1, Lifetimes
  <2> QED BY <1>1, <1>2, <1>4, <2>1, <2>2 DEF TypeOK
<1>6. Capped /\ Exclusive /\ Marked /\ NoReplay
  BY <1>2, <1>4, Lifetimes DEF Capped, Exclusive, Marked, NoReplay, Refreshing
<1>7. OneCurrent /\ Sized
  BY <1>2, <1>4 DEF OneCurrent, Sized, Answered
<1> QED BY <1>5, <1>6, <1>7 DEF Inv

\* Whatever replicas, lifetimes and faults there are, refreshes exclude each
\* other until one runs loose, and what is stored is the current token of the
\* grant, or will be replaced by it.
THEOREM RefreshInvariant == Spec => []Inv
<1>1. Inv /\ [Next]_vars => Inv'
  BY TypeKept, ExclusiveKept, MarkedKept, OneCurrentKept, NoReplayKept,
     SizedKept DEF Inv
<1> QED BY <1>1, InitInv, PTL DEF Spec

\* refreshWithLock: no replica presents a refresh token that was redeemed,
\* unless a refresh outlived its lock or an answer was lost.
THEOREM RefreshNeverReplays == Spec => []NoReplay
<1>1. Inv => NoReplay
  BY DEF Inv
<1> QED BY <1>1, RefreshInvariant, PTL

\* saveOAuthData: whatever refreshes overlap, the refresh token that stays
\* stored was not redeemed for another, unless an answer was lost.
THEOREM StoredTokenStaysRedeemable == Spec => []StoredTokenRedeemable
<1>1. Inv => StoredTokenRedeemable
  BY DEF Inv, OneCurrent, Answered, InFlight, StoredTokenRedeemable
<1> QED BY <1>1, RefreshInvariant, PTL

\* credentialTtlSeconds: the hash is kept as long as the provider honours the
\* refresh token in it, or as long as a key may last, whatever lives are stated
\* and wherever the maximum lies.
THEOREM HashOutlivesRefreshToken == Spec => []RefreshTokenOutlived
<1>1. Inv => RefreshTokenOutlived
  BY DEF Inv, TypeOK, HashType, Sized, RefreshTokenOutlived
<1> QED BY <1>1, RefreshInvariant, PTL

\* refreshWithLock, once the failed flag is set: whoever takes over from a
\* refresh that failed uses the cached token while it is good.
THEOREM FailureServedFromCache == Spec => FailureNotRepeated
<1> DEFINE Repeats(h) ==
      /\ task[h].pc # "fetch" /\ task'[h].pc = "fetch"
      /\ task[h].holds = "live" /\ task[h].noted /\ task'[h].noted
      /\ Unexpired
<1>1. Inv /\ [Next]_vars => \A h \in Handlers : ~ Repeats(h)
  <2> SUFFICES ASSUME Inv, [Next]_vars, NEW f \in Handlers, Repeats(f)
               PROVE  FALSE
    OBVIOUS
  <2>1. TypeOK /\ Capped /\ Exclusive /\ Marked
    BY DEF Inv
  <2>2. /\ task[f].waited /\ lock.owner = f /\ failed # 0
    BY <2>1 DEF Exclusive, Marked
  <2>3. ASSUME NEW h \in Handlers, h # f,
               \/ Apart(h)
               \/ \A g \in Handlers \ {h} : task'[g].pc = task[g].pc
        PROVE  FALSE
    BY <2>3 DEF Apart
  <2>4. CASE \E h \in Handlers : Recheck(h)
    <3>1. PICK h \in Handlers : Recheck(h)
      BY <2>4
    <3>2. h = f
      BY <2>1, <2>3, <3>1, InnerSteps DEF Inner, EndsIn, MovesTo, Errs
    <3> QED BY <2>1, <2>2, <3>1, <3>2, MoveEffect, DoneEffect, FailsEffect,
               Phases
            DEF Recheck, EndsIn, MovesTo, Errs, Empty
  <2>5. CASE \E h \in Handlers : CheckFailed(h)
    <3>1. PICK h \in Handlers : CheckFailed(h)
      BY <2>5
    <3>2. h = f
      BY <2>1, <2>3, <3>1, InnerSteps DEF Inner, EndsIn, MovesTo, Errs
    <3>3. failed > 0
      BY <2>1, <2>2 DEF TypeOK
    <3> QED BY <2>1, <3>1, <3>2, <3>3, MoveEffect, UnmarkedMoveEffect, Phases
            DEF CheckFailed, MovesTo
  <2>6. CASE \E h \in Handlers : UseUnexpired(h)
    <3>1. PICK h \in Handlers : UseUnexpired(h)
      BY <2>6
    <3>2. h = f
      BY <2>1, <2>3, <3>1, InnerSteps DEF Inner, EndsIn, MovesTo, Errs
    <3> QED BY <2>1, <3>1, <3>2, DoneEffect, FailsEffect
            DEF UseUnexpired, EndsIn, Errs, Empty
  <2>7. CASE \E h \in Handlers : CallFails(h) \/ Refuse(h)
    BY <2>1, <2>3, <2>7, FailsEffect DEF CallFails, Refuse, Errs, Empty
  <2>8. CASE \E h \in Handlers : Start(h) \/ TryLock(h)
    BY <2>1, <2>3, <2>8, StartEffect, TryLockEffect
  <2>9. CASE \E h \in Handlers : Poll(h) \/ StopWaiting(h) \/ Release(h) \/ Crash(h)
    BY <2>1, <2>3, <2>9, PollEffect, StopWaitingEffect, ReleaseEffect,
       CrashEffect DEF EndsIn, MovesTo, Empty
  <2>10. CASE \E h \in Handlers : FetchRefreshToken(h)
    BY ZenonT(60), <2>1, <2>3, <2>10, FetchEffect
      DEF FetchRefreshToken, Inner, EndsIn, MovesTo, Errs, Empty
  <2>11. CASE \E h \in Handlers : SaveRead(h)
    BY <2>1, <2>3, <2>11, SizeTyped, SaveReadEffect DEF MovesTo
  <2>12. CASE \E h \in Handlers : SaveWrite(h) \/ AnswerLost(h)
    BY <2>1, <2>3, <2>12, SaveWriteEffect, AnswerLostEffect
      DEF EndsIn, Errs, Empty
  <2>13. CASE \E h \in Handlers : MarkFailed(h)
    BY <2>1, <2>13, MarkFailedEffect DEF SameButMark
  <2>14. CASE \E h \in Handlers, kind \in Answers, life \in Lives,
                 rlife \in RefreshLives : Redeem(h, kind, life, rlife)
    BY <2>1, <2>14, RedeemEffect DEF SameButToken
  <2>15. CASE \E life \in Lives \ {0}, rlife \in RefreshLives \ {0} :
                 SetGrantTokens(life, rlife)
    BY <2>1, <2>15, SetEffect DEF SameButToken
  <2>16. CASE Tick
    BY <2>1, <2>16, TickEffect
  <2>17. CASE UNCHANGED vars
    BY <2>17 DEF vars
  <2> QED BY <2>4, <2>5, <2>6, <2>7, <2>8, <2>9, <2>10, <2>11, <2>12, <2>13,
             <2>14, <2>15, <2>16, <2>17 DEF Next, RefreshStep
<1>2. Inv /\ [Next]_vars =>
        [\A h \in Handlers :
            /\ task[h].pc # "fetch" /\ task'[h].pc = "fetch"
            /\ task[h].holds = "live" /\ task[h].noted /\ task'[h].noted
            => ~ Unexpired]_vars
  BY <1>1
<1> QED BY <1>2, RefreshInvariant, PTL DEF Spec, FailureNotRepeated

=============================================================================
