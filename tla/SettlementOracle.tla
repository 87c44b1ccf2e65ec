------------------------- MODULE SettlementOracle -------------------------
(***************************************************************************)
(* What a late settlement is worth: the bucket beside a second balance in  *)
(* which every claim was charged, when it was made, what its response      *)
(* reported in the end.  The bucket stores no log, only how much refill it *)
(* has discarded and how often it has filled, and settleAmount has to      *)
(* reconstruct the difference from those (backend/settlement.ts).          *)
(*                                                                         *)
(* The instance has no freeze, reset, refund or expiry: across those       *)
(* nothing is settled (TokenBucket).                                       *)
(***************************************************************************)
EXTENDS TokenBucket, FiniteSets

VARIABLE shadow \* the balance with every actual charged at the claim

oracleVars == <<vars, shadow>>

OracleInit == Init /\ shadow = MaxTokens

\* The second balance refills when, and by as much as, the bucket does.
ShadowNow ==
    IF bucket.live
    THEN AtMost(MaxTokens,
                shadow + ((now - bucket.lastUpdate) \div Interval) * TokensToAdd)
    ELSE shadow

\* A claim, charged what it will turn out to have cost.
OracleClaim(a, cost, actual) ==
    /\ AcquireTokens(a, cost, actual)
    /\ shadow' = IF attempt' = attempt THEN ShadowNow ELSE ShadowNow - actual

\* Its settlement; what maxDebt does not let the balance absorb is waived.
OracleSettle(a) ==
    /\ marks[a].live
    /\ SettleTokens(a)
    /\ shadow' = ShadowNow
          + SettleAmount(Current, marks[a], attempt[a].actual).unapplied

OracleTick == Tick /\ UNCHANGED shadow

OracleNext ==
    \/ \E a \in Attempts, cost \in Costs, actual \in Actuals :
          OracleClaim(a, cost, actual)
    \/ \E a \in Attempts : OracleSettle(a)
    \/ OracleTick

OracleSpec == OracleInit /\ [][OracleNext]_oracleVars

---------------------------------------------------------------------------

Made    == {a \in Attempts : attempt[a].phase # "idle"}
Settled == \A a \in Made : attempt[a].phase = "settled"

\* Once every claim is settled, claims that used more than they reserved have
\* been charged at least what charging them up front would have: a caller
\* cannot gain by under-reserving, in whatever order the settlements land.
DebitsNeverUndercharged ==
    Settled /\ (\A a \in Made : attempt[a].actual >= attempt[a].cost)
    => bucket.tokens <= shadow

\* Claims that used less than they reserved get at least what charging them
\* up front would have left: an over-reservation is not lost, unless the
\* bucket has been full since.
CreditsNeverLost ==
    Settled /\ (\A a \in Made : attempt[a].actual <= attempt[a].cost)
    => bucket.tokens >= shadow
===========================================================================
