-------------------------- MODULE LimitSetProofs --------------------------
(***************************************************************************)
(* Claims over a list of limits that operators change underneath: for any  *)
(* attempts, names, lists, lifetimes and updates, a refund of a claim that *)
(* recorded its keys returns only what it took, a handled completion       *)
(* leaves no slot behind, a running attempt counts in every ledger it      *)
(* claimed, and no step spends in one budget of a list without spending in *)
(* all of them.                                                            *)
(*                                                                         *)
(* The balances play no part: what an attempt owes and holds is decided by *)
(* the keys it claimed and by where its claim is in the hand-over between  *)
(* the drain pass and the owner.  The invariant below follows the claim    *)
(* through that hand-over.                                                 *)
(***************************************************************************)
EXTENDS LimitSet, SequenceTheorems, TLAPS

States == {"new", "waiting", "running", "refunding", "announced", "freezing",
           "releasing", "done"}
Steps  == {"idle", "judge", "claim", "recheck", "confirm", "return", "drop"}

AttType  == [state : States, keys : KeySets, ready : KeySets \cup {Untold},
             outcome : {"ok", "429", "5xx"}]
SlotType == [at : Int, cost : Nat]
PassType == [on : SUBSET Attempts, step : Steps, keys : KeySets,
             stale : SUBSET Names, multi : SUBSET SpecType]
CleanupType == [stale : SUBSET Names, multi : SUBSET SpecType]
TakenType   == [free : BOOLEAN, at : Int, of : [Names -> Int]]

\* What the state is made of.
Shape ==
    /\ limits \in [Replicas -> Seq(NamedLimit)]
    /\ published \in Seq(Seq(NamedLimit))
    /\ seen \in [Replicas -> Nat]
    /\ ledger \in [Names -> [Attempts -> SlotType]]
    /\ entry \in [Attempts -> {"absent", "pending", "inProgress"}]
    /\ att \in [Attempts -> AttType]
    /\ pass \in PassType
    /\ cleanup \in [Attempts -> CleanupType]
    /\ now \in Nat
    /\ taken \in [Attempts -> TakenType]
    /\ \A a \in Attempts : taken[a].at <= now

Still == \A r \in Replicas : seen[r] = 0
SlotNames(list) == {l.name : l \in SlotLimits(list)}

\* Until a broadcast has arrived, every replica has the list the client was
\* built with.
Unmoved == Still => \A r \in Replicas : limits[r] = InitLimits

\* Who has the claim: the pass, the owner, or nobody yet.
Owned(a) ==
    /\ att[a].state = "new" =>
          /\ entry[a] = "absent" /\ a \notin pass.on
          /\ att[a].keys = Unknown /\ att[a].ready = Untold
    /\ att[a].state \in {"running", "refunding"} =>
          entry[a] # "pending" /\ a \notin pass.on
    /\ entry[a] = "pending" =>
          /\ att[a].state \in {"waiting", "announced"} /\ a \notin pass.on
          /\ att[a].keys = Unknown /\ att[a].ready = Untold
    /\ a \in pass.on =>
          /\ pass.on = {a} /\ entry[a] # "pending" /\ att[a].state # "new"
          /\ att[a].keys = Unknown /\ att[a].ready = Untold
    /\ att[a].state \in {"freezing", "releasing", "done"} => entry[a] = "absent"
    /\ att[a].state = "waiting" => att[a].keys = Unknown

\* Whoever has a claim has its keys, unless no limit was there to claim from.
Known(a) == ~taken[a].free =>
    /\ att[a].state \in {"running", "refunding"} => att[a].keys # Unknown
    /\ (att[a].state = "waiting" /\ att[a].ready # Untold) =>
          att[a].ready # Unknown
    /\ (a \in pass.on /\ pass.step \in {"recheck", "confirm"}) =>
          pass.keys # Unknown

Unclaimed(a) ==
    \/ att[a].state = "new" \/ entry[a] = "pending"
    \/ a \in pass.on /\ pass.step \in {"judge", "claim"}
ToDrop(n) == n \in pass.stale \/ \E s \in pass.multi : s.key = Slots(n)

\* An attempt with nothing claimed yet holds no slot, and whoever has the
\* claim knows the ledger of each of its slots.
Tracked(a) == \A n \in Names : ledger[n][a] # NoSlot =>
    /\ ~Unclaimed(a)
    /\ (a \in pass.on /\ pass.step \in {"recheck", "confirm"}) =>
          Slots(n) \in pass.keys
    /\ (a \in pass.on /\ pass.step \in {"return", "drop"}) => ToDrop(n)
    /\ (att[a].state = "waiting" /\ att[a].ready # Untold) =>
          Slots(n) \in att[a].ready
    /\ att[a].keys # Unknown => Slots(n) \in att[a].keys
    /\ Still => n \in SlotNames(InitLimits)

\* A completion that is being handled has on its list the slots it has still
\* to give back; one that is handled has none.
Settling(a) == a \notin pass.on /\ (att[a].keys # Unknown \/ Still)
Returned(a) == \A n \in Names : (Settling(a) /\ ledger[n][a] # NoSlot) =>
    /\ att[a].state = "releasing" => n \in cleanup[a].stale
    /\ att[a].state # "done"

\* The ledgers an attempt counts in: its own claim's, the claim it is about
\* to be told of, or the one the pass has just made for it.
CountsIn(a, n) ==
    \/ att[a].state = "running" /\ Slots(n) \in att[a].keys
    \/ /\ att[a].state = "waiting" /\ att[a].ready # Untold
       /\ Slots(n) \in att[a].ready
    \/ /\ att[a].state = "waiting" /\ a \in pass.on
       /\ pass.step \in {"recheck", "confirm"} /\ Slots(n) \in pass.keys
Counted(a) == \A n \in Names :
    (CountsIn(a, n) /\ now < taken[a].at + RequestTtl) =>
    ledger[n][a] # NoSlot /\ ledger[n][a].at >= taken[a].at

\* The buckets that a refund may still reach: they were paid.
Refundable(a, n) ==
    \/ att[a].state = "running" /\ Tokens(n) \in att[a].keys
    \/ /\ att[a].state = "waiting" /\ att[a].ready # Untold
       /\ Tokens(n) \in att[a].ready
    \/ att[a].state = "refunding" /\ \E s \in cleanup[a].multi : s.key = Tokens(n)
    \/ /\ a \in pass.on /\ pass.step \in {"recheck", "confirm"}
       /\ Tokens(n) \in pass.keys
    \/ /\ a \in pass.on /\ pass.step \in {"return", "drop"}
       /\ \E s \in pass.multi : s.key = Tokens(n)
Paid(a) == ~taken[a].free => \A n \in Names :
    /\ taken[a].of[n] >= 0
    /\ Refundable(a, n) => taken[a].of[n] >= Cost[a].of[n]

\* What holds of each attempt, and the inductive invariant.
Sound(a) == Owned(a) /\ Known(a) /\ Tracked(a) /\ Returned(a) /\ Counted(a) /\ Paid(a)
Inv == Shape /\ Unmoved /\ \A a \in Attempts : Sound(a)

---------------------------------------------------------------------------
(* Lists, keys and specs.                                                  *)

\* A key that some limit could have is never taken for Unknown or Untold, nor
\* one of these for the other.
LEMMA KeysKnown ==
    ASSUME NEW K \in SUBSET Keys
    PROVE  K # Unknown /\ K # Untold
<1> DEFINE k == <<"unknown", DefaultName>>
           u == <<"untold", DefaultName>>
<1>1. /\ k[1] = "unknown" /\ k \in Unknown
      /\ u[1] = "untold" /\ u \in Untold
  BY DEF Unknown, Untold
<1>2. \A x \in Keys : x[1] \in {"concurrency", "rateLimit"}
  BY DEF Keys, Slots, Tokens
<1> HIDE DEF k, u
<1> QED
  BY <1>1, <1>2

LEMMA SentinelsApart ==
    /\ Unknown # Untold
    /\ \A n \in Names : Slots(n) \notin Unknown
<1> DEFINE k == <<"unknown", DefaultName>>
<1>1. k[1] = "unknown" /\ Unknown = {k}
  BY DEF Unknown
<1>2. \A x \in Untold : x[1] = "untold"
  BY DEF Untold
<1>3. \A n \in Names : Slots(n)[1] = "concurrency"
  BY DEF Slots
<1> HIDE DEF k
<1> QED
  BY <1>1, <1>2, <1>3

\* A name that a published list leaves out is filled in with a real name.
LEMMA InheritedNameType ==
    ASSUME NEW config, NEW type, NEW previous \in Seq(NamedLimit)
    PROVE  InheritedName(config, type, previous) \in Names
<1> DEFINE same == Of(previous, type)
           free == {p.name : p \in same} \ {l.name : l \in Range(config)}
<1>1. \A p \in same : p \in NamedLimit
  BY DEF Of, Range
<1>2. free \subseteq Names
  BY <1>1 DEF NamedLimit
<1> HIDE DEF free, same
<1>3. free # {} => (CHOOSE n \in free : TRUE) \in Names
  BY <1>2
<1>4. InheritedName(config, type, previous) =
        IF Cardinality(same) = 1 /\ free # {}
        THEN CHOOSE n \in free : TRUE ELSE DefaultName
  BY DEF InheritedName, same, free
<1> QED
  BY <1>3, <1>4, LimitSetAssumption

\* normalizeRateLimit gives a list of named limits.
LEMMA NormalizeType ==
    ASSUME NEW config \in Seq(DeclaredLimit), NEW previous \in Seq(NamedLimit)
    PROVE  NormalizeRateLimit(config, previous) \in Seq(NamedLimit)
<1> DEFINE out == NormalizeRateLimit(config, previous)
<1>1. config \in [1..Len(config) -> DeclaredLimit] /\ Len(config) \in Nat
  BY LenProperties
<1>2. ASSUME NEW i \in 1..Len(config) PROVE out[i] \in NamedLimit
  <2>1. config[i] \in DeclaredLimit
    BY <1>1
  <2>2. InheritedName(config, config[i].type, previous) \in Names
    BY InheritedNameType
  <2> QED
    BY <1>1, <2>1, <2>2, LimitSetAssumption
    DEF NormalizeRateLimit, DeclaredLimit, NamedLimit
<1>3. out = [i \in 1..Len(config) |-> out[i]]
  BY <1>1 DEF NormalizeRateLimit
<1> HIDE DEF out
<1>4. out \in [1..Len(config) -> NamedLimit]
  BY <1>2, <1>3
<1> QED
  BY <1>1, <1>4, SeqDef DEF out

\* What an attempt is charged by a list: well-formed, and with a key for each
\* ledger of the list and no other.
LEMMA SpecsOfList ==
    ASSUME NEW a \in Attempts, NEW list \in Seq(NamedLimit)
    PROVE  /\ GetLimitSpecs(a, list) \subseteq SpecType
           /\ {s.key : s \in GetLimitSpecs(a, list)} \in SUBSET Keys
           /\ \A n \in Names : (\E s \in GetLimitSpecs(a, list) : s.key = Slots(n))
                               <=> n \in SlotNames(list)
<1>1. \A l \in Metered(list) : /\ l \in NamedLimit
                               /\ l.type \in {"concurrencyLimit", "requestLimit"}
  BY DEF Metered, SlotLimits, TokenLimits, Of, Range
<1>2. \A l \in Metered(list) : l.name \in Names /\ KeyOf(l) \in Keys
  BY <1>1 DEF NamedLimit, KeyOf, Keys
<1>3. \A l \in Metered(list) : Cost[a].of[l.name] \in Nat
  BY <1>2, LimitSetAssumption
<1>4. GetLimitSpecs(a, list) \subseteq SpecType
  BY <1>1, <1>2, <1>3 DEF GetLimitSpecs, SpecType
<1>5. \A l \in SlotLimits(list) : l \in Metered(list) /\ KeyOf(l) = Slots(l.name)
  BY DEF Metered, SlotLimits, Of, KeyOf
<1>6. ASSUME NEW l \in Metered(list), NEW n \in Names, KeyOf(l) = Slots(n)
      PROVE  l \in SlotLimits(list) /\ l.name = n
  BY <1>1, <1>6 DEF KeyOf, Slots, Tokens, Metered, SlotLimits, TokenLimits, Of
<1>7. ASSUME NEW n \in Names
      PROVE  (\E s \in GetLimitSpecs(a, list) : s.key = Slots(n))
             <=> n \in SlotNames(list)
  <2>1. ASSUME NEW s \in GetLimitSpecs(a, list), s.key = Slots(n)
        PROVE  n \in SlotNames(list)
    <3>1. PICK l \in Metered(list) : s.key = KeyOf(l)
      BY DEF GetLimitSpecs
    <3> QED
      BY <1>6, <2>1, <3>1 DEF SlotNames
  <2>2. ASSUME NEW l \in SlotLimits(list), l.name = n
        PROVE  \E s \in GetLimitSpecs(a, list) : s.key = Slots(n)
    <3> DEFINE s == [key |-> KeyOf(l), limit |-> l, cost |-> Cost[a].of[l.name]]
    <3>1. s \in GetLimitSpecs(a, list)
      BY <1>5 DEF GetLimitSpecs
    <3>2. s.key = Slots(n)
      BY <1>5, <2>2
    <3> QED
      BY <3>1, <3>2
  <2> QED
    BY <2>1, <2>2 DEF SlotNames
<1> QED
  BY <1>4, <1>7 DEF SpecType

\* What an admission records: the keys of its specs, or nothing.
LEMMA ClaimedKeysType ==
    ASSUME NEW a \in Attempts, NEW list \in Seq(NamedLimit)
    PROVE  /\ ClaimedKeys(GetLimitSpecs(a, list)) \in KeySets
           /\ ClaimedKeys(GetLimitSpecs(a, list)) # Untold
           /\ \/ /\ ClaimedKeys(GetLimitSpecs(a, list)) # Unknown
                 /\ ClaimedKeys(GetLimitSpecs(a, list)) =
                       {s.key : s \in GetLimitSpecs(a, list)}
              \/ GetLimitSpecs(a, list) = {}
<1>1. {s.key : s \in GetLimitSpecs(a, list)} \in SUBSET Keys
  BY SpecsOfList
<1> QED
  BY <1>1, KeysKnown, SentinelsApart DEF ClaimedKeys, KeySets

\* releaseClaim and handleOwnTypeRequestDone, told the keys of the claim, go
\* to every ledger it claimed from, whatever the list has become, and to no
\* budget it did not claim from.
LEMMA KnownClaimCovered ==
    ASSUME NEW a \in Attempts, NEW list \in Seq(NamedLimit),
           NEW keys \in SUBSET Keys
    PROVE  /\ StaleSlots(keys, list) \subseteq Names
           /\ HeldSpecs(a, keys, list) \subseteq SpecType
           /\ \A s \in HeldSpecs(a, keys, list) : s.key \in keys
           /\ \A n \in Names : Slots(n) \in keys =>
                 \/ n \in StaleSlots(keys, list)
                 \/ \E s \in HeldSpecs(a, keys, list) : s.key = Slots(n)
           /\ \A n \in Names : Slots(n) \in keys => n \in ToRelease(a, keys, list)
<1>1. keys # Unknown
  BY KeysKnown
<1>2. HeldSpecs(a, keys, list) = {s \in GetLimitSpecs(a, list) : s.key \in keys}
  BY <1>1 DEF HeldSpecs, WasClaimed
<1>3. StaleSlots(keys, list) =
        {n \in Names : Slots(n) \in keys /\ \A l \in SlotLimits(list) : l.name # n}
  BY <1>1 DEF StaleSlots
<1>4. ASSUME NEW n \in Names, Slots(n) \in keys
      PROVE  \/ n \in StaleSlots(keys, list)
             \/ \E s \in HeldSpecs(a, keys, list) :
                   /\ s.key = Slots(n) /\ s.limit.name = n
                   /\ s.limit.type = "concurrencyLimit"
  <2>1. CASE \A l \in SlotLimits(list) : l.name # n
    BY <1>3, <1>4, <2>1
  <2>2. ASSUME NEW l \in SlotLimits(list), l.name = n
        PROVE  \E s \in HeldSpecs(a, keys, list) :
                  /\ s.key = Slots(n) /\ s.limit.name = n
                  /\ s.limit.type = "concurrencyLimit"
    <3> DEFINE s == [key |-> KeyOf(l), limit |-> l, cost |-> Cost[a].of[l.name]]
    <3>1. l.type = "concurrencyLimit" /\ l \in Metered(list)
      BY DEF SlotLimits, Of, Metered
    <3>2. s \in GetLimitSpecs(a, list)
      BY <3>1 DEF GetLimitSpecs
    <3>3. s.key = Slots(n) /\ s.limit = l
      BY <3>1, <2>2 DEF KeyOf
    <3> HIDE DEF s
    <3> QED
      BY <3>1, <3>2, <3>3, <2>2, <1>2, <1>4
  <2> QED
    BY <2>1, <2>2
<1>5. ASSUME NEW n \in Names, Slots(n) \in keys
      PROVE  n \in ToRelease(a, keys, list)
  BY <1>4, <1>5 DEF ToRelease
<1> QED
  BY <1>2, <1>3, <1>4, <1>5, SpecsOfList

\* What a release starts from is well-formed, whatever the keys.
LEMMA ReleaseType ==
    ASSUME NEW a \in Attempts, NEW list \in Seq(NamedLimit), NEW keys
    PROVE  /\ StaleSlots(keys, list) \subseteq Names
           /\ HeldSpecs(a, keys, list) \subseteq SpecType
BY SpecsOfList DEF StaleSlots, HeldSpecs

\* Told no keys, a completion goes to every ledger of the list of the moment.
LEMMA UnknownClaimCovered ==
    ASSUME NEW a \in Attempts, NEW list \in Seq(NamedLimit), NEW n \in Names,
           n \in SlotNames(list)
    PROVE  n \in ToRelease(a, Unknown, list)
<1>1. PICK l \in SlotLimits(list) : l.name = n
  BY DEF SlotNames
<1> DEFINE s == [key |-> KeyOf(l), limit |-> l, cost |-> Cost[a].of[l.name]]
<1>2. l.type = "concurrencyLimit" /\ l \in Metered(list)
  BY DEF SlotLimits, Of, Metered
<1>3. s \in HeldSpecs(a, Unknown, list) /\ s.limit = l
  BY <1>2 DEF HeldSpecs, GetLimitSpecs, WasClaimed
<1> HIDE DEF s
<1> QED
  BY <1>1, <1>2, <1>3 DEF ToRelease

\* What a completion has to release are names.
LEMMA ToReleaseNames ==
    ASSUME NEW a \in Attempts, NEW list \in Seq(NamedLimit), NEW keys
    PROVE  ToRelease(a, keys, list) \in SUBSET Names
<1>1. \A s \in HeldSpecs(a, keys, list) : s.limit.name \in Names
  BY SpecsOfList DEF HeldSpecs, SpecType, NamedLimit
<1> QED
  BY <1>1 DEF ToRelease, StaleSlots

---------------------------------------------------------------------------
(* The backend's operations.                                               *)

\* What a claim writes: all of its slots and tokens when every budget
\* agrees, none otherwise, and at most reapings in the ledgers of others.
Wrote(a, specs, got) ==
    /\ ledger' \in [Names -> [Attempts -> SlotType]]
    /\ taken' \in [Attempts -> TakenType]
    /\ \A n \in Names, b \in Attempts :
          \/ ledger'[n][b] = ledger[n][b]
          \/ ledger'[n][b] = NoSlot /\ ledger[n][b].at <= now - RequestTtl
          \/ b = a /\ got /\ \E s \in specs : s.key = Slots(n)
    /\ \A n \in Names : (got /\ \E s \in specs : s.key = Slots(n)) =>
          ledger'[n][a] = [at |-> now, cost |-> Cost[a].of[n]]
    /\ \A b \in Attempts : b # a => taken'[b] = taken[b]
    /\ taken'[a].at <= now
    /\ taken'[a].free = (taken[a].free \/ specs = {})
    /\ \A n \in Names : taken'[a].of[n] = taken[a].of[n] +
          (IF got /\ \E s \in specs : s.key = Tokens(n) THEN Cost[a].of[n] ELSE 0)

\* acquireMultiLimit and the single-budget claims write no more than that.
LEMMA CommitWrites ==
    ASSUME NEW a \in Attempts, NEW specs, NEW ok \in BOOLEAN, Shape,
           Commit(a, specs, ok)
    PROVE  Wrote(a, specs, ok /\ Acquired(a, specs))
<1> DEFINE got == ok /\ Acquired(a, specs)
           claims(k) == \E s \in specs : s.key = k
<1>1. \A k : (ok /\ claims(k) /\ Spends(a, specs, CHOOSE s \in specs : s.key = k))
             <=> (got /\ claims(k))
  BY DEF Spends, Acquired
<1>2. ledger' = [n \in Names |->
          IF ~claims(Slots(n)) THEN ledger[n]
          ELSE IF ~(got /\ claims(Slots(n))) THEN Reaped(n)
          ELSE [Reaped(n) EXCEPT ![a] = [at |-> now, cost |-> Cost[a].of[n]]]]
  BY <1>1 DEF Commit
<1>3. PICK at : /\ at \in {now, taken[a].at}
                /\ taken' = [taken EXCEPT ![a] = [
                     free |-> taken[a].free \/ specs = {}, at |-> at,
                     of |-> [n \in Names |-> taken[a].of[n] +
                        (IF got /\ claims(Tokens(n)) THEN Cost[a].of[n] ELSE 0)]]]
  <2> DEFINE at == IF \E s \in specs : ok /\ claims(s.key)
                        /\ Spends(a, specs, CHOOSE t \in specs : t.key = s.key)
                   THEN now ELSE taken[a].at
  <2>1. a \in DOMAIN taken
    BY DEF Shape
  <2>3. \A n \in Names :
           (IF ok /\ claims(Tokens(n))
                 /\ Spends(a, specs, CHOOSE s \in specs : s.key = Tokens(n))
            THEN Cost[a].of[n] ELSE 0)
           = (IF got /\ claims(Tokens(n)) THEN Cost[a].of[n] ELSE 0)
    BY <1>1
  <2>2. taken' = [taken EXCEPT ![a] = [
                     free |-> taken[a].free \/ specs = {}, at |-> at,
                     of |-> [n \in Names |-> taken[a].of[n] +
                        (IF got /\ claims(Tokens(n)) THEN Cost[a].of[n] ELSE 0)]]]
    <3> DEFINE old(n) == IF ok /\ claims(Tokens(n))
                 /\ Spends(a, specs, CHOOSE s \in specs : s.key = Tokens(n))
            THEN Cost[a].of[n] ELSE 0
               new(n) == IF got /\ claims(Tokens(n)) THEN Cost[a].of[n] ELSE 0
    <3>1. taken' = [taken EXCEPT ![a] = [free |-> @.free \/ specs = {}, at |->
              IF \E s \in specs : ok /\ claims(s.key)
                        /\ Spends(a, specs, CHOOSE t \in specs : t.key = s.key)
              THEN now ELSE @.at,
              of |-> [n \in Names |-> @.of[n] + old(n)]]]
      BY ZenonT(60) DEF Commit
    <3> HIDE DEF old, new
    <3>2. \A n \in Names : old(n) = new(n)
      BY <2>3 DEF old, new
    <3> DEFINE was == [n \in Names |-> taken[a].of[n] + old(n)]
    <3>3. was = [n \in Names |-> taken[a].of[n] + new(n)]
      BY <3>2
    <3>4. taken' = [taken EXCEPT ![a] = [
              free |-> taken[a].free \/ specs = {}, at |-> at, of |-> was]]
      BY <2>1, <3>1, ZenonT(60)
    <3> HIDE DEF was, at
    <3>5. taken' = [taken EXCEPT ![a] = [
              free |-> taken[a].free \/ specs = {}, at |-> at,
              of |-> [n \in Names |-> taken[a].of[n] + new(n)]]]
      BY <3>3, <3>4
    <3> QED
      BY <3>5 DEF new
  <2> QED
    BY <2>2
<1>4. \A n \in Names : Cost[a].of[n] \in Nat
  BY LimitSetAssumption
<1> HIDE DEF got
<1>5. now \in Int /\ RequestTtl \in Nat /\ NoSlot \in SlotType
      /\ ledger \in [Names -> [Attempts -> SlotType]]
  BY LimitSetAssumption DEF Shape, NoSlot, SlotType
<1>6. \A n \in Names : /\ Reaped(n) \in [Attempts -> SlotType]
                       /\ \A b \in Attempts :
                             \/ Reaped(n)[b] = ledger[n][b]
                             \/ /\ Reaped(n)[b] = NoSlot
                                /\ ledger[n][b].at <= now - RequestTtl
  BY <1>5 DEF Reaped
<1>7. \A n \in Names : [at |-> now, cost |-> Cost[a].of[n]] \in SlotType
  BY <1>4, <1>5 DEF SlotType
<1>8. ASSUME NEW n \in Names
      PROVE  /\ ledger'[n] \in [Attempts -> SlotType]
             /\ \A b \in Attempts :
                  \/ ledger'[n][b] = ledger[n][b]
                  \/ ledger'[n][b] = NoSlot /\ ledger[n][b].at <= now - RequestTtl
                  \/ b = a /\ got /\ claims(Slots(n))
             /\ (got /\ claims(Slots(n))) =>
                   ledger'[n][a] = [at |-> now, cost |-> Cost[a].of[n]]
  <2>1. CASE ~claims(Slots(n))
    BY <1>2, <1>5, <2>1
  <2>2. CASE claims(Slots(n)) /\ ~got
    BY <1>2, <1>6, <2>2
  <2>3. CASE claims(Slots(n)) /\ got
    BY <1>2, <1>6, <1>7, <2>3
  <2> QED
    BY <2>1, <2>2, <2>3
<1>9. ledger' \in [Names -> [Attempts -> SlotType]]
  <2>1. ledger' = [n \in Names |-> ledger'[n]]
    BY <1>2
  <2> QED
    BY <1>8, <2>1
<1>10. /\ taken' \in [Attempts -> TakenType]
       /\ \A b \in Attempts : b # a => taken'[b] = taken[b]
       /\ taken'[a].at <= now
       /\ taken'[a].free = (taken[a].free \/ specs = {})
       /\ \A n \in Names : taken'[a].of[n] = taken[a].of[n] +
             (IF got /\ claims(Tokens(n)) THEN Cost[a].of[n] ELSE 0)
  <2> DEFINE of == [n \in Names |-> taken[a].of[n] +
                      (IF got /\ claims(Tokens(n)) THEN Cost[a].of[n] ELSE 0)]
  <2>1. of \in [Names -> Int]
    BY <1>4 DEF Shape, TakenType
  <2>2. \A n \in Names : of[n] = taken[a].of[n] +
             (IF got /\ claims(Tokens(n)) THEN Cost[a].of[n] ELSE 0)
    OBVIOUS
  <2> DEFINE free == taken[a].free \/ specs = {}
  <2>3. taken' = [taken EXCEPT ![a] = [free |-> free, at |-> at, of |-> of]]
    BY <1>3
  <2>7. free \in BOOLEAN
    OBVIOUS
  <2> HIDE DEF of, claims, free
  <2>5. taken \in [Attempts -> TakenType] /\ taken[a].at <= now /\ now \in Nat
    BY DEF Shape
  <2>4. at \in Int /\ at <= now
    <3>1. at = now \/ at = taken[a].at
      BY <1>3
    <3>2. taken[a].at \in Int
      BY <2>5 DEF TakenType
    <3> QED
      BY <2>5, <3>1, <3>2
  <2>6. /\ taken' \in [Attempts -> TakenType]
        /\ \A b \in Attempts : b # a => taken'[b] = taken[b]
        /\ taken'[a].at = at /\ taken'[a].of = of /\ taken'[a].free = free
    BY <2>1, <2>3, <2>4, <2>5, <2>7 DEF TakenType
  <2> QED
    BY <2>2, <2>4, <2>6 DEF free
<1> QED
  BY <1>8, <1>9, <1>10 DEF Wrote, got

\* What a release writes: the slots of the specs go, and at most the cost of
\* each bucket among the specs is given back.
GaveBack(a, specs) ==
    /\ ledger' \in [Names -> [Attempts -> SlotType]]
    /\ taken' \in [Attempts -> TakenType]
    /\ \A n \in Names, b \in Attempts : ledger'[n][b] =
          IF b = a /\ \E s \in specs : s.key = Slots(n) THEN NoSlot
          ELSE ledger[n][b]
    /\ \A b \in Attempts : /\ b # a => taken'[b] = taken[b]
                           /\ taken'[b].at = taken[b].at
                           /\ taken'[b].free = taken[b].free
    /\ \A n \in Names :
          \/ taken'[a].of[n] = taken[a].of[n]
          \/ /\ taken'[a].of[n] = taken[a].of[n] - Cost[a].of[n]
             /\ \E s \in specs : s.key = Tokens(n)

\* releaseMultiLimit, refundTokens and releaseConcurrency do just that.
LEMMA ReleaseMultiGivesBack ==
    ASSUME NEW a \in Attempts, NEW specs, Shape, ReleaseMulti(a, specs)
    PROVE  GaveBack(a, specs)
<1> DEFINE paid(n) == {s \in specs : /\ s.key = Tokens(n) /\ ~bucket[n].absent
                                     /\ ~(Frozen /\ freeze.emptied)}
           of == [n \in Names |-> taken[a].of[n]
                     - (IF paid(n) = {} THEN 0 ELSE Cost[a].of[n])]
<1>1. NoSlot \in SlotType /\ ledger \in [Names -> [Attempts -> SlotType]]
  BY DEF Shape, NoSlot, SlotType
<1>2. ledger' = [n \in Names |->
          IF \E s \in specs : s.key = Slots(n)
          THEN [ledger[n] EXCEPT ![a] = NoSlot] ELSE ledger[n]]
  BY DEF ReleaseMulti
<1>3. ledger' \in [Names -> [Attempts -> SlotType]]
  BY <1>1, <1>2
<1>4. \A n \in Names, b \in Attempts : ledger'[n][b] =
          IF b = a /\ \E s \in specs : s.key = Slots(n) THEN NoSlot
          ELSE ledger[n][b]
  BY <1>1, <1>2
<1>5. taken' = [taken EXCEPT ![a].of = of]
  BY DEF ReleaseMulti, Shape
<1>6. /\ of \in [Names -> Int]
      /\ \A n \in Names :
          \/ of[n] = taken[a].of[n]
          \/ /\ of[n] = taken[a].of[n] - Cost[a].of[n]
             /\ \E s \in specs : s.key = Tokens(n)
  BY LimitSetAssumption DEF Shape, TakenType
<1> HIDE DEF of
<1>7. taken \in [Attempts -> TakenType]
  BY DEF Shape
<1>8. /\ taken' \in [Attempts -> TakenType]
      /\ \A b \in Attempts : /\ b # a => taken'[b] = taken[b]
                             /\ taken'[b].at = taken[b].at
                             /\ taken'[b].free = taken[b].free
      /\ taken'[a].of = of
  BY <1>5, <1>6, <1>7 DEF TakenType
<1> QED
  BY <1>3, <1>4, <1>6, <1>8 DEF GaveBack

\* releaseConcurrency.
LEMMA ReleaseSlotWrites ==
    ASSUME NEW a \in Attempts, NEW m \in Names, Shape, ReleaseSlot(a, m)
    PROVE  /\ ledger' \in [Names -> [Attempts -> SlotType]]
           /\ \A n \in Names, b \in Attempts : ledger'[n][b] =
                 IF b = a /\ n = m THEN NoSlot ELSE ledger[n][b]
BY DEF ReleaseSlot, Shape, NoSlot, SlotType

---------------------------------------------------------------------------
(* Types, and the attempts that a step is not about.                       *)

\* What a step of one attempt leaves of another: everything, except that a
\* claim may reap a slot that has outlived its lifetime.
Aside(b) ==
    /\ att'[b] = att[b] /\ entry'[b] = entry[b] /\ cleanup'[b] = cleanup[b]
    /\ taken'[b] = taken[b]
    /\ \A n \in Names :
          \/ ledger'[n][b] = ledger[n][b]
          \/ ledger'[n][b] = NoSlot /\ ledger[n][b].at <= now - RequestTtl
    /\ (b \in pass.on \/ b \in pass'.on) => pass' = pass

\* A step about one attempt.
About(a) ==
    /\ Shape'
    /\ limits' = limits /\ seen' = seen /\ now' = now
    /\ \A b \in Attempts : b # a => Aside(b)

\* The empty pass is well-formed.
LEMMA IdleType == Idle \in PassType /\ Idle.on = {} /\ Idle.step = "idle"
BY DEF Idle, PassType, Steps, KeySets

\* An attempt that changes its state keeps its shape, and the others theirs.
LEMMA StateWritten ==
    ASSUME Shape, NEW a \in Attempts, NEW s \in States,
           att' = [att EXCEPT ![a].state = s]
    PROVE  /\ att' \in [Attempts -> AttType]
           /\ \A b \in Attempts : b # a => att'[b] = att[b]
<1> DEFINE x == [att[a] EXCEPT !.state = s]
<1>1. att[a] \in AttType /\ att \in [Attempts -> AttType]
  BY DEF Shape
<1>2. x \in AttType
  BY <1>1 DEF AttType
<1>3. att' = [att EXCEPT ![a] = x]
  BY <1>1
<1> HIDE DEF x
<1> QED
  BY <1>1, <1>2, <1>3

\* Every operation of an attempt is a step about that attempt.
LEMMA OnReadyAbout ==
    ASSUME Inv, NEW a \in Attempts, OnReady(a)
    PROVE  About(a)
BY ZenonT(60) DEF Inv, Shape, OnReady, About, Aside, AttType, States

LEMMA AbandonAbout ==
    ASSUME Inv, NEW a \in Attempts, Abandon(a)
    PROVE  About(a)
<1>1. /\ att' \in [Attempts -> AttType]
      /\ \A b \in Attempts : b # a => att'[b] = att[b]
  BY StateWritten DEF Inv, Abandon, States
<1> QED
  BY <1>1 DEF Inv, Shape, Abandon, About, Aside

LEMMA FinishAbout ==
    ASSUME Inv, NEW a \in Attempts, Finish(a)
    PROVE  About(a)
<1>1. PICK outcome \in {"ok", "429", "5xx"} :
         att' = [att EXCEPT ![a] = [@ EXCEPT !.state = "announced",
                                             !.outcome = outcome]]
  BY DEF Finish
<1> DEFINE x == [att[a] EXCEPT !.state = "announced", !.outcome = outcome]
<1>2. att[a] \in AttType /\ att \in [Attempts -> AttType]
  BY DEF Inv, Shape
<1>3. x \in AttType
  BY <1>2 DEF AttType, States
<1>4. att' = [att EXCEPT ![a] = x]
  BY <1>1, <1>2
<1> HIDE DEF x
<1>5. /\ att' \in [Attempts -> AttType]
      /\ \A b \in Attempts : b # a => att'[b] = att[b]
  BY <1>2, <1>3, <1>4
<1> QED
  BY <1>5 DEF Inv, Shape, Finish, About, Aside

LEMMA KeepAttemptAliveAbout ==
    ASSUME Inv, NEW a \in Attempts, KeepAttemptAlive(a)
    PROVE  About(a)
<1> DEFINE holds(n) == /\ \E s \in HeldSpecs(a, att[a].keys, limits["owner"]) :
                             s.key = Slots(n)
                       /\ ledger[n][a] # NoSlot
<1>1. ledger' = [n \in Names |-> IF holds(n) THEN [ledger[n] EXCEPT ![a].at = now]
                                 ELSE ledger[n]]
  BY DEF KeepAttemptAlive
<1> HIDE DEF holds
<1>2. ASSUME NEW n \in Names
      PROVE  /\ ledger'[n] \in [Attempts -> SlotType]
             /\ \A b \in Attempts : b # a => ledger'[n][b] = ledger[n][b]
  <2>1. ledger[n] \in [Attempts -> SlotType] /\ now \in Int
    BY DEF Inv, Shape
  <2>2. [ledger[n][a] EXCEPT !.at = now] \in SlotType
    BY <2>1 DEF SlotType
  <2>3. \/ ledger'[n] = ledger[n]
        \/ ledger'[n] = [ledger[n] EXCEPT ![a] = [ledger[n][a] EXCEPT !.at = now]]
    BY <1>1, <2>1
  <2> QED
    BY <2>1, <2>2, <2>3
<1>3. ledger' = [n \in Names |-> ledger'[n]]
  BY <1>1
<1>4. ledger' \in [Names -> [Attempts -> SlotType]]
  BY <1>2, <1>3
<1> QED
  BY <1>2, <1>4 DEF Inv, Shape, KeepAttemptAlive, About, Aside

LEMMA FailBeforeDispatchAbout ==
    ASSUME Inv, NEW a \in Attempts, FailBeforeDispatch(a)
    PROVE  About(a)
<1>1. limits["owner"] \in Seq(NamedLimit)
  BY DEF Inv, Shape, Replicas
<1>2. /\ StaleSlots(att[a].keys, limits["owner"]) \in SUBSET Names
      /\ HeldSpecs(a, att[a].keys, limits["owner"]) \in SUBSET SpecType
  BY <1>1, SpecsOfList DEF StaleSlots, HeldSpecs
<1>3. PICK c \in CleanupType : cleanup' = [cleanup EXCEPT ![a] = c]
  <2> DEFINE c == IF Metered(limits["owner"]) = {} THEN [stale |-> {}, multi |-> {}]
                  ELSE [stale |-> StaleSlots(att[a].keys, limits["owner"]),
                        multi |-> HeldSpecs(a, att[a].keys, limits["owner"])]
  <2>1. c \in CleanupType
    BY <1>2 DEF CleanupType
  <2>2. cleanup' = [cleanup EXCEPT ![a] = c]
    BY DEF FailBeforeDispatch
  <2> QED
    BY <2>1, <2>2
<1>4. att' \in [Attempts -> AttType]
      /\ \A b \in Attempts : b # a => att'[b] = att[b]
  BY StateWritten DEF Inv, FailBeforeDispatch, States
<1> QED
  BY <1>3, <1>4, ZenonT(60) DEF Inv, Shape, FailBeforeDispatch, About, Aside

LEMMA HandleRequestDoneAbout ==
    ASSUME Inv, NEW a \in Attempts, HandleRequestDone(a)
    PROVE  About(a)
<1>1. /\ att' \in [Attempts -> AttType]
      /\ \A b \in Attempts : b # a => att'[b] = att[b]
  BY StateWritten DEF Inv, HandleRequestDone, States
<1> QED
  BY <1>1 DEF Inv, Shape, HandleRequestDone, About, Aside

LEMMA HandleFreezeOwnTypeAbout ==
    ASSUME Inv, NEW a \in Attempts, HandleFreezeOwnType(a)
    PROVE  About(a)
<1>1. limits["controller"] \in Seq(NamedLimit)
  BY DEF Inv, Shape, Replicas
<1>2. PICK c \in CleanupType : cleanup' = [cleanup EXCEPT ![a] = c]
  BY <1>1, ToReleaseNames DEF HandleFreezeOwnType, CleanupType
<1> QED
  <2>1. att' \in [Attempts -> AttType]
        /\ \A b \in Attempts : b # a => att'[b] = att[b]
    BY StateWritten DEF Inv, HandleFreezeOwnType, States
  <2> QED
    BY <1>2, <2>1, ZenonT(60) DEF Inv, Shape, HandleFreezeOwnType, About, Aside

LEMMA RefundAbout ==
    ASSUME Inv, NEW a \in Attempts, Refund(a)
    PROVE  About(a)
<1>1. ASSUME NEW m \in cleanup[a].stale, ReleaseSlot(a, m),
             cleanup' = [cleanup EXCEPT ![a].stale = @ \ {m}],
             UNCHANGED <<bucket, taken, att>>
      PROVE  About(a)
  <2>1. m \in Names
    BY DEF Inv, Shape, CleanupType
  <2>2. /\ ledger' \in [Names -> [Attempts -> SlotType]]
        /\ \A n \in Names, b \in Attempts : b # a => ledger'[n][b] = ledger[n][b]
    BY <1>1, <2>1, ReleaseSlotWrites DEF Inv
  <2> QED
    BY <1>1, <2>2, ZenonT(60) DEF Inv, Shape, Refund, About, Aside, CleanupType
<1>2. ASSUME ReleaseMulti(a, cleanup[a].multi),
             cleanup' = [cleanup EXCEPT ![a].multi = {}],
             att' = [att EXCEPT ![a].state = "announced"]
      PROVE  About(a)
  <2>1. GaveBack(a, cleanup[a].multi)
    BY <1>2, ReleaseMultiGivesBack DEF Inv
  <2>2. /\ att' \in [Attempts -> AttType]
        /\ \A b \in Attempts : b # a => att'[b] = att[b]
    BY <1>2, StateWritten DEF Inv, States
  <2>3. /\ cleanup' \in [Attempts -> CleanupType]
        /\ \A b \in Attempts : b # a => cleanup'[b] = cleanup[b]
    BY <1>2 DEF Inv, Shape, CleanupType
  <2>4. /\ ledger' \in [Names -> [Attempts -> SlotType]]
        /\ taken' \in [Attempts -> TakenType]
        /\ \A b \in Attempts : b # a => taken'[b] = taken[b]
        /\ \A n \in Names, b \in Attempts : b # a => ledger'[n][b] = ledger[n][b]
        /\ \A b \in Attempts : taken'[b].at <= now
    BY <2>1 DEF GaveBack, Inv, Shape
  <2>5. UNCHANGED <<limits, published, seen, entry, pass, now>>
    BY DEF Refund
  <2>6. Shape'
    BY <2>2, <2>3, <2>4, <2>5 DEF Inv, Shape
  <2> QED
    BY <2>2, <2>3, <2>4, <2>5, <2>6 DEF About, Aside
<1> QED
  BY <1>1, <1>2 DEF Refund

LEMMA ReleaseDoneAbout ==
    ASSUME Inv, NEW a \in Attempts, ReleaseDone(a)
    PROVE  About(a)
<1>1. ASSUME NEW m \in cleanup[a].stale, ReleaseSlot(a, m),
             cleanup' = [cleanup EXCEPT ![a].stale = @ \ {m}], UNCHANGED att
      PROVE  About(a)
  <2>1. m \in Names
    BY DEF Inv, Shape, CleanupType
  <2>2. /\ ledger' \in [Names -> [Attempts -> SlotType]]
        /\ \A n \in Names, b \in Attempts : b # a => ledger'[n][b] = ledger[n][b]
    BY <1>1, <2>1, ReleaseSlotWrites DEF Inv
  <2> QED
    BY <1>1, <2>2, ZenonT(60)
      DEF Inv, Shape, ReleaseDone, About, Aside, CleanupType
<1>2. ASSUME cleanup' = [cleanup EXCEPT ![a].stale =
                ToRelease(a, att[a].keys, limits["controller"])],
             UNCHANGED <<ledger, att>>
      PROVE  About(a)
  <2>1. ToRelease(a, att[a].keys, limits["controller"]) \in SUBSET Names
    BY ToReleaseNames DEF Inv, Shape, Replicas
  <2> QED
    BY <1>2, <2>1 DEF Inv, Shape, ReleaseDone, About, Aside, CleanupType
<1>3. ASSUME att' = [att EXCEPT ![a].state = "done"], UNCHANGED <<ledger, cleanup>>
      PROVE  About(a)
  BY <1>3, ZenonT(60) DEF Inv, Shape, ReleaseDone, About, Aside, AttType, States
<1> QED
  BY <1>1, <1>2, <1>3 DEF ReleaseDone

LEMMA SelectAbout ==
    ASSUME Inv, NEW a \in Attempts, Select(a)
    PROVE  About(a)
<1>1. pass' \in PassType /\ pass'.on = {a} /\ pass.on = {}
  BY IdleType DEF Select, PassType, Steps
<1> QED
  BY <1>1 DEF Inv, Shape, Select, About, Aside

LEMMA CanProcessNextRequestAbout ==
    ASSUME Inv, NEW a \in Attempts, CanProcessNextRequest(a)
    PROVE  About(a)
<1>1. /\ pass' \in PassType /\ pass'.on \subseteq {a} /\ pass.on = {a}
      /\ entry' \in [Attempts -> {"absent", "pending", "inProgress"}]
      /\ \A b \in Attempts : b # a => entry'[b] = entry[b]
  <2>1. pass.on = {a} /\ pass \in PassType
        /\ entry \in [Attempts -> {"absent", "pending", "inProgress"}]
    BY DEF CanProcessNextRequest, Inv, Shape
  <2>2. CASE pass' = [pass EXCEPT !.step = "claim"] /\ entry' = entry
    BY <2>1, <2>2 DEF PassType, Steps
  <2>3. CASE ReturnToQueue(a)
    BY <2>1, <2>3, IdleType DEF ReturnToQueue
  <2> QED
    BY <2>2, <2>3 DEF CanProcessNextRequest
<1> QED
  BY <1>1 DEF Inv, Shape, CanProcessNextRequest, About, Aside

LEMMA TryAdmitImmediatelyAbout ==
    ASSUME Inv, NEW a \in Attempts, TryAdmitImmediately(a)
    PROVE  About(a)
<1> DEFINE specs == GetLimitSpecs(a, limits["owner"])
           keys == ClaimedKeys(specs)
<1>1. keys \in KeySets
  BY ClaimedKeysType DEF Inv, Shape, Replicas
<1>2. \/ Wrote(a, specs, TRUE /\ Acquired(a, specs))
      \/ UNCHANGED <<ledger, taken>>
  BY CommitWrites DEF TryAdmitImmediately, Inv
<1>3. /\ ledger' \in [Names -> [Attempts -> SlotType]]
      /\ taken' \in [Attempts -> TakenType]
      /\ taken'[a].at <= now
      /\ \A b \in Attempts : b # a =>
            /\ taken'[b] = taken[b]
            /\ \A n \in Names :
                  \/ ledger'[n][b] = ledger[n][b]
                  \/ ledger'[n][b] = NoSlot /\ ledger[n][b].at <= now - RequestTtl
  BY <1>2 DEF Wrote, Inv, Shape
<1> HIDE DEF specs, keys
<1>4. /\ att' \in [Attempts -> AttType]
      /\ entry' \in [Attempts -> {"absent", "pending", "inProgress"}]
      /\ \A b \in Attempts : b # a => att'[b] = att[b] /\ entry'[b] = entry[b]
  <2>1. \/ att' = [att EXCEPT ![a] = [@ EXCEPT !.state = "running",
                          !.keys = keys]] /\ entry' = entry
        \/ /\ att' = [att EXCEPT ![a].state = "waiting"]
           /\ entry' = [entry EXCEPT ![a] = "pending"]
    BY DEF TryAdmitImmediately, specs, keys
  <2>2. /\ [att[a] EXCEPT !.state = "running", !.keys = keys] \in AttType
        /\ [att[a] EXCEPT !.state = "waiting"] \in AttType
        /\ att \in [Attempts -> AttType]
    BY <1>1 DEF Inv, Shape, AttType, States
  <2>3. PICK x \in AttType : att' = [att EXCEPT ![a] = x]
    BY <2>1, <2>2
  <2> QED
    BY <2>1, <2>2, <2>3 DEF Inv, Shape
<1>5. /\ limits' = limits /\ published' = published /\ seen' = seen
      /\ pass' = pass /\ cleanup' = cleanup /\ now' = now
  BY DEF TryAdmitImmediately
<1> QED
  BY <1>3, <1>4, <1>5 DEF Inv, Shape, About, Aside

LEMMA TryAcquireTurnAbout ==
    ASSUME Inv, NEW a \in Attempts, TryAcquireTurn(a)
    PROVE  About(a)
<1> DEFINE specs == GetLimitSpecs(a, limits["controller"])
           keys == ClaimedKeys(specs)
           ok == StatusChecked(limits["controller"]) => entry[a] = "inProgress"
<1>1. keys \in KeySets
  BY ClaimedKeysType DEF Inv, Shape, Replicas
<1>2. \/ Wrote(a, specs, ok /\ Acquired(a, specs))
      \/ UNCHANGED <<ledger, taken>>
  BY CommitWrites DEF TryAcquireTurn, Inv
<1>3. /\ ledger' \in [Names -> [Attempts -> SlotType]]
      /\ taken' \in [Attempts -> TakenType]
      /\ taken'[a].at <= now
      /\ \A b \in Attempts : b # a =>
            /\ taken'[b] = taken[b]
            /\ \A n \in Names :
                  \/ ledger'[n][b] = ledger[n][b]
                  \/ ledger'[n][b] = NoSlot /\ ledger[n][b].at <= now - RequestTtl
  BY <1>2 DEF Wrote, Inv, Shape
<1>4. pass.on = {a}
  BY DEF TryAcquireTurn
<1> HIDE DEF specs, keys
<1>5. /\ pass' \in PassType /\ pass'.on \subseteq {a}
      /\ entry' \in [Attempts -> {"absent", "pending", "inProgress"}]
      /\ \A b \in Attempts : b # a => entry'[b] = entry[b]
  <2>1. \/ /\ \E step \in {"confirm", "recheck"} :
                 pass' = [pass EXCEPT !.step = step, !.keys = keys]
           /\ entry' = entry
        \/ /\ entry' = [entry EXCEPT ![a] = IF @ = "absent" THEN @ ELSE "pending"]
           /\ pass' = Idle
    BY DEF TryAcquireTurn, specs, keys, ReturnToQueue
  <2> QED
    BY <1>1, <1>4, <2>1, IdleType DEF Inv, Shape, PassType, Steps
<1>6. /\ limits' = limits /\ published' = published /\ seen' = seen
      /\ att' = att /\ cleanup' = cleanup /\ now' = now
  BY DEF TryAcquireTurn
<1> QED
  BY <1>3, <1>4, <1>5, <1>6 DEF Inv, Shape, About, Aside

\* releaseClaim by the pass starts from what the claim and the list have.
LEMMA StartReleaseType ==
    ASSUME Inv, NEW a \in Attempts, NEW step \in Steps, StartRelease(a, step)
    PROVE  /\ pass' \in PassType /\ pass'.on = pass.on /\ pass'.step = step
           /\ pass'.stale = StaleSlots(pass.keys, limits["controller"])
           /\ pass'.multi = HeldSpecs(a, pass.keys, limits["controller"])
<1>1. /\ StaleSlots(pass.keys, limits["controller"]) \in SUBSET Names
      /\ HeldSpecs(a, pass.keys, limits["controller"]) \in SUBSET SpecType
  BY ReleaseType DEF Inv, Shape, PassType, Replicas
<1> QED
  BY <1>1 DEF StartRelease, Inv, Shape, PassType

LEMMA RecheckFrozenAbout ==
    ASSUME Inv, NEW a \in Attempts, RecheckFrozen(a)
    PROVE  About(a)
<1>1. pass' \in PassType /\ pass'.on = {a} /\ pass.on = {a}
  <2>1. pass.on = {a} /\ pass \in PassType
    BY DEF RecheckFrozen, Inv, Shape
  <2>2. CASE StartRelease(a, "return")
    BY <2>1, <2>2, StartReleaseType DEF Steps
  <2>3. CASE pass' = [pass EXCEPT !.step = "confirm"]
    BY <2>1, <2>3 DEF PassType, Steps
  <2> QED
    BY <2>2, <2>3 DEF RecheckFrozen
<1> QED
  BY <1>1 DEF Inv, Shape, RecheckFrozen, About, Aside

LEMMA ConfirmAbout ==
    ASSUME Inv, NEW a \in Attempts, Confirm(a)
    PROVE  About(a)
<1>1. pass' \in PassType /\ pass'.on \subseteq {a} /\ pass.on = {a}
  BY StartReleaseType, IdleType DEF Confirm, Inv, Shape, PassType, Steps
<1>2. /\ att' \in [Attempts -> AttType]
      /\ \A b \in Attempts : b # a => att'[b] = att[b]
  <2>1. att' = att \/ att' = [att EXCEPT ![a].ready = pass.keys]
    BY DEF Confirm
  <2>2. pass.keys \in KeySets /\ att \in [Attempts -> AttType]
    BY DEF Inv, Shape, PassType, KeySets
  <2> QED
    BY <2>1, <2>2 DEF AttType
<1> QED
  BY <1>1, <1>2 DEF Inv, Shape, Confirm, About, Aside

LEMMA PassReleaseAbout ==
    ASSUME Inv, NEW a \in Attempts, PassRelease(a)
    PROVE  About(a)
<1>1. pass.on = {a}
  BY DEF PassRelease
<1>2. ASSUME NEW m \in pass.stale, ReleaseSlot(a, m),
             pass' = [pass EXCEPT !.stale = @ \ {m}],
             UNCHANGED <<bucket, taken, entry>>
      PROVE  About(a)
  <2>1. m \in Names /\ pass' \in PassType /\ pass'.on = {a}
    BY <1>1, <1>2 DEF Inv, Shape, PassType
  <2>2. /\ ledger' \in [Names -> [Attempts -> SlotType]]
        /\ \A n \in Names, b \in Attempts : b # a => ledger'[n][b] = ledger[n][b]
    BY <1>2, <2>1, ReleaseSlotWrites DEF Inv
  <2> QED
    BY <1>1, <1>2, <2>1, <2>2 DEF Inv, Shape, PassRelease, About, Aside
<1>3. ASSUME ReleaseMulti(a, pass.multi), pass' = Idle,
             \/ entry' = entry
             \/ entry' = [entry EXCEPT ![a] = IF @ = "absent" THEN @ ELSE "pending"]
      PROVE  About(a)
  <2>1. GaveBack(a, pass.multi)
    BY <1>3, ReleaseMultiGivesBack DEF Inv
  <2>2. /\ entry' \in [Attempts -> {"absent", "pending", "inProgress"}]
        /\ \A b \in Attempts : b # a => entry'[b] = entry[b]
    BY <1>3 DEF Inv, Shape
  <2> QED
    BY ZenonT(60), <1>1, <1>3, <2>1, <2>2, IdleType
    DEF Inv, Shape, PassRelease, About, Aside, GaveBack
<1> QED
  BY <1>2, <1>3 DEF PassRelease, ReturnToQueue

\* A step about one attempt keeps what holds of the others.
LEMMA OthersSound ==
    ASSUME Inv, NEW a \in Attempts, About(a), NEW b \in Attempts, b # a
    PROVE  Sound(b)'
<1>1. /\ att'[b] = att[b] /\ entry'[b] = entry[b] /\ cleanup'[b] = cleanup[b]
      /\ taken'[b] = taken[b] /\ now' = now /\ seen' = seen
      /\ (b \in pass.on \/ b \in pass'.on) => pass' = pass
  BY DEF About, Aside
<1>2. Owned(b)'
  BY <1>1 DEF Inv, Sound, Owned
<1>3. ASSUME NEW n \in Names PROVE \/ ledger'[n][b] = ledger[n][b]
                                   \/ /\ ledger'[n][b] = NoSlot
                                      /\ ledger[n][b].at <= now - RequestTtl
  BY DEF About, Aside
<1>4. Tracked(b)'
  BY <1>1, <1>3 DEF Inv, Sound, Tracked, Unclaimed, ToDrop, Still
<1>5. Returned(b)'
  BY <1>1, <1>3 DEF Inv, Sound, Returned, Settling, Still
<1>6. Counted(b)'
  <2> SUFFICES ASSUME NEW n \in Names, CountsIn(b, n)',
                      now < taken[b].at + RequestTtl
               PROVE  ledger'[n][b] # NoSlot /\ ledger'[n][b].at >= taken[b].at
    BY <1>1 DEF Counted
  <2>1. CountsIn(b, n)
    BY <1>1 DEF CountsIn
  <2>2. ledger[n][b] # NoSlot /\ ledger[n][b].at >= taken[b].at
    BY <2>1 DEF Inv, Sound, Counted
  <2>3. /\ ledger[n][b].at \in Int /\ taken[b].at \in Int /\ now \in Int
        /\ RequestTtl \in Int
    BY LimitSetAssumption DEF Inv, Shape, SlotType, TakenType
  <2> QED
    BY <1>3, <2>2, <2>3
<1>7. Paid(b)'
  BY <1>1 DEF Inv, Sound, Paid, Refundable
<1>8. Known(b)'
  BY <1>1 DEF Inv, Sound, Known
<1> QED
  BY <1>2, <1>4, <1>5, <1>6, <1>7, <1>8 DEF Sound
---------------------------------------------------------------------------
(* The attempt a step is about.                                     *)

\* Where a completion may settle the slots of an attempt, the ledgers it goes
\* to include every one the attempt holds a slot in.
LEMMA HeldIsReleased ==
    ASSUME Inv, NEW a \in Attempts, NEW n \in Names, Settling(a),
           ledger[n][a] # NoSlot
    PROVE  n \in ToRelease(a, att[a].keys, limits["controller"])
<1>1. Tracked(a) /\ att[a].keys \in KeySets
      /\ limits["controller"] \in Seq(NamedLimit)
  BY DEF Inv, Sound, Shape, AttType, Replicas
<1>2. CASE att[a].keys # Unknown
  <2>1. Slots(n) \in att[a].keys /\ att[a].keys \in SUBSET Keys
    BY <1>1, <1>2 DEF Tracked, KeySets
  <2> QED
    BY <1>1, <2>1, KnownClaimCovered
<1>3. CASE att[a].keys = Unknown
  <2>1. Still /\ limits["controller"] = InitLimits
    BY <1>3 DEF Settling, Inv, Unmoved, Replicas
  <2>2. n \in SlotNames(limits["controller"])
    BY <1>1, <2>1 DEF Tracked
  <2> QED
    BY <1>1, <1>3, <2>2, UnknownClaimCovered
<1> QED
  BY <1>2, <1>3

\* The owner takes over the claim that the pass confirmed.
LEMMA OnReadySound ==
    ASSUME Inv, NEW a \in Attempts, OnReady(a), About(a)
    PROVE  Sound(a)'
<1>1. /\ att[a].state = "waiting" /\ att[a].ready # Untold
      /\ att'[a].state = "running" /\ att'[a].keys = att[a].ready
      /\ att'[a].ready = att[a].ready
      /\ ledger' = ledger /\ taken' = taken /\ pass' = pass /\ entry' = entry
      /\ cleanup' = cleanup /\ now' = now /\ seen' = seen
  BY DEF OnReady, Inv, Shape, AttType
<1>2. /\ Owned(a) /\ Known(a) /\ Tracked(a) /\ Returned(a)
      /\ Counted(a) /\ Paid(a)
  BY DEF Inv, Sound
<1>3. Owned(a)'
  BY <1>1, <1>2 DEF Owned
<1>4. Tracked(a)'
  BY <1>1, <1>2 DEF Owned, Tracked, Unclaimed, ToDrop, Still
<1>5. Returned(a)'
  BY <1>1, <1>2 DEF Owned, Tracked, Returned, Settling, Still
<1>6. Counted(a)'
  BY <1>1, <1>2 DEF Owned, Counted, CountsIn
<1>7. Paid(a)'
  BY <1>1, <1>2 DEF Owned, Paid, Refundable
<1>8. Known(a)'
  BY <1>1, <1>2 DEF Owned, Known
<1> QED
  BY <1>8, <1>3, <1>4, <1>5, <1>6, <1>7 DEF Sound

\* An attempt that gives up leaves its claim to the pass and its completion.
LEMMA AbandonSound ==
    ASSUME Inv, NEW a \in Attempts, Abandon(a), About(a)
    PROVE  Sound(a)'
<1>1. /\ att[a].state = "waiting" /\ att'[a].state = "announced"
      /\ att'[a].keys = att[a].keys /\ att'[a].ready = att[a].ready
      /\ ledger' = ledger /\ taken' = taken /\ pass' = pass /\ entry' = entry
      /\ cleanup' = cleanup /\ now' = now /\ seen' = seen
  BY DEF Abandon, Inv, Shape, AttType
<1>2. /\ Owned(a) /\ Known(a) /\ Tracked(a) /\ Returned(a)
      /\ Counted(a) /\ Paid(a)
  BY DEF Inv, Sound
<1>3. Owned(a)'
  BY <1>1, <1>2 DEF Owned
<1>4. Tracked(a)'
  BY <1>1, <1>2 DEF Owned, Tracked, Unclaimed, ToDrop, Still
<1>5. Returned(a)'
  BY <1>1, <1>2 DEF Owned, Tracked, Returned, Settling, Still
<1>6. Counted(a)'
  BY <1>1, <1>2 DEF Owned, Counted, CountsIn
<1>7. Paid(a)'
  BY <1>1, <1>2 DEF Owned, Paid, Refundable
<1>8. Known(a)'
  BY <1>1, <1>2 DEF Owned, Known
<1> QED
  BY <1>8, <1>3, <1>4, <1>5, <1>6, <1>7 DEF Sound

\* A finished attempt keeps the keys of its claim.
LEMMA FinishSound ==
    ASSUME Inv, NEW a \in Attempts, Finish(a), About(a)
    PROVE  Sound(a)'
<1>1. /\ att[a].state = "running" /\ att'[a].state = "announced"
      /\ att'[a].keys = att[a].keys /\ att'[a].ready = att[a].ready
      /\ ledger' = ledger /\ taken' = taken /\ pass' = pass /\ entry' = entry
      /\ cleanup' = cleanup /\ now' = now /\ seen' = seen
  BY DEF Finish, Inv, Shape, AttType
<1>2. /\ Owned(a) /\ Known(a) /\ Tracked(a) /\ Returned(a)
      /\ Counted(a) /\ Paid(a)
  BY DEF Inv, Sound
<1>3. Owned(a)'
  BY <1>1, <1>2 DEF Owned
<1>4. Tracked(a)'
  BY <1>1, <1>2 DEF Owned, Tracked, Unclaimed, ToDrop, Still
<1>5. Returned(a)'
  BY <1>1, <1>2 DEF Owned, Tracked, Returned, Settling, Still
<1>6. Counted(a)'
  BY <1>1, <1>2 DEF Owned, Counted, CountsIn
<1>7. Paid(a)'
  BY <1>1, <1>2 DEF Owned, Paid, Refundable
<1>8. Known(a)'
  BY <1>1, <1>2 DEF Owned, Known
<1> QED
  BY <1>8, <1>3, <1>4, <1>5, <1>6, <1>7 DEF Sound

\* The completion takes the entry away; an entry that is gone stays gone.
LEMMA HandleRequestDoneSound ==
    ASSUME Inv, NEW a \in Attempts, HandleRequestDone(a), About(a)
    PROVE  Sound(a)'
<1>1. /\ att[a].state = "announced" /\ att'[a].state = "freezing"
      /\ att'[a].keys = att[a].keys /\ att'[a].ready = att[a].ready
      /\ entry'[a] = "absent"
      /\ ledger' = ledger /\ taken' = taken /\ pass' = pass
      /\ cleanup' = cleanup /\ now' = now /\ seen' = seen
  BY DEF HandleRequestDone, Inv, Shape, AttType
<1>2. /\ Owned(a) /\ Known(a) /\ Tracked(a) /\ Returned(a)
      /\ Counted(a) /\ Paid(a)
  BY DEF Inv, Sound
<1>3. Owned(a)'
  BY <1>1, <1>2 DEF Owned
<1>4. Tracked(a)'
  BY <1>1, <1>2 DEF Owned, Tracked, Unclaimed, ToDrop, Still
<1>5. Returned(a)'
  BY <1>1, <1>2 DEF Owned, Tracked, Returned, Settling, Still
<1>6. Counted(a)'
  BY <1>1, <1>2 DEF Owned, Counted, CountsIn
<1>7. Paid(a)'
  BY <1>1, <1>2 DEF Owned, Paid, Refundable
<1>8. Known(a)'
  BY <1>1, <1>2 DEF Owned, Known
<1> QED
  BY <1>8, <1>3, <1>4, <1>5, <1>6, <1>7 DEF Sound

\* A keep-alive moves the slots it refreshes to the present, and adds none.
LEMMA KeepAttemptAliveSound ==
    ASSUME Inv, NEW a \in Attempts, KeepAttemptAlive(a), About(a)
    PROVE  Sound(a)'
<1>1. /\ att[a].state = "running" /\ att' = att
      /\ taken' = taken /\ pass' = pass /\ entry' = entry
      /\ cleanup' = cleanup /\ now' = now /\ seen' = seen
  BY DEF KeepAttemptAlive
<1>2. /\ Owned(a) /\ Known(a) /\ Tracked(a) /\ Returned(a)
      /\ Counted(a) /\ Paid(a)
  BY DEF Inv, Sound
<1>3. ASSUME NEW n \in Names
      PROVE  \/ ledger'[n][a] = ledger[n][a]
             \/ /\ ledger[n][a] # NoSlot
                /\ ledger'[n][a] = [ledger[n][a] EXCEPT !.at = now]
  BY DEF KeepAttemptAlive, Inv, Shape
<1>4. ASSUME NEW n \in Names, ledger[n][a] # NoSlot, ledger'[n][a] # ledger[n][a]
      PROVE  ledger'[n][a] # NoSlot /\ ledger'[n][a].at = now
  <2>1. ledger[n][a] \in SlotType /\ now \in Nat
    BY DEF Inv, Shape
  <2>2. ledger'[n][a].at = now
    BY <1>3, <1>4, <2>1 DEF SlotType
  <2> QED
    BY <2>1, <2>2 DEF NoSlot
<1>5. \A n \in Names : ledger'[n][a] # NoSlot => ledger[n][a] # NoSlot
  BY <1>3
<1>6. Owned(a)'
  BY <1>1, <1>2 DEF Owned
<1>7. Tracked(a)'
  BY <1>1, <1>2, <1>5 DEF Tracked, Unclaimed, ToDrop, Still
<1>8. Returned(a)'
  BY <1>1, <1>2, <1>5 DEF Returned, Settling, Still
<1>9. Counted(a)'
  <2>1. taken[a].at <= now
    BY DEF Inv, Shape
  <2> QED
    BY <1>1, <1>2, <1>4, <2>1 DEF Counted, CountsIn
<1>10. Paid(a)'
  BY <1>1, <1>2 DEF Owned, Paid, Refundable
<1>11. Known(a)'
  BY <1>1, <1>2 DEF Owned, Known
<1> QED
  BY <1>11, <1>6, <1>7, <1>8, <1>9, <1>10 DEF Sound

\* A refund is to reach only buckets of the claim.
LEMMA FailBeforeDispatchSound ==
    ASSUME Inv, NEW a \in Attempts, FailBeforeDispatch(a), About(a)
    PROVE  Sound(a)'
<1>1. /\ att[a].state = "running" /\ att'[a].state = "refunding"
      /\ att'[a].keys = att[a].keys /\ att'[a].ready = att[a].ready
      /\ ledger' = ledger /\ taken' = taken /\ pass' = pass /\ entry' = entry
      /\ now' = now /\ seen' = seen
  BY DEF FailBeforeDispatch, Inv, Shape, AttType
<1>2. /\ Owned(a) /\ Known(a) /\ Tracked(a) /\ Returned(a)
      /\ Counted(a) /\ Paid(a)
  BY DEF Inv, Sound
<1>3. /\ ~taken[a].free => att[a].keys \in SUBSET Keys
      /\ limits["owner"] \in Seq(NamedLimit)
  BY <1>1, <1>2 DEF Known, Inv, Shape, AttType, KeySets, Replicas
<1>4. ~taken[a].free => \A s \in cleanup'[a].multi : s.key \in att[a].keys
  <2>1. \/ cleanup'[a].multi = {}
        \/ cleanup'[a].multi = HeldSpecs(a, att[a].keys, limits["owner"])
    BY DEF FailBeforeDispatch, Inv, Shape
  <2> QED
    BY <1>3, <2>1, KnownClaimCovered
<1>5. Owned(a)'
  BY <1>1, <1>2 DEF Owned
<1>6. Tracked(a)'
  BY <1>1, <1>2 DEF Owned, Tracked, Unclaimed, ToDrop, Still
<1>7. Returned(a)'
  BY <1>1, <1>2 DEF Owned, Tracked, Returned, Settling, Still
<1>8. Counted(a)'
  BY <1>1, <1>2 DEF Owned, Counted, CountsIn
<1>9. Paid(a)'
  BY <1>1, <1>2, <1>4 DEF Owned, Paid, Refundable
<1>10. Known(a)'
  BY <1>1, <1>2 DEF Owned, Known
<1> QED
  BY <1>10, <1>5, <1>6, <1>7, <1>8, <1>9 DEF Sound

\* The completion's list of ledgers covers every slot the attempt holds: by
\* the keys of its claim, or, told none, by a list that has not moved.
LEMMA HandleFreezeOwnTypeSound ==
    ASSUME Inv, NEW a \in Attempts, HandleFreezeOwnType(a), About(a)
    PROVE  Sound(a)'
<1>1. /\ att[a].state = "freezing" /\ att'[a].state = "releasing"
      /\ att'[a].keys = att[a].keys /\ att'[a].ready = att[a].ready
      /\ cleanup'[a].stale = ToRelease(a, att[a].keys, limits["controller"])
      /\ ledger' = ledger /\ taken' = taken /\ pass' = pass /\ entry' = entry
      /\ now' = now /\ seen' = seen
  BY DEF HandleFreezeOwnType, Inv, Shape, AttType
<1>2. /\ Owned(a) /\ Known(a) /\ Tracked(a) /\ Returned(a)
      /\ Counted(a) /\ Paid(a)
  BY DEF Inv, Sound
<1>3. ASSUME NEW n \in Names, Settling(a), ledger[n][a] # NoSlot
      PROVE  n \in ToRelease(a, att[a].keys, limits["controller"])
  BY <1>3, HeldIsReleased
<1>4. Owned(a)'
  BY <1>1, <1>2 DEF Owned
<1>5. Tracked(a)'
  BY <1>1, <1>2 DEF Owned, Tracked, Unclaimed, ToDrop, Still
<1>6. Returned(a)'
  BY <1>1, <1>3 DEF Returned, Settling, Still
<1>7. Counted(a)'
  BY <1>1, <1>2 DEF Owned, Counted, CountsIn
<1>8. Paid(a)'
  BY <1>1, <1>2 DEF Owned, Paid, Refundable
<1>9. Known(a)'
  BY <1>1, <1>2 DEF Owned, Known
<1> QED
  BY <1>9, <1>4, <1>5, <1>6, <1>7, <1>8 DEF Sound

\* A completion crosses off a ledger with the slot it held there; started
\* over, it covers what is left; with nothing left it is done.
LEMMA ReleaseDoneSound ==
    ASSUME Inv, NEW a \in Attempts, ReleaseDone(a), About(a)
    PROVE  Sound(a)'
<1>1. /\ att[a].state = "releasing"
      /\ taken' = taken /\ pass' = pass /\ entry' = entry /\ now' = now
      /\ seen' = seen
  BY DEF ReleaseDone
<1>2. /\ Owned(a) /\ Known(a) /\ Tracked(a) /\ Returned(a)
      /\ Counted(a) /\ Paid(a)
  BY DEF Inv, Sound
<1>3. /\ att'[a].state \in {"releasing", "done"}
      /\ att'[a].keys = att[a].keys /\ att'[a].ready = att[a].ready
  BY <1>1 DEF ReleaseDone, Inv, Shape, AttType
<1>4. \A n \in Names : ledger'[n][a] # NoSlot => ledger[n][a] # NoSlot
  <2>1. ASSUME NEW m \in cleanup[a].stale, ReleaseSlot(a, m)
        PROVE  \A n \in Names : ledger'[n][a] # NoSlot => ledger[n][a] # NoSlot
    <3>1. m \in Names
      BY DEF Inv, Shape, CleanupType
    <3> QED
      BY <2>1, <3>1, ReleaseSlotWrites DEF Inv
  <2>2. CASE ledger' = ledger
    BY <2>2
  <2> QED
    BY <2>1, <2>2 DEF ReleaseDone
<1>5. Owned(a)'
  BY <1>1, <1>2, <1>3 DEF Owned
<1>6. Tracked(a)'
  BY <1>1, <1>2, <1>3, <1>4 DEF Tracked, Unclaimed, ToDrop, Still
<1>7. Returned(a)'
  <2> SUFFICES ASSUME NEW n \in Names, Settling(a), ledger'[n][a] # NoSlot
               PROVE  /\ att'[a].state = "releasing" => n \in cleanup'[a].stale
                      /\ att'[a].state # "done"
    BY <1>1, <1>3 DEF Returned, Settling, Still
  <2>1. ledger[n][a] # NoSlot /\ n \in cleanup[a].stale
    BY <1>1, <1>2, <1>4 DEF Returned
  <2>2. ASSUME NEW m \in cleanup[a].stale, ReleaseSlot(a, m), UNCHANGED att,
               cleanup' = [cleanup EXCEPT ![a].stale = @ \ {m}]
        PROVE  n \in cleanup'[a].stale /\ att'[a].state # "done"
    <3>1. m \in Names
      BY DEF Inv, Shape, CleanupType
    <3>2. n # m
      BY <2>2, <3>1, ReleaseSlotWrites DEF Inv
    <3>3. cleanup'[a].stale = cleanup[a].stale \ {m}
      BY <2>2 DEF Inv, Shape, CleanupType
    <3> QED
      BY <1>1, <2>1, <2>2, <3>2, <3>3
  <2>3. ASSUME UNCHANGED <<ledger, att>>,
               cleanup' = [cleanup EXCEPT ![a].stale =
                              ToRelease(a, att[a].keys, limits["controller"])]
        PROVE  n \in cleanup'[a].stale /\ att'[a].state # "done"
    <3>1. cleanup'[a].stale = ToRelease(a, att[a].keys, limits["controller"])
      BY <2>3 DEF Inv, Shape, CleanupType
    <3> QED
      BY <1>1, <2>1, <2>3, <3>1, HeldIsReleased
  <2>4. CASE cleanup[a].stale = {}
    BY <2>1, <2>4
  <2> QED
    BY <2>2, <2>3, <2>4 DEF ReleaseDone
<1>8. Counted(a)'
  BY <1>1, <1>2, <1>3 DEF Owned, Counted, CountsIn
<1>9. Paid(a)'
  BY <1>1, <1>2, <1>3 DEF Paid, Refundable
<1>10. Known(a)'
  BY <1>1, <1>2, <1>3 DEF Owned, Known
<1> QED
  BY <1>10, <1>5, <1>6, <1>7, <1>8, <1>9 DEF Sound

\* A refund gives each of the buckets of the claim back once, and then there
\* is nothing left of it that a refund could reach.
LEMMA RefundSound ==
    ASSUME Inv, NEW a \in Attempts, Refund(a), About(a)
    PROVE  Sound(a)'
<1>1. /\ att[a].state = "refunding"
      /\ pass' = pass /\ entry' = entry /\ now' = now /\ seen' = seen
  BY DEF Refund
<1>2. /\ Owned(a) /\ Known(a) /\ Tracked(a) /\ Returned(a)
      /\ Counted(a) /\ Paid(a)
  BY DEF Inv, Sound
<1>3. /\ att'[a].state \in {"refunding", "announced"}
      /\ att'[a].keys = att[a].keys /\ att'[a].ready = att[a].ready
  BY <1>1 DEF Refund, Inv, Shape, AttType
<1>10. taken'[a].free = taken[a].free
  <2>1. ASSUME ReleaseMulti(a, cleanup[a].multi)
        PROVE  taken'[a].free = taken[a].free
    BY <2>1, ReleaseMultiGivesBack DEF Inv, GaveBack
  <2> QED
    BY <2>1 DEF Refund
<1>4. /\ \A n \in Names : ledger'[n][a] # NoSlot => ledger[n][a] # NoSlot
      /\ Paid(a)'
  <2>1. ASSUME NEW m \in cleanup[a].stale, ReleaseSlot(a, m), taken' = taken,
               att' = att, cleanup' = [cleanup EXCEPT ![a].stale = @ \ {m}]
        PROVE  /\ \A n \in Names : ledger'[n][a] # NoSlot => ledger[n][a] # NoSlot
               /\ Paid(a)'
    <3>1. m \in Names /\ cleanup'[a].multi = cleanup[a].multi
      BY <2>1 DEF Inv, Shape, CleanupType
    <3>2. \A n \in Names : ledger'[n][a] # NoSlot => ledger[n][a] # NoSlot
      BY <2>1, <3>1, ReleaseSlotWrites DEF Inv
    <3> QED
      BY <1>1, <1>2, <2>1, <3>1, <3>2 DEF Paid, Refundable
  <2>2. ASSUME ReleaseMulti(a, cleanup[a].multi),
               att' = [att EXCEPT ![a].state = "announced"]
        PROVE  /\ \A n \in Names : ledger'[n][a] # NoSlot => ledger[n][a] # NoSlot
               /\ Paid(a)'
    <3>1. GaveBack(a, cleanup[a].multi)
      BY <2>2, ReleaseMultiGivesBack DEF Inv
    <3>2. att'[a].state = "announced"
      BY <2>2 DEF Inv, Shape, AttType
    <3>3. a \notin pass.on
      BY <1>1, <1>2 DEF Owned
    <3>4. ASSUME NEW n \in Names, ~taken'[a].free PROVE taken'[a].of[n] >= 0
      <4>1. taken[a].of[n] \in Int /\ Cost[a].of[n] \in Nat
        BY LimitSetAssumption DEF Inv, Shape, TakenType
      <4>4. ~taken[a].free
        BY <3>1, <3>4 DEF GaveBack
      <4>2. taken[a].of[n] >= 0
        BY <1>2, <4>4 DEF Paid
      <4>3. (\E s \in cleanup[a].multi : s.key = Tokens(n)) =>
            taken[a].of[n] >= Cost[a].of[n]
        BY <1>1, <1>2, <4>4 DEF Paid, Refundable
      <4> QED
        BY <3>1, <4>1, <4>2, <4>3 DEF GaveBack
    <3>5. \A n \in Names : ~Refundable(a, n)'
      BY <1>1, <3>2, <3>3 DEF Refundable
    <3> QED
      BY <3>1, <3>4, <3>5 DEF GaveBack, Paid
  <2> QED
    BY <2>1, <2>2 DEF Refund
<1>5. Owned(a)'
  BY <1>1, <1>2, <1>3 DEF Owned
<1>6. Tracked(a)'
  BY <1>1, <1>2, <1>3, <1>4 DEF Tracked, Unclaimed, ToDrop, Still
<1>7. Returned(a)'
  BY <1>3 DEF Returned
<1>8. Counted(a)'
  BY <1>3 DEF Counted, CountsIn
<1>9. Known(a)'
  BY <1>1, <1>2, <1>3, <1>10 DEF Owned, Known
<1> QED
  BY <1>9, <1>4, <1>5, <1>6, <1>7, <1>8 DEF Sound

\* The pass takes up an attempt that holds nothing.
LEMMA SelectSound ==
    ASSUME Inv, NEW a \in Attempts, Select(a), About(a)
    PROVE  Sound(a)'
<1>1. /\ entry[a] = "pending" /\ entry'[a] = "inProgress"
      /\ pass'.on = {a} /\ pass'.step = "judge"
      /\ att' = att /\ ledger' = ledger /\ taken' = taken /\ cleanup' = cleanup
      /\ now' = now /\ seen' = seen
  BY IdleType DEF Select, Inv, Shape, PassType
<1>2. /\ Owned(a) /\ Known(a) /\ Tracked(a) /\ Returned(a)
      /\ Counted(a) /\ Paid(a)
  BY DEF Inv, Sound
<1>3. \A n \in Names : ledger[n][a] = NoSlot
  BY <1>1, <1>2 DEF Tracked, Unclaimed
<1>4. Owned(a)'
  BY <1>1, <1>2 DEF Owned
<1>5. Tracked(a)' /\ Returned(a)'
  BY <1>1, <1>3 DEF Tracked, Returned
<1>6. Counted(a)'
  BY <1>1, <1>2 DEF Owned, Counted, CountsIn
<1>7. Paid(a)'
  BY <1>1, <1>2 DEF Owned, Paid, Refundable
<1>8. Known(a)'
  BY <1>1, <1>2 DEF Owned, Known
<1> QED
  BY <1>8, <1>4, <1>5, <1>6, <1>7 DEF Sound

\* A freeze returns the entry to the queue; without one the pass goes on to
\* the claim.
LEMMA CanProcessNextRequestSound ==
    ASSUME Inv, NEW a \in Attempts, CanProcessNextRequest(a), About(a)
    PROVE  Sound(a)'
<1>1. /\ pass.on = {a} /\ pass.step = "judge"
      /\ att' = att /\ ledger' = ledger /\ taken' = taken /\ cleanup' = cleanup
      /\ now' = now /\ seen' = seen
  BY DEF CanProcessNextRequest
<1>2. /\ Owned(a) /\ Known(a) /\ Tracked(a) /\ Returned(a)
      /\ Counted(a) /\ Paid(a)
  BY DEF Inv, Sound
<1>3. \A n \in Names : ledger[n][a] = NoSlot
  BY <1>1, <1>2 DEF Tracked, Unclaimed
<1>4. \/ pass'.on = {a} /\ pass'.step = "claim" /\ entry' = entry
      \/ /\ pass'.on = {}
         /\ entry'[a] = IF entry[a] = "absent" THEN "absent" ELSE "pending"
  BY <1>1, IdleType DEF CanProcessNextRequest, ReturnToQueue, Inv, Shape, PassType
<1>5. Owned(a)'
  BY <1>1, <1>2, <1>4 DEF Owned, Inv, Shape, AttType, States
<1>6. Tracked(a)' /\ Returned(a)'
  BY <1>1, <1>3 DEF Tracked, Returned
<1>7. Counted(a)'
  BY <1>1, <1>2, <1>4 DEF Owned, Counted, CountsIn
<1>8. Paid(a)'
  BY <1>1, <1>2, <1>4 DEF Owned, Paid, Refundable
<1>9. Known(a)'
  BY <1>1, <1>2, <1>4 DEF Owned, Known
<1> QED
  BY <1>5, <1>6, <1>7, <1>8, <1>9 DEF Sound

\* A claim that is declined leaves an attempt without slots without them, and
\* one that is granted adds those of the list it was planned with.
LEMMA ClaimSlots ==
    ASSUME Inv, NEW a \in Attempts, NEW r \in Replicas, NEW got \in BOOLEAN,
           \/ Wrote(a, GetLimitSpecs(a, limits[r]), got)
           \/ ledger' = ledger /\ taken' = taken /\ ~got,
           \A n \in Names : ledger[n][a] = NoSlot
    PROVE  /\ \A n \in Names : ledger'[n][a] # NoSlot =>
                 /\ got /\ n \in SlotNames(limits[r])
                 /\ Slots(n) \in {s.key : s \in GetLimitSpecs(a, limits[r])}
           /\ \A n \in Names :
                 (got /\ Slots(n) \in {s.key : s \in GetLimitSpecs(a, limits[r])})
                 => ledger'[n][a] # NoSlot /\ ledger'[n][a].at >= taken'[a].at
           /\ ~taken'[a].free => ~taken[a].free
           /\ ~taken'[a].free => \A n \in Names :
                               /\ taken'[a].of[n] >= 0
                               /\ (got /\ Tokens(n) \in
                                     {s.key : s \in GetLimitSpecs(a, limits[r])})
                                  => taken'[a].of[n] >= Cost[a].of[n]
<1> DEFINE specs == GetLimitSpecs(a, limits[r])
<1>1. limits[r] \in Seq(NamedLimit) /\ now \in Nat
  BY DEF Inv, Shape
<1>2. \A n \in Names : /\ ~taken[a].free => taken[a].of[n] >= 0
                       /\ taken[a].of[n] \in Int /\ Cost[a].of[n] \in Nat
  BY LimitSetAssumption DEF Inv, Sound, Paid, Shape, TakenType
<1>3. CASE ledger' = ledger /\ taken' = taken /\ ~got
  BY <1>2, <1>3
<1>4. CASE Wrote(a, specs, got)
  <2>1. ASSUME NEW n \in Names, ledger'[n][a] # NoSlot
        PROVE  got /\ \E s \in specs : s.key = Slots(n)
    BY <1>4, <2>1 DEF Wrote
  <2>2. ASSUME NEW n \in Names, got, \E s \in specs : s.key = Slots(n)
        PROVE  ledger'[n][a] # NoSlot /\ ledger'[n][a].at >= taken'[a].at
    <3>1. ledger'[n][a] = [at |-> now, cost |-> Cost[a].of[n]]
      BY <1>4, <2>2 DEF Wrote
    <3>2. taken'[a].at <= now
      BY <1>4 DEF Wrote
    <3> QED
      BY <1>1, <3>1, <3>2 DEF NoSlot
  <2>8. ~taken'[a].free => ~taken[a].free
    BY <1>4 DEF Wrote
  <2>3. ASSUME NEW n \in Names, ~taken'[a].free
        PROVE  /\ taken'[a].of[n] >= 0
               /\ (got /\ \E s \in specs : s.key = Tokens(n)) =>
                     taken'[a].of[n] >= Cost[a].of[n]
    <3>1. taken'[a].of[n] = taken[a].of[n] +
            (IF got /\ \E s \in specs : s.key = Tokens(n) THEN Cost[a].of[n] ELSE 0)
      BY <1>4 DEF Wrote
    <3> QED
      BY <1>2, <2>3, <2>8, <3>1
  <2>4. \A n \in Names : (\E s \in specs : s.key = Slots(n)) <=>
                         n \in SlotNames(limits[r])
    BY <1>1, SpecsOfList
  <2> HIDE DEF specs
  <2>5. \A n \in Names : ledger'[n][a] # NoSlot =>
           got /\ n \in SlotNames(limits[r]) /\ Slots(n) \in {s.key : s \in specs}
    BY <2>1, <2>4
  <2>6. \A n \in Names : (got /\ Slots(n) \in {s.key : s \in specs})
                 => ledger'[n][a] # NoSlot /\ ledger'[n][a].at >= taken'[a].at
    BY <2>2
  <2>7. ~taken'[a].free => \A n \in Names :
                         /\ taken'[a].of[n] >= 0
                         /\ (got /\ Tokens(n) \in {s.key : s \in specs})
                            => taken'[a].of[n] >= Cost[a].of[n]
    BY <2>3
  <2> QED
    BY <2>5, <2>6, <2>7, <2>8 DEF specs
<1> QED
  BY <1>3, <1>4

\* The same in terms of the keys the admission records: it has the keys of
\* all it claimed, or there was nothing to claim.
LEMMA ClaimRecorded ==
    ASSUME Inv, NEW a \in Attempts, NEW r \in Replicas, NEW got \in BOOLEAN,
           \/ Wrote(a, GetLimitSpecs(a, limits[r]), got)
           \/ ledger' = ledger /\ taken' = taken /\ ~got,
           \A n \in Names : ledger[n][a] = NoSlot,
           NEW keys, keys = ClaimedKeys(GetLimitSpecs(a, limits[r]))
    PROVE  /\ \A n \in Names : ledger'[n][a] # NoSlot =>
                 got /\ n \in SlotNames(limits[r]) /\ Slots(n) \in keys
           /\ \A n \in Names : (got /\ Slots(n) \in keys)
                 => ledger'[n][a] # NoSlot /\ ledger'[n][a].at >= taken'[a].at
           /\ ~taken'[a].free => ~taken[a].free
           /\ ~taken'[a].free => \A n \in Names :
                 /\ taken'[a].of[n] >= 0
                 /\ (got /\ Tokens(n) \in keys)
                       => taken'[a].of[n] >= Cost[a].of[n]
           /\ keys # Untold
           /\ (got /\ ~taken'[a].free) => keys # Unknown
<1> DEFINE specs == GetLimitSpecs(a, limits[r])
<1>1. limits[r] \in Seq(NamedLimit)
  BY DEF Inv, Shape
<1>2. /\ keys # Untold
      /\ (keys # Unknown /\ keys = {s.key : s \in specs}) \/ specs = {}
  BY <1>1, ClaimedKeysType
<1>3. /\ \A n \in Names : ledger'[n][a] # NoSlot =>
            got /\ n \in SlotNames(limits[r]) /\ Slots(n) \in {s.key : s \in specs}
      /\ \A n \in Names : (got /\ Slots(n) \in {s.key : s \in specs})
            => ledger'[n][a] # NoSlot /\ ledger'[n][a].at >= taken'[a].at
      /\ ~taken'[a].free => ~taken[a].free
      /\ ~taken'[a].free => \A n \in Names :
            /\ taken'[a].of[n] >= 0
            /\ (got /\ Tokens(n) \in {s.key : s \in specs})
                  => taken'[a].of[n] >= Cost[a].of[n]
  BY ClaimSlots
<1>4. (got /\ specs = {}) => taken'[a].free
  BY DEF Wrote
<1>5. specs = {} => keys = Unknown
  BY DEF ClaimedKeys
<1> HIDE DEF specs
<1> QED
  BY <1>2, <1>3, <1>4, <1>5, SentinelsApart

\* The owner's own claim: the attempt runs on what it was granted, or takes
\* its place in the queue without a slot.
LEMMA TryAdmitImmediatelySound ==
    ASSUME Inv, NEW a \in Attempts, TryAdmitImmediately(a), About(a)
    PROVE  Sound(a)'
<1> DEFINE specs == GetLimitSpecs(a, limits["owner"])
           keys == ClaimedKeys(specs)
           got == QueueEmpty /\ ~Frozen /\ Acquired(a, specs)
<1>1. /\ att[a].state = "new"
      /\ pass' = pass /\ cleanup' = cleanup /\ now' = now /\ seen' = seen
  BY DEF TryAdmitImmediately
<1>2. /\ Owned(a) /\ Known(a) /\ Tracked(a) /\ Returned(a)
      /\ Counted(a) /\ Paid(a)
  BY DEF Inv, Sound
<1>3. \A n \in Names : ledger[n][a] = NoSlot
  BY <1>1, <1>2 DEF Tracked, Unclaimed
<1>4. /\ got \in BOOLEAN
      /\ \/ Wrote(a, specs, got)
         \/ ledger' = ledger /\ taken' = taken /\ ~got
  <2>1. CASE QueueEmpty /\ ~Frozen
    <3>1. Commit(a, specs, TRUE)
      BY <2>1 DEF TryAdmitImmediately
    <3>2. Wrote(a, specs, TRUE /\ Acquired(a, specs))
      BY <3>1, CommitWrites DEF Inv
    <3>3. got = (TRUE /\ Acquired(a, specs))
      BY <2>1 DEF Acquired
    <3> QED
      BY <3>2, <3>3
  <2>2. CASE ~(QueueEmpty /\ ~Frozen)
    BY <2>2 DEF TryAdmitImmediately
  <2> QED
    BY <2>1, <2>2
<1>5. "owner" \in Replicas /\ limits["owner"] \in Seq(NamedLimit)
  BY DEF Replicas, Inv, Shape
<1>7. \/ /\ got /\ att'[a].state = "running" /\ att'[a].keys = keys
         /\ att'[a].ready = att[a].ready /\ entry' = entry
      \/ /\ ~got /\ att'[a].state = "waiting" /\ att'[a].keys = att[a].keys
         /\ att'[a].ready = att[a].ready /\ entry'[a] = "pending"
  <2>1. /\ att \in [Attempts -> AttType]
        /\ entry \in [Attempts -> {"absent", "pending", "inProgress"}]
    BY DEF Inv, Shape
  <2>2. CASE got
    <3>1. /\ att' = [att EXCEPT ![a] = [@ EXCEPT !.state = "running", !.keys = keys]]
          /\ entry' = entry
      BY <2>2 DEF TryAdmitImmediately
    <3> HIDE DEF keys, got
    <3> QED
      BY <2>1, <2>2, <3>1 DEF AttType
  <2>3. CASE ~got
    <3>1. /\ att' = [att EXCEPT ![a].state = "waiting"]
          /\ entry' = [entry EXCEPT ![a] = "pending"]
      BY <2>3 DEF TryAdmitImmediately
    <3> HIDE DEF keys, got
    <3> QED
      BY <2>1, <2>3, <3>1 DEF AttType
  <2> QED
    BY <2>2, <2>3
<1> HIDE DEF got
<1>8. /\ \A n \in Names : ledger'[n][a] # NoSlot =>
            got /\ n \in SlotNames(limits["owner"]) /\ Slots(n) \in keys
      /\ \A n \in Names : (got /\ Slots(n) \in keys)
            => ledger'[n][a] # NoSlot /\ ledger'[n][a].at >= taken'[a].at
      /\ ~taken'[a].free => ~taken[a].free
      /\ ~taken'[a].free => \A n \in Names :
            /\ taken'[a].of[n] >= 0
            /\ (got /\ Tokens(n) \in keys) => taken'[a].of[n] >= Cost[a].of[n]
      /\ keys # Untold
      /\ (got /\ ~taken'[a].free) => keys # Unknown
  BY <1>3, <1>4, <1>5, ClaimRecorded
<1> HIDE DEF keys, specs
<1>9. Owned(a)'
  BY <1>1, <1>2, <1>7 DEF Owned
<1>10. Still => limits["owner"] = InitLimits
  BY <1>5 DEF Inv, Unmoved
<1>11. Tracked(a)'
  BY <1>1, <1>2, <1>7, <1>8, <1>10 DEF Owned, Tracked, Unclaimed, Still
<1>12. Returned(a)'
  BY <1>7 DEF Returned
<1>13. Counted(a)'
  BY <1>1, <1>2, <1>7, <1>8 DEF Owned, Counted, CountsIn
<1>14. Paid(a)'
  BY <1>1, <1>2, <1>7, <1>8 DEF Owned, Paid, Refundable
<1>15. Known(a)'
  BY <1>1, <1>2, <1>7, <1>8 DEF Owned, Known
<1> QED
  BY <1>15, <1>9, <1>11, <1>12, <1>13, <1>14 DEF Sound

\* The pass's claim: granted, the pass has its keys; declined, the entry goes
\* back to the queue without a slot.
LEMMA TryAcquireTurnSound ==
    ASSUME Inv, NEW a \in Attempts, TryAcquireTurn(a), About(a)
    PROVE  Sound(a)'
<1> DEFINE specs == GetLimitSpecs(a, limits["controller"])
           keys == ClaimedKeys(specs)
           ok == StatusChecked(limits["controller"]) => entry[a] = "inProgress"
           open == \/ specs = {}
                   \/ ~CostProblem(a, limits["controller"]) /\ ~Frozen
           got == open /\ ok /\ Acquired(a, specs)
<1>1. /\ pass.on = {a} /\ pass.step = "claim"
      /\ att' = att /\ cleanup' = cleanup /\ now' = now /\ seen' = seen
  BY DEF TryAcquireTurn
<1>2. /\ Owned(a) /\ Known(a) /\ Tracked(a) /\ Returned(a)
      /\ Counted(a) /\ Paid(a)
  BY DEF Inv, Sound
<1>3. \A n \in Names : ledger[n][a] = NoSlot
  BY <1>1, <1>2 DEF Tracked, Unclaimed
<1>4. /\ got \in BOOLEAN
      /\ \/ Wrote(a, specs, got)
         \/ ledger' = ledger /\ taken' = taken /\ ~got
  <2>1. CASE open
    <3>1. Commit(a, specs, ok)
      BY <2>1 DEF TryAcquireTurn
    <3>2. Wrote(a, specs, ok /\ Acquired(a, specs))
      BY <3>1, CommitWrites DEF Inv
    <3>3. got = (ok /\ Acquired(a, specs))
      BY <2>1 DEF Acquired
    <3> QED
      BY <3>2, <3>3
  <2>2. CASE ~open
    BY <2>2 DEF TryAcquireTurn
  <2> QED
    BY <2>1, <2>2
<1>5. "controller" \in Replicas /\ limits["controller"] \in Seq(NamedLimit)
  BY DEF Replicas, Inv, Shape
<1>6. \/ /\ got /\ entry' = entry
         /\ pass'.on = {a} /\ pass'.step \in {"confirm", "recheck"}
         /\ pass'.keys = keys
      \/ /\ ~got /\ pass'.on = {} /\ pass'.step = "idle"
         /\ entry'[a] = IF entry[a] = "absent" THEN "absent" ELSE "pending"
  <2>1. /\ pass \in PassType
        /\ entry \in [Attempts -> {"absent", "pending", "inProgress"}]
    BY DEF Inv, Shape
  <2>2. CASE got
    <3>1. /\ \E step \in {"confirm", "recheck"} :
                pass' = [pass EXCEPT !.step = step, !.keys = keys]
          /\ entry' = entry
      BY <2>2 DEF TryAcquireTurn
    <3> HIDE DEF keys, got
    <3> QED
      BY <1>1, <2>1, <2>2, <3>1 DEF PassType
  <2>3. CASE ~got
    <3>1. ReturnToQueue(a)
      BY <2>3 DEF TryAcquireTurn
    <3> HIDE DEF keys, got
    <3> QED
      BY <2>1, <2>3, <3>1, IdleType DEF ReturnToQueue
  <2> QED
    BY <2>2, <2>3
<1> HIDE DEF got
<1>7. /\ \A n \in Names : ledger'[n][a] # NoSlot =>
            got /\ n \in SlotNames(limits["controller"]) /\ Slots(n) \in keys
      /\ \A n \in Names : (got /\ Slots(n) \in keys)
            => ledger'[n][a] # NoSlot /\ ledger'[n][a].at >= taken'[a].at
      /\ ~taken'[a].free => ~taken[a].free
      /\ ~taken'[a].free => \A n \in Names :
            /\ taken'[a].of[n] >= 0
            /\ (got /\ Tokens(n) \in keys) => taken'[a].of[n] >= Cost[a].of[n]
      /\ keys # Untold
      /\ (got /\ ~taken'[a].free) => keys # Unknown
  BY <1>3, <1>4, <1>5, ClaimRecorded
<1> HIDE DEF keys, specs, ok, open
<1>8. Owned(a)'
  BY <1>1, <1>2, <1>6 DEF Owned, Inv, Shape, AttType, States
<1>9. Still => limits["controller"] = InitLimits
  BY <1>5 DEF Inv, Unmoved
<1>10. Tracked(a)'
  BY <1>1, <1>2, <1>6, <1>7, <1>9 DEF Owned, Tracked, Unclaimed, Still
<1>11. Returned(a)'
  BY <1>1, <1>6, <1>7 DEF Returned, Settling
<1>12. Counted(a)'
  BY <1>1, <1>2, <1>6, <1>7 DEF Owned, Counted, CountsIn
<1>13. Paid(a)'
  BY <1>1, <1>2, <1>6, <1>7 DEF Owned, Paid, Refundable
<1>14. Known(a)'
  BY <1>1, <1>2, <1>6, <1>7 DEF Owned, Known
<1> QED
  BY <1>14, <1>8, <1>10, <1>11, <1>12, <1>13 DEF Sound

\* A claim that is handed back covers every slot and only its own buckets.
LEMMA StartReleaseSound ==
    ASSUME Inv, NEW a \in Attempts, NEW step \in {"return", "drop"},
           pass.on = {a}, pass.step \in {"recheck", "confirm"},
           StartRelease(a, step), att' = att, entry' = entry, ledger' = ledger,
           cleanup' = cleanup, taken' = taken, now' = now, seen' = seen
    PROVE  Sound(a)'
<1>1. /\ Owned(a) /\ Known(a) /\ Tracked(a) /\ Returned(a)
      /\ Counted(a) /\ Paid(a)
  BY DEF Inv, Sound
<1>2. /\ pass'.on = pass.on /\ pass'.step = step
      /\ pass'.stale = StaleSlots(pass.keys, limits["controller"])
      /\ pass'.multi = HeldSpecs(a, pass.keys, limits["controller"])
  BY StartReleaseType DEF Steps
<1>3. pass.keys \in KeySets /\ limits["controller"] \in Seq(NamedLimit)
  BY DEF Inv, Shape, PassType, Replicas
<1>4. /\ ~taken[a].free => \A s \in pass'.multi : s.key \in pass.keys
      /\ \A n \in Names : Slots(n) \in pass.keys =>
            \/ n \in pass'.stale
            \/ \E s \in pass'.multi : s.key = Slots(n)
  <2>1. CASE pass.keys = Unknown
    <3>1. taken[a].free
      BY <1>1, <2>1 DEF Known
    <3> QED
      BY <2>1, <3>1, SentinelsApart
  <2>2. CASE pass.keys \in SUBSET Keys
    BY <1>2, <1>3, <2>2, KnownClaimCovered
  <2> QED
    BY <1>3, <2>1, <2>2 DEF KeySets
<1>5. Owned(a)'
  BY <1>1, <1>2 DEF Owned
<1>6. Tracked(a)'
  BY <1>1, <1>2, <1>4 DEF Tracked, Unclaimed, ToDrop, Still
<1>7. Returned(a)'
  BY <1>2 DEF Returned, Settling
<1>8. Counted(a)'
  BY <1>1, <1>2 DEF Owned, Counted, CountsIn
<1>9. Paid(a)'
  BY <1>1, <1>2, <1>4 DEF Owned, Paid, Refundable
<1>10. Known(a)'
  BY <1>1, <1>2 DEF Owned, Known
<1> QED
  BY <1>10, <1>5, <1>6, <1>7, <1>8, <1>9 DEF Sound

\* A freeze that landed during the claim hands it back; without one the pass
\* keeps it.
LEMMA RecheckFrozenSound ==
    ASSUME Inv, NEW a \in Attempts, RecheckFrozen(a), About(a)
    PROVE  Sound(a)'
<1>1. /\ pass.on = {a} /\ pass.step = "recheck"
      /\ att' = att /\ entry' = entry /\ ledger' = ledger /\ cleanup' = cleanup
      /\ taken' = taken /\ now' = now /\ seen' = seen
  BY DEF RecheckFrozen
<1>2. CASE StartRelease(a, "return")
  BY <1>1, <1>2, StartReleaseSound
<1>3. CASE pass' = [pass EXCEPT !.step = "confirm"]
  <2>1. /\ pass'.on = pass.on /\ pass'.step = "confirm"
        /\ pass'.keys = pass.keys /\ pass'.stale = pass.stale
        /\ pass'.multi = pass.multi
    BY <1>3 DEF Inv, Shape, PassType
  <2>2. /\ Owned(a) /\ Known(a) /\ Tracked(a) /\ Returned(a)
        /\ Counted(a) /\ Paid(a)
    BY DEF Inv, Sound
  <2>3. Owned(a)' /\ Returned(a)'
    BY <1>1, <2>1, <2>2 DEF Owned, Returned, Settling, Still
  <2>4. Tracked(a)'
    BY <1>1, <2>1, <2>2 DEF Tracked, Unclaimed, ToDrop, Still
  <2>5. Counted(a)'
    BY <1>1, <2>1, <2>2 DEF Counted, CountsIn
  <2>6. Paid(a)'
    BY <1>1, <2>1, <2>2 DEF Paid, Refundable
  <2>7. Known(a)'
    BY <1>1, <2>1, <2>2 DEF Owned, Known
  <2> QED
    BY <2>7, <2>3, <2>4, <2>5, <2>6 DEF Sound
<1> QED
  BY <1>2, <1>3 DEF RecheckFrozen

\* The owner is told the keys of the claim; a claim whose entry is gone is
\* handed back, unless there are no ledgers it could have slots in.
LEMMA ConfirmSound ==
    ASSUME Inv, NEW a \in Attempts, Confirm(a), About(a)
    PROVE  Sound(a)'
<1>1. /\ pass.on = {a} /\ pass.step = "confirm"
      /\ entry' = entry /\ ledger' = ledger /\ cleanup' = cleanup
      /\ taken' = taken /\ now' = now /\ seen' = seen
  BY DEF Confirm
<1>2. /\ Owned(a) /\ Known(a) /\ Tracked(a) /\ Returned(a)
      /\ Counted(a) /\ Paid(a)
  BY DEF Inv, Sound
<1>3. CASE entry[a] # "absent" /\ att' = [att EXCEPT ![a].ready = pass.keys]
           /\ pass' = Idle
  <2>1. /\ att'[a].state = att[a].state /\ att'[a].keys = att[a].keys
        /\ att'[a].ready = pass.keys /\ pass'.on = {}
    BY <1>3, IdleType DEF Inv, Shape, AttType
  <2>2. pass.keys # Untold
    BY KeysKnown, SentinelsApart DEF Inv, Shape, PassType, KeySets
  <2>3. Owned(a)'
    BY <1>1, <1>2, <1>3, <2>1, <2>2 DEF Owned
  <2>4. Tracked(a)'
    BY <1>1, <1>2, <2>1 DEF Owned, Tracked, Unclaimed, Still
  <2>5. Returned(a)'
    BY <1>1, <1>2, <1>3, <2>1 DEF Owned, Returned
  <2>6. Counted(a)'
    BY <1>1, <1>2, <2>1 DEF Owned, Counted, CountsIn
  <2>7. Paid(a)'
    BY <1>1, <1>2, <2>1 DEF Owned, Paid, Refundable
  <2>8. Known(a)'
    BY <1>1, <1>2, <2>1 DEF Owned, Known
  <2> QED
    BY <2>8, <2>3, <2>4, <2>5, <2>6, <2>7 DEF Sound
<1>4. CASE StartRelease(a, "drop") /\ att' = att
  BY <1>1, <1>4, StartReleaseSound
<1>5. CASE entry[a] = "absent" /\ SlotLimits(limits["controller"]) = {}
           /\ pass' = Idle /\ att' = att
  <2>1. pass'.on = {}
    BY <1>5, IdleType
  <2>2. ASSUME Still, NEW n \in Names PROVE ledger[n][a] = NoSlot
    BY <1>2, <1>5, <2>2 DEF Tracked, Inv, Unmoved, SlotNames, Replicas
  <2>3. Owned(a)'
    BY <1>1, <1>2, <1>5, <2>1 DEF Owned
  <2>4. Tracked(a)'
    BY <1>1, <1>2, <1>5, <2>1 DEF Owned, Tracked, Unclaimed, Still
  <2>5. Returned(a)'
    BY <1>1, <1>2, <1>5, <2>2 DEF Owned, Returned, Settling, Still
  <2>6. Counted(a)'
    BY <1>1, <1>2, <1>5, <2>1 DEF Owned, Counted, CountsIn
  <2>7. Paid(a)'
    BY <1>1, <1>2, <1>5, <2>1 DEF Owned, Paid, Refundable
  <2>8. Known(a)'
    BY <1>1, <1>2, <1>5, <2>1 DEF Owned, Known
  <2> QED
    BY <2>8, <2>3, <2>4, <2>5, <2>6, <2>7 DEF Sound
<1> QED
  BY <1>3, <1>4, <1>5 DEF Confirm

\* Handed back by the pass, a claim leaves no slot, and its buckets get back
\* once what they gave.
LEMMA PassReleaseSound ==
    ASSUME Inv, NEW a \in Attempts, PassRelease(a), About(a)
    PROVE  Sound(a)'
<1>1. /\ pass.on = {a} /\ pass.step \in {"return", "drop"}
      /\ att' = att /\ cleanup' = cleanup /\ now' = now /\ seen' = seen
  BY DEF PassRelease
<1>2. /\ Owned(a) /\ Known(a) /\ Tracked(a) /\ Returned(a)
      /\ Counted(a) /\ Paid(a)
  BY DEF Inv, Sound
<1>3. ASSUME NEW m \in pass.stale, ReleaseSlot(a, m), taken' = taken,
             entry' = entry, pass' = [pass EXCEPT !.stale = @ \ {m}]
      PROVE  Sound(a)'
  <2>1. /\ m \in Names /\ pass'.on = pass.on /\ pass'.step = pass.step
        /\ pass'.keys = pass.keys /\ pass'.stale = pass.stale \ {m}
        /\ pass'.multi = pass.multi
    BY <1>3 DEF Inv, Shape, PassType
  <2>2. \A n \in Names : ledger'[n][a] # NoSlot => ledger[n][a] # NoSlot /\ n # m
    BY <1>3, <2>1, ReleaseSlotWrites DEF Inv
  <2>3. Owned(a)'
    BY <1>1, <1>2, <1>3, <2>1 DEF Owned
  <2>4. Tracked(a)'
    BY <1>1, <1>2, <1>3, <2>1, <2>2 DEF Tracked, Unclaimed, ToDrop, Still
  <2>5. Returned(a)'
    BY <1>1, <2>1 DEF Returned, Settling
  <2>6. Counted(a)'
    BY <1>1, <1>2, <2>1 DEF Owned, Counted, CountsIn
  <2>7. Paid(a)'
    BY <1>1, <1>2, <1>3, <2>1 DEF Paid, Refundable
  <2>8. Known(a)'
    BY <1>1, <1>2, <1>3, <2>1 DEF Owned, Known
  <2> QED
    BY <2>8, <2>3, <2>4, <2>5, <2>6, <2>7 DEF Sound
<1>4. ASSUME pass.stale = {}, ReleaseMulti(a, pass.multi), pass' = Idle,
             \/ entry' = entry
             \/ entry' = [entry EXCEPT ![a] = IF @ = "absent" THEN @ ELSE "pending"]
      PROVE  Sound(a)'
  <2>1. GaveBack(a, pass.multi) /\ pass'.on = {}
    BY <1>4, ReleaseMultiGivesBack, IdleType DEF Inv
  <2>2. entry'[a] \in {entry[a], "pending"} /\ (entry[a] = "absent" => entry'[a] = "absent")
    BY <1>4 DEF Inv, Shape
  <2>3. \A n \in Names : ledger'[n][a] = NoSlot
    BY <1>1, <1>2, <1>4, <2>1 DEF GaveBack, Tracked, ToDrop
  <2>4. ASSUME NEW n \in Names, ~taken'[a].free PROVE taken'[a].of[n] >= 0
    <3>1. taken[a].of[n] \in Int /\ Cost[a].of[n] \in Nat
      BY LimitSetAssumption DEF Inv, Shape, TakenType
    <3>4. ~taken[a].free
      BY <2>1, <2>4 DEF GaveBack
    <3>2. taken[a].of[n] >= 0
      BY <1>2, <3>4 DEF Paid
    <3>3. (\E s \in pass.multi : s.key = Tokens(n)) =>
          taken[a].of[n] >= Cost[a].of[n]
      BY <1>1, <1>2, <3>4 DEF Paid, Refundable
    <3> QED
      BY <2>1, <3>1, <3>2, <3>3 DEF GaveBack
  <2>5. Owned(a)'
    BY <1>1, <1>2, <2>1, <2>2 DEF Owned, Inv, Shape, AttType, States
  <2>6. Tracked(a)' /\ Returned(a)'
    BY <2>3 DEF Tracked, Returned
  <2>7. Counted(a)'
    BY <1>1, <1>2, <2>1 DEF Owned, Counted, CountsIn
  <2>8. Paid(a)'
    BY <1>1, <1>2, <2>1, <2>4 DEF Owned, Paid, Refundable
  <2>9. Known(a)'
    BY <1>1, <1>2, <2>1 DEF Owned, Known
  <2> QED
    BY <2>9, <2>5, <2>6, <2>7, <2>8 DEF Sound
<1> QED
  BY <1>3, <1>4 DEF PassRelease, ReturnToQueue

---------------------------------------------------------------------------
(* Updates of the list, time, and the invariant.                           *)

\* What holds of an attempt survives the clock, and survives a change of the
\* lists once it no longer leans on their standing still.
LEMMA Untouched ==
    ASSUME Inv, NEW a \in Attempts, att' = att, entry' = entry, ledger' = ledger,
           pass' = pass, cleanup' = cleanup, taken' = taken,
           now' \in Nat, now' >= now, Still' => Still
    PROVE  Sound(a)'
<1>1. /\ Owned(a) /\ Known(a) /\ Tracked(a) /\ Returned(a)
      /\ Counted(a) /\ Paid(a)
  BY DEF Inv, Sound
<1>2. Owned(a)'
  BY <1>1 DEF Owned
<1>3. Tracked(a)'
  BY <1>1 DEF Tracked, Unclaimed, ToDrop
<1>4. Returned(a)'
  BY <1>1 DEF Returned, Settling
<1>5. Counted(a)'
  <2>1. now \in Nat /\ RequestTtl \in Nat /\ taken[a].at \in Int
    BY LimitSetAssumption DEF Inv, Shape, TakenType
  <2> QED
    BY <1>1, <2>1 DEF Counted, CountsIn
<1>6. Paid(a)'
  BY <1>1 DEF Paid, Refundable
<1>7. Known(a)'
  BY <1>1 DEF Owned, Known
<1> QED
  BY <1>7, <1>2, <1>3, <1>4, <1>5, <1>6 DEF Sound

\* A published list holds named limits, and nobody has it yet.
LEMMA UpdateRateLimitStep ==
    ASSUME Inv, NEW r \in Replicas, UpdateRateLimit(r)
    PROVE  Inv'
<1>1. PICK config \in Declared :
         published' = Append(published, NormalizeRateLimit(config, limits[r]))
  BY DEF UpdateRateLimit
<1>2. NormalizeRateLimit(config, limits[r]) \in Seq(NamedLimit)
  BY NormalizeType, LimitSetAssumption DEF Inv, Shape
<1>3. published' \in Seq(Seq(NamedLimit))
  BY <1>1, <1>2 DEF Inv, Shape
<1>4. Shape' /\ Unmoved'
  BY <1>3 DEF UpdateRateLimit, Inv, Shape, Unmoved, Still
<1>5. \A a \in Attempts : Sound(a)'
  BY Untouched DEF UpdateRateLimit, Still, Inv, Shape
<1> QED
  BY <1>4, <1>5 DEF Inv

\* A broadcast that arrives ends the standing still, and nothing else.
LEMMA HandleRateLimitUpdatedStep ==
    ASSUME Inv, NEW r \in Replicas, HandleRateLimitUpdated(r)
    PROVE  Inv'
<1>1. PICK i \in (seen[r] + 1)..Len(published) :
         /\ seen' = [seen EXCEPT ![r] = i]
         /\ \/ limits' = limits
            \/ limits' = [limits EXCEPT ![r] =
                            NormalizeRateLimit(published[i], limits[r])]
         /\ UNCHANGED <<published, ledger, bucket, freeze, entry, att, pass,
                        cleanup, now, taken>>
  BY ZenonT(60) DEF HandleRateLimitUpdated, Inv, Shape
<1>2. /\ seen \in [Replicas -> Nat] /\ seen[r] \in Nat /\ Len(published) \in Nat
      /\ limits \in [Replicas -> Seq(NamedLimit)] /\ limits[r] \in Seq(NamedLimit)
      /\ published \in Seq(Seq(NamedLimit))
  BY DEF Inv, Shape
<1>3. i \in Nat /\ i > 0 /\ i \in 1..Len(published)
  BY <1>2
<1>4. published[i] \in Seq(NamedLimit)
  BY <1>2, <1>3, ElementOfSeq
<1>5. published[i] \in Seq(DeclaredLimit)
  <2>1. \A l \in NamedLimit : l \in DeclaredLimit
    BY DEF NamedLimit, DeclaredLimit
  <2> QED
    BY <1>4, <2>1, SeqMonotonic
<1>6. limits' \in [Replicas -> Seq(NamedLimit)]
  BY <1>1, <1>2, <1>5, NormalizeType
<1>7. seen' \in [Replicas -> Nat] /\ ~Still'
  BY <1>1, <1>2, <1>3 DEF Still
<1>8. Shape' /\ Unmoved'
  BY <1>1, <1>6, <1>7 DEF Inv, Shape, Unmoved
<1>9. \A a \in Attempts : Sound(a)'
  BY <1>1, <1>7, Untouched DEF Inv, Shape
<1> QED
  BY <1>8, <1>9 DEF Inv

\* Time only shortens what is left of a lifetime.
LEMMA TickStep ==
    ASSUME Inv, Tick
    PROVE  Inv'
<1>1. now \in Nat /\ now' = now + 1
  BY DEF Tick, Inv, Shape
<1>2. Shape' /\ Unmoved'
  <2>1. \A a \in Attempts : taken[a].at \in Int /\ taken[a].at <= now
    BY DEF Inv, Shape, TakenType
  <2> QED
    BY <1>1, <2>1 DEF Tick, Inv, Shape, Unmoved, Still
<1>3. \A a \in Attempts : Sound(a)'
  BY <1>1, Untouched DEF Tick, Still
<1> QED
  BY <1>2, <1>3 DEF Inv

\* A step about an attempt that is sound after it keeps the invariant.
LEMMA AboutStep ==
    ASSUME Inv, NEW a \in Attempts, About(a), Sound(a)'
    PROVE  Inv'
<1>1. \A b \in Attempts : Sound(b)'
  BY OthersSound
<1>2. Shape' /\ Unmoved'
  BY DEF About, Inv, Unmoved, Still
<1> QED
  BY <1>1, <1>2 DEF Inv

\* The invariant holds at the start.
LEMMA InitInv ==
    ASSUME Init
    PROVE  Inv
<1>1. Shape
  <2>1. NoSlot \in SlotType
    BY DEF NoSlot, SlotType
  <2>2. InitLimits \in Seq(NamedLimit)
    BY LimitSetAssumption
  <2>3. [state |-> "new", keys |-> Unknown, ready |-> Untold, outcome |-> "ok"]
          \in AttType
    BY DEF AttType, States, KeySets
  <2>4. [stale |-> {}, multi |-> {}] \in CleanupType
    BY DEF CleanupType
  <2>5. [free |-> FALSE, at |-> -1, of |-> [n \in Names |-> 0]] \in TakenType
    BY DEF TakenType
  <2>6. published \in Seq(Seq(NamedLimit))
    BY DEF Init
  <2> QED
    BY <2>1, <2>2, <2>3, <2>4, <2>5, <2>6, IdleType DEF Init, Shape
<1>2. Unmoved
  BY DEF Init, Unmoved
<1>3. ASSUME NEW a \in Attempts PROVE Sound(a)
  <2>1. /\ att[a].state = "new" /\ att[a].keys = Unknown /\ att[a].ready = Untold
        /\ entry[a] = "absent" /\ pass.on = {}
        /\ \A n \in Names : ledger[n][a] = NoSlot /\ taken[a].of[n] = 0
    BY IdleType DEF Init
  <2> QED
    BY <2>1 DEF Sound, Owned, Known, Tracked, Returned, Counted, CountsIn, Paid,
       Refundable
<1> QED
  BY <1>1, <1>2, <1>3 DEF Inv

\* Every step keeps the invariant.
LEMMA NextInv ==
    ASSUME Inv, [Next]_vars
    PROVE  Inv'
<1>1. ASSUME NEW a \in Attempts, OnReady(a) PROVE Inv'
  BY <1>1, OnReadyAbout, OnReadySound, AboutStep
<1>2. ASSUME NEW a \in Attempts, Abandon(a) PROVE Inv'
  BY <1>2, AbandonAbout, AbandonSound, AboutStep
<1>3. ASSUME NEW a \in Attempts, KeepAttemptAlive(a) PROVE Inv'
  BY <1>3, KeepAttemptAliveAbout, KeepAttemptAliveSound, AboutStep
<1>4. ASSUME NEW a \in Attempts, Finish(a) PROVE Inv'
  BY <1>4, FinishAbout, FinishSound, AboutStep
<1>5. ASSUME NEW a \in Attempts, FailBeforeDispatch(a) PROVE Inv'
  BY <1>5, FailBeforeDispatchAbout, FailBeforeDispatchSound, AboutStep
<1>6. ASSUME NEW a \in Attempts, Refund(a) PROVE Inv'
  BY <1>6, RefundAbout, RefundSound, AboutStep
<1>7. ASSUME NEW a \in Attempts, Select(a) PROVE Inv'
  BY <1>7, SelectAbout, SelectSound, AboutStep
<1>8. ASSUME NEW a \in Attempts, TryAcquireTurn(a) PROVE Inv'
  BY <1>8, TryAcquireTurnAbout, TryAcquireTurnSound, AboutStep
<1>9. ASSUME NEW a \in Attempts, RecheckFrozen(a) PROVE Inv'
  BY <1>9, RecheckFrozenAbout, RecheckFrozenSound, AboutStep
<1>10. ASSUME NEW a \in Attempts, Confirm(a) PROVE Inv'
  BY <1>10, ConfirmAbout, ConfirmSound, AboutStep
<1>11. ASSUME NEW a \in Attempts, PassRelease(a) PROVE Inv'
  BY <1>11, PassReleaseAbout, PassReleaseSound, AboutStep
<1>12. ASSUME NEW a \in Attempts, HandleRequestDone(a) PROVE Inv'
  BY <1>12, HandleRequestDoneAbout, HandleRequestDoneSound, AboutStep
<1>13. ASSUME NEW a \in Attempts, HandleFreezeOwnType(a) PROVE Inv'
  BY <1>13, HandleFreezeOwnTypeAbout, HandleFreezeOwnTypeSound, AboutStep
<1>14. ASSUME NEW a \in Attempts, ReleaseDone(a) PROVE Inv'
  BY <1>14, ReleaseDoneAbout, ReleaseDoneSound, AboutStep
<1>15. ASSUME NEW a \in Attempts, TryAdmitImmediately(a) PROVE Inv'
  BY <1>15, TryAdmitImmediatelyAbout, TryAdmitImmediatelySound, AboutStep
<1>16. ASSUME NEW r \in Replicas, UpdateRateLimit(r) \/ HandleRateLimitUpdated(r)
       PROVE  Inv'
  BY <1>16, UpdateRateLimitStep, HandleRateLimitUpdatedStep
<1>18. ASSUME NEW a \in Attempts, CanProcessNextRequest(a) PROVE Inv'
  BY <1>18, CanProcessNextRequestAbout, CanProcessNextRequestSound, AboutStep
<1>17. CASE UNCHANGED vars
  BY <1>17 DEF vars, Inv, Shape, Unmoved, Still, Sound, Owned, Known, Tracked, Unclaimed,
     ToDrop, Returned, Settling, Counted, CountsIn, Paid, Refundable
<1> QED
  BY <1>1, <1>2, <1>3, <1>4, <1>5, <1>6, <1>7, <1>8, <1>9, <1>10, <1>11, <1>12,
     <1>13, <1>14, <1>15, <1>16, <1>17, <1>18, TickStep DEF Next

\* The inductive invariant: whoever has a claim, the pass or the owner, knows
\* every slot of it and, unless a list that meters nothing admitted the
\* attempt, refunds no bucket it was not taken from.
THEOREM ClaimInvariant == Spec => []Inv
<1>1. Init => Inv
  BY InitInv
<1>2. Inv /\ [Next]_vars => Inv'
  BY NextInv
<1> QED
  BY <1>1, <1>2, PTL DEF Spec

---------------------------------------------------------------------------
(* The properties.                                                         *)

\* For every list and every sequence of updates, an attempt admitted by a list
\* that meters something never gives a bucket tokens it did not take from it:
\* releaseClaim goes by the keys that were claimed, and a claim is handed back
\* at most once, by the pass or by the owner.
THEOREM RefundsAreOwed == Spec => []RefundsOnlyWhatItTook
<1>1. Inv => RefundsOnlyWhatItTook
  BY DEF Inv, Sound, Paid, RefundsOnlyWhatItTook
<1> QED
  BY <1>1, ClaimInvariant, PTL

\* For every list and every sequence of updates, the completion of an attempt
\* that was told its claim leaves no slot in any ledger, renamed or dropped
\* ones included; and while the limits stand still, neither does that of one
\* that gave up before it was told.
THEOREM CompletionsLeaveNoSlot == Spec => []FinishedHoldsNoSlot
<1>1. Inv => FinishedHoldsNoSlot
  BY DEF Inv, Sound, Returned, Settling, Still, FinishedHoldsNoSlot
<1> QED
  BY <1>1, ClaimInvariant, PTL

\* Whatever the lifetime of a slot and whatever the lists become, a running
\* attempt counts in every ledger it claimed until that lifetime has passed:
\* reapings, other attempts' completions and renamings take nothing from it.
THEOREM RunningStaysCounted == Spec => []RunningIsCounted
<1>1. Inv => RunningIsCounted
  BY DEF Inv, Sound, Counted, CountsIn, RunningIsCounted
<1> QED
  BY <1>1, ClaimInvariant, PTL

\* What AllOrNothing says of one attempt.
Whole(a) ==
    (\E k \in Keys : Gains(a, k)) /\ att[a].state # "running"
    => \E r \in Replicas :
          /\ Metered(limits[r]) # {}
          /\ \A l \in Metered(limits[r]) :
                Cost[a].of[l.name] > 0 => Gains(a, KeyOf(l))

\* Slots that stay or go and tokens that stay or come back are no gain.
LEMMA NoGain ==
    ASSUME Inv, NEW a \in Attempts,
           \A n \in Names : ledger'[n][a] = ledger[n][a] \/ ledger'[n][a] = NoSlot,
           \A n \in Names : taken'[a].of[n] <= taken[a].of[n],
           taken' \in [Attempts -> TakenType]
    PROVE  Whole(a)
<1>1. now \in Nat
  BY DEF Inv, Shape
<1>2. \A n \in Names : taken[a].of[n] \in Int /\ taken'[a].of[n] \in Int
  BY DEF Inv, Shape, TakenType
<1>3. NoSlot.at # now
  BY <1>1 DEF NoSlot
<1>4. \A k \in Keys : ~Gains(a, k)
  BY <1>2, <1>3 DEF Gains
<1> QED
  BY <1>4 DEF Whole

\* A claim by an attempt that holds nothing gains in every budget or in none.
LEMMA ClaimIsWhole ==
    ASSUME Inv, NEW a \in Attempts, NEW r \in Replicas, NEW got \in BOOLEAN,
           \/ Wrote(a, GetLimitSpecs(a, limits[r]), got)
           \/ ledger' = ledger /\ taken' = taken /\ ~got,
           \A n \in Names : ledger[n][a] = NoSlot
    PROVE  Whole(a)
<1> DEFINE specs == GetLimitSpecs(a, limits[r])
<1>1. /\ limits[r] \in Seq(NamedLimit) /\ now \in Nat
      /\ taken \in [Attempts -> TakenType]
      /\ \A n \in Names : taken[a].of[n] \in Int /\ Cost[a].of[n] \in Nat
  BY LimitSetAssumption DEF Inv, Shape, TakenType
<1>2. CASE ledger' = ledger /\ taken' = taken
  BY <1>1, <1>2, NoGain
<1>3. CASE Wrote(a, specs, got) /\ ~got
  <2>1. \A n \in Names : ledger'[n][a] = ledger[n][a] \/ ledger'[n][a] = NoSlot
    BY <1>3 DEF Wrote
  <2>2. taken' \in [Attempts -> TakenType]
    BY <1>3 DEF Wrote
  <2>3. \A n \in Names : taken'[a].of[n] <= taken[a].of[n]
    BY <1>1, <1>3 DEF Wrote
  <2> QED
    BY <2>1, <2>2, <2>3, NoGain
<1>5. CASE Wrote(a, specs, got) /\ specs = {}
  <2>1. \A n \in Names : ledger'[n][a] = ledger[n][a] \/ ledger'[n][a] = NoSlot
    BY <1>5 DEF Wrote
  <2>2. taken' \in [Attempts -> TakenType]
    BY <1>5 DEF Wrote
  <2>3. \A n \in Names : taken'[a].of[n] <= taken[a].of[n]
    BY <1>1, <1>5 DEF Wrote
  <2> QED
    BY <2>1, <2>2, <2>3, NoGain
<1>4. CASE Wrote(a, specs, got) /\ got /\ specs # {}
  <2>2. Metered(limits[r]) # {}
    BY <1>4 DEF GetLimitSpecs
  <2>1. ASSUME NEW l \in Metered(limits[r]), Cost[a].of[l.name] > 0
        PROVE  Gains(a, KeyOf(l))
    <3> DEFINE s == [key |-> KeyOf(l), limit |-> l, cost |-> Cost[a].of[l.name]]
    <3>1. s \in specs /\ s.key = KeyOf(l)
      BY DEF GetLimitSpecs
    <3>2. l.name \in Names
      <4>1. l \in NamedLimit
        BY <1>1 DEF Metered, SlotLimits, TokenLimits, Of, Range
      <4> QED
        BY <4>1 DEF NamedLimit
    <3> HIDE DEF s, specs
    <3>3. CASE KeyOf(l) = Slots(l.name)
      <4>1. ledger'[l.name][a] = [at |-> now, cost |-> Cost[a].of[l.name]]
        BY <1>4, <3>1, <3>2, <3>3 DEF Wrote
      <4>2. ledger'[l.name][a].at = now /\ ledger'[l.name][a] # NoSlot
        BY <1>1, <4>1 DEF NoSlot
      <4> QED
        BY <3>2, <3>3, <4>2 DEF Gains
    <3>4. CASE KeyOf(l) = Tokens(l.name)
      <4>1. taken'[a].of[l.name] = taken[a].of[l.name] + Cost[a].of[l.name]
        BY <1>4, <3>1, <3>2, <3>4 DEF Wrote
      <4>2. taken'[a].of[l.name] > taken[a].of[l.name]
        BY <1>1, <2>1, <3>2, <4>1
      <4> QED
        BY <3>2, <3>4, <4>2 DEF Gains
    <3> QED
      BY <3>3, <3>4 DEF KeyOf
  <2> QED
    BY <2>1, <2>2 DEF Whole
<1> QED
  BY <1>2, <1>3, <1>4, <1>5

\* Only a claim or a keep-alive of the attempt itself gains anything.
LEMMA StepIsWhole ==
    ASSUME Inv, Next, NEW c \in Attempts
    PROVE  Whole(c)
<1>1. taken \in [Attempts -> TakenType]
      /\ \A n \in Names : taken[c].of[n] <= taken[c].of[n]
  BY DEF Inv, Shape, TakenType
<1>2. CASE ledger' = ledger /\ taken' = taken
  BY <1>1, <1>2, NoGain
<1>3. ASSUME NEW a \in Attempts, About(a), a # c PROVE Whole(c)
  BY <1>1, <1>3, NoGain DEF About, Aside, Shape
<1>4. ASSUME NEW n \in Names, ReleaseSlot(c, n), taken' = taken PROVE Whole(c)
  BY <1>1, <1>4, ReleaseSlotWrites, NoGain DEF Inv
<1>5. ASSUME NEW specs, ReleaseMulti(c, specs) PROVE Whole(c)
  <2>1. GaveBack(c, specs)
    BY <1>5, ReleaseMultiGivesBack DEF Inv
  <2>2. \A n \in Names : taken[c].of[n] \in Int /\ Cost[c].of[n] \in Nat
    BY LimitSetAssumption DEF Inv, Shape, TakenType
  <2> QED
    BY <2>1, <2>2, NoGain DEF GaveBack
<1>6. CASE KeepAttemptAlive(c)
  BY <1>6 DEF KeepAttemptAlive, Whole
<1>7. CASE Refund(c)
  <2>1. cleanup[c].stale \subseteq Names
    BY DEF Inv, Shape, CleanupType
  <2> QED
    BY <1>4, <1>5, <1>7, <2>1 DEF Refund
<1>8. CASE PassRelease(c)
  <2>1. pass.stale \subseteq Names
    BY DEF Inv, Shape, PassType
  <2> QED
    BY <1>4, <1>5, <1>8, <2>1 DEF PassRelease
<1>9. CASE ReleaseDone(c)
  <2>1. cleanup[c].stale \subseteq Names
    BY DEF Inv, Shape, CleanupType
  <2> QED
    BY <1>2, <1>4, <1>9, <2>1 DEF ReleaseDone
<1>10. CASE TryAdmitImmediately(c)
  <2> DEFINE specs == GetLimitSpecs(c, limits["owner"])
             got == QueueEmpty /\ ~Frozen /\ Acquired(c, specs)
  <2>1. \/ Wrote(c, specs, TRUE /\ Acquired(c, specs))
        \/ ledger' = ledger /\ taken' = taken
    BY <1>10, CommitWrites DEF TryAdmitImmediately, Inv
  <2>2. \A n \in Names : ledger[n][c] = NoSlot
    BY <1>10 DEF TryAdmitImmediately, Inv, Sound, Tracked, Unclaimed
  <2>3. (TRUE /\ Acquired(c, specs)) \in BOOLEAN /\ "owner" \in Replicas
    BY DEF Acquired, Replicas
  <2> QED
    BY <1>2, <2>1, <2>2, <2>3, ClaimIsWhole
<1>11. CASE TryAcquireTurn(c)
  <2> DEFINE specs == GetLimitSpecs(c, limits["controller"])
             ok == StatusChecked(limits["controller"]) => entry[c] = "inProgress"
  <2>1. \/ Wrote(c, specs, ok /\ Acquired(c, specs))
        \/ ledger' = ledger /\ taken' = taken
    BY <1>11, CommitWrites DEF TryAcquireTurn, Inv
  <2>2. \A n \in Names : ledger[n][c] = NoSlot
    BY <1>11 DEF TryAcquireTurn, Inv, Sound, Tracked, Unclaimed
  <2>3. (ok /\ Acquired(c, specs)) \in BOOLEAN /\ "controller" \in Replicas
    BY DEF Acquired, Replicas
  <2> QED
    BY <1>2, <2>1, <2>2, <2>3, ClaimIsWhole
<1>12. CASE \/ OnReady(c) \/ Abandon(c) \/ Finish(c) \/ FailBeforeDispatch(c)
            \/ Select(c) \/ CanProcessNextRequest(c) \/ RecheckFrozen(c)
            \/ Confirm(c) \/ HandleRequestDone(c) \/ HandleFreezeOwnType(c)
  BY <1>2, <1>12 DEF OnReady, Abandon, Finish, FailBeforeDispatch, Select,
     CanProcessNextRequest, RecheckFrozen, Confirm, HandleRequestDone, HandleFreezeOwnType
<1>13. ASSUME NEW r \in Replicas, UpdateRateLimit(r) \/ HandleRateLimitUpdated(r)
       PROVE  Whole(c)
  BY <1>2, <1>13 DEF UpdateRateLimit, HandleRateLimitUpdated
<1>14. CASE Tick
  BY <1>2, <1>14 DEF Tick
<1>15. ASSUME NEW a \in Attempts, a # c,
              \/ TryAdmitImmediately(a) \/ OnReady(a) \/ Abandon(a)
              \/ KeepAttemptAlive(a) \/ Finish(a) \/ FailBeforeDispatch(a)
              \/ Refund(a) \/ Select(a) \/ CanProcessNextRequest(a)
              \/ TryAcquireTurn(a) \/ RecheckFrozen(a) \/ Confirm(a)
              \/ PassRelease(a) \/ HandleRequestDone(a) \/ HandleFreezeOwnType(a)
              \/ ReleaseDone(a)
       PROVE  Whole(c)
  BY <1>3, <1>15, TryAdmitImmediatelyAbout, OnReadyAbout, AbandonAbout,
     KeepAttemptAliveAbout, FinishAbout, FailBeforeDispatchAbout, RefundAbout,
     SelectAbout, CanProcessNextRequestAbout, TryAcquireTurnAbout, RecheckFrozenAbout, ConfirmAbout,
     PassReleaseAbout, HandleRequestDoneAbout, HandleFreezeOwnTypeAbout,
     ReleaseDoneAbout
<1> QED
  BY <1>6, <1>7, <1>8, <1>9, <1>10, <1>11, <1>12, <1>13, <1>14, <1>15 DEF Next

\* For every list, a step that spends in one budget spends in every budget of
\* the list it was planned with that asks for anything (acquireMultiLimit,
\* tryAdmitMultiLimit): the invariant is needed because a second claim on a
\* slot still held would gain nothing there.
THEOREM ClaimsAreWhole == Spec => AllOrNothing
<1>1. Inv /\ [Next]_vars => [\A a \in Attempts : Whole(a)]_vars
  BY StepIsWhole DEF vars
<1>2. [\A a \in Attempts : Whole(a)]_vars =>
      [\A a \in Attempts :
          (\E k \in Keys : Gains(a, k)) /\ att[a].state # "running"
          => \E r \in Replicas :
                /\ Metered(limits[r]) # {}
                /\ \A l \in Metered(limits[r]) :
                      Cost[a].of[l.name] > 0 => Gains(a, KeyOf(l))]_vars
  BY DEF Whole
<1> QED
  BY <1>1, <1>2, ClaimInvariant, PTL DEF Spec, AllOrNothing
===========================================================================
