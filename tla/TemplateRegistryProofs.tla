----------------------- MODULE TemplateRegistryProofs -----------------------
(***************************************************************************)
(* Once everything has been heard and done, a removed instance has no      *)
(* client on any replica and no credentials in the backend, and a present  *)
(* one runs the last record on every started replica: for any fleet and    *)
(* any number of additions, removals, starts, crashes, failures and token  *)
(* writes.                                                                 *)
(***************************************************************************)
EXTENDS TemplateRegistry, SequenceTheorems, WellFoundedInduction, TLAPS

USE RegistryAssumption DEF RegistryAssumption

---------------------------------------------------------------------------
(* Sequences.                                                              *)

LEMMA Appended ==
  ASSUME NEW S, NEW s \in Seq(S), NEW e \in S
  PROVE  /\ Append(s, e) \in Seq(S) /\ Len(Append(s, e)) = Len(s) + 1
         /\ Append(s, e)[Len(s) + 1] = e
         /\ \A i \in 1 .. Len(s) : Append(s, e)[i] = s[i]
  OBVIOUS

LEMMA Popped ==
  ASSUME NEW S, NEW s \in Seq(S), s # <<>>
  PROVE  /\ Tail(s) \in Seq(S) /\ Len(Tail(s)) = Len(s) - 1 /\ Len(s) >= 1
         /\ Head(s) = s[1] /\ Head(s) \in S
         /\ \A i \in 1 .. Len(s) - 1 : Tail(s)[i] = s[i + 1]
<1>1. Len(s) \in Nat \ {0}
  BY EmptySeq
<1> QED BY <1>1, HeadTailProperties

LEMMA Stepped ==
  ASSUME NEW S, NEW s \in Seq(S), s # <<>>, NEW e \in S
  PROVE  /\ <<e>> \o Tail(s) \in Seq(S) /\ Len(<<e>> \o Tail(s)) = Len(s)
         /\ (<<e>> \o Tail(s))[1] = e
         /\ \A i \in 2 .. Len(s) : (<<e>> \o Tail(s))[i] = s[i]
<1>1. <<e>> \in Seq(S) /\ Len(<<e>>) = 1 /\ <<e>>[1] = e
  OBVIOUS
<1> DEFINE t == Tail(s)
           c == <<e>> \o t
<1>2. /\ t \in Seq(S) /\ Len(t) = Len(s) - 1 /\ Len(s) \in Nat /\ Len(s) >= 1
      /\ \A i \in 1 .. Len(s) - 1 : t[i] = s[i + 1]
  BY Popped
<1>3. /\ c \in Seq(S) /\ Len(c) = 1 + Len(t)
      /\ \A i \in 1 .. 1 + Len(t) : c[i] = IF i <= 1 THEN <<e>>[i] ELSE t[i - 1]
  BY <1>1, <1>2, ConcatProperties
<1> HIDE DEF t, c
<1>4. c[1] = e
  BY <1>1, <1>2, <1>3
<1>5. ASSUME NEW i \in 2 .. Len(s) PROVE c[i] = s[i]
  <2>1. i \in 1 .. 1 + Len(t) /\ ~(i <= 1) /\ i - 1 \in 1 .. Len(s) - 1
        /\ i - 1 + 1 = i
    BY <1>2
  <2> QED BY <1>2, <1>3, <2>1
<1>6. Len(c) = Len(s)
  BY <1>2, <1>3
<1> QED BY <1>3, <1>4, <1>5, <1>6 DEF c, t

LEMMA CutOut ==
  ASSUME NEW S, NEW s \in Seq(S), NEW n \in 1 .. Len(s)
  PROVE  LET c == SubSeq(s, 1, n - 1) \o SubSeq(s, n + 1, Len(s)) IN
         /\ c \in Seq(S) /\ Len(c) = Len(s) - 1
         /\ \A i \in 1 .. Len(s) - 1 : c[i] = IF i < n THEN s[i] ELSE s[i + 1]
<1> DEFINE a == SubSeq(s, 1, n - 1)
           b == SubSeq(s, n + 1, Len(s))
           c == a \o b
<1>1. Len(s) \in Nat /\ n \in Nat /\ n >= 1 /\ n <= Len(s)
      /\ \A i \in 1 .. Len(s) : s[i] \in S
  BY LenProperties
<1>2. /\ a \in Seq(S) /\ Len(a) = n - 1
      /\ \A i \in 1 .. n - 1 : a[i] = s[i]
  <2>1. \A i \in 1 .. n - 1 : s[i] \in S
    BY <1>1
  <2>2. /\ a \in Seq(S) /\ Len(a) = (IF 1 <= n - 1 THEN n - 1 - 1 + 1 ELSE 0)
        /\ \A i \in 1 .. n - 1 - 1 + 1 : a[i] = s[1 + i - 1]
    BY <1>1, <2>1, SubSeqProperties
  <2> HIDE DEF a
  <2> QED BY <1>1, <2>2
<1>3. /\ b \in Seq(S) /\ Len(b) = Len(s) - n
      /\ \A i \in 1 .. Len(s) - n : b[i] = s[n + i]
  <2>1. \A i \in n + 1 .. Len(s) : s[i] \in S
    BY <1>1
  <2>2. /\ b \in Seq(S)
        /\ Len(b) = (IF n + 1 <= Len(s) THEN Len(s) - (n + 1) + 1 ELSE 0)
        /\ \A i \in 1 .. Len(s) - (n + 1) + 1 : b[i] = s[n + 1 + i - 1]
    BY <1>1, <2>1, SubSeqProperties
  <2> HIDE DEF b
  <2> QED BY <1>1, <2>2
<1>4. /\ c \in Seq(S) /\ Len(c) = Len(a) + Len(b)
      /\ \A i \in 1 .. Len(a) + Len(b) :
            c[i] = IF i <= Len(a) THEN a[i] ELSE b[i - Len(a)]
  BY <1>2, <1>3, ConcatProperties
<1> HIDE DEF a, b, c
<1>5. ASSUME NEW i \in 1 .. Len(s) - 1
      PROVE  c[i] = IF i < n THEN s[i] ELSE s[i + 1]
  <2>1. i \in 1 .. Len(a) + Len(b)
    BY <1>1, <1>2, <1>3
  <2>2. CASE i < n
    <3>1. i <= Len(a) /\ i \in 1 .. n - 1
      BY <1>1, <1>2, <2>2
    <3> QED BY <1>2, <1>4, <2>1, <2>2, <3>1
  <2>3. CASE ~(i < n)
    <3>1. ~(i <= Len(a)) /\ i - Len(a) \in 1 .. Len(s) - n
          /\ n + (i - Len(a)) = i + 1
      BY <1>1, <1>2, <2>3
    <3> QED BY <1>3, <1>4, <2>1, <2>3, <3>1
  <2> QED BY <2>2, <2>3
<1>6. Len(c) = Len(s) - 1
  BY SMTT(30), <1>1, <1>2, <1>3, <1>4
<1> QED BY <1>4, <1>5, <1>6 DEF a, b, c

---------------------------------------------------------------------------
(* Jobs.                                                                   *)

Jobs == BuildJobs \cup RemoveJobs

IsBuild(j) == "gen" \in DOMAIN j

LEMMA Kinds ==
  /\ \A j \in BuildJobs : IsBuild(j)
  /\ \A j \in RemoveJobs : ~IsBuild(j)
  /\ \A j \in Jobs : (IsBuild(j) => j \in BuildJobs)
                     /\ (~IsBuild(j) => j \in RemoveJobs)
<1>1. \A j \in BuildJobs : IsBuild(j)
  BY DEF BuildJobs, IsBuild
<1>2. \A j \in RemoveJobs : ~IsBuild(j)
  BY DEF RemoveJobs, IsBuild
<1> QED BY <1>1, <1>2 DEF Jobs

---------------------------------------------------------------------------
(* The queues of one replica, as values: q for the lock's queue, rd for    *)
(* the builds still reading, g for the generation, o for what the caller   *)
(* is doing, rec for the record and top for the last addition.             *)

Last == MaxAdds + 1 - budget["adds"]

\* Who waits for a job is at the place that the job's end moves on from.
Awaited(from, o) ==
    /\ from = "add" => o = "add"
    /\ from = "remove" => o = "remove"
    /\ from = "load" => o \in {"load", "sweeping"}

\* A build that will register what the record says now.
UpToDate(j, rec) ==
    \/ j.pc = "creds"
    \/ /\ rec # 0 /\ j.creds = rec
       /\ j.pc = "settings" \/ j.settings = rec

ReaderOK(j, g, o, top) ==
    /\ j.pc \in {"creds", "settings"} /\ j.gen <= g
    /\ j.creds <= top /\ j.settings <= top
    /\ j.pc = "settings" => j.creds # 0
    /\ Awaited(j.from, o)

WaiterOK(j, g, o, top) ==
    /\ IsBuild(j) =>
          /\ j.pc \notin {"creds", "settings"} /\ j.gen <= g
          /\ j.creds <= top /\ j.settings <= top /\ j.creds # 0
    /\ Awaited(j.from, o)

\* Of two jobs, the later one has read later, a removal makes whatever was
\* queued before it stale, and at most one has a caller that waits.
InOrder(j, k, rec) ==
    /\ IsBuild(j) /\ IsBuild(k) /\ UpToDate(j, rec) => UpToDate(k, rec)
    /\ j.from = "message" \/ k.from = "message"

Readers(rd, g, o, rec, top) ==
    /\ \A i \in 1 .. Len(rd) : ReaderOK(rd[i], g, o, top)
    /\ \A i, k \in 1 .. Len(rd) : i < k =>
          /\ InOrder(rd[i], rd[k], rec)
          /\ rd[i].pc = "creds" => rd[k].pc = "creds"

Waiters(q, g, o, rec, top) ==
    /\ \A i \in 1 .. Len(q) :
          /\ WaiterOK(q[i], g, o, top)
          /\ i > 1 => q[i].pc = "wait"
    /\ \A i, k \in 1 .. Len(q) : i < k =>
          /\ InOrder(q[i], q[k], rec)
          /\ IsBuild(q[i]) /\ q[i].gen = g => IsBuild(q[k])

Queues(q, rd, g, o, rec, top) ==
    /\ Readers(rd, g, o, rec, top)
    /\ Waiters(q, g, o, rec, top)
    /\ \A i \in 1 .. Len(q), k \in 1 .. Len(rd) : InOrder(q[i], rd[k], rec)

---------------------------------------------------------------------------
(* What is coming to a replica.                                            *)

Announced(r) ==
    \/ \E p \in Replicas : op[p] = "tellRemoved"
    \/ \E i \in 1 .. Len(inbox[r]) : inbox[r][i] = "removed"

\* A build that read a record and that no removal has overtaken.
Live(q, rd, g) ==
    \/ \E i \in 1 .. Len(rd) : rd[i].pc = "settings" /\ rd[i].gen = g
    \/ \E i \in 1 .. Len(q) : IsBuild(q[i]) /\ q[i].gen = g

Leaving(q) == \E i \in 1 .. Len(q) : ~IsBuild(q[i]) /\ q[i].pc = "wait"

\* A client, or a build that would make one, of an erased record has a removal
\* coming.
Doomed(r) ==
    record = 0 /\ "untold" \notin excused =>
        /\ Live(lockq[r], reading[r], gen[r]) => Announced(r)
        /\ client[r] # None => Announced(r) \/ Leaving(lockq[r])

\* A build that has taken the client out puts one back, and if it has been
\* overtaken since, the removal waits behind it.
Swapping(r) ==
    lockq[r] # <<>> /\ lockq[r][1].pc = "swap" =>
        /\ client[r] = None
        /\ lockq[r][1].gen = gen[r] \/ Leaving(lockq[r])

NothingLeft(r) ==
    /\ inbox[r] = <<>> /\ reading[r] = <<>> /\ lockq[r] = <<>>
    /\ client[r] = None /\ mapped[r] = FALSE
    /\ refresh[r] = "none" /\ seed[r] = NoSeed

Bounded ==
    /\ budget \in [{"adds", "removes", "starts", "crashes", "failures",
                    "tokens"} -> Nat]
    /\ budget["adds"] <= MaxAdds
    /\ record <= Last
    /\ \A r \in Replicas : client[r][1] <= Last /\ client[r][2] <= Last

InShape(r) ==
    /\ Queues(lockq[r], reading[r], gen[r], op[r], record, Last)
    /\ op[r] = "down" => NothingLeft(r)
    /\ Swapping(r)

Shape == TypeOK /\ Bounded /\ \A r \in Replicas : InShape(r)

GhostInv == Shape /\ \A r \in Replicas : Doomed(r)

---------------------------------------------------------------------------
(* What makes a replica run the record.                                    *)

Unremoved(r) == \A i \in 1 .. Len(inbox[r]) : inbox[r][i] = "added"

\* Every build that no removal has overtaken is of the record.
AllUpToDate(r) ==
    /\ \A i \in 1 .. Len(reading[r]) :
          reading[r][i].gen = gen[r] => UpToDate(reading[r][i], record)
    /\ \A i \in 1 .. Len(lockq[r]) :
          IsBuild(lockq[r][i]) /\ lockq[r][i].gen = gen[r]
          => UpToDate(lockq[r][i], record)

SomeUpToDate(r) ==
    \/ \E i \in 1 .. Len(reading[r]) :
          reading[r][i].gen = gen[r] /\ UpToDate(reading[r][i], record)
    \/ \E i \in 1 .. Len(lockq[r]) :
          /\ IsBuild(lockq[r][i]) /\ lockq[r][i].gen = gen[r]
          /\ UpToDate(lockq[r][i], record)

\* Somebody is about to say that it was added, or to bring about a gap.
Talking == \E p \in Replicas : op[p] \in {"add", "tellAdded", "tellRemoved"}

Arriving(r) ==
    \/ Talking
    \/ op[r] \in {"remove", "erase"}
    \/ inbox[r] # <<>> /\ inbox[r][Len(inbox[r])] = "added"
    \/ /\ Unremoved(r)
       /\ \/ SomeUpToDate(r)
          \/ /\ client[r] = <<record, record>>
             /\ ~Leaving(lockq[r]) /\ AllUpToDate(r)
          \/ op[r] = "list" /\ ~mapped[r] /\ AllUpToDate(r)

Unexcused == excused \cap {"crossed", "swept", "untold", "unread"} = {}

ConvergeInv ==
    /\ Shape
    /\ record # 0 /\ Unexcused => \A r \in Replicas : Up(r) => Arriving(r)

---------------------------------------------------------------------------
(* What keeps stored credentials within reach of a purge.                  *)

\* The client's name is recorded before a client of the record is registered.
Named ==
    record # 0 /\ ~names => \A r \in Replicas :
        /\ client[r][1] # record
        /\ lockq[r] # <<>> /\ lockq[r][1].pc \in {"check", "swap"}
           => lockq[r][1].creds # record

\* A client, or a build that has taken one out and puts one back.
Manned(r) == client[r] # None \/ (lockq[r] # <<>> /\ lockq[r][1].pc = "swap")

\* Whoever may yet write credentials has a client, or its line is retired.
WritersManned(r) ==
    /\ refresh[r] = "live" => Manned(r)
    /\ seed[r].pc = "track" /\ ~ seed[r].retired => Manned(r)

\* A removal that will delete the tokens, and the grants it has found listed.
Purging(r, ofGrants) ==
    /\ lockq[r] # <<>>
    /\ \/ lockq[r][1].pc \in {"list", "grants"} /\ lockq[r][1].held
       \/ lockq[r][1].pc = "delete" /\ (ofGrants => lockq[r][1].grant)

\* A removal that asked for the purge and is past it.
PastPurge(r, ofGrants) ==
    \/ op[r] = "erase"
    \/ /\ lockq[r] # <<>> /\ lockq[r][1].from = "remove"
       /\ \/ lockq[r][1].pc = "unlist"
          \/ lockq[r][1].pc = "delete" /\ ofGrants /\ ~ lockq[r][1].grant

\* What is stored is found by a replica that has or had a client, or by its
\* name, by the next removal.
WithinReach(ofGrants) ==
    \/ \E r \in Replicas : Manned(r) \/ Purging(r, ofGrants)
    \/ record # 0 /\ names /\ \A r \in Replicas : ~ PastPurge(r, ofGrants)

\* A setGrantTokens that will list the grant, or undo it.
Settling(r) == seed[r].pc = "track" \/ (seed[r].pc = "confirm" /\ seed[r].retired)

GrantWithinReach ==
    \/ \E r \in Replicas : Settling(r)
    \/ index /\ WithinReach(TRUE)

PurgeInv ==
    /\ \A r \in Replicas : WritersManned(r)
    /\ excused = {} =>
          /\ Named
          /\ token => WithinReach(FALSE)
          /\ granted => GrantWithinReach

---------------------------------------------------------------------------
(* What a step does to the queues of a replica.                            *)

Callers == {"add", "remove", "message", "load"}

LEMMA JobFields ==
  /\ \A j \in BuildJobs : /\ j.from \in Callers /\ j.gen \in Nat
                          /\ j.creds \in Nat /\ j.settings \in Nat
                          /\ j.creds \in Versions /\ j.settings \in Versions
  /\ \A j \in Jobs : j.from \in Callers
  BY DEF BuildJobs, RemoveJobs, Jobs, Callers, Versions

Free(o) == o \notin {"add", "remove", "load", "sweeping"}

AllMessages(q, rd) ==
    /\ \A i \in 1 .. Len(q) : q[i].from = "message"
    /\ \A i \in 1 .. Len(rd) : rd[i].from = "message"

LEMMA MessagesAwaited == \A o : Awaited("message", o)
  BY DEF Awaited

LEMMA NobodyWaits ==
  ASSUME NEW q \in Seq(Jobs), NEW rd \in Seq(BuildJobs), NEW g, NEW o, NEW rec,
         NEW top, Queues(q, rd, g, o, rec, top), Free(o)
  PROVE  AllMessages(q, rd)
<1>1. ASSUME NEW f \in Callers, Awaited(f, o) PROVE f = "message"
  BY <1>1 DEF Callers, Awaited, Free
<1>2. ASSUME NEW i \in 1 .. Len(q) PROVE q[i].from = "message"
  <2>1. q[i] \in Jobs /\ Awaited(q[i].from, o)
    BY DEF Queues, Waiters, WaiterOK
  <2> QED BY <1>1, <2>1, JobFields
<1>3. ASSUME NEW i \in 1 .. Len(rd) PROVE rd[i].from = "message"
  <2>1. rd[i] \in BuildJobs /\ Awaited(rd[i].from, o)
    BY DEF Queues, Readers, ReaderOK
  <2> QED BY <1>1, <2>1, JobFields
<1> QED BY <1>2, <1>3 DEF AllMessages

LEMMA CallerMoves ==
  ASSUME NEW q \in Seq(Jobs), NEW rd \in Seq(BuildJobs), NEW g, NEW o, NEW rec,
         NEW top, NEW o2, Queues(q, rd, g, o, rec, top), AllMessages(q, rd)
  PROVE  Queues(q, rd, g, o2, rec, top)
<1>1. Readers(rd, g, o2, rec, top)
  BY MessagesAwaited DEF Queues, Readers, ReaderOK, AllMessages
<1>2. Waiters(q, g, o2, rec, top)
  BY MessagesAwaited DEF Queues, Waiters, WaiterOK, AllMessages
<1> QED BY <1>1, <1>2 DEF Queues

LEMMA BuildStarts ==
  ASSUME NEW q \in Seq(Jobs), NEW rd \in Seq(BuildJobs), NEW g \in Nat, NEW o,
         NEW rec, NEW top \in Nat, NEW j \in BuildJobs,
         Queues(q, rd, g, o, rec, top),
         j.from = "message" \/ AllMessages(q, rd), Awaited(j.from, o),
         j.pc = "creds", j.gen = g, j.creds = 0, j.settings = 0
  PROVE  Queues(q, Append(rd, j), g, o, rec, top)
<1> DEFINE n == Append(rd, j)
<1>1. /\ n \in Seq(BuildJobs) /\ Len(n) = Len(rd) + 1 /\ n[Len(rd) + 1] = j
      /\ Len(rd) \in Nat
      /\ \A i \in 1 .. Len(rd) : n[i] = rd[i]
  BY Appended
<1> HIDE DEF n
<1>2. ReaderOK(j, g, o, top)
  BY DEF ReaderOK
<1>3. UpToDate(j, rec)
  BY DEF UpToDate
<1>4. ASSUME NEW i \in 1 .. Len(n)
      PROVE  ReaderOK(n[i], g, o, top)
  <2>1. i \in 1 .. Len(rd) \/ i = Len(rd) + 1
    BY <1>1
  <2> QED BY <1>1, <1>2, <2>1 DEF Queues, Readers
<1>5. ASSUME NEW i \in 1 .. Len(n), NEW k \in 1 .. Len(n), i < k
      PROVE  /\ InOrder(n[i], n[k], rec)
             /\ n[i].pc = "creds" => n[k].pc = "creds"
  <2>1. i \in 1 .. Len(rd) /\ (k \in 1 .. Len(rd) \/ k = Len(rd) + 1)
    BY <1>1, <1>5
  <2>2. CASE k \in 1 .. Len(rd)
    BY <1>1, <1>5, <2>1, <2>2 DEF Queues, Readers
  <2>3. CASE k = Len(rd) + 1
    BY <1>1, <1>3, <2>1, <2>3 DEF InOrder, AllMessages
  <2> QED BY <2>1, <2>2, <2>3
<1>6. ASSUME NEW i \in 1 .. Len(q), NEW k \in 1 .. Len(n)
      PROVE  InOrder(q[i], n[k], rec)
  <2>1. k \in 1 .. Len(rd) \/ k = Len(rd) + 1
    BY <1>1
  <2>2. CASE k \in 1 .. Len(rd)
    BY <1>1, <2>2 DEF Queues
  <2>3. CASE k = Len(rd) + 1
    BY <1>1, <1>3, <2>3 DEF InOrder, AllMessages
  <2> QED BY <2>1, <2>2, <2>3
<1>7. Readers(n, g, o, rec, top)
  BY <1>4, <1>5 DEF Readers
<1>8. Waiters(q, g, o, rec, top)
  BY DEF Queues
<1> QED BY <1>6, <1>7, <1>8 DEF Queues, n

LEMMA RemovalQueues ==
  ASSUME NEW q \in Seq(Jobs), NEW rd \in Seq(BuildJobs), NEW g \in Nat, NEW o,
         NEW rec, NEW top \in Nat, NEW j \in RemoveJobs,
         Queues(q, rd, g, o, rec, top),
         j.from = "message" \/ AllMessages(q, rd), Awaited(j.from, o),
         j.pc = "wait"
  PROVE  /\ Queues(Append(q, j), rd, g + 1, o, rec, top)
         /\ ~Live(Append(q, j), rd, g + 1)
         /\ Leaving(Append(q, j))
<1> DEFINE n == Append(q, j)
<1>1. /\ n \in Seq(Jobs) /\ Len(n) = Len(q) + 1 /\ n[Len(q) + 1] = j
      /\ Len(q) \in Nat
      /\ \A i \in 1 .. Len(q) : n[i] = q[i]
  <2>1. j \in Jobs
    BY DEF Jobs
  <2> QED BY <2>1, Appended
<1> HIDE DEF n
<1>2. ~IsBuild(j)
  BY Kinds
<1>3. WaiterOK(j, g + 1, o, top)
  BY <1>2 DEF WaiterOK
<1>4. ASSUME NEW i \in 1 .. Len(rd)
      PROVE  ReaderOK(rd[i], g + 1, o, top) /\ rd[i].gen # g + 1
  <2>1. rd[i].gen \in Nat /\ rd[i].gen <= g
    BY JobFields DEF Queues, Readers, ReaderOK
  <2>2. rd[i].gen <= g + 1 /\ rd[i].gen # g + 1
    BY <2>1
  <2> QED BY <2>2 DEF Queues, Readers, ReaderOK
<1>5. ASSUME NEW i \in 1 .. Len(q)
      PROVE  WaiterOK(q[i], g + 1, o, top) /\ (IsBuild(q[i]) => q[i].gen # g + 1)
  <2>0. q[i] \in Jobs /\ WaiterOK(q[i], g, o, top)
    BY DEF Queues, Waiters
  <2>1. IsBuild(q[i]) => q[i].gen \in Nat /\ q[i].gen <= g
    BY <2>0, JobFields, Kinds DEF WaiterOK
  <2>2. IsBuild(q[i]) => q[i].gen <= g + 1 /\ q[i].gen # g + 1
    BY <2>1
  <2> QED BY <2>0, <2>2 DEF WaiterOK
<1>6. ASSUME NEW i \in 1 .. Len(n)
      PROVE  /\ WaiterOK(n[i], g + 1, o, top) /\ (i > 1 => n[i].pc = "wait")
             /\ IsBuild(n[i]) => n[i].gen # g + 1
  <2>1. i \in 1 .. Len(q) \/ i = Len(q) + 1
    BY <1>1
  <2> QED BY <1>1, <1>2, <1>3, <1>5, <2>1 DEF Queues, Waiters
<1>7. ASSUME NEW i \in 1 .. Len(n), NEW k \in 1 .. Len(n), i < k
      PROVE  InOrder(n[i], n[k], rec)
  <2>1. i \in 1 .. Len(q) /\ (k \in 1 .. Len(q) \/ k = Len(q) + 1)
    <3>1. i \in 1 .. Len(q) + 1 /\ k \in 1 .. Len(q) + 1 /\ Len(q) \in Nat
      BY <1>1
    <3> QED BY <1>7, <3>1
  <2>2. CASE k \in 1 .. Len(q)
    BY <1>1, <1>7, <2>1, <2>2 DEF Queues, Waiters
  <2>3. CASE k = Len(q) + 1
    BY <1>1, <1>2, <2>1, <2>3 DEF InOrder, AllMessages
  <2> QED BY <2>1, <2>2, <2>3
<1>8. ASSUME NEW i \in 1 .. Len(n), NEW k \in 1 .. Len(rd)
      PROVE  InOrder(n[i], rd[k], rec)
  <2>1. i \in 1 .. Len(q) \/ i = Len(q) + 1
    BY <1>1
  <2>2. CASE i \in 1 .. Len(q)
    BY <1>1, <2>2 DEF Queues
  <2>3. CASE i = Len(q) + 1
    BY <1>1, <1>2, <2>3 DEF InOrder, AllMessages
  <2> QED BY <2>1, <2>2, <2>3
<1>9. Waiters(n, g + 1, o, rec, top)
  BY <1>6, <1>7 DEF Waiters
<1>10. Readers(rd, g + 1, o, rec, top)
  BY <1>4 DEF Queues, Readers
<1>11. Queues(n, rd, g + 1, o, rec, top)
  BY <1>8, <1>9, <1>10 DEF Queues
<1>12. ~Live(n, rd, g + 1)
  BY <1>4, <1>6 DEF Live
<1>13. Leaving(n)
  <2>1. Len(q) + 1 \in 1 .. Len(n)
    BY <1>1
  <2> QED BY <1>1, <1>2, <2>1 DEF Leaving
<1> QED BY <1>11, <1>12, <1>13 DEF n

LEMMA BuildGivesUp ==
  ASSUME NEW q \in Seq(Jobs), NEW rd \in Seq(BuildJobs), NEW g, NEW o, NEW rec,
         NEW top, NEW n \in 1 .. Len(rd), Queues(q, rd, g, o, rec, top)
  PROVE  LET c == SubSeq(rd, 1, n - 1) \o SubSeq(rd, n + 1, Len(rd)) IN
         /\ c \in Seq(BuildJobs)
         /\ Queues(q, c, g, o, rec, top)
         /\ rd[n].from # "message" => AllMessages(q, c)
         /\ Live(q, c, g) => Live(q, rd, g)
<1> DEFINE c == SubSeq(rd, 1, n - 1) \o SubSeq(rd, n + 1, Len(rd))
           at(i) == IF i < n THEN i ELSE i + 1
<1>1. /\ c \in Seq(BuildJobs) /\ Len(c) = Len(rd) - 1
      /\ \A i \in 1 .. Len(rd) - 1 : c[i] = IF i < n THEN rd[i] ELSE rd[i + 1]
  BY CutOut
<1> HIDE DEF c
<1>2. Len(rd) \in Nat /\ n \in Nat
  BY LenProperties
<1>3. ASSUME NEW i \in 1 .. Len(c)
      PROVE  /\ at(i) \in 1 .. Len(rd) /\ at(i) # n /\ c[i] = rd[at(i)]
             /\ \A k \in 1 .. Len(c) : i < k => at(i) < at(k)
  <2>1. i \in Nat /\ i >= 1 /\ i <= Len(rd) - 1
    BY <1>1, <1>2
  <2>2. at(i) \in 1 .. Len(rd) /\ at(i) # n
    BY <1>2, <2>1
  <2>3. c[i] = rd[at(i)]
    BY <1>1, <2>1
  <2>4. \A k \in 1 .. Len(c) : i < k => at(i) < at(k)
    BY <1>1, <1>2, <2>1
  <2> QED BY <2>2, <2>3, <2>4
<1> HIDE DEF at
<1>4. Readers(c, g, o, rec, top)
  <2>1. \A i \in 1 .. Len(c) : ReaderOK(c[i], g, o, top)
    BY <1>3 DEF Queues, Readers
  <2>2. ASSUME NEW i \in 1 .. Len(c), NEW k \in 1 .. Len(c), i < k
        PROVE  InOrder(c[i], c[k], rec) /\ (c[i].pc = "creds" => c[k].pc = "creds")
    <3>1. /\ at(i) \in 1 .. Len(rd) /\ at(k) \in 1 .. Len(rd) /\ at(i) < at(k)
          /\ c[i] = rd[at(i)] /\ c[k] = rd[at(k)]
      BY <1>3, <2>2
    <3> QED BY <3>1 DEF Queues, Readers
  <2> QED BY <2>1, <2>2 DEF Readers
<1>5. Queues(q, c, g, o, rec, top)
  BY <1>3, <1>4 DEF Queues
<1>6. ASSUME rd[n].from # "message" PROVE AllMessages(q, c)
  <2>1. \A i \in 1 .. Len(q) : q[i].from = "message"
    BY <1>6 DEF Queues, InOrder
  <2>2. ASSUME NEW i \in 1 .. Len(c) PROVE c[i].from = "message"
    <3>1. at(i) \in 1 .. Len(rd) /\ (at(i) < n \/ n < at(i)) /\ c[i] = rd[at(i)]
      BY <1>2, <1>3
    <3> QED BY <1>6, <3>1 DEF Queues, Readers, InOrder
  <2> QED BY <2>1, <2>2 DEF AllMessages
<1>7. Live(q, c, g) => Live(q, rd, g)
  BY <1>3 DEF Live
<1> QED BY <1>1, <1>5, <1>6, <1>7 DEF c

LEMMA CredentialsRead ==
  ASSUME NEW q \in Seq(Jobs), NEW rd \in Seq(BuildJobs), NEW g, NEW o,
         NEW rec \in Versions \ {0}, NEW top \in Nat, rec <= top,
         NEW n \in 1 .. Len(rd), rd[n].pc = "creds",
         \A i \in 1 .. n - 1 : rd[i].pc # "creds",
         Queues(q, rd, g, o, rec, top)
  PROVE  LET c == [rd EXCEPT ![n].creds = rec, ![n].pc = "settings"] IN
         /\ c \in Seq(BuildJobs) /\ Len(c) = Len(rd)
         /\ Queues(q, c, g, o, rec, top)
         /\ \A i \in 1 .. Len(rd) :
               /\ c[i].gen = rd[i].gen
               /\ UpToDate(rd[i], rec) <=> UpToDate(c[i], rec)
<1> DEFINE c == [rd EXCEPT ![n].creds = rec, ![n].pc = "settings"]
           j == [rd[n] EXCEPT !.creds = rec, !.pc = "settings"]
<1>0. rd[n] \in BuildJobs /\ rec \in Nat
  BY DEF Versions
<1>1. /\ j \in BuildJobs /\ j.pc = "settings" /\ j.creds = rec
      /\ j.from = rd[n].from /\ j.gen = rd[n].gen /\ j.settings = rd[n].settings
  BY <1>0 DEF BuildJobs
<1>2. c = [rd EXCEPT ![n] = j]
  BY <1>0 DEF BuildJobs
<1> HIDE DEF c, j
<1>3. /\ c \in Seq(BuildJobs) /\ Len(c) = Len(rd) /\ c[n] = j
      /\ \A i \in 1 .. Len(rd) : i # n => c[i] = rd[i]
  <2>1. /\ [rd EXCEPT ![n] = j] \in Seq(BuildJobs)
        /\ Len([rd EXCEPT ![n] = j]) = Len(rd)
        /\ \A i \in 1 .. Len(rd) :
              [rd EXCEPT ![n] = j][i] = IF i = n THEN j ELSE rd[i]
    BY <1>1, ExceptSeq
  <2> QED BY <1>2, <2>1
<1>4. IsBuild(j) /\ IsBuild(rd[n])
  BY <1>0, <1>1, Kinds
<1>5. UpToDate(j, rec) /\ UpToDate(rd[n], rec)
  BY <1>1 DEF UpToDate
<1>6. ReaderOK(j, g, o, top)
  BY <1>1, <1>0 DEF Queues, Readers, ReaderOK
<1>7. ASSUME NEW i \in 1 .. Len(rd)
      PROVE  /\ ReaderOK(c[i], g, o, top) /\ c[i].from = rd[i].from
             /\ IsBuild(c[i]) <=> IsBuild(rd[i])
             /\ c[i].gen = rd[i].gen
             /\ UpToDate(rd[i], rec) <=> UpToDate(c[i], rec)
  <2>1. CASE i = n
    BY <1>1, <1>3, <1>4, <1>5, <1>6, <2>1
  <2>2. CASE i # n
    BY <1>3, <2>2 DEF Queues, Readers
  <2> QED BY <2>1, <2>2
<1>8. ASSUME NEW i \in 1 .. Len(rd), NEW k \in 1 .. Len(rd), i < k
      PROVE  /\ InOrder(c[i], c[k], rec)
             /\ c[i].pc = "creds" => c[k].pc = "creds"
  <2>1. InOrder(rd[i], rd[k], rec) /\ (rd[i].pc = "creds" => rd[k].pc = "creds")
    BY <1>8 DEF Queues, Readers
  <2>2. InOrder(c[i], c[k], rec)
    BY <1>7, <2>1 DEF InOrder
  <2>3. ASSUME c[i].pc = "creds" PROVE c[k].pc = "creds"
    <3>1. i # n /\ rd[i].pc = "creds"
      BY <1>1, <1>3, <2>3
    <3>2. CASE k = n
      <4>1. i \in 1 .. n - 1
        BY <1>8, <3>2
      <4> QED BY <3>1, <4>1
    <3>3. CASE k # n
      BY <1>3, <2>1, <3>1, <3>3
    <3> QED BY <3>2, <3>3
  <2> QED BY <2>2, <2>3
<1>9. ASSUME NEW i \in 1 .. Len(q), NEW k \in 1 .. Len(rd)
      PROVE  InOrder(q[i], c[k], rec)
  <2>1. InOrder(q[i], rd[k], rec)
    BY DEF Queues
  <2> QED BY <1>7, <2>1 DEF InOrder
<1>10. Readers(c, g, o, rec, top)
  BY <1>3, <1>7, <1>8 DEF Readers
<1>11. Queues(q, c, g, o, rec, top)
  BY <1>3, <1>9, <1>10 DEF Queues
<1> QED BY <1>3, <1>7, <1>11 DEF c

LEMMA HolderDone ==
  ASSUME NEW q \in Seq(Jobs), NEW rd \in Seq(BuildJobs), NEW g, NEW o, NEW rec,
         NEW top, q # <<>>, Queues(q, rd, g, o, rec, top)
  PROVE  /\ Tail(q) \in Seq(Jobs)
         /\ Queues(Tail(q), rd, g, o, rec, top)
         /\ Head(q).from # "message" => AllMessages(Tail(q), rd)
         /\ Live(Tail(q), rd, g) => Live(q, rd, g)
         /\ Leaving(q) /\ (IsBuild(q[1]) \/ q[1].pc # "wait") => Leaving(Tail(q))
         /\ Tail(q) # <<>> => Tail(q)[1].pc = "wait"
<1> DEFINE t == Tail(q)
<1>1. /\ t \in Seq(Jobs) /\ Len(t) = Len(q) - 1 /\ Len(q) >= 1
      /\ Head(q) = q[1] /\ Len(q) \in Nat
      /\ \A i \in 1 .. Len(q) - 1 : t[i] = q[i + 1]
  BY Popped
<1> HIDE DEF t
<1>2. ASSUME NEW i \in 1 .. Len(t)
      PROVE  /\ i + 1 \in 1 .. Len(q) /\ t[i] = q[i + 1] /\ i + 1 > 1
             /\ \A k \in 1 .. Len(t) : i < k => i + 1 < k + 1
  BY SMTT(30), <1>1
<1>3. Waiters(t, g, o, rec, top)
  <2>1. ASSUME NEW i \in 1 .. Len(t)
        PROVE  WaiterOK(t[i], g, o, top) /\ t[i].pc = "wait"
    BY <1>2 DEF Queues, Waiters
  <2>2. ASSUME NEW i \in 1 .. Len(t), NEW k \in 1 .. Len(t), i < k
        PROVE  /\ InOrder(t[i], t[k], rec)
               /\ IsBuild(t[i]) /\ t[i].gen = g => IsBuild(t[k])
    BY <1>2, <2>2 DEF Queues, Waiters
  <2> QED BY <2>1, <2>2 DEF Waiters
<1>4. Queues(t, rd, g, o, rec, top)
  BY <1>2, <1>3 DEF Queues
<1>5. ASSUME q[1].from # "message" PROVE AllMessages(t, rd)
  <2>1. 1 \in 1 .. Len(q)
    BY <1>1
  <2>2. \A i \in 1 .. Len(rd) : rd[i].from = "message"
    BY <1>5, <2>1 DEF Queues, InOrder
  <2>3. ASSUME NEW i \in 1 .. Len(t) PROVE t[i].from = "message"
    <3>1. i + 1 \in 1 .. Len(q) /\ 1 < i + 1 /\ t[i] = q[i + 1]
      BY <1>2
    <3> QED BY <1>5, <2>1, <3>1 DEF Queues, Waiters, InOrder
  <2> QED BY <2>2, <2>3 DEF AllMessages
<1>6. Live(t, rd, g) => Live(q, rd, g)
  BY <1>2 DEF Live
<1>7. ASSUME Leaving(q), IsBuild(q[1]) \/ q[1].pc # "wait" PROVE Leaving(t)
  <2>1. PICK i \in 1 .. Len(q) : ~IsBuild(q[i]) /\ q[i].pc = "wait"
    BY <1>7 DEF Leaving
  <2>2. i - 1 \in 1 .. Len(t) /\ t[i - 1] = q[i]
    <3>1. i # 1
      BY <1>7, <2>1
    <3>2. i - 1 \in 1 .. Len(q) - 1 /\ i - 1 + 1 = i
      BY <1>1, <3>1
    <3> QED BY <1>1, <3>2
  <2> QED BY <2>1, <2>2 DEF Leaving
<1>8. ASSUME t # <<>> PROVE t[1].pc = "wait"
  <2>1. 1 \in 1 .. Len(t)
    BY <1>1, <1>8, EmptySeq
  <2> QED BY <1>2, <2>1 DEF Queues, Waiters
<1> QED BY <1>1, <1>4, <1>5, <1>6, <1>7, <1>8 DEF t

LEMMA HolderSteps ==
  ASSUME NEW q \in Seq(Jobs), NEW rd \in Seq(BuildJobs), NEW g, NEW o, NEW rec,
         NEW top, q # <<>>, NEW e \in Jobs, Queues(q, rd, g, o, rec, top),
         IsBuild(e) <=> IsBuild(q[1]), e.from = q[1].from,
         IsBuild(e) => /\ e.gen = q[1].gen /\ e.creds = q[1].creds
                       /\ e.settings = q[1].settings
                       /\ e.pc \notin {"creds", "settings"}
  PROVE  LET s == <<e>> \o Tail(q) IN
         /\ s \in Seq(Jobs) /\ s # <<>> /\ s[1] = e /\ Len(s) = Len(q)
         /\ \A i \in 2 .. Len(q) : s[i] = q[i]
         /\ Queues(s, rd, g, o, rec, top)
         /\ Live(s, rd, g) => Live(q, rd, g)
         /\ Leaving(q) /\ (IsBuild(q[1]) \/ q[1].pc # "wait") => Leaving(s)
         /\ IsBuild(e) => (UpToDate(e, rec) <=> UpToDate(q[1], rec))
<1> DEFINE s == <<e>> \o Tail(q)
<1>1. /\ s \in Seq(Jobs) /\ Len(s) = Len(q) /\ s[1] = e
      /\ \A i \in 2 .. Len(q) : s[i] = q[i]
  BY SMTT(30), Stepped
<1>2. Len(q) \in Nat /\ Len(q) >= 1 /\ 1 \in 1 .. Len(q)
  BY EmptySeq, LenProperties
<1> HIDE DEF s
<1>3. WaiterOK(q[1], g, o, top)
  BY <1>2 DEF Queues, Waiters
<1>4. WaiterOK(e, g, o, top)
  BY <1>3 DEF WaiterOK
<1>5. IsBuild(e) => (UpToDate(e, rec) <=> UpToDate(q[1], rec))
  BY <1>3 DEF WaiterOK, UpToDate
<1>6. ASSUME NEW i \in 1 .. Len(q) PROVE i = 1 \/ (i \in 2 .. Len(q) /\ i > 1)
  BY <1>2
<1>7. ASSUME NEW i \in 1 .. Len(q)
      PROVE  /\ WaiterOK(s[i], g, o, top) /\ (i > 1 => s[i].pc = "wait")
             /\ IsBuild(s[i]) <=> IsBuild(q[i])
             /\ s[i].from = q[i].from
             /\ IsBuild(q[i]) => /\ s[i].gen = q[i].gen
                                 /\ UpToDate(s[i], rec) <=> UpToDate(q[i], rec)
  <2>1. CASE i = 1
    BY <1>1, <1>4, <1>5, <2>1
  <2>2. CASE i \in 2 .. Len(q)
    BY <1>1, <2>2 DEF Queues, Waiters
  <2> QED BY <1>6, <2>1, <2>2
<1>8. ASSUME NEW i \in 1 .. Len(q), NEW k \in 1 .. Len(q), i < k
      PROVE  /\ InOrder(s[i], s[k], rec)
             /\ IsBuild(s[i]) /\ s[i].gen = g => IsBuild(s[k])
  <2>1. /\ InOrder(q[i], q[k], rec)
        /\ IsBuild(q[i]) /\ q[i].gen = g => IsBuild(q[k])
    BY <1>8 DEF Queues, Waiters
  <2> QED BY <1>7, <2>1 DEF InOrder
<1>9. ASSUME NEW i \in 1 .. Len(q), NEW k \in 1 .. Len(rd)
      PROVE  InOrder(s[i], rd[k], rec)
  <2>1. InOrder(q[i], rd[k], rec)
    BY DEF Queues
  <2> QED BY <1>7, <2>1 DEF InOrder
<1>10. Waiters(s, g, o, rec, top)
  BY <1>1, <1>7, <1>8 DEF Waiters
<1>11. Queues(s, rd, g, o, rec, top)
  BY <1>1, <1>9, <1>10 DEF Queues
<1>12. Live(s, rd, g) => Live(q, rd, g)
  BY <1>1, <1>7 DEF Live
<1>13. ASSUME Leaving(q), IsBuild(q[1]) \/ q[1].pc # "wait" PROVE Leaving(s)
  <2>1. PICK i \in 1 .. Len(q) : ~IsBuild(q[i]) /\ q[i].pc = "wait"
    BY <1>13 DEF Leaving
  <2>2. i \in 2 .. Len(q)
    BY <1>6, <1>13, <2>1
  <2> QED BY <1>1, <2>1, <2>2 DEF Leaving
<1>14. s # <<>>
  BY <1>1, <1>2
<1> QED BY <1>1, <1>5, <1>11, <1>12, <1>13, <1>14 DEF s

LEMMA SettingsRead ==
  ASSUME NEW q \in Seq(Jobs), NEW rd \in Seq(BuildJobs), NEW g, NEW o,
         NEW rec \in Versions, NEW top \in Nat, rec <= top, rd # <<>>,
         Queues(q, rd, g, o, rec, top), Head(rd).pc = "settings"
  PROVE  LET e == [Head(rd) EXCEPT !.settings = rec, !.pc = "wait"] IN
         /\ e \in BuildJobs /\ e.gen = rd[1].gen /\ e.pc = "wait" /\ IsBuild(e)
         /\ UpToDate(e, rec) <=> UpToDate(rd[1], rec)
         /\ Append(q, e) \in Seq(Jobs) /\ Tail(rd) \in Seq(BuildJobs)
         /\ Queues(Append(q, e), Tail(rd), g, o, rec, top)
         /\ Live(Append(q, e), Tail(rd), g) => Live(q, rd, g)
         /\ Leaving(q) <=> Leaving(Append(q, e))
<1> DEFINE e == [Head(rd) EXCEPT !.settings = rec, !.pc = "wait"]
           n == Append(q, e)
           t == Tail(rd)
<1>0. /\ t \in Seq(BuildJobs) /\ Len(t) = Len(rd) - 1 /\ Len(rd) >= 1
      /\ Head(rd) = rd[1] /\ Head(rd) \in BuildJobs /\ Len(rd) \in Nat
      /\ \A i \in 1 .. Len(rd) - 1 : t[i] = rd[i + 1]
  BY Popped
<1>1. /\ e \in BuildJobs /\ e.gen = rd[1].gen /\ e.pc = "wait"
      /\ e.creds = rd[1].creds /\ e.settings = rec /\ e.from = rd[1].from
  BY <1>0 DEF BuildJobs
<1> HIDE DEF e
<1>2. e \in Jobs /\ IsBuild(e) /\ IsBuild(rd[1]) /\ rd[1].pc = "settings"
  BY <1>0, <1>1, Kinds DEF Jobs
<1>3. /\ n \in Seq(Jobs) /\ Len(n) = Len(q) + 1 /\ n[Len(q) + 1] = e
      /\ Len(q) \in Nat
      /\ \A i \in 1 .. Len(q) : n[i] = q[i]
  BY <1>2, Appended
<1> HIDE DEF n, t
<1>4. UpToDate(e, rec) <=> UpToDate(rd[1], rec)
  BY <1>1, <1>2 DEF UpToDate
<1>5. 1 \in 1 .. Len(rd) /\ ReaderOK(rd[1], g, o, top)
  BY <1>0 DEF Queues, Readers
<1>6. WaiterOK(e, g, o, top)
  BY <1>1, <1>2, <1>5 DEF ReaderOK, WaiterOK
<1>7. ASSUME NEW i \in 1 .. Len(n) PROVE i \in 1 .. Len(q) \/ i = Len(q) + 1
  BY <1>3
<1>8. ASSUME NEW i \in 1 .. Len(t)
      PROVE  /\ i + 1 \in 1 .. Len(rd) /\ t[i] = rd[i + 1] /\ 1 < i + 1
             /\ \A k \in 1 .. Len(t) : i < k => i + 1 < k + 1
  BY SMTT(30), <1>0
<1>9. ASSUME NEW i \in 1 .. Len(n)
      PROVE  WaiterOK(n[i], g, o, top) /\ (i > 1 => n[i].pc = "wait")
  BY <1>1, <1>3, <1>6, <1>7 DEF Queues, Waiters
<1>10. ASSUME NEW i \in 1 .. Len(n), NEW k \in 1 .. Len(n), i < k
       PROVE  /\ InOrder(n[i], n[k], rec)
              /\ IsBuild(n[i]) /\ n[i].gen = g => IsBuild(n[k])
  <2>1. i \in 1 .. Len(q)
    BY <1>3, <1>7, <1>10
  <2>2. CASE k \in 1 .. Len(q)
    BY <1>3, <1>10, <2>1, <2>2 DEF Queues, Waiters
  <2>3. CASE k = Len(q) + 1
    <3>1. InOrder(q[i], rd[1], rec)
      BY <1>5, <2>1 DEF Queues
    <3> QED BY <1>1, <1>2, <1>3, <1>4, <2>1, <2>3, <3>1 DEF InOrder
  <2> QED BY <1>7, <2>2, <2>3
<1>11. ASSUME NEW i \in 1 .. Len(n), NEW k \in 1 .. Len(t)
       PROVE  InOrder(n[i], t[k], rec)
  <2>1. CASE i \in 1 .. Len(q)
    BY <1>3, <1>8, <2>1 DEF Queues
  <2>2. CASE i = Len(q) + 1
    <3>1. InOrder(rd[1], t[k], rec)
      BY <1>5, <1>8 DEF Queues, Readers
    <3> QED BY <1>1, <1>2, <1>3, <1>4, <2>2, <3>1 DEF InOrder
  <2> QED BY <1>7, <2>1, <2>2
<1>12. Waiters(n, g, o, rec, top)
  BY <1>9, <1>10 DEF Waiters
<1>13. Readers(t, g, o, rec, top)
  <2>1. ASSUME NEW i \in 1 .. Len(t) PROVE ReaderOK(t[i], g, o, top)
    BY <1>8 DEF Queues, Readers
  <2>2. ASSUME NEW i \in 1 .. Len(t), NEW k \in 1 .. Len(t), i < k
        PROVE  InOrder(t[i], t[k], rec) /\ (t[i].pc = "creds" => t[k].pc = "creds")
    BY <1>8, <2>2 DEF Queues, Readers
  <2> QED BY <2>1, <2>2 DEF Readers
<1>14. Queues(n, t, g, o, rec, top)
  BY <1>11, <1>12, <1>13 DEF Queues
<1>15. ASSUME Live(n, t, g) PROVE Live(q, rd, g)
  <2>1. CASE \E i \in 1 .. Len(t) : t[i].pc = "settings" /\ t[i].gen = g
    BY <1>8, <2>1 DEF Live
  <2>2. CASE \E i \in 1 .. Len(n) : IsBuild(n[i]) /\ n[i].gen = g
    <3>1. PICK i \in 1 .. Len(n) : IsBuild(n[i]) /\ n[i].gen = g
      BY <2>2
    <3>2. CASE i \in 1 .. Len(q)
      BY <1>3, <3>1, <3>2 DEF Live
    <3>3. CASE i = Len(q) + 1
      BY <1>1, <1>2, <1>3, <1>5, <3>1, <3>3 DEF Live
    <3> QED BY <1>7, <3>2, <3>3
  <2> QED BY <1>15, <2>1, <2>2 DEF Live
<1>16. Leaving(q) <=> Leaving(n)
  <2>1. 1 .. Len(q) \subseteq 1 .. Len(n)
    BY <1>3
  <2> QED BY <1>2, <1>3, <1>7, <2>1 DEF Leaving
<1> QED BY <1>0, <1>1, <1>2, <1>3, <1>4, <1>14, <1>15, <1>16 DEF n, t, e

LEMMA RecordChanges ==
  ASSUME NEW q \in Seq(Jobs), NEW rd \in Seq(BuildJobs), NEW g, NEW o, NEW rec,
         NEW top \in Nat, NEW rec2 \in Nat, NEW top2 \in Nat, top <= top2,
         rec2 = 0 \/ rec2 > top, Queues(q, rd, g, o, rec, top)
  PROVE  Queues(q, rd, g, o, rec2, top2)
<1>1. ASSUME NEW i \in 1 .. Len(rd)
      PROVE  /\ ReaderOK(rd[i], g, o, top2)
             /\ UpToDate(rd[i], rec2) => rd[i].pc = "creds"
  <2>1. /\ ReaderOK(rd[i], g, o, top)
        /\ rd[i].creds \in Nat /\ rd[i].settings \in Nat
    BY JobFields DEF Queues, Readers
  <2>2. rd[i].creds <= top2 /\ rd[i].settings <= top2
        /\ ~(rec2 # 0 /\ rd[i].creds = rec2)
    BY <2>1, SMTT(30) DEF ReaderOK
  <2> QED BY <2>1, <2>2 DEF ReaderOK, UpToDate
<1>2. ASSUME NEW i \in 1 .. Len(q)
      PROVE  /\ WaiterOK(q[i], g, o, top2)
             /\ IsBuild(q[i]) => ~UpToDate(q[i], rec2)
  <2>1. /\ WaiterOK(q[i], g, o, top)
        /\ IsBuild(q[i]) => q[i].creds \in Nat /\ q[i].settings \in Nat
    BY JobFields, Kinds DEF Queues, Waiters
  <2>2. IsBuild(q[i]) => /\ q[i].creds <= top2 /\ q[i].settings <= top2
                         /\ ~(rec2 # 0 /\ q[i].creds = rec2)
    BY <2>1, SMTT(30) DEF WaiterOK
  <2> QED BY <2>1, <2>2 DEF WaiterOK, UpToDate
<1>3. Readers(rd, g, o, rec2, top2)
  <2>1. ASSUME NEW i \in 1 .. Len(rd), NEW k \in 1 .. Len(rd), i < k
        PROVE  InOrder(rd[i], rd[k], rec2) /\ (rd[i].pc = "creds" => rd[k].pc = "creds")
    <3>1. InOrder(rd[i], rd[k], rec) /\ (rd[i].pc = "creds" => rd[k].pc = "creds")
      BY <2>1 DEF Queues, Readers
    <3> QED BY <1>1, <3>1 DEF InOrder, UpToDate
  <2> QED BY <1>1, <2>1 DEF Readers
<1>4. Waiters(q, g, o, rec2, top2)
  <2>1. ASSUME NEW i \in 1 .. Len(q), NEW k \in 1 .. Len(q), i < k
        PROVE  /\ InOrder(q[i], q[k], rec2)
               /\ IsBuild(q[i]) /\ q[i].gen = g => IsBuild(q[k])
    <3>1. /\ InOrder(q[i], q[k], rec)
          /\ IsBuild(q[i]) /\ q[i].gen = g => IsBuild(q[k])
      BY <2>1 DEF Queues, Waiters
    <3> QED BY <1>2, <3>1 DEF InOrder
  <2> QED BY <1>2, <2>1 DEF Queues, Waiters
<1>5. ASSUME NEW i \in 1 .. Len(q), NEW k \in 1 .. Len(rd)
      PROVE  InOrder(q[i], rd[k], rec2)
  <2>1. InOrder(q[i], rd[k], rec)
    BY DEF Queues
  <2> QED BY <1>2, <2>1 DEF InOrder
<1> QED BY <1>3, <1>4, <1>5 DEF Queues

---------------------------------------------------------------------------
(* The shape of the queues is kept by every step.                          *)

Ops == {"down", "list", "load", "sweep", "sweeping", "idle", "add", "tellAdded",
        "remove", "erase", "tellRemoved"}

\* Nothing changes on replica p.
SameAt(p) ==
    /\ lockq'[p] = lockq[p] /\ reading'[p] = reading[p] /\ gen'[p] = gen[p]
    /\ op'[p] = op[p] /\ inbox'[p] = inbox[p] /\ mapped'[p] = mapped[p]
    /\ client'[p] = client[p] /\ refresh'[p] = refresh[p] /\ seed'[p] = seed[p]

\* The caller on a replica stays where it is, or goes on when its job ends.
Onward(o, o2) ==
    /\ o2 # "down"
    /\ o = "tellRemoved" <=> o2 = "tellRemoved"
    /\ o \in {"add", "tellAdded"} => o2 \in {"add", "tellAdded"}
    /\ o \in {"remove", "erase"} => o2 \in {"remove", "erase"}
    /\ o = "list" => o2 = "list"

LEMMA ShapeStep ==
  ASSUME Shape, NEW r \in Replicas, TypeOK', Bounded', record' = record,
         Last' = Last, \A p \in Replicas \ {r} : SameAt(p), InShape(r)'
  PROVE  Shape'
<1>1. ASSUME NEW p \in Replicas, p # r PROVE InShape(p)'
  <2>1. InShape(p) /\ SameAt(p)
    BY <1>1 DEF Shape
  <2>2. Queues(lockq[p], reading[p], gen[p], op[p], record, Last)'
    BY <2>1 DEF InShape, SameAt
  <2>3. (op[p] = "down" => NothingLeft(p))'
    BY <2>1 DEF InShape, SameAt, NothingLeft, NoSeed
  <2>4. Swapping(p)'
    BY <2>1 DEF InShape, SameAt, Swapping, None
  <2> QED BY <2>2, <2>3, <2>4 DEF InShape
<1> QED BY <1>1 DEF Shape

LEMMA Spent ==
  ASSUME Bounded, NEW what \in {"adds", "removes", "starts", "crashes",
                                "failures", "tokens"}, Spend(what)
  PROVE  /\ budget' \in [{"adds", "removes", "starts", "crashes", "failures",
                          "tokens"} -> Nat]
         /\ budget'["adds"] <= MaxAdds
         /\ what # "adds" => Last' = Last
         /\ what = "adds" => Last' = Last + 1 /\ Last < MaxAdds + 1
  BY DEF Bounded, Spend, Last

LEMMA Resumed ==
  ASSUME NEW r \in Replicas, NEW f \in Callers, op \in [Replicas -> Ops],
         Awaited(f, op[r]), op[r] # "down", Resume(r, f)
  PROVE  /\ op' \in [Replicas -> Ops]
         /\ \A p \in Replicas \ {r} : op'[p] = op[p]
         /\ Onward(op[r], op'[r])
         /\ f = "message" => op'[r] = op[r]
<1>1. CASE f = "add"
  BY <1>1 DEF Resume, Ops, Awaited, Onward
<1>2. CASE f = "remove"
  BY <1>2 DEF Resume, Ops, Awaited, Onward
<1>3. CASE f = "load"
  BY <1>3 DEF Resume, Ops, Awaited, Onward
<1>4. CASE f = "message"
  BY <1>4 DEF Resume, Ops, Awaited, Onward
<1> QED BY <1>1, <1>2, <1>3, <1>4 DEF Callers

LEMMA Typed ==
  ASSUME Shape, NEW r \in Replicas
  PROVE  /\ lockq \in [Replicas -> Seq(Jobs)]
         /\ reading \in [Replicas -> Seq(BuildJobs)]
         /\ op \in [Replicas -> Ops] /\ gen \in [Replicas -> Nat]
         /\ record \in Versions /\ record \in Nat /\ Last \in Nat /\ record <= Last
         /\ Queues(lockq[r], reading[r], gen[r], op[r], record, Last)
         /\ lockq[r] # <<>> \/ reading[r] # <<>> => op[r] # "down"
<1>1. Last \in Nat /\ record \in Nat
  <2>1. MaxAdds \in Nat /\ budget["adds"] \in Nat /\ budget["adds"] <= MaxAdds
    BY DEF Shape, Bounded
  <2>2. record \in Nat
    BY <2>1 DEF Shape, TypeOK, Versions
  <2> QED BY <2>1, <2>2 DEF Last
<1> QED BY <1>1 DEF Shape, TypeOK, Jobs, Ops, Bounded, InShape, NothingLeft

LEMMA Released ==
  ASSUME Shape, NEW r \in Replicas, lockq[r] # <<>>, Release(r)
  PROVE  /\ lockq' \in [Replicas -> Seq(Jobs)] /\ op' \in [Replicas -> Ops]
         /\ lockq'[r] = Tail(lockq[r])
         /\ \A p \in Replicas \ {r} : lockq'[p] = lockq[p] /\ op'[p] = op[p]
         /\ Onward(op[r], op'[r])
         /\ Queues(lockq'[r], reading[r], gen[r], op'[r], record, Last)
         /\ lockq'[r] # <<>> => lockq'[r][1].pc = "wait"
         /\ Live(lockq'[r], reading[r], gen[r])
            => Live(lockq[r], reading[r], gen[r])
         /\ Leaving(lockq[r]) /\ (IsBuild(lockq[r][1]) \/ lockq[r][1].pc # "wait")
            => Leaving(lockq'[r])
<1>1. /\ lockq[r] \in Seq(Jobs) /\ reading[r] \in Seq(BuildJobs)
      /\ op \in [Replicas -> Ops] /\ lockq \in [Replicas -> Seq(Jobs)]
      /\ Queues(lockq[r], reading[r], gen[r], op[r], record, Last)
      /\ op[r] # "down"
  BY Typed
<1>2. /\ Head(lockq[r]) = lockq[r][1] /\ lockq[r][1] \in Jobs
      /\ 1 \in 1 .. Len(lockq[r])
  BY <1>1, Popped
<1>3. Awaited(Head(lockq[r]).from, op[r]) /\ Head(lockq[r]).from \in Callers
  BY <1>1, <1>2, JobFields DEF Queues, Waiters, WaiterOK
<1>4. /\ op' \in [Replicas -> Ops]
      /\ \A p \in Replicas \ {r} : op'[p] = op[p]
      /\ Onward(op[r], op'[r])
      /\ Head(lockq[r]).from = "message" => op'[r] = op[r]
  BY <1>1, <1>3, Resumed DEF Release
<1>5. /\ Tail(lockq[r]) \in Seq(Jobs)
      /\ Queues(Tail(lockq[r]), reading[r], gen[r], op[r], record, Last)
      /\ Head(lockq[r]).from # "message" => AllMessages(Tail(lockq[r]), reading[r])
      /\ Live(Tail(lockq[r]), reading[r], gen[r])
         => Live(lockq[r], reading[r], gen[r])
      /\ Leaving(lockq[r]) /\ (IsBuild(lockq[r][1]) \/ lockq[r][1].pc # "wait")
         => Leaving(Tail(lockq[r]))
      /\ Tail(lockq[r]) # <<>> => Tail(lockq[r])[1].pc = "wait"
  BY <1>1, HolderDone
<1>6. Queues(Tail(lockq[r]), reading[r], gen[r], op'[r], record, Last)
  BY <1>1, <1>4, <1>5, CallerMoves
<1>7. /\ lockq' \in [Replicas -> Seq(Jobs)] /\ lockq'[r] = Tail(lockq[r])
      /\ \A p \in Replicas \ {r} : lockq'[p] = lockq[p]
  BY <1>1, <1>5 DEF Release
<1> QED BY <1>4, <1>5, <1>6, <1>7

\* What does not change of a job while it holds the lock.
SameJob(e, j) ==
    /\ IsBuild(e) <=> IsBuild(j)
    /\ e.from = j.from
    /\ IsBuild(e) => /\ e.gen = j.gen /\ e.creds = j.creds
                     /\ e.settings = j.settings
                     /\ e.pc \notin {"creds", "settings"}

LEMMA Moved ==
  ASSUME Shape, NEW r \in Replicas, lockq[r] # <<>>, NEW e \in Jobs,
         SameJob(e, lockq[r][1]), Step(r, e)
  PROVE  /\ lockq' \in [Replicas -> Seq(Jobs)]
         /\ lockq'[r] # <<>> /\ lockq'[r][1] = e /\ Len(lockq'[r]) = Len(lockq[r])
         /\ \A i \in 2 .. Len(lockq[r]) : lockq'[r][i] = lockq[r][i]
         /\ \A p \in Replicas \ {r} : lockq'[p] = lockq[p]
         /\ Queues(lockq'[r], reading[r], gen[r], op[r], record, Last)
         /\ Live(lockq'[r], reading[r], gen[r])
            => Live(lockq[r], reading[r], gen[r])
         /\ Leaving(lockq[r]) /\ (IsBuild(lockq[r][1]) \/ lockq[r][1].pc # "wait")
            => Leaving(lockq'[r])
         /\ IsBuild(e) => (UpToDate(e, record) <=> UpToDate(lockq[r][1], record))
         /\ op[r] # "down"
<1>1. /\ lockq[r] \in Seq(Jobs) /\ reading[r] \in Seq(BuildJobs)
      /\ lockq \in [Replicas -> Seq(Jobs)] /\ op[r] # "down"
      /\ Queues(lockq[r], reading[r], gen[r], op[r], record, Last)
  BY Typed
<1> DEFINE s == <<e>> \o Tail(lockq[r])
<1>2. /\ s \in Seq(Jobs) /\ s # <<>> /\ s[1] = e /\ Len(s) = Len(lockq[r])
      /\ \A i \in 2 .. Len(lockq[r]) : s[i] = lockq[r][i]
      /\ Queues(s, reading[r], gen[r], op[r], record, Last)
      /\ Live(s, reading[r], gen[r]) => Live(lockq[r], reading[r], gen[r])
      /\ Leaving(lockq[r]) /\ (IsBuild(lockq[r][1]) \/ lockq[r][1].pc # "wait")
         => Leaving(s)
      /\ IsBuild(e) => (UpToDate(e, record) <=> UpToDate(lockq[r][1], record))
  BY <1>1, HolderSteps DEF SameJob
<1>3. lockq' = [lockq EXCEPT ![r] = s]
  BY <1>1 DEF Step
<1> HIDE DEF s
<1>4. /\ lockq' \in [Replicas -> Seq(Jobs)] /\ lockq'[r] = s
      /\ \A p \in Replicas \ {r} : lockq'[p] = lockq[p]
  BY <1>1, <1>2, <1>3
<1> QED BY <1>1, <1>2, <1>4

LEMMA HolderKind ==
  ASSUME Shape, NEW r \in Replicas, lockq[r] # <<>>
  PROVE  /\ Head(lockq[r]) = lockq[r][1] /\ lockq[r][1] \in Jobs
         /\ 1 \in 1 .. Len(lockq[r])
         /\ IsBuild(lockq[r][1]) <=> Builds(r)
         /\ IsBuild(lockq[r][1]) <=> lockq[r][1] \in BuildJobs
         /\ ~IsBuild(lockq[r][1]) <=> lockq[r][1] \in RemoveJobs
         /\ lockq[r][1].pc \in {"name", "check", "swap"} => IsBuild(lockq[r][1])
         /\ lockq[r][1].pc \in {"list", "grants", "delete", "unlist"}
            => ~IsBuild(lockq[r][1])
<1>1. lockq[r] \in Seq(Jobs)
  BY Typed
<1>2. Head(lockq[r]) = lockq[r][1] /\ lockq[r][1] \in Jobs /\ Len(lockq[r]) \in Nat
      /\ Len(lockq[r]) >= 1
  BY <1>1, Popped
<1>3. /\ IsBuild(lockq[r][1]) <=> lockq[r][1] \in BuildJobs
      /\ ~IsBuild(lockq[r][1]) <=> lockq[r][1] \in RemoveJobs
  BY <1>2, Kinds
<1>4. lockq[r][1].pc \in {"name", "check", "swap"} => lockq[r][1] \notin RemoveJobs
  BY DEF RemoveJobs
<1>5. lockq[r][1].pc \in {"list", "grants", "delete", "unlist"}
      => lockq[r][1] \notin BuildJobs
  BY DEF BuildJobs
<1>6. IsBuild(lockq[r][1]) <=> Builds(r)
  BY <1>2 DEF IsBuild, Builds
<1> QED BY <1>2, <1>3, <1>4, <1>5, <1>6

\* The holder of the lock on r steps, or is done.
Handled(r) ==
    /\ lockq' \in [Replicas -> Seq(Jobs)] /\ op' \in [Replicas -> Ops]
    /\ \A p \in Replicas \ {r} : lockq'[p] = lockq[p] /\ op'[p] = op[p]
    /\ Onward(op[r], op'[r])
    /\ Queues(lockq'[r], reading[r], gen[r], op'[r], record, Last)
    /\ Live(lockq'[r], reading[r], gen[r]) => Live(lockq[r], reading[r], gen[r])
    /\ Leaving(lockq[r]) /\ (IsBuild(lockq[r][1]) \/ lockq[r][1].pc # "wait")
       => Leaving(lockq'[r])

LEMMA Handling ==
  ASSUME Shape, NEW r \in Replicas, lockq[r] # <<>>, NEW e \in Jobs,
         SameJob(e, lockq[r][1]), Release(r) \/ (Step(r, e) /\ UNCHANGED op)
  PROVE  /\ Handled(r)
         /\ Release(r) /\ lockq'[r] # <<>> => lockq'[r][1].pc = "wait"
         /\ ~Release(r) => lockq'[r] # <<>> /\ lockq'[r][1] = e
<1>1. CASE Release(r)
  BY <1>1, Released DEF Handled
<1>2. CASE Step(r, e) /\ UNCHANGED op /\ ~Release(r)
  <2>1. op \in [Replicas -> Ops]
    BY Typed
  <2> QED BY <1>2, <2>1, Moved DEF Handled, Onward
<1> QED BY <1>1, <1>2

LEMMA ShapeHandled ==
  ASSUME Shape, NEW r \in Replicas, Handled(r),
         UNCHANGED <<record, inbox, gen, reading>>,
         {names, token, granted, index}' \subseteq BOOLEAN, (excused \subseteq Gaps)',
         mapped' \in [Replicas -> BOOLEAN], client' \in [Replicas -> Versions \X Versions],
         refresh' \in [Replicas -> {"none", "live", "retired"}],
         seed' \in [Replicas -> [pc : {"none", "track", "confirm"},
                                 retired : BOOLEAN]],
         \A p \in Replicas \ {r} : /\ mapped'[p] = mapped[p] /\ client'[p] = client[p]
                                   /\ refresh'[p] = refresh[p] /\ seed'[p] = seed[p],
         client'[r][1] <= Last /\ client'[r][2] <= Last,
         budget' \in [{"adds", "removes", "starts", "crashes", "failures",
                       "tokens"} -> Nat],
         budget'["adds"] = budget["adds"], Swapping(r)'
  PROVE  Shape'
<1>1. TypeOK'
  BY DEF Handled, Shape, TypeOK, Jobs, Ops
<1>2. Last' = Last
  BY DEF Last
<1>3. Bounded'
  BY <1>2 DEF Shape, Bounded
<1>4. \A p \in Replicas \ {r} : SameAt(p)
  BY DEF SameAt, Handled
<1>5. Queues(lockq[r], reading[r], gen[r], op[r], record, Last)'
  BY <1>2 DEF Handled
<1>6. InShape(r)'
  BY <1>5 DEF InShape, Handled, Onward
<1> QED BY <1>1, <1>2, <1>3, <1>4, <1>6, ShapeStep

LEMMA BuildMoves ==
  ASSUME NEW j \in BuildJobs, NEW pc \in {"wait", "name", "check", "swap"}
  PROVE  LET e == [j EXCEPT !.pc = pc] IN
         e \in BuildJobs /\ e \in Jobs /\ SameJob(e, j) /\ e.pc = pc
<1> DEFINE e == [j EXCEPT !.pc = pc]
<1>1. /\ e \in BuildJobs /\ e.from = j.from /\ e.gen = j.gen
      /\ e.creds = j.creds /\ e.settings = j.settings /\ e.pc = pc
  BY DEF BuildJobs
<1> HIDE DEF e
<1>2. e \in Jobs /\ SameJob(e, j)
  BY <1>1, Kinds DEF SameJob, Jobs
<1> QED BY <1>1, <1>2 DEF e

LEMMA RemovalMoves ==
  ASSUME NEW j \in RemoveJobs, NEW e \in RemoveJobs, e.from = j.from
  PROVE  e \in Jobs /\ SameJob(e, j)
  BY Kinds DEF SameJob, Jobs

LEMMA ShapeBuildBegins ==
  ASSUME Shape, NEW r \in Replicas, BuildBegins(r)
  PROVE  Shape' /\ Handled(r)
<1>1. /\ lockq[r] # <<>> /\ lockq[r][1].pc = "wait" /\ lockq[r][1] \in BuildJobs
      /\ IsBuild(lockq[r][1]) /\ Head(lockq[r]) = lockq[r][1]
  BY HolderKind DEF BuildBegins, Holder
<1> DEFINE e == [lockq[r][1] EXCEPT !.pc = "name"]
<1>2. e \in Jobs /\ SameJob(e, lockq[r][1]) /\ e.pc = "name"
  BY <1>1, BuildMoves
<1>3. \/ Release(r) /\ UNCHANGED mapped
      \/ Step(r, e) /\ UNCHANGED op /\ mapped' = [mapped EXCEPT ![r] = TRUE]
  BY <1>1 DEF BuildBegins
<1> HIDE DEF e
<1>4. Handled(r) /\ (lockq'[r] # <<>> => lockq'[r][1].pc # "swap")
  BY <1>1, <1>2, <1>3, Handling
<1>5. Swapping(r)'
  BY <1>4 DEF Swapping
<1>6. UNCHANGED <<backend, inbox, gen, reading, client, writers, budget, excused>>
  BY DEF BuildBegins
<1> QED BY <1>3, <1>4, <1>5, <1>6, ShapeHandled
        DEF Shape, TypeOK, Bounded, backend, writers

LEMMA FailureCounted ==
  ASSUME Shape, Fails
  PROVE  /\ budget' \in [{"adds", "removes", "starts", "crashes", "failures",
                          "tokens"} -> Nat]
         /\ budget'["adds"] = budget["adds"]
         /\ excused' = excused \cup {"failed"} /\ (excused \subseteq Gaps)'
<1>1. "failed" \in Gaps /\ excused \subseteq Gaps
  BY DEF Gaps, Shape, TypeOK
<1>2. /\ budget' \in [{"adds", "removes", "starts", "crashes", "failures",
                       "tokens"} -> Nat]
      /\ budget'["adds"] = budget["adds"]
  BY DEF Fails, Spend, Shape, Bounded
<1> QED BY <1>1, <1>2 DEF Fails

LEMMA ShapeRecordNames ==
  ASSUME Shape, NEW r \in Replicas, RecordNames(r)
  PROVE  Shape' /\ Handled(r)
<1>1. /\ lockq[r] # <<>> /\ lockq[r][1].pc = "name" /\ lockq[r][1] \in BuildJobs
      /\ IsBuild(lockq[r][1]) /\ Head(lockq[r]) = lockq[r][1]
  BY HolderKind DEF RecordNames, Holder
<1> DEFINE e == [lockq[r][1] EXCEPT !.pc = "check"]
<1>2. e \in Jobs /\ SameJob(e, lockq[r][1]) /\ e.pc = "check"
  BY <1>1, BuildMoves
<1>3. Step(r, e) /\ UNCHANGED op
  BY <1>1 DEF RecordNames
<1> HIDE DEF e
<1>4. Handled(r) /\ (lockq'[r] # <<>> => lockq'[r][1].pc # "swap")
  BY <1>1, <1>2, <1>3, Handling
<1>5. Swapping(r)'
  BY <1>4 DEF Swapping
<1>6. /\ UNCHANGED <<record, token, granted, index, inbox, gen, reading, mapped, client,
                     writers>>
      /\ names' \in BOOLEAN
  BY DEF RecordNames
<1>7. /\ budget' \in [{"adds", "removes", "starts", "crashes", "failures",
                       "tokens"} -> Nat]
      /\ budget'["adds"] = budget["adds"]
      /\ (excused \subseteq Gaps)'
  <2>1. CASE UNCHANGED <<budget, excused>>
    BY <2>1 DEF Shape, TypeOK, Bounded
  <2>2. CASE Fails
    BY <2>2, FailureCounted
  <2> QED BY <2>1, <2>2 DEF RecordNames
<1> QED BY <1>4, <1>5, <1>6, <1>7, ShapeHandled
        DEF Shape, TypeOK, Bounded, writers

LEMMA ShapeCheckAndReset ==
  ASSUME Shape, NEW r \in Replicas, CheckAndReset(r)
  PROVE  Shape' /\ Handled(r)
<1>1. /\ lockq[r] # <<>> /\ lockq[r][1].pc = "check" /\ lockq[r][1] \in BuildJobs
      /\ IsBuild(lockq[r][1]) /\ Head(lockq[r]) = lockq[r][1]
  BY HolderKind DEF CheckAndReset, Holder
<1> DEFINE e == [lockq[r][1] EXCEPT !.pc = "swap"]
<1>2. e \in Jobs /\ SameJob(e, lockq[r][1]) /\ e.pc = "swap" /\ IsBuild(e)
  BY <1>1, BuildMoves DEF SameJob
<1>3. \/ Release(r) /\ UNCHANGED client
      \/ /\ Step(r, e) /\ UNCHANGED op /\ client' = [client EXCEPT ![r] = None]
         /\ lockq[r][1].gen = gen[r]
  BY <1>1 DEF CheckAndReset, Superseded
<1> HIDE DEF e
<1>4. /\ Handled(r)
      /\ Release(r) /\ lockq'[r] # <<>> => lockq'[r][1].pc # "swap"
      /\ ~Release(r) => lockq'[r][1] = e
  BY <1>1, <1>2, <1>3, Handling
<1>6. UNCHANGED <<backend, inbox, gen, reading, mapped, writers, budget, excused>>
  BY DEF CheckAndReset
<1>5. Swapping(r)'
  <2>1. CASE Release(r)
    BY <1>4, <2>1 DEF Swapping
  <2>2. CASE ~Release(r)
    <3>1. client'[r] = None /\ lockq'[r][1].gen = gen'[r]
      BY <1>2, <1>3, <1>4, <1>6, <2>2 DEF SameJob, Shape, TypeOK
    <3> QED BY <3>1 DEF Swapping
  <2> QED BY <2>1, <2>2
<1>7. None \in Versions \X Versions /\ None[1] = 0 /\ None[2] = 0 /\ 0 <= Last
  BY Typed DEF None, Versions
<1>8. /\ client' \in [Replicas -> Versions \X Versions]
      /\ \A p \in Replicas \ {r} : client'[p] = client[p]
      /\ client'[r][1] <= Last /\ client'[r][2] <= Last
  <2>1. /\ client \in [Replicas -> Versions \X Versions]
        /\ client[r][1] <= Last /\ client[r][2] <= Last
    BY DEF Shape, TypeOK, Bounded
  <2>2. CASE UNCHANGED client
    BY <2>1, <2>2
  <2>3. CASE client' = [client EXCEPT ![r] = None]
    BY <1>7, <2>1, <2>3
  <2> QED BY <1>3, <2>2, <2>3
<1> QED BY <1>4, <1>5, <1>6, <1>8, ShapeHandled
        DEF Shape, TypeOK, Bounded, backend, writers

LEMMA ShapeRegister ==
  ASSUME Shape, NEW r \in Replicas, Register(r)
  PROVE  Shape' /\ Handled(r)
<1>1. /\ lockq[r] # <<>> /\ lockq[r][1].pc = "swap" /\ lockq[r][1] \in BuildJobs
      /\ IsBuild(lockq[r][1]) /\ Head(lockq[r]) = lockq[r][1] /\ Release(r)
      /\ lockq[r][1] \in Jobs /\ 1 \in 1 .. Len(lockq[r])
  BY HolderKind DEF Register, Holder
<1>2. SameJob(lockq[r][1], lockq[r][1])
  BY <1>1, Typed DEF SameJob
<1>4. Handled(r) /\ (lockq'[r] # <<>> => lockq'[r][1].pc # "swap")
  BY <1>1, <1>2, Handling
<1>5. Swapping(r)'
  BY <1>4 DEF Swapping
<1>6. UNCHANGED <<backend, inbox, gen, reading, mapped, writers, budget, excused>>
  BY DEF Register
<1>7. /\ Built(r) \in Versions \X Versions
      /\ Built(r)[1] <= Last /\ Built(r)[2] <= Last
  <2>1. WaiterOK(lockq[r][1], gen[r], op[r], Last)
    BY <1>1, Typed DEF Queues, Waiters
  <2> QED BY <1>1, <2>1, JobFields DEF WaiterOK, Built
<1>8. /\ client' \in [Replicas -> Versions \X Versions]
      /\ \A p \in Replicas \ {r} : client'[p] = client[p]
      /\ client'[r] = Built(r)
  BY <1>7 DEF Shape, TypeOK, Register
<1> QED BY <1>4, <1>5, <1>6, <1>7, <1>8, ShapeHandled
        DEF Shape, TypeOK, Bounded, backend, writers

LEMMA ShapeDestroyBegins ==
  ASSUME Shape, NEW r \in Replicas, DestroyBegins(r)
  PROVE  Shape' /\ Handled(r) /\ client'[r] = None
<1>1. /\ lockq[r] # <<>> /\ lockq[r][1].pc = "wait" /\ lockq[r][1] \in RemoveJobs
      /\ ~IsBuild(lockq[r][1]) /\ Head(lockq[r]) = lockq[r][1]
  BY HolderKind DEF DestroyBegins, Holder
<1> DEFINE e == [lockq[r][1] EXCEPT !.pc = "list", !.held = client[r] # None]
<1>2. e \in RemoveJobs /\ e.from = lockq[r][1].from /\ e.pc = "list"
  BY <1>1 DEF RemoveJobs
<1>3. Step(r, e) /\ UNCHANGED op
  BY <1>1 DEF DestroyBegins
<1> HIDE DEF e
<1>4. Handled(r) /\ (lockq'[r] # <<>> => lockq'[r][1].pc # "swap")
  BY <1>1, <1>2, <1>3, Handling, RemovalMoves
<1>5. Swapping(r)'
  BY <1>4 DEF Swapping
<1>6. UNCHANGED <<backend, inbox, gen, reading, mapped, budget, excused>>
  BY DEF DestroyBegins
<1>7. None \in Versions \X Versions /\ None[1] = 0 /\ None[2] = 0 /\ 0 <= Last
  BY Typed DEF None, Versions
<1>8. /\ client' \in [Replicas -> Versions \X Versions] /\ client'[r] = None
      /\ \A p \in Replicas \ {r} : client'[p] = client[p]
      /\ client'[r][1] <= Last /\ client'[r][2] <= Last
  <2>1. client \in [Replicas -> Versions \X Versions]
    BY DEF Shape, TypeOK
  <2>2. client' = [client EXCEPT ![r] = None]
    BY <2>1 DEF DestroyBegins, Destroyed
  <2> QED BY <1>7, <2>1, <2>2
<1>9. /\ refresh' \in [Replicas -> {"none", "live", "retired"}]
      /\ \A p \in Replicas \ {r} : refresh'[p] = refresh[p]
  <2>1. CASE Destroyed(r)
    BY <2>1 DEF Shape, TypeOK, Destroyed
  <2>2. CASE UNCHANGED <<client, writers>>
    BY <2>2 DEF Shape, TypeOK, writers
  <2> QED BY <2>1, <2>2 DEF DestroyBegins
<1>10. /\ seed' \in [Replicas -> [pc : {"none", "track", "confirm"},
                                  retired : BOOLEAN]]
       /\ \A p \in Replicas \ {r} : seed'[p] = seed[p]
  <2>1. CASE Destroyed(r)
    <3>1. /\ seed \in [Replicas -> [pc : {"none", "track", "confirm"},
                                     retired : BOOLEAN]]
          /\ seed' = [seed EXCEPT ![r].retired = seed[r].pc # "none"]
      BY <2>1 DEF Shape, TypeOK, Destroyed
    <3>2. [seed[r] EXCEPT !.retired = seed[r].pc # "none"]
          \in [pc : {"none", "track", "confirm"}, retired : BOOLEAN]
      BY <3>1
    <3> QED BY <3>1, <3>2
  <2>2. CASE UNCHANGED <<client, writers>>
    BY <2>2 DEF Shape, TypeOK, writers
  <2> QED BY <2>1, <2>2 DEF DestroyBegins
<1> QED BY <1>4, <1>5, <1>6, <1>8, <1>9, <1>10, ShapeHandled
        DEF Shape, TypeOK, Bounded, backend

LEMMA ShapeDecidePurge ==
  ASSUME Shape, NEW r \in Replicas, DecidePurge(r)
  PROVE  /\ Shape' /\ Handled(r) /\ lockq[r][1].pc # "wait" /\ excused \subseteq excused'
         /\ mapped'[r] => mapped[r]
<1>1. /\ lockq[r] # <<>> /\ lockq[r][1].pc = "list" /\ lockq[r][1] \in RemoveJobs
      /\ ~IsBuild(lockq[r][1]) /\ Head(lockq[r]) = lockq[r][1]
  BY HolderKind DEF DecidePurge, Holder
<1> DEFINE e == [lockq[r][1] EXCEPT !.pc = "grants"]
<1>2. e \in RemoveJobs /\ e.from = lockq[r][1].from /\ e.pc = "grants"
  BY <1>1 DEF RemoveJobs
<1>3. \/ Release(r) /\ mapped' = [mapped EXCEPT ![r] = FALSE]
      \/ Step(r, e) /\ UNCHANGED <<op, mapped>>
  BY <1>1 DEF DecidePurge, DestroyEnds
<1> HIDE DEF e
<1>4. Handled(r) /\ (lockq'[r] # <<>> => lockq'[r][1].pc # "swap")
  BY <1>1, <1>2, <1>3, Handling, RemovalMoves
<1>5. Swapping(r)'
  BY <1>4 DEF Swapping
<1>6. UNCHANGED <<backend, inbox, gen, reading, client, writers>>
  BY DEF DecidePurge
<1>7. /\ budget' \in [{"adds", "removes", "starts", "crashes", "failures",
                       "tokens"} -> Nat]
      /\ budget'["adds"] = budget["adds"]
      /\ (excused \subseteq Gaps)' /\ excused \subseteq excused'
  <2>1. CASE UNCHANGED budget /\ excused' \in {excused, excused \cup {"kept"}, excused \cup {}}
    BY <2>1 DEF Shape, TypeOK, Bounded, Gaps
  <2>2. CASE Fails
    BY <2>2, FailureCounted
  <2> QED BY <2>1, <2>2 DEF DecidePurge
<1>8. /\ mapped' \in [Replicas -> BOOLEAN] /\ (mapped'[r] => mapped[r])
      /\ \A p \in Replicas \ {r} : mapped'[p] = mapped[p]
  BY <1>3 DEF Shape, TypeOK
<1>9. Shape'
  BY <1>4, <1>5, <1>6, <1>7, <1>8, ShapeHandled
     DEF Shape, TypeOK, Bounded, backend, writers
<1> QED BY <1>1, <1>4, <1>7, <1>8, <1>9

LEMMA ShapeReadGrants ==
  ASSUME Shape, NEW r \in Replicas, ReadGrants(r)
  PROVE  /\ Shape' /\ Handled(r) /\ lockq[r][1].pc # "wait"
         /\ mapped'[r] => mapped[r]
<1>1. /\ lockq[r] # <<>> /\ lockq[r][1].pc = "grants" /\ lockq[r][1] \in RemoveJobs
      /\ ~IsBuild(lockq[r][1]) /\ Head(lockq[r]) = lockq[r][1]
  BY HolderKind DEF ReadGrants, Holder
<1> DEFINE e == [lockq[r][1] EXCEPT !.pc = "delete", !.grant = index]
<1>2. e \in RemoveJobs /\ e.from = lockq[r][1].from /\ e.pc = "delete"
  BY <1>1 DEF RemoveJobs, Shape, TypeOK
<1>3. \/ Release(r) /\ mapped' = [mapped EXCEPT ![r] = FALSE]
      \/ Step(r, e) /\ UNCHANGED <<op, mapped>>
  BY <1>1 DEF ReadGrants, DestroyEnds
<1> HIDE DEF e
<1>4. Handled(r) /\ (lockq'[r] # <<>> => lockq'[r][1].pc # "swap")
  BY <1>1, <1>2, <1>3, Handling, RemovalMoves
<1>5. Swapping(r)'
  BY <1>4 DEF Swapping
<1>6. UNCHANGED <<backend, inbox, gen, reading, client, writers, budget, excused>>
  BY DEF ReadGrants
<1>7. /\ mapped' \in [Replicas -> BOOLEAN] /\ (mapped'[r] => mapped[r])
      /\ \A p \in Replicas \ {r} : mapped'[p] = mapped[p]
  BY <1>3 DEF Shape, TypeOK
<1>8. Shape'
  BY <1>4, <1>5, <1>6, <1>7, ShapeHandled
     DEF Shape, TypeOK, Bounded, backend, writers
<1> QED BY <1>1, <1>4, <1>7, <1>8

LEMMA ShapeDeleteTokens ==
  ASSUME Shape, NEW r \in Replicas, DeleteTokens(r)
  PROVE  Shape' /\ Handled(r) /\ lockq[r][1].pc # "wait"
<1>1. /\ lockq[r] # <<>> /\ lockq[r][1].pc = "delete" /\ lockq[r][1] \in RemoveJobs
      /\ ~IsBuild(lockq[r][1]) /\ Head(lockq[r]) = lockq[r][1]
  BY HolderKind DEF DeleteTokens, Holder
<1> DEFINE e == [lockq[r][1] EXCEPT !.pc = "unlist"]
<1>2. e \in RemoveJobs /\ e.from = lockq[r][1].from /\ e.pc = "unlist"
  BY <1>1 DEF RemoveJobs
<1>3. Step(r, e) /\ UNCHANGED op
  BY <1>1 DEF DeleteTokens
<1> HIDE DEF e
<1>4. Handled(r) /\ (lockq'[r] # <<>> => lockq'[r][1].pc # "swap")
  BY <1>1, <1>2, <1>3, Handling, RemovalMoves
<1>5. Swapping(r)'
  BY <1>4 DEF Swapping
<1>6. UNCHANGED <<record, names, index, inbox, gen, reading, mapped, client, writers,
                  budget, excused>>
  BY DEF DeleteTokens
<1>7. token' \in BOOLEAN /\ granted' \in BOOLEAN
  BY DEF DeleteTokens
<1>8. Shape'
  BY <1>4, <1>5, <1>6, <1>7, ShapeHandled DEF Shape, TypeOK, Bounded, writers
<1> QED BY <1>1, <1>4, <1>8

LEMMA ShapeDeleteGrantList ==
  ASSUME Shape, NEW r \in Replicas, DeleteGrantList(r)
  PROVE  /\ Shape' /\ Handled(r) /\ lockq[r][1].pc # "wait" /\ excused \subseteq excused'
         /\ mapped'[r] => mapped[r]
<1>1. /\ lockq[r] # <<>> /\ lockq[r][1].pc = "unlist" /\ lockq[r][1] \in RemoveJobs
      /\ ~IsBuild(lockq[r][1]) /\ lockq[r][1] \in Jobs /\ Release(r)
  BY HolderKind DEF DeleteGrantList, Holder, DestroyEnds
<1>2. Handled(r) /\ (lockq'[r] # <<>> => lockq'[r][1].pc # "swap")
  BY <1>1, Handling, RemovalMoves
<1>3. Swapping(r)'
  BY <1>2 DEF Swapping
<1>4. UNCHANGED <<record, names, token, granted, inbox, gen, reading, client, writers,
                  budget>>
  BY DEF DeleteGrantList
<1>5. /\ mapped' \in [Replicas -> BOOLEAN] /\ (mapped'[r] => mapped[r])
      /\ \A p \in Replicas \ {r} : mapped'[p] = mapped[p]
  BY DEF Shape, TypeOK, DeleteGrantList, DestroyEnds
<1>6. index' \in BOOLEAN
  BY DEF DeleteGrantList
<1>7. excused \subseteq excused' /\ (excused \subseteq Gaps)'
  BY DEF DeleteGrantList, Shape, TypeOK, Gaps
<1>8. Shape'
  BY <1>2, <1>3, <1>4, <1>5, <1>6, <1>7, ShapeHandled
     DEF Shape, TypeOK, Bounded, writers
<1> QED BY <1>1, <1>2, <1>5, <1>7, <1>8

LEMMA ShapeQueued ==
  ASSUME Shape, NEW r \in Replicas,
         UNCHANGED <<record, names, token, granted, index, mapped, client, writers>>,
         inbox' \in [Replicas -> Seq({"added", "removed"})],
         op' \in [Replicas -> Ops], gen' \in [Replicas -> Nat],
         reading' \in [Replicas -> Seq(BuildJobs)],
         lockq' \in [Replicas -> Seq(Jobs)], (excused \subseteq Gaps)',
         \A p \in Replicas \ {r} :
            /\ inbox'[p] = inbox[p] /\ op'[p] = op[p] /\ gen'[p] = gen[p]
            /\ reading'[p] = reading[p] /\ lockq'[p] = lockq[p],
         budget' \in [{"adds", "removes", "starts", "crashes", "failures",
                       "tokens"} -> Nat],
         budget'["adds"] = budget["adds"], op'[r] # "down",
         Queues(lockq'[r], reading'[r], gen'[r], op'[r], record, Last),
         Swapping(r)'
  PROVE  Shape'
<1>1. TypeOK'
  BY DEF Shape, TypeOK, Jobs, Ops, writers
<1>2. Last' = Last
  BY DEF Last
<1>3. Bounded'
  BY <1>2 DEF Shape, Bounded
<1>4. \A p \in Replicas \ {r} : SameAt(p)
  BY DEF SameAt, writers
<1>5. Queues(lockq[r], reading[r], gen[r], op[r], record, Last)'
  BY <1>2
<1>6. InShape(r)'
  BY <1>5 DEF InShape
<1> QED BY <1>1, <1>2, <1>3, <1>4, <1>6, ShapeStep

\* A build begins to read on r; its caller is then at o2.
LEMMA ReadingBegins ==
  ASSUME Shape, NEW r \in Replicas, NEW from \in {"add", "message", "load"},
         NEW o2 \in Ops, Reading(r, from), Awaited(from, o2),
         (from = "message" /\ o2 = op[r]) \/ Free(op[r])
  PROVE  /\ reading' \in [Replicas -> Seq(BuildJobs)]
         /\ \A p \in Replicas \ {r} : reading'[p] = reading[p]
         /\ Len(reading'[r]) = Len(reading[r]) + 1
         /\ \A i \in 1 .. Len(reading[r]) : reading'[r][i] = reading[r][i]
         /\ reading'[r][Len(reading[r]) + 1].pc = "creds"
         /\ reading'[r][Len(reading[r]) + 1].gen = gen[r]
         /\ Queues(lockq[r], reading'[r], gen[r], o2, record, Last)
<1> DEFINE j == [from |-> from, gen |-> gen[r], creds |-> 0, settings |-> 0,
                 pc |-> "creds"]
<1>1. /\ lockq[r] \in Seq(Jobs) /\ reading \in [Replicas -> Seq(BuildJobs)]
      /\ reading[r] \in Seq(BuildJobs)
      /\ gen[r] \in Nat /\ Last \in Nat
      /\ Queues(lockq[r], reading[r], gen[r], op[r], record, Last)
  BY Typed
<1>2. /\ j \in BuildJobs /\ j.from = from /\ j.gen = gen[r] /\ j.creds = 0
      /\ j.settings = 0 /\ j.pc = "creds"
  BY <1>1 DEF BuildJobs, Versions
<1>3. reading' = [reading EXCEPT ![r] = Append(@, j)]
  BY DEF Reading
<1> HIDE DEF j
<1>4. Queues(lockq[r], reading[r], gen[r], o2, record, Last)
  BY <1>1, NobodyWaits, CallerMoves
<1>5. from = "message" \/ AllMessages(lockq[r], reading[r])
  BY <1>1, NobodyWaits
<1>6. Queues(lockq[r], Append(reading[r], j), gen[r], o2, record, Last)
  BY <1>1, <1>2, <1>4, <1>5, BuildStarts
<1>7. reading'[r] = Append(reading[r], j)
  BY <1>1, <1>3
<1>8. /\ Append(reading[r], j) \in Seq(BuildJobs)
      /\ Len(Append(reading[r], j)) = Len(reading[r]) + 1
      /\ Append(reading[r], j)[Len(reading[r]) + 1] = j
      /\ \A i \in 1 .. Len(reading[r]) : Append(reading[r], j)[i] = reading[r][i]
  BY <1>1, <1>2, Appended
<1>9. /\ reading' \in [Replicas -> Seq(BuildJobs)]
      /\ \A p \in Replicas \ {r} : reading'[p] = reading[p]
  BY <1>1, <1>3, <1>8
<1> QED BY <1>2, <1>6, <1>7, <1>8, <1>9

\* A removal queues on r; its caller is then at o2.
LEMMA RemovingBegins ==
  ASSUME Shape, NEW r \in Replicas, NEW from \in {"remove", "message", "load"},
         NEW o2 \in Ops, Removing(r, from), Awaited(from, o2),
         (from = "message" /\ o2 = op[r]) \/ Free(op[r])
  PROVE  /\ gen' \in [Replicas -> Nat] /\ lockq' \in [Replicas -> Seq(Jobs)]
         /\ \A p \in Replicas \ {r} : gen'[p] = gen[p] /\ lockq'[p] = lockq[p]
         /\ Queues(lockq'[r], reading[r], gen'[r], o2, record, Last)
         /\ ~Live(lockq'[r], reading[r], gen'[r])
         /\ Leaving(lockq'[r])
         /\ lockq'[r][1].pc = "swap" => lockq[r] # <<>> /\ lockq[r][1].pc = "swap"
<1> DEFINE j == [from |-> from, pc |-> "wait", held |-> FALSE, grant |-> FALSE]
<1>1. /\ lockq \in [Replicas -> Seq(Jobs)] /\ lockq[r] \in Seq(Jobs)
      /\ reading[r] \in Seq(BuildJobs)
      /\ gen \in [Replicas -> Nat] /\ gen[r] \in Nat /\ Last \in Nat
      /\ Queues(lockq[r], reading[r], gen[r], op[r], record, Last)
  BY Typed
<1>2. j \in RemoveJobs /\ j.from = from /\ j.pc = "wait" /\ j \in Jobs
  BY DEF RemoveJobs, Jobs
<1>3. /\ lockq' = [lockq EXCEPT ![r] = Append(@, j)]
      /\ gen' = [gen EXCEPT ![r] = @ + 1]
  BY DEF Removing
<1> HIDE DEF j
<1>4. Queues(lockq[r], reading[r], gen[r], o2, record, Last)
  BY <1>1, NobodyWaits, CallerMoves
<1>5. from = "message" \/ AllMessages(lockq[r], reading[r])
  BY <1>1, NobodyWaits
<1>6. /\ Queues(Append(lockq[r], j), reading[r], gen[r] + 1, o2, record, Last)
      /\ ~Live(Append(lockq[r], j), reading[r], gen[r] + 1)
      /\ Leaving(Append(lockq[r], j))
  BY <1>1, <1>2, <1>4, <1>5, RemovalQueues
<1>7. lockq'[r] = Append(lockq[r], j) /\ gen'[r] = gen[r] + 1
  BY <1>1, <1>3
<1>8. /\ Append(lockq[r], j) \in Seq(Jobs)
      /\ Append(lockq[r], j)[Len(lockq[r]) + 1] = j
      /\ \A i \in 1 .. Len(lockq[r]) : Append(lockq[r], j)[i] = lockq[r][i]
  BY <1>1, <1>2, Appended
<1>9. /\ gen' \in [Replicas -> Nat] /\ lockq' \in [Replicas -> Seq(Jobs)]
      /\ \A p \in Replicas \ {r} : gen'[p] = gen[p] /\ lockq'[p] = lockq[p]
  BY <1>1, <1>3, <1>8
<1>10. ASSUME lockq'[r][1].pc = "swap"
       PROVE  lockq[r] # <<>> /\ lockq[r][1].pc = "swap"
  <2>1. CASE lockq[r] = <<>>
    <3>1. Len(lockq[r]) + 1 = 1
      BY <2>1
    <3> QED BY <1>2, <1>7, <1>8, <1>10, <3>1
  <2>2. CASE lockq[r] # <<>>
    <3>1. 1 \in 1 .. Len(lockq[r])
      BY <1>1, <2>2, Popped
    <3> QED BY <1>7, <1>8, <1>10, <2>2, <3>1
  <2> QED BY <2>1, <2>2
<1> QED BY <1>6, <1>7, <1>9, <1>10

LEMMA SwappingRemoval ==
  ASSUME Shape, NEW r \in Replicas, UNCHANGED client, Leaving(lockq'[r]),
         lockq'[r][1].pc = "swap" => lockq[r] # <<>> /\ lockq[r][1].pc = "swap"
  PROVE  Swapping(r)'
  BY DEF Shape, InShape, Swapping

LEMMA SwappingStays ==
  ASSUME Shape, NEW r \in Replicas, UNCHANGED client, lockq'[r] = lockq[r],
         gen'[r] = gen[r]
  PROVE  Swapping(r)'
  BY DEF Shape, InShape, Swapping

LEMMA ShapeHear ==
  ASSUME Shape, NEW r \in Replicas, Hear(r)
  PROVE  Shape'
<1>1. /\ inbox \in [Replicas -> Seq({"added", "removed"})]
      /\ inbox[r] \in Seq({"added", "removed"}) /\ inbox[r] # <<>>
      /\ inbox' = [inbox EXCEPT ![r] = Tail(@)] /\ op[r] # "down" /\ op[r] \in Ops
  BY Typed DEF Hear, Shape, TypeOK, InShape, NothingLeft
<1>2. /\ inbox' \in [Replicas -> Seq({"added", "removed"})]
      /\ \A p \in Replicas \ {r} : inbox'[p] = inbox[p]
  <2>1. Tail(inbox[r]) \in Seq({"added", "removed"})
    BY <1>1, Popped
  <2> QED BY <1>1, <2>1
<1>3. UNCHANGED <<backend, op, mapped, client, writers, budget, excused>>
  BY DEF Hear
<1>4. Awaited("message", op[r])
  BY MessagesAwaited
<1>5. /\ record \in Versions /\ lockq \in [Replicas -> Seq(Jobs)]
      /\ reading \in [Replicas -> Seq(BuildJobs)]
      /\ op \in [Replicas -> Ops] /\ gen \in [Replicas -> Nat]
  BY Typed
<1>6. CASE Reading(r, "message") /\ UNCHANGED <<gen, lockq>>
  <2>1. /\ reading' \in [Replicas -> Seq(BuildJobs)]
        /\ \A p \in Replicas \ {r} : reading'[p] = reading[p]
        /\ Queues(lockq[r], reading'[r], gen[r], op[r], record, Last)
    BY <1>1, <1>4, <1>6, ReadingBegins
  <2>2. Swapping(r)'
    BY <1>3, <1>6, SwappingStays
  <2> QED BY <1>1, <1>2, <1>3, <1>5, <1>6, <2>1, <2>2, ShapeQueued
          DEF Shape, TypeOK, Bounded, backend
<1>7. CASE Removing(r, "message") /\ UNCHANGED reading
  <2>1. /\ gen' \in [Replicas -> Nat] /\ lockq' \in [Replicas -> Seq(Jobs)]
        /\ \A p \in Replicas \ {r} : gen'[p] = gen[p] /\ lockq'[p] = lockq[p]
        /\ Queues(lockq'[r], reading[r], gen'[r], op[r], record, Last)
        /\ Leaving(lockq'[r])
        /\ lockq'[r][1].pc = "swap" => lockq[r] # <<>> /\ lockq[r][1].pc = "swap"
    BY <1>1, <1>4, <1>7, RemovingBegins
  <2>2. Swapping(r)'
    BY <1>3, <2>1, SwappingRemoval
  <2> QED BY <1>1, <1>2, <1>3, <1>5, <1>7, <2>1, <2>2, ShapeQueued
          DEF Shape, TypeOK, Bounded, backend
<1> QED BY <1>6, <1>7 DEF Hear

LEMMA First ==
  ASSUME NEW T \in SUBSET Nat, T # {}
  PROVE  \E m \in T : \A k \in T : m <= k
<1>1. PICK m \in T : \A k \in T : ~(<<k, m>> \in OpToRel(<, Nat))
  BY WFMin, NatLessThanWellFounded
<1>2. ASSUME NEW k \in T PROVE ~(k < m)
  <2>1. <<k, m>> \in Nat \X Nat /\ <<k, m>>[1] = k /\ <<k, m>>[2] = m
    OBVIOUS
  <2> QED BY <1>1, <2>1 DEF OpToRel
<1> QED BY <1>2

LEMMA FirstReader ==
  ASSUME Shape, NEW r \in Replicas,
         \E i \in 1 .. Len(reading[r]) : reading[r][i].pc = "creds"
  PROVE  /\ FirstToRead(r) \in 1 .. Len(reading[r])
         /\ reading[r][FirstToRead(r)].pc = "creds"
         /\ \A j \in 1 .. FirstToRead(r) - 1 : reading[r][j].pc # "creds"
<1> DEFINE T == {i \in 1 .. Len(reading[r]) : reading[r][i].pc = "creds"}
<1>0. Len(reading[r]) \in Nat
  BY Typed
<1>1. PICK m \in T : \A k \in T : m <= k
  <2>1. T \in SUBSET Nat /\ T # {}
    BY <1>0
  <2> QED BY <2>1, First
<1>2. m \in 1 .. Len(reading[r]) /\ reading[r][m].pc = "creds"
  OBVIOUS
<1>3. ASSUME NEW j \in 1 .. m - 1 PROVE reading[r][j].pc # "creds"
  <2>1. j \in 1 .. Len(reading[r]) /\ ~(m <= j)
    BY <1>0, <1>2
  <2> QED BY <1>1, <2>1
<1>4. \E i \in 1 .. Len(reading[r]) :
        /\ reading[r][i].pc = "creds"
        /\ \A j \in 1 .. i - 1 : reading[r][j].pc # "creds"
  BY <1>2, <1>3
<1> QED BY <1>4 DEF FirstToRead

\* What reading the credentials does to the builds that read on r.
CredsRead(r) ==
    /\ reading' \in [Replicas -> Seq(BuildJobs)] /\ op' \in [Replicas -> Ops]
    /\ \A p \in Replicas \ {r} : reading'[p] = reading[p] /\ op'[p] = op[p]
    /\ Onward(op[r], op'[r])
    /\ Queues(lockq[r], reading'[r], gen[r], op'[r], record, Last)
    /\ record = 0 => (Live(lockq[r], reading'[r], gen[r])
                      => Live(lockq[r], reading[r], gen[r]))
    /\ record # 0 =>
          /\ op' = op
          /\ Len(reading'[r]) = Len(reading[r])
          /\ \A i \in 1 .. Len(reading[r]) :
               /\ reading'[r][i].gen = reading[r][i].gen
               /\ UpToDate(reading[r][i], record) <=> UpToDate(reading'[r][i], record)

LEMMA CredentialsStep ==
  ASSUME Shape, NEW r \in Replicas, ReadCredentials(r)
  PROVE  CredsRead(r)
<1> DEFINE n == FirstToRead(r)
           rd == reading[r]
           c == SubSeq(rd, 1, n - 1) \o SubSeq(rd, n + 1, Len(rd))
<1>1. /\ n \in 1 .. Len(rd) /\ rd[n].pc = "creds"
      /\ \A j \in 1 .. n - 1 : rd[j].pc # "creds"
  BY FirstReader DEF ReadCredentials
<1>2. /\ lockq[r] \in Seq(Jobs) /\ reading \in [Replicas -> Seq(BuildJobs)]
      /\ rd \in Seq(BuildJobs) /\ op \in [Replicas -> Ops]
      /\ record \in Versions /\ record <= Last /\ Last \in Nat
      /\ Queues(lockq[r], rd, gen[r], op[r], record, Last)
  BY Typed
<1>3. rd[n] \in BuildJobs /\ rd[n].from \in Callers
  BY <1>1, <1>2, JobFields
<1>4. Awaited(rd[n].from, op[r]) /\ op[r] # "down"
  <2>1. rd # <<>>
    BY <1>1
  <2> QED BY <1>1, <1>2, <2>1, Typed DEF Queues, Readers, ReaderOK
<1>5. CASE record = 0
  <2>1. reading' = [reading EXCEPT ![r] = c] /\ Resume(r, rd[n].from)
    BY <1>5 DEF ReadCredentials, Rest
  <2>2. /\ c \in Seq(BuildJobs)
        /\ Queues(lockq[r], c, gen[r], op[r], record, Last)
        /\ rd[n].from # "message" => AllMessages(lockq[r], c)
        /\ Live(lockq[r], c, gen[r]) => Live(lockq[r], rd, gen[r])
    BY <1>1, <1>2, BuildGivesUp
  <2> HIDE DEF c, n
  <2>3. /\ op' \in [Replicas -> Ops]
        /\ \A p \in Replicas \ {r} : op'[p] = op[p]
        /\ Onward(op[r], op'[r])
        /\ rd[n].from = "message" => op'[r] = op[r]
    BY <1>2, <1>3, <1>4, <2>1, Resumed
  <2>4. Queues(lockq[r], c, gen[r], op'[r], record, Last)
    BY <1>2, <2>2, <2>3, CallerMoves
  <2>5. /\ reading' \in [Replicas -> Seq(BuildJobs)] /\ reading'[r] = c
        /\ \A p \in Replicas \ {r} : reading'[p] = reading[p]
    BY <1>2, <2>1, <2>2
  <2> QED BY <1>5, <2>2, <2>3, <2>4, <2>5 DEF CredsRead
<1>6. CASE record # 0
  <2> DEFINE d == [rd EXCEPT ![n].creds = record, ![n].pc = "settings"]
  <2>1. reading' = [reading EXCEPT ![r][n].creds = record, ![r][n].pc = "settings"]
        /\ UNCHANGED op
    BY <1>6 DEF ReadCredentials
  <2>2. reading' = [reading EXCEPT ![r] = d]
    BY <1>1, <1>2, <1>3, <2>1
  <2>0. record \in Versions \ {0}
    BY <1>2, <1>6
  <2> HIDE DEF n, rd
  <2>3. /\ d \in Seq(BuildJobs) /\ Len(d) = Len(rd)
        /\ Queues(lockq[r], d, gen[r], op[r], record, Last)
        /\ \A i \in 1 .. Len(rd) :
              /\ d[i].gen = rd[i].gen
              /\ UpToDate(rd[i], record) <=> UpToDate(d[i], record)
    BY <1>1, <1>2, <2>0, CredentialsRead
  <2> HIDE DEF d
  <2>4. /\ reading' \in [Replicas -> Seq(BuildJobs)] /\ reading'[r] = d
        /\ \A p \in Replicas \ {r} : reading'[p] = reading[p]
    BY <1>2, <2>2, <2>3 DEF rd
  <2>5. Onward(op[r], op'[r])
    BY <1>4, <2>1 DEF Onward
  <2> QED BY <1>2, <1>6, <2>1, <2>3, <2>4, <2>5 DEF CredsRead, rd
<1> QED BY <1>5, <1>6

LEMMA ShapeReadCredentials ==
  ASSUME Shape, NEW r \in Replicas, ReadCredentials(r)
  PROVE  Shape'
<1>1. CredsRead(r)
  BY CredentialsStep
<1>2. UNCHANGED <<backend, inbox, gen, lockq, mapped, client, writers, budget,
                  excused>>
  BY DEF ReadCredentials
<1>3. Swapping(r)'
  BY <1>2, SwappingStays
<1>4. lockq \in [Replicas -> Seq(Jobs)]
  BY Typed
<1> QED BY <1>1, <1>2, <1>3, <1>4, ShapeQueued
        DEF CredsRead, Onward, Shape, TypeOK, Bounded, backend

\* What a failed read does on r: the build is dropped, and its caller told.
Dropped(r) ==
    /\ reading' \in [Replicas -> Seq(BuildJobs)] /\ op' \in [Replicas -> Ops]
    /\ \A p \in Replicas \ {r} : reading'[p] = reading[p] /\ op'[p] = op[p]
    /\ op[r] \in {"tellRemoved", "erase", "down"} => op'[r] = op[r]
    /\ op'[r] \in {op[r], "idle"}
    /\ Queues(lockq[r], reading'[r], gen[r], op'[r], record, Last)
    /\ Live(lockq[r], reading'[r], gen[r]) => Live(lockq[r], reading[r], gen[r])
    /\ UNCHANGED <<record, names, token, granted, index, inbox, gen, lockq,
                   mapped, client, writers>>
    /\ excused' = excused \cup {"unread"}

LEMMA DropsBuild ==
  ASSUME Shape, NEW r \in Replicas, ReadFails(r)
  PROVE  Dropped(r)
<1> DEFINE rd == reading[r]
<1>1. PICK n \in 1 .. Len(rd) :
        /\ reading' = [reading EXCEPT ![r] = Rest(r, n)]
        /\ op' = [op EXCEPT ![r] = IF rd[n].from = "message" THEN @ ELSE "idle"]
  BY DEF ReadFails
<1> DEFINE c == SubSeq(rd, 1, n - 1) \o SubSeq(rd, n + 1, Len(rd))
<1>2. /\ lockq[r] \in Seq(Jobs) /\ reading \in [Replicas -> Seq(BuildJobs)]
      /\ rd \in Seq(BuildJobs) /\ op \in [Replicas -> Ops]
      /\ Queues(lockq[r], rd, gen[r], op[r], record, Last)
  BY Typed
<1>3. /\ rd[n].from \in {"add", "message", "load"}
      /\ Awaited(rd[n].from, op[r]) /\ op[r] # "down"
  <2>1. rd[n] \in BuildJobs /\ rd # <<>>
    BY <1>2
  <2> QED BY <1>2, <2>1, Typed DEF Queues, Readers, ReaderOK, BuildJobs
<1>4. /\ c \in Seq(BuildJobs)
      /\ Queues(lockq[r], c, gen[r], op[r], record, Last)
      /\ rd[n].from # "message" => AllMessages(lockq[r], c)
      /\ Live(lockq[r], c, gen[r]) => Live(lockq[r], rd, gen[r])
  BY <1>2, BuildGivesUp
<1>5. reading' = [reading EXCEPT ![r] = c]
  BY <1>1 DEF Rest
<1> HIDE DEF c
<1>6. /\ reading' \in [Replicas -> Seq(BuildJobs)] /\ reading'[r] = c
      /\ \A p \in Replicas \ {r} : reading'[p] = reading[p]
  BY <1>2, <1>4, <1>5
<1>7. /\ op' \in [Replicas -> Ops]
      /\ \A p \in Replicas \ {r} : op'[p] = op[p]
      /\ op'[r] = IF rd[n].from = "message" THEN op[r] ELSE "idle"
  BY <1>1, <1>2 DEF Ops
<1>8. /\ op[r] \in {"tellRemoved", "erase", "down"} => op'[r] = op[r]
      /\ op'[r] \in {op[r], "idle"}
  BY <1>3, <1>7 DEF Awaited
<1>9. Queues(lockq[r], c, gen[r], op'[r], record, Last)
  <2>1. CASE rd[n].from = "message"
    BY <1>4, <1>7, <2>1
  <2>2. CASE rd[n].from # "message"
    BY <1>2, <1>4, <2>2, CallerMoves
  <2> QED BY <2>1, <2>2
<1>10. /\ UNCHANGED <<record, names, token, granted, index, inbox, gen, lockq,
                      mapped, client, writers>>
       /\ excused' = excused \cup {"unread"}
  BY DEF ReadFails, backend
<1> QED BY <1>4, <1>6, <1>7, <1>8, <1>9, <1>10 DEF Dropped

LEMMA ShapeReadFails ==
  ASSUME Shape, NEW r \in Replicas, ReadFails(r)
  PROVE  Shape'
<1>1. Dropped(r)
  BY DropsBuild
<1>2. Swapping(r)'
  BY <1>1, SwappingStays DEF Dropped
<1>3. lockq \in [Replicas -> Seq(Jobs)] /\ gen \in [Replicas -> Nat]
  BY Typed
<1>4. (excused \subseteq Gaps)'
  BY <1>1 DEF Dropped, Shape, TypeOK, Gaps
<1>5. /\ budget' \in [{"adds", "removes", "starts", "crashes", "failures",
                       "tokens"} -> Nat]
      /\ budget'["adds"] = budget["adds"]
  BY DEF ReadFails, Spend, Shape, Bounded
<1>6. op'[r] # "down" /\ inbox' \in [Replicas -> Seq({"added", "removed"})]
  <2>1. reading[r] # <<>>
    BY DEF ReadFails
  <2>2. op[r] # "down"
    BY <2>1, Typed
  <2> QED BY <1>1, <2>2 DEF Dropped, Shape, TypeOK
<1> QED BY <1>1, <1>2, <1>3, <1>4, <1>5, <1>6, ShapeQueued DEF Dropped

\* What reading the settings does on r: the first that reads joins the queue.
SettingsStep(r) ==
    /\ reading' \in [Replicas -> Seq(BuildJobs)] /\ lockq' \in [Replicas -> Seq(Jobs)]
    /\ \A p \in Replicas \ {r} : reading'[p] = reading[p] /\ lockq'[p] = lockq[p]
    /\ Queues(lockq'[r], reading'[r], gen[r], op[r], record, Last)
    /\ Live(lockq'[r], reading'[r], gen[r]) => Live(lockq[r], reading[r], gen[r])
    /\ Leaving(lockq[r]) <=> Leaving(lockq'[r])
    /\ reading[r] # <<>> /\ Len(reading'[r]) = Len(reading[r]) - 1
    /\ \A i \in 1 .. Len(reading'[r]) : reading'[r][i] = reading[r][i + 1]
    /\ Len(lockq'[r]) = Len(lockq[r]) + 1
    /\ \A i \in 1 .. Len(lockq[r]) : lockq'[r][i] = lockq[r][i]
    /\ LET e == lockq'[r][Len(lockq[r]) + 1] IN
         /\ IsBuild(e) /\ e.gen = reading[r][1].gen /\ e.pc = "wait"
         /\ UpToDate(e, record) <=> UpToDate(reading[r][1], record)

LEMMA ReadsSettings ==
  ASSUME Shape, NEW r \in Replicas, ReadSettings(r)
  PROVE  SettingsStep(r) /\ op[r] # "down"
<1> DEFINE rd == reading[r]
           q == lockq[r]
           e == [Head(rd) EXCEPT !.settings = record, !.pc = "wait"]
<1>1. /\ rd # <<>> /\ Head(rd).pc = "settings"
      /\ reading' = [reading EXCEPT ![r] = Tail(rd)]
      /\ lockq' = [lockq EXCEPT ![r] = Append(q, e)]
  BY DEF ReadSettings
<1>2. /\ q \in Seq(Jobs) /\ reading \in [Replicas -> Seq(BuildJobs)]
      /\ rd \in Seq(BuildJobs) /\ lockq \in [Replicas -> Seq(Jobs)]
      /\ record \in Versions /\ record <= Last /\ Last \in Nat
      /\ Queues(q, rd, gen[r], op[r], record, Last)
      /\ op[r] # "down"
  BY <1>1, Typed
<1> HIDE DEF q, rd
<1>4. /\ e \in BuildJobs /\ e.gen = rd[1].gen /\ e.pc = "wait" /\ IsBuild(e)
      /\ UpToDate(e, record) <=> UpToDate(rd[1], record)
      /\ Append(q, e) \in Seq(Jobs) /\ Tail(rd) \in Seq(BuildJobs)
      /\ Queues(Append(q, e), Tail(rd), gen[r], op[r], record, Last)
      /\ Live(Append(q, e), Tail(rd), gen[r]) => Live(q, rd, gen[r])
      /\ Leaving(q) <=> Leaving(Append(q, e))
  BY <1>1, <1>2, SettingsRead
<1> HIDE DEF e
<1>5. /\ reading' \in [Replicas -> Seq(BuildJobs)] /\ reading'[r] = Tail(rd)
      /\ lockq' \in [Replicas -> Seq(Jobs)] /\ lockq'[r] = Append(q, e)
      /\ \A p \in Replicas \ {r} : reading'[p] = reading[p] /\ lockq'[p] = lockq[p]
  BY <1>1, <1>2, <1>4
<1>6. /\ Len(Tail(rd)) = Len(rd) - 1
      /\ \A i \in 1 .. Len(rd) - 1 : Tail(rd)[i] = rd[i + 1]
  BY <1>1, <1>2, Popped
<1>7. /\ Len(Append(q, e)) = Len(q) + 1 /\ Append(q, e)[Len(q) + 1] = e
      /\ \A i \in 1 .. Len(q) : Append(q, e)[i] = q[i]
  <2>1. e \in Jobs
    BY <1>4 DEF Jobs
  <2> QED BY <1>2, <2>1, Appended
<1> QED BY <1>1, <1>2, <1>4, <1>5, <1>6, <1>7 DEF SettingsStep, q, rd

LEMMA ShapeReadSettings ==
  ASSUME Shape, NEW r \in Replicas, ReadSettings(r)
  PROVE  Shape'
<1>1. SettingsStep(r) /\ op[r] # "down"
  BY ReadsSettings
<1>2. UNCHANGED <<backend, inbox, op, gen, mapped, client, writers, budget, excused>>
  BY DEF ReadSettings
<1>3. Swapping(r)'
  <2>1. SUFFICES ASSUME lockq'[r] # <<>>, lockq'[r][1].pc = "swap"
                 PROVE  client[r] = None
                        /\ (lockq'[r][1].gen = gen[r] \/ Leaving(lockq'[r]))
    BY <1>2 DEF Swapping
  <2>2. lockq[r] \in Seq(Jobs) /\ Len(lockq[r]) \in Nat
    BY Typed
  <2>3. lockq[r] # <<>>
    <3>1. ASSUME lockq[r] = <<>> PROVE FALSE
      <4>1. Len(lockq[r]) + 1 = 1
        BY <3>1
      <4> QED BY <1>1, <2>1, <4>1 DEF SettingsStep
    <3> QED BY <3>1
  <2>4. lockq'[r][1] = lockq[r][1]
    <3>1. 1 \in 1 .. Len(lockq[r])
      BY <2>2, <2>3, Popped
    <3> QED BY <1>1, <3>1 DEF SettingsStep
  <2> QED BY <1>1, <2>1, <2>3, <2>4 DEF SettingsStep, Shape, InShape, Swapping
<1>4. gen \in [Replicas -> Nat] /\ op \in [Replicas -> Ops]
  BY Typed
<1> QED BY <1>1, <1>2, <1>3, <1>4, ShapeQueued
        DEF SettingsStep, Shape, TypeOK, Bounded, backend

LEMMA ShapeRemove ==
  ASSUME Shape, NEW r \in Replicas, Remove(r)
  PROVE  Shape'
<1>1. op[r] = "idle" /\ Spend("removes") /\ Removing(r, "remove")
      /\ op' = [op EXCEPT ![r] = "remove"] /\ op \in [Replicas -> Ops]
  BY Typed DEF Remove
<1>2. op' \in [Replicas -> Ops] /\ op'[r] = "remove"
      /\ \A p \in Replicas \ {r} : op'[p] = op[p]
  BY <1>1 DEF Ops
<1>3. UNCHANGED <<backend, inbox, reading, mapped, client, writers, excused>>
  BY DEF Remove
<1>4. /\ gen' \in [Replicas -> Nat] /\ lockq' \in [Replicas -> Seq(Jobs)]
      /\ \A p \in Replicas \ {r} : gen'[p] = gen[p] /\ lockq'[p] = lockq[p]
      /\ Queues(lockq'[r], reading[r], gen'[r], "remove", record, Last)
      /\ Leaving(lockq'[r])
      /\ lockq'[r][1].pc = "swap" => lockq[r] # <<>> /\ lockq[r][1].pc = "swap"
  <2>1. Awaited("remove", "remove") /\ "remove" \in Ops /\ Free(op[r])
    BY <1>1 DEF Awaited, Ops, Free
  <2> QED BY <1>1, <2>1, RemovingBegins
<1>5. Swapping(r)'
  BY <1>3, <1>4, SwappingRemoval
<1>6. /\ budget' \in [{"adds", "removes", "starts", "crashes", "failures",
                       "tokens"} -> Nat]
      /\ budget'["adds"] = budget["adds"]
  BY <1>1 DEF Shape, Bounded, Spend
<1> QED BY <1>2, <1>3, <1>4, <1>5, <1>6, ShapeQueued
        DEF Shape, TypeOK, backend

LEMMA ShapeSweep ==
  ASSUME Shape, NEW r \in Replicas, Sweep(r)
  PROVE  Shape'
<1>1. op[r] = "sweep" /\ op \in [Replicas -> Ops] /\ gen \in [Replicas -> Nat]
      /\ lockq \in [Replicas -> Seq(Jobs)]
  BY Typed DEF Sweep
<1>2. UNCHANGED <<backend, inbox, reading, mapped, client, writers, budget>>
  BY DEF Sweep
<1>3. Free(op[r])
  BY <1>1 DEF Free
<1>4. CASE mapped[r]
  <2>1. /\ op' = [op EXCEPT ![r] = "sweeping"] /\ Removing(r, "load")
        /\ excused' = excused \cup (IF Listed THEN {"swept"} ELSE {})
    BY <1>4 DEF Sweep
  <2>2. op' \in [Replicas -> Ops] /\ op'[r] = "sweeping"
        /\ \A p \in Replicas \ {r} : op'[p] = op[p]
    BY <1>1, <2>1 DEF Ops
  <2>3. /\ gen' \in [Replicas -> Nat] /\ lockq' \in [Replicas -> Seq(Jobs)]
        /\ \A p \in Replicas \ {r} : gen'[p] = gen[p] /\ lockq'[p] = lockq[p]
        /\ Queues(lockq'[r], reading[r], gen'[r], "sweeping", record, Last)
        /\ Leaving(lockq'[r])
        /\ lockq'[r][1].pc = "swap" => lockq[r] # <<>> /\ lockq[r][1].pc = "swap"
    <3>1. Awaited("load", "sweeping") /\ "sweeping" \in Ops
      BY DEF Awaited, Ops
    <3> QED BY <1>3, <2>1, <3>1, RemovingBegins
  <2>4. Swapping(r)'
    BY <1>2, <2>3, SwappingRemoval
  <2>5. (excused \subseteq Gaps)'
    BY <2>1 DEF Shape, TypeOK, Gaps
  <2> QED BY <1>2, <2>2, <2>3, <2>4, <2>5, ShapeQueued
          DEF Shape, TypeOK, Bounded, backend
<1>5. CASE ~mapped[r]
  <2>1. op' = [op EXCEPT ![r] = "idle"] /\ UNCHANGED <<gen, lockq, excused>>
    BY <1>5 DEF Sweep
  <2>2. op' \in [Replicas -> Ops] /\ op'[r] = "idle"
        /\ \A p \in Replicas \ {r} : op'[p] = op[p]
    BY <1>1, <2>1 DEF Ops
  <2>3. Queues(lockq[r], reading[r], gen[r], "idle", record, Last)
    BY <1>3, Typed, NobodyWaits, CallerMoves
  <2>4. Swapping(r)'
    BY <1>2, <2>1, SwappingStays
  <2> QED BY <1>1, <1>2, <2>1, <2>2, <2>3, <2>4, ShapeQueued
          DEF Shape, TypeOK, Bounded, backend
<1> QED BY <1>4, <1>5

LEMMA ShapeList ==
  ASSUME Shape, NEW r \in Replicas, List(r)
  PROVE  Shape'
<1>1. op[r] = "list" /\ op \in [Replicas -> Ops]
      /\ reading \in [Replicas -> Seq(BuildJobs)]
      /\ gen \in [Replicas -> Nat] /\ lockq \in [Replicas -> Seq(Jobs)]
  BY Typed DEF List
<1>2. UNCHANGED <<backend, inbox, gen, lockq, mapped, client, writers, budget, excused>>
  BY DEF List
<1>3. Free(op[r])
  BY <1>1 DEF Free
<1>4. /\ op' \in [Replicas -> Ops] /\ op'[r] \in {"sweep", "load", "idle"}
      /\ \A p \in Replicas \ {r} : op'[p] = op[p]
  BY <1>1 DEF List, Ops
<1>5. Swapping(r)'
  BY <1>2, SwappingStays
<1>6. CASE op'[r] = "load"
  <2>1. Reading(r, "load")
    BY <1>6 DEF List
  <2>2. /\ reading' \in [Replicas -> Seq(BuildJobs)]
        /\ \A p \in Replicas \ {r} : reading'[p] = reading[p]
        /\ Queues(lockq[r], reading'[r], gen[r], "load", record, Last)
    <3>1. Awaited("load", "load") /\ "load" \in Ops
      BY DEF Awaited, Ops
    <3> QED BY <1>3, <2>1, <3>1, ReadingBegins
  <2> QED BY <1>1, <1>2, <1>4, <1>5, <1>6, <2>2, ShapeQueued
          DEF Shape, TypeOK, Bounded, backend
<1>7. CASE op'[r] # "load"
  <2>1. UNCHANGED reading
    BY <1>7 DEF List
  <2>2. Queues(lockq[r], reading[r], gen[r], op'[r], record, Last)
    BY <1>3, Typed, NobodyWaits, CallerMoves
  <2> QED BY <1>1, <1>2, <1>4, <1>5, <2>1, <2>2, ShapeQueued
          DEF Shape, TypeOK, Bounded, backend
<1> QED BY <1>6, <1>7

LEMMA ShapeAdd ==
  ASSUME Shape, NEW r \in Replicas, Add(r)
  PROVE  Shape' /\ record' # 0 /\ op'[r] = "add"
<1>1. /\ op[r] = "idle" /\ Spend("adds") /\ Reading(r, "add")
      /\ op' = [op EXCEPT ![r] = "add"] /\ op \in [Replicas -> Ops]
      /\ record' = MaxAdds + 2 - budget["adds"]
  BY Typed DEF Add
<1>2. UNCHANGED <<names, token, granted, index, inbox, gen, lockq, mapped, client,
                  writers, excused>>
  BY DEF Add
<1>3. op' \in [Replicas -> Ops] /\ op'[r] = "add"
      /\ \A p \in Replicas \ {r} : op'[p] = op[p]
  BY <1>1 DEF Ops
<1>4. /\ record' = Last + 1 /\ Last' = Last + 1 /\ record' \in Versions
      /\ budget' \in [{"adds", "removes", "starts", "crashes", "failures",
                       "tokens"} -> Nat]
      /\ budget'["adds"] <= MaxAdds /\ Last \in Nat
  <2>1. /\ budget["adds"] \in Nat /\ budget["adds"] > 0 /\ budget["adds"] <= MaxAdds
        /\ budget'["adds"] = budget["adds"] - 1
        /\ budget' \in [{"adds", "removes", "starts", "crashes", "failures",
                       "tokens"} -> Nat]
    BY <1>1 DEF Shape, Bounded, Spend
  <2>2. MaxAdds \in Nat
    OBVIOUS
  <2> QED BY <1>1, <2>1, <2>2 DEF Last, Versions
<1>5. /\ reading' \in [Replicas -> Seq(BuildJobs)]
      /\ \A p \in Replicas \ {r} : reading'[p] = reading[p]
      /\ Queues(lockq[r], reading'[r], gen[r], "add", record, Last)
  <2>1. Awaited("add", "add") /\ "add" \in Ops /\ Free(op[r])
    BY <1>1 DEF Awaited, Ops, Free
  <2> QED BY <1>1, <2>1, ReadingBegins
<1>6. lockq \in [Replicas -> Seq(Jobs)]
  BY Typed
<1>7. ASSUME NEW p \in Replicas PROVE InShape(p)'
  <2>1. Queues(lockq[p], reading'[p], gen[p], op'[p], record, Last)
    BY <1>3, <1>5, Typed
  <2>2. Queues(lockq[p], reading'[p], gen[p], op'[p], record', Last')
    <3>1. record' \in Nat /\ record' > Last /\ Last' \in Nat /\ Last <= Last'
      BY <1>4
    <3> QED BY <1>4, <1>5, <1>6, <2>1, <3>1, RecordChanges
  <2>3. (op[p] = "down" => NothingLeft(p))'
    BY <1>2, <1>3, <1>5 DEF Shape, InShape, NothingLeft, NoSeed, writers
  <2>4. Swapping(p)'
    BY <1>2, SwappingStays
  <2> QED BY <1>2, <2>2, <2>3, <2>4 DEF InShape
<1>8. TypeOK'
  BY <1>2, <1>3, <1>4, <1>5 DEF Shape, TypeOK, Ops, writers
<1>9. Bounded'
  <2>1. ASSUME NEW p \in Replicas
        PROVE  client'[p][1] <= Last' /\ client'[p][2] <= Last'
    <3>1. /\ client[p][1] \in Nat /\ client[p][2] \in Nat
          /\ client[p][1] <= Last /\ client[p][2] <= Last
      BY DEF Shape, TypeOK, Bounded, Versions
    <3> QED BY <1>2, <1>4, <3>1
  <2> QED BY <1>4, <2>1 DEF Bounded
<1>10. record' # 0
  BY <1>4
<1> QED BY <1>3, <1>7, <1>8, <1>9, <1>10 DEF Shape

LEMMA ShapeErase ==
  ASSUME Shape, NEW r \in Replicas, Erase(r)
  PROVE  Shape' /\ op'[r] = "tellRemoved"
<1>1. /\ op[r] = "erase" /\ record' = 0 /\ names' = FALSE
      /\ op' = [op EXCEPT ![r] = "tellRemoved"] /\ op \in [Replicas -> Ops]
  BY Typed DEF Erase
<1>2. UNCHANGED <<token, granted, index, inbox, builds, writers, budget, excused>>
  BY DEF Erase
<1>3. op' \in [Replicas -> Ops] /\ op'[r] = "tellRemoved"
      /\ \A p \in Replicas \ {r} : op'[p] = op[p]
  BY <1>1 DEF Ops
<1>4. Last' = Last /\ Last \in Nat /\ 0 \in Nat /\ 0 \in Versions /\ Last <= Last
  <2>1. Last' = Last /\ Last \in Nat
    BY <1>2, Typed DEF Last
  <2> QED BY <2>1 DEF Versions
<1>5. Free(op[r])
  BY <1>1 DEF Free
<1>6. ASSUME NEW p \in Replicas PROVE InShape(p)'
  <2>0. lockq[p] \in Seq(Jobs) /\ reading[p] \in Seq(BuildJobs)
    BY Typed
  <2>1. Queues(lockq[p], reading[p], gen[p], op[p], record, Last)
    BY Typed
  <2>2. Queues(lockq[p], reading[p], gen[p], op'[p], record, Last)
    <3>1. CASE p = r
      BY <1>5, <2>0, <2>1, <3>1, NobodyWaits, CallerMoves
    <3>2. CASE p # r
      BY <1>3, <2>1, <3>2
    <3> QED BY <3>1, <3>2
  <2>3. Queues(lockq[p], reading[p], gen[p], op'[p], 0, Last)
    BY <1>4, <2>0, <2>2, RecordChanges
  <2>4. Queues(lockq[p], reading[p], gen[p], op[p], record, Last)'
    BY <1>1, <1>2, <1>4, <2>3 DEF builds
  <2>5. (op[p] = "down" => NothingLeft(p))'
    BY <1>2, <1>3 DEF Shape, InShape, NothingLeft, NoSeed, writers, builds
  <2>6. Swapping(p)'
    BY <1>2, SwappingStays DEF builds
  <2> QED BY <2>4, <2>5, <2>6 DEF InShape
<1>7. TypeOK'
  BY <1>1, <1>2, <1>3, <1>4 DEF Shape, TypeOK, Ops, writers, builds
<1>8. Bounded'
  BY <1>1, <1>2, <1>4 DEF Shape, Bounded, builds
<1> QED BY <1>3, <1>6, <1>7, <1>8 DEF Shape

LEMMA Published ==
  ASSUME Shape, NEW r \in Replicas, NEW m \in {"added", "removed"}, Publish(r, m),
         op[r] \in {"tellAdded", "tellRemoved"}, op' = [op EXCEPT ![r] = "idle"],
         UNCHANGED <<backend, builds, writers, budget>>, (excused \subseteq Gaps)'
  PROVE  /\ Shape' /\ op'[r] = "idle"
         /\ \A p \in Replicas \ {r} : op'[p] = op[p]
         /\ \A p \in Replicas : Up(p) =>
              /\ Len(inbox'[p]) = Len(inbox[p]) + 1 /\ Len(inbox[p]) \in Nat
              /\ inbox'[p][Len(inbox[p]) + 1] = m
              /\ \A i \in 1 .. Len(inbox[p]) : inbox'[p][i] = inbox[p][i]
<1>1. inbox \in [Replicas -> Seq({"added", "removed"})] /\ op \in [Replicas -> Ops]
  BY Typed DEF Shape, TypeOK
<1>2. op' \in [Replicas -> Ops] /\ op'[r] = "idle"
      /\ \A p \in Replicas \ {r} : op'[p] = op[p]
  BY <1>1 DEF Ops
<1>3. ASSUME NEW p \in Replicas
      PROVE  /\ Append(inbox[p], m) \in Seq({"added", "removed"})
             /\ Len(Append(inbox[p], m)) = Len(inbox[p]) + 1 /\ Len(inbox[p]) \in Nat
             /\ Append(inbox[p], m)[Len(inbox[p]) + 1] = m
             /\ \A i \in 1 .. Len(inbox[p]) : Append(inbox[p], m)[i] = inbox[p][i]
  <2>1. inbox[p] \in Seq({"added", "removed"})
    BY <1>1
  <2> QED BY <2>1, Appended
<1>4. \A p \in Replicas : inbox'[p] = IF Up(p) THEN Append(inbox[p], m) ELSE inbox[p]
  BY DEF Publish
<1>5. inbox' \in [Replicas -> Seq({"added", "removed"})]
  BY <1>1, <1>3 DEF Publish
<1>6. Last' = Last
  BY DEF Last
<1>7. Free(op[r])
  BY DEF Free
<1>8. ASSUME NEW p \in Replicas PROVE InShape(p)'
  <2>0. lockq[p] \in Seq(Jobs) /\ reading[p] \in Seq(BuildJobs)
    BY Typed
  <2>1. Queues(lockq[p], reading[p], gen[p], op[p], record, Last)
    BY Typed
  <2>2. Queues(lockq[p], reading[p], gen[p], op'[p], record, Last)
    <3>1. CASE p = r
      BY <1>7, <2>0, <2>1, <3>1, NobodyWaits, CallerMoves
    <3>2. CASE p # r
      BY <1>2, <2>1, <3>2
    <3> QED BY <3>1, <3>2
  <2>3. Queues(lockq[p], reading[p], gen[p], op[p], record, Last)'
    BY <1>6, <2>2 DEF builds, backend
  <2>4. (op[p] = "down" => NothingLeft(p))'
    BY <1>2, <1>4 DEF Shape, InShape, NothingLeft, NoSeed, writers, builds, Up
  <2>5. Swapping(p)'
    BY SwappingStays DEF builds
  <2> QED BY <2>3, <2>4, <2>5 DEF InShape
<1>9. TypeOK'
  BY <1>2, <1>5 DEF Shape, TypeOK, Ops, writers, builds, backend
<1>10. Bounded'
  BY <1>6 DEF Shape, Bounded, builds, backend
<1>11. Shape'
  BY <1>8, <1>9, <1>10 DEF Shape
<1>12. ASSUME NEW p \in Replicas, Up(p)
       PROVE  /\ Len(inbox'[p]) = Len(inbox[p]) + 1 /\ Len(inbox[p]) \in Nat
              /\ inbox'[p][Len(inbox[p]) + 1] = m
              /\ \A i \in 1 .. Len(inbox[p]) : inbox'[p][i] = inbox[p][i]
  <2>1. inbox'[p] = Append(inbox[p], m)
    BY <1>4, <1>12
  <2> QED BY <1>3, <2>1
<1> QED BY <1>2, <1>11, <1>12

LEMMA ShapeStart ==
  ASSUME Shape, NEW r \in Replicas, Start(r)
  PROVE  Shape' /\ op'[r] = "list" /\ \A p \in Replicas \ {r} : op'[p] = op[p]
<1>1. /\ op[r] = "down" /\ Spend("starts") /\ op' = [op EXCEPT ![r] = "list"]
      /\ op \in [Replicas -> Ops] /\ lockq \in [Replicas -> Seq(Jobs)]
      /\ reading \in [Replicas -> Seq(BuildJobs)] /\ gen \in [Replicas -> Nat]
  BY Typed DEF Start
<1>2. op' \in [Replicas -> Ops] /\ op'[r] = "list"
      /\ \A p \in Replicas \ {r} : op'[p] = op[p]
  BY <1>1 DEF Ops
<1>3. UNCHANGED <<backend, inbox, builds, writers, excused>>
  BY DEF Start
<1>4. Queues(lockq[r], reading[r], gen[r], "list", record, Last)
  <2>1. Free(op[r])
    BY <1>1 DEF Free
  <2> QED BY <2>1, Typed, NobodyWaits, CallerMoves
<1>5. Swapping(r)'
  BY <1>3, SwappingStays DEF builds
<1>6. /\ budget' \in [{"adds", "removes", "starts", "crashes", "failures",
                       "tokens"} -> Nat]
      /\ budget'["adds"] = budget["adds"]
  BY <1>1, SMTT(30) DEF Shape, Bounded, Spend
<1>7. Shape'
  BY <1>1, <1>2, <1>3, <1>4, <1>5, <1>6, ShapeQueued
     DEF Shape, TypeOK, backend, builds
<1> QED BY <1>2, <1>7

LEMMA ShapeCrash ==
  ASSUME Shape, NEW r \in Replicas, Crash(r)
  PROVE  /\ Shape' /\ op'[r] = "down" /\ NothingLeft(r)'
         /\ \A p \in Replicas \ {r} : SameAt(p)
         /\ excused \subseteq excused' /\ record' = record
         /\ op[r] \in {"add", "tellAdded", "tellRemoved"} => "untold" \in excused'
<1>1. /\ op' = [op EXCEPT ![r] = "down"]
      /\ inbox' = [inbox EXCEPT ![r] = <<>>]
      /\ gen' = [gen EXCEPT ![r] = 0]
      /\ reading' = [reading EXCEPT ![r] = <<>>]
      /\ lockq' = [lockq EXCEPT ![r] = <<>>]
      /\ mapped' = [mapped EXCEPT ![r] = FALSE]
      /\ client' = [client EXCEPT ![r] = None]
      /\ refresh' = [refresh EXCEPT ![r] = "none"]
      /\ seed' = [seed EXCEPT ![r] = NoSeed]
      /\ UNCHANGED backend /\ Spend("crashes")
  BY DEF Crash
<1>2. \A p \in Replicas \ {r} : SameAt(p)
  BY <1>1 DEF Shape, TypeOK, SameAt
<1>3. op'[r] = "down" /\ NothingLeft(r)' /\ gen'[r] = 0
  BY <1>1 DEF Shape, TypeOK, NothingLeft, NoSeed, None
<1>4. None \in Versions \X Versions /\ None[1] = 0 /\ None[2] = 0 /\ 0 <= Last
  BY Typed DEF None, Versions
<1>5. excused \subseteq excused' /\ (excused \subseteq Gaps)'
  BY DEF Crash, Shape, TypeOK, Gaps
<1>6. TypeOK'
  <2>1. /\ inbox' \in [Replicas -> Seq({"added", "removed"})]
        /\ op' \in [Replicas -> Ops] /\ gen' \in [Replicas -> Nat]
        /\ reading' \in [Replicas -> Seq(BuildJobs)]
        /\ lockq' \in [Replicas -> Seq(Jobs)]
    <3>1. /\ <<>> \in Seq({"added", "removed"}) /\ <<>> \in Seq(BuildJobs)
          /\ <<>> \in Seq(Jobs) /\ "down" \in Ops
      BY DEF Ops
    <3> QED BY <1>1, <3>1, Typed DEF Shape, TypeOK
  <2>2. /\ mapped' \in [Replicas -> BOOLEAN]
        /\ client' \in [Replicas -> Versions \X Versions]
        /\ refresh' \in [Replicas -> {"none", "live", "retired"}]
        /\ seed' \in [Replicas -> [pc : {"none", "track", "confirm"},
                                   retired : BOOLEAN]]
    BY <1>1, <1>4 DEF Shape, TypeOK, NoSeed
  <2> QED BY <1>1, <1>5, <2>1, <2>2 DEF Shape, TypeOK, backend, Jobs, Ops
<1>7. Last' = Last /\ Bounded'
  <2>1. /\ budget' \in [{"adds", "removes", "starts", "crashes", "failures",
                         "tokens"} -> Nat]
        /\ budget'["adds"] = budget["adds"]
    BY <1>1 DEF Shape, Bounded, Spend
  <2>2. Last' = Last
    BY <2>1 DEF Last
  <2>3. \A p \in Replicas : client'[p][1] <= Last /\ client'[p][2] <= Last
    BY <1>1, <1>4 DEF Shape, Bounded, TypeOK
  <2> QED BY <1>1, <2>1, <2>2, <2>3 DEF Shape, Bounded, backend
<1>8. InShape(r)'
  <2>1. Queues(<<>>, <<>>, gen'[r], op'[r], record', Last')
    BY DEF Queues, Readers, Waiters
  <2> QED BY <1>3, <2>1 DEF InShape, Swapping, NothingLeft
<1>9. record' = record
  BY <1>1 DEF backend
<1>10. op[r] \in {"add", "tellAdded", "tellRemoved"} => "untold" \in excused'
  BY DEF Crash
<1> QED BY <1>2, <1>3, <1>5, <1>6, <1>7, <1>8, <1>9, <1>10, ShapeStep

\* What no token write touches.
Idles == UNCHANGED <<record, inbox, op, builds, excused>>

LEMMA ShapeWriters ==
  ASSUME Shape, NEW r \in Replicas, Idles,
         {names, token, granted, index}' \subseteq BOOLEAN,
         refresh' \in [Replicas -> {"none", "live", "retired"}],
         seed' \in [Replicas -> [pc : {"none", "track", "confirm"},
                                 retired : BOOLEAN]],
         \A p \in Replicas \ {r} : refresh'[p] = refresh[p] /\ seed'[p] = seed[p],
         budget' \in [{"adds", "removes", "starts", "crashes", "failures",
                       "tokens"} -> Nat],
         budget'["adds"] = budget["adds"], op[r] # "down"
  PROVE  Shape'
<1>1. TypeOK'
  BY DEF Shape, TypeOK, Idles, builds
<1>2. Last' = Last
  BY DEF Last
<1>3. Bounded'
  BY <1>2 DEF Shape, Bounded, Idles, builds
<1>4. \A p \in Replicas \ {r} : SameAt(p)
  BY DEF SameAt, Idles, builds
<1>5. Queues(lockq[r], reading[r], gen[r], op[r], record, Last)'
  BY <1>2, Typed DEF Idles, builds
<1>6. Swapping(r)'
  BY SwappingStays DEF Idles, builds
<1>7. InShape(r)'
  BY <1>5, <1>6 DEF InShape, Idles
<1>8. record' = record
  BY DEF Idles
<1> QED BY <1>1, <1>2, <1>3, <1>4, <1>7, <1>8, ShapeStep

LEMMA ShapeTokens ==
  ASSUME Shape, NEW r \in Replicas,
         \/ StartRefresh(r) \/ SaveToken(r) \/ SeedGrant(r) \/ TrackGrant(r)
         \/ ConfirmGrant(r)
  PROVE  Shape' /\ Idles
<1>1. Idles
  BY DEF StartRefresh, SaveToken, SeedGrant, TrackGrant, ConfirmGrant, Idles,
         backend
<1>2. op[r] # "down"
  BY DEF StartRefresh, SaveToken, SeedGrant, TrackGrant, ConfirmGrant, Shape,
         InShape, NothingLeft, NoSeed
<1>3. {names, token, granted, index}' \subseteq BOOLEAN
  BY DEF StartRefresh, SaveToken, SeedGrant, TrackGrant, ConfirmGrant, Shape,
         TypeOK, backend
<1>4. /\ refresh' \in [Replicas -> {"none", "live", "retired"}]
      /\ \A p \in Replicas \ {r} : refresh'[p] = refresh[p]
  BY DEF StartRefresh, SaveToken, SeedGrant, TrackGrant, ConfirmGrant, Shape,
         TypeOK
<1>5. /\ seed' \in [Replicas -> [pc : {"none", "track", "confirm"},
                                 retired : BOOLEAN]]
      /\ \A p \in Replicas \ {r} : seed'[p] = seed[p]
  <2>1. CASE UNCHANGED seed
    BY <2>1 DEF Shape, TypeOK
  <2>2. CASE SeedGrant(r)
    BY <2>2 DEF SeedGrant, Shape, TypeOK
  <2>3. CASE TrackGrant(r)
    BY <2>3 DEF TrackGrant, Shape, TypeOK
  <2>4. CASE ConfirmGrant(r)
    BY <2>4 DEF ConfirmGrant, Shape, TypeOK, NoSeed
  <2> QED BY <2>1, <2>2, <2>3, <2>4 DEF StartRefresh, SaveToken
<1>6. /\ budget' \in [{"adds", "removes", "starts", "crashes", "failures",
                       "tokens"} -> Nat]
      /\ budget'["adds"] = budget["adds"]
  BY DEF StartRefresh, SaveToken, SeedGrant, TrackGrant, ConfirmGrant, Spend,
         Shape, Bounded
<1> QED BY <1>1, <1>2, <1>3, <1>4, <1>5, <1>6, ShapeWriters

LEMMA ShapeNext == Shape /\ [Next]_vars => Shape'
<1> SUFFICES ASSUME Shape, [Next]_vars PROVE Shape'
  OBVIOUS
<1>1. CASE UNCHANGED vars
  BY <1>1
    DEF vars, backend, builds, writers, Shape, TypeOK, Bounded, Last, InShape,
              NothingLeft, NoSeed, Swapping, None
<1>2. ASSUME NEW r \in Replicas,
             TellAdded(r) \/ TellRemoved(r)
      PROVE  Shape'
  <2>1. CASE TellAdded(r)
    BY <2>1, Published DEF TellAdded, Shape, TypeOK
  <2>2. CASE TellRemoved(r)
    <3>1. (excused \subseteq Gaps)'
      BY <2>2 DEF TellRemoved, Shape, TypeOK, Gaps
    <3> QED BY <2>2, <3>1, Published DEF TellRemoved
  <2> QED BY <1>2, <2>1, <2>2
<1> QED BY <1>1, <1>2, ShapeAdd, ShapeRemove, ShapeErase, ShapeHear,
           ShapeReadCredentials, ShapeReadSettings, ShapeReadFails, ShapeBuildBegins,
           ShapeRecordNames, ShapeCheckAndReset, ShapeRegister, ShapeDestroyBegins,
           ShapeDecidePurge, ShapeReadGrants, ShapeDeleteTokens,
           ShapeDeleteGrantList, ShapeStart, ShapeList, ShapeSweep, ShapeCrash,
           ShapeTokens DEF Next

LEMMA ShapeInit == Init => Shape
<1> SUFFICES ASSUME Init PROVE Shape
  OBVIOUS
<1>1. TypeOK
  <2>1. /\ <<>> \in Seq({"added", "removed"}) /\ <<>> \in Seq(BuildJobs)
        /\ <<>> \in Seq(BuildJobs \cup RemoveJobs)
    OBVIOUS
  <2>2. 0 \in Versions /\ 1 \in Versions /\ None \in Versions \X Versions
        /\ <<1, 1>> \in Versions \X Versions
    BY DEF Versions, None
  <2> QED BY <2>1, <2>2 DEF Init, TypeOK, NoSeed, Gaps
<1>2. budget["adds"] = MaxAdds /\ Last = 1
  BY DEF Init, Last
<1>3. Bounded
  BY <1>2 DEF Init, Bounded, None
<1>4. ASSUME NEW r \in Replicas PROVE InShape(r)
  <2>1. lockq[r] = <<>> /\ reading[r] = <<>>
    BY DEF Init
  <2>2. Queues(<<>>, <<>>, gen[r], op[r], record, Last)
    BY DEF Queues, Readers, Waiters
  <2>3. op[r] = "down" => NothingLeft(r)
    BY DEF Init, NothingLeft
  <2> QED BY <2>1, <2>2, <2>3 DEF InShape, Swapping
<1> QED BY <1>1, <1>3, <1>4 DEF Shape

\* The registry keeps to its types: what each replica waits for, reads, builds
\* and holds, and what the backend stores.
THEOREM RegistryTyped == Spec => []TypeOK
<1>1. Shape => TypeOK
  BY DEF Shape
<1> QED BY <1>1, ShapeInit, ShapeNext, PTL DEF Spec

---------------------------------------------------------------------------
(* No client outlives the record.                                          *)

Doom == \A r \in Replicas : Doomed(r)

LEMMA StillAnnounced ==
  ASSUME NEW r \in Replicas, NEW p \in Replicas, Announced(p), inbox'[p] = inbox[p],
         \A s \in Replicas \ {r} : op'[s] = op[s],
         op[r] = "tellRemoved" => op'[r] = "tellRemoved"
  PROVE  Announced(p)'
  BY DEF Announced

LEMMA DoomStep ==
  ASSUME Doom, NEW r \in Replicas, record' = record, excused \subseteq excused',
         \A p \in Replicas \ {r} : SameAt(p),
         op[r] = "tellRemoved" => op'[r] = "tellRemoved" \/ "untold" \in excused',
         Doomed(r)'
  PROVE  Doom'
<1>1. ASSUME NEW p \in Replicas, p # r PROVE Doomed(p)'
  <2>1. SUFFICES ASSUME record = 0, "untold" \notin excused'
                 PROVE  /\ Live(lockq'[p], reading'[p], gen'[p]) => Announced(p)'
                        /\ client'[p] # None => Announced(p)' \/ Leaving(lockq'[p])
    BY DEF Doomed
  <2>2. SameAt(p) /\ Doomed(p) /\ "untold" \notin excused
    BY <1>1, <2>1 DEF Doom
  <2>3. Announced(p) => Announced(p)'
    BY <2>1, <2>2, StillAnnounced DEF SameAt
  <2> QED BY <2>1, <2>2, <2>3 DEF Doomed, SameAt
<1> QED BY <1>1 DEF Doom

LEMMA DoomHandled ==
  ASSUME Doom, NEW r \in Replicas, Handled(r),
         UNCHANGED <<record, inbox, gen, reading>>, excused \subseteq excused',
         \A p \in Replicas \ {r} : SameAt(p),
         client'[r] # None => /\ client[r] # None
                              /\ IsBuild(lockq[r][1]) \/ lockq[r][1].pc # "wait"
  PROVE  Doom'
<1>1. op[r] = "tellRemoved" => op'[r] = "tellRemoved"
  BY DEF Handled, Onward
<1>2. Announced(r) => Announced(r)'
  BY <1>1, StillAnnounced DEF SameAt
<1>3. Doomed(r)'
  <2>1. SUFFICES ASSUME record = 0, "untold" \notin excused'
                 PROVE  /\ Live(lockq'[r], reading[r], gen[r]) => Announced(r)'
                        /\ client'[r] # None => Announced(r)' \/ Leaving(lockq'[r])
    BY DEF Doomed
  <2>2. Doomed(r) /\ "untold" \notin excused
    BY <2>1 DEF Doom
  <2> QED BY <1>2, <2>1, <2>2 DEF Doomed, Handled
<1> QED BY <1>1, <1>3, DoomStep

LEMMA OthersHandled ==
  ASSUME NEW r \in Replicas, Handled(r), UNCHANGED <<inbox, gen, reading>>,
         \A p \in Replicas \ {r} : /\ mapped'[p] = mapped[p] /\ client'[p] = client[p]
                                   /\ refresh'[p] = refresh[p] /\ seed'[p] = seed[p]
  PROVE  \A p \in Replicas \ {r} : SameAt(p)
  BY DEF SameAt, Handled

LEMMA Sames ==
  ASSUME Shape, NEW r \in Replicas,
         \/ BuildBegins(r) \/ RecordNames(r) \/ CheckAndReset(r) \/ Register(r)
         \/ DestroyBegins(r) \/ DecidePurge(r) \/ ReadGrants(r)
         \/ DeleteTokens(r) \/ DeleteGrantList(r)
  PROVE  /\ Handled(r) /\ UNCHANGED <<record, inbox, gen, reading>>
         /\ \A p \in Replicas \ {r} : SameAt(p)
         /\ excused \subseteq excused'
<1>1. Handled(r)
  BY ShapeBuildBegins, ShapeRecordNames, ShapeCheckAndReset, ShapeRegister,
     ShapeDestroyBegins, ShapeDecidePurge, ShapeReadGrants, ShapeDeleteTokens,
     ShapeDeleteGrantList
<1>2. UNCHANGED <<record, inbox, gen, reading>>
  BY DEF BuildBegins, RecordNames, CheckAndReset, Register, DestroyBegins,
         DecidePurge, ReadGrants, DeleteTokens, DeleteGrantList, backend
<1>3. \A p \in Replicas \ {r} : mapped'[p] = mapped[p]
  BY DEF BuildBegins, RecordNames, CheckAndReset, Register, DestroyBegins,
         DecidePurge, ReadGrants, DeleteTokens, DeleteGrantList, DestroyEnds,
         Shape, TypeOK
<1>4. \A p \in Replicas \ {r} : client'[p] = client[p]
  BY DEF BuildBegins, RecordNames, CheckAndReset, Register, DestroyBegins,
         DecidePurge, ReadGrants, DeleteTokens, DeleteGrantList, Destroyed,
         Shape, TypeOK
<1>5. \A p \in Replicas \ {r} : refresh'[p] = refresh[p] /\ seed'[p] = seed[p]
  <2>1. CASE Destroyed(r)
    BY <2>1 DEF Destroyed, Shape, TypeOK
  <2>2. CASE UNCHANGED writers
    BY <2>2 DEF writers
  <2> QED BY <2>1, <2>2
          DEF BuildBegins, RecordNames, CheckAndReset, Register, DestroyBegins,
              DecidePurge, ReadGrants, DeleteTokens, DeleteGrantList
<1>6. excused \subseteq excused'
  BY DEF BuildBegins, RecordNames, CheckAndReset, Register, DestroyBegins,
         DecidePurge, ReadGrants, DeleteTokens, DeleteGrantList, Fails
<1> QED BY <1>1, <1>2, <1>3, <1>4, <1>5, <1>6, OthersHandled

LEMMA DoomHolder ==
  ASSUME Shape, Doom, NEW r \in Replicas,
         \/ BuildBegins(r) \/ RecordNames(r) \/ CheckAndReset(r) \/ Register(r)
         \/ DestroyBegins(r) \/ DecidePurge(r) \/ ReadGrants(r)
         \/ DeleteTokens(r) \/ DeleteGrantList(r)
  PROVE  Doom'
<1>1. /\ Handled(r) /\ UNCHANGED <<record, inbox, gen, reading>>
      /\ \A p \in Replicas \ {r} : SameAt(p)
      /\ excused \subseteq excused'
  BY Sames
<1>2. CASE BuildBegins(r) \/ RecordNames(r) \/ CheckAndReset(r)
  <2>1. lockq[r] # <<>> /\ IsBuild(lockq[r][1])
    BY <1>2, HolderKind DEF BuildBegins, RecordNames, CheckAndReset, Holder
  <2>2. client'[r] # None => client[r] # None
    BY <1>2 DEF BuildBegins, RecordNames, CheckAndReset, Shape, TypeOK
  <2> QED BY <1>1, <2>1, <2>2, DoomHandled
<1>3. CASE DestroyBegins(r)
  BY <1>1, <1>3, ShapeDestroyBegins, DoomHandled
<1>4. CASE DecidePurge(r) \/ ReadGrants(r) \/ DeleteTokens(r) \/ DeleteGrantList(r)
  <2>1. lockq[r][1].pc # "wait"
    BY <1>4, ShapeDecidePurge, ShapeReadGrants, ShapeDeleteTokens,
       ShapeDeleteGrantList
  <2>2. UNCHANGED client
    BY <1>4 DEF DecidePurge, ReadGrants, DeleteTokens, DeleteGrantList
  <2> QED BY <1>1, <2>1, <2>2, DoomHandled
<1>5. CASE Register(r)
  <2>1. /\ lockq[r] # <<>> /\ lockq[r][1].pc = "swap" /\ IsBuild(lockq[r][1])
        /\ 1 \in 1 .. Len(lockq[r])
    BY <1>5, HolderKind DEF Register, Holder
  <2>2. lockq[r][1].gen = gen[r] \/ Leaving(lockq[r])
    BY <2>1 DEF Shape, InShape, Swapping
  <2>3. Announced(r) => Announced(r)'
    BY <1>1, StillAnnounced DEF SameAt, Handled, Onward
  <2>4. Doomed(r)'
    <3>1. SUFFICES ASSUME record = 0, "untold" \notin excused'
                   PROVE  /\ Live(lockq'[r], reading[r], gen[r]) => Announced(r)'
                          /\ Announced(r)' \/ Leaving(lockq'[r])
      BY <1>1 DEF Doomed
    <3>2. Doomed(r) /\ "untold" \notin excused
      BY <1>1, <3>1 DEF Doom
    <3>3. lockq[r][1].gen = gen[r] => Announced(r)
      BY <2>1, <3>1, <3>2 DEF Doomed, Live
    <3> QED BY <1>1, <2>1, <2>2, <2>3, <3>1, <3>2, <3>3 DEF Doomed, Handled
  <2> QED BY <1>1, <2>4, DoomStep DEF Handled, Onward
<1> QED BY <1>2, <1>3, <1>4, <1>5

LEMMA DoomReads ==
  ASSUME Shape, Doom, NEW r \in Replicas,
         ReadCredentials(r) \/ ReadSettings(r) \/ ReadFails(r)
  PROVE  Doom'
<1>1. CASE ReadCredentials(r)
  <2>1. CredsRead(r)
    BY <1>1, CredentialsStep
  <2>2. UNCHANGED <<record, inbox, gen, lockq, mapped, client, writers, excused>>
    BY <1>1 DEF ReadCredentials, backend
  <2>3. \A p \in Replicas \ {r} : SameAt(p)
    BY <2>1, <2>2 DEF SameAt, CredsRead, writers
  <2>4. Announced(r) => Announced(r)'
    BY <2>1, <2>2, StillAnnounced DEF CredsRead, Onward
  <2>5. Doomed(r)'
    BY <2>1, <2>2, <2>4 DEF Doom, Doomed, CredsRead
  <2> QED BY <2>1, <2>2, <2>3, <2>5, DoomStep DEF CredsRead, Onward
<1>2. CASE ReadSettings(r)
  <2>1. SettingsStep(r)
    BY <1>2, ReadsSettings
  <2>2. UNCHANGED <<record, inbox, op, gen, mapped, client, writers, excused>>
    BY <1>2 DEF ReadSettings, backend
  <2>3. \A p \in Replicas \ {r} : SameAt(p)
    BY <2>1, <2>2 DEF SameAt, SettingsStep, writers
  <2>4. Announced(r) => Announced(r)'
    BY <2>2, StillAnnounced
  <2>5. Doomed(r)'
    BY <2>1, <2>2, <2>4 DEF Doom, Doomed, SettingsStep
  <2> QED BY <2>2, <2>3, <2>5, DoomStep
<1>3. CASE ReadFails(r)
  <2>1. Dropped(r)
    BY <1>3, DropsBuild
  <2>2. \A p \in Replicas \ {r} : SameAt(p)
    BY <2>1 DEF SameAt, Dropped, writers
  <2>3. Announced(r) => Announced(r)'
    BY <2>1, StillAnnounced DEF Dropped
  <2>4. Doomed(r)'
    BY <2>1, <2>3 DEF Doom, Doomed, Dropped
  <2> QED BY <2>1, <2>2, <2>4, DoomStep DEF Dropped
<1> QED BY <1>1, <1>2, <1>3

\* A build that has yet to read its record is not live.
LEMMA NotLiveYet ==
  ASSUME NEW q, NEW g, NEW rd, NEW rd2, Len(rd) \in Nat, Len(rd2) = Len(rd) + 1,
         \A i \in 1 .. Len(rd) : rd2[i] = rd[i], rd2[Len(rd) + 1].pc = "creds",
         Live(q, rd2, g)
  PROVE  Live(q, rd, g)
<1>1. ASSUME NEW i \in 1 .. Len(rd2), rd2[i].pc = "settings"
      PROVE  i \in 1 .. Len(rd)
  <2>1. i \in 1 .. Len(rd) \/ i = Len(rd) + 1
    OBVIOUS
  <2> QED BY <1>1, <2>1
<1> QED BY <1>1 DEF Live

LEMMA DoomHear ==
  ASSUME Shape, Doom, NEW r \in Replicas, Hear(r)
  PROVE  Doom'
<1>1. /\ inbox[r] \in Seq({"added", "removed"}) /\ inbox[r] # <<>>
      /\ inbox' = [inbox EXCEPT ![r] = Tail(@)]
      /\ inbox \in [Replicas -> Seq({"added", "removed"})]
  BY DEF Hear, Shape, TypeOK
<1>2. UNCHANGED <<record, op, mapped, client, writers, excused>>
  BY DEF Hear, backend
<1>3. inbox'[r] = Tail(inbox[r]) /\ \A p \in Replicas \ {r} : inbox'[p] = inbox[p]
  BY <1>1
<1>4. Awaited("message", op[r]) /\ op[r] \in Ops
  BY Typed, MessagesAwaited
<1>5. CASE Head(inbox[r]) = "added" /\ Reading(r, "message") /\ UNCHANGED <<gen, lockq>>
  <2>1. /\ \A p \in Replicas \ {r} : reading'[p] = reading[p]
        /\ Len(reading'[r]) = Len(reading[r]) + 1
        /\ \A i \in 1 .. Len(reading[r]) : reading'[r][i] = reading[r][i]
        /\ reading'[r][Len(reading[r]) + 1].pc = "creds"
    BY <1>4, <1>5, ReadingBegins
  <2>2. Live(lockq[r], reading'[r], gen[r]) => Live(lockq[r], reading[r], gen[r])
    <3>1. Len(reading[r]) \in Nat
      BY Typed
    <3> QED BY <2>1, <3>1, NotLiveYet
  <2>3. Announced(r) => Announced(r)'
    <3>1. /\ Len(inbox'[r]) = Len(inbox[r]) - 1 /\ Len(inbox[r]) \in Nat
          /\ inbox[r][1] = "added"
          /\ \A i \in 1 .. Len(inbox[r]) - 1 : inbox'[r][i] = inbox[r][i + 1]
      BY <1>1, <1>3, <1>5, Popped
    <3>2. ASSUME NEW i \in 1 .. Len(inbox[r]), inbox[r][i] = "removed"
          PROVE  \E k \in 1 .. Len(inbox'[r]) : inbox'[r][k] = "removed"
      <4>1. i # 1
        BY <3>1, <3>2
      <4>2. i - 1 \in 1 .. Len(inbox[r]) - 1 /\ i - 1 + 1 = i
        BY <3>1, <4>1
      <4>3. inbox'[r][i - 1] = "removed" /\ i - 1 \in 1 .. Len(inbox'[r])
        BY <3>1, <3>2, <4>2
      <4> QED BY <4>3
    <3> QED BY <1>2, <3>2 DEF Announced
  <2>4. Doomed(r)'
    BY <1>2, <1>5, <2>2, <2>3 DEF Doom, Doomed
  <2>5. \A p \in Replicas \ {r} : SameAt(p)
    BY <1>2, <1>3, <1>5, <2>1 DEF SameAt, writers
  <2> QED BY <1>2, <2>4, <2>5, DoomStep
<1>6. CASE Removing(r, "message") /\ UNCHANGED reading
  <2>1. /\ \A p \in Replicas \ {r} : gen'[p] = gen[p] /\ lockq'[p] = lockq[p]
        /\ ~Live(lockq'[r], reading[r], gen'[r])
        /\ Leaving(lockq'[r])
    BY <1>4, <1>6, RemovingBegins
  <2>2. Doomed(r)'
    BY <1>6, <2>1 DEF Doomed
  <2>3. \A p \in Replicas \ {r} : SameAt(p)
    BY <1>2, <1>3, <1>6, <2>1 DEF SameAt, writers
  <2> QED BY <1>2, <2>2, <2>3, DoomStep
<1> QED BY <1>5, <1>6 DEF Hear

LEMMA DoomCalls ==
  ASSUME Shape, Doom, NEW r \in Replicas,
         \/ Add(r) \/ TellAdded(r) \/ Remove(r) \/ Erase(r) \/ TellRemoved(r)
  PROVE  Doom'
<1>1. CASE Add(r)
  BY <1>1, ShapeAdd DEF Doom, Doomed
<1>2. CASE Erase(r)
  BY <1>2, ShapeErase DEF Doom, Doomed, Announced
<1>3. CASE Remove(r)
  <2>1. /\ op[r] = "idle" /\ Removing(r, "remove") /\ op' = [op EXCEPT ![r] = "remove"]
        /\ op \in [Replicas -> Ops]
        /\ UNCHANGED <<record, inbox, reading, mapped, client, writers, excused>>
    BY <1>3, Typed DEF Remove, backend
  <2>2. Awaited("remove", "remove") /\ "remove" \in Ops /\ Free(op[r])
    BY <2>1 DEF Awaited, Ops, Free
  <2>3. /\ \A p \in Replicas \ {r} : gen'[p] = gen[p] /\ lockq'[p] = lockq[p]
        /\ ~Live(lockq'[r], reading[r], gen'[r])
        /\ Leaving(lockq'[r])
    BY <2>1, <2>2, RemovingBegins
  <2>4. Doomed(r)'
    BY <2>1, <2>3 DEF Doomed
  <2>5. \A p \in Replicas \ {r} : SameAt(p)
    BY <2>1, <2>3 DEF SameAt, writers
  <2> QED BY <2>1, <2>4, <2>5, DoomStep
<1>4. CASE TellAdded(r) \/ TellRemoved(r)
  <2> DEFINE m == IF op[r] = "tellAdded" THEN "added" ELSE "removed"
  <2>1. /\ op[r] \in {"tellAdded", "tellRemoved"} /\ Publish(r, m)
        /\ op' = [op EXCEPT ![r] = "idle"] /\ excused \subseteq excused'
        /\ UNCHANGED <<backend, builds, writers, budget>> /\ (excused \subseteq Gaps)'
    <3>1. CASE TellAdded(r)
      BY <3>1 DEF TellAdded, Shape, TypeOK
    <3>2. CASE TellRemoved(r)
      BY <3>2 DEF TellRemoved, Shape, TypeOK, Gaps
    <3> QED BY <1>4, <3>1, <3>2
  <2>2. m \in {"added", "removed"} /\ (m = "added" <=> op[r] = "tellAdded")
    OBVIOUS
  <2> HIDE DEF m
  <2>3. /\ op'[r] = "idle"
        /\ \A p \in Replicas \ {r} : op'[p] = op[p]
        /\ \A p \in Replicas : Up(p) =>
             /\ Len(inbox'[p]) = Len(inbox[p]) + 1 /\ Len(inbox[p]) \in Nat
             /\ inbox'[p][Len(inbox[p]) + 1] = m
             /\ \A i \in 1 .. Len(inbox[p]) : inbox'[p][i] = inbox[p][i]
    BY <2>1, <2>2, Published
  <2>4. ASSUME NEW p \in Replicas, Up(p), Announced(p) PROVE Announced(p)'
    <3>1. /\ 1 .. Len(inbox[p]) \subseteq 1 .. Len(inbox'[p])
          /\ Len(inbox[p]) + 1 \in 1 .. Len(inbox'[p])
      BY <2>3, <2>4
    <3>2. CASE op[r] = "tellRemoved"
      BY <2>1, <2>2, <2>3, <2>4, <3>1, <3>2 DEF Announced
    <3>3. CASE op[r] # "tellRemoved"
      BY <2>3, <2>4, <3>1, <3>3 DEF Announced
    <3> QED BY <3>2, <3>3
  <2>5. ASSUME NEW p \in Replicas PROVE Doomed(p)'
    <3>1. CASE Up(p)
      BY <2>1, <2>4, <3>1 DEF Doom, Doomed, backend, builds
    <3>2. CASE ~Up(p)
      <4>1. lockq[p] = <<>> /\ reading[p] = <<>> /\ client[p] = None
        BY <3>2 DEF Up, Shape, InShape, NothingLeft
      <4>2. ~Live(lockq[p], reading[p], gen[p])
        BY <4>1 DEF Live
      <4> QED BY <2>1, <4>1, <4>2 DEF Doomed, builds
    <3> QED BY <3>1, <3>2
  <2> QED BY <2>5 DEF Doom
<1> QED BY <1>1, <1>2, <1>3, <1>4

LEMMA DoomStarts ==
  ASSUME Shape, Doom, NEW r \in Replicas, Start(r) \/ List(r) \/ Sweep(r) \/ Crash(r)
  PROVE  Doom'
<1>0. op \in [Replicas -> Ops] /\ Len(reading[r]) \in Nat
  BY Typed
<1>1. CASE Start(r)
  <2>1. /\ op[r] = "down" /\ UNCHANGED <<backend, inbox, builds, writers, excused>>
        /\ op' = [op EXCEPT ![r] = "list"]
    BY <1>1 DEF Start
  <2>2. Announced(r) => Announced(r)'
    BY <1>0, <2>1, StillAnnounced
  <2>3. Doomed(r)'
    BY <2>1, <2>2 DEF Doom, Doomed, backend, builds
  <2>4. \A p \in Replicas \ {r} : SameAt(p)
    BY <1>0, <2>1 DEF SameAt, builds, writers
  <2> QED BY <2>1, <2>3, <2>4, DoomStep DEF backend
<1>2. CASE List(r)
  <2>1. /\ op[r] = "list" /\ \A p \in Replicas \ {r} : op'[p] = op[p]
        /\ UNCHANGED <<record, inbox, gen, lockq, mapped, client, writers, excused>>
        /\ (Reading(r, "load") \/ UNCHANGED reading)
    BY <1>0, <1>2 DEF List, backend
  <2>2. /\ \A p \in Replicas \ {r} : reading'[p] = reading[p]
        /\ Live(lockq[r], reading'[r], gen[r]) => Live(lockq[r], reading[r], gen[r])
    <3>1. CASE Reading(r, "load")
      <4>1. Awaited("load", "load") /\ "load" \in Ops /\ Free(op[r])
        BY <2>1 DEF Awaited, Ops, Free
      <4>2. /\ \A p \in Replicas \ {r} : reading'[p] = reading[p]
            /\ Len(reading'[r]) = Len(reading[r]) + 1
            /\ \A i \in 1 .. Len(reading[r]) : reading'[r][i] = reading[r][i]
            /\ reading'[r][Len(reading[r]) + 1].pc = "creds"
        BY <3>1, <4>1, ReadingBegins
      <4> QED BY <1>0, <4>2, NotLiveYet
    <3>2. CASE UNCHANGED reading
      BY <3>2
    <3> QED BY <2>1, <3>1, <3>2
  <2>3. Announced(r) => Announced(r)'
    BY <2>1, StillAnnounced
  <2>4. Doomed(r)'
    BY <2>1, <2>2, <2>3 DEF Doom, Doomed
  <2>5. \A p \in Replicas \ {r} : SameAt(p)
    BY <2>1, <2>2 DEF SameAt, writers
  <2> QED BY <2>1, <2>4, <2>5, DoomStep
<1>3. CASE Sweep(r)
  <2>1. /\ op[r] = "sweep" /\ \A p \in Replicas \ {r} : op'[p] = op[p]
        /\ UNCHANGED <<record, inbox, reading, mapped, client, writers>>
        /\ excused \subseteq excused'
        /\ (Removing(r, "load") \/ UNCHANGED <<gen, lockq>>)
    BY <1>0, <1>3 DEF Sweep, backend
  <2>2. Announced(r) => Announced(r)'
    BY <2>1, StillAnnounced
  <2>3. CASE Removing(r, "load")
    <3>1. Awaited("load", "sweeping") /\ "sweeping" \in Ops /\ Free(op[r])
      BY <2>1 DEF Awaited, Ops, Free
    <3>2. /\ \A p \in Replicas \ {r} : gen'[p] = gen[p] /\ lockq'[p] = lockq[p]
          /\ ~Live(lockq'[r], reading[r], gen'[r])
          /\ Leaving(lockq'[r])
      BY <2>3, <3>1, RemovingBegins
    <3>3. Doomed(r)'
      BY <2>1, <3>2 DEF Doomed
    <3>4. \A p \in Replicas \ {r} : SameAt(p)
      BY <2>1, <3>2 DEF SameAt, writers
    <3> QED BY <2>1, <3>3, <3>4, DoomStep
  <2>4. CASE UNCHANGED <<gen, lockq>>
    <3>1. Doomed(r)'
      BY <2>1, <2>2, <2>4 DEF Doom, Doomed
    <3>2. \A p \in Replicas \ {r} : SameAt(p)
      BY <2>1, <2>4 DEF SameAt, writers
    <3> QED BY <2>1, <3>1, <3>2, DoomStep
  <2> QED BY <2>1, <2>3, <2>4
<1>4. CASE Crash(r)
  <2>1. /\ NothingLeft(r)' /\ \A p \in Replicas \ {r} : SameAt(p)
        /\ excused \subseteq excused' /\ record' = record
        /\ op[r] = "tellRemoved" => "untold" \in excused'
    BY <1>4, ShapeCrash
  <2>2. lockq'[r] = <<>> /\ reading'[r] = <<>> /\ client'[r] = None
    BY <2>1 DEF NothingLeft, None
  <2>3. ~Live(<<>>, <<>>, gen'[r])
    BY DEF Live
  <2>4. Doomed(r)'
    BY <2>2, <2>3 DEF Doomed, None
  <2> QED BY <2>1, <2>4, DoomStep
<1> QED BY <1>1, <1>2, <1>3, <1>4

LEMMA GhostNext == GhostInv /\ [Next]_vars => GhostInv'
<1> SUFFICES ASSUME Shape, Doom, [Next]_vars PROVE Shape' /\ Doom'
  BY DEF GhostInv, Doom
<1>1. CASE UNCHANGED vars
  <2>1. Doom'
    BY <1>1 DEF vars, backend, builds, Doom, Doomed, Announced, None
  <2> QED BY <2>1, ShapeNext
<1>2. ASSUME NEW r \in Replicas,
             \/ StartRefresh(r) \/ SaveToken(r) \/ SeedGrant(r) \/ TrackGrant(r)
             \/ ConfirmGrant(r)
      PROVE  Doom'
  <2>1. Idles
    BY <1>2, ShapeTokens
  <2> QED BY <2>1 DEF Idles, builds, Doom, Doomed, Announced, None
<1> QED BY <1>1, <1>2, ShapeNext, DoomHolder, DoomReads, DoomHear, DoomCalls,
           DoomStarts DEF Next

\* When everything has been heard and done, a removed instance has no client
\* on any replica, however many replicas, additions, removals, starts, crashes
\* and failures there were: the generation bumped before the lock is awaited
\* stops every build that had read the record, and the removal queues behind
\* the one build it cannot stop.
THEOREM NoClientOutlivesItsRecord == Spec => []NoGhostClient
<1>1. Init => GhostInv
  <2> SUFFICES ASSUME Init PROVE \A r \in Replicas : Doomed(r)
    BY ShapeInit DEF GhostInv
  <2>1. ASSUME NEW r \in Replicas, record = 0 PROVE Doomed(r)
    <3>0. ~mapped[r]
      <4>1. mapped[r] => record = 1
        BY DEF Init
      <4>2. record # 1
        BY <2>1
      <4> QED BY <4>1, <4>2
    <3>1. lockq[r] = <<>> /\ reading[r] = <<>> /\ client[r] = None
      BY <3>0 DEF Init
    <3>2. ~Live(<<>>, <<>>, gen[r])
      BY DEF Live
    <3> QED BY <3>1, <3>2 DEF Doomed
  <2> QED BY <2>1 DEF Doomed
<1>2. GhostInv => NoGhostClient
  <2> SUFFICES ASSUME GhostInv, Quiet, record = 0, "untold" \notin excused,
                      NEW r \in Replicas
               PROVE  client[r] = None
    BY DEF NoGhostClient, Listed
  <2>1. inbox[r] = <<>> /\ lockq[r] = <<>>
        /\ \A p \in Replicas : op[p] # "tellRemoved"
    BY DEF Quiet, Idle
  <2>2. ~Announced(r) /\ ~Leaving(lockq[r])
    BY <2>1 DEF Announced, Leaving
  <2> QED BY <2>2 DEF GhostInv, Doomed
<1> QED BY <1>1, <1>2, GhostNext, PTL DEF Spec

---------------------------------------------------------------------------
(* Every replica comes to run the record.                                  *)

Arrive == record # 0 /\ Unexcused => \A r \in Replicas : Up(r) => Arriving(r)

Tells == {"add", "tellAdded", "tellRemoved"}

LEMMA ArriveStep ==
  ASSUME Arrive, NEW r \in Replicas, record' = record, excused \subseteq excused',
         \A p \in Replicas \ {r} : SameAt(p),
         op[r] \in Tells => op'[r] \in Tells \/ "untold" \in excused',
         record # 0 /\ Unexcused' /\ op'[r] # "down" => Arriving(r)'
  PROVE  Arrive'
<1>1. SUFFICES ASSUME record # 0, Unexcused', NEW p \in Replicas, op'[p] # "down"
               PROVE  Arriving(p)'
  BY DEF Arrive, Up
<1>2. CASE p = r
  BY <1>1, <1>2
<1>3. CASE p # r
  <2>1. SameAt(p) /\ Unexcused
    BY <1>1, <1>3 DEF Unexcused
  <2>2. Arriving(p)
    BY <1>1, <2>1 DEF Arrive, Up, SameAt
  <2>3. Talking => Talking'
    BY <1>1 DEF Talking, SameAt, Tells, Unexcused
  <2>4. /\ Unremoved(p) => Unremoved(p)'
        /\ AllUpToDate(p) => AllUpToDate(p)'
        /\ SomeUpToDate(p) => SomeUpToDate(p)'
    BY <2>1 DEF SameAt, Unremoved, AllUpToDate, SomeUpToDate
  <2> QED BY <2>1, <2>2, <2>3, <2>4 DEF Arriving, SameAt
<1> QED BY <1>2, <1>3

\* The head of the queue is a build of the record that nothing has overtaken.
FreshHead(r) ==
    /\ IsBuild(lockq[r][1]) /\ lockq[r][1].gen = gen[r]
    /\ UpToDate(lockq[r][1], record)

LEMMA MovedFresh ==
  ASSUME Shape, NEW r \in Replicas, lockq[r] # <<>>, NEW e \in Jobs,
         SameJob(e, lockq[r][1]), Step(r, e), IsBuild(e) \/ e.pc # "wait",
         UNCHANGED <<record, gen, reading>>
  PROVE  /\ AllUpToDate(r) => AllUpToDate(r)'
         /\ SomeUpToDate(r) => SomeUpToDate(r)'
         /\ FreshHead(r) => SomeUpToDate(r)'
         /\ Leaving(lockq'[r]) => Leaving(lockq[r])
<1>1. /\ lockq'[r][1] = e /\ Len(lockq'[r]) = Len(lockq[r])
      /\ \A i \in 2 .. Len(lockq[r]) : lockq'[r][i] = lockq[r][i]
      /\ IsBuild(e) => (UpToDate(e, record) <=> UpToDate(lockq[r][1], record))
  BY Moved
<1>2. 1 \in 1 .. Len(lockq[r]) /\ Len(lockq[r]) \in Nat
  BY HolderKind, Typed
<1>3. ASSUME NEW i \in 1 .. Len(lockq[r])
      PROVE  /\ IsBuild(lockq'[r][i]) <=> IsBuild(lockq[r][i])
             /\ IsBuild(lockq[r][i]) =>
                  /\ lockq'[r][i].gen = lockq[r][i].gen
                  /\ UpToDate(lockq'[r][i], record) <=> UpToDate(lockq[r][i], record)
             /\ ~IsBuild(lockq'[r][i]) /\ lockq'[r][i].pc = "wait"
                => lockq[r][i].pc = "wait"
  <2>1. CASE i = 1
    BY <1>1, <2>1 DEF SameJob
  <2>2. CASE i # 1
    <3>1. i \in 2 .. Len(lockq[r])
      BY <1>2, <2>2
    <3> QED BY <1>1, <3>1
  <2> QED BY <2>1, <2>2
<1>4. AllUpToDate(r) => AllUpToDate(r)'
  BY <1>1, <1>3 DEF AllUpToDate
<1>5. SomeUpToDate(r) => SomeUpToDate(r)'
  BY <1>1, <1>3 DEF SomeUpToDate
<1>6. FreshHead(r) => SomeUpToDate(r)'
  BY <1>1, <1>2, <1>3 DEF SomeUpToDate, FreshHead
<1>7. Leaving(lockq'[r]) => Leaving(lockq[r])
  BY <1>1, <1>3 DEF Leaving
<1> QED BY <1>4, <1>5, <1>6, <1>7

LEMMA ReleasedFresh ==
  ASSUME Shape, NEW r \in Replicas, lockq[r] # <<>>, Release(r),
         UNCHANGED <<record, gen, reading>>
  PROVE  /\ AllUpToDate(r) => AllUpToDate(r)'
         /\ SomeUpToDate(r) => SomeUpToDate(r)' \/ FreshHead(r)
         /\ FreshHead(r) => AllUpToDate(r)' /\ ~Leaving(lockq'[r])
         /\ Leaving(lockq'[r]) => Leaving(lockq[r])
<1>1. lockq'[r] = Tail(lockq[r]) /\ lockq[r] \in Seq(Jobs)
  BY Released, Typed
<1>2. /\ Len(lockq'[r]) = Len(lockq[r]) - 1 /\ Len(lockq[r]) >= 1
      /\ Len(lockq[r]) \in Nat /\ 1 \in 1 .. Len(lockq[r])
      /\ \A i \in 1 .. Len(lockq[r]) - 1 : lockq'[r][i] = lockq[r][i + 1]
  BY <1>1, Popped
<1>3. ASSUME NEW i \in 1 .. Len(lockq'[r])
      PROVE  i + 1 \in 1 .. Len(lockq[r]) /\ lockq'[r][i] = lockq[r][i + 1]
             /\ 1 < i + 1
  BY <1>2
<1>4. ASSUME NEW i \in 1 .. Len(lockq[r]), i # 1
      PROVE  i - 1 \in 1 .. Len(lockq'[r]) /\ lockq'[r][i - 1] = lockq[r][i]
  <2>1. i - 1 \in 1 .. Len(lockq[r]) - 1 /\ i - 1 + 1 = i
    BY <1>2, <1>4
  <2> QED BY <1>2, <2>1
<1>5. AllUpToDate(r) => AllUpToDate(r)'
  BY <1>3 DEF AllUpToDate
<1>6. SomeUpToDate(r) => SomeUpToDate(r)' \/ FreshHead(r)
  <2>1. CASE \E i \in 1 .. Len(reading[r]) :
               reading[r][i].gen = gen[r] /\ UpToDate(reading[r][i], record)
    BY <2>1 DEF SomeUpToDate
  <2>2. ASSUME NEW i \in 1 .. Len(lockq[r]), IsBuild(lockq[r][i]),
               lockq[r][i].gen = gen[r], UpToDate(lockq[r][i], record)
        PROVE  SomeUpToDate(r)' \/ FreshHead(r)
    <3>1. CASE i = 1
      BY <2>2, <3>1 DEF FreshHead
    <3>2. CASE i # 1
      BY <1>4, <2>2, <3>2 DEF SomeUpToDate
    <3> QED BY <3>1, <3>2
  <2> QED BY <2>1, <2>2 DEF SomeUpToDate
<1>7. ASSUME FreshHead(r) PROVE AllUpToDate(r)' /\ ~Leaving(lockq'[r])
  <2>1. /\ lockq \in [Replicas -> Seq(Jobs)]
        /\ reading \in [Replicas -> Seq(BuildJobs)]
        /\ Queues(lockq[r], reading[r], gen[r], op[r], record, Last)
    BY Typed
  <2>2. ASSUME NEW i \in 1 .. Len(lockq'[r])
        PROVE  IsBuild(lockq'[r][i]) /\ UpToDate(lockq'[r][i], record)
    <3>1. /\ InOrder(lockq[r][1], lockq[r][i + 1], record)
          /\ IsBuild(lockq[r][i + 1])
      BY <1>2, <1>3, <1>7, <2>1 DEF Queues, Waiters, FreshHead
    <3> QED BY <1>3, <1>7, <3>1 DEF InOrder, FreshHead
  <2>3. ASSUME NEW k \in 1 .. Len(reading[r])
        PROVE  UpToDate(reading[r][k], record)
    <3>1. InOrder(lockq[r][1], reading[r][k], record)
      BY <1>2, <2>1 DEF Queues
    <3>2. IsBuild(reading[r][k])
      BY <2>1, Kinds
    <3> QED BY <1>7, <3>1, <3>2 DEF InOrder, FreshHead
  <2> QED BY <2>2, <2>3 DEF AllUpToDate, Leaving
<1>8. Leaving(lockq'[r]) => Leaving(lockq[r])
  BY <1>3 DEF Leaving
<1> QED BY <1>5, <1>6, <1>7, <1>8

LEMMA CallersOnward ==
  ASSUME NEW r \in Replicas, Onward(op[r], op'[r]),
         \A p \in Replicas \ {r} : op'[p] = op[p]
  PROVE  /\ Talking => Talking'
         /\ op[r] \in Tells => op'[r] \in Tells
         /\ op[r] \in {"remove", "erase"} => op'[r] \in {"remove", "erase"}
         /\ op[r] = "list" => op'[r] = "list"
<1>1. op[r] \in Tells => op'[r] \in Tells
  BY DEF Onward, Tells
<1>2. Talking => Talking'
  BY <1>1 DEF Talking, Tells
<1> QED BY <1>1, <1>2 DEF Onward

LEMMA ArriveMoved ==
  ASSUME Shape, Arrive, NEW r \in Replicas, lockq[r] # <<>>, NEW e \in Jobs,
         SameJob(e, lockq[r][1]), Step(r, e), UNCHANGED op,
         IsBuild(e) \/ e.pc # "wait",
         UNCHANGED <<record, inbox, gen, reading>>, excused \subseteq excused',
         \A p \in Replicas \ {r} : SameAt(p),
         client[r] = <<record, record>> =>
            \/ client'[r] = client[r] \/ Leaving(lockq[r])
            \/ IsBuild(lockq[r][1]) /\ lockq[r][1].gen = gen[r],
         mapped'[r] => mapped[r] \/ (IsBuild(lockq[r][1]) /\ lockq[r][1].gen = gen[r])
  PROVE  Arrive'
<1>1. /\ AllUpToDate(r) => AllUpToDate(r)'
      /\ SomeUpToDate(r) => SomeUpToDate(r)'
      /\ FreshHead(r) => SomeUpToDate(r)'
      /\ Leaving(lockq'[r]) => Leaving(lockq[r])
  BY MovedFresh
<1>2. AllUpToDate(r) /\ IsBuild(lockq[r][1]) /\ lockq[r][1].gen = gen[r]
      => FreshHead(r)
  BY HolderKind DEF AllUpToDate, FreshHead
<1>3. op[r] # "down"
  BY Typed
<1>4. ASSUME record # 0, Unexcused' PROVE Arriving(r)'
  <2>1. Unexcused
    BY <1>4 DEF Unexcused
  <2>2. Arriving(r)
    BY <1>3, <1>4, <2>1 DEF Arrive, Up
  <2>3. /\ Unremoved(r) => Unremoved(r)'
        /\ Talking => Talking'
    BY DEF Unremoved, Talking
  <2> QED BY <1>1, <1>2, <2>2, <2>3 DEF Arriving
<1> QED BY <1>4, ArriveStep

LEMMA ArriveReleased ==
  ASSUME Shape, Arrive, NEW r \in Replicas, lockq[r] # <<>>, Release(r),
         UNCHANGED <<record, inbox, gen, reading>>, excused \subseteq excused',
         \A p \in Replicas \ {r} : SameAt(p),
         record # 0 /\ FreshHead(r) => client'[r] = <<record, record>>,
         record # 0 /\ client[r] = <<record, record>> => client'[r] = client[r],
         mapped'[r] => mapped[r]
  PROVE  Arrive'
<1>1. /\ AllUpToDate(r) => AllUpToDate(r)'
      /\ SomeUpToDate(r) => SomeUpToDate(r)' \/ FreshHead(r)
      /\ FreshHead(r) => AllUpToDate(r)' /\ ~Leaving(lockq'[r])
      /\ Leaving(lockq'[r]) => Leaving(lockq[r])
  BY ReleasedFresh
<1>2. /\ Talking => Talking'
      /\ op[r] \in Tells => op'[r] \in Tells
      /\ op[r] \in {"remove", "erase"} => op'[r] \in {"remove", "erase"}
      /\ op[r] = "list" => op'[r] = "list"
  BY Released, CallersOnward
<1>3. op[r] # "down"
  BY Typed
<1>4. ASSUME record # 0, Unexcused' PROVE Arriving(r)'
  <2>1. Unexcused
    BY <1>4 DEF Unexcused
  <2>2. Arriving(r)
    BY <1>3, <1>4, <2>1 DEF Arrive, Up
  <2>3. Unremoved(r) => Unremoved(r)'
    BY DEF Unremoved
  <2> QED BY <1>1, <1>2, <1>4, <2>2, <2>3 DEF Arriving
<1> QED BY <1>2, <1>4, ArriveStep

LEMMA FreshIsRecord ==
  ASSUME Shape, NEW r \in Replicas, lockq[r] # <<>>, record # 0, FreshHead(r)
  PROVE  Built(r) = <<record, record>>
<1>1. WaiterOK(lockq[r][1], gen[r], op[r], Last) /\ Head(lockq[r]) = lockq[r][1]
  BY HolderKind, Typed DEF Queues, Waiters
<1> QED BY <1>1 DEF FreshHead, WaiterOK, UpToDate, Built

LEMMA ArriveHolder ==
  ASSUME Shape, Arrive, NEW r \in Replicas,
         \/ BuildBegins(r) \/ RecordNames(r) \/ CheckAndReset(r) \/ Register(r)
         \/ DestroyBegins(r) \/ DecidePurge(r) \/ ReadGrants(r)
         \/ DeleteTokens(r) \/ DeleteGrantList(r)
  PROVE  Arrive'
<1>1. /\ UNCHANGED <<record, inbox, gen, reading>>
      /\ \A p \in Replicas \ {r} : SameAt(p)
      /\ excused \subseteq excused'
  BY Sames
<1>2. lockq[r] # <<>>
  BY DEF BuildBegins, RecordNames, CheckAndReset, Register, DestroyBegins,
         DecidePurge, ReadGrants, DeleteTokens, DeleteGrantList, Holder
<1>3. /\ Head(lockq[r]) = lockq[r][1] /\ 1 \in 1 .. Len(lockq[r])
      /\ lockq[r][1] \in Jobs
      /\ IsBuild(lockq[r][1]) <=> Builds(r)
      /\ IsBuild(lockq[r][1]) <=> lockq[r][1] \in BuildJobs
      /\ ~IsBuild(lockq[r][1]) <=> lockq[r][1] \in RemoveJobs
      /\ lockq[r][1].pc \in {"name", "check", "swap"} => IsBuild(lockq[r][1])
      /\ lockq[r][1].pc \in {"list", "grants", "delete", "unlist"}
         => ~IsBuild(lockq[r][1])
  BY <1>2, HolderKind
<1>4. CASE BuildBegins(r)
  <2> DEFINE e == [lockq[r][1] EXCEPT !.pc = "name"]
  <2>1. lockq[r][1] \in BuildJobs
    BY <1>3, <1>4 DEF BuildBegins
  <2>2. e \in Jobs /\ SameJob(e, lockq[r][1]) /\ e.pc = "name"
    BY <2>1, BuildMoves
  <2>3. /\ UNCHANGED client
        /\ \/ Release(r) /\ UNCHANGED mapped /\ lockq[r][1].gen # gen[r]
           \/ Step(r, e) /\ UNCHANGED op /\ lockq[r][1].gen = gen[r]
    BY <1>3, <1>4 DEF BuildBegins, Superseded
  <2> HIDE DEF e
  <2> QED BY <1>1, <1>2, <1>3, <2>1, <2>2, <2>3, ArriveReleased, ArriveMoved
            DEF FreshHead
<1>5. CASE RecordNames(r)
  <2> DEFINE e == [lockq[r][1] EXCEPT !.pc = "check"]
  <2>1. lockq[r][1] \in BuildJobs
    BY <1>3, <1>5 DEF RecordNames, Holder
  <2>2. e \in Jobs /\ SameJob(e, lockq[r][1]) /\ e.pc = "check"
    BY <2>1, BuildMoves
  <2>3. UNCHANGED <<client, mapped>> /\ Step(r, e) /\ UNCHANGED op
    BY <1>3, <1>5 DEF RecordNames
  <2> HIDE DEF e
  <2> QED BY <1>1, <1>2, <2>2, <2>3, ArriveMoved
<1>6. CASE CheckAndReset(r)
  <2> DEFINE e == [lockq[r][1] EXCEPT !.pc = "swap"]
  <2>1. lockq[r][1] \in BuildJobs /\ IsBuild(lockq[r][1])
    BY <1>3, <1>6 DEF CheckAndReset, Holder
  <2>2. e \in Jobs /\ SameJob(e, lockq[r][1]) /\ e.pc = "swap"
    BY <2>1, BuildMoves
  <2>3. /\ UNCHANGED mapped
        /\ \/ /\ Release(r) /\ UNCHANGED client
              /\ lockq[r][1].gen # gen[r] \/ client[r] = Built(r)
           \/ Step(r, e) /\ UNCHANGED op /\ lockq[r][1].gen = gen[r]
    BY <1>3, <1>6 DEF CheckAndReset, Superseded, SameData
  <2> HIDE DEF e
  <2>4. CASE Release(r) /\ UNCHANGED client
             /\ (lockq[r][1].gen # gen[r] \/ client[r] = Built(r))
    <3>1. record # 0 /\ FreshHead(r) => client'[r] = <<record, record>>
      BY <1>2, <2>4, FreshIsRecord DEF FreshHead
    <3> QED BY <1>1, <1>2, <2>3, <2>4, <3>1, ArriveReleased
  <2>5. CASE Step(r, e) /\ UNCHANGED op /\ lockq[r][1].gen = gen[r]
    BY <1>1, <1>2, <2>1, <2>2, <2>3, <2>5, ArriveMoved
  <2> QED BY <2>3, <2>4, <2>5
<1>7. CASE Register(r)
  <2>1. /\ Release(r) /\ UNCHANGED mapped /\ client'[r] = Built(r)
        /\ lockq[r][1].pc = "swap"
    BY <1>3, <1>7 DEF Register, Holder, Shape, TypeOK
  <2>2. client[r] = None
    BY <1>2, <2>1 DEF Shape, InShape, Swapping
  <2>3. record # 0 => client[r] # <<record, record>>
    BY <2>2 DEF None
  <2>4. record # 0 /\ FreshHead(r) => client'[r] = <<record, record>>
    BY <1>2, <2>1, FreshIsRecord
  <2> QED BY <1>1, <1>2, <2>1, <2>3, <2>4, ArriveReleased
<1>8. CASE DestroyBegins(r)
  <2> DEFINE e == [lockq[r][1] EXCEPT !.pc = "list", !.held = client[r] # None]
  <2>1. lockq[r][1] \in RemoveJobs /\ lockq[r][1].pc = "wait" /\ ~IsBuild(lockq[r][1])
    BY <1>3, <1>8 DEF DestroyBegins, Holder
  <2>2. e \in RemoveJobs /\ e.from = lockq[r][1].from /\ e.pc = "list"
    BY <2>1 DEF RemoveJobs
  <2>3. Step(r, e) /\ UNCHANGED <<op, mapped>>
    BY <1>3, <1>8 DEF DestroyBegins
  <2> HIDE DEF e
  <2>4. e \in Jobs /\ SameJob(e, lockq[r][1])
    BY <2>1, <2>2, RemovalMoves
  <2>5. Leaving(lockq[r])
    BY <1>3, <2>1 DEF Leaving
  <2> QED BY <1>1, <1>2, <2>2, <2>3, <2>4, <2>5, ArriveMoved
<1>9. CASE DecidePurge(r) \/ ReadGrants(r) \/ DeleteTokens(r) \/ DeleteGrantList(r)
  <2>1. lockq[r][1] \in RemoveJobs /\ ~IsBuild(lockq[r][1]) /\ UNCHANGED client
    BY <1>3, <1>9
      DEF DecidePurge, ReadGrants, DeleteTokens, DeleteGrantList, Holder
  <2>2. ~FreshHead(r)
    BY <2>1 DEF FreshHead
  <2>3. mapped'[r] => mapped[r]
    BY <1>9
      DEF DecidePurge, ReadGrants, DeleteTokens, DeleteGrantList, DestroyEnds,
                Shape, TypeOK
  <2>4. \/ Release(r)
        \/ /\ UNCHANGED op
           /\ \E e \in RemoveJobs : /\ Step(r, e) /\ e.from = lockq[r][1].from
                                    /\ e.pc # "wait"
    <3>1. index \in BOOLEAN
      BY DEF Shape, TypeOK
    <3> DEFINE a == [lockq[r][1] EXCEPT !.pc = "grants"]
               b == [lockq[r][1] EXCEPT !.pc = "delete", !.grant = index]
               c == [lockq[r][1] EXCEPT !.pc = "unlist"]
    <3>2. /\ a \in RemoveJobs /\ a.from = lockq[r][1].from /\ a.pc # "wait"
          /\ b \in RemoveJobs /\ b.from = lockq[r][1].from /\ b.pc # "wait"
          /\ c \in RemoveJobs /\ c.from = lockq[r][1].from /\ c.pc # "wait"
      BY <2>1, <3>1 DEF RemoveJobs
    <3>3. Release(r) \/ (UNCHANGED op /\ (Step(r, a) \/ Step(r, b) \/ Step(r, c)))
      BY <1>3, <1>9
         DEF DecidePurge, ReadGrants, DeleteTokens, DeleteGrantList, DestroyEnds
    <3> HIDE DEF a, b, c
    <3> QED BY <3>2, <3>3
  <2>5. CASE Release(r)
    BY <1>1, <1>2, <2>1, <2>2, <2>3, <2>5, ArriveReleased
  <2>6. ASSUME UNCHANGED op, NEW e \in RemoveJobs, Step(r, e),
               e.from = lockq[r][1].from, e.pc # "wait"
        PROVE  Arrive'
    <3>1. e \in Jobs /\ SameJob(e, lockq[r][1])
      BY <2>1, <2>6, RemovalMoves
    <3> QED BY <1>1, <1>2, <2>1, <2>3, <2>6, <3>1, ArriveMoved
  <2> QED BY <2>4, <2>5, <2>6
<1> QED BY <1>4, <1>5, <1>6, <1>7, <1>8, <1>9

LEMMA ArriveReads ==
  ASSUME Shape, Arrive, NEW r \in Replicas, ReadCredentials(r) \/ ReadSettings(r)
  PROVE  Arrive'
<1>1. CASE ReadCredentials(r)
  <2>1. CredsRead(r)
    BY <1>1, CredentialsStep
  <2>2. UNCHANGED <<record, inbox, gen, lockq, mapped, client, writers, excused>>
    BY <1>1 DEF ReadCredentials, backend
  <2>3. \A p \in Replicas \ {r} : SameAt(p)
    BY <2>1, <2>2 DEF SameAt, CredsRead, writers
  <2>4. ASSUME record # 0, Unexcused, op'[r] # "down" PROVE Arriving(r)'
    <3>1. /\ op' = op /\ Len(reading'[r]) = Len(reading[r])
          /\ \A i \in 1 .. Len(reading[r]) :
               /\ reading'[r][i].gen = reading[r][i].gen
               /\ UpToDate(reading[r][i], record) <=> UpToDate(reading'[r][i], record)
      BY <2>1, <2>4 DEF CredsRead
    <3>2. Arriving(r)
      BY <2>4, <3>1 DEF Arrive, Up
    <3>3. AllUpToDate(r) => AllUpToDate(r)'
      BY <2>2, <3>1 DEF AllUpToDate
    <3>4. SomeUpToDate(r) => SomeUpToDate(r)'
      BY <2>2, <3>1 DEF SomeUpToDate
    <3>5. (Unremoved(r) => Unremoved(r)') /\ (Talking => Talking')
      BY <2>2, <3>1 DEF Unremoved, Talking
    <3> QED BY <2>2, <3>1, <3>2, <3>3, <3>4, <3>5 DEF Arriving
  <2>5. op[r] \in Tells => op'[r] \in Tells
    BY <2>1, CallersOnward DEF CredsRead
  <2> QED BY <2>2, <2>3, <2>4, <2>5, ArriveStep DEF Unexcused
<1>2. CASE ReadSettings(r)
  <2>1. SettingsStep(r) /\ op[r] # "down"
    BY <1>2, ReadsSettings
  <2>2. UNCHANGED <<record, inbox, op, gen, mapped, client, writers, excused>>
    BY <1>2 DEF ReadSettings, backend
  <2>3. \A p \in Replicas \ {r} : SameAt(p)
    BY <2>1, <2>2 DEF SameAt, SettingsStep, writers
  <2>4. Len(reading[r]) \in Nat /\ Len(lockq[r]) \in Nat /\ Len(reading[r]) >= 1
    BY <2>1, Typed, Popped DEF SettingsStep
  <2> DEFINE n == Len(lockq[r]) + 1
  <2>5. /\ n \in 1 .. Len(lockq'[r]) /\ 1 .. Len(lockq[r]) \subseteq 1 .. Len(lockq'[r])
        /\ 1 \in 1 .. Len(reading[r])
        /\ \A i \in 1 .. Len(lockq'[r]) : i \in 1 .. Len(lockq[r]) \/ i = n
        /\ \A i \in 1 .. Len(reading'[r]) : i + 1 \in 1 .. Len(reading[r])
        /\ \A i \in 1 .. Len(reading[r]) :
             i = 1 \/ (i - 1 \in 1 .. Len(reading'[r]) /\ i - 1 + 1 = i)
    <3>1. Len(reading'[r]) = Len(reading[r]) - 1 /\ Len(lockq'[r]) = Len(lockq[r]) + 1
      BY <2>1 DEF SettingsStep
    <3> QED BY SMTT(30), <2>4, <3>1
  <2>6. /\ \A i \in 1 .. Len(reading'[r]) : reading'[r][i] = reading[r][i + 1]
        /\ \A i \in 1 .. Len(lockq[r]) : lockq'[r][i] = lockq[r][i]
        /\ IsBuild(lockq'[r][n]) /\ lockq'[r][n].gen = reading[r][1].gen
        /\ UpToDate(lockq'[r][n], record) <=> UpToDate(reading[r][1], record)
        /\ Leaving(lockq[r]) <=> Leaving(lockq'[r])
    BY <2>1 DEF SettingsStep
  <2> HIDE DEF n
  <2>7. AllUpToDate(r) => AllUpToDate(r)'
    <3>1. ASSUME AllUpToDate(r), NEW i \in 1 .. Len(lockq'[r]), IsBuild(lockq'[r][i]),
                 lockq'[r][i].gen = gen[r]
          PROVE  UpToDate(lockq'[r][i], record)
      <4>1. CASE i \in 1 .. Len(lockq[r])
        BY <2>6, <3>1, <4>1 DEF AllUpToDate
      <4>2. CASE i = n
        BY <2>5, <2>6, <3>1, <4>2 DEF AllUpToDate
      <4> QED BY <2>5, <4>1, <4>2
    <3>2. ASSUME AllUpToDate(r), NEW i \in 1 .. Len(reading'[r]),
                 reading'[r][i].gen = gen[r]
          PROVE  UpToDate(reading'[r][i], record)
      <4>1. i + 1 \in 1 .. Len(reading[r]) /\ reading'[r][i] = reading[r][i + 1]
        BY <2>5, <2>6
      <4> QED BY <3>2, <4>1 DEF AllUpToDate
    <3> QED BY <2>2, <3>1, <3>2 DEF AllUpToDate
  <2>8. SomeUpToDate(r) => SomeUpToDate(r)'
    <3>1. ASSUME NEW i \in 1 .. Len(reading[r]), reading[r][i].gen = gen[r],
                 UpToDate(reading[r][i], record)
          PROVE  SomeUpToDate(r)'
      <4>1. CASE i = 1
        BY <2>2, <2>5, <2>6, <3>1, <4>1 DEF SomeUpToDate
      <4>2. CASE i # 1
        <5>1. i - 1 \in 1 .. Len(reading'[r]) /\ reading'[r][i - 1] = reading[r][i]
          BY <2>5, <2>6, <4>2
        <5> QED BY <2>2, <3>1, <5>1 DEF SomeUpToDate
      <4> QED BY <4>1, <4>2
    <3>2. ASSUME NEW i \in 1 .. Len(lockq[r]), IsBuild(lockq[r][i]),
                 lockq[r][i].gen = gen[r], UpToDate(lockq[r][i], record)
          PROVE  SomeUpToDate(r)'
      BY <2>2, <2>5, <2>6, <3>2 DEF SomeUpToDate
    <3> QED BY <3>1, <3>2 DEF SomeUpToDate
  <2>9. ASSUME record # 0, Unexcused PROVE Arriving(r)'
    <3>1. Arriving(r)
      BY <2>1, <2>9 DEF Arrive, Up
    <3>2. (Unremoved(r) => Unremoved(r)') /\ (Talking => Talking')
      BY <2>2 DEF Unremoved, Talking
    <3> QED BY <2>2, <2>6, <2>7, <2>8, <3>1, <3>2 DEF Arriving
  <2> QED BY <2>2, <2>3, <2>9, ArriveStep DEF Unexcused
<1> QED BY <1>1, <1>2

\* A build that has just begun is of the record, whatever it is by then.
LEMMA NewlyUpToDate ==
  ASSUME NEW r \in Replicas, Len(reading[r]) \in Nat,
         Len(reading'[r]) = Len(reading[r]) + 1, gen'[r] = gen[r],
         reading'[r][Len(reading[r]) + 1].pc = "creds",
         reading'[r][Len(reading[r]) + 1].gen = gen[r]
  PROVE  SomeUpToDate(r)'
<1> DEFINE n == Len(reading[r]) + 1
<1>1. n \in 1 .. Len(reading'[r])
  OBVIOUS
<1>2. UpToDate(reading'[r][n], record')
  BY DEF UpToDate
<1> QED BY <1>1, <1>2 DEF SomeUpToDate

LEMMA ArriveHear ==
  ASSUME Shape, Arrive, NEW r \in Replicas, Hear(r)
  PROVE  Arrive'
<1>1. /\ inbox[r] \in Seq({"added", "removed"}) /\ inbox[r] # <<>>
      /\ inbox' = [inbox EXCEPT ![r] = Tail(@)]
      /\ inbox \in [Replicas -> Seq({"added", "removed"})]
  BY DEF Hear, Shape, TypeOK
<1>2. UNCHANGED <<record, op, mapped, client, writers, excused>>
  BY DEF Hear, backend
<1>3. /\ inbox'[r] = Tail(inbox[r]) /\ \A p \in Replicas \ {r} : inbox'[p] = inbox[p]
      /\ Len(inbox'[r]) = Len(inbox[r]) - 1 /\ Len(inbox[r]) \in Nat
      /\ Len(inbox[r]) >= 1 /\ Head(inbox[r]) = inbox[r][1]
      /\ \A i \in 1 .. Len(inbox[r]) - 1 : inbox'[r][i] = inbox[r][i + 1]
      /\ inbox'[r] \in Seq({"added", "removed"})
  BY <1>1, Popped
<1>4. Awaited("message", op[r]) /\ op[r] \in Ops /\ Len(reading[r]) \in Nat
  BY Typed, MessagesAwaited
<1>5. Len(inbox[r]) > 1
      => inbox'[r] # <<>> /\ inbox'[r][Len(inbox'[r])] = inbox[r][Len(inbox[r])]
  <2>1. SUFFICES ASSUME Len(inbox[r]) > 1
                 PROVE  inbox'[r] # <<>>
                        /\ inbox'[r][Len(inbox'[r])] = inbox[r][Len(inbox[r])]
    OBVIOUS
  <2>2. Len(inbox[r]) - 1 \in 1 .. Len(inbox[r]) - 1
        /\ Len(inbox[r]) - 1 + 1 = Len(inbox[r]) /\ Len(inbox[r]) - 1 # 0
    <3>1. \A n \in Nat : n > 1 => n - 1 \in 1 .. n - 1 /\ n - 1 + 1 = n /\ n - 1 # 0
      OBVIOUS
    <3> QED BY <1>3, <2>1, <3>1
  <2>3. Len(<<>>) = 0
    OBVIOUS
  <2> QED BY <1>3, <2>2, <2>3
<1>6. Len(inbox[r]) <= 1 => Len(inbox[r]) = 1 /\ Unremoved(r)'
  <2>1. SUFFICES ASSUME Len(inbox[r]) <= 1
                 PROVE  Len(inbox[r]) = 1 /\ Unremoved(r)'
    OBVIOUS
  <2>2. Len(inbox[r]) = 1 /\ Len(inbox'[r]) = 0
    <3>1. \A n \in Nat : n <= 1 /\ n >= 1 => n = 1 /\ n - 1 = 0
      OBVIOUS
    <3> QED BY <1>3, <2>1, <3>1
  <2> QED BY <2>2 DEF Unremoved
<1>7. Unremoved(r) => Unremoved(r)' /\ Head(inbox[r]) = "added"
  <2>1. /\ 1 \in 1 .. Len(inbox[r])
        /\ \A i \in 1 .. Len(inbox'[r]) : /\ i \in 1 .. Len(inbox[r]) - 1
                                          /\ i + 1 \in 1 .. Len(inbox[r])
    BY <1>3
  <2> QED BY <1>3, <2>1 DEF Unremoved
<1>8. Talking => Talking'
  BY <1>2 DEF Talking
<1>9. CASE Head(inbox[r]) = "added" /\ Reading(r, "message") /\ UNCHANGED <<gen, lockq>>
  <2>1. /\ \A p \in Replicas \ {r} : reading'[p] = reading[p]
        /\ Len(reading'[r]) = Len(reading[r]) + 1
        /\ reading'[r][Len(reading[r]) + 1].pc = "creds"
        /\ reading'[r][Len(reading[r]) + 1].gen = gen[r]
    BY <1>4, <1>9, ReadingBegins
  <2>2. SomeUpToDate(r)'
    BY <1>4, <1>9, <2>1, NewlyUpToDate
  <2>3. ASSUME record # 0, Unexcused, op[r] # "down" PROVE Arriving(r)'
    <3>1. Arriving(r)
      BY <2>3 DEF Arrive, Up
    <3>2. Len(inbox[r]) > 1 \/ Len(inbox[r]) <= 1
      BY <1>3
    <3> QED BY <1>2, <1>5, <1>6, <1>7, <1>8, <2>2, <3>1, <3>2 DEF Arriving
  <2>4. \A p \in Replicas \ {r} : SameAt(p)
    BY <1>2, <1>3, <1>9, <2>1 DEF SameAt, writers
  <2> QED BY <1>2, <2>3, <2>4, ArriveStep DEF Unexcused
<1>10. CASE Head(inbox[r]) = "removed" /\ Removing(r, "message") /\ UNCHANGED reading
  <2>1. \A p \in Replicas \ {r} : gen'[p] = gen[p] /\ lockq'[p] = lockq[p]
    BY <1>4, <1>10, RemovingBegins
  <2>2. ~Unremoved(r)
    BY <1>7, <1>10
  <2>3. inbox[r][Len(inbox[r])] = "added" => Len(inbox[r]) > 1
    BY <1>3, <1>10
  <2>4. ASSUME record # 0, Unexcused, op[r] # "down" PROVE Arriving(r)'
    <3>1. Arriving(r)
      BY <2>4 DEF Arrive, Up
    <3> QED BY <1>2, <1>5, <1>8, <2>2, <2>3, <3>1 DEF Arriving
  <2>5. \A p \in Replicas \ {r} : SameAt(p)
    BY <1>2, <1>3, <1>10, <2>1 DEF SameAt, writers
  <2> QED BY <1>2, <2>4, <2>5, ArriveStep DEF Unexcused
<1> QED BY <1>9, <1>10 DEF Hear

LEMMA ArriveCalls ==
  ASSUME Shape, Arrive, NEW r \in Replicas,
         \/ Add(r) \/ TellAdded(r) \/ Remove(r) \/ Erase(r) \/ TellRemoved(r)
  PROVE  Arrive'
<1>0. op \in [Replicas -> Ops]
  BY Typed
<1>1. CASE Add(r)
  BY <1>1, ShapeAdd DEF Arrive, Arriving, Talking
<1>2. CASE Erase(r)
  BY <1>2 DEF Erase, Arrive
<1>3. CASE Remove(r)
  <2>1. /\ op[r] = "idle" /\ Removing(r, "remove") /\ op' = [op EXCEPT ![r] = "remove"]
        /\ UNCHANGED <<record, inbox, reading, mapped, client, writers, excused>>
    BY <1>3 DEF Remove, backend
  <2>2. Awaited("remove", "remove") /\ "remove" \in Ops /\ Free(op[r])
    BY <2>1 DEF Awaited, Ops, Free
  <2>3. \A p \in Replicas \ {r} : gen'[p] = gen[p] /\ lockq'[p] = lockq[p]
    BY <2>1, <2>2, RemovingBegins
  <2>4. Arriving(r)' /\ op[r] \notin Tells
    BY <1>0, <2>1 DEF Arriving, Tells
  <2>5. \A p \in Replicas \ {r} : SameAt(p)
    BY <1>0, <2>1, <2>3 DEF SameAt, writers
  <2> QED BY <2>1, <2>4, <2>5, ArriveStep
<1>4. CASE TellAdded(r)
  <2>1. /\ op'[r] = "idle"
        /\ \A p \in Replicas \ {r} : op'[p] = op[p]
        /\ \A p \in Replicas : Up(p) =>
             /\ Len(inbox'[p]) = Len(inbox[p]) + 1 /\ Len(inbox[p]) \in Nat
             /\ inbox'[p][Len(inbox[p]) + 1] = "added"
    BY <1>4, Published DEF TellAdded, Shape, TypeOK
  <2>2. ASSUME NEW p \in Replicas, op'[p] # "down" PROVE Arriving(p)'
    <3>1. Up(p)
      BY <1>4, <2>1, <2>2 DEF Up, TellAdded
    <3>2. inbox'[p] # <<>>
      <4>1. Len(<<>>) = 0 /\ Len(inbox'[p]) # 0
        BY <2>1, <3>1
      <4> QED BY <4>1
    <3> QED BY <2>1, <3>1, <3>2 DEF Arriving
  <2> QED BY <2>2 DEF Arrive, Up
<1>5. CASE TellRemoved(r)
  <2>1. record' = record /\ (record # 0 => "crossed" \in excused')
    BY <1>5 DEF TellRemoved, backend
  <2> QED BY <2>1 DEF Arrive, Unexcused
<1> QED BY <1>1, <1>2, <1>3, <1>4, <1>5

LEMMA ArriveStarts ==
  ASSUME Shape, Arrive, NEW r \in Replicas,
         Start(r) \/ List(r) \/ Sweep(r) \/ Crash(r)
  PROVE  Arrive'
<1>0. op \in [Replicas -> Ops] /\ Len(reading[r]) \in Nat
  BY Typed
<1>1. CASE Start(r)
  <2>1. /\ op[r] = "down" /\ UNCHANGED <<backend, inbox, builds, writers, excused>>
        /\ op' = [op EXCEPT ![r] = "list"]
    BY <1>1 DEF Start
  <2>2. inbox'[r] = <<>> /\ reading'[r] = <<>> /\ lockq'[r] = <<>> /\ ~mapped'[r]
        /\ op'[r] = "list"
    BY <1>0, <2>1 DEF Shape, InShape, NothingLeft, builds
  <2>3. Unremoved(r)' /\ AllUpToDate(r)'
    BY <2>2 DEF Unremoved, AllUpToDate
  <2>4. Arriving(r)'
    BY <2>2, <2>3 DEF Arriving
  <2>5. \A p \in Replicas \ {r} : SameAt(p)
    BY <1>0, <2>1 DEF SameAt, builds, writers
  <2> QED BY <2>1, <2>4, <2>5, ArriveStep DEF backend, Tells
<1>2. CASE List(r)
  <2>1. /\ op[r] = "list" /\ \A p \in Replicas \ {r} : op'[p] = op[p]
        /\ UNCHANGED <<record, inbox, gen, lockq, mapped, client, writers, excused>>
        /\ op'[r] = "load" \/ UNCHANGED reading
        /\ op'[r] = "load" => Reading(r, "load")
        /\ record # 0 /\ ~mapped[r] => op'[r] = "load"
    BY <1>0, <1>2 DEF List, backend, Listed
  <2>2. CASE op'[r] = "load"
    <3>1. Awaited("load", "load") /\ "load" \in Ops /\ Free(op[r])
      BY <2>1 DEF Awaited, Ops, Free
    <3>2. /\ \A p \in Replicas \ {r} : reading'[p] = reading[p]
          /\ Len(reading'[r]) = Len(reading[r]) + 1
          /\ reading'[r][Len(reading[r]) + 1].pc = "creds"
          /\ reading'[r][Len(reading[r]) + 1].gen = gen[r]
      BY <2>1, <2>2, <3>1, ReadingBegins
    <3>3. SomeUpToDate(r)'
      BY <1>0, <2>1, <3>2, NewlyUpToDate
    <3>4. ASSUME record # 0, Unexcused PROVE Arriving(r)'
      <4>1. Arriving(r)
        BY <2>1, <3>4 DEF Arrive, Up
      <4>2. Talking => Talking'
        BY <2>1 DEF Talking
      <4>3. Unremoved(r) => Unremoved(r)'
        BY <2>1 DEF Unremoved
      <4> QED BY <2>1, <3>3, <4>1, <4>2, <4>3 DEF Arriving
    <3>5. \A p \in Replicas \ {r} : SameAt(p)
      BY <2>1, <3>2 DEF SameAt, writers
    <3> QED BY <2>1, <3>4, <3>5, ArriveStep DEF Unexcused, Tells
  <2>3. CASE op'[r] # "load"
    <3>1. ASSUME record # 0, Unexcused PROVE Arriving(r)'
      <4>1. Arriving(r) /\ mapped[r]
        BY <2>1, <2>3, <3>1 DEF Arrive, Up
      <4>2. Talking => Talking'
        BY <2>1 DEF Talking
      <4>3. /\ Unremoved(r) => Unremoved(r)'
            /\ AllUpToDate(r) => AllUpToDate(r)'
            /\ SomeUpToDate(r) => SomeUpToDate(r)'
        BY <2>1, <2>3 DEF Unremoved, AllUpToDate, SomeUpToDate
      <4> QED BY <2>1, <4>1, <4>2, <4>3 DEF Arriving
    <3>2. \A p \in Replicas \ {r} : SameAt(p)
      BY <2>1, <2>3 DEF SameAt, writers
    <3> QED BY <2>1, <3>1, <3>2, ArriveStep DEF Unexcused, Tells
  <2> QED BY <2>2, <2>3
<1>3. CASE Sweep(r)
  <2>1. /\ op[r] = "sweep" /\ \A p \in Replicas \ {r} : op'[p] = op[p]
        /\ UNCHANGED <<record, inbox, reading, mapped, client, writers>>
        /\ excused \subseteq excused'
        /\ mapped[r] /\ record # 0 => "swept" \in excused'
        /\ ~mapped[r] => UNCHANGED <<gen, lockq>>
    BY <1>0, <1>3 DEF Sweep, backend, Listed
  <2>2. CASE mapped[r]
    BY <2>1, <2>2 DEF Arrive, Unexcused
  <2>3. CASE ~mapped[r]
    <3>1. ASSUME record # 0, Unexcused' PROVE Arriving(r)'
      <4>1. Arriving(r)
        BY <2>1, <3>1 DEF Arrive, Up, Unexcused
      <4>2. Talking => Talking'
        BY <2>1 DEF Talking
      <4>3. /\ Unremoved(r) => Unremoved(r)'
            /\ AllUpToDate(r) => AllUpToDate(r)'
            /\ SomeUpToDate(r) => SomeUpToDate(r)'
        BY <2>1, <2>3 DEF Unremoved, AllUpToDate, SomeUpToDate
      <4> QED BY <2>1, <2>3, <4>1, <4>2, <4>3 DEF Arriving
    <3>2. \A p \in Replicas \ {r} : SameAt(p)
      BY <2>1, <2>3 DEF SameAt, writers
    <3> QED BY <2>1, <3>1, <3>2, ArriveStep DEF Tells
  <2> QED BY <2>2, <2>3
<1>4. CASE Crash(r)
  <2>1. /\ op'[r] = "down" /\ \A p \in Replicas \ {r} : SameAt(p)
        /\ excused \subseteq excused' /\ record' = record
        /\ op[r] \in Tells => "untold" \in excused'
    BY <1>4, ShapeCrash DEF Tells
  <2> QED BY <2>1, ArriveStep
<1> QED BY <1>1, <1>2, <1>3, <1>4

LEMMA ConvergeNext == ConvergeInv /\ [Next]_vars => ConvergeInv'
<1> SUFFICES ASSUME Shape, Arrive, [Next]_vars PROVE Shape' /\ Arrive'
  BY DEF ConvergeInv, Arrive
<1>1. ASSUME Idles PROVE Arrive'
  <2>1. ASSUME NEW r \in Replicas PROVE Arriving(r) => Arriving(r)'
    <3>1. /\ Unremoved(r) => Unremoved(r)'
          /\ AllUpToDate(r) => AllUpToDate(r)'
          /\ SomeUpToDate(r) => SomeUpToDate(r)'
          /\ Talking => Talking'
      BY <1>1 DEF Idles, builds, Unremoved, AllUpToDate, SomeUpToDate, Talking
    <3> QED BY <1>1, <3>1 DEF Idles, builds, Arriving
  <2> QED BY <1>1, <2>1 DEF Idles, Arrive, Up, Unexcused
<1>2. CASE UNCHANGED vars
  BY <1>1, <1>2, ShapeNext DEF vars, backend, Idles
<1>3. ASSUME NEW r \in Replicas,
             \/ StartRefresh(r) \/ SaveToken(r) \/ SeedGrant(r) \/ TrackGrant(r)
             \/ ConfirmGrant(r)
      PROVE  Arrive'
  BY <1>1, <1>3, ShapeTokens
<1>4. ASSUME NEW r \in Replicas, ReadFails(r) PROVE Arrive'
  BY <1>4 DEF ReadFails, Arrive, Unexcused
<1> QED BY <1>2, <1>3, <1>4, ShapeNext, ArriveHolder, ArriveReads, ArriveHear,
           ArriveCalls, ArriveStarts DEF Next

\* When everything has been heard and done, every started replica runs the
\* client of the last addition, unless a removal crossed a later addition, a
\* start swept one, a replica died before it told or a build could not read the
\* record: of the builds of a replica the later one has read later, so the last
\* to register is of the record.
THEOREM ReplicasRunTheRecord == Spec => []ReplicasConverge
<1>1. Init => ConvergeInv
  <2> SUFFICES ASSUME Init, record # 0, NEW r \in Replicas, Up(r)
               PROVE  Arriving(r)
    BY ShapeInit DEF ConvergeInv
  <2>1. r \in FirstUp /\ record = 1
    BY DEF Init, Up
  <2>2. mapped[r]
    BY <2>1 DEF Init
  <2>3. client[r] = <<record, record>> /\ inbox[r] = <<>> /\ lockq[r] = <<>>
        /\ reading[r] = <<>>
    BY <2>1, <2>2 DEF Init
  <2>4. Unremoved(r) /\ ~Leaving(lockq[r]) /\ AllUpToDate(r)
    BY <2>3 DEF Unremoved, Leaving, AllUpToDate
  <2> QED BY <2>3, <2>4 DEF Arriving
<1>2. ConvergeInv => ReplicasConverge
  <2> SUFFICES ASSUME ConvergeInv, Quiet, record # 0, Unexcused, NEW r \in Replicas,
                      Up(r)
               PROVE  client[r] = <<record, record>>
    BY DEF ReplicasConverge, Listed, Unexcused
  <2>1. inbox[r] = <<>> /\ lockq[r] = <<>> /\ reading[r] = <<>>
        /\ \A p \in Replicas : op[p] \in {"idle", "down"}
    BY DEF Quiet, Idle
  <2>2. ~SomeUpToDate(r) /\ ~Talking /\ op[r] \notin {"remove", "erase", "list"}
    BY <2>1 DEF SomeUpToDate, Talking
  <2> QED BY <2>1, <2>2 DEF ConvergeInv, Arriving
<1> QED BY <1>1, <1>2, ConvergeNext, PTL DEF Spec

---------------------------------------------------------------------------
(* A removal leaves no credentials behind.                                 *)

\* Some replica has a client of the line, or is about to delete what it wrote.
Tended(r, ofGrants) == Manned(r) \/ Purging(r, ofGrants)

\* Nothing that matters to what is stored changes on replica p.
Alike(p) ==
    /\ lockq'[p] = lockq[p] /\ op'[p] = op[p] /\ client'[p] = client[p]
    /\ refresh'[p] = refresh[p] /\ seed'[p] = seed[p]

LEMMA ReachStep ==
  ASSUME NEW r \in Replicas, NEW g \in BOOLEAN, WithinReach(g),
         \A p \in Replicas \ {r} : Alike(p), Tended(r, g) => Tended(r, g)',
         record # 0 => record' # 0, names => names',
         record # 0 /\ names /\ PastPurge(r, g)' => PastPurge(r, g)
  PROVE  WithinReach(g)'
<1>1. ASSUME NEW p \in Replicas, p # r
      PROVE  Tended(p, g)' = Tended(p, g) /\ PastPurge(p, g)' = PastPurge(p, g)
  BY <1>1 DEF Alike, Tended, Manned, Purging, PastPurge, None
<1>2. CASE \E p \in Replicas : Tended(p, g)
  <2>1. \E p \in Replicas : Tended(p, g)'
    BY <1>1, <1>2
  <2> QED BY <2>1 DEF WithinReach, Tended
<1>3. CASE record # 0 /\ names /\ \A p \in Replicas : ~PastPurge(p, g)
  <2>1. \A p \in Replicas : ~PastPurge(p, g)'
    BY <1>1, <1>3
  <2> QED BY <1>3, <2>1 DEF WithinReach
<1> QED BY <1>2, <1>3 DEF WithinReach, Tended

\* What a step of r must show of r, when it takes nothing from what is stored.
LEMMA PurgeStep ==
  ASSUME PurgeInv, NEW r \in Replicas, \A p \in Replicas \ {r} : Alike(p),
         WritersManned(r)', excused \subseteq excused',
         excused' = {} =>
            /\ Named'
            /\ \A g \in BOOLEAN : (IF g THEN granted' /\ index ELSE token') =>
                  /\ Tended(r, g) => Tended(r, g)'
                  /\ record # 0 /\ names /\ PastPurge(r, g)' => PastPurge(r, g)
            /\ record # 0 => record' # 0
            /\ names => names'
            /\ token' => token
            /\ granted' => granted
            /\ granted' /\ index => index'
            /\ Settling(r) => Settling(r)'
  PROVE  PurgeInv'
<1>1. ASSUME NEW p \in Replicas PROVE WritersManned(p)'
  <2>1. CASE p # r
    BY <2>1 DEF PurgeInv, WritersManned, Manned, Alike, None
  <2> QED BY <2>1
<1>2. ASSUME excused' = {} PROVE (token => WithinReach(FALSE))'
  BY <1>2, ReachStep DEF PurgeInv
<1>3. ASSUME excused' = {} PROVE (granted => GrantWithinReach)'
  <2>1. SUFFICES ASSUME granted' PROVE GrantWithinReach'
    OBVIOUS
  <2>2. GrantWithinReach
    BY <1>3, <2>1 DEF PurgeInv
  <2>3. CASE \E p \in Replicas : Settling(p)
    <3>1. PICK p \in Replicas : Settling(p)
      BY <2>3
    <3>2. Settling(p)'
      BY <1>3, <3>1 DEF Settling, Alike
    <3> QED BY <3>2 DEF GrantWithinReach
  <2>4. CASE index /\ WithinReach(TRUE)
    <3>1. WithinReach(TRUE)'
      BY <1>3, <2>1, <2>4, ReachStep
    <3> QED BY <1>3, <2>1, <2>4, <3>1 DEF GrantWithinReach
  <2> QED BY <2>2, <2>3, <2>4 DEF GrantWithinReach
<1> QED BY <1>1, <1>2, <1>3 DEF PurgeInv

\* The head of the queue on r stays, or the queue was empty.
SameHead(r) ==
    /\ lockq[r] # <<>> => lockq'[r] # <<>> /\ lockq'[r][1] = lockq[r][1]
    /\ lockq[r] = <<>> /\ lockq'[r] # <<>> => lockq'[r][1].pc = "wait"

LEMMA HeadKept ==
  ASSUME NEW r \in Replicas, SameHead(r), client'[r] = client[r]
  PROVE  /\ Manned(r)' = Manned(r)
         /\ \A g \in BOOLEAN :
               /\ Tended(r, g)' = Tended(r, g)
               /\ PastPurge(r, g)' => PastPurge(r, g) \/ op'[r] = "erase"
  BY DEF SameHead, Manned, Tended, Purging, PastPurge, None

LEMMA PurgeAside ==
  ASSUME PurgeInv, NEW r \in Replicas, \A p \in Replicas \ {r} : Alike(p),
         SameHead(r), UNCHANGED <<names, token, granted, index, client, writers>>,
         excused \subseteq excused',
         op'[r] = "erase" => op[r] = "erase" \/ record = 0,
         \/ record' = record
         \/ /\ record' # 0
            /\ \A p \in Replicas :
                  /\ client[p][1] # record'
                  /\ lockq'[p] # <<>> /\ lockq'[p][1].pc \in {"check", "swap"}
                     => lockq'[p][1].creds # record'
  PROVE  PurgeInv'
<1>1. /\ Manned(r)' = Manned(r)
      /\ \A g \in BOOLEAN :
            /\ Tended(r, g)' = Tended(r, g)
            /\ PastPurge(r, g)' => PastPurge(r, g) \/ op'[r] = "erase"
  BY HeadKept
<1>2. \A g \in BOOLEAN : record # 0 /\ PastPurge(r, g)' => PastPurge(r, g)
  BY <1>1 DEF PastPurge
<1>3. WritersManned(r)' /\ (Settling(r) => Settling(r)')
  BY <1>1 DEF PurgeInv, WritersManned, writers, Settling
<1>4. ASSUME excused' = {} PROVE Named'
  <2>1. Named
    BY <1>4 DEF PurgeInv
  <2>2. CASE record' = record
    <3>1. ASSUME NEW p \in Replicas, record # 0, ~names
          PROVE  /\ client'[p][1] # record
                 /\ lockq'[p] # <<>> /\ lockq'[p][1].pc \in {"check", "swap"}
                    => lockq'[p][1].creds # record
      <4>1. /\ client[p][1] # record
            /\ lockq[p] # <<>> /\ lockq[p][1].pc \in {"check", "swap"}
               => lockq[p][1].creds # record
        BY <2>1, <3>1 DEF Named
      <4>2. CASE p # r
        BY <4>1, <4>2 DEF Alike
      <4>3. CASE p = r
        BY <4>1, <4>3 DEF SameHead
      <4> QED BY <4>2, <4>3
    <3> QED BY <2>2, <3>1 DEF Named
  <2>3. CASE record' # record
    BY <2>3 DEF Named
  <2> QED BY <2>2, <2>3
<1> QED BY <1>1, <1>2, <1>3, <1>4, PurgeStep

\* A job that queues behind the holder.
LEMMA QueuedBehind ==
  ASSUME Shape, NEW r \in Replicas, NEW e \in Jobs, e.pc = "wait",
         lockq' = [lockq EXCEPT ![r] = Append(@, e)]
  PROVE  SameHead(r) /\ \A p \in Replicas \ {r} : lockq'[p] = lockq[p]
<1>1. lockq \in [Replicas -> Seq(Jobs)] /\ lockq[r] \in Seq(Jobs)
  BY Typed
<1>2. /\ Append(lockq[r], e) \in Seq(Jobs)
      /\ Len(Append(lockq[r], e)) = Len(lockq[r]) + 1
      /\ Append(lockq[r], e)[Len(lockq[r]) + 1] = e
      /\ \A i \in 1 .. Len(lockq[r]) : Append(lockq[r], e)[i] = lockq[r][i]
  BY <1>1, Appended
<1>3. lockq'[r] = Append(lockq[r], e)
      /\ \A p \in Replicas \ {r} : lockq'[p] = lockq[p]
  BY <1>1
<1>4. CASE lockq[r] = <<>>
  <2>1. Len(lockq[r]) + 1 = 1
    BY <1>4
  <2> QED BY <1>2, <1>3, <1>4, <2>1 DEF SameHead
<1>5. CASE lockq[r] # <<>>
  <2>1. Len(lockq[r]) \in Nat /\ Len(lockq[r]) >= 1
    BY <1>1, <1>5, Popped
  <2>2. 1 \in 1 .. Len(lockq[r]) /\ Len(lockq'[r]) # 0
    BY <1>2, <1>3, <2>1
  <2>3. lockq'[r] # <<>>
    BY <2>2
  <2> QED BY <1>2, <1>3, <1>5, <2>2, <2>3 DEF SameHead
<1> QED BY <1>3, <1>4, <1>5

LEMMA RemovalBehind ==
  ASSUME Shape, NEW r \in Replicas, NEW from \in {"remove", "message", "load"},
         Removing(r, from)
  PROVE  SameHead(r) /\ \A p \in Replicas \ {r} : lockq'[p] = lockq[p]
<1> DEFINE e == [from |-> from, pc |-> "wait", held |-> FALSE, grant |-> FALSE]
<1>1. e \in RemoveJobs /\ e \in Jobs /\ e.pc = "wait"
  BY DEF RemoveJobs, Jobs
<1>2. lockq' = [lockq EXCEPT ![r] = Append(@, e)]
  BY DEF Removing
<1> HIDE DEF e
<1> QED BY <1>1, <1>2, QueuedBehind

LEMMA BuildBehind ==
  ASSUME Shape, NEW r \in Replicas, ReadSettings(r)
  PROVE  SameHead(r) /\ \A p \in Replicas \ {r} : lockq'[p] = lockq[p]
<1> DEFINE e == [Head(reading[r]) EXCEPT !.settings = record, !.pc = "wait"]
<1>1. reading[r] \in Seq(BuildJobs) /\ reading[r] # <<>> /\ record \in Versions
  BY Typed DEF ReadSettings
<1>2. Head(reading[r]) \in BuildJobs
  BY <1>1, Popped
<1>3. e \in BuildJobs /\ e.pc = "wait"
  BY <1>1, <1>2 DEF BuildJobs
<1>4. lockq' = [lockq EXCEPT ![r] = Append(@, e)]
  BY DEF ReadSettings
<1> HIDE DEF e
<1> QED BY <1>3, <1>4, QueuedBehind DEF Jobs

\* Nobody has what a new addition writes.
LEMMA Newest ==
  ASSUME Shape, NEW p \in Replicas, NEW v \in Nat, v > Last
  PROVE  /\ client[p][1] # v
         /\ lockq[p] # <<>> /\ IsBuild(lockq[p][1]) => lockq[p][1].creds # v
<1>1. Last \in Nat /\ client[p][1] \in Nat /\ client[p][1] <= Last
  <2>1. client[p] \in Versions \X Versions /\ client[p][1] <= Last
    BY DEF Shape, TypeOK, Bounded
  <2> QED BY <2>1, Typed DEF Versions
<1>2. ASSUME lockq[p] # <<>>, IsBuild(lockq[p][1]) PROVE lockq[p][1].creds # v
  <2>1. lockq[p][1] \in BuildJobs /\ 1 \in 1 .. Len(lockq[p])
    BY <1>2, HolderKind
  <2>2. lockq[p][1].creds <= Last
    BY <1>2, <2>1, Typed DEF Queues, Waiters, WaiterOK
  <2>3. lockq[p][1].creds \in Nat
    BY <2>1, JobFields
  <2> QED BY <1>1, <2>2, <2>3
<1> QED BY <1>1, <1>2

LEMMA PurgeCalls ==
  ASSUME Shape, PurgeInv, NEW r \in Replicas,
         \/ Add(r) \/ TellAdded(r) \/ Remove(r) \/ TellRemoved(r) \/ Hear(r)
         \/ ReadCredentials(r) \/ ReadSettings(r) \/ Start(r) \/ List(r) \/ Sweep(r)
  PROVE  PurgeInv'
<1>0. op \in [Replicas -> Ops] /\ lockq \in [Replicas -> Seq(Jobs)]
  BY Typed
<1>1. UNCHANGED <<names, token, granted, index, client, writers>>
  BY DEF Add, TellAdded, Remove, TellRemoved, Hear, ReadCredentials,
         ReadSettings,
         Start, List, Sweep, backend, builds
<1>2. excused \subseteq excused'
  BY DEF Add, TellAdded, Remove, TellRemoved, Hear, ReadCredentials,
         ReadSettings,
         Start, List, Sweep
<1>3. SameHead(r) /\ \A p \in Replicas \ {r} : lockq'[p] = lockq[p]
  <2>1. CASE UNCHANGED lockq
    BY <2>1 DEF SameHead
  <2>2. CASE Remove(r) \/ Hear(r) \/ Sweep(r)
    BY <2>1, <2>2, RemovalBehind DEF Remove, Hear, Sweep
  <2>3. CASE ReadSettings(r)
    BY <2>3, BuildBehind
  <2> QED BY <2>1, <2>2, <2>3
          DEF Add, TellAdded, TellRemoved, ReadCredentials, Start, List, builds
<1>4. /\ \A p \in Replicas \ {r} : op'[p] = op[p]
      /\ op'[r] = "erase" => op[r] = "erase" \/ record = 0
  <2>1. CASE ReadCredentials(r)
    <3>1. record # 0 => op' = op
      BY <2>1 DEF ReadCredentials
    <3> QED BY <2>1, <3>1, CredentialsStep DEF CredsRead
  <2>2. CASE Hear(r) \/ ReadSettings(r)
    BY <2>2 DEF Hear, ReadSettings
  <2>3. CASE List(r)
    BY <1>0, <2>3 DEF List
  <2>4. CASE Sweep(r)
    BY <1>0, <2>4 DEF Sweep
  <2> QED BY <1>0, <2>1, <2>2, <2>3, <2>4
          DEF Add, TellAdded, Remove, TellRemoved, Start
<1>5. \A p \in Replicas \ {r} : Alike(p)
  BY <1>1, <1>3, <1>4 DEF Alike, writers
<1>6. CASE Add(r)
  <2>1. record' = Last + 1 /\ Last \in Nat /\ Last + 1 \in Nat /\ Last + 1 > Last
        /\ record' # 0
    <3>1. record' = MaxAdds + 2 - budget["adds"] /\ MaxAdds \in Nat
          /\ budget["adds"] \in Nat /\ Last \in Nat
      BY <1>6, Typed DEF Add, Shape, Bounded
    <3> QED BY <3>1 DEF Last
  <2>2. lockq' = lockq
    BY <1>6 DEF Add
  <2>3. ASSUME NEW p \in Replicas
        PROVE  /\ client[p][1] # record'
               /\ lockq'[p] # <<>> /\ lockq'[p][1].pc \in {"check", "swap"}
                  => lockq'[p][1].creds # record'
    BY <2>1, <2>2, Newest, HolderKind
  <2> QED BY <1>1, <1>2, <1>3, <1>4, <1>5, <2>1, <2>3, PurgeAside
<1>7. CASE ~Add(r)
  <2>1. record' = record
    BY <1>7
      DEF TellAdded, Remove, TellRemoved, Hear, ReadCredentials, ReadSettings,
                Start, List, Sweep, backend
  <2> QED BY <1>1, <1>2, <1>3, <1>4, <1>5, <2>1, PurgeAside
<1> QED BY <1>6, <1>7

LEMMA PurgeWriters ==
  ASSUME Shape, PurgeInv, NEW r \in Replicas,
         \/ StartRefresh(r) \/ SaveToken(r) \/ SeedGrant(r) \/ TrackGrant(r)
         \/ ConfirmGrant(r)
  PROVE  PurgeInv'
<1>1. UNCHANGED <<record, names, op, lockq, client, excused>>
  BY DEF StartRefresh, SaveToken, SeedGrant, TrackGrant, ConfirmGrant, backend,
         builds
<1>2. /\ \A p \in Replicas : Manned(p)' = Manned(p)
      /\ \A g \in BOOLEAN : WithinReach(g)' = WithinReach(g)
      /\ Named' = Named
  BY <1>1 DEF Manned, WithinReach, Purging, PastPurge, Named, None
<1>3. refresh \in [Replicas -> {"none", "live", "retired"}]
      /\ seed \in [Replicas -> [pc : {"none", "track", "confirm"}, retired : BOOLEAN]]
  BY DEF Shape, TypeOK
<1>4. ASSUME NEW p \in Replicas PROVE WritersManned(p)'
  <2>1. WritersManned(p) /\ (client[r] # None => Manned(r))
    BY DEF PurgeInv, Manned
  <2>2. refresh'[p] = "live" => refresh[p] = "live" \/ Manned(p)
    BY <1>3, <2>1
      DEF StartRefresh, SaveToken, SeedGrant, TrackGrant, ConfirmGrant,
                      builds
  <2>3. seed'[p].pc = "track" /\ ~seed'[p].retired
        => (seed[p].pc = "track" /\ ~seed[p].retired) \/ Manned(p)
    <3>1. CASE StartRefresh(r) \/ SaveToken(r)
      BY <3>1 DEF StartRefresh, SaveToken
    <3>2. CASE SeedGrant(r)
      BY <1>3, <2>1, <3>2 DEF SeedGrant
    <3>3. CASE TrackGrant(r)
      BY <1>3, <3>3 DEF TrackGrant
    <3>4. CASE ConfirmGrant(r)
      BY <1>3, <3>4 DEF ConfirmGrant, NoSeed
    <3> QED BY <3>1, <3>2, <3>3, <3>4
  <2> QED BY <1>2, <2>1, <2>2, <2>3 DEF WritersManned
<1>5. ASSUME excused = {} PROVE (token => WithinReach(FALSE))'
  <2>1. token' => token \/ refresh[r] = "live"
    BY DEF StartRefresh, SaveToken, SeedGrant, TrackGrant, ConfirmGrant,
           backend
  <2>2. refresh[r] = "live" => WithinReach(FALSE)
    BY DEF PurgeInv, WritersManned, WithinReach
  <2> QED BY <1>2, <1>5, <2>1, <2>2 DEF PurgeInv
<1>6. ASSUME excused = {} PROVE (granted => GrantWithinReach)'
  <2>0. granted => GrantWithinReach
    BY <1>6 DEF PurgeInv
  <2>1. CASE StartRefresh(r) \/ SaveToken(r)
    <3>1. UNCHANGED <<granted, index, seed>>
      BY <2>1 DEF StartRefresh, SaveToken, backend
    <3>2. \A p \in Replicas : Settling(p)' = Settling(p)
      BY <3>1 DEF Settling
    <3> QED BY <1>2, <2>0, <3>1, <3>2 DEF GrantWithinReach
  <2>2. CASE SeedGrant(r)
    <3>1. Settling(r)'
      BY <1>3, <2>2 DEF SeedGrant, Settling
    <3> QED BY <3>1 DEF GrantWithinReach
  <2>3. CASE TrackGrant(r)
    <3>1. /\ granted' = granted /\ index' = (index \/ ~seed[r].retired)
          /\ seed[r].pc = "track" /\ seed'[r].pc = "confirm"
          /\ seed'[r].retired = seed[r].retired
          /\ \A p \in Replicas \ {r} : seed'[p] = seed[p]
      BY <1>3, <2>3 DEF TrackGrant
    <3>2. CASE seed[r].retired
      <4>1. Settling(r)'
        BY <3>1, <3>2 DEF Settling
      <4> QED BY <4>1 DEF GrantWithinReach
    <3>3. CASE ~seed[r].retired
      <4>1. WithinReach(TRUE)
        BY <3>1, <3>3 DEF PurgeInv, WritersManned, WithinReach
      <4> QED BY <1>2, <3>1, <3>3, <4>1 DEF GrantWithinReach
    <3> QED BY <3>2, <3>3
  <2>4. CASE ConfirmGrant(r)
    <3>1. /\ index' = index /\ granted' = (granted /\ ~seed[r].retired)
          /\ seed[r].pc = "confirm" /\ \A p \in Replicas \ {r} : seed'[p] = seed[p]
      BY <1>3, <2>4 DEF ConfirmGrant, UndoesGrant
    <3>2. ASSUME NEW p \in Replicas, Settling(p), granted' PROVE Settling(p)'
      BY <3>1, <3>2 DEF Settling
    <3> QED BY <1>2, <2>0, <3>1, <3>2 DEF GrantWithinReach
  <2> QED BY <2>1, <2>2, <2>3, <2>4
<1> QED BY <1>1, <1>2, <1>4, <1>5, <1>6 DEF PurgeInv

LEMMA PurgeErase ==
  ASSUME Shape, PurgeInv, NEW r \in Replicas, Erase(r)
  PROVE  PurgeInv'
<1>1. /\ op[r] = "erase" /\ record' = 0
      /\ UNCHANGED <<token, granted, index, lockq, client, writers, excused>>
  BY DEF Erase, builds
<1>2. /\ \A p \in Replicas : Manned(p)' = Manned(p)
      /\ \A p \in Replicas : Settling(p)' = Settling(p)
      /\ \A p \in Replicas, g \in BOOLEAN : Tended(p, g)' = Tended(p, g)
  BY <1>1 DEF Manned, Tended, Purging, Settling, writers, None
<1>3. ASSUME NEW g \in BOOLEAN, WithinReach(g) PROVE WithinReach(g)'
  <2>1. PastPurge(r, g)
    BY <1>1 DEF PastPurge
  <2>2. \E p \in Replicas : Tended(p, g)
    BY <1>3, <2>1 DEF WithinReach, Tended
  <2> QED BY <1>2, <2>2 DEF WithinReach, Tended
<1>4. \A p \in Replicas : WritersManned(p)'
  BY <1>1, <1>2 DEF PurgeInv, WritersManned, writers
<1>5. Named'
  BY <1>1 DEF Named
<1>6. granted /\ GrantWithinReach => GrantWithinReach'
  BY <1>1, <1>2, <1>3 DEF GrantWithinReach
<1> QED BY <1>1, <1>3, <1>4, <1>5, <1>6 DEF PurgeInv

\* A crash of a fleet at rest: a stored credential is of a recorded instance,
\* whose client's name is recorded.
LEMMA PurgeCrash ==
  ASSUME Shape, PurgeInv, NoGhostClient, ReplicasConverge, NEW r \in Replicas,
         Crash(r)
  PROVE  PurgeInv'
<1>1. /\ NothingLeft(r)' /\ \A p \in Replicas \ {r} : SameAt(p)
      /\ excused \subseteq excused' /\ op'[r] = "down"
  BY ShapeCrash
<1>2. UNCHANGED <<record, names, token, granted, index>>
      /\ (~Quiet => "undone" \in excused')
  BY DEF Crash, backend
<1>3. ASSUME NEW p \in Replicas PROVE WritersManned(p)'
  <2>1. CASE p = r
    BY <1>1, <2>1 DEF NothingLeft, WritersManned, NoSeed
  <2>2. CASE p # r
    BY <1>1, <2>2 DEF PurgeInv, WritersManned, Manned, SameAt, None
  <2> QED BY <2>1, <2>2
<1>4. CASE excused' # {}
  BY <1>3, <1>4 DEF PurgeInv
<1>5. CASE excused' = {}
  <2>1. Quiet /\ excused = {}
    BY <1>1, <1>2, <1>5
  <2>2. \A p \in Replicas : /\ lockq[p] = <<>> /\ seed[p].pc = "none"
                            /\ op[p] \in {"idle", "down"}
    BY <2>1 DEF Quiet, Idle
  <2>3. \A p \in Replicas : lockq'[p] = <<>> /\ op'[p] # "erase"
    BY <1>1, <2>2 DEF NothingLeft, SameAt
  <2>4. \A p \in Replicas, g \in BOOLEAN : ~PastPurge(p, g)'
    BY <2>3 DEF PastPurge
  <2>5. Named'
    <3>1. Named
      BY <2>1 DEF PurgeInv
    <3>2. ASSUME NEW p \in Replicas, record # 0, ~names PROVE client'[p][1] # record
      <4>1. CASE p = r
        BY <1>1, <3>2, <4>1 DEF NothingLeft, None
      <4>2. CASE p # r
        BY <1>1, <3>1, <3>2, <4>2 DEF SameAt, Named
      <4> QED BY <4>1, <4>2
    <3> QED BY <1>2, <2>3, <3>2 DEF Named
  <2>6. record # 0 => names
    <3>1. Up(r)
      BY DEF Crash
    <3>2. record # 0 => client[r] = <<record, record>>
      BY <2>1, <3>1 DEF ReplicasConverge, Listed
    <3> QED BY <2>1, <3>2 DEF PurgeInv, Named
  <2>7. record = 0 => \A p \in Replicas : client[p] = None
    BY <2>1 DEF NoGhostClient, Listed
  <2>8. ASSUME NEW g \in BOOLEAN, WithinReach(g) PROVE WithinReach(g)'
    <3>1. record # 0
      BY <2>2, <2>7, <2>8 DEF WithinReach, Manned, Purging
    <3> QED BY <1>2, <2>4, <2>6, <3>1 DEF WithinReach
  <2>9. \A p \in Replicas : ~Settling(p)
    BY <2>2 DEF Settling
  <2>10. (token => WithinReach(FALSE))'
    BY <1>2, <2>1, <2>8 DEF PurgeInv
  <2>11. (granted => GrantWithinReach)'
    BY <1>2, <2>1, <2>8, <2>9 DEF PurgeInv, GrantWithinReach
  <2> QED BY <1>3, <2>5, <2>10, <2>11 DEF PurgeInv
<1> QED BY <1>4, <1>5

\* What a holder at e tends to, and what it is past.
LEMMA HeldBy ==
  ASSUME NEW r \in Replicas, lockq[r] # <<>>, NEW g \in BOOLEAN
  PROVE  LET e == lockq[r][1] IN
         /\ Manned(r) <=> client[r] # None \/ e.pc = "swap"
         /\ Purging(r, g) <=> \/ e.pc \in {"list", "grants"} /\ e.held
                              \/ e.pc = "delete" /\ (g => e.grant)
         /\ PastPurge(r, g) <=>
               \/ op[r] = "erase"
               \/ /\ e.from = "remove"
                  /\ e.pc = "unlist" \/ (e.pc = "delete" /\ g /\ ~e.grant)
  BY DEF Manned, Purging, PastPurge

LEMMA HeldNext ==
  ASSUME NEW r \in Replicas, lockq'[r] # <<>>, NEW g \in BOOLEAN
  PROVE  LET e == lockq'[r][1] IN
         /\ Manned(r)' <=> client'[r] # None \/ e.pc = "swap"
         /\ Purging(r, g)' <=> \/ e.pc \in {"list", "grants"} /\ e.held
                               \/ e.pc = "delete" /\ (g => e.grant)
         /\ PastPurge(r, g)' <=>
               \/ op'[r] = "erase"
               \/ /\ e.from = "remove"
                  /\ e.pc = "unlist" \/ (e.pc = "delete" /\ g /\ ~e.grant)
  BY DEF Manned, Purging, PastPurge, None

\* The holder on r is done.
LEMMA Freed ==
  ASSUME Shape, NEW r \in Replicas, lockq[r] # <<>>, Release(r), NEW g \in BOOLEAN
  PROVE  /\ Manned(r)' <=> client'[r] # None
         /\ ~Purging(r, g)'
         /\ PastPurge(r, g)' => op[r] = "erase" \/ lockq[r][1].from = "remove"
         /\ lockq'[r] # <<>> => lockq'[r][1].pc = "wait"
<1>1. lockq'[r] # <<>> => lockq'[r][1].pc = "wait"
  BY Released
<1>2. op \in [Replicas -> Ops] /\ Head(lockq[r]) = lockq[r][1]
  BY Typed, HolderKind
<1>3. op'[r] = "erase" => op[r] = "erase" \/ lockq[r][1].from = "remove"
  BY <1>2 DEF Release, Resume
<1> QED BY <1>1, <1>3 DEF Manned, Purging, PastPurge, None

\* The holder on r goes on as e.
LEMMA Advanced ==
  ASSUME Shape, NEW r \in Replicas, lockq[r] # <<>>, NEW e \in Jobs,
         SameJob(e, lockq[r][1]), Step(r, e)
  PROVE  lockq'[r] # <<>> /\ lockq'[r][1] = e
  BY Moved

\* Names stay with the clients that have them.
LEMMA NamedStep ==
  ASSUME Named, NEW r \in Replicas, UNCHANGED <<record, names>>,
         \A p \in Replicas \ {r} : Alike(p),
         record # 0 /\ ~names =>
            /\ client'[r][1] # record
            /\ lockq'[r] # <<>> /\ lockq'[r][1].pc \in {"check", "swap"}
               => lockq'[r][1].creds # record
  PROVE  Named'
<1> SUFFICES ASSUME record # 0, ~names, NEW p \in Replicas
             PROVE  /\ client'[p][1] # record
                    /\ lockq'[p] # <<>> /\ lockq'[p][1].pc \in {"check", "swap"}
                       => lockq'[p][1].creds # record
  BY DEF Named
<1>1. CASE p # r
  BY <1>1 DEF Named, Alike
<1> QED BY <1>1

LEMMA AlikeOthers ==
  ASSUME Shape, NEW r \in Replicas,
         \/ BuildBegins(r) \/ RecordNames(r) \/ CheckAndReset(r) \/ Register(r)
         \/ DestroyBegins(r) \/ DecidePurge(r) \/ ReadGrants(r)
         \/ DeleteTokens(r) \/ DeleteGrantList(r)
  PROVE  /\ \A p \in Replicas \ {r} : Alike(p)
         /\ excused \subseteq excused' /\ record' = record
  BY Sames DEF SameAt, Alike

LEMMA PurgeBuild ==
  ASSUME Shape, PurgeInv, NEW r \in Replicas,
         BuildBegins(r) \/ RecordNames(r) \/ CheckAndReset(r) \/ Register(r)
  PROVE  PurgeInv'
<1>1. /\ \A p \in Replicas \ {r} : Alike(p)
      /\ excused \subseteq excused' /\ record' = record
  BY AlikeOthers
<1>2. /\ lockq[r] # <<>> /\ lockq[r][1] \in BuildJobs /\ IsBuild(lockq[r][1])
      /\ Head(lockq[r]) = lockq[r][1] /\ 1 \in 1 .. Len(lockq[r])
      /\ lockq[r][1].pc \in {"wait", "name", "check", "swap"}
  BY HolderKind DEF BuildBegins, RecordNames, CheckAndReset, Register, Holder
<1>3. lockq[r][1].from # "remove" /\ lockq[r][1].creds # 0
  BY <1>2, Typed DEF BuildJobs, Queues, Waiters, WaiterOK
<1>4. /\ UNCHANGED <<token, granted, index, writers>>
      /\ RecordNames(r) \/ UNCHANGED names
  BY DEF BuildBegins, RecordNames, CheckAndReset, Register, backend
<1>5. ASSUME Manned(r) => Manned(r)',
             \A g \in BOOLEAN : PastPurge(r, g)' => PastPurge(r, g),
             excused' = {} => Named' /\ (names => names')
      PROVE  PurgeInv'
  <2>1. WritersManned(r)' /\ (Settling(r) => Settling(r)')
    BY <1>4, <1>5 DEF PurgeInv, WritersManned, writers, Settling
  <2>2. \A g \in BOOLEAN : ~Purging(r, g)
    BY <1>2 DEF Purging
  <2>3. \A g \in BOOLEAN : Tended(r, g) => Tended(r, g)'
    BY <1>5, <2>2 DEF Tended
  <2> QED BY <1>1, <1>4, <1>5, <2>1, <2>3, PurgeStep
<1>6. ASSUME Release(r)
      PROVE  /\ Manned(r)' <=> client'[r] # None
             /\ \A g \in BOOLEAN : PastPurge(r, g)' => PastPurge(r, g)
             /\ lockq'[r] # <<>> => lockq'[r][1].pc = "wait"
  BY <1>2, <1>3, <1>6, Freed DEF PastPurge
<1>7. ASSUME NEW pc \in {"name", "check", "swap"},
             Step(r, [Head(lockq[r]) EXCEPT !.pc = pc]), op' = op
      PROVE  /\ lockq'[r] # <<>> /\ lockq'[r][1].pc = pc
             /\ lockq'[r][1].creds = lockq[r][1].creds
             /\ Manned(r)' <=> client'[r] # None \/ pc = "swap"
             /\ \A g \in BOOLEAN : PastPurge(r, g)' => PastPurge(r, g)
  <2> DEFINE e == [lockq[r][1] EXCEPT !.pc = pc]
  <2>0. e \in BuildJobs /\ e \in Jobs /\ SameJob(e, lockq[r][1]) /\ e.pc = pc
    <3>1. pc \in {"wait", "name", "check", "swap"}
      OBVIOUS
    <3> HIDE DEF e
    <3> QED BY <1>2, <3>1, BuildMoves DEF e
  <2>2. Step(r, e)
    BY <1>2, <1>7
  <2> HIDE DEF e
  <2>1. e \in Jobs /\ SameJob(e, lockq[r][1]) /\ e.pc = pc
        /\ e.creds = lockq[r][1].creds
    BY <2>0, Kinds DEF SameJob
  <2>3. lockq'[r] # <<>> /\ lockq'[r][1] = e
    BY <1>2, <2>1, <2>2, Advanced
  <2>4. /\ Manned(r)' <=> client'[r] # None \/ pc = "swap"
        /\ \A g \in BOOLEAN : PastPurge(r, g)' => op'[r] = "erase"
    BY <2>1, <2>3, HeldNext
  <2> QED BY <1>7, <2>1, <2>3, <2>4 DEF PastPurge
<1>8. Manned(r) <=> client[r] # None \/ lockq[r][1].pc = "swap"
  BY <1>2 DEF Manned
<1>9. CASE BuildBegins(r)
  <2>1. /\ UNCHANGED <<names, client>> /\ lockq[r][1].pc = "wait"
        /\ \/ Release(r)
           \/ Step(r, [Head(lockq[r]) EXCEPT !.pc = "name"]) /\ op' = op
    BY <1>2, <1>9 DEF BuildBegins, Holder, backend
  <2>2. /\ Manned(r) => Manned(r)'
        /\ \A g \in BOOLEAN : PastPurge(r, g)' => PastPurge(r, g)
        /\ lockq'[r] # <<>> => lockq'[r][1].pc \in {"wait", "name"}
    BY <1>6, <1>7, <1>8, <2>1
  <2>3. excused' = {} => Named'
    BY <1>1, <2>1, <2>2, NamedStep DEF PurgeInv, Named
  <2> QED BY <1>5, <2>1, <2>2, <2>3
<1>10. CASE RecordNames(r)
  <2>1. /\ UNCHANGED <<op, client>> /\ lockq[r][1].pc = "name"
        /\ Step(r, [Head(lockq[r]) EXCEPT !.pc = "check"])
        /\ names' = TRUE \/ excused' # {}
    BY <1>2, <1>10 DEF RecordNames, Holder, Fails
  <2>2. /\ Manned(r) => Manned(r)'
        /\ \A g \in BOOLEAN : PastPurge(r, g)' => PastPurge(r, g)
    BY <1>7, <1>8, <2>1
  <2> QED BY <1>5, <2>1, <2>2 DEF Named
<1>11. CASE CheckAndReset(r)
  <2>1. /\ UNCHANGED names /\ lockq[r][1].pc = "check"
        /\ \/ Release(r) /\ UNCHANGED client
           \/ /\ Step(r, [Head(lockq[r]) EXCEPT !.pc = "swap"]) /\ op' = op
              /\ client'[r] = None
    BY <1>2, <1>11 DEF CheckAndReset, Holder, backend, Shape, TypeOK
  <2>2. /\ Manned(r) => Manned(r)'
        /\ \A g \in BOOLEAN : PastPurge(r, g)' => PastPurge(r, g)
    BY <1>6, <1>7, <1>8, <2>1
  <2>3. ASSUME excused' = {} PROVE Named'
    <3>1. Named
      BY <1>1, <2>3 DEF PurgeInv
    <3>2. ASSUME record # 0, ~names
          PROVE  /\ client'[r][1] # record
                 /\ lockq'[r] # <<>> /\ lockq'[r][1].pc \in {"check", "swap"}
                    => lockq'[r][1].creds # record
      <4>1. client[r][1] # record /\ lockq[r][1].creds # record
        BY <1>2, <2>1, <3>1, <3>2 DEF Named
      <4>2. client'[r][1] # record
        BY <2>1, <3>2, <4>1 DEF None
      <4> QED BY <1>6, <1>7, <2>1, <4>1, <4>2
    <3> QED BY <1>1, <2>1, <3>1, <3>2, NamedStep
  <2> QED BY <1>5, <2>1, <2>2, <2>3
<1>12. CASE Register(r)
  <2>1. /\ UNCHANGED names /\ lockq[r][1].pc = "swap" /\ Release(r)
        /\ client'[r] = <<lockq[r][1].creds, lockq[r][1].settings>>
    BY <1>2, <1>12 DEF Register, Holder, backend, Built, Shape, TypeOK
  <2>2. client'[r] # None /\ client'[r][1] = lockq[r][1].creds
    BY <1>3, <2>1 DEF None
  <2>3. /\ Manned(r)'
        /\ \A g \in BOOLEAN : PastPurge(r, g)' => PastPurge(r, g)
    BY <1>6, <2>1, <2>2
  <2>4. ASSUME excused' = {} PROVE Named'
    <3>1. Named
      BY <1>1, <2>4 DEF PurgeInv
    <3>2. record # 0 /\ ~names => lockq[r][1].creds # record
      BY <1>2, <2>1, <3>1 DEF Named
    <3>3. lockq'[r] # <<>> => lockq'[r][1].pc \notin {"check", "swap"}
      BY <1>6, <2>1
    <3> QED BY <1>1, <2>1, <2>2, <3>1, <3>2, <3>3, NamedStep
  <2> QED BY <1>5, <2>1, <2>3, <2>4
<1> QED BY <1>9, <1>10, <1>11, <1>12

LEMMA PurgeDestroy ==
  ASSUME Shape, PurgeInv, NEW r \in Replicas, DestroyBegins(r)
  PROVE  PurgeInv'
<1>1. /\ \A p \in Replicas \ {r} : Alike(p)
      /\ excused' = excused /\ record' = record /\ client'[r] = None
      /\ UNCHANGED <<names, token, granted, index, op>>
  BY AlikeOthers, ShapeDestroyBegins DEF DestroyBegins, backend
<1>2. /\ lockq[r] # <<>> /\ lockq[r][1].pc = "wait" /\ lockq[r][1] \in RemoveJobs
      /\ Head(lockq[r]) = lockq[r][1]
  BY HolderKind DEF DestroyBegins, Holder
<1> DEFINE e == [lockq[r][1] EXCEPT !.pc = "list", !.held = client[r] # None]
<1>3. /\ e \in RemoveJobs /\ e.from = lockq[r][1].from /\ e.pc = "list"
      /\ e.held = (client[r] # None)
  BY <1>2 DEF RemoveJobs
<1>4. Step(r, e)
  BY <1>2 DEF DestroyBegins
<1> HIDE DEF e
<1>5. lockq'[r] # <<>> /\ lockq'[r][1] = e
  BY <1>2, <1>3, <1>4, RemovalMoves, Advanced
<1>6. /\ Manned(r) <=> client[r] # None
      /\ \A g \in BOOLEAN : ~Purging(r, g)
  BY <1>2 DEF Manned, Purging
<1>7. \A g \in BOOLEAN : /\ Purging(r, g)' <=> client[r] # None
                         /\ PastPurge(r, g)' => PastPurge(r, g)
  BY <1>1, <1>3, <1>5, HeldNext DEF PastPurge
<1>8. \A g \in BOOLEAN : Tended(r, g) => Tended(r, g)'
  BY <1>6, <1>7 DEF Tended
<1>9. WritersManned(r)' /\ (Settling(r) => Settling(r)')
  <2>0. refresh \in [Replicas -> {"none", "live", "retired"}]
        /\ seed \in [Replicas -> [pc : {"none", "track", "confirm"},
                                  retired : BOOLEAN]]
    BY DEF Shape, TypeOK
  <2>1. CASE client[r] # None
    <3>1. Destroyed(r)
      BY <2>1 DEF DestroyBegins
    <3>2. refresh'[r] # "live" /\ seed'[r].pc = seed[r].pc
          /\ (seed[r].pc # "none" => seed'[r].retired)
      BY <2>0, <3>1 DEF Destroyed
    <3> QED BY <3>2 DEF WritersManned, Settling
  <2>2. CASE client[r] = None
    <3>1. UNCHANGED writers
      BY <2>2 DEF DestroyBegins
    <3>2. refresh[r] # "live" /\ ~(seed[r].pc = "track" /\ ~seed[r].retired)
      BY <1>6, <2>2 DEF PurgeInv, WritersManned
    <3> QED BY <3>1, <3>2 DEF WritersManned, Settling, writers
  <2> QED BY <2>1, <2>2
<1>10. ASSUME excused' = {} PROVE Named'
  <2>1. Named
    BY <1>1, <1>10 DEF PurgeInv
  <2>2. record # 0 => client'[r][1] # record
    BY <1>1 DEF None
  <2> QED BY <1>1, <1>3, <1>5, <2>1, <2>2, NamedStep
<1> QED BY <1>1, <1>8, <1>7, <1>9, <1>10, PurgeStep

LEMMA PurgeRemoval ==
  ASSUME Shape, PurgeInv, NEW r \in Replicas,
         DecidePurge(r) \/ ReadGrants(r) \/ DeleteTokens(r) \/ DeleteGrantList(r)
  PROVE  PurgeInv'
<1>1. /\ \A p \in Replicas \ {r} : Alike(p)
      /\ excused \subseteq excused' /\ record' = record
  BY AlikeOthers
<1>2. /\ lockq[r] # <<>> /\ lockq[r][1] \in RemoveJobs
      /\ Head(lockq[r]) = lockq[r][1]
      /\ lockq[r][1].pc \in {"list", "grants", "delete", "unlist"}
  BY HolderKind
    DEF DecidePurge, ReadGrants, DeleteTokens, DeleteGrantList, Holder
<1>3. UNCHANGED <<names, client, writers>> /\ (token' => token)
      /\ (granted' => granted)
  <2>1. CASE DecidePurge(r) \/ ReadGrants(r) \/ DeleteGrantList(r)
    BY <2>1 DEF DecidePurge, ReadGrants, DeleteGrantList, backend
  <2>2. CASE DeleteTokens(r)
    BY <2>2 DEF DeleteTokens
  <2> QED BY <2>1, <2>2
<1>4. Manned(r) <=> client[r] # None
  BY <1>2 DEF Manned
<1>5. ASSUME lockq'[r] # <<>> =>
                lockq'[r][1].pc \in {"wait", "list", "grants", "delete", "unlist"},
             excused' = {} =>
                /\ granted' /\ index => index'
                /\ \A g \in BOOLEAN : (IF g THEN granted' /\ index ELSE token') =>
                      /\ Purging(r, g) => Purging(r, g)'
                      /\ record # 0 /\ names /\ PastPurge(r, g)' => PastPurge(r, g)
      PROVE  PurgeInv'
  <2>1. Manned(r)' = Manned(r)
    BY <1>3, <1>4, <1>5 DEF Manned, None
  <2>2. WritersManned(r)' /\ (Settling(r) => Settling(r)')
    BY <1>3, <2>1 DEF PurgeInv, WritersManned, writers, Settling
  <2>3. ASSUME excused' = {} PROVE Named'
    <3>1. Named
      BY <1>1, <2>3 DEF PurgeInv
    <3>2. record # 0 /\ ~names => client'[r][1] # record
      BY <1>3, <3>1 DEF Named
    <3> QED BY <1>1, <1>3, <1>5, <3>1, <3>2, NamedStep
  <2>4. \A g \in BOOLEAN : (Purging(r, g) => Purging(r, g)')
                           => (Tended(r, g) => Tended(r, g)')
    BY <2>1 DEF Tended
  <2> QED BY <1>1, <1>3, <1>5, <2>2, <2>3, <2>4, PurgeStep
<1>6. ASSUME Release(r)
      PROVE  /\ lockq'[r] # <<>> => lockq'[r][1].pc = "wait"
             /\ \A g \in BOOLEAN :
                   PastPurge(r, g)' => op[r] = "erase" \/ lockq[r][1].from = "remove"
  BY <1>2, <1>6, Freed
<1>7. ASSUME NEW e \in RemoveJobs, e.from = lockq[r][1].from, Step(r, e), op' = op
      PROVE  /\ lockq'[r] # <<>> /\ lockq'[r][1] = e
             /\ \A g \in BOOLEAN :
                   /\ Purging(r, g)' <=> \/ e.pc \in {"list", "grants"} /\ e.held
                                         \/ e.pc = "delete" /\ (g => e.grant)
                   /\ PastPurge(r, g)' <=>
                         \/ op[r] = "erase"
                         \/ /\ e.from = "remove"
                            /\ e.pc = "unlist" \/ (e.pc = "delete" /\ g /\ ~e.grant)
  <2>1. lockq'[r] # <<>> /\ lockq'[r][1] = e
    BY <1>2, <1>7, RemovalMoves, Advanced
  <2> QED BY <1>7, <2>1, HeldNext
<1>8. ASSUME NEW g \in BOOLEAN
      PROVE  LET e == lockq[r][1] IN
             /\ Purging(r, g) <=> \/ e.pc \in {"list", "grants"} /\ e.held
                                  \/ e.pc = "delete" /\ (g => e.grant)
             /\ PastPurge(r, g) <=>
                   \/ op[r] = "erase"
                   \/ /\ e.from = "remove"
                      /\ e.pc = "unlist" \/ (e.pc = "delete" /\ g /\ ~e.grant)
  BY <1>2, HeldBy
<1>9. CASE DecidePurge(r)
  <2> DEFINE j == lockq[r][1]
             e == [j EXCEPT !.pc = "grants"]
  <2>1. e \in RemoveJobs /\ e.from = j.from /\ e.pc = "grants" /\ e.held = j.held
    BY <1>2 DEF RemoveJobs
  <2>2. /\ j.pc = "list" /\ index' = index
        /\ \/ Step(r, e) /\ op' = op
           \/ /\ Release(r) /\ j.from # "remove"
              /\ j.held => excused' # {}
    BY <1>2, <1>9 DEF DecidePurge, Holder, backend, DestroyEnds, Purges, Fails
  <2> HIDE DEF e
  <2>3. CASE Step(r, e) /\ op' = op
    BY <1>5, <1>7, <1>8, <2>1, <2>2, <2>3
  <2>4. CASE Release(r) /\ j.from # "remove" /\ (j.held => excused' # {})
    BY <1>5, <1>6, <1>8, <2>2, <2>4
  <2> QED BY <2>2, <2>3, <2>4
<1>10. CASE ReadGrants(r)
  <2> DEFINE j == lockq[r][1]
             e == [j EXCEPT !.pc = "delete", !.grant = index]
  <2>1. e \in RemoveJobs /\ e.from = j.from /\ e.pc = "delete" /\ e.grant = index
    BY <1>2 DEF RemoveJobs, Shape, TypeOK
  <2>2. /\ j.pc = "grants" /\ index' = index
        /\ \/ Step(r, e) /\ op' = op
           \/ Release(r) /\ ~j.held /\ ~names
    BY <1>2, <1>10 DEF ReadGrants, Holder, backend, DestroyEnds
  <2> HIDE DEF e
  <2>3. CASE Step(r, e) /\ op' = op
    BY <1>5, <1>7, <1>8, <2>1, <2>2, <2>3
  <2>4. CASE Release(r) /\ ~j.held /\ ~names
    BY <1>5, <1>6, <1>8, <2>2, <2>4
  <2> QED BY <2>2, <2>3, <2>4
<1>11. CASE DeleteTokens(r)
  <2> DEFINE j == lockq[r][1]
             e == [j EXCEPT !.pc = "unlist"]
  <2>1. e \in RemoveJobs /\ e.from = j.from /\ e.pc = "unlist"
    BY <1>2 DEF RemoveJobs
  <2>2. /\ j.pc = "delete" /\ index' = index /\ Step(r, e) /\ op' = op
        /\ token' = FALSE /\ (granted' => ~j.grant)
    BY <1>2, <1>11 DEF DeleteTokens, Holder
  <2> HIDE DEF e
  <2> QED BY <1>5, <1>7, <1>8, <2>1, <2>2
<1>12. CASE DeleteGrantList(r)
  <2>1. /\ lockq[r][1].pc = "unlist" /\ Release(r)
        /\ index /\ granted => excused' # {}
    BY <1>2, <1>12 DEF DeleteGrantList, Holder, DestroyEnds
  <2> QED BY <1>3, <1>5, <1>6, <1>8, <2>1
<1> QED BY <1>9, <1>10, <1>11, <1>12

\* A failed read leaves every writer as it was.
LEMMA PurgeUnread ==
  ASSUME Shape, PurgeInv, NEW r \in Replicas, ReadFails(r)
  PROVE  PurgeInv'
<1>1. /\ UNCHANGED <<lockq, client, refresh, seed>> /\ "unread" \in excused'
  BY DropsBuild DEF Dropped, writers
<1>2. \A p \in Replicas : WritersManned(p)' = WritersManned(p)
  BY <1>1 DEF WritersManned, Manned, None
<1> QED BY <1>1, <1>2 DEF PurgeInv

LEMMA PurgeNext ==
  Shape /\ NoGhostClient /\ ReplicasConverge /\ PurgeInv /\ [Next]_vars => PurgeInv'
<1> SUFFICES ASSUME Shape, NoGhostClient, ReplicasConverge, PurgeInv, [Next]_vars
             PROVE  PurgeInv'
  OBVIOUS
<1>1. CASE UNCHANGED vars
  <2>1. UNCHANGED <<record, names, token, granted, index, op, lockq, client, refresh,
                    seed, excused>>
    BY <1>1 DEF vars, backend, builds, writers
  <2>2. /\ \A p \in Replicas : WritersManned(p)' = WritersManned(p)
        /\ \A g \in BOOLEAN : WithinReach(g)' = WithinReach(g)
        /\ Named' = Named /\ GrantWithinReach' = GrantWithinReach
    BY <2>1
      DEF WritersManned, Manned, WithinReach, Purging, PastPurge, Named, None,
                GrantWithinReach, Settling
  <2> QED BY <2>1, <2>2 DEF PurgeInv
<1> QED BY <1>1, PurgeCalls, PurgeUnread, PurgeWriters, PurgeErase, PurgeCrash,
           PurgeBuild, PurgeDestroy, PurgeRemoval DEF Next

\* When everything has been heard and done, a removed instance has no stored
\* token and no stored grant, whichever replica removed it and whatever
\* refreshes and setGrantTokens were in flight, unless one of the gaps was met:
\* what is stored is tended by a replica that has a client or is purging, or
\* the next removal finds it by its recorded name, and a writer without a
\* client has been retired.
THEOREM RemovalLeavesNothing == Spec => []RemovalPurges
<1>1. Init => PurgeInv
  <2> SUFFICES ASSUME Init PROVE PurgeInv
    OBVIOUS
  <2>1. \A r \in Replicas : refresh[r] = "none" /\ seed[r].pc = "none"
                            /\ lockq[r] = <<>>
    BY DEF Init, NoSeed
  <2>2. ~token /\ ~granted /\ (record # 0 => names)
    BY DEF Init
  <2> QED BY <2>1, <2>2 DEF PurgeInv, WritersManned, Named
<1>2. PurgeInv /\ NoGhostClient => RemovalPurges
  <2> SUFFICES ASSUME PurgeInv, NoGhostClient, Quiet, record = 0, excused = {}
               PROVE  ~token /\ ~granted
    BY DEF RemovalPurges, Listed
  <2>1. \A r \in Replicas : lockq[r] = <<>> /\ seed[r].pc = "none"
    BY DEF Quiet, Idle
  <2>2. \A r \in Replicas : client[r] = None
    BY DEF NoGhostClient, Listed
  <2>3. \A g \in BOOLEAN : ~WithinReach(g)
    BY <2>1, <2>2 DEF WithinReach, Manned, Purging
  <2> QED BY <2>1, <2>3 DEF PurgeInv, GrantWithinReach, Settling
<1>3. Init => Shape
  BY ShapeInit
<1> QED BY <1>1, <1>2, <1>3, ShapeNext, PurgeNext, NoClientOutlivesItsRecord,
           ReplicasRunTheRecord, PTL DEF Spec

=============================================================================
