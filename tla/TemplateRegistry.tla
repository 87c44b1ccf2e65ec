-------------------------- MODULE TemplateRegistry --------------------------
(***************************************************************************)
(* Adding, rebuilding and removing one template instance on every replica  *)
(* (addTemplateClient, rebuildTemplateClient and removeTemplateClient in   *)
(* index.ts, utils/templateClients.ts, prepareClients in                   *)
(* utils/createClients.ts, the template messages of                        *)
(* utils/startSubscriptions.ts, purgeCredentials and setGrantTokens in     *)
(* client/index.ts, the retired lines of client/methods/authenticate.ts).  *)
(*                                                                         *)
(* The backend holds the instance's record; every replica builds a client  *)
(* from it when it adds the instance, hears that it was added or starts.   *)
(* Builds and removals of a replica queue on one lock.  A removal bumps    *)
(* the replica's generation first, so that a build whose record may be     *)
(* gone registers nothing.  Every replica hears every message, its own     *)
(* too, in the order they were published; what it starts for one message   *)
(* runs beside what it started for others.                                 *)
(*                                                                         *)
(* One action per await.  The commands of one replica reach the backend in *)
(* the order it issues them, so of two builds the one that began first     *)
(* reads first.  The template is registered everywhere and makes one       *)
(* client, whose credentials and settings are the numbers of the additions *)
(* that wrote them.  The write of the record (a transaction) and its       *)
(* erasure (a plain pipeline) are one step each.  A start that rejects     *)
(* ends its replica, which is a crash here.                                *)
(***************************************************************************)
EXTENDS Integers, Sequences

CONSTANTS
    Replicas,      \* the handlers
    FirstUp,       \* the handlers started at first
    MaxAdds,       \* bound: calls of addTemplateClient
    MaxRemoves,    \* bound: calls of removeTemplateClient
    MaxStarts,     \* bound: starts
    MaxCrashes,    \* bound: crashes
    MaxFailures,   \* bound: backend calls that fail
    MaxTokens      \* bound: token refreshes and calls of setGrantTokens

ASSUME RegistryAssumption ==
    /\ FirstUp \subseteq Replicas
    /\ {MaxAdds, MaxRemoves, MaxStarts, MaxCrashes, MaxFailures,
     MaxTokens} \subseteq Nat

VARIABLES
    record,    \* backend: the addition that wrote the record, 0: none
    names,     \* backend: the client's name is recorded for the instance
    token,     \* backend: the client's own tokens are stored
    granted,   \* backend: a grant's tokens are stored
    index,     \* backend: the grant is in the client's list of grants
    inbox,     \* published and not yet heard, by each replica
    op,        \* what its caller, or its start, is doing on each replica
    gen,       \* entryGenerations
    reading,   \* builds that are still reading the record
    lockq,     \* entryLocks: who waits for the lock, the holder first
    mapped,    \* templateClientMap has the instance
    client,    \* the credentials and settings of the registered client
    refresh,   \* a token refresh in flight, and whether its line is retired
    seed,      \* a setGrantTokens in flight, and whether its line is retired
    budget,    \* what is left of the bounds
    excused    \* history: which of the known gaps (Gaps, below) was met

backend == <<record, names, token, granted, index>>
builds == <<gen, reading, lockq, mapped, client>>
writers == <<refresh, seed>>
vars == <<backend, inbox, op, builds, writers, budget, excused>>

---------------------------------------------------------------------------

None == <<0, 0>>

\* crossed: a removal was announced after a later addition; swept: a start
\* took out an instance added while it loaded; slipped: a purge deleted the
\* list of grants while a listed grant was stored; kept: a replica that heard
\* of a removal found the instance added again, and left what was stored;
\* untold: a replica died before it announced what it had written; undone: a
\* replica died while some build, removal or refresh was under way; failed: an
\* ignored call failed; unread: a build could not read the record, and nothing
\* reads it again.
Gaps == {"crossed", "swept", "slipped", "kept", "untold", "undone", "failed",
         "unread"}

Versions == 0 .. MaxAdds + 1

BuildJobs == [from : {"add", "message", "load"}, gen : Nat, creds : Versions,
              settings : Versions, pc : {"creds", "settings", "wait",
              "name", "check", "swap"}]

RemoveJobs == [from : {"remove", "message", "load"},
               pc : {"wait", "list", "grants", "delete", "unlist"},
               held : BOOLEAN, grant : BOOLEAN]

TypeOK ==
    /\ record \in Versions
    /\ {names, token, granted, index} \subseteq BOOLEAN
    /\ excused \subseteq Gaps
    /\ inbox \in [Replicas -> Seq({"added", "removed"})]
    /\ op \in [Replicas -> {"down", "list", "load", "sweep", "sweeping", "idle",
                            "add", "tellAdded", "remove", "erase",
                            "tellRemoved"}]
    /\ gen \in [Replicas -> Nat]
    /\ reading \in [Replicas -> Seq(BuildJobs)]
    /\ lockq \in [Replicas -> Seq(BuildJobs \cup RemoveJobs)]
    /\ mapped \in [Replicas -> BOOLEAN]
    /\ client \in [Replicas -> Versions \X Versions]
    /\ refresh \in [Replicas -> {"none", "live", "retired"}]
    /\ seed \in [Replicas -> [pc : {"none", "track", "confirm"},
                              retired : BOOLEAN]]

NoSeed == [pc |-> "none", retired |-> FALSE]

Up(r) == op[r] # "down"

\* smembers of the instances: the record and its entry are written together.
Listed == record # 0

Spend(what) ==
    /\ budget[what] > 0
    /\ budget' = [budget EXCEPT ![what] = @ - 1]

---------------------------------------------------------------------------
(* Builds and removals of one replica.                                     *)

\* rebuildTemplateClient: the generation is read before the record is.
Reading(r, from) ==
    reading' = [reading EXCEPT ![r] = Append(@,
        [from |-> from, gen |-> gen[r], creds |-> 0, settings |-> 0,
         pc |-> "creds"])]

\* destroyTemplateClients: the generation is bumped before the lock is awaited.
Removing(r, from) ==
    /\ gen' = [gen EXCEPT ![r] = @ + 1]
    /\ lockq' = [lockq EXCEPT ![r] = Append(@,
          [from |-> from, pc |-> "wait", held |-> FALSE, grant |-> FALSE])]

\* What the one who waits for a build or a removal does when it ends.
Resume(r, from) ==
    op' = [op EXCEPT ![r] = CASE from = "add" -> "tellAdded"
                              [] from = "remove" -> "erase"
                              [] from = "load" -> "idle"
                              [] OTHER -> @]

\* The first of the builds that are still to read the credentials.
FirstToRead(r) ==
    CHOOSE i \in 1 .. Len(reading[r]) :
        /\ reading[r][i].pc = "creds"
        /\ \A j \in 1 .. i - 1 : reading[r][j].pc # "creds"

\* The builds that go on reading without the i-th.
Rest(r, i) == SubSeq(reading[r], 1, i - 1) \o
              SubSeq(reading[r], i + 1, Len(reading[r]))

\* It reads them; no record, no build.
ReadCredentials(r) ==
    /\ \E i \in 1 .. Len(reading[r]) : reading[r][i].pc = "creds"
    /\ LET i == FirstToRead(r)
       IN  IF record = 0
           THEN /\ reading' = [reading EXCEPT ![r] = Rest(r, i)]
                /\ Resume(r, reading[r][i].from)
           ELSE /\ reading' = [reading EXCEPT ![r][i].creds = record,
                                              ![r][i].pc = "settings"]
                /\ UNCHANGED op
    /\ UNCHANGED <<backend, inbox, gen, lockq, mapped, client, writers, budget,
                   excused>>

\* readTemplateClientOptions, and the build queues for the lock.
ReadSettings(r) ==
    /\ reading[r] # <<>> /\ Head(reading[r]).pc = "settings"
    /\ reading' = [reading EXCEPT ![r] = Tail(@)]
    /\ lockq' = [lockq EXCEPT ![r] = Append(@,
                   [Head(reading[r]) EXCEPT !.settings = record, !.pc = "wait"])]
    /\ UNCHANGED <<backend, inbox, op, gen, mapped, client, writers, budget,
                   excused>>

\* Either read, or the decryption between them, throws.  The addition rejects
\* and announces nothing, the start skips the instance, and what a message
\* started is only logged.
ReadFails(r) ==
    /\ Spend("failures")
    /\ excused' = excused \cup {"unread"}
    /\ \E i \in 1 .. Len(reading[r]) :
          /\ reading' = [reading EXCEPT ![r] = Rest(r, i)]
          /\ op' = [op EXCEPT ![r] = IF reading[r][i].from = "message" THEN @
                                     ELSE "idle"]
    /\ UNCHANGED <<backend, inbox, gen, lockq, mapped, client, writers>>

\* The holder of the lock is at pc.
Holder(r, pc) == lockq[r] # <<>> /\ Head(lockq[r]).pc = pc
Builds(r) == "gen" \in DOMAIN Head(lockq[r])

Step(r, job) == lockq' = [lockq EXCEPT ![r] = <<job>> \o Tail(@)]

\* The holder is done: the lock goes to the next, and its caller goes on.
Release(r) ==
    /\ Resume(r, Head(lockq[r]).from)
    /\ lockq' = [lockq EXCEPT ![r] = Tail(@)]

\* Mutant: a build does not ask whether it was superseded.
NeverSuperseded(r) == FALSE

Superseded(r) == Head(lockq[r]).gen # gen[r]

\* buildAndRegisterTemplateClients has the lock.
BuildBegins(r) ==
    /\ Holder(r, "wait") /\ Builds(r)
    /\ IF Superseded(r)
       THEN Release(r) /\ UNCHANGED mapped
       ELSE /\ mapped' = [mapped EXCEPT ![r] = TRUE]
            /\ Step(r, [Head(lockq[r]) EXCEPT !.pc = "name"])
            /\ UNCHANGED op
    /\ UNCHANGED <<backend, inbox, gen, reading, client, writers, budget, excused>>

\* A call whose failure the code ignores fails.
Fails ==
    /\ Spend("failures")
    /\ excused' = excused \cup {"failed"}

\* The names are recorded, in calls that may fail.
RecordNames(r) ==
    /\ Holder(r, "name")
    /\ \/ names' = TRUE /\ UNCHANGED <<budget, excused>>
       \/ names' = FALSE /\ Fails
    /\ Step(r, [Head(lockq[r]) EXCEPT !.pc = "check"])
    /\ UNCHANGED <<record, token, granted, index, inbox, op, gen, reading, mapped,
                   client, writers>>

\* planTemplateBuild: what the client will be is decided by what was read.
Built(r) == <<Head(lockq[r]).creds, Head(lockq[r]).settings>>

\* Mutant: clients are compared by their settings alone.
SameSettings(r) == client[r][2] = Built(r)[2]

\* prepareClients and clientDataEqual.
SameData(r) == client[r] = Built(r)

\* A build that a removal overtook registers nothing; one that would replace
\* the client by an equal one keeps it; else resetClient takes it out.
CheckAndReset(r) ==
    /\ Holder(r, "check")
    /\ IF Superseded(r) \/ SameData(r)
       THEN Release(r) /\ UNCHANGED client
       ELSE /\ client' = [client EXCEPT ![r] = None]
            /\ Step(r, [Head(lockq[r]) EXCEPT !.pc = "swap"])
            /\ UNCHANGED op
    /\ UNCHANGED <<backend, inbox, gen, reading, mapped, writers, budget, excused>>

\* registerClient.
Register(r) ==
    /\ Holder(r, "swap")
    /\ client' = [client EXCEPT ![r] = Built(r)]
    /\ Release(r)
    /\ UNCHANGED <<backend, inbox, gen, reading, mapped, writers, budget, excused>>

\* Mutant: the lines of a removed client are not retired.
DestroyedUnretired(r) ==
    /\ client' = [client EXCEPT ![r] = None]
    /\ UNCHANGED writers

\* retireCredentialWrites, then destroy, of a registered client.
Destroyed(r) ==
    /\ client' = [client EXCEPT ![r] = None]
    /\ refresh' = [refresh EXCEPT ![r] = IF @ = "live" THEN "retired" ELSE @]
    /\ seed' = [seed EXCEPT ![r].retired = seed[r].pc # "none"]

\* doDestroy has the lock; a replica without a client has nothing to destroy.
DestroyBegins(r) ==
    /\ Holder(r, "wait") /\ ~ Builds(r)
    /\ Step(r, [Head(lockq[r]) EXCEPT !.pc = "list",
                                      !.held = client[r] # None])
    /\ IF client[r] # None THEN Destroyed(r) ELSE UNCHANGED <<client, writers>>
    /\ UNCHANGED <<backend, inbox, op, gen, reading, mapped, budget, excused>>

\* templateClientMap forgets the instance, at the end of doDestroy.
DestroyEnds(r) ==
    /\ mapped' = [mapped EXCEPT ![r] = FALSE]
    /\ Release(r)

\* The purge: asked for, or a client was held and the instance is gone.
Purges(job) == job.from = "remove" \/ (job.held /\ ~ Listed)

\* The decision to purge; the read it takes may fail, and then nothing is.
DecidePurge(r) ==
    LET job == Head(lockq[r]) IN
    /\ Holder(r, "list") /\ ~ Builds(r)
    /\ \/ /\ Purges(job)
          /\ Step(r, [job EXCEPT !.pc = "grants"])
          /\ UNCHANGED <<op, mapped, budget, excused>>
       \/ /\ ~ Purges(job)
          /\ DestroyEnds(r)
          /\ excused' = excused \cup (IF job.held THEN {"kept"} ELSE {})
          /\ UNCHANGED budget
       \/ /\ job.from # "remove" /\ job.held
          /\ Fails
          /\ DestroyEnds(r)
    /\ UNCHANGED <<backend, inbox, gen, reading, client, writers>>

\* purgeCredentials reads the grants; purgeCredentialsByName, without a client,
\* finds nothing when the names are not recorded.
ReadGrants(r) ==
    LET job == Head(lockq[r]) IN
    /\ Holder(r, "grants")
    /\ IF job.held \/ names
       THEN /\ Step(r, [job EXCEPT !.pc = "delete", !.grant = index])
            /\ UNCHANGED <<op, mapped>>
       ELSE DestroyEnds(r)
    /\ UNCHANGED <<backend, inbox, gen, reading, client, writers, budget, excused>>

DeleteTokens(r) ==
    /\ Holder(r, "delete")
    /\ token' = FALSE
    /\ granted' = (granted /\ ~ Head(lockq[r]).grant)
    /\ Step(r, [Head(lockq[r]) EXCEPT !.pc = "unlist"])
    /\ UNCHANGED <<record, names, index, inbox, op, gen, reading, mapped, client,
                   writers, budget, excused>>

DeleteGrantList(r) ==
    /\ Holder(r, "unlist")
    /\ index' = FALSE
    /\ excused' = excused \cup (IF index /\ granted THEN {"slipped"} ELSE {})
    /\ DestroyEnds(r)
    /\ UNCHANGED <<record, names, token, granted, inbox, gen, reading, client,
                   writers, budget>>

---------------------------------------------------------------------------
(* Calls and messages.                                                     *)

Publish(r, message) ==
    inbox' = [p \in Replicas |-> IF Up(p) THEN Append(inbox[p], message)
                                 ELSE inbox[p]]

\* addTemplateClient: the record is written, then rebuilt from.
Add(r) ==
    /\ op[r] = "idle" /\ Spend("adds")
    /\ record' = MaxAdds + 2 - budget["adds"]
    /\ op' = [op EXCEPT ![r] = "add"]
    /\ Reading(r, "add")
    /\ UNCHANGED <<names, token, granted, index, inbox, gen, lockq, mapped, client,
                   writers, excused>>

TellAdded(r) ==
    /\ op[r] = "tellAdded"
    /\ Publish(r, "added")
    /\ op' = [op EXCEPT ![r] = "idle"]
    /\ UNCHANGED <<backend, builds, writers, budget, excused>>

\* removeTemplateClient: destroyed here and purged, then erased and announced.
Remove(r) ==
    /\ op[r] = "idle" /\ Spend("removes")
    /\ op' = [op EXCEPT ![r] = "remove"]
    /\ Removing(r, "remove")
    /\ UNCHANGED <<backend, inbox, reading, mapped, client, writers, excused>>

Erase(r) ==
    /\ op[r] = "erase"
    /\ record' = 0
    /\ names' = FALSE
    /\ op' = [op EXCEPT ![r] = "tellRemoved"]
    /\ UNCHANGED <<token, granted, index, inbox, builds, writers, budget, excused>>

TellRemoved(r) ==
    /\ op[r] = "tellRemoved"
    /\ Publish(r, "removed")
    /\ excused' = excused \cup (IF record # 0 THEN {"crossed"} ELSE {})
    /\ op' = [op EXCEPT ![r] = "idle"]
    /\ UNCHANGED <<backend, builds, writers, budget>>

\* handleTemplateClientAdded and handleTemplateClientRemoved.
Hear(r) ==
    /\ inbox[r] # <<>>
    /\ inbox' = [inbox EXCEPT ![r] = Tail(@)]
    /\ \/ /\ Head(inbox[r]) = "added"
          /\ Reading(r, "message")
          /\ UNCHANGED <<gen, lockq>>
       \/ /\ Head(inbox[r]) = "removed"
          /\ Removing(r, "message")
          /\ UNCHANGED reading
    /\ UNCHANGED <<backend, op, mapped, client, writers, budget, excused>>

---------------------------------------------------------------------------
(* Starts and crashes.                                                     *)

\* doStart: subscribed before anything is read.
Start(r) ==
    /\ op[r] = "down" /\ Spend("starts")
    /\ op' = [op EXCEPT ![r] = "list"]
    /\ UNCHANGED <<backend, inbox, builds, writers, excused>>

\* loadTemplateClientsFromBackend: a listed instance not built yet is built.
List(r) ==
    /\ op[r] = "list"
    /\ op' = [op EXCEPT ![r] = CASE ~ Listed -> "sweep"
                                 [] Listed /\ ~ mapped[r] -> "load"
                                 [] OTHER -> "idle"]
    /\ IF op'[r] = "load" THEN Reading(r, "load") ELSE UNCHANGED reading
    /\ UNCHANGED <<backend, inbox, gen, lockq, mapped, client, writers, budget,
                   excused>>

\* Its last loop: one that was built and not listed when it read is removed.
Sweep(r) ==
    /\ op[r] = "sweep"
    /\ IF mapped[r]
       THEN /\ op' = [op EXCEPT ![r] = "sweeping"]
            /\ Removing(r, "load")
            /\ excused' = excused \cup (IF Listed THEN {"swept"} ELSE {})
       ELSE /\ op' = [op EXCEPT ![r] = "idle"]
            /\ UNCHANGED <<gen, lockq, excused>>
    /\ UNCHANGED <<backend, inbox, reading, mapped, client, writers, budget>>

Idle(r) ==
    /\ op[r] \in {"idle", "down"}
    /\ inbox[r] = <<>> /\ reading[r] = <<>> /\ lockq[r] = <<>>
    /\ refresh[r] = "none" /\ seed[r].pc = "none"

\* Nothing is going on anywhere.
Quiet == \A r \in Replicas : Idle(r)

\* The process ends; a later start has everything to do again.
Crash(r) ==
    /\ Up(r) /\ Spend("crashes")
    /\ excused' = excused
          \cup (IF Quiet THEN {} ELSE {"undone"})
          \cup (IF op[r] \in {"add", "tellAdded", "tellRemoved"}
                THEN {"untold"} ELSE {})
    /\ op' = [op EXCEPT ![r] = "down"]
    /\ inbox' = [inbox EXCEPT ![r] = <<>>]
    /\ gen' = [gen EXCEPT ![r] = 0]
    /\ reading' = [reading EXCEPT ![r] = <<>>]
    /\ lockq' = [lockq EXCEPT ![r] = <<>>]
    /\ mapped' = [mapped EXCEPT ![r] = FALSE]
    /\ client' = [client EXCEPT ![r] = None]
    /\ refresh' = [refresh EXCEPT ![r] = "none"]
    /\ seed' = [seed EXCEPT ![r] = NoSeed]
    /\ UNCHANGED backend

---------------------------------------------------------------------------
(* Writers of credentials.                                                 *)

\* A request of the client starts a refresh.
StartRefresh(r) ==
    /\ client[r] # None /\ refresh[r] = "none" /\ Spend("tokens")
    /\ refresh' = [refresh EXCEPT ![r] = "live"]
    /\ UNCHANGED <<backend, inbox, op, builds, seed, excused>>

\* saveOAuthData: a retired line writes nothing.
SaveToken(r) ==
    /\ refresh[r] # "none"
    /\ token' = (token \/ refresh[r] = "live")
    /\ refresh' = [refresh EXCEPT ![r] = "none"]
    /\ UNCHANGED <<record, names, granted, index, inbox, op, builds, seed, budget,
                   excused>>

\* setGrantTokens, on a client that is not retired: the hash is written ...
SeedGrant(r) ==
    /\ client[r] # None /\ seed[r].pc = "none" /\ Spend("tokens")
    /\ granted' = TRUE
    /\ seed' = [seed EXCEPT ![r] = [pc |-> "track", retired |-> FALSE]]
    /\ UNCHANGED <<record, names, token, index, inbox, op, builds, refresh, excused>>

\* ... trackGrantId lists the grant, unless the client was retired since ...
TrackGrant(r) ==
    /\ seed[r].pc = "track"
    /\ index' = (index \/ ~ seed[r].retired)
    /\ seed' = [seed EXCEPT ![r].pc = "confirm"]
    /\ UNCHANGED <<record, names, token, granted, inbox, op, builds, refresh,
                   budget, excused>>

\* ... and a write that a removal overtook is undone.
UndoesGrant(r) == seed[r].retired

ConfirmGrant(r) ==
    /\ seed[r].pc = "confirm"
    /\ granted' = (granted /\ ~ UndoesGrant(r))
    /\ seed' = [seed EXCEPT ![r] = NoSeed]
    /\ UNCHANGED <<record, names, token, index, inbox, op, builds, refresh, budget,
                   excused>>

---------------------------------------------------------------------------

\* An instance may have been added before, by a replica of FirstUp.
Init ==
    /\ record \in {0, 1}
    /\ names = (record = 1)
    /\ token = FALSE /\ granted = FALSE /\ index = FALSE
    /\ inbox = [r \in Replicas |-> <<>>]
    /\ op = [r \in Replicas |-> IF r \in FirstUp THEN "idle" ELSE "down"]
    /\ gen = [r \in Replicas |-> 0]
    /\ reading = [r \in Replicas |-> <<>>]
    /\ lockq = [r \in Replicas |-> <<>>]
    /\ mapped = [r \in Replicas |-> record = 1 /\ r \in FirstUp]
    /\ client = [r \in Replicas |-> IF mapped[r] THEN <<1, 1>> ELSE None]
    /\ refresh = [r \in Replicas |-> "none"]
    /\ seed = [r \in Replicas |-> NoSeed]
    /\ budget = [adds |-> MaxAdds, removes |-> MaxRemoves, starts |-> MaxStarts,
                 crashes |-> MaxCrashes, failures |-> MaxFailures,
                 tokens |-> MaxTokens]
    /\ excused = {}

Next ==
    \E r \in Replicas :
        \/ Add(r) \/ TellAdded(r)
        \/ Remove(r) \/ Erase(r) \/ TellRemoved(r)
        \/ Hear(r)
        \/ ReadCredentials(r) \/ ReadSettings(r) \/ ReadFails(r)
        \/ BuildBegins(r) \/ RecordNames(r) \/ CheckAndReset(r) \/ Register(r)
        \/ DestroyBegins(r) \/ DecidePurge(r) \/ ReadGrants(r)
        \/ DeleteTokens(r) \/ DeleteGrantList(r)
        \/ Start(r) \/ List(r) \/ Sweep(r) \/ Crash(r)
        \/ StartRefresh(r) \/ SaveToken(r)
        \/ SeedGrant(r) \/ TrackGrant(r) \/ ConfirmGrant(r)

Spec == Init /\ [][Next]_vars

---------------------------------------------------------------------------
(* Properties.                                                             *)

\* Once everything has been heard and done, a removed instance has no client
\* on any replica, whatever builds, starts and re-additions were under way:
\* entryGenerations stops every build that read the record in time to see it.
NoGhostClient ==
    Quiet /\ ~ Listed /\ "untold" \notin excused =>
        \A r \in Replicas : client[r] = None

\* Once everything has been heard and done, every started replica runs the
\* client of the last addition: credentials and settings of one record, from
\* one writer, except across the gaps where a removal outlives it, nobody was
\* told of it, or a build could not read it and was dropped.
ReplicasConverge ==
    (/\ Quiet /\ Listed
     /\ excused \cap {"crossed", "swept", "untold", "unread"} = {}) =>
        \A r \in Replicas : Up(r) => client[r] = <<record, record>>

\* Once everything has been heard and done, a removed instance has no stored
\* token and no stored grant, whichever replica removed it and whatever
\* refreshes and setGrantTokens were in flight there and on its peers.
RemovalPurges ==
    Quiet /\ ~ Listed /\ excused = {} => ~ token /\ ~ granted

=============================================================================
