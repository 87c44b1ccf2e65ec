----------------------- MODULE AdmissionQueueProofs -----------------------
(***************************************************************************)
(* Theorems about AdmissionQueue, for any number of requests and passes,   *)
(* any lease, freeze, limit and retry budget, and any pattern of lost      *)
(* replies, except where a theorem names what it assumes of them.          *)
(***************************************************************************)
EXTENDS AdmissionQueue, FiniteSetTheorems, TLAPS

---------------------------------------------------------------------------
(* Type correctness: first the updates the actions are made of, then one   *)
(* lemma per action.                                                       *)

Claims == -1 .. Lease

\* The values the actions write into an entry are of its type.
LEMMA EntryValues ==
  /\ NoClaim \in Claims /\ 0 \in Claims
  /\ NoEntry \in EntryType
  /\ 0 \in Attempts /\ 0 \in 0 .. Lease
  BY ConstantsAssumption
  DEF NoClaim, Claims, NoEntry, EntryType, Attempts, ConstantsAssumption

\* Initially every component has its type.
LEMMA InitType == Init => TypeOK
<1> SUFFICES ASSUME Init PROVE TypeOK
  OBVIOUS
<1>1. entry \in [Requests -> EntryType]
  BY EntryValues DEF Init
<1>2. IdlePass \in PassType
  BY EntryValues DEF IdlePass, PassType, PassPcs
<1>3. freeze \in FreezeType
  BY ConstantsAssumption
  DEF Init, NoFreeze, FreezeType, ConstantsAssumption
<1>4. owner \in [Requests -> OwnerType]
  BY EntryValues DEF Init, OwnerType, OwnerPhases
<1>5. lost \in 0 .. MaxLost
  BY ConstantsAssumption DEF Init, ConstantsAssumption
<1>6. PassOK
  BY <1>2 DEF Init, PassOK, IdlePass
<1> QED BY <1>1, <1>3, <1>4, <1>5, <1>6 DEF Init, TypeOK

\* Moving a busy pass to another program counter keeps its type.
LEMMA GotoType ==
  ASSUME PassOK, NEW p \in Passes, NEW pc \in PassPcs, Goto(p, pc),
         pass[p].pc # "idle"
  PROVE  PassOK'
  BY DEF PassOK, Goto, PassType

\* So does ending its iteration,
LEMMA EndPassType ==
  ASSUME PassOK, NEW p \in Passes, EndPass(p)
  PROVE  PassOK'
<1>1. IdlePass \in PassType /\ IdlePass.pc = "idle"
  BY EntryValues DEF IdlePass, PassType, PassPcs
<1> QED BY <1>1 DEF PassOK, EndPass

\* and its catch.
LEMMA CatchType ==
  ASSUME PassOK, NEW p \in Passes, Catch(p), pass[p].pc # "idle"
  PROVE  PassOK'
<1> DEFINE pc == IF pass[p].sent THEN "returnWrite" ELSE "returnConfirm"
<1>1. pc \in PassPcs
  BY DEF PassPcs
<1>2. pass' = [pass EXCEPT ![p].caught = TRUE, ![p].pc = pc]
  BY DEF Catch
<1> HIDE DEF pc
<1> DEFINE new == [pass[p] EXCEPT !.caught = TRUE, !.pc = pc]
<1>3. new \in PassType /\ new.r \in Requests
  BY <1>1 DEF PassOK, PassType
<1>4. pass' = [pass EXCEPT ![p] = new]
  BY <1>2 DEF PassOK
<1> HIDE DEF new
<1> QED BY <1>3, <1>4 DEF PassOK

\* A lost reply stays within the bound.
LEMMA LosesType ==
  ASSUME TypeOK, NEW call, Loses(call)
  PROVE  lost' \in 0 .. MaxLost
  BY ConstantsAssumption DEF TypeOK, Loses, ConstantsAssumption

\* A step of a pass marks nobody.
LEMMA MarksType ==
  ASSUME TypeOK, NEW p \in Passes, PassStep(p)
  PROVE  overtaken' \subseteq Passes
<1>0. overtaken \subseteq Passes
  BY DEF TypeOK
<1>1. /\ \A pc : Goto(p, pc) => overtaken' = overtaken
      /\ Catch(p) => overtaken' = overtaken \ {p}
      /\ EndPass(p) => overtaken' = overtaken \ {p}
      /\ GivesUp(p) => overtaken' = overtaken \ {p}
  BY DEF Goto, Catch, EndPass, GivesUp
<1>2. overtaken' = overtaken \/ overtaken' = overtaken \ {p}
  <2>1. CASE Judge(p) \/ Nominate(p) \/ CheckFrozen(p)
    BY <1>1, <2>1 DEF Judge, Nominate, CheckFrozen
  <2>2. CASE ClaimSlot(p) \/ RecheckFrozen(p) \/ ReleaseFrozen(p) \/ Reread(p)
    BY <1>1, <2>2 DEF ClaimSlot, RecheckFrozen, ReleaseFrozen, Reread
  <2>3. CASE Confirm(p) \/ RereadRefused(p) \/ GoneClock(p) \/ GoneRelease(p)
    BY <1>1, <2>3 DEF Confirm, RereadRefused, GoneClock, GoneRelease
  <2>4. CASE HandOver(p) \/ ReturnConfirm(p) \/ ReturnWrite(p)
    BY <1>1, <2>4 DEF HandOver, ReturnConfirm, ReturnWrite
  <2> QED BY <2>1, <2>2, <2>3, <2>4 DEF PassStep
<1> QED BY <1>0, <1>2

LEMMA SelectType ==
  ASSUME TypeOK, NEW p \in Passes, Select(p)
  PROVE  TypeOK'
<1>1. PICK r \in Requests :
        LET thaw == entry[r].thaw /\ entry[r].status = "pending" IN
        /\ entry' = [entry EXCEPT ![r].status = "inProgress",
                                  ![r].claim = 0, ![r].thaw = thaw]
        /\ \/ /\ pass' = [pass EXCEPT ![p] =
                     [IdlePass EXCEPT !.pc = "judge", !.r = r,
                         !.n = entry[r].retries, !.thaw = thaw]]
              /\ UNCHANGED lost
           \/ Loses("select") /\ UNCHANGED pass
  BY DEF Select
<1> DEFINE thaw == entry[r].thaw /\ entry[r].status = "pending"
           c == [IdlePass EXCEPT !.pc = "judge", !.r = r,
                    !.n = entry[r].retries, !.thaw = thaw]
<1>2. entry[r].retries \in Attempts /\ thaw \in BOOLEAN
  BY DEF TypeOK, EntryType
<1>3. /\ entry' = [entry EXCEPT ![r].status = "inProgress",
                               ![r].claim = 0, ![r].thaw = thaw]
      /\ \/ pass' = [pass EXCEPT ![p] = c] /\ UNCHANGED lost
         \/ Loses("select") /\ UNCHANGED pass
  BY <1>1
<1>4. c \in PassType /\ c.r = r
  <2> HIDE DEF thaw
  <2> QED BY <1>2, EntryValues DEF IdlePass, PassType, PassPcs
<1> HIDE DEF thaw, c
<1>5. entry' \in [Requests -> EntryType]
  BY <1>2, <1>3, EntryValues DEF TypeOK, EntryType, Claims
<1>6. PassOK' /\ lost' \in 0 .. MaxLost
  BY <1>3, <1>4, LosesType DEF TypeOK, PassOK
<1> QED BY <1>5, <1>6 DEF Select, TypeOK

LEMMA UnstampType ==
  ASSUME TypeOK, NEW p \in Passes
  PROVE  Unstamp(p) \in [Requests -> EntryType]
<1>1. CASE pass[p].r \in Requests
  BY <1>1, EntryValues DEF Unstamp, TypeOK, EntryType, Claims
<1>2. CASE pass[p].r \notin Requests
  BY <1>2 DEF Unstamp, TypeOK
<1> QED BY <1>1, <1>2

LEMMA ReturnedType ==
  ASSUME TypeOK, NEW p \in Passes
  PROVE  Returned(p) \in [Requests -> EntryType]
<1> DEFINE r == pass[p].r
           b == entry[r].thaw /\ ~pass[p].thaw
<1>1. CASE r \in Requests /\ Queued(r)
  <2>1. Returned(p) = [entry EXCEPT ![r].status = "pending",
                                   ![r].claim = NoClaim, ![r].thaw = b]
    BY <1>1 DEF Returned, TypeOK, EntryType
  <2>2. b \in BOOLEAN
    OBVIOUS
  <2>3. entry \in [Requests -> EntryType] /\ r \in Requests
    BY <1>1 DEF TypeOK
  <2> HIDE DEF r, b
  <2>4. [entry EXCEPT ![r].status = "pending", ![r].claim = NoClaim,
                      ![r].thaw = b] \in [Requests -> EntryType]
    BY <2>2, <2>3, EntryValues DEF EntryType, Claims
  <2> QED BY <2>1, <2>4
<1>2. CASE r \notin Requests
  BY <1>2 DEF Returned, TypeOK
<1>3. CASE ~Queued(r)
  BY <1>3 DEF Returned, TypeOK
<1> QED BY <1>1, <1>2, <1>3

\* The steps of a pass that read, then go somewhere else or throw.
LEMMA ReadStepType ==
  ASSUME TypeOK, NEW p \in Passes,
         \/ Judge(p) \/ CheckFrozen(p) \/ RecheckFrozen(p) \/ Reread(p)
         \/ RereadRefused(p) \/ GoneClock(p)
  PROVE  TypeOK'
<1>0. PassOK /\ pass[p].pc # "idle" /\ pass[p].r \in Requests
  BY DEF TypeOK, PassOK, At, Judge, CheckFrozen, RecheckFrozen, Reread,
         RereadRefused, GoneClock
<1>1. \A pc \in PassPcs : Goto(p, pc) => PassOK'
  BY <1>0, GotoType
<1>2. (Catch(p) => PassOK') /\ (EndPass(p) => PassOK')
  BY <1>0, CatchType, EndPassType
<1>3. \A call : Loses(call) => lost' \in 0 .. MaxLost
  BY LosesType
<1>4. PassOK'
  <2>1. CASE Judge(p)
    BY <2>1, <1>1, <1>2 DEF Judge, PassPcs
  <2>2. CASE CheckFrozen(p)
    BY <2>2, <1>1, <1>2 DEF CheckFrozen, PassPcs
  <2>3. CASE RecheckFrozen(p)
    BY <2>3, <1>1, <1>2 DEF RecheckFrozen, PassPcs
  <2>4. CASE Reread(p)
    BY <2>4, <1>1, <1>2 DEF Reread, PassPcs
  <2>5. CASE RereadRefused(p)
    BY <2>5, <1>1, <1>2 DEF RereadRefused, PassPcs
  <2>6. CASE GoneClock(p)
    BY <2>6, <1>1, <1>2 DEF GoneClock, PassPcs
  <2> QED BY <2>1, <2>2, <2>3, <2>4, <2>5, <2>6
<1>5. lost' \in 0 .. MaxLost
  BY <1>3 DEF Judge, CheckFrozen, RecheckFrozen, Reread, RereadRefused,
              GoneClock, TypeOK
<1>6. UNCHANGED <<entry, tombstone, freeze, slots, owner, ready, completions>>
  BY DEF Judge, CheckFrozen, RecheckFrozen, Reread, RereadRefused, GoneClock
<1>7. overtaken' \subseteq Passes
  BY MarksType DEF PassStep
<1> QED BY <1>4, <1>5, <1>6, <1>7 DEF TypeOK

\* The steps that write the ledger.
LEMMA SlotStepType ==
  ASSUME TypeOK, NEW p \in Passes,
         ClaimSlot(p) \/ ReleaseFrozen(p) \/ GoneRelease(p)
  PROVE  TypeOK'
<1>0. PassOK /\ pass[p].pc # "idle" /\ pass[p].r \in Requests
  BY DEF TypeOK, PassOK, At, ClaimSlot, ReleaseFrozen, GoneRelease
<1>1. \A pc \in PassPcs : Goto(p, pc) => PassOK'
  BY <1>0, GotoType
<1>2. (Catch(p) => PassOK') /\ (EndPass(p) => PassOK')
  BY <1>0, CatchType, EndPassType
<1>3. PassOK'
  <2>1. CASE ClaimSlot(p)
    BY <2>1, <1>1, <1>2 DEF ClaimSlot, PassPcs
  <2>2. CASE ReleaseFrozen(p)
    BY <2>2, <1>2 DEF ReleaseFrozen
  <2>3. CASE GoneRelease(p)
    BY <2>3, <1>2 DEF GoneRelease
  <2> QED BY <2>1, <2>2, <2>3
<1>4. lost' \in 0 .. MaxLost
  <2>1. \A call : Loses(call) => lost' \in 0 .. MaxLost
    BY LosesType
  <2> QED BY <2>1 DEF ClaimSlot, ReleaseFrozen, GoneRelease, TypeOK
<1>5. slots' \subseteq SlotIds
  <2>1. CASE ClaimSlot(p)
    <3>1. pass[p].n \in Attempts
      BY <1>0 DEF PassOK, PassType
    <3> QED BY <2>1, <1>0, <3>1 DEF ClaimSlot, SlotIds, TypeOK
  <2>2. CASE ReleaseFrozen(p) \/ GoneRelease(p)
    BY <2>2 DEF ReleaseFrozen, GoneRelease, TypeOK
  <2> QED BY <2>1, <2>2
<1>6. UNCHANGED <<entry, tombstone, freeze, owner, ready, completions>>
  BY DEF ClaimSlot, ReleaseFrozen, GoneRelease
<1>7. overtaken' \subseteq Passes
  BY MarksType DEF PassStep
<1> QED BY <1>3, <1>4, <1>5, <1>6, <1>7 DEF TypeOK

\* The steps that write the entry, or notify its owner.
LEMMA NominateType ==
  ASSUME TypeOK, NEW p \in Passes, Nominate(p)
  PROVE  TypeOK'
<1>0. PassOK /\ pass[p].pc # "idle" /\ pass[p].r \in Requests
  BY DEF TypeOK, PassOK, At, Nominate
<1>1. entry' \in [Requests -> EntryType]
  <2>1. entry' \in {entry, [entry EXCEPT ![pass[p].r].thaw = TRUE]}
    BY DEF Nominate
  <2>2. entry \in [Requests -> EntryType]
    BY DEF TypeOK
  <2>3. [entry[pass[p].r] EXCEPT !.thaw = TRUE] \in EntryType
    BY <1>0, <2>2 DEF EntryType
  <2> QED BY <1>0, <2>1, <2>2, <2>3
<1>2. PassOK'
  <2>1. "returnConfirm" \in PassPcs /\ "isFrozen" \in PassPcs
    BY DEF PassPcs
  <2>2. CASE Goto(p, "returnConfirm")
    BY <2>1, <2>2, <1>0, GotoType
  <2>3. CASE Catch(p)
    BY <2>3, <1>0, CatchType
  <2>4. CASE pass' = [pass EXCEPT ![p].pc = "isFrozen", ![p].thaw = TRUE]
    <3> DEFINE new == [pass[p] EXCEPT !.pc = "isFrozen", !.thaw = TRUE]
    <3>1. new \in PassType /\ new.r \in Requests
      BY <1>0, <2>1 DEF PassOK, PassType
    <3>2. pass' = [pass EXCEPT ![p] = new]
      BY <1>0, <2>4 DEF PassOK
    <3> HIDE DEF new
    <3> QED BY <1>0, <3>1, <3>2 DEF PassOK
  <2> QED BY <2>2, <2>3, <2>4 DEF Nominate
<1>3. lost' \in 0 .. MaxLost
  BY LosesType DEF Nominate, TypeOK
<1>4. overtaken' \subseteq Passes
  BY MarksType DEF PassStep
<1> QED BY <1>1, <1>2, <1>3, <1>4 DEF Nominate, TypeOK

LEMMA ConfirmType ==
  ASSUME TypeOK, NEW p \in Passes, Confirm(p) \/ ReturnConfirm(p)
  PROVE  TypeOK'
<1>0. PassOK /\ pass[p].pc # "idle" /\ pass[p].r \in Requests
  BY DEF TypeOK, PassOK, At, Confirm, ReturnConfirm
<1>1. entry' \in [Requests -> EntryType]
  BY UnstampType DEF Confirm, ReturnConfirm
<1>2. PassOK'
  <2>1. {"returnWrite", "handover", "regone"} \subseteq PassPcs
    BY DEF PassPcs
  <2>3. CASE EndPass(p)
    BY <2>3, <1>0, EndPassType
  <2>4. CASE pass' = [pass EXCEPT ![p].sent = TRUE, ![p].caught = TRUE,
                                  ![p].pc = "returnWrite"]
    BY <2>1, <2>4, <1>0, ZenonT(60) DEF PassOK, PassType
  <2>5. CASE pass' = [pass EXCEPT ![p].pc = "returnWrite",
                                  ![p].sent = TRUE]
    BY <2>1, <2>5, <1>0, ZenonT(60) DEF PassOK, PassType
  <2>6. CASE pass' = [pass EXCEPT ![p].pc = "returnWrite",
                                  ![p].sent = TRUE, ![p].caught = TRUE]
    BY <2>1, <2>6, <1>0, ZenonT(60) DEF PassOK, PassType
  <2>7. CASE Confirm(p)
    <3> DEFINE pc == IF Confirmable(p) THEN "handover" ELSE "regone"
    <3>1. pc \in PassPcs
      BY <2>1
    <3>2. \/ pass' = [pass EXCEPT ![p].sent = TRUE, ![p].pc = pc]
          \/ pass' = [pass EXCEPT ![p].sent = TRUE, ![p].caught = TRUE,
                                  ![p].pc = "returnWrite"]
      BY <2>7 DEF Confirm
    <3> HIDE DEF pc
    <3>3. CASE pass' = [pass EXCEPT ![p].sent = TRUE, ![p].pc = pc]
      BY <1>0, <3>1, <3>3, ZenonT(60) DEF PassOK, PassType
    <3> QED BY <2>4, <3>2, <3>3
  <2>8. CASE ReturnConfirm(p)
    BY <2>8, <2>3, <2>5, <2>6 DEF ReturnConfirm
  <2> QED BY <2>7, <2>8
<1>3. lost' \in 0 .. MaxLost
  BY LosesType DEF Confirm, ReturnConfirm, TypeOK
<1>4. overtaken' \subseteq Passes
  BY MarksType DEF PassStep
<1> QED BY <1>1, <1>2, <1>3, <1>4 DEF Confirm, ReturnConfirm, TypeOK

LEMMA HandOverType ==
  ASSUME TypeOK, NEW p \in Passes, HandOver(p)
  PROVE  TypeOK'
<1>0. PassOK /\ pass[p].pc # "idle" /\ pass[p].r \in Requests
  BY DEF TypeOK, PassOK, At, HandOver
<1> DEFINE msg == [r |-> pass[p].r, n |-> pass[p].n, thaw |-> pass[p].thaw]
<1>1. msg \in [r: Requests, n: Attempts, thaw: BOOLEAN]
  BY <1>0 DEF PassOK, PassType
<1>2. ready' = ready \/ ready' = ready \cup {msg}
  BY DEF HandOver
<1>3. PassOK' /\ lost' \in 0 .. MaxLost
  BY <1>0, EndPassType, CatchType, LosesType DEF HandOver, TypeOK
<1> HIDE DEF msg
<1>4. overtaken' \subseteq Passes
  BY MarksType DEF PassStep
<1> QED BY <1>1, <1>2, <1>3, <1>4 DEF HandOver, TypeOK

LEMMA ReturnWriteType ==
  ASSUME TypeOK, NEW p \in Passes, ReturnWrite(p)
  PROVE  TypeOK'
<1>0. PassOK /\ pass[p].pc # "idle" /\ pass[p].r \in Requests
  BY DEF TypeOK, PassOK, At, ReturnWrite
<1>1. entry' \in [Requests -> EntryType]
  BY ReturnedType DEF ReturnWrite, TypeOK
<1>2. PassOK'
  <2>1. CASE EndPass(p)
    BY <2>1, <1>0, EndPassType
  <2>2. CASE pass' = [pass EXCEPT ![p].caught = TRUE, ![p].thaw = FALSE]
    BY <2>2, <1>0, ZenonT(60) DEF PassOK, PassType
  <2> QED BY <2>1, <2>2 DEF ReturnWrite
<1>3. lost' \in 0 .. MaxLost
  BY LosesType DEF ReturnWrite, TypeOK
<1>4. overtaken' \subseteq Passes
  BY MarksType DEF PassStep
<1> QED BY <1>1, <1>2, <1>3, <1>4 DEF ReturnWrite, TypeOK

LEMMA PassStepType ==
  ASSUME TypeOK, NEW p \in Passes, PassStep(p)
  PROVE  TypeOK'
  BY ReadStepType, SlotStepType, NominateType, ConfirmType, HandOverType,
     ReturnWriteType
  DEF PassStep

---------------------------------------------------------------------------
(* The owner's steps.                                                      *)

\* What an owner announces is a completion.
LEMMA CompletionIsTyped ==
  ASSUME TypeOK, NEW r \in Requests, NEW final \in BOOLEAN,
         NEW o \in {"ok", "retry", "5xx", "429", "noAnswer"},
         NEW halves \in SUBSET AllSteps
  PROVE  Completion(r, o, final, halves) \in CompletionType
<1>1. /\ owner[r].n \in Attempts /\ owner[r].fast \in BOOLEAN
      /\ owner[r].thaw \in BOOLEAN
  BY DEF TypeOK, OwnerType
<1>2. 0 \in 0 .. FreezeTime
  BY ConstantsAssumption DEF ConstantsAssumption
<1> QED BY <1>1, <1>2 DEF Completion, CompletionType, AllSteps

LEMMA AnnounceType ==
  ASSUME TypeOK, NEW c \in CompletionType, Announce(c)
  PROVE  completions' \subseteq CompletionType
  BY DEF TypeOK, Announce

\* FastAdmit and Enqueue.
LEMMA AdmitType ==
  ASSUME TypeOK, NEW r \in Requests, FastAdmit(r) \/ Enqueue(r)
  PROVE  TypeOK'
<1>1. owner' \in [Requests -> OwnerType]
  BY DEF FastAdmit, Enqueue, TypeOK, OwnerType, OwnerPhases
<1>2. slots' \subseteq SlotIds
  BY DEF FastAdmit, Enqueue, TypeOK, OwnerType, SlotIds
<1> QED BY <1>1, <1>2 DEF FastAdmit, Enqueue, TypeOK, PassOK

LEMMA AddType ==
  ASSUME TypeOK, NEW r \in Requests, AddRequest(r) \/ FlipToPending(r)
  PROVE  TypeOK'
<1>0. owner[r].n \in Attempts /\ owner[r].thaw \in BOOLEAN
  BY DEF TypeOK, OwnerType
<1>1. entry' \in [Requests -> EntryType]
  <2> DEFINE e == [NoEntry EXCEPT !.status = "pending",
                     !.thaw = owner[r].thaw, !.retries = owner[r].n]
  <2>1. e \in EntryType
    BY <1>0, EntryValues DEF EntryType
  <2>2. CASE AddRequest(r)
    <3>1. entry' = entry \/ entry' = [entry EXCEPT ![r] = e]
      BY <2>2 DEF AddRequest
    <3> HIDE DEF e
    <3> QED BY <2>1, <3>1 DEF TypeOK
  <2>3. CASE FlipToPending(r)
    BY <2>3, EntryValues DEF FlipToPending, TypeOK, EntryType, Claims
  <2> QED BY <2>2, <2>3
<1>2. owner' \in [Requests -> OwnerType]
  <2>1. PICK ph \in OwnerPhases : owner' = [owner EXCEPT ![r].phase = ph]
    BY DEF AddRequest, FlipToPending, TypeOK, OwnerPhases
  <2> QED BY <2>1 DEF TypeOK, OwnerType
<1> QED BY <1>1, <1>2 DEF AddRequest, FlipToPending, TypeOK, PassOK

LEMMA AbandonType ==
  ASSUME TypeOK, NEW r \in Requests, Abandon(r)
  PROVE  TypeOK'
<1>1. completions' \subseteq CompletionType
  <2>1. Completion(r, "noAnswer", TRUE, AllSteps) \in CompletionType
    BY CompletionIsTyped
  <2> QED BY <2>1, AnnounceType DEF Abandon
<1>2. owner' \in [Requests -> OwnerType]
  <2>1. PICK ph \in OwnerPhases : owner' = [owner EXCEPT ![r].phase = ph]
    BY DEF Abandon, TypeOK, OwnerPhases
  <2> QED BY <2>1 DEF TypeOK, OwnerType
<1> QED BY <1>1, <1>2 DEF Abandon, TypeOK, PassOK

LEMMA FinishType ==
  ASSUME TypeOK, NEW r \in Requests, NEW o \in Outcomes, Finish(r, o)
  PROVE  TypeOK'
<1> DEFINE retry == /\ o \in {"retry", "5xx", "429"}
                    /\ owner[r].n < MaxRetries
<1>1. o \in {"ok", "retry", "5xx", "429", "noAnswer"}
  BY ConstantsAssumption DEF Finish, ConstantsAssumption, OutcomeSet
<1>2. owner[r].n \in Attempts /\ (retry => owner[r].n + 1 \in Attempts)
  BY ConstantsAssumption
  DEF TypeOK, OwnerType, Attempts, ConstantsAssumption
<1>3. completions' \subseteq CompletionType
  <2>1. Completion(r, o, ~retry, AllSteps) \in CompletionType
    BY <1>1, CompletionIsTyped
  <2> QED BY <2>1, AnnounceType DEF Finish
<1>4. entry' \in [Requests -> EntryType]
  <2>1. \/ entry' = entry
        \/ retry /\ entry' = [entry EXCEPT ![r].retries = owner[r].n + 1]
    BY DEF Finish
  <2> QED BY <1>2, <2>1 DEF TypeOK, EntryType
<1>5. owner' \in [Requests -> OwnerType]
  <2>1. PICK ph \in OwnerPhases, n \in Attempts :
          owner' = [owner EXCEPT ![r].phase = ph, ![r].n = n]
    <3>1. CASE retry
      BY <3>1, <1>2 DEF Finish, OwnerPhases, TypeOK
    <3>2. CASE ~retry
      BY <3>2, <1>2 DEF Finish, OwnerPhases, TypeOK
    <3> QED BY <3>1, <3>2
  <2> QED BY <2>1 DEF TypeOK, OwnerType
<1> QED BY <1>3, <1>4, <1>5 DEF Finish, TypeOK, PassOK

LEMMA StreamType ==
  ASSUME TypeOK, NEW r \in Requests,
         StreamHeaders(r) \/ \E o \in Outcomes : StreamEnd(r, o)
  PROVE  TypeOK'
<1>1. completions' \subseteq CompletionType
  <2>1. CASE StreamHeaders(r)
    <3> DEFINE h == IF owner[r].fast THEN {} ELSE {"queue", "thaw"}
    <3>1. h \in SUBSET AllSteps
      BY DEF AllSteps
    <3>2. Announce(Completion(r, "ok", TRUE, h))
      BY <2>1 DEF StreamHeaders
    <3> HIDE DEF h
    <3> QED BY <3>1, <3>2, CompletionIsTyped, AnnounceType
  <2>2. ASSUME NEW o \in Outcomes, StreamEnd(r, o)
        PROVE  completions' \subseteq CompletionType
    <3>1. Completion(r, o, TRUE, {"clock", "freeze", "slot"}) \in CompletionType
      BY <2>2, CompletionIsTyped DEF StreamEnd, AllSteps
    <3> QED BY <2>2, <3>1, AnnounceType DEF StreamEnd
  <2> QED BY <2>1, <2>2
<1>2. owner' \in [Requests -> OwnerType]
  <2>1. PICK ph \in {"streaming", "done"} : owner' = [owner EXCEPT ![r].phase = ph]
    BY DEF StreamHeaders, StreamEnd
  <2>2. owner \in [Requests -> OwnerType]
    BY DEF TypeOK
  <2>3. ph \in OwnerPhases
    BY DEF OwnerPhases
  <2>4. [owner[r] EXCEPT !.phase = ph] \in OwnerType
    BY <2>2, <2>3 DEF OwnerType
  <2> QED BY <2>1, <2>2, <2>4
<1> QED BY <1>1, <1>2 DEF StreamHeaders, StreamEnd, TypeOK, PassOK

LEMMA OnReadyType ==
  ASSUME TypeOK, NEW m \in ready, OnReady(m)
  PROVE  TypeOK'
<1>1. m.r \in Requests /\ m.thaw \in BOOLEAN
  BY DEF TypeOK
<1>2. owner' \in [Requests -> OwnerType]
  BY <1>1 DEF OnReady, TypeOK, OwnerType, OwnerPhases
<1> QED BY <1>2 DEF OnReady, TypeOK, PassOK

---------------------------------------------------------------------------
(* The controller's steps, and time.                                       *)

LEMMA ProgressType ==
  ASSUME TypeOK, NEW c \in completions, NEW new \in CompletionType,
         Progress(c, new)
  PROVE  completions' \subseteq CompletionType
  BY DEF TypeOK, Progress

LEMMA DoneRemoveType ==
  ASSUME TypeOK, NEW c \in completions, DoneRemove(c)
  PROVE  TypeOK'
<1> DEFINE thaw == c.thaw \/ entry[c.r].thaw
           left == (c.steps \ {"queue"})
                       \cup (IF thaw THEN {"thaw"} ELSE {})
           new == [c EXCEPT !.thaw = thaw, !.steps = left]
<1>1. c \in CompletionType /\ c.r \in Requests
  BY DEF TypeOK, CompletionType
<1>2. thaw \in BOOLEAN /\ left \in SUBSET AllSteps
  BY <1>1 DEF CompletionType, AllSteps
<1>3. Progress(c, new)
  BY DEF DoneRemove
<1>4. new \in CompletionType
  <2> HIDE DEF thaw, left
  <2> QED BY <1>1, <1>2 DEF CompletionType, AllSteps
<1> HIDE DEF new
<1>5. completions' \subseteq CompletionType
  BY <1>3, <1>4, ProgressType
<1>6. entry' \in [Requests -> EntryType] /\ tombstone' \subseteq Requests
  BY <1>1, EntryValues DEF DoneRemove, TypeOK
<1> QED BY <1>5, <1>6 DEF DoneRemove, TypeOK, PassOK

\* The other steps strike themselves off the list, and those that freeze change
\* what is due.
LEMMA StruckType ==
  ASSUME TypeOK, NEW c \in completions, NEW s, NEW d \in 0 .. FreezeTime,
         \/ Progress(c, [c EXCEPT !.steps = @ \ {s}])
         \/ Progress(c, [c EXCEPT !.steps = @ \ {s}, !.due = d])
  PROVE  completions' \subseteq CompletionType
<1>1. c \in CompletionType
  BY DEF TypeOK
<1>2. /\ [c EXCEPT !.steps = @ \ {s}] \in CompletionType
      /\ [c EXCEPT !.steps = @ \ {s}, !.due = d] \in CompletionType
  BY <1>1 DEF CompletionType
<1> QED BY <1>2, ProgressType

LEMMA DoneClockType ==
  ASSUME TypeOK, NEW c \in completions, DoneClock(c)
  PROVE  TypeOK'
<1>1. FreezeTime \in 0 .. FreezeTime
  BY ConstantsAssumption DEF ConstantsAssumption
<1>2. completions' \subseteq CompletionType
  BY <1>1, StruckType DEF DoneClock
<1> QED BY <1>2 DEF DoneClock, TypeOK, PassOK

LEMMA DoneFreezeType ==
  ASSUME TypeOK, NEW c \in completions, DoneFreeze(c)
  PROVE  TypeOK'
<1>0. c.due \in 0 .. FreezeTime /\ 0 \in 0 .. FreezeTime
  BY ConstantsAssumption DEF TypeOK, CompletionType, ConstantsAssumption
<1>1. freeze' \in FreezeType
  <2>1. /\ MaxOf(freeze.left, c.due) \in 0 .. FreezeTime
        /\ \A k \in {0, ThawRequestCount} :
             MaxOf(freeze.thawCount, k) \in 0 .. ThawRequestCount
    BY <1>0, ConstantsAssumption
    DEF TypeOK, FreezeType, MaxOf, ConstantsAssumption
  <2> QED BY <2>1 DEF DoneFreeze, FreezeType
<1>2. completions' \subseteq CompletionType
  BY <1>0, StruckType DEF DoneFreeze
<1>3. overtaken' \subseteq Passes
  BY DEF DoneFreeze
<1> QED BY <1>1, <1>2, <1>3 DEF DoneFreeze, TypeOK, PassOK

LEMMA DoneThawType ==
  ASSUME TypeOK, NEW c \in completions, DoneThaw(c)
  PROVE  TypeOK'
<1>1. freeze' \in FreezeType
  BY ConstantsAssumption
  DEF DoneThaw, TypeOK, FreezeType, MaxOf, ConstantsAssumption
<1>0. 0 \in 0 .. FreezeTime
  BY ConstantsAssumption DEF ConstantsAssumption
<1>2. completions' \subseteq CompletionType
  BY <1>0, StruckType DEF DoneThaw
<1> QED BY <1>1, <1>2 DEF DoneThaw, TypeOK, PassOK

LEMMA DoneSlotType ==
  ASSUME TypeOK, NEW c \in completions, DoneSlot(c)
  PROVE  TypeOK'
<1>0. 0 \in 0 .. FreezeTime
  BY ConstantsAssumption DEF ConstantsAssumption
<1>1. completions' \subseteq CompletionType
  BY <1>0, StruckType DEF DoneSlot
<1> QED BY <1>1 DEF DoneSlot, TypeOK, PassOK

LEMMA AgedType ==
  /\ \A a \in -1 .. Lease : Aged(a) \in -1 .. Lease
  /\ \A a \in 0 .. Lease : Aged(a) \in 0 .. Lease
  BY ConstantsAssumption DEF Aged, NoClaim, ConstantsAssumption

\* The completions of the next tick are those of this one, whatever is due.
LEMMA TickOwed ==
  ASSUME TypeOK, Tick
  PROVE  /\ completions' \subseteq CompletionType
         /\ \A d \in completions' : \E c \in completions :
               d.r = c.r /\ d.n = c.n /\ d.steps = c.steps
<1> SUFFICES ASSUME NEW d \in completions'
             PROVE  /\ d \in CompletionType
                    /\ \E c \in completions :
                          d.r = c.r /\ d.n = c.n /\ d.steps = c.steps
  OBVIOUS
<1>1. PICK c \in completions : d = [c EXCEPT !.due = MaxOf(0, @ - 1)]
  BY DEF Tick
<1>2. c \in CompletionType
  BY DEF TypeOK
<1>3. MaxOf(0, c.due - 1) \in 0 .. FreezeTime
  BY <1>2, ConstantsAssumption DEF CompletionType, MaxOf, ConstantsAssumption
<1> QED BY <1>1, <1>2, <1>3 DEF CompletionType

LEMMA TickType ==
  ASSUME TypeOK, Tick
  PROVE  TypeOK'
<1>1. entry' \in [Requests -> EntryType]
  BY AgedType DEF Tick, TypeOK, EntryType
<1>2. PassOK'
  <2>1. \A p \in Passes : pass[p] \in PassType
    BY DEF TypeOK, PassOK
  <2>2. \A p \in Passes : [pass[p] EXCEPT !.age = Aged(@)] \in PassType
    BY <2>1, AgedType DEF PassType
  <2>3. \A p \in Passes :
          /\ pass'[p] \in PassType
          /\ pass'[p].pc = pass[p].pc /\ pass'[p].r = pass[p].r
    BY <2>1, <2>2 DEF Tick, PassType
  <2>4. pass' \in [Passes -> PassType]
    BY <2>3 DEF Tick
  <2> QED BY <2>3, <2>4 DEF TypeOK, PassOK
<1>3. freeze' \in FreezeType
  BY ConstantsAssumption
  DEF Tick, TypeOK, FreezeType, MaxOf, ConstantsAssumption
<1> QED BY <1>1, <1>2, <1>3, TickOwed DEF Tick, TypeOK

\* Every step of the system keeps the types.
LEMMA NextType ==
  ASSUME TypeOK, [Next]_vars
  PROVE  TypeOK'
<1>1. CASE UNCHANGED vars
  BY <1>1 DEF vars, TypeOK, PassOK
<1>2. ASSUME NEW p \in Passes, Select(p) \/ PassStep(p)
      PROVE  TypeOK'
  BY <1>2, SelectType, PassStepType
<1>3. ASSUME NEW r \in Requests, OwnerStep(r)
      PROVE  TypeOK'
  BY <1>3, AdmitType, AddType, AbandonType, FinishType, StreamType
  DEF OwnerStep
<1>4. ASSUME NEW m \in ready, OnReady(m)
      PROVE  TypeOK'
  BY <1>4, OnReadyType
<1>5. ASSUME NEW c \in completions, DoneStep(c)
      PROVE  TypeOK'
  BY <1>5, DoneRemoveType, DoneClockType, DoneFreezeType, DoneSlotType, DoneThawType
  DEF DoneStep
<1>6. CASE Tick
  BY <1>6, TickType
<1> QED BY <1>1, <1>2, <1>3, <1>4, <1>5, <1>6 DEF Next

\* The admission path keeps every variable in its type: a claim is never older
\* than the lease it is compared with, the windows and probe budgets a freeze
\* holds never exceed what one failure asks for, and a busy pass always knows
\* the request it claimed.
THEOREM TypeCorrect == Spec => []TypeOK
<1>1. Init => TypeOK
  BY InitType
<1>2. TypeOK /\ [Next]_vars => TypeOK'
  BY NextType
<1> QED BY <1>1, <1>2, PTL DEF Spec

---------------------------------------------------------------------------
(* A removed request stays removed.                                        *)

\* Only AddRequest makes an entry, and only for an id without a tombstone:
\* every other write of the queue keeps an absent entry absent.
LEMMA OnlyAddMakesEntries ==
  ASSUME TypeOK, Next, NEW r \in Requests, ~Queued(r), Queued(r)'
  PROVE  r \notin tombstone /\ tombstone' = tombstone
<1>0. entry[r].status = "none" /\ entry'[r].status # "none"
  BY DEF Queued
<1>1. ASSUME NEW p \in Passes, Select(p)
      PROVE  FALSE
  <2>1. PICK q \in Requests :
          /\ Claimable(q)
          /\ entry' = [entry EXCEPT ![q].status = "inProgress",
                         ![q].claim = 0,
                         ![q].thaw = entry[q].thaw /\
                                     entry[q].status = "pending"]
    BY <1>1 DEF Select
  <2> QED BY <2>1, <1>0 DEF Claimable, TypeOK, EntryType
<1>2. ASSUME NEW p \in Passes, PassStep(p)
      PROVE  FALSE
  <2>1. Unstamp(p)[r].status = "none"
    BY <1>0 DEF Unstamp, TypeOK, EntryType
  <2>2. Returned(p)[r].status = "none"
    BY <1>0 DEF Returned, Queued, TypeOK, EntryType
  <2>3. CASE Nominate(p)
    BY <2>3, <1>0 DEF Nominate, TypeOK, EntryType
  <2>4. CASE Confirm(p) \/ ReturnConfirm(p)
    BY <2>4, <2>1, <1>0 DEF Confirm, ReturnConfirm
  <2>5. CASE ReturnWrite(p)
    BY <2>5, <2>2, <1>0 DEF ReturnWrite
  <2>6. CASE entry' = entry
    BY <2>6, <1>0
  <2> QED BY <1>2, <2>3, <2>4, <2>5, <2>6
      DEF PassStep, Judge, CheckFrozen, ClaimSlot, RecheckFrozen,
          ReleaseFrozen, Reread, RereadRefused, GoneClock, GoneRelease,
          HandOver
<1>3. ASSUME NEW q \in Requests, AddRequest(q)
      PROVE  r \notin tombstone /\ tombstone' = tombstone
  BY <1>3, <1>0 DEF AddRequest, Addable, TypeOK
<1>4. ASSUME NEW q \in Requests, FlipToPending(q)
      PROVE  FALSE
  BY <1>4, <1>0 DEF FlipToPending, Queued, TypeOK, EntryType
<1>5. ASSUME NEW q \in Requests, NEW o \in Outcomes, Finish(q, o)
      PROVE  FALSE
  BY <1>5, <1>0 DEF Finish, TypeOK, EntryType
<1>6. ASSUME NEW c \in completions, DoneStep(c)
      PROVE  FALSE
  <2>1. CASE DoneRemove(c)
    BY <2>1, <1>0 DEF DoneRemove, NoEntry, TypeOK
  <2> QED BY <1>6, <2>1, <1>0 DEF DoneStep, DoneClock, DoneFreeze, DoneSlot, DoneThaw
<1>7. CASE Tick
  BY <1>7, <1>0 DEF Tick, TypeOK, EntryType
<1>8. ASSUME NEW q \in Requests, OwnerStep(q)
      PROVE  r \notin tombstone /\ tombstone' = tombstone
  BY <1>8, <1>3, <1>4, <1>5, <1>0
  DEF OwnerStep, FastAdmit, Enqueue, Abandon, StreamHeaders, StreamEnd
<1>9. ASSUME NEW m \in ready, OnReady(m)
      PROVE  FALSE
  BY <1>9, <1>0 DEF OnReady
<1> QED BY <1>1, <1>2, <1>6, <1>7, <1>8, <1>9 DEF Next

\* A tombstone is only ever added with the removal of its entry.
LEMMA TombstoneGrowth ==
  ASSUME TypeOK, Next, NEW r \in Requests, r \in tombstone', r \notin tombstone
  PROVE  ~Queued(r)'
<1>1. PICK c \in completions : DoneRemove(c)
  BY ZenonT(60)
    DEF Next, Select, PassStep, OwnerStep, OnReady, DoneStep, Tick, Judge,
         Nominate, CheckFrozen, ClaimSlot, RecheckFrozen, ReleaseFrozen,
         Reread, Confirm, RereadRefused, GoneClock, GoneRelease, HandOver,
         ReturnConfirm, ReturnWrite, FastAdmit, Enqueue, AddRequest,
         FlipToPending, Abandon, Finish, StreamHeaders, StreamEnd,
         DoneClock, DoneFreeze, DoneSlot, DoneThaw
<1>2. r = c.r
  BY <1>1 DEF DoneRemove
<1> QED BY <1>1, <1>2 DEF DoneRemove, Queued, NoEntry, TypeOK

\* However its add, its retries and its removal interleave with drain passes
\* and lost replies, a request whose removal was applied never has an entry
\* again (addRequest's tombstone check; every other queue write only updates
\* an entry it finds).
THEOREM RemovedStaysRemoved == Spec => []NoEntryWithoutWaiter
<1>1. Init => NoEntryWithoutWaiter
  BY DEF Init, NoEntryWithoutWaiter
<1>2. TypeOK /\ NoEntryWithoutWaiter /\ [Next]_vars => NoEntryWithoutWaiter'
  <2> SUFFICES ASSUME TypeOK, NoEntryWithoutWaiter, [Next]_vars,
                      NEW r \in Requests, r \in tombstone', Queued(r)'
               PROVE  FALSE
    BY DEF NoEntryWithoutWaiter
  <2>1. CASE UNCHANGED vars
    BY <2>1 DEF vars, NoEntryWithoutWaiter, Queued
  <2>2. CASE Next
    <3>1. r \in tombstone
      BY <2>2, TombstoneGrowth
    <3>2. ~Queued(r)
      BY <3>1 DEF NoEntryWithoutWaiter
    <3> QED BY <2>2, <3>1, <3>2, OnlyAddMakesEntries
  <2> QED BY <2>1, <2>2
<1> QED BY <1>1, <1>2, TypeCorrect, PTL DEF Spec

---------------------------------------------------------------------------
(* The ledger's limit.                                                     *)

LEMMA SlotsFinite ==
  ASSUME TypeOK
  PROVE  IsFiniteSet(slots) /\ Cardinality(slots) \in Nat
<1>1. IsFiniteSet(Attempts)
  BY ConstantsAssumption, FS_Interval DEF Attempts, ConstantsAssumption
<1>2. IsFiniteSet(SlotIds)
  BY <1>1, ConstantsAssumption, FS_Product
  DEF SlotIds, ConstantsAssumption
<1>3. IsFiniteSet(slots)
  BY <1>2, FS_Subset DEF TypeOK
<1> QED BY <1>3, FS_CardinalityType

\* A slot is taken only where there is room for it.
LEMMA TakingASlot ==
  ASSUME TypeOK, LedgerWithinLimit, NEW id, HasRoom(id)
  PROVE  Cardinality(slots \cup {id}) <= MaxConcurrency
<1>1. IsFiniteSet(slots \ {id})
  BY SlotsFinite, FS_RemoveElement
<1>2. Cardinality((slots \ {id}) \cup {id}) = Cardinality(slots \ {id}) + 1
  BY <1>1, FS_AddElement
<1>3. (slots \ {id}) \cup {id} = slots \cup {id}
  OBVIOUS
<1> QED BY <1>2, <1>3 DEF HasRoom

\* Giving a slot back, known to the ledger or not, never adds to it.
LEMMA GivingBack ==
  ASSUME TypeOK, LedgerWithinLimit, NEW id
  PROVE  Cardinality(slots \ {id}) <= MaxConcurrency
<1>1. Cardinality(slots \ {id}) <= Cardinality(slots)
  BY SlotsFinite, FS_Subset
<1>2. Cardinality(slots \ {id}) \in Nat
  BY SlotsFinite, FS_Subset, FS_CardinalityType
<1> QED BY <1>1, <1>2, SlotsFinite, ConstantsAssumption
    DEF LedgerWithinLimit, ConstantsAssumption

\* The ledger holds no more slots than the concurrency limit for any number of
\* requests and passes and any pattern of lost replies: claims of the fast
\* path and of drain passes both test and take in one backend call, and a
\* second claim under the same id is not counted twice.
THEOREM LedgerNeverOverflows == Spec => []LedgerWithinLimit
<1>1. Init => LedgerWithinLimit
  BY ConstantsAssumption, FS_EmptySet
  DEF Init, LedgerWithinLimit, ConstantsAssumption
<1>2. TypeOK /\ LedgerWithinLimit /\ [Next]_vars => LedgerWithinLimit'
  <2> SUFFICES ASSUME TypeOK, LedgerWithinLimit, [Next]_vars
               PROVE  LedgerWithinLimit'
    OBVIOUS
  <2>1. CASE slots' = slots
    BY <2>1 DEF LedgerWithinLimit
  <2>2. CASE \E id : slots' = slots \ {id}
    BY <2>2, GivingBack DEF LedgerWithinLimit
  <2>3. CASE \E id : HasRoom(id) /\ slots' = slots \cup {id}
    BY <2>3, TakingASlot DEF LedgerWithinLimit
  <2>4. CASE Next
    <3>1. ASSUME NEW p \in Passes, PassStep(p)
          PROVE  LedgerWithinLimit'
      BY <3>1, <2>1, <2>2, <2>3
      DEF PassStep, ClaimSlot, ReleaseFrozen, GoneRelease, Judge, Nominate,
          CheckFrozen, RecheckFrozen, Reread, Confirm, RereadRefused,
          GoneClock, HandOver, ReturnConfirm, ReturnWrite
    <3>2. ASSUME NEW r \in Requests, OwnerStep(r)
          PROVE  LedgerWithinLimit'
      BY <3>2, <2>1, <2>3
      DEF OwnerStep, FastAdmit, FastPathOpen, Enqueue, AddRequest,
          FlipToPending, Abandon, Finish, StreamHeaders, StreamEnd
    <3>3. ASSUME NEW c \in completions, DoneStep(c)
          PROVE  LedgerWithinLimit'
      BY <3>3, <2>1, <2>2
      DEF DoneStep, DoneRemove, DoneClock, DoneFreeze, DoneSlot, DoneThaw
    <3> QED BY <2>4, <3>1, <3>2, <3>3, <2>1 DEF Next, Select, OnReady, Tick
  <2> QED BY <2>4, <2>1 DEF vars
<1> QED BY <1>1, <1>2, TypeCorrect, PTL DEF Spec

---------------------------------------------------------------------------
(* One admission at a time.                                                *)

\* The phases of a request that still has an attempt to make.
Active == {"new", "adding", "flipping", "waiting", "running", "streaming"}

\* Where a pass is between its claim and the confirmation of it, and where it
\* has taken the entry out of the lease.
Claiming == {"judge", "nominate", "isFrozen", "claim", "isFrozen2", "release",
             "reread", "confirm", "returnConfirm"}
Confirmed == {"handover", "returnWrite"}

\* A pass whose claim of r has not lapsed, and one that has confirmed it.
Fresh(p, r) == pass[p].r = r /\ pass[p].pc \in Claiming /\ pass[p].age < Lease
Holds(p, r) == pass[p].r = r /\ pass[p].pc \in Confirmed

\* A pass that found the entry of r gone, in time to give its slot back.
FindsGone(p, r) ==
    /\ pass[p].r = r
    /\ \/ pass[p].pc \in {"regone", "gone"} /\ pass[p].age < Lease
       \/ pass[p].pc = "goneRelease"

\* While a request is not waiting, nobody is admitting it, and its entry, if
\* it has one, is out of the lease.
Calm(r) ==
    /\ \A p \in Passes : ~Fresh(p, r) /\ ~Holds(p, r)
    /\ \A m \in ready : m.r # r
    /\ Queued(r) => entry[r].status = "inProgress" /\ entry[r].claim = NoClaim

\* While it waits, a claim that has not lapsed is the one on its entry and the
\* only one; once confirmed it is with one pass or with one notification.
OneAdmission(r) ==
    /\ \A p \in Passes : Fresh(p, r) =>
          /\ entry[r].status = "inProgress" /\ entry[r].claim = pass[p].age
          /\ pass[p].n = owner[r].n
    /\ \A p, q \in Passes : Fresh(p, r) /\ Fresh(q, r) => p = q
    /\ \A p \in Passes : Holds(p, r) =>
          /\ entry[r].status = "inProgress" /\ entry[r].claim = NoClaim
          /\ pass[p].n = owner[r].n
    /\ \A p, q \in Passes : Holds(p, r) /\ Holds(q, r) => p = q
    /\ \A m \in ready : m.r = r =>
          /\ entry[r].status = "inProgress" /\ entry[r].claim = NoClaim
          /\ m.n = owner[r].n /\ \A p \in Passes : ~Holds(p, r)
    /\ \A m, k \in ready : m.r = r /\ k.r = r => m = k
    /\ (entry[r].status = "inProgress" /\ entry[r].claim = NoClaim) =>
          (\E p \in Passes : Holds(p, r)) \/ \E m \in ready : m.r = r

\* What holds of a request that is not over.
Leased(r) ==
    /\ IF Phase(r, "waiting") THEN OneAdmission(r) ELSE Calm(r)
    /\ \A p \in Passes : ~FindsGone(p, r)
    /\ Queued(r) => entry[r].retries = owner[r].n
    /\ (owner[r].n = 0 /\ owner[r].phase \in {"new", "adding"}) => ~Queued(r)
    /\ \A c \in completions :
          (c.r = r /\ "queue" \in c.steps) => Phase(r, "streaming")

LeaseInv ==
    /\ \A r \in Requests : owner[r].phase \in Active => Leased(r)
    /\ \A p \in Passes : (pass[p].pc \in Claiming => ~pass[p].sent)

\* The replies of the calls that confirm, publish and write back arrive: a
\* pass that loses one of them writes back an entry it may have handed out.
ConfirmationsArrive == LossyCalls \cap {"confirm", "publish", "write"} = {}

\* What a step does that does not concern the admission of r.
Still(p, r) ==
    /\ Fresh(p, r)' <=> Fresh(p, r)
    /\ Holds(p, r)' <=> Holds(p, r)
    /\ FindsGone(p, r)' => FindsGone(p, r)
    /\ (Fresh(p, r) \/ Holds(p, r)) =>
          pass'[p].age = pass[p].age /\ pass'[p].n = pass[p].n

EntryStill(r) ==
    /\ entry'[r].status = entry[r].status /\ entry'[r].claim = entry[r].claim
    /\ entry'[r].retries = entry[r].retries

ReadyStill(r) == \A m : m.r = r => (m \in ready' <=> m \in ready)

\* No removal of r is owed that was not owed before.
NoNewRemoval(r) ==
    \A c \in completions' : (c.r = r /\ "queue" \in c.steps) =>
        \E d \in completions : d.r = r /\ "queue" \in d.steps

Aside(r) ==
    /\ owner'[r].phase = owner[r].phase /\ owner'[r].n = owner[r].n
    /\ EntryStill(r) /\ ReadyStill(r) /\ NoNewRemoval(r)
    /\ \A p \in Passes : Still(p, r)

\* A request that a step leaves aside keeps its lease in order.
LEMMA AsideKeeps ==
  ASSUME NEW r \in Requests, Leased(r), Aside(r)
  PROVE  Leased(r)'
<1>1. CASE Phase(r, "waiting")
  <2>1. OneAdmission(r)
    BY <1>1 DEF Leased
  <2>2. OneAdmission(r)'
    <3>1. \A p \in Passes :
            /\ Fresh(p, r)' => Fresh(p, r) /\ pass'[p].age = pass[p].age
                               /\ pass'[p].n = pass[p].n
            /\ Holds(p, r)' <=> Holds(p, r)
            /\ Holds(p, r)' => pass'[p].n = pass[p].n
      BY DEF Aside, Still
    <3>2. /\ entry'[r].status = entry[r].status
          /\ entry'[r].claim = entry[r].claim
          /\ owner'[r].n = owner[r].n
          /\ \A m : m.r = r => (m \in ready' <=> m \in ready)
      BY DEF Aside, EntryStill, ReadyStill
    <3> QED BY <2>1, <3>1, <3>2 DEF OneAdmission
  <2> QED BY <1>1, <2>2 DEF Leased, Aside, Phase, EntryStill, Queued, Still,
             NoNewRemoval
<1>2. CASE ~Phase(r, "waiting")
  <2>1. Calm(r)
    BY <1>2 DEF Leased
  <2>2. Calm(r)'
    BY <2>1 DEF Calm, Aside, Still, EntryStill, ReadyStill, Queued
  <2> QED BY <1>2, <2>2 DEF Leased, Aside, Phase, EntryStill, Queued, Still,
             NoNewRemoval
<1> QED BY <1>1, <1>2

\* A pass that a step does not move is still for every request, and so is one
\* that is on another request before and after.
LEMMA StillSame ==
  ASSUME NEW q \in Passes, NEW r \in Requests,
         pass'[q] = pass[q] \/ (pass[q].r # r /\ pass'[q].r # r)
  PROVE  Still(q, r)
  BY DEF Still, Fresh, Holds, FindsGone

---------------------------------------------------------------------------
(* What a step of a pass does to the request it claimed.                   *)

SameClaim(p) ==
    /\ pass'[p].r = pass[p].r /\ pass'[p].n = pass[p].n
    /\ pass'[p].age = pass[p].age

\* It goes on under its claim,
GoesOn(p) ==
    /\ pass[p].pc \in Claiming /\ pass'[p].pc \in Claiming /\ SameClaim(p)
    /\ pass'[p].sent = pass[p].sent
    /\ EntryStill(pass[p].r) /\ ready' = ready

\* confirms it,
Confirms(p) ==
    /\ pass[p].pc \in Claiming /\ pass'[p].pc \in Confirmed /\ SameClaim(p)
    /\ Confirmable(p) /\ entry' = Unstamp(p) /\ ready' = ready

\* is refused, or finds the entry gone,
LosesClaim(p) ==
    /\ pass[p].pc \in Claiming /\ entry' = entry /\ ready' = ready
    /\ ~Confirmable(p) \/ ~Queued(pass[p].r)
    /\ \/ pass'[p] = IdlePass
       \/ pass'[p].pc \in {"regone", "gone"} /\ SameClaim(p)

\* clears up after that,
ClearsUp(p) ==
    /\ pass[p].pc \in {"regone", "gone", "goneRelease"}
    /\ entry' = entry /\ ready' = ready
    /\ \/ pass'[p] = IdlePass
       \/ /\ SameClaim(p) /\ pass[p].pc \in {"regone", "gone"}
          /\ pass'[p].pc \in {"gone", "goneRelease"}
          /\ pass'[p].pc = "goneRelease" => pass[p].age < Lease

\* tells the owner,
Tells(p) ==
    /\ pass[p].pc = "handover" /\ pass'[p] = IdlePass /\ entry' = entry
    /\ ready' = ready \cup
         {[r |-> pass[p].r, n |-> pass[p].n, thaw |-> pass[p].thaw]}

\* or writes the entry back.
WritesBack(p) ==
    /\ pass[p].pc = "returnWrite" /\ pass'[p] = IdlePass
    /\ entry' = Returned(p) /\ ready' = ready

\* In every step but a lost one.
LEMMA PassKinds ==
  ASSUME TypeOK, ConfirmationsArrive, NEW p \in Passes, PassStep(p),
         pass[p].pc \in Claiming => ~pass[p].sent
  PROVE  \/ GoesOn(p) \/ Confirms(p) \/ LosesClaim(p) \/ ClearsUp(p)
         \/ Tells(p) \/ WritesBack(p)
<1>0. /\ pass \in [Passes -> PassType] /\ pass[p] \in PassType
      /\ entry \in [Requests -> EntryType]
  BY DEF TypeOK, PassOK
<1>1. ASSUME NEW pc, Goto(p, pc)
      PROVE  /\ SameClaim(p) /\ pass'[p].pc = pc
             /\ pass'[p].sent = pass[p].sent
  BY <1>0, <1>1 DEF Goto, SameClaim, PassType
<1>2. ASSUME Catch(p), pass[p].pc \in Claiming
      PROVE  /\ SameClaim(p) /\ pass'[p].pc = "returnConfirm"
             /\ pass'[p].sent = pass[p].sent
  BY <1>0, <1>2 DEF Catch, SameClaim, PassType
<1>3. EndPass(p) => pass'[p] = IdlePass
  BY <1>0 DEF EndPass
<1>4. ~Loses("confirm") /\ ~Loses("publish") /\ ~Loses("write")
  BY DEF ConfirmationsArrive, Loses
<1>5. entry' = entry => EntryStill(pass[p].r)
  BY DEF EntryStill
<1>6. CASE Judge(p)
  <2>1. GoesOn(p)
    BY <1>6, <1>1, <1>2, <1>5 DEF Judge, At, GoesOn, Claiming
  <2> QED BY <2>1
<1>7. CASE Nominate(p)
  <2>1. EntryStill(pass[p].r)
    BY <1>7, <1>0 DEF Nominate, EntryStill, EntryType
  <2>2. ASSUME pass' = [pass EXCEPT ![p].pc = "isFrozen", ![p].thaw = TRUE]
        PROVE  /\ SameClaim(p) /\ pass'[p].pc = "isFrozen"
               /\ pass'[p].sent = pass[p].sent
    BY <1>0, <2>2 DEF SameClaim, PassType
  <2>3. GoesOn(p)
    BY <1>7, <1>1, <1>2, <2>1, <2>2 DEF Nominate, At, GoesOn, Claiming
  <2> QED BY <2>3
<1>8. CASE CheckFrozen(p)
  <2>1. GoesOn(p)
    BY <1>8, <1>1, <1>2, <1>5 DEF CheckFrozen, At, GoesOn, Claiming
  <2> QED BY <2>1
<1>9. CASE ClaimSlot(p)
  <2>1. GoesOn(p)
    BY <1>9, <1>1, <1>2, <1>5 DEF ClaimSlot, At, GoesOn, Claiming
  <2> QED BY <2>1
<1>10. CASE RecheckFrozen(p)
  <2>1. GoesOn(p)
    BY <1>10, <1>1, <1>2, <1>5 DEF RecheckFrozen, At, GoesOn, Claiming
  <2> QED BY <2>1
<1>11. CASE ReleaseFrozen(p)
  <2>1. GoesOn(p)
    BY <1>11, <1>1, <1>2, <1>5 DEF ReleaseFrozen, At, GoesOn, Claiming
  <2> QED BY <2>1
<1>12. CASE Reread(p)
  <2>1. GoesOn(p) \/ LosesClaim(p)
    BY <1>12, <1>1, <1>5 DEF Reread, At, GoesOn, LosesClaim, Claiming
  <2> QED BY <2>1
<1>13. CASE Confirm(p)
  <2>1. /\ At(p, "confirm") /\ ready' = ready /\ entry' = Unstamp(p)
        /\ pass' = [pass EXCEPT ![p].sent = TRUE,
              ![p].pc = IF Confirmable(p) THEN "handover" ELSE "regone"]
    BY <1>13, <1>4 DEF Confirm
  <2>2. CASE Confirmable(p)
    <3>1. SameClaim(p) /\ pass'[p].pc = "handover"
      BY <1>0, <2>1, <2>2 DEF SameClaim, PassType
    <3> QED BY <2>1, <2>2, <3>1 DEF Confirms, At, Claiming, Confirmed
  <2>3. CASE ~Confirmable(p)
    <3>1. SameClaim(p) /\ pass'[p].pc = "regone"
      BY <1>0, <2>1, <2>3 DEF SameClaim, PassType
    <3> QED BY <2>1, <2>3, <3>1 DEF LosesClaim, At, Claiming, Unstamp
  <2> QED BY <2>2, <2>3
<1>14. CASE RereadRefused(p)
  <2>1. ClearsUp(p)
    BY <1>14, <1>1, <1>3 DEF RereadRefused, At, ClearsUp
  <2> QED BY <2>1
<1>15. CASE GoneClock(p)
  <2>1. pass[p].age \in 0 .. Lease /\ Lease \in Nat
    BY <1>0, ConstantsAssumption DEF PassType, ConstantsAssumption
  <2>2. ClearsUp(p)
    BY <1>15, <1>1, <1>3, <2>1 DEF GoneClock, At, ClearsUp
  <2> QED BY <2>2
<1>16. CASE GoneRelease(p)
  <2>1. ClearsUp(p)
    BY <1>16, <1>3 DEF GoneRelease, At, ClearsUp
  <2> QED BY <2>1
<1>17. CASE HandOver(p)
  <2>1. Tells(p)
    BY <1>17, <1>3, <1>4 DEF HandOver, At, Tells
  <2> QED BY <2>1
<1>18. CASE ReturnConfirm(p)
  <2>1. /\ At(p, "returnConfirm") /\ ready' = ready /\ entry' = Unstamp(p)
        /\ IF Confirmable(p)
           THEN pass' = [pass EXCEPT ![p].pc = "returnWrite",
                                     ![p].sent = TRUE]
           ELSE EndPass(p)
    BY <1>18, <1>4 DEF ReturnConfirm
  <2>2. CASE Confirmable(p)
    <3>1. SameClaim(p) /\ pass'[p].pc = "returnWrite"
      BY <1>0, <2>1, <2>2 DEF SameClaim, PassType
    <3> QED BY <2>1, <2>2, <3>1 DEF Confirms, At, Claiming, Confirmed
  <2>3. CASE ~Confirmable(p)
    BY <2>1, <2>3, <1>3 DEF LosesClaim, At, Claiming, Unstamp
  <2> QED BY <2>2, <2>3
<1>19. CASE ReturnWrite(p)
  <2>1. WritesBack(p)
    BY <1>19, <1>3, <1>4 DEF ReturnWrite, At, WritesBack
  <2> QED BY <2>1
<1> QED BY <1>6, <1>7, <1>8, <1>9, <1>10, <1>11, <1>12, <1>13, <1>14, <1>15,
           <1>16, <1>17, <1>18, <1>19 DEF PassStep

\* A pass moves alone, and leaves the owners and the completions alone.
LEMMA PassAlone ==
  ASSUME TypeOK, NEW p \in Passes, Select(p) \/ PassStep(p)
  PROVE  /\ owner' = owner /\ completions' = completions
         /\ \A q \in Passes : q # p => pass'[q] = pass[q]
<1>1. owner' = owner /\ completions' = completions
  BY DEF Select, PassStep, Judge, Nominate, CheckFrozen, ClaimSlot,
         RecheckFrozen, ReleaseFrozen, Reread, Confirm, RereadRefused,
         GoneClock, GoneRelease, HandOver, ReturnConfirm, ReturnWrite
<1>2. \/ pass' = pass
      \/ \E c : pass' = [pass EXCEPT ![p] = c]
  <2>1. pass \in [Passes -> PassType]
    BY DEF TypeOK, PassOK
  <2>2. CASE Select(p)
    BY <2>2 DEF Select
  <2>3. CASE PassStep(p)
    <3> DEFINE Moved == \E c : pass' = [pass EXCEPT ![p] = c]
    <3> SUFFICES Moved
      OBVIOUS
    <3>1. ASSUME NEW pc, Goto(p, pc)
          PROVE  Moved
      BY <3>1 DEF Goto
    <3>2. ASSUME Catch(p)
          PROVE  Moved
      BY <3>2 DEF Catch
    <3>3. ASSUME EndPass(p)
          PROVE  Moved
      BY <3>3 DEF EndPass
    <3>4. CASE Nominate(p)
      <4>1. CASE pass' = [pass EXCEPT ![p].pc = "isFrozen", ![p].thaw = TRUE]
        BY <4>1
      <4> QED BY <3>4, <4>1, <3>1, <3>2 DEF Nominate
    <3>5. CASE Confirm(p)
      <4>1. ASSUME NEW pc, pass' = [pass EXCEPT ![p].sent = TRUE, ![p].pc = pc]
            PROVE  Moved
        BY <4>1
      <4>2. CASE pass' = [pass EXCEPT ![p].sent = TRUE, ![p].caught = TRUE,
                                      ![p].pc = "returnWrite"]
        BY <4>2
      <4> QED BY <3>5, <4>1, <4>2 DEF Confirm
    <3>6. CASE ReturnConfirm(p)
      <4>1. CASE pass' = [pass EXCEPT ![p].pc = "returnWrite",
                                      ![p].sent = TRUE]
        BY <4>1
      <4>2. CASE pass' = [pass EXCEPT ![p].pc = "returnWrite",
                                      ![p].sent = TRUE, ![p].caught = TRUE]
        BY <4>2
      <4> QED BY <3>6, <4>1, <4>2, <3>3 DEF ReturnConfirm
    <3>7. CASE ReturnWrite(p)
      <4>1. CASE pass' = [pass EXCEPT ![p].caught = TRUE, ![p].thaw = FALSE]
        BY <4>1
      <4> QED BY <3>7, <4>1, <3>3 DEF ReturnWrite
    <3> HIDE DEF Moved
    <3>8. CASE Judge(p)
      BY <3>8, <3>1, <3>2 DEF Judge
    <3>9. CASE CheckFrozen(p)
      BY <3>9, <3>1, <3>2 DEF CheckFrozen
    <3>10. CASE ClaimSlot(p)
      BY <3>10, <3>1, <3>2 DEF ClaimSlot
    <3>11. CASE RecheckFrozen(p)
      BY <3>11, <3>1, <3>2 DEF RecheckFrozen
    <3>12. CASE ReleaseFrozen(p)
      BY <3>12, <3>2 DEF ReleaseFrozen
    <3>13. CASE Reread(p)
      BY <3>13, <3>1 DEF Reread
    <3>14. CASE RereadRefused(p)
      BY <3>14, <3>1, <3>3 DEF RereadRefused
    <3>15. CASE GoneClock(p)
      BY <3>15, <3>1, <3>3 DEF GoneClock
    <3>16. CASE GoneRelease(p)
      BY <3>16, <3>3 DEF GoneRelease
    <3>17. CASE HandOver(p)
      BY <3>17, <3>2, <3>3 DEF HandOver
    <3> QED BY <2>3, <3>4, <3>5, <3>6, <3>7, <3>8, <3>9, <3>10, <3>11,
               <3>12, <3>13, <3>14, <3>15, <3>16, <3>17
            DEF PassStep
  <2> QED BY <2>2, <2>3
<1>3. pass \in [Passes -> PassType]
  BY DEF TypeOK, PassOK
<1> QED BY <1>1, <1>2, <1>3

\* A pass leaves every other request aside.
LEMMA PassElsewhere ==
  ASSUME TypeOK, ConfirmationsArrive, NEW p \in Passes, PassStep(p),
         pass[p].pc \in Claiming => ~pass[p].sent,
         NEW r \in Requests, r # pass[p].r
  PROVE  Aside(r)
<1>0. /\ entry \in [Requests -> EntryType] /\ r # 0
      /\ IdlePass.r = 0
  BY ConstantsAssumption
  DEF TypeOK, ConstantsAssumption, IdlePass, NoRequest
<1>1. /\ pass'[p].r # r
      /\ ready' = ready \/ ready' = ready \cup
           {[r |-> pass[p].r, n |-> pass[p].n, thaw |-> pass[p].thaw]}
  BY <1>0, PassKinds
  DEF GoesOn, Confirms, LosesClaim, ClearsUp, Tells, WritesBack, SameClaim
<1>2. entry'[r] = entry[r]
  <2>1. Unstamp(p)[r] = entry[r] /\ Returned(p)[r] = entry[r]
    BY <1>0 DEF Unstamp, Returned
  <2>2. CASE Nominate(p)
    BY <1>0, <2>2 DEF Nominate
  <2> QED BY <2>1, <2>2 DEF PassStep, Judge, CheckFrozen, ClaimSlot,
         RecheckFrozen, ReleaseFrozen, Reread, Confirm, RereadRefused,
         GoneClock, GoneRelease, HandOver, ReturnConfirm, ReturnWrite
<1>3. \A q \in Passes : Still(q, r)
  BY <1>1, PassAlone, StillSame
<1>4. ReadyStill(r)
  BY <1>1 DEF ReadyStill
<1> QED BY <1>2, <1>3, <1>4, PassAlone
    DEF Aside, EntryStill, NoNewRemoval

\* A claim that has not lapsed is confirmable.
LEMMA FreshConfirmable ==
  ASSUME TypeOK, NEW p \in Passes, NEW r \in Requests, Leased(r), Fresh(p, r)
  PROVE  Confirmable(p) /\ Queued(r) /\ Phase(r, "waiting")
<1>1. Phase(r, "waiting") /\ OneAdmission(r)
  BY DEF Leased, Calm
<1>2. /\ entry[r].status = "inProgress" /\ entry[r].claim = pass[p].age
      /\ pass[p].r = r /\ pass[p].age < Lease
  BY <1>1 DEF OneAdmission, Fresh
<1>3. pass[p].age \in 0 .. Lease /\ Lease \in Nat
  BY ConstantsAssumption
  DEF TypeOK, PassOK, PassType, ConstantsAssumption
<1> QED BY <1>1, <1>2, <1>3 DEF Confirmable, Queued, ClaimLapsed

\* The steps of a pass that leave its own request aside.
LEMMA PassAside ==
  ASSUME TypeOK, NEW p \in Passes, PassStep(p), NEW r \in Requests,
         pass[p].r = r, Leased(r),
         GoesOn(p) \/ LosesClaim(p) \/ ClearsUp(p)
  PROVE  Aside(r)
<1>0. /\ r # 0 /\ IdlePass.r = 0
      /\ \A q \in Passes : pass[q].age \in 0 .. Lease /\ Lease \in Nat
  BY ConstantsAssumption
  DEF TypeOK, PassOK, PassType, ConstantsAssumption, IdlePass, NoRequest
<1>1. \A q \in Passes : q # p => Still(q, r)
  BY PassAlone, StillSame
<1>2. CASE GoesOn(p)
  <2>1. Still(p, r)
    BY <1>2
    DEF GoesOn, SameClaim, Still, Fresh, Holds, FindsGone, Claiming,
        Confirmed
  <2> QED BY <1>1, <1>2, <2>1, PassAlone
      DEF GoesOn, Aside, ReadyStill, NoNewRemoval
<1>3. CASE LosesClaim(p)
  <2>1. ~Fresh(p, r)
    BY <1>3, FreshConfirmable DEF LosesClaim
  <2>2. ~(pass[p].age < Lease)
    BY <1>3, <2>1 DEF LosesClaim, Fresh
  <2>3. Still(p, r)
    BY <1>0, <1>3, <2>1, <2>2
    DEF LosesClaim, SameClaim, Still, Fresh, Holds, FindsGone, Claiming,
        Confirmed
  <2> QED BY <1>1, <1>3, <2>3, PassAlone
      DEF LosesClaim, Aside, EntryStill, ReadyStill, NoNewRemoval
<1>4. CASE ClearsUp(p)
  <2>1. ~FindsGone(p, r)
    BY DEF Leased
  <2>2. Still(p, r)
    BY <1>0, <1>4, <2>1
    DEF ClearsUp, SameClaim, Still, Fresh, Holds, FindsGone, Claiming,
        Confirmed
  <2> QED BY <1>1, <1>4, <2>2, PassAlone
      DEF ClearsUp, Aside, EntryStill, ReadyStill, NoNewRemoval
<1> QED BY <1>2, <1>3, <1>4

\* A step of p on r whose other parts stay as they were.
LEMMA OwnPass ==
  ASSUME TypeOK, NEW p \in Passes, PassStep(p), NEW r \in Requests, Leased(r)
  PROVE  /\ owner'[r] = owner[r]
         /\ \A q \in Passes : q # p =>
              /\ Fresh(q, r)' <=> Fresh(q, r)
              /\ Holds(q, r)' <=> Holds(q, r)
              /\ pass'[q] = pass[q] /\ ~FindsGone(q, r)'
         /\ \A c \in completions' : (c.r = r /\ "queue" \in c.steps) =>
              Phase(r, "streaming")
  BY PassAlone DEF Fresh, Holds, FindsGone, Leased

\* A confirmation takes the entry out of the lease: no other pass has a claim
\* on it that has not lapsed.
LEMMA ConfirmsKeeps ==
  ASSUME TypeOK, NEW p \in Passes, PassStep(p), NEW r \in Requests,
         pass[p].r = r, Leased(r), Confirms(p)
  PROVE  Leased(r)'
<1>1. /\ entry[r].status = "inProgress" /\ entry[r].claim = pass[p].age
      /\ pass[p].age < Lease
  <2>1. pass[p].age \in 0 .. Lease /\ Lease \in Nat
    BY ConstantsAssumption
    DEF TypeOK, PassOK, PassType, ConstantsAssumption
  <2> QED BY <2>1 DEF Confirms, Confirmable, ClaimLapsed
<1>2. Fresh(p, r)
  BY <1>1 DEF Fresh, Confirms
<1>3. Phase(r, "waiting") /\ OneAdmission(r)
  BY <1>2 DEF Leased, Calm
<1>4. /\ entry'[r].status = "inProgress" /\ entry'[r].claim = NoClaim
      /\ entry'[r].retries = entry[r].retries
  BY <1>1 DEF Confirms, Unstamp, TypeOK, EntryType
<1>5. entry[r].claim # NoClaim
  BY <1>1 DEF TypeOK, PassOK, PassType, NoClaim
<1>6. Holds(p, r)' /\ ~Fresh(p, r)' /\ pass'[p].n = pass[p].n
      /\ ~FindsGone(p, r)'
  BY DEF Confirms, SameClaim, Holds, Fresh, FindsGone, Claiming, Confirmed
<1>7. \A q \in Passes : q # p => ~Fresh(q, r) /\ ~Holds(q, r)
  BY <1>2, <1>3, <1>5 DEF OneAdmission
<1>8. \A m \in ready : m.r # r
  BY <1>3, <1>5 DEF OneAdmission
<1>9. pass[p].n = owner[r].n
  BY <1>2, <1>3 DEF OneAdmission
<1>10. OneAdmission(r)'
  <2>1. ready' = ready
    BY DEF Confirms
  <2> QED BY <1>4, <1>6, <1>7, <1>8, <1>9, <2>1, OwnPass DEF OneAdmission
<1> QED BY <1>1, <1>3, <1>4, <1>6, <1>10, OwnPass
    DEF Leased, Phase, Queued

\* The notification takes the place of the pass that sends it.
LEMMA TellsKeeps ==
  ASSUME TypeOK, NEW p \in Passes, PassStep(p), NEW r \in Requests,
         pass[p].r = r, Leased(r), Tells(p)
  PROVE  Leased(r)'
<1> DEFINE msg == [r |-> pass[p].r, n |-> pass[p].n, thaw |-> pass[p].thaw]
<1>1. Holds(p, r)
  BY DEF Tells, Holds, Confirmed
<1>2. Phase(r, "waiting") /\ OneAdmission(r)
  BY <1>1 DEF Leased, Calm
<1>3. /\ entry[r].status = "inProgress" /\ entry[r].claim = NoClaim
      /\ pass[p].n = owner[r].n
  BY <1>1, <1>2 DEF OneAdmission
<1>4. \A m \in ready : m.r # r
  BY <1>1, <1>2 DEF OneAdmission
<1>5. \A q \in Passes : ~Fresh(q, r)
  BY <1>2, <1>3 DEF OneAdmission, TypeOK, PassOK, PassType, NoClaim
<1>6. ~Holds(p, r)' /\ ~Fresh(p, r)' /\ ~FindsGone(p, r)'
  BY DEF Tells, Holds, Fresh, FindsGone, Claiming, Confirmed, IdlePass
<1>7. \A q \in Passes : ~Holds(q, r)' /\ ~Fresh(q, r)'
  BY <1>1, <1>2, <1>5, <1>6, OwnPass DEF OneAdmission
<1>8. msg.r = r /\ msg.n = owner[r].n
  BY <1>3
<1>9. ready' = ready \cup {msg} /\ entry' = entry
  BY DEF Tells
<1> HIDE DEF msg
<1>10. OneAdmission(r)'
  BY <1>3, <1>4, <1>7, <1>8, <1>9, OwnPass DEF OneAdmission
<1> QED BY <1>2, <1>6, <1>9, <1>10, OwnPass DEF Leased, Phase, Queued

\* The entry goes back only from the pass that holds it.
LEMMA WritesBackKeeps ==
  ASSUME TypeOK, NEW p \in Passes, PassStep(p), NEW r \in Requests,
         pass[p].r = r, Leased(r), WritesBack(p)
  PROVE  Leased(r)'
<1>1. Holds(p, r)
  BY DEF WritesBack, Holds, Confirmed
<1>2. Phase(r, "waiting") /\ OneAdmission(r)
  BY <1>1 DEF Leased, Calm
<1>3. entry[r].status = "inProgress" /\ entry[r].claim = NoClaim
  BY <1>1, <1>2 DEF OneAdmission
<1>4. \A m \in ready : m.r # r
  BY <1>1, <1>2 DEF OneAdmission
<1>5. \A q \in Passes : ~Fresh(q, r)
  BY <1>2, <1>3 DEF OneAdmission, TypeOK, PassOK, PassType, NoClaim
<1>6. ~Holds(p, r)' /\ ~Fresh(p, r)' /\ ~FindsGone(p, r)'
  BY DEF WritesBack, Holds, Fresh, FindsGone, Claiming, Confirmed, IdlePass
<1>7. \A q \in Passes : ~Holds(q, r)' /\ ~Fresh(q, r)'
  BY <1>1, <1>2, <1>5, <1>6, OwnPass DEF OneAdmission
<1>8. entry'[r].status = "pending" /\ entry'[r].retries = entry[r].retries
  BY <1>3 DEF WritesBack, Returned, Queued, TypeOK, EntryType
<1>9. OneAdmission(r)'
  BY <1>4, <1>7, <1>8, OwnPass DEF OneAdmission, WritesBack
<1> QED BY <1>2, <1>3, <1>6, <1>8, <1>9, OwnPass DEF Leased, Phase, Queued

\* A request is selected only when nobody is admitting it.
LEMMA SelectKeeps ==
  ASSUME TypeOK, NEW p \in Passes, Select(p), NEW r \in Requests, Leased(r)
  PROVE  Leased(r)'
<1>1. PICK s \in Requests :
        LET thaw == entry[s].thaw /\ entry[s].status = "pending" IN
        /\ Claimable(s)
        /\ entry' = [entry EXCEPT ![s].status = "inProgress",
                                  ![s].claim = 0, ![s].thaw = thaw]
        /\ \/ pass' = [pass EXCEPT ![p] =
                 [IdlePass EXCEPT !.pc = "judge", !.r = s,
                     !.n = entry[s].retries, !.thaw = thaw]]
           \/ pass' = pass
  BY DEF Select
<1>2. pass \in [Passes -> PassType] /\ entry \in [Requests -> EntryType]
  BY DEF TypeOK, PassOK
<1>3. pass[p].pc = "idle" /\ ready' = ready
  BY DEF Select, At
<1>4. \/ pass' = pass
      \/ /\ pass'[p].pc = "judge" /\ pass'[p].r = s
         /\ pass'[p].n = entry[s].retries /\ pass'[p].age = 0
  <2>1. CASE pass' # pass
    <3>1. PICK b \in BOOLEAN :
            pass'[p] = [IdlePass EXCEPT !.pc = "judge", !.r = s,
                           !.n = entry[s].retries, !.thaw = b]
      BY <1>1, <1>2, <2>1
    <3> QED BY <3>1 DEF IdlePass
  <2> QED BY <2>1
<1>5. owner' = owner /\ completions' = completions
      /\ \A q \in Passes : q # p => pass'[q] = pass[q]
  BY PassAlone
<1>6. ~Fresh(p, r) /\ ~Holds(p, r) /\ ~FindsGone(p, r)
  BY <1>3 DEF Fresh, Holds, FindsGone, Claiming, Confirmed
<1>7. CASE r # s
  <2>1. entry'[r] = entry[r]
    BY <1>1, <1>2, <1>7
  <2>2. ~Fresh(p, r)' /\ ~Holds(p, r)' /\ ~FindsGone(p, r)'
    BY <1>4, <1>6, <1>7 DEF Fresh, Holds, FindsGone
  <2>3. \A q \in Passes : Still(q, r)
    BY <1>5, <1>6, <2>2, StillSame DEF Still
  <2>4. Aside(r)
    BY <1>3, <1>5, <2>1, <2>3
    DEF Aside, EntryStill, ReadyStill, NoNewRemoval
  <2> QED BY <2>4, AsideKeeps
<1>8. CASE r = s
  <2>1. /\ entry[r].status # "none"
        /\ ~(entry[r].status = "inProgress" /\ entry[r].claim < Lease)
        /\ NoClaim < Lease /\ 0 < Lease
    BY <1>1, <1>2, <1>8, ConstantsAssumption
    DEF Claimable, ClaimLapsed, EntryType, NoClaim, ConstantsAssumption
  <2>2. Phase(r, "waiting") /\ OneAdmission(r)
    BY <2>1 DEF Leased, Calm, Queued
  <2>3. \A q \in Passes : ~Fresh(q, r) /\ ~Holds(q, r)
    BY <2>1, <2>2 DEF OneAdmission, Fresh
  <2>4. \A m \in ready : m.r # r
    BY <2>1, <2>2 DEF OneAdmission
  <2>5. /\ entry'[r].status = "inProgress" /\ entry'[r].claim = 0
        /\ entry'[r].retries = entry[r].retries
    BY <1>1, <1>2, <1>8 DEF EntryType
  <2>6. \A q \in Passes :
          /\ ~Holds(q, r)' /\ ~FindsGone(q, r)'
          /\ Fresh(q, r)' => q = p
    BY <1>4, <1>5, <1>6, <2>3
    DEF Fresh, Holds, FindsGone, Leased, Claiming, Confirmed
  <2>7. Fresh(p, r)' => pass'[p].age = 0 /\ pass'[p].n = entry[r].retries
    BY <1>4, <1>6, <1>8 DEF Fresh
  <2>8. entry[r].retries = owner[r].n
    BY <2>1 DEF Leased, Queued
  <2>9. OneAdmission(r)'
    BY <1>3, <1>5, <2>4, <2>5, <2>6, <2>7, <2>8 DEF OneAdmission, NoClaim
  <2> QED BY <1>5, <2>2, <2>5, <2>6, <2>8, <2>9
      DEF Leased, Phase, Queued
<1> QED BY <1>7, <1>8

\* Whatever a pass does, the leases stay in order.
LEMMA PassKeeps ==
  ASSUME TypeOK, ConfirmationsArrive, NEW p \in Passes, PassStep(p),
         pass[p].pc \in Claiming => ~pass[p].sent,
         NEW r \in Requests, Leased(r)
  PROVE  Leased(r)'
<1>1. CASE r # pass[p].r
  BY <1>1, PassElsewhere, AsideKeeps
<1>2. CASE r = pass[p].r
  <2>1. CASE GoesOn(p) \/ LosesClaim(p) \/ ClearsUp(p)
    BY <1>2, <2>1, PassAside, AsideKeeps
  <2>2. CASE Confirms(p)
    BY <1>2, <2>2, ConfirmsKeeps
  <2>3. CASE Tells(p)
    BY <1>2, <2>3, TellsKeeps
  <2>4. CASE WritesBack(p)
    BY <1>2, <2>4, WritesBackKeeps
  <2> QED BY <2>1, <2>2, <2>3, <2>4, PassKinds
<1> QED BY <1>1, <1>2

---------------------------------------------------------------------------
(* The owner, the controller and the clock.                                *)

\* An owner's step leaves the passes and the notifications alone, and every
\* other request aside.
LEMMA OwnerAlone ==
  ASSUME TypeOK, NEW o \in Requests, OwnerStep(o)
  PROVE  /\ pass' = pass /\ ready' = ready
         /\ \A r \in Requests : r # o =>
              owner'[r] = owner[r] /\ entry'[r] = entry[r]
         /\ \/ completions' = completions
            \/ \E c : c.r = o /\ completions' = completions \cup {c}
<1>1. pass' = pass /\ ready' = ready
  BY DEF OwnerStep, FastAdmit, Enqueue, AddRequest, FlipToPending, Abandon,
         Finish, StreamHeaders, StreamEnd
<1>2. \A r \in Requests : r # o =>
         owner'[r] = owner[r] /\ entry'[r] = entry[r]
  BY DEF OwnerStep, FastAdmit, Enqueue, AddRequest, FlipToPending, Abandon,
         Finish, StreamHeaders, StreamEnd, TypeOK
<1>3. \/ completions' = completions
      \/ \E c : c.r = o /\ completions' = completions \cup {c}
  <2>1. ASSUME NEW x, NEW final, NEW halves,
               Announce(Completion(o, x, final, halves))
        PROVE  \/ completions' = completions
               \/ \E c : c.r = o /\ completions' = completions \cup {c}
    <3> DEFINE c == Completion(o, x, final, halves)
    <3>1. c.r = o
      BY DEF Completion
    <3>2. completions' = completions \/ completions' = completions \cup {c}
      BY <2>1 DEF Announce
    <3> HIDE DEF c
    <3> QED BY <3>1, <3>2
  <2>2. CASE Abandon(o)
    BY <2>1, <2>2 DEF Abandon
  <2>3. ASSUME NEW x \in Outcomes, Finish(o, x)
        PROVE  \/ completions' = completions
               \/ \E c : c.r = o /\ completions' = completions \cup {c}
    BY <2>1, <2>3 DEF Finish
  <2>4. CASE StreamHeaders(o)
    BY <2>1, <2>4 DEF StreamHeaders
  <2>5. ASSUME NEW x \in Outcomes, StreamEnd(o, x)
        PROVE  \/ completions' = completions
               \/ \E c : c.r = o /\ completions' = completions \cup {c}
    BY <2>1, <2>5 DEF StreamEnd
  <2> QED BY <2>2, <2>3, <2>4, <2>5
      DEF OwnerStep, FastAdmit, Enqueue, AddRequest, FlipToPending
<1> QED BY <1>1, <1>2, <1>3

\* The request of another owner keeps its lease in order.
LEMMA OwnerElsewhere ==
  ASSUME TypeOK, NEW o \in Requests, OwnerStep(o), NEW r \in Requests, r # o,
         Leased(r)
  PROVE  Leased(r)'
<1>1. \A q \in Passes : Still(q, r)
  BY OwnerAlone, StillSame
<1>2. NoNewRemoval(r)
  BY OwnerAlone DEF NoNewRemoval
<1>3. Aside(r)
  BY <1>1, <1>2, OwnerAlone DEF Aside, EntryStill, ReadyStill
<1> QED BY <1>3, AsideKeeps

\* A request that is not waiting stays calm while its entry stays out of the
\* lease, and its waiting starts with an entry nobody has claimed.
LEMMA CalmOwner ==
  ASSUME TypeOK, NEW r \in Requests, OwnerStep(r), Leased(r),
         ~Phase(r, "waiting")
  PROVE  /\ \A p \in Passes : ~Fresh(p, r)' /\ ~Holds(p, r)'
                              /\ ~FindsGone(p, r)'
         /\ \A m \in ready' : m.r # r
         /\ Queued(r) => entry[r].status = "inProgress"
                         /\ entry[r].claim = NoClaim
  BY OwnerAlone DEF Leased, Calm, Fresh, Holds, FindsGone

\* An abandoned request and a stream at its end are over.
LEMMA OverAfter ==
  ASSUME TypeOK, NEW r \in Requests, owner'[r].phase \in Active
  PROVE  ~Abandon(r) /\ \A o \in Outcomes : ~StreamEnd(r, o)
<1>0. owner \in [Requests -> OwnerType]
  BY DEF TypeOK
<1>1. ASSUME NEW ph, owner' = [owner EXCEPT ![r].phase = ph]
      PROVE  ph \in Active
  BY <1>0, <1>1 DEF OwnerType
<1>2. ~Abandon(r)
  <2> SUFFICES ASSUME Abandon(r)
               PROVE  FALSE
    OBVIOUS
  <2> DEFINE ph == CASE owner[r].phase = "adding" -> "doneAdding"
                     [] owner[r].phase = "flipping" -> "doneFlipping"
                     [] OTHER -> "done"
  <2>1. owner' = [owner EXCEPT ![r].phase = ph]
    BY <1>0 DEF Abandon
  <2>2. ph \in {"doneAdding", "doneFlipping", "done"}
    OBVIOUS
  <2> HIDE DEF ph
  <2> QED BY <1>1, <2>1, <2>2 DEF Active
<1>3. \A o \in Outcomes : ~StreamEnd(r, o)
  <2>1. ASSUME NEW o \in Outcomes, StreamEnd(r, o)
        PROVE  owner' = [owner EXCEPT ![r].phase = "done"]
    BY <2>1 DEF StreamEnd
  <2>2. "done" \notin Active
    BY DEF Active
  <2> QED BY <1>1, <2>1, <2>2
<1> QED BY <1>2, <1>3

\* An owner's own step keeps the lease of its request in order.
LEMMA OwnerKeeps ==
  ASSUME TypeOK, NEW r \in Requests, OwnerStep(r),
         owner[r].phase \in Active => Leased(r), owner'[r].phase \in Active
  PROVE  Leased(r)'
<1>0. /\ owner \in [Requests -> OwnerType] /\ entry \in [Requests -> EntryType]
      /\ owner[r].n \in Nat /\ MaxRetries \in Nat
  BY ConstantsAssumption
  DEF TypeOK, OwnerType, Attempts, ConstantsAssumption
<1> DEFINE NotOwed == \A c \in completions' : ~(c.r = r /\ "queue" \in c.steps)
<1>1. CASE FastAdmit(r)
  <2>1. owner'[r].phase = "running" /\ owner'[r].n = owner[r].n
        /\ Phase(r, "new") /\ entry' = entry /\ completions' = completions
    BY <1>0, <1>1 DEF FastAdmit, OwnerType
  <2>2. Leased(r)
    BY <2>1 DEF Phase, Active
  <2> QED BY <2>1, <2>2, CalmOwner DEF Leased, Calm, Phase, Queued
<1>2. CASE Enqueue(r)
  <2>1. owner'[r].phase = "adding" /\ owner'[r].n = owner[r].n
        /\ Phase(r, "new") /\ entry' = entry /\ completions' = completions
    BY <1>0, <1>2 DEF Enqueue, OwnerType
  <2>2. Leased(r)
    BY <2>1 DEF Phase, Active
  <2> QED BY <2>1, <2>2, CalmOwner DEF Leased, Calm, Phase, Queued
<1>3. CASE AddRequest(r)
  <2>1. /\ Phase(r, "adding") /\ completions' = completions
        /\ owner'[r].n = owner[r].n
        /\ owner'[r].phase = IF owner[r].n > 0 /\ ~Addable(r)
                             THEN "flipping" ELSE "waiting"
    <3> DEFINE ph == CASE owner[r].phase = "doneAdding" -> "done"
                       [] owner[r].phase = "adding" /\ owner[r].n > 0
                             /\ ~Addable(r) -> "flipping"
                       [] OTHER -> "waiting"
    <3>1. /\ owner[r].phase \in {"adding", "doneAdding"}
          /\ owner' = [owner EXCEPT ![r].phase = ph]
          /\ completions' = completions
      BY <1>0, <1>3 DEF AddRequest
    <3>2. owner'[r].phase = ph /\ owner'[r].n = owner[r].n
      <4> HIDE DEF ph
      <4> QED BY <1>0, <3>1 DEF OwnerType
    <3>3. owner[r].phase = "doneAdding" => ph = "done"
      OBVIOUS
    <3>4. owner[r].phase = "adding" =>
             ph = IF owner[r].n > 0 /\ ~Addable(r)
                  THEN "flipping" ELSE "waiting"
      OBVIOUS
    <3> HIDE DEF ph
    <3> QED BY <3>1, <3>2, <3>3, <3>4 DEF Active, Phase
  <2>2. Leased(r)
    BY <2>1 DEF Phase, Active
  <2>3. CASE Addable(r)
    <3>1. entry'[r].status = "pending" /\ entry'[r].retries = owner[r].n
      BY <1>0, <1>3, <2>3 DEF AddRequest, NoEntry
    <3> QED BY <2>1, <2>2, <2>3, <3>1, CalmOwner
        DEF Leased, OneAdmission, Phase, Queued
  <2>4. CASE ~Addable(r)
    <3>1. entry' = entry
      BY <1>3, <2>4 DEF AddRequest
    <3>2. CASE owner[r].n > 0
      BY <2>1, <2>2, <2>4, <3>1, <3>2, <1>0, CalmOwner
      DEF Leased, Calm, Phase, Queued
    <3>3. CASE owner[r].n = 0
      <4>1. ~Queued(r)
        BY <2>1, <2>2, <3>3 DEF Leased, Phase
      <4> QED BY <2>1, <2>2, <2>4, <3>1, <3>3, <4>1, CalmOwner
          DEF Leased, OneAdmission, Phase, Queued
    <3> QED BY <1>0, <3>2, <3>3
  <2> QED BY <2>3, <2>4
<1>4. CASE FlipToPending(r)
  <2>1. /\ Phase(r, "flipping") /\ completions' = completions
        /\ owner'[r].n = owner[r].n /\ owner'[r].phase = "waiting"
    BY <1>0, <1>4 DEF FlipToPending, OwnerType, Active, Phase
  <2>2. Leased(r)
    BY <2>1 DEF Phase, Active
  <2>3. /\ entry'[r].status \in {"none", "pending"}
        /\ entry'[r].retries = entry[r].retries
        /\ Queued(r)' => Queued(r)
    BY <1>0, <1>4 DEF FlipToPending, Queued, EntryType
  <2> QED BY <2>1, <2>2, <2>3, CalmOwner
      DEF Leased, OneAdmission, Phase, Queued
<1>5. ASSUME NEW o \in Outcomes, Finish(r, o)
      PROVE  Leased(r)'
  <2>1. /\ Phase(r, "running") /\ owner'[r].phase = "new"
        /\ owner'[r].n = owner[r].n + 1
    BY <1>0, <1>5 DEF Finish, OwnerType, Active
  <2>2. Leased(r)
    BY <2>1 DEF Phase, Active
  <2>3. o \in {"retry", "5xx", "429"} /\ owner[r].n < MaxRetries
    BY <1>0, <1>5, <2>1 DEF Finish
  <2>4. Announce(Completion(r, o, FALSE, AllSteps))
    BY <1>5, <2>3 DEF Finish
  <2>5. "queue" \notin Completion(r, o, FALSE, AllSteps).steps
    BY DEF Completion
  <2>6. NotOwed
    BY <2>1, <2>2, <2>4, <2>5 DEF Announce, Leased, Phase
  <2>7. /\ entry'[r].status = entry[r].status
        /\ entry'[r].claim = entry[r].claim
        /\ Queued(r) => entry'[r].retries = owner[r].n + 1
    BY <1>0, <1>5, <2>3 DEF Finish, EntryType
  <2> QED BY <1>0, <2>1, <2>2, <2>6, <2>7, CalmOwner
      DEF Leased, Calm, Phase, Queued
<1>6. CASE StreamHeaders(r)
  <2>1. /\ Phase(r, "running") /\ owner'[r].phase = "streaming"
        /\ owner'[r].n = owner[r].n /\ entry' = entry
    BY <1>0, <1>6 DEF StreamHeaders, OwnerType
  <2>2. Leased(r)
    BY <2>1 DEF Phase, Active
  <2> QED BY <2>1, <2>2, CalmOwner DEF Leased, Calm, Phase, Queued
<1>7. ~Abandon(r) /\ \A o \in Outcomes : ~StreamEnd(r, o)
  BY OverAfter
<1> QED BY <1>1, <1>2, <1>3, <1>4, <1>5, <1>6, <1>7 DEF OwnerStep

\* The owner that is told runs the attempt, and nothing else admits it.
LEMMA OnReadyKeeps ==
  ASSUME TypeOK, NEW m \in ready, OnReady(m), NEW r \in Requests, Leased(r),
         owner[r].phase \in Active
  PROVE  Leased(r)'
<1>0. /\ owner \in [Requests -> OwnerType] /\ m.r \in Requests
      /\ pass' = pass /\ entry' = entry /\ completions' = completions
      /\ ready' = ready \ {m}
  BY DEF TypeOK, OnReady
<1>1. CASE r # m.r
  <2>1. \A q \in Passes : Still(q, r)
    BY <1>0, StillSame
  <2>2. owner'[r] = owner[r]
    BY <1>0, <1>1 DEF OnReady
  <2>3. Aside(r)
    BY <1>0, <1>1, <2>1, <2>2
    DEF Aside, EntryStill, ReadyStill, NoNewRemoval
  <2> QED BY <2>3, AsideKeeps
<1>2. CASE r = m.r
  <2>1. Phase(r, "waiting") /\ OneAdmission(r)
    BY <1>2 DEF Leased, Calm
  <2>2. owner'[r].phase = "running" /\ owner'[r].n = owner[r].n
    BY <1>0, <1>2, <2>1 DEF OnReady, OwnerType
  <2>3. /\ entry[r].status = "inProgress" /\ entry[r].claim = NoClaim
        /\ \A q \in Passes : ~Holds(q, r)
    BY <1>2, <2>1 DEF OneAdmission
  <2>4. \A q \in Passes : ~Fresh(q, r)
    BY <2>1, <2>3 DEF OneAdmission, TypeOK, PassOK, PassType, NoClaim
  <2>5. \A k \in ready' : k.r # r
    BY <1>0, <1>2, <2>1 DEF OneAdmission
  <2>6. Calm(r)'
    BY <1>0, <2>3, <2>4, <2>5 DEF Calm, Fresh, Holds
  <2>7. \A q \in Passes : ~FindsGone(q, r)'
    BY <1>0 DEF FindsGone, Leased
  <2> QED BY <1>0, <2>1, <2>2, <2>6, <2>7 DEF Leased, Phase, Queued
<1> QED BY <1>1, <1>2

\* What a completion becomes owes no removal it did not owe.
LEMMA ProgressRemoval ==
  ASSUME NEW c \in completions, NEW new, Progress(c, new), NEW r \in Requests,
         new.r = c.r, "queue" \in new.steps => "queue" \in c.steps
  PROVE  NoNewRemoval(r)
  BY DEF Progress, NoNewRemoval

\* The controller removes the entry of a request that is not over only while
\* its answer is streamed.
LEMMA DoneKeeps ==
  ASSUME TypeOK, NEW c \in completions, DoneStep(c), NEW r \in Requests,
         Leased(r)
  PROVE  Leased(r)'
<1>0. c \in CompletionType /\ pass' = pass /\ ready' = ready /\ owner' = owner
  BY DEF TypeOK, DoneStep, DoneRemove, DoneClock, DoneFreeze, DoneSlot, DoneThaw
<1>1. NoNewRemoval(r)
  <2>1. CASE DoneRemove(c)
    <3> DEFINE thaw == c.thaw \/ entry[c.r].thaw
               left == (c.steps \ {"queue"})
                          \cup (IF thaw THEN {"thaw"} ELSE {})
               new == [c EXCEPT !.thaw = thaw, !.steps = left]
    <3>1. Progress(c, new) /\ "queue" \in c.steps
      BY <2>1 DEF DoneRemove, NextStep
    <3>2. new.r = c.r
      BY <1>0 DEF CompletionType
    <3> HIDE DEF new
    <3> QED BY <3>1, <3>2, ProgressRemoval
  <2>2. ASSUME NEW s, Progress(c, [c EXCEPT !.steps = @ \ {s}])
        PROVE  NoNewRemoval(r)
    <3> DEFINE new == [c EXCEPT !.steps = @ \ {s}]
    <3>1. new.r = c.r /\ new.steps = c.steps \ {s}
      BY <1>0 DEF CompletionType
    <3> HIDE DEF new
    <3>2. Progress(c, new)
      BY <2>2 DEF new
    <3> QED BY <3>1, <3>2, ProgressRemoval
  <2>3. ASSUME NEW s, NEW v, Progress(c, [c EXCEPT !.steps = @ \ {s}, !.due = v])
        PROVE  NoNewRemoval(r)
    <3> DEFINE new == [c EXCEPT !.steps = @ \ {s}, !.due = v]
    <3>1. new.r = c.r /\ new.steps = c.steps \ {s}
      BY <1>0 DEF CompletionType
    <3> HIDE DEF new
    <3>2. Progress(c, new)
      BY <2>3 DEF new
    <3> QED BY <3>1, <3>2, ProgressRemoval
  <2> QED BY <2>1, <2>2, <2>3 DEF DoneStep, DoneClock, DoneFreeze, DoneSlot, DoneThaw
<1>2. \A q \in Passes : Still(q, r)
  BY <1>0, StillSame
<1>3. CASE entry'[r] = entry[r]
  <2>1. Aside(r)
    BY <1>0, <1>1, <1>2, <1>3 DEF Aside, EntryStill, ReadyStill
  <2> QED BY <2>1, AsideKeeps
<1>4. CASE entry'[r] # entry[r]
  <2>1. /\ DoneRemove(c) /\ c.r = r /\ entry'[r] = NoEntry
        /\ "queue" \in c.steps
    BY <1>4 DEF DoneStep, DoneRemove, DoneClock, DoneFreeze, DoneSlot, DoneThaw, TypeOK,
                NextStep
  <2>2. Phase(r, "streaming")
    BY <2>1 DEF Leased
  <2>3. Calm(r)
    BY <2>2 DEF Leased, Phase
  <2>4. ~Queued(r)'
    BY <2>1 DEF Queued, NoEntry
  <2>5. Calm(r)'
    BY <1>0, <2>3, <2>4 DEF Calm, Fresh, Holds
  <2>6. \A q \in Passes : ~FindsGone(q, r)'
    BY <1>0 DEF FindsGone, Leased
  <2> QED BY <1>0, <2>2, <2>4, <2>5, <2>6 DEF Leased, Phase
<1> QED BY <1>3, <1>4

\* A claim and the stamp on its entry age together.
LEMMA TickKeeps ==
  ASSUME TypeOK, Tick, NEW r \in Requests, Leased(r)
  PROVE  Leased(r)'
<1>0. /\ pass \in [Passes -> PassType] /\ entry \in [Requests -> EntryType]
      /\ Lease \in Nat /\ Lease > 0
      /\ owner' = owner /\ ready' = ready
      /\ \A d \in completions' : \E c \in completions :
            d.r = c.r /\ d.n = c.n /\ d.steps = c.steps
  BY ConstantsAssumption, TickOwed
  DEF TypeOK, PassOK, Tick, ConstantsAssumption
<1>1. /\ entry'[r].status = entry[r].status
      /\ entry'[r].retries = entry[r].retries
      /\ entry'[r].claim = Aged(entry[r].claim)
      /\ entry[r].claim \in -1 .. Lease
  BY <1>0 DEF Tick, EntryType
<1>2. \A q \in Passes :
        /\ pass'[q].pc = pass[q].pc /\ pass'[q].r = pass[q].r
        /\ pass'[q].n = pass[q].n /\ pass[q].age \in 0 .. Lease
        /\ pass[q].pc # "idle" => pass'[q].age = Aged(pass[q].age)
  BY <1>0 DEF Tick, PassType
<1>3. \A a \in 0 .. Lease : Aged(a) < Lease => a < Lease
  BY <1>0 DEF Aged, NoClaim
<1>4. \A a \in -1 .. Lease : Aged(a) = NoClaim <=> a = NoClaim
  BY <1>0 DEF Aged, NoClaim
<1>5. \A q \in Passes :
        /\ Fresh(q, r)' => Fresh(q, r) /\ pass'[q].age = Aged(pass[q].age)
        /\ Holds(q, r)' <=> Holds(q, r)
        /\ FindsGone(q, r)' => FindsGone(q, r)
  BY <1>2, <1>3 DEF Fresh, Holds, FindsGone, Claiming, Confirmed
<1>6. CASE Phase(r, "waiting")
  <2>1. OneAdmission(r)
    BY <1>6 DEF Leased
  <2>2. entry'[r].claim = NoClaim <=> entry[r].claim = NoClaim
    BY <1>1, <1>4
  <2>3. OneAdmission(r)'
    BY <1>0, <1>1, <1>2, <1>5, <2>1, <2>2 DEF OneAdmission
  <2> QED BY <1>0, <1>1, <1>5, <1>6, <2>3 DEF Leased, Phase, Queued
<1>7. CASE ~Phase(r, "waiting")
  <2>1. Calm(r)
    BY <1>7 DEF Leased
  <2>2. Calm(r)'
    BY <1>0, <1>1, <1>4, <1>5, <2>1 DEF Calm, Queued
  <2> QED BY <1>0, <1>1, <1>5, <1>7, <2>2 DEF Leased, Phase, Queued
<1> QED BY <1>6, <1>7

\* A pass has sent a confirmation only when its claim is confirmed.
LEMMA UnsentKept ==
  ASSUME TypeOK, ConfirmationsArrive, LeaseInv, [Next]_vars, NEW p \in Passes,
         pass'[p].pc \in Claiming
  PROVE  ~pass'[p].sent
<1>0. /\ pass \in [Passes -> PassType] /\ "idle" \notin Claiming
      /\ pass[p].pc \in Claiming => ~pass[p].sent
  BY DEF TypeOK, PassOK, Claiming, LeaseInv
<1>1. CASE pass'[p] = pass[p]
  BY <1>0, <1>1
<1>2. ASSUME NEW q \in Passes, Select(q)
      PROVE  ~pass'[p].sent
  <2>1. PICK s \in Requests, b \in BOOLEAN :
          \/ pass' = [pass EXCEPT ![q] =
                 [IdlePass EXCEPT !.pc = "judge", !.r = s,
                     !.n = entry[s].retries, !.thaw = b]]
          \/ pass' = pass
    BY <1>2 DEF Select
  <2> QED BY <1>0, <1>1, <2>1 DEF IdlePass
<1>3. ASSUME NEW q \in Passes, PassStep(q)
      PROVE  ~pass'[p].sent
  <2>1. CASE q # p
    BY <1>1, <1>3, <2>1, PassAlone
  <2>2. CASE q = p
    <3>1. GoesOn(p)
      BY <1>0, <1>3, <2>2, PassKinds
      DEF Confirms, LosesClaim, ClearsUp, Tells, WritesBack, IdlePass,
          Claiming, Confirmed
    <3> QED BY <1>0, <3>1 DEF GoesOn
  <2> QED BY <2>1, <2>2
<1>4. CASE Tick
  BY <1>0, <1>4 DEF Tick, PassType
<1>5. ASSUME NEW r \in Requests, OwnerStep(r)
      PROVE  ~pass'[p].sent
  BY <1>1, <1>5, OwnerAlone
<1> QED BY <1>1, <1>2, <1>3, <1>4, <1>5
    DEF Next, vars, OnReady, DoneStep, DoneRemove, DoneClock, DoneFreeze, DoneSlot,
        DoneThaw

\* Only its owner moves a request from one phase to another.
LEMMA StaysActive ==
  ASSUME TypeOK, Next, NEW r \in Requests, owner'[r].phase \in Active,
         ~OwnerStep(r)
  PROVE  owner[r].phase \in Active
<1>1. ASSUME NEW m \in ready, OnReady(m)
      PROVE  owner[r].phase \in Active
  BY <1>1 DEF OnReady, TypeOK, OwnerType, Active, Phase
<1>2. ASSUME NEW o \in Requests, OwnerStep(o)
      PROVE  owner[r].phase \in Active
  BY <1>2, OwnerAlone
<1>3. ASSUME NEW p \in Passes, Select(p) \/ PassStep(p)
      PROVE  owner[r].phase \in Active
  BY <1>3, PassAlone
<1> QED BY <1>1, <1>2, <1>3
    DEF Next, DoneStep, DoneRemove, DoneClock, DoneFreeze, DoneSlot, DoneThaw, Tick

\* The invariant of the leases holds initially.
LEMMA LeaseInit == Init => LeaseInv
<1> SUFFICES ASSUME Init PROVE LeaseInv
  OBVIOUS
<1>1. \A p \in Passes : pass[p].pc = "idle"
  BY DEF Init, IdlePass
<1>2. \A r \in Requests : /\ owner[r].phase = "new" /\ ~Queued(r)
  BY DEF Init, Queued, NoEntry
<1>3. \A r \in Requests, p \in Passes :
         ~Fresh(p, r) /\ ~Holds(p, r) /\ ~FindsGone(p, r)
  BY <1>1 DEF Fresh, Holds, FindsGone, Claiming, Confirmed
<1> QED BY <1>1, <1>2, <1>3
    DEF Init, LeaseInv, Leased, Calm, Phase, Claiming

\* The invariant of the leases is kept by every step.
LEMMA LeaseKept ==
  ASSUME TypeOK, ConfirmationsArrive, LeaseInv, [Next]_vars
  PROVE  LeaseInv'
<1>1. CASE UNCHANGED vars
  BY <1>1
  DEF vars, LeaseInv, Leased, Calm, OneAdmission, Fresh, Holds, FindsGone,
      Phase, Queued
<1>2. ASSUME Next, NEW r \in Requests, owner'[r].phase \in Active
      PROVE  Leased(r)'
  <2>1. CASE OwnerStep(r)
    BY <1>2, <2>1, OwnerKeeps DEF LeaseInv
  <2>2. CASE ~OwnerStep(r)
    <3>1. owner[r].phase \in Active /\ Leased(r)
      BY <1>2, <2>2, StaysActive DEF LeaseInv
    <3>2. ASSUME NEW p \in Passes, PassStep(p)
          PROVE  Leased(r)'
      BY <3>1, <3>2, PassKeeps DEF LeaseInv
    <3>3. ASSUME NEW p \in Passes, Select(p)
          PROVE  Leased(r)'
      BY <3>1, <3>3, SelectKeeps
    <3>4. ASSUME NEW o \in Requests, OwnerStep(o)
          PROVE  Leased(r)'
      BY <2>2, <3>1, <3>4, OwnerElsewhere
    <3>5. ASSUME NEW m \in ready, OnReady(m)
          PROVE  Leased(r)'
      BY <3>1, <3>5, OnReadyKeeps
    <3>6. ASSUME NEW c \in completions, DoneStep(c)
          PROVE  Leased(r)'
      BY <3>1, <3>6, DoneKeeps
    <3>7. CASE Tick
      BY <3>1, <3>7, TickKeeps
    <3> QED BY <1>2, <3>2, <3>3, <3>4, <3>5, <3>6, <3>7 DEF Next
  <2> QED BY <2>1, <2>2
<1>3. CASE Next
  BY <1>2, <1>3, UnsentKept DEF LeaseInv
<1> QED BY <1>1, <1>3

\* The invariant above holds of every behaviour in which confirmations, hand-
\* overs and write-backs are answered, whatever other reply is lost.
THEOREM LeaseInvariant ==
  ASSUME ConfirmationsArrive
  PROVE  Spec => []LeaseInv
<1>1. TypeOK /\ LeaseInv /\ [Next]_vars => LeaseInv'
  BY LeaseKept
<1> QED BY <1>1, LeaseInit, TypeCorrect, PTL DEF Spec

\* A request that a pass has handed to its owner is not handed out by another:
\* for any number of requests and passes, any lease, and any loss of replies
\* other than those of confirmRequest, the hand-over and the write-back.
THEOREM AdmittedOnce ==
  ASSUME ConfirmationsArrive
  PROVE  Spec => []AdmittedNotClaimable
<1>1. TypeOK /\ LeaseInv => AdmittedNotClaimable
  <2> SUFFICES ASSUME TypeOK, LeaseInv, NEW r \in Requests, HandedOver(r)
               PROVE  ~Claimable(r)
    BY DEF AdmittedNotClaimable
  <2>1. owner[r].phase \in Active /\ Leased(r)
    BY DEF LeaseInv, HandedOver, Active
  <2>2. Queued(r) => entry[r].status = "inProgress" /\ entry[r].claim = NoClaim
    <3>1. CASE Phase(r, "waiting")
      BY <2>1, <3>1 DEF HandedOver, Leased, OneAdmission, Phase
    <3>2. CASE ~Phase(r, "waiting")
      BY <2>1, <3>2 DEF Leased, Calm
    <3> QED BY <3>1, <3>2
  <2> QED BY <2>2, ConstantsAssumption
      DEF Claimable, ClaimLapsed, Queued, NoClaim, ConstantsAssumption
<1> QED BY <1>1, LeaseInvariant, TypeCorrect, PTL

\* An entry that confirmRequest took out of the lease is in the hands of a pass
\* or of its owner's listener as long as the owner waits, under the same
\* assumption.
THEOREM NobodyStranded ==
  ASSUME ConfirmationsArrive
  PROVE  Spec => []NotStranded
<1>1. LeaseInv => NotStranded
  <2> SUFFICES ASSUME LeaseInv, NEW r \in Requests, Phase(r, "waiting"),
                      entry[r].status = "inProgress", entry[r].claim = NoClaim
               PROVE  \/ \E p \in Passes : pass[p].r = r
                           /\ pass[p].pc \in {"handover", "returnWrite"}
                      \/ \E m \in ready : m.r = r
    BY DEF NotStranded
  <2>1. OneAdmission(r)
    BY DEF LeaseInv, Leased, Phase, Active
  <2> QED BY <2>1 DEF OneAdmission, Holds, Confirmed
<1> QED BY <1>1, LeaseInvariant, PTL

---------------------------------------------------------------------------
(* Every attempt in flight holds its slot.                                 *)

\* No pass releases a slot after its claim lapsed: either an iteration ends
\* within its lease, or no answer freezes the client.
ReleasesInTime == PromptPasses \/ \A o \in Outcomes : ~Freezes(o)

\* A pass that holds a slot for r and may still hand it over.
Carrying == {"isFrozen2", "reread", "confirm"}
Carries(p, r) ==
    /\ pass[p].r = r
    /\ \/ pass[p].pc \in Carrying /\ pass[p].age < Lease
       \/ pass[p].pc = "handover"

\* The attempt of r is in flight or on its way to its owner.
NeedsSlot(r) ==
    \/ owner[r].phase \in {"running", "streaming"}
    \/ /\ Phase(r, "waiting")
       /\ (\E p \in Passes : Carries(p, r)) \/ \E m \in ready : m.r = r

\* It has its slot, and what completions still give back are the slots of
\* earlier attempts.
Counted(r) ==
    /\ NeedsSlot(r) => <<r, owner[r].n>> \in slots
    /\ \A c \in completions : (c.r = r /\ "slot" \in c.steps) =>
          c.n < owner[r].n

SlotInv ==
    /\ \A r \in Requests : owner[r].phase \in Active => Counted(r)
    /\ PromptPasses =>
          \A p \in Passes : pass[p].pc # "idle" => pass[p].age < Lease
    /\ ~PromptPasses =>
          /\ ~Frozen /\ \A p \in Passes : pass[p].pc # "release"
          /\ \A c \in completions : "freeze" \notin c.steps

\* A pass that carries a slot carries that of the attempt its owner waits for.
LEMMA CarriesOwn ==
  ASSUME NEW r \in Requests, Leased(r), NEW p \in Passes,
         Carries(p, r) \/ Fresh(p, r)
  PROVE  Phase(r, "waiting") /\ pass[p].n = owner[r].n
<1>1. Fresh(p, r) \/ Holds(p, r)
  BY DEF Carries, Fresh, Holds, Carrying, Claiming, Confirmed
<1> QED BY <1>1 DEF Leased, Calm, OneAdmission

\* A pass comes to carry a slot only by taking it.
LEMMA CarriesTaken ==
  ASSUME TypeOK, ConfirmationsArrive, NEW p \in Passes, PassStep(p),
         NEW r \in Requests, Leased(r), Carries(p, r)'
  PROVE  Carries(p, r) \/ <<r, owner[r].n>> \in slots'
<1>0. /\ pass \in [Passes -> PassType] /\ r # 0
      /\ pass[p].age \in 0 .. Lease /\ Lease \in Nat
  BY ConstantsAssumption
  DEF TypeOK, PassOK, PassType, ConstantsAssumption
<1>1. ASSUME NEW pc, Goto(p, pc)
      PROVE  SameClaim(p) /\ pass'[p].pc = pc
  BY <1>0, <1>1 DEF Goto, SameClaim, PassType
<1>2. ~Catch(p)
  BY <1>0 DEF Catch, Carries, Carrying, PassType
<1>3. ~EndPass(p)
  BY <1>0 DEF EndPass, Carries, IdlePass, NoRequest
<1>4. ~Loses("confirm") /\ ~Loses("publish") /\ ~Loses("write")
  BY DEF ConfirmationsArrive, Loses
<1>5. pass'[p].pc \in Carrying \cup {"handover"} /\ pass'[p].r = r
  BY DEF Carries
<1>6. CASE ClaimSlot(p)
  <2>1. /\ pass[p].pc = "claim" /\ SameClaim(p) /\ pass'[p].pc = "isFrozen2"
        /\ <<pass[p].r, pass[p].n>> \in slots'
    BY <1>1, <1>2, <1>5, <1>6 DEF ClaimSlot, At, Carrying
  <2>2. Fresh(p, r)
    BY <2>1 DEF Carries, SameClaim, Fresh, Claiming
  <2>3. pass[p].n = owner[r].n /\ pass[p].r = r
    BY <2>2, CarriesOwn DEF Fresh
  <2> QED BY <2>1, <2>3
<1>7. CASE RecheckFrozen(p)
  <2>1. pass[p].pc = "isFrozen2" /\ SameClaim(p) /\ pass'[p].pc # "handover"
    BY <1>1, <1>2, <1>7 DEF RecheckFrozen, At
  <2> QED BY <2>1 DEF Carries, SameClaim, Carrying
<1>8. CASE Reread(p)
  <2>1. pass[p].pc = "reread" /\ SameClaim(p) /\ pass'[p].pc # "handover"
    BY <1>1, <1>8 DEF Reread, At
  <2> QED BY <2>1 DEF Carries, SameClaim, Carrying
<1>9. CASE Confirm(p)
  <2>1. /\ pass[p].pc = "confirm"
        /\ pass' = [pass EXCEPT ![p].sent = TRUE,
              ![p].pc = IF Confirmable(p) THEN "handover" ELSE "regone"]
    BY <1>4, <1>9 DEF Confirm, At
  <2>2. Confirmable(p) /\ pass'[p].r = pass[p].r
    BY <1>0, <1>5, <2>1 DEF Carrying, PassType
  <2>3. pass[p].age < Lease
    BY <1>0, <2>2 DEF Confirmable, ClaimLapsed
  <2> QED BY <1>5, <2>1, <2>2, <2>3 DEF Carries, Carrying
<1>10. ~Nominate(p)
  <2>1. pass' # [pass EXCEPT ![p].pc = "isFrozen", ![p].thaw = TRUE]
    BY <1>0, <1>5 DEF Carrying, PassType
  <2> QED BY <1>1, <1>2, <1>5, <2>1 DEF Nominate, Carrying
<1>11. ~ReturnConfirm(p)
  <2>1. pass' # [pass EXCEPT ![p].pc = "returnWrite", ![p].sent = TRUE]
    BY <1>0, <1>5 DEF Carrying, PassType
  <2> QED BY <1>3, <1>4, <2>1 DEF ReturnConfirm
<1>12. ~Judge(p)
  BY <1>1, <1>2, <1>5 DEF Judge, Carrying
<1>13. ~CheckFrozen(p)
  BY <1>1, <1>2, <1>5 DEF CheckFrozen, Carrying
<1>14. ~RereadRefused(p) /\ ~GoneClock(p)
  BY <1>1, <1>3, <1>5 DEF RereadRefused, GoneClock, Carrying
<1>15. ~ReleaseFrozen(p) /\ ~GoneRelease(p) /\ ~HandOver(p) /\ ~ReturnWrite(p)
  BY <1>2, <1>3, <1>4 DEF ReleaseFrozen, GoneRelease, HandOver, ReturnWrite
<1> QED BY <1>6, <1>7, <1>8, <1>9, <1>10, <1>11, <1>12, <1>13, <1>14, <1>15
    DEF PassStep

\* A pass gives back the slot of r only when r does not need it.
LEMMA PassGivesBack ==
  ASSUME TypeOK, LeaseInv, ReleasesInTime, SlotInv, NEW p \in Passes,
         PassStep(p), NEW r \in Requests, owner[r].phase \in Active,
         <<r, owner[r].n>> \in slots, <<r, owner[r].n>> \notin slots'
  PROVE  /\ Phase(r, "waiting") /\ Fresh(p, r) /\ Catch(p)
         /\ ready' = ready
<1>0. Leased(r) /\ pass \in [Passes -> PassType]
  BY DEF LeaseInv, TypeOK, PassOK
<1>1. ReleaseFrozen(p) \/ GoneRelease(p)
  BY DEF PassStep, Judge, Nominate, CheckFrozen, ClaimSlot, RecheckFrozen,
         ReleaseFrozen, Reread, Confirm, RereadRefused, GoneClock,
         GoneRelease, HandOver, ReturnConfirm, ReturnWrite
<1>2. pass[p].r = r
  BY <1>1 DEF ReleaseFrozen, GoneRelease
<1>3. ~GoneRelease(p)
  BY <1>0, <1>2 DEF GoneRelease, At, Leased, FindsGone
<1>4. /\ ReleaseFrozen(p) /\ pass[p].pc = "release" /\ Catch(p)
      /\ ready' = ready
  BY <1>1, <1>3 DEF ReleaseFrozen, At
<1>5. pass[p].age < Lease
  BY <1>4 DEF SlotInv
<1>6. Fresh(p, r)
  BY <1>2, <1>4, <1>5 DEF Fresh, Claiming
<1> QED BY <1>0, <1>4, <1>6, CarriesOwn

\* So whatever a pass does, who needs a slot has it.
LEMMA PassCounted ==
  ASSUME TypeOK, ConfirmationsArrive, LeaseInv, ReleasesInTime, SlotInv,
         NEW p \in Passes, PassStep(p), NEW r \in Requests,
         owner[r].phase \in Active
  PROVE  Counted(r)'
<1>0. /\ Leased(r) /\ Counted(r) /\ pass \in [Passes -> PassType]
      /\ pass[p].pc \in Claiming => ~pass[p].sent
  BY DEF LeaseInv, SlotInv, TypeOK, PassOK
<1>1. /\ owner' = owner /\ completions' = completions
      /\ \A q \in Passes : q # p => pass'[q] = pass[q]
  BY PassAlone
<1>2. \A q \in Passes : q # p => (Carries(q, r)' <=> Carries(q, r))
  BY <1>1 DEF Carries
<1>3. SUFFICES ASSUME NeedsSlot(r)', <<r, owner[r].n>> \notin slots'
               PROVE  FALSE
  BY <1>0, <1>1 DEF Counted
<1>4. \A m \in ready' \ ready : m.r = r => Carries(p, r)
  BY <1>0, PassKinds
  DEF GoesOn, Confirms, LosesClaim, ClearsUp, Tells, WritesBack, Carries
<1>5. Carries(p, r)' => Carries(p, r)
  BY <1>0, <1>3, CarriesTaken
<1>6. NeedsSlot(r)
  BY <1>1, <1>2, <1>3, <1>4, <1>5, CarriesOwn, <1>0 DEF NeedsSlot, Phase
<1>7. Phase(r, "waiting") /\ Fresh(p, r) /\ Catch(p) /\ ready' = ready
  BY <1>0, <1>3, <1>6, PassGivesBack DEF Counted
<1>8. ~Carries(p, r)'
  BY <1>0, <1>7 DEF Catch, Carries, Carrying
<1>9. OneAdmission(r)
  BY <1>0, <1>7 DEF Leased
<1>10. /\ entry[r].claim # NoClaim
       /\ \A q \in Passes : q # p => ~Carries(q, r)
  <2>1. entry[r].claim # NoClaim
    BY <1>7, <1>9 DEF OneAdmission, TypeOK, PassOK, PassType, NoClaim
  <2>2. \A q \in Passes : ~Holds(q, r) /\ (Fresh(q, r) => q = p)
    BY <1>7, <1>9, <2>1 DEF OneAdmission
  <2> QED BY <2>1, <2>2
      DEF Carries, Fresh, Holds, Carrying, Claiming, Confirmed
<1>11. \A m \in ready : m.r # r
  BY <1>9, <1>10 DEF OneAdmission
<1> QED BY <1>1, <1>2, <1>3, <1>7, <1>8, <1>10, <1>11 DEF NeedsSlot, Phase

\* A selected request is not carried yet.
LEMMA SelectCounted ==
  ASSUME TypeOK, SlotInv, NEW p \in Passes, Select(p), NEW r \in Requests,
         owner[r].phase \in Active
  PROVE  Counted(r)'
<1>1. /\ owner' = owner /\ completions' = completions /\ slots' = slots
      /\ ready' = ready
      /\ \A q \in Passes : q # p => pass'[q] = pass[q]
  BY PassAlone DEF Select
<1>2. pass'[p].pc \in {"judge", "idle"}
  <2>1. pass \in [Passes -> PassType]
    BY DEF TypeOK, PassOK
  <2>2. PICK s \in Requests, b \in BOOLEAN :
          \/ pass' = [pass EXCEPT ![p] =
                 [IdlePass EXCEPT !.pc = "judge", !.r = s,
                     !.n = entry[s].retries, !.thaw = b]]
          \/ pass' = pass
    BY DEF Select
  <2>3. pass[p].pc = "idle"
    BY DEF Select, At
  <2> QED BY <2>1, <2>2, <2>3 DEF IdlePass
<1>3. \A q \in Passes : Carries(q, r)' => Carries(q, r)
  BY <1>1, <1>2 DEF Carries, Carrying
<1> QED BY <1>1, <1>3 DEF SlotInv, Counted, NeedsSlot, Phase

\* The owner takes the slot of a fast attempt itself, and what it announces
\* gives back the slot of an attempt that is over.
LEMMA OwnerCounted ==
  ASSUME TypeOK, LeaseInv, SlotInv, NEW o \in Requests, OwnerStep(o),
         NEW r \in Requests, owner'[r].phase \in Active
  PROVE  Counted(r)'
<1>0. /\ owner \in [Requests -> OwnerType]
      /\ \A q \in Requests : owner[q].n \in Nat
      /\ pass' = pass /\ ready' = ready
  BY OwnerAlone, ConstantsAssumption
  DEF TypeOK, OwnerType, Attempts, ConstantsAssumption
<1>1. \A q \in Passes : Carries(q, r)' <=> Carries(q, r)
  BY <1>0 DEF Carries
<1>2. slots \subseteq slots'
  BY DEF OwnerStep, FastAdmit, Enqueue, AddRequest, FlipToPending, Abandon,
         Finish, StreamHeaders, StreamEnd
<1>3. CASE r # o
  <2>1. owner'[r] = owner[r]
    BY <1>3, OwnerAlone
  <2>2. \A c \in completions' : c.r = r => c \in completions
    BY <1>3, OwnerAlone
  <2> QED BY <1>0, <1>1, <1>2, <2>1, <2>2
      DEF SlotInv, Counted, NeedsSlot, Phase
<1>4. CASE r = o
  <2>1. CASE owner[r].phase \in Active \ {"running", "waiting"}
    <3>1. Leased(r) /\ Counted(r) /\ Calm(r)
      BY <2>1 DEF LeaseInv, SlotInv, Leased, Phase
    <3>2. /\ \A q \in Passes : ~Carries(q, r)
          /\ \A m \in ready : m.r # r
      BY <3>1
      DEF Calm, Carries, Fresh, Holds, Carrying, Claiming, Confirmed
    <3>3. CASE FastAdmit(r)
      <4>1. /\ <<r, owner[r].n>> \in slots' /\ owner'[r].n = owner[r].n
            /\ completions' = completions
        BY <1>0, <3>3 DEF FastAdmit, OwnerType
      <4> QED BY <3>1, <4>1 DEF Counted
    <3>4. CASE Enqueue(r) \/ AddRequest(r) \/ FlipToPending(r)
      <4>1. /\ owner'[r].phase \notin {"running", "streaming"}
            /\ owner'[r].n = owner[r].n /\ completions' = completions
        BY <1>0, <3>4 DEF Enqueue, AddRequest, FlipToPending, OwnerType
      <4> QED BY <1>0, <1>1, <3>1, <3>2, <4>1 DEF Counted, NeedsSlot
    <3>5. /\ ~Abandon(r) /\ ~StreamHeaders(r)
          /\ \A x \in Outcomes : ~Finish(r, x) /\ ~StreamEnd(r, x)
      BY <2>1, OverAfter DEF StreamHeaders, Finish, Phase
    <3> QED BY <1>4, <3>3, <3>4, <3>5 DEF OwnerStep
  <2>2. CASE owner[r].phase = "running"
    <3>1. Counted(r) /\ <<r, owner[r].n>> \in slots
      BY <2>2 DEF SlotInv, Active, Counted, NeedsSlot
    <3>2. CASE StreamHeaders(r)
      <4> DEFINE halves == IF owner[r].fast THEN {} ELSE {"queue", "thaw"}
                 new == Completion(r, "ok", TRUE, halves)
      <4>1. owner'[r].n = owner[r].n /\ Announce(new)
        BY <1>0, <3>2 DEF StreamHeaders, OwnerType
      <4>2. "slot" \notin new.steps
        BY DEF Completion
      <4> HIDE DEF new
      <4>3. \A c \in completions' : "slot" \in c.steps => c \in completions
        BY <4>1, <4>2 DEF Announce
      <4> QED BY <1>2, <3>1, <4>1, <4>3 DEF Counted
    <3>3. ASSUME NEW x \in Outcomes, Finish(r, x)
          PROVE  Counted(r)'
      <4>1. owner'[r].phase = "new" /\ owner'[r].n = owner[r].n + 1
        BY <1>0, <3>3 DEF Finish, OwnerType, Active
      <4>2. PICK final \in BOOLEAN :
              Announce(Completion(r, x, final, AllSteps))
        BY <3>3 DEF Finish
      <4> DEFINE new == Completion(r, x, final, AllSteps)
      <4>3. new.n = owner[r].n
        BY DEF Completion
      <4>4. \A c \in completions' : c \in completions \/ c = new
        BY <4>2 DEF Announce
      <4> HIDE DEF new
      <4>5. \A c \in completions' : (c.r = r /\ "slot" \in c.steps) =>
               c.n < owner[r].n + 1
        <5>1. ASSUME NEW c \in completions, c.r = r, "slot" \in c.steps
              PROVE  c.n < owner[r].n + 1
          <6>1. c.n < owner[r].n /\ c.n \in Nat
            BY <3>1, <5>1 DEF Counted, TypeOK, CompletionType, Attempts
          <6> QED BY <1>0, <6>1
        <5> QED BY <1>0, <4>3, <4>4, <5>1
      <4> QED BY <4>1, <4>5 DEF Counted, NeedsSlot, Phase
    <3>4. /\ ~Abandon(r) /\ ~FastAdmit(r) /\ ~Enqueue(r) /\ ~AddRequest(r)
          /\ ~FlipToPending(r) /\ \A x \in Outcomes : ~StreamEnd(r, x)
      BY <2>2
      DEF Abandon, FastAdmit, Enqueue, AddRequest, FlipToPending, StreamEnd,
          Phase
    <3> QED BY <1>4, <3>2, <3>3, <3>4 DEF OwnerStep
  <2>3. owner[r].phase \in Active \ {"waiting"}
    BY <1>0, <1>4
    DEF OwnerStep, FastAdmit, Enqueue, AddRequest, FlipToPending, Abandon,
        Finish, StreamHeaders, StreamEnd, OwnerType, Active, Phase
  <2> QED BY <2>1, <2>2, <2>3
<1> QED BY <1>3, <1>4

\* The listener's attempt runs in the slot the pass carried.
LEMMA OnReadyCounted ==
  ASSUME TypeOK, LeaseInv, SlotInv, NEW m \in ready, OnReady(m),
         NEW r \in Requests, owner[r].phase \in Active
  PROVE  Counted(r)'
<1>0. /\ owner \in [Requests -> OwnerType] /\ m.r \in Requests
      /\ pass' = pass /\ slots' = slots /\ completions' = completions
      /\ ready' = ready \ {m} /\ Counted(r)
  BY DEF TypeOK, OnReady, SlotInv
<1>1. \A q \in Passes : Carries(q, r)' <=> Carries(q, r)
  BY <1>0 DEF Carries
<1>2. /\ owner'[r].n = owner[r].n
      /\ \/ owner'[r].phase = owner[r].phase
         \/ m.r = r /\ Phase(r, "waiting") /\ owner'[r].phase = "running"
  BY <1>0 DEF OnReady, OwnerType
<1>3. NeedsSlot(r)' => NeedsSlot(r)
  BY <1>0, <1>1, <1>2 DEF NeedsSlot, Phase
<1> QED BY <1>0, <1>2, <1>3 DEF Counted

\* A completion that still owes a step has the attempt it was announced with.
LEMMA ProgressOf ==
  ASSUME TypeOK, NEW c \in completions, DoneStep(c), NEW d \in completions'
  PROVE  \/ d \in completions
         \/ /\ d.r = c.r /\ d.n = c.n
            /\ d.steps \subseteq c.steps \cup {"thaw"}
<1>0. c \in CompletionType
  BY DEF TypeOK
<1>1. ASSUME NEW new, Progress(c, new), new.r = c.r, new.n = c.n,
             new.steps \subseteq c.steps \cup {"thaw"}
      PROVE  \/ d \in completions
             \/ /\ d.r = c.r /\ d.n = c.n
                /\ d.steps \subseteq c.steps \cup {"thaw"}
  BY <1>1 DEF Progress
<1>2. CASE DoneRemove(c)
  <2> DEFINE thaw == c.thaw \/ entry[c.r].thaw
             left == (c.steps \ {"queue"})
                        \cup (IF thaw THEN {"thaw"} ELSE {})
             new == [c EXCEPT !.thaw = thaw, !.steps = left]
  <2>1. Progress(c, new)
    BY <1>2 DEF DoneRemove
  <2>2. new.r = c.r /\ new.n = c.n /\ new.steps = left
    BY <1>0 DEF CompletionType
  <2>3. left \subseteq c.steps \cup {"thaw"}
    OBVIOUS
  <2> HIDE DEF new, left
  <2> QED BY <1>1, <2>1, <2>2, <2>3
<1>3. ASSUME NEW s, Progress(c, [c EXCEPT !.steps = @ \ {s}])
      PROVE  \/ d \in completions
             \/ /\ d.r = c.r /\ d.n = c.n
                /\ d.steps \subseteq c.steps \cup {"thaw"}
  <2> DEFINE new == [c EXCEPT !.steps = @ \ {s}]
  <2>1. new.r = c.r /\ new.n = c.n /\ new.steps = c.steps \ {s}
    BY <1>0 DEF CompletionType
  <2> HIDE DEF new
  <2>2. Progress(c, new)
    BY <1>3 DEF new
  <2> QED BY <1>1, <2>1, <2>2
<1>4. ASSUME NEW s, NEW v, Progress(c, [c EXCEPT !.steps = @ \ {s}, !.due = v])
      PROVE  \/ d \in completions
             \/ /\ d.r = c.r /\ d.n = c.n
                /\ d.steps \subseteq c.steps \cup {"thaw"}
  <2> DEFINE new == [c EXCEPT !.steps = @ \ {s}, !.due = v]
  <2>1. new.r = c.r /\ new.n = c.n /\ new.steps = c.steps \ {s}
    BY <1>0 DEF CompletionType
  <2> HIDE DEF new
  <2>2. Progress(c, new)
    BY <1>4 DEF new
  <2> QED BY <1>1, <2>1, <2>2
<1> QED BY <1>2, <1>3, <1>4 DEF DoneStep, DoneClock, DoneFreeze, DoneSlot, DoneThaw

\* A completion gives back the slot of its own attempt, which is over.
LEMMA DoneCounted ==
  ASSUME TypeOK, SlotInv, NEW c \in completions, DoneStep(c),
         NEW r \in Requests, owner[r].phase \in Active
  PROVE  Counted(r)'
<1>0. Counted(r) /\ pass' = pass /\ ready' = ready /\ owner' = owner
  BY DEF SlotInv, DoneStep, DoneRemove, DoneClock, DoneFreeze, DoneSlot, DoneThaw
<1>1. \A q \in Passes : Carries(q, r)' <=> Carries(q, r)
  BY <1>0 DEF Carries
<1>2. NeedsSlot(r)' <=> NeedsSlot(r)
  BY <1>0, <1>1 DEF NeedsSlot, Phase
<1>3. <<r, owner[r].n>> \in slots => <<r, owner[r].n>> \in slots'
  <2>1. CASE DoneSlot(c)
    <3>1. "slot" \in c.steps /\ slots' = slots \ {<<c.r, c.n>>}
      BY <2>1 DEF DoneSlot, NextStep
    <3>2. c.r = r => c.n < owner[r].n
      BY <1>0, <3>1 DEF Counted
    <3>3. c.n \in Nat /\ owner[r].n \in Nat
      BY DEF TypeOK, CompletionType, OwnerType, Attempts
    <3> QED BY <3>1, <3>2, <3>3
  <2> QED BY <2>1 DEF DoneStep, DoneRemove, DoneClock, DoneFreeze, DoneThaw
<1>4. \A d \in completions' : (d.r = r /\ "slot" \in d.steps) =>
         d.n < owner[r].n
  <2> SUFFICES ASSUME NEW d \in completions', d.r = r, "slot" \in d.steps
               PROVE  d.n < owner[r].n
    OBVIOUS
  <2> QED BY <1>0, ProgressOf DEF Counted
<1> QED BY <1>0, <1>2, <1>3, <1>4 DEF Counted

\* A claim that ages may cease to count, and none begins to.
LEMMA TickCounted ==
  ASSUME TypeOK, SlotInv, Tick, NEW r \in Requests, owner[r].phase \in Active
  PROVE  Counted(r)'
<1>0. /\ pass \in [Passes -> PassType] /\ Lease \in Nat
      /\ owner' = owner /\ ready' = ready
      /\ \A d \in completions' : \E c \in completions :
            d.r = c.r /\ d.n = c.n /\ d.steps = c.steps
      /\ slots' = slots /\ Counted(r)
  BY ConstantsAssumption, TickOwed
  DEF TypeOK, PassOK, Tick, ConstantsAssumption, SlotInv
<1>1. \A q \in Passes :
        /\ pass'[q].pc = pass[q].pc /\ pass'[q].r = pass[q].r
        /\ pass[q].age \in 0 .. Lease
        /\ pass[q].pc # "idle" => pass'[q].age = Aged(pass[q].age)
  BY <1>0 DEF Tick, PassType
<1>2. \A a \in 0 .. Lease : Aged(a) < Lease => a < Lease
  BY <1>0 DEF Aged, NoClaim
<1>3. \A q \in Passes : Carries(q, r)' => Carries(q, r)
  BY <1>1, <1>2 DEF Carries, Carrying
<1> QED BY <1>0, <1>3 DEF Counted, NeedsSlot, Phase

\* Iterations stay within their lease where the code is that prompt, and
\* elsewhere nothing freezes.
LEMMA TimelyKept ==
  ASSUME TypeOK, ConfirmationsArrive, LeaseInv, ReleasesInTime, SlotInv, Next
  PROVE  /\ PromptPasses =>
              \A p \in Passes : pass'[p].pc # "idle" => pass'[p].age < Lease
         /\ ~PromptPasses =>
              /\ ~Frozen' /\ \A p \in Passes : pass'[p].pc # "release"
              /\ \A c \in completions' : "freeze" \notin c.steps
<1>0. /\ pass \in [Passes -> PassType] /\ Lease \in Nat \ {0}
      /\ PromptPasses \in BOOLEAN /\ freeze.left \in Nat
  BY ConstantsAssumption
  DEF TypeOK, PassOK, ConstantsAssumption, FreezeType
<1>1. ASSUME NEW p \in Passes, Select(p)
      PROVE  /\ \A q \in Passes : q # p => pass'[q] = pass[q]
             /\ \/ pass'[p].pc = "idle"
                \/ pass'[p].pc = "judge" /\ pass'[p].age = 0
             /\ freeze' = freeze /\ completions' = completions
  <2>1. PICK s \in Requests, b \in BOOLEAN :
          \/ pass' = [pass EXCEPT ![p] =
                 [IdlePass EXCEPT !.pc = "judge", !.r = s,
                     !.n = entry[s].retries, !.thaw = b]]
          \/ pass' = pass
    BY <1>1 DEF Select
  <2>2. pass[p].pc = "idle" /\ freeze' = freeze
    BY <1>1 DEF Select, At
  <2>3. /\ \A q \in Passes : q # p => pass'[q] = pass[q]
        /\ completions' = completions
    BY <1>1, PassAlone
  <2>4. \/ pass'[p].pc = "idle"
        \/ pass'[p].pc = "judge" /\ pass'[p].age = 0
    <3>1. CASE pass' = pass
      BY <2>2, <3>1
    <3>2. CASE pass' # pass
      <4>1. pass'[p] = [IdlePass EXCEPT !.pc = "judge", !.r = s,
                           !.n = entry[s].retries, !.thaw = b]
        BY <1>0, <2>1, <3>2
      <4> QED BY <4>1 DEF IdlePass
    <3> QED BY <3>1, <3>2
  <2> QED BY <2>2, <2>3, <2>4
<1>2. ASSUME NEW p \in Passes, PassStep(p)
      PROVE  /\ \A q \in Passes : q # p => pass'[q] = pass[q]
             /\ pass[p].pc # "idle"
             /\ pass'[p].pc = "idle" \/ pass'[p].age = pass[p].age
             /\ pass'[p].pc = "release" => Frozen
             /\ freeze' = freeze /\ completions' = completions
  <2>1. freeze' = freeze
    BY <1>2
    DEF PassStep, Judge, Nominate, CheckFrozen, ClaimSlot, RecheckFrozen,
        ReleaseFrozen, Reread, Confirm, RereadRefused, GoneClock,
        GoneRelease, HandOver, ReturnConfirm, ReturnWrite
  <2>2. /\ pass[p].pc # "idle"
        /\ pass'[p].pc = "idle" \/ pass'[p].age = pass[p].age
    BY <1>2, PassKinds
    DEF LeaseInv, GoesOn, Confirms, LosesClaim, ClearsUp, Tells, WritesBack,
        SameClaim, Claiming, IdlePass
  <2>3. pass'[p].pc = "release" => Frozen
    <3>1. ASSUME NEW pc, Goto(p, pc)
          PROVE  pass'[p].pc = pc
      BY <1>0, <3>1 DEF Goto, PassType
    <3>2. Catch(p) => pass'[p].pc # "release"
      BY <1>0 DEF Catch, PassType
    <3>3. EndPass(p) => pass'[p].pc # "release"
      BY <1>0 DEF EndPass, IdlePass
    <3>4. CASE Judge(p) \/ CheckFrozen(p) \/ ClaimSlot(p)
      BY <3>1, <3>2, <3>4 DEF Judge, CheckFrozen, ClaimSlot
    <3>5. CASE RecheckFrozen(p)
      BY <3>1, <3>2, <3>5 DEF RecheckFrozen
    <3>6. CASE Reread(p) \/ RereadRefused(p) \/ GoneClock(p) \/ GoneRelease(p)
      BY <3>1, <3>3, <3>6 DEF Reread, RereadRefused, GoneClock, GoneRelease
    <3>7. CASE ReleaseFrozen(p) \/ HandOver(p)
      BY <3>2, <3>3, <3>7 DEF ReleaseFrozen, HandOver
    <3>8. CASE Nominate(p)
      <4>1. CASE pass' = [pass EXCEPT ![p].pc = "isFrozen", ![p].thaw = TRUE]
        BY <1>0, <4>1 DEF PassType
      <4> QED BY <3>1, <3>2, <3>8, <4>1 DEF Nominate
    <3>9. CASE Confirm(p)
      <4>1. pass'[p].pc \in {"handover", "regone", "returnWrite"}
        BY <1>0, <3>9 DEF Confirm, PassType
      <4> QED BY <4>1
    <3>10. CASE ReturnConfirm(p)
      <4>1. pass'[p].pc = "returnWrite" \/ EndPass(p)
        BY <1>0, <3>10 DEF ReturnConfirm, PassType
      <4> QED BY <3>3, <4>1
    <3>11. CASE ReturnWrite(p)
      <4>1. pass'[p].pc = pass[p].pc \/ EndPass(p)
        BY <1>0, <3>11 DEF ReturnWrite, PassType
      <4> QED BY <3>3, <3>11, <4>1 DEF ReturnWrite, At
    <3> QED BY <1>2, <3>4, <3>5, <3>6, <3>7, <3>8, <3>9, <3>10,
               <3>11 DEF PassStep
  <2> QED BY <1>2, <2>1, <2>2, <2>3, PassAlone
<1>3. ASSUME NEW r \in Requests, OwnerStep(r)
      PROVE  /\ pass' = pass /\ freeze' = freeze
             /\ ~PromptPasses =>
                  \A c \in completions' : "freeze" \notin c.steps
  <2>1. pass' = pass /\ freeze' = freeze
    BY <1>3, OwnerAlone
    DEF OwnerStep, FastAdmit, Enqueue, AddRequest, FlipToPending, Abandon,
        Finish, StreamHeaders, StreamEnd
  <2>2. ASSUME ~PromptPasses, NEW x, NEW final, NEW halves, ~Freezes(x),
               Announce(Completion(r, x, final, halves))
        PROVE  \A c \in completions' : "freeze" \notin c.steps
    <3> DEFINE new == Completion(r, x, final, halves)
    <3>1. "freeze" \notin new.steps
      BY <2>2 DEF Completion
    <3>2. \A c \in completions' : c \in completions \/ c = new
      BY <2>2 DEF Announce
    <3> HIDE DEF new
    <3> QED BY <2>2, <3>1, <3>2 DEF SlotInv
  <2>3. ASSUME ~PromptPasses
        PROVE  \A c \in completions' : "freeze" \notin c.steps
    <3>1. \A x \in Outcomes \cup {"ok", "noAnswer"} : ~Freezes(x)
      BY <2>3 DEF ReleasesInTime, Freezes
    <3>2. CASE Abandon(r)
      BY <2>2, <2>3, <3>1, <3>2 DEF Abandon
    <3>3. ASSUME NEW x \in Outcomes, Finish(r, x)
          PROVE  \A c \in completions' : "freeze" \notin c.steps
      BY <2>2, <2>3, <3>1, <3>3 DEF Finish
    <3>4. CASE StreamHeaders(r)
      BY <2>2, <2>3, <3>1, <3>4 DEF StreamHeaders
    <3>5. ASSUME NEW x \in Outcomes, StreamEnd(r, x)
          PROVE  \A c \in completions' : "freeze" \notin c.steps
      BY <2>2, <2>3, <3>1, <3>5 DEF StreamEnd
    <3>6. CASE completions' = completions
      BY <2>3, <3>6 DEF SlotInv
    <3> QED BY <1>3, <3>2, <3>3, <3>4, <3>5, <3>6
        DEF OwnerStep, FastAdmit, Enqueue, AddRequest, FlipToPending
  <2> QED BY <2>1, <2>3
<1>4. ASSUME NEW m \in ready, OnReady(m)
      PROVE  pass' = pass /\ freeze' = freeze /\ completions' = completions
  BY <1>4 DEF OnReady
<1>5. ASSUME NEW c \in completions, DoneStep(c)
      PROVE  /\ pass' = pass
             /\ ~PromptPasses => freeze'.left = freeze.left
             /\ ~PromptPasses =>
                  \A d \in completions' : "freeze" \notin d.steps
  <2>1. pass' = pass
    BY <1>5 DEF DoneStep, DoneRemove, DoneClock, DoneFreeze, DoneSlot, DoneThaw
  <2>2. ~PromptPasses => \A d \in completions' : "freeze" \notin d.steps
    BY <1>5, ProgressOf DEF SlotInv
  <2>3. ~PromptPasses => ~DoneFreeze(c)
    BY <1>5 DEF SlotInv, DoneFreeze, NextStep
  <2>4. ~PromptPasses => freeze'.left = freeze.left
    BY <1>5, <2>3
    DEF DoneStep, DoneRemove, DoneClock, DoneSlot, DoneThaw, TypeOK, FreezeType
  <2> QED BY <2>1, <2>2, <2>4
<1>6. ASSUME Tick
      PROVE  /\ \A p \in Passes : pass'[p].pc = pass[p].pc
             /\ PromptPasses => \A p \in Passes :
                  pass[p].pc # "idle" => pass'[p].age < Lease
             /\ freeze.left = 0 => freeze'.left = 0
             /\ \A d \in completions' : \E c \in completions :
                   d.steps = c.steps
  <2>1. \A p \in Passes : pass[p] \in PassType
    BY <1>0
  <2>2. \A p \in Passes : pass[p].pc # "idle" =>
           pass'[p].age = Aged(pass[p].age) /\ pass[p].age \in 0 .. Lease
    BY <1>6, <2>1 DEF Tick, PassType
  <2>3. \A p \in Passes : pass'[p].pc = pass[p].pc
    BY <1>6, <2>1 DEF Tick, PassType
  <2>4. \A a \in 0 .. Lease : a + 1 < Lease => Aged(a) < Lease
    BY <1>0 DEF Aged, NoClaim
  <2>5. freeze.left = 0 => freeze'.left = 0
    BY <1>6 DEF Tick, MaxOf, TypeOK, FreezeType
  <2>6. \A d \in completions' : \E c \in completions : d.steps = c.steps
    BY <1>6, TickOwed
  <2> QED BY <1>6, <2>2, <2>3, <2>4, <2>5, <2>6 DEF Tick
<1>7. CASE PromptPasses
  BY <1>0, <1>1, <1>2, <1>3, <1>4, <1>5, <1>6, <1>7 DEF Next, SlotInv
<1>8. CASE ~PromptPasses
  <2>1. /\ ~Frozen /\ \A p \in Passes : pass[p].pc # "release"
        /\ \A c \in completions : "freeze" \notin c.steps
        /\ freeze.left = 0
    BY <1>0, <1>8 DEF SlotInv, Frozen
  <2>2. freeze'.left = 0 /\ \A p \in Passes : pass'[p].pc # "release"
    BY <1>1, <1>2, <1>3, <1>4, <1>5, <1>6, <1>8, <2>1 DEF Next
  <2>3. \A c \in completions' : "freeze" \notin c.steps
    BY <1>1, <1>2, <1>3, <1>4, <1>5, <1>6, <1>8, <2>1 DEF Next
  <2> QED BY <1>8, <2>2, <2>3 DEF Frozen
<1> QED BY <1>0, <1>7, <1>8

\* The invariant of the slots holds initially
LEMMA SlotInit == Init => SlotInv
<1> SUFFICES ASSUME Init PROVE SlotInv
  OBVIOUS
<1>1. \A p \in Passes : pass[p].pc = "idle"
  BY DEF Init, IdlePass
<1>2. \A r \in Requests : ~NeedsSlot(r)
  BY DEF Init, NeedsSlot, Phase
<1> QED BY <1>1, <1>2 DEF Init, SlotInv, Counted, Frozen, NoFreeze

\* and is kept by every step.
LEMMA SlotKept ==
  ASSUME TypeOK, ConfirmationsArrive, LeaseInv, ReleasesInTime, SlotInv,
         [Next]_vars
  PROVE  SlotInv'
<1>1. CASE UNCHANGED vars
  BY <1>1 DEF vars, SlotInv, Counted, NeedsSlot, Carries, Phase, Frozen
<1>2. ASSUME Next, NEW r \in Requests, owner'[r].phase \in Active
      PROVE  Counted(r)'
  <2>1. ASSUME NEW o \in Requests, OwnerStep(o)
        PROVE  Counted(r)'
    BY <1>2, <2>1, OwnerCounted
  <2>2. CASE ~OwnerStep(r)
    <3>1. owner[r].phase \in Active
      BY <1>2, <2>2, StaysActive
    <3>2. ASSUME NEW p \in Passes, PassStep(p)
          PROVE  Counted(r)'
      BY <3>1, <3>2, PassCounted
    <3>3. ASSUME NEW p \in Passes, Select(p)
          PROVE  Counted(r)'
      BY <3>1, <3>3, SelectCounted
    <3>4. ASSUME NEW m \in ready, OnReady(m)
          PROVE  Counted(r)'
      BY <3>1, <3>4, OnReadyCounted
    <3>5. ASSUME NEW c \in completions, DoneStep(c)
          PROVE  Counted(r)'
      BY <3>1, <3>5, DoneCounted
    <3>6. CASE Tick
      BY <3>1, <3>6, TickCounted
    <3> QED BY <1>2, <2>1, <3>2, <3>3, <3>4, <3>5, <3>6 DEF Next
  <2> QED BY <2>1, <2>2
<1>3. CASE Next
  BY <1>2, <1>3, TimelyKept DEF SlotInv
<1> QED BY <1>1, <1>3

\* The ledger's invariant, for behaviours in which no pass releases late.
THEOREM SlotInvariant ==
  ASSUME ConfirmationsArrive, ReleasesInTime
  PROVE  Spec => []SlotInv
<1>1. TypeOK /\ LeaseInv /\ SlotInv /\ [Next]_vars => SlotInv'
  BY SlotKept
<1> QED BY <1>1, SlotInit, LeaseInvariant, TypeCorrect, PTL DEF Spec

\* Every attempt in flight holds its slot to its end: neither a completion of
\* an earlier attempt nor a pass that finds the entry gone or the client frozen
\* (processRequests, releaseGoneClaim, tryAcquireTurn) gives it away, as long
\* as a pass that finds the client frozen does so within its lease.
THEOREM RunningStaysInLedger ==
  ASSUME ConfirmationsArrive, ReleasesInTime
  PROVE  Spec => []RunningHoldsSlot
<1>1. SlotInv => RunningHoldsSlot
  BY DEF SlotInv, Counted, NeedsSlot, RunningHoldsSlot, Active
<1> QED BY <1>1, SlotInvariant, PTL

---------------------------------------------------------------------------
(* A freeze holds back what was judged after it.                           *)

\* A pass that judged since the freeze was armed did so past its window, and
\* nobody owes probes beside a request it admits as anything else.
Heeded(p) ==
    (pass[p].pc \in Admitting /\ p \notin overtaken) =>
        /\ freeze.left = 0
        /\ pass[p].pc # "nominate" /\ ~pass[p].thaw => freeze.thawCount = 0

\* A pass that goes on admitting is marked as it was.
LEMMA PassMarked ==
  ASSUME TypeOK, NEW q \in Passes, PassStep(q), NEW p \in Passes
  PROVE  (p # q \/ pass'[q].pc \in Admitting) =>
            (p \in overtaken' <=> p \in overtaken)
<1>0. pass \in [Passes -> PassType]
  BY DEF TypeOK, PassOK
<1>1. \A pc : Goto(q, pc) => overtaken' = overtaken
  BY DEF Goto
<1>2. /\ Catch(q) => overtaken' = overtaken \ {q} /\ pass'[q].pc \notin Admitting
      /\ EndPass(q) => overtaken' = overtaken \ {q} /\ pass'[q].pc \notin Admitting
  BY <1>0 DEF Catch, EndPass, GivesUp, IdlePass, PassType, Admitting
<1>3. CASE Judge(q) \/ CheckFrozen(q) \/ ClaimSlot(q) \/ Reread(q)
           \/ RereadRefused(q) \/ GoneClock(q) \/ GoneRelease(q)
           \/ HandOver(q) \/ ReleaseFrozen(q)
  BY <1>1, <1>2, <1>3
  DEF Judge, CheckFrozen, ClaimSlot, Reread, RereadRefused, GoneClock,
      GoneRelease, HandOver, ReleaseFrozen
<1>4. CASE Nominate(q)
  BY <1>1, <1>2, <1>4 DEF Nominate
<1>5. CASE RecheckFrozen(q)
  BY <1>1, <1>2, <1>5 DEF RecheckFrozen
<1>6. CASE Confirm(q)
  <2>1. /\ overtaken' = overtaken \ {q}
        /\ pass'[q].pc \in {"handover", "regone", "returnWrite"}
    BY <1>0, <1>6 DEF Confirm, GivesUp, PassType
  <2> QED BY <2>1 DEF Admitting
<1>7. CASE ReturnConfirm(q)
  <2>1. /\ overtaken' = overtaken \ {q}
        /\ pass'[q].pc = "returnWrite" \/ EndPass(q)
    BY <1>0, <1>7 DEF ReturnConfirm, GivesUp, PassType
  <2> QED BY <1>2, <2>1 DEF Admitting
<1>8. CASE ReturnWrite(q)
  <2>1. \/ EndPass(q)
        \/ overtaken' = overtaken \ {q} /\ pass'[q].pc = "returnWrite"
    BY <1>0, <1>8 DEF ReturnWrite, GivesUp, PassType, At
  <2> QED BY <1>2, <2>1 DEF Admitting
<1> QED BY <1>3, <1>4, <1>5, <1>6, <1>7, <1>8 DEF PassStep

\* Its own step leaves a pass as heedful as it was.
LEMMA HeededStep ==
  ASSUME TypeOK, NEW p \in Passes, PassStep(p), Heeded(p), freeze' = freeze
  PROVE  Heeded(p)'
<1> SUFFICES ASSUME pass'[p].pc \in Admitting, p \notin overtaken'
             PROVE  /\ freeze.left = 0
                    /\ pass'[p].pc # "nominate" /\ ~pass'[p].thaw
                           => freeze.thawCount = 0
  BY DEF Heeded
<1>0. /\ pass \in [Passes -> PassType] /\ freeze.thawCount \in Nat
      /\ freeze.left \in Nat /\ p \notin overtaken
      /\ pass'[p].pc \notin {"idle", "judge", "release", "regone", "gone",
            "goneRelease", "handover", "returnConfirm", "returnWrite"}
  BY ConstantsAssumption, PassMarked
  DEF TypeOK, PassOK, FreezeType, ConstantsAssumption, Admitting
<1>1. ASSUME NEW pc, Goto(p, pc)
      PROVE  pass'[p].pc = pc /\ pass'[p].thaw = pass[p].thaw
  BY <1>0, <1>1 DEF Goto, PassType
<1>2. ~Catch(p) /\ ~EndPass(p)
  BY <1>0 DEF Catch, EndPass, IdlePass, PassType
<1>3. CASE Judge(p)
  <2>1. ~Frozen /\ (Thawing => pass'[p].pc = "nominate")
    BY <1>0, <1>1, <1>2, <1>3 DEF Judge
  <2> QED BY <1>0, <2>1 DEF Frozen, Thawing
<1>4. CASE Nominate(p)
  <2>1. pass' = [pass EXCEPT ![p].pc = "isFrozen", ![p].thaw = TRUE]
    BY <1>0, <1>1, <1>2, <1>4 DEF Nominate
  <2>2. pass'[p].thaw /\ pass[p].pc = "nominate"
    BY <1>0, <1>4, <2>1 DEF PassType, Nominate, At
  <2> QED BY <1>0, <2>2 DEF Heeded, Admitting
<1>5. CASE /\ pass[p].pc \in {"isFrozen", "claim", "isFrozen2", "reread"}
           /\ pass'[p].thaw = pass[p].thaw
  BY <1>0, <1>5 DEF Heeded, Admitting
<1>6. CASE CheckFrozen(p)
  BY <1>1, <1>2, <1>5, <1>6 DEF CheckFrozen, At
<1>7. CASE ClaimSlot(p)
  BY <1>1, <1>2, <1>5, <1>7 DEF ClaimSlot, At
<1>8. CASE RecheckFrozen(p)
  BY <1>1, <1>2, <1>5, <1>8 DEF RecheckFrozen, At
<1>9. CASE Reread(p)
  BY <1>1, <1>2, <1>5, <1>9 DEF Reread, At
<1>10. ~Confirm(p)
  BY <1>0 DEF Confirm, PassType
<1>11. ~RereadRefused(p) /\ ~GoneClock(p)
  BY <1>0, <1>1, <1>2 DEF RereadRefused, GoneClock
<1>12. ~ReleaseFrozen(p) /\ ~GoneRelease(p) /\ ~HandOver(p)
  BY <1>2 DEF ReleaseFrozen, GoneRelease, HandOver
<1>13. ~ReturnConfirm(p)
  BY <1>0, <1>2 DEF ReturnConfirm, PassType
<1>14. ~ReturnWrite(p)
  BY <1>0, <1>2 DEF ReturnWrite, At, PassType
<1> QED BY <1>3, <1>4, <1>6, <1>7, <1>8, <1>9, <1>10, <1>11, <1>12, <1>13,
           <1>14 DEF PassStep

\* No step makes a pass forget a freeze.
LEMMA HeededKept ==
  ASSUME TypeOK, [Next]_vars, NEW p \in Passes, Heeded(p)
  PROVE  Heeded(p)'
<1>0. /\ pass \in [Passes -> PassType]
      /\ freeze.left \in Nat /\ freeze.thawCount \in Nat
  BY ConstantsAssumption
  DEF TypeOK, PassOK, FreezeType, ConstantsAssumption
<1>1. CASE /\ pass'[p] = pass[p] /\ freeze' = freeze
           /\ p \in overtaken' <=> p \in overtaken
  BY <1>1 DEF Heeded
<1>2. ASSUME NEW q \in Passes, Select(q)
      PROVE  Heeded(p)'
  <2>1. PICK s \in Requests, b \in BOOLEAN :
          \/ pass' = [pass EXCEPT ![q] =
                 [IdlePass EXCEPT !.pc = "judge", !.r = s,
                     !.n = entry[s].retries, !.thaw = b]]
          \/ pass' = pass
    BY <1>2 DEF Select
  <2>2. freeze' = freeze /\ overtaken' = overtaken
    BY <1>2 DEF Select
  <2>3. pass'[p] = pass[p] \/ pass'[p].pc = "judge"
    BY <1>0, <2>1 DEF IdlePass
  <2> QED BY <1>1, <2>2, <2>3 DEF Heeded, Admitting
<1>3. ASSUME NEW q \in Passes, PassStep(q)
      PROVE  Heeded(p)'
  <2>1. freeze' = freeze
    BY <1>3
    DEF PassStep, Judge, Nominate, CheckFrozen, ClaimSlot, RecheckFrozen,
        ReleaseFrozen, Reread, Confirm, RereadRefused, GoneClock,
        GoneRelease, HandOver, ReturnConfirm, ReturnWrite
  <2>2. CASE q # p
    BY <1>1, <1>3, <2>1, <2>2, PassAlone, PassMarked
  <2>3. CASE q = p
    BY <1>3, <2>1, <2>3, HeededStep
  <2> QED BY <2>2, <2>3
<1>4. ASSUME NEW r \in Requests, OwnerStep(r)
      PROVE  Heeded(p)'
  <2>1. freeze' = freeze /\ overtaken' = overtaken
    BY <1>4
    DEF OwnerStep, FastAdmit, Enqueue, AddRequest, FlipToPending, Abandon,
        Finish, StreamHeaders, StreamEnd
  <2> QED BY <1>1, <1>4, <2>1, OwnerAlone
<1>5. ASSUME NEW m \in ready, OnReady(m)
      PROVE  Heeded(p)'
  BY <1>1, <1>5 DEF OnReady
<1>6. ASSUME NEW c \in completions, DoneStep(c)
      PROVE  Heeded(p)'
  <2>1. pass' = pass
    BY <1>6 DEF DoneStep, DoneRemove, DoneClock, DoneFreeze, DoneSlot, DoneThaw
  <2>2. CASE DoneFreeze(c)
    BY <2>1, <2>2 DEF DoneFreeze, Heeded
  <2>3. CASE DoneThaw(c)
    <3>1. /\ freeze'.left = freeze.left /\ overtaken' = overtaken
          /\ freeze.thawCount = 0 => freeze'.thawCount = 0
      BY <1>0, <2>3 DEF DoneThaw, MaxOf, TypeOK, FreezeType
    <3> QED BY <2>1, <3>1 DEF Heeded
  <2>4. CASE DoneRemove(c) \/ DoneClock(c) \/ DoneSlot(c)
    BY <1>1, <2>1, <2>4 DEF DoneRemove, DoneClock, DoneSlot
  <2> QED BY <1>6, <2>2, <2>3, <2>4 DEF DoneStep
<1>7. CASE Tick
  <2>1. /\ pass'[p].pc = pass[p].pc /\ pass'[p].thaw = pass[p].thaw
        /\ overtaken' = overtaken
    BY <1>0, <1>7 DEF Tick, PassType
  <2>2. /\ freeze'.thawCount = freeze.thawCount
        /\ freeze'.left = MaxOf(0, freeze.left - 1)
    BY <1>7 DEF Tick, TypeOK, FreezeType
  <2> QED BY <1>0, <2>1, <2>2 DEF Heeded, MaxOf
<1>8. CASE UNCHANGED vars
  BY <1>1, <1>8 DEF vars
<1> QED BY <1>2, <1>3, <1>4, <1>5, <1>6, <1>7, <1>8 DEF Next

\* It holds in every behaviour.
LEMMA HeededAlways == Spec => [](\A p \in Passes : Heeded(p))
<1> DEFINE Inv == \A p \in Passes : Heeded(p)
<1>1. Init => Inv
  BY DEF Init, Heeded, IdlePass, Admitting
<1>2. TypeOK /\ Inv /\ [Next]_vars => Inv'
  <2> SUFFICES ASSUME TypeOK, Inv, [Next]_vars
               PROVE  \A p \in Passes : Heeded(p)'
    OBVIOUS
  <2> QED BY HeededKept
<1> HIDE DEF Inv
<1>3. Spec => []Inv
  BY <1>1, <1>2, TypeCorrect, PTL DEF Spec
<1> QED BY <1>3 DEF Inv

\* Only its own step takes a pass from a confirmation to a hand-over.
LEMMA ConfirmingStep ==
  ASSUME TypeOK, Next, NEW p \in Passes, pass[p].pc = "confirm",
         pass'[p].pc = "handover"
  PROVE  PassStep(p)
<1>1. pass \in [Passes -> PassType] /\ pass'[p].pc # pass[p].pc
  BY DEF TypeOK, PassOK
<1>2. ASSUME NEW q \in Passes, Select(q) \/ PassStep(q)
      PROVE  q = p
  BY <1>1, <1>2, PassAlone
<1>3. ~Select(p)
  BY DEF Select, At
<1>4. ASSUME NEW r \in Requests, OwnerStep(r)
      PROVE  FALSE
  BY <1>1, <1>4, OwnerAlone
<1>5. ~Tick
  BY <1>1 DEF Tick, PassType
<1> QED BY <1>1, <1>2, <1>3, <1>4, <1>5
    DEF Next, OnReady, DoneStep, DoneRemove, DoneClock, DoneFreeze, DoneSlot, DoneThaw

\* A freeze holds back every request that is judged after it was armed, and every
\* one that a later look finds inside its window: for any lease and any length of
\* the window, and whatever replies are lost.
THEOREM ProbesGoFirst == Spec => FreezeHoldsBack
<1> DEFINE Inv == \A p \in Passes : Heeded(p)
           Held == \A p \in Passes :
              (/\ At(p, "confirm") /\ pass'[p].pc = "handover"
               /\ FreezeBlocksAdmission /\ p \notin overtaken)
              => Thawing /\ pass[p].thaw
<1>1. TypeOK /\ Inv /\ [Next]_vars => [Held]_vars
  <2> SUFFICES ASSUME TypeOK, Inv, NEW p \in Passes, At(p, "confirm"),
                      FreezeBlocksAdmission, p \notin overtaken
               PROVE  Thawing /\ pass[p].thaw
    OBVIOUS
  <2>1. Heeded(p)
    OBVIOUS
  <2>2. freeze.left = 0 /\ (~pass[p].thaw => freeze.thawCount = 0)
    BY <2>1 DEF Heeded, Admitting, At
  <2> QED BY <2>2, ConstantsAssumption
      DEF FreezeBlocksAdmission, Frozen, Thawing, TypeOK, FreezeType, PassOK,
          PassType, ConstantsAssumption
<1> HIDE DEF Inv
<1>2. Spec => []Inv
  BY HeededAlways DEF Inv
<1> QED BY <1>1, <1>2, TypeCorrect, PTL DEF Spec, FreezeHoldsBack

---------------------------------------------------------------------------
(* One probe at a time while probes are owed.                              *)

\* Somebody admits r, or runs it, as a probe.
Carried(r) ==
    \/ \E p \in Passes : (Fresh(p, r) \/ Holds(p, r)) /\ pass[p].thaw
    \/ \E m \in ready : m.r = r /\ m.thaw
    \/ Phase(r, "running") /\ ~owner[r].fast /\ owner[r].thaw

\* Whoever does has the mark on the entry, where a nomination looks for it.
Borne(r) == Carried(r) => Queued(r) /\ entry[r].thaw

\* Where a pass has been judged, and nominated where it had to be, and may still
\* confirm.
Judged == {"isFrozen", "claim", "isFrozen2", "reread", "confirm"}

\* A pass that was judged and can still confirm a request that waits.
Standing(p) ==
    /\ pass[p].pc \in Judged /\ pass[p].age < Lease
    /\ Phase(pass[p].r, "waiting")

\* It has the only probe.
Alone(p) ==
    /\ pass[p].thaw
    /\ \A o \in Requests \ {pass[p].r} : ~ProbeOut(o)
    /\ \A q \in Passes : Standing(q) /\ pass[q].thaw => pass[q].r = pass[p].r

\* While probes are owed, so does whoever was judged since they are.
ProbeInv ==
    /\ \A r \in Requests : owner[r].phase \in Active => Borne(r)
    /\ Thawing => \A p \in Passes : Standing(p) /\ p \notin overtaken => Alone(p)

\* A pass whose request was just made the probe: no other one competes.
Nominated(p) ==
    /\ At(p, "nominate") /\ Queued(pass[p].r)
    /\ pass' = [pass EXCEPT ![p].pc = "isFrozen", ![p].thaw = TRUE]
    /\ entry' = [entry EXCEPT ![pass[p].r].thaw = TRUE]
    /\ \A o \in Requests \ {pass[p].r} : ~CompetingProbe(o)

\* A pass gets the mark from a nomination only, and takes it off an entry only
\* when it writes that entry back.
LEMMA PassMarks ==
  ASSUME TypeOK, ConfirmationsArrive, NEW p \in Passes, PassStep(p),
         pass[p].pc \in Claiming => ~pass[p].sent
  PROVE  /\ freeze' = freeze
         /\ \A r \in Requests : r # pass[p].r => entry'[r] = entry[r]
         /\ \A r \in Requests : ~WritesBack(p) =>
               /\ Queued(r) => Queued(r)'
               /\ entry[r].thaw => entry'[r].thaw
         /\ \/ pass'[p].thaw = pass[p].thaw \/ Nominated(p)
            \/ pass'[p] = IdlePass
<1>0. /\ pass \in [Passes -> PassType] /\ pass[p] \in PassType
      /\ entry \in [Requests -> EntryType]
  BY DEF TypeOK, PassOK
<1>1. freeze' = freeze
  BY DEF PassStep, Judge, Nominate, CheckFrozen, ClaimSlot, RecheckFrozen,
         ReleaseFrozen, Reread, Confirm, RereadRefused, GoneClock,
         GoneRelease, HandOver, ReturnConfirm, ReturnWrite
<1>2. /\ \A r \in Requests : Unstamp(p)[r].status = entry[r].status
                              /\ Unstamp(p)[r].thaw = entry[r].thaw
      /\ \A r \in Requests : r # pass[p].r =>
            Unstamp(p)[r] = entry[r] /\ Returned(p)[r] = entry[r]
  BY <1>0 DEF Unstamp, Returned, EntryType
<1>3. /\ \A pc : Goto(p, pc) => pass'[p].thaw = pass[p].thaw
      /\ Catch(p) => pass'[p].thaw = pass[p].thaw
      /\ EndPass(p) => pass'[p] = IdlePass
  BY <1>0 DEF Goto, Catch, EndPass, PassType
<1>4. ~Loses("confirm") /\ ~Loses("publish") /\ ~Loses("write")
  BY DEF ConfirmationsArrive, Loses
<1>5. CASE Nominate(p)
  <2> DEFINE r == pass[p].r
             exists == \/ \E o \in Requests \ {r} : CompetingProbe(o)
                       \/ ~Queued(r)
  <2>1. /\ At(p, "nominate")
        /\ entry' = IF exists THEN entry ELSE [entry EXCEPT ![r].thaw = TRUE]
        /\ \/ IF exists THEN Goto(p, "returnConfirm")
              ELSE pass' = [pass EXCEPT ![p].pc = "isFrozen", ![p].thaw = TRUE]
           \/ Catch(p)
    BY <1>5 DEF Nominate
  <2>2. \A o \in Requests :
          /\ entry'[o].status = entry[o].status
          /\ entry[o].thaw => entry'[o].thaw
          /\ o # r => entry'[o] = entry[o]
    BY <1>0, <2>1 DEF EntryType
  <2>3. pass'[p].thaw = pass[p].thaw \/ Nominated(p)
    <3>1. CASE exists
      BY <1>3, <2>1, <3>1
    <3>2. CASE ~exists
      BY <1>3, <2>1, <3>2 DEF Nominated
    <3> QED BY <3>1, <3>2
  <2> QED BY <1>1, <2>2, <2>3 DEF Queued
<1>6. CASE entry' = entry /\ ((\E pc : Goto(p, pc)) \/ Catch(p) \/ EndPass(p))
  BY <1>1, <1>3, <1>6 DEF Queued
<1>7. CASE Confirm(p)
  <2>1. entry' = Unstamp(p) /\ pass'[p].thaw = pass[p].thaw
    BY <1>0, <1>4, <1>7 DEF Confirm, PassType
  <2> QED BY <1>1, <1>2, <2>1 DEF Queued
<1>8. CASE ReturnConfirm(p)
  <2>1. /\ entry' = Unstamp(p)
        /\ pass'[p].thaw = pass[p].thaw \/ pass'[p] = IdlePass
    BY <1>0, <1>3, <1>4, <1>8 DEF ReturnConfirm, PassType
  <2> QED BY <1>1, <1>2, <2>1 DEF Queued
<1>9. CASE ReturnWrite(p)
  <2>1. WritesBack(p) /\ entry' = Returned(p) /\ pass'[p] = IdlePass
    <3>1. pass'[p] = IdlePass /\ entry' = Returned(p) /\ ready' = ready
      BY <1>3, <1>4, <1>9 DEF ReturnWrite
    <3> QED BY <1>9, <3>1 DEF WritesBack, ReturnWrite, At
  <2> QED BY <1>1, <1>2, <2>1
<1>10. CASE \/ Judge(p) \/ CheckFrozen(p) \/ ClaimSlot(p) \/ RecheckFrozen(p)
            \/ ReleaseFrozen(p) \/ Reread(p) \/ RereadRefused(p)
            \/ GoneClock(p) \/ GoneRelease(p) \/ HandOver(p)
  BY <1>4, <1>6, <1>10
  DEF Judge, CheckFrozen, ClaimSlot, RecheckFrozen, ReleaseFrozen, Reread,
      RereadRefused, GoneClock, GoneRelease, HandOver
<1> QED BY <1>5, <1>7, <1>8, <1>9, <1>10 DEF PassStep

\* The mark stays on the entry of a request that a pass admits as a probe.
LEMMA PassBorne ==
  ASSUME TypeOK, ConfirmationsArrive, NEW p \in Passes, PassStep(p),
         pass[p].pc \in Claiming => ~pass[p].sent,
         NEW r \in Requests, Leased(r), Leased(r)', Borne(r)
  PROVE  Borne(r)'
<1>0. /\ r # 0 /\ IdlePass.r = 0 /\ owner' = owner
      /\ pass \in [Passes -> PassType] /\ pass[p] \in PassType
      /\ \A q \in Passes : q # p => pass'[q] = pass[q]
  BY PassAlone, ConstantsAssumption
  DEF TypeOK, PassOK, ConstantsAssumption, IdlePass, NoRequest
<1>1. SUFFICES ASSUME Carried(r)'
               PROVE  Queued(r)' /\ entry'[r].thaw
  BY DEF Borne
<1>2. CASE WritesBack(p) /\ pass[p].r = r
  <2>1. Phase(r, "waiting") /\ OneAdmission(r)
    BY <1>2 DEF WritesBack, Leased, Calm, Holds, Confirmed
  <2>2. OneAdmission(r)' /\ owner'[r].phase = "waiting"
    BY <1>0, <2>1 DEF Leased, Phase
  <2>3. entry'[r].status # "inProgress"
    BY <1>2 DEF WritesBack, Returned, TypeOK, EntryType, Queued
  <2>4. ~Carried(r)'
    BY <2>2, <2>3 DEF Carried, OneAdmission, Phase
  <2> QED BY <1>1, <2>4
<1>3. CASE ~(WritesBack(p) /\ pass[p].r = r)
  <2>1. /\ Queued(r) => Queued(r)'
        /\ entry[r].thaw => entry'[r].thaw
    BY <1>3, PassMarks DEF Queued
  <2>2. CASE Carried(r)
    BY <2>1, <2>2 DEF Borne
  <2>3. CASE Nominated(p) /\ pass[p].r = r
    BY <2>3 DEF Nominated, TypeOK, EntryType, Queued
  <2>4. CASE ~Carried(r) /\ ~(Nominated(p) /\ pass[p].r = r)
    <3>1. ASSUME NEW q \in Passes, (Fresh(q, r) \/ Holds(q, r))',
                 pass'[q].thaw
          PROVE  Carried(r)
      <4>1. CASE q # p
        BY <1>0, <3>1, <4>1 DEF Carried, Fresh, Holds
      <4>2. CASE q = p
        <5>1. pass'[p].r = r /\ pass'[p] # IdlePass
          BY <1>0, <3>1, <4>2 DEF Fresh, Holds
        <5>2. /\ pass[p].r = r
              /\ pass[p].pc \in Claiming \/ pass[p].pc \in Confirmed
              /\ pass'[p].age = pass[p].age
          BY <3>1, <4>2, <5>1, PassKinds
          DEF GoesOn, Confirms, LosesClaim, ClearsUp, Tells, WritesBack,
              SameClaim, Fresh, Holds, Claiming, Confirmed
        <5>3. pass[p].thaw
          BY <2>4, <3>1, <4>2, <5>1, <5>2, PassMarks
        <5>4. Fresh(p, r) \/ Holds(p, r)
          <6>1. CASE pass[p].pc \in Confirmed
            BY <5>2, <6>1 DEF Holds
          <6>2. CASE pass[p].pc \in Claiming /\ pass'[p].pc \in Claiming
            BY <3>1, <4>2, <5>2, <6>2
            DEF Fresh, Holds, Claiming, Confirmed
          <6>3. CASE pass[p].pc \in Claiming /\ pass'[p].pc \in Confirmed
            <7>1. Confirmable(p)
              BY <5>1, <6>3, PassKinds
              DEF GoesOn, Confirms, LosesClaim, ClearsUp, Tells, WritesBack,
                  Claiming, Confirmed
            <7>2. pass[p].age < Lease
              BY <1>0, <7>1, ConstantsAssumption
              DEF Confirmable, ClaimLapsed, PassType, ConstantsAssumption
            <7> QED BY <5>2, <6>3, <7>2 DEF Fresh
          <6> QED BY <3>1, <4>2, <5>2, <6>1, <6>2, <6>3 DEF Fresh, Holds
        <5> QED BY <5>3, <5>4 DEF Carried
      <4> QED BY <4>1, <4>2
    <3>2. ASSUME NEW m \in ready', m.r = r, m.thaw
          PROVE  Carried(r)
      <4>1. CASE m \in ready
        BY <3>2, <4>1 DEF Carried
      <4>2. CASE m \notin ready
        <5>1. /\ pass[p].pc = "handover"
              /\ m = [r |-> pass[p].r, n |-> pass[p].n, thaw |-> pass[p].thaw]
          BY <3>2, <4>2, PassKinds
          DEF GoesOn, Confirms, LosesClaim, ClearsUp, Tells, WritesBack
        <5>2. Holds(p, r) /\ pass[p].thaw
          BY <3>2, <5>1 DEF Holds, Confirmed
        <5> QED BY <5>2 DEF Carried
      <4> QED BY <4>1, <4>2
    <3>3. ~(Phase(r, "running") /\ ~owner[r].fast /\ owner[r].thaw)'
      BY <1>0, <2>4 DEF Carried, Phase
    <3> QED BY <1>1, <2>4, <3>1, <3>2, <3>3 DEF Carried
  <2> QED BY <2>2, <2>3, <2>4
<1> QED BY <1>2, <1>3

\* A selection hands the mark on, or takes it off with the claim that lapsed.
LEMMA SelectBorne ==
  ASSUME TypeOK, NEW p \in Passes, Select(p), NEW r \in Requests, Leased(r),
         Borne(r)
  PROVE  Borne(r)'
<1>0. /\ r # 0 /\ IdlePass.r = 0 /\ owner' = owner
      /\ pass \in [Passes -> PassType] /\ entry \in [Requests -> EntryType]
      /\ ready' = ready /\ pass[p].pc = "idle"
      /\ \A q \in Passes : q # p => pass'[q] = pass[q]
      /\ Lease \in Nat /\ Lease > 0
      /\ \A q \in Passes : pass[q].age \in 0 .. Lease
  <2>1. owner' = owner /\ \A q \in Passes : q # p => pass'[q] = pass[q]
    BY PassAlone
  <2>2. r # 0 /\ IdlePass.r = 0 /\ Lease \in Nat /\ Lease > 0
    BY ConstantsAssumption DEF ConstantsAssumption, IdlePass, NoRequest
  <2>3. /\ pass \in [Passes -> PassType] /\ entry \in [Requests -> EntryType]
        /\ ready' = ready /\ pass[p].pc = "idle"
    BY DEF TypeOK, PassOK, Select, At
  <2>4. \A q \in Passes : pass[q].age \in 0 .. Lease
    BY <2>3 DEF PassType
  <2> QED BY <2>1, <2>2, <2>3, <2>4
<1>1. PICK s \in Requests, b \in BOOLEAN :
        /\ Claimable(s)
        /\ entry' = [entry EXCEPT ![s].status = "inProgress",
                                  ![s].claim = 0, ![s].thaw = b]
        /\ \/ pass' = [pass EXCEPT ![p] =
                 [IdlePass EXCEPT !.pc = "judge", !.r = s,
                     !.n = entry[s].retries, !.thaw = b]]
           \/ pass' = pass
  BY <1>0 DEF Select, EntryType
<1>2. \/ pass'[p] = pass[p]
      \/ pass'[p].r = s /\ pass'[p].thaw = b
  BY <1>0, <1>1 DEF IdlePass
<1>3. ~Fresh(p, r) /\ ~Holds(p, r)
  BY <1>0 DEF Fresh, Holds, Claiming, Confirmed
<1>4. CASE r # s
  <2>1. entry'[r] = entry[r]
    BY <1>0, <1>1, <1>4
  <2>2. Carried(r)' => Carried(r)
    BY <1>0, <1>2, <1>3, <1>4 DEF Carried, Fresh, Holds, Phase
  <2> QED BY <2>1, <2>2 DEF Borne, Queued
<1>5. CASE r = s
  <2>1. Claimable(r) => entry[r].claim # NoClaim \/ entry[r].status = "pending"
    BY <1>0 DEF Claimable, ClaimLapsed, NoClaim
  <2>2. Phase(r, "waiting") /\ OneAdmission(r)
    BY <1>0, <1>1, <1>5, <2>1
    DEF Leased, Calm, Claimable, Queued, ClaimLapsed
  <2>3. /\ \A q \in Passes : ~Fresh(q, r) /\ ~Holds(q, r)
        /\ \A m \in ready : m.r # r
    <3>1. ASSUME NEW q \in Passes, Fresh(q, r)
          PROVE  FALSE
      BY <1>0, <1>1, <1>5, <2>2, <3>1
      DEF OneAdmission, Fresh, Claimable, ClaimLapsed
    <3>2. ~(entry[r].status = "inProgress" /\ entry[r].claim = NoClaim)
      BY <1>0, <1>1, <1>5 DEF Claimable, ClaimLapsed, NoClaim
    <3> QED BY <2>2, <3>1, <3>2 DEF OneAdmission
  <2>4. entry'[r].status = "inProgress" /\ entry'[r].thaw = b
    BY <1>0, <1>1, <1>5 DEF EntryType
  <2>5. ASSUME Carried(r)'
        PROVE  b
    <3>1. ~(Phase(r, "running"))'
      BY <1>0, <2>2 DEF Phase
    <3>2. PICK q \in Passes : (Fresh(q, r) \/ Holds(q, r))' /\ pass'[q].thaw
      BY <1>0, <2>3, <2>5, <3>1 DEF Carried
    <3>3. q = p /\ pass'[p] # pass[p]
      BY <1>0, <2>3, <3>2 DEF Fresh, Holds
    <3> QED BY <1>2, <3>2, <3>3
  <2> QED BY <2>4, <2>5 DEF Borne, Queued
<1> QED BY <1>4, <1>5

\* Nobody admits a request whose owner has just taken a step and is not done
\* with it, and only the fast path runs it without a notification.
LEMMA OwnerUncarried ==
  ASSUME TypeOK, NEW r \in Requests, OwnerStep(r),
         owner[r].phase \in Active => Leased(r), owner'[r].phase \in Active
  PROVE  /\ ~Carried(r)'
         /\ \A p \in Passes : ~Fresh(p, r)'
<1>0. owner \in [Requests -> OwnerType]
  BY DEF TypeOK
<1>1. \/ FastAdmit(r) \/ Enqueue(r) \/ AddRequest(r) \/ FlipToPending(r)
      \/ \E x \in Outcomes \ {"stream"} : Finish(r, x)
      \/ StreamHeaders(r)
  BY OverAfter DEF OwnerStep
<1>2. owner[r].phase # "waiting"
  BY <1>1
  DEF FastAdmit, Enqueue, AddRequest, FlipToPending, Finish, StreamHeaders,
      Phase
<1>3. owner[r].phase \in Active
  <2>1. CASE AddRequest(r)
    <3>1. owner[r].phase = "doneAdding" => owner'[r].phase = "done"
      BY <1>0, <2>1 DEF AddRequest, OwnerType
    <3> QED BY <2>1, <3>1 DEF AddRequest, Active
  <2>2. CASE FlipToPending(r)
    <3>1. owner[r].phase = "doneFlipping" => owner'[r].phase = "done"
      BY <1>0, <2>2 DEF FlipToPending, OwnerType
    <3> QED BY <2>2, <3>1 DEF FlipToPending, Active
  <2> QED BY <1>1, <2>1, <2>2
      DEF FastAdmit, Enqueue, Finish, StreamHeaders, Phase, Active
<1>4. /\ \A p \in Passes : ~Fresh(p, r)' /\ ~Holds(p, r)'
      /\ \A m \in ready' : m.r # r
  BY <1>2, <1>3, CalmOwner DEF Phase
<1>5. owner'[r].phase = "running" => owner'[r].fast
  <2>1. CASE FastAdmit(r)
    BY <1>0, <2>1 DEF FastAdmit, OwnerType
  <2>2. CASE Enqueue(r) \/ StreamHeaders(r)
    BY <1>0, <2>2 DEF Enqueue, StreamHeaders, OwnerType
  <2>3. CASE AddRequest(r)
    BY <1>0, <2>3 DEF AddRequest, OwnerType
  <2>4. CASE FlipToPending(r)
    BY <1>0, <2>4 DEF FlipToPending, OwnerType
  <2>5. ASSUME NEW x \in Outcomes \ {"stream"}, Finish(r, x)
        PROVE  owner'[r].phase # "running"
    BY <1>0, <2>5 DEF Finish, OwnerType
  <2> QED BY <1>1, <2>1, <2>2, <2>3, <2>4, <2>5
<1> QED BY <1>4, <1>5 DEF Carried, Phase

\* The owner that is told runs what the notification says.
LEMMA OnReadyBorne ==
  ASSUME TypeOK, NEW m \in ready, OnReady(m), NEW r \in Requests, Borne(r)
  PROVE  Borne(r)'
<1>0. /\ owner \in [Requests -> OwnerType] /\ pass' = pass /\ entry' = entry
      /\ ready' \subseteq ready
  BY DEF TypeOK, OnReady
<1>1. (Phase(r, "running") /\ ~owner[r].fast /\ owner[r].thaw)' =>
         \/ Phase(r, "running") /\ ~owner[r].fast /\ owner[r].thaw
         \/ m.r = r /\ m.thaw
  BY <1>0 DEF OnReady, Phase, OwnerType
<1>2. Carried(r)' => Carried(r)
  BY <1>0, <1>1 DEF Carried, Fresh, Holds
<1> QED BY <1>0, <1>2 DEF Borne, Queued

\* The controller removes no entry of a request that is admitted or runs.
LEMMA DoneBorne ==
  ASSUME TypeOK, NEW c \in completions, DoneStep(c), NEW r \in Requests,
         Leased(r), Borne(r)
  PROVE  Borne(r)'
<1>0. pass' = pass /\ ready' = ready /\ owner' = owner
  BY DEF DoneStep, DoneRemove, DoneClock, DoneFreeze, DoneSlot, DoneThaw
<1>1. Carried(r)' => Carried(r)
  BY <1>0 DEF Carried, Fresh, Holds, Phase
<1>2. CASE entry'[r] = entry[r]
  BY <1>1, <1>2 DEF Borne, Queued
<1>3. CASE entry'[r] # entry[r]
  <2>1. c.r = r /\ "queue" \in c.steps
    BY <1>3 DEF DoneStep, DoneRemove, DoneClock, DoneFreeze, DoneSlot, DoneThaw, TypeOK,
                NextStep
  <2>2. Phase(r, "streaming") /\ Calm(r)
    BY <2>1 DEF Leased, Phase
  <2> QED BY <1>1, <2>2 DEF Borne, Carried, Calm, Phase
<1> QED BY <1>2, <1>3

\* Time takes no mark away.
LEMMA TickBorne ==
  ASSUME TypeOK, Tick, NEW r \in Requests, Borne(r)
  PROVE  Borne(r)'
<1>0. /\ pass \in [Passes -> PassType] /\ entry \in [Requests -> EntryType]
      /\ Lease \in Nat /\ owner' = owner /\ ready' = ready
  BY ConstantsAssumption DEF TypeOK, PassOK, Tick, ConstantsAssumption
<1>1. entry'[r].status = entry[r].status /\ entry'[r].thaw = entry[r].thaw
  BY <1>0 DEF Tick, EntryType
<1>2. \A q \in Passes :
        /\ pass'[q].pc = pass[q].pc /\ pass'[q].r = pass[q].r
        /\ pass'[q].thaw = pass[q].thaw /\ pass[q].age \in 0 .. Lease
        /\ pass[q].pc # "idle" => pass'[q].age = Aged(pass[q].age)
  BY <1>0 DEF Tick, PassType
<1>3. \A a \in 0 .. Lease : Aged(a) < Lease => a < Lease
  BY <1>0 DEF Aged, NoClaim
<1>4. \A q \in Passes : /\ Fresh(q, r)' => Fresh(q, r)
                        /\ Holds(q, r)' => Holds(q, r)
  BY <1>2, <1>3 DEF Fresh, Holds, Claiming
<1>5. Carried(r)' => Carried(r)
  BY <1>0, <1>2, <1>4 DEF Carried, Phase
<1> QED BY <1>1, <1>5 DEF Borne, Queued

\* Every step keeps the marks of the probes that are admitted or run.
LEMMA BorneKept ==
  ASSUME TypeOK, ConfirmationsArrive, LeaseInv, LeaseInv', [Next]_vars,
         NEW r \in Requests, owner[r].phase \in Active => Borne(r),
         owner'[r].phase \in Active
  PROVE  Borne(r)'
<1>1. CASE UNCHANGED vars
  BY <1>1 DEF vars, Borne, Carried, Fresh, Holds, Phase, Queued
<1>2. CASE Next
  <2>1. ASSUME NEW o \in Requests, OwnerStep(o)
        PROVE  Borne(r)'
    <3>1. CASE r = o
      BY <2>1, <3>1, OwnerUncarried DEF LeaseInv, Borne
    <3>2. CASE r # o
      BY <2>1, <3>2, OwnerAlone
      DEF Borne, Carried, Fresh, Holds, Phase, Queued
    <3> QED BY <3>1, <3>2
  <2>2. CASE ~\E o \in Requests : OwnerStep(o)
    <3>1. owner[r].phase \in Active /\ Leased(r) /\ Borne(r) /\ Leased(r)'
      BY <1>2, <2>2, StaysActive DEF LeaseInv
    <3>2. ASSUME NEW p \in Passes, PassStep(p)
          PROVE  Borne(r)'
      BY <3>1, <3>2, PassBorne DEF LeaseInv
    <3>3. ASSUME NEW p \in Passes, Select(p)
          PROVE  Borne(r)'
      BY <3>1, <3>3, SelectBorne
    <3>4. ASSUME NEW m \in ready, OnReady(m)
          PROVE  Borne(r)'
      BY <3>1, <3>4, OnReadyBorne
    <3>5. ASSUME NEW c \in completions, DoneStep(c)
          PROVE  Borne(r)'
      BY <3>1, <3>5, DoneBorne
    <3>6. CASE Tick
      BY <3>1, <3>6, TickBorne
    <3> QED BY <1>2, <2>2, <3>2, <3>3, <3>4, <3>5, <3>6 DEF Next
  <2> QED BY <2>1, <2>2
<1> QED BY <1>1, <1>2

\* A pass gets past its judgement when nothing is frozen or owed, or as the
\* probe; from there it goes on as it was.
LEMMA JudgedStep ==
  ASSUME TypeOK, ConfirmationsArrive, NEW p \in Passes, PassStep(p),
         pass[p].pc \in Claiming => ~pass[p].sent,
         pass'[p].pc \in Judged
  PROVE  \/ ~Frozen /\ ~Thawing
         \/ Nominated(p)
         \/ /\ pass[p].pc \in Judged /\ SameClaim(p)
            /\ pass'[p].thaw = pass[p].thaw
<1>0. /\ pass \in [Passes -> PassType]
      /\ pass'[p] # IdlePass
      /\ pass'[p].pc \notin {"idle", "judge", "nominate", "regone", "gone",
            "goneRelease", "handover", "returnConfirm", "returnWrite"}
  BY DEF TypeOK, PassOK, Judged, IdlePass
<1>1. \A pc : Goto(p, pc) => pass'[p].pc = pc
  BY <1>0 DEF Goto, PassType
<1>2. ~Catch(p)
  BY <1>0 DEF Catch, PassType
<1>3. GoesOn(p)
  BY <1>0, PassKinds
  DEF Confirms, LosesClaim, ClearsUp, Tells, WritesBack, Confirmed
<1>4. pass[p].pc \notin {"release", "confirm", "returnConfirm"}
  <2>1. CASE ReleaseFrozen(p)
    BY <1>2, <2>1 DEF ReleaseFrozen
  <2>2. CASE Confirm(p)
    BY <1>0, <2>2 DEF Confirm, PassType
  <2>3. CASE ReturnConfirm(p)
    BY <1>0, <2>3 DEF ReturnConfirm, EndPass, PassType
  <2> QED BY <2>1, <2>2, <2>3
      DEF PassStep, Judge, Nominate, CheckFrozen, ClaimSlot, RecheckFrozen,
          Reread, RereadRefused, GoneClock, GoneRelease, HandOver,
          ReturnWrite, At
<1>5. CASE pass[p].pc = "judge"
  <2>1. Judge(p)
    BY <1>5
    DEF PassStep, Nominate, CheckFrozen, ClaimSlot, RecheckFrozen,
        ReleaseFrozen, Reread, Confirm, RereadRefused, GoneClock,
        GoneRelease, HandOver, ReturnConfirm, ReturnWrite, At
  <2> QED BY <1>0, <1>1, <1>2, <2>1 DEF Judge
<1>6. CASE pass[p].pc = "nominate"
  <2>1. Nominate(p)
    BY <1>6
    DEF PassStep, Judge, CheckFrozen, ClaimSlot, RecheckFrozen,
        ReleaseFrozen, Reread, Confirm, RereadRefused, GoneClock,
        GoneRelease, HandOver, ReturnConfirm, ReturnWrite, At
  <2> QED BY <1>0, <1>1, <1>2, <2>1 DEF Nominate, Nominated
<1>7. CASE pass[p].pc \in Judged
  <2>1. ~Nominated(p)
    BY <1>7 DEF Nominated, At, Judged
  <2> QED BY <1>0, <1>3, <1>7, <2>1, PassMarks DEF GoesOn
<1> QED BY <1>3, <1>4, <1>5, <1>6, <1>7 DEF GoesOn, Claiming, Judged

\* While probes are owed, a pass comes to stand only by a nomination.
LEMMA StandingAfter ==
  ASSUME TypeOK, ConfirmationsArrive, LeaseInv, Next, Thawing,
         NEW p \in Passes, Standing(p)'
  PROVE  \/ Nominated(p)
         \/ /\ Standing(p) /\ pass'[p].r = pass[p].r
            /\ pass'[p].thaw = pass[p].thaw
<1>0. /\ pass \in [Passes -> PassType] /\ owner \in [Requests -> OwnerType]
      /\ Lease \in Nat /\ pass[p].age \in 0 .. Lease
      /\ pass[p].pc # "idle" => pass[p].r \in Requests
      /\ Judged \subseteq Claiming /\ "idle" \notin Judged
  BY ConstantsAssumption
  DEF TypeOK, PassOK, PassType, ConstantsAssumption, Judged, Claiming
<1>1. CASE pass'[p] = pass[p] /\ owner' = owner
  BY <1>1 DEF Standing, Phase
<1>2. ASSUME NEW q \in Passes, Select(q)
      PROVE  pass'[p] = pass[p] /\ owner' = owner
  <2>1. PICK s \in Requests, b \in BOOLEAN :
          \/ pass' = [pass EXCEPT ![q] =
                 [IdlePass EXCEPT !.pc = "judge", !.r = s,
                     !.n = entry[s].retries, !.thaw = b]]
          \/ pass' = pass
    BY <1>2 DEF Select
  <2>2. pass'[p] = pass[p] \/ pass'[p].pc = "judge"
    BY <1>0, <2>1 DEF IdlePass
  <2> QED BY <1>2, <2>2 DEF Standing, Judged, Select
<1>3. ASSUME NEW q \in Passes, PassStep(q), q # p
      PROVE  pass'[p] = pass[p] /\ owner' = owner
  BY <1>3, PassAlone
<1>4. CASE PassStep(p)
  <2>1. \/ Nominated(p)
        \/ /\ pass[p].pc \in Judged /\ SameClaim(p)
           /\ pass'[p].thaw = pass[p].thaw
    BY <1>4, JudgedStep DEF Standing, LeaseInv
  <2>2. owner' = owner
    BY <1>4, PassAlone
  <2> QED BY <2>1, <2>2 DEF Standing, SameClaim, Phase
<1>5. ASSUME NEW o \in Requests, OwnerStep(o)
      PROVE  Standing(p) /\ pass' = pass
  <2> DEFINE r == pass[p].r
  <2>1. /\ pass' = pass /\ r \in Requests /\ owner'[r].phase = "waiting"
        /\ Fresh(p, r)'
    BY <1>0, <1>5, OwnerAlone DEF Standing, Phase, Fresh
  <2>2. r # o
    BY <1>5, <2>1, OwnerUncarried DEF LeaseInv, Active
  <2>3. owner'[r] = owner[r]
    BY <1>5, <2>1, <2>2, OwnerAlone
  <2> QED BY <2>1, <2>3 DEF Standing, Phase
<1>6. ASSUME NEW m \in ready, OnReady(m)
      PROVE  Standing(p) /\ pass' = pass
  <2>1. pass' = pass /\ pass[p].r \in Requests
    BY <1>0, <1>6 DEF OnReady, Standing
  <2>2. owner'[pass[p].r].phase = "waiting" =>
           owner[pass[p].r].phase = "waiting"
    BY <1>0, <1>6, <2>1 DEF OnReady, OwnerType
  <2> QED BY <2>1, <2>2 DEF Standing, Phase
<1>7. ASSUME NEW c \in completions, DoneStep(c)
      PROVE  pass'[p] = pass[p] /\ owner' = owner
  BY <1>7 DEF DoneStep, DoneRemove, DoneClock, DoneFreeze, DoneSlot, DoneThaw
<1>8. CASE Tick
  <2>1. /\ pass'[p].pc = pass[p].pc /\ pass'[p].r = pass[p].r
        /\ pass'[p].thaw = pass[p].thaw
        /\ pass[p].pc # "idle" => pass'[p].age = Aged(pass[p].age)
        /\ owner' = owner
    BY <1>0, <1>8 DEF Tick, PassType
  <2>2. Aged(pass[p].age) < Lease => pass[p].age < Lease
    BY <1>0 DEF Aged, NoClaim
  <2> QED BY <1>0, <2>1, <2>2 DEF Standing, Phase
<1> QED BY <1>1, <1>2, <1>3, <1>4, <1>5, <1>6, <1>7, <1>8 DEF Next

\* A probe goes out by a confirmation, on a claim that stands.
LEMMA OutAfter ==
  ASSUME TypeOK, ConfirmationsArrive, LeaseInv, Next, NEW o \in Requests,
         ProbeOut(o)'
  PROVE  \/ ProbeOut(o)
         \/ \E p \in Passes : pass[p].r = o /\ Standing(p) /\ pass[p].thaw
<1>0. /\ pass \in [Passes -> PassType] /\ owner \in [Requests -> OwnerType]
  BY DEF TypeOK, PassOK
<1>1. CASE /\ owner'[o] = owner[o] /\ ready' = ready
           /\ \A q \in Passes : pass'[q].pc = "handover" =>
                 /\ pass[q].pc = "handover" /\ pass'[q].r = pass[q].r
                 /\ pass'[q].thaw = pass[q].thaw
  BY <1>1 DEF ProbeOut, Phase, At
<1>2. ASSUME NEW p \in Passes, PassStep(p)
      PROVE  \/ ProbeOut(o)
             \/ \E q \in Passes : pass[q].r = o /\ Standing(q) /\ pass[q].thaw
  <2>1. /\ owner' = owner
        /\ \A q \in Passes : q # p => pass'[q] = pass[q]
    BY <1>2, PassAlone
  <2>2. CASE pass'[p].pc # "handover" /\ ready' = ready
    BY <1>1, <2>1, <2>2
  <2>3. CASE Tells(p)
    <3> DEFINE msg == [r |-> pass[p].r, n |-> pass[p].n, thaw |-> pass[p].thaw]
    <3>1. /\ At(p, "handover") /\ ready' = ready \cup {msg}
          /\ pass'[p].pc # "handover"
      BY <2>3 DEF Tells, At, IdlePass
    <3>2. msg.r = pass[p].r /\ msg.thaw = pass[p].thaw
      OBVIOUS
    <3> HIDE DEF msg
    <3> QED BY <2>1, <3>1, <3>2 DEF ProbeOut, Phase, At
  <2>4. CASE pass'[p].pc = "handover"
    <3>1. Confirms(p)
      BY <1>2, <2>4, PassKinds
      DEF LeaseInv, GoesOn, LosesClaim, ClearsUp, Tells, WritesBack, Claiming,
          IdlePass
    <3>2. \A pc : Goto(p, pc) => pass'[p].pc = pc
      BY <1>0 DEF Goto, PassType
    <3>3. ~Catch(p) /\ ~EndPass(p)
      BY <1>0, <2>4 DEF Catch, EndPass, IdlePass, PassType
    <3>4. Confirm(p)
      <4>1. ~Nominate(p)
        BY <1>0, <2>4, <3>2, <3>3 DEF Nominate, PassType
      <4>2. ~ReturnConfirm(p)
        BY <1>0, <2>4, <3>3 DEF ReturnConfirm, PassType
      <4>3. ~ReturnWrite(p)
        BY <3>1 DEF ReturnWrite, Confirms, At, Claiming
      <4> QED BY <1>2, <2>4, <3>2, <3>3, <4>1, <4>2, <4>3
          DEF PassStep, Judge, CheckFrozen, ClaimSlot, RecheckFrozen,
              ReleaseFrozen, Reread, RereadRefused, GoneClock, GoneRelease,
              HandOver
    <3>5. pass[p].age < Lease
      BY <1>0, <3>1, ConstantsAssumption
      DEF Confirms, Confirmable, ClaimLapsed, PassType, ConstantsAssumption
    <3>6. ready' = ready /\ pass'[p].r = pass[p].r
      BY <3>1 DEF Confirms, SameClaim
    <3>9. pass'[p].thaw = pass[p].thaw
      BY <1>0, <3>4 DEF Confirm, PassType
    <3>7. CASE pass[p].r = o /\ Phase(o, "waiting") /\ pass[p].thaw
      BY <3>4, <3>5, <3>7 DEF Standing, Judged, Confirm, At
    <3>8. CASE ~(pass[p].r = o /\ Phase(o, "waiting") /\ pass[p].thaw)
      BY <2>1, <3>6, <3>8, <3>9 DEF ProbeOut, Phase, At
    <3> QED BY <3>7, <3>8
  <2> QED BY <1>2, <2>2, <2>3, <2>4, PassKinds
      DEF LeaseInv, GoesOn, Confirms, LosesClaim, ClearsUp, WritesBack
<1>3. ASSUME NEW p \in Passes, Select(p)
      PROVE  ProbeOut(o)
  <2>1. /\ owner' = owner /\ ready' = ready
        /\ \A q \in Passes : q # p => pass'[q] = pass[q]
    BY <1>3, PassAlone DEF Select
  <2>2. PICK s \in Requests, b \in BOOLEAN :
          \/ pass' = [pass EXCEPT ![p] =
                 [IdlePass EXCEPT !.pc = "judge", !.r = s,
                     !.n = entry[s].retries, !.thaw = b]]
          \/ pass' = pass
    BY <1>3 DEF Select
  <2>3. pass'[p] = pass[p] \/ pass'[p].pc = "judge"
    BY <1>0, <2>2 DEF IdlePass
  <2> QED BY <2>1, <2>3 DEF ProbeOut, Phase, At
<1>4. ASSUME NEW r \in Requests, OwnerStep(r)
      PROVE  ProbeOut(o)
  <2>1. Carried(o)' /\ owner'[o].phase \in Active
    BY DEF ProbeOut, Carried, Phase, At, Holds, Confirmed, Active
  <2>2. r # o
    BY <1>4, <2>1, OwnerUncarried DEF LeaseInv
  <2> QED BY <1>4, <2>2, OwnerAlone DEF ProbeOut, Phase, At
<1>5. ASSUME NEW m \in ready, OnReady(m)
      PROVE  ProbeOut(o)
  <2>1. pass' = pass /\ ready' \subseteq ready
    BY <1>5 DEF OnReady
  <2>2. CASE owner'[o] = owner[o]
    BY <2>1, <2>2 DEF ProbeOut, Phase, At
  <2>3. CASE owner'[o] # owner[o]
    <3>1. /\ m.r = o /\ Phase(o, "waiting")
          /\ owner'[o].phase = "running" /\ owner'[o].thaw = m.thaw
      BY <1>0, <1>5, <2>3 DEF OnReady, OwnerType
    <3> QED BY <3>1 DEF ProbeOut, Phase
  <2> QED BY <2>2, <2>3
<1>6. ASSUME NEW c \in completions, DoneStep(c)
      PROVE  ProbeOut(o)
  <2>1. pass' = pass /\ ready' = ready /\ owner' = owner
    BY <1>6 DEF DoneStep, DoneRemove, DoneClock, DoneFreeze, DoneSlot, DoneThaw
  <2> QED BY <2>1 DEF ProbeOut, Phase, At
<1>7. CASE Tick
  <2>1. /\ owner' = owner /\ ready' = ready
        /\ \A q \in Passes :
              /\ pass'[q].pc = pass[q].pc /\ pass'[q].r = pass[q].r
              /\ pass'[q].thaw = pass[q].thaw
    BY <1>0, <1>7 DEF Tick, PassType
  <2> QED BY <2>1 DEF ProbeOut, Phase, At
<1> QED BY <1>2, <1>3, <1>4, <1>5, <1>6, <1>7 DEF Next

\* Whoever can still confirm a probe, or has, competes with a nomination.
LEMMA ProbeCompetes ==
  ASSUME TypeOK, LeaseInv, NEW o \in Requests,
         owner[o].phase \in Active => Borne(o),
         ProbeOut(o) \/ \E p \in Passes : pass[p].r = o /\ Standing(p)
                                          /\ pass[p].thaw
  PROVE  CompetingProbe(o)
<1>0. /\ Lease \in Nat /\ Lease > 0 /\ Judged \subseteq Claiming
      /\ \A p \in Passes : pass[p].age \in 0 .. Lease
  BY ConstantsAssumption
  DEF TypeOK, PassOK, PassType, ConstantsAssumption, Judged, Claiming
<1>1. owner[o].phase \in {"waiting", "running"} /\ Carried(o)
  BY <1>0
  DEF ProbeOut, Standing, Carried, Phase, At, Fresh, Holds, Confirmed
<1>2. Leased(o) /\ Queued(o) /\ entry[o].thaw
  BY <1>1 DEF LeaseInv, Active, Borne
<1>3. CASE Phase(o, "running")
  BY <1>0, <1>2, <1>3
  DEF Leased, Calm, Phase, CompetingProbe, ClaimLapsed, NoClaim
<1>4. CASE Phase(o, "waiting")
  <2>1. OneAdmission(o)
    BY <1>2, <1>4 DEF Leased
  <2>2. CASE ProbeOut(o)
    BY <1>0, <1>2, <1>4, <2>1, <2>2
    DEF ProbeOut, OneAdmission, Phase, At, Holds, Confirmed, CompetingProbe,
        ClaimLapsed, NoClaim
  <2>3. ASSUME NEW p \in Passes, pass[p].r = o, Standing(p)
        PROVE  CompetingProbe(o)
    BY <1>0, <1>2, <2>1, <2>3
    DEF Standing, OneAdmission, Fresh, CompetingProbe, ClaimLapsed
  <2> QED BY <2>2, <2>3
<1> QED BY <1>1, <1>3, <1>4 DEF Phase

\* Whoever goes on admitting unmarked was not marked before.
LEMMA UnmarkedBefore ==
  ASSUME TypeOK, Next, NEW p \in Passes, pass'[p].pc \in Admitting,
         p \notin overtaken'
  PROVE  p \notin overtaken
<1>1. ASSUME NEW q \in Passes, PassStep(q)
      PROVE  p \in overtaken' <=> p \in overtaken
  BY <1>1, PassMarked
<1>2. ASSUME NEW r \in Requests, OwnerStep(r)
      PROVE  overtaken' = overtaken
  BY <1>2
  DEF OwnerStep, FastAdmit, Enqueue, AddRequest, FlipToPending, Abandon,
      Finish, StreamHeaders, StreamEnd
<1>3. ASSUME NEW c \in completions, DoneStep(c)
      PROVE  overtaken' = overtaken
  BY <1>3 DEF DoneStep, DoneRemove, DoneClock, DoneFreeze, DoneSlot, DoneThaw
<1> QED BY <1>1, <1>2, <1>3 DEF Next, Select, OnReady, Tick

\* Probes come to be owed only when everyone who was judged is marked.
LEMMA ThawingAfter ==
  ASSUME TypeOK, ConfirmationsArrive, LeaseInv, Next, NEW p \in Passes,
         Heeded(p), Thawing', Standing(p)', p \notin overtaken'
  PROVE  Thawing
<1>0. /\ freeze \in FreezeType /\ freeze.left \in Nat
      /\ freeze.thawCount \in Nat /\ pass \in [Passes -> PassType]
      /\ pass'[p].pc \in Admitting
  BY ConstantsAssumption
  DEF TypeOK, PassOK, PassType, FreezeType, ConstantsAssumption, Standing,
      Judged, Admitting
<1>1. CASE freeze' = freeze
  BY <1>1 DEF Thawing
<1>2. ASSUME NEW c \in completions, DoneStep(c)
      PROVE  Thawing
  <2>1. ~DoneFreeze(c)
    BY <1>0 DEF DoneFreeze
  <2>2. CASE DoneThaw(c)
    BY <1>0, <2>2 DEF DoneThaw, MaxOf, Thawing, FreezeType
  <2> QED BY <1>1, <1>2, <2>1, <2>2
      DEF DoneStep, DoneRemove, DoneClock, DoneSlot
<1>3. CASE Tick
  <2>1. pass'[p].pc = pass[p].pc /\ overtaken' = overtaken
    BY <1>0, <1>3 DEF Tick, PassType
  <2>2. freeze'.thawCount = freeze.thawCount
    BY <1>0, <1>3 DEF Tick, FreezeType
  <2>3. freeze.left = 0
    BY <1>0, <2>1 DEF Heeded
  <2> QED BY <2>2, <2>3 DEF Thawing
<1>4. ASSUME NEW q \in Passes, Select(q) \/ PassStep(q)
      PROVE  freeze' = freeze
  BY <1>4, PassMarks DEF LeaseInv, Select
<1>5. ASSUME NEW r \in Requests, OwnerStep(r)
      PROVE  freeze' = freeze
  BY <1>5
  DEF OwnerStep, FastAdmit, Enqueue, AddRequest, FlipToPending, Abandon,
      Finish, StreamHeaders, StreamEnd
<1> QED BY <1>1, <1>2, <1>3, <1>4, <1>5 DEF Next, OnReady

\* While probes are owed, whoever stands unmarked keeps the only probe.
LEMMA AloneKept ==
  ASSUME TypeOK, ConfirmationsArrive, LeaseInv, ProbeInv, Next, Thawing',
         NEW p \in Passes, Heeded(p), Standing(p)', p \notin overtaken'
  PROVE  Alone(p)'
<1>0. /\ Thawing /\ pass \in [Passes -> PassType] /\ p \notin overtaken
  BY ThawingAfter, UnmarkedBefore
  DEF TypeOK, PassOK, Standing, Judged, Admitting
<1>1. Standing(p) => Alone(p)
  BY <1>0 DEF ProbeInv
<1>2. \A q \in Passes : Standing(q)' =>
         \/ Nominated(q)
         \/ /\ Standing(q) /\ pass'[q].r = pass[q].r
            /\ pass'[q].thaw = pass[q].thaw
  BY <1>0, StandingAfter
<1>3. \A o \in Requests : ProbeOut(o)' =>
         \/ ProbeOut(o)
         \/ \E q \in Passes : pass[q].r = o /\ Standing(q) /\ pass[q].thaw
  BY OutAfter
<1>4. ASSUME NEW s \in Passes, Nominated(s)
      PROVE  Alone(p)'
  <2>1. /\ pass'[s].thaw /\ \A q \in Passes : pass'[q].r = pass[q].r
        /\ At(s, "nominate")
    BY <1>0, <1>4 DEF Nominated, PassType
  <2>2. \A o \in Requests \ {pass[s].r} : ~CompetingProbe(o)
    BY <1>4 DEF Nominated
  <2>3. \A o \in Requests \ {pass[s].r} : ~ProbeOut(o)
    BY <2>2, ProbeCompetes DEF ProbeInv
  <2>4. ASSUME NEW q \in Passes, Standing(q), pass[q].thaw
        PROVE  pass[q].r = pass[s].r
    <3>1. pass[q].r \in Requests
      BY <2>4 DEF Standing, TypeOK, PassOK, Judged
    <3> QED BY <2>2, <2>4, <3>1, ProbeCompetes DEF ProbeInv
  <2>5. ASSUME NEW q \in Passes, Nominated(q)
        PROVE  q = s
    <3>1. pass'[q].pc # pass[q].pc
      BY <1>0, <2>5 DEF Nominated, At, PassType
    <3> QED BY <1>0, <1>4, <3>1 DEF Nominated
  <2>6. \A q \in Passes :
           Standing(q)' /\ pass'[q].thaw => pass'[q].r = pass[s].r
    BY <1>2, <2>1, <2>4, <2>5
  <2>7. \A o \in Requests \ {pass[s].r} : ~ProbeOut(o)'
    BY <1>3, <2>3, <2>4
  <2>8. pass'[p].thaw
    BY <1>1, <1>2, <2>1, <2>5 DEF Alone
  <2>9. pass'[p].r = pass[s].r
    BY <2>6, <2>8
  <2> QED BY <2>6, <2>7, <2>8, <2>9 DEF Alone
<1>5. CASE \A s \in Passes : ~Nominated(s)
  <2>1. /\ Standing(p) /\ Alone(p) /\ pass'[p].r = pass[p].r
        /\ pass'[p].thaw = pass[p].thaw
    BY <1>1, <1>2, <1>5
  <2>2. \A o \in Requests \ {pass[p].r} : ~ProbeOut(o)'
    BY <1>3, <2>1 DEF Alone
  <2>3. \A q \in Passes :
           Standing(q)' /\ pass'[q].thaw => pass'[q].r = pass[p].r
    BY <1>2, <1>5, <2>1 DEF Alone
  <2> QED BY <2>1, <2>2, <2>3 DEF Alone
<1> QED BY <1>4, <1>5

\* The invariant of the probes holds in every behaviour in which confirmations,
\* hand-overs and write-backs are answered.
THEOREM ProbeInvariant ==
  ASSUME ConfirmationsArrive
  PROVE  Spec => []ProbeInv
<1> DEFINE Heed == \A p \in Passes : Heeded(p)
<1>1. Init => ProbeInv
  <2> SUFFICES ASSUME Init PROVE ProbeInv
    OBVIOUS
  <2>1. /\ \A p \in Passes : pass[p].pc = "idle"
        /\ \A r \in Requests : owner[r].phase = "new"
        /\ ready = {}
    BY DEF Init, IdlePass
  <2> QED BY <2>1
      DEF ProbeInv, Borne, Carried, Fresh, Holds, Claiming, Confirmed,
          Standing, Judged, Phase
<1>2. TypeOK /\ Heed /\ LeaseInv /\ LeaseInv' /\ ProbeInv /\ [Next]_vars
         => ProbeInv'
  <2> SUFFICES ASSUME TypeOK, Heed, LeaseInv, LeaseInv', ProbeInv, [Next]_vars
               PROVE  ProbeInv'
    OBVIOUS
  <2>1. \A r \in Requests : owner'[r].phase \in Active => Borne(r)'
    BY BorneKept DEF ProbeInv
  <2>2. Thawing' => \A p \in Passes :
           Standing(p)' /\ p \notin overtaken' => Alone(p)'
    <3>1. CASE Next
      BY <3>1, AloneKept
    <3>2. CASE UNCHANGED vars
      BY <3>2 DEF vars, ProbeInv, Thawing, Standing, Alone, ProbeOut, Phase, At
    <3> QED BY <3>1, <3>2
  <2> QED BY <2>1, <2>2 DEF ProbeInv
<1> HIDE DEF Heed
<1>3. Spec => []Heed
  BY HeededAlways DEF Heed
<1> QED BY <1>1, <1>2, <1>3, TypeCorrect, LeaseInvariant, PTL DEF Spec

\* While probes are owed they go out one at a time, retried probes and passes
\* that outlive their lease included: for any number of requests and passes, any
\* lease and window, and any loss of replies other than those of confirmRequest,
\* the hand-over and the write-back.
THEOREM ProbesOneByOne ==
  ASSUME ConfirmationsArrive
  PROVE  Spec => OneProbeAtATime
<1> DEFINE Single == \A p \in Passes :
             (/\ lost = 0 /\ At(p, "confirm") /\ pass'[p].pc = "handover"
              /\ Thawing /\ p \notin overtaken /\ Phase(pass[p].r, "waiting"))
             => \A o \in Requests \ {pass[p].r} : ~ProbeOut(o)
<1>1. TypeOK /\ LeaseInv /\ ProbeInv /\ [Next]_vars => [Single]_vars
  <2> SUFFICES ASSUME TypeOK, LeaseInv, ProbeInv, Next, NEW p \in Passes,
                      At(p, "confirm"), pass'[p].pc = "handover", Thawing,
                      p \notin overtaken, Phase(pass[p].r, "waiting")
               PROVE  \A o \in Requests \ {pass[p].r} : ~ProbeOut(o)
    OBVIOUS
  <2>1. /\ pass \in [Passes -> PassType] /\ pass[p].age \in 0 .. Lease
        /\ Lease \in Nat /\ pass[p].pc = "confirm"
    BY ConstantsAssumption
    DEF TypeOK, PassOK, PassType, ConstantsAssumption, At
  <2>2. PassStep(p)
    BY <2>1, ConfirmingStep
  <2>3. Confirmable(p)
    BY <2>1, <2>2, PassKinds
    DEF LeaseInv, GoesOn, Confirms, LosesClaim, ClearsUp, Tells, WritesBack,
        Claiming, IdlePass
  <2>4. Standing(p)
    BY <2>1, <2>3 DEF Standing, Judged, Confirmable, ClaimLapsed
  <2> QED BY <2>4 DEF ProbeInv, Alone
<1> QED BY <1>1, TypeCorrect, LeaseInvariant, ProbeInvariant, PTL
    DEF Spec, OneProbeAtATime

===========================================================================
