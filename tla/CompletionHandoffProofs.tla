---------------------- MODULE CompletionHandoffProofs ----------------------
(***************************************************************************)
(* What the hand-off of completions keeps, for every fleet, every number of*)
(* completions and parts, and whatever is lost, fails, crashes or changes  *)
(* its role.                                                               *)
(***************************************************************************)
EXTENDS CompletionHandoff, TLAPS

USE HandoffAssumption DEF HandoffAssumption

LEMMA InitType == Init => TypeOK
  BY DEF Init, TypeOK, NoRecord, RecordType, NoRef, RefType, Messages,
         BudgetType

\* Records, references and budgets as the actions change them.
LEMMA RecordUpdates ==
  /\ NoRecord \in RecordType
  /\ \A rec \in RecordType : Dropped(rec) \in RecordType
  /\ \A rec \in RecordType : [rec EXCEPT !.due = TRUE] \in RecordType
  /\ \A rec \in RecordType, n \in 0 .. Steps :
        [rec EXCEPT !.at = n] \in RecordType
  /\ \A rec \in RecordType : Forwarded(rec) \in RecordType
<1>1. NoRecord \in RecordType
  BY DEF NoRecord, RecordType
<1>2. \A rec \in RecordType : Dropped(rec) \in RecordType
  BY DEF RecordType, Dropped
<1>3. \A rec \in RecordType : [rec EXCEPT !.due = TRUE] \in RecordType
  BY DEF RecordType
<1>4. \A rec \in RecordType, n \in 0 .. Steps :
        [rec EXCEPT !.at = n] \in RecordType
  BY DEF RecordType
<1>5. ASSUME NEW rec \in RecordType
      PROVE  Forwarded(rec) \in RecordType
  <2>1. CASE rec.forwards >= MaxForwards
    BY <1>2, <2>1 DEF Forwarded
  <2>2. CASE ~(rec.forwards >= MaxForwards)
    <3>1. rec.forwards + 1 \in 0 .. MaxForwards
      BY <2>2 DEF RecordType
    <3>2. [rec EXCEPT !.forwards = rec.forwards + 1, !.due = FALSE] \in RecordType
      BY <3>1 DEF RecordType
    <3> QED BY <2>2, <3>2 DEF Forwarded
  <2> QED BY <2>1, <2>2
<1> QED BY <1>1, <1>2, <1>3, <1>4, <1>5

\* What dropping a record and forwarding one leave of it.
LEMMA RecordFacts ==
  ASSUME NEW rec \in RecordType
  PROVE  /\ ~Dropped(rec).held
         /\ Dropped(rec).at = rec.at
         /\ Dropped(rec).forwards = rec.forwards
         /\ Dropped(rec).byController = rec.byController
         /\ Forwarded(rec).at = rec.at
         /\ Forwarded(rec).byController = rec.byController
         /\ rec.forwards >= MaxForwards =>
              ~Forwarded(rec).held /\ Forwarded(rec).forwards = MaxForwards
         /\ ~(rec.forwards >= MaxForwards) => Forwarded(rec).held = rec.held
<1>1. /\ ~Dropped(rec).held
      /\ Dropped(rec).at = rec.at
      /\ Dropped(rec).forwards = rec.forwards
      /\ Dropped(rec).byController = rec.byController
  BY DEF RecordType, Dropped
<1>2. CASE rec.forwards >= MaxForwards
  <2>1. Forwarded(rec) = Dropped(rec)
    BY <1>2 DEF Forwarded
  <2>2. rec.forwards = MaxForwards
    BY <1>2 DEF RecordType
  <2> QED BY <1>1, <1>2, <2>1, <2>2
<1>3. CASE ~(rec.forwards >= MaxForwards)
  <2>1. Forwarded(rec) = [rec EXCEPT !.forwards = rec.forwards + 1, !.due = FALSE]
    BY <1>3 DEF Forwarded
  <2> QED BY <1>1, <1>3, <2>1 DEF RecordType
<1> QED BY <1>2, <1>3

LEMMA RefUpdates ==
  /\ NoRef \in RefType /\ Ref \in RefType
  /\ \A ref \in RefType, n \in 0 .. Steps : [ref EXCEPT !.at = n] \in RefType
<1>1. NoRef \in RefType
  BY DEF NoRef, RefType
<1>2. Ref \in RefType
  BY <1>1 DEF Ref, RefType
<1>3. \A ref \in RefType, n \in 0 .. Steps : [ref EXCEPT !.at = n] \in RefType
  BY DEF RefType
<1> QED BY <1>1, <1>2, <1>3

LEMMA BudgetUpdates ==
  ASSUME NEW b \in BudgetType
  PROVE  /\ b.lost > 0 => [b EXCEPT !.lost = @ - 1] \in BudgetType
         /\ b.fails > 0 => [b EXCEPT !.fails = @ - 1] \in BudgetType
         /\ b.changes > 0 => [b EXCEPT !.changes = @ - 1] \in BudgetType
         /\ b.crashes > 0 => [b EXCEPT !.crashes = @ - 1] \in BudgetType
<1>1. b.lost > 0 => [b EXCEPT !.lost = @ - 1] \in BudgetType
  BY DEF BudgetType
<1>2. b.fails > 0 => [b EXCEPT !.fails = @ - 1] \in BudgetType
  BY DEF BudgetType
<1>3. b.changes > 0 => [b EXCEPT !.changes = @ - 1] \in BudgetType
  BY DEF BudgetType
<1>4. b.crashes > 0 => [b EXCEPT !.crashes = @ - 1] \in BudgetType
  BY DEF BudgetType
<1> QED BY <1>1, <1>2, <1>3, <1>4

\* One record, or one reference, is replaced.
LEMMA OneReplaced ==
  ASSUME TypeOK, NEW i \in Instances, NEW c \in Completions
  PROVE  /\ \A rec \in RecordType : [pending EXCEPT ![i][c] = rec]
                \in [Instances -> [Completions -> RecordType]]
         /\ \A ref \in RefType : [flush EXCEPT ![i][c] = ref]
                \in [Instances -> [Completions -> RefType]]
         /\ \A ref \in RefType : [sweep EXCEPT ![i][c] = ref]
                \in [Instances -> [Completions -> RefType]]
  BY DEF TypeOK

\* The values the operators build have their types.
LEMMA ValueTypes ==
  ASSUME TypeOK, NEW i \in Instances, NEW c \in Completions
  PROVE  /\ pending[i][c] \in RecordType
         /\ flush[i][c] \in RefType /\ sweep[i][c] \in RefType
         /\ NoRecord \in RecordType /\ NoRef \in RefType /\ Ref \in RefType
         /\ Stored(i, c) \in RecordType
         /\ \A ref \in RefType : Kept(ref, i, c) \in RefType
         /\ WithoutCopies(i) \in [Completions -> RecordType]
         /\ Acknowledged(i, c) \subseteq Messages
         /\ Announced({c}) \subseteq Messages
<1>1. /\ pending[i][c] \in RecordType
      /\ flush[i][c] \in RefType /\ sweep[i][c] \in RefType
  BY DEF TypeOK
<1>2. NoRecord \in RecordType /\ NoRef \in RefType /\ Ref \in RefType
  BY RecordUpdates, RefUpdates
<1>3. Stored(i, c) \in RecordType
  <2> DEFINE b == IsController(i)
  <2>1. b \in BOOLEAN
    BY DEF IsController
  <2> HIDE DEF b
  <2>2. [NoRecord EXCEPT !.held = TRUE, !.byController = b] \in RecordType
    BY <1>2, <2>1 DEF RecordType
  <2> QED BY <1>1, <2>2 DEF Stored, b
<1>4. \A ref \in RefType : Kept(ref, i, c) \in RefType
  BY <1>1 DEF Kept, RefType, RecordType
<1>5. WithoutCopies(i) \in [Completions -> RecordType]
  BY RecordUpdates DEF WithoutCopies, TypeOK
<1>6. Acknowledged(i, c) \subseteq Messages
  BY DEF Acknowledged, AppliedTo, Messages, TypeOK
<1>7. Announced({c}) \subseteq Messages
  BY DEF Announced, RequestDone, Messages, TypeOK
<1> QED BY <1>1, <1>2, <1>3, <1>4, <1>5, <1>6, <1>7

LEMMA FinalizeType ==
  ASSUME TypeOK, NEW i \in Instances, NEW c \in Completions,
         NEW others \in SUBSET Messages,
         FinalizeOwnedRequest(i, c, others)
  PROVE  /\ pending' \in [Instances -> [Completions -> RecordType]]
         /\ flush' \in [Instances -> [Completions -> RefType]]
         /\ sweep' \in [Instances -> [Completions -> RefType]]
         /\ net' \subseteq Messages
<1>1. CASE c \in completed[i]
  BY <1>1, ValueTypes DEF FinalizeOwnedRequest, TypeOK
<1>2. CASE c \notin completed[i]
  <2> DEFINE f == IF IsController(i) /\ ~flush[i][c].on THEN Ref
                  ELSE Kept(flush[i][c], i, c)
             w == Kept(sweep[i][c], i, c)
  <2>1. f \in RefType /\ w \in RefType /\ Stored(i, c) \in RecordType
    BY ValueTypes
  <2>2. /\ pending' = [pending EXCEPT ![i][c] = Stored(i, c)]
        /\ flush' = [flush EXCEPT ![i][c] = f]
        /\ sweep' = [sweep EXCEPT ![i][c] = w]
        /\ net' = others
    BY <1>2 DEF FinalizeOwnedRequest
  <2> HIDE DEF f, w
  <2> QED BY <2>1, <2>2, OneReplaced
<1> QED BY <1>1, <1>2

LEMMA OwnerType ==
  ASSUME TypeOK, NEW c \in Completions,
         PublishRequestDone(c) \/ FinalizeOwn(c)
  PROVE  TypeOK'
<1>1. CASE PublishRequestDone(c)
  <2>1. net' \subseteq Messages /\ budget' \in BudgetType
    BY <1>1, ValueTypes, BudgetUpdates DEF PublishRequestDone, TypeOK
  <2> QED BY <1>1, <2>1 DEF PublishRequestDone, TypeOK
<1>2. CASE FinalizeOwn(c)
  <2>1. Owner[c] \in Instances /\ net \in SUBSET Messages
    BY DEF TypeOK
  <2> QED BY <1>2, <2>1, FinalizeType DEF FinalizeOwn, TypeOK
<1> QED BY <1>1, <1>2

LEMMA MessageType ==
  ASSUME TypeOK, NEW m \in Messages,
         RequestDoneApplied(m) \/ OnRequestDone(m) \/ Lose(m)
  PROVE  TypeOK'
<1>0. m.c \in Completions /\ m.to \in Instances
  BY DEF Messages
<1>1. CASE RequestDoneApplied(m)
  <2>0. pending' = [pending EXCEPT ![m.to][m.c] =
                       Dropped(pending[m.to][m.c])]
    BY <1>1 DEF RequestDoneApplied
  <2>1. pending' \in [Instances -> [Completions -> RecordType]]
    BY <1>0, <2>0, OneReplaced, RecordUpdates, ValueTypes
  <2> QED BY <1>1, <1>0, <2>1 DEF RequestDoneApplied, TypeOK
<1>2. CASE OnRequestDone(m)
  <2>1. net \ {m} \in SUBSET Messages
    BY DEF TypeOK
  <2> QED BY <1>0, <1>2, <2>1, FinalizeType DEF OnRequestDone, TypeOK
<1>3. CASE Lose(m)
  BY <1>3, BudgetUpdates DEF Lose, TypeOK
<1> QED BY <1>1, <1>2, <1>3

LEMMA TickType ==
  ASSUME TypeOK, NEW i \in Instances,
         WorkerTick(i) \/ ControllerTick(i)
  PROVE  TypeOK'
<1>1. CASE WorkerTick(i)
  <2>1. PICK cs \in SUBSET Completions : ForwardPending(i, cs)
    BY <1>1 DEF WorkerTick, Held
  <2>2. \A c \in Completions : Forwarded(pending[i][c]) \in RecordType
    BY ValueTypes, RecordUpdates
  <2>3. pending' \in [Instances -> [Completions -> RecordType]]
    BY <2>1, <2>2, ValueTypes DEF ForwardPending, TypeOK
  <2>4. completed' \in [Instances -> SUBSET Completions]
    BY <2>1 DEF ForwardPending, TypeOK
  <2>5. \A ds \in SUBSET Completions : Announced(ds) \subseteq Messages
    BY DEF Announced, RequestDone, Messages, TypeOK
  <2>6. net' \subseteq Messages
    BY <2>1, <2>5 DEF ForwardPending, TypeOK
  <2> QED BY <1>1, <2>3, <2>4, <2>6 DEF WorkerTick, TypeOK
<1>2. CASE ControllerTick(i)
  <2>1. Snapshot(pending[i]) \in [Completions -> RefType]
    BY RefUpdates DEF Snapshot
  <2> QED BY <1>2, <2>1 DEF ControllerTick, TypeOK
<1> QED BY <1>1, <1>2

LEMMA RoleType ==
  ASSUME TypeOK, NEW i \in Instances, Elect(i) \/ UpdateRole(i) \/ Crash(i)
  PROVE  TypeOK'
<1>1. ASSUME Promoted(i)
      PROVE  /\ role' \in [Instances -> {"worker", "controller"}]
             /\ pending' \in [Instances -> [Completions -> RecordType]]
             /\ sweep' \in [Instances -> [Completions -> RefType]]
  <2>1. WithoutCopies(i) \in [Completions -> RecordType]
    BY RecordUpdates DEF WithoutCopies, TypeOK
  <2>2. Snapshot(WithoutCopies(i)) \in [Completions -> RefType]
    BY RefUpdates DEF Snapshot
  <2> QED BY <1>1, <2>1, <2>2 DEF Promoted, TypeOK
<1>2. CASE Elect(i)
  BY <1>1, <1>2 DEF Elect, TypeOK
<1>3. CASE UpdateRole(i)
  <2>1. budget' \in BudgetType
    BY <1>3, BudgetUpdates DEF UpdateRole, TypeOK
  <2>2. CASE IsController(i)
    BY <1>3, <2>1, <2>2 DEF UpdateRole, TypeOK
  <2>3. CASE ~IsController(i)
    BY <1>3, <1>1, <2>1, <2>3 DEF UpdateRole, TypeOK
  <2> QED BY <2>2, <2>3
<1>4. CASE Crash(i)
  <2>1. NoRecord \in RecordType /\ NoRef \in RefType
    BY RecordUpdates, RefUpdates
  <2>2. budget' \in BudgetType
    BY <1>4, BudgetUpdates DEF Crash, TypeOK
  <2> QED BY <1>4, <2>1, <2>2 DEF Crash, TypeOK
<1> QED BY <1>2, <1>3, <1>4

LEMMA FlushStepType ==
  ASSUME TypeOK, NEW i \in Instances, NEW c \in Completions,
         \/ ForwardDue(i, c) \/ SweepNext(i, c) \/ ApplyPart(i, c)
         \/ FailPart(i, c) \/ FlushDone(i, c)
  PROVE  TypeOK'
<1>0. /\ pending[i][c] \in RecordType /\ flush[i][c] \in RefType
      /\ sweep[i][c] \in RefType /\ NoRef \in RefType
  BY ValueTypes
<1>1. HandledParts(i, c) \in 0 .. Steps
  BY <1>0 DEF HandledParts, Record, RecordType, RefType
<1>2. CASE ForwardDue(i, c)
  <2>0. pending' = [pending EXCEPT ![i][c] =
                       [pending[i][c] EXCEPT !.due = TRUE]]
    BY <1>2 DEF ForwardDue
  <2>1. pending' \in [Instances -> [Completions -> RecordType]]
    BY <2>0, OneReplaced, RecordUpdates, ValueTypes
  <2> QED BY <1>2, <2>1 DEF ForwardDue, TypeOK
<1>3. CASE SweepNext(i, c)
  BY <1>0, <1>3 DEF SweepNext, TypeOK
<1>4. CASE ApplyPart(i, c)
  <2> DEFINE n == HandledParts(i, c) + 1
  <2>0. n \in 0 .. Steps
    BY <1>1, <1>4 DEF ApplyPart
  <2>1. applied' \in [Completions -> 0 .. Steps]
    BY <1>4, <2>0 DEF ApplyPart, TypeOK
  <2>2. [pending[i][c] EXCEPT !.at = n] \in RecordType
    BY <1>0, <2>0, RecordUpdates
  <2>3. [flush[i][c] EXCEPT !.at = n] \in RefType
    BY <1>0, <2>0, RefUpdates
  <2>4. /\ pending' \in [Instances -> [Completions -> RecordType]]
        /\ flush' \in [Instances -> [Completions -> RefType]]
    <3>1. CASE flush[i][c].linked
      <4>1. /\ pending' = [pending EXCEPT ![i][c] = [pending[i][c] EXCEPT !.at = n]]
            /\ flush' = flush
        BY <1>4, <3>1 DEF ApplyPart
      <4> HIDE DEF n
      <4> QED BY <2>2, <4>1, OneReplaced DEF TypeOK
    <3>2. CASE ~flush[i][c].linked
      <4>1. /\ flush' = [flush EXCEPT ![i][c] = [flush[i][c] EXCEPT !.at = n]]
            /\ pending' = pending
        BY <1>4, <3>2 DEF ApplyPart
      <4> HIDE DEF n
      <4> QED BY <2>3, <4>1, OneReplaced DEF TypeOK
    <3> QED BY <3>1, <3>2
  <2> QED BY <1>4, <2>1, <2>4 DEF ApplyPart, TypeOK
<1>5. CASE FailPart(i, c)
  <2> DEFINE n == HandledParts(i, c) + 1
             v == IF applied[c] < n THEN n ELSE applied[c]
  <2>0. /\ v \in 0 .. Steps
        /\ applied' \in {applied, [applied EXCEPT ![c] = v]}
    BY <1>1, <1>5 DEF FailPart, TypeOK
  <2>1. applied' \in [Completions -> 0 .. Steps]
    <3> HIDE DEF v
    <3> QED BY <2>0 DEF TypeOK
  <2>2. budget' \in BudgetType
    BY <1>5, BudgetUpdates DEF FailPart, TypeOK
  <2> QED BY <1>0, <1>5, <2>1, <2>2 DEF FailPart, TypeOK
<1>6. CASE FlushDone(i, c)
  <2>0. pending' = [pending EXCEPT ![i][c] =
                       Dropped(pending[i][c])]
    BY <1>6 DEF FlushDone
  <2>1. pending' \in [Instances -> [Completions -> RecordType]]
    BY <2>0, OneReplaced, RecordUpdates, ValueTypes
  <2>2. net' \subseteq Messages
    BY <1>6, ValueTypes DEF FlushDone, TypeOK
  <2> QED BY <1>0, <1>6, <2>1, <2>2 DEF FlushDone, TypeOK
<1> QED BY <1>2, <1>3, <1>4, <1>5, <1>6

LEMMA NextType ==
  ASSUME TypeOK, [Next]_vars
  PROVE  TypeOK'
<1>1. CASE UNCHANGED vars
  BY <1>1 DEF vars, TypeOK
<1>2. CASE Next
  BY <1>2, OwnerType, MessageType, TickType, RoleType, FlushStepType DEF Next
<1> QED BY <1>1, <1>2

\* The hand-off's state keeps its types: no record counts more parts than
\* there are, or more announcements than it may make.
THEOREM HandoffTypeCorrect == Spec => []TypeOK
<1>1. Init => TypeOK
  BY InitType
<1>2. TypeOK /\ [Next]_vars => TypeOK'
  BY NextType
<1> QED BY <1>1, <1>2, PTL DEF Spec
---------------------------------------------------------------------------
(* A completion is not forgotten.                                          *)

\* No record, and no reference to one, counts a part that took no effect.
Counted ==
    \A i \in Instances, c \in Completions :
        /\ pending[i][c].at <= applied[c]
        /\ flush[i][c].at <= applied[c] /\ sweep[i][c].at <= applied[c]

\* What a replica remembers it no longer retains, and it was applied, or its
\* owner announced it for the last time.
Remembered ==
    \A i \in Instances : \A c \in completed[i] :
        /\ ~pending[i][c].held
        /\ \/ IsApplied(c)
           \/ Owner[c] = i /\ pending[i][c].forwards = MaxForwards

\* An acknowledgement on its way is of an applied completion.
AcksAreTrue ==
    \A m \in net : m.kind = "requestDoneApplied" => IsApplied(m.c)

Inv == TypeOK /\ Counted /\ Remembered /\ AcksAreTrue /\ NeverForgotten

\* Applying a part leaves its count behind, and takes none back.
LEMMA AppliedGrows ==
  ASSUME TypeOK, [Next]_vars, NEW c \in Completions
  PROVE  applied[c] <= applied'[c] /\ (IsApplied(c) => IsApplied(c)')
<1>0. TypeOK'
  BY NextType
<1>1. ASSUME NEW i \in Instances, NEW d \in Completions,
             ApplyPart(i, d) \/ FailPart(i, d)
      PROVE  applied[c] <= applied'[c]
  <2> DEFINE n == HandledParts(i, d) + 1
             v == IF applied[d] < n THEN n ELSE applied[d]
  <2>1. HandledParts(i, d) \in 0 .. Steps
    BY ValueTypes DEF HandledParts, Record, RecordType, RefType
  <2>2. v >= applied[d] /\ v \in Nat
    BY <2>1 DEF TypeOK
  <2>3. applied' = applied \/ applied' = [applied EXCEPT ![d] = v]
    BY <1>1 DEF ApplyPart, FailPart
  <2>4. applied \in [Completions -> Int]
    BY DEF TypeOK
  <2> HIDE DEF v
  <2>5. CASE applied' = applied
    BY <2>4, <2>5
  <2>6. CASE applied' = [applied EXCEPT ![d] = v]
    BY <2>2, <2>4, <2>6
  <2> QED BY <2>3, <2>5, <2>6
<1>2. applied[c] <= applied'[c]
  <2>1. CASE applied' = applied
    BY <2>1 DEF TypeOK
  <2>2. CASE applied' # applied
    <3>1. PICK i \in Instances, d \in Completions :
            ApplyPart(i, d) \/ FailPart(i, d)
      BY <2>2 DEF Next, vars, PublishRequestDone, FinalizeOwn,
         RequestDoneApplied, OnRequestDone, Lose, WorkerTick, ControllerTick,
         Elect, UpdateRole, Crash, ForwardDue, SweepNext, FlushDone
    <3> QED BY <1>1, <3>1
  <2> QED BY <2>1, <2>2
<1> QED BY <1>0, <1>2 DEF IsApplied, TypeOK

\* What finalizeOwnedRequest changes.
LEMMA FinalizeEffect ==
  ASSUME TypeOK, NEW i \in Instances, NEW c \in Completions, NEW others,
         FinalizeOwnedRequest(i, c, others)
  PROVE  /\ \A j \in Instances, d \in Completions :
              \/ pending'[j][d] = pending[j][d]
              \/ /\ j = i /\ d = c /\ c \notin completed[i]
                 /\ pending'[j][d].held /\ pending'[j][d].at = 0
         /\ c \notin completed[i] => pending'[i][c].held
         /\ \A j \in Instances, d \in Completions :
              /\ flush'[j][d].at \in {flush[j][d].at, 0, pending[j][d].at}
              /\ sweep'[j][d].at \in {sweep[j][d].at, 0, pending[j][d].at}
         /\ \A m \in net' : \/ m \in others
                            \/ c \in completed[i] /\ Owner[c] # i
                               /\ m = AppliedTo(c, Owner[c])
<1>1. CASE c \in completed[i]
  BY <1>1 DEF FinalizeOwnedRequest, Acknowledged, TypeOK
<1>2. CASE c \notin completed[i]
  <2> DEFINE f == IF IsController(i) /\ ~flush[i][c].on THEN Ref
                  ELSE Kept(flush[i][c], i, c)
             w == Kept(sweep[i][c], i, c)
  <2>1. /\ pending' = [pending EXCEPT ![i][c] = Stored(i, c)]
        /\ flush' = [flush EXCEPT ![i][c] = f]
        /\ sweep' = [sweep EXCEPT ![i][c] = w]
        /\ net' = others
    BY <1>2 DEF FinalizeOwnedRequest
  <2>2. \/ Stored(i, c) = pending[i][c] /\ pending[i][c].held
        \/ Stored(i, c).held /\ Stored(i, c).at = 0
    BY DEF Stored, NoRecord
  <2>3. /\ Ref.at = 0
        /\ f.at \in {flush[i][c].at, 0, pending[i][c].at}
        /\ w.at \in {sweep[i][c].at, 0, pending[i][c].at}
    BY DEF Ref, NoRef, Kept
  <2> HIDE DEF f, w
  <2> QED BY <1>2, <2>1, <2>2, <2>3 DEF TypeOK
<1> QED BY <1>1, <1>2

\* Finalizing a completion, by its owner or by whoever hears of it.
LEMMA FinalizeInv ==
  ASSUME Inv, NEW i \in Instances, NEW c \in Completions,
         NEW others \in SUBSET net, FinalizeOwnedRequest(i, c, others),
         completed' = completed, applied' = applied, up' = up,
         \/ phase' = phase
         \/ Owner[c] = i /\ phase' = [phase EXCEPT ![c] = "finalized"],
         TypeOK'
  PROVE  Inv'
<1> USE DEF Inv
<1>1. Counted'
  <2> SUFFICES ASSUME NEW j \in Instances, NEW d \in Completions
               PROVE  /\ pending'[j][d].at <= applied[d]
                      /\ flush'[j][d].at <= applied[d]
                      /\ sweep'[j][d].at <= applied[d]
    BY DEF Counted
  <2>1. applied[d] \in Nat
    BY DEF TypeOK
  <2>2. /\ pending[j][d].at <= applied[d] /\ flush[j][d].at <= applied[d]
        /\ sweep[j][d].at <= applied[d]
    BY DEF Counted
  <2>3. pending'[j][d].at \in {pending[j][d].at, 0}
    BY FinalizeEffect
  <2>4. /\ flush'[j][d].at \in {flush[j][d].at, 0, pending[j][d].at}
        /\ sweep'[j][d].at \in {sweep[j][d].at, 0, pending[j][d].at}
    BY FinalizeEffect
  <2> QED BY <2>1, <2>2, <2>3, <2>4
<1>2. Remembered'
  <2> SUFFICES ASSUME NEW j \in Instances, NEW d \in completed[j]
               PROVE  /\ ~pending'[j][d].held
                      /\ \/ IsApplied(d)
                         \/ Owner[d] = j /\ pending'[j][d].forwards = MaxForwards
    BY DEF Remembered, IsApplied
  <2>1. d \in Completions
    BY DEF TypeOK
  <2>2. pending'[j][d] = pending[j][d]
    BY <2>1, FinalizeEffect
  <2> QED BY <2>2 DEF Remembered
<1>3. AcksAreTrue'
  BY FinalizeEffect DEF AcksAreTrue, Remembered, IsApplied, AppliedTo
<1>4. NeverForgotten'
  <2> SUFFICES ASSUME NEW d \in Completions, phase'[d] = "finalized",
                      Owner[d] \in up
               PROVE  \/ IsApplied(d)
                      \/ pending'[Owner[d]][d].held
                      \/ /\ d \in completed[Owner[d]]
                         /\ pending'[Owner[d]][d].forwards = MaxForwards
    BY DEF NeverForgotten, IsApplied, GivenUp
  <2>0. Owner[d] \in Instances
    OBVIOUS
  <2>1. CASE phase[d] = "finalized"
    BY <2>0, <2>1, FinalizeEffect DEF NeverForgotten, GivenUp
  <2>2. CASE phase[d] # "finalized"
    <3>1. d = c /\ Owner[d] = i
      BY <2>2 DEF TypeOK
    <3>2. CASE c \in completed[i]
      <4>1. pending'[i][c] = pending[i][c]
        BY <3>2, FinalizeEffect
      <4> QED BY <3>1, <3>2, <4>1 DEF Remembered
    <3>3. CASE c \notin completed[i]
      BY <3>1, <3>3, FinalizeEffect
    <3> QED BY <3>2, <3>3
  <2> QED BY <2>1, <2>2
<1> QED BY <1>1, <1>2, <1>3, <1>4

LEMMA MessageInv ==
  ASSUME Inv, NEW m \in Messages,
         RequestDoneApplied(m) \/ OnRequestDone(m) \/ Lose(m), TypeOK'
  PROVE  Inv'
<1> USE DEF Inv
<1>0. m.c \in Completions /\ m.to \in Instances
  BY DEF Messages
<1>1. CASE RequestDoneApplied(m)
  <2>0. IsApplied(m.c)
    BY <1>1 DEF RequestDoneApplied, AcksAreTrue
  <2>1. \A j \in Instances, d \in Completions :
           /\ pending'[j][d].at = pending[j][d].at
           /\ pending'[j][d].forwards = pending[j][d].forwards
           /\ j = m.to /\ d = m.c => ~pending'[j][d].held
           /\ ~(j = m.to /\ d = m.c) => pending'[j][d] = pending[j][d]
    <3>1. \A j \in Instances, d \in Completions :
             pending'[j][d] = IF j = m.to /\ d = m.c THEN Dropped(pending[j][d])
                              ELSE pending[j][d]
      BY <1>0, <1>1 DEF RequestDoneApplied, TypeOK
    <3>2. \A j \in Instances, d \in Completions : pending[j][d] \in RecordType
      BY ValueTypes
    <3> QED BY <3>1, <3>2, RecordFacts
  <2>2. Counted'
    BY <1>1, <2>1 DEF RequestDoneApplied, Counted
  <2>3. \A j \in Instances : \A d \in completed'[j] :
           d \in completed[j] \/ (j = m.to /\ d = m.c)
    BY <1>0, <1>1 DEF RequestDoneApplied, TypeOK
  <2>4. Remembered'
    BY <1>1, <2>0, <2>1, <2>3
    DEF RequestDoneApplied, Remembered, IsApplied, TypeOK
  <2>5. AcksAreTrue'
    BY <1>1 DEF RequestDoneApplied, AcksAreTrue, IsApplied
  <2>6. NeverForgotten'
    <3> SUFFICES ASSUME NEW d \in Completions, phase[d] = "finalized",
                        Owner[d] \in up, ~IsApplied(d)
                 PROVE  pending'[Owner[d]][d].held \/ GivenUp(d)'
      BY <1>1 DEF NeverForgotten, IsApplied, RequestDoneApplied
    <3>1. d # m.c
      BY <2>0
    <3>2. pending'[Owner[d]][d] = pending[Owner[d]][d]
      BY <2>1, <3>1
    <3>3. completed[Owner[d]] \subseteq completed'[Owner[d]]
      BY <1>1 DEF RequestDoneApplied, TypeOK
    <3> QED BY <3>2, <3>3 DEF NeverForgotten, GivenUp
  <2> QED BY <2>2, <2>4, <2>5, <2>6
<1>2. CASE OnRequestDone(m)
  <2>1. net \ {m} \in SUBSET net
    OBVIOUS
  <2> QED BY <1>0, <1>2, <2>1, FinalizeInv DEF OnRequestDone
<1>3. CASE Lose(m)
  BY <1>3 DEF Lose, Counted, Remembered, AcksAreTrue, NeverForgotten, GivenUp,
              IsApplied
<1> QED BY <1>1, <1>2, <1>3

LEMMA OwnerInv ==
  ASSUME Inv, NEW c \in Completions,
         PublishRequestDone(c) \/ FinalizeOwn(c), TypeOK'
  PROVE  Inv'
<1> USE DEF Inv
<1>1. CASE PublishRequestDone(c)
  <2>1. \A m \in net' : m \in net \/ m.kind = "requestDone"
    BY <1>1 DEF PublishRequestDone, Announced, RequestDone
  <2>2. AcksAreTrue'
    BY <1>1, <2>1 DEF PublishRequestDone, AcksAreTrue, IsApplied
  <2>3. Counted' /\ Remembered'
    BY <1>1 DEF PublishRequestDone, Counted, Remembered, IsApplied
  <2>4. NeverForgotten'
    BY <1>1 DEF PublishRequestDone, NeverForgotten, GivenUp, IsApplied, TypeOK
  <2> QED BY <2>2, <2>3, <2>4
<1>2. CASE FinalizeOwn(c)
  <2>1. Owner[c] \in Instances /\ net \in SUBSET net
    OBVIOUS
  <2> QED BY <1>2, <2>1, FinalizeInv DEF FinalizeOwn
<1> QED BY <1>1, <1>2

LEMMA TickInv ==
  ASSUME Inv, NEW i \in Instances, WorkerTick(i) \/ ControllerTick(i), TypeOK'
  PROVE  Inv'
<1> USE DEF Inv
<1>1. CASE WorkerTick(i)
  <2>1. PICK cs \in SUBSET {c \in Completions : Owner[c] = i /\ pending[i][c].held} :
          ForwardPending(i, cs)
    BY <1>1 DEF WorkerTick, Held
  <2>2. \A j \in Instances, d \in Completions :
          pending'[j][d] = IF j # i THEN pending[j][d]
                           ELSE IF d \in cs THEN Forwarded(pending[i][d])
                           ELSE IF Owner[d] = i THEN pending[i][d]
                           ELSE Dropped(pending[i][d])
    BY <2>1 DEF ForwardPending, WithoutCopies, TypeOK
  <2>3. \A j \in Instances, d \in Completions :
          pending'[j][d].at = pending[j][d].at
    <3> SUFFICES ASSUME NEW j \in Instances, NEW d \in Completions
                 PROVE  pending'[j][d].at = pending[j][d].at
      OBVIOUS
    <3>1. pending[j][d] \in RecordType /\ pending[i][d] \in RecordType
      BY ValueTypes
    <3>2. \/ pending'[j][d] = pending[j][d]
          \/ j = i /\ pending'[j][d] = Forwarded(pending[i][d])
          \/ j = i /\ pending'[j][d] = Dropped(pending[i][d])
      BY <2>2
    <3> QED BY <3>1, <3>2, RecordFacts
  <2>4. Counted'
    BY <1>1, <2>3 DEF WorkerTick, Counted
  <2>6. ASSUME NEW j \in Instances, NEW d \in completed'[j]
        PROVE  /\ ~pending'[j][d].held
               /\ \/ IsApplied(d)
                  \/ Owner[d] = j /\ pending'[j][d].forwards = MaxForwards
    <3>0. d \in Completions
      BY <2>6 DEF TypeOK
    <3>1. CASE d \in completed[j]
      <4>1. /\ ~pending[j][d].held
            /\ \/ IsApplied(d)
               \/ Owner[d] = j /\ pending[j][d].forwards = MaxForwards
        BY <3>1 DEF Remembered
      <4>2. ~(j = i /\ d \in cs)
        BY <4>1
      <4>3. /\ pending'[j][d].held => pending[j][d].held
            /\ pending'[j][d].forwards = pending[j][d].forwards
        <5>1. pending[j][d] \in RecordType
          BY <3>0, ValueTypes
        <5>2. \/ pending'[j][d] = pending[j][d]
              \/ j = i /\ pending'[j][d] = Dropped(pending[j][d])
          BY <2>2, <3>0, <4>2
        <5> QED BY <5>1, <5>2, RecordFacts
      <4> QED BY <4>1, <4>3
    <3>2. CASE d \notin completed[j]
      <4>1. j = i /\ d \in cs /\ pending[i][d].forwards >= MaxForwards
        BY <2>1, <3>2 DEF ForwardPending, TypeOK
      <4>2. pending'[j][d] = Forwarded(pending[i][d])
        BY <2>2, <3>0, <4>1
      <4>3. ~pending'[j][d].held /\ pending'[j][d].forwards = MaxForwards
        <5>1. pending[i][d] \in RecordType
          BY <3>0, ValueTypes
        <5> QED BY <4>1, <4>2, <5>1, RecordFacts
      <4> QED BY <4>1, <4>3
    <3> QED BY <3>1, <3>2
  <2>7. Remembered'
    BY <1>1, <2>6 DEF WorkerTick, Remembered, IsApplied
  <2>8. AcksAreTrue'
    <3>1. \A m \in net' : m \in net \/ m.kind = "requestDone"
      BY <2>1 DEF ForwardPending, Announced, RequestDone
    <3> QED BY <1>1, <3>1 DEF WorkerTick, AcksAreTrue, IsApplied
  <2>9. NeverForgotten'
    <3> SUFFICES ASSUME NEW d \in Completions, phase[d] = "finalized",
                        Owner[d] \in up, ~IsApplied(d)
                 PROVE  pending'[Owner[d]][d].held \/ GivenUp(d)'
      BY <1>1 DEF NeverForgotten, IsApplied, WorkerTick
    <3>0. completed[Owner[d]] \subseteq completed'[Owner[d]]
      BY <2>1 DEF ForwardPending, TypeOK
    <3>o. Owner[d] \in Instances
      OBVIOUS
    <3>1. CASE ~(Owner[d] = i /\ d \in cs)
      <4>1. pending'[Owner[d]][d] = pending[Owner[d]][d]
        BY <2>2, <3>o, <3>1
      <4> QED BY <3>0, <4>1 DEF NeverForgotten, GivenUp
    <3>2. CASE Owner[d] = i /\ d \in cs /\ pending[i][d].forwards >= MaxForwards
      <4>1. d \in completed'[i]
        BY <2>1, <3>2 DEF ForwardPending, TypeOK
      <4>2. pending'[i][d].forwards = MaxForwards
        <5>1. pending[i][d] \in RecordType
          BY ValueTypes
        <5>2. pending'[i][d] = Forwarded(pending[i][d])
          BY <2>2, <3>2
        <5> QED BY <3>2, <5>1, <5>2, RecordFacts
      <4> QED BY <3>2, <4>1, <4>2 DEF GivenUp
    <3>3. CASE Owner[d] = i /\ d \in cs /\ ~(pending[i][d].forwards >= MaxForwards)
      <4>1. pending'[i][d].held = pending[i][d].held
        <5>1. pending[i][d] \in RecordType
          BY ValueTypes
        <5>2. pending'[i][d] = Forwarded(pending[i][d])
          BY <2>2, <3>3
        <5> QED BY <3>3, <5>1, <5>2, RecordFacts
      <4> QED BY <3>3, <4>1
    <3> QED BY <3>1, <3>2, <3>3
  <2> QED BY <2>4, <2>7, <2>8, <2>9
<1>2. CASE ControllerTick(i)
  <2>1. Counted'
    <3> SUFFICES ASSUME NEW j \in Instances, NEW d \in Completions
                 PROVE  sweep'[j][d].at <= applied[d]
      BY <1>2 DEF Counted, ControllerTick
    <3>1. applied[d] \in Nat /\ sweep[j][d].at <= applied[d]
      BY DEF TypeOK, Counted
    <3>2. sweep'[j][d].at \in {sweep[j][d].at, 0}
      BY <1>2 DEF ControllerTick, Snapshot, Ref, NoRef, TypeOK
    <3> QED BY <3>1, <3>2
  <2> QED BY <1>2, <2>1 DEF ControllerTick, Remembered, AcksAreTrue,
             NeverForgotten, GivenUp, IsApplied
<1> QED BY <1>1, <1>2

LEMMA RoleInv ==
  ASSUME Inv, NEW i \in Instances,
         Elect(i) \/ UpdateRole(i) \/ Crash(i), TypeOK'
  PROVE  Inv'
<1> USE DEF Inv
<1>1. ASSUME Promoted(i), completed' = completed, applied' = applied,
             up' = up, phase' = phase, net' = net, flush' = flush
      PROVE  Inv'
  <2>0. \A j \in Instances, d \in Completions : pending[j][d] \in RecordType
    BY ValueTypes
  <2>1. \A j \in Instances, d \in Completions :
          pending'[j][d] = IF j = i /\ Owner[d] # i THEN Dropped(pending[j][d])
                           ELSE pending[j][d]
    BY <1>1 DEF Promoted, WithoutCopies, TypeOK
  <2>2. \A j \in Instances, d \in Completions :
          /\ pending'[j][d].at = pending[j][d].at
          /\ pending'[j][d].forwards = pending[j][d].forwards
          /\ pending'[j][d].held => pending[j][d].held
          /\ Owner[d] = j => pending'[j][d].held = pending[j][d].held
    BY <2>0, <2>1, RecordFacts
  <2>3. Counted'
    <3> SUFFICES ASSUME NEW j \in Instances, NEW d \in Completions
                 PROVE  sweep'[j][d].at <= applied[d]
      BY <1>1, <2>2 DEF Counted
    <3>1. applied[d] \in Nat /\ sweep[j][d].at <= applied[d]
      BY DEF TypeOK, Counted
    <3>2. sweep'[j][d].at \in {sweep[j][d].at, 0}
      BY <1>1 DEF Promoted, Snapshot, Ref, NoRef, TypeOK
    <3> QED BY <3>1, <3>2
  <2>4. Remembered'
    <3>1. \A j \in Instances : completed[j] \subseteq Completions
      BY DEF TypeOK
    <3> QED BY <1>1, <2>2, <3>1 DEF Remembered, IsApplied
  <2>5. AcksAreTrue'
    BY <1>1 DEF AcksAreTrue, IsApplied
  <2>6. NeverForgotten'
    <3>1. \A d \in Completions : Owner[d] \in Instances
      OBVIOUS
    <3> QED BY <1>1, <2>2, <3>1 DEF NeverForgotten, IsApplied, GivenUp
  <2> QED BY <2>3, <2>4, <2>5, <2>6
<1>2. CASE Elect(i)
  BY <1>1, <1>2 DEF Elect
<1>3. CASE UpdateRole(i)
  <2>1. CASE IsController(i)
    BY <1>3, <2>1 DEF UpdateRole, Counted, Remembered, AcksAreTrue,
       NeverForgotten, GivenUp, IsApplied
  <2>2. CASE ~IsController(i)
    BY <1>1, <1>3, <2>2 DEF UpdateRole
  <2> QED BY <2>1, <2>2
<1>4. CASE Crash(i)
  <2>0. \A j \in Instances, d \in Completions :
          /\ j # i => /\ pending'[j] = pending[j] /\ flush'[j] = flush[j]
                      /\ sweep'[j] = sweep[j] /\ completed'[j] = completed[j]
          /\ j = i => /\ pending'[j][d].at = 0 /\ flush'[j][d].at = 0
                      /\ sweep'[j][d].at = 0 /\ completed'[j] = {}
    BY <1>4 DEF Crash, TypeOK, NoRecord, NoRef
  <2>1. Counted'
    <3>1. \A d \in Completions : applied[d] \in Nat /\ applied'[d] = applied[d]
      BY <1>4 DEF Crash, TypeOK
    <3> QED BY <2>0, <3>1 DEF Counted
  <2>2. Remembered'
    <3> SUFFICES ASSUME NEW j \in Instances, NEW d \in completed'[j]
                 PROVE  /\ ~pending'[j][d].held
                        /\ \/ IsApplied(d)
                           \/ Owner[d] = j /\ pending'[j][d].forwards = MaxForwards
      BY <1>4 DEF Crash, Remembered, IsApplied
    <3>1. d \in Completions
      BY DEF TypeOK
    <3>2. j # i
      BY <2>0, <3>1
    <3> QED BY <2>0, <3>1, <3>2 DEF Remembered
  <2>3. AcksAreTrue'
    BY <1>4 DEF Crash, AcksAreTrue, IsApplied
  <2>4. NeverForgotten'
    <3> SUFFICES ASSUME NEW d \in Completions, phase[d] = "finalized",
                        Owner[d] \in up'
                 PROVE  \/ IsApplied(d)
                        \/ pending'[Owner[d]][d].held \/ GivenUp(d)'
      BY <1>4 DEF NeverForgotten, IsApplied, Crash
    <3>1. Owner[d] \in up /\ Owner[d] # i /\ Owner[d] \in Instances
      BY <1>4 DEF Crash
    <3> QED BY <2>0, <3>1 DEF NeverForgotten, GivenUp
  <2> QED BY <2>1, <2>2, <2>3, <2>4
<1> QED BY <1>2, <1>3, <1>4

LEMMA FlushStepInv ==
  ASSUME Inv, NEW i \in Instances, NEW c \in Completions,
         \/ ForwardDue(i, c) \/ SweepNext(i, c) \/ ApplyPart(i, c)
         \/ FailPart(i, c) \/ FlushDone(i, c),
         TypeOK',
         \A d \in Completions : /\ applied[d] <= applied'[d]
                                /\ IsApplied(d) => IsApplied(d)'
  PROVE  Inv'
<1> USE DEF Inv
<1>a. \A d \in Completions : applied[d] \in Nat /\ applied'[d] \in Nat
  BY DEF TypeOK
<1>r. \A j \in Instances, d \in Completions :
        pending[j][d] \in RecordType /\ flush[j][d] \in RefType
  BY ValueTypes
<1>h. HandledParts(i, c) \in Nat /\ HandledParts(i, c) <= applied[c]
  <2>1. HandledParts(i, c) \in {pending[i][c].at, flush[i][c].at}
    BY DEF HandledParts, Record
  <2> QED BY <2>1, <1>r DEF Counted, RecordType, RefType
<1>1. CASE ForwardDue(i, c)
  <2>1. \A j \in Instances, d \in Completions :
          /\ pending'[j][d].at = pending[j][d].at
          /\ pending'[j][d].forwards = pending[j][d].forwards
          /\ pending'[j][d].held = pending[j][d].held
    BY <1>1, <1>r DEF ForwardDue, TypeOK, RecordType
  <2>2. \A d \in Completions : Owner[d] \in Instances
    OBVIOUS
  <2>3. \A j \in Instances : completed[j] \subseteq Completions
    BY DEF TypeOK
  <2>4. Counted' /\ AcksAreTrue'
    BY <1>1, <2>1 DEF ForwardDue, Counted, AcksAreTrue, IsApplied
  <2>5. Remembered'
    BY <1>1, <2>1, <2>3 DEF ForwardDue, Remembered, IsApplied
  <2>6. NeverForgotten'
    BY <1>1, <2>1, <2>2 DEF ForwardDue, NeverForgotten, GivenUp, IsApplied
  <2> QED BY <2>4, <2>5, <2>6
<1>2. CASE SweepNext(i, c)
  <2>1. Counted'
    <3> SUFFICES ASSUME NEW j \in Instances, NEW d \in Completions
                 PROVE  flush'[j][d].at <= applied[d] /\ sweep'[j][d].at <= applied[d]
      BY <1>2 DEF Counted, SweepNext
    <3>1. /\ flush'[j][d].at \in {flush[j][d].at, sweep[j][d].at}
          /\ sweep'[j][d].at \in {sweep[j][d].at, 0}
      BY <1>2 DEF SweepNext, NoRef, TypeOK
    <3> QED BY <1>a, <3>1 DEF Counted
  <2> QED BY <1>2, <2>1 DEF SweepNext, Remembered, AcksAreTrue,
             NeverForgotten, GivenUp, IsApplied
<1>3. CASE ApplyPart(i, c)
  <2> DEFINE n == HandledParts(i, c) + 1
  <2>1. n <= applied'[c]
    BY <1>3, <1>a, <1>h DEF ApplyPart, TypeOK
  <2>2. \A j \in Instances, d \in Completions :
          /\ \/ pending'[j][d] = pending[j][d]
             \/ /\ j = i /\ d = c /\ pending'[j][d].at = n
                /\ pending'[j][d].held = pending[j][d].held
                /\ pending'[j][d].forwards = pending[j][d].forwards
          /\ \/ flush'[j][d].at = flush[j][d].at
             \/ j = i /\ d = c /\ flush'[j][d].at = n
    <3>1. CASE flush[i][c].linked
      <4>1. /\ pending' = [pending EXCEPT ![i][c] = [pending[i][c] EXCEPT !.at = n]]
            /\ flush' = flush
        BY <1>3, <3>1 DEF ApplyPart
      <4>2. /\ [pending[i][c] EXCEPT !.at = n].at = n
            /\ [pending[i][c] EXCEPT !.at = n].held = pending[i][c].held
            /\ [pending[i][c] EXCEPT !.at = n].forwards = pending[i][c].forwards
        BY <1>r DEF RecordType
      <4>3. \A j \in Instances, d \in Completions :
              pending'[j][d] = IF j = i /\ d = c THEN [pending[i][c] EXCEPT !.at = n]
                               ELSE pending[j][d]
        <5> DEFINE v == [pending[i][c] EXCEPT !.at = n]
        <5>1. pending' = [pending EXCEPT ![i][c] = v]
          BY <4>1
        <5> HIDE DEF v
        <5>2. \A j \in Instances, d \in Completions :
                pending'[j][d] = IF j = i /\ d = c THEN v ELSE pending[j][d]
          BY <5>1 DEF TypeOK
        <5> QED BY <5>2 DEF v
      <4> HIDE DEF n
      <4>4. ASSUME NEW j \in Instances, NEW d \in Completions
              PROVE  \/ pending'[j][d] = pending[j][d]
                     \/ /\ j = i /\ d = c /\ pending'[j][d].at = n
                        /\ pending'[j][d].held = pending[j][d].held
                        /\ pending'[j][d].forwards = pending[j][d].forwards
        <5>1. CASE j = i /\ d = c
          BY <4>2, <4>3, <5>1
        <5>2. CASE ~(j = i /\ d = c)
          BY <4>3, <5>2
        <5> QED BY <5>1, <5>2
      <4>5. flush' = flush
        BY <4>1
      <4> QED BY <4>4, <4>5
    <3>2. CASE ~flush[i][c].linked
      <4>1. /\ flush' = [flush EXCEPT ![i][c] = [flush[i][c] EXCEPT !.at = n]]
            /\ pending' = pending
        BY <1>3, <3>2 DEF ApplyPart
      <4>2. [flush[i][c] EXCEPT !.at = n].at = n
        BY <1>r DEF RefType
      <4>3. \A j \in Instances, d \in Completions :
              flush'[j][d] = IF j = i /\ d = c THEN [flush[i][c] EXCEPT !.at = n]
                             ELSE flush[j][d]
        <5> DEFINE v == [flush[i][c] EXCEPT !.at = n]
        <5>1. flush' = [flush EXCEPT ![i][c] = v]
          BY <4>1
        <5> HIDE DEF v
        <5>2. \A j \in Instances, d \in Completions :
                flush'[j][d] = IF j = i /\ d = c THEN v ELSE flush[j][d]
          BY <5>1 DEF TypeOK
        <5> QED BY <5>2 DEF v
      <4> HIDE DEF n
      <4>4. ASSUME NEW j \in Instances, NEW d \in Completions
              PROVE  \/ flush'[j][d].at = flush[j][d].at
                     \/ j = i /\ d = c /\ flush'[j][d].at = n
        <5>1. CASE j = i /\ d = c
          BY <4>2, <4>3, <5>1
        <5>2. CASE ~(j = i /\ d = c)
          BY <4>3, <5>2
        <5> QED BY <5>1, <5>2
      <4>5. pending' = pending
        BY <4>1
      <4> QED BY <4>4, <4>5
    <3> QED BY <3>1, <3>2
  <2>3. Counted'
    <3> SUFFICES ASSUME NEW j \in Instances, NEW d \in Completions
                 PROVE  /\ pending'[j][d].at <= applied'[d]
                        /\ flush'[j][d].at <= applied'[d]
                        /\ sweep'[j][d].at <= applied'[d]
      BY DEF Counted
    <3>1. /\ pending[j][d].at <= applied[d] /\ flush[j][d].at <= applied[d]
          /\ sweep[j][d].at <= applied[d]
          /\ pending[j][d].at \in Nat /\ flush[j][d].at \in Nat
          /\ sweep[j][d].at \in Nat
      BY DEF Counted, TypeOK, RecordType, RefType
    <3>2. sweep' = sweep /\ applied[d] <= applied'[d]
      BY <1>3 DEF ApplyPart
    <3>3. pending'[j][d].at = pending[j][d].at
          \/ (d = c /\ pending'[j][d].at = n)
      BY <2>2
    <3>4. flush'[j][d].at = flush[j][d].at
          \/ (d = c /\ flush'[j][d].at = n)
      BY <2>2
    <3> HIDE DEF n
    <3> QED BY <1>a, <2>1, <3>1, <3>2, <3>3, <3>4
  <2>4. \A j \in Instances, d \in Completions :
          /\ pending'[j][d].held = pending[j][d].held
          /\ pending'[j][d].forwards = pending[j][d].forwards
    BY <2>2
  <2>5. Remembered'
    <3>1. \A j \in Instances : completed[j] \subseteq Completions
      BY DEF TypeOK
    <3>2. completed' = completed
      BY <1>3 DEF ApplyPart
    <3> QED BY <2>4, <3>1, <3>2 DEF Remembered
  <2>6. AcksAreTrue'
    BY <1>3 DEF ApplyPart, AcksAreTrue, TypeOK, Messages
  <2>7. NeverForgotten'
    <3>1. \A d \in Completions : Owner[d] \in Instances
      OBVIOUS
    <3>2. up' = up /\ phase' = phase /\ completed' = completed
      BY <1>3 DEF ApplyPart
    <3> QED BY <2>4, <3>1, <3>2 DEF NeverForgotten, GivenUp
  <2> QED BY <2>3, <2>5, <2>6, <2>7
<1>4. CASE FailPart(i, c)
  <2>1. Counted'
    <3> SUFFICES ASSUME NEW j \in Instances, NEW d \in Completions
                 PROVE  /\ pending[j][d].at <= applied'[d]
                        /\ flush'[j][d].at <= applied'[d]
                        /\ sweep[j][d].at <= applied'[d]
      BY <1>4 DEF Counted, FailPart
    <3>1. /\ pending[j][d].at <= applied[d] /\ flush[j][d].at <= applied[d]
          /\ sweep[j][d].at <= applied[d]
          /\ pending[j][d].at \in Nat /\ flush[j][d].at \in Nat
          /\ sweep[j][d].at \in Nat
      BY DEF Counted, TypeOK, RecordType, RefType
    <3>2. flush'[j][d].at \in {flush[j][d].at, 0}
      BY <1>4 DEF FailPart, NoRef, TypeOK
    <3>3. applied[d] <= applied'[d]
      OBVIOUS
    <3> QED BY <1>a, <3>1, <3>2, <3>3
  <2>2. Remembered'
    <3>1. \A j \in Instances : completed[j] \subseteq Completions
      BY DEF TypeOK
    <3> QED BY <1>4, <3>1 DEF FailPart, Remembered
  <2>3. AcksAreTrue'
    BY <1>4 DEF FailPart, AcksAreTrue, TypeOK, Messages
  <2>4. NeverForgotten'
    BY <1>4 DEF FailPart, NeverForgotten, GivenUp
  <2> QED BY <2>1, <2>2, <2>3, <2>4
<1>5. CASE FlushDone(i, c)
  <2>0. IsApplied(c)
    <3>1. applied[c] \in 0 .. Steps
      BY DEF TypeOK
    <3>2. HandledParts(i, c) = Steps
      BY <1>5 DEF FlushDone
    <3>3. Steps <= applied[c]
      BY <1>h, <3>2
    <3> QED BY <3>1, <3>3 DEF IsApplied
  <2>1. \A j \in Instances, d \in Completions :
          pending'[j][d] = IF j = i /\ d = c THEN Dropped(pending[j][d])
                           ELSE pending[j][d]
    BY <1>5 DEF FlushDone, TypeOK
  <2>2. \A j \in Instances, d \in Completions :
          /\ pending'[j][d].at = pending[j][d].at
          /\ pending'[j][d].forwards = pending[j][d].forwards
          /\ j = i /\ d = c => ~pending'[j][d].held
          /\ ~(j = i /\ d = c) => pending'[j][d] = pending[j][d]
    BY <1>r, <2>1, RecordFacts
  <2>3. Counted'
    <3> SUFFICES ASSUME NEW j \in Instances, NEW d \in Completions
                 PROVE  flush'[j][d].at <= applied[d]
      BY <1>5, <2>2 DEF Counted, FlushDone
    <3>1. flush'[j][d].at \in {flush[j][d].at, 0}
      BY <1>5 DEF FlushDone, NoRef, TypeOK
    <3> QED BY <1>a, <3>1 DEF Counted
  <2>4. Remembered'
    <3>1. \A j \in Instances : \A d \in completed'[j] :
             d \in Completions /\ (d \in completed[j] \/ (j = i /\ d = c))
      BY <1>5 DEF FlushDone, TypeOK
    <3> QED BY <1>5, <2>0, <2>2, <3>1 DEF FlushDone, Remembered, IsApplied
  <2>5. AcksAreTrue'
    <3>1. \A m \in net' : m \in net \/ m.c = c
      BY <1>5 DEF FlushDone, Acknowledged, AppliedTo
    <3> QED BY <1>5, <2>0, <3>1 DEF FlushDone, AcksAreTrue, IsApplied
  <2>6. NeverForgotten'
    <3> SUFFICES ASSUME NEW d \in Completions, phase[d] = "finalized",
                        Owner[d] \in up, ~IsApplied(d)
                 PROVE  pending'[Owner[d]][d].held \/ GivenUp(d)'
      BY <1>5 DEF NeverForgotten, IsApplied, FlushDone
    <3>1. d # c /\ Owner[d] \in Instances
      BY <2>0
    <3>2. pending'[Owner[d]][d] = pending[Owner[d]][d]
      BY <2>2, <3>1
    <3>3. completed[Owner[d]] \subseteq completed'[Owner[d]]
      BY <1>5 DEF FlushDone, TypeOK
    <3> QED BY <3>2, <3>3 DEF NeverForgotten, GivenUp
  <2> QED BY <2>3, <2>4, <2>5, <2>6
<1> QED BY <1>1, <1>2, <1>3, <1>4, <1>5

LEMMA NextInv == Inv /\ [Next]_vars => Inv'
<1> SUFFICES ASSUME Inv, [Next]_vars
             PROVE  Inv'
  OBVIOUS
<1>0. TypeOK'
  BY NextType DEF Inv
<1>1. \A d \in Completions : /\ applied[d] <= applied'[d]
                             /\ IsApplied(d) => IsApplied(d)'
  BY AppliedGrows DEF Inv
<1>2. CASE UNCHANGED vars
  BY <1>2, <1>0 DEF vars, Inv, Counted, Remembered, AcksAreTrue,
     NeverForgotten, GivenUp, IsApplied
<1>3. CASE Next
  BY <1>0, <1>1, <1>3, OwnerInv, MessageInv, TickInv, RoleInv, FlushStepInv
  DEF Next
<1> QED BY <1>2, <1>3

\* While its owner lives, a completion is applied in every part, or retained
\* by its owner, or was announced for the last time: for every fleet, and
\* whatever is lost, fails, crashes or is promoted.
THEOREM CompletionsNeverForgotten == Spec => []NeverForgotten
<1>1. Init => Inv
  BY InitType DEF Init, Inv, Counted, Remembered, AcksAreTrue, NeverForgotten,
     NoRecord, NoRef
<1>2. Inv /\ [Next]_vars => Inv'
  BY NextInv
<1>3. Inv => NeverForgotten
  BY DEF Inv
<1> QED BY <1>1, <1>2, <1>3, PTL DEF Spec

---------------------------------------------------------------------------
(* A retained copy is never replayed.                                      *)

\* What one replica may hold of another's completion: whatever a flush or a
\* snapshot refers to was stored by a controller, and so was whatever a
\* controller retains.
Heard(i, c) ==
    Owner[c] # i =>
        /\ flush[i][c].on => Record(flush[i][c], i, c).byController
        /\ sweep[i][c].on => Record(sweep[i][c], i, c).byController
        /\ IsController(i) /\ pending[i][c].held => pending[i][c].byController

ReplayInv == TypeOK /\ \A i \in Instances, c \in Completions : Heard(i, c)

\* A step that stores nothing, promotes nobody who keeps a copy, and starts a
\* flush only from the snapshot.
LEMMA HeardKept ==
  ASSUME NEW i \in Instances, NEW c \in Completions, Heard(i, c),
         pending'[i][c].byController = pending[i][c].byController,
         pending'[i][c].held => pending[i][c].held,
         flush'[i][c].on =>
            \/ /\ flush[i][c].on /\ flush'[i][c].linked = flush[i][c].linked
               /\ flush'[i][c].byController = flush[i][c].byController
            \/ sweep[i][c].on /\ flush'[i][c] = sweep[i][c],
         sweep'[i][c].on => sweep'[i][c] = sweep[i][c],
         role'[i] = "controller" /\ pending'[i][c].held => role[i] = "controller"
  PROVE  Heard(i, c)'
<1> SUFFICES ASSUME Owner[c] # i
             PROVE  /\ flush'[i][c].on => Record(flush[i][c], i, c)'.byController
                    /\ sweep'[i][c].on => Record(sweep[i][c], i, c)'.byController
                    /\ role'[i] = "controller" /\ pending'[i][c].held
                       => pending'[i][c].byController
  BY DEF Heard, IsController
<1>1. flush'[i][c].on => Record(flush[i][c], i, c)'.byController
  BY DEF Heard, Record
<1>2. sweep'[i][c].on => Record(sweep[i][c], i, c)'.byController
  BY DEF Heard, Record
<1>3. role'[i] = "controller" /\ pending'[i][c].held
      => pending'[i][c].byController
  BY DEF Heard, IsController
<1> QED BY <1>1, <1>2, <1>3

\* Another replica's completion is heard of.
LEMMA FinalizeHeard ==
  ASSUME ReplayInv, NEW i \in Instances, NEW c \in Completions, NEW others,
         FinalizeOwnedRequest(i, c, others), role' = role
  PROVE  \A j \in Instances, d \in Completions : Heard(j, d)'
<1> SUFFICES ASSUME NEW j \in Instances, NEW d \in Completions
             PROVE  Heard(j, d)'
  OBVIOUS
<1>h. TypeOK /\ Heard(j, d)
  BY DEF ReplayInv
<1>1. CASE c \in completed[i]
  <2>1. pending' = pending /\ flush' = flush /\ sweep' = sweep
    BY <1>1 DEF FinalizeOwnedRequest
  <2> QED BY <1>h, <2>1, HeardKept
<1>2. CASE c \notin completed[i] /\ ~(j = i /\ d = c)
  <2>1. /\ pending'[j][d] = pending[j][d] /\ flush'[j][d] = flush[j][d]
        /\ sweep'[j][d] = sweep[j][d]
    BY <1>h, <1>2 DEF FinalizeOwnedRequest, TypeOK
  <2> QED BY <1>h, <2>1, HeardKept
<1>3. CASE c \notin completed[i] /\ j = i /\ d = c
  <2>1. /\ pending'[i][c] = Stored(i, c)
        /\ sweep'[i][c] = Kept(sweep[i][c], i, c)
        /\ flush'[i][c] = IF IsController(i) /\ ~flush[i][c].on THEN Ref
                          ELSE Kept(flush[i][c], i, c)
    BY <1>h, <1>3 DEF FinalizeOwnedRequest, TypeOK
  <2>2. /\ Ref.on /\ Ref.linked
        /\ ~pending[i][c].held =>
             Stored(i, c).byController = IsController(i)
        /\ pending[i][c].held => Stored(i, c) = pending[i][c]
    BY DEF Ref, NoRef, Stored, NoRecord
  <2>3. Owner[c] # i /\ IsController(i) => pending'[i][c].byController
    BY <1>h, <1>3, <2>1, <2>2 DEF Heard
  <2>4. ASSUME NEW ref \in RefType, ref.on => Record(ref, i, c).byController,
               Kept(ref, i, c).on
        PROVE  IF Kept(ref, i, c).linked THEN Stored(i, c).byController
               ELSE Kept(ref, i, c).byController
    <3>1. CASE ref.linked /\ ~pending[i][c].held
      BY <2>4, <3>1 DEF Kept, Record
    <3>2. CASE ~(ref.linked /\ ~pending[i][c].held)
      <4>1. Kept(ref, i, c) = ref
        BY <3>2 DEF Kept
      <4> QED BY <2>2, <2>4, <3>2, <4>1 DEF Record
    <3> QED BY <3>1, <3>2
  <2>5. flush[i][c] \in RefType /\ sweep[i][c] \in RefType
    BY <1>h, ValueTypes
  <2>6. Owner[c] # i /\ sweep'[i][c].on
        => Record(sweep[i][c], i, c)'.byController
    BY <1>h, <1>3, <2>1, <2>4, <2>5 DEF Heard, Record
  <2>7. Owner[c] # i /\ flush'[i][c].on
        => Record(flush[i][c], i, c)'.byController
    <3>1. CASE IsController(i) /\ ~flush[i][c].on
      BY <2>1, <2>2, <2>3, <3>1 DEF Record
    <3>2. CASE ~(IsController(i) /\ ~flush[i][c].on)
      BY <1>h, <1>3, <2>1, <2>4, <2>5, <3>2 DEF Heard, Record
    <3> QED BY <3>1, <3>2
  <2> QED BY <1>3, <2>3, <2>6, <2>7 DEF Heard, IsController
<1> QED BY <1>1, <1>2, <1>3

\* On promotion nothing of another's is kept, and nothing of it snapshot.
LEMMA PromotedHeard ==
  ASSUME ReplayInv, NEW i \in Instances, Promoted(i), flush' = flush
  PROVE  \A j \in Instances, d \in Completions : Heard(j, d)'
<1> SUFFICES ASSUME NEW j \in Instances, NEW d \in Completions,
                    Owner[d] # j
             PROVE  Heard(j, d)'
  BY DEF Heard
<1>h. TypeOK /\ Heard(j, d)
  BY DEF ReplayInv
<1>1. CASE j # i
  <2>1. /\ role'[j] = role[j] /\ pending'[j] = pending[j]
        /\ sweep'[j] = sweep[j]
    BY <1>h, <1>1 DEF Promoted, TypeOK
  <2> QED BY <1>h, <2>1, HeardKept
<1>2. CASE j = i
  <2>1. pending'[i] = WithoutCopies(i) /\ sweep'[i] = Snapshot(WithoutCopies(i))
    BY <1>h DEF Promoted, TypeOK
  <2>2. WithoutCopies(i)[d] = Dropped(pending[i][d])
    BY <1>2 DEF WithoutCopies
  <2>3. pending[i][d] \in RecordType
    BY <1>h, ValueTypes
  <2>4. /\ ~pending'[i][d].held
        /\ pending'[i][d].byController = pending[i][d].byController
    BY <2>1, <2>2, <2>3, RecordFacts
  <2>5. ~sweep'[i][d].on
    BY <2>1, <2>2, <2>3, RecordFacts DEF Snapshot, NoRef
  <2> QED BY <1>h, <1>2, <2>4, <2>5, HeardKept
<1> QED BY <1>1, <1>2

LEMMA StepHeard ==
  ASSUME ReplayInv, NEW i \in Instances, NEW c \in Completions,
         \/ ForwardDue(i, c) \/ SweepNext(i, c) \/ ApplyPart(i, c)
         \/ FailPart(i, c) \/ FlushDone(i, c)
  PROVE  \A j \in Instances, d \in Completions : Heard(j, d)'
<1> SUFFICES ASSUME NEW j \in Instances, NEW d \in Completions
             PROVE  Heard(j, d)'
  OBVIOUS
<1>h. TypeOK /\ Heard(j, d)
  BY DEF ReplayInv
<1>r. /\ pending[j][d] \in RecordType /\ flush[j][d] \in RefType
      /\ sweep[j][d] \in RefType
  BY <1>h, ValueTypes
<1>1. CASE ForwardDue(i, c)
  <2>1. /\ pending'[j][d].byController = pending[j][d].byController
        /\ pending'[j][d].held = pending[j][d].held
    BY <1>1, <1>h, <1>r DEF ForwardDue, TypeOK, RecordType
  <2>2. flush' = flush /\ sweep' = sweep /\ role' = role
    BY <1>1 DEF ForwardDue
  <2> QED BY <1>h, <2>1, <2>2, HeardKept
<1>2. CASE SweepNext(i, c)
  <2>1. pending' = pending /\ role' = role
    BY <1>2 DEF SweepNext
  <2>2. /\ sweep'[j][d] = IF j = i /\ d = c THEN NoRef ELSE sweep[j][d]
        /\ \/ flush'[j][d] = flush[j][d]
           \/ j = i /\ d = c /\ flush'[j][d] = sweep[j][d] /\ sweep[j][d].on
    BY <1>2, <1>h DEF SweepNext, TypeOK
  <2>3. ~NoRef.on
    BY DEF NoRef
  <2> QED BY <1>h, <2>1, <2>2, <2>3, HeardKept
<1>3. CASE ApplyPart(i, c)
  <2> DEFINE n == HandledParts(i, c) + 1
  <2>1. sweep' = sweep /\ role' = role
    BY <1>3 DEF ApplyPart
  <2>2. /\ pending'[j][d].byController = pending[j][d].byController
        /\ pending'[j][d].held = pending[j][d].held
    <3>1. CASE flush[i][c].linked
      <4>1. pending' = [pending EXCEPT ![i][c].at = n]
        BY <1>3, <3>1 DEF ApplyPart
      <4> HIDE DEF n
      <4> QED BY <4>1, <1>h, <1>r DEF TypeOK, RecordType
    <3>2. CASE ~flush[i][c].linked
      BY <1>3, <3>2 DEF ApplyPart
    <3> QED BY <3>1, <3>2
  <2>3. /\ flush'[j][d].on = flush[j][d].on
        /\ flush'[j][d].linked = flush[j][d].linked
        /\ flush'[j][d].byController = flush[j][d].byController
    <3>1. CASE ~flush[i][c].linked
      <4>1. flush' = [flush EXCEPT ![i][c].at = n]
        BY <1>3, <3>1 DEF ApplyPart
      <4> HIDE DEF n
      <4> QED BY <4>1, <1>h, <1>r DEF TypeOK, RefType
    <3>2. CASE flush[i][c].linked
      BY <1>3, <3>2 DEF ApplyPart
    <3> QED BY <3>1, <3>2
  <2> QED BY <1>h, <2>1, <2>2, <2>3, HeardKept
<1>4. CASE FailPart(i, c)
  <2>1. pending' = pending /\ sweep' = sweep /\ role' = role
    BY <1>4 DEF FailPart
  <2>2. flush'[j][d] \in {flush[j][d], NoRef}
    BY <1>4, <1>h DEF FailPart, TypeOK
  <2>3. ~NoRef.on
    BY DEF NoRef
  <2> QED BY <1>h, <2>1, <2>2, <2>3, HeardKept
<1>5. CASE FlushDone(i, c)
  <2>1. sweep' = sweep /\ role' = role
    BY <1>5 DEF FlushDone
  <2>2. /\ flush'[j][d] \in {flush[j][d], NoRef}
        /\ pending'[j][d] \in {pending[j][d], Dropped(pending[j][d])}
    BY <1>5, <1>h DEF FlushDone, TypeOK
  <2>3. ~NoRef.on
    BY DEF NoRef
  <2>4. /\ pending'[j][d].byController = pending[j][d].byController
        /\ pending'[j][d].held => pending[j][d].held
    BY <1>r, <2>2, RecordFacts
  <2> QED BY <1>h, <2>1, <2>2, <2>3, <2>4, HeardKept
<1> QED BY <1>1, <1>2, <1>3, <1>4, <1>5

LEMMA TickHeard ==
  ASSUME ReplayInv, NEW i \in Instances, WorkerTick(i) \/ ControllerTick(i)
  PROVE  \A j \in Instances, d \in Completions : Heard(j, d)'
<1> SUFFICES ASSUME NEW j \in Instances, NEW d \in Completions
             PROVE  Heard(j, d)'
  OBVIOUS
<1>h. TypeOK /\ Heard(j, d)
  BY DEF ReplayInv
<1>r. pending[j][d] \in RecordType
  BY <1>h, ValueTypes
<1>1. CASE WorkerTick(i)
  <2>1. flush' = flush /\ sweep' = sweep /\ role' = role /\ role[i] # "controller"
    BY <1>1 DEF WorkerTick, IsController
  <2>2. pending'[j][d] \in
           {pending[j][d], Dropped(pending[j][d]), Forwarded(pending[j][d])}
    <3> HIDE DEF Dropped, Forwarded
    <3>1. PICK cs \in SUBSET Completions : ForwardPending(i, cs)
      BY <1>1 DEF WorkerTick, Held
    <3>2. /\ j # i => pending'[j] = pending[j]
          /\ j = i => pending'[j][d] \in
                         {Forwarded(pending[j][d]), WithoutCopies(j)[d]}
      BY <1>h, <3>1 DEF ForwardPending, TypeOK
    <3>3. WithoutCopies(j)[d] \in {pending[j][d], Dropped(pending[j][d])}
      BY DEF WithoutCopies
    <3> QED BY <3>2, <3>3
  <2>3. pending'[j][d].byController = pending[j][d].byController
    BY <1>r, <2>2, RecordFacts
  <2>4. pending'[j][d].held => pending[j][d].held
    BY <1>r, <2>2, RecordFacts
  <2> QED BY <1>h, <2>1, <2>3, <2>4, HeardKept
<1>2. CASE ControllerTick(i)
  <2>1. pending' = pending /\ flush' = flush /\ role' = role /\ IsController(i)
    BY <1>2 DEF ControllerTick
  <2>2. sweep'[j][d] = IF j = i THEN Snapshot(pending[i])[d] ELSE sweep[j][d]
    BY <1>2, <1>h DEF ControllerTick, TypeOK
  <2>3. CASE j # i
    BY <1>h, <2>1, <2>2, <2>3, HeardKept
  <2>4. CASE j = i
    <3>1. sweep'[i][d].on => sweep'[i][d] = Ref /\ pending[i][d].held
      BY <2>2, <2>4 DEF Snapshot, NoRef
    <3>2. Ref.linked
      BY DEF Ref, NoRef
    <3> QED BY <1>h, <2>1, <2>4, <3>1, <3>2 DEF Heard, Record, IsController
  <2> QED BY <2>3, <2>4
<1> QED BY <1>1, <1>2

LEMMA RoleHeard ==
  ASSUME ReplayInv, NEW i \in Instances,
         Elect(i) \/ UpdateRole(i) \/ Crash(i)
  PROVE  \A j \in Instances, d \in Completions : Heard(j, d)'
<1>1. CASE Promoted(i) /\ flush' = flush
  BY <1>1, PromotedHeard
<1>2. CASE /\ role' = [role EXCEPT ![i] = "worker"]
           /\ UNCHANGED <<pending, flush, sweep>>
  <2> SUFFICES ASSUME NEW j \in Instances, NEW d \in Completions
               PROVE  Heard(j, d)'
    OBVIOUS
  <2>1. Heard(j, d) /\ (role'[j] = "controller" => role[j] = "controller")
    BY <1>2 DEF ReplayInv, TypeOK
  <2> QED BY <1>2, <2>1, HeardKept
<1>3. CASE Crash(i)
  <2> SUFFICES ASSUME NEW j \in Instances, NEW d \in Completions
               PROVE  Heard(j, d)'
    OBVIOUS
  <2>1. CASE j # i
    <3>1. /\ Heard(j, d) /\ role'[j] = role[j] /\ pending'[j] = pending[j]
          /\ flush'[j] = flush[j] /\ sweep'[j] = sweep[j]
      BY <1>3, <2>1 DEF Crash, ReplayInv, TypeOK
    <3> QED BY <3>1, HeardKept
  <2>2. CASE j = i
    <3>1. /\ pending'[j][d] = NoRecord /\ flush'[j][d] = NoRef
          /\ sweep'[j][d] = NoRef
      BY <1>3, <2>2 DEF Crash, ReplayInv, TypeOK
    <3>2. ~NoRecord.held /\ ~NoRef.on
      BY DEF NoRecord, NoRef
    <3> QED BY <3>1, <3>2 DEF Heard
  <2> QED BY <2>1, <2>2
<1> QED BY <1>1, <1>2, <1>3 DEF Elect, UpdateRole

LEMMA MessageHeard ==
  ASSUME ReplayInv, NEW m \in Messages,
         RequestDoneApplied(m) \/ OnRequestDone(m) \/ Lose(m)
  PROVE  \A j \in Instances, d \in Completions : Heard(j, d)'
<1>m. m.to \in Instances /\ m.c \in Completions
  BY DEF Messages
<1>1. CASE OnRequestDone(m)
  BY <1>1, <1>m, FinalizeHeard DEF OnRequestDone
<1>2. CASE RequestDoneApplied(m) \/ Lose(m)
  <2> SUFFICES ASSUME NEW j \in Instances, NEW d \in Completions
               PROVE  Heard(j, d)'
    OBVIOUS
  <2>h. TypeOK /\ Heard(j, d)
    BY DEF ReplayInv
  <2>1. flush' = flush /\ sweep' = sweep /\ role' = role
    BY <1>2 DEF RequestDoneApplied, Lose
  <2>2. pending'[j][d] \in {pending[j][d], Dropped(pending[j][d])}
    <3>1. \/ pending' = pending
          \/ pending' = [pending EXCEPT ![m.to][m.c] = Dropped(pending[m.to][m.c])]
      BY <1>2 DEF RequestDoneApplied, Lose
    <3>2. ASSUME NEW i \in Instances, NEW c \in Completions, NEW v,
                 pending' = [pending EXCEPT ![i][c] = v]
          PROVE  pending'[j][d] = IF j = i /\ d = c THEN v ELSE pending[j][d]
      BY <2>h, <3>2 DEF TypeOK
    <3>3. CASE pending' = [pending EXCEPT ![m.to][m.c] = Dropped(pending[m.to][m.c])]
      BY <1>m, <3>2, <3>3
    <3> QED BY <3>1, <3>3
  <2>3. pending[j][d] \in RecordType
    BY <2>h, ValueTypes
  <2>4. /\ pending'[j][d].byController = pending[j][d].byController
        /\ pending'[j][d].held => pending[j][d].held
    BY <2>2, <2>3, RecordFacts
  <2> QED BY <2>h, <2>1, <2>4, HeardKept
<1> QED BY <1>1, <1>2

LEMMA NextReplay == ReplayInv /\ [Next]_vars => ReplayInv'
<1> SUFFICES ASSUME ReplayInv, [Next]_vars
             PROVE  ReplayInv'
  OBVIOUS
<1>0. TypeOK'
  BY NextType DEF ReplayInv
<1> SUFFICES \A j \in Instances, d \in Completions : Heard(j, d)'
  BY <1>0 DEF ReplayInv
<1>1. CASE UNCHANGED vars
  BY <1>1 DEF vars, ReplayInv, Heard, Record, IsController
<1>2. ASSUME NEW c \in Completions, PublishRequestDone(c) \/ FinalizeOwn(c)
      PROVE  \A j \in Instances, d \in Completions : Heard(j, d)'
  <2>1. CASE PublishRequestDone(c)
    BY <2>1 DEF PublishRequestDone, ReplayInv, Heard, Record, IsController
  <2>2. CASE FinalizeOwn(c)
    BY <2>2, FinalizeHeard DEF FinalizeOwn
  <2> QED BY <1>2, <2>1, <2>2
<1>3. CASE Next
  BY <1>2, <1>3, MessageHeard, TickHeard, RoleHeard, StepHeard DEF Next
<1> QED BY <1>1, <1>3

\* updateRole drops the copies a replica retained as a worker before it flushes
\* anything, so that no fleet, order of elections or late message ever has a
\* controller apply another's completion it has not itself heard as one.
THEOREM CopiesNeverReplayed == Spec => []NoReplayOnPromotion
<1>1. Init => ReplayInv
  BY InitType DEF Init, ReplayInv, Heard, NoRecord, NoRef
<1>2. ReplayInv /\ [Next]_vars => ReplayInv'
  BY NextReplay
<1>3. ReplayInv => NoReplayOnPromotion
  BY DEF ReplayInv, Heard, NoReplayOnPromotion
<1> QED BY <1>1, <1>2, <1>3, PTL DEF Spec

===========================================================================
