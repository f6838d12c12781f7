------------------------ MODULE ConsolidateOnceProofs ------------------------
(***************************************************************************)
(* Theorems about ConsolidateOnce for all values of its constants.         *)
(***************************************************************************)
EXTENDS ConsolidateOnce, TLAPS

(***************************************************************************)
(* Type correctness, one lemma per actor.                                  *)
(***************************************************************************)

\* The initial state is well typed.
LEMMA InitTyped == Init => TypeOK
  BY ConstantsAssumption, DistinctAssumption
  DEF Init, TypeOK, EventStates, Phases, Outcomes

\* A step of an event request keeps the types.
LEMMA EventStepTyped ==
  ASSUME TypeOK, NEW e \in Events, EventStep(e)
  PROVE  TypeOK'
<1> USE ConstantsAssumption DEF TypeOK, tableVars, localVars
<1>1. CASE SaveEvent(e)
  BY <1>1 DEF SaveEvent, EventIs, EventStates
<1>2. CASE EnsureWorkingMemory(e)
  BY <1>2 DEF EnsureWorkingMemory, EventIs, EventStates
<1>3. CASE CommitEvent(e)
  BY <1>3 DEF CommitEvent, EventIs, EventStates
<1>4. CASE RollbackEvent(e)
  BY <1>4 DEF RollbackEvent, EventStates
<1>5. CASE LoadMemory(e)
  BY <1>5 DEF LoadMemory, EventIs, EventStates
<1>6. CASE StoreMemory(e)
  BY <1>6 DEF StoreMemory, EventIs, EventStates
<1>7. QED
  BY <1>1, <1>2, <1>3, <1>4, <1>5, <1>6 DEF EventStep

\* A Redis key that expires keeps the types.
LEMMA ExpiryTyped ==
  ASSUME TypeOK, NEW w \in Workspaces, MemoryExpires(w) \/ LockExpires(w)
  PROVE  TypeOK'
<1> USE DEF TypeOK, eventVars, tableVars, localVars
<1>1. CASE MemoryExpires(w)
  BY <1>1 DEF MemoryExpires
<1>2. CASE LockExpires(w)
  BY <1>2 DEF LockExpires
<1>3. QED
  BY <1>1, <1>2

\* Every statement of the transaction is one of the five, at a known phase.
LEMMA StageTyped ==
  ASSUME TypeOK, NEW x \in Executions,
         NEW statement \in Statements, NEW next \in Phases,
         Stage(x, statement, next),
         rowLock' \in [Rows -> Executions \cup {NoExecution}]
  PROVE  TypeOK'
  BY DEF TypeOK, Stage, Goto, eventVars, tableVars, localVars

\* Ending a transaction leaves locks and staged rows well typed.
LEMMA EndTransactionTyped ==
  ASSUME TypeOK, NEW x \in Executions, EndTransaction(x)
  PROVE  /\ rowLock' \in [Rows -> Executions \cup {NoExecution}]
         /\ staged' \in [Executions -> SUBSET Statements]
  BY DEF TypeOK, EndTransaction, Unlocked

\* The steps that take the lock or end the execution keep the types.
LEMMA OutsideStepTyped ==
  ASSUME InductiveInvariant, NEW x \in Executions,
         \/ Start(x) \/ Acquire(x) \/ AcquireTimesOut(x)
         \/ CompareMemory(x) \/ SaveMemory(x) \/ Release(x)
  PROVE  TypeOK'
<1> USE ConstantsAssumption
    DEF InductiveInvariant, TypeOK, eventVars, tableVars, localVars, Goto
<1>1. CASE Start(x)
  BY <1>1 DEF Start, Phases
<1>2. CASE Acquire(x)
  BY <1>2 DEF Acquire, Phases
<1>3. CASE AcquireTimesOut(x)
  BY <1>3 DEF AcquireTimesOut, Phases, Outcomes
<1>4. CASE CompareMemory(x)
  BY <1>4 DEF CompareMemory, Phases, Outcomes
<1>5. CASE SaveMemory(x)
  <2>1. batch[x][2] \in Events
    BY <1>5 DEF SaveMemory, WindowIsHeld, HoldsWindow, Published, Batches
  <2>2. QED
    BY <1>5, <2>1 DEF SaveMemory, Phases, Outcomes
<1>6. CASE Release(x)
  BY <1>6 DEF Release, Phases, Outcomes
<1>7. QED
  BY <1>1, <1>2, <1>3, <1>4, <1>5, <1>6

\* The steps inside the transaction, up to the commit, keep the types.
LEMMA InsideStepTyped ==
  ASSUME InductiveInvariant, NEW x \in Executions,
         \/ GetCursorForUpdate(x) \/ ListEventsAfter(x) \/ NumberCheckpoint(x)
         \/ SaveEvidence(x) \/ SaveCheckpoint(x) \/ SaveCandidates(x)
         \/ AdvanceCursor(x) \/ AddOutboxJob(x)
  PROVE  TypeOK'
<1> USE ConstantsAssumption
    DEF InductiveInvariant, TypeOK, eventVars, tableVars, localVars
<1>1. CASE GetCursorForUpdate(x)
  BY <1>1 DEF GetCursorForUpdate, Goto, Phases, Rows
<1>2. CASE ListEventsAfter(x)
  <2> DEFINE W == EventsAfter(TargetOf[x], before[x])
  <2>1. W \in SUBSET Events
    BY DEF EventsAfter
  <2>2. PICK first, last \in W : batch' = [batch EXCEPT ![x] = <<first, last>>]
    BY <1>2 DEF ListEventsAfter
  <2>3. batch' \in [Executions -> Batches \cup {NoBatch}]
    BY <2>1, <2>2 DEF Batches
  <2>4. task' \in [Executions -> Tasks \cup {NoTask}]
    BY <1>2 DEF ListEventsAfter
  <2>5. QED
    BY <1>2, <2>1, <2>3, <2>4 DEF ListEventsAfter, Goto, Phases
<1>3. CASE NumberCheckpoint(x)
  <2>1. CASE task[x] = NoTask
    BY <1>3, <2>1 DEF NumberCheckpoint, Goto, Phases
  <2>2. CASE task[x] # NoTask
    <3>1. CheckpointNumbers(task[x]) \subseteq Nat
      BY DEF CheckpointNumbers, Checkpoints
    <3>2. number' \in [Executions -> Nat]
      BY <1>3, <2>2, <3>1 DEF NumberCheckpoint
    <3>3. pc' \in [Executions -> Phases]
      BY <1>3 DEF NumberCheckpoint, Goto, Phases
    <3>4. QED
      BY <1>3, <3>2, <3>3 DEF NumberCheckpoint
  <2>3. QED
    BY <2>1, <2>2
<1>4. CASE SaveEvidence(x)
  BY <1>4, StageTyped DEF SaveEvidence, Statements, Phases
<1>5. CASE SaveCheckpoint(x)
  <2>1. CASE task[x] = NoTask
    BY <1>5, <2>1 DEF SaveCheckpoint, Goto, Phases
  <2>2. CASE task[x] # NoTask
    <3>1. /\ Stage(x, "checkpoint", "candidates")
          /\ rowLock' = [rowLock EXCEPT ![task[x]] = x]
      BY <1>5, <2>2 DEF SaveCheckpoint
    <3>2. rowLock' \in [Rows -> Executions \cup {NoExecution}]
      BY <2>2, <3>1 DEF Rows
    <3>3. "checkpoint" \in Statements /\ "candidates" \in Phases
      BY DEF Statements, Phases
    <3>4. QED
      BY <3>1, <3>2, <3>3, StageTyped
  <2>3. QED
    BY <2>1, <2>2
<1>6. CASE SaveCandidates(x)
  BY <1>6, StageTyped DEF SaveCandidates, Statements, Phases
<1>7. CASE AdvanceCursor(x)
  <2>1. rowLock' \in [Rows -> Executions \cup {NoExecution}]
    BY <1>7 DEF AdvanceCursor, Rows
  <2>2. QED
    BY <1>7, <2>1, StageTyped DEF AdvanceCursor, Statements, Phases
<1>8. CASE AddOutboxJob(x)
  BY <1>8, StageTyped DEF AddOutboxJob, Statements, Phases
<1>9. QED
  BY <1>1, <1>2, <1>3, <1>4, <1>5, <1>6, <1>7, <1>8

\* The steps that end the transaction keep the types.
LEMMA EndStepTyped ==
  ASSUME InductiveInvariant, NEW x \in Executions,
         \/ CursorIsMissing(x) \/ NothingToConsolidate(x) \/ Commit(x)
         \/ Raise(x) \/ Crash(x)
  PROVE  TypeOK'
<1>1. /\ rowLock' \in [Rows -> Executions \cup {NoExecution}]
      /\ staged' \in [Executions -> SUBSET Statements]
  BY EndTransactionTyped
  DEF InductiveInvariant, CursorIsMissing, NothingToConsolidate, Commit, Raise,
      Crash
<1> USE ConstantsAssumption, <1>1
    DEF InductiveInvariant, TypeOK, eventVars, tableVars, localVars
<1>2. CASE CursorIsMissing(x)
  BY <1>2 DEF CursorIsMissing, Goto, Phases, Outcomes
<1>3. CASE NothingToConsolidate(x)
  BY <1>3 DEF NothingToConsolidate, Goto, Phases, Outcomes
<1>4. CASE Commit(x)
  <2>1. /\ batch[x] \in Batches
        /\ "checkpoint" \in staged[x] => task[x] \in Tasks /\ number[x] > 0
    BY <1>4
    DEF Commit, Goto, WindowIsHeld, HoldsWindow, StagedByPhase,
        StagesInOrder, Chosen, InTransaction
  <2>2. /\ evidence' \in [Events -> Batches \cup {NoBatch}]
        /\ candidates' \in [Events -> Batches \cup {NoBatch}]
    BY <1>4, <2>1 DEF Commit, Publish, InsertFor
  <2>3. /\ taskMemory' \in [Tasks -> Nat]
        /\ checkpoints' \subseteq Checkpoints
    BY <1>4, <2>1
    DEF Commit, Publish, UpsertedTaskMemory, NewCheckpoint, Checkpoints
  <2>4. /\ cursor' \in [Workspaces -> Events \cup {NoEvent}]
        /\ batchVersion' \in [Workspaces -> Nat]
        /\ outbox' \subseteq Batches
    BY <1>4, <2>1 DEF Commit, Publish, Batches
  <2>5. QED
    BY <1>4, <2>2, <2>3, <2>4 DEF Commit, Goto, Phases
<1>5. CASE Raise(x)
  BY <1>5 DEF Raise, Phases, Outcomes
<1>6. CASE Crash(x)
  BY <1>6 DEF Crash, Phases
<1>7. QED
  BY <1>2, <1>3, <1>4, <1>5, <1>6

(***************************************************************************)
(* The invariant, one lemma per kind of step.                              *)
(***************************************************************************)

\* In the initial state nothing is numbered, held, staged or consolidated.
LEMMA InitInvariant == Init => InductiveInvariant
<1> SUFFICES ASSUME Init PROVE InductiveInvariant
  OBVIOUS
<1>1. TypeOK
  BY InitTyped
<1>2. SequencesAreDistinct
  BY DEF Init, SequencesAreDistinct, Consolidated
<1>3. WindowIsHeld
  BY DEF Init, WindowIsHeld, HoldsWindow, Chosen, Published, InTransaction
<1>4. StagedByPhase
  BY DEF Init, StagedByPhase, StagesInOrder, Chosen, InTransaction
<1>5. CursorEndsLastWindow
  BY DEF Init, CursorEndsLastWindow, ConsolidatedIn, Consolidated
<1>6. QED
  BY <1>1, <1>2, <1>3, <1>4, <1>5 DEF InductiveInvariant

\* An event request leaves numbered visible rows, and everything the
\* executions own, as they are.
LEMMA EventStepFrame ==
  ASSUME InductiveInvariant, NEW e \in Events, EventStep(e)
  PROVE  /\ UNCHANGED <<tableVars, rowLock, pc, localVars, staged, lockOwner>>
         /\ \A f \in Events : Visible(f) =>
               Visible(f)' /\ sequence'[f] = sequence[f]
<1> USE DEF InductiveInvariant, TypeOK, Visible
<1>1. CASE SaveEvent(e)
  BY <1>1 DEF SaveEvent, EventIs
<1>2. CASE EnsureWorkingMemory(e)
  BY <1>2 DEF EnsureWorkingMemory, EventIs
<1>3. CASE CommitEvent(e)
  BY <1>3 DEF CommitEvent, EventIs
<1>4. CASE RollbackEvent(e)
  BY <1>4 DEF RollbackEvent
<1>5. CASE LoadMemory(e)
  BY <1>5 DEF LoadMemory, EventIs
<1>6. CASE StoreMemory(e)
  BY <1>6 DEF StoreMemory, EventIs
<1>7. QED
  BY <1>1, <1>2, <1>3, <1>4, <1>5, <1>6 DEF EventStep

\* The identity generator numbers rows apart; a rollback takes its number away.
LEMMA EventStepNumbers ==
  ASSUME InductiveInvariant, NEW e \in Events, EventStep(e)
  PROVE  SequencesAreDistinct'
<1>1. \A f \in Events : Consolidated(f)' => Visible(f)'
  BY EventStepFrame DEF InductiveInvariant, SequencesAreDistinct, Consolidated,
     tableVars
<1> USE <1>1 DEF InductiveInvariant, TypeOK, SequencesAreDistinct, EventStates
<1>2. CASE SaveEvent(e)
  BY <1>2 DEF SaveEvent, EventIs
<1>3. CASE EnsureWorkingMemory(e)
  BY <1>3 DEF EnsureWorkingMemory, EventIs
<1>4. CASE CommitEvent(e)
  BY <1>4 DEF CommitEvent, EventIs
<1>5. CASE RollbackEvent(e)
  BY <1>5 DEF RollbackEvent
<1>6. CASE LoadMemory(e)
  BY <1>6 DEF LoadMemory, EventIs
<1>7. CASE StoreMemory(e)
  BY <1>7 DEF StoreMemory, EventIs
<1>8. QED
  BY <1>2, <1>3, <1>4, <1>5, <1>6, <1>7 DEF EventStep

\* The row of a cursor is a visible, consolidated event of the workspace.
LEMMA CursorIsVisible ==
  ASSUME InductiveInvariant, NEW w \in Workspaces, cursor[w] # NoEvent
  PROVE  /\ cursor[w] \in Events
         /\ WorkspaceOf[cursor[w]] = w
         /\ Consolidated(cursor[w]) /\ Visible(cursor[w])
  BY DEF InductiveInvariant, CursorEndsLastWindow, ConsolidatedIn,
     SequencesAreDistinct

\* An event request keeps the invariant.
LEMMA EventStepInvariant ==
  ASSUME InductiveInvariant, NEW e \in Events, EventStep(e)
  PROVE  InductiveInvariant'
<1>1. /\ UNCHANGED <<tableVars, rowLock, pc, localVars, staged>>
      /\ \A f \in Events : Visible(f) =>
            Visible(f)' /\ sequence'[f] = sequence[f]
  BY EventStepFrame
<1>2. TypeOK'
  BY EventStepTyped DEF InductiveInvariant
<1>3. SequencesAreDistinct'
  BY EventStepNumbers
<1>4. ASSUME NEW x \in Executions PROVE HoldsWindow(x)'
  <2>1. HoldsWindow(x)
    BY DEF InductiveInvariant, WindowIsHeld
  <2>2. window[x] \subseteq Events /\ TargetOf[x] \in Workspaces
    BY ConstantsAssumption DEF InductiveInvariant, TypeOK
  <2>3. pc[x] \in Chosen \cup Published => \A f \in window[x] : Visible(f)
    <3>1. CASE pc[x] \in Published
      BY <2>1, <2>2, <3>1, DistinctAssumption
      DEF HoldsWindow, InductiveInvariant, SequencesAreDistinct, Consolidated,
          Batches
    <3>2. QED
      BY <2>1, <3>1 DEF HoldsWindow
  <2>4. pc[x] \in InTransaction /\ before[x] # NoEvent =>
           before[x] \in Events /\ Visible(before[x])
    BY <2>1, <2>2, CursorIsVisible DEF HoldsWindow
  <2>5. pc[x] \in Chosen => pc[x] \in InTransaction
    BY DEF Chosen
  <2>6. QED
    BY <1>1, <2>1, <2>2, <2>3, <2>4, <2>5
    DEF HoldsWindow, IsFirst, IsLast, tableVars, localVars
<1>5. StagedByPhase'
  BY <1>1 DEF InductiveInvariant, StagedByPhase, StagesInOrder, localVars
<1>6. CursorEndsLastWindow'
  BY <1>1 DEF InductiveInvariant, CursorEndsLastWindow, ConsolidatedIn,
     Consolidated, Last, SequencesAreDistinct, tableVars
<1>7. QED
  BY <1>2, <1>3, <1>4, <1>5, <1>6 DEF InductiveInvariant, WindowIsHeld

\* A Redis key that expires keeps the invariant: nothing rests on Redis.
LEMMA ExpiryInvariant ==
  ASSUME InductiveInvariant, NEW w \in Workspaces,
         MemoryExpires(w) \/ LockExpires(w)
  PROVE  InductiveInvariant'
<1>1. UNCHANGED <<eventVars, tableVars, rowLock, pc, localVars, staged>>
  BY DEF MemoryExpires, LockExpires, eventVars
<1>2. TypeOK'
  BY ExpiryTyped DEF InductiveInvariant
<1>3. SequencesAreDistinct' /\ CursorEndsLastWindow'
  BY <1>1
  DEF InductiveInvariant, SequencesAreDistinct, CursorEndsLastWindow,
      ConsolidatedIn, Consolidated, Visible, Last, eventVars, tableVars
<1>4. WindowIsHeld' /\ StagedByPhase'
  BY <1>1
  DEF InductiveInvariant, WindowIsHeld, HoldsWindow, IsFirst, IsLast, Visible,
      StagedByPhase, StagesInOrder, eventVars, tableVars, localVars
<1>5. QED
  BY <1>2, <1>3, <1>4 DEF InductiveInvariant

\* What a step of x leaves to another execution y: its phase, its locals, its
\* staged rows and the row locks it holds.
LeavesAlone(y) ==
    /\ pc'[y] = pc[y] /\ before'[y] = before[y] /\ window'[y] = window[y]
    /\ batch'[y] = batch[y] /\ task'[y] = task[y] /\ number'[y] = number[y]
    /\ staged'[y] = staged[y]
    /\ \A r \in Rows : rowLock[r] = y => rowLock'[r] = y

\* A step of an execution is local to it: a row lock of another execution
\* makes it wait.
LEMMA StepIsLocal ==
  ASSUME TypeOK, NEW x \in Executions,
         Start(x) \/ Proceed(x) \/ Raise(x) \/ Crash(x),
         NEW y \in Executions, y # x
  PROVE  LeavesAlone(y)
<1> USE DistinctAssumption DEF TypeOK, LeavesAlone, Goto, localVars
<1>1. CASE Start(x) \/ Acquire(x) \/ AcquireTimesOut(x)
  BY <1>1 DEF Start, Acquire, AcquireTimesOut
<1>2. CASE GetCursorForUpdate(x)
  BY <1>2 DEF GetCursorForUpdate, MayWrite
<1>3. CASE CursorIsMissing(x) \/ NothingToConsolidate(x) \/ Raise(x) \/ Crash(x)
  BY <1>3 DEF CursorIsMissing, NothingToConsolidate, Raise, Crash,
     EndTransaction, Unlocked
<1>4. CASE ListEventsAfter(x)
  BY <1>4 DEF ListEventsAfter
<1>5. CASE NumberCheckpoint(x)
  BY <1>5 DEF NumberCheckpoint
<1>6. CASE SaveEvidence(x) \/ SaveCandidates(x) \/ AddOutboxJob(x)
  BY <1>6 DEF SaveEvidence, SaveCandidates, AddOutboxJob, Stage
<1>7. CASE SaveCheckpoint(x)
  BY <1>7 DEF SaveCheckpoint, Stage, MayWrite
<1>8. CASE AdvanceCursor(x)
  BY <1>8 DEF AdvanceCursor, Stage, MayWrite
<1>9. CASE Commit(x)
  BY <1>9 DEF Commit, EndTransaction, Unlocked
<1>10. CASE CompareMemory(x) \/ SaveMemory(x) \/ Release(x)
  BY <1>10 DEF CompareMemory, SaveMemory, Release
<1>11. QED
  BY <1>1, <1>2, <1>3, <1>4, <1>5, <1>6, <1>7, <1>8, <1>9, <1>10 DEF Proceed

\* An execution does not touch what belongs to the event requests.
LEMMA ExecutionsLeaveEvents ==
  ASSUME NEW x \in Executions,
         Start(x) \/ Proceed(x) \/ Raise(x) \/ Crash(x)
  PROVE  UNCHANGED eventVars
  BY DEF Proceed, Start, Acquire, AcquireTimesOut, GetCursorForUpdate,
     CursorIsMissing, ListEventsAfter, NothingToConsolidate, NumberCheckpoint,
     SaveEvidence, SaveCheckpoint, SaveCandidates, AdvanceCursor, AddOutboxJob,
     Stage, Commit, CompareMemory, SaveMemory, Release, Raise, Crash

\* A step of an execution keeps the types.
LEMMA ExecutionStepTyped ==
  ASSUME InductiveInvariant, NEW x \in Executions,
         Start(x) \/ Proceed(x) \/ Raise(x) \/ Crash(x)
  PROVE  TypeOK'
  BY OutsideStepTyped, InsideStepTyped, EndStepTyped DEF Proceed

\* A step that publishes nothing has to keep the invariant for its own
\* execution only.
LEMMA OwnPartSuffices ==
  ASSUME InductiveInvariant, NEW x \in Executions,
         Start(x) \/ Proceed(x) \/ Raise(x) \/ Crash(x), UNCHANGED tableVars,
         HoldsWindow(x)', StagesInOrder(x)'
  PROVE  InductiveInvariant'
<1>1. UNCHANGED <<eventVars, tableVars>>
  BY ExecutionsLeaveEvents
<1>2. TypeOK'
  BY ExecutionStepTyped
<1>3. SequencesAreDistinct' /\ CursorEndsLastWindow'
  BY <1>1
  DEF InductiveInvariant, SequencesAreDistinct, CursorEndsLastWindow,
      ConsolidatedIn, Consolidated, Visible, Last, eventVars, tableVars
<1>4. ASSUME NEW y \in Executions, y # x
      PROVE  HoldsWindow(y)' /\ StagesInOrder(y)'
  <2>1. LeavesAlone(y)
    BY <1>4, StepIsLocal DEF InductiveInvariant
  <2>2. HoldsWindow(y) /\ StagesInOrder(y) /\ TargetOf[y] \in Rows
    BY ConstantsAssumption
    DEF InductiveInvariant, WindowIsHeld, StagedByPhase, Rows
  <2>3. HoldsWindow(y)'
    BY <1>1, <2>1, <2>2
    DEF LeavesAlone, HoldsWindow, IsFirst, IsLast, Visible, eventVars, tableVars
  <2>4. StagesInOrder(y)'
    BY <2>1, <2>2 DEF LeavesAlone, StagesInOrder
  <2>5. QED
    BY <2>3, <2>4
<1>5. QED
  BY <1>2, <1>3, <1>4 DEF InductiveInvariant, WindowIsHeld, StagedByPhase

\* Phases outside the transaction know nothing about window and locks, and
\* have nothing staged.
LEMMA OutsideInvariant ==
  ASSUME InductiveInvariant, NEW x \in Executions,
         \/ Start(x) \/ Acquire(x) \/ AcquireTimesOut(x) \/ CursorIsMissing(x)
         \/ NothingToConsolidate(x) \/ Raise(x) \/ Crash(x)
         \/ CompareMemory(x) \/ SaveMemory(x) \/ Release(x)
  PROVE  InductiveInvariant'
<1> DEFINE Own == HoldsWindow(x)' /\ StagesInOrder(x)' /\ UNCHANGED tableVars
<1> SUFFICES Own
  BY OwnPartSuffices DEF Proceed
<1>1. HoldsWindow(x) /\ StagesInOrder(x)
  BY DEF InductiveInvariant, WindowIsHeld, StagedByPhase
<1>2. CASE Start(x) \/ Acquire(x) \/ AcquireTimesOut(x) \/ Release(x)
  <2>1. /\ pc'[x] \in {"acquiring", "locked", "done"}
        /\ staged'[x] = staged[x] /\ UNCHANGED tableVars
        /\ pc[x] \in {"idle", "acquiring", "releasing"}
    BY <1>2 DEF InductiveInvariant, TypeOK, Goto, Start, Acquire,
       AcquireTimesOut, Release
  <2>2. QED
    BY <1>1, <2>1
    DEF HoldsWindow, StagesInOrder, Chosen, Published, InTransaction
<1>3. CASE \/ CursorIsMissing(x) \/ NothingToConsolidate(x)
           \/ Raise(x) \/ Crash(x)
  <2>1. /\ pc'[x] \in {"releasing", "crashed"} /\ staged'[x] = {}
        /\ UNCHANGED tableVars
    BY <1>3 DEF InductiveInvariant, TypeOK, Goto, CursorIsMissing,
       NothingToConsolidate, Raise, Crash, EndTransaction
  <2>2. QED
    BY <2>1 DEF HoldsWindow, StagesInOrder, Chosen, Published, InTransaction
<1>4. CASE CompareMemory(x) \/ SaveMemory(x)
  <2>1. /\ pc'[x] \in {"saving", "releasing"} /\ pc[x] \in Published
        /\ UNCHANGED <<eventVars, tableVars, localVars, staged>>
    BY <1>4 DEF InductiveInvariant, TypeOK, Goto, CompareMemory, SaveMemory,
       Published
  <2>2. HoldsWindow(x)'
    BY <1>1, <2>1
    DEF HoldsWindow, IsFirst, IsLast, Chosen, Published, InTransaction,
        eventVars, tableVars, localVars
  <2>3. StagesInOrder(x)'
    BY <1>1, <2>1
    DEF StagesInOrder, Chosen, Published, InTransaction, localVars
  <2>4. QED
    BY <2>1, <2>2, <2>3
<1>5. QED
  BY <1>2, <1>3, <1>4

\* Reading the cursor row locks it.
LEMMA GetCursorInvariant ==
  ASSUME InductiveInvariant, NEW x \in Executions, GetCursorForUpdate(x)
  PROVE  InductiveInvariant'
<1>1. HoldsWindow(x) /\ StagesInOrder(x) /\ TargetOf[x] \in Rows
  BY ConstantsAssumption
  DEF InductiveInvariant, WindowIsHeld, StagedByPhase, Rows
<1>2. /\ pc[x] = "locked" /\ pc'[x] = "listing"
      /\ staged'[x] = staged[x]
      /\ rowLock'[TargetOf[x]] = x
      /\ before'[x] = cursor[TargetOf[x]]
      /\ UNCHANGED tableVars
  BY <1>1 DEF InductiveInvariant, TypeOK, GetCursorForUpdate, Goto
<1>3. HoldsWindow(x)'
  BY <1>2
  DEF HoldsWindow, Chosen, Published, InTransaction, tableVars
<1>4. StagesInOrder(x)'
  BY <1>1, <1>2 DEF StagesInOrder, Chosen, InTransaction
<1>5. QED
  BY <1>2, <1>3, <1>4, OwnPartSuffices DEF Proceed

\* The window is chosen beyond the cursor that was read, with its ends.
LEMMA ListEventsInvariant ==
  ASSUME InductiveInvariant, NEW x \in Executions, ListEventsAfter(x)
  PROVE  InductiveInvariant'
<1> DEFINE W == EventsAfter(TargetOf[x], before[x])
<1>1. HoldsWindow(x) /\ StagesInOrder(x)
  BY DEF InductiveInvariant, WindowIsHeld, StagedByPhase
<1>2. W \subseteq Events
  BY DEF EventsAfter
<1>3. PICK first, last \in W :
         /\ IsFirst(first, W) /\ IsLast(last, W)
         /\ batch' = [batch EXCEPT ![x] = <<first, last>>]
  BY DEF ListEventsAfter
<1>4. batch'[x] = <<first, last>> /\ <<first, last>> \in Batches
  BY <1>2, <1>3 DEF InductiveInvariant, TypeOK, Batches
<1>5. /\ pc[x] = "listing" /\ pc'[x] = "numbering"
      /\ window'[x] = W
      /\ UNCHANGED <<eventVars, tableVars, rowLock, before, staged>>
  BY DEF InductiveInvariant, TypeOK, ListEventsAfter, Goto
<1>6. HoldsWindow(x)'
  <2>1. batch[x]' \in Batches /\ IsFirst(batch[x][1], window[x])'
                              /\ IsLast(batch[x][2], window[x])'
    BY <1>3, <1>4, <1>5 DEF IsFirst, IsLast, eventVars
  <2>2. \A e \in W : /\ WorkspaceOf[e] = TargetOf[x] /\ Visible(e)
                     /\ before[x] # NoEvent => sequence[before[x]] < sequence[e]
    BY DEF EventsAfter
  <2>3. QED
    BY <1>1, <1>5, <2>1, <2>2
    DEF HoldsWindow, Chosen, Published, InTransaction, Visible, eventVars,
        tableVars
<1>7. StagesInOrder(x)'
  BY <1>1, <1>5 DEF StagesInOrder, Chosen, InTransaction
<1>8. QED
  BY <1>5, <1>6, <1>7, OwnPartSuffices DEF Proceed

\* While the statements run the window stays as it was chosen.
LEMMA WindowStaysHeld ==
  ASSUME InductiveInvariant, NEW x \in Executions,
         pc[x] \in Chosen, pc'[x] \in Chosen,
         rowLock'[TargetOf[x]] = x,
         UNCHANGED <<eventVars, tableVars, before, window, batch, task>>
  PROVE  HoldsWindow(x)'
<1>1. HoldsWindow(x)
  BY DEF InductiveInvariant, WindowIsHeld
<1>2. QED
  BY <1>1
  DEF HoldsWindow, IsFirst, IsLast, Visible, Chosen, Published, InTransaction,
      eventVars, tableVars

\* Numbering the checkpoint and running the statements of the transaction.
LEMMA StatementInvariant ==
  ASSUME InductiveInvariant, NEW x \in Executions,
         \/ NumberCheckpoint(x) \/ SaveEvidence(x) \/ SaveCheckpoint(x)
         \/ SaveCandidates(x) \/ AdvanceCursor(x) \/ AddOutboxJob(x)
  PROVE  InductiveInvariant'
<1> DEFINE Own == HoldsWindow(x)' /\ StagesInOrder(x)' /\ UNCHANGED tableVars
<1> SUFFICES Own
  BY OwnPartSuffices DEF Proceed
<1>1. /\ HoldsWindow(x) /\ StagesInOrder(x)
      /\ TargetOf[x] \in Workspaces /\ TargetOf[x] \in Rows
  BY ConstantsAssumption
  DEF InductiveInvariant, WindowIsHeld, StagedByPhase, Rows
<1>2. CASE NumberCheckpoint(x)
  <2>1. /\ pc[x] = "numbering" /\ pc'[x] = "evidence"
        /\ UNCHANGED <<eventVars, tableVars, rowLock, before, window, batch,
                       task, staged>>
    BY <1>2 DEF InductiveInvariant, TypeOK, NumberCheckpoint, Goto
  <2>2. task[x] # NoTask => number'[x] > 0
    <3>1. CheckpointNumbers(task[x]) \subseteq Nat
      BY DEF InductiveInvariant, TypeOK, CheckpointNumbers, Checkpoints
    <3>2. QED
      BY <1>2, <3>1 DEF InductiveInvariant, TypeOK, NumberCheckpoint
  <2>3. rowLock'[TargetOf[x]] = x
    BY <1>1, <2>1 DEF HoldsWindow, InTransaction
  <2>4. HoldsWindow(x)'
    BY <2>1, <2>3, WindowStaysHeld DEF Chosen, InTransaction
  <2>5. QED
    BY <1>1, <2>1, <2>2, <2>4 DEF StagesInOrder, Chosen, InTransaction
<1>3. CASE SaveCheckpoint(x) /\ task[x] = NoTask
  <2>1. /\ pc[x] = "checkpoint" /\ pc'[x] = "candidates"
        /\ UNCHANGED <<eventVars, tableVars, rowLock, localVars, staged>>
    BY <1>3 DEF InductiveInvariant, TypeOK, SaveCheckpoint, Goto, Stage
  <2>2. rowLock'[TargetOf[x]] = x
    BY <1>1, <2>1 DEF HoldsWindow, InTransaction
  <2>3. HoldsWindow(x)'
    BY <2>1, <2>2, WindowStaysHeld DEF Chosen, InTransaction, localVars
  <2>4. QED
    BY <1>1, <2>1, <2>3 DEF StagesInOrder, Chosen, InTransaction, localVars
<1>4. CASE \/ SaveEvidence(x)
           \/ SaveCheckpoint(x) /\ task[x] # NoTask
           \/ SaveCandidates(x)
           \/ AdvanceCursor(x)
           \/ AddOutboxJob(x)
  <2>1. PICK statement \in Statements, next \in Phases :
          /\ Stage(x, statement, next)
          /\ \/ statement = "evidence" /\ next = "checkpoint"
             \/ statement = "checkpoint" /\ next = "candidates"
                                         /\ task[x] # NoTask
             \/ statement = "candidates" /\ next = "cursor"
             \/ statement = "cursor" /\ next = "commit"
                                     /\ window[x] \cap Speaking = {}
             \/ statement = "cursor" /\ next = "outbox"
                                     /\ window[x] \cap Speaking # {}
             \/ statement = "outbox" /\ next = "commit"
    BY <1>4 DEF SaveEvidence, SaveCheckpoint, SaveCandidates, AdvanceCursor,
       AddOutboxJob, Statements, Phases
  <2>2. /\ pc[x] = statement /\ pc'[x] = next
        /\ staged'[x] = staged[x] \cup {statement}
        /\ UNCHANGED <<eventVars, tableVars, localVars>>
    BY <2>1 DEF InductiveInvariant, TypeOK, Stage, Goto
  <2>3. pc[x] \in Chosen /\ pc'[x] \in Chosen
    BY <2>1, <2>2 DEF Chosen, InTransaction
  <2>4. rowLock[TargetOf[x]] = x
    BY <1>1, <2>3 DEF HoldsWindow, Chosen
  <2>5. rowLock'[TargetOf[x]] = x
    <3>1. CASE SaveCheckpoint(x) /\ task[x] # NoTask
      <4>1. task[x] \in Tasks /\ task[x] # TargetOf[x]
        BY <1>1, <3>1, DistinctAssumption DEF InductiveInvariant, TypeOK
      <4>2. rowLock' = [rowLock EXCEPT ![task[x]] = x]
        BY <3>1 DEF SaveCheckpoint
      <4>3. QED
        BY <1>1, <2>4, <4>1, <4>2 DEF InductiveInvariant, TypeOK
    <3>2. CASE AdvanceCursor(x)
      BY <1>1, <3>2 DEF AdvanceCursor, InductiveInvariant, TypeOK
    <3>3. CASE SaveEvidence(x) \/ SaveCandidates(x) \/ AddOutboxJob(x)
      BY <2>4, <3>3 DEF SaveEvidence, SaveCandidates, AddOutboxJob
    <3>4. QED
      BY <1>4, <3>1, <3>2, <3>3
  <2>6. HoldsWindow(x)'
    BY <2>2, <2>3, <2>5, WindowStaysHeld DEF localVars
  <2>7. StagesInOrder(x)'
    BY <1>1, <2>1, <2>2 DEF StagesInOrder, Chosen, InTransaction, localVars
  <2>8. QED
    BY <2>2, <2>6, <2>7
<1>5. QED
  BY <1>2, <1>3, <1>4

\* No event of the window of an open transaction is in a batch yet: the cursor
\* that was read is the cursor, and nothing is published beyond it.
LEMMA WindowIsFresh ==
  ASSUME InductiveInvariant, NEW x \in Executions, pc[x] \in Chosen,
         NEW e \in window[x]
  PROVE  /\ e \in Events /\ Visible(e) /\ ~Consolidated(e)
         /\ before[x] # NoEvent => sequence[before[x]] < sequence[e]
<1>1. HoldsWindow(x) /\ TargetOf[x] \in Workspaces
  BY ConstantsAssumption DEF InductiveInvariant, WindowIsHeld
<1>2. e \in Events
  BY DEF InductiveInvariant, TypeOK
<1>3. /\ cursor[TargetOf[x]] = before[x]
      /\ WorkspaceOf[e] = TargetOf[x] /\ Visible(e)
      /\ before[x] # NoEvent => sequence[before[x]] < sequence[e]
  BY <1>1 DEF HoldsWindow, Chosen
<1>4. ~Consolidated(e)
  <2>1. SUFFICES ASSUME Consolidated(e) PROVE FALSE
    OBVIOUS
  <2>2. e \in ConsolidatedIn(TargetOf[x])
    BY <1>2, <1>3, <2>1 DEF ConsolidatedIn
  <2>3. /\ before[x] # NoEvent /\ before[x] \in Events
        /\ sequence[e] <= sequence[before[x]]
    BY <1>1, <1>3, <2>2
    DEF InductiveInvariant, CursorEndsLastWindow, ConsolidatedIn
  <2>4. QED
    BY <1>2, <1>3, <2>3 DEF InductiveInvariant, TypeOK
<1>5. QED
  BY <1>2, <1>3, <1>4

\* What a commit publishes: the whole window under its batch, and a cursor at
\* the last event of the window.
LEMMA CommitPublishes ==
  ASSUME InductiveInvariant, NEW x \in Executions, Commit(x)
  PROVE  /\ evidence' = [e \in Events |-> IF e \in window[x] THEN batch[x]
                                          ELSE evidence[e]]
         /\ cursor' = [cursor EXCEPT ![TargetOf[x]] = batch[x][2]]
         /\ batchVersion' = [batchVersion EXCEPT ![TargetOf[x]] = @ + 1]
         /\ UNCHANGED eventVars
<1>1. pc[x] \in Chosen /\ pc[x] = "commit" /\ Publish(x)
  BY DEF Commit, Goto, Chosen, InTransaction
<1>2. "evidence" \in staged[x] /\ "cursor" \in staged[x]
  BY <1>1 DEF InductiveInvariant, StagedByPhase, StagesInOrder
<1>3. \A e \in window[x] : evidence[e] = NoBatch
  BY <1>1, WindowIsFresh DEF Consolidated
<1>4. evidence' = [e \in Events |-> IF e \in window[x] THEN batch[x]
                                    ELSE evidence[e]]
  BY <1>1, <1>2, <1>3 DEF Publish, InsertFor
<1>5. QED
  BY <1>1, <1>2, <1>4 DEF Publish, Commit

\* A commit keeps the invariant.
LEMMA CommitInvariant ==
  ASSUME InductiveInvariant, NEW x \in Executions, Commit(x)
  PROVE  InductiveInvariant'
<1> DEFINE w == TargetOf[x]
           first == batch[x][1]
           last == batch[x][2]
<1>1. w \in Workspaces /\ w \in Rows
  BY ConstantsAssumption DEF Rows
<1>2. /\ evidence' = [e \in Events |-> IF e \in window[x] THEN batch[x]
                                       ELSE evidence[e]]
      /\ cursor' = [cursor EXCEPT ![w] = last]
      /\ UNCHANGED eventVars
  BY CommitPublishes
<1>3. /\ pc[x] = "commit" /\ pc'[x] = "advancing" /\ staged'[x] = {}
      /\ UNCHANGED localVars
  BY DEF InductiveInvariant, TypeOK, Commit, Goto, EndTransaction
<1>4. HoldsWindow(x)
  BY DEF InductiveInvariant, WindowIsHeld
<1>5. /\ batch[x] \in Batches /\ batch[x] # NoBatch
      /\ IsFirst(first, window[x]) /\ IsLast(last, window[x])
      /\ first \in Events /\ last \in Events /\ last # NoEvent
  BY <1>3, <1>4, DistinctAssumption
  DEF HoldsWindow, Chosen, InTransaction, Batches
<1>6. \A e \in window[x] : /\ e \in Events /\ WorkspaceOf[e] = w
                           /\ Visible(e) /\ ~Consolidated(e)
                           /\ before[x] # NoEvent =>
                                 sequence[before[x]] < sequence[e]
  BY <1>3, <1>4, WindowIsFresh DEF HoldsWindow, Chosen, InTransaction
<1>7. TypeOK'
  BY EndStepTyped
<1>8. SequencesAreDistinct'
  BY <1>2, <1>6
  DEF InductiveInvariant, SequencesAreDistinct, Consolidated, Visible, eventVars
<1>9. CursorEndsLastWindow'
  <2>1. ConsolidatedIn(w)' = ConsolidatedIn(w) \cup window[x]
    BY <1>2, <1>5, <1>6 DEF ConsolidatedIn, Consolidated
  <2>2. /\ cursor'[w] = last /\ last \in ConsolidatedIn(w)'
        /\ evidence'[last] = batch[x]
    BY <1>1, <1>2, <1>5, <2>1 DEF InductiveInvariant, TypeOK, IsLast
  <2>3. \A e \in ConsolidatedIn(w)' : sequence'[e] <= sequence'[last]
    <3>1. SUFFICES ASSUME NEW e \in ConsolidatedIn(w)
                   PROVE  sequence[e] <= sequence[last]
      BY <1>2, <1>5, <2>1 DEF IsLast, eventVars
    <3>2. /\ cursor[w] = before[x] /\ before[x] # NoEvent
          /\ before[x] \in Events /\ sequence[e] <= sequence[before[x]]
      BY <1>1, <1>3, <1>4
      DEF HoldsWindow, InTransaction, InductiveInvariant, CursorEndsLastWindow,
          ConsolidatedIn
    <3>3. sequence[before[x]] < sequence[last]
      BY <1>5, <1>6, <3>2 DEF IsLast
    <3>4. e \in Events
      BY DEF ConsolidatedIn
    <3>5. QED
      BY <1>5, <3>2, <3>3, <3>4 DEF InductiveInvariant, TypeOK
  <2>4. ASSUME NEW v \in Workspaces, v # w
        PROVE  /\ cursor'[v] = cursor[v]
               /\ ConsolidatedIn(v)' = ConsolidatedIn(v)
               /\ \A e \in ConsolidatedIn(v) : evidence'[e] = evidence[e]
    BY <1>2, <1>6, <2>4
    DEF InductiveInvariant, TypeOK, ConsolidatedIn, Consolidated
  <2>5. QED
    BY <1>2, <1>5, <2>2, <2>3, <2>4
    DEF InductiveInvariant, CursorEndsLastWindow, Last, eventVars
<1>10. HoldsWindow(x)' /\ StagesInOrder(x)'
  <2>1. HoldsWindow(x)'
    BY <1>2, <1>3, <1>5, <1>6
    DEF HoldsWindow, IsFirst, IsLast, Chosen, Published, InTransaction,
        eventVars, localVars
  <2>2. StagesInOrder(x)'
    BY <1>3 DEF StagesInOrder, Chosen, InTransaction
  <2>3. QED
    BY <2>1, <2>2
<1>11. ASSUME NEW y \in Executions, y # x
       PROVE  HoldsWindow(y)' /\ StagesInOrder(y)'
  <2>1. LeavesAlone(y)
    BY <1>11, StepIsLocal DEF InductiveInvariant, Proceed
  <2>2. HoldsWindow(y) /\ StagesInOrder(y) /\ TargetOf[y] \in Workspaces
    BY ConstantsAssumption DEF InductiveInvariant, WindowIsHeld, StagedByPhase
  <2>3. pc[y] \in InTransaction =>
           /\ cursor'[TargetOf[y]] = cursor[TargetOf[y]]
           /\ rowLock'[TargetOf[y]] = y
    <3>1. pc[y] \in InTransaction => TargetOf[y] # w
      BY <1>3, <1>4, <1>11, <2>2 DEF HoldsWindow, InTransaction
    <3>2. QED
      BY <1>2, <2>1, <2>2, <3>1
      DEF LeavesAlone, HoldsWindow, Rows, InductiveInvariant, TypeOK
  <2>4. pc[y] \in Published => \A e \in window[y] : evidence'[e] = batch[y]
    <3>1. SUFFICES ASSUME pc[y] \in Published, NEW e \in window[y]
                   PROVE  evidence'[e] = batch[y]
      OBVIOUS
    <3>2. e \in Events /\ evidence[e] = batch[y] /\ batch[y] # NoBatch
      BY <2>2, <3>1, DistinctAssumption
      DEF HoldsWindow, Batches, InductiveInvariant, TypeOK
    <3>3. e \notin window[x]
      BY <1>6, <3>2 DEF Consolidated
    <3>4. QED
      BY <1>2, <3>2, <3>3
  <2>5. HoldsWindow(y)'
    BY <1>2, <2>1, <2>2, <2>3, <2>4
    DEF LeavesAlone, HoldsWindow, IsFirst, IsLast, Visible, Chosen, eventVars
  <2>6. StagesInOrder(y)'
    BY <2>1, <2>2 DEF LeavesAlone, StagesInOrder
  <2>7. QED
    BY <2>5, <2>6
<1>12. QED
  BY <1>7, <1>8, <1>9, <1>10, <1>11
  DEF InductiveInvariant, WindowIsHeld, StagedByPhase

(***************************************************************************)
(* Theorems.                                                               *)
(***************************************************************************)

\* Every step of the write chain keeps the invariant.
LEMMA NextInvariant == InductiveInvariant /\ [Next]_vars => InductiveInvariant'
<1> SUFFICES ASSUME InductiveInvariant, [Next]_vars
             PROVE  InductiveInvariant'
  OBVIOUS
<1>1. CASE \E e \in Events : EventStep(e)
  BY <1>1, EventStepInvariant
<1>2. CASE \E w \in Workspaces : MemoryExpires(w) \/ LockExpires(w)
  BY <1>2, ExpiryInvariant
<1>3. ASSUME NEW x \in Executions, Start(x) \/ Proceed(x) \/ Raise(x) \/ Crash(x)
      PROVE  InductiveInvariant'
  BY <1>3, OutsideInvariant, GetCursorInvariant, ListEventsInvariant,
     StatementInvariant, CommitInvariant DEF Proceed
<1>4. CASE UNCHANGED vars
  BY <1>4
  DEF vars, eventVars, tableVars, localVars, InductiveInvariant, TypeOK,
      SequencesAreDistinct, WindowIsHeld, HoldsWindow, StagedByPhase,
      StagesInOrder, CursorEndsLastWindow, ConsolidatedIn, Consolidated,
      Visible, Last, IsFirst, IsLast
<1>5. QED
  BY <1>1, <1>2, <1>3, <1>4 DEF Next

\* The invariant holds throughout, for any number of workspaces, tasks, events
\* and executions, whatever expires, fails or crashes.
THEOREM Invariance == Spec => []InductiveInvariant
  BY InitInvariant, NextInvariant, PTL DEF Spec

\* Every variable keeps its type: no phase, row or local takes another value.
THEOREM TypeCorrectness == Spec => []TypeOK
<1>1. InductiveInvariant => TypeOK
  BY DEF InductiveInvariant
<1>2. QED
  BY <1>1, Invariance, PTL

\* The cursor row is the end of the last published window, always: evidence and
\* cursor are committed in one transaction (write.py, advance_cursor).
THEOREM CursorTracksEvidence == Spec => []CursorEndsLastWindow
<1>1. InductiveInvariant => CursorEndsLastWindow
  BY DEF InductiveInvariant
<1>2. QED
  BY <1>1, Invariance, PTL

\* The row lock alone keeps two executions of a workspace from working on the
\* same events; the Redis lock, which may expire, is not needed for it.
THEOREM RowLockSuffices == Spec => []OpenWindowIsFresh
<1>1. ASSUME InductiveInvariant PROVE OpenWindowIsFresh
  <2>1. \A x \in Executions :
           pc[x] \in InTransaction => cursor[TargetOf[x]] = before[x]
    BY <1>1 DEF InductiveInvariant, WindowIsHeld, HoldsWindow
  <2>2. QED
    BY <1>1, <2>1, WindowIsFresh DEF OpenWindowIsFresh
<1>2. QED
  BY <1>1, Invariance, PTL

\* Every commit moves the cursor of its workspace to a later event, and nothing
\* else moves it: no event is consolidated a second time.
THEOREM CursorAdvances == Spec => CursorOnlyAdvances
<1> DEFINE Forward ==
      \A w \in Workspaces : cursor'[w] # cursor[w] =>
         /\ cursor'[w] # NoEvent
         /\ cursor[w] # NoEvent => sequence[cursor[w]] < sequence[cursor'[w]]
<1>1. ASSUME InductiveInvariant, NEW x \in Executions, Commit(x)
      PROVE  Forward
  <2>1. cursor' = [cursor EXCEPT ![TargetOf[x]] = batch[x][2]]
    BY <1>1, CommitPublishes
  <2>2. pc[x] \in Chosen
    BY <1>1 DEF Commit, Goto, Chosen, InTransaction
  <2>3. /\ batch[x][2] \in window[x]
        /\ cursor[TargetOf[x]] = before[x] /\ TargetOf[x] \in Workspaces
    BY <1>1, <2>2, ConstantsAssumption
    DEF InductiveInvariant, WindowIsHeld, HoldsWindow, IsLast, Chosen
  <2>4. /\ batch[x][2] # NoEvent
        /\ before[x] # NoEvent => sequence[before[x]] < sequence[batch[x][2]]
    BY <1>1, <2>2, <2>3, WindowIsFresh, DistinctAssumption
  <2>5. QED
    BY <1>1, <2>1, <2>3, <2>4 DEF InductiveInvariant, TypeOK
<1>2. ASSUME InductiveInvariant, [Next]_vars PROVE [Forward]_vars
  <2>1. CASE \E x \in Executions : Commit(x)
    BY <1>1, <1>2, <2>1
  <2>2. CASE ~ \E x \in Executions : Commit(x)
    <3>1. cursor' = cursor
      BY <1>2, <2>2, EventStepFrame
      DEF Next, Proceed, Start, Acquire, AcquireTimesOut, GetCursorForUpdate,
          CursorIsMissing, ListEventsAfter, NothingToConsolidate,
          NumberCheckpoint, SaveEvidence, SaveCheckpoint, SaveCandidates,
          AdvanceCursor, AddOutboxJob, Stage, CompareMemory, SaveMemory,
          Release, Raise, Crash, MemoryExpires, LockExpires, tableVars, vars
    <3>2. QED
      BY <3>1
  <2>3. QED
    BY <2>1, <2>2
<1>3. QED
  BY <1>2, Invariance, PTL DEF Spec, CursorOnlyAdvances

(***************************************************************************)
(* The cursor row of a workspace.                                          *)
(***************************************************************************)

\* The events whose transaction is committed.
Stored == {e \in Events : Visible(e)}

\* The events whose transaction has found or inserted its workspace's rows.
Anchored == {e \in Events : eventState[e] \in EventStates \ {"absent", "inserted"}}

\* The event whose transaction inserted the rows stands behind every request
\* that has found them: it is that request itself or it is committed.
AnchorsStand == \A e \in Anchored : anchor[WorkspaceOf[e]] \in Stored \cup {e}

\* A rollback takes an anchor away only while no other request relies on it.
LEMMA RollbackKeepsAnchors ==
  ASSUME TypeOK, AnchorsStand, NEW e \in Events, RollbackEvent(e)
  PROVE  AnchorsStand'
<1>1. Stored' = Stored /\ e \notin Stored
  BY DEF RollbackEvent, Stored, Visible, TypeOK
<1>2. Anchored' \subseteq Anchored \ {e}
  BY DEF RollbackEvent, Anchored, TypeOK
<1> SUFFICES ASSUME NEW f \in Anchored'
             PROVE  anchor'[WorkspaceOf[f]] \in Stored \cup {f}
  BY <1>1 DEF AnchorsStand
<1>3. f \in Events /\ WorkspaceOf[f] \in Workspaces
  BY ConstantsAssumption DEF Anchored
<1>4. anchor[WorkspaceOf[f]] \in Stored \cup {f} /\ f # e
  BY <1>2 DEF AnchorsStand
<1>5. anchor'[WorkspaceOf[f]] = anchor[WorkspaceOf[f]]
  BY <1>1, <1>3, <1>4 DEF RollbackEvent
<1>6. QED
  BY <1>4, <1>5

\* A request finds the rows only once the insert it waited for has ended.
LEMMA EnsureKeepsAnchors ==
  ASSUME TypeOK, AnchorsStand, NEW e \in Events, EnsureWorkingMemory(e)
  PROVE  AnchorsStand'
<1>1. Stored' = Stored
  BY DEF EnsureWorkingMemory, EventIs, Stored, Visible, TypeOK
<1>2. Anchored' \subseteq Anchored \cup {e}
  BY DEF EnsureWorkingMemory, EventIs, Anchored, TypeOK
<1>3. anchor[WorkspaceOf[e]] # NoEvent => anchor[WorkspaceOf[e]] \in Stored
  BY ConstantsAssumption DEF EnsureWorkingMemory, Stored, TypeOK
<1> SUFFICES ASSUME NEW f \in Anchored'
             PROVE  anchor'[WorkspaceOf[f]] \in Stored \cup {f}
  BY <1>1 DEF AnchorsStand
<1>4. f \in Events /\ WorkspaceOf[f] \in Workspaces /\ WorkspaceOf[e] \in Workspaces
  BY ConstantsAssumption DEF Anchored
<1>5. CASE f = e
  BY <1>3, <1>4, <1>5 DEF EnsureWorkingMemory, TypeOK
<1>6. CASE f # e
  <2>1. anchor[WorkspaceOf[f]] \in Stored \cup {f}
    BY <1>2, <1>6 DEF AnchorsStand
  <2>2. anchor[WorkspaceOf[f]] # NoEvent
    BY <1>4, <2>1, DistinctAssumption DEF Stored
  <2>3. anchor'[WorkspaceOf[f]] = anchor[WorkspaceOf[f]]
    BY <1>4, <2>2 DEF EnsureWorkingMemory, TypeOK
  <2>4. QED
    BY <2>1, <2>3
<1>7. QED
  BY <1>5, <1>6

\* Every step of an event request keeps the anchors standing.
LEMMA EventStepKeepsAnchors ==
  ASSUME InductiveInvariant, AnchorsStand, NEW e \in Events, EventStep(e)
  PROVE  AnchorsStand'
<1>1. TypeOK
  BY DEF InductiveInvariant
<1>2. CASE RollbackEvent(e)
  BY <1>1, <1>2, RollbackKeepsAnchors
<1>3. CASE EnsureWorkingMemory(e)
  BY <1>1, <1>3, EnsureKeepsAnchors
<1>4. CASE ~RollbackEvent(e) /\ ~EnsureWorkingMemory(e)
  <2>1. anchor' = anchor /\ Stored \subseteq Stored'
    BY <1>1, <1>4
    DEF EventStep, SaveEvent, CommitEvent, LoadMemory, StoreMemory, EventIs,
        Stored, Visible, TypeOK
  <2>2. Anchored' \subseteq Anchored
    BY <1>1, <1>4 DEF EventStep, SaveEvent, CommitEvent, LoadMemory,
       StoreMemory, EventIs, EventStates, Anchored, TypeOK
  <2>3. QED
    BY <2>1, <2>2 DEF AnchorsStand
<1>5. QED
  BY <1>2, <1>3, <1>4

\* Whatever rolls back, a workspace with a stored event has its cursor row
\* (ensure_working_memory's ON CONFLICT DO NOTHING waits for an open insert).
THEOREM RowsAreThere == Spec => []EventsHaveCursorRow
<1>1. Init => AnchorsStand
  BY DEF Init, AnchorsStand, Anchored
<1>2. InductiveInvariant /\ AnchorsStand /\ [Next]_vars => AnchorsStand'
  <2> SUFFICES ASSUME InductiveInvariant, AnchorsStand, [Next]_vars
               PROVE  AnchorsStand'
    OBVIOUS
  <2>1. CASE \E e \in Events : EventStep(e)
    BY <2>1, EventStepKeepsAnchors
  <2>2. CASE ~ \E e \in Events : EventStep(e)
    <3>1. UNCHANGED eventVars
      BY <2>2, ExecutionsLeaveEvents DEF Next, MemoryExpires, LockExpires, vars
    <3>2. QED
      BY <3>1 DEF AnchorsStand, Anchored, Stored, Visible, eventVars
  <2>3. QED
    BY <2>1, <2>2
<1>3. InductiveInvariant /\ AnchorsStand => EventsHaveCursorRow
  <2> SUFFICES ASSUME AnchorsStand, NEW e \in Events, Visible(e)
               PROVE  anchor[WorkspaceOf[e]] # NoEvent /\ Visible(anchor[WorkspaceOf[e]])
    BY DEF EventsHaveCursorRow
  <2>1. e \in Anchored /\ e \in Stored
    BY DEF Anchored, Stored, Visible, EventStates
  <2>2. anchor[WorkspaceOf[e]] \in Stored
    BY <2>1 DEF AnchorsStand
  <2>3. QED
    BY <2>2, DistinctAssumption DEF Stored
<1>4. QED
  BY <1>1, <1>2, <1>3, Invariance, PTL DEF Spec

=============================================================================
