---------------------- MODULE ConsolidateOnceCheckpoints ----------------------
(***************************************************************************)
(* Task checkpoints of ConsolidateOnce.  A checkpoint is numbered from a    *)
(* read that locks nothing (next_checkpoint_no); what keeps the numbers of  *)
(* a task apart is the cursor row of its workspace, so they are sound while *)
(* a task is consolidated from one workspace, and lost_checkpoint.cfg shows *)
(* what happens when it is not.                                             *)
(***************************************************************************)
EXTENDS ConsolidateOnceWindows

\* No task is named by events of two workspaces.
OneWorkspacePerTask ==
    \A e, f \in Events :
        TaskOf[e] = TaskOf[f] /\ TaskOf[e] # NoTask =>
            WorkspaceOf[e] = WorkspaceOf[f]

\* The task of a chosen window is named by an event of it, if any event does.
TaskIsNamed(x) ==
    pc[x] \in Chosen =>
        IF task[x] = NoTask THEN \A e \in window[x] : TaskOf[e] = NoTask
                            ELSE \E e \in window[x] : TaskOf[e] = task[x]

\* The number an open transaction holds is above every number of its task.
NumberIsNext(x) ==
    pc[x] \in Chosen \ {"numbering"} /\ task[x] # NoTask =>
        \A n \in CheckpointNumbers(task[x]) : n < number[x]

\* The checkpoint of a window with a task is not skipped.
CheckpointIsStaged(x) ==
    pc[x] \in {"candidates", "cursor", "outbox", "commit"} /\ task[x] # NoTask
        => "checkpoint" \in staged[x]

CheckpointPart(x) == TaskIsNamed(x) /\ NumberIsNext(x) /\ CheckpointIsStaged(x)

\* Checkpoints and evidence are published together.
CheckpointsHaveEvidence ==
    \A c \in checkpoints : \E e \in Events : evidence[e] = c.batch

CheckpointInvariant ==
    /\ \A x \in Executions : CheckpointPart(x)
    /\ CheckpointsHaveEvidence
    /\ EveryBatchHasCheckpoint
    /\ CurrentCheckpointIsLatest

(***************************************************************************)
(* Steps that publish nothing.                                             *)
(***************************************************************************)

\* An execution numbers its checkpoint above what is committed and stages it.
LEMMA OwnCheckpointPart ==
  ASSUME InductiveInvariant, NEW x \in Executions, CheckpointPart(x),
         Start(x) \/ Proceed(x) \/ Raise(x) \/ Crash(x), ~Commit(x),
         UNCHANGED tableVars
  PROVE  CheckpointPart(x)'
<1>1. TypeOK /\ \A t \in Tasks : CheckpointNumbers(t) \subseteq Nat
  BY DEF InductiveInvariant, TypeOK, CheckpointNumbers, Checkpoints
<1>2. \A t : CheckpointNumbers(t)' = CheckpointNumbers(t)
  BY DEF CheckpointNumbers, tableVars
<1>3. CASE pc'[x] \notin Chosen
  BY <1>3 DEF CheckpointPart, TaskIsNamed, NumberIsNext,
     CheckpointIsStaged, Chosen, InTransaction
<1>4. CASE \/ Start(x) \/ Acquire(x) \/ AcquireTimesOut(x)
           \/ GetCursorForUpdate(x) \/ CursorIsMissing(x)
           \/ NothingToConsolidate(x) \/ CompareMemory(x) \/ SaveMemory(x)
           \/ Release(x) \/ Raise(x) \/ Crash(x)
  <2>1. pc'[x] \notin Chosen
    BY <1>1, <1>4
    DEF TypeOK, Goto, Start, Acquire, AcquireTimesOut, GetCursorForUpdate,
        CursorIsMissing, NothingToConsolidate, CompareMemory, SaveMemory,
        Release, Raise, Crash, Chosen, InTransaction
  <2>2. QED
    BY <1>3, <2>1
<1>5. CASE ListEventsAfter(x)
  <2>1. /\ pc'[x] = "numbering"
        /\ window'[x] = EventsAfter(TargetOf[x], before[x])
        /\ task'[x] \in Tasks \cup {NoTask} /\ IsTaskOfWindow(task'[x], window'[x])
    BY <1>1, <1>5 DEF TypeOK, ListEventsAfter, Goto
  <2>2. TaskIsNamed(x)'
    BY <2>1 DEF TaskIsNamed, IsTaskOfWindow, IsLast
  <2>3. QED
    BY <2>1, <2>2
    DEF CheckpointPart, TaskIsNamed, NumberIsNext, CheckpointIsStaged
<1>6. CASE NumberCheckpoint(x)
  <2>1. /\ pc[x] = "numbering" /\ pc'[x] = "evidence"
        /\ UNCHANGED <<window, task, staged>>
    BY <1>1, <1>6 DEF TypeOK, NumberCheckpoint, Goto
  <2>2. task[x] # NoTask =>
           \A n \in CheckpointNumbers(task[x]) : n < number'[x]
    <3>1. SUFFICES ASSUME task[x] # NoTask
                   PROVE  \A n \in CheckpointNumbers(task[x]) : n < number'[x]
      OBVIOUS
    <3>2. PICK n \in CheckpointNumbers(task[x]) :
             /\ \A m \in CheckpointNumbers(task[x]) : m <= n
             /\ number' = [number EXCEPT ![x] = n + 1]
      BY <1>6, <3>1 DEF NumberCheckpoint
    <3>3. CheckpointNumbers(task[x]) \subseteq Nat
      BY <1>1, <3>1 DEF TypeOK
    <3>4. QED
      BY <1>1, <3>2, <3>3 DEF TypeOK
  <2>3. QED
    BY <1>2, <2>1, <2>2
    DEF CheckpointPart, TaskIsNamed, NumberIsNext, CheckpointIsStaged, Chosen,
        InTransaction
<1>7. CASE SaveCheckpoint(x) /\ task[x] = NoTask
  <2>1. /\ pc[x] = "checkpoint" /\ pc'[x] = "candidates" /\ UNCHANGED localVars
    BY <1>1, <1>7 DEF TypeOK, SaveCheckpoint, Stage, Goto
  <2>2. QED
    BY <1>2, <1>7, <2>1
    DEF CheckpointPart, TaskIsNamed, NumberIsNext, CheckpointIsStaged, Chosen,
        InTransaction, localVars
<1>8. CASE \/ SaveEvidence(x)
           \/ SaveCheckpoint(x) /\ task[x] # NoTask
           \/ SaveCandidates(x) \/ AdvanceCursor(x) \/ AddOutboxJob(x)
  <2>1. PICK statement \in Statements, next \in Phases :
          /\ Stage(x, statement, next)
          /\ \/ statement = "evidence" /\ next = "checkpoint"
             \/ statement = "checkpoint" /\ next = "candidates"
             \/ statement = "candidates" /\ next = "cursor"
             \/ statement = "cursor" /\ next \in {"commit", "outbox"}
             \/ statement = "outbox" /\ next = "commit"
    BY <1>8 DEF SaveEvidence, SaveCheckpoint, SaveCandidates, AdvanceCursor,
       AddOutboxJob, Statements, Phases
  <2>2. /\ pc[x] = statement /\ pc'[x] = next
        /\ staged'[x] = staged[x] \cup {statement} /\ UNCHANGED localVars
    BY <1>1, <2>1 DEF TypeOK, Stage, Goto
  <2>3. QED
    BY <1>2, <2>1, <2>2
    DEF CheckpointPart, TaskIsNamed, NumberIsNext, CheckpointIsStaged, Chosen,
        InTransaction, localVars
<1>9. QED
  BY <1>4, <1>5, <1>6, <1>7, <1>8 DEF Proceed

\* What is published stays, and the transactions of the others are not touched.
LEMMA OtherStepsKeepCheckpoints ==
  ASSUME InductiveInvariant, CheckpointInvariant, [Next]_vars,
         ~ \E x \in Executions : Commit(x)
  PROVE  CheckpointInvariant'
<1>1. UNCHANGED tableVars
  BY OnlyCommitsPublish
<1>2. /\ CheckpointsHaveEvidence'
      /\ EveryBatchHasCheckpoint'
      /\ CurrentCheckpointIsLatest'
  BY <1>1
  DEF CheckpointInvariant, CheckpointsHaveEvidence, EveryBatchHasCheckpoint,
      CurrentCheckpointIsLatest, HasTask, Consolidated, CheckpointNumbers,
      tableVars
<1>3. ASSUME NEW x \in Executions, pc'[x] = pc[x], window'[x] = window[x],
             task'[x] = task[x], number'[x] = number[x], staged'[x] = staged[x]
      PROVE  CheckpointPart(x)'
  BY <1>1, <1>3
  DEF CheckpointInvariant, CheckpointPart, TaskIsNamed, NumberIsNext,
      CheckpointIsStaged, CheckpointNumbers, tableVars
<1>4. ASSUME NEW x \in Executions PROVE CheckpointPart(x)'
  <2>1. CASE UNCHANGED <<pc, localVars, staged>>
    BY <1>3, <2>1 DEF localVars
  <2>2. CASE \E e \in Events : EventStep(e)
    BY <2>1, <2>2, EventStepFrame
  <2>3. CASE \/ \E w \in Workspaces : MemoryExpires(w) \/ LockExpires(w)
             \/ UNCHANGED vars
    BY <2>1, <2>3 DEF MemoryExpires, LockExpires, vars
  <2>4. ASSUME NEW y \in Executions, Start(y) \/ Proceed(y) \/ Raise(y) \/ Crash(y)
        PROVE  CheckpointPart(x)'
    <3>1. CASE y = x
      BY <1>1, <2>4, <3>1, OwnCheckpointPart DEF CheckpointInvariant
    <3>2. CASE y # x
      BY <1>3, <2>4, <3>2, StepIsLocal DEF InductiveInvariant, LeavesAlone
    <3>3. QED
      BY <3>1, <3>2
  <2>5. QED
    BY <2>2, <2>3, <2>4 DEF Next
<1>5. QED
  BY <1>2, <1>4 DEF CheckpointInvariant

(***************************************************************************)
(* Commits.                                                                *)
(***************************************************************************)

\* A batch about to be committed is new to the tables, in every workspace.
LEMMA BatchIsNew ==
  ASSUME InductiveInvariant, WindowsAreDisjoint, NEW x \in Executions, Commit(x),
         NEW e \in Events
  PROVE  evidence[e] # batch[x]
<1>1. SUFFICES ASSUME evidence[e] = batch[x] PROVE FALSE
  OBVIOUS
<1>2. batch[x] # NoBatch /\ batch[x][1] \in window[x]
  BY CommitWindow
<1>3. e \in ConsolidatedIn(WorkspaceOf[e]) /\ WorkspaceOf[e] \in Workspaces
  BY <1>1, <1>2, ConstantsAssumption DEF ConsolidatedIn, Consolidated
<1>4. evidence[batch[x][1]] = batch[x]
  BY <1>1, <1>3 DEF WindowsAreDisjoint, First
<1>5. QED
  BY <1>2, <1>4, CommitWindow DEF Consolidated

\* A commit adds the checkpoint of a window with a task, under a number above
\* all others, and makes it the current one.
LEMMA CommitCheckpoint ==
  ASSUME InductiveInvariant, WindowsAreDisjoint, CheckpointInvariant,
         NEW x \in Executions, Commit(x)
  PROVE  IF task[x] = NoTask
         THEN UNCHANGED <<checkpoints, taskMemory>>
         ELSE /\ task[x] \in Tasks
              /\ \A n \in CheckpointNumbers(task[x]) : n < number[x]
              /\ checkpoints' = checkpoints \cup {NewCheckpoint(x)}
              /\ taskMemory' = [taskMemory EXCEPT ![task[x]] = number[x]]
<1>1. /\ pc[x] = "commit" /\ Publish(x) /\ CheckpointPart(x) /\ StagesInOrder(x)
      /\ TypeOK
  BY DEF Commit, Goto, InductiveInvariant, StagedByPhase, CheckpointInvariant
<1>2. "checkpoint" \in staged[x] <=> task[x] # NoTask
  BY <1>1 DEF StagesInOrder, CheckpointPart, CheckpointIsStaged
<1>3. CASE task[x] = NoTask
  BY <1>1, <1>2, <1>3 DEF Publish
<1>4. CASE task[x] # NoTask
  <2>1. /\ task[x] \in Tasks
        /\ \A n \in CheckpointNumbers(task[x]) : n < number[x]
    BY <1>1, <1>4 DEF TypeOK, CheckpointPart, NumberIsNext, Chosen, InTransaction
  <2>2. ~CheckpointConflicts(x)
    <3>1. ASSUME NEW c \in checkpoints
          PROVE  ~(c.task = task[x] /\ c.no = number[x])
      <4>1. c.task = task[x] => c.no \in CheckpointNumbers(task[x])
        BY DEF CheckpointNumbers
      <4>2. number[x] \in Nat
        BY <1>1 DEF TypeOK
      <4>3. QED
        BY <2>1, <4>1, <4>2
    <3>2. ASSUME NEW c \in checkpoints PROVE c.batch # batch[x]
      BY BatchIsNew DEF CheckpointInvariant, CheckpointsHaveEvidence
    <3>3. QED
      BY <3>1, <3>2 DEF CheckpointConflicts
  <2>3. QED
    BY <1>1, <1>2, <1>4, <2>1, <2>2 DEF Publish, UpsertedTaskMemory
<1>5. QED
  BY <1>3, <1>4

\* Two open transactions never number checkpoints of one task: their windows
\* would name it in one workspace, whose cursor row only one of them holds.
LEMMA TasksAreApart ==
  ASSUME OneWorkspacePerTask, InductiveInvariant, CheckpointInvariant,
         NEW x \in Executions, NEW y \in Executions, x # y,
         pc[x] \in Chosen, pc[y] \in Chosen, task[x] # NoTask
  PROVE  task[x] # task[y]
<1>1. SUFFICES ASSUME task[x] = task[y] PROVE FALSE
  OBVIOUS
<1>2. PICK e \in window[x], f \in window[y] :
         TaskOf[e] = task[x] /\ TaskOf[f] = task[x]
  BY <1>1 DEF CheckpointInvariant, CheckpointPart, TaskIsNamed
<1>3. e \in Events /\ f \in Events
  BY DEF InductiveInvariant, TypeOK
<1>4. /\ WorkspaceOf[e] = TargetOf[x] /\ rowLock[TargetOf[x]] = x
      /\ WorkspaceOf[f] = TargetOf[y] /\ rowLock[TargetOf[y]] = y
  BY DEF InductiveInvariant, WindowIsHeld, HoldsWindow, Chosen
<1>5. QED
  BY <1>2, <1>3, <1>4 DEF OneWorkspacePerTask

\* A commit keeps the invariant of checkpoints.
LEMMA CommitKeepsCheckpoints ==
  ASSUME OneWorkspacePerTask, InductiveInvariant, WindowsAreDisjoint,
         CheckpointInvariant, NEW x \in Executions, Commit(x)
  PROVE  CheckpointInvariant'
<1>1. /\ pc[x] \in Chosen /\ pc'[x] \notin Chosen
      /\ window[x] \subseteq Events /\ batch[x] # NoBatch /\ TypeOK
  BY CommitWindow
  DEF Commit, Goto, Chosen, InTransaction, InductiveInvariant, TypeOK
<1>2. /\ \A e \in Events : Consolidated(e) =>
            e \notin window[x] /\ evidence'[e] = evidence[e]
      /\ \A e \in window[x] : evidence'[e] = batch[x]
      /\ \A e \in Events : e \notin window[x] => evidence'[e] = evidence[e]
  BY CommitConsolidates, CommitPublishes
<1>3. /\ task[x] = NoTask => UNCHANGED <<checkpoints, taskMemory>>
      /\ task[x] # NoTask =>
            /\ task[x] \in Tasks
            /\ \A n \in CheckpointNumbers(task[x]) : n < number[x]
            /\ checkpoints' = checkpoints \cup {NewCheckpoint(x)}
            /\ taskMemory' = [taskMemory EXCEPT ![task[x]] = number[x]]
  BY CommitCheckpoint
<1>4. \A e \in Events : evidence[e] # batch[x]
  BY BatchIsNew
<1>5. \A t \in Tasks : CheckpointNumbers(t)' =
         IF t = task[x] THEN CheckpointNumbers(t) \cup {number[x]}
                        ELSE CheckpointNumbers(t)
  <2>1. CASE task[x] = NoTask
    BY <1>3, <2>1, DistinctAssumption DEF CheckpointNumbers
  <2>2. CASE task[x] # NoTask
    <3>1. /\ checkpoints' = checkpoints \cup {NewCheckpoint(x)}
          /\ NewCheckpoint(x).task = task[x] /\ NewCheckpoint(x).no = number[x]
      BY <1>3, <2>2 DEF NewCheckpoint
    <3>2. QED
      BY <3>1 DEF CheckpointNumbers
  <2>3. QED
    BY <2>1, <2>2
<1>6. CheckpointsHaveEvidence'
  <2> SUFFICES ASSUME NEW c \in checkpoints'
               PROVE  \E e \in Events : evidence'[e] = c.batch
    BY DEF CheckpointsHaveEvidence
  <2>1. CASE c \in checkpoints
    <3>1. PICK e \in Events : evidence[e] = c.batch
      BY <2>1 DEF CheckpointInvariant, CheckpointsHaveEvidence
    <3>2. evidence[e] # NoBatch
      BY <1>1, <2>1, <3>1, DistinctAssumption DEF TypeOK, Checkpoints, Batches
    <3>3. QED
      BY <1>2, <3>1, <3>2 DEF Consolidated
  <2>2. CASE c \notin checkpoints
    <3>1. c.batch = batch[x]
      BY <1>3, <2>2 DEF NewCheckpoint
    <3>2. QED
      BY <1>1, <1>2, <3>1, CommitWindow
  <2>3. QED
    BY <2>1, <2>2
<1>7. EveryBatchHasCheckpoint'
  <2> SUFFICES ASSUME NEW e \in Events, evidence'[e] # NoBatch, NEW f \in Events,
                      evidence'[f] = evidence'[e], TaskOf[f] # NoTask
               PROVE  \E c \in checkpoints' : c.batch = evidence'[e]
    BY DEF EveryBatchHasCheckpoint, HasTask, Consolidated
  <2>1. CASE e \in window[x]
    <3>1. f \in window[x]
      BY <1>2, <1>4, <2>1
    <3>2. task[x] # NoTask
      BY <1>1, <3>1 DEF CheckpointInvariant, CheckpointPart, TaskIsNamed
    <3>3. /\ NewCheckpoint(x) \in checkpoints'
          /\ NewCheckpoint(x).batch = evidence'[e]
      BY <1>2, <1>3, <2>1, <3>2 DEF NewCheckpoint
    <3>4. QED
      BY <3>3
  <2>2. CASE e \notin window[x]
    <3>1. evidence'[e] = evidence[e] /\ evidence[f] = evidence[e]
      BY <1>2, <1>4, <2>2
    <3>2. PICK c \in checkpoints : c.batch = evidence[e]
      BY <3>1 DEF CheckpointInvariant, EveryBatchHasCheckpoint, HasTask,
         Consolidated
    <3>3. QED
      BY <1>3, <3>1, <3>2
  <2>3. QED
    BY <2>1, <2>2
<1>8. CurrentCheckpointIsLatest'
  <2> SUFFICES ASSUME NEW t \in Tasks
               PROVE  /\ taskMemory'[t] \in CheckpointNumbers(t)'
                      /\ \A n \in CheckpointNumbers(t)' : n <= taskMemory'[t]
    BY DEF CurrentCheckpointIsLatest
  <2>1. /\ taskMemory[t] \in CheckpointNumbers(t)
        /\ \A n \in CheckpointNumbers(t) : n <= taskMemory[t]
    BY DEF CheckpointInvariant, CurrentCheckpointIsLatest
  <2>2. CASE t # task[x]
    BY <1>1, <1>3, <1>5, <2>1, <2>2 DEF TypeOK
  <2>3. CASE t = task[x]
    <3>1. taskMemory'[t] = number[x] /\ \A n \in CheckpointNumbers(t) : n < number[x]
      BY <1>1, <1>3, <2>3, DistinctAssumption DEF TypeOK
    <3>2. number[x] \in Nat /\ CheckpointNumbers(t) \subseteq Nat
      BY <1>1 DEF TypeOK, CheckpointNumbers, Checkpoints
    <3>3. QED
      BY <1>5, <2>3, <3>1, <3>2
  <2>4. QED
    BY <2>2, <2>3
<1>9. ASSUME NEW y \in Executions PROVE CheckpointPart(y)'
  <2>1. CASE y = x
    BY <1>1, <2>1 DEF CheckpointPart, TaskIsNamed, NumberIsNext,
       CheckpointIsStaged, Chosen, InTransaction
  <2>2. CASE y # x
    <3>1. LeavesAlone(y)
      BY <2>2, StepIsLocal DEF InductiveInvariant, Proceed
    <3>2. CheckpointPart(y)
      BY DEF CheckpointInvariant
    <3>3. ASSUME pc[y] \in Chosen, task[y] # NoTask
          PROVE  CheckpointNumbers(task[y])' = CheckpointNumbers(task[y])
      <4>1. task[y] # task[x]
        BY <1>1, <2>2, <3>3, TasksAreApart
      <4>2. task[y] \in Tasks /\ task'[y] = task[y]
        BY <1>1, <3>1, <3>3 DEF TypeOK, LeavesAlone
      <4>3. QED
        BY <1>5, <4>1, <4>2
    <3>4. QED
      BY <3>1, <3>2, <3>3
      DEF LeavesAlone, CheckpointPart, TaskIsNamed, NumberIsNext,
          CheckpointIsStaged
  <2>3. QED
    BY <2>1, <2>2
<1>10. QED
  BY <1>6, <1>7, <1>8, <1>9 DEF CheckpointInvariant

(***************************************************************************)
(* Theorems.                                                               *)
(***************************************************************************)

\* The invariant of checkpoints holds while a task has one workspace.
THEOREM CheckpointInvariance ==
  ASSUME OneWorkspacePerTask
  PROVE  Spec => []CheckpointInvariant
<1>1. Init => CheckpointInvariant
  BY DEF Init, CheckpointInvariant, CheckpointPart, TaskIsNamed, NumberIsNext,
     CheckpointIsStaged, CheckpointsHaveEvidence, EveryBatchHasCheckpoint,
     CurrentCheckpointIsLatest, CheckpointNumbers, Consolidated, Chosen,
     InTransaction
<1>2. InductiveInvariant /\ WindowsAreDisjoint /\ CheckpointInvariant
         /\ [Next]_vars => CheckpointInvariant'
  BY CommitKeepsCheckpoints, OtherStepsKeepCheckpoints
<1>3. QED
  BY <1>1, <1>2, Invariance, BatchesAreWindows, PTL DEF Spec

\* Every published window of a task has its checkpoint row, while the task is
\* consolidated from one workspace: ON CONFLICT DO NOTHING then never drops one
\* (write.py, save_checkpoint).
THEOREM CheckpointsAreComplete ==
  ASSUME OneWorkspacePerTask
  PROVE  Spec => []EveryBatchHasCheckpoint
<1>1. CheckpointInvariant => EveryBatchHasCheckpoint
  BY DEF CheckpointInvariant
<1>2. QED
  BY <1>1, CheckpointInvariance, PTL

\* current_checkpoint_no of such a task is the highest number stored: a later
\* execution never writes an earlier number over it.
THEOREM CurrentIsLatest ==
  ASSUME OneWorkspacePerTask
  PROVE  Spec => []CurrentCheckpointIsLatest
<1>1. CheckpointInvariant => CurrentCheckpointIsLatest
  BY DEF CheckpointInvariant
<1>2. QED
  BY <1>1, CheckpointInvariance, PTL

=============================================================================
