--------------------------- MODULE ConsolidateOnce ---------------------------
(***************************************************************************)
(* The write chain around Consolidate Once: event transactions that append *)
(* raw events, and executions that turn the events after a workspace's     *)
(* consolidation cursor into evidence, a task checkpoint and long-term     *)
(* candidates, and then advance the cursor.                                *)
(*                                                                         *)
(* PostgreSQL runs at READ COMMITTED: a transaction's rows are kept in     *)
(* "staged" (what its statements wrote) and become visible when it         *)
(* commits; a row written or locked by an open transaction makes other     *)
(* writers of that row wait (rowLock).  Redis holds the consolidation lock *)
(* (lockOwner), which expires, and the Working Memory of a workspace, of   *)
(* which this module keeps the consolidation cursor (memory).              *)
(*                                                                         *)
(* One tenant is modelled: every statement is filtered by tenant_id.       *)
(***************************************************************************)
EXTENDS Naturals, FiniteSets

CONSTANTS
    Workspaces,   \* workspaces of the tenant
    Tasks,        \* task ids
    Events,       \* raw events, each with its own event_id and idempotency key
    Executions,   \* calls of ConsolidateOnceService.execute
    WorkspaceOf,  \* the workspace an event is written to
    TaskOf,       \* the task an event names, or NoTask
    Speaking,     \* events that yield candidates (a user's, an assistant's)
    TargetOf,     \* the workspace an execution consolidates
    MaxSequence,  \* bound: event_sequence values the model hands out
    NoEvent, NoTask, NoBatch, NoMemory, NoExecution

ASSUME ConstantsAssumption ==
    /\ WorkspaceOf \in [Events -> Workspaces]
    /\ TaskOf \in [Events -> Tasks \cup {NoTask}]
    /\ Speaking \subseteq Events
    /\ TargetOf \in [Executions -> Workspaces]
    /\ MaxSequence \in Nat

ASSUME DistinctAssumption ==
    /\ NoEvent \notin Events
    /\ NoMemory \notin Events \cup {NoEvent}
    /\ NoTask \notin Tasks
    /\ NoExecution \notin Executions
    /\ NoBatch \notin Events \X Events
    /\ Workspaces \cap Tasks = {}

VARIABLES
    eventState,    \* progress of the request that writes an event
    sequence,      \* event_sequence of an inserted event, 0 before the insert
    nextSequence,  \* the identity generator of memory_events
    anchor,        \* event whose transaction inserted the workspace's rows
    loaded,        \* the event request's copy of the Working Memory cursor
    cursor,        \* consolidated_until_event_id
    batchVersion,  \* batch_version of the cursor row
    evidence,      \* batch of the evidence row of an event
    candidates,    \* batch of the candidate rows of an event
    checkpoints,   \* task_checkpoints rows
    taskMemory,    \* current_checkpoint_no of a task, 0 when there is no row
    outbox,        \* batches with a govern_long_term_candidates job
    rowLock,       \* open execution that locked a cursor or task_memory row
    lockOwner,     \* owner of the Redis consolidation lock
    memory,        \* cursor held by the Working Memory, NoMemory when no key
    pc, before, window, batch, task, number, staged, outcome

eventVars == <<eventState, sequence, nextSequence, anchor, loaded>>
tableVars == <<cursor, batchVersion, evidence, candidates, checkpoints,
               taskMemory, outbox>>
localVars == <<before, window, batch, task, number>>
vars == <<eventVars, tableVars, rowLock, lockOwner, memory,
          pc, localVars, staged, outcome>>

Batches == Events \X Events   \* named by the first and the last event
Rows == Workspaces \cup Tasks \* consolidation_cursors and task_memory rows
Statements == {"evidence", "checkpoint", "candidates", "cursor", "outbox"}

EventStates == {"absent", "inserted", "anchored", "committed", "loaded",
                "finished"}
Phases == {"idle", "acquiring", "locked", "listing", "numbering", "evidence",
           "checkpoint", "candidates", "cursor", "outbox", "commit",
           "advancing", "saving", "releasing", "done", "crashed"}
Outcomes == {"none", "consolidated", "idempotent", "failed"}
InTransaction == {"listing", "numbering", "evidence", "checkpoint",
                  "candidates", "cursor", "outbox", "commit"}
Chosen == InTransaction \ {"listing"}  \* the window is chosen, not published
Published == {"advancing", "saving"}

Checkpoints == [task: Tasks, no: Nat \ {0}, batch: Batches]

TypeOK ==
    /\ eventState \in [Events -> EventStates]
    /\ sequence \in [Events -> Nat]
    /\ nextSequence \in Nat \ {0}
    /\ anchor \in [Workspaces -> Events \cup {NoEvent}]
    /\ loaded \in [Events -> Events \cup {NoEvent, NoMemory}]
    /\ cursor \in [Workspaces -> Events \cup {NoEvent}]
    /\ batchVersion \in [Workspaces -> Nat]
    /\ evidence \in [Events -> Batches \cup {NoBatch}]
    /\ candidates \in [Events -> Batches \cup {NoBatch}]
    /\ checkpoints \subseteq Checkpoints
    /\ taskMemory \in [Tasks -> Nat]
    /\ outbox \subseteq Batches
    /\ rowLock \in [Rows -> Executions \cup {NoExecution}]
    /\ lockOwner \in [Workspaces -> Executions \cup {NoExecution}]
    /\ memory \in [Workspaces -> Events \cup {NoEvent, NoMemory}]
    /\ pc \in [Executions -> Phases]
    /\ before \in [Executions -> Events \cup {NoEvent}]
    /\ window \in [Executions -> SUBSET Events]
    /\ batch \in [Executions -> Batches \cup {NoBatch}]
    /\ task \in [Executions -> Tasks \cup {NoTask}]
    /\ number \in [Executions -> Nat]
    /\ staged \in [Executions -> SUBSET Statements]
    /\ outcome \in [Executions -> Outcomes]

Init ==
    /\ eventState = [e \in Events |-> "absent"]
    /\ sequence = [e \in Events |-> 0]
    /\ nextSequence = 1
    /\ anchor = [w \in Workspaces |-> NoEvent]
    /\ loaded = [e \in Events |-> NoMemory]
    /\ cursor = [w \in Workspaces |-> NoEvent]
    /\ batchVersion = [w \in Workspaces |-> 0]
    /\ evidence = [e \in Events |-> NoBatch]
    /\ candidates = [e \in Events |-> NoBatch]
    /\ checkpoints = {}
    /\ taskMemory = [t \in Tasks |-> 0]
    /\ outbox = {}
    /\ rowLock = [r \in Rows |-> NoExecution]
    /\ lockOwner = [w \in Workspaces |-> NoExecution]
    /\ memory = [w \in Workspaces |-> NoMemory]
    /\ pc = [x \in Executions |-> "idle"]
    /\ before = [x \in Executions |-> NoEvent]
    /\ window = [x \in Executions |-> {}]
    /\ batch = [x \in Executions |-> NoBatch]
    /\ task = [x \in Executions |-> NoTask]
    /\ number = [x \in Executions |-> 0]
    /\ staged = [x \in Executions |-> {}]
    /\ outcome = [x \in Executions |-> "none"]

-----------------------------------------------------------------------------
(* Event requests: save_event, ensure_working_memory, commit, and then the *)
(* read and the write-back of the Working Memory, each an await.           *)

EventIs(e, from, to) ==
    /\ eventState[e] = from
    /\ eventState' = [eventState EXCEPT ![e] = to]

\* The row is in the table as other transactions see it.
Visible(e) == eventState[e] \in {"committed", "loaded", "finished"}

\* The identity column is filled by the INSERT, not by the commit.
SaveEvent(e) ==
    /\ EventIs(e, "absent", "inserted")
    /\ nextSequence <= MaxSequence
    /\ sequence' = [sequence EXCEPT ![e] = nextSequence]
    /\ nextSequence' = nextSequence + 1
    /\ UNCHANGED <<anchor, loaded, tableVars, rowLock, lockOwner, memory,
                   pc, localVars, staged, outcome>>

\* Fault: an uncommitted insert of the same rows counts as a row that is there.
EnsureWithoutWaiting(e) ==
    LET w == WorkspaceOf[e]
    IN  /\ EventIs(e, "inserted", "anchored")
        /\ anchor' = IF anchor[w] = NoEvent
                     THEN [anchor EXCEPT ![w] = e] ELSE anchor
        /\ UNCHANGED <<sequence, nextSequence, loaded, tableVars, rowLock,
                       lockOwner, memory, pc, localVars, staged, outcome>>

\* ON CONFLICT DO NOTHING waits for an uncommitted insert of the same rows.
EnsureWorkingMemory(e) ==
    LET w == WorkspaceOf[e]
    IN  /\ EventIs(e, "inserted", "anchored")
        /\ anchor[w] # NoEvent => Visible(anchor[w])
        /\ anchor' = IF anchor[w] = NoEvent
                     THEN [anchor EXCEPT ![w] = e] ELSE anchor
        /\ UNCHANGED <<sequence, nextSequence, loaded, tableVars, rowLock,
                       lockOwner, memory, pc, localVars, staged, outcome>>

CommitEvent(e) ==
    /\ EventIs(e, "anchored", "committed")
    /\ UNCHANGED <<sequence, nextSequence, anchor, loaded, tableVars, rowLock,
                   lockOwner, memory, pc, localVars, staged, outcome>>

\* __aexit__ without a commit; the sequence value is not handed out again.
RollbackEvent(e) ==
    /\ eventState[e] \in {"inserted", "anchored"}
    /\ eventState' = [eventState EXCEPT ![e] = "absent"]
    /\ sequence' = [sequence EXCEPT ![e] = 0]
    /\ anchor' = [w \in Workspaces |->
                    IF anchor[w] = e THEN NoEvent ELSE anchor[w]]
    /\ UNCHANGED <<nextSequence, loaded, tableVars, rowLock, lockOwner, memory,
                   pc, localVars, staged, outcome>>

LoadMemory(e) ==
    /\ EventIs(e, "committed", "loaded")
    /\ loaded' = [loaded EXCEPT ![e] = memory[WorkspaceOf[e]]]
    /\ UNCHANGED <<sequence, nextSequence, anchor, tableVars, rowLock,
                   lockOwner, memory, pc, localVars, staged, outcome>>

\* The whole copy is written back, the cursor it was read with included; a
\* missing Working Memory is replaced by a fresh one without a cursor.
StoreMemory(e) ==
    /\ EventIs(e, "loaded", "finished")
    /\ memory' = [memory EXCEPT ![WorkspaceOf[e]] =
                    IF loaded[e] = NoMemory THEN NoEvent ELSE loaded[e]]
    /\ loaded' = [loaded EXCEPT ![e] = NoMemory]
    /\ UNCHANGED <<sequence, nextSequence, anchor, tableVars, rowLock,
                   lockOwner, pc, localVars, staged, outcome>>

\* SET ... EX ttl_seconds.
MemoryExpires(w) ==
    /\ memory[w] # NoMemory
    /\ memory' = [memory EXCEPT ![w] = NoMemory]
    /\ UNCHANGED <<eventVars, tableVars, rowLock, lockOwner, pc, localVars,
                   staged, outcome>>

-----------------------------------------------------------------------------
(* Executions.                                                             *)

Goto(x, from, to) ==
    /\ pc[x] = from
    /\ pc' = [pc EXCEPT ![x] = to]

Start(x) ==
    /\ Goto(x, "idle", "acquiring")
    /\ UNCHANGED <<eventVars, tableVars, rowLock, lockOwner, memory, localVars,
                   staged, outcome>>

Acquire(x) ==
    /\ Goto(x, "acquiring", "locked")
    /\ lockOwner[TargetOf[x]] = NoExecution
    /\ lockOwner' = [lockOwner EXCEPT ![TargetOf[x]] = x]
    /\ UNCHANGED <<eventVars, tableVars, rowLock, memory, localVars, staged,
                   outcome>>

\* blocking_timeout: the lock was never free for this execution.
AcquireTimesOut(x) ==
    /\ Goto(x, "acquiring", "done")
    /\ lockOwner[TargetOf[x]] # NoExecution
    /\ outcome' = [outcome EXCEPT ![x] = "failed"]
    /\ UNCHANGED <<eventVars, tableVars, rowLock, lockOwner, memory, localVars,
                   staged>>

\* timeout: Redis drops the key however far its owner has got.
LockExpires(w) ==
    /\ lockOwner[w] # NoExecution
    /\ lockOwner' = [lockOwner EXCEPT ![w] = NoExecution]
    /\ UNCHANGED <<eventVars, tableVars, rowLock, memory, pc, localVars,
                   staged, outcome>>

\* Fault: the row locks outlive the transaction.
EndTransactionKeepingLocks(x) ==
    /\ staged' = [staged EXCEPT ![x] = {}]
    /\ UNCHANGED rowLock

\* The end of x's transaction on the server: its row locks are released.
Unlocked(x) ==
    [r \in Rows |-> IF rowLock[r] = x THEN NoExecution ELSE rowLock[r]]

EndTransaction(x) ==
    /\ rowLock' = Unlocked(x)
    /\ staged' = [staged EXCEPT ![x] = {}]

MayWrite(x, row) == rowLock[row] \in {NoExecution, x}

\* Fault: the cursor row is read without FOR UPDATE.
GetCursorWithoutLock(x) ==
    LET w == TargetOf[x]
    IN  /\ Goto(x, "locked", "listing")
        /\ anchor[w] # NoEvent /\ Visible(anchor[w])
        /\ before' = [before EXCEPT ![x] = cursor[w]]
        /\ UNCHANGED <<eventVars, tableVars, rowLock, lockOwner, memory, window,
                       batch, task, number, staged, outcome>>

GetCursorForUpdate(x) ==
    LET w == TargetOf[x]
    IN  /\ Goto(x, "locked", "listing")
        /\ anchor[w] # NoEvent /\ Visible(anchor[w])
        /\ MayWrite(x, w)
        /\ rowLock' = [rowLock EXCEPT ![w] = x]
        /\ before' = [before EXCEPT ![x] = cursor[w]]
        /\ UNCHANGED <<eventVars, tableVars, lockOwner, memory, window, batch,
                       task, number, staged, outcome>>

\* No cursor row is visible: RuntimeError.
CursorIsMissing(x) ==
    LET w == TargetOf[x]
    IN  /\ Goto(x, "locked", "releasing")
        /\ anchor[w] # NoEvent => ~Visible(anchor[w])
        /\ outcome' = [outcome EXCEPT ![x] = "failed"]
        /\ EndTransaction(x)
        /\ UNCHANGED <<eventVars, tableVars, lockOwner, memory, localVars>>

\* Faults: the window takes in the cursor's event; everything but the cursor's
\* event; or nothing when the cursor is NULL (a comparison with NULL).
EventsFrom(w, c) ==
    {e \in Events : /\ WorkspaceOf[e] = w
                    /\ Visible(e)
                    /\ c # NoEvent => sequence[e] >= sequence[c]}
EventsOtherThan(w, c) ==
    {e \in Events : WorkspaceOf[e] = w /\ Visible(e) /\ e # c}
EventsAfterNotNull(w, c) ==
    {e \in Events : /\ WorkspaceOf[e] = w
                    /\ Visible(e)
                    /\ c # NoEvent /\ sequence[e] > sequence[c]}

\* The events a statement of an execution reads, given the cursor.
EventsAfter(w, c) ==
    {e \in Events : /\ WorkspaceOf[e] = w
                    /\ Visible(e)
                    /\ c # NoEvent => sequence[e] > sequence[c]}

IsFirst(e, W) == e \in W /\ \A f \in W : sequence[e] <= sequence[f]
IsLast(e, W) == e \in W /\ \A f \in W : sequence[f] <= sequence[e]

\* The task of the latest event of the window that names one.
IsTaskOfWindow(t, W) ==
    LET naming == {e \in W : TaskOf[e] # NoTask}
    IN  IF naming = {} THEN t = NoTask
        ELSE \E e \in naming : IsLast(e, naming) /\ TaskOf[e] = t

ListEventsAfter(x) ==
    LET W == EventsAfter(TargetOf[x], before[x])
    IN  /\ W # {}
        /\ Goto(x, "listing", "numbering")
        /\ window' = [window EXCEPT ![x] = W]
        /\ \E first, last \in W :
              /\ IsFirst(first, W) /\ IsLast(last, W)
              /\ batch' = [batch EXCEPT ![x] = <<first, last>>]
        /\ \E t \in Tasks \cup {NoTask} :
              /\ IsTaskOfWindow(t, W)
              /\ task' = [task EXCEPT ![x] = t]
        /\ UNCHANGED <<eventVars, tableVars, rowLock, lockOwner, memory,
                       before, number, staged, outcome>>

NothingToConsolidate(x) ==
    /\ Goto(x, "listing", "releasing")
    /\ EventsAfter(TargetOf[x], before[x]) = {}
    /\ EndTransaction(x)
    /\ outcome' = [outcome EXCEPT ![x] = "idempotent"]
    /\ UNCHANGED <<eventVars, tableVars, lockOwner, memory, localVars>>

\* next_checkpoint_no: one above the highest committed number, unlocked.
CheckpointNumbers(t) == {0} \cup {c.no : c \in {d \in checkpoints : d.task = t}}

\* Faults: the highest number is used again; the draft's number is kept.
NumberCheckpointAsHighest(x) ==
    /\ Goto(x, "numbering", "evidence")
    /\ \E n \in CheckpointNumbers(task[x]) :
          /\ \A m \in CheckpointNumbers(task[x]) : m <= n
          /\ number' = [number EXCEPT ![x] = n]
    /\ UNCHANGED <<eventVars, tableVars, rowLock, lockOwner, memory, before,
                   window, batch, task, staged, outcome>>
NumberCheckpointAsDrafted(x) ==
    /\ Goto(x, "numbering", "evidence")
    /\ number' = [number EXCEPT ![x] = 1]
    /\ UNCHANGED <<eventVars, tableVars, rowLock, lockOwner, memory, before,
                   window, batch, task, staged, outcome>>

NumberCheckpoint(x) ==
    /\ Goto(x, "numbering", "evidence")
    /\ \/ /\ task[x] = NoTask
          /\ UNCHANGED number
       \/ /\ task[x] # NoTask
          /\ \E n \in CheckpointNumbers(task[x]) :
                /\ \A m \in CheckpointNumbers(task[x]) : m <= n
                /\ number' = [number EXCEPT ![x] = n + 1]
    /\ UNCHANGED <<eventVars, tableVars, rowLock, lockOwner, memory, before,
                   window, batch, task, staged, outcome>>

\* One statement of the transaction, run and kept for the commit.
Stage(x, statement, next) ==
    /\ Goto(x, statement, next)
    /\ staged' = [staged EXCEPT ![x] = @ \cup {statement}]
    /\ UNCHANGED <<eventVars, tableVars, lockOwner, memory, localVars, outcome>>

SaveEvidence(x) ==
    /\ Stage(x, "evidence", "checkpoint")
    /\ UNCHANGED rowLock

\* The upsert of the task_memory row waits for another open writer of it.
SaveCheckpoint(x) ==
    \/ /\ task[x] = NoTask
       /\ Goto(x, "checkpoint", "candidates")
       /\ UNCHANGED <<eventVars, tableVars, rowLock, lockOwner, memory,
                      localVars, staged, outcome>>
    \/ /\ task[x] # NoTask
       /\ Stage(x, "checkpoint", "candidates")
       /\ MayWrite(x, task[x])
       /\ rowLock' = [rowLock EXCEPT ![task[x]] = x]

SaveCandidates(x) ==
    /\ Stage(x, "candidates", "cursor")
    /\ UNCHANGED rowLock

\* Fault: the Redis cursor is advanced inside the transaction.
AdvanceCursorInRedisToo(x) ==
    /\ Goto(x, "cursor", "commit")
    /\ staged' = [staged EXCEPT ![x] = @ \cup {"cursor"}]
    /\ memory' = [memory EXCEPT ![TargetOf[x]] = batch[x][2]]
    /\ UNCHANGED <<eventVars, tableVars, rowLock, lockOwner, localVars, outcome>>

\* UPDATE ... WHERE the cursor is still cursor_before; when it is not the
\* service raises, which Raise covers.
AdvanceCursor(x) ==
    /\ Stage(x, "cursor",
             IF window[x] \cap Speaking = {} THEN "commit" ELSE "outbox")
    /\ MayWrite(x, TargetOf[x])
    /\ cursor[TargetOf[x]] = before[x]
    /\ rowLock' = [rowLock EXCEPT ![TargetOf[x]] = x]

AddOutboxJob(x) ==
    /\ Stage(x, "outbox", "commit")
    /\ UNCHANGED rowLock

\* Inserts are ON CONFLICT DO NOTHING on (event, kind) and (task, number).
InsertFor(table, x, rows) ==
    [e \in Events |-> IF e \in rows /\ table[e] = NoBatch
                      THEN batch[x] ELSE table[e]]

NewCheckpoint(x) == [task |-> task[x], no |-> number[x], batch |-> batch[x]]

CheckpointConflicts(x) ==
    \E c \in checkpoints : \/ c.task = task[x] /\ c.no = number[x]
                           \/ c.batch = batch[x]

\* Fault: the task_memory upsert leaves an existing row alone.
InsertedTaskMemory(x) ==
    [taskMemory EXCEPT ![task[x]] = IF @ = 0 THEN number[x] ELSE @]

\* ON CONFLICT DO UPDATE: the number of the last writer.
UpsertedTaskMemory(x) == [taskMemory EXCEPT ![task[x]] = number[x]]

Publish(x) ==
    LET w == TargetOf[x]
    IN  /\ evidence' = IF "evidence" \in staged[x]
                       THEN InsertFor(evidence, x, window[x]) ELSE evidence
        /\ candidates' = IF "candidates" \in staged[x]
                         THEN InsertFor(candidates, x, window[x] \cap Speaking)
                         ELSE candidates
        /\ IF "checkpoint" \in staged[x]
           THEN /\ taskMemory' = UpsertedTaskMemory(x)
                /\ checkpoints' = IF CheckpointConflicts(x) THEN checkpoints
                                  ELSE checkpoints \cup {NewCheckpoint(x)}
           ELSE UNCHANGED <<taskMemory, checkpoints>>
        /\ IF "cursor" \in staged[x]
           THEN /\ cursor' = [cursor EXCEPT ![w] = batch[x][2]]
                /\ batchVersion' = [batchVersion EXCEPT ![w] = @ + 1]
           ELSE UNCHANGED <<cursor, batchVersion>>
        /\ outbox' = IF "outbox" \in staged[x]
                     THEN outbox \cup {batch[x]} ELSE outbox

\* Fault: the transaction is closed without a commit.
CloseWithoutCommit(x) ==
    /\ Goto(x, "commit", "advancing")
    /\ EndTransaction(x)
    /\ UNCHANGED <<eventVars, tableVars, lockOwner, memory, localVars, outcome>>

Commit(x) ==
    /\ Goto(x, "commit", "advancing")
    /\ Publish(x)
    /\ EndTransaction(x)
    /\ UNCHANGED <<eventVars, lockOwner, memory, localVars, outcome>>

\* advance_cursor of the Redis store: GET and compare, then SET.
CompareMemory(x) ==
    LET matches == memory[TargetOf[x]] = before[x]
    IN  /\ Goto(x, "advancing", IF matches THEN "saving" ELSE "releasing")
        /\ outcome' = IF matches THEN outcome
                      ELSE [outcome EXCEPT ![x] = "consolidated"]
        /\ UNCHANGED <<eventVars, tableVars, rowLock, lockOwner, memory,
                       localVars, staged>>

SaveMemory(x) ==
    /\ Goto(x, "saving", "releasing")
    /\ memory' = [memory EXCEPT ![TargetOf[x]] = batch[x][2]]
    /\ outcome' = [outcome EXCEPT ![x] = "consolidated"]
    /\ UNCHANGED <<eventVars, tableVars, rowLock, lockOwner, localVars, staged>>

\* Fault: an exception leaves behind what the transaction wrote so far.
RaiseWithoutRollback(x) ==
    /\ pc[x] \in InTransaction
    /\ pc' = [pc EXCEPT ![x] = "releasing"]
    /\ outcome' = [outcome EXCEPT ![x] = "failed"]
    /\ Publish(x)
    /\ EndTransaction(x)
    /\ UNCHANGED <<eventVars, lockOwner, memory, localVars>>

\* An exception at any await: __aexit__ rolls back what was not committed.
Raise(x) ==
    /\ pc[x] \in InTransaction \cup {"locked", "advancing", "saving"}
    /\ pc' = [pc EXCEPT ![x] = "releasing"]
    /\ outcome' = [outcome EXCEPT ![x] = "failed"]
    /\ EndTransaction(x)
    /\ UNCHANGED <<eventVars, tableVars, lockOwner, memory, localVars>>

\* lock.release() raises when the lock expired or has a new owner: the caller
\* sees a failure even when the transaction was committed.
Release(x) ==
    LET w == TargetOf[x]
    IN  /\ Goto(x, "releasing", "done")
        /\ IF lockOwner[w] = x
           THEN /\ lockOwner' = [lockOwner EXCEPT ![w] = NoExecution]
                /\ UNCHANGED outcome
           ELSE /\ outcome' = [outcome EXCEPT ![x] = "failed"]
                /\ UNCHANGED lockOwner
        /\ UNCHANGED <<eventVars, tableVars, rowLock, memory, localVars, staged>>

\* The process dies: the server rolls back, the Redis lock stays until it
\* expires.
Crash(x) ==
    /\ pc[x] \notin {"idle", "done", "crashed"}
    /\ pc' = [pc EXCEPT ![x] = "crashed"]
    /\ EndTransaction(x)
    /\ UNCHANGED <<eventVars, tableVars, lockOwner, memory, localVars, outcome>>

-----------------------------------------------------------------------------
EventStep(e) ==
    \/ SaveEvent(e)
    \/ EnsureWorkingMemory(e)
    \/ CommitEvent(e)
    \/ RollbackEvent(e)
    \/ LoadMemory(e)
    \/ StoreMemory(e)

\* What a running execution does next; fairness is about these steps.
Proceed(x) ==
    \/ Acquire(x)
    \/ AcquireTimesOut(x)
    \/ GetCursorForUpdate(x)
    \/ CursorIsMissing(x)
    \/ ListEventsAfter(x)
    \/ NothingToConsolidate(x)
    \/ NumberCheckpoint(x)
    \/ SaveEvidence(x)
    \/ SaveCheckpoint(x)
    \/ SaveCandidates(x)
    \/ AdvanceCursor(x)
    \/ AddOutboxJob(x)
    \/ Commit(x)
    \/ CompareMemory(x)
    \/ SaveMemory(x)
    \/ Release(x)

Next ==
    \/ \E e \in Events : EventStep(e)
    \/ \E x \in Executions : Start(x) \/ Proceed(x) \/ Raise(x) \/ Crash(x)
    \/ \E w \in Workspaces : MemoryExpires(w) \/ LockExpires(w)

Spec == Init /\ [][Next]_vars

\* A started execution runs on (asyncio and the servers do not stall for ever)
\* unless it crashes, and Redis expires keys.  Nothing obliges a request to be
\* made, an event transaction to end, or an error to happen.
FairSpec ==
    /\ Spec
    /\ \A x \in Executions : WF_vars(Proceed(x))
    /\ \A w \in Workspaces : WF_vars(LockExpires(w))

-----------------------------------------------------------------------------
(* What the published tables say.                                          *)

Consolidated(e) == evidence[e] # NoBatch
ConsolidatedIn(w) == {e \in Events : WorkspaceOf[e] = w /\ Consolidated(e)}
First(e) == evidence[e][1]
Last(e) == evidence[e][2]

\* Every published batch is a window of its workspace: it holds its own end
\* points and lies between them, and two batches of a workspace do not overlap,
\* whatever executions, lock expiries and failures produced them.
WindowsAreDisjoint ==
    \A w \in Workspaces : \A e, f \in ConsolidatedIn(w) :
        /\ WorkspaceOf[First(e)] = w /\ WorkspaceOf[Last(e)] = w
        /\ evidence[First(e)] = evidence[e] /\ evidence[Last(e)] = evidence[e]
        /\ sequence[First(e)] <= sequence[e] /\ sequence[e] <= sequence[Last(e)]
        /\ evidence[e] # evidence[f] =>
              \/ sequence[Last(e)] < sequence[First(f)]
              \/ sequence[Last(f)] < sequence[First(e)]

\* The cursor row and the evidence it stands for are never apart: the cursor is
\* the end of the last published window, and nothing is published beyond it.
CursorEndsLastWindow ==
    \A w \in Workspaces :
        IF cursor[w] = NoEvent
        THEN ConsolidatedIn(w) = {}
        ELSE /\ cursor[w] \in ConsolidatedIn(w)
             /\ Last(cursor[w]) = cursor[w]
             /\ \A e \in ConsolidatedIn(w) : sequence[e] <= sequence[cursor[w]]

\* batch_version is the number of batches published for the workspace: no
\* execution counts twice and none is lost.
VersionCountsWindows ==
    \A w \in Workspaces :
        batchVersion[w] = Cardinality({evidence[e] : e \in ConsolidatedIn(w)})

\* Evidence, candidates and the governance job of a window are published
\* together or not at all, under the same batch.
SiblingsTogether ==
    /\ \A e \in Events :
          candidates[e] = IF e \in Speaking THEN evidence[e] ELSE NoBatch
    /\ outbox = {evidence[e] : e \in {s \in Speaking : Consolidated(s)}}

\* A window that an open transaction works on still holds only visible events
\* that no batch contains, all after the cursor, which has not moved: two
\* executions that hold the workspace after a lock expiry cannot share events.
OpenWindowIsFresh ==
    \A x \in Executions :
        /\ pc[x] \in InTransaction => cursor[TargetOf[x]] = before[x]
        /\ pc[x] \in Chosen => \A e \in window[x] :
              /\ Visible(e) /\ ~Consolidated(e)
              /\ before[x] # NoEvent => sequence[before[x]] < sequence[e]

\* A result that reports an advanced cursor is backed by the tables: the whole
\* window is published under its batch and the cursor has reached its end.
ReportedIsSaved ==
    \A x \in Executions : outcome[x] = "consolidated" =>
        /\ \A e \in window[x] : evidence[e] = batch[x]
        /\ \A e \in window[x] : sequence[e] <= sequence[cursor[TargetOf[x]]]

\* The Working Memory never claims more than PostgreSQL holds: its cursor, and
\* every stale copy of it, is an end of a published window.
MemoryIsNotAhead ==
    \A w \in Workspaces, e \in Events :
        e \in {memory[w]} \cup {loaded[f] : f \in {g \in Events :
                                              WorkspaceOf[g] = w}}
          => e \in ConsolidatedIn(w) /\ Last(e) = e

\* A workspace with an event has its cursor row, whichever of its first event
\* requests inserted it and was rolled back: an execution that is asked to
\* consolidate a stored event finds the row it has to lock.
EventsHaveCursorRow ==
    \A e \in Events : Visible(e) =>
        LET a == anchor[WorkspaceOf[e]] IN a # NoEvent /\ Visible(a)

\* The cursor of a workspace only moves forward.
CursorOnlyAdvances ==
    [][\A w \in Workspaces : cursor'[w] # cursor[w] =>
          /\ cursor'[w] # NoEvent
          /\ cursor[w] # NoEvent =>
                sequence[cursor[w]] < sequence[cursor'[w]]]_vars

\* A published window with a task has its checkpoint row, and the task's
\* current_checkpoint_no is the highest number stored.  Both hold while a task
\* is consolidated from one workspace only.
HasTask(b) == \E e \in Events : evidence[e] = b /\ TaskOf[e] # NoTask

EveryBatchHasCheckpoint ==
    \A e \in Events : Consolidated(e) /\ HasTask(evidence[e]) =>
        \E c \in checkpoints : c.batch = evidence[e]

CurrentCheckpointIsLatest ==
    \A t \in Tasks : /\ taskMemory[t] \in CheckpointNumbers(t)
                      /\ \A n \in CheckpointNumbers(t) : n <= taskMemory[t]

\* A started execution ends, whatever the others do, unless its process dies.
ExecutionsEnd ==
    \A x \in Executions :
        pc[x] = "acquiring" ~> pc[x] \in {"done", "crashed"}

\* A workspace is consolidated up to its latest event: a committed event that
\* is in no batch is still ahead of the cursor.
NoEventIsSkipped ==
    \A e \in Events : Visible(e) /\ ~Consolidated(e) =>
        LET c == cursor[WorkspaceOf[e]]
        IN  c # NoEvent => sequence[c] < sequence[e]

\* An event that is visible when an execution of its workspace is requested is
\* behind the cursor in the end, unless that execution fails or its process
\* dies: an execution never reports "nothing new" over an event it should take.
RequestedEventIsSettled ==
    \A x \in Executions, e \in Events : WorkspaceOf[e] = TargetOf[x] =>
        (pc[x] = "acquiring" /\ Visible(e)) ~>
            \/ outcome[x] = "failed" \/ pc[x] = "crashed"
            \/ LET c == cursor[TargetOf[x]]
               IN  c # NoEvent /\ sequence[e] <= sequence[c]

-----------------------------------------------------------------------------
(* Why the safety properties hold: what each phase of an execution knows.  *)

\* Visible rows are numbered apart, below the identity generator.
SequencesAreDistinct ==
    /\ \A e \in Events : /\ sequence[e] < nextSequence
                         /\ (eventState[e] # "absent") <=> (sequence[e] > 0)
    /\ \A e, f \in Events : sequence[e] = sequence[f] =>
          e = f \/ sequence[e] = 0
    /\ \A e \in Events : Consolidated(e) => Visible(e)

\* A transaction that has read the cursor holds its row, which is why the
\* cursor it read is still the cursor; a chosen window has the batch's ends.
HoldsWindow(x) ==
    /\ pc[x] \in InTransaction =>
          /\ rowLock[TargetOf[x]] = x
          /\ cursor[TargetOf[x]] = before[x]
    /\ pc[x] \in Chosen \cup Published =>
          /\ batch[x] \in Batches
          /\ IsFirst(batch[x][1], window[x]) /\ IsLast(batch[x][2], window[x])
    /\ pc[x] \in Chosen => \A e \in window[x] :
          /\ WorkspaceOf[e] = TargetOf[x] /\ Visible(e)
          /\ before[x] # NoEvent => sequence[before[x]] < sequence[e]
    /\ pc[x] \in Published => \A e \in window[x] :
          WorkspaceOf[e] = TargetOf[x] /\ evidence[e] = batch[x]

WindowIsHeld == \A x \in Executions : HoldsWindow(x)

\* What is staged is what the phase has passed.
StagesInOrder(x) ==
    /\ "evidence" \in staged[x] <=> pc[x] \in Chosen \ {"numbering", "evidence"}
    /\ "candidates" \in staged[x] <=> pc[x] \in {"cursor", "outbox", "commit"}
    /\ "cursor" \in staged[x] <=> pc[x] \in {"outbox", "commit"}
    /\ "outbox" \in staged[x] <=>
          pc[x] = "commit" /\ window[x] \cap Speaking # {}
    /\ pc[x] = "outbox" => window[x] \cap Speaking # {}
    /\ "checkpoint" \in staged[x] => pc[x] \in Chosen /\ task[x] # NoTask
    /\ pc[x] \in Chosen \ {"numbering"} /\ task[x] # NoTask => number[x] > 0

StagedByPhase == \A x \in Executions : StagesInOrder(x)

InductiveInvariant ==
    /\ TypeOK
    /\ SequencesAreDistinct
    /\ WindowIsHeld
    /\ StagedByPhase
    /\ CursorEndsLastWindow

-----------------------------------------------------------------------------
(* The chain implements incremental windows: only the commits of event     *)
(* transactions and of executions are seen, everything else is internal.   *)

Promise == INSTANCE IncrementalWindows WITH
    position <- [e \in Events |-> IF Visible(e) THEN sequence[e] ELSE 0],
    end <- cursor, consumedBy <- evidence, proposedBy <- candidates,
    jobs <- outbox, windows <- batchVersion

\* Every step of the chain is a step of the promise or leaves it alone.
KeepsPromise == Promise!Spec

=============================================================================
