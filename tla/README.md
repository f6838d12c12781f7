# Verification of the Agent Memory Service

TLA+ models, TLC runs and TLAPS proofs for the multi-tenant memory service in
`src/backend/src`. `PROJECT.json` maps every definition to the lines it models
and lists runs, mutants, hazards, findings and theorems.

## 1. The system

A FastAPI service stores what an agent says and does as **raw events**,
**consolidates** windows of them into evidence, task checkpoints and long-term
**candidates**, lets **governance** turn candidates into long-term memories,
and **retrieves** memories for a prompt. PostgreSQL (SQLAlchemy async sessions,
READ COMMITTED) holds the truth; Redis holds a Working Memory per workspace,
with a TTL, and a consolidation lock with an expiry. Several service processes
may run; within one, every `await` is a point where another request runs.

| Component | State | Operations | Hard behaviour |
|---|---|---|---|
| Memory facade `service/memory_facade.py` | none of its own | `write` (event, consolidate, promote), `read`, `gc` (501) | database transaction, then an unlocked read and write-back of the Working Memory, then consolidation |
| Consolidate Once `service/write/consolidate_once.py` | one transaction per call | `execute` | lock expiry, errors at every await, crash between the database commit and Redis |
| SQL write adapter `infrastructure/db/repositories/write.py` | events, anchor rows, cursor, evidence, checkpoints, candidates, outbox | one method per statement | visibility at commit, row locks, ON CONFLICT DO NOTHING, numbers taken at INSERT |
| Redis store `infrastructure/redis/working_memory.py` | Working Memory, lock | `get`, `save`, `advance_cursor`, `lock` | two-step compare-then-set, TTL, lock that expires under its owner |
| Consolidator and policy `infrastructure/consolidation`, `service/write/consolidation_policy.py` | none | `consolidate`, `evaluate` | `message_count` that is never reset |
| Governance `service/governance`, `repositories/governance.py` | candidates, memories with versions, projections, audit | `govern` | unlocked searches, optimistic versions, lock order, retired keys |
| Retrieval `service/read`, `repositories/retrieval.py`, `vector`, `graph` | usage counters | `retrieve` | stale indexes, LIMIT before filtering, budgets |
| API, tenant resolution, health | none | HTTP routes | fail-closed tenant context |
| In-memory adapters | copies of the tables | same ports | test doubles |
| Chatbot, front end | SQLite messages | `chat`, `save_turn` | chats of one session interleave at every await; a turn is three posts |

How they interact: the facade calls the write adapter, the Redis store and
Consolidate Once in sequence; Consolidate Once shares the cursor row, the
Working Memory and the lock with every other request of the workspace, and task
rows with the whole tenant. It hands candidates to governance through outbox
rows; nothing in the repository reads the outbox. Every SQL statement is
filtered by `tenant_id`, so the models have one tenant.

What makes each correct: *write chain* - no event consolidated twice or missed,
siblings published together, the cursor never apart from what it stands for,
Redis never ahead of PostgreSQL; *Working Memory* - no update lost; *event
ingest* - a retry gives the same logical result; *governance* - one active
memory per key, a candidate decided once, versions never skipped; *retrieval* -
only active, permitted memories, within the budget.

## 2. Plan

Done, in this order:

1. **ConsolidateOnce** with the abstract **IncrementalWindows** and
   **ConsolidateOnceProofs**: the chain from an event to its consolidation.
2. **CandidateGovernance** with the abstract **MemoryLedger** it implements.
3. **MemoryRecall**, which composes reads with the steps of **MemoryLedger**:
   retrieval beside governance and a lagging index worker.
4. **EventRequests**: repeats of a write, the whole Working Memory, the policy
   and promotions.
5. **ChatTurns**: the chatbot's session log against the memory service.

Then the proofs of section 5, module by module: `ConsolidateOnceProofs`,
`ConsolidateOnceWindows` and `ConsolidateOnceCheckpoints`;
`CandidateGovernanceProofs` and `CandidateGovernanceTables`;
`EventRequestsProofs`; `ChatTurnsProofs`; `MemoryRecallProofs`. Every invariant
the runs check is a theorem; liveness stays with TLC.

## 3. Modules

### ConsolidateOnce

| Model | Code |
|---|---|
| `eventState`, `sequence`, `nextSequence` | a request in `_write_event`, `memory_events.event_sequence` and its identity generator |
| `anchor` | the rows `ensure_working_memory` inserts, by the event whose transaction did |
| `cursor`, `batchVersion` | the `consolidation_cursors` row |
| `evidence`, `candidates`, `checkpoints`, `taskMemory`, `outbox` | the published rows of the tables, by the batch that wrote them |
| `staged`, `rowLock` | the uncommitted statements of an open transaction and the rows it holds |
| `lockOwner`, `memory`, `loaded` | the Redis lock, the cursor inside the Working Memory, and the copy of it an event request has read |
| `pc`, `before`, `window`, `batch`, `task`, `number`, `outcome` | the locals of `execute` and what its caller sees |

An event request takes `SaveEvent`, `EnsureWorkingMemory`, `CommitEvent` (or
`RollbackEvent`, after which it may be sent again), `LoadMemory`, `StoreMemory`.
An execution takes one action per await of `execute`: `Acquire`,
`GetCursorForUpdate`, `ListEventsAfter`, `NumberCheckpoint`, `SaveEvidence`,
`SaveCheckpoint`, `SaveCandidates`, `AdvanceCursor`, `AddOutboxJob`, `Commit`,
`CompareMemory`, `SaveMemory`, `Release`. Next to them: `AcquireTimesOut`,
`CursorIsMissing`, `NothingToConsolidate`, `Raise` (an exception at any await,
which rolls back), `Crash`, `LockExpires` and `MemoryExpires`.

READ COMMITTED is modelled by what it lets a statement see: `Visible` events and
committed tables, at the moment of the statement. The rows a transaction writes
are kept in `staged` and applied by `Publish` at the commit; while it is open,
`rowLock` makes another writer of the same cursor or task row wait. The inserts
of evidence, candidates and checkpoints resolve their conflicts at the commit,
not at the statement: those keys come from the window or the task, whose rows
the transaction has locked by then, so nobody else can insert them in between.

A batch is named by the first and the last event of its window, as
`_stable_id("batch", ...)` is. The window's content, the draft's wording and the
types of candidates are left out; an event has at most one candidate row in the
model and may have two in the code, which are written by the same statement
loop. `_validate` cannot fail for the deterministic consolidator and is covered
by `Raise`. A request to consolidate may come at any time (`Start`), which covers
every decision of the policy and the explicit route.

The operators whose comment says *Fault* are wrong variants of a definition
(a dropped FOR UPDATE, a rollback that is missing, an off-by-one). They are used
by no specification; `PROJECT.json` "mutants" says which property each breaks.

### IncrementalWindows

The abstract promise: events arrive at positions, and a window of unconsumed
events beyond the cursor is consumed in **one** step that records evidence,
candidates and the job, counts the batch and moves the cursor. `KeepsPromise`
is this specification under the mapping at the end of `ConsolidateOnce`.

### MCConsolidateOnce and the runs

| Run | Instance | Shows |
|---|---|---|
| `consolidate_windows` | 1 workspace, 3 events, 2 executions, 3 sequence values; about 10^6 states | 12 state invariants, `CursorOnlyAdvances` and `KeepsPromise` hold |
| `consolidate_liveness` | 1 workspace, 1 event, 2 executions, 2 sequence values | `ExecutionsEnd` and `RequestedEventIsSettled` hold under `FairSpec` |
| `skipped_event` | 1 workspace, 2 events, 1 execution | `NoEventIsSkipped` is violated |
| `lost_checkpoint` | 2 workspaces of one task, 2 events, 2 executions | `EveryBatchHasCheckpoint` is violated |

Bounds. Two executions are enough for every conflict over a lock, a row or a
Redis value, as all of these are between two parties; the proofs cover more.
Three events give a window, a second window after it, and an event of late
commit between; the third event is written when the first two requests have
ended (`ThirdEventLast`), which keeps the late commits of events 1 and 2.
`MaxSequence` bounds the identity generator: with three values a request whose
transaction was rolled back may be sent again only while a number is left. In
`consolidate_liveness` there is one event, so `RequestedEventIsSettled` is about
the first window; larger instances took TLC too long. Executions are
interchangeable in `consolidate_windows` (`ExecutionSymmetry`, used with no
liveness property). Deadlock is not checked: every request may be over.

Fairness. `FairSpec` has weak fairness of `Proceed(x)`, a started execution's
own next step (the event loop and the two servers do not stall for ever), and of
`LockExpires(w)` (Redis expires the key it was given a timeout for). Event
requests, errors, crashes and the Working Memory's expiry are not obliged to
happen.

### CandidateGovernance and MemoryLedger

| Model | Code |
|---|---|
| `shape` | what `memory_candidates` says of a candidate, the advice of the governance advisor included |
| `memories`, `versions`, `projections`, `jobs`, `audit` | the tables of the same names, committed rows only |
| `decisions` | the governance columns of `memory_candidates` |
| `found`, `named`, `plan`, `target` | the locals of `govern`: search results and locked targets, target ids still to lock, the action decided on, the record it changes |
| `holds` | rows and index keys the open transaction has locked |

A call is one transaction at READ COMMITTED: `GetCandidateForUpdate`,
`FindExactActive` and `FindSemanticActive` (no lock), `AlreadyDecided`,
`FailsGate` or `PassesGate`, `LockTarget` for one target after the other
(`RejectTarget` commits an audit row and raises), then `TurnAway`,
`ChooseCreate` or `ChooseTarget`, and for a change `StaleOldProjections`,
`UpdateMemory` (or `UpdateConflicts`), `WriteKey` (or `KeyCollides`), `Commit`.
`Raise` is an error at any statement. Everything a call writes follows from the
records it read, so the rows are computed in `Commit`, where they become
visible; the statements that can wait or fail before it are actions. Waiting
calls and circles of them are explicit (`Wants`, `Deadlocked`), and PostgreSQL
breaks a circle by failing one of its members (`BreakDeadlock`).

Abstractions: keys and texts are values, and a text is the sequence of the
pieces REFINE and MERGE appended; a key is short, long or as wide as its column
(`ShortKeys`, `FullKeys`), which decides what is left of the suffix SUPERSEDE
appends; a failed check is a member of `flaws`; the memory a candidate becomes
has the candidate's name, as `_stable_id` gives it one; evidence is the set of
candidates that went into a memory.

`IndexTypes` is `ProjectionPlanner.plan`: an active memory that is `confident`
(0.6 or more) and `fresh` (staleness below 1) has an exact and a cache index, a
vector index if it has a fingerprint or is a preference (memory types are part
of the group, `Preferences` says which are PREFERENCE), and a graph index if its
`relations` are a list of complete relations. The three facts are fields of the
record, so a change decides them anew: the larger confidence and the smaller
staleness stay, and the candidate's relations replace the memory's where the
payload names any. Of the scores only the sides of the thresholds are kept: a
failed check `"staleness"` is a score of 0.95 or more, `"outdated"` one of 1.
`IndexesFollowMemories` says besides that every active memory is projected at
all: the planner's own gates never close, because the quality gate lets nothing
in that they would hold back.

`MemoryLedger` is the promise: a pending candidate is decided once, in one step
that turns it away, adds a memory under a free key, adds the candidate to an
active memory as its next version, or replaces an active memory. `KeepsLedger`
is this specification under the mapping at the end of `CandidateGovernance`:
each variable of the ledger is an operator there (`LedgerStatus`,
`LedgerDecision`, ...), computed from the tables.

`ConstantsAssumption` says what the seeds of an instance are: memories that
passed the quality gate once and have keys of their own.

### MemoryRecall

| Model | Code |
|---|---|
| `status` ... `decision` | the memories, changed by `Govern`: one step of `MemoryLedger` that changes a memory |
| `indexed` | rows of the vector, exact key and graph indexes, by memory and version (foreign key) |
| `recallCount`, `useCount` | `memory_usage_stats` |
| `hits`, `seen`, `package` | the locals of `retrieve`: ids with relevance, main records as they were read, the compiled package |

A read routes (`Route`), searches (`Address`, or `SearchVectors` once for each
sub-query, `ResolveKey`, `Traverse`), re-reads each hit (`ReadRecord`), counts
the recalls (`UpsertUsage` for each row, `CommitRecalled`), compiles (`Compile`:
NotFound for an EXPRESS read without an admissible memory) and counts the uses.
Each search, record and counter transaction is a database session of its own,
so governance and the index worker may step in anywhere. The worker is not in
the repository: `Index` writes the row of an active version at any time, and
rows of older versions stay.

Abstractions: distances are arbitrary, so any rows may be the nearest; a search
word is one of the classes the router tells apart; relevance is in units of
`1 / (200 * Scale)`, which `ScaleAssumption` makes exact for searches of every
length that occurs (`Scale = 1` for the two hits of the instance); validity and
a memory's other score are constants; a text has a token or more and grows by
one with each merged piece; the evidence ids of a memory are listed in the order
of the ids; META and RESUME are one step, as they touch no memory.

Sorting is `InOrder`, the sequence of a set along a given order: the code's
`sorted(memory_ids)` and `ranked.sort(...)`, whose keys end in the id and so
never tie.

### EventRequests

| Model | Code |
|---|---|
| `request` | the body of `POST /v1/memory/write` |
| `log`, `anchored`, `consumed`, `jobs` | committed `memory_events`, `consolidation_cursors` (its rows and their event), `outbox_jobs` |
| `memory` | the Working Memory in Redis: event ids, message count, cursor, references, remembered texts |
| `row`, `created`, `loaded`, `before` | the locals of `_write_event` and of the consolidation |

`SaveEvent` waits for an open transaction that inserts the same event id or key,
and then inserts or reads the existing row back. `CommitEvent`, `LoadMemory`,
`StoreMemory` and `Decide` follow; `Consolidate` is `execute` up to its commit
in one step (its inside is ConsolidateOnce), followed by the two Redis calls
`CompareMemory` and `SaveMemory`. `Promote`, `MemoryExpires` and `Raise`
complete it. `anchored` are the workspaces with a cursor row, which
`ensure_working_memory` adds with the event; without one a consolidation raises
(`CursorIsMissing`). How two requests wait for each other's insert of that row is
left to ConsolidateOnce, and so is expiry of the lock. `Of(w)` are the places of a
workspace's events in the log, `LastOf(w)` the event at the last of them: where
a consolidation leaves the cursor.

### ChatTurns

| Model | Code |
|---|---|
| `messages` | the SQLite table: of each session its messages, in the order of their ids |
| `events`, `consolidated` | what the memory service has of the chats, and how many of its events a consolidation was asked for |
| `history`, `pc`, `result` | the locals of `chat` and its answer |

Within one process nothing else runs between two awaits (`Runs`), so the two
messages of a turn are stored without another chat in between; they are two
actions all the same, as the second statement may fail alone. A post of
`save_turn` succeeds, or fails with or without effect. Session rows, titles and
the discovery of the service's address are left out.

### The other runs

| Run | Instance | Shows |
|---|---|---|
| `governance` | 2 memories, 2 candidates of 12 shapes or missing, 3 calls (two for one candidate) | 7 invariants, `DecisionsAreFinal`, `ReplacedIsFinal`, `KeepsLedger` and `CallsEnd` hold |
| `recall` | 1 memory, 1 candidate, 2 reads (one of 8 requests) | 5 invariants and `ReadsEnd` hold |
| `event_requests` | 3 calls, 2 keys, 2 workspaces | 4 invariants and `RequestsEnd` hold |
| `chat_turns` | 3 chats, 1 or 2 sessions, history of 3 messages | both invariants hold |
| `deferred_forever` | the instance of `governance` | `DeferredIsReconsidered` is violated |
| `retired_key` | one key as wide as its column | `RetiringFreesTheKey` is violated |
| `stale_write_back` | a write that consolidates, another write, a promotion | `AdvanceIsCompareAndSet` is violated |
| `payload_conflict` | two events of one key with two payloads | `PayloadConflictsAreRefused` is violated |

Bounds. In `governance` three calls give two concurrent changes of one memory
with a third, repeated call; the shapes reach every branch: a new key, exact
and semantic duplicates, each kind of change, opposite orders of targets,
targets of another scope or unrelated, candidates the gate turns away, each kind
of index, a relation list that hides one and one that is kept. `k2` is neither
short nor full and two candidates may replace under it: its retired key loses the
memory id, and the second memory retired under it collides. In `recall` the
candidate may be added beside the memory, extend or replace it; the sizes make
the better memory too large for a budget of 4 and the other fit, and `top_k` of
1 or 2 cuts the list. In `event_requests` the second call repeats the first in
the same or the other workspace, with or without its event id, and the third is
another write, a consolidation or a promotion; `message_count` is 2 so that two
user messages trigger a consolidation. In `chat_turns` three messages of
history cut a turn in half. Its chats and sessions are symmetric, and the run
has no liveness property. Deadlock is not checked in any of them: every call
may be over; that waiting calls do end is `CallsEnd`, `ReadsEnd` and
`RequestsEnd`.

Fairness. Weak fairness of each started call's own next step: the event loop
and the servers do not stall for ever. In `governance` and `recall` also of
`BreakDeadlock`: PostgreSQL aborts a transaction of every deadlock after
`deadlock_timeout`. Other errors, expiry, the index worker and governance beside
a read are not obliged to happen.

## 4. What the checks found

* **Skipped event.** `event_sequence` is taken by the INSERT and visible at the
  commit. If event 1 is inserted before event 2 but commits after an execution
  has taken event 2, the cursor is at 2 and `event_sequence > cursor` never
  returns event 1 again. Every other safety property still holds, which is why
  `IncrementalWindows` lets an event arrive at a passed position.
* **Lost checkpoint.** Lock and cursor row are per workspace, checkpoint numbers
  per task. Two workspaces of one task read the same `max(checkpoint_no)`; the
  second insert is dropped by ON CONFLICT DO NOTHING while its cursor advances.
  While a task is consolidated from one workspace, `EveryBatchHasCheckpoint` and
  `CurrentCheckpointIsLatest` hold (`consolidate_windows`).
* **Deferred for ever.** `deferred` is a terminal status: once a candidate was
  deferred because of a conflicting memory, every later call answers with that
  deferral, although the documents keep such a candidate waiting and the
  conflict may be gone. Changing this breaks `DecisionsAreFinal`, which is why
  the two are stated apart.
* **Retired key.** The key of a replaced memory is cut at 512 characters. A key
  that fills the column is not freed, and SUPERSEDE under the same key always
  fails; a shorter long key loses the memory id, and the second memory retired
  under it fails.
* **Stale write-back.** `advance_cursor`, documented as compare-and-set, is a GET
  and a SET: the run shows a second event request that saves its event in
  between, and the SET that removes it from the Working Memory again. (The
  property asks for nothing where the Working Memory has expired.) What is left is
  still consistent with the tables (`WindowsAreBacked`,
  `MessagesAreCountedOnce`).
* **Payload conflict.** An event with a known key and another payload is answered
  as a duplicate, where the documents say 409. Promotions have no conflict
  answer either: `Promote` keeps the job that is there and answers "queued" with
  the candidates that were sent. No run is about that.
* The status report (`backend/docs`, 2026-08-04, line 142) says a failure does
  not roll back saved data; the code rolls back all siblings, which is what
  `SiblingsTogether` checks. The code agrees with `test-matrix.md:8` there.

## 5. What is proved

TLAPS checks the theorems below for every value of the constants that meets the
assumptions the modules name: any number of events, executions, candidates,
memories, calls, chats and sessions. `ConstantsAssumption` of a module says that
its inputs are well typed and identifiers of different kinds differ;
`DistinctAssumption` and `NoneAssumption` that the null values are no members of
the sets they stand beside; `ScaleAssumption` that the unit in which recall
measures relevance makes the relevance of every hit of the searches that occur a
whole number. TLC evaluates all of them on the runs' instances. A theorem that
needs more has a hypothesis of its own, listed with it.

### Consolidation

| Theorem | Statement |
|---|---|
| `Invariance`, `TypeCorrectness` | `Spec => []InductiveInvariant`, `[]TypeOK` |
| `CursorTracksEvidence` | `[]CursorEndsLastWindow` |
| `RowLockSuffices` | `[]OpenWindowIsFresh` |
| `CursorAdvances` | `CursorOnlyAdvances` |
| `BatchesAreWindows` | `[]WindowsAreDisjoint` |
| `RowsAreThere` | `[]EventsHaveCursorRow` |
| `SiblingsStayTogether` | `[]SiblingsTogether` |
| `VersionIsWindowCount` | `[]VersionCountsWindows` |
| `ReportsAreTrue` | `[]ReportedIsSaved` |
| `MemoryNeverAhead` | `[]MemoryIsNotAhead` |
| `ChainKeepsPromise` | `KeepsPromise`: the refinement of `IncrementalWindows` |
| `CheckpointInvariance` | `OneWorkspacePerTask => (Spec => []CheckpointInvariant)` |
| `CheckpointsAreComplete` | `OneWorkspacePerTask => (Spec => []EveryBatchHasCheckpoint)` |
| `CurrentIsLatest` | `OneWorkspacePerTask => (Spec => []CurrentCheckpointIsLatest)` |

None of the properties is inductive alone. `CursorEndsLastWindow` at a commit
needs that the window lies beyond the *current* cursor, which is only known
because the transaction holds the cursor row since it read it (`WindowIsHeld`);
that evidence and cursor are both staged by then (`StagedByPhase`); and that the
numbers of visible rows are distinct and do not change (`SequencesAreDistinct`).
`InductiveInvariant` is their conjunction with `TypeOK`; even `TypeOK` needs it,
as `SaveMemory` writes the end of the batch to Redis. `InductiveInvariant` is an
invariant of the run `consolidate_windows` too. The proof goes by kind of step: event requests disturb no
visible row (`EventStepFrame`), Redis expiry disturbs nothing
(`ExpiryInvariant`), a step of one execution leaves the others alone
(`StepIsLocal`), so a step that publishes nothing has to keep its own part only
(`OwnPartSuffices`), and `CommitInvariant` is the one case that publishes. The
Redis lock occurs nowhere in it: exclusion rests on the row lock.

`RowsAreThere` is an argument of its own about event requests. A request that has
found its workspace's rows stands on the event whose transaction inserted them,
which is its own or a committed one (`AnchorsStand`), because
`ensure_working_memory` waits for an open insert; so a rollback takes rows away
only while nobody else stands on them (`RollbackKeepsAnchors`). Without the wait
a rollback would leave a stored event in a workspace whose every consolidation
raises for a missing cursor.

`ConsolidateOnceWindows` builds on that: only a commit changes a published table
(`OnlyCommitsPublish`), and it publishes a whole window that no batch contains
yet (`CommitWindow`). Each property is then a property of one step of publishing.
`VersionCountsWindows` also needs that the published batches are finitely many.
For the refinement, every step is a stutter of `IncrementalWindows`, the arrival
of an event at its commit, or, at the commit of an execution, the one step that
consumes the window.

Checkpoint numbers are taken under the lock of a workspace's cursor but are
unique in a task, so `ConsolidateOnceCheckpoints` assumes `OneWorkspacePerTask`:
the events of one task are in one workspace. Without it both properties are
false, which is the run `lost_checkpoint`. `CheckpointInvariant` says that the
number an open transaction has read is still the next one.

### Governance

| Theorem | Statement |
|---|---|
| `Invariance`, `TypeCorrectness` | `Spec => []GovernanceInvariant`, `[]TypeOK` |
| `ContributionsPersist` | `[]ContributionsAreKept` |
| `ScopesAreApart` | `[]ScopesStayApart` |
| `HistoryIsKept` | `[]HistoryIsComplete` |
| `ReplacementsLink` | `[]ReplacementsAreLinked` |
| `DecisionsHaveBacking` | `[]DecisionsAreBacked` |
| `IndexesFollow` | `[]IndexesFollowMemories` |
| `DecisionsStay`, `ReplacedStay` | `DecisionsAreFinal`, `ReplacedIsFinal` |
| `CallsKeepLedger` | `KeepsLedger`: the refinement of `MemoryLedger` |

`GovernanceInvariant` ties what a call has read to what is stored. A record it
read without a lock is a snapshot: if the version has not moved, nothing of the
memory has (`SnapshotsAreOld`). From the version check to the commit the call
holds the target's row and the target is as it read it (`TargetIsHeld`); after
its INSERT no other active memory has the key (`KeyIsHeld`); its candidate's row
is locked and undecided (`CandidateIsHeld`); and no two calls hold one row or
have inserted one key (`RowsAreApart`, `KeysAreApart`). This is what makes
unlocked searches harmless. `CandidateGovernanceTables` then has to look at one
step only, the commit (`StepsOfTables`), with invariants of their own where a
property is not inductive beside it: `HistoryInvariant`, `LinksInvariant`,
`BackedInvariant` and `IndexInvariant`.

### Event requests

| Theorem | Statement |
|---|---|
| `Invariance` | `Spec => []RequestsInvariant` |
| `WindowsStayBacked` | `[]WindowsAreBacked` |
| `CountIsRight` | `[]MessagesAreCountedOnce` |
| `RetriesStayAgreed` | `IdsKeepTheirKey => (Spec => []RetriesAgree)` |
| `TypeCorrectness` | `IsFiniteSet(Calls) => (Spec => []TypeOK)` |

The Working Memory is read, changed and written back without a lock, so it may
lose an update (`stale_write_back`). What is proved is that every copy of it,
stored or in the hands of a call, is right about the events it does list
(`Backed`); therefore it does not matter which copy is written last. The other
half of `RequestsInvariant` is that the rows a call has locked follow from its
phase (`HoldsByPhase`), no two calls hold one row, and stored events differ in
id and in key (`EventsAreApart`). `IdsKeepTheirKey` says that two event requests
that name one event_id name one idempotency key, as a client that retries does.
Without it a request can meet two stored events, one by id and one by key;
`save_event` then reads back either, and two requests with one key may be
answered about different events. `TypeCorrectness` assumes finitely many calls
because `TypeOK` bounds the length of the log by their number.

### Chat turns

| Theorem | Statement |
|---|---|
| `ChatsInvariance` | `Spec => []ChatInvariant` |
| `RepliesFollow` | `[]RepliesFollowQuestions` |
| `ReportedStaysRemembered` | `[]ReportedIsRemembered` |

A reply lands behind its question because the chat that has stored its question
runs alone and its question is the last message of its session
(`RecordingIsAlone`). Which messages and events of a chat may exist follows from
its phase (`SessionsHoldTurns`, `EventsAreTurns`), so nothing is stored or
delivered twice; a post that counts as made has been delivered
(`PostsAreDelivered`). A history is the end of a session, which stays in pairs
from its second message on (`EndsArePaired`). `ChatInvariant` is proved only; the
run `chat_turns` checks the two properties it implies.

### Recall

| Theorem | Statement |
|---|---|
| `RecallIsRight`, `RecallTypes` | `FairSpec => []RecallInvariant`, `[]TypeOK` |
| `ShownIsAdmissible` | `[]ItemsAreAdmissible` |
| `NeverBesideItsReplacement` | `[]NeverWithItsReplacement` |
| `CompilerSelectsGreedily` | `[]SelectionIsGreedy` |
| `UsesMatchAnswers` | `[]UsesAreCounted` |

`RecallInvariant` relates what a read has at hand to the memories as they are
now, while governance moves on. A record that was read stays right about the
version it shows, because versions only grow (`IsCurrent`). That no package shows
a memory beside its replacement needs more than the order of the steps: every
hit of a search exists when it is found (`HitsOK`), a candidate that replaces a
memory did not exist before it does, and a record is read as active only after
the last search, so its replacement cannot be among the hits (`RowsOK`). The one
hit that need not exist is a memory addressed by its id, and it is alone. A step
of governance enters only through `Grows`, which `GovernGrows` derives from
`MemoryLedger`. For the counters, uses are exactly the answers that hold the
memory (`Used`), and the recalls of a memory lie between the reads that recalled
it and have not ended otherwise (`Recalled`) and those that have counted
(`Past`); a read enters `Used` only from `Recalled`.

A step of a read is `MovesTo` what it has at hand next, and `OneReadMoves` leaves
only that to be shown (`ReadOK`), with one lemma for each action.
`RecallInvariant` is proved only; the run `recall` checks what it implies.

`CompilerSelectsGreedily` compares a fold over a sorted sequence with a
definition that does not fold. The library's induction theorems cannot be used
(they have an operator as parameter), so induction is stated about a set of
numbers (`IntervalInduction`, from the well-foundedness of `<`), and folds about
functions: the function that `FoldLeft` and `FoldSet` choose exists
(`FoldExists`), computes step after step (`FoldSteps`) and, for sums, does not
depend on what is taken first (`SumAddsEach`). `InOrderSorts` shows that
`InOrder` lists each member once, in order. `AdmitStaysGreedy` is the induction
step of the compiler: what was taken so far is the greedy selection from the
rows so far. `WithEvidenceFits` adds the excerpts, `CompiledIsSelection` puts
them together. No size, budget, score or number of memories is bounded.

### Only model-checked

* Liveness (`ExecutionsEnd`, `RequestedEventIsSettled`, `CallsEnd`, `ReadsEnd`,
  `RequestsEnd`): ENABLED and fairness are out of the prover's reach.
* The runs that end in a violation show by their counterexamples what they say.

## 6. Not modelled

* Tenant resolution, the routes, health and the front end keep no state whose
  interleavings matter; every statement is filtered by one tenant.
* gc, lifecycle and the legacy repositories are not wired (`gc` raises), the
  in-memory adapters are test doubles of what is modelled, and
  `SynchronousJobDispatcher` and the `delete` operations of the index adapters
  have no caller. `retrieval_weight` is read and never written.
* Nothing in the repository reads the outbox, so no worker is modelled; the
  index rows it would write are external (`Index`).
* Wording, scores beyond their order, operation ids, titles and grouping are
  data no property is about. A search with LIMIT may return only rows that are
  filtered out later; the models have this, and no document promises otherwise.
* In ConsolidateOnce a Redis error while the lock is taken has the same outcome
  as `AcquireTimesOut`; one in `release` the same as a crash.

`PROJECT.json` names every component with its status.
