---------------------------- MODULE EventRequests ----------------------------
(***************************************************************************)
(* Calls of MemoryServiceFacade.write: event writes with their repeats,    *)
(* requests to consolidate and to promote.  An event write stores its      *)
(* event in a transaction, then reads the Working Memory of its workspace  *)
(* from Redis, adds the event and writes the whole value back, and asks    *)
(* the policy whether to consolidate.                                      *)
(*                                                                         *)
(* A consolidation is one step here, followed by its two Redis calls; its  *)
(* inside, expiry of its lock and the numbering of events are the subject  *)
(* of ConsolidateOnce.  Only the workspace of a request matters to it, so  *)
(* the lock is a row of holds.                                             *)
(***************************************************************************)
EXTENDS Naturals, FiniteSets, SequencesExt

CONSTANTS
    Calls,         \* calls of write
    Requests,      \* of each call, what it may ask for
    EventIds, Keys, Workspaces, Payloads,
    MessageLimit,  \* ConsolidationPolicy.message_count
    None

\* An event write: id is the client's event_id or None, reason one of the
\* signals; a promotion's payload is its candidates.
RequestType ==
    [kind: {"event", "consolidate", "promote"}, workspace: Workspaces,
     id: EventIds \cup {None}, key: Keys, payload: Payloads,
     role: {"user", "assistant"}, refs: SUBSET Payloads,
     signal: {"none", "remember", "tokens", "idle"}]

\* An event without an id of its own is named after its call.
AllIds == EventIds \cup Calls

\* Rows of memory_events, and Working Memories.
EventRows ==
    [id: AllIds, key: Keys, workspace: Workspaces, payload: Payloads,
     role: {"user", "assistant"}, refs: SUBSET Payloads]
MemoryRecords ==
    [ids: Seq(AllIds), count: Nat, cursor: AllIds \cup {None},
     refs: SUBSET Payloads, items: SUBSET Payloads]

ASSUME ConstantsAssumption ==
    /\ Calls \cap EventIds = {} /\ None \notin AllIds
    /\ Requests \in [Calls -> SUBSET RequestType]
    /\ MessageLimit \in Nat \ {0}

ASSUME NoneAssumption == None \notin EventRows /\ None \notin MemoryRecords

VARIABLES
    request,   \* the request of each call
    log,       \* memory_events, in the order they became visible
    anchored,  \* workspaces that have a row in consolidation_cursors
    consumed,  \* the last consolidated event in that row, or None
    jobs,      \* outbox_jobs of promotions, by idempotency key
    memory,    \* the Working Memory in Redis, or None
    pc, holds, row, created, loaded, before, result

stored == <<log, anchored, consumed, jobs>>
locals == <<row, created, loaded, before>>
vars == <<request, stored, memory, pc, holds, locals, result>>

\* new_id("event") of a call that brings no event_id: an id of its own.
EventIdOf(x) == IF request[x].id = None THEN x ELSE request[x].id
Rows == ({"id"} \X AllIds) \cup ({"key"} \X Keys)
            \cup ({"lock"} \X Workspaces)
Phases == {"idle", "committing", "loading", "storing", "deciding",
           "consolidating", "comparing", "saving", "done"}
Results == {"none", "created", "duplicate", "queued", "consolidated", "failed"}

Workspace(x) == request[x].workspace
Logged == ToSet(log)
Of(w) == {i \in DOMAIN log : log[i].workspace = w}

\* The last event of a workspace, as a set that is empty when it has none.
LastOf(w) == {log[i] : i \in {k \in Of(w) : \A j \in Of(w) : j <= k}}

\* Fault: a fresh Working Memory has no empty cursor.
FreshMemoryAtZero ==
    [ids |-> <<>>, count |-> 0, cursor |-> 0, refs |-> {}, items |-> {}]
FreshMemory ==
    [ids |-> <<>>, count |-> 0, cursor |-> None, refs |-> {}, items |-> {}]

Init ==
    /\ request \in [Calls -> UNION {Requests[x] : x \in Calls}]
    /\ \A x \in Calls : request[x] \in Requests[x]
    /\ log = <<>>
    /\ anchored = {}
    /\ consumed = [w \in Workspaces |-> None]
    /\ jobs = [k \in Keys |-> None]
    /\ memory = [w \in Workspaces |-> None]
    /\ pc = [x \in Calls |-> "idle"]
    /\ holds = [x \in Calls |-> {}]
    /\ row = [x \in Calls |-> None]
    /\ created = [x \in Calls |-> FALSE]
    /\ loaded = [x \in Calls |-> None]
    /\ before = [x \in Calls |-> None]
    /\ result = [x \in Calls |-> "none"]

Goto(x, from, to) ==
    /\ pc[x] = from
    /\ pc' = [pc EXCEPT ![x] = to]

Free(x, rows) == \A y \in Calls \ {x} : rows \cap holds[y] = {}

\* Fault: neither the transaction nor the lock is given up.
FinishHolding(x, r) ==
    /\ pc' = [pc EXCEPT ![x] = "done"]
    /\ result' = [result EXCEPT ![x] = r]
    /\ UNCHANGED <<request, holds, locals>>

\* The call returns; what it answered about stays for the properties.
Finish(x, r) ==
    /\ pc' = [pc EXCEPT ![x] = "done"]
    /\ result' = [result EXCEPT ![x] = r]
    /\ holds' = [holds EXCEPT ![x] = {}]
    /\ row' = [row EXCEPT ![x] = IF r = "failed" THEN None ELSE @]
    /\ created' = [created EXCEPT ![x] = FALSE]
    /\ loaded' = [loaded EXCEPT ![x] = None]
    /\ before' = [before EXCEPT ![x] = None]
    /\ UNCHANGED request

-----------------------------------------------------------------------------
(* The transaction of an event write.                                      *)

RowOf(x) ==
    LET q == request[x]
    IN  [id |-> EventIdOf(x), key |-> q.key, workspace |-> q.workspace,
         payload |-> q.payload, role |-> q.role, refs |-> q.refs]

RowsOf(e) == {<<"id", e.id>>, <<"key", e.key>>}

\* Rows of any workspace that have the event_id or the idempotency_key.
Conflicting(x) ==
    {e \in Logged : e.id = EventIdOf(x) \/ e.key = request[x].key}

\* Fault: a repeat is answered with the event that was submitted.
ExistingIsSubmitted(x) == {RowOf(x)}

Existing(x) == Conflicting(x)

\* INSERT ... ON CONFLICT DO NOTHING waits for an open transaction that
\* inserted the id or the key; then the event is new, or the existing row is
\* read back, whatever its payload.
SaveEvent(x) ==
    /\ request[x].kind = "event"
    /\ Goto(x, "idle", "committing")
    /\ Free(x, RowsOf(RowOf(x)))
    /\ IF Conflicting(x) = {}
       THEN /\ row' = [row EXCEPT ![x] = RowOf(x)]
            /\ created' = [created EXCEPT ![x] = TRUE]
            /\ holds' = [holds EXCEPT ![x] = RowsOf(RowOf(x))]
       ELSE /\ \E e \in Existing(x) : row' = [row EXCEPT ![x] = e]
            /\ UNCHANGED <<created, holds>>
    /\ UNCHANGED <<request, stored, memory, loaded, before, result>>

\* With the event, ensure_working_memory has made sure of the cursor row of the
\* request's workspace, for a repeat as well.
CommitEvent(x) ==
    /\ Goto(x, "committing", "loading")
    /\ log' = IF created[x] THEN Append(log, row[x]) ELSE log
    /\ anchored' = anchored \cup {Workspace(x)}
    /\ holds' = [holds EXCEPT ![x] = {}]
    /\ UNCHANGED <<request, consumed, jobs, memory, locals, result>>

-----------------------------------------------------------------------------
(* The Working Memory: GET, then SET of the whole value.                   *)

LoadMemory(x) ==
    LET kept == memory[Workspace(x)]
    IN  /\ Goto(x, "loading", "storing")
        /\ loaded' = [loaded EXCEPT ![x] =
                        IF kept = None THEN FreshMemory ELSE kept]
        /\ UNCHANGED <<request, stored, memory, holds, row, created, before,
                       result>>

\* Faults: a repeat is listed once more; a repeat is counted once more.
WithEventListed(m, e, q) ==
    [m EXCEPT !.ids = Append(@, e.id),
              !.count = IF e.role = "user" THEN @ + 1 ELSE @]
WithEventCounted(m, e, q) ==
    [m EXCEPT !.ids = IF Contains(@, e.id) THEN @ ELSE Append(@, e.id),
              !.count = IF e.role = "user" THEN @ + 1 ELSE @]

\* _update_working_memory, with the event that was stored and the signals of
\* the request.
WithEvent(m, e, q) ==
    LET isNew == ~Contains(m.ids, e.id)
    IN  [m EXCEPT !.ids = IF isNew THEN Append(@, e.id) ELSE @,
                  !.count = IF isNew /\ e.role = "user" THEN @ + 1 ELSE @,
                  !.refs = @ \cup e.refs,
                  !.items = IF q.signal = "remember" THEN @ \cup {e.payload}
                            ELSE @]

StoreMemory(x) ==
    LET updated == WithEvent(loaded[x], row[x], request[x])
    IN  /\ Goto(x, "storing", "deciding")
        /\ memory' = [memory EXCEPT ![Workspace(x)] = updated]
        /\ loaded' = [loaded EXCEPT ![x] = updated]
        /\ UNCHANGED <<request, stored, holds, row, created, before, result>>

MemoryExpires(w) ==
    /\ memory[w] # None
    /\ memory' = [memory EXCEPT ![w] = None]
    /\ UNCHANGED <<request, stored, pc, holds, locals, result>>

\* ConsolidationPolicy.evaluate, on the value this request wrote.
WantsConsolidation(x) ==
    request[x].signal # "none" \/ loaded[x].count >= MessageLimit

Answer(x) == IF created[x] THEN "created" ELSE "duplicate"

Decide(x) ==
    /\ pc[x] = "deciding"
    /\ IF WantsConsolidation(x)
       THEN /\ Goto(x, "deciding", "consolidating")
            /\ UNCHANGED <<request, holds, locals, result>>
       ELSE Finish(x, Answer(x))
    /\ UNCHANGED <<stored, memory>>

-----------------------------------------------------------------------------
(* Consolidation, and the cursor of the Working Memory.                    *)

AskToConsolidate(x) ==
    /\ request[x].kind = "consolidate"
    /\ Goto(x, "idle", "consolidating")
    /\ UNCHANGED <<request, stored, memory, holds, locals, result>>

Outcome(x) == IF request[x].kind = "event" THEN Answer(x) ELSE "consolidated"

\* No cursor row: RuntimeError of get_cursor_for_update.
CursorIsMissing(x) ==
    /\ pc[x] = "consolidating"
    /\ Free(x, {<<"lock", Workspace(x)>>})
    /\ Workspace(x) \notin anchored
    /\ Finish(x, "failed")
    /\ UNCHANGED <<stored, memory>>

\* execute up to its commit: the cursor moves to the workspace's last event.
Consolidate(x) ==
    LET w == Workspace(x)
        new == {e \in LastOf(w) : e.id # consumed[w]}
    IN  /\ pc[x] = "consolidating"
        /\ Free(x, {<<"lock", w>>})
        /\ w \in anchored
        /\ IF new = {}
           THEN Finish(x, Outcome(x)) /\ UNCHANGED consumed
           ELSE /\ Goto(x, "consolidating", "comparing")
                /\ holds' = [holds EXCEPT ![x] = {<<"lock", w>>}]
                /\ \E e \in new : consumed' = [consumed EXCEPT ![w] = e.id]
                /\ before' = [before EXCEPT ![x] = consumed[w]]
                /\ UNCHANGED <<request, row, created, loaded, result>>
        /\ UNCHANGED <<log, anchored, jobs, memory>>

\* advance_cursor of the store: GET and compare, then SET.
CompareMemory(x) ==
    LET kept == memory[Workspace(x)]
        isExpected == IF kept = None THEN FALSE ELSE kept.cursor = before[x]
    IN  /\ pc[x] = "comparing"
        /\ IF isExpected
           THEN /\ Goto(x, "comparing", "saving")
                /\ loaded' = [loaded EXCEPT ![x] = kept]
                /\ UNCHANGED <<request, holds, row, created, before, result>>
           ELSE Finish(x, Outcome(x))
        /\ UNCHANGED <<stored, memory>>

SaveMemory(x) ==
    LET w == Workspace(x)
    IN  /\ pc[x] = "saving"
        /\ memory' = [memory EXCEPT ![w] =
                        [loaded[x] EXCEPT !.cursor = consumed[w]]]
        /\ Finish(x, Outcome(x))
        /\ UNCHANGED stored

-----------------------------------------------------------------------------

\* _promote_candidates: the job id is made of the idempotency key alone, and
\* ON CONFLICT DO NOTHING keeps the job that is there.
Promote(x) ==
    LET k == request[x].key
    IN  /\ request[x].kind = "promote" /\ pc[x] = "idle"
        /\ jobs' = [jobs EXCEPT ![k] = IF @ = None THEN request[x].payload ELSE @]
        /\ Finish(x, "queued")
        /\ UNCHANGED <<log, anchored, consumed, memory>>

\* A statement, Redis or the consolidation fails: an open transaction is
\* rolled back, and what was committed before stays.
Raise(x) ==
    /\ pc[x] \notin {"idle", "done"}
    /\ Finish(x, "failed")
    /\ UNCHANGED <<stored, memory>>

Proceed(x) ==
    \/ SaveEvent(x) \/ CommitEvent(x) \/ LoadMemory(x) \/ StoreMemory(x)
    \/ Decide(x) \/ AskToConsolidate(x)
    \/ CursorIsMissing(x) \/ Consolidate(x) \/ CompareMemory(x)
    \/ SaveMemory(x) \/ Promote(x)

Next ==
    \/ \E x \in Calls : Proceed(x) \/ Raise(x)
    \/ \E w \in Workspaces : MemoryExpires(w)

Spec == Init /\ [][Next]_vars

\* The event loop runs every call it has accepted.
FairSpec == Spec /\ \A x \in Calls : WF_vars(Proceed(x))

-----------------------------------------------------------------------------
(* Correctness.                                                            *)

Types ==
    /\ request \in [Calls -> RequestType]
    /\ log \in Seq(EventRows)
    /\ anchored \subseteq Workspaces
    /\ consumed \in [Workspaces -> AllIds \cup {None}]
    /\ jobs \in [Keys -> Payloads \cup {None}]
    /\ memory \in [Workspaces -> MemoryRecords \cup {None}]
    /\ pc \in [Calls -> Phases]
    /\ holds \in [Calls -> SUBSET Rows]
    /\ row \in [Calls -> EventRows \cup {None}]
    /\ created \in [Calls -> BOOLEAN]
    /\ loaded \in [Calls -> MemoryRecords \cup {None}]
    /\ before \in [Calls -> AllIds \cup {None}]
    /\ result \in [Calls -> Results]

\* The types of the variables; no call stores more than one event.
TypeOK == Types /\ Len(log) <= Cardinality(Calls)

\* Writes that repeat an idempotency key, at the same time or after one
\* another, are all about one event, and at most one of them created it.
RetriesAgree ==
    \A x, y \in Calls :
        (/\ x # y /\ request[x].key = request[y].key
         /\ {result[x], result[y]} \subseteq {"created", "duplicate"})
        => /\ row[x] = row[y]
           /\ row[x] \in Logged
           /\ {result[x], result[y]} # {"created"}

\* However requests overwrite each other's Working Memory, it lists stored
\* events only, each once, and its cursor is one of a consolidated event.
WindowsAreBacked ==
    \A w \in Workspaces : memory[w] # None =>
        LET m == memory[w]
            known == {e.id : e \in Logged}
        IN  /\ ToSet(m.ids) \subseteq known
            /\ IsInjective(m.ids)
            /\ m.cursor # None =>
                  /\ \E e \in Logged : e.workspace = w /\ e.id = m.cursor
                  /\ consumed[w] # None

\* The count that triggers a consolidation is the number of user messages in
\* the window, also after repeats, lost updates and expiry.
MessagesAreCountedOnce ==
    \A w \in Workspaces : memory[w] # None =>
        memory[w].count =
            Cardinality({e \in Logged : /\ e.id \in ToSet(memory[w].ids)
                                        /\ e.role = "user"})

\* An event write that waits for another one with its key, or for a running
\* consolidation of its workspace, comes to an end.
RequestsEnd == \A x \in Calls : (pc[x] # "idle") ~> (pc[x] = "done")

-----------------------------------------------------------------------------
(* What the documents say and the code does not do.                        *)

\* The cursor of the Working Memory is compared and set: where one is there,
\* the value that is written is that one with the new cursor, and no event an
\* event request has saved since the comparison is lost.
AdvanceIsCompareAndSet ==
    [][\A x \in Calls :
        LET w == Workspace(x)
        IN  (SaveMemory(x) /\ memory[w] # None) =>
                memory'[w] = [memory[w] EXCEPT !.cursor = consumed[w]]]_vars

\* A repeated key with another payload is refused with a conflict: an event
\* that is answered as a success is stored as it was sent.
PayloadConflictsAreRefused ==
    \A x \in Calls :
        result[x] \in {"created", "duplicate"} =>
            row[x].payload = request[x].payload

=============================================================================
