------------------------- MODULE CandidateGovernance -------------------------
(***************************************************************************)
(* Calls of CandidateGovernanceService.govern, each a transaction of its   *)
(* own at READ COMMITTED: it locks the candidate, looks for active         *)
(* memories without locking them, locks the targets the advice names one   *)
(* by one, and then adds, revises or replaces a memory.                    *)
(*                                                                         *)
(* The tables hold what is committed.  A transaction's own writes follow   *)
(* from the records it read (found, target), so they are computed where    *)
(* they become visible (Commit); the statements that can wait or fail      *)
(* before that are actions of their own.  A row, or a key of the unique    *)
(* index, that an open transaction wrote or locked is in holds.            *)
(*                                                                         *)
(* Every statement is filtered by tenant_id: one tenant is modelled.       *)
(***************************************************************************)
EXTENDS Naturals, Sequences, FiniteSets

CONSTANTS
    Candidates,   \* candidate ids; the memory a candidate becomes has its name
    Seeds,        \* memories that exist at the start
    Calls,        \* calls of govern
    CandidateOf,  \* the candidate a call is made for
    Groups,       \* scopes and memory types: duplicates are searched in one
    Preferences,  \* the groups whose memory type is PREFERENCE
    Keys,         \* normalized keys
    ShortKeys,    \* keys that leave room for "#superseded:" and a memory id
    FullKeys,     \* keys of 512 characters, the width of the column
    Shapes,       \* candidates' contents and advice the model starts with
    SeedShape,    \* the shape of a memory that exists at the start
    None

Ids == Candidates \cup Seeds
Actions == {"create", "refine", "correct", "merge", "supersede",
            "defer", "ignore"}
\* "staleness" is a score of 0.95 or more, "outdated" one of 1.
Flaws == {"evidence", "scope", "sensitivity", "validity", "staleness",
          "outdated", "value", "confidence", "explicitness"}
Statuses == {"pending", "governed", "deferred", "ignored"}
Terminal == {"governed", "deferred", "ignored"}
IndexKinds == {"exact", "vector", "graph", "cache"}

\* type_payload["relations"]: missing, a list of complete relations, or anything
\* else (no list, an empty one, or one with an incomplete relation).
RelationForms == {"absent", "stable", "unstable"}
Relations == {"exact", "semantic", "duplicate", "conflict"}

\* The key column of a memory, with what SUPERSEDE appended to it.
Slots == Groups \X Keys \X (Ids \cup {"live", "cut"})

AllShapes == Shapes \cup {SeedShape[m] : m \in Seeds}
Texts == {s.text : s \in AllShapes}
Prints == {s.print : s \in AllShapes} \cup {None}

\* Rows of long_term_memory and the governance columns of memory_candidates.
MemoryRecords ==
    [id: Ids, status: {"active", "superseded"}, version: Nat \ {0},
     slot: Slots, text: Seq(Texts), print: Prints, evidence: SUBSET Ids,
     confident: BOOLEAN, fresh: BOOLEAN, relations: RelationForms,
     predecessor: Ids \cup {None}, successor: Ids \cup {None}]
Decisions == [status: Statuses, action: Actions \cup {None},
              memory: Ids \cup {None}, version: Nat]

\* A memory that is there at the start has passed the quality gate.
ASSUME ConstantsAssumption ==
    /\ Candidates \cap Seeds = {}
    /\ CandidateOf \in [Calls -> Candidates]
    /\ Preferences \subseteq Groups
    /\ FullKeys \subseteq Keys /\ ShortKeys \subseteq Keys \ FullKeys
    /\ DOMAIN SeedShape = Seeds
    /\ \A s \in AllShapes :
          /\ s.group \in Groups /\ s.key \in Keys
          /\ s.action \in Actions /\ s.relations \in RelationForms
          /\ s.flaws \subseteq Flaws
          /\ "outdated" \in s.flaws => "staleness" \in s.flaws
          /\ s.duplicates \in Seq(Ids) /\ s.conflicts \in Seq(Ids)
    /\ \A m \in Seeds : SeedShape[m].flaws = {}
    /\ \A m, n \in Seeds : m # n =>
          <<SeedShape[m].group, SeedShape[m].key>> #
          <<SeedShape[n].group, SeedShape[n].key>>

ASSUME NoneAssumption ==
    /\ None \notin Ids
    /\ None \notin MemoryRecords
    /\ None \notin Decisions

VARIABLES
    shape,        \* what the candidate row says, None when there is no row
    memories,     \* long_term_memory, None when there is no row
    versions,     \* long_term_memory_versions
    projections,  \* memory_index_projections
    jobs,         \* build_memory_index rows of the outbox
    decisions,    \* the governance columns of memory_candidates
    audit,        \* memory_audit_log
    pc, holds, found, named, plan, target, outcome

tables == <<memories, versions, projections, jobs, decisions, audit>>
locals == <<found, named, plan, target>>
vars == <<shape, tables, pc, holds, locals, outcome>>

Phases == {"idle", "exact", "semantic", "deciding", "duplicates", "conflicts",
           "acting", "staling", "updating", "retiring", "inserting",
           "committing", "done"}
InTransaction == Phases \ {"idle", "done"}
Outcomes == {"none", "decided", "idempotent", "missing", "rejected",
             "conflicting", "failed"}

Rows == ({"candidate"} \X Candidates) \cup ({"memory", "index"} \X Ids)
            \cup ({"key"} \X Slots)

-----------------------------------------------------------------------------
(* Records.                                                                *)

LiveSlot(s) == <<s.group, s.key, "live">>

\* Fault: the suffix is the successor's id, which is not known yet.
RetiredSlotOfSuccessor(r) == <<r.slot[1], r.slot[2], r.successor>>

\* f"{key}#superseded:{id}"[:512]: a key of 512 characters is left as it is,
\* and a long one loses the memory id that would make it unique.
RetiredSlot(r) ==
    <<r.slot[1], r.slot[2],
      IF r.slot[2] \in FullKeys THEN r.slot[3]
      ELSE IF r.slot[2] \in ShortKeys THEN r.id ELSE "cut">>

NewRecord(m, s, predecessor) ==
    [id |-> m, status |-> "active", version |-> 1, slot |-> LiveSlot(s),
     text |-> <<s.text>>, print |-> s.print, evidence |-> {m},
     confident |-> "confidence" \notin s.flaws,
     fresh |-> "outdated" \notin s.flaws, relations |-> s.relations,
     predecessor |-> predecessor, successor |-> None]

\* REFINE and MERGE append a text that is not there yet, CORRECT replaces.
NewText(old, text, action) ==
    CASE action = "correct" -> <<text>>
      [] text \in {old[i] : i \in DOMAIN old} -> old
      [] OTHER -> Append(old, text)

\* Fault: the version is not raised.
RevisedInPlace(r, c, action) ==
    LET s == shape[c]
    IN  [r EXCEPT !.text = NewText(r.text, s.text, action),
                  !.evidence = @ \cup {c}]

Revised(r, c, action) ==
    LET s == shape[c]
    IN  [r EXCEPT !.version = @ + 1,
                  !.text = NewText(r.text, s.text, action),
                  !.print = IF s.print # None THEN s.print ELSE @,
                  !.evidence = @ \cup {c},
                  !.confident = @ \/ "confidence" \notin s.flaws,
                  !.fresh = @ \/ "outdated" \notin s.flaws,
                  !.relations = IF s.relations # "absent" THEN s.relations
                                ELSE @]

Retired(r) ==
    [r EXCEPT !.status = "superseded", !.version = @ + 1,
              !.slot = RetiredSlot(r)]

\* ProjectionPlanner.plan: the indexes a version of a record gets.
IsProjected(r) == r.status = "active" /\ r.confident /\ r.fresh

Suits(r, kind) ==
    CASE kind = "vector" -> r.slot[1] \in Preferences \/ r.print # None
      [] kind = "graph" -> r.relations = "stable"
      [] OTHER -> TRUE

IndexTypes(r) == {kind \in IndexKinds : IsProjected(r) /\ Suits(r, kind)}

Present == {m \in Ids : memories[m] # None}
Stored == {memories[m] : m \in Present}
Active(group) == {r \in Stored : r.status = "active" /\ r.slot[1] = group}

ProjectionsOf(r) ==
    {[memory |-> r.id, version |-> r.version, type |-> t, status |-> "pending"]
        : t \in IndexTypes(r)}
JobsOf(r) == {<<r.id, r.version, t>> : t \in IndexTypes(r)}
VersionOf(r, action) ==
    [memory |-> r.id, version |-> r.version, operation |-> action,
     status |-> r.status, text |-> r.text, evidence |-> r.evidence]

Init ==
    LET seed(m) == NewRecord(m, SeedShape[m], None)
    IN  /\ shape \in [Candidates -> Shapes \cup {None}]
        /\ memories = [m \in Ids |-> IF m \in Seeds THEN seed(m) ELSE None]
        /\ versions = {VersionOf(seed(m), "create") : m \in Seeds}
        /\ projections = UNION {ProjectionsOf(seed(m)) : m \in Seeds}
        /\ jobs = UNION {JobsOf(seed(m)) : m \in Seeds}
        /\ decisions = [c \in Candidates |->
                IF shape[c] = None THEN None
                ELSE [status |-> "pending", action |-> None,
                      memory |-> None, version |-> 0]]
        /\ audit = {}
        /\ pc = [x \in Calls |-> "idle"]
        /\ holds = [x \in Calls |-> {}]
        /\ found = [x \in Calls |-> [r \in Relations |-> {}]]
        /\ named = [x \in Calls |-> <<>>]
        /\ plan = [x \in Calls |-> "none"]
        /\ target = [x \in Calls |-> None]
        /\ outcome = [x \in Calls |-> "none"]

-----------------------------------------------------------------------------
(* Row locks.                                                              *)

Goto(x, from, to) ==
    /\ pc[x] = from
    /\ pc' = [pc EXCEPT ![x] = to]

Free(x, row) == \A y \in Calls \ {x} : row \notin holds[y]

Hold(x, rows) == holds' = [holds EXCEPT ![x] = @ \cup rows]

CandidateRow(x) == <<"candidate", CandidateOf[x]>>

\* The key a statement writes: UPDATE retires one, INSERT adds one.
NewSlot(x) ==
    IF pc[x] = "retiring" THEN RetiredSlot(target[x])
    ELSE LiveSlot(shape[CandidateOf[x]])

\* The row the next statement of a call locks, if it locks one.
Wants(x) ==
    CASE pc[x] = "idle" -> {CandidateRow(x)}
      [] pc[x] \in {"duplicates", "conflicts"} /\ named[x] # <<>>
            -> {<<"memory", Head(named[x])>>}
      [] pc[x] = "staling" -> {<<"index", target[x].id>>}
      [] pc[x] = "updating" -> {<<"memory", target[x].id>>}
      [] pc[x] \in {"retiring", "inserting"} -> {<<"key", NewSlot(x)>>}
      [] OTHER -> {}

MayGoOn(x) == \A row \in Wants(x) : Free(x, row)

WaitsFor(x) == {y \in Calls \ {x} : Wants(x) \cap holds[y] # {}}

\* Calls that wait for each other in a circle.
Deadlocked(x) ==
    \E S \in SUBSET Calls : x \in S /\ UNION {WaitsFor(y) : y \in S} = S

\* Fault: leaving the "async with" block does not end the transaction.
FinishOpen(x, result) ==
    /\ pc' = [pc EXCEPT ![x] = "done"]
    /\ outcome' = [outcome EXCEPT ![x] = result]
    /\ UNCHANGED <<shape, holds, locals>>

\* The transaction is closed: COMMIT or ROLLBACK, and the call returns.
Finish(x, result) ==
    /\ pc' = [pc EXCEPT ![x] = "done"]
    /\ outcome' = [outcome EXCEPT ![x] = result]
    /\ holds' = [holds EXCEPT ![x] = {}]
    /\ found' = [found EXCEPT ![x] = [r \in Relations |-> {}]]
    /\ named' = [named EXCEPT ![x] = <<>>]
    /\ plan' = [plan EXCEPT ![x] = "none"]
    /\ target' = [target EXCEPT ![x] = None]
    /\ UNCHANGED shape

-----------------------------------------------------------------------------
(* Reading: the candidate, the active memories like it, the targets.       *)

GetCandidateForUpdate(x) ==
    /\ Goto(x, "idle", "exact")
    /\ decisions[CandidateOf[x]] # None
    /\ MayGoOn(x)
    /\ Hold(x, {CandidateRow(x)})
    /\ UNCHANGED <<shape, tables, locals, outcome>>

CandidateIsMissing(x) ==
    /\ pc[x] = "idle"
    /\ decisions[CandidateOf[x]] = None
    /\ Finish(x, "missing")
    /\ UNCHANGED tables

FindExactActive(x) ==
    LET s == shape[CandidateOf[x]]
    IN  /\ Goto(x, "exact", "semantic")
        /\ found' = [found EXCEPT ![x]["exact"] =
                        {r \in Active(s.group) : r.slot = LiveSlot(s)}]
        /\ UNCHANGED <<shape, tables, holds, named, plan, target, outcome>>

FindSemanticActive(x) ==
    LET s == shape[CandidateOf[x]]
    IN  /\ Goto(x, "semantic", "deciding")
        /\ found' = [found EXCEPT ![x]["semantic"] =
                        {r \in Active(s.group) : /\ s.print # None
                                                 /\ r.print = s.print}]
        /\ UNCHANGED <<shape, tables, holds, named, plan, target, outcome>>

\* Fault: a deferral does not count as a decision.
IsDecidedUnlessDeferred(c) == decisions[c].status \in {"governed", "ignored"}

IsDecided(c) == decisions[c].status \in Terminal

AlreadyDecided(x) ==
    /\ pc[x] = "deciding"
    /\ IsDecided(CandidateOf[x])
    /\ Finish(x, "idempotent")
    /\ UNCHANGED tables

\* _quality_gate: the first check that fails gives the verdict.
Gate(flaws) ==
    CASE "evidence" \in flaws -> "defer"
      [] flaws = {} -> "pass"
      [] flaws \subseteq {"confidence", "explicitness"} -> "defer"
      [] OTHER -> "ignore"

FailsGate(x) ==
    LET c == CandidateOf[x]
    IN  /\ Goto(x, "deciding", "committing")
        /\ ~IsDecided(c) /\ Gate(shape[c].flaws) # "pass"
        /\ plan' = [plan EXCEPT ![x] = Gate(shape[c].flaws)]
        /\ UNCHANGED <<shape, tables, holds, found, named, target, outcome>>

PassesGate(x) ==
    LET c == CandidateOf[x]
    IN  /\ Goto(x, "deciding", "duplicates")
        /\ ~IsDecided(c) /\ Gate(shape[c].flaws) = "pass"
        /\ named' = [named EXCEPT ![x] = shape[c].duplicates]
        /\ UNCHANGED <<shape, tables, holds, found, plan, target, outcome>>

\* Fault: the scope and type of a target are not compared.
IsLegalTargetAnywhere(r, s) == r.status = "active"

IsLegalTarget(r, s) == r.status = "active" /\ r.slot[1] = s.group

IsDuplicate(r, s) ==
    \/ r.text = <<s.text>>
    \/ s.print # None /\ r.print = s.print
    \/ r.slot[2] = s.key

RelationAt(x) == IF pc[x] = "duplicates" THEN "duplicate" ELSE "conflict"

\* get_memory_for_update; of the targets only the first is ever used, and one
\* duplicate that is none empties the whole list.
LockTarget(x) ==
    LET s == shape[CandidateOf[x]]
        r == memories[Head(named[x])]
        unrelated == pc[x] = "duplicates" /\ ~IsDuplicate(r, s)
    IN  /\ pc[x] \in {"duplicates", "conflicts"} /\ named[x] # <<>>
        /\ r # None /\ MayGoOn(x) /\ IsLegalTarget(r, s)
        /\ Hold(x, Wants(x))
        /\ named' = [named EXCEPT ![x] = IF unrelated THEN <<>> ELSE Tail(@)]
        /\ found' = [found EXCEPT ![x][RelationAt(x)] =
                        IF unrelated THEN {} ELSE IF @ = {} THEN {r} ELSE @]
        /\ UNCHANGED <<shape, tables, pc, plan, target, outcome>>

\* The rejection is committed and raised; the candidate stays pending.
RejectTarget(x) ==
    LET r == memories[Head(named[x])]
    IN  /\ pc[x] \in {"duplicates", "conflicts"} /\ named[x] # <<>>
        /\ IF r = None THEN TRUE
           ELSE MayGoOn(x) /\ ~IsLegalTarget(r, shape[CandidateOf[x]])
        /\ audit' = audit \cup {<<CandidateOf[x], "reject", RelationAt(x)>>}
        /\ Finish(x, "rejected")
        /\ UNCHANGED <<memories, versions, projections, jobs, decisions>>

TargetsAreLocked(x) ==
    /\ named[x] = <<>>
    /\ \/ /\ Goto(x, "duplicates", "conflicts")
          /\ named' = [named EXCEPT ![x] = shape[CandidateOf[x]].conflicts]
       \/ /\ Goto(x, "conflicts", "acting")
          /\ UNCHANGED named
    /\ UNCHANGED <<shape, tables, holds, found, plan, target, outcome>>

-----------------------------------------------------------------------------
(* Deciding.                                                               *)

\* _select_target: any memory of the first relation that has one.
Preference(action) ==
    CASE action = "merge" -> <<"duplicate", "semantic", "exact">>
      [] action = "supersede" -> <<"conflict", "exact">>
      [] OTHER -> <<"conflict", "duplicate", "exact", "semantic">>

Selectable(x) ==
    LET order == Preference(shape[CandidateOf[x]].action)
    IN  UNION {found[x][order[i]] : i \in
                {j \in DOMAIN order :
                    \A k \in 1..(j - 1) : found[x][order[k]] = {}}}

\* The decision that needs no memory, or "none".
Verdict(x) ==
    LET s == shape[CandidateOf[x]]
    IN  CASE s.action \in {"defer", "ignore"} -> s.action
          [] s.action = "create" ->
                IF \E r \in found[x]["exact"] : r.text = <<s.text>>
                THEN "ignore"
                ELSE IF found[x]["exact"] \cup found[x]["semantic"] # {}
                     THEN "defer" ELSE "none"
          [] OTHER -> IF Selectable(x) = {} THEN "defer" ELSE "none"

TurnAway(x) ==
    /\ Goto(x, "acting", "committing")
    /\ Verdict(x) # "none"
    /\ plan' = [plan EXCEPT ![x] = Verdict(x)]
    /\ UNCHANGED <<shape, tables, holds, found, named, target, outcome>>

ChooseCreate(x) ==
    /\ Goto(x, "acting", "inserting")
    /\ Verdict(x) = "none"
    /\ shape[CandidateOf[x]].action = "create"
    /\ plan' = [plan EXCEPT ![x] = "create"]
    /\ UNCHANGED <<shape, tables, holds, found, named, target, outcome>>

ChooseTarget(x) ==
    LET action == shape[CandidateOf[x]].action
    IN  /\ Goto(x, "acting", "staling")
        /\ Verdict(x) = "none"
        /\ action # "create"
        /\ plan' = [plan EXCEPT ![x] = action]
        /\ \E r \in Selectable(x) : target' = [target EXCEPT ![x] = r]
        /\ UNCHANGED <<shape, tables, holds, found, named, outcome>>

-----------------------------------------------------------------------------
(* Writing.                                                                *)

StaleOldProjections(x) ==
    /\ Goto(x, "staling", "updating")
    /\ MayGoOn(x)
    /\ Hold(x, Wants(x))
    /\ UNCHANGED <<shape, tables, locals, outcome>>

\* Fault: the WHERE clause does not compare the version.
IsCurrentAlways(r) == TRUE

IsCurrent(r) == memories[r.id].version = r.version

UpdateMemory(x) ==
    /\ Goto(x, "updating",
            IF plan[x] = "supersede" THEN "retiring" ELSE "committing")
    /\ MayGoOn(x)
    /\ IsCurrent(target[x])
    /\ Hold(x, Wants(x))
    /\ UNCHANGED <<shape, tables, locals, outcome>>

\* VersionConflictError.
UpdateConflicts(x) ==
    /\ pc[x] = "updating"
    /\ MayGoOn(x)
    /\ ~IsCurrent(target[x])
    /\ Finish(x, "conflicting")
    /\ UNCHANGED tables

\* uq_ltm_tenant_scope_type_key, over rows of every status.
KeyIsTaken(x) ==
    \/ \E r \in Stored : /\ r.slot = NewSlot(x)
                         /\ IF target[x] = None THEN TRUE
                            ELSE r.id # target[x].id
    \/ /\ pc[x] = "inserting" /\ plan[x] = "supersede"
       /\ RetiredSlot(target[x]) = NewSlot(x)

WriteKey(x) ==
    /\ \/ Goto(x, "retiring", "inserting")
       \/ Goto(x, "inserting", "committing")
    /\ MayGoOn(x)
    /\ ~KeyIsTaken(x)
    /\ Hold(x, Wants(x) \cup (IF pc[x] = "retiring"
                              THEN {<<"key", target[x].slot>>} ELSE {}))
    /\ UNCHANGED <<shape, tables, locals, outcome>>

\* IntegrityError.
KeyCollides(x) ==
    /\ pc[x] \in {"retiring", "inserting"}
    /\ MayGoOn(x)
    /\ KeyIsTaken(x)
    /\ Finish(x, "failed")
    /\ UNCHANGED tables

\* Faults: the link to the successor is not written; the retired record's
\* projections are left as they were.
LinkedNowhere(r, c) == r
StaledNone(r) == {}

\* link_superseded.
Linked(r, c) == [r EXCEPT !.successor = c]

\* The records a call's transaction leaves behind.
Written(x) ==
    LET c == CandidateOf[x]
    IN  CASE plan[x] \in {"defer", "ignore"} -> {}
          [] plan[x] = "create" -> {NewRecord(c, shape[c], None)}
          [] plan[x] = "supersede" ->
                {Linked(Retired(target[x]), c),
                 NewRecord(c, shape[c], target[x].id)}
          [] OTHER -> {Revised(target[x], c, plan[x])}

\* set_projection_status: the rows of the version a call replaces.
Staled(r) == {p \in projections : p.memory = r.id /\ p.version = r.version}

Result(x) ==
    CASE plan[x] = "defer" -> [status |-> "deferred", action |-> plan[x],
                               memory |-> None, version |-> 0]
      [] plan[x] = "ignore" -> [status |-> "ignored", action |-> plan[x],
                                memory |-> None, version |-> 0]
      [] plan[x] \in {"create", "supersede"} ->
            [status |-> "governed", action |-> plan[x],
             memory |-> CandidateOf[x], version |-> 1]
      [] OTHER -> [status |-> "governed", action |-> plan[x],
                   memory |-> target[x].id, version |-> target[x].version + 1]

Commit(x) ==
    LET c == CandidateOf[x]
        old == IF target[x] = None THEN {} ELSE Staled(target[x])
        isNew(v) == \A w \in versions :
                        <<w.memory, w.version>> # <<v.memory, v.version>>
    IN  /\ pc[x] = "committing"
        /\ memories' = [m \in Ids |->
                IF \E r \in Written(x) : r.id = m
                THEN CHOOSE r \in Written(x) : r.id = m ELSE memories[m]]
        /\ versions' = versions \cup
                {v \in {VersionOf(r, plan[x]) : r \in Written(x)} : isNew(v)}
        /\ projections' = (projections \ old)
                \cup {[p EXCEPT !.status = "stale"] : p \in old}
                \cup UNION {ProjectionsOf(r) : r \in Written(x)}
        /\ jobs' = jobs \cup UNION {JobsOf(r) : r \in Written(x)}
        /\ decisions' = [decisions EXCEPT ![c] = Result(x)]
        /\ audit' = audit \cup {<<c, "govern", plan[x]>>}
        /\ Finish(x, "decided")

-----------------------------------------------------------------------------

\* A statement fails, or PostgreSQL breaks a circle of waiting transactions;
\* leaving the "async with" block rolls back.
Raise(x) ==
    /\ pc[x] \in InTransaction
    /\ Finish(x, "failed")
    /\ UNCHANGED tables

BreakDeadlock(x) == Deadlocked(x) /\ Raise(x)

Proceed(x) ==
    \/ GetCandidateForUpdate(x) \/ CandidateIsMissing(x)
    \/ FindExactActive(x) \/ FindSemanticActive(x)
    \/ AlreadyDecided(x) \/ FailsGate(x) \/ PassesGate(x)
    \/ LockTarget(x) \/ RejectTarget(x) \/ TargetsAreLocked(x)
    \/ TurnAway(x) \/ ChooseCreate(x) \/ ChooseTarget(x)
    \/ StaleOldProjections(x) \/ UpdateMemory(x) \/ UpdateConflicts(x)
    \/ WriteKey(x) \/ KeyCollides(x) \/ Commit(x)

Next == \E x \in Calls : Proceed(x) \/ Raise(x)

Spec == Init /\ [][Next]_vars

\* The event loop runs every started call; PostgreSQL ends every deadlock.
FairSpec ==
    /\ Spec
    /\ \A x \in Calls : WF_vars(Proceed(x)) /\ WF_vars(BreakDeadlock(x))

-----------------------------------------------------------------------------
(* Correctness.                                                            *)

TypeOK ==
    /\ shape \in [Candidates -> Shapes \cup {None}]
    /\ memories \in [Ids -> MemoryRecords \cup {None}]
    /\ \A m \in Present : memories[m].id = m
    /\ \A v \in versions : v.memory \in Present
    /\ projections \subseteq [memory: Present, version: Nat \ {0},
                              type: IndexKinds, status: {"pending", "stale"}]
    /\ decisions \in [Candidates -> Decisions \cup {None}]
    /\ \A c \in Candidates : shape[c] = None => decisions[c] = None
    /\ pc \in [Calls -> Phases]
    /\ holds \in [Calls -> SUBSET Rows]
    /\ found \in [Calls -> [Relations -> SUBSET MemoryRecords]]
    /\ named \in [Calls -> Seq(Ids)]
    /\ plan \in [Calls -> Actions \cup {"none"}]
    /\ target \in [Calls -> MemoryRecords \cup {None}]
    /\ outcome \in [Calls -> Outcomes]

Governed == {c \in Candidates : decisions[c] # None
                                /\ decisions[c].status = "governed"}

\* What a candidate brought into a memory is never lost again, however many
\* calls read the same version of it (update_memory's expected_version).
ContributionsAreKept ==
    \A c \in Governed : c \in memories[decisions[c].memory].evidence

\* Everything in a memory came from its own scope and type, whatever ids the
\* advice named (_validate_targets, find_exact_active, find_semantic_active).
ScopesStayApart ==
    \A r \in Stored : \A c \in r.evidence \ Seeds :
        shape[c].group = r.slot[1]

\* Every version a memory ever had is in the history once, and the last of
\* them is the record itself (add_version, ON CONFLICT DO NOTHING).
HistoryIsComplete ==
    \A r \in Stored :
        LET rows == {v \in versions : v.memory = r.id}
        IN  /\ {v.version : v \in rows} = 1..r.version
            /\ Cardinality(rows) = r.version
            /\ \E v \in rows : /\ v.version = r.version
                               /\ v.status = r.status
                               /\ v.text = r.text
                               /\ v.evidence = r.evidence

\* Indexes are to be built for exactly the current version of the active
\* memories: every one of them has the projections ProjectionPlanner selects,
\* the exact and the cache index always, with a job each, and no older version
\* and no replaced memory has one that is not stale.
IndexesFollowMemories ==
    /\ {p \in projections : p.status # "stale"} =
            UNION {ProjectionsOf(r) : r \in Stored}
    /\ \A r \in Stored :
          r.status = "active" => {"exact", "cache"} \subseteq IndexTypes(r)
    /\ {<<p.memory, p.version, p.type>> : p \in projections} = jobs

\* A replaced memory and the one that replaced it name each other, and only a
\* replaced memory names one: no memory is replaced twice (_supersede).
ReplacementsAreLinked ==
    \A r \in Stored :
        /\ (r.status = "superseded") = (r.successor # None)
        /\ r.successor # None =>
              /\ memories[r.successor] # None
              /\ memories[r.successor].predecessor = r.id
        /\ r.predecessor # None =>
              /\ memories[r.predecessor] # None
              /\ memories[r.predecessor].successor = r.id

\* A decision and all it stands for are there together: the audit row, the
\* memory at that version or a later one, and its row in the history.
DecisionsAreBacked ==
    \A c \in Candidates :
        LET d == decisions[c]
            verdicts == {a \in audit : a[1] = c /\ a[2] = "govern"}
        IN  IF d = None THEN verdicts = {}
            ELSE /\ d.status = "pending" => verdicts = {}
                 /\ d.status # "pending" => verdicts = {<<c, "govern", d.action>>}
                 /\ d.status = "governed" =>
                      /\ memories[d.memory] # None
                      /\ memories[d.memory].version >= d.version
                      /\ \E v \in versions : /\ v.memory = d.memory
                                             /\ v.version = d.version
                                             /\ v.operation = d.action
                                             /\ c \in v.evidence

\* A decision is final, and so is a memory that was replaced: later calls,
\* also those that read it while it was active, leave both as they are.
DecisionsAreFinal ==
    [][\A c \in Candidates :
        (decisions[c] # None /\ decisions[c].status \in Terminal) =>
            decisions'[c] = decisions[c]]_vars
ReplacedIsFinal ==
    [][\A r \in Stored : r.status = "superseded" => memories'[r.id] = r]_vars

\* A call that has begun comes to an end, also when the order in which calls
\* lock their targets makes them wait for each other.
CallsEnd == \A x \in Calls : (pc[x] # "idle") ~> (pc[x] = "done")

\* The ledger a reader of the committed rows sees.
LedgerStatus == [m \in Ids |->
    IF memories[m] = None THEN "absent" ELSE memories[m].status]
LedgerVersion == [m \in Ids |->
    IF memories[m] = None THEN 0 ELSE memories[m].version]
LedgerKey == [m \in Ids |->
    IF memories[m] = None THEN None ELSE memories[m].slot]
LedgerSuccessor == [m \in Ids |->
    IF memories[m] = None THEN None ELSE memories[m].successor]
LedgerEvidence == [m \in Ids |->
    IF memories[m] = None THEN {} ELSE memories[m].evidence]
LedgerDecision == [c \in Candidates |->
    IF decisions[c] = None THEN "absent" ELSE decisions[c].status]

Ledger == INSTANCE MemoryLedger WITH
    status <- LedgerStatus, version <- LedgerVersion, key <- LedgerKey,
    successor <- LedgerSuccessor, evidence <- LedgerEvidence,
    decision <- LedgerDecision

\* Calls that interleave statement by statement decide candidates one at a
\* time: each transaction takes effect as one step of MemoryLedger.
KeepsLedger == Ledger!Spec

-----------------------------------------------------------------------------
(* What the documents say and the code does not do.                        *)

\* SUPERSEDE retires the old record and creates a new one: no call fails
\* because the record it has just retired still holds the key.
RetiringFreesTheKey ==
    \A x \in Calls :
        pc[x] = "inserting" /\ plan[x] = "supersede" =>
            RetiredSlot(target[x]) # NewSlot(x)

\* DEFER keeps the candidate waiting: a call does not answer with a deferral
\* when the candidate would pass and nothing like it is active any more.
DeferredIsReconsidered ==
    [][\A x \in Calls : AlreadyDecided(x) =>
        LET c == CandidateOf[x]
        IN  ~ /\ decisions[c].status = "deferred"
              /\ Gate(shape[c].flaws) = "pass"
              /\ shape[c].action = "create"
              /\ found[x]["exact"] \cup found[x]["semantic"] = {}]_vars

=============================================================================
