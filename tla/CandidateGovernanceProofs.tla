----------------------- MODULE CandidateGovernanceProofs -----------------------
(***************************************************************************)
(* Theorems about CandidateGovernance for all values of its constants: the *)
(* invariant that ties what a call has read to what is stored, and the     *)
(* types.                                                                  *)
(***************************************************************************)
EXTENDS CandidateGovernance, TLAPS

(***************************************************************************)
(* What a call knows at each phase.                                        *)
(***************************************************************************)

\* Phases of a call that has found its candidate undecided.
Undecided == {"duplicates", "conflicts", "acting", "staling", "updating",
              "retiring", "inserting", "committing"}

\* Plans that change a memory which is there.
Changes == {"refine", "correct", "merge", "supersede"}

PlansAt(phase) ==
    CASE phase \in {"staling", "updating"} -> Changes
      [] phase = "retiring" -> {"supersede"}
      [] phase = "inserting" -> {"create", "supersede"}
      [] phase = "committing" -> Actions
      [] OTHER -> {"none"}

\* A record a call has read: it was active and in the candidate's scope, the
\* memory is still there, and if its version has not moved, neither has
\* anything else of it.
IsSnapshot(r, group) ==
    /\ r.status = "active" /\ r.slot[1] = group
    /\ memories[r.id] # None
    /\ r.version <= memories[r.id].version
    /\ r.version = memories[r.id].version => memories[r.id] = r

Snapshots(x) ==
    (UNION {found[x][r] : r \in Relations}) \cup ({target[x]} \ {None})

SnapshotsAreOld(x) ==
    \A r \in Snapshots(x) : IsSnapshot(r, shape[CandidateOf[x]].group)

\* From the version check to the commit nobody else changes the target.
TargetIsHeld(x) ==
    pc[x] \in {"retiring", "inserting", "committing"} /\ target[x] # None =>
        /\ <<"memory", target[x].id>> \in holds[x]
        /\ memories[target[x].id] = target[x]

\* A call whose INSERT has gone through, and the key it has written.
Inserted(x) == pc[x] = "committing" /\ plan[x] \in {"create", "supersede"}
KeyOf(x) == LiveSlot(shape[CandidateOf[x]])

\* No active memory has that key, but for the one the call replaces.
KeyIsHeld(x) ==
    Inserted(x) =>
        /\ <<"key", KeyOf(x)>> \in holds[x]
        /\ \A m \in Present :
              memories[m].status = "active" /\ memories[m].slot = KeyOf(x) =>
                  target[x] # None /\ m = target[x].id

\* The candidate's row is locked, and undecided once that has been checked.
CandidateIsHeld(x) ==
    LET c == CandidateOf[x]
    IN  /\ pc[x] \in InTransaction =>
              CandidateRow(x) \in holds[x] /\ decisions[c] # None
        /\ pc[x] \in Undecided => decisions[c].status = "pending"

PlanFollowsPhase(x) ==
    /\ plan[x] \in PlansAt(pc[x])
    /\ (target[x] # None) <=> (plan[x] \in Changes)
    /\ pc[x] \in Undecided /\ plan[x] \notin {"defer", "ignore"} =>
          shape[CandidateOf[x]].flaws = {}

CallPart(x) ==
    /\ CandidateIsHeld(x)
    /\ PlanFollowsPhase(x)
    /\ SnapshotsAreOld(x)
    /\ TargetIsHeld(x)
    /\ KeyIsHeld(x)

\* Rows are locked by one call at a time; so are the keys calls insert.
RowsAreApart ==
    \A x, y \in Calls : x # y =>
        \A row \in holds[x] \cap holds[y] : row[1] = "key"
KeysAreApart ==
    \A x, y \in Calls : x # y /\ Inserted(x) /\ Inserted(y) =>
        KeyOf(x) # KeyOf(y)

\* The memory of a candidate comes with the decision.
MemoriesAreDecided ==
    \A c \in Candidates : memories[c] # None =>
        decisions[c] # None /\ decisions[c].status = "governed"

GovernanceInvariant ==
    /\ TypeOK
    /\ \A x \in Calls : CallPart(x)
    /\ RowsAreApart
    /\ KeysAreApart
    /\ MemoriesAreDecided

(***************************************************************************)
(* Types, in two halves: what is stored and what the calls know.           *)
(***************************************************************************)

TablesOK ==
    /\ shape \in [Candidates -> Shapes \cup {None}]
    /\ memories \in [Ids -> MemoryRecords \cup {None}]
    /\ \A m \in Present : memories[m].id = m
    /\ \A v \in versions : v.memory \in Present
    /\ projections \subseteq [memory: Present, version: Nat \ {0},
                              type: IndexKinds, status: {"pending", "stale"}]
    /\ decisions \in [Candidates -> Decisions \cup {None}]
    /\ \A c \in Candidates : shape[c] = None => decisions[c] = None

CallsOK ==
    /\ pc \in [Calls -> Phases]
    /\ holds \in [Calls -> SUBSET Rows]
    /\ found \in [Calls -> [Relations -> SUBSET MemoryRecords]]
    /\ named \in [Calls -> Seq(Ids)]
    /\ plan \in [Calls -> Actions \cup {"none"}]
    /\ target \in [Calls -> MemoryRecords \cup {None}]
    /\ outcome \in [Calls -> Outcomes]

\* The two halves are the type invariant.
LEMMA TypeHalves == TypeOK <=> TablesOK /\ CallsOK
  BY DEF TypeOK, TablesOK, CallsOK

\* The fields of a record that is stored or read.
LEMMA RecordFields ==
  ASSUME NEW r \in MemoryRecords
  PROVE  /\ r.id \in Ids /\ r.status \in {"active", "superseded"}
         /\ r.version \in Nat \ {0} /\ r.slot \in Slots
         /\ r.text \in Seq(Texts) /\ r.print \in Prints
         /\ r.evidence \in SUBSET Ids /\ r.confident \in BOOLEAN
         /\ r.fresh \in BOOLEAN /\ r.relations \in RelationForms
         /\ r.predecessor \in Ids \cup {None}
         /\ r.successor \in Ids \cup {None}
         /\ r # None
  BY NoneAssumption DEF MemoryRecords

\* A live key and a retired one are keys of the table.
LEMMA KeysAreSlots ==
  /\ \A s \in AllShapes : LiveSlot(s) \in Slots
  /\ \A r \in MemoryRecords : RetiredSlot(r) \in Slots
<1>1. ASSUME NEW s \in AllShapes PROVE LiveSlot(s) \in Slots
  BY ConstantsAssumption DEF LiveSlot, Slots
<1>2. ASSUME NEW r \in MemoryRecords PROVE RetiredSlot(r) \in Slots
  <2>1. r.slot \in Slots /\ r.id \in Ids
    BY RecordFields
  <2>2. QED
    BY <2>1 DEF RetiredSlot, Slots
<1>3. QED
  BY <1>1, <1>2

\* The candidate of a call that is in its transaction has a row.
LEMMA CandidateIsThere ==
  ASSUME TypeOK, NEW x \in Calls, CallPart(x), pc[x] \in InTransaction
  PROVE  /\ CandidateOf[x] \in Candidates
         /\ shape[CandidateOf[x]] \in Shapes
         /\ shape[CandidateOf[x]] \in AllShapes
         /\ decisions[CandidateOf[x]] \in Decisions
  BY ConstantsAssumption
  DEF TypeOK, CallPart, CandidateIsHeld, AllShapes

\* What a call waits for are rows.
LEMMA WantsRows ==
  ASSUME TypeOK, NEW x \in Calls, CallPart(x)
  PROVE  Wants(x) \subseteq Rows
<1>1. CandidateOf[x] \in Candidates
  BY ConstantsAssumption
<1>2. CASE pc[x] = "idle"
  BY <1>1, <1>2 DEF Wants, CandidateRow, Rows
<1>3. CASE pc[x] \in {"duplicates", "conflicts"}
  <2>1. named[x] # <<>> => Head(named[x]) \in Ids
    BY DEF TypeOK
  <2>2. QED
    BY <1>3, <2>1 DEF Wants, Rows
<1>4. CASE pc[x] \in {"staling", "updating"}
  <2>1. target[x] \in MemoryRecords
    BY <1>4 DEF CallPart, PlanFollowsPhase, PlansAt, TypeOK
  <2>2. target[x].id \in Ids
    BY <2>1, RecordFields
  <2>3. QED
    BY <1>4, <2>2 DEF Wants, Rows
<1>5. CASE pc[x] = "retiring"
  <2>1. target[x] \in MemoryRecords
    BY <1>5 DEF CallPart, PlanFollowsPhase, PlansAt, TypeOK, Changes
  <2>2. NewSlot(x) \in Slots
    BY <1>5, <2>1, KeysAreSlots DEF NewSlot
  <2>3. QED
    BY <1>5, <2>2 DEF Wants, Rows
<1>6. CASE pc[x] = "inserting"
  <2>1. shape[CandidateOf[x]] \in AllShapes
    BY <1>6, CandidateIsThere DEF InTransaction, Phases
  <2>2. NewSlot(x) \in Slots
    BY <1>6, <2>1, KeysAreSlots DEF NewSlot
  <2>3. QED
    BY <1>6, <2>2 DEF Wants, Rows
<1>7. CASE pc[x] \notin {"idle", "duplicates", "conflicts", "staling",
                         "updating", "retiring", "inserting"}
  BY <1>7 DEF Wants
<1>8. QED
  BY <1>2, <1>3, <1>4, <1>5, <1>6, <1>7

(***************************************************************************)
(* What a step of one call leaves alone.                                   *)
(***************************************************************************)

\* What is known of a call is the call's own.
LEMMA CallFrame ==
  ASSUME TypeOK, NEW x \in Calls, Proceed(x) \/ Raise(x)
  PROVE  /\ shape' = shape
         /\ \A y \in Calls \ {x} :
               /\ pc'[y] = pc[y] /\ holds'[y] = holds[y]
               /\ found'[y] = found[y] /\ named'[y] = named[y]
               /\ plan'[y] = plan[y] /\ target'[y] = target[y]
<1> USE DEF TypeOK, Goto, Hold, Finish, locals
<1>1. CASE GetCandidateForUpdate(x) \/ CandidateIsMissing(x)
  BY <1>1 DEF GetCandidateForUpdate, CandidateIsMissing
<1>2. CASE FindExactActive(x) \/ FindSemanticActive(x)
  BY <1>2 DEF FindExactActive, FindSemanticActive
<1>3. CASE AlreadyDecided(x) \/ FailsGate(x) \/ PassesGate(x)
  BY <1>3 DEF AlreadyDecided, FailsGate, PassesGate
<1>4. CASE LockTarget(x) \/ RejectTarget(x) \/ TargetsAreLocked(x)
  BY <1>4 DEF LockTarget, RejectTarget, TargetsAreLocked
<1>5. CASE TurnAway(x) \/ ChooseCreate(x) \/ ChooseTarget(x)
  BY <1>5 DEF TurnAway, ChooseCreate, ChooseTarget
<1>6. CASE StaleOldProjections(x) \/ UpdateMemory(x) \/ UpdateConflicts(x)
  BY <1>6 DEF StaleOldProjections, UpdateMemory, UpdateConflicts
<1>7. CASE WriteKey(x) \/ KeyCollides(x)
  BY <1>7 DEF WriteKey, KeyCollides
<1>8. CASE Commit(x) \/ Raise(x)
  BY <1>8 DEF Commit, Raise
<1>9. QED
  BY <1>1, <1>2, <1>3, <1>4, <1>5, <1>6, <1>7, <1>8 DEF Proceed

\* Only a commit changes a table, but for the audit row of a rejection.
LEMMA OnlyCommitWrites ==
  ASSUME NEW x \in Calls, Proceed(x) \/ Raise(x), ~Commit(x)
  PROVE  /\ UNCHANGED <<memories, versions, projections, jobs, decisions>>
         /\ \/ audit' = audit
            \/ \E r \in {"duplicate", "conflict"} :
                  audit' = audit \cup {<<CandidateOf[x], "reject", r>>}
<1> USE DEF tables
<1>1. CASE RejectTarget(x)
  BY <1>1 DEF RejectTarget, RelationAt
<1>2. CASE Raise(x)
  BY <1>2 DEF Raise
<1>3. CASE Proceed(x) /\ ~RejectTarget(x)
  BY <1>3
  DEF Proceed, GetCandidateForUpdate, CandidateIsMissing, FindExactActive,
      FindSemanticActive, AlreadyDecided, FailsGate, PassesGate, LockTarget,
      TargetsAreLocked, TurnAway, ChooseCreate, ChooseTarget,
      StaleOldProjections, UpdateMemory, UpdateConflicts, WriteKey,
      KeyCollides
<1>4. QED
  BY <1>1, <1>2, <1>3

\* A call that is over knows nothing and holds nothing.
LEMMA FinishClears ==
  ASSUME CallsOK, NEW x \in Calls, NEW result \in Outcomes, Finish(x, result)
  PROVE  /\ CallsOK' /\ shape' = shape
         /\ pc'[x] = "done" /\ holds'[x] = {} /\ plan'[x] = "none"
         /\ target'[x] = None /\ found'[x] = [r \in Relations |-> {}]
<1>1. /\ pc' \in [Calls -> Phases] /\ plan' \in [Calls -> Actions \cup {"none"}]
      /\ outcome' \in [Calls -> Outcomes] /\ holds' \in [Calls -> SUBSET Rows]
      /\ target' \in [Calls -> MemoryRecords \cup {None}]
  BY DEF CallsOK, Finish, Phases
<1>2. named' \in [Calls -> Seq(Ids)]
  BY DEF CallsOK, Finish
<1>3. found' \in [Calls -> [Relations -> SUBSET MemoryRecords]]
  <2>1. [r \in Relations |-> {}] \in [Relations -> SUBSET MemoryRecords]
    OBVIOUS
  <2>2. QED
    BY <2>1 DEF CallsOK, Finish
<1>4. QED
  BY <1>1, <1>2, <1>3 DEF CallsOK, Finish

(***************************************************************************)
(* What a step of a call does to what is known of that call.               *)
(***************************************************************************)

\* Nothing is claimed of a call that is over.
LEMMA EndsKeepPart ==
  ASSUME CallsOK, NEW x \in Calls, NEW result \in Outcomes, Finish(x, result)
  PROVE  CallPart(x)'
<1>1. /\ pc'[x] = "done" /\ plan'[x] = "none" /\ target'[x] = None
      /\ found'[x] = [r \in Relations |-> {}]
  BY FinishClears
<1>2. Snapshots(x)' = {}
  BY <1>1 DEF Snapshots
<1>3. QED
  BY <1>1, <1>2
  DEF CallPart, CandidateIsHeld, PlanFollowsPhase, SnapshotsAreOld,
      TargetIsHeld, KeyIsHeld, Inserted, PlansAt, Changes, InTransaction,
      Undecided

\* An active memory, as a call finds it.
LEMMA ReadIsSnapshot ==
  ASSUME TablesOK, NEW m \in Ids, memories[m] # None,
         memories[m].status = "active"
  PROVE  /\ memories[m] \in MemoryRecords /\ memories[m].id = m
         /\ IsSnapshot(memories[m], memories[m].slot[1])
<1>1. memories[m] \in MemoryRecords /\ memories[m].id = m
  BY DEF TablesOK, Present
<1>2. memories[m].version \in Nat
  BY <1>1, RecordFields
<1>3. QED
  BY <1>1, <1>2 DEF IsSnapshot

\* Active memories of a scope are snapshots of it.
LEMMA ActiveAreSnapshots ==
  ASSUME TablesOK, NEW group
  PROVE  \A r \in Active(group) : r \in MemoryRecords /\ IsSnapshot(r, group)
  BY ReadIsSnapshot DEF Active, Stored, Present

\* A snapshot was found, or is the target.
LEMMA SnapshotSources ==
  ASSUME NEW x \in Calls
  PROVE  \A r : r \in Snapshots(x) <=>
                   \/ \E rel \in Relations : r \in found[x][rel]
                   \/ target[x] # None /\ r = target[x]
  BY DEF Snapshots

\* What a call has read stays a snapshot while the tables do not change.
LEMMA SnapshotsStay ==
  ASSUME NEW x \in Calls, SnapshotsAreOld(x), memories' = memories,
         shape' = shape,
         \A r \in Snapshots(x)' :
            r \in Snapshots(x) \/ IsSnapshot(r, shape[CandidateOf[x]].group)
  PROVE  SnapshotsAreOld(x)'
  BY DEF SnapshotsAreOld, IsSnapshot

\* The statements that do not end a transaction.
GoesOn(x) ==
    \/ GetCandidateForUpdate(x) \/ FindExactActive(x) \/ FindSemanticActive(x)
    \/ FailsGate(x) \/ PassesGate(x) \/ LockTarget(x) \/ TargetsAreLocked(x)
    \/ TurnAway(x) \/ ChooseCreate(x) \/ ChooseTarget(x)
    \/ StaleOldProjections(x) \/ UpdateMemory(x) \/ WriteKey(x)

\* They leave the tables alone.
LEMMA GoesOnReads ==
  ASSUME NEW x \in Calls, GoesOn(x)
  PROVE  UNCHANGED <<shape, tables>>
  BY DEF GoesOn, GetCandidateForUpdate, FindExactActive, FindSemanticActive,
         FailsGate, PassesGate, LockTarget, TargetsAreLocked, TurnAway,
         ChooseCreate, ChooseTarget, StaleOldProjections, UpdateMemory,
         WriteKey, tables

\* What a call holds grows by rows nobody else holds, and by the key the row
\* it retires had.
LEMMA LocksAreFree ==
  ASSUME TypeOK, NEW x \in Calls, CallPart(x), GoesOn(x)
  PROVE  /\ holds' \in [Calls -> SUBSET Rows]
         /\ holds[x] \subseteq holds'[x]
         /\ \A row \in holds'[x] \ holds[x] : row[1] # "key" => Free(x, row)
<1>1. ASSUME NEW rows \in SUBSET Rows, Hold(x, rows),
             \A row \in rows : row[1] # "key" => Free(x, row)
      PROVE  /\ holds' \in [Calls -> SUBSET Rows]
             /\ holds[x] \subseteq holds'[x]
             /\ \A row \in holds'[x] \ holds[x] : row[1] # "key" => Free(x, row)
  <2>1. holds \in [Calls -> SUBSET Rows]
    BY DEF TypeOK
  <2>2. holds'[x] = holds[x] \cup rows
    BY <1>1, <2>1 DEF Hold
  <2>3. QED
    BY <1>1, <2>1, <2>2 DEF Hold
<1>2. CASE WriteKey(x)
  <2>1. \/ pc[x] = "retiring" /\ target[x] \in MemoryRecords
        \/ pc[x] = "inserting"
    BY <1>2 DEF WriteKey, Goto, CallPart, PlanFollowsPhase, PlansAt, Changes,
                TypeOK
  <2>2. pc[x] = "retiring" => <<"key", target[x].slot>> \in Rows
    BY <2>1, RecordFields DEF Rows
  <2>3. PICK rows \in SUBSET Rows :
           /\ Hold(x, rows)
           /\ \A row \in rows : row[1] # "key" => row \in Wants(x)
    <3> DEFINE old == IF pc[x] = "retiring" THEN {<<"key", target[x].slot>>}
                      ELSE {}
    <3>1. Wants(x) \cup old \in SUBSET Rows
      BY <2>2, WantsRows
    <3>2. Hold(x, Wants(x) \cup old)
      BY <1>2 DEF WriteKey
    <3>3. \A row \in Wants(x) \cup old : row[1] # "key" => row \in Wants(x)
      OBVIOUS
    <3>4. QED
      BY <3>1, <3>2, <3>3
  <2>4. MayGoOn(x)
    BY <1>2 DEF WriteKey
  <2>5. QED
    BY <1>1, <2>3, <2>4 DEF MayGoOn
<1>3. CASE GetCandidateForUpdate(x)
  <2>1. Wants(x) = {CandidateRow(x)} /\ MayGoOn(x) /\ Hold(x, Wants(x))
    BY <1>3 DEF GetCandidateForUpdate, Goto, Wants
  <2>2. QED
    BY <1>1, <2>1, WantsRows DEF MayGoOn
<1>4. CASE LockTarget(x) \/ StaleOldProjections(x) \/ UpdateMemory(x)
  <2>1. MayGoOn(x) /\ Hold(x, Wants(x))
    BY <1>4 DEF LockTarget, StaleOldProjections, UpdateMemory
  <2>2. QED
    BY <1>1, <2>1, WantsRows DEF MayGoOn
<1>5. CASE \/ FindExactActive(x)
           \/ FindSemanticActive(x)
           \/ FailsGate(x)
           \/ PassesGate(x)
           \/ TargetsAreLocked(x)
           \/ TurnAway(x)
           \/ ChooseCreate(x)
           \/ ChooseTarget(x)
  BY <1>5 DEF FindExactActive, FindSemanticActive, FailsGate, PassesGate,
              TargetsAreLocked, TurnAway, ChooseCreate, ChooseTarget, TypeOK
<1>6. QED
  BY <1>2, <1>3, <1>4, <1>5 DEF GoesOn

\* A target is selected among what was found.
LEMMA SelectableIsFound ==
  ASSUME TypeOK, NEW x \in Calls, NEW r \in Selectable(x)
  PROVE  r \in MemoryRecords /\ r \in Snapshots(x)
<1> DEFINE action == shape[CandidateOf[x]].action
           order == Preference(action)
<1>1. \A i \in DOMAIN order : order[i] \in Relations
  <2>1. CASE action = "merge"
    BY <2>1 DEF Preference, Relations
  <2>2. CASE action = "supersede"
    BY <2>2 DEF Preference, Relations
  <2>3. CASE action \notin {"merge", "supersede"}
    BY <2>3 DEF Preference, Relations
  <2>4. QED
    BY <2>1, <2>2, <2>3
<1>2. PICK i \in DOMAIN order : r \in found[x][order[i]]
  BY DEF Selectable
<1>3. found[x] \in [Relations -> SUBSET MemoryRecords]
  BY DEF TypeOK
<1>4. QED
  BY <1>1, <1>2, <1>3 DEF Snapshots

\* What decisions taken without a memory can be.
LEMMA VerdictsAndGates ==
  /\ \A flaws \in SUBSET Flaws : /\ Gate(flaws) \in {"pass", "defer", "ignore"}
                                 /\ Gate(flaws) = "pass" => flaws = {}
  /\ \A x \in Calls : Verdict(x) \in {"none", "defer", "ignore"}
<1>1. \A flaws \in SUBSET Flaws :
         /\ Gate(flaws) \in {"pass", "defer", "ignore"}
         /\ Gate(flaws) = "pass" => flaws = {}
  BY DEF Gate
<1>2. \A x \in Calls : Verdict(x) \in {"none", "defer", "ignore"}
  BY DEF Verdict
<1>3. QED
  BY <1>1, <1>2

\* The statements that only read keep the types of what calls know.
LEMMA GoesOnTypes ==
  ASSUME TypeOK, NEW x \in Calls, CallPart(x), GoesOn(x)
  PROVE  CallsOK'
<1> DEFINE s == shape[CandidateOf[x]]
           \* Everything but what is locked.
           Rest == /\ pc' \in [Calls -> Phases]
                   /\ found' \in [Calls -> [Relations -> SUBSET MemoryRecords]]
                   /\ named' \in [Calls -> Seq(Ids)]
                   /\ plan' \in [Calls -> Actions \cup {"none"}]
                   /\ target' \in [Calls -> MemoryRecords \cup {None}]
                   /\ outcome' \in [Calls -> Outcomes]
<1>1. holds' \in [Calls -> SUBSET Rows]
  BY LocksAreFree
<1>2. CallsOK /\ TablesOK
  BY TypeHalves
<1> SUFFICES Rest
  BY <1>1 DEF CallsOK
<1>3. pc[x] \in InTransaction =>
         /\ s \in Shapes /\ s \in AllShapes
         /\ s.action \in Actions /\ s.flaws \in SUBSET Flaws
         /\ s.duplicates \in Seq(Ids) /\ s.conflicts \in Seq(Ids)
  BY CandidateIsThere, ConstantsAssumption
<1> USE <1>2 DEF CallsOK, Goto, locals, Phases, InTransaction
<1>4. CASE GetCandidateForUpdate(x) \/ StaleOldProjections(x) \/ WriteKey(x)
  BY <1>4 DEF GetCandidateForUpdate, StaleOldProjections, WriteKey
<1>5. CASE UpdateMemory(x)
  BY <1>5 DEF UpdateMemory
<1>6. CASE FindExactActive(x) \/ FindSemanticActive(x)
  <2>1. \A group : Active(group) \subseteq MemoryRecords
    BY ActiveAreSnapshots
  <2>2. found' \in [Calls -> [Relations -> SUBSET MemoryRecords]]
    <3>1. CASE FindExactActive(x)
      BY <3>1, <2>1 DEF FindExactActive
    <3>2. CASE FindSemanticActive(x)
      BY <3>2, <2>1 DEF FindSemanticActive
    <3>3. QED
      BY <1>6, <3>1, <3>2
  <2>3. QED
    BY <1>6, <2>2 DEF FindExactActive, FindSemanticActive
<1>7. CASE FailsGate(x)
  BY <1>7, <1>3, VerdictsAndGates DEF FailsGate, Actions
<1>8. CASE PassesGate(x)
  BY <1>8, <1>3 DEF PassesGate
<1>9. CASE LockTarget(x)
  <2>1. Head(named[x]) \in Ids /\ Tail(named[x]) \in Seq(Ids)
    BY <1>9 DEF LockTarget
  <2>2. memories[Head(named[x])] \in MemoryRecords
    BY <1>9, <2>1 DEF LockTarget, TablesOK
  <2>3. named' \in [Calls -> Seq(Ids)]
    BY <1>9, <2>1 DEF LockTarget
  <2>4. RelationAt(x) \in Relations
    BY DEF RelationAt, Relations
  <2>5. found' \in [Calls -> [Relations -> SUBSET MemoryRecords]]
    BY <1>9, <2>2, <2>4 DEF LockTarget
  <2>6. QED
    BY <1>9, <2>3, <2>5 DEF LockTarget
<1>10. CASE TargetsAreLocked(x)
  BY <1>10, <1>3 DEF TargetsAreLocked
<1>11. CASE TurnAway(x)
  <2>1. Verdict(x) \in Actions
    BY <1>11, VerdictsAndGates DEF TurnAway, Actions
  <2>2. QED
    BY <1>11, <2>1 DEF TurnAway
<1>12. CASE ChooseCreate(x)
  BY <1>12 DEF ChooseCreate, Actions
<1>13. CASE ChooseTarget(x)
  <2>1. PICK r \in Selectable(x) : target' = [target EXCEPT ![x] = r]
    BY <1>13 DEF ChooseTarget
  <2>2. r \in MemoryRecords
    BY <2>1, SelectableIsFound
  <2>3. QED
    BY <1>13, <1>3, <2>1, <2>2 DEF ChooseTarget
<1>14. QED
  BY <1>4, <1>5, <1>6, <1>7, <1>8, <1>9, <1>10, <1>11, <1>12, <1>13
  DEF GoesOn

\* A call keeps its candidate locked, and works on it while it is undecided.
LEMMA GoesOnHoldsCandidate ==
  ASSUME TypeOK, NEW x \in Calls, CallPart(x), GoesOn(x)
  PROVE  CandidateIsHeld(x)'
<1> DEFINE c == CandidateOf[x]
<1>1. decisions' = decisions /\ holds[x] \subseteq holds'[x]
  BY GoesOnReads, LocksAreFree DEF tables
<1> USE <1>1 DEF Goto, CandidateRow, InTransaction, Undecided, Phases
<1>2. CASE GetCandidateForUpdate(x)
  BY <1>2 DEF GetCandidateForUpdate, CandidateIsHeld, Hold, TypeOK
<1>3. CASE FailsGate(x) \/ PassesGate(x)
  <2>1. pc[x] = "deciding" /\ ~IsDecided(c)
    BY <1>3 DEF FailsGate, PassesGate
  <2>2. decisions[c] \in Decisions
    BY <2>1, CandidateIsThere
  <2>3. decisions[c].status = "pending"
    BY <2>1, <2>2 DEF IsDecided, Terminal, Decisions, Statuses
  <2>4. QED
    BY <2>1, <2>3 DEF CallPart, CandidateIsHeld
<1>4. ASSUME pc[x] \in InTransaction, pc'[x] \in Undecided => pc[x] \in Undecided
      PROVE  CandidateIsHeld(x)'
  BY <1>4 DEF CallPart, CandidateIsHeld
<1>5. CASE FindExactActive(x) \/ FindSemanticActive(x) \/ LockTarget(x)
  BY <1>4, <1>5 DEF FindExactActive, FindSemanticActive, LockTarget, TypeOK
<1>6. CASE \/ TargetsAreLocked(x)
           \/ TurnAway(x)
           \/ ChooseCreate(x)
           \/ ChooseTarget(x)
  BY <1>4, <1>6 DEF TargetsAreLocked, TurnAway, ChooseCreate, ChooseTarget,
                    TypeOK
<1>7. CASE StaleOldProjections(x) \/ UpdateMemory(x) \/ WriteKey(x)
  BY <1>4, <1>7 DEF StaleOldProjections, UpdateMemory, WriteKey, TypeOK
<1>8. QED
  BY <1>2, <1>3, <1>5, <1>6, <1>7 DEF GoesOn

\* The plan a call has fits what it does, and one with a target changes it.
LEMMA GoesOnFollowsPlan ==
  ASSUME TypeOK, NEW x \in Calls, CallPart(x), GoesOn(x)
  PROVE  PlanFollowsPhase(x)'
<1> DEFINE s == shape[CandidateOf[x]]
<1>1. shape' = shape
  BY GoesOnReads
<1>2. CallsOK /\ TablesOK /\ PlanFollowsPhase(x)
  BY TypeHalves DEF CallPart
<1>3. pc[x] \in InTransaction =>
         s.action \in Actions /\ s.flaws \in SUBSET Flaws
  BY CandidateIsThere, ConstantsAssumption
<1> USE <1>1, <1>2 DEF Goto, PlanFollowsPhase, PlansAt, Undecided, Changes,
                       CallsOK, locals
<1>4. CASE GetCandidateForUpdate(x)
  BY <1>4 DEF GetCandidateForUpdate
<1>5. CASE FindExactActive(x) \/ FindSemanticActive(x) \/ LockTarget(x)
  BY <1>5 DEF FindExactActive, FindSemanticActive, LockTarget
<1>6. CASE FailsGate(x)
  BY <1>3, <1>6, VerdictsAndGates
  DEF FailsGate, Actions, InTransaction, Phases
<1>7. CASE PassesGate(x)
  BY <1>3, <1>7, VerdictsAndGates DEF PassesGate, InTransaction, Phases
<1>8. CASE TargetsAreLocked(x)
  BY <1>8 DEF TargetsAreLocked
<1>9. CASE TurnAway(x)
  BY <1>9, VerdictsAndGates DEF TurnAway, Actions
<1>10. CASE ChooseCreate(x)
  BY <1>10 DEF ChooseCreate
<1>11. CASE ChooseTarget(x)
  <2>1. PICK r \in Selectable(x) : target' = [target EXCEPT ![x] = r]
    BY <1>11 DEF ChooseTarget
  <2>2. target'[x] # None
    BY <2>1, SelectableIsFound, RecordFields
  <2>3. s.action \in Changes
    BY <1>3, <1>11
    DEF ChooseTarget, Verdict, Actions, InTransaction, Phases
  <2>4. QED
    BY <1>11, <2>2, <2>3 DEF ChooseTarget
<1>12. CASE StaleOldProjections(x)
  BY <1>12 DEF StaleOldProjections
<1>13. CASE UpdateMemory(x)
  BY <1>13 DEF UpdateMemory, Actions
<1>14. CASE WriteKey(x)
  BY <1>14 DEF WriteKey, Actions
<1>15. QED
  BY <1>4, <1>5, <1>6, <1>7, <1>8, <1>9, <1>10, <1>11, <1>12, <1>13, <1>14
  DEF GoesOn

\* What a call knows of memories is true when it is read.
LEMMA GoesOnReadsSnapshots ==
  ASSUME TypeOK, NEW x \in Calls, CallPart(x), GoesOn(x)
  PROVE  SnapshotsAreOld(x)'
<1> DEFINE s == shape[CandidateOf[x]]
<1>1. shape' = shape /\ memories' = memories /\ SnapshotsAreOld(x)
  BY GoesOnReads DEF tables, CallPart
<1>2. CallsOK /\ TablesOK
  BY TypeHalves
<1>3. ASSUME \A rel \in Relations : \A r \in found'[x][rel] :
                r \in Snapshots(x) \/ IsSnapshot(r, s.group),
             target'[x] = target[x] \/ target'[x] \in Snapshots(x)
      PROVE  SnapshotsAreOld(x)'
  <2>1. \A r : r \in Snapshots(x)' <=>
                 \/ \E rel \in Relations : r \in found'[x][rel]
                 \/ target'[x] # None /\ r = target'[x]
    BY DEF Snapshots
  <2>2. \A r \in Snapshots(x)' : r \in Snapshots(x) \/ IsSnapshot(r, s.group)
    BY <1>3, <2>1, SnapshotSources
  <2>3. QED
    BY <1>1, <2>2, SnapshotsStay
<1>4. found' = found => \A rel \in Relations : \A r \in found'[x][rel] :
                            r \in Snapshots(x)
  BY DEF Snapshots
<1>5. CASE \/ GetCandidateForUpdate(x)
           \/ FailsGate(x)
           \/ PassesGate(x)
           \/ TargetsAreLocked(x)
           \/ TurnAway(x)
           \/ ChooseCreate(x)
  BY <1>3, <1>4, <1>5
  DEF GetCandidateForUpdate, FailsGate, PassesGate, TargetsAreLocked,
      TurnAway, ChooseCreate, locals
<1>6. CASE StaleOldProjections(x) \/ UpdateMemory(x) \/ WriteKey(x)
  BY <1>3, <1>4, <1>6 DEF StaleOldProjections, UpdateMemory, WriteKey, locals
<1>7. CASE ChooseTarget(x)
  <2>1. PICK r \in Selectable(x) : target' = [target EXCEPT ![x] = r]
    BY <1>7 DEF ChooseTarget
  <2>2. target'[x] \in Snapshots(x)
    BY <1>2, <2>1, SelectableIsFound DEF CallsOK
  <2>3. found' = found
    BY <1>7 DEF ChooseTarget
  <2>4. QED
    BY <1>3, <1>4, <2>2, <2>3
<1>8. ASSUME NEW rel \in Relations, NEW records \in SUBSET MemoryRecords,
             found' = [found EXCEPT ![x][rel] = records],
             \A r \in records : r \in Snapshots(x) \/ IsSnapshot(r, s.group),
             target' = target
      PROVE  SnapshotsAreOld(x)'
  <2>1. \A o \in Relations : found'[x][o] = IF o = rel THEN records
                                            ELSE found[x][o]
    BY <1>2, <1>8 DEF CallsOK
  <2>2. \A o \in Relations : \A r \in found'[x][o] :
           r \in Snapshots(x) \/ IsSnapshot(r, s.group)
    BY <1>8, <2>1 DEF Snapshots
  <2>3. QED
    BY <1>3, <1>8, <2>2
<1>9. \A r \in Active(s.group) : r \in MemoryRecords /\ IsSnapshot(r, s.group)
  BY <1>2, ActiveAreSnapshots
<1>10. CASE FindExactActive(x)
  <2> DEFINE records == {r \in Active(s.group) : r.slot = LiveSlot(s)}
  <2>1. /\ found' = [found EXCEPT ![x]["exact"] = records]
        /\ target' = target
    BY <1>10 DEF FindExactActive
  <2>2. records \in SUBSET MemoryRecords
    BY <1>9
  <2>3. \A r \in records : IsSnapshot(r, s.group)
    BY <1>9
  <2>4. "exact" \in Relations
    BY DEF Relations
  <2>5. QED
    BY <1>8, <2>1, <2>2, <2>3, <2>4
<1>11. CASE FindSemanticActive(x)
  <2> DEFINE records == {r \in Active(s.group) : /\ s.print # None
                                                 /\ r.print = s.print}
  <2>1. /\ found' = [found EXCEPT ![x]["semantic"] = records]
        /\ target' = target
    BY <1>11 DEF FindSemanticActive
  <2>2. records \in SUBSET MemoryRecords
    BY <1>9
  <2>3. \A r \in records : IsSnapshot(r, s.group)
    BY <1>9
  <2>4. "semantic" \in Relations
    BY DEF Relations
  <2>5. QED
    BY <1>8, <2>1, <2>2, <2>3, <2>4
<1>12. CASE LockTarget(x)
  <2> DEFINE m == Head(named[x])
             unrelated == pc[x] = "duplicates" /\ ~IsDuplicate(memories[m], s)
             records == IF unrelated THEN {}
                        ELSE IF found[x][RelationAt(x)] = {} THEN {memories[m]}
                             ELSE found[x][RelationAt(x)]
  <2>1. /\ found' = [found EXCEPT ![x][RelationAt(x)] = records]
        /\ target' = target
    BY <1>2, <1>12 DEF LockTarget, CallsOK
  <2>2. /\ m \in Ids /\ memories[m] # None
        /\ memories[m].status = "active" /\ memories[m].slot[1] = s.group
    BY <1>2, <1>12 DEF LockTarget, IsLegalTarget, CallsOK
  <2>3. memories[m] \in MemoryRecords /\ IsSnapshot(memories[m], s.group)
    BY <1>2, <2>2, ReadIsSnapshot
  <2>4. RelationAt(x) \in Relations
    BY DEF RelationAt, Relations
  <2>5. found[x][RelationAt(x)] \in SUBSET MemoryRecords
    BY <1>2, <2>4 DEF CallsOK
  <2>6. records \in SUBSET MemoryRecords
    BY <2>3, <2>5
  <2>7. \A r \in records : r \in Snapshots(x) \/ IsSnapshot(r, s.group)
    BY <2>3, <2>4 DEF Snapshots
  <2>8. QED
    BY <1>8, <2>1, <2>4, <2>6, <2>7
<1>13. QED
  BY <1>5, <1>6, <1>7, <1>10, <1>11, <1>12 DEF GoesOn

\* From the version check on, the target is locked and as it was read.
LEMMA GoesOnHoldsTarget ==
  ASSUME TypeOK, NEW x \in Calls, CallPart(x), GoesOn(x)
  PROVE  TargetIsHeld(x)'
<1>1. memories' = memories /\ holds[x] \subseteq holds'[x]
  BY GoesOnReads, LocksAreFree DEF tables
<1>2. CallsOK /\ TablesOK /\ PlanFollowsPhase(x)
  BY TypeHalves DEF CallPart
<1> USE <1>1, <1>2 DEF Goto, TargetIsHeld, CallsOK, locals
<1>3. CASE UpdateMemory(x)
  <2>1. target[x] \in MemoryRecords
    BY <1>3 DEF UpdateMemory, PlanFollowsPhase, PlansAt
  <2>2. IsSnapshot(target[x], shape[CandidateOf[x]].group)
    BY <2>1, RecordFields, SnapshotSources DEF CallPart, SnapshotsAreOld
  <2>3. memories[target[x].id] = target[x]
    BY <1>3, <2>2 DEF UpdateMemory, IsCurrent, IsSnapshot
  <2>4. <<"memory", target[x].id>> \in holds'[x]
    BY <1>3 DEF UpdateMemory, Hold, Wants
  <2>5. QED
    BY <1>3, <2>3, <2>4 DEF UpdateMemory
<1>4. CASE WriteKey(x)
  <2>1. pc[x] \in {"retiring", "inserting"} /\ target' = target
    BY <1>4 DEF WriteKey
  <2>2. QED
    BY <2>1 DEF CallPart
<1>5. CASE FailsGate(x) \/ TurnAway(x) \/ ChooseCreate(x)
  BY <1>5
  DEF FailsGate, TurnAway, ChooseCreate, PlanFollowsPhase, PlansAt, Changes
<1>6. CASE \/ GetCandidateForUpdate(x)
           \/ FindExactActive(x)
           \/ FindSemanticActive(x)
           \/ PassesGate(x)
           \/ LockTarget(x)
  BY <1>6 DEF GetCandidateForUpdate, FindExactActive, FindSemanticActive,
              PassesGate, LockTarget
<1>7. CASE TargetsAreLocked(x) \/ ChooseTarget(x) \/ StaleOldProjections(x)
  BY <1>7 DEF TargetsAreLocked, ChooseTarget, StaleOldProjections
<1>8. QED
  BY <1>3, <1>4, <1>5, <1>6, <1>7 DEF GoesOn

\* Only an INSERT that goes through makes a call one that has inserted.
LEMMA OnlyInsertInserts ==
  ASSUME TypeOK, NEW x \in Calls, CallPart(x), GoesOn(x),
         ~(WriteKey(x) /\ pc[x] = "inserting")
  PROVE  ~Inserted(x)'
<1> CallsOK /\ TablesOK /\ PlanFollowsPhase(x)
  BY TypeHalves DEF CallPart
<1> USE DEF Goto, CallsOK, locals
<1>1. CASE WriteKey(x) \/ UpdateMemory(x)
  BY <1>1 DEF WriteKey, UpdateMemory, Inserted, PlanFollowsPhase,
              PlansAt, Changes
<1>2. CASE FailsGate(x) \/ TurnAway(x)
  <2>1. pc[x] \in InTransaction
    BY <1>2 DEF FailsGate, TurnAway, InTransaction, Phases
  <2>2. shape[CandidateOf[x]].flaws \in SUBSET Flaws
    BY <2>1, CandidateIsThere, ConstantsAssumption
  <2>3. QED
    BY <1>2, <2>2, VerdictsAndGates DEF FailsGate, TurnAway, Inserted
<1>3. CASE \/ GetCandidateForUpdate(x)
           \/ FindExactActive(x)
           \/ FindSemanticActive(x)
           \/ PassesGate(x)
           \/ LockTarget(x)
  BY <1>3 DEF GetCandidateForUpdate, FindExactActive, FindSemanticActive,
              PassesGate, LockTarget, Inserted
<1>4. CASE \/ TargetsAreLocked(x)
           \/ ChooseCreate(x)
           \/ ChooseTarget(x)
           \/ StaleOldProjections(x)
  BY <1>4 DEF TargetsAreLocked, ChooseCreate, ChooseTarget,
              StaleOldProjections, Inserted
<1>5. QED
  BY <1>1, <1>2, <1>3, <1>4 DEF GoesOn

\* An INSERT that goes through writes a key no other row has.
LEMMA GoesOnHoldsKey ==
  ASSUME TypeOK, NEW x \in Calls, CallPart(x), GoesOn(x)
  PROVE  KeyIsHeld(x)'
<1>1. /\ memories' = memories /\ shape' = shape
      /\ holds[x] \subseteq holds'[x]
  BY GoesOnReads, LocksAreFree DEF tables
<1>2. CallsOK /\ TablesOK /\ PlanFollowsPhase(x)
  BY TypeHalves DEF CallPart
<1> USE <1>1, <1>2 DEF Goto, CallsOK, locals
<1>3. CASE WriteKey(x) /\ pc[x] = "inserting"
  <2>1. Wants(x) = {<<"key", KeyOf(x)>>} /\ NewSlot(x) = KeyOf(x)
    BY <1>3 DEF Wants, NewSlot, KeyOf
  <2>2. <<"key", KeyOf(x)>> \in holds'[x]
    BY <1>3, <2>1 DEF WriteKey, Hold
  <2>3. target' = target
    BY <1>3 DEF WriteKey
  <2>4. \A m \in Present : memories[m].slot = KeyOf(x) =>
           target[x] # None /\ m = target[x].id
    <3>1. ~KeyIsTaken(x)
      BY <1>3 DEF WriteKey
    <3>2. \A r \in Stored : r.slot = KeyOf(x) =>
             target[x] # None /\ r.id = target[x].id
      BY <2>1, <3>1 DEF KeyIsTaken
    <3>3. \A m \in Present : memories[m] \in Stored /\ memories[m].id = m
      BY DEF Stored, TablesOK
    <3>4. QED
      BY <3>2, <3>3
  <2>5. QED
    BY <2>2, <2>3, <2>4 DEF KeyIsHeld, KeyOf, Present
<1>4. ~(WriteKey(x) /\ pc[x] = "inserting") => ~Inserted(x)'
  BY OnlyInsertInserts
<1>5. QED
  BY <1>3, <1>4 DEF KeyIsHeld

\* A statement that does not end the transaction keeps all of it.
LEMMA GoesOnKeepsPart ==
  ASSUME TypeOK, NEW x \in Calls, CallPart(x), GoesOn(x)
  PROVE  TypeOK' /\ CallPart(x)'
<1>1. TablesOK'
  BY GoesOnReads, TypeHalves DEF TablesOK, Present, tables
<1>2. TypeOK'
  BY <1>1, GoesOnTypes DEF TypeOK, TablesOK, CallsOK
<1>3. CallPart(x)'
  BY GoesOnHoldsCandidate, GoesOnFollowsPlan, GoesOnReadsSnapshots,
     GoesOnHoldsTarget, GoesOnHoldsKey DEF CallPart
<1>4. QED
  BY <1>2, <1>3

\* Every other step ends the transaction.
LEMMA OtherStepsFinish ==
  ASSUME NEW x \in Calls, Proceed(x) \/ Raise(x), ~GoesOn(x)
  PROVE  \E result \in Outcomes : Finish(x, result)
<1>1. CASE CandidateIsMissing(x) \/ AlreadyDecided(x) \/ RejectTarget(x)
  BY <1>1 DEF CandidateIsMissing, AlreadyDecided, RejectTarget, Outcomes
<1>2. CASE UpdateConflicts(x) \/ KeyCollides(x)
  BY <1>2 DEF UpdateConflicts, KeyCollides, Outcomes
<1>3. CASE Commit(x) \/ Raise(x)
  BY <1>3 DEF Commit, Raise, Outcomes
<1>4. QED
  BY <1>1, <1>2, <1>3 DEF Proceed, GoesOn

(***************************************************************************)
(* Steps that leave the memories alone keep the invariant.                 *)
(***************************************************************************)

\* A call is in the same state as long as neither it nor the tables change.
LEMMA OthersStay ==
  ASSUME TypeOK, NEW x \in Calls, Proceed(x) \/ Raise(x), ~Commit(x),
         NEW y \in Calls, y # x, CallPart(y)
  PROVE  CallPart(y)'
<1>1. /\ shape' = shape /\ pc'[y] = pc[y] /\ holds'[y] = holds[y]
      /\ found'[y] = found[y] /\ plan'[y] = plan[y] /\ target'[y] = target[y]
  BY CallFrame
<1>2. memories' = memories /\ decisions' = decisions
  BY OnlyCommitWrites
<1>3. CandidateIsHeld(y)' /\ PlanFollowsPhase(y)'
  BY <1>1, <1>2 DEF CallPart, CandidateIsHeld, PlanFollowsPhase, CandidateRow
<1>4. SnapshotsAreOld(y)'
  <2>1. Snapshots(y)' = Snapshots(y)
    BY <1>1 DEF Snapshots
  <2>2. QED
    BY <1>1, <1>2, <2>1 DEF CallPart, SnapshotsAreOld, IsSnapshot
<1>5. TargetIsHeld(y)'
  BY <1>1, <1>2 DEF CallPart, TargetIsHeld
<1>6. KeyIsHeld(y)'
  BY <1>1, <1>2 DEF CallPart, KeyIsHeld, Inserted, KeyOf, Present
<1>7. QED
  BY <1>3, <1>4, <1>5, <1>6 DEF CallPart

\* Calls hold different rows after every step.
LEMMA RowsStayApart ==
  ASSUME TypeOK, RowsAreApart, NEW x \in Calls, CallPart(x),
         Proceed(x) \/ Raise(x)
  PROVE  RowsAreApart'
<1>1. \A row \in holds'[x] : row \in holds[x] \/ row[1] = "key" \/ Free(x, row)
  <2>1. CASE GoesOn(x)
    BY <2>1, LocksAreFree
  <2>2. CASE ~GoesOn(x)
    <3>1. holds'[x] = {}
      BY <2>2, OtherStepsFinish, TypeHalves, FinishClears
    <3>2. QED
      BY <3>1
  <2>3. QED
    BY <2>1, <2>2
<1>2. \A y \in Calls \ {x} : holds'[y] = holds[y]
  BY CallFrame
<1> SUFFICES ASSUME NEW y \in Calls, NEW z \in Calls, y # z,
                    NEW row \in holds'[y] \cap holds'[z]
             PROVE  row[1] = "key"
  BY DEF RowsAreApart
<1>3. CASE y = x
  BY <1>1, <1>2, <1>3 DEF RowsAreApart, Free
<1>4. CASE z = x
  BY <1>1, <1>2, <1>4 DEF RowsAreApart, Free
<1>5. CASE y # x /\ z # x
  BY <1>2, <1>5 DEF RowsAreApart
<1>6. QED
  BY <1>3, <1>4, <1>5

\* Calls that have inserted have inserted different keys.
LEMMA KeysStayApart ==
  ASSUME TypeOK, KeysAreApart, \A y \in Calls : CallPart(y),
         NEW x \in Calls, Proceed(x) \/ Raise(x)
  PROVE  KeysAreApart'
<1>1. /\ shape' = shape
      /\ \A y \in Calls \ {x} : Inserted(y)' = Inserted(y)
      /\ \A y \in Calls : KeyOf(y)' = KeyOf(y)
  BY CallFrame DEF Inserted, KeyOf
<1>2. ASSUME Inserted(x)', NEW y \in Calls \ {x}, Inserted(y)
      PROVE  KeyOf(x) # KeyOf(y)
  <2>1. GoesOn(x)
    <3>1. ~GoesOn(x) => pc'[x] = "done"
      BY OtherStepsFinish, TypeHalves, FinishClears
    <3>2. QED
      BY <1>2, <3>1 DEF Inserted
  <2>2. WriteKey(x) /\ pc[x] = "inserting"
    BY <1>2, <2>1, OnlyInsertInserts
  <2>3. Wants(x) = {<<"key", KeyOf(x)>>}
    BY <2>2 DEF Wants, NewSlot, KeyOf
  <2>4. <<"key", KeyOf(x)>> \notin holds[y]
    BY <2>2, <2>3 DEF WriteKey, MayGoOn, Free
  <2>5. <<"key", KeyOf(y)>> \in holds[y]
    BY <1>2 DEF CallPart, KeyIsHeld
  <2>6. QED
    BY <2>4, <2>5
<1>3. QED
  BY <1>1, <1>2 DEF KeysAreApart

\* A step that is no commit keeps the invariant.
LEMMA QuietStepKeepsInvariant ==
  ASSUME GovernanceInvariant, NEW x \in Calls, Proceed(x) \/ Raise(x), ~Commit(x)
  PROVE  GovernanceInvariant'
<1> USE DEF GovernanceInvariant
<1>1. TypeOK' /\ CallPart(x)'
  <2>1. CASE GoesOn(x)
    BY <2>1, GoesOnKeepsPart
  <2>2. CASE ~GoesOn(x)
    <3>1. PICK result \in Outcomes : Finish(x, result)
      BY <2>2, OtherStepsFinish
    <3>2. CallsOK' /\ shape' = shape /\ CallPart(x)'
      BY <3>1, FinishClears, EndsKeepPart, TypeHalves
    <3>3. TablesOK'
      BY <3>2, OnlyCommitWrites, TypeHalves DEF TablesOK, Present
    <3>4. QED
      BY <3>2, <3>3 DEF TypeOK, TablesOK, CallsOK
  <2>3. QED
    BY <2>1, <2>2
<1>2. \A y \in Calls : CallPart(y)'
  BY <1>1, OthersStay
<1>3. RowsAreApart' /\ KeysAreApart'
  BY RowsStayApart, KeysStayApart
<1>4. MemoriesAreDecided'
  BY OnlyCommitWrites DEF MemoriesAreDecided
<1>5. QED
  BY <1>1, <1>2, <1>3, <1>4

(***************************************************************************)
(* What a commit does to the memories.                                     *)
(***************************************************************************)

\* What a call knows when it commits.
LEMMA CommitKnows ==
  ASSUME GovernanceInvariant, NEW x \in Calls, Commit(x)
  PROVE  LET c == CandidateOf[x]  t == target[x]
         IN  /\ c \in Candidates /\ c \in Ids /\ shape[c] \in AllShapes
             /\ decisions[c] \in Decisions /\ decisions[c].status = "pending"
             /\ memories[c] = None
             /\ plan[x] \in {"create", "defer", "ignore"} => t = None
             /\ plan[x] \in Changes =>
                   /\ t \in MemoryRecords /\ t.id \in Ids /\ t.id # c
                   /\ memories[t.id] = t /\ t.status = "active"
                   /\ t.slot[1] = shape[c].group
             /\ plan[x] \in {"create"} \cup Changes => shape[c].flaws = {}
             /\ \/ plan[x] \in {"create", "defer", "ignore"}
                \/ plan[x] \in Changes
<1> DEFINE c == CandidateOf[x]
           t == target[x]
<1>1. pc[x] = "committing" /\ TypeOK /\ CallPart(x)
  BY DEF Commit, GovernanceInvariant
<1>2. /\ c \in Candidates /\ c \in Ids /\ shape[c] \in AllShapes
      /\ decisions[c] \in Decisions /\ decisions[c].status = "pending"
  BY <1>1, CandidateIsThere
  DEF Ids, CallPart, CandidateIsHeld, InTransaction, Phases, Undecided
<1>3. memories[c] = None
  BY <1>2 DEF GovernanceInvariant, MemoriesAreDecided
<1>4. /\ plan[x] \in Actions
      /\ (t # None) <=> (plan[x] \in Changes)
      /\ plan[x] \in {"create"} \cup Changes => shape[c].flaws = {}
  BY <1>1 DEF CallPart, PlanFollowsPhase, PlansAt, Undecided, Changes
<1>5. ASSUME plan[x] \in Changes
      PROVE  /\ t \in MemoryRecords /\ t.id \in Ids /\ t.id # c
             /\ memories[t.id] = t /\ t.status = "active"
             /\ t.slot[1] = shape[c].group
  <2>1. t \in MemoryRecords /\ t.id \in Ids /\ t # None
    BY <1>1, <1>4, <1>5, RecordFields DEF TypeOK
  <2>2. memories[t.id] = t
    BY <1>1, <2>1 DEF CallPart, TargetIsHeld
  <2>3. t.status = "active" /\ t.slot[1] = shape[c].group
    BY <1>1, <2>1, SnapshotSources DEF CallPart, SnapshotsAreOld, IsSnapshot
  <2>4. QED
    BY <1>3, <2>1, <2>2, <2>3
<1>6. /\ plan[x] \in {"create", "defer", "ignore"} => t = None
      /\ \/ plan[x] \in {"create", "defer", "ignore"}
         \/ plan[x] \in Changes
  BY <1>4 DEF Actions, Changes
<1>7. QED
  BY <1>2, <1>3, <1>4, <1>5, <1>6

\* The records a commit writes are records.
LEMMA WrittenRecords ==
  ASSUME GovernanceInvariant, NEW x \in Calls, Commit(x)
  PROVE  LET c == CandidateOf[x]  t == target[x]
         IN  /\ NewRecord(c, shape[c], None) \in MemoryRecords
             /\ plan[x] \in Changes =>
                   /\ NewRecord(c, shape[c], t.id) \in MemoryRecords
                   /\ Revised(t, c, plan[x]) \in MemoryRecords
                   /\ Linked(Retired(t), c) \in MemoryRecords
<1> DEFINE c == CandidateOf[x]
           t == target[x]
           s == shape[c]
<1>1. c \in Ids /\ s \in AllShapes
  BY CommitKnows
<1>2. /\ s.text \in Texts /\ s.print \in Prints /\ LiveSlot(s) \in Slots
      /\ s.relations \in RelationForms
  BY <1>1, KeysAreSlots, ConstantsAssumption DEF Texts, Prints
<1>3. ASSUME NEW p \in Ids \cup {None}
      PROVE  NewRecord(c, s, p) \in MemoryRecords
  <2>1. <<s.text>> \in Seq(Texts)
    BY <1>2
  <2>2. QED
    BY <1>1, <1>2, <1>3, <2>1 DEF NewRecord, MemoryRecords
<1>4. ASSUME plan[x] \in Changes
      PROVE  /\ NewRecord(c, s, t.id) \in MemoryRecords
             /\ Revised(t, c, plan[x]) \in MemoryRecords
             /\ Linked(Retired(t), c) \in MemoryRecords
  <2>1. t \in MemoryRecords /\ t.id \in Ids
    BY <1>4, CommitKnows
  <2>2. NewText(t.text, s.text, plan[x]) \in Seq(Texts)
    <3>1. <<s.text>> \in Seq(Texts) /\ Append(t.text, s.text) \in Seq(Texts)
      BY <1>2, <2>1, RecordFields
    <3>2. QED
      BY <2>1, <3>1, RecordFields DEF NewText
  <2>3. Revised(t, c, plan[x]) \in MemoryRecords
    <3> DEFINE version == t.version + 1
               text == NewText(t.text, s.text, plan[x])
               print == IF s.print # None THEN s.print ELSE t.print
               evidence == t.evidence \cup {c}
               confident == t.confident \/ "confidence" \notin s.flaws
               fresh == t.fresh \/ "outdated" \notin s.flaws
               relations == IF s.relations # "absent" THEN s.relations
                            ELSE t.relations
    <3>1. /\ version \in Nat \ {0} /\ text \in Seq(Texts) /\ print \in Prints
          /\ evidence \in SUBSET Ids /\ confident \in BOOLEAN
          /\ fresh \in BOOLEAN /\ relations \in RelationForms
      BY <1>1, <1>2, <2>1, <2>2, RecordFields
    <3>2. Revised(t, c, plan[x]) =
             [t EXCEPT !.version = version, !.text = text, !.print = print,
                       !.evidence = evidence, !.confident = confident,
                       !.fresh = fresh, !.relations = relations]
      BY DEF Revised
    <3> HIDE DEF version, text, print, evidence, confident, fresh, relations
    <3>3. QED
      BY <2>1, <3>1, <3>2 DEF MemoryRecords
  <2>4. Linked(Retired(t), c) \in MemoryRecords
    <3> DEFINE version == t.version + 1
               slot == RetiredSlot(t)
    <3>1. version \in Nat \ {0} /\ slot \in Slots
      BY <2>1, RecordFields, KeysAreSlots
    <3>2. Linked(Retired(t), c) =
             [[t EXCEPT !.status = "superseded", !.version = version,
                        !.slot = slot] EXCEPT !.successor = c]
      BY DEF Linked, Retired
    <3> HIDE DEF version, slot
    <3>3. QED
      BY <1>1, <2>1, <3>1, <3>2 DEF MemoryRecords
  <2>5. QED
    BY <1>3, <2>1, <2>3, <2>4
<1>5. QED
  BY <1>3, <1>4

\* A commit writes no memory, one, or two, as its plan says.
LEMMA CommitWrites ==
  ASSUME GovernanceInvariant, NEW x \in Calls, Commit(x)
  PROVE  LET c == CandidateOf[x]  t == target[x]
         IN  /\ plan[x] \in {"defer", "ignore"} =>
                   Written(x) = {} /\ memories' = memories
             /\ plan[x] = "create" =>
                   /\ Written(x) = {NewRecord(c, shape[c], None)}
                   /\ memories' =
                        [memories EXCEPT ![c] = NewRecord(c, shape[c], None)]
             /\ plan[x] \in Changes \ {"supersede"} =>
                   /\ Written(x) = {Revised(t, c, plan[x])}
                   /\ memories' =
                        [memories EXCEPT ![t.id] = Revised(t, c, plan[x])]
             /\ plan[x] = "supersede" =>
                   /\ Written(x) = {Linked(Retired(t), c),
                                    NewRecord(c, shape[c], t.id)}
                   /\ memories' =
                        [memories EXCEPT ![t.id] = Linked(Retired(t), c),
                                         ![c] = NewRecord(c, shape[c], t.id)]
<1> DEFINE c == CandidateOf[x]
           t == target[x]
<1>1. memories \in [Ids -> MemoryRecords \cup {None}]
  BY DEF GovernanceInvariant, TypeOK
<1>2. memories' = [m \in Ids |->
         IF \E r \in Written(x) : r.id = m
         THEN CHOOSE r \in Written(x) : r.id = m ELSE memories[m]]
  BY DEF Commit
<1>3. c \in Ids /\ (plan[x] \in Changes => t \in MemoryRecords /\ t.id \in Ids
                                           /\ t.id # c)
  BY CommitKnows
<1>4. /\ \A p : NewRecord(c, shape[c], p).id = c
      /\ plan[x] \in Changes => /\ Revised(t, c, plan[x]).id = t.id
                                /\ Linked(Retired(t), c).id = t.id
  BY <1>3 DEF NewRecord, Revised, Linked, Retired, MemoryRecords
<1>5. ASSUME NEW r, Written(x) = {r}, r.id \in Ids
      PROVE  memories' = [memories EXCEPT ![r.id] = r]
  <2>1. memories' = [m \in Ids |-> IF m = r.id THEN r ELSE memories[m]]
    BY <1>2, <1>5
  <2>2. QED
    BY <1>1, <2>1
<1>6. CASE plan[x] \in {"defer", "ignore"}
  <2>1. Written(x) = {}
    BY <1>6 DEF Written
  <2>2. QED
    BY <1>1, <1>2, <1>6, <2>1 DEF Changes
<1>7. CASE plan[x] = "create"
  <2>1. Written(x) = {NewRecord(c, shape[c], None)}
    BY <1>7 DEF Written
  <2>2. QED
    BY <1>3, <1>4, <1>5, <1>7, <2>1 DEF Changes
<1>8. CASE plan[x] \in Changes \ {"supersede"}
  <2>1. Written(x) = {Revised(t, c, plan[x])}
    BY <1>8 DEF Written, Changes
  <2>2. QED
    BY <1>3, <1>4, <1>5, <1>8, <2>1 DEF Changes
<1>9. CASE plan[x] = "supersede"
  <2> DEFINE old == Linked(Retired(t), c)
             new == NewRecord(c, shape[c], t.id)
  <2>1. Written(x) = {old, new}
    BY <1>9 DEF Written
  <2>2. old.id = t.id /\ new.id = c /\ t.id \in Ids /\ t.id # c /\ c \in Ids
    BY <1>3, <1>4, <1>9 DEF Changes
  <2> HIDE DEF old, new
  <2>3. memories' = [m \in Ids |-> IF m = c THEN new
                                   ELSE IF m = t.id THEN old ELSE memories[m]]
    BY <1>2, <2>1, <2>2
  <2>4. memories' = [memories EXCEPT ![t.id] = old, ![c] = new]
    BY <1>1, <2>2, <2>3
  <2>5. QED
    BY <1>9, <2>1, <2>4 DEF old, new, Changes
<1>10. QED
  BY <1>6, <1>7, <1>8, <1>9 DEF Changes

\* A commit changes the candidate's memory, which is not there yet, and the
\* target, whose version it raises; everything else stays as it is.
LEMMA CommitMemories ==
  ASSUME GovernanceInvariant, NEW x \in Calls, Commit(x), NEW m \in Ids
  PROVE  LET c == CandidateOf[x]  t == target[x]
         IN  /\ memories'[m] \in MemoryRecords \cup {None}
             /\ memories'[m] # None => memories'[m].id = m
             /\ memories[m] # None => memories'[m] # None
             /\ \/ memories'[m] = memories[m]
                \/ /\ m = c /\ plan[x] \in {"create", "supersede"}
                   /\ memories[m] = None
                   /\ \E p \in Ids \cup {None} :
                         memories'[m] = NewRecord(c, shape[c], p)
                \/ /\ plan[x] \in Changes \ {"supersede"}
                   /\ m = t.id /\ memories[m] = t
                   /\ memories'[m] = Revised(t, c, plan[x])
                \/ /\ plan[x] = "supersede" /\ m = t.id /\ memories[m] = t
                   /\ memories'[m] = Linked(Retired(t), c)
<1> DEFINE c == CandidateOf[x]
           t == target[x]
<1>1. /\ memories \in [Ids -> MemoryRecords \cup {None}]
      /\ memories[m] # None => memories[m].id = m
  BY DEF GovernanceInvariant, TypeOK, Present
<1>2. /\ c \in Ids /\ memories[c] = None
      /\ plan[x] \in Changes => /\ t \in MemoryRecords /\ t.id \in Ids
                                /\ t.id # c /\ memories[t.id] = t
      /\ \/ plan[x] \in {"create", "defer", "ignore"}
         \/ plan[x] \in Changes
  BY CommitKnows
<1>3. /\ NewRecord(c, shape[c], None) \in MemoryRecords
      /\ plan[x] \in Changes =>
            /\ NewRecord(c, shape[c], t.id) \in MemoryRecords
            /\ Revised(t, c, plan[x]) \in MemoryRecords
            /\ Linked(Retired(t), c) \in MemoryRecords
  BY WrittenRecords
<1>4. /\ \A p : NewRecord(c, shape[c], p).id = c
      /\ plan[x] \in Changes => /\ Revised(t, c, plan[x]).id = t.id
                                /\ Linked(Retired(t), c).id = t.id
  BY <1>2 DEF NewRecord, Revised, Linked, Retired, MemoryRecords
<1>5. CASE memories'[m] = memories[m]
  BY <1>1, <1>5
<1>6. CASE plan[x] = "create" /\ m = c
  <2>1. memories'[m] = NewRecord(c, shape[c], None)
    BY <1>1, <1>2, <1>6, CommitWrites
  <2>2. QED
    BY <1>2, <1>3, <1>4, <1>6, <2>1
<1>7. CASE plan[x] \in Changes \ {"supersede"} /\ m = t.id
  <2>1. memories'[m] = Revised(t, c, plan[x])
    BY <1>1, <1>2, <1>7, CommitWrites
  <2>2. QED
    BY <1>2, <1>3, <1>4, <1>7, <2>1, NoneAssumption
<1>8. CASE plan[x] = "supersede" /\ m = c
  <2>1. memories'[m] = NewRecord(c, shape[c], t.id)
    BY <1>1, <1>2, <1>8, CommitWrites DEF Changes
  <2>2. QED
    BY <1>2, <1>3, <1>4, <1>8, <2>1 DEF Changes
<1>9. CASE plan[x] = "supersede" /\ m = t.id
  <2>1. memories'[m] = Linked(Retired(t), c)
    BY <1>1, <1>2, <1>9, CommitWrites DEF Changes
  <2>2. QED
    BY <1>2, <1>3, <1>4, <1>9, <2>1, NoneAssumption DEF Changes
<1>10. \/ memories'[m] = memories[m]
       \/ plan[x] = "create" /\ m = c
       \/ plan[x] \in Changes \ {"supersede"} /\ m = t.id
       \/ plan[x] = "supersede" /\ (m = c \/ m = t.id)
  BY <1>1, <1>2, CommitWrites DEF Changes
<1>11. QED
  BY <1>5, <1>6, <1>7, <1>8, <1>9, <1>10

\* A commit raises the version of a memory it changes, and leaves one that
\* was replaced alone.
LEMMA CommitVersions ==
  ASSUME GovernanceInvariant, NEW x \in Calls, Commit(x), NEW m \in Present
  PROVE  /\ m \in Present'
         /\ \/ memories'[m] = memories[m]
            \/ /\ memories'[m].version = memories[m].version + 1
               /\ memories[m].status = "active"
         /\ memories'[m].status = "active" =>
               memories'[m].slot = memories[m].slot
<1> DEFINE t == target[x]
<1>1. m \in Ids /\ memories[m] # None
  BY DEF Present
<1>2. plan[x] \in Changes => t \in MemoryRecords /\ t.status = "active"
  BY CommitKnows
<1>3. plan[x] \in Changes =>
         /\ Revised(t, CandidateOf[x], plan[x]).version = t.version + 1
         /\ Revised(t, CandidateOf[x], plan[x]).slot = t.slot
         /\ Linked(Retired(t), CandidateOf[x]).version = t.version + 1
         /\ Linked(Retired(t), CandidateOf[x]).status = "superseded"
  BY <1>2 DEF Revised, Linked, Retired, MemoryRecords
<1>4. QED
  BY <1>1, <1>2, <1>3, CommitMemories DEF Present, Changes

(***************************************************************************)
(* What the others know after a commit.                                    *)
(***************************************************************************)

\* What was read of a memory stays old, or current.
LEMMA CommitKeepsSnapshots ==
  ASSUME GovernanceInvariant, NEW x \in Calls, Commit(x), NEW group,
         NEW r \in MemoryRecords, IsSnapshot(r, group)
  PROVE  IsSnapshot(r, group)'
<1>1. r.id \in Present /\ r.version \in Nat /\ r.id \in Ids
  BY RecordFields DEF IsSnapshot, Present
<1>2. memories[r.id] \in MemoryRecords
  BY <1>1 DEF GovernanceInvariant, TypeOK, Present
<1>3. memories[r.id].version \in Nat
  BY <1>2, RecordFields
<1>4. /\ r.id \in Present'
      /\ \/ memories'[r.id] = memories[r.id]
         \/ memories'[r.id].version = memories[r.id].version + 1
  BY <1>1, CommitVersions
<1>5. QED
  BY <1>1, <1>3, <1>4 DEF IsSnapshot, Present

\* Two calls that are in their transactions work on different candidates.
LEMMA CandidatesAreApart ==
  ASSUME GovernanceInvariant, NEW x \in Calls, NEW y \in Calls, x # y,
         pc[x] \in InTransaction, pc[y] \in InTransaction
  PROVE  CandidateOf[x] # CandidateOf[y]
<1>1. CandidateRow(x) \in holds[x] /\ CandidateRow(y) \in holds[y]
  BY DEF GovernanceInvariant, CallPart, CandidateIsHeld
<1>2. CandidateRow(x)[1] # "key"
  BY DEF CandidateRow
<1>3. CandidateRow(x) # CandidateRow(y)
  BY <1>1, <1>2 DEF GovernanceInvariant, RowsAreApart
<1>4. QED
  BY <1>3 DEF CandidateRow

\* A commit decides its candidate and no other.
LEMMA CommitDecides ==
  ASSUME GovernanceInvariant, NEW x \in Calls, Commit(x)
  PROVE  LET c == CandidateOf[x]
         IN  /\ decisions'[c] = Result(x) /\ Result(x) \in Decisions
             /\ \A d \in Candidates \ {c} : decisions'[d] = decisions[d]
             /\ Result(x).action = plan[x]
             /\ plan[x] \in {"defer", "ignore"} =>
                   /\ Result(x).status \in {"deferred", "ignored"}
                   /\ memories' = memories
             /\ plan[x] \in {"create", "supersede"} =>
                   /\ Result(x).status = "governed"
                   /\ Result(x).memory = c /\ Result(x).version = 1
             /\ plan[x] \in Changes \ {"supersede"} =>
                   /\ Result(x).status = "governed"
                   /\ Result(x).memory = target[x].id
                   /\ Result(x).version = target[x].version + 1
<1> DEFINE c == CandidateOf[x]
           t == target[x]
<1>1. /\ c \in Candidates /\ c \in Ids
      /\ plan[x] \in Changes => t \in MemoryRecords
      /\ \/ plan[x] \in {"create", "defer", "ignore"}
         \/ plan[x] \in Changes
  BY CommitKnows
<1>2. decisions' = [decisions EXCEPT ![c] = Result(x)]
  BY DEF Commit
<1>3. /\ decisions'[c] = Result(x)
      /\ \A d \in Candidates \ {c} : decisions'[d] = decisions[d]
  BY <1>1, <1>2 DEF GovernanceInvariant, TypeOK
<1>4. CASE plan[x] \in {"defer", "ignore"}
  BY <1>3, <1>4, CommitWrites DEF Result, Decisions, Statuses, Actions, Changes
<1>5. CASE plan[x] \in {"create", "supersede"}
  BY <1>1, <1>3, <1>5 DEF Result, Decisions, Statuses, Actions, Changes
<1>6. CASE plan[x] \in Changes \ {"supersede"}
  <2>1. t.id \in Ids /\ t.version + 1 \in Nat
    BY <1>1, <1>6, RecordFields
  <2>2. QED
    BY <1>3, <1>6, <2>1 DEF Result, Decisions, Statuses, Actions, Changes
<1>7. QED
  BY <1>1, <1>4, <1>5, <1>6 DEF Changes

\* Everything another call knows stays true when a call commits.
LEMMA OthersSurviveCommit ==
  ASSUME GovernanceInvariant, NEW x \in Calls, Commit(x),
         NEW y \in Calls, y # x
  PROVE  CallPart(y)'
<1> DEFINE c == CandidateOf[x]
<1>1. /\ shape' = shape /\ pc'[y] = pc[y] /\ holds'[y] = holds[y]
      /\ found'[y] = found[y] /\ plan'[y] = plan[y] /\ target'[y] = target[y]
  BY CallFrame DEF GovernanceInvariant, Proceed
<1>2. pc[x] = "committing" /\ TypeOK /\ CallPart(y) /\ CallPart(x)
  BY DEF GovernanceInvariant, Commit
<1>3. CandidateIsHeld(y)'
  <2>1. CASE pc[y] \in InTransaction
    <3>1. CandidateOf[y] # c /\ CandidateOf[y] \in Candidates
      BY <1>2, <2>1, CandidatesAreApart, ConstantsAssumption
      DEF InTransaction, Phases
    <3>2. decisions'[CandidateOf[y]] = decisions[CandidateOf[y]]
      BY <3>1, CommitDecides
    <3>3. QED
      BY <1>1, <1>2, <3>2 DEF CallPart, CandidateIsHeld, CandidateRow
  <2>2. CASE pc[y] \notin InTransaction
    BY <1>1, <2>2 DEF CandidateIsHeld, InTransaction, Undecided, Phases
  <2>3. QED
    BY <2>1, <2>2
<1>4. PlanFollowsPhase(y)'
  BY <1>1, <1>2 DEF CallPart, PlanFollowsPhase
<1>5. SnapshotsAreOld(y)'
  <2>1. Snapshots(y)' = Snapshots(y)
    BY <1>1 DEF Snapshots
  <2>2. \A r \in Snapshots(y) : r \in MemoryRecords
    <3>1. /\ found[y] \in [Relations -> SUBSET MemoryRecords]
          /\ target[y] # None => target[y] \in MemoryRecords
      BY <1>2 DEF TypeOK
    <3>2. QED
      BY <3>1, SnapshotSources
  <2>3. \A r \in Snapshots(y) : IsSnapshot(r, shape[CandidateOf[y]].group)'
    BY <1>1, <1>2, <2>2, CommitKeepsSnapshots DEF CallPart, SnapshotsAreOld
  <2>4. QED
    BY <1>1, <2>1, <2>3 DEF SnapshotsAreOld
<1>6. TargetIsHeld(y)'
  <2> SUFFICES ASSUME pc[y] \in {"retiring", "inserting", "committing"},
                      target[y] # None
               PROVE  /\ <<"memory", target[y].id>> \in holds[y]
                      /\ memories'[target[y].id] = target[y]
    BY <1>1 DEF TargetIsHeld
  <2>1. /\ <<"memory", target[y].id>> \in holds[y]
        /\ memories[target[y].id] = target[y]
    BY <1>2 DEF CallPart, TargetIsHeld
  <2>2. target[y].id \in Ids
    BY <1>2, RecordFields DEF TypeOK
  <2>3. plan[x] \in Changes => target[x].id # target[y].id
    <3>1. plan[x] \in Changes => <<"memory", target[x].id>> \in holds[x]
      BY <1>2 DEF CallPart, TargetIsHeld, PlanFollowsPhase
    <3>2. <<"memory", target[y].id>>[1] # "key"
      OBVIOUS
    <3>3. QED
      BY <2>1, <3>1, <3>2 DEF GovernanceInvariant, RowsAreApart
  <2>4. memories'[target[y].id] = target[y]
    <3>1. \/ memories'[target[y].id] = memories[target[y].id]
          \/ memories[target[y].id] = None
          \/ plan[x] \in Changes /\ target[y].id = target[x].id
      BY <2>2, CommitMemories DEF Changes
    <3>2. QED
      BY <2>1, <2>3, <3>1
  <2>5. QED
    BY <2>1, <2>4
<1>7. KeyIsHeld(y)'
  <2> SUFFICES ASSUME Inserted(y)
               PROVE  /\ <<"key", KeyOf(y)>> \in holds[y]
                      /\ \A m \in Present' :
                            memories'[m].status = "active"
                            /\ memories'[m].slot = KeyOf(y) =>
                               target[y] # None /\ m = target[y].id
    BY <1>1 DEF KeyIsHeld, Inserted, KeyOf
  <2>1. /\ <<"key", KeyOf(y)>> \in holds[y]
        /\ \A m \in Present :
              memories[m].status = "active" /\ memories[m].slot = KeyOf(y) =>
                  target[y] # None /\ m = target[y].id
    BY <1>2 DEF CallPart, KeyIsHeld
  <2>2. ASSUME NEW m \in Present', memories'[m].status = "active",
               memories'[m].slot = KeyOf(y)
        PROVE  target[y] # None /\ m = target[y].id
    <3>1. CASE m \in Present
      <4>1. memories[m].status = "active" /\ memories[m].slot = KeyOf(y)
        BY <2>2, <3>1, CommitVersions
      <4>2. QED
        BY <2>1, <3>1, <4>1
    <3>2. CASE m \notin Present
      <4>1. m \in Ids /\ memories[m] = None /\ memories'[m] # None
        BY <2>2, <3>2 DEF Present
      <4>2. plan[x] \in Changes => target[x] # None
        BY <1>2 DEF CallPart, PlanFollowsPhase
      <4>3. plan[x] \in {"create", "supersede"}
            /\ \E p \in Ids \cup {None} :
                  memories'[m] = NewRecord(c, shape[c], p)
        BY <4>1, <4>2, CommitMemories DEF Changes
      <4>4. memories'[m].slot = KeyOf(x)
        BY <4>3 DEF NewRecord, KeyOf
      <4>5. KeyOf(x) # KeyOf(y)
        BY <1>2, <4>3 DEF GovernanceInvariant, KeysAreApart, Inserted
      <4>6. QED
        BY <2>2, <4>4, <4>5
    <3>3. QED
      BY <3>1, <3>2
  <2>3. QED
    BY <2>1, <2>2
<1>8. QED
  BY <1>3, <1>4, <1>5, <1>6, <1>7 DEF CallPart

(***************************************************************************)
(* The invariant.                                                          *)
(***************************************************************************)

\* What a commit writes is what is stored after it: a new memory at version
\* one, or the next version of the target.
LEMMA WrittenAreStored ==
  ASSUME GovernanceInvariant, NEW x \in Calls, Commit(x)
  PROVE  /\ \A r \in Written(x) :
               /\ r.id \in Ids /\ r \in MemoryRecords /\ memories'[r.id] = r
               /\ \/ r.id \notin Present /\ r.version = 1
                  \/ /\ r.id \in Present /\ r.version = memories[r.id].version + 1
                     /\ plan[x] \in Changes /\ r.id = target[x].id
         /\ \A m \in Ids : (\A r \in Written(x) : r.id # m) =>
               memories'[m] = memories[m]
<1> DEFINE c == CandidateOf[x]
           t == target[x]
<1>1. /\ memories \in [Ids -> MemoryRecords \cup {None}]
      /\ c \in Ids /\ memories[c] = None
      /\ plan[x] \in Changes => /\ t \in MemoryRecords /\ t.id \in Ids
                                /\ t.id # c /\ memories[t.id] = t
      /\ \/ plan[x] \in {"create", "defer", "ignore"}
         \/ plan[x] \in Changes
  BY CommitKnows DEF GovernanceInvariant, TypeOK
<1>2. /\ \A p : /\ NewRecord(c, shape[c], p).id = c
                /\ NewRecord(c, shape[c], p).version = 1
      /\ plan[x] \in Changes =>
            /\ Revised(t, c, plan[x]).id = t.id
            /\ Revised(t, c, plan[x]).version = t.version + 1
            /\ Linked(Retired(t), c).id = t.id
            /\ Linked(Retired(t), c).version = t.version + 1
  BY <1>1 DEF NewRecord, Revised, Linked, Retired, MemoryRecords
<1>3. ASSUME NEW r \in Written(x)
      PROVE  /\ r.id \in Ids /\ r \in MemoryRecords /\ memories'[r.id] = r
             /\ \/ r.id \notin Present /\ r.version = 1
                \/ /\ r.id \in Present /\ r.version = memories[r.id].version + 1
                   /\ plan[x] \in Changes /\ r.id = t.id
  <2>1. /\ c \notin Present
        /\ plan[x] \in Changes => t.id \in Present
    BY <1>1, NoneAssumption DEF Present
  <2>2. CASE plan[x] \in {"defer", "ignore"}
    BY <2>2, CommitWrites
  <2>3. CASE plan[x] = "create"
    BY <1>1, <1>2, <2>1, <2>3, CommitWrites, WrittenRecords
  <2>4. CASE plan[x] \in Changes \ {"supersede"}
    BY <1>1, <1>2, <2>1, <2>4, CommitWrites, WrittenRecords
  <2>5. CASE plan[x] = "supersede"
    <3>1. CASE r = NewRecord(c, shape[c], t.id)
      BY <1>1, <1>2, <2>1, <2>5, <3>1, CommitWrites, WrittenRecords DEF Changes
    <3>2. CASE r = Linked(Retired(t), c)
      BY <1>1, <1>2, <2>1, <2>5, <3>2, CommitWrites, WrittenRecords DEF Changes
    <3>3. QED
      BY <2>5, <3>1, <3>2, CommitWrites
  <2>6. QED
    BY <1>1, <2>2, <2>3, <2>4, <2>5
<1>4. ASSUME NEW m \in Ids, \A r \in Written(x) : r.id # m
      PROVE  memories'[m] = memories[m]
  BY <1>4 DEF Commit
<1>5. QED
  BY <1>3, <1>4

\* A commit keeps the types of the tables.
LEMMA CommitKeepsTypes ==
  ASSUME GovernanceInvariant, NEW x \in Calls, Commit(x)
  PROVE  TypeOK'
<1> DEFINE c == CandidateOf[x]
           t == target[x]
<1>1. CallsOK' /\ shape' = shape
  BY FinishClears, TypeHalves
  DEF Commit, GovernanceInvariant, Outcomes
<1>2. TablesOK
  BY TypeHalves DEF GovernanceInvariant
<1>3. memories' \in [Ids -> MemoryRecords \cup {None}]
  <2>1. memories' = [m \in Ids |-> memories'[m]]
    BY DEF Commit
  <2>2. \A m \in Ids : memories'[m] \in MemoryRecords \cup {None}
    BY CommitMemories
  <2>3. QED
    BY <2>1, <2>2
<1>4. \A m \in Present' : memories'[m].id = m
  BY CommitMemories DEF Present
<1>5. Present \subseteq Present'
  BY CommitVersions
<1>6. \A r \in Written(x) : r.id \in Present' /\ r \in MemoryRecords
  BY WrittenAreStored, NoneAssumption DEF Present
<1>7. \A v \in versions' : v.memory \in Present'
  <2>1. versions' \subseteq
           versions \cup {VersionOf(r, plan[x]) : r \in Written(x)}
    BY DEF Commit
  <2>2. \A r \in Written(x) : VersionOf(r, plan[x]).memory = r.id
    BY DEF VersionOf
  <2>3. QED
    BY <1>2, <1>5, <1>6, <2>1, <2>2 DEF TablesOK
<1>8. projections' \subseteq
         [memory: Present', version: Nat \ {0}, type: IndexKinds,
          status: {"pending", "stale"}]
  <2>1. ASSUME NEW p \in projections'
        PROVE  \/ p \in projections
               \/ \E q \in projections : p = [q EXCEPT !.status = "stale"]
               \/ \E r \in Written(x) : p \in ProjectionsOf(r)
    BY DEF Commit, Staled
  <2>2. \A q \in projections :
           /\ q \in [memory: Present', version: Nat \ {0}, type: IndexKinds,
                     status: {"pending", "stale"}]
           /\ [q EXCEPT !.status = "stale"] \in
                 [memory: Present', version: Nat \ {0}, type: IndexKinds,
                  status: {"pending", "stale"}]
    BY <1>2, <1>5 DEF TablesOK
  <2>3. ASSUME NEW r \in Written(x), NEW p \in ProjectionsOf(r)
        PROVE  p \in [memory: Present', version: Nat \ {0}, type: IndexKinds,
                      status: {"pending", "stale"}]
    <3>1. r.id \in Present' /\ r.version \in Nat \ {0}
      BY <1>6, RecordFields
    <3>2. IndexTypes(r) \subseteq IndexKinds
      BY DEF IndexTypes, IndexKinds
    <3>3. QED
      BY <3>1, <3>2 DEF ProjectionsOf
  <2>4. QED
    BY <2>1, <2>2, <2>3
<1>9. /\ decisions' \in [Candidates -> Decisions \cup {None}]
      /\ \A d \in Candidates : shape'[d] = None => decisions'[d] = None
  <2>1. c \in Candidates /\ decisions[c] \in Decisions
    BY CommitKnows
  <2>2. decisions[c] # None
    BY <2>1, NoneAssumption
  <2>3. Result(x) \in Decisions /\ decisions' = [decisions EXCEPT ![c] = Result(x)]
    BY CommitDecides DEF Commit
  <2>4. QED
    BY <1>1, <1>2, <2>1, <2>2, <2>3 DEF TablesOK
<1>10. QED
  BY <1>1, <1>2, <1>3, <1>4, <1>7, <1>8, <1>9
  DEF TypeOK, TablesOK, CallsOK, Present

\* A commit keeps the invariant.
LEMMA CommitKeepsInvariant ==
  ASSUME GovernanceInvariant, NEW x \in Calls, Commit(x)
  PROVE  GovernanceInvariant'
<1> DEFINE c == CandidateOf[x]
<1>1. TypeOK'
  BY CommitKeepsTypes
<1>2. \A y \in Calls : CallPart(y)'
  <2>1. CallPart(x)'
    BY EndsKeepPart, TypeHalves DEF Commit, GovernanceInvariant, Outcomes
  <2>2. QED
    BY <2>1, OthersSurviveCommit
<1>3. RowsAreApart' /\ KeysAreApart'
  BY RowsStayApart, KeysStayApart DEF GovernanceInvariant, Proceed
<1>4. MemoriesAreDecided'
  <2> SUFFICES ASSUME NEW d \in Candidates, memories'[d] # None
               PROVE  decisions'[d] # None /\ decisions'[d].status = "governed"
    BY DEF MemoriesAreDecided
  <2>1. d \in Ids /\ memories[c] = None /\ decisions[c].status = "pending"
        /\ c \in Candidates
    BY CommitKnows DEF Ids
  <2>2. CASE memories[d] # None
    <3>1. decisions[d] # None /\ decisions[d].status = "governed" /\ d # c
      BY <2>1, <2>2 DEF GovernanceInvariant, MemoriesAreDecided
    <3>2. QED
      BY <3>1, CommitDecides
  <2>3. CASE memories[d] = None
    <3>1. d = c /\ plan[x] \in {"create", "supersede"}
      <4>1. target[x] \in MemoryRecords \cup {None}
        BY DEF GovernanceInvariant, TypeOK
      <4>2. plan[x] \in Changes => target[x] # None
        BY CommitKnows, NoneAssumption
      <4>3. QED
        BY <2>1, <2>3, <4>2, CommitMemories DEF Changes
    <3>2. decisions'[d] = Result(x) /\ Result(x) \in Decisions
          /\ Result(x).status = "governed"
      BY <3>1, CommitDecides
    <3>3. QED
      BY <3>2, NoneAssumption
  <2>4. QED
    BY <2>2, <2>3
<1>5. QED
  BY <1>1, <1>2, <1>3, <1>4 DEF GovernanceInvariant

\* The memories at the start are records that passed the gate.
LEMMA SeedRecords ==
  ASSUME NEW m \in Seeds
  PROVE  LET r == NewRecord(m, SeedShape[m], None)
         IN  r \in MemoryRecords /\ r.id = m
<1> DEFINE s == SeedShape[m]
<1>1. s \in AllShapes
  BY DEF AllShapes
<1>2. /\ s.text \in Texts /\ s.print \in Prints /\ LiveSlot(s) \in Slots
      /\ s.relations \in RelationForms
  BY <1>1, KeysAreSlots, ConstantsAssumption DEF Texts, Prints
<1>3. <<s.text>> \in Seq(Texts) /\ m \in Ids
  BY <1>2 DEF Ids
<1>4. QED
  BY <1>2, <1>3 DEF NewRecord, MemoryRecords

\* The invariant holds at the start.
LEMMA InitInvariant ==
  ASSUME Init
  PROVE  GovernanceInvariant
<1> DEFINE seed(m) == NewRecord(m, SeedShape[m], None)
<1> USE DEF Init
<1>1. \A m \in Seeds : seed(m) \in MemoryRecords /\ seed(m).id = m /\ m \in Ids
  BY SeedRecords DEF Ids
<1>2. /\ Present = Seeds
      /\ \A m \in Seeds : memories[m] = seed(m)
  BY <1>1, NoneAssumption DEF Present
<1>3. TablesOK
  <2>1. shape \in [Candidates -> Shapes \cup {None}]
        /\ memories \in [Ids -> MemoryRecords \cup {None}]
    BY <1>1
  <2>2. \A v \in versions : v.memory \in Present
    BY <1>1, <1>2 DEF VersionOf
  <2>3. projections \subseteq [memory: Present, version: Nat \ {0},
                               type: IndexKinds, status: {"pending", "stale"}]
    <3>1. ASSUME NEW m \in Seeds, NEW p \in ProjectionsOf(seed(m))
          PROVE  p \in [memory: Present, version: Nat \ {0}, type: IndexKinds,
                        status: {"pending", "stale"}]
      <4>1. seed(m).id \in Present /\ seed(m).version \in Nat \ {0}
        BY <1>1, <1>2, RecordFields
      <4>2. IndexTypes(seed(m)) \subseteq IndexKinds
        BY DEF IndexTypes, IndexKinds
      <4> HIDE DEF seed
      <4>3. QED
        BY <4>1, <4>2 DEF ProjectionsOf
    <3>2. QED
      BY <3>1
  <2>4. /\ decisions \in [Candidates -> Decisions \cup {None}]
        /\ \A c \in Candidates : shape[c] = None => decisions[c] = None
    BY DEF Decisions, Statuses
  <2>5. QED
    BY <1>1, <1>2, <2>1, <2>2, <2>3, <2>4 DEF TablesOK
<1>4. CallsOK
  BY DEF CallsOK, Phases, Outcomes
<1>5. TypeOK
  BY <1>3, <1>4, TypeHalves
<1>6. \A x \in Calls : CallPart(x)
  <2> TAKE x \in Calls
  <2>1. Snapshots(x) = {}
    BY DEF Snapshots
  <2>2. QED
    BY <2>1
    DEF CallPart, CandidateIsHeld, PlanFollowsPhase, SnapshotsAreOld,
        TargetIsHeld, KeyIsHeld, Inserted, PlansAt, Changes, InTransaction,
        Undecided
<1>7. RowsAreApart /\ KeysAreApart
  BY DEF RowsAreApart, KeysAreApart, Inserted
<1>8. MemoriesAreDecided
  <2>1. \A c \in Candidates : c \in Ids /\ c \notin Seeds
    BY ConstantsAssumption DEF Ids
  <2>2. QED
    BY <2>1 DEF MemoriesAreDecided
<1>9. QED
  BY <1>5, <1>6, <1>7, <1>8 DEF GovernanceInvariant

\* Every step keeps it.
LEMMA NextInvariant ==
  ASSUME GovernanceInvariant, [Next]_vars
  PROVE  GovernanceInvariant'
<1>1. ASSUME NEW x \in Calls, Proceed(x) \/ Raise(x)
      PROVE  GovernanceInvariant'
  BY <1>1, QuietStepKeepsInvariant, CommitKeepsInvariant
<1>2. CASE UNCHANGED vars
  <2>1. TypeOK'
    BY <1>2 DEF vars, tables, locals, GovernanceInvariant, TypeOK, Present
  <2>2. ASSUME NEW x \in Calls PROVE CallPart(x)'
    <3>1. CandidateIsHeld(x)' /\ PlanFollowsPhase(x)' /\ TargetIsHeld(x)'
      BY <1>2 DEF vars, tables, locals, GovernanceInvariant, CallPart,
                  CandidateIsHeld, CandidateRow, PlanFollowsPhase, TargetIsHeld
    <3>2. SnapshotsAreOld(x)'
      <4>1. Snapshots(x)' = Snapshots(x)
        BY <1>2 DEF vars, locals, Snapshots
      <4>2. QED
        BY <1>2, <4>1 DEF vars, tables, GovernanceInvariant, CallPart,
                          SnapshotsAreOld, IsSnapshot
    <3>3. KeyIsHeld(x)'
      BY <1>2 DEF vars, tables, locals, GovernanceInvariant, CallPart,
                  KeyIsHeld, Inserted, KeyOf, Present
    <3>4. QED
      BY <3>1, <3>2, <3>3 DEF CallPart
  <2>3. RowsAreApart' /\ KeysAreApart' /\ MemoriesAreDecided'
    BY <1>2 DEF vars, tables, locals, GovernanceInvariant, RowsAreApart,
                KeysAreApart, Inserted, KeyOf, MemoriesAreDecided
  <2>4. QED
    BY <2>1, <2>2, <2>3 DEF GovernanceInvariant
<1>3. QED
  BY <1>1, <1>2 DEF Next

\* Calls keep what they have read, locked and planned in step with the tables:
\* what was read of a memory is its current version or an older one, and from
\* the version check to the commit the target is locked and unchanged
\* (get_candidate_for_update, get_memory_for_update, update_memory).
THEOREM Invariance == Spec => []GovernanceInvariant
  BY InitInvariant, NextInvariant, PTL DEF Spec

\* Rows and calls have the types the code declares.
THEOREM TypeCorrectness == Spec => []TypeOK
<1>1. GovernanceInvariant => TypeOK
  BY DEF GovernanceInvariant
<1>2. QED
  BY Invariance, <1>1, PTL

=============================================================================
