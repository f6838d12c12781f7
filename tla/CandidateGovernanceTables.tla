----------------------- MODULE CandidateGovernanceTables -----------------------
(***************************************************************************)
(* What the tables of CandidateGovernance say of one another, for all      *)
(* values of its constants: memories, their history, their indexes, their  *)
(* replacements and the decisions they come from.  Every proof rests on    *)
(* the invariant of CandidateGovernanceProofs: a commit finds its target   *)
(* as the call has read it.                                                *)
(***************************************************************************)
EXTENDS CandidateGovernanceProofs, FiniteSetTheorems

(***************************************************************************)
(* What a step can do to the tables.                                       *)
(***************************************************************************)

\* A step commits, or leaves every table alone but for the audit row of a
\* rejection.
LEMMA StepsOfTables ==
  ASSUME [Next]_vars, ~ \E x \in Calls : Commit(x)
  PROVE  /\ UNCHANGED <<shape, memories, versions, projections, jobs, decisions>>
         /\ \/ audit' = audit
            \/ \E c, r : audit' = audit \cup {<<c, "reject", r>>}
<1>1. ASSUME NEW x \in Calls, Proceed(x) \/ Raise(x)
      PROVE  /\ shape' = shape
             /\ UNCHANGED <<memories, versions, projections, jobs, decisions>>
             /\ \/ audit' = audit
                \/ \E c, r : audit' = audit \cup {<<c, "reject", r>>}
  <2>1. shape' = shape
    BY <1>1, GoesOnReads, OtherStepsFinish DEF Finish
  <2>2. QED
    BY <1>1, <2>1, OnlyCommitWrites
<1>2. CASE UNCHANGED vars
  BY <1>2 DEF vars, tables
<1>3. QED
  BY <1>1, <1>2 DEF Next

\* The fields of the records a commit writes.
LEMMA NewFields ==
  ASSUME NEW c, NEW s, NEW p
  PROVE  LET r == NewRecord(c, s, p)
         IN  /\ r.id = c /\ r.status = "active" /\ r.version = 1
             /\ r.slot = LiveSlot(s) /\ r.slot[1] = s.group /\ r.evidence = {c}
             /\ r.confident = ("confidence" \notin s.flaws)
             /\ r.fresh = ("outdated" \notin s.flaws)
             /\ r.predecessor = p /\ r.successor = None
  BY DEF NewRecord, LiveSlot

\* A revised record is the old one with one more candidate and a version on.
LEMMA RevisedFields ==
  ASSUME NEW r \in MemoryRecords, NEW c, NEW action
  PROVE  LET n == Revised(r, c, action)
         IN  /\ n.id = r.id /\ n.status = r.status /\ n.version = r.version + 1
             /\ n.slot = r.slot /\ n.evidence = r.evidence \cup {c}
             /\ n.predecessor = r.predecessor /\ n.successor = r.successor
             /\ r.confident => n.confident
             /\ r.fresh => n.fresh
  BY DEF Revised, MemoryRecords

\* A retired record is the old one, superseded, a version on and linked.
LEMMA RetiredFields ==
  ASSUME NEW r \in MemoryRecords, NEW c
  PROVE  LET n == Linked(Retired(r), c)
         IN  /\ n.id = r.id /\ n.status = "superseded"
             /\ n.version = r.version + 1 /\ n.slot[1] = r.slot[1]
             /\ n.evidence = r.evidence /\ n.predecessor = r.predecessor
             /\ n.successor = c
<1>1. RetiredSlot(r)[1] = r.slot[1]
  BY DEF RetiredSlot
<1>2. QED
  BY <1>1 DEF Linked, Retired, MemoryRecords

\* The stored records are the records of the ids that are present.
LEMMA StoredRecords ==
  ASSUME TypeOK
  PROVE  /\ \A r \in Stored : /\ r \in MemoryRecords /\ r.id \in Present
                              /\ r.id \in Ids /\ memories[r.id] = r
         /\ \A m \in Present : /\ m \in Ids /\ memories[m] \in Stored
                               /\ memories[m].id = m
  BY DEF TypeOK, Stored, Present

\* What a commit does to one id.
LEMMA CommitOnId ==
  ASSUME GovernanceInvariant, NEW x \in Calls, Commit(x), NEW m \in Ids
  PROVE  LET c == CandidateOf[x]  t == target[x]
         IN  \/ memories'[m] = memories[m]
             \/ /\ m = c /\ plan[x] = "create" /\ memories[m] = None
                /\ memories'[m] = NewRecord(c, shape[c], None)
             \/ /\ m = c /\ plan[x] = "supersede" /\ memories[m] = None
                /\ memories'[m] = NewRecord(c, shape[c], t.id)
             \/ /\ m = t.id /\ plan[x] \in Changes \ {"supersede"}
                /\ memories[m] = t
                /\ memories'[m] = Revised(t, c, plan[x])
             \/ /\ m = t.id /\ plan[x] = "supersede" /\ memories[m] = t
                /\ memories'[m] = Linked(Retired(t), c)
<1> DEFINE c == CandidateOf[x]
           t == target[x]
<1>1. memories \in [Ids -> MemoryRecords \cup {None}]
  BY DEF GovernanceInvariant, TypeOK
<1>2. /\ c \in Ids /\ memories[c] = None
      /\ plan[x] \in Changes => /\ t.id \in Ids /\ t.id # c
                                /\ memories[t.id] = t
      /\ \/ plan[x] \in {"create", "defer", "ignore"}
         \/ plan[x] \in Changes
  BY CommitKnows
<1>3. CASE plan[x] \in {"defer", "ignore"}
  BY <1>3, CommitWrites
<1>4. CASE plan[x] = "create"
  BY <1>1, <1>2, <1>4, CommitWrites
<1>5. CASE plan[x] \in Changes \ {"supersede"}
  BY <1>1, <1>2, <1>5, CommitWrites
<1>6. CASE plan[x] = "supersede"
  BY <1>1, <1>2, <1>6, CommitWrites DEF Changes
<1>7. QED
  BY <1>2, <1>3, <1>4, <1>5, <1>6

(***************************************************************************)
(* Evidence and scopes.                                                    *)
(***************************************************************************)

\* What went into a memory stays in it.
LEMMA EvidenceStays ==
  ASSUME GovernanceInvariant, NEW x \in Calls, Commit(x), NEW m \in Present
  PROVE  m \in Present' /\ memories[m].evidence \subseteq memories'[m].evidence
<1>1. m \in Present' /\ m \in Ids /\ memories[m] # None
  BY CommitVersions DEF Present
<1>2. plan[x] \in Changes => target[x] \in MemoryRecords
  BY CommitKnows
<1>3. QED
  BY <1>1, <1>2, CommitOnId, RevisedFields, RetiredFields DEF Changes

\* The memory a decision names is there.
DecidedMemoriesExist == \A c \in Governed : decisions[c].memory \in Present

\* A commit brings the candidate into the memory its decision names.
LEMMA CommitContributes ==
  ASSUME GovernanceInvariant, NEW x \in Calls, Commit(x),
         Result(x).status = "governed"
  PROVE  LET m == Result(x).memory
         IN  /\ m \in Present'
             /\ CandidateOf[x] \in memories'[m].evidence
             /\ memories'[m].version = Result(x).version
             /\ memories'[m] \in Written(x)
<1> DEFINE c == CandidateOf[x]
           t == target[x]
<1>1. /\ c \in Ids
      /\ plan[x] \in Changes => /\ t \in MemoryRecords /\ t.id \in Ids
                                /\ t.id # c
      /\ \/ plan[x] \in {"create", "defer", "ignore"}
         \/ plan[x] \in Changes
  BY CommitKnows
<1>2. /\ memories \in [Ids -> MemoryRecords \cup {None}]
      /\ memories' \in [Ids -> MemoryRecords \cup {None}]
  BY CommitKeepsTypes DEF GovernanceInvariant, TypeOK
<1>3. CASE plan[x] \in {"defer", "ignore"}
  BY <1>3, CommitDecides
<1>4. CASE plan[x] = "create"
  <2>1. Result(x).memory = c /\ Result(x).version = 1
    BY <1>4, CommitDecides
  <2>2. /\ memories'[c] = NewRecord(c, shape[c], None)
        /\ Written(x) = {NewRecord(c, shape[c], None)}
        /\ NewRecord(c, shape[c], None) \in MemoryRecords
    BY <1>1, <1>2, <1>4, CommitWrites, WrittenRecords
  <2>3. QED
    BY <1>1, <2>1, <2>2, NewFields, NoneAssumption DEF Present
<1>5. CASE plan[x] = "supersede"
  <2>1. Result(x).memory = c /\ Result(x).version = 1
    BY <1>5, CommitDecides
  <2>2. /\ memories'[c] = NewRecord(c, shape[c], t.id)
        /\ NewRecord(c, shape[c], t.id) \in Written(x)
        /\ NewRecord(c, shape[c], t.id) \in MemoryRecords
    BY <1>1, <1>2, <1>5, CommitWrites, WrittenRecords DEF Changes
  <2>3. QED
    BY <1>1, <2>1, <2>2, NewFields, NoneAssumption DEF Present
<1>6. CASE plan[x] \in Changes \ {"supersede"}
  <2>1. Result(x).memory = t.id /\ Result(x).version = t.version + 1
    BY <1>6, CommitDecides
  <2>2. /\ memories'[t.id] = Revised(t, c, plan[x])
        /\ Revised(t, c, plan[x]) \in Written(x)
        /\ Revised(t, c, plan[x]) \in MemoryRecords
    BY <1>1, <1>2, <1>6, CommitWrites, WrittenRecords
  <2>3. QED
    BY <1>1, <1>6, <2>1, <2>2, RevisedFields, NoneAssumption DEF Present
<1>7. QED
  BY <1>1, <1>3, <1>4, <1>5, <1>6

\* Every step keeps contributions.
LEMMA ContributionsStay ==
  ASSUME GovernanceInvariant, DecidedMemoriesExist, ContributionsAreKept,
         [Next]_vars
  PROVE  DecidedMemoriesExist' /\ ContributionsAreKept'
<1>1. ASSUME NEW x \in Calls, Commit(x)
      PROVE  DecidedMemoriesExist' /\ ContributionsAreKept'
  <2> SUFFICES ASSUME NEW d \in Governed'
               PROVE  /\ decisions'[d].memory \in Present'
                      /\ d \in memories'[decisions'[d].memory].evidence
    BY DEF DecidedMemoriesExist, ContributionsAreKept
  <2>1. d \in Candidates /\ decisions'[d] # None
        /\ decisions'[d].status = "governed"
    BY DEF Governed
  <2>2. CASE d = CandidateOf[x]
    <3>1. decisions'[d] = Result(x)
      BY <1>1, <2>2, CommitDecides
    <3>2. QED
      BY <1>1, <2>1, <2>2, <3>1, CommitContributes
  <2>3. CASE d # CandidateOf[x]
    <3>1. decisions'[d] = decisions[d] /\ d \in Governed
      BY <1>1, <2>1, <2>3, CommitDecides DEF Governed
    <3>2. /\ decisions[d].memory \in Present
          /\ d \in memories[decisions[d].memory].evidence
      BY <3>1 DEF DecidedMemoriesExist, ContributionsAreKept
    <3>3. QED
      BY <1>1, <3>1, <3>2, EvidenceStays
  <2>4. QED
    BY <2>2, <2>3
<1>2. CASE ~ \E x \in Calls : Commit(x)
  BY <1>2, StepsOfTables
  DEF DecidedMemoriesExist, ContributionsAreKept, Governed, Present
<1>3. QED
  BY <1>1, <1>2

\* What a candidate brought into a memory is never lost, whichever calls read
\* the same version of it: update_memory compares expected_version, and what
\* the call writes goes on from the version it has compared.
THEOREM ContributionsPersist == Spec => []ContributionsAreKept
<1>1. Init => DecidedMemoriesExist /\ ContributionsAreKept
  BY DEF Init, DecidedMemoriesExist, ContributionsAreKept, Governed
<1>2. QED
  BY <1>1, Invariance, ContributionsStay, PTL DEF Spec

\* Every step keeps scopes apart.
LEMMA ScopesStay ==
  ASSUME GovernanceInvariant, ScopesStayApart, [Next]_vars
  PROVE  ScopesStayApart'
<1>1. ASSUME NEW x \in Calls, Commit(x)
      PROVE  ScopesStayApart'
  <2> DEFINE c == CandidateOf[x]
             t == target[x]
  <2>1. TypeOK' /\ TypeOK /\ shape' = shape
    BY <1>1, CommitKeepsTypes, CallFrame DEF GovernanceInvariant, Proceed
  <2> SUFFICES ASSUME NEW m \in Present', NEW d \in memories'[m].evidence,
                      d \notin Seeds
               PROVE  shape[d].group = memories'[m].slot[1]
    BY <2>1, StoredRecords DEF ScopesStayApart, Stored, Present
  <2>2. m \in Ids
    BY DEF Present
  <2>3. ASSUME NEW n \in Present, NEW e \in memories[n].evidence, e \notin Seeds
        PROVE  shape[e].group = memories[n].slot[1]
    BY <2>1, <2>3, StoredRecords DEF ScopesStayApart
  <2>4. plan[x] \in Changes => /\ t \in MemoryRecords /\ t.id \in Present
                               /\ memories[t.id] = t
                               /\ t.slot[1] = shape[c].group
    BY <1>1, CommitKnows, NoneAssumption DEF Present
  <2>5. CASE memories'[m] = memories[m]
    BY <2>3, <2>5 DEF Present
  <2>6. CASE \E p : memories'[m] = NewRecord(c, shape[c], p)
    BY <2>6, NewFields
  <2>7. CASE plan[x] \in Changes /\ memories'[m] = Revised(t, c, plan[x])
    BY <2>3, <2>4, <2>7, RevisedFields
  <2>8. CASE plan[x] \in Changes /\ memories'[m] = Linked(Retired(t), c)
    BY <2>3, <2>4, <2>8, RetiredFields
  <2>9. QED
    BY <1>1, <2>2, <2>5, <2>6, <2>7, <2>8, CommitOnId DEF Changes
<1>2. CASE ~ \E x \in Calls : Commit(x)
  BY <1>2, StepsOfTables DEF ScopesStayApart, Stored, Present
<1>3. QED
  BY <1>1, <1>2

\* What went into a memory came from its own scope and type, whatever ids the
\* advice named (_validate_targets, find_exact_active, find_semantic_active).
THEOREM ScopesAreApart == Spec => []ScopesStayApart
<1>1. ASSUME Init PROVE ScopesStayApart
  <2>1. \A m \in Seeds : NewRecord(m, SeedShape[m], None).evidence = {m}
    BY NewFields
  <2>2. Stored \subseteq {NewRecord(m, SeedShape[m], None) : m \in Seeds}
    BY <1>1 DEF Init, Stored, Present
  <2>3. QED
    BY <2>1, <2>2 DEF ScopesStayApart
<1>2. QED
  BY <1>1, Invariance, ScopesStay, PTL DEF Spec

(***************************************************************************)
(* What is final.                                                          *)
(***************************************************************************)

\* A decision is final: a call decides a candidate only while it holds the
\* row and has found it undecided (AlreadyDecided).
THEOREM DecisionsStay == Spec => DecisionsAreFinal
<1>1. ASSUME GovernanceInvariant, [Next]_vars, NEW c \in Candidates,
             decisions[c] # None, decisions[c].status \in Terminal
      PROVE  decisions'[c] = decisions[c]
  <2>1. ASSUME NEW x \in Calls, Commit(x)
        PROVE  decisions'[c] = decisions[c]
    <3>1. c # CandidateOf[x]
      BY <1>1, <2>1, CommitKnows DEF Terminal
    <3>2. QED
      BY <1>1, <2>1, <3>1, CommitDecides
  <2>2. QED
    BY <1>1, <2>1, StepsOfTables
<1>2. ASSUME GovernanceInvariant, [Next]_vars
      PROVE  [\A c \in Candidates :
                (decisions[c] # None /\ decisions[c].status \in Terminal) =>
                    decisions'[c] = decisions[c]]_vars
  BY <1>1, <1>2
<1>3. QED
  BY <1>2, Invariance, PTL DEF Spec, DecisionsAreFinal

\* A memory that was replaced is final: a commit changes active memories only,
\* also when the call has read the memory before it was replaced.
THEOREM ReplacedStay == Spec => ReplacedIsFinal
<1>1. ASSUME GovernanceInvariant, [Next]_vars, NEW r \in Stored,
             r.status = "superseded"
      PROVE  memories'[r.id] = r
  <2>1. r.id \in Present /\ memories[r.id] = r
    BY <1>1, StoredRecords DEF GovernanceInvariant
  <2>2. QED
    BY <1>1, <2>1, CommitVersions, StepsOfTables
<1>2. ASSUME GovernanceInvariant, [Next]_vars
      PROVE  [\A r \in Stored : r.status = "superseded" =>
                                   memories'[r.id] = r]_vars
  BY <1>1, <1>2
<1>3. QED
  BY <1>2, Invariance, PTL DEF Spec, ReplacedIsFinal

(***************************************************************************)
(* History.                                                                *)
(***************************************************************************)

HistoryOf(m) == {v \in versions : v.memory = m}

\* The rows of one memory fit its record.
Fits(rows, r) ==
    /\ {v.version : v \in rows} = 1..r.version
    /\ Cardinality(rows) = r.version
    /\ \E v \in rows : /\ v.version = r.version
                       /\ v.status = r.status
                       /\ v.text = r.text
                       /\ v.evidence = r.evidence

\* The history, and that it is finite, for its size to be one.
HistoryInvariant ==
    \A m \in Present : /\ IsFiniteSet(HistoryOf(m))
                       /\ Fits(HistoryOf(m), memories[m])

\* The invariant is the property, of every record that is stored.
LEMMA HistoryFits ==
  ASSUME TypeOK, HistoryInvariant
  PROVE  HistoryIsComplete
<1> SUFFICES ASSUME NEW r \in Stored
             PROVE  Fits({v \in versions : v.memory = r.id}, r)
  BY DEF HistoryIsComplete, Fits
<1>1. r.id \in Present /\ memories[r.id] = r
  BY StoredRecords
<1>2. QED
  BY <1>1 DEF HistoryInvariant, HistoryOf

\* What the history says of a memory that is there.
LEMMA HistoryFacts ==
  ASSUME TypeOK, HistoryInvariant, NEW m \in Present
  PROVE  /\ memories[m].version \in Nat \ {0}
         /\ {v.version : v \in HistoryOf(m)} = 1..memories[m].version
         /\ Cardinality(HistoryOf(m)) = memories[m].version
         /\ IsFiniteSet(HistoryOf(m))
<1>1. memories[m] \in Stored /\ memories[m] \in MemoryRecords
      /\ memories[m].id = m
  BY StoredRecords
<1>2. memories[m].version \in Nat \ {0}
  BY <1>1, RecordFields
<1>3. QED
  BY <1>1, <1>2 DEF HistoryInvariant, Fits

\* A commit adds one row for each record it writes.
LEMMA CommitAddsVersions ==
  ASSUME GovernanceInvariant, HistoryInvariant, NEW x \in Calls, Commit(x),
         NEW m \in Ids
  PROVE  /\ memories'[m] \notin Written(x) =>
               memories'[m] = memories[m] /\ HistoryOf(m)' = HistoryOf(m)
         /\ memories'[m] \in Written(x) =>
               /\ HistoryOf(m)' =
                     HistoryOf(m) \cup {VersionOf(memories'[m], plan[x])}
               /\ \A v \in HistoryOf(m) : v.version # memories'[m].version
<1> DEFINE r == memories'[m]
           new == {VersionOf(n, plan[x]) : n \in Written(x)}
           isNew(v) == \A w \in versions :
                          <<w.memory, w.version>> # <<v.memory, v.version>>
<1>1. versions' = versions \cup {v \in new : isNew(v)}
  BY DEF Commit
<1>2. \A n \in Written(x) : n.id = m => n = r
  BY WrittenAreStored
<1>3. \A n : /\ VersionOf(n, plan[x]).memory = n.id
             /\ VersionOf(n, plan[x]).version = n.version
  BY DEF VersionOf
<1>4. CASE r \notin Written(x)
  <2>1. \A n \in Written(x) : n.id # m
    BY <1>2, <1>4
  <2>2. \A v \in new : v.memory # m
    BY <1>3, <2>1
  <2>3. HistoryOf(m)' = HistoryOf(m)
    BY <1>1, <2>2 DEF HistoryOf
  <2>4. memories'[m] = memories[m]
    BY <2>1, WrittenAreStored
  <2>5. QED
    BY <1>4, <2>3, <2>4
<1>5. CASE r \in Written(x)
  <2>1. /\ r.id = m
        /\ \/ m \notin Present /\ r.version = 1
           \/ m \in Present /\ r.version = memories[m].version + 1
    <3>1. r \in MemoryRecords
      BY <1>5, WrittenAreStored
    <3>2. r.id = m
      BY <3>1, NoneAssumption, CommitMemories
    <3>3. QED
      BY <1>5, <3>2, WrittenAreStored
  <2>2. \A v \in HistoryOf(m) : v.version # r.version
    <3>1. CASE m \notin Present
      BY <3>1 DEF GovernanceInvariant, TypeOK, HistoryOf
    <3>2. CASE m \in Present
      <4>1. \A v \in HistoryOf(m) : v.version \in 1..memories[m].version
        BY <3>2, HistoryFacts DEF GovernanceInvariant
      <4>2. r.version = memories[m].version + 1 /\ memories[m].version \in Nat
        BY <2>1, <3>2, HistoryFacts DEF GovernanceInvariant
      <4>3. QED
        BY <4>1, <4>2
    <3>3. QED
      BY <3>1, <3>2
  <2>3. isNew(VersionOf(r, plan[x]))
    BY <1>3, <2>1, <2>2 DEF HistoryOf
  <2>4. \A v : v \in HistoryOf(m)' <=>
                  v \in HistoryOf(m) \/ v = VersionOf(r, plan[x])
    BY <1>1, <1>2, <1>3, <1>5, <2>1, <2>3 DEF HistoryOf
  <2>5. HistoryOf(m)' = HistoryOf(m) \cup {VersionOf(r, plan[x])}
    BY <2>4
  <2>6. QED
    BY <1>5, <2>2, <2>5
<1>6. QED
  BY <1>4, <1>5

\* Every step keeps the history.
LEMMA HistoryStays ==
  ASSUME GovernanceInvariant, HistoryInvariant, [Next]_vars
  PROVE  HistoryInvariant'
<1>1. ASSUME NEW x \in Calls, Commit(x)
      PROVE  HistoryInvariant'
  <2>1. TypeOK /\ TypeOK'
    BY <1>1, CommitKeepsTypes DEF GovernanceInvariant
  <2>2. ASSUME NEW m \in Present'
        PROVE  /\ IsFiniteSet(HistoryOf(m)')
               /\ Fits(HistoryOf(m)', memories'[m])
    <3> DEFINE r == memories'[m]
               new == VersionOf(r, plan[x])
    <3>1. m \in Ids /\ r # None
      BY DEF Present
    <3>2. CASE r \notin Written(x)
      <4>1. memories'[m] = memories[m] /\ HistoryOf(m)' = HistoryOf(m)
            /\ m \in Present
        BY <1>1, <3>1, <3>2, CommitAddsVersions DEF Present
      <4>2. QED
        BY <4>1 DEF HistoryInvariant
    <3>3. CASE r \in Written(x)
      <4>1. /\ HistoryOf(m)' = HistoryOf(m) \cup {new}
            /\ \A v \in HistoryOf(m) : v.version # r.version
        BY <1>1, <3>1, <3>3, CommitAddsVersions
      <4>2. /\ new.version = r.version /\ new.status = r.status
            /\ new.text = r.text /\ new.evidence = r.evidence
        BY DEF VersionOf
      <4>3. new \notin HistoryOf(m)
        BY <4>1, <4>2
      <4>4. /\ r.id = m
            /\ \/ m \notin Present /\ r.version = 1
               \/ m \in Present /\ r.version = memories[m].version + 1
        BY <1>1, <2>1, <3>1, <3>3, CommitMemories, WrittenAreStored
      <4> HIDE DEF new
      <4>5. CASE m \notin Present
        <5>1. HistoryOf(m) = {}
          BY <2>1, <4>5 DEF TypeOK, HistoryOf
        <5>2. HistoryOf(m)' = {new}
          BY <4>1, <5>1
        <5>3. IsFiniteSet({new}) /\ Cardinality({new}) = 1
          BY FS_Singleton
        <5>4. {v.version : v \in {new}} = 1..1
          BY <4>2, <4>4, <4>5
        <5>5. QED
          BY <4>2, <4>4, <4>5, <5>2, <5>3, <5>4 DEF Fits
      <4>6. CASE m \in Present
        <5>1. /\ memories[m].version \in Nat \ {0}
              /\ {v.version : v \in HistoryOf(m)} = 1..memories[m].version
              /\ Cardinality(HistoryOf(m)) = memories[m].version
              /\ IsFiniteSet(HistoryOf(m))
          BY <2>1, <4>6, HistoryFacts
        <5>2. /\ IsFiniteSet(HistoryOf(m) \cup {new})
              /\ Cardinality(HistoryOf(m) \cup {new}) =
                    Cardinality(HistoryOf(m)) + 1
          BY <4>3, <5>1, FS_AddElement
        <5>3. {v.version : v \in HistoryOf(m) \cup {new}} =
                 {v.version : v \in HistoryOf(m)} \cup {r.version}
          BY <4>2
        <5>4. (1..memories[m].version) \cup {memories[m].version + 1} =
                 1..(memories[m].version + 1)
          BY <5>1
        <5>5. r.version = memories[m].version + 1
          BY <4>4, <4>6
        <5>6. QED
          BY <4>1, <4>2, <5>1, <5>2, <5>3, <5>4, <5>5 DEF Fits
      <4>7. QED
        BY <4>5, <4>6
    <3>4. QED
      BY <3>2, <3>3
  <2>3. QED
    BY <2>2 DEF HistoryInvariant
<1>2. CASE ~ \E x \in Calls : Commit(x)
  BY <1>2, StepsOfTables
  DEF HistoryInvariant, HistoryOf, Present
<1>3. QED
  BY <1>1, <1>2

\* The history starts with the first version of every memory.
LEMMA InitHistory ==
  ASSUME Init
  PROVE  HistoryInvariant
<1> DEFINE seed(m) == NewRecord(m, SeedShape[m], None)
<1>1. Present = Seeds /\ \A m \in Seeds : memories[m] = seed(m)
  BY SeedRecords, NoneAssumption DEF Init, Present, Ids
<1>2. versions = {VersionOf(seed(m), "create") : m \in Seeds}
  BY DEF Init
<1>3. ASSUME NEW m \in Seeds
      PROVE  HistoryOf(m) = {VersionOf(seed(m), "create")}
  <2>1. \A n \in Seeds : VersionOf(seed(n), "create").memory = n
    BY SeedRecords DEF VersionOf
  <2>2. QED
    BY <1>2, <2>1 DEF HistoryOf
<1>4. ASSUME NEW m \in Seeds
      PROVE  LET v == VersionOf(seed(m), "create")
             IN  /\ seed(m).version = 1 /\ v.version = 1
                 /\ v.status = seed(m).status /\ v.text = seed(m).text
                 /\ v.evidence = seed(m).evidence
                 /\ IsFiniteSet(HistoryOf(m)) /\ Cardinality(HistoryOf(m)) = 1
                 /\ {w.version : w \in HistoryOf(m)} = 1..1
  <2>1. seed(m).version = 1
    BY NewFields
  <2>2. IsFiniteSet(HistoryOf(m)) /\ Cardinality(HistoryOf(m)) = 1
    BY <1>3, FS_Singleton
  <2> HIDE DEF seed
  <2>3. LET v == VersionOf(seed(m), "create")
        IN  /\ v.version = 1 /\ v.status = seed(m).status
            /\ v.text = seed(m).text /\ v.evidence = seed(m).evidence
    BY <2>1 DEF VersionOf
  <2>4. {w.version : w \in HistoryOf(m)} = 1..1
    BY <1>3, <2>3
  <2>5. QED
    BY <2>1, <2>2, <2>3, <2>4
<1>5. QED
  BY <1>1, <1>3, <1>4 DEF HistoryInvariant, Fits

\* Every version a memory ever had is in the history once, and the last one is
\* the memory itself (add_version with ON CONFLICT DO NOTHING).
THEOREM HistoryIsKept == Spec => []HistoryIsComplete
<1>1. GovernanceInvariant /\ HistoryInvariant => HistoryIsComplete
  BY HistoryFits DEF GovernanceInvariant
<1>2. QED
  BY <1>1, InitHistory, HistoryStays, Invariance, PTL DEF Spec

(***************************************************************************)
(* Replacements.                                                           *)
(***************************************************************************)

\* What ReplacementsAreLinked says of a memory.
IsLinked(m) ==
    LET r == memories[m]
    IN  /\ (r.status = "superseded") <=> (r.successor # None)
        /\ r.successor # None =>
              /\ r.successor \in Present
              /\ memories[r.successor].predecessor = m
        /\ r.predecessor # None =>
              /\ r.predecessor \in Present
              /\ memories[r.predecessor].successor = m

LinksInvariant == \A m \in Present : IsLinked(m)

\* The property, of every record that is stored.
LEMMA LinksByMemory ==
  ASSUME TypeOK, LinksInvariant
  PROVE  ReplacementsAreLinked
<1> SUFFICES ASSUME NEW r \in Stored
             PROVE  /\ (r.status = "superseded") = (r.successor # None)
                    /\ r.successor # None =>
                          /\ memories[r.successor] # None
                          /\ memories[r.successor].predecessor = r.id
                    /\ r.predecessor # None =>
                          /\ memories[r.predecessor] # None
                          /\ memories[r.predecessor].successor = r.id
  BY DEF ReplacementsAreLinked
<1>1. r.id \in Present /\ memories[r.id] = r
  BY StoredRecords
<1>2. QED
  BY <1>1 DEF LinksInvariant, IsLinked, Present

\* A commit keeps every link, and makes the new one in both directions.
LEMMA LinksStay ==
  ASSUME GovernanceInvariant, LinksInvariant,
         NEW x \in Calls, Commit(x), NEW m \in Present'
  PROVE  IsLinked(m)'
<1> DEFINE c == CandidateOf[x]
           t == target[x]
           old(n) == memories[n]
           new(n) == memories'[n]
<1>1. TypeOK /\ TypeOK' /\ m \in Ids
  BY CommitKeepsTypes DEF GovernanceInvariant, Present
<1>2. /\ c \in Ids /\ memories[c] = None /\ c \notin Present
      /\ plan[x] \in Changes =>
            /\ t \in MemoryRecords /\ t.id \in Present /\ t.id # c
            /\ t.id \in Ids /\ t.id # None /\ c # None
            /\ memories[t.id] = t /\ t.status = "active"
  BY CommitKnows, NoneAssumption DEF Present
<1>3. plan[x] \in Changes => t.successor = None
  BY <1>2 DEF LinksInvariant, IsLinked
<1>4. ASSUME NEW n \in Present
      PROVE  /\ n \in Present' /\ n # c
             /\ new(n).predecessor = old(n).predecessor
             /\ \/ /\ new(n).successor = old(n).successor
                   /\ new(n).status = old(n).status
                \/ /\ plan[x] = "supersede" /\ n = t.id
                   /\ new(n).successor = c /\ new(n).status = "superseded"
  <2>1. n \in Ids /\ memories[n] # None /\ n \in Present' /\ n # c
    BY <1>2, CommitVersions DEF Present
  <2>2. CASE memories'[n] = memories[n]
    BY <2>1, <2>2
  <2>3. CASE plan[x] \in Changes \ {"supersede"} /\ memories[n] = t
             /\ memories'[n] = Revised(t, c, plan[x])
    BY <1>2, <2>1, <2>3, RevisedFields
  <2>4. CASE plan[x] = "supersede" /\ n = t.id /\ memories[n] = t
             /\ memories'[n] = Linked(Retired(t), c)
    BY <1>2, <2>1, <2>4, RetiredFields DEF Changes
  <2>5. QED
    BY <2>1, <2>2, <2>3, <2>4, CommitOnId
<1>5. CASE m \in Present /\ ~(plan[x] = "supersede" /\ m = t.id)
  <2>1. IsLinked(m)
    BY <1>5 DEF LinksInvariant
  <2>2. /\ new(m).predecessor = old(m).predecessor
        /\ new(m).successor = old(m).successor /\ new(m).status = old(m).status
    BY <1>4, <1>5
  <2>3. old(m).successor # None => /\ old(m).successor \in Present'
                                   /\ new(old(m).successor).predecessor = m
    BY <1>4, <2>1 DEF IsLinked
  <2>4. old(m).predecessor # None => /\ old(m).predecessor \in Present'
                                     /\ new(old(m).predecessor).successor = m
    <3> SUFFICES ASSUME old(m).predecessor # None
                 PROVE  /\ old(m).predecessor \in Present'
                        /\ new(old(m).predecessor).successor = m
      OBVIOUS
    <3> DEFINE p == old(m).predecessor
    <3>1. p \in Present /\ old(p).successor = m
      BY <2>1 DEF IsLinked
    <3>2. m # None
      BY <1>1, NoneAssumption
    <3>3. ~(plan[x] = "supersede" /\ p = t.id)
      BY <1>2, <1>3, <3>1, <3>2 DEF Changes
    <3>4. QED
      BY <1>4, <3>1, <3>3
  <2>5. QED
    BY <2>1, <2>2, <2>3, <2>4 DEF IsLinked
<1>6. CASE plan[x] = "supersede" /\ m = t.id
  <2>1. /\ m \in Present /\ memories'[m] = Linked(Retired(t), c)
        /\ memories'[c] = NewRecord(c, shape[c], t.id)
        /\ NewRecord(c, shape[c], t.id) \in MemoryRecords
    BY <1>1, <1>2, <1>6, CommitWrites, WrittenRecords DEF Changes, TypeOK
  <2>2. /\ new(m).status = "superseded" /\ new(m).successor = c
        /\ new(m).predecessor = t.predecessor
        /\ new(c).predecessor = m /\ c \in Present'
    BY <1>2, <1>6, <2>1, RetiredFields, NewFields, NoneAssumption
    DEF Changes, Present
  <2>3. t.predecessor # None => /\ t.predecessor \in Present'
                                /\ new(t.predecessor).successor = m
    <3> SUFFICES ASSUME t.predecessor # None
                 PROVE  /\ t.predecessor \in Present'
                        /\ new(t.predecessor).successor = m
      OBVIOUS
    <3> DEFINE p == t.predecessor
    <3>1. p \in Present /\ old(p).successor = m
      <4>1. IsLinked(m) /\ old(m) = t
        BY <1>2, <1>6, <2>1 DEF LinksInvariant, Changes
      <4>2. QED
        BY <4>1 DEF IsLinked
    <3>2. p # t.id
      BY <1>2, <1>3, <1>6, <3>1 DEF Changes
    <3>3. QED
      BY <1>4, <3>1, <3>2
  <2>4. c # None
    BY <1>2, <1>6 DEF Changes
  <2>5. QED
    BY <2>2, <2>3, <2>4 DEF IsLinked
<1>7. CASE m \notin Present
  <2>1. memories[m] = None /\ memories'[m] # None
    BY <1>1, <1>7 DEF Present
  <2>2. \/ /\ plan[x] = "create" /\ m = c
           /\ new(m) = NewRecord(c, shape[c], None)
        \/ /\ plan[x] = "supersede" /\ m = c
           /\ new(m) = NewRecord(c, shape[c], t.id)
    <3>1. plan[x] \in Changes => memories[t.id] # None
      BY <1>2 DEF Present
    <3>2. plan[x] \in Changes => m # t.id
      BY <2>1, <3>1
    <3>3. QED
      BY <1>1, <2>1, <3>2, CommitOnId DEF Changes
  <2>3. CASE plan[x] = "create" /\ new(m) = NewRecord(c, shape[c], None)
    BY <2>3, NewFields DEF IsLinked
  <2>4. CASE plan[x] = "supersede" /\ m = c
             /\ new(m) = NewRecord(c, shape[c], t.id)
    <3>1. memories'[t.id] = Linked(Retired(t), c) /\ t.id \in Present'
      BY <1>1, <1>2, <1>4, <2>4, CommitWrites DEF Changes, TypeOK
    <3>2. memories'[t.id].successor = c
      BY <1>2, <2>4, <3>1, RetiredFields DEF Changes
    <3>3. QED
      BY <2>4, <3>1, <3>2, NewFields DEF IsLinked
  <2>5. QED
    BY <2>2, <2>3, <2>4
<1>8. QED
  BY <1>5, <1>6, <1>7

\* Every step keeps memories linked.
LEMMA NextLinks ==
  ASSUME GovernanceInvariant, LinksInvariant, [Next]_vars
  PROVE  LinksInvariant'
<1>1. ASSUME NEW x \in Calls, Commit(x)
      PROVE  LinksInvariant'
  BY <1>1, LinksStay DEF LinksInvariant
<1>2. CASE ~ \E x \in Calls : Commit(x)
  BY <1>2, StepsOfTables DEF LinksInvariant, IsLinked, Present
<1>3. QED
  BY <1>1, <1>2

\* A memory that was replaced and the one that replaced it name each other
\* (_supersede, link_superseded), whichever calls tried to replace it.
THEOREM ReplacementsLink == Spec => []ReplacementsAreLinked
<1>1. ASSUME Init PROVE LinksInvariant
  <2>1. \A m \in Present : memories[m] = NewRecord(m, SeedShape[m], None)
    BY <1>1 DEF Init, Present
  <2>2. QED
    BY <2>1, NewFields DEF LinksInvariant, IsLinked
<1>2. GovernanceInvariant /\ LinksInvariant => ReplacementsAreLinked
  BY LinksByMemory DEF GovernanceInvariant
<1>3. QED
  BY <1>1, <1>2, Invariance, NextLinks, PTL DEF Spec

(***************************************************************************)
(* Decisions.                                                              *)
(***************************************************************************)

Verdicts(c) == {a \in audit : a[1] = c /\ a[2] = "govern"}

\* What a governed candidate leaves in the memory it names and its history.
IsRecorded(c) ==
    LET d == decisions[c]
    IN  /\ d.memory \in Present
        /\ memories[d.memory].version >= d.version
        /\ \E v \in versions : /\ v.memory = d.memory
                               /\ v.version = d.version
                               /\ v.operation = d.action
                               /\ c \in v.evidence

\* What DecisionsAreBacked says of a candidate.
IsBacked(c) ==
    /\ decisions[c] = None \/ decisions[c].status = "pending" =>
          Verdicts(c) = {}
    /\ decisions[c] # None /\ decisions[c].status # "pending" =>
          Verdicts(c) = {<<c, "govern", decisions[c].action>>}
    /\ decisions[c] # None /\ decisions[c].status = "governed" =>
          IsRecorded(c)

BackedInvariant == \A c \in Candidates : IsBacked(c)

\* The property, of every candidate.
LEMMA BackedIsProperty ==
  ASSUME BackedInvariant
  PROVE  DecisionsAreBacked
<1> SUFFICES ASSUME NEW c \in Candidates
             PROVE  LET d == decisions[c]
                        verdicts == {a \in audit : a[1] = c /\ a[2] = "govern"}
                    IN  IF d = None THEN verdicts = {}
                        ELSE /\ d.status = "pending" => verdicts = {}
                             /\ d.status # "pending" =>
                                   verdicts = {<<c, "govern", d.action>>}
                             /\ d.status = "governed" =>
                                  /\ memories[d.memory] # None
                                  /\ memories[d.memory].version >= d.version
                                  /\ \E v \in versions :
                                        /\ v.memory = d.memory
                                        /\ v.version = d.version
                                        /\ v.operation = d.action
                                        /\ c \in v.evidence
  BY DEF DecisionsAreBacked
<1>1. IsBacked(c)
  BY DEF BackedInvariant
<1>2. QED
  BY <1>1 DEF IsBacked, Verdicts, IsRecorded, Present

\* A commit writes the audit row, the memory and its history for the decision.
LEMMA CommitIsBacked ==
  ASSUME GovernanceInvariant, HistoryInvariant, BackedInvariant,
         NEW x \in Calls, Commit(x)
  PROVE  BackedInvariant'
<1> DEFINE c == CandidateOf[x]
           result == Result(x)
<1>1. TypeOK /\ TypeOK'
  BY CommitKeepsTypes DEF GovernanceInvariant
<1>2. /\ c \in Candidates /\ decisions[c] \in Decisions
      /\ decisions[c].status = "pending"
  BY CommitKnows
<1>3. /\ decisions'[c] = result /\ result \in Decisions
      /\ \A d \in Candidates \ {c} : decisions'[d] = decisions[d]
      /\ result.action = plan[x] /\ result.status # "pending"
  <2>1. plan[x] \in {"create", "defer", "ignore"} \cup Changes
    BY CommitKnows
  <2>2. QED
    BY <2>1, CommitDecides DEF Changes
<1>4. audit' = audit \cup {<<c, "govern", plan[x]>>}
  BY DEF Commit
<1>5. \A d : d # c => Verdicts(d)' = Verdicts(d)
  BY <1>4 DEF Verdicts
<1>6. Verdicts(c)' = {<<c, "govern", plan[x]>>}
  <2>1. Verdicts(c) = {}
    BY <1>2 DEF BackedInvariant, IsBacked
  <2>2. QED
    BY <1>4, <2>1 DEF Verdicts
<1>7. versions \subseteq versions'
  BY DEF Commit
<1>8. ASSUME NEW d \in Candidates, d # c PROVE IsBacked(d)'
  <2>1. IsBacked(d) /\ decisions'[d] = decisions[d] /\ Verdicts(d)' = Verdicts(d)
    BY <1>3, <1>5, <1>8 DEF BackedInvariant
  <2>2. ASSUME decisions[d] # None, decisions[d].status = "governed"
        PROVE  IsRecorded(d)'
    <3> DEFINE m == decisions[d].memory
    <3>1. IsRecorded(d) /\ m \in Present
      BY <2>1, <2>2 DEF IsBacked, IsRecorded
    <3>2. memories[m].version \in Nat /\ decisions[d].version \in Nat
      <4>1. decisions[d] \in Decisions
        BY <1>1, <2>2 DEF TypeOK
      <4>2. memories[m] \in MemoryRecords
        BY <1>1, <3>1 DEF TypeOK, Present
      <4>3. QED
        BY <4>1, <4>2, RecordFields DEF Decisions
    <3>3. m \in Present' /\ memories'[m].version >= memories[m].version
      BY <3>1, <3>2, CommitVersions
    <3>4. memories'[m].version \in Nat
      BY <3>1, <3>2, CommitVersions
    <3>5. memories'[m].version >= decisions[d].version
      BY <3>1, <3>2, <3>3, <3>4 DEF IsRecorded
    <3>6. QED
      BY <1>7, <2>1, <3>1, <3>3, <3>5 DEF IsRecorded
  <2>3. QED
    BY <2>1, <2>2 DEF IsBacked
<1>9. IsBacked(c)'
  <2>1. ASSUME result.status = "governed" PROVE IsRecorded(c)'
    <3>1. PICK m \in Present' :
             /\ m = result.memory /\ c \in memories'[m].evidence
             /\ memories'[m].version = result.version
             /\ memories'[m] \in Written(x)
      BY <2>1, CommitContributes
    <3> DEFINE r == memories'[m]
               v == VersionOf(r, plan[x])
    <3>2. m \in Ids /\ r \in MemoryRecords /\ r.id = m
      BY <1>1, <3>1 DEF TypeOK, Present
    <3>3. v \in HistoryOf(m)'
      BY <3>1, <3>2, CommitAddsVersions
    <3>4. v \in versions'
      BY <3>3 DEF HistoryOf
    <3>5. /\ v.memory = m /\ v.version = result.version
          /\ v.operation = plan[x] /\ c \in v.evidence
      BY <3>1, <3>2 DEF VersionOf
    <3>6. r.version >= result.version
      BY <3>1, <3>2, RecordFields
    <3> HIDE DEF v
    <3>7. QED
      BY <1>3, <3>1, <3>4, <3>5, <3>6 DEF IsRecorded
  <2>2. QED
    BY <1>3, <1>6, <2>1, NoneAssumption DEF IsBacked
<1>10. QED
  BY <1>8, <1>9 DEF BackedInvariant

\* Every step keeps decisions backed.
LEMMA NextIsBacked ==
  ASSUME GovernanceInvariant, HistoryInvariant, BackedInvariant, [Next]_vars
  PROVE  BackedInvariant'
<1>1. CASE ~ \E x \in Calls : Commit(x)
  <2>1. \A c : Verdicts(c)' = Verdicts(c)
    BY <1>1, StepsOfTables DEF Verdicts
  <2>2. QED
    BY <1>1, <2>1, StepsOfTables
    DEF BackedInvariant, IsBacked, IsRecorded, Present
<1>2. QED
  BY <1>1, CommitIsBacked

\* A decision and all it stands for appear together: the audit row, the memory
\* and its row in the history (govern, one transaction for each candidate).
THEOREM DecisionsHaveBacking == Spec => []DecisionsAreBacked
<1>1. ASSUME Init PROVE BackedInvariant
  BY <1>1 DEF Init, BackedInvariant, IsBacked, Verdicts
<1>2. BackedInvariant => DecisionsAreBacked
  BY BackedIsProperty
<1>3. QED
  BY <1>1, <1>2, NextIsBacked, InitHistory, HistoryStays, Invariance, PTL
  DEF Spec

(***************************************************************************)
(* Indexes.                                                                *)
(***************************************************************************)

IndexTriple(p) == <<p.memory, p.version, p.type>>

IndexInvariant ==
    /\ \A p : p \in projections /\ p.status # "stale" <=>
                 \E r \in Stored : p \in ProjectionsOf(r)
    /\ \A r \in Stored : r.status = "active" => r.confident = TRUE /\ r.fresh = TRUE
    /\ {IndexTriple(p) : p \in projections} = jobs

\* The property, from its three parts.
LEMMA IndexProperty ==
  ASSUME IndexInvariant
  PROVE  IndexesFollowMemories
<1>1. {p \in projections : p.status # "stale"} = UNION {ProjectionsOf(r) : r \in Stored}
  BY DEF IndexInvariant
<1>2. \A r \in Stored :
         r.status = "active" => {"exact", "cache"} \subseteq IndexTypes(r)
  BY DEF IndexInvariant, IndexTypes, IndexKinds, IsProjected, Suits
<1>3. {<<p.memory, p.version, p.type>> : p \in projections} = jobs
  BY DEF IndexInvariant, IndexTriple
<1>4. QED
  BY <1>1, <1>2, <1>3 DEF IndexesFollowMemories

\* The projections of a record are about it, are not stale, and each of its
\* jobs builds one of them.
LEMMA ProjectionFields ==
  ASSUME NEW r
  PROVE  /\ \A p \in ProjectionsOf(r) :
               p.memory = r.id /\ p.version = r.version /\ p.status = "pending"
         /\ {IndexTriple(p) : p \in ProjectionsOf(r)} = JobsOf(r)
<1>1. \A ty : LET p == [memory |-> r.id, version |-> r.version, type |-> ty,
                        status |-> "pending"]
              IN  /\ p.memory = r.id /\ p.version = r.version
                  /\ p.status = "pending"
                  /\ IndexTriple(p) = <<r.id, r.version, ty>>
  BY DEF IndexTriple
<1>2. QED
  BY <1>1 DEF ProjectionsOf, JobsOf

\* A commit stales the projections of the version it replaces, and plans those
\* of the records it writes.
LEMMA CommitIndexes ==
  ASSUME GovernanceInvariant, IndexInvariant, NEW x \in Calls, Commit(x)
  PROVE  IndexInvariant'
<1> DEFINE c == CandidateOf[x]
           t == target[x]
           old == IF t = None THEN {} ELSE Staled(t)
           stale == {[p EXCEPT !.status = "stale"] : p \in old}
           planned == UNION {ProjectionsOf(r) : r \in Written(x)}
<1>1. TypeOK /\ TypeOK'
  BY CommitKeepsTypes DEF GovernanceInvariant
<1>2. /\ projections' = (projections \ old) \cup stale \cup planned
      /\ jobs' = jobs \cup UNION {JobsOf(r) : r \in Written(x)}
  BY DEF Commit
<1>3. /\ (t # None) <=> (plan[x] \in Changes)
      /\ t # None => /\ t \in MemoryRecords /\ t.id \in Ids
                     /\ t.id \in Present /\ memories[t.id] = t
                     /\ t.status = "active"
  BY CommitKnows, NoneAssumption DEF Present
<1>4. old \subseteq projections
  BY DEF Staled
<1>5. \A p \in projections : p = [memory |-> p.memory, version |-> p.version,
                                  type |-> p.type, status |-> p.status]
  BY <1>1 DEF TypeOK
<1>6. \A p \in projections : LET q == [p EXCEPT !.status = "stale"]
                             IN  /\ q.status = "stale"
                                 /\ IndexTriple(q) = IndexTriple(p)
  BY <1>1 DEF TypeOK, IndexTriple
<1>7. /\ \A r \in Stored' : r.id \in Ids /\ memories'[r.id] = r
      /\ \A r \in Stored : r.id \in Ids /\ r.id \in Present
                           /\ r \in MemoryRecords /\ memories[r.id] = r
      /\ \A r \in Written(x) : r \in Stored' /\ r.id \in Ids
                               /\ memories'[r.id] = r /\ r \in MemoryRecords
  <2>1. \A r \in Stored' : r.id \in Ids /\ memories'[r.id] = r
    BY <1>1 DEF TypeOK, Stored, Present
  <2>2. \A r \in Written(x) : r.id \in Ids /\ r \in MemoryRecords
                              /\ memories'[r.id] = r
    BY WrittenAreStored
  <2>3. \A r \in Written(x) : r \in Stored'
    BY <2>2, NoneAssumption DEF Stored, Present
  <2>4. QED
    BY <1>1, <2>1, <2>2, <2>3, StoredRecords
<1>8. t # None => \A r \in Stored' : r.id = t.id => r \in Written(x)
  <2>1. CASE plan[x] = "supersede"
    BY <1>1, <1>3, <1>7, <2>1, CommitKnows, CommitWrites DEF TypeOK
  <2>2. CASE plan[x] \in Changes \ {"supersede"}
    BY <1>1, <1>3, <1>7, <2>2, CommitWrites DEF TypeOK
  <2>3. QED
    BY <1>3, <2>1, <2>2 DEF Changes
<1>9. \A r \in Stored' : r \in Written(x) \/ r \in Stored
  <2>1. ASSUME NEW r \in Stored', r \notin Written(x) PROVE r \in Stored
    <3>1. \A n \in Written(x) : n.id # r.id
      BY <1>7, <2>1
    <3>2. memories[r.id] = r
      BY <1>7, <3>1, WrittenAreStored
    <3>3. memories'[r.id] # None
      BY <1>1, <1>7 DEF TypeOK, Stored, Present
    <3>4. QED
      BY <1>7, <3>2, <3>3 DEF Stored, Present
  <2>2. QED
    BY <2>1
<1>10. \A r \in Stored : \/ r \in Stored'
                         \/ t # None /\ r = t
  <2>1. ASSUME NEW r \in Stored, ~(t # None /\ r = t) PROVE r \in Stored'
    <3>1. \A n \in Written(x) : n.id # r.id
      <4>1. r.id \in Present /\ memories[r.id] = r
        BY <1>7
      <4>2. QED
        BY <1>3, <2>1, <4>1, WrittenAreStored
    <3>2. memories'[r.id] = r
      BY <1>7, <3>1, WrittenAreStored
    <3>3. memories'[r.id] # None
      BY <1>7, <3>2, NoneAssumption
    <3>4. QED
      BY <1>7, <3>2, <3>3 DEF Stored, Present
  <2>2. QED
    BY <2>1
<1> HIDE DEF old, stale, planned
<1>11. ASSUME NEW p
       PROVE  p \in projections' /\ p.status # "stale" <=>
                 \E r \in Stored' : p \in ProjectionsOf(r)
  <2>1. p \in planned <=> \E r \in Written(x) : p \in ProjectionsOf(r)
    BY DEF planned
  <2>2. p \in stale => p.status = "stale"
    BY <1>4, <1>6 DEF stale
  <2>3. p \in projections /\ p.status # "stale" <=>
           \E r \in Stored : p \in ProjectionsOf(r)
    BY DEF IndexInvariant
  <2>4. p \in old <=> /\ t # None /\ p \in projections
                      /\ p.memory = t.id /\ p.version = t.version
    BY DEF old, Staled
  <2>5. ASSUME p \in projections', p.status # "stale"
        PROVE  \E r \in Stored' : p \in ProjectionsOf(r)
    <3>1. CASE p \in planned
      BY <1>7, <2>1, <3>1
    <3>2. CASE p \in projections \ old
      <4>1. PICK r \in Stored : p \in ProjectionsOf(r)
        BY <2>3, <2>5, <3>2
      <4>2. ~(t # None /\ r = t)
        BY <2>4, <3>2, <4>1, ProjectionFields
      <4>3. QED
        BY <1>10, <4>1, <4>2
    <3>3. QED
      BY <1>2, <2>2, <2>5, <3>1, <3>2
  <2>6. ASSUME NEW r \in Stored', p \in ProjectionsOf(r)
        PROVE  p \in projections' /\ p.status # "stale"
    <3>1. p.status # "stale" /\ p.memory = r.id
      BY <2>6, ProjectionFields
    <3>2. CASE r \in Written(x)
      BY <1>2, <2>1, <2>6, <3>1, <3>2
    <3>3. CASE r \notin Written(x)
      <4>1. p \in projections
        BY <1>9, <2>3, <2>6, <3>3
      <4>2. p \notin old
        BY <1>8, <2>4, <3>1, <3>3
      <4>3. QED
        BY <1>2, <3>1, <4>1, <4>2
    <3>4. QED
      BY <3>2, <3>3
  <2>7. QED
    BY <2>5, <2>6
<1>12. \A r \in Stored' : r.status = "active" => r.confident = TRUE /\ r.fresh = TRUE
  <2>1. \A r \in Stored : r.status = "active" => r.confident = TRUE /\ r.fresh = TRUE
    BY DEF IndexInvariant
  <2>2. ASSUME NEW r \in Written(x), r.status = "active"
        PROVE  r.confident = TRUE /\ r.fresh = TRUE
    <3>1. /\ plan[x] \in {"create"} \cup Changes => shape[c].flaws = {}
          /\ \/ plan[x] \in {"create", "defer", "ignore"}
             \/ plan[x] \in Changes
      BY CommitKnows
    <3>2. shape[c].flaws = {}
      BY <2>2, <3>1, CommitWrites
    <3>3. \A q : /\ NewRecord(c, shape[c], q).confident = TRUE
                 /\ NewRecord(c, shape[c], q).fresh = TRUE
      BY <3>2, NewFields
    <3>4. CASE r \in {NewRecord(c, shape[c], None), NewRecord(c, shape[c], t.id)}
      BY <3>3, <3>4
    <3>5. CASE plan[x] \in Changes /\ r = Revised(t, c, plan[x])
      <4>1. t.confident = TRUE /\ t.fresh = TRUE
        BY <1>3, <2>1, <3>5 DEF Stored
      <4>2. r.confident /\ r.fresh
        BY <1>3, <3>5, <4>1, RevisedFields
      <4>3. r.confident \in BOOLEAN /\ r.fresh \in BOOLEAN
        BY <1>7, RecordFields
      <4>4. QED
        BY <4>2, <4>3
    <3>6. CASE plan[x] \in Changes /\ r = Linked(Retired(t), c)
      BY <1>3, <2>2, <3>6, RetiredFields
    <3>7. CASE plan[x] \in {"create", "defer", "ignore"}
      BY <2>2, <3>4, <3>7, CommitWrites
    <3>8. CASE plan[x] \in Changes \ {"supersede"}
      <4>1. r = Revised(t, c, plan[x])
        BY <2>2, <3>8, CommitWrites
      <4>2. QED
        BY <3>5, <3>8, <4>1
    <3>9. CASE plan[x] = "supersede"
      BY <2>2, <3>4, <3>6, <3>9, CommitWrites DEF Changes
    <3>10. QED
      BY <3>1, <3>7, <3>8, <3>9
  <2>3. QED
    BY <1>9, <2>1, <2>2
<1>13. {IndexTriple(p) : p \in projections'} = jobs'
  <2>1. {IndexTriple(p) : p \in projections} = jobs
    BY DEF IndexInvariant
  <2>2. {IndexTriple(p) : p \in stale} = {IndexTriple(p) : p \in old}
    BY <1>4, <1>6 DEF stale
  <2>3. {IndexTriple(p) : p \in planned} = UNION {JobsOf(r) : r \in Written(x)}
    BY ProjectionFields DEF planned
  <2>4. {IndexTriple(p) : p \in projections'} =
           {IndexTriple(p) : p \in projections \ old}
           \cup {IndexTriple(p) : p \in stale}
           \cup {IndexTriple(p) : p \in planned}
    BY <1>2
  <2>5. {IndexTriple(p) : p \in projections \ old}
           \cup {IndexTriple(p) : p \in old} = {IndexTriple(p) : p \in projections}
    BY <1>4
  <2>6. QED
    BY <1>2, <2>1, <2>2, <2>3, <2>4, <2>5
<1>14. QED
  BY <1>11, <1>12, <1>13 DEF IndexInvariant, IndexTriple

\* Every step keeps the indexes with the memories.
LEMMA NextIndexes ==
  ASSUME GovernanceInvariant, IndexInvariant, [Next]_vars
  PROVE  IndexInvariant'
<1>1. CASE ~ \E x \in Calls : Commit(x)
  BY <1>1, StepsOfTables DEF IndexInvariant, Stored, Present
<1>2. QED
  BY <1>1, CommitIndexes

\* The indexes hold the seeds at the start.
LEMMA InitIndexes ==
  ASSUME Init
  PROVE  IndexInvariant
<1> DEFINE seed(m) == NewRecord(m, SeedShape[m], None)
           all == {seed(m) : m \in Seeds}
<1>1. Stored = all
  BY SeedRecords, NoneAssumption DEF Init, Stored, Present, Ids
<1>2. /\ projections = UNION {ProjectionsOf(r) : r \in all}
      /\ jobs = UNION {JobsOf(r) : r \in all}
  BY DEF Init
<1>3. \A r \in all : r.confident = TRUE /\ r.fresh = TRUE
  <2>1. \A m \in Seeds : SeedShape[m].flaws = {}
    BY ConstantsAssumption
  <2>2. \A m \in Seeds : /\ seed(m).confident = ("confidence" \notin {})
                       /\ seed(m).fresh = ("outdated" \notin {})
    BY <2>1, NewFields
  <2>3. QED
    BY <2>2
<1> HIDE DEF all
<1>4. \A p : p \in projections /\ p.status # "stale" <=>
                \E r \in Stored : p \in ProjectionsOf(r)
  BY <1>1, <1>2, ProjectionFields
<1>5. {IndexTriple(p) : p \in projections} = jobs
  BY <1>2, ProjectionFields
<1>6. QED
  BY <1>1, <1>3, <1>4, <1>5 DEF IndexInvariant

\* Indexes are to be built for the current versions of the active memories and
\* for nothing else (set_projection_status, ProjectionPlanner.plan).
THEOREM IndexesFollow == Spec => []IndexesFollowMemories
<1>1. IndexInvariant => IndexesFollowMemories
  BY IndexProperty
<1>2. QED
  BY <1>1, InitIndexes, NextIndexes, Invariance, PTL DEF Spec

(***************************************************************************)
(* The ledger.                                                             *)
(***************************************************************************)

\* What a commit shows of the decision: one pending candidate is decided.
LEMMA CommitShowsDecision ==
  ASSUME GovernanceInvariant, NEW x \in Calls, Commit(x)
  PROVE  /\ LedgerDecision[CandidateOf[x]] = "pending"
         /\ LedgerDecision' =
               [LedgerDecision EXCEPT ![CandidateOf[x]] = Result(x).status]
<1> DEFINE c == CandidateOf[x]
<1>1. /\ c \in Candidates /\ decisions[c] # None
      /\ decisions[c].status = "pending"
  BY CommitKnows, NoneAssumption
<1>2. /\ decisions'[c] = Result(x) /\ decisions'[c] # None
      /\ \A d \in Candidates \ {c} : decisions'[d] = decisions[d]
  BY CommitDecides, NoneAssumption
<1>3. QED
  BY <1>1, <1>2 DEF LedgerDecision

\* A candidate that is turned away changes no memory.
LEMMA LedgerTurn ==
  ASSUME GovernanceInvariant, NEW x \in Calls, Commit(x),
         plan[x] \in {"defer", "ignore"}
  PROVE  Ledger!Turn(CandidateOf[x])
<1>1. /\ Result(x).status \in {"deferred", "ignored"} /\ memories' = memories
  BY CommitDecides
<1>2. UNCHANGED <<LedgerStatus, LedgerVersion, LedgerKey, LedgerSuccessor,
                  LedgerEvidence>>
  BY <1>1 DEF LedgerStatus, LedgerVersion, LedgerKey, LedgerSuccessor,
              LedgerEvidence
<1>3. QED
  BY <1>1, <1>2, CommitShowsDecision DEF Ledger!Turn, Ledger!Decide

\* A new memory appears at version one under a key no active memory holds.
LEMMA LedgerCreate ==
  ASSUME GovernanceInvariant, NEW x \in Calls, Commit(x), plan[x] = "create"
  PROVE  Ledger!Create(CandidateOf[x])
<1> DEFINE c == CandidateOf[x]
           new == NewRecord(c, shape[c], None)
<1>1. /\ c \in Ids /\ memories[c] = None /\ target[x] = None
      /\ memories \in [Ids -> MemoryRecords \cup {None}]
  BY CommitKnows DEF GovernanceInvariant, TypeOK
<1>2. memories' = [memories EXCEPT ![c] = new] /\ new \in MemoryRecords
  BY CommitWrites, WrittenRecords
<1>3. /\ new # None /\ new.status = "active" /\ new.version = 1
      /\ new.slot = KeyOf(x) /\ new.evidence = {c} /\ new.successor = None
  BY <1>2, NewFields, NoneAssumption DEF KeyOf
<1>4. \A m \in Ids : memories[m] # None /\ memories[m].status = "active" =>
                         memories[m].slot # KeyOf(x)
  BY <1>1 DEF GovernanceInvariant, CallPart, KeyIsHeld, Inserted, Present, Commit
<1> HIDE DEF new
<1>5. /\ memories'[c] = new
      /\ \A m \in Ids : m # c => memories'[m] = memories[m]
  BY <1>1, <1>2
<1>6. /\ LedgerStatus[c] = "absent"
      /\ LedgerStatus' = [LedgerStatus EXCEPT ![c] = "active"]
      /\ LedgerVersion' = [LedgerVersion EXCEPT ![c] = 1]
      /\ LedgerEvidence' = [LedgerEvidence EXCEPT ![c] = {c}]
      /\ LedgerSuccessor' = LedgerSuccessor
  BY <1>1, <1>3, <1>5
  DEF LedgerStatus, LedgerVersion, LedgerEvidence, LedgerSuccessor
<1>7. /\ \A m \in Ids \ {c} : LedgerStatus'[m] = "active" =>
                                 LedgerKey'[m] # LedgerKey'[c]
      /\ \A m \in Ids : LedgerStatus'[m] = "active" =>
                           m = c \/ LedgerKey'[m] = LedgerKey[m]
  BY <1>1, <1>3, <1>4, <1>5 DEF LedgerStatus, LedgerKey
<1>8. Result(x).status = "governed"
  BY CommitDecides
<1>9. Ledger!Adds(c, LedgerStatus)
  BY <1>6, <1>7 DEF Ledger!Adds
<1>10. QED
  BY <1>6, <1>8, <1>9, CommitShowsDecision DEF Ledger!Create, Ledger!Decide

\* A revision is the next version of an active memory, with the candidate.
LEMMA LedgerRevise ==
  ASSUME GovernanceInvariant, NEW x \in Calls, Commit(x),
         plan[x] \in Changes \ {"supersede"}
  PROVE  \E m \in Ids : Ledger!Revise(CandidateOf[x], m)
<1> DEFINE c == CandidateOf[x]
           t == target[x]
           new == Revised(t, c, plan[x])
<1>1. /\ c \in Ids /\ t \in MemoryRecords /\ t.id \in Ids /\ t # None
      /\ memories[t.id] = t /\ t.status = "active"
      /\ memories \in [Ids -> MemoryRecords \cup {None}]
  BY CommitKnows, NoneAssumption DEF GovernanceInvariant, TypeOK
<1>2. memories' = [memories EXCEPT ![t.id] = new] /\ new \in MemoryRecords
  BY CommitWrites, WrittenRecords
<1>3. /\ new # None /\ new.status = t.status /\ new.version = t.version + 1
      /\ new.slot = t.slot /\ new.evidence = t.evidence \cup {c}
      /\ new.successor = t.successor
  BY <1>1, <1>2, RevisedFields, NoneAssumption
<1> HIDE DEF new
<1>4. /\ memories'[t.id] = new
      /\ \A m \in Ids : m # t.id => memories'[m] = memories[m]
  BY <1>1, <1>2
<1>5. /\ LedgerStatus[t.id] = "active"
      /\ LedgerVersion' = [LedgerVersion EXCEPT ![t.id] = @ + 1]
      /\ LedgerEvidence' = [LedgerEvidence EXCEPT ![t.id] = @ \cup {c}]
      /\ UNCHANGED <<LedgerStatus, LedgerKey, LedgerSuccessor>>
  <2> USE <1>1, <1>3, <1>4
  <2>1. LedgerStatus[t.id] = "active" /\ LedgerStatus' = LedgerStatus
    BY DEF LedgerStatus
  <2>2. LedgerVersion' = [LedgerVersion EXCEPT ![t.id] = @ + 1]
    BY DEF LedgerVersion
  <2>3. LedgerEvidence' = [LedgerEvidence EXCEPT ![t.id] = @ \cup {c}]
    BY DEF LedgerEvidence
  <2>4. LedgerKey' = LedgerKey /\ LedgerSuccessor' = LedgerSuccessor
    BY DEF LedgerKey, LedgerSuccessor
  <2>5. QED
    BY <2>1, <2>2, <2>3, <2>4
<1>6. Result(x).status = "governed"
  BY CommitDecides
<1>7. QED
  BY <1>1, <1>5, <1>6, CommitShowsDecision DEF Ledger!Revise, Ledger!Decide

\* A replacement retires an active memory and adds the new one in one step.
LEMMA LedgerSupersede ==
  ASSUME GovernanceInvariant, NEW x \in Calls, Commit(x), plan[x] = "supersede"
  PROVE  \E m \in Ids : Ledger!Supersede(CandidateOf[x], m)
<1> DEFINE c == CandidateOf[x]
           t == target[x]
           old == Linked(Retired(t), c)
           new == NewRecord(c, shape[c], t.id)
<1>1. /\ c \in Ids /\ t \in MemoryRecords /\ t.id \in Ids /\ t # None
      /\ t.id # c /\ memories[c] = None
      /\ memories[t.id] = t /\ t.status = "active"
      /\ memories \in [Ids -> MemoryRecords \cup {None}]
  BY CommitKnows, NoneAssumption DEF GovernanceInvariant, TypeOK, Changes
<1>2. /\ memories' = [memories EXCEPT ![t.id] = old, ![c] = new]
      /\ old \in MemoryRecords /\ new \in MemoryRecords
  BY CommitWrites, WrittenRecords DEF Changes
<1>3. /\ new # None /\ new.status = "active" /\ new.version = 1
      /\ new.slot = KeyOf(x) /\ new.evidence = {c} /\ new.successor = None
      /\ old # None /\ old.status = "superseded"
      /\ old.version = t.version + 1 /\ old.evidence = t.evidence
      /\ old.successor = c
  BY <1>1, <1>2, NewFields, RetiredFields, NoneAssumption DEF KeyOf
<1>4. \A m \in Ids : memories[m] # None /\ memories[m].status = "active"
                     /\ memories[m].slot = KeyOf(x) => m = t.id
  BY <1>1 DEF GovernanceInvariant, CallPart, KeyIsHeld, Inserted, Present, Commit
<1> HIDE DEF new, old
<1>5. /\ memories'[c] = new /\ memories'[t.id] = old
      /\ \A m \in Ids : m # c /\ m # t.id => memories'[m] = memories[m]
  BY <1>1, <1>2
<1>6. /\ LedgerStatus[c] = "absent" /\ LedgerStatus[t.id] = "active"
      /\ LedgerStatus' =
            [[LedgerStatus EXCEPT ![t.id] = "superseded"] EXCEPT ![c] = "active"]
      /\ LedgerVersion' = [LedgerVersion EXCEPT ![t.id] = @ + 1, ![c] = 1]
      /\ LedgerSuccessor' = [LedgerSuccessor EXCEPT ![t.id] = c]
      /\ LedgerEvidence' = [LedgerEvidence EXCEPT ![c] = {c}]
  <2> USE <1>1, <1>3, <1>5
  <2>1. /\ LedgerStatus[c] = "absent" /\ LedgerStatus[t.id] = "active"
        /\ LedgerStatus' = [[LedgerStatus EXCEPT ![t.id] = "superseded"]
                                            EXCEPT ![c] = "active"]
    BY DEF LedgerStatus
  <2>2. LedgerVersion' = [LedgerVersion EXCEPT ![t.id] = @ + 1, ![c] = 1]
    BY DEF LedgerVersion
  <2>3. LedgerSuccessor' = [LedgerSuccessor EXCEPT ![t.id] = c]
    BY DEF LedgerSuccessor
  <2>4. LedgerEvidence' = [LedgerEvidence EXCEPT ![c] = {c}]
    BY DEF LedgerEvidence
  <2>5. QED
    BY <2>1, <2>2, <2>3, <2>4
<1>7. /\ \A m \in Ids \ {c} : LedgerStatus'[m] = "active" =>
                                 LedgerKey'[m] # LedgerKey'[c]
      /\ \A m \in Ids : LedgerStatus'[m] = "active" =>
                           m = c \/ LedgerKey'[m] = LedgerKey[m]
  BY <1>1, <1>3, <1>4, <1>5 DEF LedgerStatus, LedgerKey
<1>8. Result(x).status = "governed"
  BY CommitDecides
<1>9. Ledger!Adds(c, [LedgerStatus EXCEPT ![t.id] = "superseded"])
  BY <1>6, <1>7 DEF Ledger!Adds
<1>10. Ledger!Supersede(c, t.id)
  BY <1>6, <1>8, <1>9, CommitShowsDecision DEF Ledger!Supersede, Ledger!Decide
<1>11. QED
  BY <1>1, <1>10

\* Any other step leaves what can be seen as it is.
LEMMA LedgerStutters ==
  ASSUME [Next]_vars, ~ \E x \in Calls : Commit(x)
  PROVE  UNCHANGED Ledger!vars
  BY StepsOfTables
  DEF Ledger!vars, LedgerStatus, LedgerVersion, LedgerKey, LedgerSuccessor,
      LedgerEvidence, LedgerDecision

\* The ledger at the start.
LEMMA LedgerInit ==
  ASSUME Init
  PROVE  Ledger!Init
<1> DEFINE seed(m) == NewRecord(m, SeedShape[m], None)
<1>1. \A m \in Ids : /\ m \in Seeds => memories[m] = seed(m) /\ seed(m) # None
                     /\ m \notin Seeds => memories[m] = None
  BY SeedRecords, NoneAssumption DEF Init
<1>2. \A m \in Seeds : /\ seed(m).status = "active" /\ seed(m).version = 1
                       /\ seed(m).slot = LiveSlot(SeedShape[m])
                       /\ seed(m).evidence = {m} /\ seed(m).successor = None
  BY NewFields
<1> HIDE DEF seed
<1>3. \A m, n \in Seeds : m # n => seed(m).slot # seed(n).slot
  BY <1>2, ConstantsAssumption DEF LiveSlot
<1>4. /\ LedgerStatus \in [Ids -> {"absent", "active"}]
      /\ LedgerVersion = [m \in Ids |-> IF LedgerStatus[m] = "active"
                                        THEN 1 ELSE 0]
      /\ LedgerSuccessor = [m \in Ids |-> None]
      /\ LedgerEvidence = [m \in Ids |-> IF LedgerStatus[m] = "active"
                                         THEN {m} ELSE {}]
  <2> USE <1>1, <1>2
  <2>1. /\ LedgerStatus \in [Ids -> {"absent", "active"}]
        /\ \A m \in Ids : LedgerStatus[m] = "active" <=> m \in Seeds
    BY DEF LedgerStatus
  <2>2. LedgerVersion = [m \in Ids |-> IF LedgerStatus[m] = "active"
                                       THEN 1 ELSE 0]
    BY <2>1 DEF LedgerVersion
  <2>3. LedgerSuccessor = [m \in Ids |-> None]
    BY DEF LedgerSuccessor
  <2>4. LedgerEvidence = [m \in Ids |-> IF LedgerStatus[m] = "active"
                                        THEN {m} ELSE {}]
    BY <2>1 DEF LedgerEvidence
  <2>5. QED
    BY <2>1, <2>2, <2>3, <2>4
<1>5. \A m, n \in Ids :
         LedgerStatus[m] = "active" /\ LedgerStatus[n] = "active" =>
            (m # n => LedgerKey[m] # LedgerKey[n])
  BY <1>1, <1>3 DEF LedgerStatus, LedgerKey
<1>6. LedgerDecision \in [Candidates -> {"absent", "pending"}]
  BY DEF Init, LedgerDecision
<1>7. QED
  BY <1>4, <1>5, <1>6 DEF Ledger!Init

\* Calls that interleave statement by statement decide candidates one at a
\* time: each transaction takes effect as one step of the ledger, and no two
\* active memories ever hold one key.
THEOREM CallsKeepLedger == Spec => KeepsLedger
<1>1. Init => Ledger!Init
  BY LedgerInit
<1>2. GovernanceInvariant /\ [Next]_vars => [Ledger!Next]_(Ledger!vars)
  <2> SUFFICES ASSUME GovernanceInvariant, [Next]_vars
               PROVE  Ledger!Next \/ UNCHANGED Ledger!vars
    OBVIOUS
  <2>1. ASSUME NEW x \in Calls, Commit(x)
        PROVE  Ledger!Next
    <3>1. CandidateOf[x] \in Candidates
          /\ plan[x] \in {"create", "defer", "ignore"} \cup Changes
      BY <2>1, CommitKnows
    <3>2. QED
      BY <2>1, <3>1, LedgerTurn, LedgerCreate, LedgerRevise, LedgerSupersede
      DEF Ledger!Next
  <2>2. QED
    BY <2>1, LedgerStutters
<1>3. QED
  BY <1>1, <1>2, Invariance, PTL DEF Spec, KeepsLedger, Ledger!Spec

=============================================================================
