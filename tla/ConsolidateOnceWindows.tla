------------------------ MODULE ConsolidateOnceWindows ------------------------
(***************************************************************************)
(* What the published tables of ConsolidateOnce say of one another, for    *)
(* all values of its constants: windows, their siblings, their count, what *)
(* callers and the Working Memory are told of them.  Every proof rests on  *)
(* the invariant of ConsolidateOnceProofs: only a commit publishes, and it *)
(* publishes a whole window that no batch contains yet.                    *)
(***************************************************************************)
EXTENDS ConsolidateOnceProofs, FiniteSetTheorems

(***************************************************************************)
(* What a step can do to the tables.                                       *)
(***************************************************************************)

\* Only a commit changes a published table, and a visible row stays as it is.
LEMMA OnlyCommitsPublish ==
  ASSUME InductiveInvariant, [Next]_vars, ~ \E x \in Executions : Commit(x)
  PROVE  /\ UNCHANGED tableVars
         /\ \A e \in Events : Visible(e) =>
               Visible(e)' /\ sequence'[e] = sequence[e]
<1>1. CASE \E e \in Events : EventStep(e)
  BY <1>1, EventStepFrame
<1>2. ASSUME NEW x \in Executions, Start(x) \/ Proceed(x) \/ Raise(x) \/ Crash(x)
      PROVE  UNCHANGED <<eventVars, tableVars>>
  <2>1. UNCHANGED eventVars
    BY <1>2, ExecutionsLeaveEvents
  <2>2. UNCHANGED tableVars
    BY <1>2
    DEF Proceed, Start, Acquire, AcquireTimesOut, GetCursorForUpdate,
        CursorIsMissing, ListEventsAfter, NothingToConsolidate,
        NumberCheckpoint, SaveEvidence, SaveCheckpoint, SaveCandidates,
        AdvanceCursor, AddOutboxJob, Stage, CompareMemory, SaveMemory,
        Release, Raise, Crash
  <2>3. QED
    BY <2>1, <2>2
<1>3. CASE \/ \E w \in Workspaces : MemoryExpires(w) \/ LockExpires(w)
           \/ UNCHANGED vars
  <2>1. UNCHANGED <<eventVars, tableVars>>
    BY <1>3 DEF MemoryExpires, LockExpires, vars
  <2>2. QED
    BY <2>1 DEF eventVars, Visible
<1>4. QED
  BY <1>1, <1>2, <1>3 DEF Next, eventVars, Visible

\* A consolidated event of a workspace is visible, and so are the ends of its
\* batch, which is a pair of events.
LEMMA BatchHasEnds ==
  ASSUME TypeOK, NEW e \in Events, Consolidated(e)
  PROVE  /\ evidence[e] \in Batches
         /\ First(e) \in Events /\ Last(e) \in Events
         /\ evidence[e] = <<First(e), Last(e)>>
  BY DEF TypeOK, Consolidated, Batches, First, Last

\* What a commit knows of the window it publishes: it lies in the target's
\* workspace, between the ends of the batch, beyond the cursor and everything
\* published before it.
LEMMA CommitWindow ==
  ASSUME InductiveInvariant, NEW x \in Executions, Commit(x)
  PROVE  /\ TargetOf[x] \in Workspaces
         /\ batch[x] \in Batches /\ batch[x] # NoBatch
         /\ batch[x] = <<batch[x][1], batch[x][2]>>
         /\ window[x] \subseteq Events
         /\ batch[x][1] \in window[x] /\ batch[x][2] \in window[x]
         /\ \A e \in window[x] :
               /\ WorkspaceOf[e] = TargetOf[x]
               /\ Visible(e) /\ ~Consolidated(e)
               /\ sequence[batch[x][1]] <= sequence[e]
               /\ sequence[e] <= sequence[batch[x][2]]
         /\ \A e \in window[x], f \in ConsolidatedIn(TargetOf[x]) :
               sequence[f] < sequence[e]
<1> DEFINE w == TargetOf[x]
<1>1. pc[x] \in Chosen /\ pc[x] \in InTransaction /\ HoldsWindow(x)
  BY DEF Commit, Goto, Chosen, InTransaction, InductiveInvariant, WindowIsHeld
<1>2. w \in Workspaces /\ window[x] \subseteq Events
  BY ConstantsAssumption DEF InductiveInvariant, TypeOK
<1>3. /\ batch[x] \in Batches /\ batch[x] # NoBatch
      /\ batch[x] = <<batch[x][1], batch[x][2]>>
      /\ IsFirst(batch[x][1], window[x]) /\ IsLast(batch[x][2], window[x])
  BY <1>1, DistinctAssumption DEF HoldsWindow, Batches
<1>4. \A e \in window[x] :
         /\ WorkspaceOf[e] = w /\ Visible(e) /\ ~Consolidated(e)
         /\ cursor[w] # NoEvent => sequence[cursor[w]] < sequence[e]
  BY <1>1, WindowIsFresh DEF HoldsWindow
<1>5. ASSUME NEW e \in window[x], NEW f \in ConsolidatedIn(w)
      PROVE  sequence[f] < sequence[e]
  <2>1. /\ cursor[w] # NoEvent /\ cursor[w] \in Events /\ f \in Events
        /\ sequence[f] <= sequence[cursor[w]]
    BY <1>2 DEF InductiveInvariant, CursorEndsLastWindow, ConsolidatedIn
  <2>2. QED
    BY <1>2, <1>4, <2>1 DEF InductiveInvariant, TypeOK
<1>6. QED
  BY <1>2, <1>3, <1>4, <1>5 DEF IsFirst, IsLast

\* A commit adds its window to the consolidated events of its workspace and
\* leaves the others as they are.
LEMMA CommitConsolidates ==
  ASSUME InductiveInvariant, NEW x \in Executions, Commit(x)
  PROVE  /\ ConsolidatedIn(TargetOf[x])' =
               ConsolidatedIn(TargetOf[x]) \cup window[x]
         /\ \A w \in Workspaces : w # TargetOf[x] =>
               ConsolidatedIn(w)' = ConsolidatedIn(w)
         /\ \A e \in Events : Consolidated(e) =>
               e \notin window[x] /\ evidence'[e] = evidence[e]
         /\ \A e \in window[x] : evidence'[e] = batch[x]
<1>1. evidence' = [e \in Events |-> IF e \in window[x] THEN batch[x]
                                    ELSE evidence[e]]
  BY CommitPublishes
<1>2. /\ batch[x] # NoBatch /\ window[x] \subseteq Events
      /\ \A e \in window[x] : WorkspaceOf[e] = TargetOf[x] /\ ~Consolidated(e)
  BY CommitWindow
<1>3. QED
  BY <1>1, <1>2 DEF ConsolidatedIn, Consolidated

(***************************************************************************)
(* Windows.                                                                *)
(***************************************************************************)

\* Two windows of a workspace stay apart: a commit publishes beyond both ends
\* of everything published before.
LEMMA CommitKeepsWindowsDisjoint ==
  ASSUME InductiveInvariant, WindowsAreDisjoint, NEW x \in Executions, Commit(x)
  PROVE  WindowsAreDisjoint'
<1> DEFINE v == TargetOf[x]
<1>1. /\ v \in Workspaces /\ batch[x] = <<batch[x][1], batch[x][2]>>
      /\ window[x] \subseteq Events
      /\ batch[x][1] \in window[x] /\ batch[x][2] \in window[x]
  BY CommitWindow
<1>2. \A e \in window[x] : /\ WorkspaceOf[e] = v
                           /\ sequence[batch[x][1]] <= sequence[e]
                           /\ sequence[e] <= sequence[batch[x][2]]
  BY CommitWindow
<1>3. \A e \in window[x], f \in ConsolidatedIn(v) : sequence[f] < sequence[e]
  BY CommitWindow
<1>4. sequence' = sequence
  BY CommitPublishes DEF eventVars
<1>5. TypeOK
  BY DEF InductiveInvariant
<1> SUFFICES ASSUME NEW w \in Workspaces,
                    NEW e \in ConsolidatedIn(w)', NEW f \in ConsolidatedIn(w)'
             PROVE  /\ WorkspaceOf[First(e)'] = w /\ WorkspaceOf[Last(e)'] = w
                    /\ evidence'[First(e)'] = evidence'[e]
                    /\ evidence'[Last(e)'] = evidence'[e]
                    /\ sequence[First(e)'] <= sequence[e]
                    /\ sequence[e] <= sequence[Last(e)']
                    /\ evidence'[e] # evidence'[f] =>
                          \/ sequence[Last(e)'] < sequence[First(f)']
                          \/ sequence[Last(f)'] < sequence[First(e)']
  BY <1>4 DEF WindowsAreDisjoint
<1>6. ASSUME NEW g \in ConsolidatedIn(w)
      PROVE  /\ evidence'[g] = evidence[g]
             /\ First(g)' = First(g) /\ Last(g)' = Last(g)
             /\ First(g) \in ConsolidatedIn(w) /\ Last(g) \in ConsolidatedIn(w)
             /\ evidence[First(g)] = evidence[g]
             /\ evidence[Last(g)] = evidence[g]
             /\ sequence[First(g)] <= sequence[g]
             /\ sequence[g] <= sequence[Last(g)]
  <2>1. g \in Events /\ Consolidated(g)
    BY DEF ConsolidatedIn
  <2>2. evidence'[g] = evidence[g]
    BY <2>1, CommitConsolidates
  <2>3. First(g) \in Events /\ Last(g) \in Events
    BY <1>5, <2>1, BatchHasEnds
  <2>4. /\ WorkspaceOf[First(g)] = w /\ WorkspaceOf[Last(g)] = w
        /\ evidence[First(g)] = evidence[g] /\ evidence[Last(g)] = evidence[g]
        /\ sequence[First(g)] <= sequence[g] /\ sequence[g] <= sequence[Last(g)]
    BY DEF WindowsAreDisjoint
  <2>5. QED
    BY <2>1, <2>2, <2>3, <2>4 DEF First, Last, ConsolidatedIn, Consolidated
<1>7. ASSUME NEW g \in window[x], w = v
      PROVE  /\ evidence'[g] = batch[x]
             /\ First(g)' = batch[x][1] /\ Last(g)' = batch[x][2]
  BY CommitConsolidates DEF First, Last
<1>8. \A g \in ConsolidatedIn(w)' :
         g \in ConsolidatedIn(w) \/ (w = v /\ g \in window[x])
  BY CommitConsolidates
<1>9. CASE e \in ConsolidatedIn(w) /\ f \in ConsolidatedIn(w)
  BY <1>6, <1>9 DEF WindowsAreDisjoint, ConsolidatedIn
<1>10. CASE e \in ConsolidatedIn(w) /\ w = v /\ f \in window[x]
  <2>1. sequence[Last(e)] < sequence[batch[x][1]]
    BY <1>1, <1>3, <1>6, <1>10
  <2>2. QED
    BY <1>6, <1>7, <1>10, <2>1 DEF ConsolidatedIn
<1>11. CASE w = v /\ e \in window[x]
  <2>1. /\ WorkspaceOf[batch[x][1]] = w /\ WorkspaceOf[batch[x][2]] = w
        /\ evidence'[batch[x][1]] = batch[x] /\ evidence'[batch[x][2]] = batch[x]
        /\ sequence[batch[x][1]] <= sequence[e]
        /\ sequence[e] <= sequence[batch[x][2]]
    BY <1>1, <1>2, <1>7, <1>11
  <2>2. CASE f \in window[x]
    BY <1>7, <1>11, <2>1, <2>2
  <2>3. CASE f \in ConsolidatedIn(w)
    <3>1. sequence[Last(f)] < sequence[batch[x][1]]
      BY <1>1, <1>3, <1>6, <1>11, <2>3
    <3>2. QED
      BY <1>6, <1>7, <1>11, <2>1, <2>3, <3>1
  <2>4. QED
    BY <1>8, <2>2, <2>3
<1>12. QED
  BY <1>8, <1>9, <1>10, <1>11

\* No event is in two batches and no batch reaches into another, for any number
\* of executions: each takes the events after the cursor it locked
\* (write.py, list_after_cursor).
THEOREM BatchesAreWindows == Spec => []WindowsAreDisjoint
<1>1. Init => WindowsAreDisjoint
  BY DEF Init, WindowsAreDisjoint, ConsolidatedIn, Consolidated
<1>2. InductiveInvariant /\ WindowsAreDisjoint /\ [Next]_vars
         => WindowsAreDisjoint'
  <2> SUFFICES ASSUME InductiveInvariant, WindowsAreDisjoint, [Next]_vars
               PROVE  WindowsAreDisjoint'
    OBVIOUS
  <2>1. CASE \E x \in Executions : Commit(x)
    BY <2>1, CommitKeepsWindowsDisjoint
  <2>2. CASE ~ \E x \in Executions : Commit(x)
    <3>1. /\ UNCHANGED evidence
          /\ \A e \in Events : Visible(e) => sequence'[e] = sequence[e]
      BY <2>2, OnlyCommitsPublish DEF tableVars
    <3>2. \A w \in Workspaces : ConsolidatedIn(w)' = ConsolidatedIn(w)
      BY <3>1 DEF ConsolidatedIn, Consolidated
    <3>3. \A w \in Workspaces : \A e \in ConsolidatedIn(w) :
             /\ First(e)' = First(e) /\ Last(e)' = Last(e)
             /\ First(e) \in ConsolidatedIn(w) /\ Last(e) \in ConsolidatedIn(w)
      <4> SUFFICES ASSUME NEW w \in Workspaces, NEW e \in ConsolidatedIn(w)
                   PROVE  /\ First(e)' = First(e) /\ Last(e)' = Last(e)
                          /\ First(e) \in ConsolidatedIn(w)
                          /\ Last(e) \in ConsolidatedIn(w)
        OBVIOUS
      <4>1. First(e) \in Events /\ Last(e) \in Events
        BY BatchHasEnds DEF InductiveInvariant, ConsolidatedIn
      <4>2. QED
        BY <3>1, <4>1
        DEF WindowsAreDisjoint, ConsolidatedIn, Consolidated, First, Last
    <3>4. \A w \in Workspaces : \A e \in ConsolidatedIn(w) :
             sequence'[e] = sequence[e]
      BY <3>1 DEF ConsolidatedIn, InductiveInvariant, SequencesAreDistinct
    <3>5. QED
      BY <3>1, <3>2, <3>3, <3>4 DEF WindowsAreDisjoint
  <2>3. QED
    BY <2>1, <2>2
<1>3. QED
  BY <1>1, <1>2, Invariance, PTL DEF Spec

(***************************************************************************)
(* What is published with a window.                                        *)
(***************************************************************************)

\* A commit stages the candidates of its window, and a governance job exactly
\* when some event of the window speaks.
LEMMA CommitSiblings ==
  ASSUME InductiveInvariant, SiblingsTogether, NEW x \in Executions, Commit(x)
  PROVE  /\ candidates' = [e \in Events |-> IF e \in window[x] \cap Speaking
                                            THEN batch[x] ELSE candidates[e]]
         /\ outbox' = IF window[x] \cap Speaking = {} THEN outbox
                      ELSE outbox \cup {batch[x]}
<1>1. pc[x] = "commit" /\ Publish(x) /\ StagesInOrder(x)
  BY DEF Commit, Goto, InductiveInvariant, StagedByPhase
<1>2. /\ "candidates" \in staged[x]
      /\ "outbox" \in staged[x] <=> window[x] \cap Speaking # {}
  BY <1>1 DEF StagesInOrder
<1>3. \A e \in window[x] : e \in Events /\ candidates[e] = NoBatch
  BY CommitWindow DEF SiblingsTogether, Consolidated
<1>4. candidates' = [e \in Events |-> IF e \in window[x] \cap Speaking
                                      THEN batch[x] ELSE candidates[e]]
  <2>1. /\ candidates' = InsertFor(candidates, x, window[x] \cap Speaking)
        /\ InsertFor(candidates, x, window[x] \cap Speaking) =
              [e \in Events |-> IF e \in window[x] \cap Speaking
                                THEN batch[x] ELSE candidates[e]]
    BY <1>1, <1>2, <1>3 DEF Publish, InsertFor
  <2>2. QED
    BY <2>1
<1>5. outbox' = IF window[x] \cap Speaking = {} THEN outbox
                ELSE outbox \cup {batch[x]}
  BY <1>1, <1>2 DEF Publish
<1>6. QED
  BY <1>4, <1>5

\* A commit keeps evidence, candidates and jobs of every batch together.
LEMMA CommitKeepsSiblings ==
  ASSUME InductiveInvariant, SiblingsTogether, NEW x \in Executions, Commit(x)
  PROVE  SiblingsTogether'
<1>1. /\ batch[x] # NoBatch /\ window[x] \subseteq Events
      /\ Speaking \subseteq Events
  BY CommitWindow, ConstantsAssumption
<1>2. evidence' = [e \in Events |-> IF e \in window[x] THEN batch[x]
                                    ELSE evidence[e]]
  BY CommitPublishes
<1>3. \A e \in window[x] : ~Consolidated(e)
  BY CommitWindow
<1>4. \A e \in Events :
         candidates'[e] = IF e \in Speaking THEN evidence'[e] ELSE NoBatch
  BY <1>2, CommitSiblings DEF SiblingsTogether
<1>5. outbox' = {evidence'[e] : e \in {s \in Speaking : Consolidated(s)'}}
  <2> DEFINE Speakers == {s \in Speaking : Consolidated(s)}
  <2>1. {s \in Speaking : Consolidated(s)'} =
           Speakers \cup (window[x] \cap Speaking)
    BY <1>1, <1>2, <1>3 DEF Consolidated
  <2>2. \A e \in Speakers : evidence'[e] = evidence[e]
    BY <1>1, <1>2, <1>3 DEF Consolidated
  <2>3. \A e \in window[x] \cap Speaking : evidence'[e] = batch[x]
    BY <1>1, <1>2
  <2>4. outbox = {evidence[e] : e \in Speakers}
    BY DEF SiblingsTogether
  <2>5. CASE window[x] \cap Speaking = {}
    BY <2>1, <2>2, <2>4, <2>5, CommitSiblings
  <2>6. CASE window[x] \cap Speaking # {}
    <3>1. outbox' = outbox \cup {batch[x]}
      BY <2>6, CommitSiblings
    <3>2. QED
      BY <2>1, <2>2, <2>3, <2>4, <2>6, <3>1
  <2>7. QED
    BY <2>5, <2>6
<1>6. QED
  BY <1>4, <1>5 DEF SiblingsTogether

\* Evidence, candidates and the govern_long_term_candidates job of a window are
\* published together, under one batch: they are written in one transaction
\* (write.py, commit).
THEOREM SiblingsStayTogether == Spec => []SiblingsTogether
<1>1. Init => SiblingsTogether
  BY ConstantsAssumption DEF Init, SiblingsTogether, Consolidated
<1>2. InductiveInvariant /\ SiblingsTogether /\ [Next]_vars => SiblingsTogether'
  <2> SUFFICES ASSUME InductiveInvariant, SiblingsTogether, [Next]_vars
               PROVE  SiblingsTogether'
    OBVIOUS
  <2>1. CASE \E x \in Executions : Commit(x)
    BY <2>1, CommitKeepsSiblings
  <2>2. CASE ~ \E x \in Executions : Commit(x)
    BY <2>2, OnlyCommitsPublish DEF SiblingsTogether, Consolidated, tableVars
  <2>3. QED
    BY <2>1, <2>2
<1>3. QED
  BY <1>1, <1>2, Invariance, PTL DEF Spec

(***************************************************************************)
(* The count of windows.                                                   *)
(***************************************************************************)

\* The batches published for a workspace.
PublishedFor(w) == {evidence[e] : e \in ConsolidatedIn(w)}

\* They stay finite in number, whatever the set of events is.
FinitelyMany == \A w \in Workspaces : IsFiniteSet(PublishedFor(w))

\* A commit publishes one batch that its workspace does not have yet.
LEMMA CommitAddsOneBatch ==
  ASSUME InductiveInvariant, WindowsAreDisjoint, NEW x \in Executions, Commit(x)
  PROVE  /\ batch[x] \notin PublishedFor(TargetOf[x])
         /\ PublishedFor(TargetOf[x])' = PublishedFor(TargetOf[x]) \cup {batch[x]}
         /\ \A w \in Workspaces : w # TargetOf[x] =>
               PublishedFor(w)' = PublishedFor(w)
<1> DEFINE v == TargetOf[x]
<1>1. /\ v \in Workspaces /\ window[x] \subseteq Events
      /\ batch[x][1] \in window[x]
      /\ \A e \in window[x] : ~Consolidated(e)
  BY CommitWindow
<1>2. batch[x] \notin PublishedFor(v)
  <2> SUFFICES ASSUME NEW e \in ConsolidatedIn(v), evidence[e] = batch[x]
               PROVE  FALSE
    BY DEF PublishedFor
  <2>1. First(e) = batch[x][1] /\ evidence[First(e)] = evidence[e]
    BY <1>1 DEF WindowsAreDisjoint, First
  <2>2. Consolidated(batch[x][1])
    BY <2>1 DEF ConsolidatedIn, Consolidated
  <2>3. QED
    BY <1>1, <2>2
<1>3. ASSUME NEW w \in Workspaces, NEW e \in ConsolidatedIn(w)
      PROVE  evidence'[e] = evidence[e]
  BY CommitConsolidates DEF ConsolidatedIn
<1>4. \A e \in window[x] : evidence'[e] = batch[x]
  BY CommitConsolidates
<1>5. PublishedFor(v)' = PublishedFor(v) \cup {batch[x]}
  <2>1. ConsolidatedIn(v)' = ConsolidatedIn(v) \cup window[x]
    BY CommitConsolidates
  <2>2. QED
    BY <1>1, <1>3, <1>4, <2>1 DEF PublishedFor
<1>6. ASSUME NEW w \in Workspaces, w # v
      PROVE  PublishedFor(w)' = PublishedFor(w)
  <2>1. ConsolidatedIn(w)' = ConsolidatedIn(w)
    BY <1>6, CommitConsolidates
  <2>2. QED
    BY <1>3, <2>1 DEF PublishedFor
<1>7. QED
  BY <1>2, <1>5, <1>6

\* batch_version counts the published windows exactly: none is lost to another
\* execution and none counted again after a retry (write.py, advance_cursor).
THEOREM VersionIsWindowCount == Spec => []VersionCountsWindows
<1> DEFINE Counted == FinitelyMany /\ VersionCountsWindows
<1>1. Init => Counted
  <2> SUFFICES ASSUME Init PROVE Counted
    OBVIOUS
  <2>1. \A w \in Workspaces : PublishedFor(w) = {} /\ batchVersion[w] = 0
    BY DEF Init, PublishedFor, ConsolidatedIn, Consolidated
  <2>2. QED
    BY <2>1, FS_EmptySet DEF FinitelyMany, VersionCountsWindows, PublishedFor
<1>2. InductiveInvariant /\ WindowsAreDisjoint /\ Counted /\ [Next]_vars
         => Counted'
  <2> SUFFICES ASSUME InductiveInvariant, WindowsAreDisjoint, Counted,
                      [Next]_vars
               PROVE  Counted'
    OBVIOUS
  <2>1. \A w \in Workspaces : /\ IsFiniteSet(PublishedFor(w))
                              /\ batchVersion[w] = Cardinality(PublishedFor(w))
    BY DEF FinitelyMany, VersionCountsWindows, PublishedFor
  <2>2. ASSUME NEW w \in Workspaces
        PROVE  /\ IsFiniteSet(PublishedFor(w)')
               /\ batchVersion'[w] = Cardinality(PublishedFor(w)')
    <3>1. ASSUME NEW x \in Executions, Commit(x), w = TargetOf[x]
          PROVE  /\ IsFiniteSet(PublishedFor(w)')
                 /\ batchVersion'[w] = Cardinality(PublishedFor(w)')
      <4>1. /\ batch[x] \notin PublishedFor(w)
            /\ PublishedFor(w)' = PublishedFor(w) \cup {batch[x]}
        BY <3>1, CommitAddsOneBatch
      <4>2. batchVersion'[w] = batchVersion[w] + 1
        BY <3>1, CommitPublishes DEF InductiveInvariant, TypeOK
      <4>3. IsFiniteSet(PublishedFor(w))
        BY <2>1
      <4>4. /\ IsFiniteSet(PublishedFor(w) \cup {batch[x]})
            /\ Cardinality(PublishedFor(w) \cup {batch[x]}) =
                  Cardinality(PublishedFor(w)) + 1
        BY <4>1, <4>3, FS_AddElement
      <4>5. QED
        BY <2>1, <4>1, <4>2, <4>4
    <3>2. ASSUME NEW x \in Executions, Commit(x), w # TargetOf[x]
          PROVE  /\ IsFiniteSet(PublishedFor(w)')
                 /\ batchVersion'[w] = Cardinality(PublishedFor(w)')
      <4>1. PublishedFor(w)' = PublishedFor(w)
        BY <3>2, CommitAddsOneBatch
      <4>2. batchVersion'[w] = batchVersion[w]
        BY <3>2, CommitPublishes DEF InductiveInvariant, TypeOK
      <4>3. QED
        BY <2>1, <4>1, <4>2
    <3>3. CASE ~ \E x \in Executions : Commit(x)
      <4>1. UNCHANGED <<evidence, batchVersion>>
        BY <3>3, OnlyCommitsPublish DEF tableVars
      <4>2. PublishedFor(w)' = PublishedFor(w)
        BY <4>1 DEF PublishedFor, ConsolidatedIn, Consolidated
      <4>3. QED
        BY <2>1, <4>1, <4>2
    <3>4. QED
      BY <3>1, <3>2, <3>3
  <2>3. QED
    BY <2>2 DEF FinitelyMany, VersionCountsWindows, PublishedFor
<1>3. QED
  BY <1>1, <1>2, Invariance, BatchesAreWindows, PTL DEF Spec

(***************************************************************************)
(* What callers and the Working Memory are told.                           *)
(***************************************************************************)

\* An event stays in the batch that consolidated it.
LEMMA EvidenceIsKept ==
  ASSUME InductiveInvariant, [Next]_vars, NEW e \in Events, Consolidated(e)
  PROVE  evidence'[e] = evidence[e]
<1>1. CASE \E x \in Executions : Commit(x)
  BY <1>1, CommitConsolidates
<1>2. CASE ~ \E x \in Executions : Commit(x)
  BY <1>2, OnlyCommitsPublish DEF tableVars
<1>3. QED
  BY <1>1, <1>2

\* The outcome "consolidated" is set after the commit and nowhere else, and the
\* window it speaks of does not change any more.
ReportIsBacked(x) ==
    outcome[x] = "consolidated" =>
        /\ pc[x] \in {"releasing", "done", "crashed"}
        /\ batch[x] # NoBatch
        /\ \A e \in window[x] :
              WorkspaceOf[e] = TargetOf[x] /\ evidence[e] = batch[x]

ReportsAreBacked == \A x \in Executions : ReportIsBacked(x)

\* Where an execution's report comes from: it was there, or the execution is
\* past its commit; its window and batch are as they were.
LEMMA ReportStep ==
  ASSUME InductiveInvariant, ReportsAreBacked, [Next]_vars,
         NEW x \in Executions, outcome'[x] = "consolidated"
  PROVE  /\ outcome[x] = "consolidated" \/ pc[x] \in Published
         /\ pc'[x] \in {"releasing", "done", "crashed"}
         /\ window'[x] = window[x] /\ batch'[x] = batch[x]
<1>1. outcome[x] = "consolidated" => pc[x] \in {"releasing", "done", "crashed"}
  BY DEF ReportsAreBacked, ReportIsBacked
<1>2. TypeOK
  BY DEF InductiveInvariant
<1>3. CASE /\ UNCHANGED <<pc, localVars, outcome>>
  BY <1>1, <1>3 DEF localVars
<1>4. CASE \E e \in Events : EventStep(e)
  <2>1. UNCHANGED <<pc, localVars, outcome>>
    BY <1>4 DEF EventStep, SaveEvent, EnsureWorkingMemory, CommitEvent,
       RollbackEvent, LoadMemory, StoreMemory
  <2>2. QED
    BY <1>3, <2>1
<1>5. CASE \E w \in Workspaces : MemoryExpires(w) \/ LockExpires(w)
  BY <1>3, <1>5 DEF MemoryExpires, LockExpires
<1>6. ASSUME NEW y \in Executions, y # x,
             Start(y) \/ Proceed(y) \/ Raise(y) \/ Crash(y)
      PROVE  /\ outcome[x] = "consolidated"
             /\ pc'[x] = pc[x]
             /\ window'[x] = window[x] /\ batch'[x] = batch[x]
  <2>1. LeavesAlone(x)
    BY <1>2, <1>6, StepIsLocal
  <2>2. outcome'[x] = outcome[x]
    BY <1>2, <1>6
    DEF TypeOK, Proceed, Start, Acquire, AcquireTimesOut, GetCursorForUpdate,
        CursorIsMissing, ListEventsAfter, NothingToConsolidate,
        NumberCheckpoint, SaveEvidence, SaveCheckpoint, SaveCandidates,
        AdvanceCursor, AddOutboxJob, Stage, Commit, CompareMemory, SaveMemory,
        Release, Raise, Crash
  <2>3. QED
    BY <2>1, <2>2 DEF LeavesAlone
<1>7. CASE \/ AcquireTimesOut(x) \/ CursorIsMissing(x)
           \/ NothingToConsolidate(x) \/ Raise(x)
  BY <1>2, <1>7 DEF TypeOK, AcquireTimesOut, CursorIsMissing,
     NothingToConsolidate, Raise
<1>8. CASE \/ Start(x) \/ Acquire(x) \/ GetCursorForUpdate(x)
           \/ ListEventsAfter(x) \/ NumberCheckpoint(x) \/ Commit(x)
  BY <1>1, <1>8 DEF Start, Acquire, GetCursorForUpdate, ListEventsAfter,
     NumberCheckpoint, Commit, Goto
<1>9. CASE \/ SaveEvidence(x) \/ SaveCheckpoint(x) \/ SaveCandidates(x)
           \/ AdvanceCursor(x) \/ AddOutboxJob(x)
  BY <1>1, <1>9 DEF SaveEvidence, SaveCheckpoint, SaveCandidates,
     AdvanceCursor, AddOutboxJob, Stage, Goto
<1>10. CASE CompareMemory(x) \/ SaveMemory(x)
  BY <1>1, <1>2, <1>10
  DEF TypeOK, CompareMemory, SaveMemory, Goto, Published, localVars
<1>11. CASE Release(x) \/ Crash(x)
  BY <1>1, <1>2, <1>11 DEF TypeOK, Release, Crash, Goto, localVars
<1>12. CASE UNCHANGED vars
  BY <1>3, <1>12 DEF vars
<1>13. QED
  BY <1>1, <1>4, <1>5, <1>6, <1>7, <1>8, <1>9, <1>10, <1>11, <1>12
  DEF Next, Proceed

\* Every step keeps the reports backed.
LEMMA NextReports ==
  InductiveInvariant /\ ReportsAreBacked /\ [Next]_vars => ReportsAreBacked'
<1> SUFFICES ASSUME InductiveInvariant, ReportsAreBacked, [Next]_vars,
                    NEW x \in Executions, outcome'[x] = "consolidated"
             PROVE  /\ pc'[x] \in {"releasing", "done", "crashed"}
                    /\ batch'[x] # NoBatch
                    /\ \A e \in window'[x] : /\ WorkspaceOf[e] = TargetOf[x]
                                             /\ evidence'[e] = batch'[x]
  BY DEF ReportsAreBacked, ReportIsBacked
<1>1. /\ outcome[x] = "consolidated" \/ pc[x] \in Published
      /\ pc'[x] \in {"releasing", "done", "crashed"}
      /\ window'[x] = window[x] /\ batch'[x] = batch[x]
  BY ReportStep
<1>2. /\ batch[x] # NoBatch
      /\ \A e \in window[x] :
            WorkspaceOf[e] = TargetOf[x] /\ evidence[e] = batch[x]
  <2>1. CASE outcome[x] = "consolidated"
    BY <2>1 DEF ReportsAreBacked, ReportIsBacked
  <2>2. CASE pc[x] \in Published
    BY <2>2, DistinctAssumption
    DEF InductiveInvariant, WindowIsHeld, HoldsWindow, Batches
  <2>3. QED
    BY <1>1, <2>1, <2>2
<1>3. \A e \in window[x] : e \in Events /\ Consolidated(e)
  BY <1>2 DEF InductiveInvariant, TypeOK, Consolidated
<1>4. QED
  BY <1>1, <1>2, <1>3, EvidenceIsKept

\* A caller that is told "consolidated" finds the window published and the
\* cursor at or behind its end, whatever others did meanwhile: the result is
\* built after the commit (write.py, execute).
THEOREM ReportsAreTrue == Spec => []ReportedIsSaved
<1>1. Init => ReportsAreBacked
  BY DEF Init, ReportsAreBacked, ReportIsBacked
<1>2. InductiveInvariant /\ ReportsAreBacked => ReportedIsSaved
  <2> SUFFICES ASSUME InductiveInvariant, ReportsAreBacked,
                      NEW x \in Executions, outcome[x] = "consolidated",
                      NEW e \in window[x]
               PROVE  /\ evidence[e] = batch[x]
                      /\ sequence[e] <= sequence[cursor[TargetOf[x]]]
    BY DEF ReportedIsSaved
  <2>1. /\ evidence[e] = batch[x] /\ batch[x] # NoBatch
        /\ WorkspaceOf[e] = TargetOf[x]
    BY DEF ReportsAreBacked, ReportIsBacked
  <2>2. e \in ConsolidatedIn(TargetOf[x])
    BY <2>1 DEF InductiveInvariant, TypeOK, ConsolidatedIn, Consolidated
  <2>3. sequence[e] <= sequence[cursor[TargetOf[x]]]
    BY <2>2, ConstantsAssumption DEF InductiveInvariant, CursorEndsLastWindow
  <2>4. QED
    BY <2>1, <2>3
<1>3. QED
  BY <1>1, <1>2, NextReports, Invariance, PTL DEF Spec

\* The event is the end of a published window of the workspace.
EndsWindow(w, e) == e \in ConsolidatedIn(w) /\ Last(e) = e

\* What has been the end of a window stays one.
LEMMA EndsStay ==
  ASSUME InductiveInvariant, [Next]_vars, NEW w \in Workspaces,
         NEW e \in Events, EndsWindow(w, e)
  PROVE  EndsWindow(w, e)'
<1>1. Consolidated(e) /\ WorkspaceOf[e] = w /\ Last(e) = e
  BY DEF EndsWindow, ConsolidatedIn
<1>2. evidence'[e] = evidence[e]
  BY <1>1, EvidenceIsKept
<1>3. QED
  BY <1>1, <1>2 DEF EndsWindow, ConsolidatedIn, Consolidated, Last

\* Every step takes a Working Memory cursor, or a request's copy of one, from
\* the other or from a window just committed.
LEMMA NextMemory ==
  InductiveInvariant /\ MemoryIsNotAhead /\ [Next]_vars => MemoryIsNotAhead'
<1> DEFINE Known(w, e) == \/ e = memory[w]
                          \/ \E f \in Events : WorkspaceOf[f] = w /\ e = loaded[f]
<1> SUFFICES ASSUME InductiveInvariant, MemoryIsNotAhead, [Next]_vars
             PROVE  MemoryIsNotAhead'
  OBVIOUS
<1> SUFFICES ASSUME NEW w \in Workspaces, NEW e \in Events,
                    ~ Known(w, e), Known(w, e)'
             PROVE  EndsWindow(w, e)'
  <2>1. \A w \in Workspaces, e \in Events : Known(w, e) => EndsWindow(w, e)
    BY DEF MemoryIsNotAhead, EndsWindow
  <2>2. QED
    BY <2>1, EndsStay DEF MemoryIsNotAhead, EndsWindow
<1>1. TypeOK /\ NoMemory \notin Events /\ NoEvent \notin Events
  BY DistinctAssumption DEF InductiveInvariant
<1>2. ASSUME UNCHANGED <<memory, loaded>> PROVE FALSE
  BY <1>2
<1>3. ASSUME NEW f \in Events, EventStep(f) PROVE FALSE
  <2>1. CASE LoadMemory(f)
    BY <1>1, <2>1 DEF TypeOK, LoadMemory
  <2>2. CASE StoreMemory(f)
    BY <1>1, <2>2, ConstantsAssumption DEF TypeOK, StoreMemory
  <2>3. CASE ~LoadMemory(f) /\ ~StoreMemory(f)
    BY <1>2, <1>3, <2>3 DEF EventStep, SaveEvent, EnsureWorkingMemory,
       CommitEvent, RollbackEvent
  <2>4. QED
    BY <2>1, <2>2, <2>3
<1>4. ASSUME NEW v \in Workspaces, MemoryExpires(v) \/ LockExpires(v)
      PROVE  FALSE
  BY <1>1, <1>2, <1>4 DEF TypeOK, MemoryExpires, LockExpires, eventVars
<1>5. ASSUME NEW x \in Executions, SaveMemory(x) PROVE EndsWindow(w, e)'
  <2>1. /\ pc[x] \in Published /\ UNCHANGED <<loaded, evidence>>
        /\ memory' = [memory EXCEPT ![TargetOf[x]] = batch[x][2]]
    BY <1>5 DEF SaveMemory, Goto, Published, eventVars, tableVars
  <2>2. w = TargetOf[x] /\ e = batch[x][2]
    BY <1>1, <2>1, ConstantsAssumption DEF TypeOK
  <2>3. e \in window[x] /\ WorkspaceOf[e] = w /\ evidence[e] = batch[x]
    BY <2>1, <2>2
    DEF InductiveInvariant, WindowIsHeld, HoldsWindow, IsLast
  <2>4. batch[x] # NoBatch
    BY <2>1, DistinctAssumption
    DEF InductiveInvariant, WindowIsHeld, HoldsWindow, Batches
  <2>5. QED
    BY <2>1, <2>2, <2>3, <2>4
    DEF EndsWindow, ConsolidatedIn, Consolidated, Last
<1>6. ASSUME NEW x \in Executions, ~SaveMemory(x),
             Start(x) \/ Proceed(x) \/ Raise(x) \/ Crash(x)
      PROVE  FALSE
  <2>1. UNCHANGED memory
    BY <1>6
    DEF Proceed, Start, Acquire, AcquireTimesOut, GetCursorForUpdate,
        CursorIsMissing, ListEventsAfter, NothingToConsolidate,
        NumberCheckpoint, SaveEvidence, SaveCheckpoint, SaveCandidates,
        AdvanceCursor, AddOutboxJob, Stage, Commit, CompareMemory, Release,
        Raise, Crash
  <2>2. QED
    BY <1>2, <1>6, <2>1, ExecutionsLeaveEvents DEF eventVars
<1>7. QED
  BY <1>2, <1>3, <1>4, <1>5, <1>6 DEF Next, vars, eventVars

\* The Working Memory's cursor, and every copy of it a request still holds, is
\* the end of a window that is committed: Redis is advanced after PostgreSQL
\* (write.py, execute), and a stale copy written back is only behind.
THEOREM MemoryNeverAhead == Spec => []MemoryIsNotAhead
<1>1. Init => MemoryIsNotAhead
  BY DistinctAssumption DEF Init, MemoryIsNotAhead
<1>2. QED
  BY <1>1, NextMemory, Invariance, PTL DEF Spec

(***************************************************************************)
(* The chain implements IncrementalWindows.                                *)
(***************************************************************************)

\* Where an event stands in the promise's log: a row is in it from its commit.
Position == [e \in Events |-> IF Visible(e) THEN sequence[e] ELSE 0]

\* The commit of an event transaction is the arrival of its event.
LEMMA CommitEventArrives ==
  ASSUME InductiveInvariant, NEW e \in Events, CommitEvent(e)
  PROVE  Promise!Arrive(e)
<1>1. /\ ~Visible(e) /\ Visible(e)' /\ sequence[e] \in Nat \ {0}
      /\ sequence' = sequence
      /\ \A f \in Events : f # e => (Visible(f)' <=> Visible(f))
  BY DEF CommitEvent, EventIs, Visible, InductiveInvariant, TypeOK,
     SequencesAreDistinct
<1>2. Position[e] = 0 /\ Position'[e] = sequence[e]
  BY <1>1 DEF Position
<1>3. ASSUME NEW f \in Events PROVE Position[f] # sequence[e]
  BY <1>1 DEF Position, InductiveInvariant, SequencesAreDistinct
<1>4. Position' = [Position EXCEPT ![e] = sequence[e]]
  BY <1>1 DEF Position
<1>5. UNCHANGED <<cursor, evidence, candidates, outbox, batchVersion>>
  BY DEF CommitEvent, tableVars
<1>6. QED
  BY <1>1, <1>2, <1>3, <1>4, <1>5 DEF Promise!Arrive, Position

\* The commit of an execution consumes its window, with all that belongs to it.
LEMMA CommitConsumes ==
  ASSUME InductiveInvariant, SiblingsTogether, NEW x \in Executions, Commit(x)
  PROVE  Promise!Consume(TargetOf[x])
<1> DEFINE v == TargetOf[x]
           first == batch[x][1]
           last == batch[x][2]
<1>1. /\ v \in Workspaces /\ window[x] \subseteq Events
      /\ batch[x] = <<first, last>>
      /\ first \in window[x] /\ last \in window[x]
  BY CommitWindow
<1>2. \A e \in window[x] :
         /\ WorkspaceOf[e] = v /\ Visible(e) /\ evidence[e] = NoBatch
         /\ sequence[first] <= sequence[e] /\ sequence[e] <= sequence[last]
  BY CommitWindow DEF Consolidated
<1>3. \A e \in window[x] : Position[e] = sequence[e] /\ sequence[e] > 0
  BY <1>1, <1>2 DEF Position, Visible, InductiveInvariant, TypeOK,
     SequencesAreDistinct
<1>4. ASSUME cursor[v] # NoEvent, NEW e \in window[x]
      PROVE  Position[e] > Position[cursor[v]]
  <2>1. cursor[v] \in ConsolidatedIn(v)
    BY <1>1, <1>4 DEF InductiveInvariant, CursorEndsLastWindow
  <2>2. cursor[v] \in Events /\ sequence[cursor[v]] < sequence[e]
    BY <1>4, <2>1, CommitWindow DEF ConsolidatedIn
  <2>3. Visible(cursor[v])
    BY <1>1, <1>4, CursorIsVisible
  <2>4. QED
    BY <1>1, <1>3, <1>4, <2>2, <2>3 DEF Position, InductiveInvariant, TypeOK
<1>5. window[x] \in SUBSET Promise!Pending(v)
  BY <1>1, <1>2, <1>3, <1>4 DEF Promise!Pending, Promise!Arrived, Position
<1>6. /\ evidence' = [e \in Events |-> IF e \in window[x] THEN batch[x]
                                       ELSE evidence[e]]
      /\ cursor' = [cursor EXCEPT ![v] = last]
      /\ batchVersion' = [batchVersion EXCEPT ![v] = @ + 1]
      /\ UNCHANGED eventVars
  BY CommitPublishes
<1>7. /\ candidates' = [e \in Events |-> IF e \in window[x] \cap Speaking
                                         THEN batch[x] ELSE candidates[e]]
      /\ outbox' = IF window[x] \cap Speaking = {} THEN outbox
                   ELSE outbox \cup {batch[x]}
  BY CommitSiblings
<1>8. UNCHANGED Position
  BY <1>6 DEF Position, Visible, eventVars
<1>9. \A e \in window[x] :
         Position[first] <= Position[e] /\ Position[e] <= Position[last]
  BY <1>1, <1>2, <1>3
<1>10. /\ cursor' = [cursor EXCEPT ![v] = last]
       /\ evidence' = [e \in Events |-> IF e \in window[x] THEN <<first, last>>
                                        ELSE evidence[e]]
       /\ candidates' = [e \in Events |-> IF e \in window[x] \cap Speaking
                                          THEN <<first, last>>
                                          ELSE candidates[e]]
       /\ outbox' = IF window[x] \cap Speaking = {} THEN outbox
                    ELSE outbox \cup {<<first, last>>}
  BY <1>1, <1>6, <1>7
<1>11. \E W \in SUBSET Promise!Pending(v) : \E f, l \in W :
          /\ \A e \in W : Position[f] <= Position[e] /\ Position[e] <= Position[l]
          /\ cursor' = [cursor EXCEPT ![v] = l]
          /\ evidence' = [e \in Events |-> IF e \in W THEN <<f, l>>
                                           ELSE evidence[e]]
          /\ candidates' = [e \in Events |-> IF e \in W \cap Speaking
                                             THEN <<f, l>> ELSE candidates[e]]
          /\ outbox' = IF W \cap Speaking = {} THEN outbox
                       ELSE outbox \cup {<<f, l>>}
  <2> USE <1>1, <1>5
  <2>1. WITNESS window[x] \in SUBSET Promise!Pending(v)
  <2>2. WITNESS first \in window[x], last \in window[x]
  <2>3. QED
    BY <1>9, <1>10
<1>12. QED
  BY <1>6, <1>8, <1>11 DEF Promise!Consume, Position

\* Whatever else happens is internal: the promise does not see it.
LEMMA OtherStepsStutter ==
  ASSUME InductiveInvariant, [Next]_vars,
         ~ \E x \in Executions : Commit(x),
         ~ \E e \in Events : CommitEvent(e)
  PROVE  UNCHANGED Promise!vars
<1>1. UNCHANGED tableVars
  BY OnlyCommitsPublish
<1>2. UNCHANGED Position
  <2>1. CASE UNCHANGED <<eventState, sequence>>
    BY <2>1 DEF Position, Visible
  <2>2. ASSUME NEW e \in Events, EventStep(e) PROVE UNCHANGED Position
    <3>1. ASSUME SaveEvent(e) \/ RollbackEvent(e)
                 \/ EnsureWorkingMemory(e)
          PROVE  /\ ~Visible(e) /\ ~Visible(e)'
                 /\ \A f \in Events : f # e =>
                       (Visible(f)' <=> Visible(f)) /\ sequence'[f] = sequence[f]
      BY <3>1 DEF SaveEvent, RollbackEvent, EnsureWorkingMemory, EventIs,
         Visible, InductiveInvariant, TypeOK
    <3>2. ASSUME LoadMemory(e) \/ StoreMemory(e)
          PROVE  /\ sequence' = sequence
                 /\ \A f \in Events : Visible(f)' <=> Visible(f)
      BY <3>2 DEF LoadMemory, StoreMemory, EventIs, Visible,
         InductiveInvariant, TypeOK
    <3>3. QED
      BY <2>2, <3>1, <3>2 DEF EventStep, Position
  <2>3. QED
    BY <2>1, <2>2, ExecutionsLeaveEvents
    DEF Next, MemoryExpires, LockExpires, vars, eventVars
<1>3. QED
  BY <1>1, <1>2 DEF Promise!vars, tableVars, Position

\* The write chain keeps its promise: seen through the published tables it does
\* nothing but take windows of committed events beyond the cursor, each with
\* its batch, candidates, job and count in one step, whatever executions run at
\* once, expire, fail or crash.
THEOREM ChainKeepsPromise == Spec => KeepsPromise
<1>1. Init => Promise!Init
  BY DEF Init, Promise!Init, Visible
<1>2. InductiveInvariant /\ SiblingsTogether /\ [Next]_vars
         => [Promise!Next]_(Promise!vars)
  <2> SUFFICES ASSUME InductiveInvariant, SiblingsTogether, [Next]_vars
               PROVE  Promise!Next \/ UNCHANGED Promise!vars
    OBVIOUS
  <2>1. CASE \E x \in Executions : Commit(x)
    BY <2>1, CommitConsumes, ConstantsAssumption DEF Promise!Next
  <2>2. CASE \E e \in Events : CommitEvent(e)
    BY <2>2, CommitEventArrives DEF Promise!Next
  <2>3. QED
    BY <2>1, <2>2, OtherStepsStutter
<1>3. QED
  BY <1>1, <1>2, Invariance, SiblingsStayTogether, PTL
  DEF Spec, KeepsPromise, Promise!Spec

=============================================================================
