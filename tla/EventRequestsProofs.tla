-------------------------- MODULE EventRequestsProofs --------------------------
(***************************************************************************)
(* Proofs about EventRequests.  Every event that is stored is that of one   *)
(* call, its id and key held from the insert to the commit; every Working   *)
(* Memory, in Redis or in the hands of a call, lists stored events once and *)
(* counts them, so that it does not matter which copy is written last.      *)
(***************************************************************************)
EXTENDS EventRequests, FiniteSetTheorems, SequenceTheorems, TLAPS

(***************************************************************************)
(* The inductive invariant.                                                *)
(***************************************************************************)

EventPhases == {"committing", "loading", "storing", "deciding"}
Inserting(x) == pc[x] = "committing" /\ created[x]
Consolidating(x) == pc[x] \in {"comparing", "saving"}

\* The rows a call has locked follow from where it is.
HoldsByPhase(x) ==
    holds[x] = IF Inserting(x) THEN RowsOf(row[x])
               ELSE IF Consolidating(x) THEN {<<"lock", Workspace(x)>>}
               ELSE {}

\* What the locals say follows from where a call is, too.
LocalsByPhase(x) ==
    /\ pc[x] \in EventPhases => request[x].kind = "event"
    /\ pc[x] \in {"storing", "deciding", "saving"} => loaded[x] # None
    /\ Consolidating(x) => consumed[Workspace(x)] # None
    /\ created[x] => pc[x] \notin {"idle", "done"} /\ request[x].kind = "event"
    /\ result[x] # "none" => pc[x] = "done"
    /\ result[x] \in {"created", "duplicate"} => request[x].kind = "event"

\* An event write answers about a stored event, once it has inserted or read
\* it and unless it failed.
RowIsStored(x) ==
    IF Inserting(x) THEN row[x] = RowOf(x) /\ Conflicting(x) = {}
    ELSE (/\ request[x].kind = "event" /\ pc[x] # "idle"
          /\ result[x] # "failed") => row[x] \in Logged

Counted(m) == {e \in Logged : e.id \in ToSet(m.ids) /\ e.role = "user"}

\* A Working Memory of a workspace as it may be read or written.
Backed(m, w) ==
    /\ ToSet(m.ids) \subseteq {e.id : e \in Logged}
    /\ IsInjective(m.ids)
    /\ m.count = Cardinality(Counted(m))
    /\ m.cursor # None =>
          /\ \E e \in Logged : e.workspace = w /\ e.id = m.cursor
          /\ consumed[w] # None

CallPart(x) ==
    /\ HoldsByPhase(x)
    /\ LocalsByPhase(x)
    /\ RowIsStored(x)
    /\ loaded[x] # None => Backed(loaded[x], Workspace(x))

RowsAreApart == \A x, y \in Calls : x # y => holds[x] \cap holds[y] = {}

\* Stored events come from calls, and no two have an id or a key in common.
EventsAreCalls ==
    \A e \in Logged : \E x \in Calls : request[x].kind = "event" /\ e = RowOf(x)
EventsAreApart ==
    \A d, e \in Logged : d.id = e.id \/ d.key = e.key => d = e

\* The calls that have created an event, or will with their commit.
Creator(x) == created[x] \/ result[x] = "created"
CreatorsAreApart ==
    \A x, y \in Calls :
        x # y /\ Creator(x) /\ Creator(y) => row[x].key # row[y].key

ConsumedIsLogged ==
    \A w \in Workspaces : consumed[w] # None =>
        \E e \in Logged : e.workspace = w /\ e.id = consumed[w]

MemoriesAreBacked ==
    \A w \in Workspaces : memory[w] # None => Backed(memory[w], w)

RequestsInvariant ==
    /\ Types
    /\ \A x \in Calls : CallPart(x)
    /\ RowsAreApart
    /\ EventsAreCalls
    /\ EventsAreApart
    /\ CreatorsAreApart
    /\ ConsumedIsLogged
    /\ MemoriesAreBacked

(***************************************************************************)
(* Sequences and sets.                                                     *)
(***************************************************************************)

\* What Append adds.
LEMMA AppendAdds ==
  ASSUME NEW S, NEW s \in Seq(S), NEW e \in S
  PROVE  /\ Append(s, e) \in Seq(S)
         /\ ToSet(Append(s, e)) = ToSet(s) \cup {e}
<1>1. /\ Append(s, e) \in Seq(S) /\ Len(s) \in Nat
      /\ DOMAIN s = 1..Len(s) /\ DOMAIN Append(s, e) = 1..(Len(s) + 1)
      /\ \A i \in 1..Len(s) : Append(s, e)[i] = s[i]
      /\ Append(s, e)[Len(s) + 1] = e
  BY AppendProperties, LenProperties
<1>2. \A i \in 1..(Len(s) + 1) : i \in 1..Len(s) \/ i = Len(s) + 1
  BY <1>1
<1>3. 1..Len(s) \subseteq 1..(Len(s) + 1) /\ Len(s) + 1 \in 1..(Len(s) + 1)
  BY <1>1
<1>4. ToSet(Append(s, e)) \subseteq ToSet(s) \cup {e}
  BY <1>1, <1>2 DEF ToSet
<1>5. ToSet(s) \cup {e} \subseteq ToSet(Append(s, e))
  BY <1>1, <1>3 DEF ToSet
<1>6. QED
  BY <1>1, <1>4, <1>5

\* A new element keeps a sequence without repetitions.
LEMMA AppendKeepsInjective ==
  ASSUME NEW S, NEW s \in Seq(S), NEW e \in S, IsInjective(s), e \notin ToSet(s)
  PROVE  IsInjective(Append(s, e))
<1>1. /\ Len(s) \in Nat
      /\ DOMAIN s = 1..Len(s) /\ DOMAIN Append(s, e) = 1..(Len(s) + 1)
      /\ \A i \in 1..Len(s) : Append(s, e)[i] = s[i]
      /\ Append(s, e)[Len(s) + 1] = e
  BY AppendProperties, LenProperties
<1>2. \A i \in 1..(Len(s) + 1) : i \in 1..Len(s) \/ i = Len(s) + 1
  BY <1>1
<1>3. \A i \in 1..Len(s) : s[i] # e
  BY <1>1 DEF ToSet
<1>4. QED
  BY <1>1, <1>2, <1>3 DEF IsInjective

\* A sequence has finitely many elements, all of its set.
LEMMA SequenceIsFinite ==
  ASSUME NEW S, NEW s \in Seq(S)
  PROVE  IsFiniteSet(ToSet(s)) /\ ToSet(s) \subseteq S
<1>1. Len(s) \in Nat /\ s \in [1..Len(s) -> S] /\ DOMAIN s = 1..Len(s)
  BY LenProperties
<1>2. IsFiniteSet(1..Len(s))
  BY <1>1, FS_Interval
<1>3. s \in Surjection(1..Len(s), ToSet(s))
  BY <1>1 DEF Surjection, ToSet
<1>4. IsFiniteSet(ToSet(s))
  BY <1>2, <1>3, FS_Surjection
<1>5. QED
  BY <1>1, <1>4 DEF ToSet

(***************************************************************************)
(* Events and Working Memories.                                            *)
(***************************************************************************)

\* The row a call would store is one, and what it asks for is an event.
LEMMA RowIsEvent ==
  ASSUME Types, NEW x \in Calls
  PROVE  /\ RowOf(x) \in EventRows /\ RowOf(x).id = EventIdOf(x)
         /\ RowOf(x).key = request[x].key
         /\ request[x].workspace \in Workspaces
  BY DEF Types, RequestType, RowOf, EventRows, EventIdOf, AllIds

\* Finitely many events are stored.
LEMMA LoggedAreEvents ==
  ASSUME Types
  PROVE  /\ IsFiniteSet(Logged) /\ Logged \subseteq EventRows
         /\ \A e \in Logged : /\ e.id \in AllIds /\ e.key \in Keys
                             /\ e.payload \in Payloads
                             /\ e.refs \in SUBSET Payloads
<1>1. IsFiniteSet(Logged) /\ Logged \subseteq EventRows
  BY SequenceIsFinite DEF Types, Logged
<1>2. \A e \in EventRows : /\ e.id \in AllIds /\ e.key \in Keys
                           /\ e.payload \in Payloads
                           /\ e.refs \in SUBSET Payloads
  BY DEF EventRows
<1>3. QED
  BY <1>1, <1>2

\* _update_working_memory: the result is a Working Memory again, and what it
\* lists and counts is stored, each event once.
LEMMA WithEventIsBacked ==
  ASSUME Types, EventsAreApart, NEW w \in Workspaces,
         NEW m \in MemoryRecords, Backed(m, w),
         NEW e \in Logged, NEW q \in RequestType
  PROVE  WithEvent(m, e, q) \in MemoryRecords /\ Backed(WithEvent(m, e, q), w)
<1> DEFINE new == WithEvent(m, e, q)
           isNew == ~Contains(m.ids, e.id)
           ids == IF isNew THEN Append(m.ids, e.id) ELSE m.ids
           count == IF isNew /\ e.role = "user" THEN m.count + 1 ELSE m.count
           refs == m.refs \cup e.refs
           items == IF q.signal = "remember" THEN m.items \cup {e.payload}
                    ELSE m.items
<1>1. /\ m.ids \in Seq(AllIds) /\ m.count \in Nat
      /\ m.cursor \in AllIds \cup {None}
      /\ m.refs \in SUBSET Payloads /\ m.items \in SUBSET Payloads
      /\ m = [ids |-> m.ids, count |-> m.count, cursor |-> m.cursor,
              refs |-> m.refs, items |-> m.items]
  BY DEF MemoryRecords
<1>2. /\ IsFiniteSet(Logged) /\ Logged \subseteq EventRows
      /\ e \in EventRows /\ e.id \in AllIds /\ e.payload \in Payloads
      /\ e.refs \in SUBSET Payloads
  BY LoggedAreEvents
<1>3. ids \in Seq(AllIds) /\ count \in Nat
      /\ refs \in SUBSET Payloads /\ items \in SUBSET Payloads
  BY <1>1, <1>2, AppendAdds
<1>4. new = [ids |-> ids, count |-> count, cursor |-> m.cursor,
             refs |-> refs, items |-> items]
  <2>1. new = [m EXCEPT !.ids = ids, !.count = count, !.refs = refs,
                        !.items = items]
    BY DEF WithEvent
  <2> HIDE DEF new, ids, count, refs, items
  <2>2. QED
    BY <1>1, <2>1
<1> HIDE DEF new
<1>5. /\ new.ids = ids /\ new.count = count /\ new.cursor = m.cursor
      /\ new \in MemoryRecords
  <2> HIDE DEF ids, count, refs, items
  <2> QED
    BY <1>1, <1>3, <1>4 DEF MemoryRecords
<1>6. isNew <=> e.id \notin ToSet(m.ids)
  BY <1>1, LenProperties DEF Contains, ToSet
<1>7. ToSet(ids) = ToSet(m.ids) \cup {e.id} /\ IsInjective(ids)
  BY <1>1, <1>2, <1>6, AppendAdds, AppendKeepsInjective DEF Backed
<1>8. ToSet(ids) \subseteq {d.id : d \in Logged}
  BY <1>7 DEF Backed
<1>9. count = Cardinality(Counted(new))
  <2>1. IsFiniteSet(Counted(m)) /\ Cardinality(Counted(m)) = m.count
    <3>1. Counted(m) \in SUBSET Logged
      BY DEF Counted
    <3>2. IsFiniteSet(Counted(m))
      BY <1>2, <3>1, FS_Subset
    <3>3. QED
      BY <3>2 DEF Backed
  <2>2. CASE isNew /\ e.role = "user"
    <3>1. Counted(new) = Counted(m) \cup {e} /\ e \notin Counted(m)
      BY <1>5, <1>6, <1>7, <2>2 DEF Counted, EventsAreApart
    <3>2. Cardinality(Counted(m) \cup {e}) = Cardinality(Counted(m)) + 1
      BY <2>1, <3>1, FS_AddElement
    <3>3. QED
      BY <2>1, <2>2, <3>1, <3>2
  <2>3. CASE ~(isNew /\ e.role = "user")
    <3>1. Counted(new) = Counted(m)
      BY <1>5, <1>6, <1>7, <2>3 DEF Counted, EventsAreApart
    <3>2. QED
      BY <2>1, <2>3, <3>1
  <2>4. QED
    BY <2>2, <2>3
<1>10. Backed(new, w)
  BY <1>5, <1>7, <1>8, <1>9 DEF Backed
<1>11. QED
  BY <1>5, <1>10 DEF new

\* A Working Memory stays what it is while events are added whose ids are new
\* and the cursors move on.
LEMMA BackedStays ==
  ASSUME Types, NEW w \in Workspaces, NEW m \in MemoryRecords, Backed(m, w),
         Logged \subseteq Logged',
         \A e \in Logged' : \A d \in Logged : e.id = d.id => e = d,
         consumed[w] # None => consumed'[w] # None
  PROVE  Backed(m, w)'
<1>1. Counted(m)' = Counted(m)
  BY DEF Counted, Backed
<1>2. QED
  BY <1>1 DEF Backed

(***************************************************************************)
(* What a step changes.                                                    *)
(***************************************************************************)

\* A consolidation without a cursor row is a call that raises.
LEMMA MissingRaises ==
  ASSUME NEW x, CursorIsMissing(x)
  PROVE  Raise(x)
  BY DEF CursorIsMissing, Raise

\* A step of one call leaves the locals of the others alone, and only a
\* commit changes the log.
LEMMA CallFrame ==
  ASSUME Types, NEW x \in Calls, Proceed(x) \/ Raise(x)
  PROVE  /\ request' = request
         /\ \A y \in Calls \ {x} :
               /\ pc'[y] = pc[y] /\ holds'[y] = holds[y] /\ row'[y] = row[y]
               /\ created'[y] = created[y] /\ loaded'[y] = loaded[y]
               /\ result'[y] = result[y]
         /\ CommitEvent(x) \/ log' = log
<1> USE DEF Types, Goto, Finish, locals, stored
<1>1. CASE SaveEvent(x)
  BY <1>1 DEF SaveEvent
<1>2. CASE CommitEvent(x)
  BY <1>2 DEF CommitEvent
<1>3. CASE LoadMemory(x)
  BY <1>3 DEF LoadMemory
<1>4. CASE StoreMemory(x)
  BY <1>4 DEF StoreMemory
<1>5. CASE Decide(x)
  BY <1>5 DEF Decide
<1>6. CASE AskToConsolidate(x)
  BY <1>6 DEF AskToConsolidate
<1>7. CASE Consolidate(x)
  BY <1>7 DEF Consolidate
<1>8. CASE CompareMemory(x)
  BY <1>8 DEF CompareMemory
<1>9. CASE SaveMemory(x)
  BY <1>9 DEF SaveMemory
<1>10. CASE Promote(x)
  BY <1>10 DEF Promote
<1>11. CASE Raise(x)
  BY <1>11 DEF Raise
<1>12. QED
  BY <1>1, <1>2, <1>3, <1>4, <1>5, <1>6, <1>7, <1>8, <1>9, <1>10, <1>11,
     MissingRaises DEF Proceed

\* A commit of an insert adds the event of its call, whose id and key are new.
LEMMA CommitAdds ==
  ASSUME RequestsInvariant, NEW x \in Calls, CommitEvent(x)
  PROVE  /\ log' \in Seq(EventRows)
         /\ ~created[x] => log' = log
         /\ created[x] => /\ row[x] = RowOf(x) /\ RowOf(x) \in EventRows
                          /\ Logged' = Logged \cup {RowOf(x)}
                          /\ Conflicting(x) = {}
<1>1. RowOf(x) \in EventRows /\ log \in Seq(EventRows)
  BY RowIsEvent DEF RequestsInvariant, Types
<1>2. created[x] => row[x] = RowOf(x) /\ Conflicting(x) = {}
  BY DEF RequestsInvariant, CallPart, RowIsStored, Inserting, CommitEvent, Goto
<1>3. log' = IF created[x] THEN Append(log, row[x]) ELSE log
  BY DEF CommitEvent
<1>4. QED
  BY <1>1, <1>2, <1>3, AppendAdds DEF Logged

\* What is stored stays, with its ids, and a workspace that was consolidated
\* stays so.
LEMMA StepGrows ==
  ASSUME RequestsInvariant, NEW x \in Calls, Proceed(x) \/ Raise(x)
  PROVE  /\ Logged \subseteq Logged'
         /\ \A e \in Logged' : \A d \in Logged : e.id = d.id => e = d
         /\ \A w \in Workspaces : consumed[w] # None => consumed'[w] # None
         /\ consumed' \in [Workspaces -> AllIds \cup {None}]
<1>1. EventsAreApart /\ Types
  BY DEF RequestsInvariant
<1>2. CASE CommitEvent(x)
  <2>1. consumed' = consumed
    BY <1>2 DEF CommitEvent
  <2>2. CASE created[x]
    <3>1. /\ Logged' = Logged \cup {RowOf(x)} /\ Conflicting(x) = {}
          /\ RowOf(x).id = EventIdOf(x)
      BY <1>1, <1>2, <2>2, CommitAdds, RowIsEvent
    <3>2. \A d \in Logged : d.id # RowOf(x).id
      BY <3>1 DEF Conflicting
    <3>3. \A e \in Logged' : \A d \in Logged : e.id = d.id => e = d
      BY <1>1, <3>1, <3>2 DEF EventsAreApart
    <3>4. QED
      BY <1>1, <2>1, <3>1, <3>3 DEF Types
  <2>3. CASE ~created[x]
    BY <1>1, <1>2, <2>1, <2>3, CommitAdds DEF Types, EventsAreApart, Logged
  <2>4. QED
    BY <2>2, <2>3
<1>3. CASE ~CommitEvent(x)
  <2>1. Logged' = Logged
    BY <1>1, <1>3, CallFrame DEF Logged
  <2>2. CASE consumed' = consumed
    BY <1>1, <2>1, <2>2 DEF EventsAreApart, Types
  <2>3. CASE Consolidate(x) /\ consumed' # consumed
    <3>1. PICK e : /\ e \in LastOf(Workspace(x))
                   /\ consumed' = [consumed EXCEPT ![Workspace(x)] = e.id]
      BY <2>3 DEF Consolidate
    <3>2. e \in Logged
      BY <3>1 DEF LastOf, Of, Logged, ToSet
    <3>3. e.id \in AllIds
      BY <1>1, <3>2, LoggedAreEvents
    <3>4. QED
      BY <1>1, <2>1, <3>1, <3>3, ConstantsAssumption
         DEF EventsAreApart, Types, ConstantsAssumption
  <2>4. consumed' = consumed \/ Consolidate(x)
    BY MissingRaises
       DEF Proceed, Raise, SaveEvent, CommitEvent, LoadMemory, StoreMemory,
           Decide, AskToConsolidate, CompareMemory, SaveMemory, Promote, stored
  <2>5. QED
    BY <2>2, <2>3, <2>4
<1>4. QED
  BY <1>2, <1>3

\* A Working Memory that no step has touched is backed as before.
LEMMA LoadedStays ==
  ASSUME RequestsInvariant, NEW x \in Calls, Proceed(x) \/ Raise(x),
         NEW y \in Calls, loaded'[y] = loaded[y], loaded'[y] # None
  PROVE  Backed(loaded[y], Workspace(y))'
<1>1. /\ Types /\ Backed(loaded[y], Workspace(y))
      /\ Workspace(y) \in Workspaces /\ Workspace(y)' = Workspace(y)
  BY RowIsEvent, CallFrame DEF RequestsInvariant, CallPart, Workspace
<1>2. PICK m \in MemoryRecords : m = loaded[y]
  BY <1>1 DEF Types
<1>3. PICK w \in Workspaces : w = Workspace(y)
  BY <1>1
<1>4. Backed(m, w)'
  BY <1>1, <1>2, <1>3, StepGrows, BackedStays
<1>5. QED
  BY <1>1, <1>2, <1>3, <1>4

\* The same of a stored Working Memory that a step leaves alone.
LEMMA MemoryStays ==
  ASSUME RequestsInvariant, NEW x \in Calls, Proceed(x) \/ Raise(x),
         NEW w \in Workspaces, memory'[w] = memory[w], memory'[w] # None
  PROVE  Backed(memory[w], w)'
<1>1. Types /\ Backed(memory[w], w)
  BY DEF RequestsInvariant, MemoriesAreBacked
<1>2. PICK m \in MemoryRecords : m = memory[w]
  BY <1>1 DEF Types
<1>3. Backed(m, w)'
  BY <1>1, <1>2, StepGrows, BackedStays
<1>4. QED
  BY <1>2, <1>3

(***************************************************************************)
(* A step leaves the other calls as they were.                             *)
(***************************************************************************)

\* Open inserts of two calls have neither an id nor a key in common.
LEMMA InsertsAreApart ==
  ASSUME RequestsInvariant, NEW x \in Calls, NEW y \in Calls \ {x},
         Inserting(x), Inserting(y)
  PROVE  EventIdOf(x) # EventIdOf(y) /\ request[x].key # request[y].key
<1>1. /\ row[x] = RowOf(x) /\ holds[x] = RowsOf(row[x])
      /\ row[y] = RowOf(y) /\ holds[y] = RowsOf(row[y])
  BY DEF RequestsInvariant, CallPart, HoldsByPhase, RowIsStored, Inserting
<1>2. holds[x] \cap holds[y] = {}
  BY DEF RequestsInvariant, RowsAreApart
<1>3. /\ RowOf(x).id = EventIdOf(x) /\ RowOf(x).key = request[x].key
      /\ RowOf(y).id = EventIdOf(y) /\ RowOf(y).key = request[y].key
  BY RowIsEvent DEF RequestsInvariant
<1>4. QED
  BY <1>1, <1>2, <1>3 DEF RowsOf

\* While the step of another call only adds events and moves cursors on.
LEMMA OthersStay ==
  ASSUME RequestsInvariant, NEW x \in Calls, Proceed(x) \/ Raise(x),
         NEW y \in Calls \ {x}
  PROVE  CallPart(y)'
<1>1. /\ request' = request
      /\ pc'[y] = pc[y] /\ holds'[y] = holds[y] /\ row'[y] = row[y]
      /\ created'[y] = created[y] /\ loaded'[y] = loaded[y]
      /\ result'[y] = result[y]
  BY CallFrame DEF RequestsInvariant
<1>2. /\ Logged \subseteq Logged'
      /\ \A e \in Logged' : \A d \in Logged : e.id = d.id => e = d
      /\ \A w \in Workspaces : consumed[w] # None => consumed'[w] # None
  BY StepGrows
<1>3. Types /\ CallPart(y) /\ Workspace(y) \in Workspaces
  BY RowIsEvent DEF RequestsInvariant, Workspace
<1>4. /\ Workspace(y)' = Workspace(y) /\ RowOf(y)' = RowOf(y)
      /\ EventIdOf(y)' = EventIdOf(y)
      /\ Inserting(y)' = Inserting(y) /\ Consolidating(y)' = Consolidating(y)
  BY <1>1 DEF Workspace, RowOf, EventIdOf, Inserting, Consolidating
<1>5. HoldsByPhase(y)' /\ LocalsByPhase(y)'
  BY <1>1, <1>2, <1>3, <1>4 DEF CallPart, HoldsByPhase, LocalsByPhase
<1>6. RowIsStored(y)'
  <2>1. CASE Inserting(y)
    <3>1. row[y] = RowOf(y) /\ Conflicting(y) = {}
      BY <1>3, <2>1 DEF CallPart, RowIsStored
    <3>2. CASE CommitEvent(x) /\ created[x]
      <4>1. /\ Logged' = Logged \cup {RowOf(x)}
            /\ RowOf(x).id = EventIdOf(x) /\ RowOf(x).key = request[x].key
        BY <1>3, <3>2, CommitAdds, RowIsEvent
      <4>2. EventIdOf(x) # EventIdOf(y) /\ request[x].key # request[y].key
        BY <2>1, <3>2, InsertsAreApart DEF CommitEvent, Goto, Inserting
      <4>3. Conflicting(y)' = {}
        BY <1>1, <1>4, <3>1, <4>1, <4>2 DEF Conflicting
      <4>4. QED
        BY <1>1, <1>4, <2>1, <3>1, <4>3 DEF RowIsStored
    <3>3. CASE ~(CommitEvent(x) /\ created[x])
      <4>1. log' = log
        BY <1>3, <3>3, CallFrame, CommitAdds
      <4>2. QED
        BY <1>1, <1>4, <2>1, <3>1, <4>1 DEF RowIsStored, Conflicting, Logged
    <3>4. QED
      BY <3>2, <3>3
  <2>2. CASE ~Inserting(y)
    BY <1>1, <1>2, <1>3, <1>4, <2>2 DEF CallPart, RowIsStored
  <2>3. QED
    BY <2>1, <2>2
<1>7. loaded'[y] # None => Backed(loaded[y], Workspace(y))'
  BY <1>1, LoadedStays
<1>8. QED
  BY <1>5, <1>6, <1>7 DEF CallPart

(***************************************************************************)
(* What a call writes to Redis.                                            *)
(***************************************************************************)

\* The value with its event is a Working Memory backed by the log.
LEMMA StoredIsBacked ==
  ASSUME RequestsInvariant, NEW x \in Calls, StoreMemory(x)
  PROVE  LET new == WithEvent(loaded[x], row[x], request[x])
         IN  new \in MemoryRecords /\ Backed(new, Workspace(x))
<1>1. /\ Types /\ EventsAreApart /\ pc[x] = "storing"
      /\ LocalsByPhase(x) /\ RowIsStored(x)
      /\ loaded[x] # None => Backed(loaded[x], Workspace(x))
  BY DEF RequestsInvariant, CallPart, StoreMemory, Goto
<1>2. request[x].kind = "event" /\ loaded[x] # None /\ result[x] = "none"
  BY <1>1 DEF LocalsByPhase, EventPhases
<1>3. row[x] \in Logged
  BY <1>1, <1>2 DEF RowIsStored, Inserting
<1>4. /\ loaded[x] \in MemoryRecords /\ request[x] \in RequestType
      /\ Workspace(x) \in Workspaces
  BY <1>1, <1>2, RowIsEvent DEF Types, Workspace
<1>5. QED
  BY <1>1, <1>2, <1>3, <1>4, WithEventIsBacked

\* So is the value with the new cursor.
LEMMA SavedIsBacked ==
  ASSUME RequestsInvariant, NEW x \in Calls, SaveMemory(x)
  PROVE  LET new == [loaded[x] EXCEPT !.cursor = consumed[Workspace(x)]]
         IN  new \in MemoryRecords /\ Backed(new, Workspace(x))
<1> DEFINE w == Workspace(x)
           new == [loaded[x] EXCEPT !.cursor = consumed[w]]
<1>1. /\ Types /\ pc[x] = "saving" /\ LocalsByPhase(x)
      /\ loaded[x] # None => Backed(loaded[x], w)
      /\ w \in Workspaces
  BY RowIsEvent DEF RequestsInvariant, CallPart, SaveMemory, Goto, Workspace
<1>2. loaded[x] # None /\ consumed[w] # None
  BY <1>1 DEF LocalsByPhase, Consolidating
<1>3. PICK m \in MemoryRecords : m = loaded[x]
  BY <1>1, <1>2 DEF Types
<1>4. consumed[w] \in AllIds
  BY <1>1, <1>2 DEF Types
<1>5. /\ new \in MemoryRecords /\ new.ids = m.ids /\ new.count = m.count
      /\ new.cursor = consumed[w]
  <2> HIDE DEF w
  <2> QED
    BY <1>3, <1>4 DEF MemoryRecords
<1>6. \E e \in Logged : e.workspace = w /\ e.id = consumed[w]
  BY <1>1, <1>2 DEF RequestsInvariant, ConsumedIsLogged
<1>7. Backed(new, w)
  <2> HIDE DEF new, w
  <2>1. Backed(m, w)
    BY <1>1, <1>2, <1>3
  <2>2. QED
    BY <1>2, <1>5, <1>6, <2>1 DEF Backed, Counted
<1>8. QED
  BY <1>5, <1>7

(***************************************************************************)
(* Types.                                                                  *)
(***************************************************************************)

\* What a call locks are rows.
LEMMA RowsAreRows ==
  /\ \A e \in EventRows : RowsOf(e) \in SUBSET Rows
  /\ \A w \in Workspaces : {<<"lock", w>>} \in SUBSET Rows
<1>1. \A e \in EventRows : e.id \in AllIds /\ e.key \in Keys
  BY DEF EventRows
<1>2. QED
  BY <1>1 DEF RowsOf, Rows

\* The end of a call keeps the types of what it changes.
LEMMA FinishTypes ==
  ASSUME Types, NEW x \in Calls, NEW r \in Results, Finish(x, r)
  PROVE  /\ request' = request
         /\ pc' \in [Calls -> Phases] /\ result' \in [Calls -> Results]
         /\ holds' \in [Calls -> SUBSET Rows]
         /\ row' \in [Calls -> EventRows \cup {None}]
         /\ created' \in [Calls -> BOOLEAN]
         /\ loaded' \in [Calls -> MemoryRecords \cup {None}]
         /\ before' \in [Calls -> AllIds \cup {None}]
  BY DEF Types, Finish, Phases

\* What a consolidation answers is one of the results.
LEMMA OutcomeIsResult ==
  ASSUME NEW x \in Calls
  PROVE  /\ Outcome(x) \in Results /\ Answer(x) \in {"created", "duplicate"}
         /\ Answer(x) \in Results
         /\ Outcome(x) \notin {"none", "failed"}
         /\ Outcome(x) \in {"created", "duplicate"} => request[x].kind = "event"
         /\ Outcome(x) = "created" \/ Answer(x) = "created" => created[x]
  BY DEF Outcome, Answer, Results

\* Every step keeps the types.
LEMMA StepTypes ==
  ASSUME RequestsInvariant, NEW x \in Calls, Proceed(x) \/ Raise(x)
  PROVE  Types'
<1>1. /\ Types /\ CallPart(x) /\ request[x] \in RequestType
      /\ Workspace(x) \in Workspaces
  BY RowIsEvent DEF RequestsInvariant, Types, Workspace
<1>2. consumed' \in [Workspaces -> AllIds \cup {None}]
  BY StepGrows
<1>3. log' \in Seq(EventRows)
  BY <1>1, CallFrame, CommitAdds DEF Types
<1>4. RowOf(x) \in EventRows /\ RowsOf(RowOf(x)) \in SUBSET Rows
      /\ Conflicting(x) \subseteq EventRows
      /\ {<<"lock", Workspace(x)>>} \in SUBSET Rows
  BY <1>1, RowIsEvent, RowsAreRows, LoggedAreEvents DEF Conflicting
<1> USE DEF Goto, stored, locals, Phases
<1>5. CASE SaveEvent(x)
  <2>1. row' \in [Calls -> EventRows \cup {None}]
    BY <1>1, <1>4, <1>5 DEF Types, SaveEvent, Existing
  <2>2. holds' \in [Calls -> SUBSET Rows]
    BY <1>1, <1>4, <1>5 DEF Types, SaveEvent
  <2>3. created' \in [Calls -> BOOLEAN] /\ pc' \in [Calls -> Phases]
    BY <1>1, <1>5 DEF Types, SaveEvent
  <2>4. QED
    BY <1>1, <1>2, <1>3, <1>5, <2>1, <2>2, <2>3 DEF Types, SaveEvent
<1>6. CASE CommitEvent(x)
  BY <1>1, <1>2, <1>3, <1>6 DEF Types, CommitEvent
<1>7. CASE LoadMemory(x)
  <2>1. FreshMemory \in MemoryRecords
    BY DEF FreshMemory, MemoryRecords
  <2>2. loaded' \in [Calls -> MemoryRecords \cup {None}]
    BY <1>1, <1>7, <2>1 DEF Types, LoadMemory
  <2>3. QED
    BY <1>1, <1>2, <1>3, <1>7, <2>2 DEF Types, LoadMemory
<1>8. CASE StoreMemory(x)
  <2>1. PICK new : /\ new = WithEvent(loaded[x], row[x], request[x])
                   /\ new \in MemoryRecords
    BY <1>1, <1>8, StoredIsBacked
  <2>2. /\ memory' = [memory EXCEPT ![Workspace(x)] = new]
        /\ loaded' = [loaded EXCEPT ![x] = new]
    BY <1>8, <2>1 DEF StoreMemory
  <2>3. QED
    BY <1>1, <1>2, <1>3, <1>8, <2>1, <2>2 DEF Types, StoreMemory
<1>9. CASE Decide(x)
  BY <1>1, <1>2, <1>3, <1>9, FinishTypes, OutcomeIsResult DEF Types, Decide
<1>10. CASE AskToConsolidate(x)
  BY <1>1, <1>2, <1>3, <1>10 DEF Types, AskToConsolidate
<1>11. CASE Consolidate(x)
  <2>1. CASE Finish(x, Outcome(x))
    BY <1>1, <1>2, <1>3, <1>11, <2>1, FinishTypes, OutcomeIsResult
       DEF Types, Consolidate
  <2>2. CASE ~Finish(x, Outcome(x))
    <3>1. /\ Goto(x, "consolidating", "comparing")
          /\ holds' = [holds EXCEPT ![x] = {<<"lock", Workspace(x)>>}]
          /\ before' = [before EXCEPT ![x] = consumed[Workspace(x)]]
          /\ UNCHANGED <<request, row, created, loaded, result, anchored, jobs,
                         memory>>
      BY <1>11, <2>2 DEF Consolidate
    <3>2. before' \in [Calls -> AllIds \cup {None}]
      BY <1>1, <3>1 DEF Types
    <3>3. holds' \in [Calls -> SUBSET Rows] /\ pc' \in [Calls -> Phases]
      BY <1>1, <1>4, <3>1 DEF Types
    <3>4. QED
      BY <1>1, <1>2, <1>3, <3>1, <3>2, <3>3 DEF Types
  <2>3. QED
    BY <2>1, <2>2
<1>12. CASE CompareMemory(x)
  <2>1. CASE Finish(x, Outcome(x))
    BY <1>1, <1>2, <1>3, <1>12, <2>1, FinishTypes, OutcomeIsResult
       DEF Types, CompareMemory
  <2>2. CASE ~Finish(x, Outcome(x))
    BY <1>1, <1>2, <1>3, <1>4, <1>12, <2>2 DEF Types, CompareMemory
  <2>3. QED
    BY <2>1, <2>2
<1>13. CASE SaveMemory(x)
  <2>1. PICK new : /\ new = [loaded[x] EXCEPT !.cursor = consumed[Workspace(x)]]
                   /\ new \in MemoryRecords
    BY <1>1, <1>13, SavedIsBacked
  <2>2. memory' = [memory EXCEPT ![Workspace(x)] = new] /\ Finish(x, Outcome(x))
    BY <1>13, <2>1 DEF SaveMemory
  <2>3. QED
    BY <1>1, <1>2, <1>3, <1>13, <2>1, <2>2, FinishTypes, OutcomeIsResult
       DEF Types, SaveMemory
<1>14. CASE Promote(x)
  <2>1. request[x].key \in Keys /\ request[x].payload \in Payloads
    BY <1>1 DEF RequestType
  <2>2. "queued" \in Results
    BY DEF Results
  <2>3. QED
    BY <1>1, <1>2, <1>3, <1>14, <2>1, <2>2, FinishTypes DEF Types, Promote
<1>15. CASE Raise(x)
  BY <1>1, <1>2, <1>3, <1>15, FinishTypes DEF Types, Raise, Results
<1>16. QED
  BY <1>5, <1>6, <1>7, <1>8, <1>9, <1>10, <1>11, <1>12, <1>13, <1>14, <1>15,
     MissingRaises DEF Proceed

(***************************************************************************)
(* The step of a call keeps its own part.                                  *)
(***************************************************************************)

\* A call that ends holds nothing, and answers about a stored event if its
\* answer is about one.
LEMMA FinishKeepsPart ==
  ASSUME RequestsInvariant, NEW x \in Calls, Proceed(x) \/ Raise(x),
         NEW r \in Results \ {"none"}, Finish(x, r),
         r \in {"created", "duplicate"} => request[x].kind = "event",
         request[x].kind = "event" /\ r # "failed" => row[x] \in Logged'
  PROVE  CallPart(x)'
<1>1. /\ request' = request /\ pc'[x] = "done" /\ result'[x] = r
      /\ holds'[x] = {} /\ created'[x] = FALSE /\ loaded'[x] = None
      /\ r # "failed" => row'[x] = row[x]
  BY DEF RequestsInvariant, Types, Finish
<1>2. QED
  BY <1>1 DEF CallPart, HoldsByPhase, LocalsByPhase, RowIsStored, Inserting,
              Consolidating, EventPhases

\* An event write that is past its transaction has its event.
LEMMA EventIsStored ==
  ASSUME RequestsInvariant, NEW x \in Calls, request[x].kind = "event",
         pc[x] \in {"loading", "storing", "deciding", "consolidating",
                    "comparing", "saving"}
  PROVE  row[x] \in Logged
<1>1. LocalsByPhase(x) /\ RowIsStored(x)
  BY DEF RequestsInvariant, CallPart
<1>2. QED
  BY <1>1 DEF LocalsByPhase, RowIsStored, Inserting

\* Every step of a call keeps its own part.
LEMMA OwnPart ==
  ASSUME RequestsInvariant, NEW x \in Calls, Proceed(x) \/ Raise(x)
  PROVE  CallPart(x)'
<1>1. /\ Types /\ HoldsByPhase(x) /\ LocalsByPhase(x) /\ RowIsStored(x)
      /\ request' = request /\ Workspace(x) \in Workspaces
      /\ Workspace(x)' = Workspace(x) /\ RowOf(x)' = RowOf(x)
      /\ EventIdOf(x)' = EventIdOf(x)
  BY CallFrame, RowIsEvent
     DEF RequestsInvariant, CallPart, Workspace, RowOf, EventIdOf
<1>2. Logged \subseteq Logged' /\ (CommitEvent(x) \/ Logged' = Logged)
  BY <1>1, CallFrame, StepGrows DEF Logged
<1>3. loaded'[x] = loaded[x] /\ loaded'[x] # None
        => Backed(loaded[x], Workspace(x))'
  BY LoadedStays
<1>4. ASSUME NEW r \in Results, Finish(x, r), r \notin {"none", "failed"},
             r \in {"created", "duplicate"} => request[x].kind = "event",
             request[x].kind = "event" =>
                 pc[x] \in {"deciding", "consolidating", "comparing", "saving"}
      PROVE  CallPart(x)'
  BY <1>2, <1>4, EventIsStored, FinishKeepsPart
<1> USE DEF Goto, CallPart, HoldsByPhase, LocalsByPhase, Inserting,
            Consolidating, EventPhases
<1>5. CASE SaveEvent(x)
  <2>1. /\ pc[x] = "idle" /\ pc'[x] = "committing" /\ holds[x] = {}
        /\ ~created[x] /\ request[x].kind = "event" /\ result[x] = "none"
        /\ loaded'[x] = loaded[x] /\ result'[x] = result[x]
    BY <1>1, <1>5 DEF SaveEvent, Types
  <2>2. CASE Conflicting(x) = {}
    <3>1. /\ row'[x] = RowOf(x) /\ created'[x] = TRUE
          /\ holds'[x] = RowsOf(RowOf(x))
      BY <1>1, <1>5, <2>2 DEF SaveEvent, Types
    <3>2. Conflicting(x)' = {}
      BY <1>1, <1>5, <2>2 DEF SaveEvent, Conflicting, Logged, stored
    <3>3. QED
      BY <1>1, <1>3, <2>1, <3>1, <3>2 DEF RowIsStored
  <2>3. CASE Conflicting(x) # {}
    <3>1. /\ row'[x] \in Logged /\ created'[x] = FALSE /\ holds'[x] = {}
      BY <1>1, <1>5, <2>1, <2>3 DEF SaveEvent, Types, Existing, Conflicting
    <3>2. QED
      BY <1>1, <1>2, <1>3, <2>1, <3>1 DEF RowIsStored
  <2>4. QED
    BY <2>2, <2>3
<1>6. CASE CommitEvent(x)
  <2>1. /\ pc[x] = "committing" /\ pc'[x] = "loading" /\ holds'[x] = {}
        /\ row'[x] = row[x] /\ created'[x] = created[x]
        /\ loaded'[x] = loaded[x] /\ result'[x] = result[x]
        /\ result[x] = "none"
    BY <1>1, <1>6 DEF CommitEvent, Types, locals
  <2>2. row[x] \in Logged'
    BY <1>1, <1>2, <1>6, <2>1, CommitAdds DEF RowIsStored
  <2>3. QED
    BY <1>1, <1>3, <2>1, <2>2 DEF RowIsStored
<1>7. CASE LoadMemory(x)
  <2>1. /\ pc[x] = "loading" /\ pc'[x] = "storing" /\ holds'[x] = holds[x]
        /\ row'[x] = row[x] /\ created'[x] = created[x]
        /\ result'[x] = result[x] /\ result[x] = "none"
    BY <1>1, <1>7 DEF LoadMemory, Types
  <2>2. loaded'[x] # None /\ Backed(loaded[x], Workspace(x))'
    <3>1. CASE memory[Workspace(x)] = None
      <4>1. loaded'[x] = FreshMemory
        BY <1>1, <1>7, <3>1 DEF LoadMemory, Types
      <4>2. FreshMemory \in MemoryRecords
        BY DEF FreshMemory, MemoryRecords
      <4>3. Backed(FreshMemory, Workspace(x))'
        <5>1. ToSet(FreshMemory.ids) = {} /\ IsInjective(FreshMemory.ids)
          BY EmptySeq DEF FreshMemory, ToSet, IsInjective
        <5>2. Counted(FreshMemory)' = {}
          BY <5>1 DEF Counted
        <5>3. QED
          BY <5>1, <5>2, FS_EmptySet DEF Backed, FreshMemory
      <4>4. QED
        BY <4>1, <4>2, <4>3, NoneAssumption DEF NoneAssumption
    <3>2. CASE memory[Workspace(x)] # None
      <4>1. loaded'[x] = memory[Workspace(x)] /\ memory' = memory
        BY <1>1, <1>7, <3>2 DEF LoadMemory, Types
      <4>2. PICK w \in Workspaces : w = Workspace(x)
        BY <1>1
      <4>3. Backed(memory[w], w)'
        BY <3>2, <4>1, <4>2, MemoryStays
      <4>4. QED
        BY <1>1, <3>2, <4>1, <4>2, <4>3
    <3>3. QED
      BY <3>1, <3>2
  <2>3. QED
    BY <1>1, <1>2, <2>1, <2>2, <1>7, EventIsStored DEF RowIsStored
<1>8. CASE StoreMemory(x)
  <2>1. PICK new : /\ new = WithEvent(loaded[x], row[x], request[x])
                   /\ new \in MemoryRecords
    BY <1>8, StoredIsBacked
  <2>2. /\ pc[x] = "storing" /\ pc'[x] = "deciding" /\ holds'[x] = holds[x]
        /\ row'[x] = row[x] /\ created'[x] = created[x]
        /\ result'[x] = result[x] /\ result[x] = "none" /\ loaded'[x] = new
        /\ log' = log /\ consumed' = consumed
    BY <1>1, <1>8, <2>1 DEF StoreMemory, Types, stored
  <2>3. Backed(new, Workspace(x))
    BY <1>8, <2>1, StoredIsBacked
  <2>4. PICK w \in Workspaces : w = Workspace(x)
    BY <1>1
  <2>5. Backed(new, w)'
    BY <2>2, <2>3, <2>4 DEF Backed, Counted, Logged
  <2>6. loaded'[x] # None /\ Backed(loaded[x], Workspace(x))'
    BY <1>1, <2>1, <2>2, <2>4, <2>5, NoneAssumption DEF NoneAssumption
  <2>7. QED
    BY <1>1, <1>2, <1>8, <2>2, <2>6, EventIsStored DEF RowIsStored
<1>9. CASE Decide(x)
  <2>1. CASE WantsConsolidation(x)
    <3>1. /\ pc[x] = "deciding" /\ pc'[x] = "consolidating"
          /\ holds'[x] = holds[x] /\ row'[x] = row[x]
          /\ created'[x] = created[x] /\ loaded'[x] = loaded[x]
          /\ result'[x] = result[x]
      BY <1>1, <1>9, <2>1 DEF Decide, Types, locals
    <3>2. QED
      BY <1>1, <1>2, <1>3, <3>1, EventIsStored DEF RowIsStored
  <2>2. CASE ~WantsConsolidation(x)
    <3>1. pc[x] = "deciding" /\ Finish(x, Answer(x))
      BY <1>9, <2>2 DEF Decide
    <3>2. Answer(x) \in Results /\ Answer(x) \notin {"none", "failed"}
      BY OutcomeIsResult
    <3>3. QED
      BY <1>1, <1>4, <3>1, <3>2
  <2>3. QED
    BY <2>1, <2>2
<1>10. CASE AskToConsolidate(x)
  <2>1. /\ pc[x] = "idle" /\ pc'[x] = "consolidating"
        /\ request[x].kind = "consolidate"
        /\ holds'[x] = holds[x] /\ row'[x] = row[x]
        /\ created'[x] = created[x] /\ loaded'[x] = loaded[x]
        /\ result'[x] = result[x]
    BY <1>1, <1>10 DEF AskToConsolidate, Types, locals
  <2>2. QED
    BY <1>1, <1>3, <2>1 DEF RowIsStored
<1>11. CASE Consolidate(x)
  <2>1. CASE Finish(x, Outcome(x))
    BY <1>4, <1>11, <2>1, OutcomeIsResult DEF Consolidate
  <2>2. CASE ~Finish(x, Outcome(x))
    <3>1. /\ pc[x] = "consolidating" /\ pc'[x] = "comparing"
          /\ holds'[x] = {<<"lock", Workspace(x)>>} /\ row'[x] = row[x]
          /\ created'[x] = created[x] /\ loaded'[x] = loaded[x]
          /\ result'[x] = result[x]
      BY <1>1, <1>11, <2>2 DEF Consolidate, Types
    <3>2. PICK e : /\ e \in LastOf(Workspace(x))
                   /\ consumed' = [consumed EXCEPT ![Workspace(x)] = e.id]
      BY <1>11, <2>2 DEF Consolidate
    <3>3. e.id \in AllIds
      BY <1>1, <3>2, LoggedAreEvents DEF LastOf, Of, Logged, ToSet
    <3>4. consumed'[Workspace(x)] # None
      BY <1>1, <3>2, <3>3, ConstantsAssumption DEF Types, ConstantsAssumption
    <3>5. QED
      BY <1>1, <1>2, <1>3, <3>1, <3>4, EventIsStored DEF RowIsStored
  <2>3. QED
    BY <2>1, <2>2
<1>12. CASE CompareMemory(x)
  <2>1. CASE Finish(x, Outcome(x))
    BY <1>4, <1>12, <2>1, OutcomeIsResult DEF CompareMemory
  <2>2. CASE ~Finish(x, Outcome(x))
    <3>1. /\ pc[x] = "comparing" /\ pc'[x] = "saving"
          /\ holds'[x] = holds[x] /\ row'[x] = row[x]
          /\ created'[x] = created[x] /\ result'[x] = result[x]
          /\ consumed' = consumed /\ memory' = memory
          /\ memory[Workspace(x)] # None
          /\ loaded'[x] = memory[Workspace(x)]
      BY <1>1, <1>12, <2>2 DEF CompareMemory, Types, stored
    <3>2. PICK w \in Workspaces : w = Workspace(x)
      BY <1>1
    <3>3. Backed(memory[w], w)'
      BY <3>1, <3>2, MemoryStays
    <3>4. Backed(loaded[x], Workspace(x))'
      BY <1>1, <3>1, <3>2, <3>3
    <3>5. QED
      BY <1>1, <1>2, <3>1, <3>4, EventIsStored DEF RowIsStored
  <2>3. QED
    BY <2>1, <2>2
<1>13. CASE SaveMemory(x)
  BY <1>4, <1>13, OutcomeIsResult DEF SaveMemory
<1>14. CASE Promote(x)
  <2>1. request[x].kind = "promote" /\ Finish(x, "queued") /\ "queued" \in Results
    BY <1>14 DEF Promote, Results
  <2>2. QED
    BY <1>4, <2>1
<1>15. CASE Raise(x)
  <2>1. "failed" \in Results \ {"none"} /\ Finish(x, "failed")
    BY <1>15 DEF Raise, Results
  <2>2. QED
    BY <2>1, FinishKeepsPart
<1>16. QED
  BY <1>5, <1>6, <1>7, <1>8, <1>9, <1>10, <1>11, <1>12, <1>13, <1>14, <1>15,
     MissingRaises DEF Proceed

(***************************************************************************)
(* What relates the calls, the log and Redis.                              *)
(***************************************************************************)

\* What a call adds to what it holds was free.
LEMMA HoldsAreFree ==
  ASSUME RequestsInvariant, NEW x \in Calls, Proceed(x) \/ Raise(x)
  PROVE  holds'[x] \subseteq holds[x] \/ Free(x, holds'[x])
<1>1. Types
  BY DEF RequestsInvariant
<1> USE DEF Types, Finish, locals
<1>2. CASE SaveEvent(x)
  BY <1>1, <1>2 DEF SaveEvent
<1>3. CASE Consolidate(x)
  <2>1. Free(x, {<<"lock", Workspace(x)>>})
    BY <1>3 DEF Consolidate
  <2>2. CASE Finish(x, Outcome(x))
    BY <1>1, <2>2
  <2>3. CASE ~Finish(x, Outcome(x))
    <3>1. holds' = [holds EXCEPT ![x] = {<<"lock", Workspace(x)>>}]
      BY <1>3, <2>3 DEF Consolidate
    <3>2. QED
      BY <1>1, <2>1, <3>1
  <2>4. QED
    BY <2>2, <2>3
<1>4. QED
  BY <1>1, <1>2, <1>3, MissingRaises
     DEF Proceed, Raise, CommitEvent, LoadMemory, StoreMemory, Decide,
         AskToConsolidate, CompareMemory, SaveMemory, Promote

\* No two calls come to hold one row.
LEMMA RowsStayApart ==
  ASSUME RequestsInvariant, NEW x \in Calls, Proceed(x) \/ Raise(x)
  PROVE  RowsAreApart'
<1>1. \A y \in Calls \ {x} : holds'[y] = holds[y] /\ holds'[x] \cap holds[y] = {}
  BY HoldsAreFree, CallFrame DEF RequestsInvariant, RowsAreApart, Free
<1>2. QED
  BY <1>1 DEF RequestsInvariant, RowsAreApart

\* The log holds one event for each id and for each key.
LEMMA EventsStayApart ==
  ASSUME RequestsInvariant, NEW x \in Calls, Proceed(x) \/ Raise(x)
  PROVE  EventsAreApart' /\ EventsAreCalls'
<1>1. /\ EventsAreApart /\ EventsAreCalls /\ Types /\ request' = request
      /\ \A y \in Calls : RowOf(y)' = RowOf(y)
  BY CallFrame DEF RequestsInvariant, RowOf, EventIdOf
<1>2. CASE CommitEvent(x) /\ created[x]
  <2>1. /\ Logged' = Logged \cup {RowOf(x)} /\ Conflicting(x) = {}
        /\ RowOf(x).id = EventIdOf(x) /\ RowOf(x).key = request[x].key
        /\ request[x].kind = "event"
    BY <1>1, <1>2, CommitAdds, RowIsEvent
       DEF RequestsInvariant, CallPart, LocalsByPhase
  <2>2. EventsAreApart'
    BY <1>1, <2>1 DEF EventsAreApart, Conflicting
  <2>3. EventsAreCalls'
    BY <1>1, <2>1 DEF EventsAreCalls
  <2>4. QED
    BY <2>2, <2>3
<1>3. CASE ~(CommitEvent(x) /\ created[x])
  <2>1. log' = log
    BY <1>1, <1>3, CallFrame, CommitAdds
  <2>2. QED
    BY <1>1, <2>1 DEF EventsAreApart, EventsAreCalls, Logged
<1>4. QED
  BY <1>2, <1>3

\* A call becomes a creator with its insert, and stays one while its row is.
LEMMA CreatorsGrow ==
  ASSUME RequestsInvariant, NEW x \in Calls, Proceed(x) \/ Raise(x), Creator(x)'
  PROVE  \/ Creator(x) /\ row'[x] = row[x]
         \/ /\ SaveEvent(x) /\ Conflicting(x) = {} /\ row'[x] = RowOf(x)
            /\ Free(x, RowsOf(RowOf(x)))
<1>1. Types /\ LocalsByPhase(x)
  BY DEF RequestsInvariant, CallPart
<1>2. ASSUME NEW r, Finish(x, r), r = "created" => created[x]
      PROVE  Creator(x) /\ row'[x] = row[x]
  BY <1>1, <1>2 DEF Finish, Creator, Types
<1>3. CASE SaveEvent(x)
  <2>1. ~Creator(x) /\ result' = result
    BY <1>1, <1>3 DEF SaveEvent, Goto, Creator, LocalsByPhase
  <2>2. Conflicting(x) = {}
    BY <1>1, <1>3, <2>1 DEF SaveEvent, Creator
  <2>3. QED
    BY <1>1, <1>3, <2>2 DEF SaveEvent, Types
<1>4. CASE CommitEvent(x) \/ LoadMemory(x) \/ StoreMemory(x) \/ AskToConsolidate(x)
  BY <1>1, <1>4 DEF CommitEvent, LoadMemory, StoreMemory, AskToConsolidate,
                    Creator, locals
<1>5. CASE Decide(x)
  BY <1>2, <1>5, OutcomeIsResult DEF Decide, Creator, locals
<1>6. CASE Consolidate(x)
  BY <1>2, <1>6, OutcomeIsResult DEF Consolidate, Creator
<1>7. CASE CompareMemory(x)
  BY <1>2, <1>7, OutcomeIsResult DEF CompareMemory, Creator
<1>8. CASE SaveMemory(x)
  BY <1>2, <1>8, OutcomeIsResult DEF SaveMemory
<1>9. CASE Promote(x) \/ Raise(x)
  BY <1>2, <1>9 DEF Promote, Raise
<1>10. QED
  BY <1>3, <1>4, <1>5, <1>6, <1>7, <1>8, <1>9, MissingRaises DEF Proceed

\* No two calls create an event with one key.
LEMMA CreatorsStayApart ==
  ASSUME RequestsInvariant, NEW x \in Calls, Proceed(x) \/ Raise(x)
  PROVE  CreatorsAreApart'
<1>1. CreatorsAreApart /\ Types
  BY DEF RequestsInvariant
<1>2. \A y \in Calls \ {x} : row'[y] = row[y] /\ (Creator(y)' <=> Creator(y))
  BY <1>1, CallFrame DEF Creator
<1>3. ASSUME NEW y \in Calls \ {x}, Creator(x)', Creator(y)
      PROVE  row'[x].key # row[y].key
  <2>1. CASE Creator(x) /\ row'[x] = row[x]
    BY <1>1, <1>3, <2>1 DEF CreatorsAreApart
  <2>2. CASE /\ Conflicting(x) = {} /\ row'[x] = RowOf(x)
             /\ Free(x, RowsOf(RowOf(x)))
    <3>1. /\ RowOf(x).key = request[x].key
          /\ HoldsByPhase(y) /\ LocalsByPhase(y) /\ RowIsStored(y)
      BY <1>1, RowIsEvent DEF RequestsInvariant, CallPart
    <3>2. CASE Inserting(y)
      <4>1. RowsOf(RowOf(x)) \cap RowsOf(row[y]) = {}
        BY <2>2, <3>1, <3>2 DEF Free, HoldsByPhase
      <4>2. QED
        BY <2>2, <4>1 DEF RowsOf
    <3>3. CASE ~Inserting(y)
      <4>1. row[y] \in Logged
        BY <1>3, <3>1, <3>3 DEF Creator, LocalsByPhase, RowIsStored
      <4>2. QED
        BY <2>2, <3>1, <4>1 DEF Conflicting
    <3>4. QED
      BY <3>2, <3>3
  <2>3. QED
    BY <1>3, <2>1, <2>2, CreatorsGrow
<1>4. QED
  BY <1>1, <1>2, <1>3 DEF CreatorsAreApart

\* The cursor in the tables is at a stored event of its workspace.
LEMMA ConsumedStaysLogged ==
  ASSUME RequestsInvariant, NEW x \in Calls, Proceed(x) \/ Raise(x)
  PROVE  ConsumedIsLogged'
<1>1. ConsumedIsLogged /\ Types /\ Workspace(x) \in Workspaces
  BY RowIsEvent DEF RequestsInvariant, Workspace
<1>2. Logged \subseteq Logged'
  BY StepGrows
<1>3. CASE consumed' = consumed
  BY <1>1, <1>2, <1>3 DEF ConsumedIsLogged
<1>4. CASE Consolidate(x) /\ consumed' # consumed
  <2>1. PICK e : /\ e \in LastOf(Workspace(x))
                 /\ consumed' = [consumed EXCEPT ![Workspace(x)] = e.id]
    BY <1>4 DEF Consolidate
  <2>2. e \in Logged /\ e.workspace = Workspace(x)
    BY <2>1 DEF LastOf, Of, Logged, ToSet
  <2>3. QED
    BY <1>1, <1>2, <2>1, <2>2 DEF ConsumedIsLogged, Types
<1>5. QED
  BY <1>3, <1>4, MissingRaises
     DEF Proceed, Raise, SaveEvent, CommitEvent, LoadMemory, StoreMemory,
         Decide, AskToConsolidate, CompareMemory, SaveMemory, Promote, stored

\* Whatever value is written to Redis last, it is one that is backed.
LEMMA MemoriesStayBacked ==
  ASSUME RequestsInvariant, NEW x \in Calls, Proceed(x) \/ Raise(x)
  PROVE  MemoriesAreBacked'
<1>1. Types /\ Workspace(x) \in Workspaces
  BY RowIsEvent DEF RequestsInvariant, Workspace
<1>2. SUFFICES ASSUME NEW w \in Workspaces, memory'[w] # None
               PROVE  Backed(memory[w], w)'
  BY DEF MemoriesAreBacked
<1>3. CASE memory'[w] = memory[w]
  BY <1>2, <1>3, MemoryStays
<1>4. ASSUME NEW new, memory' = [memory EXCEPT ![Workspace(x)] = new],
             Backed(new, Workspace(x)), log' = log, consumed' = consumed,
             memory'[w] # memory[w]
      PROVE  Backed(memory[w], w)'
  <2>1. w = Workspace(x) /\ memory'[w] = new
    BY <1>1, <1>4 DEF Types
  <2>2. Backed(new, w)
    BY <1>4, <2>1
  <2>3. Backed(new, w)'
    BY <1>4, <2>2 DEF Backed, Counted, Logged
  <2>4. QED
    BY <2>1, <2>3
<1>5. CASE StoreMemory(x) /\ memory'[w] # memory[w]
  <2>1. PICK new : new = WithEvent(loaded[x], row[x], request[x])
    OBVIOUS
  <2>2. /\ memory' = [memory EXCEPT ![Workspace(x)] = new]
        /\ log' = log /\ consumed' = consumed
    BY <1>5, <2>1 DEF StoreMemory, stored
  <2>3. Backed(new, Workspace(x))
    BY <1>5, <2>1, StoredIsBacked
  <2>4. QED
    BY <1>4, <1>5, <2>2, <2>3
<1>6. CASE SaveMemory(x) /\ memory'[w] # memory[w]
  <2>1. PICK new : new = [loaded[x] EXCEPT !.cursor = consumed[Workspace(x)]]
    OBVIOUS
  <2>2. /\ memory' = [memory EXCEPT ![Workspace(x)] = new]
        /\ log' = log /\ consumed' = consumed
    BY <1>6, <2>1 DEF SaveMemory, stored
  <2>3. Backed(new, Workspace(x))
    BY <1>6, <2>1, SavedIsBacked
  <2>4. QED
    BY <1>4, <1>6, <2>2, <2>3
<1>7. memory' = memory \/ StoreMemory(x) \/ SaveMemory(x)
  BY MissingRaises
     DEF Proceed, Raise, SaveEvent, CommitEvent, LoadMemory, Decide,
         AskToConsolidate, Consolidate, CompareMemory, Promote
<1>8. QED
  BY <1>3, <1>5, <1>6, <1>7

(***************************************************************************)
(* The invariant.                                                          *)
(***************************************************************************)

\* The invariant holds before the first call.
LEMMA InitRequests == ASSUME Init PROVE RequestsInvariant
<1>1. Types
  <2>1. request \in [Calls -> RequestType]
    BY ConstantsAssumption DEF Init, ConstantsAssumption
  <2>2. log \in Seq(EventRows)
    BY EmptySeq DEF Init
  <2>3. QED
    BY <2>1, <2>2 DEF Init, Types, Phases, Results
<1>2. Logged = {}
  BY EmptySeq DEF Init, Logged, ToSet
<1>3. \A x \in Calls : CallPart(x)
  BY DEF Init, CallPart, HoldsByPhase, LocalsByPhase, RowIsStored, Inserting,
         Consolidating, EventPhases
<1>4. RowsAreApart /\ EventsAreCalls /\ EventsAreApart
  BY <1>2 DEF Init, RowsAreApart, EventsAreCalls, EventsAreApart
<1>5. CreatorsAreApart /\ ConsumedIsLogged /\ MemoriesAreBacked
  BY DEF Init, CreatorsAreApart, Creator, ConsumedIsLogged, MemoriesAreBacked
<1>6. QED
  BY <1>1, <1>3, <1>4, <1>5 DEF RequestsInvariant

\* Expiry takes a Working Memory away and touches nothing else; a stutter
\* touches nothing at all.
LEMMA ExpiryKeepsInvariant ==
  ASSUME RequestsInvariant,
         (\E w \in Workspaces : MemoryExpires(w)) \/ UNCHANGED vars
  PROVE  RequestsInvariant'
<1>1. /\ UNCHANGED <<request, log, anchored, consumed, jobs, pc, holds, row,
                     created, loaded, before, result>>
      /\ \/ \E w \in Workspaces : memory' = [memory EXCEPT ![w] = None]
         \/ memory' = memory
  BY DEF MemoryExpires, vars, stored, locals
<1>2. Types'
  BY <1>1 DEF RequestsInvariant, Types
<1>3. Logged' = Logged /\ \A m : Counted(m)' = Counted(m)
  BY <1>1 DEF Logged, Counted
<1>4. \A m, w : Backed(m, w)' <=> Backed(m, w)
  BY <1>1, <1>3 DEF Backed
<1>5. MemoriesAreBacked'
  <2>1. \A w \in Workspaces : memory'[w] = memory[w] \/ memory'[w] = None
    BY <1>1 DEF RequestsInvariant, Types
  <2>2. SUFFICES ASSUME NEW w \in Workspaces, memory'[w] # None
                 PROVE  Backed(memory[w], w)'
    BY DEF MemoriesAreBacked
  <2>3. PICK m : m = memory[w]
    OBVIOUS
  <2>4. Backed(m, w)'
    BY <1>4, <2>1, <2>2, <2>3 DEF RequestsInvariant, MemoriesAreBacked
  <2>5. QED
    BY <2>1, <2>2, <2>3, <2>4
<1>6. ASSUME NEW x \in Calls PROVE CallPart(x)'
  <2>1. CallPart(x)
    BY DEF RequestsInvariant
  <2>2. /\ Workspace(x)' = Workspace(x) /\ RowOf(x)' = RowOf(x)
        /\ Conflicting(x)' = Conflicting(x) /\ Inserting(x)' = Inserting(x)
        /\ Consolidating(x)' = Consolidating(x)
    BY <1>1, <1>3 DEF Workspace, RowOf, EventIdOf, Conflicting, Inserting,
                      Consolidating
  <2>3. HoldsByPhase(x)' /\ LocalsByPhase(x)' /\ RowIsStored(x)'
    BY <1>1, <1>3, <2>1, <2>2
       DEF CallPart, HoldsByPhase, LocalsByPhase, RowIsStored
  <2>4. PICK m, w : m = loaded[x] /\ w = Workspace(x)
    OBVIOUS
  <2>5. m # None => Backed(m, w)'
    BY <1>4, <2>1, <2>4 DEF CallPart
  <2>6. loaded'[x] # None => Backed(loaded[x], Workspace(x))'
    BY <1>1, <2>2, <2>4, <2>5
  <2>7. QED
    BY <2>3, <2>6 DEF CallPart
<1>7. RowsAreApart' /\ EventsAreApart' /\ CreatorsAreApart' /\ ConsumedIsLogged'
  BY <1>1 DEF RequestsInvariant, RowsAreApart, EventsAreApart,
              CreatorsAreApart, Creator, ConsumedIsLogged, Logged
<1>8. EventsAreCalls'
  BY <1>1 DEF RequestsInvariant, EventsAreCalls, Logged, RowOf, EventIdOf
<1>9. QED
  BY <1>2, <1>5, <1>6, <1>7, <1>8 DEF RequestsInvariant

\* Every step keeps the invariant.
LEMMA NextRequests == RequestsInvariant /\ [Next]_vars => RequestsInvariant'
<1>1. ASSUME RequestsInvariant, NEW x \in Calls, Proceed(x) \/ Raise(x)
      PROVE  RequestsInvariant'
  <2>1. \A y \in Calls : CallPart(y)'
    BY <1>1, OwnPart, OthersStay
  <2>2. QED
    BY <1>1, <2>1, StepTypes, RowsStayApart, EventsStayApart,
       CreatorsStayApart, ConsumedStaysLogged, MemoriesStayBacked
       DEF RequestsInvariant
<1>2. QED
  BY <1>1, ExpiryKeepsInvariant DEF Next

\* Whatever requests overlap, whichever fails and whenever Redis expires a
\* value: an open insert keeps its id and key to itself (the unique
\* constraints of memory_events), and each Working Memory, stored or in the
\* hands of a call, lists and counts stored events once.
THEOREM Invariance == Spec => []RequestsInvariant
  BY InitRequests, NextRequests, PTL DEF Spec

\* The Working Memory is backed by the tables, whoever wrote it last
\* (_update_working_memory, advance_cursor).
THEOREM WindowsStayBacked == Spec => []WindowsAreBacked
<1>1. RequestsInvariant => WindowsAreBacked
  BY DEF RequestsInvariant, MemoriesAreBacked, Backed, WindowsAreBacked
<1>2. QED
  BY <1>1, Invariance, PTL

\* ConsolidationPolicy.evaluate is given the number of user messages in the
\* window, neither repeats nor lost updates make it another.
THEOREM CountIsRight == Spec => []MessagesAreCountedOnce
<1>1. RequestsInvariant => MessagesAreCountedOnce
  BY DEF RequestsInvariant, MemoriesAreBacked, Backed, Counted,
         MessagesAreCountedOnce
<1>2. QED
  BY <1>1, Invariance, PTL

(***************************************************************************)
(* Repeats.                                                                *)
(***************************************************************************)

\* A client gives an event one idempotency key: two requests with one
\* event_id have the same key.  Ids that the service makes are no concern, and
\* neither is a key that comes with several ids.  Without it an id and a key
\* of two different events may meet in one request, which is then answered
\* with either.
IdsKeepTheirKey ==
    \A x, y \in Calls : \A q \in Requests[x], r \in Requests[y] :
        (q.kind = "event" /\ r.kind = "event" /\ q.id # None /\ q.id = r.id)
            => q.key = r.key

\* The requests are those the calls may make.
RequestsAreAllowed == \A x \in Calls : request[x] \in Requests[x]

\* The event an event write answers about has the key of its request.
AnswersKeepKeys ==
    \A x \in Calls :
        request[x].kind = "event" /\ row[x] # None => row[x].key = request[x].key

RepeatsInvariant == RequestsAreAllowed /\ AnswersKeepKeys

\* What an insert meets has the key of its request.
LEMMA ConflictsHaveKey ==
  ASSUME IdsKeepTheirKey, RequestsInvariant, RequestsAreAllowed,
         NEW x \in Calls, request[x].kind = "event",
         NEW e \in Conflicting(x)
  PROVE  e.key = request[x].key
<1>1. CASE e.key = request[x].key
  BY <1>1
<1>2. CASE e.id = EventIdOf(x)
  <2>1. PICK y \in Calls : request[y].kind = "event" /\ e = RowOf(y)
    BY DEF RequestsInvariant, EventsAreCalls, Conflicting
  <2>2. EventIdOf(y) = EventIdOf(x) /\ e.key = request[y].key
    BY <1>2, <2>1, RowIsEvent DEF RequestsInvariant
  <2>3. \A z \in Calls : request[z].id \in EventIds \cup {None}
    BY DEF RequestsInvariant, Types, RequestType
  <2>4. x = y \/ (request[x].id # None /\ request[x].id = request[y].id)
    BY <2>2, <2>3, ConstantsAssumption DEF EventIdOf, ConstantsAssumption
  <2>5. request[x] \in Requests[x] /\ request[y] \in Requests[y]
    BY DEF RequestsAreAllowed
  <2>6. QED
    BY <2>1, <2>2, <2>4, <2>5 DEF IdsKeepTheirKey
<1>3. QED
  BY <1>1, <1>2 DEF Conflicting

\* A call takes its row when it inserts or reads it, and drops it if it fails.
LEMMA RowIsKept ==
  ASSUME Types, NEW x \in Calls, Proceed(x) \/ Raise(x)
  PROVE  \/ row'[x] = row[x]
         \/ row'[x] = None
         \/ /\ SaveEvent(x)
            /\ row'[x] = RowOf(x) \/ row'[x] \in Conflicting(x)
<1>1. ASSUME NEW r, Finish(x, r) PROVE row'[x] = row[x] \/ row'[x] = None
  BY <1>1 DEF Finish, Types
<1>2. CASE SaveEvent(x)
  BY <1>2 DEF SaveEvent, Existing, Types
<1>3. CASE ~SaveEvent(x)
  BY <1>1, <1>3, MissingRaises
     DEF Proceed, Raise, CommitEvent, LoadMemory, StoreMemory, Decide, locals,
         AskToConsolidate, Consolidate, CompareMemory, SaveMemory, Promote
<1>4. QED
  BY <1>2, <1>3

\* Before the first call none has been answered.
LEMMA InitRepeats == ASSUME Init PROVE RepeatsInvariant
  BY DEF Init, RepeatsInvariant, RequestsAreAllowed, AnswersKeepKeys

\* Every step keeps what repeated requests are answered.
LEMMA NextRepeats ==
  ASSUME IdsKeepTheirKey, RequestsInvariant, RepeatsInvariant, [Next]_vars
  PROVE  RepeatsInvariant'
<1>1. ASSUME NEW x \in Calls, Proceed(x) \/ Raise(x)
      PROVE  RepeatsInvariant'
  <2>1. request' = request /\ \A y \in Calls \ {x} : row'[y] = row[y]
    BY <1>1, CallFrame DEF RequestsInvariant
  <2>2. RowOf(x).key = request[x].key
    BY RowIsEvent DEF RequestsInvariant
  <2>3. request[x].kind = "event" =>
            \A e \in Conflicting(x) : e.key = request[x].key
    BY ConflictsHaveKey DEF RepeatsInvariant
  <2>4. request[x].kind = "event" /\ row'[x] # None
            => row'[x].key = request[x].key
    BY <1>1, <2>2, <2>3, RowIsKept
       DEF RequestsInvariant, RepeatsInvariant, AnswersKeepKeys
  <2>5. QED
    BY <2>1, <2>4 DEF RepeatsInvariant, RequestsAreAllowed, AnswersKeepKeys
<1>2. CASE (\E w \in Workspaces : MemoryExpires(w)) \/ UNCHANGED vars
  BY <1>2 DEF RepeatsInvariant, RequestsAreAllowed, AnswersKeepKeys,
              MemoryExpires, vars, locals
<1>3. QED
  BY <1>1, <1>2 DEF Next

\* A write that repeats an idempotency key, at the same time or later, is
\* answered with the event the first one stored, and one answer at most says
\* that it was created (save_event's ON CONFLICT DO NOTHING and read-back).
THEOREM RetriesStayAgreed ==
  ASSUME IdsKeepTheirKey
  PROVE  Spec => []RetriesAgree
<1>1. RequestsInvariant /\ RepeatsInvariant => RetriesAgree
  <2> SUFFICES ASSUME RequestsInvariant, RepeatsInvariant,
                      NEW x \in Calls, NEW y \in Calls,
                      x # y, request[x].key = request[y].key,
                      {result[x], result[y]} \subseteq {"created", "duplicate"}
               PROVE  /\ row[x] = row[y] /\ row[x] \in Logged
                      /\ {result[x], result[y]} # {"created"}
    BY DEF RetriesAgree
  <2>1. \A z \in {x, y} : row[z] \in Logged /\ request[z].kind = "event"
    BY DEF RequestsInvariant, CallPart, LocalsByPhase, RowIsStored, Inserting
  <2>2. row[x] # None /\ row[y] # None
    BY <2>1, LoggedAreEvents, NoneAssumption DEF NoneAssumption, RequestsInvariant
  <2>3. row[x].key = row[y].key
    BY <2>1, <2>2 DEF RepeatsInvariant, AnswersKeepKeys
  <2>4. row[x] = row[y]
    BY <2>1, <2>3 DEF RequestsInvariant, EventsAreApart
  <2>5. ~(result[x] = "created" /\ result[y] = "created")
    BY <2>3 DEF RequestsInvariant, CreatorsAreApart, Creator
  <2>6. QED
    BY <2>1, <2>4, <2>5
<1>2. QED
  BY <1>1, InitRepeats, NextRepeats, Invariance, PTL DEF Spec

(***************************************************************************)
(* Type correctness.                                                       *)
(***************************************************************************)

\* The calls that have had their chance to store an event.
Past == {x \in Calls : pc[x] \notin {"idle", "committing"}}
LogIsBounded == Len(log) <= Cardinality(Past)

\* Every step keeps the number of events within that of the calls.
LEMMA NextBounded ==
  ASSUME IsFiniteSet(Calls), RequestsInvariant, LogIsBounded, [Next]_vars
  PROVE  LogIsBounded'
<1>1. /\ IsFiniteSet(Past) /\ Cardinality(Past) \in Nat
      /\ log \in Seq(EventRows) /\ Len(log) \in Nat /\ Types
      /\ Past \subseteq Calls
  <2>1. Past \in SUBSET Calls
    BY DEF Past
  <2>2. IsFiniteSet(Past)
    BY <2>1, FS_Subset
  <2>3. Cardinality(Past) \in Nat
    BY <2>2, FS_CardinalityType
  <2>4. log \in Seq(EventRows) /\ Types
    BY DEF RequestsInvariant, Types
  <2>5. Len(log) \in Nat
    BY <2>4, LenProperties
  <2>6. QED
    BY <2>1, <2>2, <2>3, <2>4, <2>5
<1>2. ASSUME NEW x \in Calls, Proceed(x) \/ Raise(x) PROVE LogIsBounded'
  <2>1. \A y \in Calls \ {x} : pc'[y] = pc[y]
    BY <1>1, <1>2, CallFrame
  <2>2. pc[x] \notin {"idle", "committing"} => pc'[x] \notin {"idle", "committing"}
    BY <1>1, <1>2, MissingRaises
       DEF Proceed, Raise, SaveEvent, CommitEvent, LoadMemory, StoreMemory,
           Decide, AskToConsolidate, Consolidate, CompareMemory, SaveMemory,
           Promote, Goto, Finish, Types
  <2>3. CASE CommitEvent(x)
    <3>1. Past' = Past \cup {x} /\ x \notin Past
      BY <1>1, <2>1, <2>3 DEF Past, CommitEvent, Goto, Types
    <3>2. Cardinality(Past') = Cardinality(Past) + 1
      BY <1>1, <3>1, FS_AddElement
    <3>3. Len(log') <= Len(log) + 1
      <4>1. CASE created[x]
        <5>1. row[x] \in EventRows /\ log' = Append(log, row[x])
          BY <2>3, <4>1, CommitAdds DEF CommitEvent
        <5>2. QED
          BY <1>1, <5>1, AppendProperties
      <4>2. CASE ~created[x]
        BY <1>1, <2>3, <4>2, CommitAdds
      <4>3. QED
        BY <4>1, <4>2
    <3>4. Len(log') \in Nat
      BY <2>3, CommitAdds, LenProperties
    <3>5. QED
      BY <1>1, <3>2, <3>3, <3>4 DEF LogIsBounded
  <2>4. CASE ~CommitEvent(x)
    <3>1. log' = log /\ Past \in SUBSET Past' /\ Past' \in SUBSET Calls
      BY <1>1, <1>2, <2>1, <2>2, <2>4, CallFrame DEF Past
    <3>2. IsFiniteSet(Past')
      BY <3>1, FS_Subset
    <3>3. Cardinality(Past) <= Cardinality(Past') /\ Cardinality(Past') \in Nat
      BY <3>1, <3>2, FS_Subset, FS_CardinalityType
    <3>4. QED
      BY <1>1, <3>1, <3>3 DEF LogIsBounded
  <2>5. QED
    BY <2>3, <2>4
<1>3. CASE (\E w \in Workspaces : MemoryExpires(w)) \/ UNCHANGED vars
  BY <1>3 DEF LogIsBounded, Past, MemoryExpires, vars, stored
<1>4. QED
  BY <1>2, <1>3 DEF Next

\* Every variable keeps its type, and no call stores a second event.
THEOREM TypeCorrectness ==
  ASSUME IsFiniteSet(Calls)
  PROVE  Spec => []TypeOK
<1>1. Init => LogIsBounded
  <2> SUFFICES ASSUME Init PROVE LogIsBounded
    OBVIOUS
  <2>1. Past = {} /\ Len(log) = 0
    BY EmptySeq DEF Init, Past
  <2>2. QED
    BY <2>1, FS_EmptySet DEF LogIsBounded
<1>2. RequestsInvariant /\ LogIsBounded => TypeOK
  <2> SUFFICES ASSUME RequestsInvariant, LogIsBounded PROVE TypeOK
    OBVIOUS
  <2>1. Past \in SUBSET Calls /\ log \in Seq(EventRows) /\ Types
    BY DEF Past, RequestsInvariant, Types
  <2>2. Cardinality(Past) <= Cardinality(Calls) /\ Cardinality(Calls) \in Nat
    BY <2>1, FS_Subset, FS_CardinalityType
  <2>3. IsFiniteSet(Past) /\ Len(log) \in Nat
    BY <2>1, FS_Subset, LenProperties
  <2>4. Cardinality(Past) \in Nat
    BY <2>3, FS_CardinalityType
  <2>5. QED
    BY <2>1, <2>2, <2>3, <2>4 DEF LogIsBounded, TypeOK
<1>3. QED
  BY <1>1, <1>2, NextBounded, Invariance, PTL DEF Spec

==============================================================================
