----------------------------- MODULE MemoryRecall -----------------------------
(***************************************************************************)
(* Calls of DefaultRetrievalService.retrieve while governance changes the  *)
(* memories.  A read asks the indexes for memory ids first, reads each     *)
(* memory from its main record later, counts what it recalled, fits the    *)
(* admissible ones into the token budget and counts what it used.  Every   *)
(* search, every record and every counter transaction is a database        *)
(* session of its own.                                                     *)
(*                                                                         *)
(* The memories are those of MemoryLedger, which CandidateGovernance       *)
(* implements.  Index rows name a version that exists (foreign key); the   *)
(* worker that writes them is not in the repository, so a row may appear   *)
(* at any time after its version, and rows of old versions stay.           *)
(***************************************************************************)
EXTENDS Integers, FiniteSets, SequencesExt

CONSTANTS
    Ids, Candidates, None,   \* as in MemoryLedger
    Reads,       \* calls of retrieve
    Requests,    \* of each call, what it may ask for
    Facts,       \* of each memory: [key, scope, type, valid, size, quality,
                 \* order] - size of its text in tokens, quality the part of
                 \* its score that is not relevance, order that of its id
    ExcerptSize, \* tokens of the evidence row of a memory's candidate
    Scale        \* relevance is in units of 1 / (200 * Scale)

VARIABLES
    status, version, key, successor, evidence, decision,  \* MemoryLedger
    indexed,                 \* (memory, version) of the index rows
    recallCount, useCount,   \* memory_usage_stats
    request, pc, asked, hits, seen, holds, package, result

memory == <<status, version, key, successor, evidence, decision>>
counters == <<recallCount, useCount>>
progress == <<asked, hits, seen>>
vars == <<memory, indexed, counters, request, pc, progress, holds, package,
          result>>

Ledger == INSTANCE MemoryLedger

Modes == {"meta", "resume", "express", "quick", "normal", "deep"}
Phases == {"idle", "searching", "filtering", "traversing", "reading",
           "recalling", "compiling", "using", "done"}
Results == {"none", "answered", "missing", "failed"}

VectorBase == 200 * Scale
GraphBase == 170 * Scale
Quarter == 50 * Scale

ASSUME ConstantsAssumption ==
    /\ IsFiniteSet(Ids) /\ IsFiniteSet(Reads)
    /\ None \notin Ids /\ Candidates \subseteq Ids
    /\ \A m \in Ids :
          /\ Facts[m].size \in Nat \ {0} /\ ExcerptSize[m] \in Nat
          /\ Facts[m].quality \in Nat /\ Facts[m].order \in Nat
    /\ \A m, n \in Ids : m # n => Facts[m].order # Facts[n].order
    /\ \A x \in Reads : \A q \in Requests[x] :
          /\ q.mode \in Modes \cup {"auto"} /\ q.memory \in Ids \cup {None}
          /\ q.topK \in Nat \ {0} /\ q.budget \in Nat /\ q.parts \in Nat \ {0}

\* The unit makes the relevance of every hit of every search a whole number.
ASSUME ScaleAssumption ==
    /\ Scale \in Nat \ {0}
    /\ \A n \in 1..Cardinality(Ids) : Quarter % n = 0
    /\ \A x \in Reads : \A q \in Requests[x] : \A n \in 1..q.topK : Quarter % n = 0

Nothing == [items |-> <<>>, excluded |-> {}, excerpts |-> <<>>, used |-> 0,
            truncated |-> FALSE]

Init ==
    /\ decision = [c \in Candidates |-> "pending"]
    /\ status = [m \in Ids |-> IF m \in Candidates THEN "absent" ELSE "active"]
    /\ key = [m \in Ids |-> IF m \in Candidates THEN None ELSE Facts[m].key]
    /\ version = [m \in Ids |-> IF m \in Candidates THEN 0 ELSE 1]
    /\ evidence = [m \in Ids |-> IF m \in Candidates THEN {} ELSE {m}]
    /\ successor = [m \in Ids |-> None]
    /\ indexed = {<<m, 1>> : m \in Ids \ Candidates}
    /\ recallCount = [m \in Ids |-> 0]
    /\ useCount = [m \in Ids |-> 0]
    /\ request \in [Reads -> UNION {Requests[x] : x \in Reads}]
    /\ \A x \in Reads : request[x] \in Requests[x]
    /\ pc = [x \in Reads |-> "idle"]
    /\ asked = [x \in Reads |-> 0]
    /\ hits = [x \in Reads |-> <<>>]
    /\ seen = [x \in Reads |-> <<>>]
    /\ holds = [x \in Reads |-> {}]
    /\ package = [x \in Reads |-> Nothing]
    /\ result = [x \in Reads |-> "none"]

-----------------------------------------------------------------------------
(* The mode of a request and what it may see.                              *)

Route(q) ==
    CASE q.mode # "auto" -> q.mode
      [] \/ q.memory # None \/ q.memoryKey # None
         \/ q.normalizedKey # None /\ Cardinality(q.types) = 1 -> "express"
      [] q.task /\ q.words = {} -> "resume"
      [] "why" \in q.words -> "deep"
      [] \/ "compare" \in q.words \/ Cardinality(q.scopes) > 1
         \/ Cardinality(q.types) > 1 \/ q.period # None -> "normal"
      [] OTHER -> "quick"

Mode(x) == Route(request[x])

\* MetaPolicy: the principal's own scope, and the workspace and agent named.
AllowedScopes(q) == {"user"} \cup q.grants

\* Fault: the status of the main record is not looked at.
IsAllowedInAnyStatus(m, q) ==
    /\ Facts[m].valid
    /\ q.types # {} => Facts[m].type \in q.types
    /\ Facts[m].scope \in AllowedScopes(q)
    /\ q.scopes # {} => Facts[m].scope \in q.scopes
    /\ q.period # None => m \in q.period

\* _is_allowed, on the main record as it is now.
IsAllowed(m, q) ==
    /\ status[m] = "active"
    /\ Facts[m].valid
    /\ q.types # {} => Facts[m].type \in q.types
    /\ Facts[m].scope \in AllowedScopes(q)
    /\ q.scopes # {} => Facts[m].scope \in q.scopes
    /\ q.period # None => m \in q.period

-----------------------------------------------------------------------------
(* Searching: ids and relevance only.                                      *)

\* Fault: an id is kept once for every search that found it.
WithEveryHit(found, h) == Append(found, h)

\* _deduplicate_hits: the first place and the best relevance of an id.
WithHit(found, h) ==
    IF \E i \in DOMAIN found : found[i].id = h.id
    THEN [i \in DOMAIN found |->
            IF found[i].id = h.id /\ h.relevance > found[i].relevance
            THEN h ELSE found[i]]
    ELSE Append(found, h)

\* _ranked_hits: relevance falls by a quarter over the ids of one search.
RankedHits(ids, base) ==
    [i \in DOMAIN ids |->
        [id |-> ids[i], relevance |-> base - ((i - 1) * Quarter) \div Len(ids)]]

WithHits(found, ids, base) == FoldLeft(WithHit, found, RankedHits(ids, base))

Goto(x, from, to) ==
    /\ pc[x] = from
    /\ pc' = [pc EXCEPT ![x] = to]

\* Fault: the session is not closed and keeps its locks.
FinishOpen(x, r) ==
    /\ pc' = [pc EXCEPT ![x] = "done"]
    /\ result' = [result EXCEPT ![x] = r]
    /\ UNCHANGED <<holds, progress, package>>

Finish(x, r) ==
    /\ pc' = [pc EXCEPT ![x] = "done"]
    /\ result' = [result EXCEPT ![x] = r]
    /\ holds' = [holds EXCEPT ![x] = {}]
    /\ asked' = [asked EXCEPT ![x] = 0]
    /\ hits' = [hits EXCEPT ![x] = <<>>]
    /\ seen' = [seen EXCEPT ![x] = <<>>]
    /\ package' = [package EXCEPT ![x] = IF r = "answered" THEN @ ELSE Nothing]

\* META and RESUME answer without memories: RESUME reads the latest active
\* checkpoint of the task in one query.
AnswerWithoutMemories(x) ==
    /\ pc[x] = "idle" /\ Mode(x) \in {"meta", "resume"}
    /\ Finish(x, "answered")
    /\ UNCHANGED <<memory, indexed, counters, request>>

\* Where a read goes when its searches are over.
RecordsOf(found) == IF found = <<>> THEN "recalling" ELSE "reading"

\* The memory_key adapter: any memory with an index row for that key.
ExactKeys(q) == {m \in Ids : /\ q.memoryKey # None /\ Facts[m].key = q.memoryKey
                             /\ \E v \in 1..version[m] : <<m, v>> \in indexed}

\* resolve_normalized_key: active main records of the type and the scopes.
NormalizedKeys(q) ==
    {m \in Ids : /\ Cardinality(q.types) = 1 /\ Facts[m].type \in q.types
                 /\ q.normalizedKey # None /\ key[m] = q.normalizedKey
                 /\ status[m] = "active"
                 /\ Facts[m].scope \in
                        (IF q.scopes = {} THEN {"user"} ELSE q.scopes)}

\* _express: by id, else by memory_key, else by type and normalized key.
Addressed(q) ==
    IF q.memory # None THEN {q.memory}
    ELSE IF ExactKeys(q) # {} THEN ExactKeys(q) ELSE NormalizedKeys(q)

Address(x) ==
    /\ pc[x] = "idle" /\ Mode(x) = "express"
    /\ \/ /\ Addressed(request[x]) = {}
          /\ UNCHANGED hits
       \/ \E m \in Addressed(request[x]) :
              hits' = [hits EXCEPT ![x] = WithHits(@, <<m>>, VectorBase)]
    /\ pc' = [pc EXCEPT ![x] = RecordsOf(hits'[x])]
    /\ UNCHANGED <<memory, indexed, counters, request, asked, seen, holds,
                   package, result>>

\* ORDER BY distance LIMIT top_k over the rows of every version, before
\* anything else is known of them.
Nearest(q) ==
    LET n == IF Cardinality(indexed) < q.topK THEN Cardinality(indexed)
             ELSE q.topK
    IN  {[i \in 1..n |-> rows[i][1]] : rows \in
            {r \in [1..n -> indexed] : \A i, j \in 1..n : i # j => r[i] # r[j]}}

Parts(x) == IF Mode(x) \in {"normal", "deep"} THEN request[x].parts ELSE 1

SearchVectors(x) ==
    /\ pc[x] \in {"idle", "searching"}
    /\ Mode(x) \in {"quick", "normal", "deep"}
    /\ asked' = [asked EXCEPT ![x] = @ + 1]
    /\ \E ids \in Nearest(request[x]) :
          hits' = [hits EXCEPT ![x] = WithHits(@, ids, VectorBase)]
    /\ pc' = [pc EXCEPT ![x] =
                CASE asked[x] + 1 < Parts(x) -> "searching"
                  [] Mode(x) = "quick" -> RecordsOf(hits'[x])
                  [] OTHER -> "filtering"]
    /\ UNCHANGED <<memory, indexed, counters, request, seen, holds, package,
                   result>>

ResolveKey(x) ==
    /\ Goto(x, "filtering", "traversing")
    /\ \/ NormalizedKeys(request[x]) = {} /\ UNCHANGED hits
       \/ \E m \in NormalizedKeys(request[x]) :
              hits' = [hits EXCEPT ![x] = WithHits(@, <<m>>, VectorBase)]
    /\ UNCHANGED <<memory, indexed, counters, request, asked, seen, holds,
                   package, result>>

\* The members of S one after another; R is their order, a set of pairs.
InOrder(S, R) ==
    [i \in 1..Cardinality(S) |->
        CHOOSE e \in S : Cardinality({d \in S : <<d, e>> \in R}) = i - 1]

ByOrder(S) == {p \in S \X S : Facts[p[1]].order < Facts[p[2]].order}

\* The graph names the memories of the edges it walks, in order of their ids.
Traverse(x) ==
    /\ pc[x] = "traversing"
    /\ \E S \in SUBSET {row[1] : row \in indexed} :
          /\ ~request[x].graph => S = {}
          /\ hits' = [hits EXCEPT ![x] =
                        WithHits(@, InOrder(S, ByOrder(S)), GraphBase)]
    /\ pc' = [pc EXCEPT ![x] = RecordsOf(hits'[x])]
    /\ UNCHANGED <<memory, indexed, counters, request, asked, seen, holds,
                   package, result>>

-----------------------------------------------------------------------------
(* Re-reading the main records.                                            *)

\* get_for_recall of the next hit; version 0 when there is no such memory.
ReadRecord(x) ==
    LET h == hits[x][Len(seen[x]) + 1]
        isLast == Len(seen[x]) + 1 = Len(hits[x])
    IN  /\ Goto(x, "reading", IF isLast THEN "recalling" ELSE "reading")
        /\ seen' = [seen EXCEPT ![x] = Append(@,
                [id |-> h.id, version |-> version[h.id],
                 allowed |-> version[h.id] > 0 /\ IsAllowed(h.id, request[x]),
                 score |-> h.relevance + Facts[h.id].quality,
                 evidence |-> evidence[h.id]])]
        /\ UNCHANGED <<memory, indexed, counters, request, asked, hits,
                       holds, package, result>>

Allowed(x) == {r \in ToSet(seen[x]) : r.allowed}

Outranks(r, s) ==
    \/ r.score > s.score
    \/ r.score = s.score /\ Facts[r.id].order < Facts[s.id].order

Ranked(x) ==
    InOrder(Allowed(x),
            {p \in Allowed(x) \X Allowed(x) : Outranks(p[1], p[2])})

-----------------------------------------------------------------------------
(* Counting: one transaction upserts a row per memory, in the order of the *)
(* hits; a row stays locked until the transaction ends.                    *)

\* Fault: what was ranked is counted as used, not what was selected.
CountedWhenRanked(x) ==
    IF pc[x] = "recalling" THEN seen[x] ELSE Ranked(x)

Counted(x) ==
    IF pc[x] = "recalling" THEN seen[x]
    ELSE IF pc[x] = "using" THEN package[x].items ELSE <<>>

\* A hit without a main record is not counted.
CountedIds(x) == {r.id : r \in {s \in ToSet(Counted(x)) : s.version > 0}}

\* The row the next statement of a read locks, if it locks one.
Wants(x) ==
    LET counted == Counted(x)
        left == {i \in DOMAIN counted : /\ counted[i].version > 0
                                        /\ counted[i].id \notin holds[x]}
    IN  {counted[i].id : i \in {j \in left : \A k \in left : j <= k}}

WaitsFor(x) == {y \in Reads \ {x} : Wants(x) \cap holds[y] # {}}

Deadlocked(x) ==
    \E S \in SUBSET Reads : x \in S /\ UNION {WaitsFor(y) : y \in S} = S

UpsertUsage(x) ==
    /\ Wants(x) # {} /\ WaitsFor(x) = {}
    /\ holds' = [holds EXCEPT ![x] = @ \cup Wants(x)]
    /\ UNCHANGED <<memory, indexed, counters, request, pc, progress, package,
                   result>>

Raised(count, x) == [m \in Ids |-> IF m \in CountedIds(x) THEN count[m] + 1
                                   ELSE count[m]]

CommitRecalled(x) ==
    /\ Goto(x, "recalling", "compiling")
    /\ Wants(x) = {}
    /\ recallCount' = Raised(recallCount, x)
    /\ holds' = [holds EXCEPT ![x] = {}]
    /\ UNCHANGED <<memory, indexed, useCount, request, progress, package,
                   result>>

CommitUsed(x) ==
    /\ pc[x] = "using" /\ Wants(x) = {}
    /\ useCount' = Raised(useCount, x)
    /\ Finish(x, "answered")
    /\ UNCHANGED <<memory, indexed, recallCount, request>>

-----------------------------------------------------------------------------
(* The context compiler.                                                   *)

\* REFINE and MERGE append to the text.
Tokens(r) == Facts[r.id].size + Cardinality(r.evidence) - 1

\* Fault: the first memory that does not fit ends the selection.
AdmitUntilFull(q, p, r) ==
    IF p.truncated \/ Len(p.items) >= q.topK \/ p.used + Tokens(r) > q.budget
    THEN [p EXCEPT !.excluded = @ \cup {r.id}, !.truncated = TRUE]
    ELSE [p EXCEPT !.items = Append(@, r), !.used = @ + Tokens(r)]

\* A memory that does not fit is skipped, and a smaller one may still fit.
Admit(q, p, r) ==
    IF Len(p.items) >= q.topK \/ p.used + Tokens(r) > q.budget
    THEN [p EXCEPT !.excluded = @ \cup {r.id}, !.truncated = TRUE]
    ELSE [p EXCEPT !.items = Append(@, r), !.used = @ + Tokens(r)]

Select(q, ranked, excluded) ==
    FoldLeft(LAMBDA p, r : Admit(q, p, r),
             [Nothing EXCEPT !.excluded = excluded], ranked)

\* The excerpts of the selected memories, up to the first that does not fit.
EvidenceIds(items) ==
    LET new(ids, r) == r.evidence \ ToSet(ids)
        listed(ids, r) == ids \o InOrder(new(ids, r), ByOrder(new(ids, r)))
    IN  FoldLeft(listed, <<>>, items)

SizeOf(excerpts) == FoldLeft(LAMBDA n, e : n + ExcerptSize[e], 0, excerpts)

WithEvidence(q, p) ==
    LET all == EvidenceIds(p.items)
        fits == {n \in 0..Len(all) : p.used + SizeOf(SubSeq(all, 1, n)) <= q.budget}
        n == CHOOSE k \in fits : \A j \in fits : j <= k
    IN  IF ~(q.evidence \/ Route(q) = "deep") THEN p
        ELSE [p EXCEPT !.excerpts = SubSeq(all, 1, n),
                       !.used = @ + SizeOf(SubSeq(all, 1, n)),
                       !.truncated = @ \/ n < Len(all)]

Compiled(x, ranked) ==
    LET shut == {r.id : r \in {s \in ToSet(seen[x]) : ~s.allowed}}
    IN  WithEvidence(request[x], Select(request[x], ranked, shut))

\* compile; an EXPRESS read without an admissible memory is NotFound, after
\* its recall was counted.
Compile(x) ==
    /\ pc[x] = "compiling"
    /\ IF Mode(x) = "express" /\ Ranked(x) = <<>>
       THEN Finish(x, "missing")
       ELSE /\ Goto(x, "compiling", "using")
            /\ \E ranked \in {Ranked(x)} :
                  package' = [package EXCEPT ![x] = Compiled(x, ranked)]
            /\ UNCHANGED <<progress, holds, result>>
    /\ UNCHANGED <<memory, indexed, counters, request>>

-----------------------------------------------------------------------------

\* A statement fails, or PostgreSQL breaks a deadlock: the session is closed
\* and its transaction rolled back.
Raise(x) ==
    /\ pc[x] \notin {"idle", "done"}
    /\ Finish(x, "failed")
    /\ UNCHANGED <<memory, indexed, counters, request>>

BreakDeadlock(x) == Deadlocked(x) /\ Raise(x)

Proceed(x) ==
    \/ AnswerWithoutMemories(x)
    \/ Address(x) \/ SearchVectors(x) \/ ResolveKey(x) \/ Traverse(x)
    \/ ReadRecord(x)
    \/ UpsertUsage(x) \/ CommitRecalled(x) \/ CommitUsed(x)
    \/ Compile(x)

\* A call of govern takes effect: one step of MemoryLedger that changes a
\* memory (a candidate turned away changes nothing a read sees).  An active
\* memory holds its key and a replaced one gives it up for one its id makes unique.
Govern ==
    /\ key' \in {key}
            \cup {[key EXCEPT ![c] = Facts[c].key] : c \in Candidates}
            \cup {[key EXCEPT ![m] = m, ![c] = Facts[c].key]
                    : m \in Ids \ Candidates, c \in Candidates}
    /\ \E c \in Candidates :
          \/ Ledger!Create(c)
          \/ \E m \in Ids : Ledger!Revise(c, m) \/ Ledger!Supersede(c, m)
    /\ \A m \in Ids : /\ status'[m] = "active" => key'[m] = Facts[m].key
                      /\ status'[m] = "superseded" => key'[m] # Facts[m].key
    /\ UNCHANGED <<indexed, counters, request, pc, progress, holds, package,
                   result>>

\* The index worker writes the rows of a version.
Index(m) ==
    /\ version[m] > 0 /\ status[m] = "active"
    /\ <<m, version[m]>> \notin indexed
    /\ indexed' = indexed \cup {<<m, version[m]>>}
    /\ UNCHANGED <<memory, counters, request, pc, progress, holds, package,
                   result>>

Next ==
    \/ \E x \in Reads : Proceed(x) \/ Raise(x)
    \/ Govern
    \/ \E m \in Ids : Index(m)

\* The event loop runs every started read; PostgreSQL ends every deadlock.
FairSpec ==
    /\ Init /\ [][Next]_vars
    /\ \A x \in Reads : WF_vars(Proceed(x)) /\ WF_vars(BreakDeadlock(x))

-----------------------------------------------------------------------------
(* Correctness.                                                            *)

TypeOK ==
    /\ \A row \in indexed : row[1] \in Ids /\ row[2] \in 1..version[row[1]]
    /\ recallCount \in [Ids -> 0..Cardinality(Reads)]
    /\ useCount \in [Ids -> 0..Cardinality(Reads)]
    /\ pc \in [Reads -> Phases]
    /\ result \in [Reads -> Results]
    /\ \A x \in Reads : /\ Mode(x) \in Modes
                        /\ holds[x] \subseteq CountedIds(x)
                        /\ {h.id : h \in ToSet(hits[x])} \subseteq Ids
                        /\ Cardinality({h.id : h \in ToSet(hits[x])}) =
                              Len(hits[x])

Items(x) == ToSet(package[x].items)

\* What a package holds was active in the version it shows, and within what
\* the caller may see, however old the index rows were that named it.
ItemsAreAdmissible ==
    \A x \in Reads : \A r \in Items(x) :
        /\ r.version \in 1..version[r.id]
        /\ status[r.id] = "superseded" => r.version < version[r.id]
        /\ Facts[r.id].valid
        /\ Facts[r.id].scope \in AllowedScopes(request[x])
        /\ request[x].types # {} => Facts[r.id].type \in request[x].types

\* A package never shows a memory beside the memory that replaced it, also
\* when the replacement is decided while the read is under way: the indexes
\* are asked before the first record is read.
NeverWithItsReplacement ==
    \A x \in Reads : \A r, s \in Items(x) : successor[r.id] # s.id

\* Tokens of the ranked memories at the places S.
SizeAt(ranked, S) == FoldSet(LAMBDA i, n : n + Tokens(ranked[i]), 0, S)

\* A memory fits after those taken at the places S.
Fits(q, ranked, i, S) ==
    /\ Cardinality(S) < q.topK
    /\ SizeAt(ranked, S) + Tokens(ranked[i]) <= q.budget

\* The reference definition of the selection: in order of score, a memory is
\* taken exactly when it fits beside those taken before it; what is shown and
\* its evidence stay within the budget.
TakesWhatFits(x) ==
    LET ranked == Ranked(x)
        taken == {i \in DOMAIN ranked : ranked[i] \in Items(x)}
    IN  /\ \A i \in DOMAIN ranked :
              i \in taken <=>
                  Fits(request[x], ranked, i, {j \in taken : j < i})
        /\ package[x].used = SizeAt(ranked, taken) + SizeOf(package[x].excerpts)
        /\ package[x].used <= request[x].budget
        /\ ToSet(package[x].excerpts) \subseteq
              UNION {r.evidence : r \in Items(x)}

NamesTheRest(x) ==
    LET shown == {r.id : r \in Items(x)}
    IN  /\ shown \cap package[x].excluded = {}
        /\ shown \cup package[x].excluded = {h.id : h \in ToSet(hits[x])}

\* A read that is about to answer shows the greedy selection of what it found,
\* within the budget, and names every other hit as excluded.
SelectionIsGreedy ==
    \A x \in Reads : pc[x] = "using" => TakesWhatFits(x) /\ NamesTheRest(x)

\* Concurrent reads lose no count and count nothing they did not show: a use
\* is counted for exactly the answers that hold the memory, and every use was
\* counted as a recall before.
UsesAreCounted ==
    \A m \in Ids :
        /\ useCount[m] = Cardinality({x \in Reads :
                            /\ result[x] = "answered"
                            /\ \E r \in Items(x) : r.id = m})
        /\ useCount[m] <= recallCount[m]

\* A read that has begun comes to an end, also when two reads lock the rows
\* of their counters in opposite orders.
ReadsEnd == \A x \in Reads : (pc[x] # "idle") ~> (pc[x] = "done")

=============================================================================
