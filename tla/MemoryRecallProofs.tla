-------------------------- MODULE MemoryRecallProofs --------------------------
(***************************************************************************)
(* Proofs about MemoryRecall: for any memories, index rows and reads, and  *)
(* whatever governance does between two statements of a read, a package    *)
(* shows admissible memories only, is the greedy selection within its      *)
(* budget, accounts for every hit and is counted as it is answered.        *)
(*                                                                         *)
(* A package is a fold over a sorted sequence.  The library's induction    *)
(* theorems are about operators, which the provers cannot instantiate, so  *)
(* the first parts state induction, folds and sorting about sets and       *)
(* functions; then come searching, the compiler, the inductive invariant,  *)
(* and one lemma for each action.                                          *)
(***************************************************************************)
EXTENDS MemoryRecall, FiniteSetTheorems, SequenceTheorems, TLAPS

-----------------------------------------------------------------------------
(* Induction, folds and sorting.                                           *)

\* Induction over the numbers up to N, about a set of them.
LEMMA IntervalInduction ==
  ASSUME NEW N \in Nat, NEW S, 0 \in S,
         \A n \in 0 .. N : n \in S /\ n # N => n + 1 \in S
  PROVE  0 .. N \subseteq S
<1> DEFINE R == OpToRel(<, Nat)
           T == (0 .. N) \ S
<1>1. SUFFICES ASSUME T # {} PROVE FALSE
  OBVIOUS
<1>2. IsWellFoundedOn(R, Nat)
  BY NatLessThanWellFounded
<1>3. T \subseteq Nat
  OBVIOUS
<1> HIDE DEF R
<1>4. PICK n \in T : \A k \in T : ~ (<<k, n>> \in R)
  BY <1>1, <1>2, <1>3, WFMin
<1>5. \A k \in Nat : k < n => <<k, n>> \in R
  BY <1>3 DEF R, OpToRel
<1>6. n \in 0 .. N /\ n # 0
  BY <1>3, <1>4
<1>7. n - 1 \in Nat /\ n - 1 \in 0 .. N /\ n - 1 < n /\ n - 1 # N
  BY <1>6
<1>8. n - 1 \notin T
  BY <1>4, <1>5, <1>7
<1>9. n - 1 \in S
  BY <1>7, <1>8
<1>10. (n - 1) + 1 \in S /\ (n - 1) + 1 = n
  BY <1>6, <1>7, <1>9
<1>11. QED
  BY <1>4, <1>10

\* The greatest member of a set of numbers up to n + 1 that has n + 1.
LEMMA MaxOfTop ==
  ASSUME NEW n \in Nat, NEW s \in SUBSET (1 .. n + 1), n + 1 \in s
  PROVE  Max(s) = n + 1 /\ s \ {Max(s)} \in SUBSET (1 .. n)
<1>1. \A k \in s : k \in Nat /\ n + 1 >= k
  OBVIOUS
<1>2. \A k \in s : (\A j \in s : k >= j) => k = n + 1
  BY <1>1
<1>3. Max(s) = n + 1
  BY <1>1, <1>2 DEF Max
<1>4. QED
  BY <1>3

\* The greatest member of a set of numbers: it is one, and none is greater.
LEMMA MaxIsMember ==
  ASSUME NEW n \in Nat, NEW s \in SUBSET (1 .. n), s # {}
  PROVE  /\ Max(s) \in s
         /\ \A j \in s : j <= Max(s)
<1> DEFINE HasMax(t) == \E k \in t : \A j \in t : k >= j
           S == {k \in 0 .. n : \A t \in SUBSET (1 .. k) : t # {} => HasMax(t)}
<1>1. 0 \in S
  <2>1. \A t \in SUBSET (1 .. 0) : t = {}
    OBVIOUS
  <2>2. \A t \in SUBSET (1 .. 0) : t # {} => HasMax(t)
    BY <2>1
  <2>3. 0 \in 0 .. n
    OBVIOUS
  <2> HIDE DEF HasMax
  <2>4. QED
    BY <2>2, <2>3, Zenon
<1>2. ASSUME NEW k \in 0 .. n, k \in S, k # n
      PROVE  k + 1 \in S
  <2>1. ASSUME NEW t \in SUBSET (1 .. k + 1), t # {}
        PROVE  HasMax(t)
    <3>1. CASE k + 1 \in t
      <4>1. \A j \in t : k + 1 >= j
        OBVIOUS
      <4>2. QED
        BY <3>1, <4>1
    <3>2. CASE k + 1 \notin t
      <4>1. t \in SUBSET (1 .. k)
        BY <3>2
      <4>2. QED
        BY <1>2, <2>1, <4>1
    <3>3. QED
      BY <3>1, <3>2
  <2> HIDE DEF HasMax
  <2>2. k + 1 \in 0 .. n
    BY <1>2
  <2>3. QED
    BY <2>1, <2>2
<1> HIDE DEF S
<1>3. 0 .. n \subseteq S
  BY <1>1, <1>2, IntervalInduction
<1>4. n \in S
  BY <1>3
<1>5. HasMax(s)
  BY <1>4 DEF S
<1>6. PICK k \in s : \A j \in s : k >= j
  BY <1>5
<1>7. Max(s) \in s /\ \A j \in s : Max(s) >= j
  BY <1>6 DEF Max
<1>8. QED
  BY <1>7

\* What a fold over the members of a finite set computes for each of its
\* subsets: step takes the value so far and the member that pick names.
IsFold(g, S, V, base, step, pick) ==
    /\ g \in [SUBSET S -> V]
    /\ \A s \in SUBSET S :
          g[s] = IF s = {} THEN base ELSE step[<<g[s \ {pick[s]}], pick[s]>>]

\* pick takes a member of every subset that has one.
PicksMember(pick, S) == \A s \in SUBSET S : s # {} => pick[s] \in s

\* The function a fold chooses exists.
LEMMA FoldExists ==
  ASSUME NEW S, IsFiniteSet(S), NEW V, NEW base \in V,
         NEW step \in [V \X S -> V], NEW pick, PicksMember(pick, S)
  PROVE  \E g : IsFold(g, S, V, base, step, pick)
<1> USE DEF PicksMember
<1> DEFINE Small(n) == {s \in SUBSET S : Cardinality(s) <= n}
           Folds(n, g) ==
              /\ g \in [Small(n) -> V]
              /\ \A s \in Small(n) :
                    g[s] = IF s = {} THEN base
                           ELSE step[<<g[s \ {pick[s]}], pick[s]>>]
           N == Cardinality(S)
           T == {n \in 0 .. N : \E g : Folds(n, g)}
<1>1. N \in Nat /\ \A s \in SUBSET S : IsFiniteSet(s) /\ Cardinality(s) \in 0 .. N
  BY FS_CardinalityType, FS_Subset
<1>2. \A s \in SUBSET S : (Cardinality(s) = 0) <=> (s = {})
  BY <1>1, FS_EmptySet
<1>3. \A s \in SUBSET S : s # {} => /\ s \ {pick[s]} \in SUBSET S
                                   /\ Cardinality(s \ {pick[s]}) = Cardinality(s) - 1
  BY <1>1, FS_RemoveElement
<1> HIDE DEF N
<1>4. 0 \in T
  <2> DEFINE g == [s \in Small(0) |-> base]
  <2>1. \A s \in Small(0) : s = {}
    BY <1>1, <1>2
  <2>2. Folds(0, g)
    BY <2>1
  <2>3. 0 \in 0 .. N
    BY <1>1
  <2> HIDE DEF Folds, g
  <2>4. QED
    BY <2>2, <2>3
<1>5. ASSUME NEW n \in 0 .. N, n \in T, n # N
      PROVE  n + 1 \in T
  <2>1. PICK g : Folds(n, g)
    BY <1>5
  <2> DEFINE value(s) == IF s = {} THEN base
                         ELSE step[<<g[s \ {pick[s]}], pick[s]>>]
             h == [s \in Small(n + 1) |-> value(s)]
  <2>2. n + 1 \in 0 .. N /\ n \in Nat
    BY <1>1, <1>5
  <2>3. \A s \in Small(n) : s \in Small(n + 1) /\ h[s] = g[s]
    <3>1. ASSUME NEW s \in Small(n)
          PROVE  s \in Small(n + 1)
      BY <1>1, <2>2
    <3>2. \A s \in Small(n) : g[s] = value(s)
      BY <2>1
    <3>3. QED
      BY <3>1, <3>2
  <2>4. ASSUME NEW s \in Small(n + 1)
        PROVE  /\ h[s] \in V
               /\ h[s] = IF s = {} THEN base
                         ELSE step[<<h[s \ {pick[s]}], pick[s]>>]
    <3>1. CASE s = {}
      BY <3>1
    <3>2. CASE s # {}
      <4> DEFINE t == s \ {pick[s]}
      <4>1. pick[s] \in S /\ t \in Small(n)
        BY <1>1, <1>3, <2>2, <3>2
      <4> HIDE DEF t
      <4>2. h[t] = g[t] /\ g[t] \in V
        BY <2>1, <2>3, <4>1
      <4>3. h[s] = step[<<g[t], pick[s]>>]
        BY <3>2 DEF t
      <4>4. step[<<g[t], pick[s]>>] \in V
        BY <4>1, <4>2
      <4> HIDE DEF h, Small
      <4>5. QED
        BY <3>2, <4>2, <4>3, <4>4 DEF t
    <3> HIDE DEF h, Small
    <3>3. QED
      BY <3>1, <3>2
  <2>5. Folds(n + 1, h)
    <3>1. h \in [Small(n + 1) -> V]
      BY <2>4
    <3> HIDE DEF h, Small
    <3>2. QED
      BY <2>4, <3>1
  <2> HIDE DEF Folds, h
  <2>6. QED
    BY <2>2, <2>5
<1> HIDE DEF T
<1>6. 0 .. N \subseteq T
  BY <1>1, <1>4, <1>5, IntervalInduction
<1>7. N \in T
  BY <1>1, <1>6
<1>8. PICK g : Folds(N, g)
  BY <1>7 DEF T
<1>9. Small(N) = SUBSET S
  BY <1>1
<1> HIDE DEF Small
<1>10. IsFold(g, S, V, base, step, pick)
  BY <1>8, <1>9 DEF IsFold
<1>11. QED
  BY <1>10

\* The values of a fold from the left after 0, 1, ..., N indexes.
IsSteps(f, N, V, base, step, last) ==
    /\ f \in [0 .. N -> V]
    /\ f[0] = base
    /\ \A n \in 1 .. N : f[n] = step[<<f[n - 1], n>>]
    /\ f[N] = last

\* A function that satisfies the equation of a fold from the left where the
\* values have their type computes the fold step after step.
LEMMA FoldSteps ==
  ASSUME NEW N \in Nat, NEW V, NEW base \in V,
         NEW step \in [V \X (1 .. N) -> V],
         NEW iter, iter[{}] = base,
         \A s \in SUBSET (1 .. N) : s # {} /\ iter[s \ {Max(s)}] \in V =>
            iter[s] = step[<<iter[s \ {Max(s)}], Max(s)>>]
  PROVE  \E f : IsSteps(f, N, V, base, step, iter[1 .. N])
<1> DEFINE S == {n \in 0 .. N : iter[1 .. n] \in V}
           f == [n \in 0 .. N |-> iter[1 .. n]]
<1>1. 0 \in S /\ iter[1 .. 0] = base
  <2>1. 1 .. 0 = {} /\ 0 \in 0 .. N
    OBVIOUS
  <2>2. QED
    BY <2>1
<1>2. ASSUME NEW n \in 0 .. N, n # N, n \in S
      PROVE  /\ iter[1 .. n + 1] = step[<<iter[1 .. n], n + 1>>]
             /\ n + 1 \in S
  <2> DEFINE s == 1 .. n + 1
  <2>1. /\ s \in SUBSET (1 .. N) /\ n + 1 \in s
        /\ n + 1 \in 1 .. N /\ n + 1 \in 0 .. N /\ n \in Nat
    BY <1>2
  <2>2. Max(s) = n + 1
    BY <2>1, MaxOfTop
  <2>3. s \ {n + 1} = 1 .. n
    BY <2>1
  <2>4. iter[1 .. n] \in V
    BY <1>2
  <2> HIDE DEF s
  <2>5. iter[s] = step[<<iter[1 .. n], n + 1>>]
    BY <2>1, <2>2, <2>3, <2>4
  <2>6. iter[s] \in V
    BY <2>1, <2>4, <2>5
  <2>7. QED
    BY <2>1, <2>5, <2>6 DEF s
<1> HIDE DEF S
<1>3. 0 .. N \subseteq S
  BY <1>1, <1>2, IntervalInduction
<1>4. \A n \in 0 .. N : iter[1 .. n] \in V
  BY <1>3 DEF S
<1>5. f \in [0 .. N -> V] /\ f[N] = iter[1 .. N]
  BY <1>4
<1>6. f[0] = base
  BY <1>1
<1>7. ASSUME NEW n \in 1 .. N
      PROVE  f[n] = step[<<f[n - 1], n>>]
  <2>1. n - 1 \in 0 .. N /\ n - 1 # N /\ (n - 1) + 1 = n /\ n \in 0 .. N
    OBVIOUS
  <2>2. iter[1 .. n] = step[<<iter[1 .. n - 1], n>>]
    BY <1>2, <1>3, <2>1
  <2>3. QED
    BY <2>1, <2>2
<1> HIDE DEF f
<1>8. IsSteps(f, N, V, base, step, iter[1 .. N])
  BY <1>5, <1>6, <1>7 DEF IsSteps
<1>9. QED
  BY <1>8

\* InOrder lists each member of a finite set once, the smaller before the
\* greater: as many members are below the i-th as come before it.
LEMMA InOrderSorts ==
  ASSUME NEW S, IsFiniteSet(S), NEW R,
         \A a \in S : <<a, a>> \notin R,
         \A a, b \in S : a # b => \/ <<a, b>> \in R
                                  \/ <<b, a>> \in R,
         \A a, b, d \in S : <<a, b>> \in R /\ <<b, d>> \in R => <<a, d>> \in R
  PROVE  LET f == InOrder(S, R)
         IN  /\ f \in [1 .. Cardinality(S) -> S]
             /\ \A e \in S : \E i \in 1 .. Cardinality(S) : f[i] = e
             /\ \A i, j \in 1 .. Cardinality(S) : i < j => <<f[i], f[j]>> \in R
<1> DEFINE n == Cardinality(S)
           Below(e) == {d \in S : <<d, e>> \in R}
           below == [e \in S |-> Cardinality(Below(e))]
           place == [e \in S |-> below[e] + 1]
           f == InOrder(S, R)
<1>1. n \in Nat
  BY FS_CardinalityType
<1>2. \A e \in S : IsFiniteSet(Below(e)) /\ below[e] \in 0 .. n - 1
  <2>1. SUFFICES ASSUME NEW e \in S
                 PROVE  IsFiniteSet(Below(e)) /\ below[e] \in 0 .. n - 1
    OBVIOUS
  <2> DEFINE B == Below(e)
  <2>2. B \in SUBSET (S \ {e})
    OBVIOUS
  <2>3. IsFiniteSet(S \ {e}) /\ Cardinality(S \ {e}) = n - 1
    BY FS_RemoveElement
  <2>4. below[e] = Cardinality(B)
    OBVIOUS
  <2> HIDE DEF B, n
  <2>5. IsFiniteSet(B) /\ Cardinality(B) <= n - 1
    BY <2>2, <2>3, FS_Subset
  <2>6. Cardinality(B) \in Nat
    BY <2>5, FS_CardinalityType
  <2> HIDE DEF below
  <2>7. QED
    BY <1>1, <2>4, <2>5, <2>6 DEF B
<1>3. \A a, b \in S : <<a, b>> \in R => below[a] < below[b]
  <2>1. SUFFICES ASSUME NEW a \in S, NEW b \in S, <<a, b>> \in R
                 PROVE  below[a] < below[b]
    OBVIOUS
  <2>2. Below(a) \in SUBSET Below(b) /\ Below(a) # Below(b)
    <3>1. a \in Below(b) /\ a \notin Below(a)
      BY <2>1
    <3>2. Below(a) \in SUBSET Below(b)
      BY <2>1
    <3>3. QED
      BY <3>1, <3>2
  <2> DEFINE A == Below(a)
             B == Below(b)
  <2>3. IsFiniteSet(B) /\ below[a] = Cardinality(A) /\ below[b] = Cardinality(B)
    BY <1>2
  <2>4. A \in SUBSET B /\ A # B
    BY <2>2
  <2> HIDE DEF A, B
  <2>5. Cardinality(A) <= Cardinality(B) /\ Cardinality(A) # Cardinality(B)
    BY <2>3, <2>4, FS_Subset
  <2> HIDE DEF below, n
  <2>6. below[a] \in 0 .. n - 1 /\ below[b] \in 0 .. n - 1
    BY <1>2
  <2>7. QED
    BY <1>1, <2>3, <2>5, <2>6
<1> HIDE DEF below
<1>4. \A a, b \in S : below[a] = below[b] => a = b
  <2> HIDE DEF n
  <2>1. SUFFICES ASSUME NEW a \in S, NEW b \in S, below[a] = below[b], a # b
                 PROVE  FALSE
    OBVIOUS
  <2>2. below[a] \in 0 .. n - 1 /\ below[b] \in 0 .. n - 1
    BY <1>2
  <2>3. below[a] < below[b] \/ below[b] < below[a]
    BY <1>3, <2>1
  <2>4. QED
    BY <1>1, <2>1, <2>2, <2>3
<1>5. place \in Injection(S, 1 .. n)
  <2> HIDE DEF n
  <2>1. \A e \in S : below[e] + 1 \in 1 .. n
    <3>1. SUFFICES ASSUME NEW e \in S
                   PROVE  below[e] + 1 \in 1 .. n
      OBVIOUS
    <3>2. below[e] \in 0 .. n - 1
      BY <1>2
    <3>3. QED
      BY <1>1, <3>2
  <2>2. place \in [S -> 1 .. n]
    BY <2>1
  <2>3. \A a, b \in S : below[a] + 1 = below[b] + 1 => below[a] = below[b]
    <3>1. SUFFICES ASSUME NEW a \in S, NEW b \in S, below[a] + 1 = below[b] + 1
                   PROVE  below[a] = below[b]
      OBVIOUS
    <3>2. below[a] \in 0 .. n - 1 /\ below[b] \in 0 .. n - 1
      BY <1>2
    <3>3. QED
      BY <1>1, <3>1, <3>2
  <2>4. \A a, b \in S : place[a] = place[b] => a = b
    BY <1>4, <2>3
  <2> HIDE DEF place
  <2>5. QED
    BY <2>2, <2>4 DEF Injection, IsInjective
<1>6. IsFiniteSet(1 .. n) /\ Cardinality(1 .. n) = n
  BY <1>1, FS_Interval
<1>7. place \in Surjection(S, 1 .. n)
  <2> HIDE DEF place
  <2>1. QED
    BY <1>5, <1>6, FS_Injection
<1>8. \A i \in 1 .. n : \E e \in S : below[e] = i - 1
  <2>1. SUFFICES ASSUME NEW i \in 1 .. n
                 PROVE  \E e \in S : below[e] = i - 1
    OBVIOUS
  <2> HIDE DEF n
  <2>2. \E e \in S : place[e] = i
    <3> HIDE DEF place
    <3>1. QED
      BY <1>7 DEF Surjection
  <2>3. PICK e \in S : below[e] + 1 = i
    BY <2>2
  <2>4. below[e] \in 0 .. n - 1
    BY <1>2
  <2>5. below[e] = i - 1
    BY <1>1, <2>3, <2>4
  <2>6. QED
    BY <2>5
<1>9. f = [i \in 1 .. n |-> CHOOSE e \in S : Cardinality(Below(e)) = i - 1]
  BY DEF InOrder
<1>10. \A i \in 1 .. n : f[i] \in S /\ below[f[i]] = i - 1
  <2>1. SUFFICES ASSUME NEW i \in 1 .. n
                 PROVE  f[i] \in S /\ below[f[i]] = i - 1
    OBVIOUS
  <2>2. \A e \in S : below[e] = Cardinality(Below(e))
    BY DEF below
  <2>3. f[i] = CHOOSE e \in S : Cardinality(Below(e)) = i - 1
    BY <1>9
  <2> HIDE DEF f, n
  <2>4. \E e \in S : Cardinality(Below(e)) = i - 1
    BY <1>8, <2>2
  <2>5. f[i] \in S /\ Cardinality(Below(f[i])) = i - 1
    BY <2>3, <2>4
  <2>6. QED
    BY <2>2, <2>5
<1>11. f \in [1 .. n -> S]
  <2>1. f = [i \in 1 .. n |-> f[i]]
    BY <1>9
  <2> HIDE DEF f
  <2>2. QED
    BY <1>10, <2>1
<1> HIDE DEF f, n
<1>12. \A e \in S : \E i \in 1 .. n : f[i] = e
  <2>1. SUFFICES ASSUME NEW e \in S
                 PROVE  \E i \in 1 .. n : f[i] = e
    OBVIOUS
  <2> DEFINE i == below[e] + 1
  <2>2. below[e] \in 0 .. n - 1
    BY <1>2
  <2>3. i \in 1 .. n /\ i - 1 = below[e]
    BY <1>1, <2>2
  <2> HIDE DEF i
  <2>4. f[i] \in S /\ below[f[i]] = below[e]
    BY <1>10, <2>3
  <2>5. QED
    BY <1>4, <2>3, <2>4
<1>13. \A i, j \in 1 .. n : i < j => <<f[i], f[j]>> \in R
  <2>1. SUFFICES ASSUME NEW i \in 1 .. n, NEW j \in 1 .. n, i < j
                 PROVE  <<f[i], f[j]>> \in R
    OBVIOUS
  <2>2. f[i] \in S /\ f[j] \in S /\ below[f[i]] = i - 1 /\ below[f[j]] = j - 1
    BY <1>10
  <2>3. f[i] # f[j] /\ ~ (below[f[j]] < below[f[i]])
    BY <2>1, <2>2, <1>1
  <2>4. QED
    BY <1>3, <2>2, <2>3
<1>14. QED
  BY <1>11, <1>12, <1>13 DEF f, n

\* g sums up t over the subsets of S, in the order in which pick takes them.
AddsUp(g, S, t, pick) ==
    /\ g \in [SUBSET S -> Nat]
    /\ \A s \in SUBSET S :
          g[s] = IF s = {} THEN 0 ELSE t[pick[s]] + g[s \ {pick[s]}]

\* Whichever member of a subset of S is taken first.
AddsEach(g, S, t) ==
    \A r \in SUBSET S : \A a \in r : g[r] = t[a] + g[r \ {a}]

\* A sum adds every member once, whichever it takes first.
LEMMA SumAddsEach ==
  ASSUME NEW S, IsFiniteSet(S), NEW t \in [S -> Nat],
         NEW pick, PicksMember(pick, S), NEW g, AddsUp(g, S, t, pick)
  PROVE  AddsEach(g, S, t)
<1> USE DEF PicksMember, AddsUp
<1> DEFINE Adds(s) == \A x \in s : g[s] = t[x] + g[s \ {x}]
           N == Cardinality(S)
           T == {n \in 0 .. N : \A s \in SUBSET S : Cardinality(s) = n => Adds(s)}
<1>1. N \in Nat /\ \A s \in SUBSET S : IsFiniteSet(s) /\ Cardinality(s) \in 0 .. N
  BY FS_CardinalityType, FS_Subset
<1>2. \A s \in SUBSET S : (Cardinality(s) = 0) <=> (s = {})
  BY <1>1, FS_EmptySet
<1>3. \A s \in SUBSET S : \A x \in s : /\ s \ {x} \in SUBSET S
                                      /\ Cardinality(s \ {x}) = Cardinality(s) - 1
  BY <1>1, FS_RemoveElement
<1> HIDE DEF N
<1>4. 0 \in T
  <2>1. \A s \in SUBSET S : Cardinality(s) = 0 => Adds(s)
    BY <1>2
  <2> HIDE DEF Adds
  <2>2. QED
    BY <1>1, <2>1
<1>5. ASSUME NEW n \in 0 .. N, n \in T, n # N
      PROVE  n + 1 \in T
  <2>1. ASSUME NEW s \in SUBSET S, Cardinality(s) = n + 1, NEW x \in s
        PROVE  g[s] = t[x] + g[s \ {x}]
    <3> DEFINE y == pick[s]
               sx == s \ {x}
               sy == s \ {y}
               sxy == s \ {x, y}
    <3>1. y \in s /\ g[s] = t[y] + g[sy]
      OBVIOUS
    <3>2. CASE x = y
      BY <3>1, <3>2
    <3>3. CASE x # y
      <4>1. /\ sx \in SUBSET S /\ sy \in SUBSET S /\ sxy \in SUBSET S
            /\ y \in sx /\ x \in sy /\ sx \ {y} = sxy /\ sy \ {x} = sxy
        BY <3>1, <3>3
      <4>2. Cardinality(sx) = n /\ Cardinality(sy) = n
        <5>1. Cardinality(sx) = Cardinality(s) - 1 /\ Cardinality(sy) = Cardinality(s) - 1
          BY <1>3, <3>1
        <5>2. QED
          BY <1>1, <2>1, <5>1
      <4> HIDE DEF sx, sy, sxy, y
      <4>3. Adds(sx) /\ Adds(sy)
        <5> HIDE DEF Adds
        <5>1. QED
          BY <1>5, <4>1, <4>2
      <4>4. g[sx] = t[y] + g[sxy] /\ g[sy] = t[x] + g[sxy]
        BY <4>1, <4>3
      <4>5. t[x] \in Nat /\ t[y] \in Nat /\ g[sxy] \in Nat
        BY <4>1, <3>1
      <4>6. g[s] = t[x] + g[sx]
        BY <3>1, <4>4, <4>5
      <4>7. QED
        BY <4>6 DEF sx
    <3>4. QED
      BY <3>2, <3>3
  <2>2. \A s \in SUBSET S : Cardinality(s) = n + 1 => Adds(s)
    BY <2>1
  <2>3. n + 1 \in 0 .. N
    BY <1>1, <1>5
  <2> HIDE DEF Adds
  <2>4. QED
    BY <2>2, <2>3
<1> HIDE DEF T
<1>6. 0 .. N \subseteq T
  BY <1>1, <1>4, <1>5, IntervalInduction
<1>7. ASSUME NEW r \in SUBSET S
      PROVE  Adds(r)
  <2>1. Cardinality(r) \in T
    BY <1>1, <1>6
  <2>2. QED
    BY <2>1 DEF T
<1>8. QED
  BY <1>7 DEF AddsEach

-----------------------------------------------------------------------------
(* Searching merges hits.                                                  *)

\* The pick of a fold over a sequence: the last index.
Greatest(N) == [s \in SUBSET (1 .. N) |-> Max(s)]

\* The same for the indexes of a sequence that is folded from the left: the
\* greatest index is the last one taken.
LEMMA FoldLeftExists ==
  ASSUME NEW N \in Nat, NEW V, NEW base \in V,
         NEW step \in [V \X (1 .. N) -> V]
  PROVE  \E g : IsFold(g, 1 .. N, V, base, step, Greatest(N))
<1> DEFINE S == 1 .. N
<1>1. IsFiniteSet(S)
  BY FS_Interval
<1>2. PicksMember(Greatest(N), S)
  BY MaxIsMember DEF PicksMember, Greatest
<1>3. step \in [V \X S -> V]
  OBVIOUS
<1> HIDE DEF S
<1>4. \E g : IsFold(g, S, V, base, step, Greatest(N))
  BY <1>1, <1>2, <1>3, FoldExists
<1>5. QED
  BY <1>4 DEF S

\* What a search adds to: an id with its relevance.
Hit == [id : Ids, relevance : Int]

\* No two places of s name the same memory.
Distinct(s) == \A i, j \in DOMAIN s : s[i].id = s[j].id => i = j

\* The memories s names.
IdsOf(s) == {s[i].id : i \in DOMAIN s}

\* A hit is merged into hits with different ids.
LEMMA WithHitMerges ==
  ASSUME NEW found \in Seq(Hit), Distinct(found), NEW h \in Hit
  PROVE  /\ WithHit(found, h) \in Seq(Hit)
         /\ Distinct(WithHit(found, h))
         /\ IdsOf(WithHit(found, h)) = IdsOf(found) \cup {h.id}
<1> DEFINE better(i) == found[i].id = h.id /\ h.relevance > found[i].relevance
           same == [i \in DOMAIN found |-> IF better(i) THEN h ELSE found[i]]
           more == Append(found, h)
<1>1. /\ Len(found) \in Nat /\ DOMAIN found = 1 .. Len(found)
      /\ \A i \in 1 .. Len(found) : found[i] \in Hit
  BY LenProperties, ElementOfSeq
<1>2. CASE \E i \in DOMAIN found : found[i].id = h.id
  <2>1. WithHit(found, h) = same
    BY <1>2 DEF WithHit
  <2>2. \A i \in DOMAIN found : same[i] \in Hit /\ same[i].id = found[i].id
    BY <1>1
  <2>3. DOMAIN same = 1 .. Len(found)
    BY <1>1
  <2>4. same \in [1 .. Len(found) -> Hit]
    BY <1>1
  <2> HIDE DEF same
  <2>5. same \in Seq(Hit)
    BY <1>1, <2>4
  <2>6. Distinct(same)
    BY <1>1, <2>2, <2>3 DEF Distinct
  <2>7. IdsOf(same) = IdsOf(found)
    BY <1>1, <2>2, <2>3 DEF IdsOf
  <2>8. h.id \in IdsOf(found)
    BY <1>2 DEF IdsOf
  <2>9. QED
    BY <2>1, <2>5, <2>6, <2>7, <2>8
<1>3. CASE ~ \E i \in DOMAIN found : found[i].id = h.id
  <2>1. WithHit(found, h) = more
    BY <1>3 DEF WithHit
  <2>2. /\ more \in Seq(Hit) /\ Len(more) = Len(found) + 1
        /\ \A i \in 1 .. Len(found) : more[i] = found[i]
        /\ more[Len(found) + 1] = h
    BY AppendProperties
  <2> HIDE DEF more
  <2>3. DOMAIN more = 1 .. Len(found) + 1
    BY <2>2, LenProperties
  <2>4. Distinct(more)
    BY <1>1, <1>3, <2>2, <2>3 DEF Distinct
  <2>5. IdsOf(more) = IdsOf(found) \cup {h.id}
    BY <1>1, <2>2, <2>3 DEF IdsOf
  <2>6. QED
    BY <2>1, <2>2, <2>4, <2>5
<1>4. QED
  BY <1>2, <1>3

\* The hits of one search are merged into those of earlier ones, one after
\* another: nothing is lost and nothing is listed twice.
LEMMA FoldOfHits ==
  ASSUME NEW found \in Seq(Hit), Distinct(found), NEW new \in Seq(Hit)
  PROVE  LET all == FoldLeft(WithHit, found, new)
         IN  /\ all \in Seq(Hit)
             /\ Distinct(all)
             /\ IdsOf(all) = IdsOf(found) \cup IdsOf(new)
<1> DEFINE N == Len(new)
           V == {s \in Seq(Hit) : Distinct(s)}
           step == [p \in V \X (1 .. N) |-> WithHit(p[1], new[p[2]])]
<1>1. /\ N \in Nat /\ DOMAIN new = 1 .. N
      /\ \A i \in 1 .. N : new[i] \in Hit
  BY LenProperties, ElementOfSeq
<1>2. found \in V
  OBVIOUS
<1>3. \A s \in V, i \in 1 .. N : WithHit(s, new[i]) \in V
  BY <1>1, WithHitMerges
<1>4. step \in [V \X (1 .. N) -> V]
  BY <1>3
<1> HIDE DEF V, N
<1> DEFINE Chosen(f) ==
             f = [s \in SUBSET (1 .. N) |->
                    IF s = {} THEN found
                    ELSE WithHit(f[s \ {Max(s)}], new[Max(s)])]
<1>7. \E f : Chosen(f)
  <2> HIDE DEF step
  <2>1. PICK g : IsFold(g, 1 .. N, V, found, step, Greatest(N))
    BY <1>1, <1>2, <1>4, FoldLeftExists
  <2>2. \A s \in SUBSET (1 .. N) : s # {} => Max(s) \in 1 .. N
    BY <1>1, MaxIsMember
  <2>3. \A s \in SUBSET (1 .. N) :
           g[s] = IF s = {} THEN found
                  ELSE WithHit(g[s \ {Max(s)}], new[Max(s)])
    BY <2>1, <2>2 DEF step, IsFold, Greatest
  <2>4. g = [s \in SUBSET (1 .. N) |-> g[s]]
    BY <2>1 DEF IsFold
  <2>5. Chosen(g)
    BY <2>3, <2>4
  <2>6. QED
    BY <2>5
<1> DEFINE iter == CHOOSE f : Chosen(f)
<1>8. Chosen(iter)
  BY <1>7
<1>9. FoldLeft(WithHit, found, new) = iter[1 .. N]
  BY <1>1 DEF FoldLeft, MapThenFoldSet
<1> HIDE DEF iter
<1>10. iter[{}] = found
  BY <1>8
<1>11. \A s \in SUBSET (1 .. N) : s # {} /\ iter[s \ {Max(s)}] \in V =>
          iter[s] = step[<<iter[s \ {Max(s)}], Max(s)>>]
  <2>1. SUFFICES ASSUME NEW s \in SUBSET (1 .. N), s # {},
                        iter[s \ {Max(s)}] \in V
                 PROVE  iter[s] = step[<<iter[s \ {Max(s)}], Max(s)>>]
    OBVIOUS
  <2>2. Max(s) \in 1 .. N
    BY <1>1, <2>1, MaxIsMember
  <2>3. iter[s] = WithHit(iter[s \ {Max(s)}], new[Max(s)])
    BY <1>8, <2>1
  <2>4. QED
    BY <2>1, <2>2, <2>3
<1> HIDE DEF step
<1>12. PICK f : IsSteps(f, N, V, found, step, iter[1 .. N])
  BY <1>1, <1>2, <1>4, <1>10, <1>11, FoldSteps
<1>13. /\ f \in [0 .. N -> V] /\ f[0] = found
       /\ f[N] = FoldLeft(WithHit, found, new)
  BY <1>9, <1>12 DEF IsSteps
<1>14. ASSUME NEW n \in 0 .. N, n # N
       PROVE  /\ n + 1 \in 1 .. N /\ f[n] \in V /\ new[n + 1] \in Hit
              /\ f[n + 1] = WithHit(f[n], new[n + 1])
  <2>1. n + 1 \in 1 .. N /\ (n + 1) - 1 = n
    BY <1>1, <1>14
  <2>2. f[n] \in V /\ f[n + 1] = step[<<f[n], n + 1>>]
    BY <1>12, <2>1 DEF IsSteps
  <2>3. QED
    BY <1>1, <2>1, <2>2 DEF step
<1> DEFINE Ids1(n) == {new[i].id : i \in 1 .. n}
           S == {n \in 0 .. N : IdsOf(f[n]) = IdsOf(found) \cup Ids1(n)}
<1>15. 0 \in S
  <2>1. Ids1(0) = {}
    OBVIOUS
  <2>2. 0 \in 0 .. N /\ IdsOf(f[0]) = IdsOf(found)
    BY <1>1, <1>13
  <2> HIDE DEF Ids1
  <2>3. QED
    BY <2>1, <2>2
<1>16. ASSUME NEW n \in 0 .. N, n \in S, n # N
       PROVE  n + 1 \in S
  <2>1. n + 1 \in 0 .. N /\ Ids1(n + 1) = Ids1(n) \cup {new[n + 1].id}
    <3>1. 1 .. n + 1 = 1 .. n \cup {n + 1}
      BY <1>1
    <3>2. QED
      BY <1>1, <1>16, <3>1
  <2>2. f[n] \in Seq(Hit) /\ Distinct(f[n])
    BY <1>14, <1>16 DEF V
  <2>3. IdsOf(f[n + 1]) = IdsOf(f[n]) \cup {new[n + 1].id}
    BY <1>14, <1>16, <2>2, WithHitMerges
  <2> HIDE DEF Ids1
  <2>4. QED
    BY <1>16, <2>1, <2>3
<1> HIDE DEF S
<1>17. 0 .. N \subseteq S
  BY <1>1, <1>15, <1>16, IntervalInduction
<1>18. IdsOf(f[N]) = IdsOf(found) \cup IdsOf(new)
  <2>1. N \in S
    BY <1>1, <1>17
  <2>2. QED
    BY <1>1, <2>1 DEF S, IdsOf
<1>19. f[N] \in V
  BY <1>1, <1>13
<1>20. QED
  BY <1>13, <1>18, <1>19 DEF V

-----------------------------------------------------------------------------
(* The compiler.                                                           *)

\* A main record as a read keeps it.
Row == [id : Ids, version : Nat, allowed : BOOLEAN, score : Int,
        evidence : SUBSET Ids]

\* Two functions that satisfy the equation of a fold agree.
LEMMA FoldIsUnique ==
  ASSUME NEW S, IsFiniteSet(S), NEW pick, PicksMember(pick, S), NEW g, NEW h,
         g[{}] = h[{}],
         \A s \in SUBSET S :
            s # {} /\ g[s \ {pick[s]}] = h[s \ {pick[s]}] => g[s] = h[s]
  PROVE  g[S] = h[S]
<1> DEFINE N == Cardinality(S)
           T == {n \in 0 .. N : \A s \in SUBSET S : Cardinality(s) = n => g[s] = h[s]}
<1>1. N \in Nat /\ \A s \in SUBSET S : IsFiniteSet(s) /\ Cardinality(s) \in 0 .. N
  BY FS_CardinalityType, FS_Subset
<1>2. \A s \in SUBSET S : (Cardinality(s) = 0) <=> (s = {})
  BY <1>1, FS_EmptySet
<1>3. \A s \in SUBSET S : s # {} => /\ s \ {pick[s]} \in SUBSET S
                                   /\ Cardinality(s \ {pick[s]}) = Cardinality(s) - 1
  BY <1>1, FS_RemoveElement DEF PicksMember
<1> HIDE DEF N
<1>4. 0 \in T
  BY <1>1, <1>2
<1>5. ASSUME NEW n \in 0 .. N, n \in T, n # N
      PROVE  n + 1 \in T
  <2>1. ASSUME NEW s \in SUBSET S, Cardinality(s) = n + 1
        PROVE  g[s] = h[s]
    <3>1. s # {}
      BY <1>1, <1>2, <1>5, <2>1
    <3>2. s \ {pick[s]} \in SUBSET S /\ Cardinality(s \ {pick[s]}) = n
      BY <1>1, <1>3, <1>5, <2>1, <3>1
    <3>3. g[s \ {pick[s]}] = h[s \ {pick[s]}]
      BY <1>5, <3>2
    <3>4. QED
      BY <3>1, <3>3
  <2>2. n + 1 \in 0 .. N
    BY <1>1, <1>5
  <2>3. QED
    BY <2>1, <2>2
<1> HIDE DEF T
<1>6. 0 .. N \subseteq T
  BY <1>1, <1>4, <1>5, IntervalInduction
<1>7. N \in T
  BY <1>1, <1>6
<1>8. QED
  BY <1>7 DEF T, N

\* The tokens of a memory: its text and what governance appended.
LEMMA TokensAreCounted ==
  ASSUME NEW r \in Row
  PROVE  Tokens(r) \in Nat
<1>1. IsFiniteSet(r.evidence) /\ Facts[r.id].size \in Nat \ {0}
  BY ConstantsAssumption, FS_Subset DEF Row
<1>2. Cardinality(r.evidence) \in Nat
  BY <1>1, FS_CardinalityType
<1>3. QED
  BY <1>1, <1>2 DEF Tokens

\* The tokens at some places of what is ranked are a sum over the places.
LEMMA SizeAtAdds ==
  ASSUME NEW ranked \in Seq(Row), NEW S \in SUBSET (1 .. Len(ranked))
  PROVE  /\ SizeAt(ranked, S) \in Nat
         /\ SizeAt(ranked, {}) = 0
         /\ \A a \in S : SizeAt(ranked, S) =
                            Tokens(ranked[a]) + SizeAt(ranked, S \ {a})
<1> DEFINE N == Len(ranked)
           All == 1 .. N
           t == [i \in All |-> Tokens(ranked[i])]
           step == [p \in Nat \X All |-> p[1] + t[p[2]]]
           pick == [s \in SUBSET All |-> CHOOSE e \in s : TRUE]
           Chosen(f, s0) ==
              f = [s \in SUBSET s0 |->
                     IF s = {} THEN 0
                     ELSE f[s \ {CHOOSE e \in s : TRUE}]
                             + Tokens(ranked[CHOOSE e \in s : TRUE])]
<1>1. N \in Nat /\ IsFiniteSet(All) /\ \A i \in All : ranked[i] \in Row
  BY LenProperties, ElementOfSeq, FS_Interval
<1>2. t \in [All -> Nat] /\ \A i \in All : t[i] = Tokens(ranked[i])
  BY <1>1, TokensAreCounted
<1> HIDE DEF N, All, t
<1>3. step \in [Nat \X All -> Nat]
  BY <1>2
<1>4. \A s \in SUBSET All : pick[s] = CHOOSE e \in s : TRUE
  OBVIOUS
<1>5. PicksMember(pick, All)
  BY DEF PicksMember
<1> HIDE DEF step, pick
<1>6. PICK g : IsFold(g, All, Nat, 0, step, pick)
  BY <1>1, <1>3, <1>5, FoldExists
<1>7. g \in [SUBSET All -> Nat] /\ g[{}] = 0
  BY <1>6 DEF IsFold
<1>8. \A s \in SUBSET All : s # {} =>
         g[s] = t[pick[s]] + g[s \ {pick[s]}]
  <2>1. SUFFICES ASSUME NEW s \in SUBSET All, s # {}
                 PROVE  g[s] = t[pick[s]] + g[s \ {pick[s]}]
    OBVIOUS
  <2>2. pick[s] \in All /\ s \ {pick[s]} \in SUBSET All
    BY <1>5, <2>1 DEF PicksMember
  <2>3. g[s] = step[<<g[s \ {pick[s]}], pick[s]>>]
    BY <1>6, <2>1 DEF IsFold
  <2>4. g[s \ {pick[s]}] \in Nat /\ t[pick[s]] \in Nat
    BY <1>2, <1>7, <2>2
  <2>5. g[s] = g[s \ {pick[s]}] + t[pick[s]]
    BY <2>2, <2>3, <2>4 DEF step
  <2>6. QED
    BY <2>4, <2>5
<1>9. \A s0 \in SUBSET All : SizeAt(ranked, s0) = g[s0]
  <2>1. SUFFICES ASSUME NEW s0 \in SUBSET All
                 PROVE  SizeAt(ranked, s0) = g[s0]
    OBVIOUS
  <2>2. \E f : Chosen(f, s0)
    <3> DEFINE f == [s \in SUBSET s0 |-> g[s]]
    <3>1. ASSUME NEW s \in SUBSET s0, s # {}
          PROVE  f[s] = f[s \ {CHOOSE e \in s : TRUE}]
                           + Tokens(ranked[CHOOSE e \in s : TRUE])
      <4>1. s \in SUBSET All /\ pick[s] = (CHOOSE e \in s : TRUE) /\ pick[s] \in s
        BY <1>4, <1>5, <3>1 DEF PicksMember
      <4>2. s \ {pick[s]} \in SUBSET s0 /\ s \ {pick[s]} \in SUBSET All /\ pick[s] \in All
        BY <4>1
      <4>3. f[s] = g[s] /\ f[s \ {pick[s]}] = g[s \ {pick[s]}]
        BY <4>2
      <4>4. t[pick[s]] = Tokens(ranked[pick[s]]) /\ t[pick[s]] \in Nat
        BY <1>2, <4>2
      <4>5. g[s] = t[pick[s]] + g[s \ {pick[s]}] /\ g[s \ {pick[s]}] \in Nat
        BY <1>7, <1>8, <3>1, <4>1, <4>2
      <4> HIDE DEF f
      <4>6. f[s] = f[s \ {pick[s]}] + Tokens(ranked[pick[s]])
        BY <4>3, <4>4, <4>5
      <4>7. QED
        BY <4>1, <4>6
    <3>2. f[{}] = 0
      BY <1>7
    <3>3. f = [s \in SUBSET s0 |-> f[s]]
      OBVIOUS
    <3> HIDE DEF f
    <3>4. Chosen(f, s0)
      BY <3>1, <3>2, <3>3
    <3>5. QED
      BY <3>4
  <2> DEFINE h == CHOOSE f : Chosen(f, s0)
  <2>3. Chosen(h, s0)
    BY <2>2
  <2>4. SizeAt(ranked, s0) = h[s0]
    BY DEF SizeAt, FoldSet, MapThenFoldSet
  <2> HIDE DEF h
  <2>5. h[{}] = g[{}]
    BY <1>7, <2>3
  <2>6. ASSUME NEW s \in SUBSET s0, s # {}, h[s \ {pick[s]}] = g[s \ {pick[s]}]
        PROVE  h[s] = g[s]
    <3>1. s \in SUBSET All /\ pick[s] = (CHOOSE e \in s : TRUE) /\ pick[s] \in All
      BY <1>4, <1>5, <2>6 DEF PicksMember
    <3>2. h[s] = h[s \ {pick[s]}] + Tokens(ranked[pick[s]])
      BY <2>3, <2>6, <3>1
    <3>3. t[pick[s]] = Tokens(ranked[pick[s]]) /\ t[pick[s]] \in Nat
      BY <1>2, <3>1
    <3>4. g[s] = t[pick[s]] + g[s \ {pick[s]}] /\ g[s \ {pick[s]}] \in Nat
      BY <1>7, <1>8, <2>6, <3>1
    <3>5. QED
      BY <2>6, <3>2, <3>3, <3>4
  <2>7. IsFiniteSet(s0) /\ PicksMember(pick, s0)
    BY <1>1, <1>5, FS_Subset DEF PicksMember
  <2>8. QED
    BY <2>4, <2>5, <2>6, <2>7, FoldIsUnique
<1>10. S \in SUBSET All
  BY DEF All, N
<1>11. \A a \in S : g[S] = t[a] + g[S \ {a}]
  <2>1. AddsUp(g, All, t, pick)
    BY <1>7, <1>8 DEF AddsUp
  <2>2. AddsEach(g, All, t)
    BY <1>1, <1>2, <1>5, <2>1, SumAddsEach
  <2>3. QED
    BY <1>10, <2>2 DEF AddsEach
<1>12. ASSUME NEW a \in S
       PROVE  SizeAt(ranked, S) = Tokens(ranked[a]) + SizeAt(ranked, S \ {a})
  <2>1. a \in All /\ S \ {a} \in SUBSET All
    BY <1>10
  <2>2. QED
    BY <1>2, <1>9, <1>10, <1>11, <2>1
<1>13. SizeAt(ranked, S) \in Nat /\ SizeAt(ranked, {}) = 0
  BY <1>7, <1>9, <1>10
<1>14. QED
  BY <1>12, <1>13

\* What the compiler makes.
Package == [items : Seq(Row), excluded : SUBSET Ids, excerpts : Seq(Ids),
            used : Nat, truncated : BOOLEAN]

\* The places taken so far, before the i-th.
Before(taken, i) == {j \in taken : j < i}

\* The package p is the greedy selection from the first n of ranked.
IsSelection(q, ranked, shut, n, taken, p) ==
    /\ taken \in SUBSET (1 .. n)
    /\ ToSet(p.items) = {ranked[i] : i \in taken}
    /\ Len(p.items) = Cardinality(taken)
    /\ p.used = SizeAt(ranked, taken) /\ p.used <= q.budget
    /\ p.excluded = shut \cup {ranked[i].id : i \in (1 .. n) \ taken}
    /\ p.excerpts = <<>>
    /\ \A i \in 1 .. n : i \in taken <=> Fits(q, ranked, i, Before(taken, i))

\* A memory that fits is taken.
LEMMA AdmitTakes ==
  ASSUME NEW q, q.topK \in Nat, q.budget \in Nat,
         NEW p \in Package, NEW r \in Row,
         Len(p.items) < q.topK, p.used + Tokens(r) <= q.budget
  PROVE  /\ Admit(q, p, r) \in Package
         /\ Admit(q, p, r).items = Append(p.items, r)
         /\ Admit(q, p, r).used = p.used + Tokens(r)
         /\ Admit(q, p, r).excluded = p.excluded
         /\ Admit(q, p, r).excerpts = p.excerpts
<1> DEFINE more == [p EXCEPT !.items = Append(@, r), !.used = @ + Tokens(r)]
<1>1. /\ p.items \in Seq(Row) /\ p.excluded \in SUBSET Ids /\ p.used \in Nat
      /\ Tokens(r) \in Nat /\ Len(p.items) \in Nat
  BY TokensAreCounted, LenProperties DEF Package
<1>2. Append(p.items, r) \in Seq(Row) /\ p.used + Tokens(r) \in Nat
  BY <1>1, AppendProperties
<1>3. /\ more.items = Append(p.items, r)
      /\ more.used = p.used + Tokens(r) /\ more.excluded = p.excluded
      /\ more.excerpts = p.excerpts
  BY DEF Package
<1>4. more \in Package
  BY <1>1, <1>2 DEF Package
<1>5. Admit(q, p, r) = more
  BY <1>1 DEF Admit
<1> HIDE DEF more
<1>6. QED
  BY <1>3, <1>4, <1>5

\* A memory that does not fit is named as excluded.
LEMMA AdmitExcludes ==
  ASSUME NEW q, q.topK \in Nat, q.budget \in Nat,
         NEW p \in Package, NEW r \in Row,
         ~ (Len(p.items) < q.topK /\ p.used + Tokens(r) <= q.budget)
  PROVE  /\ Admit(q, p, r) \in Package
         /\ Admit(q, p, r).items = p.items
         /\ Admit(q, p, r).used = p.used
         /\ Admit(q, p, r).excluded = p.excluded \cup {r.id}
         /\ Admit(q, p, r).excerpts = p.excerpts
<1> DEFINE less == [p EXCEPT !.excluded = @ \cup {r.id}, !.truncated = TRUE]
<1>1. /\ p.items \in Seq(Row) /\ p.excluded \in SUBSET Ids /\ p.used \in Nat
      /\ Tokens(r) \in Nat /\ Len(p.items) \in Nat /\ r.id \in Ids
  BY TokensAreCounted, LenProperties DEF Package, Row
<1>2. /\ less.items = p.items
      /\ less.used = p.used /\ less.excluded = p.excluded \cup {r.id}
      /\ less.excerpts = p.excerpts
  BY DEF Package
<1>3. less \in Package
  BY <1>1 DEF Package
<1>4. Admit(q, p, r) = less
  BY <1>1 DEF Admit
<1> HIDE DEF less
<1>5. QED
  BY <1>2, <1>3, <1>4

\* One memory more is considered: the selection stays greedy.
LEMMA AdmitStaysGreedy ==
  ASSUME NEW q, q.topK \in Nat, q.budget \in Nat,
         NEW ranked \in Seq(Row), NEW shut \in SUBSET Ids,
         NEW n \in Nat, n + 1 \in 1 .. Len(ranked), NEW taken, NEW p \in Package,
         IsSelection(q, ranked, shut, n, taken, p)
  PROVE  \E t : IsSelection(q, ranked, shut, n + 1, t,
                            Admit(q, p, ranked[n + 1]))
<1> DEFINE r == ranked[n + 1]
           a == Admit(q, p, r)
           with == taken \cup {n + 1}
<1>1. /\ taken \in SUBSET (1 .. n) /\ taken \in SUBSET (1 .. Len(ranked))
      /\ n + 1 \notin taken /\ Len(ranked) \in Nat
  BY LenProperties DEF IsSelection
<1>2. IsFiniteSet(taken) /\ Cardinality(taken) \in Nat
  <2>1. IsFiniteSet(1 .. n)
    BY FS_Interval
  <2>2. QED
    BY <1>1, <2>1, FS_Subset, FS_CardinalityType
<1>3. r \in Row /\ Tokens(r) \in Nat
  BY ElementOfSeq, TokensAreCounted
<1>4. SizeAt(ranked, taken) \in Nat
  BY <1>1, SizeAtAdds
<1>5. /\ \A i \in 1 .. n : Before(with, i) = Before(taken, i)
      /\ Before(taken, n + 1) = taken
      /\ Before(with, n + 1) = taken
  <2>1. \A j \in taken : j \in Nat /\ j < n + 1
    BY <1>1
  <2>2. \A i \in 1 .. n : Before(with, i) = Before(taken, i)
    BY DEF Before
  <2>3. Before(taken, n + 1) = taken
    BY <2>1 DEF Before
  <2>4. Before(with, n + 1) = taken
    BY <2>1 DEF Before
  <2>5. QED
    BY <2>2, <2>3, <2>4
<1>6. (1 .. n + 1) = (1 .. n) \cup {n + 1}
  OBVIOUS
<1>7. /\ ToSet(p.items) = {ranked[i] : i \in taken}
      /\ Len(p.items) = Cardinality(taken)
      /\ p.used = SizeAt(ranked, taken) /\ p.used <= q.budget
      /\ p.excluded = shut \cup {ranked[i].id : i \in (1 .. n) \ taken}
      /\ p.excerpts = <<>>
      /\ p.items \in Seq(Row)
  BY DEF IsSelection, Package
<1>8. \A i \in 1 .. n : i \in taken <=> Fits(q, ranked, i, Before(taken, i))
  BY DEF IsSelection
<1>9. Fits(q, ranked, n + 1, taken)
         <=> (Len(p.items) < q.topK /\ p.used + Tokens(r) <= q.budget)
  BY <1>7 DEF Fits
<1> HIDE DEF r
<1>10. CASE Fits(q, ranked, n + 1, taken)
  <2>1. /\ a.items = Append(p.items, r) /\ a.used = p.used + Tokens(r)
        /\ a.excluded = p.excluded /\ a.excerpts = p.excerpts
    BY <1>3, <1>9, <1>10, AdmitTakes
  <2> HIDE DEF a
  <2>2. with \in SUBSET (1 .. n + 1)
    BY <1>1, <1>6
  <2>3. ToSet(a.items) = {ranked[i] : i \in with}
    <3>1. ToSet(Append(p.items, r)) = ToSet(p.items) \cup {r}
      <4> DEFINE s == p.items
                 more == Append(s, r)
      <4>1. /\ s \in Seq(Row) /\ Len(s) \in Nat /\ DOMAIN s = 1 .. Len(s)
        BY <1>7, LenProperties
      <4>2. /\ more \in Seq(Row) /\ Len(more) = Len(s) + 1
            /\ \A i \in 1 .. Len(s) : more[i] = s[i]
            /\ more[Len(s) + 1] = r
        BY <1>3, <4>1, AppendProperties
      <4> HIDE DEF s, more
      <4>3. DOMAIN more = 1 .. Len(s) + 1
        BY <4>2, LenProperties
      <4>4. ToSet(more) = ToSet(s) \cup {r}
        BY <4>1, <4>2, <4>3 DEF ToSet
      <4>5. QED
        BY <4>4 DEF s, more
    <3>2. {ranked[i] : i \in with} = {ranked[i] : i \in taken} \cup {r}
      BY DEF r
    <3>3. QED
      BY <1>7, <2>1, <3>1, <3>2
  <2>4. Len(a.items) = Cardinality(with)
    <3>1. Len(Append(p.items, r)) = Len(p.items) + 1
      BY <1>3, <1>7, AppendProperties
    <3>2. Cardinality(with) = Cardinality(taken) + 1
      BY <1>1, <1>2, FS_AddElement
    <3>3. QED
      BY <1>7, <2>1, <3>1, <3>2
  <2>5. a.used = SizeAt(ranked, with) /\ a.used <= q.budget
    <3>1. with \in SUBSET (1 .. Len(ranked)) /\ n + 1 \in with /\ with \ {n + 1} = taken
      BY <1>1
    <3>2. SizeAt(ranked, with) = Tokens(r) + SizeAt(ranked, taken)
      BY <3>1, SizeAtAdds DEF r
    <3>3. p.used + Tokens(r) <= q.budget
      BY <1>9, <1>10
    <3>4. QED
      BY <1>3, <1>4, <1>7, <2>1, <3>2, <3>3
  <2>6. a.excluded = shut \cup {ranked[i].id : i \in (1 .. n + 1) \ with}
    <3>1. (1 .. n + 1) \ with = (1 .. n) \ taken
      BY <1>1, <1>6
    <3>2. QED
      BY <1>7, <2>1, <3>1
  <2>7. \A i \in 1 .. n + 1 : i \in with <=> Fits(q, ranked, i, Before(with, i))
    <3>1. ASSUME NEW i \in 1 .. n
          PROVE  i \in with <=> Fits(q, ranked, i, Before(with, i))
      <4>1. i # n + 1
        OBVIOUS
      <4>2. (i \in with) = (i \in taken)
        BY <4>1
      <4>3. QED
        BY <1>5, <1>8, <4>2
    <3>2. n + 1 \in with <=> Fits(q, ranked, n + 1, Before(with, n + 1))
      BY <1>5, <1>10
    <3>3. QED
      BY <1>6, <3>1, <3>2
  <2>8. IsSelection(q, ranked, shut, n + 1, with, a)
    BY <1>7, <2>1, <2>2, <2>3, <2>4, <2>5, <2>6, <2>7 DEF IsSelection
  <2>9. QED
    BY <2>8 DEF a, r
<1>11. CASE ~ Fits(q, ranked, n + 1, taken)
  <2>1. /\ a.items = p.items /\ a.used = p.used
        /\ a.excluded = p.excluded \cup {r.id} /\ a.excerpts = p.excerpts
    <3>1. ~ (Len(p.items) < q.topK /\ p.used + Tokens(r) <= q.budget)
      BY <1>9, <1>11
    <3>2. QED
      BY <1>3, <3>1, AdmitExcludes
  <2> HIDE DEF a
  <2>2. a.excluded = shut \cup {ranked[i].id : i \in (1 .. n + 1) \ taken}
    <3>1. (1 .. n + 1) \ taken = ((1 .. n) \ taken) \cup {n + 1}
      BY <1>1, <1>6
    <3>2. {ranked[i].id : i \in (1 .. n + 1) \ taken}
             = {ranked[i].id : i \in (1 .. n) \ taken} \cup {r.id}
      BY <3>1 DEF r
    <3>3. QED
      BY <1>7, <2>1, <3>2
  <2>3. \A i \in 1 .. n + 1 : i \in taken <=> Fits(q, ranked, i, Before(taken, i))
    <3>1. n + 1 \in taken <=> Fits(q, ranked, n + 1, Before(taken, n + 1))
      BY <1>1, <1>5, <1>11 DEF Fits
    <3>2. QED
      BY <1>6, <1>8, <3>1
  <2>4. taken \in SUBSET (1 .. n + 1)
    BY <1>1, <1>6
  <2>5. IsSelection(q, ranked, shut, n + 1, taken, a)
    BY <1>7, <2>1, <2>2, <2>3, <2>4 DEF IsSelection
  <2>6. QED
    BY <2>5 DEF a, r
<1>12. QED
  BY <1>10, <1>11

\* Select is the greedy selection.
LEMMA SelectIsGreedy ==
  ASSUME NEW q, q.topK \in Nat, q.budget \in Nat,
         NEW ranked \in Seq(Row), NEW shut \in SUBSET Ids
  PROVE  LET p == Select(q, ranked, shut)
         IN  /\ p \in Package
             /\ \E taken : IsSelection(q, ranked, shut, Len(ranked), taken, p)
<1> DEFINE N == Len(ranked)
           base == [Nothing EXCEPT !.excluded = shut]
           step == [p \in Package \X (1 .. N) |-> Admit(q, p[1], ranked[p[2]])]
<1>1. N \in Nat /\ DOMAIN ranked = 1 .. N /\ \A i \in 1 .. N : ranked[i] \in Row
  BY LenProperties, ElementOfSeq
<1>2. /\ base \in Package
      /\ base.items = <<>> /\ base.used = 0 /\ base.excluded = shut
      /\ base.excerpts = <<>>
  <2>1. <<>> \in Seq(Row) /\ <<>> \in Seq(Ids)
    BY EmptySeq
  <2>2. QED
    BY <2>1 DEF Package, Nothing
<1>3. \A p \in Package, i \in 1 .. N : Admit(q, p, ranked[i]) \in Package
  BY <1>1, AdmitTakes, AdmitExcludes
<1>4. step \in [Package \X (1 .. N) -> Package]
  BY <1>3
<1> HIDE DEF N, base
<1> DEFINE Chosen(f) ==
             f = [s \in SUBSET (1 .. N) |->
                    IF s = {} THEN base
                    ELSE Admit(q, f[s \ {Max(s)}], ranked[Max(s)])]
<1>5. \E f : Chosen(f)
  <2> HIDE DEF step
  <2>1. PICK g : IsFold(g, 1 .. N, Package, base, step, Greatest(N))
    BY <1>1, <1>2, <1>4, FoldLeftExists
  <2>2. \A s \in SUBSET (1 .. N) : s # {} => Max(s) \in 1 .. N
    BY <1>1, MaxIsMember
  <2>3. \A s \in SUBSET (1 .. N) :
           g[s] = IF s = {} THEN base
                  ELSE Admit(q, g[s \ {Max(s)}], ranked[Max(s)])
    BY <2>1, <2>2 DEF step, IsFold, Greatest
  <2>4. g = [s \in SUBSET (1 .. N) |-> g[s]]
    BY <2>1 DEF IsFold
  <2>5. Chosen(g)
    BY <2>3, <2>4
  <2>6. QED
    BY <2>5
<1> DEFINE iter == CHOOSE f : Chosen(f)
<1>6. Chosen(iter)
  BY <1>5
<1>7. Select(q, ranked, shut) = iter[1 .. N]
  BY <1>1 DEF Select, FoldLeft, MapThenFoldSet, base
<1> HIDE DEF iter
<1>8. iter[{}] = base
  BY <1>6
<1>9. \A s \in SUBSET (1 .. N) : s # {} /\ iter[s \ {Max(s)}] \in Package =>
         iter[s] = step[<<iter[s \ {Max(s)}], Max(s)>>]
  <2>1. SUFFICES ASSUME NEW s \in SUBSET (1 .. N), s # {},
                        iter[s \ {Max(s)}] \in Package
                 PROVE  iter[s] = step[<<iter[s \ {Max(s)}], Max(s)>>]
    OBVIOUS
  <2>2. Max(s) \in 1 .. N
    BY <1>1, <2>1, MaxIsMember
  <2>3. iter[s] = Admit(q, iter[s \ {Max(s)}], ranked[Max(s)])
    BY <1>6, <2>1
  <2>4. QED
    BY <2>1, <2>2, <2>3
<1> HIDE DEF step
<1>10. PICK f : IsSteps(f, N, Package, base, step, iter[1 .. N])
  BY <1>1, <1>2, <1>4, <1>8, <1>9, FoldSteps
<1>11. /\ f \in [0 .. N -> Package] /\ f[0] = base
       /\ f[N] = Select(q, ranked, shut)
  BY <1>7, <1>10 DEF IsSteps
<1> DEFINE S == {n \in 0 .. N : \E t : IsSelection(q, ranked, shut, n, t, f[n])}
<1>12. 0 \in S
  <2>1. IsSelection(q, ranked, shut, 0, {}, base)
    <3>1. 1 .. 0 = {} /\ ToSet(<<>>) = {} /\ Len(<<>>) = 0
      BY DEF ToSet
    <3>2. Cardinality({}) = 0 /\ SizeAt(ranked, {}) = 0
      BY FS_EmptySet, SizeAtAdds
    <3>3. QED
      BY <1>2, <3>1, <3>2 DEF IsSelection
  <2>2. 0 \in 0 .. N
    BY <1>1
  <2>3. QED
    BY <1>11, <2>1, <2>2
<1>13. ASSUME NEW n \in 0 .. N, n \in S, n # N
       PROVE  n + 1 \in S
  <2>1. n + 1 \in 1 .. N /\ n + 1 \in 0 .. N /\ (n + 1) - 1 = n /\ n \in Nat
    BY <1>1, <1>13
  <2>2. f[n] \in Package /\ f[n + 1] = step[<<f[n], n + 1>>]
    BY <1>10, <2>1 DEF IsSteps
  <2>3. f[n + 1] = Admit(q, f[n], ranked[n + 1])
    BY <2>1, <2>2 DEF step
  <2>4. PICK t : IsSelection(q, ranked, shut, n, t, f[n])
    BY <1>13
  <2>5. n + 1 \in 1 .. Len(ranked)
    BY <2>1 DEF N
  <2>6. \E u : IsSelection(q, ranked, shut, n + 1, u, f[n + 1])
    BY <2>1, <2>2, <2>3, <2>4, <2>5, AdmitStaysGreedy
  <2>7. QED
    BY <2>1, <2>6
<1> HIDE DEF S
<1>14. 0 .. N \subseteq S
  BY <1>1, <1>12, <1>13, IntervalInduction
<1>15. N \in S
  BY <1>1, <1>14
<1>16. \E t : IsSelection(q, ranked, shut, N, t, f[N])
  BY <1>15 DEF S
<1>17. f[N] \in Package
  BY <1>1, <1>11
<1>18. QED
  BY <1>11, <1>16, <1>17 DEF N

\* The ids of memories are ordered: InOrder lists any of them.
LEMMA IdsInOrder ==
  ASSUME NEW S \in SUBSET Ids
  PROVE  /\ InOrder(S, ByOrder(S)) \in Seq(S)
         /\ ToSet(InOrder(S, ByOrder(S))) = S
<1> DEFINE R == ByOrder(S)
           f == InOrder(S, R)
<1>1. IsFiniteSet(S) /\ Cardinality(S) \in Nat
  BY ConstantsAssumption, FS_Subset, FS_CardinalityType
<1>2. \A a, b \in S : <<a, b>> \in R <=> Facts[a].order < Facts[b].order
  BY DEF ByOrder
<1>3. \A a \in S : Facts[a].order \in Nat
  BY ConstantsAssumption
<1>4. \A a, b \in S : a # b => Facts[a].order # Facts[b].order
  BY ConstantsAssumption
<1> HIDE DEF R
<1>5. \A a \in S : <<a, a>> \notin R
  BY <1>2, <1>3
<1>6. \A a, b \in S : a # b => \/ <<a, b>> \in R
                               \/ <<b, a>> \in R
  BY <1>2, <1>3, <1>4
<1>7. \A a, b, d \in S : <<a, b>> \in R /\ <<b, d>> \in R => <<a, d>> \in R
  BY <1>2, <1>3
<1>8. /\ f \in [1 .. Cardinality(S) -> S]
      /\ \A e \in S : \E i \in 1 .. Cardinality(S) : f[i] = e
  BY <1>1, <1>5, <1>6, <1>7, InOrderSorts
<1> HIDE DEF f
<1>9. f \in Seq(S) /\ DOMAIN f = 1 .. Cardinality(S)
  BY <1>1, <1>8
<1>10. ToSet(f) = S
  BY <1>8, <1>9 DEF ToSet
<1>11. QED
  BY <1>9, <1>10 DEF f, R

\* The excerpts of a package come from the memories it shows.
LEMMA EvidenceIsOfItems ==
  ASSUME NEW items \in Seq(Row)
  PROVE  EvidenceIds(items) \in Seq(UNION {r.evidence : r \in ToSet(items)})
<1> DEFINE N == Len(items)
           U == UNION {r.evidence : r \in ToSet(items)}
           V == Seq(U)
           rest(ids, r) == r.evidence \ ToSet(ids)
           listed(ids, r) == ids \o InOrder(rest(ids, r), ByOrder(rest(ids, r)))
           step == [p \in V \X (1 .. N) |-> listed(p[1], items[p[2]])]
<1>1. /\ N \in Nat /\ DOMAIN items = 1 .. N
      /\ \A i \in 1 .. N : items[i] \in Row /\ items[i] \in ToSet(items)
  BY LenProperties, ElementOfSeq DEF ToSet
<1>2. <<>> \in V
  BY EmptySeq
<1>3. \A ids \in V, i \in 1 .. N : listed(ids, items[i]) \in V
  <2>1. SUFFICES ASSUME NEW ids \in V, NEW i \in 1 .. N
                 PROVE  listed(ids, items[i]) \in V
    OBVIOUS
  <2> DEFINE S == rest(ids, items[i])
             more == InOrder(S, ByOrder(S))
  <2>2. S \in SUBSET Ids /\ S \in SUBSET U
    BY <1>1 DEF Row
  <2> HIDE DEF S, U
  <2>3. more \in Seq(S)
    BY <2>2, IdsInOrder
  <2> HIDE DEF more
  <2>4. more \in V
    BY <2>2, <2>3, SeqMonotonic
  <2>5. ids \o more \in V
    BY <2>4, ConcatProperties
  <2>6. QED
    BY <2>5 DEF S, more
<1>4. step \in [V \X (1 .. N) -> V]
  <2> HIDE DEF listed, V, N
  <2>1. QED
    BY <1>3
<1> HIDE DEF N, V
<1> DEFINE Chosen(f) ==
             f = [s \in SUBSET (1 .. N) |->
                    IF s = {} THEN <<>>
                    ELSE listed(f[s \ {Max(s)}], items[Max(s)])]
<1>5. \E f : Chosen(f)
  <2> HIDE DEF step
  <2>1. PICK g : IsFold(g, 1 .. N, V, <<>>, step, Greatest(N))
    BY <1>1, <1>2, <1>4, FoldLeftExists
  <2>2. \A s \in SUBSET (1 .. N) : s # {} => Max(s) \in 1 .. N
    BY <1>1, MaxIsMember
  <2>3. \A s \in SUBSET (1 .. N) :
           g[s] = IF s = {} THEN <<>>
                  ELSE listed(g[s \ {Max(s)}], items[Max(s)])
    <3>1. SUFFICES ASSUME NEW s \in SUBSET (1 .. N), s # {}
                   PROVE  g[s] = listed(g[s \ {Max(s)}], items[Max(s)])
      BY <2>1 DEF IsFold
    <3>2. g[s] = step[<<g[s \ {Max(s)}], Max(s)>>]
      BY <2>1, <3>1 DEF IsFold, Greatest
    <3>3. g[s \ {Max(s)}] \in V /\ Max(s) \in 1 .. N
      BY <2>1, <2>2, <3>1 DEF IsFold
    <3> HIDE DEF listed
    <3>4. QED
      BY <3>2, <3>3 DEF step
  <2>4. g = [s \in SUBSET (1 .. N) |-> g[s]]
    BY <2>1 DEF IsFold
  <2> HIDE DEF listed
  <2>5. Chosen(g)
    BY <2>3, <2>4
  <2>6. QED
    BY <2>5
<1> DEFINE iter == CHOOSE f : Chosen(f)
<1>6. Chosen(iter)
  BY <1>5
<1>7. EvidenceIds(items) = iter[1 .. N]
  BY <1>1 DEF EvidenceIds, FoldLeft, MapThenFoldSet
<1> HIDE DEF iter
<1>8. iter[{}] = <<>>
  BY <1>6
<1>9. \A s \in SUBSET (1 .. N) : s # {} /\ iter[s \ {Max(s)}] \in V =>
         iter[s] = step[<<iter[s \ {Max(s)}], Max(s)>>]
  <2>1. SUFFICES ASSUME NEW s \in SUBSET (1 .. N), s # {},
                        iter[s \ {Max(s)}] \in V
                 PROVE  iter[s] = step[<<iter[s \ {Max(s)}], Max(s)>>]
    OBVIOUS
  <2>2. Max(s) \in 1 .. N
    BY <1>1, <2>1, MaxIsMember
  <2> HIDE DEF listed
  <2>3. iter[s] = listed(iter[s \ {Max(s)}], items[Max(s)])
    BY <1>6, <2>1
  <2>4. QED
    BY <2>1, <2>2, <2>3
<1> HIDE DEF step
<1>10. PICK f : IsSteps(f, N, V, <<>>, step, iter[1 .. N])
  BY <1>1, <1>2, <1>4, <1>8, <1>9, FoldSteps
<1>11. iter[1 .. N] \in V
  BY <1>1, <1>10 DEF IsSteps
<1>12. QED
  BY <1>7, <1>11 DEF V

\* The tokens of excerpts are a sum.
LEMMA SizeOfIsSum ==
  ASSUME NEW ids \in Seq(Ids)
  PROVE  /\ SizeOf(ids) \in Nat
         /\ ids = <<>> => SizeOf(ids) = 0
<1> DEFINE N == Len(ids)
           step == [p \in Nat \X (1 .. N) |-> p[1] + ExcerptSize[ids[p[2]]]]
<1>1. /\ N \in Nat /\ DOMAIN ids = 1 .. N
      /\ \A i \in 1 .. N : ExcerptSize[ids[i]] \in Nat
  BY LenProperties, ElementOfSeq, ConstantsAssumption
<1>2. step \in [Nat \X (1 .. N) -> Nat]
  BY <1>1
<1>3. ids = <<>> => N = 0
  BY EmptySeq
<1> HIDE DEF N
<1> DEFINE Chosen(f) ==
             f = [s \in SUBSET (1 .. N) |->
                    IF s = {} THEN 0
                    ELSE f[s \ {Max(s)}] + ExcerptSize[ids[Max(s)]]]
<1>4. \E f : Chosen(f)
  <2> HIDE DEF step
  <2>1. PICK g : IsFold(g, 1 .. N, Nat, 0, step, Greatest(N))
    BY <1>1, <1>2, FoldLeftExists
  <2>2. \A s \in SUBSET (1 .. N) : s # {} => Max(s) \in 1 .. N
    BY <1>1, MaxIsMember
  <2>3. \A s \in SUBSET (1 .. N) :
           g[s] = IF s = {} THEN 0
                  ELSE g[s \ {Max(s)}] + ExcerptSize[ids[Max(s)]]
    BY <2>1, <2>2 DEF step, IsFold, Greatest
  <2>4. g = [s \in SUBSET (1 .. N) |-> g[s]]
    BY <2>1 DEF IsFold
  <2>5. Chosen(g)
    BY <2>3, <2>4
  <2>6. QED
    BY <2>5
<1> DEFINE iter == CHOOSE f : Chosen(f)
<1>5. Chosen(iter)
  BY <1>4
<1>6. SizeOf(ids) = iter[1 .. N]
  BY <1>1 DEF SizeOf, FoldLeft, MapThenFoldSet
<1> HIDE DEF iter
<1>7. iter[{}] = 0
  BY <1>5
<1>8. \A s \in SUBSET (1 .. N) : s # {} /\ iter[s \ {Max(s)}] \in Nat =>
         iter[s] = step[<<iter[s \ {Max(s)}], Max(s)>>]
  <2>1. SUFFICES ASSUME NEW s \in SUBSET (1 .. N), s # {},
                        iter[s \ {Max(s)}] \in Nat
                 PROVE  iter[s] = step[<<iter[s \ {Max(s)}], Max(s)>>]
    OBVIOUS
  <2>2. Max(s) \in 1 .. N
    BY <1>1, <2>1, MaxIsMember
  <2>3. iter[s] = iter[s \ {Max(s)}] + ExcerptSize[ids[Max(s)]]
    BY <1>5, <2>1
  <2>4. QED
    BY <2>1, <2>2, <2>3
<1> HIDE DEF step
<1>9. PICK f : IsSteps(f, N, Nat, 0, step, iter[1 .. N])
  <2> DEFINE V == Nat
  <2>1. 0 \in V /\ step \in [V \X (1 .. N) -> V]
    BY <1>2
  <2>2. \A s \in SUBSET (1 .. N) : s # {} /\ iter[s \ {Max(s)}] \in V =>
           iter[s] = step[<<iter[s \ {Max(s)}], Max(s)>>]
    BY <1>8
  <2> HIDE DEF V
  <2>3. \E f : IsSteps(f, N, V, 0, step, iter[1 .. N])
    BY <1>1, <1>7, <2>1, <2>2, FoldSteps
  <2>4. QED
    BY <2>3 DEF V
<1>10. iter[1 .. N] \in Nat
  BY <1>1, <1>9 DEF IsSteps
<1>11. ids = <<>> => iter[1 .. N] = 0
  BY <1>3, <1>9 DEF IsSteps
<1>12. QED
  BY <1>6, <1>10, <1>11

\* A set of numbers up to n that is not empty has a greatest member.
LEMMA GreatestExists ==
  ASSUME NEW n \in Nat, NEW s \in SUBSET (0 .. n), s # {}
  PROVE  \E k \in s : \A j \in s : j <= k
<1> DEFINE t == {k + 1 : k \in s}
<1>1. t \in SUBSET (1 .. n + 1) /\ t # {} /\ n + 1 \in Nat
  <2>1. \A k \in s : k + 1 \in 1 .. n + 1
    OBVIOUS
  <2>2. t \in SUBSET (1 .. n + 1)
    BY <2>1
  <2>3. PICK k : k \in s
    OBVIOUS
  <2>4. k + 1 \in t
    BY <2>3
  <2>5. QED
    BY <2>2, <2>4
<1>2. \A k \in t : k - 1 \in s /\ k \in Nat
  OBVIOUS
<1>3. \A j \in s : j + 1 \in t /\ j \in Nat
  OBVIOUS
<1> HIDE DEF t
<1>4. Max(t) \in t /\ \A j \in t : j <= Max(t)
  BY <1>1, MaxIsMember
<1>5. Max(t) - 1 \in s /\ \A j \in s : j <= Max(t) - 1
  BY <1>2, <1>3, <1>4
<1>6. QED
  BY <1>5

\* The excerpts a package gets stay within the budget and belong to what it
\* shows.
LEMMA WithEvidenceFits ==
  ASSUME NEW q, q.budget \in Nat, NEW p \in Package, p.excerpts = <<>>,
         p.used <= q.budget, NEW w, w = WithEvidence(q, p)
  PROVE  /\ w \in Package
         /\ w.items = p.items /\ w.excluded = p.excluded
         /\ w.used = p.used + SizeOf(w.excerpts) /\ w.used <= q.budget
         /\ ToSet(w.excerpts) \subseteq
               UNION {r.evidence : r \in ToSet(p.items)}
<1> DEFINE U == UNION {r.evidence : r \in ToSet(p.items)}
           all == EvidenceIds(p.items)
           sub(k) == SubSeq(all, 1, k)
           fits == {k \in 0 .. Len(all) : p.used + SizeOf(sub(k)) <= q.budget}
           n == CHOOSE k \in fits : \A j \in fits : j <= k
           more == [p EXCEPT !.excerpts = sub(n), !.used = @ + SizeOf(sub(n)),
                             !.truncated = @ \/ n < Len(all)]
<1>1. /\ p.items \in Seq(Row) /\ p.excluded \in SUBSET Ids /\ p.used \in Nat
      /\ p.truncated \in BOOLEAN
  BY DEF Package
<1>2. all \in Seq(U)
  BY <1>1, EvidenceIsOfItems
<1>3. U \subseteq Ids
  <2>1. \A r \in ToSet(p.items) : r \in Row
    BY <1>1, LenProperties, ElementOfSeq DEF ToSet
  <2>2. QED
    BY <2>1 DEF Row
<1>4. Len(all) \in Nat
  BY <1>2, LenProperties
<1> HIDE DEF all, U
<1>5. ASSUME NEW k \in 0 .. Len(all)
      PROVE  /\ sub(k) \in Seq(U) /\ sub(k) \in Seq(Ids)
             /\ SizeOf(sub(k)) \in Nat
             /\ k = 0 => sub(k) = <<>>
  <2>1. sub(k) \in Seq(U)
    BY <1>2, <1>4, SubSeqProperties
  <2>2. sub(k) \in Seq(Ids)
    BY <1>3, <2>1, SeqMonotonic
  <2>3. k = 0 => sub(k) = <<>>
    BY <1>2, <1>4, SubSeqEmpty
  <2>4. QED
    BY <2>1, <2>2, <2>3, SizeOfIsSum
<1>6. <<>> \in Seq(Ids) /\ SizeOf(<<>>) = 0 /\ ToSet(<<>>) = {}
  <2>1. <<>> \in Seq(Ids)
    BY EmptySeq
  <2>2. SizeOf(<<>>) = 0
    BY <2>1, SizeOfIsSum
  <2>3. ToSet(<<>>) = {}
    BY DEF ToSet
  <2>4. QED
    BY <2>1, <2>2, <2>3
<1>7. 0 \in fits
  <2>1. 0 \in 0 .. Len(all)
    BY <1>4
  <2>2. sub(0) = <<>>
    BY <1>5, <2>1
  <2>3. p.used + SizeOf(sub(0)) <= q.budget
    <3>1. SizeOf(sub(0)) = 0
      <4> HIDE DEF sub
      <4>1. QED
        BY <1>6, <2>2
    <3> HIDE DEF sub
    <3>2. QED
      BY <1>1, <3>1
  <2>4. QED
    BY <2>1, <2>3
<1>8. n \in fits
  <2>1. fits \in SUBSET (0 .. Len(all)) /\ fits # {}
    BY <1>7
  <2> HIDE DEF fits
  <2>2. \E k \in fits : \A j \in fits : j <= k
    BY <1>4, <2>1, GreatestExists
  <2>3. QED
    BY <2>2
<1> HIDE DEF n
<1>9. n \in 0 .. Len(all) /\ p.used + SizeOf(sub(n)) <= q.budget
  BY <1>8
<1> HIDE DEF fits
<1> DEFINE shown == sub(n)
<1>10. shown \in Seq(U) /\ shown \in Seq(Ids) /\ SizeOf(shown) \in Nat
  BY <1>5, <1>9
<1>11. ToSet(shown) \subseteq U
  BY <1>10, LenProperties, ElementOfSeq DEF ToSet
<1>12. p.used + SizeOf(shown) <= q.budget
  BY <1>9
<1> HIDE DEF shown, sub
<1>13. more = [p EXCEPT !.excerpts = shown, !.used = @ + SizeOf(shown),
                        !.truncated = @ \/ n < Len(all)]
  BY DEF shown
<1> HIDE DEF more
<1>14. /\ more.items = p.items /\ more.excluded = p.excluded
       /\ more.excerpts = shown /\ more.used = p.used + SizeOf(shown)
  BY <1>13 DEF Package
<1>15. more \in Package
  <2>1. p.used + SizeOf(shown) \in Nat
    BY <1>1, <1>10
  <2>2. (p.truncated \/ n < Len(all)) \in BOOLEAN
    OBVIOUS
  <2>3. QED
    BY <1>1, <1>10, <1>13, <2>1, <2>2 DEF Package
<1>16. CASE q.evidence \/ Route(q) = "deep"
  <2>1. WithEvidence(q, p) = more
    BY <1>16 DEF WithEvidence, more, n, fits, all, sub
  <2>2. QED
    BY <1>11, <1>12, <1>14, <1>15, <2>1 DEF U
<1>17. CASE ~ (q.evidence \/ Route(q) = "deep")
  <2>1. WithEvidence(q, p) = p
    BY <1>17 DEF WithEvidence
  <2>2. QED
    BY <1>1, <1>6, <2>1
<1>18. QED
  BY <1>16, <1>17

\* Allowed(x), of the rows alone.
AllowedRows(rows) == {r \in ToSet(rows) : r.allowed}

\* Ranked(x), of the rows alone.
RankedRows(rows) ==
    InOrder(AllowedRows(rows),
            {p \in AllowedRows(rows) \X AllowedRows(rows) :
                Outranks(p[1], p[2])})

\* Ranking lists every row that may be shown, once.
LEMMA RankingListsAllowed ==
  ASSUME NEW rows \in Seq(Row), Distinct(rows)
  PROVE  /\ RankedRows(rows) \in Seq(Row)
         /\ ToSet(RankedRows(rows)) = AllowedRows(rows)
         /\ Distinct(RankedRows(rows))
<1> DEFINE A == AllowedRows(rows)
           R == {p \in A \X A : Outranks(p[1], p[2])}
           f == InOrder(A, R)
           at == [i \in DOMAIN rows |-> rows[i]]
<1>1. /\ Len(rows) \in Nat /\ DOMAIN rows = 1 .. Len(rows)
      /\ \A i \in DOMAIN rows : rows[i] \in Row
  BY LenProperties, ElementOfSeq
<1>2. IsFiniteSet(A)
  <2>1. IsFiniteSet(DOMAIN rows)
    BY <1>1, FS_Interval
  <2>2. at \in Surjection(DOMAIN rows, ToSet(rows))
    BY DEF Surjection, ToSet
  <2> HIDE DEF at
  <2>3. IsFiniteSet(ToSet(rows))
    BY <2>1, <2>2, FS_Surjection
  <2>4. QED
    BY <2>3, FS_Subset DEF AllowedRows
<1>3. \A r \in A : /\ r \in Row /\ r.score \in Int
                   /\ r.id \in Ids /\ Facts[r.id].order \in Nat
  BY <1>1, ConstantsAssumption DEF AllowedRows, ToSet, Row
<1>4. \A r, s \in A : r.id = s.id => r = s
  BY <1>1 DEF AllowedRows, ToSet, Distinct
<1>5. \A r, s \in A : r # s => Facts[r.id].order # Facts[s.id].order
  BY <1>3, <1>4, ConstantsAssumption
<1>6. \A r, s \in A : <<r, s>> \in R <=> Outranks(r, s)
  OBVIOUS
<1> HIDE DEF A, R
<1>7. \A r \in A : <<r, r>> \notin R
  BY <1>3, <1>6 DEF Outranks
<1>8. \A r, s \in A : r # s => \/ <<r, s>> \in R
                               \/ <<s, r>> \in R
  <2>1. SUFFICES ASSUME NEW r \in A, NEW s \in A, r # s
                 PROVE  Outranks(r, s) \/ Outranks(s, r)
    BY <1>6
  <2>2. Facts[r.id].order # Facts[s.id].order
    BY <1>5, <2>1
  <2>3. r.score \in Int /\ s.score \in Int /\ Facts[r.id].order \in Nat /\ Facts[s.id].order \in Nat
    BY <1>3
  <2>4. QED
    BY <2>2, <2>3 DEF Outranks
<1>9. \A r, s, t \in A : <<r, s>> \in R /\ <<s, t>> \in R => <<r, t>> \in R
  <2>1. SUFFICES ASSUME NEW r \in A, NEW s \in A, NEW t \in A,
                        Outranks(r, s), Outranks(s, t)
                 PROVE  Outranks(r, t)
    BY <1>6
  <2>2. /\ r.score \in Int /\ s.score \in Int /\ t.score \in Int
        /\ Facts[r.id].order \in Nat /\ Facts[s.id].order \in Nat
        /\ Facts[t.id].order \in Nat
    BY <1>3
  <2>3. QED
    BY <2>1, <2>2 DEF Outranks
<1>10. /\ f \in [1 .. Cardinality(A) -> A]
       /\ \A e \in A : \E i \in 1 .. Cardinality(A) : f[i] = e
       /\ \A i, j \in 1 .. Cardinality(A) : i < j => <<f[i], f[j]>> \in R
  BY <1>2, <1>7, <1>8, <1>9, InOrderSorts
<1>11. Cardinality(A) \in Nat
  BY <1>2, FS_CardinalityType
<1> HIDE DEF f
<1>12. f \in Seq(Row) /\ DOMAIN f = 1 .. Cardinality(A)
  <2>1. f \in Seq(A)
    BY <1>10, <1>11
  <2>2. A \subseteq Row
    BY <1>3
  <2>3. QED
    BY <1>10, <2>1, <2>2, SeqMonotonic
<1>13. ToSet(f) = A
  BY <1>10, <1>12 DEF ToSet
<1>14. Distinct(f)
  <2>1. SUFFICES ASSUME NEW i \in 1 .. Cardinality(A), NEW j \in 1 .. Cardinality(A),
                        f[i].id = f[j].id, i # j
                 PROVE  FALSE
    BY <1>12 DEF Distinct
  <2>2. f[i] = f[j] /\ f[i] \in A
    BY <1>4, <1>10, <2>1
  <2>3. i < j \/ j < i
    BY <1>11, <2>1
  <2>4. QED
    BY <1>7, <1>10, <2>2, <2>3
<1>15. QED
  BY <1>12, <1>13, <1>14 DEF RankedRows, f, A, R

-----------------------------------------------------------------------------
(* The inductive invariant.                                                *)

\* The phases before the first record is read, and those after the last.
Searching == {"idle", "searching", "filtering", "traversing"}
Recalling == {"recalling", "compiling", "using"}

\* A memory that was recalled once is not older than its record, and older
\* than a record that was replaced since.
IsCurrent(r) ==
    /\ r.version \in 1 .. version[r.id]
    /\ status[r.id] = "superseded" => r.version < version[r.id]

\* A memory is within what the caller may see and asks for.
Permitted(m, q) ==
    /\ Facts[m].valid
    /\ Facts[m].scope \in AllowedScopes(q)
    /\ q.types # {} => Facts[m].type \in q.types

\* CountedIds(x), of what a read has at hand.
CountedOf(phase, rows, p) ==
    {r.id : r \in {s \in ToSet(IF phase = "recalling" THEN rows
                               ELSE IF phase = "using" THEN p.items ELSE <<>>)
                     : s.version > 0}}

\* The memories a read counts now or has counted.
RecalledOf(phase, rows, p, answer) ==
    {r.id : r \in {s \in ToSet(rows) :
                       /\ phase \in {"compiling", "using"}
                       /\ s.version > 0}}
        \cup {r.id : r \in {s \in ToSet(p.items) : answer = "answered"}}

\* The memories an answer holds.
UsedOf(p, answer) ==
    {r.id : r \in {s \in ToSet(p.items) : answer = "answered"}}

\* The package p is the greedy selection from the rows and shows or names
\* what found.
IsCompiled(q, found, rows, p) ==
    LET ranked == RankedRows(rows)
        taken == {i \in DOMAIN ranked : ranked[i] \in ToSet(p.items)}
        shown == {r.id : r \in ToSet(p.items)}
    IN  /\ \A i \in DOMAIN ranked :
              i \in taken <=> Fits(q, ranked, i, Before(taken, i))
        /\ p.used = SizeAt(ranked, taken) + SizeOf(p.excerpts)
        /\ p.used <= q.budget
        /\ ToSet(p.excerpts) \subseteq UNION {r.evidence : r \in ToSet(p.items)}
        /\ ToSet(p.items) \subseteq AllowedRows(rows)
        /\ shown \cap p.excluded = {}
        /\ shown \cup p.excluded = IdsOf(found)

\* The memories: one that is absent has no version, and only one that was
\* replaced has a successor.
LedgerTypes ==
    /\ status \in [Ids -> {"absent", "active", "superseded"}]
    /\ version \in [Ids -> Nat]
    /\ successor \in [Ids -> Ids \cup {None}]
    /\ evidence \in [Ids -> SUBSET Ids]
    /\ \A m \in Ids : /\ status[m] = "absent" <=> version[m] = 0
                      /\ status[m] # "superseded" => successor[m] = None

\* There are finitely many index rows, of versions that exist.
IndexRows ==
    /\ IsFiniteSet(indexed)
    /\ \A row \in indexed : row[1] \in Ids /\ row[2] \in 1 .. version[row[1]]

\* The requests and the locals of the reads.
ReadTypes ==
    /\ request \in [Reads -> UNION {Requests[x] : x \in Reads}]
    /\ \A x \in Reads : request[x] \in Requests[x]
    /\ pc \in [Reads -> Phases]
    /\ hits \in [Reads -> Seq(Hit)]
    /\ seen \in [Reads -> Seq(Row)]
    /\ holds \in [Reads -> SUBSET Ids]
    /\ package \in [Reads -> Package]
    /\ result \in [Reads -> Results]

\* What a read has at hand in each of its phases.
PhaseOK(q, phase, found, rows, held, p, answer) ==
    /\ Distinct(found)
    /\ phase = "idle" => found = <<>>
    /\ phase \in Searching \cup {"done"} => rows = <<>>
    /\ phase = "reading" => Len(rows) < Len(found)
    /\ phase \in Recalling => Len(rows) = Len(found)
    /\ \A i \in 1 .. Len(rows) : i <= Len(found) /\ rows[i].id = found[i].id
    /\ phase \notin {"using", "done"} => p = Nothing
    /\ phase = "using" => IsCompiled(q, found, rows, p)
    /\ answer = "answered" => phase = "done"
    /\ held \subseteq CountedOf(phase, rows, p)

\* Searches find memories that exist; one that is addressed by its id is
\* alone when it does not.
HitsOK(phase, found) ==
    \/ \A m \in IdsOf(found) : version[m] > 0
    \/ Len(found) = 1 /\ phase \notin Searching

\* A record that was read may have changed since, but what replaced it is not
\* among the hits.
RowsOK(q, found, rows) ==
    \A r \in ToSet(rows) : r.allowed =>
        /\ IsCurrent(r)
        /\ Permitted(r.id, q)
        /\ successor[r.id] \notin IdsOf(found)

\* What is shown was current when it was read and stays apart from what
\* replaced it.
ItemsOK(q, p) ==
    \A r \in ToSet(p.items) :
        /\ IsCurrent(r)
        /\ Permitted(r.id, q)
        /\ \A s \in ToSet(p.items) : successor[r.id] # s.id

\* What a read has at hand fits together and to the memories as they are now.
ReadOK(q, phase, found, rows, held, p, answer) ==
    /\ PhaseOK(q, phase, found, rows, held, p, answer)
    /\ HitsOK(phase, found)
    /\ RowsOK(q, found, rows)
    /\ ItemsOK(q, p)

\* Every read has what it should have.
ReadsAreRight ==
    \A x \in Reads : ReadOK(request[x], pc[x], hits[x], seen[x], holds[x],
                            package[x], result[x])

\* The reads that have counted m as recalled for certain, those that have
\* counted it as used, and those that have counted what they recalled.
Recalled(m) ==
    {x \in Reads : m \in RecalledOf(pc[x], seen[x], package[x], result[x])}
Used(m) == {x \in Reads : m \in UsedOf(package[x], result[x])}
Past == {x \in Reads : pc[x] \in {"compiling", "using", "done"}}

\* The counters of a memory: uses are those of the answers, and recalls lie
\* between the reads that recalled it for certain and those that may have.
CountersAreRight ==
    /\ useCount \in [Ids -> Nat]
    /\ recallCount \in [Ids -> Nat]
    /\ \A m \in Ids : /\ useCount[m] = Cardinality(Used(m))
                      /\ Cardinality(Recalled(m)) <= recallCount[m]
                      /\ recallCount[m] <= Cardinality(Past)

\* The invariant without the counters.
ReadInvariant == LedgerTypes /\ IndexRows /\ ReadTypes /\ ReadsAreRight

\* The inductive invariant.
RecallInvariant == ReadInvariant /\ CountersAreRight

\* What the compiler makes of the rows of a read is the greedy selection from
\* them, and accounts for every row.
LEMMA CompiledIsSelection ==
  ASSUME NEW q, q.topK \in Nat, q.budget \in Nat,
         NEW rows \in Seq(Row), Distinct(rows),
         NEW found, IdsOf(found) = IdsOf(rows),
         NEW shut, shut = {r.id : r \in {s \in ToSet(rows) : ~s.allowed}},
         NEW p, p = WithEvidence(q, Select(q, RankedRows(rows), shut))
  PROVE  p \in Package /\ IsCompiled(q, found, rows, p)
<1> DEFINE ranked == RankedRows(rows)
           p0 == Select(q, ranked, shut)
           N == Len(ranked)
           A == AllowedRows(rows)
           shown == {r.id : r \in ToSet(p.items)}
<1>1. /\ ranked \in Seq(Row) /\ ToSet(ranked) = A /\ Distinct(ranked)
  BY RankingListsAllowed
<1>2. /\ N \in Nat /\ DOMAIN ranked = 1 .. N
      /\ \A i \in 1 .. N : ranked[i] \in Row
  BY <1>1, LenProperties, ElementOfSeq
<1>3. \A r \in ToSet(rows) : r \in Row /\ r.id \in Ids /\ r.allowed \in BOOLEAN
  <2>1. \A i \in DOMAIN rows : rows[i] \in Row
    BY LenProperties, ElementOfSeq
  <2>2. \A r \in ToSet(rows) : r \in Row
    BY <2>1 DEF ToSet
  <2>3. QED
    BY <2>2 DEF Row
<1>4. \A r, s \in ToSet(rows) : r.id = s.id => r = s
  BY DEF ToSet, Distinct
<1>5. shut \in SUBSET Ids
  BY <1>3
<1> HIDE DEF ranked
<1>6. PICK taken : p0 \in Package /\ IsSelection(q, ranked, shut, N, taken, p0)
  BY <1>1, <1>5, SelectIsGreedy
<1>7. /\ taken \in SUBSET (1 .. N)
      /\ ToSet(p0.items) = {ranked[i] : i \in taken}
      /\ p0.used = SizeAt(ranked, taken) /\ p0.used <= q.budget
      /\ p0.excluded = shut \cup {ranked[i].id : i \in (1 .. N) \ taken}
      /\ p0.excerpts = <<>>
      /\ \A i \in 1 .. N : i \in taken <=> Fits(q, ranked, i, Before(taken, i))
  BY <1>6 DEF IsSelection
<1>8. p = WithEvidence(q, p0)
  BY DEF ranked
<1> HIDE DEF p0
<1>9. /\ p \in Package
      /\ p.items = p0.items /\ p.excluded = p0.excluded
      /\ p.used = p0.used + SizeOf(p.excerpts) /\ p.used <= q.budget
      /\ ToSet(p.excerpts) \subseteq UNION {r.evidence : r \in ToSet(p0.items)}
  BY <1>6, <1>7, <1>8, WithEvidenceFits
<1>10. taken = {i \in 1 .. N : ranked[i] \in ToSet(p.items)}
  <2>1. \A i, j \in 1 .. N : ranked[i] = ranked[j] => i = j
    BY <1>1, <1>2 DEF Distinct
  <2>2. ToSet(p.items) = {ranked[i] : i \in taken}
    BY <1>7, <1>9
  <2>3. \A i \in 1 .. N : ranked[i] \in ToSet(p.items) <=> i \in taken
    BY <1>7, <2>1, <2>2
  <2>4. QED
    BY <1>7, <2>3
<1>11. \A i \in 1 .. N : ranked[i] \in A
  BY <1>1, <1>2 DEF ToSet
<1>12. ToSet(p.items) \subseteq A
  <2>1. \A i \in taken : ranked[i] \in A
    BY <1>7, <1>11
  <2>2. ToSet(p.items) = {ranked[i] : i \in taken}
    BY <1>7, <1>9
  <2> HIDE DEF A
  <2>3. QED
    BY <2>1, <2>2
<1>13. A \subseteq ToSet(rows) /\ \A r \in ToSet(rows) : r \in A <=> r.allowed
  BY DEF AllowedRows
<1>14. \A r \in A : \E i \in 1 .. N : r = ranked[i]
  BY <1>1, <1>2 DEF ToSet
<1> HIDE DEF A, N
<1>15. shown \cap p.excluded = {}
  <2>1. SUFFICES ASSUME NEW r \in ToSet(p.items), r.id \in p.excluded
                 PROVE  FALSE
    OBVIOUS
  <2>2. r \in A /\ r \in ToSet(rows) /\ r.allowed
    BY <1>12, <1>13
  <2>3. PICK j \in taken : r = ranked[j]
    BY <1>7, <1>9
  <2>4. CASE r.id \in shut
    <3>1. PICK s \in ToSet(rows) : ~s.allowed /\ s.id = r.id
      BY <2>4
    <3>2. QED
      BY <1>4, <2>2, <3>1
  <2>5. CASE r.id \in {ranked[i].id : i \in (1 .. N) \ taken}
    <3>1. PICK i \in (1 .. N) \ taken : ranked[i].id = r.id
      BY <2>5
    <3>2. i = j
      BY <1>1, <1>2, <1>7, <2>3, <3>1 DEF Distinct, N
    <3>3. QED
      BY <2>3, <3>1, <3>2
  <2>6. QED
    BY <1>7, <1>9, <2>1, <2>4, <2>5
<1>16. shown \cup p.excluded = IdsOf(rows)
  <2>1. IdsOf(rows) = {r.id : r \in ToSet(rows)}
    BY DEF IdsOf, ToSet
  <2>2. shown \subseteq IdsOf(rows)
    BY <1>12, <1>13, <2>1
  <2>3. shut \subseteq IdsOf(rows)
    BY <2>1
  <2>4. \A i \in 1 .. N : ranked[i].id \in IdsOf(rows)
    BY <1>11, <1>13, <2>1
  <2>5. p.excluded \subseteq IdsOf(rows)
    BY <1>7, <1>9, <2>3, <2>4
  <2>6. ASSUME NEW r \in ToSet(rows)
        PROVE  r.id \in shown \cup p.excluded
    <3>1. CASE ~r.allowed
      BY <1>7, <1>9, <3>1
    <3>2. CASE r.allowed
      <4>1. PICK i \in 1 .. N : r = ranked[i]
        BY <1>13, <1>14, <3>2
      <4>2. CASE i \in taken
        BY <1>7, <1>9, <4>1, <4>2
      <4>3. CASE i \notin taken
        BY <1>7, <1>9, <4>1, <4>3
      <4>4. QED
        BY <4>2, <4>3
    <3>3. QED
      BY <3>1, <3>2
  <2> HIDE DEF shown
  <2>7. QED
    BY <2>1, <2>2, <2>5, <2>6
<1>17. IsCompiled(q, found, rows, p)
  <2> DEFINE t == {i \in DOMAIN ranked : ranked[i] \in ToSet(p.items)}
  <2>1. t = taken
    BY <1>2, <1>10 DEF N
  <2>2. \A i \in DOMAIN ranked : i \in t <=> Fits(q, ranked, i, Before(t, i))
    <3> HIDE DEF t
    <3>1. QED
      BY <1>2, <1>7, <2>1 DEF N
  <2>3. p.used = SizeAt(ranked, t) + SizeOf(p.excerpts)
    <3> HIDE DEF t
    <3>1. QED
      BY <1>7, <1>9, <2>1
  <2>4. ToSet(p.excerpts) \subseteq UNION {r.evidence : r \in ToSet(p.items)}
    BY <1>9
  <2>5. ToSet(p.items) \subseteq AllowedRows(rows)
    BY <1>12 DEF A
  <2>6. shown \cup p.excluded = IdsOf(found)
    BY <1>16
  <2>7. QED
    BY <1>9, <1>15, <2>2, <2>3, <2>4, <2>5, <2>6 DEF IsCompiled, ranked
<1>18. QED
  BY <1>9, <1>17

-----------------------------------------------------------------------------
(* One read moves.                                                         *)

\* What is assumed of the request of a read.
LEMMA RequestFacts ==
  ASSUME ReadTypes, NEW x \in Reads
  PROVE  /\ request[x].topK \in Nat \ {0} /\ request[x].budget \in Nat
         /\ request[x].memory \in Ids \cup {None}
         /\ Mode(x) \in Modes
<1>1. request[x] \in Requests[x]
  BY DEF ReadTypes
<1>2. /\ request[x].topK \in Nat \ {0} /\ request[x].budget \in Nat
      /\ request[x].memory \in Ids \cup {None}
      /\ request[x].mode \in Modes \cup {"auto"}
  BY <1>1, ConstantsAssumption
<1>3. Mode(x) \in Modes
  BY <1>2 DEF Mode, Route, Modes
<1>4. QED
  BY <1>2, <1>3

\* A step of the read x alone: what it has at hand afterwards is right.
MovesTo(x, phase, found, rows, held, p, answer) ==
    /\ phase \in Phases /\ found \in Seq(Hit) /\ rows \in Seq(Row)
    /\ held \in SUBSET Ids /\ p \in Package /\ answer \in Results
    /\ pc' = [pc EXCEPT ![x] = phase]
    /\ hits' = [hits EXCEPT ![x] = found]
    /\ seen' = [seen EXCEPT ![x] = rows]
    /\ holds' = [holds EXCEPT ![x] = held]
    /\ package' = [package EXCEPT ![x] = p]
    /\ result' = [result EXCEPT ![x] = answer]
    /\ UNCHANGED <<memory, indexed, request>>
    /\ ReadOK(request[x], phase, found, rows, held, p, answer)

\* One read moves: it is enough that it is right where it arrives.
LEMMA OneReadMoves ==
  ASSUME ReadInvariant, NEW x \in Reads, NEW phase, NEW found, NEW rows,
         NEW held, NEW p, NEW answer,
         MovesTo(x, phase, found, rows, held, p, answer)
  PROVE  ReadInvariant'
<1> USE DEF ReadInvariant, MovesTo
<1>1. LedgerTypes'
  BY DEF LedgerTypes, memory
<1>2. IndexRows'
  BY DEF IndexRows, memory
<1>3. ReadTypes'
  BY DEF ReadTypes
<1>4. ASSUME NEW y \in Reads
      PROVE  ReadOK(request[y], pc[y], hits[y], seen[y], holds[y], package[y],
                    result[y])'
  <2>1. \A q, f, a, b, c, d, e :
           ReadOK(q, f, a, b, c, d, e) =>
              /\ PhaseOK(q, f, a, b, c, d, e)
              /\ HitsOK(f, a)' /\ RowsOK(q, a, b)' /\ ItemsOK(q, d)'
    BY DEF ReadOK, HitsOK, RowsOK, ItemsOK, IsCurrent, memory
  <2>2. CASE y = x
    <3>1. /\ request'[y] = request[x] /\ pc'[y] = phase /\ hits'[y] = found
          /\ seen'[y] = rows /\ holds'[y] = held /\ package'[y] = p
          /\ result'[y] = answer
      BY <2>2 DEF ReadTypes
    <3>2. QED
      BY <2>1, <3>1 DEF ReadOK
  <2>3. CASE y # x
    <3>1. /\ request'[y] = request[y] /\ pc'[y] = pc[y] /\ hits'[y] = hits[y]
          /\ seen'[y] = seen[y] /\ holds'[y] = holds[y]
          /\ package'[y] = package[y] /\ result'[y] = result[y]
      BY <2>3 DEF ReadTypes
    <3>2. ReadOK(request[y], pc[y], hits[y], seen[y], holds[y], package[y],
                 result[y])
      BY DEF ReadsAreRight
    <3>3. QED
      BY <2>1, <3>1, <3>2 DEF ReadOK
  <2>4. QED
    BY <2>2, <2>3
<1>5. ReadsAreRight'
  BY <1>3, <1>4 DEF ReadsAreRight
<1>6. QED
  BY <1>1, <1>2, <1>3, <1>5

\* The counters stay right when a read moves without counting: it recalled
\* nothing new, used what it used and does not go back.
LEMMA CountersStay ==
  ASSUME ReadTypes, ReadTypes', CountersAreRight, NEW x \in Reads,
         UNCHANGED counters,
         \A y \in Reads \ {x} : /\ pc'[y] = pc[y] /\ seen'[y] = seen[y]
                                /\ package'[y] = package[y]
                                /\ result'[y] = result[y],
         RecalledOf(pc'[x], seen'[x], package'[x], result'[x])
            \subseteq RecalledOf(pc[x], seen[x], package[x], result[x]),
         UsedOf(package'[x], result'[x]) = UsedOf(package[x], result[x]),
         pc[x] \in {"compiling", "using", "done"} =>
            pc'[x] \in {"compiling", "using", "done"}
  PROVE  CountersAreRight'
<1>1. IsFiniteSet(Reads)
  BY ConstantsAssumption
<1>2. ASSUME NEW m \in Ids
      PROVE  /\ Used(m)' = Used(m)
             /\ Cardinality(Recalled(m)') <= Cardinality(Recalled(m))
             /\ Cardinality(Past) <= Cardinality(Past')
             /\ Cardinality(Recalled(m)') \in Nat /\ Cardinality(Recalled(m)) \in Nat
             /\ Cardinality(Past) \in Nat /\ Cardinality(Past') \in Nat
  <2>1. \A y \in Reads :
           /\ m \in UsedOf(package'[y], result'[y])
                <=> m \in UsedOf(package[y], result[y])
           /\ m \in RecalledOf(pc'[y], seen'[y], package'[y], result'[y])
                => m \in RecalledOf(pc[y], seen[y], package[y], result[y])
           /\ pc[y] \in {"compiling", "using", "done"} =>
                 pc'[y] \in {"compiling", "using", "done"}
    <3>1. SUFFICES ASSUME NEW y \in Reads
                   PROVE
           /\ m \in UsedOf(package'[y], result'[y])
                <=> m \in UsedOf(package[y], result[y])
           /\ m \in RecalledOf(pc'[y], seen'[y], package'[y], result'[y])
                => m \in RecalledOf(pc[y], seen[y], package[y], result[y])
           /\ pc[y] \in {"compiling", "using", "done"} =>
                 pc'[y] \in {"compiling", "using", "done"}
      OBVIOUS
    <3>2. CASE y = x
      BY <3>2
    <3>3. CASE y # x
      <4>1. /\ pc'[y] = pc[y] /\ seen'[y] = seen[y]
            /\ package'[y] = package[y] /\ result'[y] = result[y]
        BY <3>3
      <4>2. QED
        BY <4>1
    <3>4. QED
      BY <3>2, <3>3
  <2>2. Used(m)' = Used(m)
    BY <2>1 DEF Used
  <2>3. Recalled(m)' \in SUBSET Recalled(m) /\ Recalled(m) \in SUBSET Reads
    BY <2>1 DEF Recalled
  <2>4. Past \in SUBSET Past' /\ Past' \in SUBSET Reads
    BY <2>1 DEF Past
  <2> DEFINE R0 == Recalled(m)
             R1 == Recalled(m)'
             P0 == Past
             P1 == Past'
  <2>5. /\ R1 \in SUBSET R0 /\ R0 \in SUBSET Reads
        /\ P0 \in SUBSET P1 /\ P1 \in SUBSET Reads
    BY <2>3, <2>4
  <2> HIDE DEF R0, R1, P0, P1
  <2>6. IsFiniteSet(R0) /\ IsFiniteSet(P1)
    BY <1>1, <2>5, FS_Subset
  <2>7. /\ IsFiniteSet(R1) /\ Cardinality(R1) <= Cardinality(R0)
        /\ IsFiniteSet(P0) /\ Cardinality(P0) <= Cardinality(P1)
    BY <2>5, <2>6, FS_Subset
  <2>8. /\ Cardinality(R1) \in Nat /\ Cardinality(R0) \in Nat
        /\ Cardinality(P0) \in Nat /\ Cardinality(P1) \in Nat
    BY <2>6, <2>7, FS_CardinalityType
  <2>9. QED
    BY <2>2, <2>7, <2>8 DEF R0, R1, P0, P1
<1>3. recallCount' = recallCount /\ useCount' = useCount
  BY DEF counters
<1>4. ASSUME NEW m \in Ids
      PROVE  (/\ useCount[m] = Cardinality(Used(m))
              /\ Cardinality(Recalled(m)) <= recallCount[m]
              /\ recallCount[m] <= Cardinality(Past))'
  <2> DEFINE u0 == Used(m)
             u1 == Used(m)'
             r0 == Cardinality(Recalled(m))
             r1 == Cardinality(Recalled(m)')
             p0 == Cardinality(Past)
             p1 == Cardinality(Past')
  <2>1. /\ useCount[m] = Cardinality(u0) /\ r0 <= recallCount[m]
        /\ recallCount[m] <= p0 /\ recallCount[m] \in Nat
    BY DEF CountersAreRight
  <2>2. /\ u1 = u0 /\ r1 <= r0 /\ p0 <= p1
        /\ r0 \in Nat /\ r1 \in Nat /\ p0 \in Nat /\ p1 \in Nat
    BY <1>2
  <2> HIDE DEF u0, u1, r0, r1, p0, p1
  <2>3. /\ useCount'[m] = Cardinality(u1) /\ r1 <= recallCount'[m]
        /\ recallCount'[m] <= p1
    BY <1>3, <2>1, <2>2
  <2>4. QED
    BY <2>3 DEF u1, r1, p1
<1>5. QED
  BY <1>3, <1>4 DEF CountersAreRight

\* A search adds the ids it found to the hits, and keeps one hit of each.
LEMMA WithHitsFinds ==
  ASSUME NEW found \in Seq(Hit), Distinct(found), NEW ids \in Seq(Ids),
         NEW base \in Int
  PROVE  /\ WithHits(found, ids, base) \in Seq(Hit)
         /\ Distinct(WithHits(found, ids, base))
         /\ IdsOf(WithHits(found, ids, base)) = IdsOf(found) \cup ToSet(ids)
<1> DEFINE new == RankedHits(ids, base)
<1>1. /\ Len(ids) \in Nat /\ DOMAIN ids = 1 .. Len(ids)
      /\ \A i \in 1 .. Len(ids) : ids[i] \in Ids
  BY LenProperties, ElementOfSeq
<1>2. DOMAIN new = 1 .. Len(ids)
  BY <1>1 DEF RankedHits
<1>3. ASSUME NEW i \in 1 .. Len(ids)
      PROVE  new[i] \in Hit /\ new[i].id = ids[i]
  <2>1. new[i] = [id |-> ids[i],
                  relevance |-> base - ((i - 1) * Quarter) \div Len(ids)]
    BY <1>1 DEF RankedHits
  <2>2. Len(ids) > 0 /\ i \in Int /\ Quarter \in Int
    BY <1>1, ScaleAssumption DEF Quarter
  <2>3. ((i - 1) * Quarter) \div Len(ids) \in Int
    <3> DEFINE k == (i - 1) * Quarter
    <3>1. k \in Int
      BY <2>2
    <3> HIDE DEF k
    <3>2. k \div Len(ids) \in Int
      BY <1>1, <2>2, <3>1
    <3>3. QED
      BY <3>2 DEF k
  <2>4. base - ((i - 1) * Quarter) \div Len(ids) \in Int
    BY <2>3
  <2>5. QED
    BY <1>1, <2>1, <2>4 DEF Hit
<1>4. new \in Seq(Hit)
  <2>1. new = [i \in 1 .. Len(ids) |-> new[i]]
    BY <1>1 DEF RankedHits
  <2>2. new \in [1 .. Len(ids) -> Hit]
    <3> HIDE DEF new
    <3>1. QED
      BY <1>3, <2>1
  <2>3. QED
    BY <1>1, <2>2, SeqDef
<1>5. IdsOf(new) = ToSet(ids)
  <2>1. IdsOf(new) = {new[i].id : i \in 1 .. Len(ids)}
    BY <1>2 DEF IdsOf
  <2>2. ToSet(ids) = {ids[i] : i \in 1 .. Len(ids)}
    BY <1>1 DEF ToSet
  <2> HIDE DEF new
  <2>3. QED
    BY <1>3, <2>1, <2>2
<1> HIDE DEF new
<1>6. WithHits(found, ids, base) = FoldLeft(WithHit, found, new)
  BY DEF WithHits, new
<1>7. QED
  BY <1>4, <1>5, <1>6, FoldOfHits

-----------------------------------------------------------------------------
(* The initial states.                                                     *)

\* Nothing has been compiled, and nothing was read of what is compiled.
LEMMA NothingIsEmpty ==
  /\ Nothing \in Package /\ ToSet(Nothing.items) = {}
  /\ Nothing.excluded = {} /\ <<>> \in Seq(Hit) /\ <<>> \in Seq(Row)
  /\ Distinct(<<>>) /\ IdsOf(<<>>) = {} /\ ToSet(<<>>) = {}
  /\ Len(<<>>) = 0
<1>1. /\ <<>> \in Seq(Row) /\ <<>> \in Seq(Ids) /\ <<>> \in Seq(Hit)
      /\ Len(<<>>) = 0
  BY EmptySeq
<1>2. DOMAIN <<>> = {}
  BY <1>1, LenProperties
<1>3. ToSet(<<>>) = {} /\ IdsOf(<<>>) = {} /\ Distinct(<<>>)
  BY <1>2 DEF ToSet, IdsOf, Distinct
<1>4. QED
  BY <1>1, <1>3 DEF Nothing, Package

\* A read that holds nothing is right.
LEMMA EmptyReadIsRight ==
  ASSUME NEW q, NEW phase \in {"idle", "done"}, NEW p, NEW answer,
         p = Nothing,
         answer = "answered" => phase = "done"
  PROVE  ReadOK(q, phase, <<>>, <<>>, {}, p, answer)
<1>1. PhaseOK(q, phase, <<>>, <<>>, {}, p, answer)
  BY NothingIsEmpty DEF PhaseOK, Recalling
<1>2. HitsOK(phase, <<>>)
  BY NothingIsEmpty DEF HitsOK
<1>3. RowsOK(q, <<>>, <<>>)
  BY NothingIsEmpty DEF RowsOK
<1>4. ItemsOK(q, p)
  BY NothingIsEmpty DEF ItemsOK
<1>5. QED
  BY <1>1, <1>2, <1>3, <1>4 DEF ReadOK

\* Before any read has begun the invariant holds.
LEMMA InitIsRight == ASSUME Init PROVE RecallInvariant
<1> USE DEF Init
<1>1. LedgerTypes
  BY ConstantsAssumption DEF LedgerTypes
<1>2. IndexRows
  <2> DEFINE S == Ids \ Candidates
             f == [m \in S |-> <<m, 1>>]
  <2>1. IsFiniteSet(S)
    BY ConstantsAssumption, FS_Subset
  <2>2. f \in Surjection(S, indexed)
    BY DEF Surjection
  <2>3. IsFiniteSet(indexed)
    BY <2>1, <2>2, FS_Surjection
  <2>4. \A row \in indexed : row[1] \in Ids /\ row[2] \in 1 .. version[row[1]]
    OBVIOUS
  <2>5. QED
    BY <2>3, <2>4 DEF IndexRows
<1>3. ReadTypes
  BY NothingIsEmpty DEF ReadTypes, Phases, Results
<1>4. ReadsAreRight
  <2>1. SUFFICES ASSUME NEW x \in Reads
                 PROVE  ReadOK(request[x], pc[x], hits[x], seen[x], holds[x],
                               package[x], result[x])
    BY DEF ReadsAreRight
  <2>2. /\ pc[x] = "idle" /\ hits[x] = <<>> /\ seen[x] = <<>>
        /\ holds[x] = {} /\ package[x] = Nothing /\ result[x] = "none"
    OBVIOUS
  <2>3. QED
    BY <2>2, EmptyReadIsRight
<1>5. CountersAreRight
  <2>1. ASSUME NEW m \in Ids
        PROVE  /\ useCount[m] = Cardinality(Used(m))
               /\ Cardinality(Recalled(m)) <= recallCount[m]
               /\ recallCount[m] <= Cardinality(Past)
    <3>1. \A x \in Reads :
             /\ pc[x] = "idle" /\ result[x] = "none"
             /\ pc[x] \notin {"compiling", "using", "done"}
      OBVIOUS
    <3>2. Used(m) = {}
      BY <3>1 DEF Used, UsedOf
    <3>3. Recalled(m) = {}
      BY <3>1 DEF Recalled, RecalledOf
    <3>4. Past = {}
      BY <3>1 DEF Past
    <3>5. useCount[m] = 0 /\ recallCount[m] = 0
      OBVIOUS
    <3>6. QED
      BY <3>2, <3>3, <3>4, <3>5, FS_EmptySet
  <2>2. QED
    BY <2>1 DEF CountersAreRight
<1>6. QED
  BY <1>1, <1>2, <1>3, <1>4, <1>5 DEF RecallInvariant, ReadInvariant

\* What a read has at hand before it reads a record.
LEMMA SearchingIsEmpty ==
  ASSUME ReadInvariant, NEW x \in Reads, pc[x] \in Searching
  PROVE  /\ seen[x] = <<>> /\ holds[x] = {} /\ package[x] = Nothing
         /\ result[x] # "answered" /\ Distinct(hits[x])
         /\ \A m \in IdsOf(hits[x]) : version[m] > 0
         /\ pc[x] = "idle" => hits[x] = <<>>
<1>1. /\ PhaseOK(request[x], pc[x], hits[x], seen[x], holds[x], package[x],
                 result[x])
      /\ HitsOK(pc[x], hits[x])
  BY DEF ReadInvariant, ReadsAreRight, ReadOK
<1>2. /\ seen[x] = <<>> /\ package[x] = Nothing
      /\ result[x] # "answered" /\ Distinct(hits[x])
      /\ pc[x] = "idle" => hits[x] = <<>>
  BY <1>1 DEF PhaseOK, Searching
<1>3. holds[x] = {}
  <2>1. CountedOf(pc[x], seen[x], package[x]) = {}
    BY NothingIsEmpty DEF CountedOf, Searching
  <2>2. QED
    BY <1>1, <2>1 DEF PhaseOK
<1>4. \A m \in IdsOf(hits[x]) : version[m] > 0
  BY <1>1 DEF HitsOK
<1>5. QED
  BY <1>2, <1>3, <1>4

\* A read that searched is right with the hits it has now.
LEMMA SearchedIsRight ==
  ASSUME ReadInvariant, NEW x \in Reads, pc[x] \in Searching,
         NEW found \in Seq(Hit), Distinct(found), NEW phase,
         phase \in {"searching", "filtering", "traversing"}
            \/ phase = RecordsOf(found),
         \/ \A m \in IdsOf(found) : version[m] > 0
         \/ Len(found) = 1 /\ phase = RecordsOf(found)
  PROVE  ReadOK(request[x], phase, found, seen[x], holds[x], package[x],
                result[x])
<1>1. /\ seen[x] = <<>> /\ holds[x] = {} /\ package[x] = Nothing
      /\ result[x] # "answered"
  BY SearchingIsEmpty
<1>2. /\ phase \in {"searching", "filtering", "traversing", "reading",
                    "recalling"}
      /\ phase = "reading" => found # <<>>
      /\ phase = "recalling" => found = <<>>
      /\ Len(found) = 1 => found # <<>>
  BY NothingIsEmpty DEF RecordsOf
<1>3. Len(found) \in Nat /\ (found # <<>> => Len(found) > 0)
  BY LenProperties, EmptySeq
<1>4. PhaseOK(request[x], phase, found, <<>>, {}, Nothing, result[x])
  BY <1>1, <1>2, <1>3, NothingIsEmpty DEF PhaseOK, Searching, Recalling
<1>5. HitsOK(phase, found)
  BY <1>2 DEF HitsOK, RecordsOf, Searching
<1>6. RowsOK(request[x], found, <<>>) /\ ItemsOK(request[x], Nothing)
  BY NothingIsEmpty DEF RowsOK, ItemsOK
<1>7. QED
  BY <1>1, <1>4, <1>5, <1>6 DEF ReadOK

\* A step before anything was recalled leaves the counters right.
LEMMA EarlyStepCounts ==
  ASSUME ReadInvariant, ReadTypes', CountersAreRight, NEW x \in Reads,
         UNCHANGED <<counters, package, result>>,
         NEW phase, pc' = [pc EXCEPT ![x] = phase],
         NEW rows, seen' = [seen EXCEPT ![x] = rows],
         pc[x] \notin {"compiling", "using", "done"},
         phase \notin {"compiling", "using", "done"}
  PROVE  CountersAreRight'
<1>1. ReadTypes
  BY DEF ReadInvariant
<1>2. pc'[x] = phase /\ seen'[x] = rows
  BY <1>1 DEF ReadTypes
<1>3. RecalledOf(pc'[x], seen'[x], package'[x], result'[x])
            \subseteq RecalledOf(pc[x], seen[x], package[x], result[x])
  BY <1>2 DEF RecalledOf
<1>4. UsedOf(package'[x], result'[x]) = UsedOf(package[x], result[x])
  BY DEF UsedOf
<1>5. \A y \in Reads \ {x} : /\ pc'[y] = pc[y] /\ seen'[y] = seen[y]
                             /\ package'[y] = package[y]
                             /\ result'[y] = result[y]
  BY <1>1 DEF ReadTypes
<1>6. UNCHANGED counters
  OBVIOUS
<1>7. QED
  BY <1>1, <1>3, <1>4, <1>5, <1>6, CountersStay

\* A search that found what exists.
LEMMA SearchMoves ==
  ASSUME RecallInvariant, NEW x \in Reads, pc[x] \in Searching,
         NEW found \in Seq(Hit), Distinct(found), NEW phase,
         phase \in {"searching", "filtering", "traversing"}
            \/ phase = RecordsOf(found),
         \/ \A m \in IdsOf(found) : version[m] > 0
         \/ Len(found) = 1 /\ phase = RecordsOf(found),
         pc' = [pc EXCEPT ![x] = phase], hits' = [hits EXCEPT ![x] = found],
         UNCHANGED <<memory, indexed, counters, request, seen, holds, package,
                     result>>
  PROVE  RecallInvariant'
<1>1. ReadInvariant /\ CountersAreRight /\ ReadTypes
  BY DEF RecallInvariant, ReadInvariant
<1>2. /\ seen[x] \in Seq(Row) /\ holds[x] \in SUBSET Ids
      /\ package[x] \in Package /\ result[x] \in Results
  BY <1>1 DEF ReadTypes
<1>3. /\ seen' = [seen EXCEPT ![x] = seen[x]]
      /\ holds' = [holds EXCEPT ![x] = holds[x]]
      /\ package' = [package EXCEPT ![x] = package[x]]
      /\ result' = [result EXCEPT ![x] = result[x]]
  BY <1>1 DEF ReadTypes
<1>4. phase \notin {"compiling", "using", "done"}
  BY DEF RecordsOf
<1>5. phase \in Phases
  BY DEF Phases, RecordsOf
<1>6. ReadOK(request[x], phase, found, seen[x], holds[x], package[x],
             result[x])
  BY <1>1, SearchedIsRight
<1>7. UNCHANGED <<memory, indexed, request>>
  OBVIOUS
<1>8. pc' = [pc EXCEPT ![x] = phase] /\ hits' = [hits EXCEPT ![x] = found]
  OBVIOUS
<1>9. ReadInvariant'
  <2>1. MovesTo(x, phase, found, seen[x], holds[x], package[x], result[x])
    BY <1>2, <1>3, <1>5, <1>6, <1>7, <1>8 DEF MovesTo
  <2>2. QED
    BY <1>1, <2>1, OneReadMoves
<1>10. CountersAreRight'
  <2>1. ReadTypes'
    BY <1>9 DEF ReadInvariant
  <2>2. UNCHANGED <<counters, package, result>>
    OBVIOUS
  <2>3. pc[x] \notin {"compiling", "using", "done"}
    BY DEF Searching
  <2>4. QED
    BY <1>1, <1>3, <1>4, <2>1, <2>2, <2>3, EarlyStepCounts
<1>11. QED
  BY <1>9, <1>10 DEF RecallInvariant

\* The end of a read.
LEMMA FinishMoves ==
  ASSUME RecallInvariant, NEW x \in Reads, NEW r \in Results \ {"none"},
         Finish(x, r), UNCHANGED <<memory, indexed, request>>
  PROVE  ReadInvariant'
<1>1. ReadInvariant /\ ReadTypes
  BY DEF RecallInvariant, ReadInvariant
<1> DEFINE p == IF r = "answered" THEN package[x] ELSE Nothing
<1>2. p \in Package
  BY <1>1, NothingIsEmpty DEF ReadTypes
<1>3. /\ pc' = [pc EXCEPT ![x] = "done"]
      /\ result' = [result EXCEPT ![x] = r]
      /\ holds' = [holds EXCEPT ![x] = {}]
      /\ hits' = [hits EXCEPT ![x] = <<>>]
      /\ seen' = [seen EXCEPT ![x] = <<>>]
      /\ package' = [package EXCEPT ![x] = p]
  BY DEF Finish
<1>4. "done" \in Phases /\ r \in Results /\ {} \in SUBSET Ids
  BY DEF Phases
<1>5. ItemsOK(request[x], p)
  BY <1>1, NothingIsEmpty DEF ReadInvariant, ReadsAreRight, ReadOK, ItemsOK
<1> HIDE DEF p
<1>6. PhaseOK(request[x], "done", <<>>, <<>>, {}, p, r)
  BY NothingIsEmpty DEF PhaseOK, Recalling
<1>7. HitsOK("done", <<>>) /\ RowsOK(request[x], <<>>, <<>>)
  BY NothingIsEmpty DEF HitsOK, RowsOK
<1>8. ReadOK(request[x], "done", <<>>, <<>>, {}, p, r)
  BY <1>5, <1>6, <1>7 DEF ReadOK
<1>9. <<>> \in Seq(Hit) /\ <<>> \in Seq(Row)
  BY NothingIsEmpty
<1>10. QED
  <2>1. MovesTo(x, "done", <<>>, <<>>, {}, p, r)
    BY <1>2, <1>3, <1>4, <1>8, <1>9 DEF MovesTo
  <2>2. QED
    BY <1>1, <2>1, OneReadMoves

\* A read that ends without counting a use.
LEMMA FinishCounts ==
  ASSUME RecallInvariant, NEW x \in Reads, NEW r \in Results \ {"none"},
         pc[x] # "done", r = "answered" => package[x] = Nothing,
         Finish(x, r), UNCHANGED <<memory, indexed, counters, request>>
  PROVE  RecallInvariant'
<1>1. ReadInvariant /\ ReadTypes /\ CountersAreRight
  BY DEF RecallInvariant, ReadInvariant
<1>2. UNCHANGED <<memory, indexed, request>> /\ UNCHANGED counters
  OBVIOUS
<1>3. ReadInvariant' /\ ReadTypes'
  BY <1>2, FinishMoves DEF ReadInvariant
<1>4. /\ pc'[x] = "done" /\ result'[x] = r /\ seen'[x] = <<>>
      /\ package'[x] = Nothing
  BY <1>1 DEF ReadTypes, Finish
<1>5. \A y \in Reads \ {x} : /\ pc'[y] = pc[y] /\ seen'[y] = seen[y]
                             /\ package'[y] = package[y]
                             /\ result'[y] = result[y]
  BY <1>1 DEF ReadTypes, Finish
<1>6. RecalledOf(pc'[x], seen'[x], package'[x], result'[x]) = {}
  BY <1>4, NothingIsEmpty DEF RecalledOf
<1>7. result[x] # "answered"
  BY <1>1 DEF ReadInvariant, ReadsAreRight, ReadOK, PhaseOK
<1>8. UsedOf(package'[x], result'[x]) = UsedOf(package[x], result[x])
  BY <1>4, <1>7, NothingIsEmpty DEF UsedOf
<1>9. CountersAreRight'
  BY <1>1, <1>2, <1>3, <1>4, <1>5, <1>6, <1>8, CountersStay
<1>10. QED
  BY <1>3, <1>9 DEF RecallInvariant

\* One memory is a sequence of ids.
LEMMA OneId ==
  ASSUME NEW m \in Ids
  PROVE  <<m>> \in Seq(Ids) /\ ToSet(<<m>>) = {m}
<1>1. <<m>> \in Seq(Ids) /\ Len(<<m>>) = 1 /\ DOMAIN <<m>> = 1 .. 1
  OBVIOUS
<1>2. ToSet(<<m>>) = {m}
  BY <1>1 DEF ToSet
<1>3. QED
  BY <1>1, <1>2

\* What exists: the memories that index rows name and those that are active.
LEMMA IndexedExist ==
  ASSUME LedgerTypes, IndexRows
  PROVE  /\ \A row \in indexed : row[1] \in Ids /\ version[row[1]] > 0
         /\ \A m \in Ids : status[m] = "active" => version[m] > 0
         /\ \A m \in Ids : version[m] \in Nat
<1>1. \A row \in indexed : row[1] \in Ids /\ version[row[1]] > 0
  BY DEF LedgerTypes, IndexRows
<1>2. \A m \in Ids : version[m] \in Nat /\ (status[m] = "active" => version[m] > 0)
  BY DEF LedgerTypes
<1>3. QED
  BY <1>1, <1>2

\* Hits of memories that exist stay such when a search adds such.
LEMMA SearchAdds ==
  ASSUME RecallInvariant, NEW x \in Reads, pc[x] \in Searching,
         NEW ids \in Seq(Ids), \A m \in ToSet(ids) : version[m] > 0,
         NEW base \in Int, NEW phase,
         phase \in {"searching", "filtering", "traversing"}
            \/ phase = RecordsOf(WithHits(hits[x], ids, base)),
         pc' = [pc EXCEPT ![x] = phase],
         hits' = [hits EXCEPT ![x] = WithHits(hits[x], ids, base)],
         UNCHANGED <<memory, indexed, counters, request, seen, holds, package,
                     result>>
  PROVE  RecallInvariant'
<1> DEFINE found == WithHits(hits[x], ids, base)
<1>1. ReadInvariant /\ ReadTypes
  BY DEF RecallInvariant, ReadInvariant
<1>2. hits[x] \in Seq(Hit)
  BY <1>1 DEF ReadTypes
<1>3. Distinct(hits[x]) /\ \A m \in IdsOf(hits[x]) : version[m] > 0
  BY <1>1, SearchingIsEmpty
<1>4. /\ found \in Seq(Hit) /\ Distinct(found)
      /\ IdsOf(found) = IdsOf(hits[x]) \cup ToSet(ids)
  BY <1>2, <1>3, WithHitsFinds
<1>5. \A m \in IdsOf(found) : version[m] > 0
  BY <1>3, <1>4
<1> HIDE DEF found
<1>6. /\ pc' = [pc EXCEPT ![x] = phase] /\ hits' = [hits EXCEPT ![x] = found]
      /\ \/ phase \in {"searching", "filtering", "traversing"}
         \/ phase = RecordsOf(found)
  BY DEF found
<1>7. UNCHANGED <<memory, indexed, counters, request, seen, holds, package,
                  result>>
  OBVIOUS
<1>8. QED
  BY <1>4, <1>5, <1>6, <1>7, SearchMoves

\* A search that found nothing.
LEMMA SearchAddsNothing ==
  ASSUME RecallInvariant, NEW x \in Reads, pc[x] \in Searching, NEW phase,
         phase \in {"searching", "filtering", "traversing"}
            \/ phase = RecordsOf(hits[x]),
         pc' = [pc EXCEPT ![x] = phase],
         UNCHANGED hits,
         UNCHANGED <<memory, indexed, counters, request, seen, holds, package,
                     result>>
  PROVE  RecallInvariant'
<1> DEFINE found == hits[x]
<1>1. ReadInvariant /\ ReadTypes
  BY DEF RecallInvariant, ReadInvariant
<1>2. found \in Seq(Hit) /\ hits' = [hits EXCEPT ![x] = found]
  BY <1>1 DEF ReadTypes
<1>3. Distinct(found) /\ \A m \in IdsOf(found) : version[m] > 0
  BY <1>1, SearchingIsEmpty
<1>4. /\ pc' = [pc EXCEPT ![x] = phase]
      /\ \/ phase \in {"searching", "filtering", "traversing"}
         \/ phase = RecordsOf(found)
  OBVIOUS
<1>5. UNCHANGED <<memory, indexed, counters, request, seen, holds, package,
                  result>>
  OBVIOUS
<1> HIDE DEF found
<1>6. QED
  BY <1>2, <1>3, <1>4, <1>5, SearchMoves

-----------------------------------------------------------------------------
(* The searches.                                                           *)

\* META and RESUME show no memory and count none.
LEMMA AnswerWithoutMemoriesIsRight ==
  ASSUME RecallInvariant, NEW x \in Reads, AnswerWithoutMemories(x)
  PROVE  RecallInvariant'
<1>1. /\ pc[x] = "idle" /\ Finish(x, "answered")
      /\ UNCHANGED <<memory, indexed, counters, request>>
  BY DEF AnswerWithoutMemories
<1>2. package[x] = Nothing
  BY <1>1, SearchingIsEmpty DEF RecallInvariant, Searching
<1>3. "answered" \in Results \ {"none"}
  BY DEF Results
<1>4. QED
  BY <1>1, <1>2, <1>3, FinishCounts

\* A memory that is addressed by its key exists.
LEMMA KeysExist ==
  ASSUME LedgerTypes, IndexRows, NEW q
  PROVE  /\ \A m \in ExactKeys(q) : m \in Ids /\ version[m] > 0
         /\ \A m \in NormalizedKeys(q) : m \in Ids /\ version[m] > 0
<1>1. ASSUME NEW m \in ExactKeys(q)
      PROVE  m \in Ids /\ version[m] > 0
  <2>1. m \in Ids /\ \E v \in 1 .. version[m] : <<m, v>> \in indexed
    BY DEF ExactKeys
  <2>2. QED
    BY <2>1, IndexedExist
<1>2. ASSUME NEW m \in NormalizedKeys(q)
      PROVE  m \in Ids /\ version[m] > 0
  BY IndexedExist DEF NormalizedKeys
<1>3. QED
  BY <1>1, <1>2

\* EXPRESS looks one memory up, which need not exist when it is named by id.
LEMMA AddressIsRight ==
  ASSUME RecallInvariant, NEW x \in Reads, Address(x)
  PROVE  RecallInvariant'
<1>1. ReadInvariant /\ ReadTypes /\ LedgerTypes /\ IndexRows
  BY DEF RecallInvariant, ReadInvariant
<1>2. /\ pc[x] = "idle" /\ pc[x] \in Searching
      /\ pc' = [pc EXCEPT ![x] = RecordsOf(hits'[x])]
      /\ UNCHANGED <<memory, indexed, counters, request, asked, seen, holds,
                     package, result>>
  BY DEF Address, Searching
<1>3. UNCHANGED <<memory, indexed, counters, request, seen, holds, package,
                  result>>
  BY <1>2
<1>4. CASE UNCHANGED hits
  <2>1. pc' = [pc EXCEPT ![x] = RecordsOf(hits[x])]
    BY <1>2, <1>4
  <2>2. QED
    BY <1>2, <1>3, <1>4, <2>1, SearchAddsNothing
<1>5. ASSUME NEW m \in Addressed(request[x]),
             hits' = [hits EXCEPT ![x] = WithHits(@, <<m>>, VectorBase)]
      PROVE  RecallInvariant'
  <2> DEFINE found == WithHits(hits[x], <<m>>, VectorBase)
  <2>1. hits[x] \in Seq(Hit) /\ hits \in [Reads -> Seq(Hit)]
    BY <1>1 DEF ReadTypes
  <2>2. hits[x] = <<>> /\ Distinct(hits[x]) /\ IdsOf(hits[x]) = {}
    BY <1>1, <1>2, SearchingIsEmpty, NothingIsEmpty
  <2>3. m \in Ids
    <3>1. request[x].memory \in Ids \cup {None}
      BY <1>1, RequestFacts
    <3>2. QED
      BY <1>1, <3>1, KeysExist DEF Addressed
  <2>4. <<m>> \in Seq(Ids) /\ ToSet(<<m>>) = {m} /\ VectorBase \in Int
    BY <2>3, OneId, ScaleAssumption DEF VectorBase
  <2>5. /\ found \in Seq(Hit) /\ Distinct(found) /\ IdsOf(found) = {m}
    BY <2>1, <2>2, <2>4, WithHitsFinds
  <2>6. hits' = [hits EXCEPT ![x] = found] /\ hits'[x] = found
    BY <1>5, <2>1
  <2> HIDE DEF found
  <2>7. pc' = [pc EXCEPT ![x] = RecordsOf(found)]
    BY <1>2, <2>6
  <2>8. Len(found) = 1
    <3>1. /\ Len(found) \in Nat /\ DOMAIN found = 1 .. Len(found)
      BY <2>5, LenProperties
    <3>2. \A i \in 1 .. Len(found) : found[i].id = m
      BY <2>5, <3>1 DEF IdsOf
    <3>3. Len(found) < 2
      BY <2>5, <3>1, <3>2 DEF Distinct
    <3>4. Len(found) # 0
      BY <2>5, <3>1 DEF IdsOf
    <3>5. QED
      BY <3>1, <3>3, <3>4
  <2>9. QED
    BY <1>2, <1>3, <2>5, <2>6, <2>7, <2>8, SearchMoves
<1>6. QED
  BY <1>4, <1>5 DEF Address

\* The nearest index rows are of memories that exist.
LEMMA SearchVectorsIsRight ==
  ASSUME RecallInvariant, NEW x \in Reads, SearchVectors(x)
  PROVE  RecallInvariant'
<1>1. ReadInvariant /\ ReadTypes /\ LedgerTypes /\ IndexRows
  BY DEF RecallInvariant, ReadInvariant
<1>2. PICK ids \in Nearest(request[x]) :
         hits' = [hits EXCEPT ![x] = WithHits(@, ids, VectorBase)]
  BY DEF SearchVectors
<1> DEFINE found == WithHits(hits[x], ids, VectorBase)
           phase == CASE asked[x] + 1 < Parts(x) -> "searching"
                      [] Mode(x) = "quick" -> RecordsOf(found)
                      [] OTHER -> "filtering"
<1>3. hits' = [hits EXCEPT ![x] = found] /\ hits'[x] = found
  BY <1>1, <1>2 DEF ReadTypes
<1>4. pc' = [pc EXCEPT ![x] = phase]
  <2> HIDE DEF found
  <2>1. QED
    BY <1>3 DEF SearchVectors
<1>5. ids \in Seq(Ids) /\ \A m \in ToSet(ids) : version[m] > 0
  <2> DEFINE n == IF Cardinality(indexed) < request[x].topK
                  THEN Cardinality(indexed) ELSE request[x].topK
  <2>1. n \in Nat
    BY <1>1, RequestFacts, FS_CardinalityType DEF IndexRows
  <2>2. PICK rows \in [1 .. n -> indexed] : ids = [i \in 1 .. n |-> rows[i][1]]
    BY DEF Nearest
  <2> HIDE DEF n
  <2>3. \A i \in 1 .. n : rows[i][1] \in Ids /\ version[rows[i][1]] > 0
    BY <1>1, IndexedExist
  <2>4. ids \in [1 .. n -> Ids] /\ DOMAIN ids = 1 .. n
    BY <2>2, <2>3
  <2>5. ids \in Seq(Ids)
    BY <2>1, <2>4, SeqDef
  <2>6. QED
    BY <2>2, <2>3, <2>4, <2>5 DEF ToSet
<1>6. /\ phase \in {"searching", "filtering", "traversing"}
            \/ phase = RecordsOf(found)
      /\ VectorBase \in Int
  BY ScaleAssumption DEF VectorBase
<1>7. /\ pc[x] \in Searching
      /\ UNCHANGED <<memory, indexed, counters, request, seen, holds, package,
                     result>>
  BY DEF SearchVectors, Searching
<1> HIDE DEF phase
<1>8. QED
  BY <1>3, <1>4, <1>5, <1>6, <1>7, SearchAdds

\* A memory that is found by its normalized key exists.
LEMMA ResolveKeyIsRight ==
  ASSUME RecallInvariant, NEW x \in Reads, ResolveKey(x)
  PROVE  RecallInvariant'
<1>1. ReadInvariant /\ ReadTypes /\ LedgerTypes /\ IndexRows
  BY DEF RecallInvariant, ReadInvariant
<1>2. /\ pc[x] \in Searching
      /\ pc' = [pc EXCEPT ![x] = "traversing"]
      /\ UNCHANGED <<memory, indexed, counters, request, seen, holds, package,
                     result>>
  BY DEF ResolveKey, Goto, Searching
<1>3. CASE UNCHANGED hits
  BY <1>2, <1>3, SearchAddsNothing
<1>4. ASSUME NEW m \in NormalizedKeys(request[x]),
             hits' = [hits EXCEPT ![x] = WithHits(@, <<m>>, VectorBase)]
      PROVE  RecallInvariant'
  <2>1. m \in Ids /\ version[m] > 0
    BY <1>1, KeysExist
  <2>2. /\ <<m>> \in Seq(Ids) /\ VectorBase \in Int
        /\ \A k \in ToSet(<<m>>) : version[k] > 0
    BY <2>1, OneId, ScaleAssumption DEF VectorBase
  <2>3. hits' = [hits EXCEPT ![x] = WithHits(hits[x], <<m>>, VectorBase)]
    BY <1>1, <1>4 DEF ReadTypes
  <2>4. QED
    BY <1>2, <2>2, <2>3, SearchAdds
<1>5. QED
  BY <1>3, <1>4 DEF ResolveKey

\* The memories of graph edges exist.
LEMMA TraverseIsRight ==
  ASSUME RecallInvariant, NEW x \in Reads, Traverse(x)
  PROVE  RecallInvariant'
<1>1. ReadInvariant /\ ReadTypes /\ LedgerTypes /\ IndexRows
  BY DEF RecallInvariant, ReadInvariant
<1>2. PICK S \in SUBSET {row[1] : row \in indexed} :
         hits' = [hits EXCEPT ![x] =
                    WithHits(@, InOrder(S, ByOrder(S)), GraphBase)]
  BY DEF Traverse
<1> DEFINE ids == InOrder(S, ByOrder(S))
           found == WithHits(hits[x], ids, GraphBase)
<1>3. S \in SUBSET Ids /\ \A m \in S : version[m] > 0
  BY <1>1, IndexedExist
<1>4. ids \in Seq(S) /\ ToSet(ids) = S
  BY <1>3, IdsInOrder
<1>5. ids \in Seq(Ids) /\ \A m \in ToSet(ids) : version[m] > 0
  BY <1>3, <1>4
<1> HIDE DEF ids
<1>6. hits' = [hits EXCEPT ![x] = found] /\ hits'[x] = found
  BY <1>1, <1>2 DEF ReadTypes, ids
<1>7. pc' = [pc EXCEPT ![x] = RecordsOf(found)]
  <2> HIDE DEF found
  <2>1. QED
    BY <1>6 DEF Traverse
<1>8. /\ pc[x] \in Searching /\ GraphBase \in Int
      /\ UNCHANGED <<memory, indexed, counters, request, seen, holds, package,
                     result>>
  BY ScaleAssumption DEF Traverse, Searching, GraphBase
<1>9. QED
  BY <1>5, <1>6, <1>7, <1>8, SearchAdds

-----------------------------------------------------------------------------
(* Reading, counting and compiling.                                        *)

\* The parts of ReadOK for a read.
LEMMA ReadIsRight ==
  ASSUME ReadInvariant, NEW x \in Reads
  PROVE  /\ PhaseOK(request[x], pc[x], hits[x], seen[x], holds[x], package[x],
                    result[x])
         /\ HitsOK(pc[x], hits[x])
         /\ RowsOK(request[x], hits[x], seen[x])
         /\ ItemsOK(request[x], package[x])
         /\ pc[x] \in Phases /\ hits[x] \in Seq(Hit) /\ seen[x] \in Seq(Row)
         /\ holds[x] \in SUBSET Ids /\ package[x] \in Package
         /\ result[x] \in Results
  BY DEF ReadInvariant, ReadsAreRight, ReadOK, ReadTypes

\* The row a read makes of the hit h.
RowOf(h, q) ==
    [id |-> h.id, version |-> version[h.id],
     allowed |-> version[h.id] > 0 /\ IsAllowed(h.id, q),
     score |-> h.relevance + Facts[h.id].quality,
     evidence |-> evidence[h.id]]

\* A record that may be shown is active when it is read, so that nothing has
\* replaced it.
LEMMA ReadingARow ==
  ASSUME LedgerTypes, NEW q, NEW found \in Seq(Hit), NEW h \in Hit
  PROVE  /\ RowOf(h, q) \in Row /\ RowOf(h, q).id = h.id
         /\ RowOf(h, q).allowed =>
               /\ IsCurrent(RowOf(h, q)) /\ Permitted(RowOf(h, q).id, q)
               /\ successor[RowOf(h, q).id] \notin IdsOf(found)
<1> DEFINE r == RowOf(h, q)
<1>1. h.id \in Ids /\ h.relevance \in Int
  BY DEF Hit
<1>2. /\ version[h.id] \in Nat /\ evidence[h.id] \in SUBSET Ids
      /\ Facts[h.id].quality \in Nat
  BY <1>1, ConstantsAssumption DEF LedgerTypes
<1>3. (version[h.id] > 0 /\ IsAllowed(h.id, q)) \in BOOLEAN
  OBVIOUS
<1>4. h.relevance + Facts[h.id].quality \in Int
  BY <1>1, <1>2
<1>5. r \in Row
  BY <1>1, <1>2, <1>3, <1>4 DEF Row, RowOf
<1>6. /\ r.id = h.id /\ r.version = version[h.id]
      /\ r.allowed <=> (version[h.id] > 0 /\ IsAllowed(h.id, q))
  BY DEF RowOf
<1> HIDE DEF r
<1>7. ASSUME r.allowed
      PROVE  /\ IsCurrent(r) /\ Permitted(r.id, q)
             /\ successor[r.id] \notin IdsOf(found)
  <2>1. version[h.id] > 0 /\ IsAllowed(h.id, q)
    BY <1>6, <1>7
  <2>2. status[h.id] = "active"
    BY <2>1 DEF IsAllowed
  <2>3. successor[h.id] = None
    BY <1>1, <2>2 DEF LedgerTypes
  <2>4. IdsOf(found) \subseteq Ids
    <3>1. \A i \in DOMAIN found : found[i] \in Hit
      BY LenProperties, ElementOfSeq
    <3>2. QED
      BY <3>1 DEF IdsOf, Hit
  <2>5. IsCurrent(r)
    BY <1>2, <1>6, <2>1, <2>2 DEF IsCurrent
  <2>6. Permitted(r.id, q)
    BY <1>6, <2>1 DEF IsAllowed, Permitted
  <2>7. QED
    BY <1>6, <2>3, <2>4, <2>5, <2>6, ConstantsAssumption
<1>8. QED
  BY <1>5, <1>6, <1>7 DEF r

\* Reading the record of the next hit, after the last search was over: what
\* replaces it from now on is not among the hits.
LEMMA ReadRecordIsRight ==
  ASSUME RecallInvariant, NEW x \in Reads, ReadRecord(x)
  PROVE  RecallInvariant'
<1> DEFINE n == Len(seen[x]) + 1
           h == hits[x][n]
           r == RowOf(h, request[x])
           rows == Append(seen[x], r)
           phase == IF n = Len(hits[x]) THEN "recalling" ELSE "reading"
<1>1. ReadInvariant /\ ReadTypes /\ LedgerTypes /\ CountersAreRight
  BY DEF RecallInvariant, ReadInvariant
<1>2. /\ pc[x] = "reading" /\ pc' = [pc EXCEPT ![x] = phase]
      /\ seen' = [seen EXCEPT ![x] = rows]
      /\ UNCHANGED <<memory, indexed, request>>
      /\ UNCHANGED <<counters, package, result>>
      /\ UNCHANGED <<hits, holds>>
  BY <1>1 DEF ReadRecord, Goto, ReadTypes, RowOf
<1>3. /\ PhaseOK(request[x], pc[x], hits[x], seen[x], holds[x], package[x],
                 result[x])
      /\ HitsOK(pc[x], hits[x])
      /\ RowsOK(request[x], hits[x], seen[x])
      /\ ItemsOK(request[x], package[x])
      /\ hits[x] \in Seq(Hit) /\ seen[x] \in Seq(Row)
      /\ package[x] \in Package /\ result[x] \in Results
  BY <1>1, ReadIsRight
<1>4. /\ Distinct(hits[x]) /\ Len(seen[x]) < Len(hits[x])
      /\ \A i \in 1 .. Len(seen[x]) : /\ i <= Len(hits[x])
                                      /\ seen[x][i].id = hits[x][i].id
      /\ package[x] = Nothing /\ result[x] # "answered"
      /\ holds[x] \subseteq CountedOf("reading", seen[x], package[x])
  BY <1>2, <1>3 DEF PhaseOK
<1>5. /\ Len(seen[x]) \in Nat /\ Len(hits[x]) \in Nat
      /\ DOMAIN hits[x] = 1 .. Len(hits[x]) /\ n \in 1 .. Len(hits[x])
  BY <1>3, <1>4, LenProperties
<1>6. h \in Hit
  BY <1>3, <1>5, ElementOfSeq
<1> HIDE DEF h
<1>7. /\ r \in Row /\ r.id = h.id
      /\ r.allowed => /\ IsCurrent(r) /\ Permitted(r.id, request[x])
                      /\ successor[r.id] \notin IdsOf(hits[x])
  BY <1>1, <1>3, <1>6, ReadingARow
<1> HIDE DEF r, n
<1>8. /\ rows \in Seq(Row) /\ Len(rows) = n
      /\ \A i \in 1 .. n : rows[i] = IF i = n THEN r ELSE seen[x][i]
  BY <1>3, <1>5, <1>7, AppendProperties DEF n
<1>9. \A s \in ToSet(rows) : s = r \/ s \in ToSet(seen[x])
  BY <1>3, <1>5, <1>8, LenProperties DEF ToSet
<1>10. RowsOK(request[x], hits[x], rows)
  BY <1>3, <1>7, <1>9 DEF RowsOK
<1>11. phase \in {"reading", "recalling"}
  OBVIOUS
<1>12. HitsOK(phase, hits[x])
  BY <1>2, <1>3, <1>11 DEF HitsOK, Searching
<1>13. holds[x] = {}
  BY <1>4, NothingIsEmpty DEF CountedOf
<1>14. \A i \in 1 .. Len(rows) : i <= Len(hits[x]) /\ rows[i].id = hits[x][i].id
  BY <1>4, <1>5, <1>7, <1>8 DEF h, n
<1>15. /\ phase = "reading" => Len(rows) < Len(hits[x])
       /\ phase = "recalling" => Len(rows) = Len(hits[x])
  BY <1>5, <1>8
<1> HIDE DEF rows, phase
<1>16. PhaseOK(request[x], phase, hits[x], rows, {}, Nothing, result[x])
  BY <1>4, <1>11, <1>14, <1>15, NothingIsEmpty
     DEF PhaseOK, Searching, Recalling
<1>17. ReadOK(request[x], phase, hits[x], rows, {}, Nothing, result[x])
  BY <1>3, <1>4, <1>10, <1>12, <1>16 DEF ReadOK
<1>18. /\ hits' = [hits EXCEPT ![x] = hits[x]]
       /\ holds' = [holds EXCEPT ![x] = {}]
       /\ package' = [package EXCEPT ![x] = Nothing]
       /\ result' = [result EXCEPT ![x] = result[x]]
  BY <1>1, <1>2, <1>4, <1>13 DEF ReadTypes
<1>19. phase \in Phases /\ {} \in SUBSET Ids /\ Nothing \in Package
  BY <1>11, NothingIsEmpty DEF Phases
<1>20. ReadInvariant'
  <2>1. MovesTo(x, phase, hits[x], rows, {}, Nothing, result[x])
    BY <1>2, <1>3, <1>8, <1>17, <1>18, <1>19 DEF MovesTo
  <2>2. QED
    BY <1>1, <2>1, OneReadMoves
<1>21. CountersAreRight'
  <2>1. ReadTypes'
    BY <1>20 DEF ReadInvariant
  <2>2. QED
    BY <1>1, <1>2, <1>11, <2>1, EarlyStepCounts
<1>22. QED
  BY <1>20, <1>21 DEF RecallInvariant

\* The next row to lock is one that is counted.
LEMMA WantsIsCounted ==
  ASSUME NEW x \in Reads
  PROVE  /\ CountedIds(x) = CountedOf(pc[x], seen[x], package[x])
         /\ Wants(x) \subseteq CountedIds(x)
<1>1. Counted(x) = IF pc[x] = "recalling" THEN seen[x]
                   ELSE IF pc[x] = "using" THEN package[x].items ELSE <<>>
  BY DEF Counted
<1>2. CountedIds(x) = CountedOf(pc[x], seen[x], package[x])
  BY <1>1 DEF CountedIds, CountedOf
<1>3. Wants(x) \subseteq CountedIds(x)
  BY DEF Wants, CountedIds, ToSet
<1>4. QED
  BY <1>2, <1>3

\* Locking a row of the counters changes nothing a read has at hand.
LEMMA UpsertUsageIsRight ==
  ASSUME RecallInvariant, NEW x \in Reads, UpsertUsage(x)
  PROVE  RecallInvariant'
<1> DEFINE held == holds[x] \cup Wants(x)
<1>1. ReadInvariant /\ ReadTypes /\ CountersAreRight
  BY DEF RecallInvariant, ReadInvariant
<1>2. /\ holds' = [holds EXCEPT ![x] = held]
      /\ UNCHANGED <<memory, indexed, request>>
      /\ UNCHANGED counters
      /\ UNCHANGED <<pc, hits, seen, package, result>>
  BY DEF UpsertUsage, progress
<1>3. /\ PhaseOK(request[x], pc[x], hits[x], seen[x], holds[x], package[x],
                 result[x])
      /\ HitsOK(pc[x], hits[x])
      /\ RowsOK(request[x], hits[x], seen[x])
      /\ ItemsOK(request[x], package[x])
      /\ pc[x] \in Phases /\ hits[x] \in Seq(Hit) /\ seen[x] \in Seq(Row)
      /\ package[x] \in Package /\ result[x] \in Results
  BY <1>1, ReadIsRight
<1>4. held \subseteq CountedOf(pc[x], seen[x], package[x])
  BY <1>3, WantsIsCounted DEF PhaseOK
<1>5. CountedOf(pc[x], seen[x], package[x]) \subseteq Ids
  <2>1. ASSUME NEW s \in Seq(Row), NEW r \in ToSet(s)
        PROVE  r.id \in Ids
    <3>1. \A i \in DOMAIN s : s[i] \in Row
      BY LenProperties, ElementOfSeq
    <3>2. QED
      BY <3>1 DEF ToSet, Row
  <2>2. <<>> \in Seq(Row) /\ package[x].items \in Seq(Row)
    BY <1>3, EmptySeq DEF Package
  <2>3. QED
    BY <1>3, <2>1, <2>2 DEF CountedOf
<1>6. held \in SUBSET Ids
  BY <1>4, <1>5
<1> HIDE DEF held
<1>7. PhaseOK(request[x], pc[x], hits[x], seen[x], held, package[x], result[x])
  BY <1>3, <1>4 DEF PhaseOK
<1>8. ReadOK(request[x], pc[x], hits[x], seen[x], held, package[x], result[x])
  BY <1>3, <1>7 DEF ReadOK
<1>9. /\ pc' = [pc EXCEPT ![x] = pc[x]] /\ hits' = [hits EXCEPT ![x] = hits[x]]
      /\ seen' = [seen EXCEPT ![x] = seen[x]]
      /\ package' = [package EXCEPT ![x] = package[x]]
      /\ result' = [result EXCEPT ![x] = result[x]]
  BY <1>1, <1>2 DEF ReadTypes
<1>10. ReadInvariant' /\ ReadTypes'
  <2>1. MovesTo(x, pc[x], hits[x], seen[x], held, package[x], result[x])
    BY <1>2, <1>3, <1>6, <1>8, <1>9 DEF MovesTo
  <2>2. QED
    BY <1>1, <2>1, OneReadMoves DEF ReadInvariant
<1>11. CountersAreRight'
  <2>1. /\ RecalledOf(pc'[x], seen'[x], package'[x], result'[x])
              = RecalledOf(pc[x], seen[x], package[x], result[x])
        /\ UsedOf(package'[x], result'[x]) = UsedOf(package[x], result[x])
    BY <1>2
  <2>2. QED
    BY <1>1, <1>2, <1>10, <2>1, CountersStay
<1>12. QED
  BY <1>10, <1>11 DEF RecallInvariant

\* A read that fails counts no use and keeps nothing.
LEMMA RaiseIsRight ==
  ASSUME RecallInvariant, NEW x \in Reads, Raise(x)
  PROVE  RecallInvariant'
<1>1. /\ pc[x] # "done" /\ Finish(x, "failed")
      /\ UNCHANGED <<memory, indexed, counters, request>>
  BY DEF Raise
<1>2. "failed" \in Results \ {"none"} /\ "failed" # "answered"
  BY DEF Results
<1>3. QED
  BY <1>1, <1>2, FinishCounts

\* When every hit was read, the rows are those of the hits.
LEMMA RowsAreTheHits ==
  ASSUME NEW found \in Seq(Hit), Distinct(found), NEW rows \in Seq(Row),
         Len(rows) = Len(found),
         \A i \in 1 .. Len(rows) : rows[i].id = found[i].id
  PROVE  Distinct(rows) /\ IdsOf(found) = IdsOf(rows)
<1>1. /\ DOMAIN found = 1 .. Len(rows) /\ DOMAIN rows = 1 .. Len(rows)
  BY LenProperties
<1>2. Distinct(rows)
  BY <1>1 DEF Distinct
<1>3. IdsOf(found) = IdsOf(rows)
  BY <1>1 DEF IdsOf
<1>4. QED
  BY <1>2, <1>3

\* Compiling shows allowed rows only and makes a complete package of them, or
\* the read ends as not found.
LEMMA CompileIsRight ==
  ASSUME RecallInvariant, NEW x \in Reads, Compile(x)
  PROVE  RecallInvariant'
<1> DEFINE rows == seen[x]
           found == hits[x]
           q == request[x]
           p == Compiled(x, Ranked(x))
           shut == {r.id : r \in {s \in ToSet(rows) : ~s.allowed}}
<1>1. ReadInvariant /\ ReadTypes /\ CountersAreRight
  BY DEF RecallInvariant, ReadInvariant
<1>2. /\ pc[x] = "compiling"
      /\ UNCHANGED <<memory, indexed, counters, request>>
      /\ UNCHANGED <<memory, indexed, request>> /\ UNCHANGED counters
  BY DEF Compile
<1>3. CASE Finish(x, "missing")
  <2>1. "missing" \in Results \ {"none"} /\ "missing" # "answered"
    BY DEF Results
  <2>2. QED
    BY <1>2, <1>3, <2>1, FinishCounts
<1>4. CASE /\ Goto(x, "compiling", "using")
           /\ \E ranked \in {Ranked(x)} :
                  package' = [package EXCEPT ![x] = Compiled(x, ranked)]
           /\ UNCHANGED <<progress, holds, result>>
  <2>1. /\ pc' = [pc EXCEPT ![x] = "using"]
        /\ package' = [package EXCEPT ![x] = p]
        /\ UNCHANGED <<hits, seen, holds, result>>
    BY <1>4 DEF Goto, progress
  <2>2. /\ PhaseOK(request[x], pc[x], hits[x], seen[x], holds[x], package[x],
                   result[x])
        /\ HitsOK(pc[x], found)
        /\ RowsOK(q, found, rows)
        /\ found \in Seq(Hit) /\ rows \in Seq(Row)
        /\ result[x] \in Results
    BY <1>1, ReadIsRight
  <2>3. /\ Distinct(found) /\ Len(rows) = Len(found)
        /\ \A i \in 1 .. Len(rows) : i <= Len(found) /\ rows[i].id = found[i].id
        /\ package[x] = Nothing /\ result[x] # "answered"
        /\ holds[x] \subseteq CountedOf("compiling", rows, package[x])
    BY <1>2, <2>2 DEF PhaseOK, Recalling
  <2>4. holds[x] = {}
    BY <2>3, NothingIsEmpty DEF CountedOf
  <2>5. Distinct(rows) /\ IdsOf(found) = IdsOf(rows)
    BY <2>2, <2>3, RowsAreTheHits
  <2>6. p = WithEvidence(q, Select(q, RankedRows(rows), shut))
    BY DEF Compiled, Ranked, RankedRows, Allowed, AllowedRows
  <2>7. q.topK \in Nat /\ q.budget \in Nat
    BY <1>1, RequestFacts
  <2> HIDE DEF p, shut, q, rows, found
  <2>8. shut = {r.id : r \in {s \in ToSet(rows) : ~s.allowed}}
    BY DEF shut
  <2>9. p \in Package /\ IsCompiled(q, found, rows, p)
    BY <2>2, <2>5, <2>6, <2>7, <2>8, CompiledIsSelection
  <2>10. \A r \in ToSet(p.items) :
            r \in ToSet(rows) /\ r.allowed /\ r.id \in IdsOf(found)
    <3>1. ToSet(p.items) \subseteq AllowedRows(rows)
      BY <2>9 DEF IsCompiled
    <3>2. \A r \in ToSet(rows) : r.id \in IdsOf(rows)
      BY DEF ToSet, IdsOf
    <3>3. QED
      BY <2>5, <3>1, <3>2 DEF AllowedRows
  <2>11. ItemsOK(q, p)
    BY <2>2, <2>10 DEF ItemsOK, RowsOK
  <2>12. HitsOK("using", found)
    BY <1>2, <2>2 DEF HitsOK, Searching
  <2>13. PhaseOK(q, "using", found, rows, {}, p, result[x])
    BY <2>3, <2>9 DEF PhaseOK, Searching, Recalling
  <2>14. ReadOK(q, "using", found, rows, {}, p, result[x])
    BY <2>2, <2>11, <2>12, <2>13 DEF ReadOK
  <2>15. /\ hits' = [hits EXCEPT ![x] = found]
         /\ seen' = [seen EXCEPT ![x] = rows]
         /\ holds' = [holds EXCEPT ![x] = {}]
         /\ result' = [result EXCEPT ![x] = result[x]]
    BY <1>1, <2>1, <2>4 DEF ReadTypes, rows, found
  <2>16. "using" \in Phases /\ {} \in SUBSET Ids
    BY DEF Phases
  <2>17. MovesTo(x, "using", found, rows, {}, p, result[x])
    BY <1>2, <2>1, <2>2, <2>9, <2>14, <2>15, <2>16 DEF MovesTo, q
  <2>18. ReadInvariant' /\ ReadTypes'
    BY <1>1, <2>17, OneReadMoves DEF ReadInvariant
  <2>19. /\ pc'[x] = "using" /\ package'[x] = p /\ seen'[x] = rows
         /\ result'[x] = result[x] /\ seen[x] = rows
         /\ \A y \in Reads \ {x} : /\ pc'[y] = pc[y] /\ seen'[y] = seen[y]
                                   /\ package'[y] = package[y]
                                   /\ result'[y] = result[y]
    BY <1>1, <2>1 DEF ReadTypes, rows
  <2>20. /\ RecalledOf(pc'[x], seen'[x], package'[x], result'[x])
               \subseteq RecalledOf(pc[x], seen[x], package[x], result[x])
         /\ UsedOf(package'[x], result'[x]) = UsedOf(package[x], result[x])
    BY <1>2, <2>3, <2>19 DEF RecalledOf, UsedOf
  <2>21. CountersAreRight'
    BY <1>1, <1>2, <2>18, <2>19, <2>20, CountersStay
  <2>22. QED
    BY <2>18, <2>21 DEF RecallInvariant
<1>5. QED
  BY <1>3, <1>4 DEF Compile

\* A read that counts is one more: of the reads of the set it enters.
LEMMA OneMore ==
  ASSUME NEW x \in Reads, NEW S \in SUBSET Reads, x \notin S
  PROVE  /\ Cardinality(S) \in Nat
         /\ Cardinality(S \cup {x}) = Cardinality(S) + 1
<1>1. IsFiniteSet(S)
  BY ConstantsAssumption, FS_Subset
<1>2. QED
  BY <1>1, FS_AddElement, FS_CardinalityType

\* Counting the recalls: the read joins those that recalled a memory exactly
\* where the counter is raised.
LEMMA CommitRecalledIsRight ==
  ASSUME RecallInvariant, NEW x \in Reads, CommitRecalled(x)
  PROVE  RecallInvariant'
<1>1. ReadInvariant /\ ReadTypes /\ CountersAreRight
  BY DEF RecallInvariant, ReadInvariant
<1>2. /\ pc[x] = "recalling" /\ pc' = [pc EXCEPT ![x] = "compiling"]
      /\ recallCount' = Raised(recallCount, x)
      /\ holds' = [holds EXCEPT ![x] = {}]
      /\ UNCHANGED <<memory, indexed, request>>
      /\ UNCHANGED <<useCount, hits, seen, package, result>>
  BY DEF CommitRecalled, Goto, progress
<1>3. /\ PhaseOK(request[x], pc[x], hits[x], seen[x], holds[x], package[x],
                 result[x])
      /\ HitsOK(pc[x], hits[x])
      /\ RowsOK(request[x], hits[x], seen[x])
      /\ ItemsOK(request[x], package[x])
      /\ hits[x] \in Seq(Hit) /\ seen[x] \in Seq(Row)
      /\ package[x] \in Package /\ result[x] \in Results
  BY <1>1, ReadIsRight
<1>4. PhaseOK(request[x], "compiling", hits[x], seen[x], {}, package[x],
              result[x])
  BY <1>2, <1>3 DEF PhaseOK, Searching, Recalling
<1>5. HitsOK("compiling", hits[x])
  BY <1>2, <1>3 DEF HitsOK, Searching
<1>6. ReadOK(request[x], "compiling", hits[x], seen[x], {}, package[x],
             result[x])
  BY <1>3, <1>4, <1>5 DEF ReadOK
<1>7. /\ hits' = [hits EXCEPT ![x] = hits[x]]
      /\ seen' = [seen EXCEPT ![x] = seen[x]]
      /\ package' = [package EXCEPT ![x] = package[x]]
      /\ result' = [result EXCEPT ![x] = result[x]]
      /\ "compiling" \in Phases /\ {} \in SUBSET Ids
  BY <1>1, <1>2 DEF ReadTypes, Phases
<1>8. MovesTo(x, "compiling", hits[x], seen[x], {}, package[x], result[x])
  BY <1>2, <1>3, <1>6, <1>7 DEF MovesTo
<1>9. ReadInvariant'
  BY <1>1, <1>8, OneReadMoves
<1>10. /\ pc'[x] = "compiling" /\ package[x] = Nothing
       /\ result[x] # "answered" /\ seen' = seen /\ package' = package
       /\ result' = result /\ useCount' = useCount
       /\ \A y \in Reads \ {x} : pc'[y] = pc[y]
  BY <1>1, <1>2, <1>3 DEF ReadTypes, PhaseOK
<1>11. Past' = Past \cup {x} /\ x \notin Past /\ Past \in SUBSET Reads
  BY <1>2, <1>10 DEF Past
<1>12. Cardinality(Past) \in Nat /\ Cardinality(Past') = Cardinality(Past) + 1
  BY <1>11, OneMore
<1>13. ASSUME NEW m \in Ids
       PROVE  /\ Used(m)' = Used(m)
              /\ x \notin Recalled(m) /\ Recalled(m) \in SUBSET Reads
              /\ Recalled(m)' = IF m \in CountedIds(x)
                                THEN Recalled(m) \cup {x} ELSE Recalled(m)
  <2>1. Used(m)' = Used(m)
    BY <1>10 DEF Used
  <2>2. x \notin Recalled(m) /\ Recalled(m) \in SUBSET Reads
    BY <1>2, <1>10 DEF Recalled, RecalledOf
  <2>3. m \in RecalledOf(pc'[x], seen'[x], package'[x], result'[x])
           <=> m \in CountedIds(x)
    BY <1>2, <1>10 DEF RecalledOf, CountedIds, Counted
  <2>4. \A y \in Reads \ {x} :
           m \in RecalledOf(pc'[y], seen'[y], package'[y], result'[y])
              <=> m \in RecalledOf(pc[y], seen[y], package[y], result[y])
    <3>1. SUFFICES ASSUME NEW y \in Reads \ {x}
                   PROVE
           m \in RecalledOf(pc'[y], seen'[y], package'[y], result'[y])
              <=> m \in RecalledOf(pc[y], seen[y], package[y], result[y])
      OBVIOUS
    <3>2. /\ pc'[y] = pc[y] /\ seen'[y] = seen[y]
          /\ package'[y] = package[y] /\ result'[y] = result[y]
      BY <1>10
    <3>3. QED
      BY <3>2
  <2>5. QED
    BY <2>1, <2>2, <2>3, <2>4 DEF Recalled
<1>14. ASSUME NEW m \in Ids
       PROVE  (/\ useCount[m] = Cardinality(Used(m))
               /\ recallCount[m] \in Nat
               /\ Cardinality(Recalled(m)) <= recallCount[m]
               /\ recallCount[m] <= Cardinality(Past))'
  <2> DEFINE R0 == Recalled(m)
             R1 == Recalled(m)'
             p0 == Cardinality(Past)
             p1 == Cardinality(Past')
             U0 == Used(m)
             U1 == Used(m)'
  <2>1. /\ useCount[m] = Cardinality(U0) /\ Cardinality(R0) <= recallCount[m]
        /\ recallCount[m] <= p0 /\ recallCount[m] \in Nat
    BY <1>1 DEF CountersAreRight
  <2>2. recallCount'[m] = IF m \in CountedIds(x) THEN recallCount[m] + 1
                          ELSE recallCount[m]
    BY <1>2 DEF Raised
  <2>3. /\ U1 = U0 /\ x \notin R0 /\ R0 \in SUBSET Reads
        /\ R1 = IF m \in CountedIds(x) THEN R0 \cup {x} ELSE R0
    BY <1>13
  <2>4. p0 \in Nat /\ p1 = p0 + 1
    BY <1>12
  <2> HIDE DEF R0, R1, p0, p1, U0, U1
  <2>5. /\ Cardinality(R0) \in Nat
        /\ Cardinality(R0 \cup {x}) = Cardinality(R0) + 1
    BY <2>3, OneMore
  <2>6. /\ useCount'[m] = Cardinality(U1) /\ recallCount'[m] \in Nat
        /\ Cardinality(R1) <= recallCount'[m] /\ recallCount'[m] <= p1
    <3>1. CASE m \in CountedIds(x)
      BY <1>10, <2>1, <2>2, <2>3, <2>4, <2>5, <3>1
    <3>2. CASE m \notin CountedIds(x)
      BY <1>10, <2>1, <2>2, <2>3, <2>4, <2>5, <3>2
    <3>3. QED
      BY <3>1, <3>2
  <2>7. QED
    BY <2>6 DEF R1, p1, U1
<1>15. useCount' \in [Ids -> Nat] /\ recallCount' \in [Ids -> Nat]
  <2>1. recallCount' = [m \in Ids |-> recallCount'[m]]
    BY <1>2 DEF Raised
  <2>2. QED
    BY <1>1, <1>10, <1>14, <2>1 DEF CountersAreRight
<1>16. CountersAreRight'
  BY <1>14, <1>15 DEF CountersAreRight
<1>17. QED
  BY <1>9, <1>16 DEF RecallInvariant

\* Counting the uses, together with the answer: what is counted as used was
\* counted as recalled.
LEMMA CommitUsedIsRight ==
  ASSUME RecallInvariant, NEW x \in Reads, CommitUsed(x)
  PROVE  RecallInvariant'
<1>1. ReadInvariant /\ ReadTypes /\ CountersAreRight
  BY DEF RecallInvariant, ReadInvariant
<1>2. /\ pc[x] = "using" /\ Finish(x, "answered")
      /\ useCount' = Raised(useCount, x) /\ recallCount' = recallCount
      /\ UNCHANGED <<memory, indexed, request>>
  BY DEF CommitUsed
<1>3. ReadInvariant'
  <2>1. "answered" \in Results \ {"none"}
    BY DEF Results
  <2>2. QED
    BY <1>2, <2>1, FinishMoves
<1>4. /\ pc'[x] = "done" /\ result'[x] = "answered" /\ seen'[x] = <<>>
      /\ package'[x] = package[x]
      /\ \A y \in Reads \ {x} : /\ pc'[y] = pc[y] /\ seen'[y] = seen[y]
                                /\ package'[y] = package[y]
                                /\ result'[y] = result[y]
  BY <1>1, <1>2 DEF ReadTypes, Finish
<1>5. /\ PhaseOK(request[x], pc[x], hits[x], seen[x], holds[x], package[x],
                 result[x])
      /\ ItemsOK(request[x], package[x])
      /\ package[x] \in Package
  BY <1>1, ReadIsRight
<1>6. /\ result[x] # "answered"
      /\ IsCompiled(request[x], hits[x], seen[x], package[x])
  BY <1>2, <1>5 DEF PhaseOK
<1>7. \A r \in ToSet(package[x].items) : r \in ToSet(seen[x]) /\ r.version > 0
  <2>1. \A r \in ToSet(package[x].items) : r \in ToSet(seen[x])
    BY <1>6 DEF IsCompiled, AllowedRows
  <2>2. \A r \in ToSet(package[x].items) : r.version \in 1 .. version[r.id]
    BY <1>5 DEF ItemsOK, IsCurrent
  <2>3. QED
    BY <2>1, <2>2
<1>8. CountedIds(x) = {r.id : r \in ToSet(package[x].items)}
  BY <1>2, <1>7 DEF CountedIds, Counted
<1>9. Past' = Past
  BY <1>2, <1>4 DEF Past
<1>10. ASSUME NEW m \in Ids
       PROVE  /\ x \notin Used(m) /\ Used(m) \in SUBSET Reads
              /\ Used(m)' = IF m \in CountedIds(x)
                            THEN Used(m) \cup {x} ELSE Used(m)
              /\ Recalled(m)' \in SUBSET Recalled(m)
              /\ Recalled(m) \in SUBSET Reads
  <2>1. x \notin Used(m) /\ Used(m) \in SUBSET Reads
    BY <1>6 DEF Used, UsedOf
  <2>2. m \in UsedOf(package'[x], result'[x]) <=> m \in CountedIds(x)
    BY <1>4, <1>8 DEF UsedOf
  <2>3. ASSUME m \in RecalledOf(pc'[x], seen'[x], package'[x], result'[x])
        PROVE  m \in RecalledOf(pc[x], seen[x], package[x], result[x])
    <3>1. PICK r \in ToSet(package[x].items) : r.id = m
      BY <1>4, <2>3, NothingIsEmpty DEF RecalledOf
    <3>2. QED
      BY <1>2, <1>7, <3>1 DEF RecalledOf
  <2>4. ASSUME NEW y \in Reads \ {x}
        PROVE  /\ m \in UsedOf(package'[y], result'[y])
                     <=> m \in UsedOf(package[y], result[y])
               /\ m \in RecalledOf(pc'[y], seen'[y], package'[y], result'[y])
                     <=> m \in RecalledOf(pc[y], seen[y], package[y], result[y])
    <3>1. /\ pc'[y] = pc[y] /\ seen'[y] = seen[y]
          /\ package'[y] = package[y] /\ result'[y] = result[y]
      BY <1>4
    <3>2. QED
      BY <3>1
  <2>5. Used(m)' = IF m \in CountedIds(x) THEN Used(m) \cup {x} ELSE Used(m)
    BY <2>1, <2>2, <2>4 DEF Used
  <2>6. Recalled(m)' \in SUBSET Recalled(m) /\ Recalled(m) \in SUBSET Reads
    BY <2>3, <2>4 DEF Recalled
  <2>7. QED
    BY <2>1, <2>5, <2>6
<1>11. ASSUME NEW m \in Ids
       PROVE  (/\ useCount[m] \in Nat
               /\ useCount[m] = Cardinality(Used(m))
               /\ Cardinality(Recalled(m)) <= recallCount[m]
               /\ recallCount[m] <= Cardinality(Past))'
  <2> DEFINE R0 == Recalled(m)
             R1 == Recalled(m)'
             U0 == Used(m)
             U1 == Used(m)'
             p0 == Cardinality(Past)
             p1 == Cardinality(Past')
  <2>1. /\ useCount[m] = Cardinality(U0) /\ Cardinality(R0) <= recallCount[m]
        /\ recallCount[m] <= p0 /\ recallCount[m] \in Nat /\ useCount[m] \in Nat
    BY <1>1 DEF CountersAreRight
  <2>2. useCount'[m] = IF m \in CountedIds(x) THEN useCount[m] + 1
                       ELSE useCount[m]
    BY <1>2 DEF Raised
  <2>3. /\ x \notin U0 /\ U0 \in SUBSET Reads
        /\ U1 = IF m \in CountedIds(x) THEN U0 \cup {x} ELSE U0
        /\ R1 \in SUBSET R0 /\ R0 \in SUBSET Reads
    BY <1>10
  <2>4. p1 = p0
    BY <1>9
  <2> HIDE DEF R0, R1, U0, U1, p0, p1
  <2>5. Cardinality(U0 \cup {x}) = Cardinality(U0) + 1
    BY <2>3, OneMore
  <2>6. /\ Cardinality(R1) <= Cardinality(R0)
        /\ Cardinality(R1) \in Nat /\ Cardinality(R0) \in Nat
    BY <2>3, ConstantsAssumption, FS_Subset, FS_CardinalityType
  <2>7. useCount'[m] \in Nat /\ useCount'[m] = Cardinality(U1)
    BY <2>1, <2>2, <2>3, <2>5
  <2>8. Cardinality(R1) <= recallCount'[m] /\ recallCount'[m] <= p1
    BY <1>2, <2>1, <2>4, <2>6
  <2>9. QED
    BY <2>7, <2>8 DEF R1, U1, p1
<1>12. useCount' \in [Ids -> Nat] /\ recallCount' \in [Ids -> Nat]
  <2>1. useCount' = [m \in Ids |-> useCount'[m]]
    BY <1>2 DEF Raised
  <2>2. QED
    BY <1>1, <1>2, <1>11, <2>1 DEF CountersAreRight
<1>13. CountersAreRight'
  BY <1>11, <1>12 DEF CountersAreRight
<1>14. QED
  BY <1>3, <1>13 DEF RecallInvariant

-----------------------------------------------------------------------------
(* Governance and the index worker.                                        *)

\* What governance does to the memories: versions only grow, a memory that is
\* replaced gets a version nobody has read, and what replaces it is new.
Grows ==
    \A m \in Ids :
        /\ version[m] <= version'[m]
        /\ status'[m] = "superseded" =>
              status[m] = "superseded" \/ version[m] < version'[m]
        /\ \/ successor'[m] = successor[m]
           \/ successor'[m] \in Ids /\ version[successor'[m]] = 0

\* The steps of MemoryLedger make the memories grow.
LEMMA GovernGrows ==
  ASSUME LedgerTypes, Govern
  PROVE  LedgerTypes' /\ Grows
<1> USE DEF LedgerTypes, Grows
<1>1. PICK c \in Candidates :
          \/ Ledger!Create(c)
          \/ \E m \in Ids : Ledger!Revise(c, m) \/ Ledger!Supersede(c, m)
  BY DEF Govern
<1>2. c \in Ids
  BY ConstantsAssumption
<1>3. CASE Ledger!Create(c)
  <2>1. /\ status[c] = "absent" /\ status' = [status EXCEPT ![c] = "active"]
        /\ version' = [version EXCEPT ![c] = 1]
        /\ evidence' = [evidence EXCEPT ![c] = {c}]
        /\ successor' = successor
    BY <1>3 DEF Ledger!Create, Ledger!Adds
  <2>2. LedgerTypes'
    BY <1>2, <2>1
  <2>3. Grows
    BY <1>2, <2>1
  <2>4. QED
    BY <2>2, <2>3
<1>4. ASSUME NEW m \in Ids, Ledger!Revise(c, m)
      PROVE  LedgerTypes' /\ Grows
  <2>1. /\ status[m] = "active" /\ status' = status
        /\ version' = [version EXCEPT ![m] = @ + 1]
        /\ evidence' = [evidence EXCEPT ![m] = @ \cup {c}]
        /\ successor' = successor
    BY <1>4 DEF Ledger!Revise
  <2>2. LedgerTypes'
    BY <1>2, <2>1
  <2>3. Grows
    BY <2>1
  <2>4. QED
    BY <2>2, <2>3
<1>5. ASSUME NEW m \in Ids, Ledger!Supersede(c, m)
      PROVE  LedgerTypes' /\ Grows
  <2>1. /\ status[m] = "active" /\ status[c] = "absent"
        /\ status' = [[status EXCEPT ![m] = "superseded"] EXCEPT ![c] = "active"]
        /\ version' = [version EXCEPT ![m] = @ + 1, ![c] = 1]
        /\ evidence' = [evidence EXCEPT ![c] = {c}]
        /\ successor' = [successor EXCEPT ![m] = c]
    BY <1>5 DEF Ledger!Supersede, Ledger!Adds
  <2>2. m # c
    BY <2>1
  <2>3. LedgerTypes'
    BY <1>2, <2>1, <2>2
  <2>4. Grows
    BY <1>2, <2>1, <2>2
  <2>5. QED
    BY <2>3, <2>4
<1>6. QED
  BY <1>1, <1>3, <1>4, <1>5

\* Reads stay right when the memories grow.
LEMMA ReadsOutlastGrowth ==
  ASSUME LedgerTypes, LedgerTypes', Grows, NEW q, NEW phase,
         NEW found \in Seq(Hit), NEW rows \in Seq(Row), NEW held,
         NEW p \in Package, NEW answer,
         ReadOK(q, phase, found, rows, held, p, answer)
  PROVE  ReadOK(q, phase, found, rows, held, p, answer)'
<1>1. \A m \in Ids : version[m] \in Nat /\ version'[m] \in Nat
  BY DEF LedgerTypes
<1>2. ASSUME NEW r \in Row, IsCurrent(r)
      PROVE  IsCurrent(r)' /\ version[r.id] > 0 /\ r.id \in Ids
  BY <1>1, <1>2 DEF Grows, IsCurrent, Row
<1>3. \A r \in ToSet(rows) : r \in Row
  <2>1. \A i \in DOMAIN rows : rows[i] \in Row
    BY LenProperties, ElementOfSeq
  <2>2. QED
    BY <2>1 DEF ToSet
<1>4. \A r \in ToSet(p.items) : r \in Row
  <2>1. p.items \in Seq(Row)
    BY DEF Package
  <2>2. \A i \in DOMAIN p.items : p.items[i] \in Row
    BY <2>1, LenProperties, ElementOfSeq
  <2>3. QED
    BY <2>2 DEF ToSet
<1>5. IdsOf(found) \subseteq Ids
  <2>1. \A i \in DOMAIN found : found[i] \in Hit
    BY LenProperties, ElementOfSeq
  <2>2. QED
    BY <2>1 DEF IdsOf, Hit
<1>6. /\ PhaseOK(q, phase, found, rows, held, p, answer)
      /\ HitsOK(phase, found) /\ RowsOK(q, found, rows) /\ ItemsOK(q, p)
  BY DEF ReadOK
<1>7. HitsOK(phase, found)'
  BY <1>1, <1>5, <1>6 DEF HitsOK, Grows
<1>8. ASSUME NEW r \in ToSet(rows), r.allowed
      PROVE  /\ IsCurrent(r)' /\ Permitted(r.id, q)
             /\ successor'[r.id] \notin IdsOf(found)
  <2>1. /\ r \in Row /\ IsCurrent(r) /\ Permitted(r.id, q)
        /\ successor[r.id] \notin IdsOf(found)
    BY <1>3, <1>6, <1>8 DEF RowsOK
  <2>2. IsCurrent(r)' /\ version[r.id] > 0 /\ r.id \in Ids
    BY <1>2, <2>1
  <2>3. CASE successor'[r.id] = successor[r.id]
    BY <2>1, <2>2, <2>3
  <2>4. CASE successor'[r.id] \in Ids /\ version[successor'[r.id]] = 0
    <3>1. r.id \in IdsOf(found)
      <4>1. PICK i \in DOMAIN rows : r = rows[i]
        BY DEF ToSet
      <4>2. i \in 1 .. Len(rows) /\ Len(found) \in Nat
        BY <4>1, LenProperties
      <4>3. i <= Len(found) /\ rows[i].id = found[i].id
        BY <1>6, <4>2 DEF PhaseOK
      <4>4. i \in DOMAIN found
        BY <4>2, <4>3, LenProperties
      <4>5. QED
        BY <4>1, <4>3, <4>4 DEF IdsOf
    <3>2. CASE \A m \in IdsOf(found) : version[m] > 0
      <4>1. successor'[r.id] \notin IdsOf(found)
        BY <2>4, <3>2
      <4>2. QED
        BY <2>1, <2>2, <4>1
    <3>3. CASE Len(found) = 1
      <4>1. DOMAIN found = {1}
        BY <3>3, LenProperties
      <4>2. \A m \in IdsOf(found) : m = r.id
        BY <3>1, <4>1 DEF IdsOf
      <4>3. successor'[r.id] # r.id
        BY <2>2, <2>4
      <4>4. QED
        BY <2>1, <2>2, <4>2, <4>3
    <3>4. QED
      BY <1>6, <3>2, <3>3 DEF HitsOK
  <2>5. QED
    BY <2>2, <2>3, <2>4 DEF Grows
<1>9. RowsOK(q, found, rows)'
  BY <1>8 DEF RowsOK
<1>10. ItemsOK(q, p)'
  <2>1. ASSUME NEW r \in ToSet(p.items), NEW s \in ToSet(p.items)
        PROVE  successor'[r.id] # s.id
    <3>1. /\ r \in Row /\ s \in Row /\ IsCurrent(r) /\ IsCurrent(s)
          /\ successor[r.id] # s.id
      BY <1>4, <1>6 DEF ItemsOK
    <3>2. r.id \in Ids /\ version[s.id] > 0
      BY <1>2, <3>1
    <3>3. QED
      BY <3>1, <3>2 DEF Grows
  <2>2. ASSUME NEW r \in ToSet(p.items)
        PROVE  IsCurrent(r)' /\ Permitted(r.id, q)
    BY <1>2, <1>4, <1>6 DEF ItemsOK
  <2>3. QED
    BY <2>1, <2>2 DEF ItemsOK
<1>11. QED
  BY <1>6, <1>7, <1>9, <1>10 DEF ReadOK

\* A call of govern that takes effect between any two statements of a read.
LEMMA GovernIsRight == ASSUME RecallInvariant, Govern PROVE RecallInvariant'
<1>1. ReadInvariant /\ ReadTypes /\ LedgerTypes /\ IndexRows /\ CountersAreRight
  BY DEF RecallInvariant, ReadInvariant
<1>2. UNCHANGED <<indexed, recallCount, useCount, request, pc, hits, seen,
                  holds, package, result>>
  BY DEF Govern, counters, progress
<1>3. LedgerTypes' /\ Grows
  BY <1>1, GovernGrows
<1>4. IndexRows'
  <2>1. \A m \in Ids : /\ version[m] \in Nat /\ version'[m] \in Nat
                       /\ version[m] <= version'[m]
    BY <1>1, <1>3 DEF LedgerTypes, Grows
  <2>2. QED
    BY <1>1, <1>2, <2>1 DEF IndexRows
<1>5. ReadTypes'
  BY <1>1, <1>2 DEF ReadTypes
<1>6. ReadsAreRight'
  <2>1. SUFFICES ASSUME NEW x \in Reads
                 PROVE  ReadOK(request[x], pc[x], hits[x], seen[x], holds[x],
                               package[x], result[x])'
    BY DEF ReadsAreRight
  <2>2. /\ hits[x] \in Seq(Hit) /\ seen[x] \in Seq(Row)
        /\ package[x] \in Package
        /\ ReadOK(request[x], pc[x], hits[x], seen[x], holds[x], package[x],
                  result[x])
    BY <1>1 DEF ReadTypes, ReadInvariant, ReadsAreRight
  <2>3. QED
    BY <1>1, <1>2, <1>3, <2>2, ReadsOutlastGrowth
<1>7. CountersAreRight'
  BY <1>1, <1>2 DEF CountersAreRight, Used, Recalled, Past
<1>8. QED
  BY <1>3, <1>4, <1>5, <1>6, <1>7 DEF RecallInvariant, ReadInvariant

\* A new index row names a version that exists.
LEMMA IndexIsRight ==
  ASSUME RecallInvariant, NEW m \in Ids, Index(m)
  PROVE  RecallInvariant'
<1>1. ReadInvariant /\ ReadTypes /\ LedgerTypes /\ IndexRows /\ CountersAreRight
  BY DEF RecallInvariant, ReadInvariant
<1>2. /\ version[m] > 0 /\ indexed' = indexed \cup {<<m, version[m]>>}
      /\ UNCHANGED <<status, version, successor, evidence, recallCount, useCount,
                     request, pc, hits, seen, holds, package, result>>
  BY DEF Index, memory, counters, progress
<1>3. LedgerTypes'
  BY <1>1, <1>2 DEF LedgerTypes
<1>4. IndexRows'
  <2>1. IsFiniteSet(indexed')
    BY <1>1, <1>2, FS_AddElement DEF IndexRows
  <2>2. version[m] \in 1 .. version[m]
    BY <1>1, <1>2 DEF LedgerTypes
  <2>3. \A row \in indexed' : row[1] \in Ids /\ row[2] \in 1 .. version'[row[1]]
    BY <1>1, <1>2, <2>2 DEF IndexRows
  <2>4. QED
    BY <2>1, <2>3 DEF IndexRows
<1>5. ReadTypes'
  BY <1>1, <1>2 DEF ReadTypes
<1>6. ReadsAreRight'
  BY <1>1, <1>2 DEF ReadInvariant, ReadsAreRight, ReadOK, HitsOK, RowsOK,
                    ItemsOK, IsCurrent
<1>7. CountersAreRight'
  BY <1>1, <1>2 DEF CountersAreRight, Used, Recalled, Past
<1>8. QED
  BY <1>3, <1>4, <1>5, <1>6, <1>7 DEF RecallInvariant, ReadInvariant

\* A step that changes no variable.
LEMMA StutteringIsRight ==
  ASSUME RecallInvariant, UNCHANGED vars PROVE RecallInvariant'
<1>1. UNCHANGED <<status, version, successor, evidence, indexed, recallCount,
                  useCount, request, pc, hits, seen, holds, package, result>>
  BY DEF vars, memory, counters, progress
<1>2. ReadInvariant /\ CountersAreRight
  BY DEF RecallInvariant
<1>3. LedgerTypes' /\ IndexRows' /\ ReadTypes'
  BY <1>1, <1>2 DEF ReadInvariant, LedgerTypes, IndexRows, ReadTypes
<1>4. ReadsAreRight'
  BY <1>1, <1>2 DEF ReadInvariant, ReadsAreRight, ReadOK, HitsOK, RowsOK,
                    ItemsOK, IsCurrent
<1>5. CountersAreRight'
  BY <1>1, <1>2 DEF CountersAreRight, Used, Recalled, Past
<1>6. QED
  BY <1>3, <1>4, <1>5 DEF RecallInvariant, ReadInvariant

(***************************************************************************)
(* The theorems.                                                           *)
(***************************************************************************)

\* Every step of a read, of governance and of the index worker keeps the
\* invariant.
THEOREM NextIsRight ==
  ASSUME RecallInvariant, [Next]_vars PROVE RecallInvariant'
<1>1. ASSUME NEW x \in Reads, Proceed(x) \/ Raise(x)
      PROVE  RecallInvariant'
  BY <1>1, AnswerWithoutMemoriesIsRight, AddressIsRight, SearchVectorsIsRight,
     ResolveKeyIsRight, TraverseIsRight, ReadRecordIsRight, UpsertUsageIsRight,
     CommitRecalledIsRight, CommitUsedIsRight, CompileIsRight, RaiseIsRight
     DEF Proceed
<1>2. CASE Govern
  BY <1>2, GovernIsRight
<1>3. ASSUME NEW m \in Ids, Index(m)
      PROVE  RecallInvariant'
  BY <1>3, IndexIsRight
<1>4. CASE UNCHANGED vars
  BY <1>4, StutteringIsRight
<1>5. QED
  BY <1>1, <1>2, <1>3, <1>4 DEF Next

\* In every state a read can be in, with any other reads beside it, the
\* invariant holds.
THEOREM RecallIsRight == FairSpec => []RecallInvariant
<1>1. Init => RecallInvariant
  BY InitIsRight
<1>2. RecallInvariant /\ [Next]_vars => RecallInvariant'
  BY NextIsRight
<1>3. QED
  BY <1>1, <1>2, PTL DEF FairSpec

\* There are as many memories among the hits as hits.
LEMMA HitsAreCounted ==
  ASSUME NEW found \in Seq(Hit), Distinct(found)
  PROVE  /\ {h.id : h \in ToSet(found)} = IdsOf(found)
         /\ IdsOf(found) \subseteq Ids
         /\ Cardinality(IdsOf(found)) = Len(found)
<1> DEFINE N == Len(found)
           f == [i \in 1 .. N |-> found[i].id]
<1>1. /\ N \in Nat /\ DOMAIN found = 1 .. N
      /\ \A i \in 1 .. N : found[i] \in Hit
  BY LenProperties, ElementOfSeq
<1>2. {h.id : h \in ToSet(found)} = IdsOf(found)
  BY DEF ToSet, IdsOf
<1>3. IdsOf(found) \subseteq Ids
  BY <1>1 DEF IdsOf, Hit
<1>4. IdsOf(found) = {found[i].id : i \in 1 .. N}
  BY <1>1 DEF IdsOf
<1>5. \A i, j \in 1 .. N : found[i].id = found[j].id => i = j
  BY <1>1 DEF Distinct
<1> HIDE DEF N
<1>6. f \in Surjection(1 .. N, IdsOf(found))
  BY <1>4 DEF Surjection
<1>7. f \in Injection(1 .. N, IdsOf(found))
  BY <1>4, <1>5 DEF Injection, IsInjective
<1>8. IsFiniteSet(1 .. N) /\ Cardinality(1 .. N) = N
  BY <1>1, FS_Interval
<1>9. Cardinality(IdsOf(found)) = N
  BY <1>6, <1>7, <1>8, FS_Surjection
<1>10. QED
  BY <1>2, <1>3, <1>9 DEF N

\* The type invariant follows.
LEMMA TypesFollow == ASSUME RecallInvariant PROVE TypeOK
<1>1. /\ ReadInvariant /\ ReadTypes /\ IndexRows /\ CountersAreRight
  BY DEF RecallInvariant, ReadInvariant
<1>2. ASSUME NEW m \in Ids
      PROVE  /\ recallCount[m] \in 0 .. Cardinality(Reads)
             /\ useCount[m] \in 0 .. Cardinality(Reads)
  <2> DEFINE P == Past
             U == Used(m)
  <2>1. /\ recallCount[m] \in Nat /\ useCount[m] \in Nat
        /\ recallCount[m] <= Cardinality(P) /\ useCount[m] = Cardinality(U)
    BY <1>1 DEF CountersAreRight
  <2>2. P \in SUBSET Reads /\ U \in SUBSET Reads
    BY DEF Past, Used
  <2> HIDE DEF P, U
  <2>3. /\ Cardinality(P) <= Cardinality(Reads) /\ Cardinality(P) \in Nat
        /\ Cardinality(U) <= Cardinality(Reads) /\ Cardinality(Reads) \in Nat
    BY <2>2, ConstantsAssumption, FS_Subset, FS_CardinalityType
  <2>4. QED
    BY <2>1, <2>3
<1>3. /\ recallCount \in [Ids -> 0 .. Cardinality(Reads)]
      /\ useCount \in [Ids -> 0 .. Cardinality(Reads)]
  BY <1>1, <1>2 DEF CountersAreRight
<1>4. ASSUME NEW x \in Reads
      PROVE  /\ Mode(x) \in Modes
             /\ holds[x] \subseteq CountedIds(x)
             /\ {h.id : h \in ToSet(hits[x])} \subseteq Ids
             /\ Cardinality({h.id : h \in ToSet(hits[x])}) = Len(hits[x])
  <2>1. /\ PhaseOK(request[x], pc[x], hits[x], seen[x], holds[x], package[x],
                   result[x])
        /\ hits[x] \in Seq(Hit)
    BY <1>1, ReadIsRight
  <2>2. /\ Distinct(hits[x])
        /\ holds[x] \subseteq CountedOf(pc[x], seen[x], package[x])
    BY <2>1 DEF PhaseOK
  <2>3. QED
    BY <1>1, <2>1, <2>2, RequestFacts, WantsIsCounted, HitsAreCounted
<1>5. pc \in [Reads -> Phases] /\ result \in [Reads -> Results]
  BY <1>1 DEF ReadTypes
<1>6. \A row \in indexed : row[1] \in Ids /\ row[2] \in 1 .. version[row[1]]
  BY <1>1 DEF IndexRows
<1>7. QED
  BY <1>3, <1>4, <1>5, <1>6 DEF TypeOK

\* What is shown is admissible, and nothing beside what replaced it.
LEMMA ItemsFollow ==
  ASSUME RecallInvariant PROVE ItemsAreAdmissible /\ NeverWithItsReplacement
<1>1. ReadInvariant
  BY DEF RecallInvariant
<1>2. \A x \in Reads : ItemsOK(request[x], package[x])
  BY <1>1, ReadIsRight
<1>3. ItemsAreAdmissible
  BY <1>2 DEF ItemsAreAdmissible, ItemsOK, IsCurrent, Permitted, Items
<1>4. NeverWithItsReplacement
  BY <1>2 DEF NeverWithItsReplacement, ItemsOK, Items
<1>5. QED
  BY <1>3, <1>4

\* What a read that is about to answer shows is the greedy selection.
LEMMA SelectionFollows ==
  ASSUME RecallInvariant PROVE SelectionIsGreedy
<1>1. ASSUME NEW x \in Reads, pc[x] = "using"
      PROVE  /\ IsCompiled(request[x], hits[x], seen[x], package[x])
             /\ Ranked(x) = RankedRows(seen[x])
             /\ {h.id : h \in ToSet(hits[x])} = IdsOf(hits[x])
  <2>1. /\ PhaseOK(request[x], pc[x], hits[x], seen[x], holds[x], package[x],
                   result[x])
        /\ hits[x] \in Seq(Hit)
    BY ReadIsRight DEF RecallInvariant
  <2>2. /\ IsCompiled(request[x], hits[x], seen[x], package[x])
        /\ Distinct(hits[x])
    BY <1>1, <2>1 DEF PhaseOK
  <2>3. Ranked(x) = RankedRows(seen[x])
    BY DEF Ranked, RankedRows, Allowed, AllowedRows
  <2>4. QED
    BY <2>1, <2>2, <2>3, HitsAreCounted
<1> SUFFICES ASSUME NEW x \in Reads, pc[x] = "using"
             PROVE  TakesWhatFits(x) /\ NamesTheRest(x)
  BY DEF SelectionIsGreedy
<1>2. TakesWhatFits(x)
  <2> DEFINE ranked == Ranked(x)
             taken == {i \in DOMAIN ranked : ranked[i] \in Items(x)}
  <2>1. /\ IsCompiled(request[x], hits[x], seen[x], package[x])
        /\ ranked = RankedRows(seen[x])
    BY <1>1
  <2>2. taken = {i \in DOMAIN ranked : ranked[i] \in ToSet(package[x].items)}
    BY DEF Items
  <2> HIDE DEF ranked, taken
  <2>3. \A i \in DOMAIN ranked :
           i \in taken <=> Fits(request[x], ranked, i, {j \in taken : j < i})
    BY <2>1, <2>2 DEF IsCompiled, Before
  <2>4. package[x].used = SizeAt(ranked, taken) + SizeOf(package[x].excerpts)
    BY <2>1, <2>2 DEF IsCompiled
  <2>5. /\ package[x].used <= request[x].budget
        /\ ToSet(package[x].excerpts) \subseteq
              UNION {r.evidence : r \in Items(x)}
    BY <2>1 DEF IsCompiled, Items
  <2>6. QED
    BY <2>3, <2>4, <2>5 DEF TakesWhatFits, ranked, taken
<1>3. NamesTheRest(x)
  BY <1>1 DEF NamesTheRest, IsCompiled, Items
<1>4. QED
  BY <1>2, <1>3

\* The counters are those of the answers, and no use goes without a recall.
LEMMA UsesFollow == ASSUME RecallInvariant PROVE UsesAreCounted
<1>1. SUFFICES ASSUME NEW m \in Ids
               PROVE  /\ useCount[m] = Cardinality({x \in Reads :
                            /\ result[x] = "answered"
                            /\ \E r \in Items(x) : r.id = m})
                      /\ useCount[m] <= recallCount[m]
  BY DEF UsesAreCounted
<1> DEFINE U == {x \in Reads : /\ result[x] = "answered"
                               /\ \E r \in Items(x) : r.id = m}
           R == Recalled(m)
<1>2. Used(m) = U
  BY DEF Used, UsedOf, Items
<1>3. /\ useCount[m] = Cardinality(Used(m)) /\ Cardinality(R) <= recallCount[m]
      /\ useCount[m] \in Nat /\ recallCount[m] \in Nat
  BY DEF RecallInvariant, CountersAreRight
<1>4. U \in SUBSET R /\ R \in SUBSET Reads
  BY DEF Recalled, RecalledOf, Items
<1> HIDE DEF U, R
<1>5. /\ Cardinality(U) <= Cardinality(R) /\ Cardinality(R) \in Nat
      /\ Cardinality(U) \in Nat
  BY <1>4, ConstantsAssumption, FS_Subset, FS_CardinalityType
<1>6. useCount[m] = Cardinality(U) /\ useCount[m] <= recallCount[m]
  BY <1>2, <1>3, <1>5
<1>7. QED
  BY <1>6 DEF U

\* Types, index rows that name existing versions, counters within the number
\* of reads and one hit per memory.
THEOREM RecallTypes == FairSpec => []TypeOK
  BY RecallIsRight, TypesFollow, PTL

\* A package shows what was active in the version it shows and what the
\* caller may see, however governance and the indexes move meanwhile.
THEOREM ShownIsAdmissible == FairSpec => []ItemsAreAdmissible
<1>1. RecallInvariant => ItemsAreAdmissible
  BY ItemsFollow
<1>2. QED
  BY <1>1, RecallIsRight, PTL

\* No package shows a memory beside the memory that replaced it.
THEOREM NeverBesideItsReplacement == FairSpec => []NeverWithItsReplacement
<1>1. RecallInvariant => NeverWithItsReplacement
  BY ItemsFollow
<1>2. QED
  BY <1>1, RecallIsRight, PTL

\* The selection is the greedy one in order of score, within the budget, and
\* every hit is shown or named as excluded, for any number of memories, sizes
\* and budgets.
THEOREM CompilerSelectsGreedily == FairSpec => []SelectionIsGreedy
<1>1. RecallInvariant => SelectionIsGreedy
  BY SelectionFollows
<1>2. QED
  BY <1>1, RecallIsRight, PTL

\* A use is counted for exactly the answers that hold the memory.
THEOREM UsesMatchAnswers == FairSpec => []UsesAreCounted
<1>1. RecallInvariant => UsesAreCounted
  BY UsesFollow
<1>2. QED
  BY <1>1, RecallIsRight, PTL

=============================================================================
