------------------------ MODULE MCCandidateGovernance ------------------------
(* Instances of CandidateGovernance: two memories of one scope, two         *)
(* candidates, each with any of the shapes below, and three calls.          *)
EXTENDS CandidateGovernance, TLC

CONSTANTS c1, c2, s1, s2, x1, x2, x3

MCCandidateOf == (x1 :> c1) @@ (x2 :> c2) @@ (x3 :> c2)

Shape(group, key, text, print, relations, flaws, action, duplicates, conflicts) ==
    [group |-> group, key |-> key, text |-> text, print |-> print,
     relations |-> relations, flaws |-> flaws, action |-> action,
     duplicates |-> duplicates, conflicts |-> conflicts]

MCSeedShape ==
    (s1 :> Shape("g", "k1", "a", "p", "stable", {}, "create", <<>>, <<>>))
    @@ (s2 :> Shape("g", "k2", "b", None, "absent", {}, "create", <<>>, <<>>))

\* Enough for every branch: a new key, an exact and a semantic duplicate, each
\* kind of change, opposite orders of targets, targets of another scope or
\* unrelated, candidates the gate turns away, a memory of each kind of index;
\* a new relation list that hides a stable one, and one that is kept.
MCShapes ==
    {Shape("g", "k3", "c", None, "stable", {}, "create", <<>>, <<>>),
     Shape("g", "k1", "a", "p", "absent", {}, "create", <<>>, <<>>),
     Shape("g", "k1", "d", "p", "unstable", {}, "refine", <<>>, <<>>),
     Shape("g", "k2", "e", None, "absent", {}, "supersede", <<>>, <<>>),
     Shape("g", "k3", "e", None, "absent", {}, "supersede", <<>>, <<s1>>),
     Shape("g", "k1", "c", None, "absent", {}, "create", <<>>, <<>>),
     Shape("h", "k1", "c", None, "unstable", {}, "create", <<>>, <<>>),
     Shape("g", "k2", "a", None, "absent", {}, "merge", <<s1, s2>>, <<>>),
     Shape("g", "k2", "b", None, "stable", {}, "correct", <<s2>>, <<s2, s1>>),
     Shape("h", "k1", "a", None, "absent", {}, "merge", <<s1>>, <<>>),
     Shape("g", "k4", "f", None, "absent", {"confidence"}, "create", <<>>, <<>>),
     Shape("g", "k4", "f", None, "absent",
           {"scope", "confidence", "staleness", "outdated"}, "create", <<>>, <<>>)}

\* Enough for a key of full width to be retired.
FewShapes ==
    {Shape("g", "k1", "a", "p", "absent", {}, "create", <<>>, <<>>),
     Shape("g", "k1", "e", None, "absent", {}, "supersede", <<>>, <<>>)}

=============================================================================
