---------------------------- MODULE MCMemoryRecall ----------------------------
(* Instances of MemoryRecall: a memory, a candidate that may be added beside *)
(* it, extend it or replace it, and two reads.                              *)
EXTENDS MemoryRecall, TLC

CONSTANTS c, s, x1, x2

Fact(k, scope, size, quality, order) ==
    [key |-> k, scope |-> scope, type |-> "fact", valid |-> TRUE,
     size |-> size, quality |-> quality, order |-> order]

\* The candidate is the workspace's, and the larger and better of the two:
\* it does not fit into a budget of 4, the other does.
MCFacts == (s :> Fact("k1", "user", 2, 0, 1))
           @@ (c :> Fact("k3", "workspace", 5, 90, 2))

MCExcerptSize == (s :> 1) @@ (c :> 2)

Plain == [mode |-> "auto", memory |-> None, memoryKey |-> None,
          normalizedKey |-> None, types |-> {}, scopes |-> {}, grants |-> {},
          period |-> None, task |-> FALSE, words |-> {"any"}, topK |-> 2,
          budget |-> 7, parts |-> 1, graph |-> FALSE, evidence |-> FALSE]

\* The first read goes any way a read can go, beside one that goes the most
\* common way.
Quick == [Plain EXCEPT !.grants = {"workspace"}]

MCRequests ==
    (x1 :> {Quick,
            [Plain EXCEPT !.words = {"why"}, !.graph = TRUE, !.budget = 4,
                          !.grants = {"workspace"}],
            [Plain EXCEPT !.words = {"compare"}, !.topK = 1, !.parts = 2,
                          !.evidence = TRUE, !.budget = 4],
            [Plain EXCEPT !.mode = "normal", !.normalizedKey = "k3",
                          !.types = {"fact"}, !.scopes = {"workspace"}],
            [Plain EXCEPT !.memory = c],
            [Plain EXCEPT !.memoryKey = "k1"],
            [Plain EXCEPT !.normalizedKey = "k3", !.types = {"fact"},
                          !.grants = {"workspace"}, !.scopes = {"workspace"}],
            [Plain EXCEPT !.task = TRUE, !.words = {}]})
    @@ (x2 :> {Quick})

=============================================================================
