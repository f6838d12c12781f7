--------------------------- MODULE MCEventRequests ---------------------------
(* Instances of EventRequests: a write, its repeat by the same client, and  *)
(* one other request of any kind at the same time.                          *)
EXTENDS EventRequests, TLC

CONSTANTS e1, k1, k2, w1, w2, p1, p2, x1, x2, x3

Plain == [kind |-> "event", workspace |-> w1, id |-> None, key |-> k1,
          payload |-> p1, role |-> "user", refs |-> {}, signal |-> "none"]

Other == [Plain EXCEPT !.key = k2, !.payload = p2]

\* A repeated key keeps its event_id, as a client that retries does; it may
\* name another workspace, and may leave the id to the service.
MCRequests ==
    (x1 :> {[Plain EXCEPT !.id = e1, !.refs = {p1}]})
    @@ (x2 :> {[Plain EXCEPT !.id = e1, !.signal = "remember"],
               [Plain EXCEPT !.id = e1, !.workspace = w2], Plain})
    @@ (x3 :> {Other, [Other EXCEPT !.kind = "consolidate"],
               [Other EXCEPT !.kind = "promote"]})

\* A write that consolidates and one that does not.
WriteBackRequests ==
    (x1 :> {[Plain EXCEPT !.signal = "remember"]})
    @@ (x2 :> {Other})
    @@ (x3 :> {[Other EXCEPT !.kind = "promote"]})

\* A key with two payloads.
PayloadRequests ==
    (x1 :> {Plain})
    @@ (x2 :> {[Plain EXCEPT !.payload = p2]})
    @@ (x3 :> {Other})

=============================================================================
