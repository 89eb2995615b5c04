----------------------------- MODULE MCLifecycle -----------------------------
(* The small clusters whose start and end TLC runs; README.md describes    *)
(* them.                                                                   *)
EXTENDS Lifecycle

Safe == [nodes |-> 2, kthreads |-> [n \in 0 .. 1 |-> 2], threadSafe |-> TRUE,
         exitUnlocks |-> TRUE, stealers |-> {1}, enables |-> 2, requests |-> 0]
Polling == [Safe EXCEPT !.threadSafe = FALSE, !.stealers = {0, 1},
              !.kthreads = [n \in 0 .. 1 |-> IF n = 0 THEN 2 ELSE 1]]
ThreeNodes == [Safe EXCEPT !.nodes = 3, !.kthreads = [n \in 0 .. 2 |-> IF n = 0 THEN 1 ELSE 2],
                 !.enables = 1]
NoUnwinding == [Safe EXCEPT !.exitUnlocks = FALSE, !.enables = 1]
Prefetching == [Safe EXCEPT !.kthreads = [n \in 0 .. 1 |-> IF n = 0 THEN 2 ELSE 1],
                  !.enables = 1, !.requests = 1]
PollingPrefetch == [Prefetching EXCEPT !.threadSafe = FALSE]

Clusters == {Safe, Polling, ThreeNodes, NoUnwinding, Prefetching, PollingPrefetch}
=============================================================================
