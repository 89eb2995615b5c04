----------------------------- MODULE MCPlacement -----------------------------
(* The clusters of two nodes that TLC runs; README.md describes them.       *)
EXTENDS Placement, TLC

OneCreator == [creators |-> {<<1, 0>>}, placedBy |-> {"to_rq_end", "to_lrq_end"},
               prefetching |-> TRUE, tasks |-> 3, maxLevel |-> 2]
Race == [creators |-> {<<0, 0>>, <<0, 1>>}, placedBy |-> {"to_rq_end"},
         prefetching |-> FALSE, tasks |-> 4, maxLevel |-> 1]
EveryFunction == [creators |-> {<<0, 0>>, <<1, 0>>},
                  placedBy |-> Rotating \cup ToNode \cup ToWorker,
                  prefetching |-> FALSE, tasks |-> 2, maxLevel |-> 1]

Rounds == [OneCreator EXCEPT !.placedBy = {"to_rq_end"}, !.tasks = 4, !.maxLevel = 1]

Twice == [OneCreator EXCEPT !.placedBy = {"to_lrq", "to_nrq_end"}]

AllOfThem == {OneCreator, Race, EveryFunction, Rounds, Twice}

(* Tasks differ by what is done with them only.                             *)
TaskSymmetry == Permutations(Tasks)
=============================================================================
