------------------------------ MODULE MCCluster ------------------------------
(* The clusters of two and three nodes that TLC runs; README.md describes   *)
(* them.  Thieves differ in the setups that let application and servers     *)
(* work on two sides of the same channel.                                   *)
EXTENDS Broadcast

TwoWorkers == {<<0, 0>>, <<1, 0>>}
ThreeNodes == {<<0, 0>>, <<1, 0>>, <<2, 0>>}
TwoAndOne == {<<0, 0>>, <<1, 0>>, <<1, 1>>}
AllOfThem == ThreeNodes \cup TwoAndOne
OneCreator == {<<0, 0>>}

Plain == [nodes |-> 2, workers |-> TwoWorkers, creators |-> OneCreator,
          calls |-> {"task"}, argMsgs |-> 0, resMsgs |-> 0, threadSafe |-> TRUE,
          sendsAddress |-> TRUE, tasks |-> 2, switches |-> 0, prefetches |-> 0,
          broadcasts |-> 0]

Transfer == [Plain EXCEPT !.workers = TwoAndOne, !.argMsgs = 1, !.resMsgs = 1]
TwoCreators == [Plain EXCEPT !.creators = TwoWorkers, !.resMsgs = 1]
Direct == [Plain EXCEPT !.calls = {"task", "task_direct"}, !.argMsgs = 1]
StealPolling == [Plain EXCEPT !.calls = {"task", "enable_stealing"}, !.argMsgs = 1,
                   !.resMsgs = 1, !.threadSafe = FALSE, !.switches = 1]
StealThree == [Plain EXCEPT !.nodes = 3, !.workers = ThreeNodes, !.tasks = 1,
                 !.creators = {<<0, 0>>, <<2, 0>>}, !.argMsgs = 1, !.resMsgs = 1,
                 !.calls = {"task", "local_enable_stealing"}, !.threadSafe = FALSE,
                 !.switches = 1]
Thieves == [Plain EXCEPT !.workers = TwoAndOne, !.tasks = 1,
              !.calls = {"task", "enable_stealing"}, !.argMsgs = 1, !.switches = 1]
Prefetch == [Plain EXCEPT !.calls = {"task", "enable_prefetching"}, !.resMsgs = 1,
               !.switches = 1, !.prefetches = 1]
Switches == [Plain EXCEPT !.nodes = 3, !.workers = ThreeNodes, !.tasks = 0,
               !.calls = SwitchCalls, !.threadSafe = FALSE, !.switches = 2]
LocalSteal == [Plain EXCEPT !.creators = TwoWorkers, !.threadSafe = FALSE, !.tasks = 1,
                 !.calls = {"task"} \cup LocalCalls, !.switches = 1]
Broadcasts == [Plain EXCEPT !.nodes = 3, !.workers = ThreeNodes, !.tasks = 0,
                 !.calls = {"broadcast"}, !.broadcasts = 2]
BroadcastTask == [Plain EXCEPT !.calls = {"task", "broadcast"}, !.argMsgs = 1,
                    !.resMsgs = 1, !.tasks = 1, !.broadcasts = 2]
TwoBroadcasters == [Broadcasts EXCEPT !.creators = {<<0, 0>>, <<2, 0>>}, !.broadcasts = 1]

Holding == [StealPolling EXCEPT !.threadSafe = TRUE]
AsWritten == [Broadcasts EXCEPT !.sendsAddress = FALSE, !.broadcasts = 1]

Clusters == {Transfer, TwoCreators, Direct, StealPolling, StealThree, Thieves, Prefetch,
             Switches, LocalSteal, Broadcasts, BroadcastTask, TwoBroadcasters}
StealHolding == {Holding}
BroadcastAsWritten == {AsWritten}
=============================================================================
