------------------------------ MODULE Lifecycle ------------------------------
(***************************************************************************)
(* How a cluster starts and how it ends: torc::init, the rendezvous of     *)
(* workers and nodes, torc_finalize, md_end and the server thread's end    *)
(* (torcc_thread.cpp, and the start and the end of torcc_runtime.cpp,      *)
(* torcc_comm.cpp and torcc_server.cpp).                                   *)
(*                                                                         *)
(* A thread is <<node, vp>>.  vp 0 is the process's main thread; the       *)
(* server has number MaxNvps.  There are no tasks here: the application    *)
(* finalizes when it has joined them (NodeComm), so that searches for work *)
(* end without any.  What may still be under way are attempts to steal and *)
(* requests to prefetch, which idle workers send before every search while *)
(* prefetching is on.  The calls that switch it on, and their messages,    *)
(* are in NodeComm; here it is on or off from the start.                   *)
(*                                                                         *)
(* MPI is external: a FIFO per (source, destination, tag), and collectives *)
(* that a node leaves when every node has entered.  comm_lock of           *)
(* torcc_comm.cpp is lock[n]; those of torcc_thread.cpp and                *)
(* torcc_server.cpp are other variables, taken by one thread each.         *)
(*                                                                         *)
(* The cluster and what it is built with are one of the records in Setups, *)
(* chosen at the start.                                                    *)
(***************************************************************************)
EXTENDS Integers, Sequences, FiniteSets

CONSTANTS Setups, MaxNodes, MaxNvps

ASSUME LifecycleAssumption ==
  /\ MaxNodes \in Nat /\ MaxNvps \in 0 .. 99   \* 32 in the code: no reply has
                                              \* the tag of descriptors
  /\ \A u \in Setups :
       /\ u.nodes \in 2 .. MaxNodes
       /\ u.kthreads \in [0 .. u.nodes - 1 -> 1 .. MaxNvps]
                                     \* worker threads of a node, vp 0 included
       /\ u.threadSafe \in BOOLEAN   \* the library is MPI_THREAD_MULTIPLE
       /\ u.exitUnlocks \in BOOLEAN  \* pthread_exit runs the destructors of the
                                     \* frames it leaves: FALSE in a build without
                                     \* unwind tables (CMakeLists.txt)
       /\ u.stealers \subseteq 0 .. u.nodes - 1
                                     \* where tasks call local_enable_stealing
       /\ u.enables \in Nat          \* how often they do (a bound)
       /\ u.requests \in Nat         \* requests to prefetch under way from one
                                     \* node to another (a bound); 0 where
                                     \* prefetching is off

VARIABLE setup

NumNodes == setup.nodes
kthreads == setup.kthreads
ThreadSafe == setup.threadSafe
ExitUnlocks == setup.exitUnlocks

Nodes == 0 .. NumNodes - 1
Main(n) == <<n, 0>>
Server(n) == <<n, MaxNvps>>
WorkersOf(n) == {<<n, vp>> : vp \in 0 .. kthreads[n] - 1}
Workers == UNION {WorkersOf(n) : n \in Nodes}
Threads == Workers \cup {Server(n) : n \in Nodes}
StealTag(vp) == vp + 100
Tags == {MaxNvps} \cup {StealTag(w[2]) : w \in Workers}

VARIABLES
  pc,              \* where a thread is
  entered,         \* entered[n]: collectives that node n has entered
  inside,          \* inside[n]: main is in one of them
  info,            \* info[n]: node_info is complete
  work_created,
  active_workers,
  al,              \* al[n]: the mutex al has been left locked
  lock,            \* lock[n]: a thread waits in MPI_Recv with comm_lock held
  sl,              \* sl[n]: a thread is in a steal attempt
  target_node,     \* whom a search asks to prefetch next; the own node
                   \* when it has been round
  chan,            \* chan[n][m][tag]
  asker,           \* the thread the server replies to
  told,            \* the nodes terminate_workers has sent to
  appl_finished,
  termination_flag,
  stealing,        \* internode_stealing
  enables

vars == <<setup, pc, entered, inside, info, work_created, active_workers, al, lock, sl,
          target_node, chan, asker, told, appl_finished, termination_flag, stealing, enables>>

NextNode(n) == (n + 1) % NumNodes

(* Where get_next_task begins to ask.                                      *)
FirstTarget(w) == IF setup.requests = 0 THEN w[1] ELSE NextNode(w[1])

Init ==
  /\ setup \in Setups
  /\ pc = [th \in Threads |-> IF th[2] = 0 THEN "opt" ELSE "unborn"]
  /\ entered = [n \in Nodes |-> 0]
  /\ inside = [n \in Nodes |-> FALSE]
  /\ info = [n \in Nodes |-> FALSE]
  /\ work_created = [n \in Nodes |-> 0]
  /\ active_workers = [n \in Nodes |-> 0]
  /\ al = [n \in Nodes |-> FALSE]
  /\ lock = [n \in Nodes |-> FALSE]
  /\ sl = [n \in Nodes |-> FALSE]
  /\ target_node = [w \in Workers |-> FirstTarget(w)]
  /\ chan = [n \in Nodes |-> [m \in Nodes |-> [tag \in Tags |-> <<>>]]]
  /\ asker = [n \in Nodes |-> Main(n)]
  /\ told = {}
  /\ appl_finished = [n \in Nodes |-> 0]
  /\ termination_flag = [n \in Nodes |-> FALSE]
  /\ stealing = [n \in Nodes |-> FALSE]
  /\ enables = 0

Goto(th, where) == pc' = [pc EXCEPT ![th] = where]
Post(n, m, tag, msg) == chan' = [chan EXCEPT ![n][m][tag] = Append(@, msg)]
Take(n, m, tag) == chan' = [chan EXCEPT ![n][m][tag] = Tail(@)]

Collectives == <<setup, entered, inside>>
Crew == <<info, work_created, active_workers, al>>
Ending == <<told, appl_finished, termination_flag>>
Steals == <<lock, sl, target_node, asker, stealing, enables>>

(***************************************************************************)
(* Start.                                                                  *)
(***************************************************************************)

(* The collectives, in the order in which main meets them: the barrier at  *)
(* the end of opt; the two MPI_Allgathers and the barrier of comm::init;   *)
(* the barrier after node_info is filled in; that of torc_worker; the two  *)
(* of md_end.                                                              *)
AfterCollective(where) ==
  CASE where = "opt" -> "md_init"
    [] where = "aslr" -> "workers"
    [] where = "workers" -> "gathered"
    [] where = "gathered" -> "node_info"
    [] where = "known" -> "worker"
    [] where = "rendezvous" -> "start"
    [] where = "all_idle" -> "shutdown_server"
    [] where = "last" -> "exited"

CollectivePoints == {"opt", "aslr", "workers", "gathered", "known", "rendezvous",
                     "all_idle", "last"}

EnterCollective(n) ==
  /\ pc[Main(n)] \in CollectivePoints /\ ~inside[n]
  /\ inside' = [inside EXCEPT ![n] = TRUE]
  /\ entered' = [entered EXCEPT ![n] = @ + 1]
  /\ UNCHANGED <<setup, pc, Crew, Steals, chan, Ending>>

LeaveCollective(n) ==
  /\ inside[n]
  /\ \A m \in Nodes : entered[m] >= entered[n]
  /\ inside' = [inside EXCEPT ![n] = FALSE]
  /\ Goto(Main(n), AfterCollective(pc[Main(n)]))
  /\ UNCHANGED <<setup, entered, Crew, Steals, chan, Ending>>

(* md_init: the server, then the other workers.                            *)
ServerStart == IF ThreadSafe THEN "receive" ELSE "flag"

MdInit(n) ==
  /\ pc[Main(n)] = "md_init"
  /\ pc' = [th \in Threads |-> IF th = Main(n) THEN "aslr"
                               ELSE IF th = Server(n) THEN ServerStart
                               ELSE IF th \in WorkersOf(n) THEN "worker"
                               ELSE pc[th]]
  /\ active_workers' = [active_workers EXCEPT ![n] = kthreads[n]]
  /\ UNCHANGED <<Collectives, info, work_created, al, Steals, chan, Ending>>

(* comm::init enters the numbers of workers it has gathered.               *)
FillNodeInfo(n) ==
  /\ pc[Main(n)] = "node_info"
  /\ info' = [info EXCEPT ![n] = TRUE]
  /\ Goto(Main(n), "known")
  /\ UNCHANGED <<Collectives, work_created, active_workers, al, Steals, chan, Ending>>

(* torc_worker.                                                            *)
Created(w) ==
  /\ pc[w] = "worker"
  /\ work_created' = [work_created EXCEPT ![w[1]] = @ + 1]
  /\ Goto(w, "created")
  /\ UNCHANGED <<Collectives, info, active_workers, al, Steals, chan, Ending>>

(* Mutant: one worker too many is waited for.                              *)
AllCreated_OneMore(w) ==
  /\ pc[w] = "created"
  /\ work_created[w[1]] > kthreads[w[1]]
  /\ Goto(w, IF w[2] = 0 THEN "rendezvous" ELSE "search")
  /\ UNCHANGED <<Collectives, Crew, Steals, chan, Ending>>

(* Mutant: nobody waits for the others.                                    *)
AllCreated_NotAwaited(w) ==
  /\ pc[w] = "created"
  /\ Goto(w, IF w[2] = 0 THEN "rendezvous" ELSE "search")
  /\ UNCHANGED <<Collectives, Crew, Steals, chan, Ending>>

AllCreated(w) ==
  /\ pc[w] = "created"
  /\ work_created[w[1]] >= kthreads[w[1]]
  /\ Goto(w, IF w[2] = 0 THEN "rendezvous" ELSE "search")
  /\ UNCHANGED <<Collectives, Crew, Steals, chan, Ending>>

(* vp 0 of node 0 returns to the application, the others schedule.         *)
Start(n) ==
  /\ pc[Main(n)] = "start"
  /\ Goto(Main(n), IF n = 0 THEN "app" ELSE "search")
  /\ UNCHANGED <<Collectives, Crew, Steals, chan, Ending>>

(***************************************************************************)
(* Searching for work, prefetching and stealing.                           *)
(***************************************************************************)

(* A task of the application calls local_enable_stealing.                  *)
LocalEnable(n) ==
  /\ pc[Main(0)] = "app" /\ n \in setup.stealers
  /\ enables < setup.enables
  /\ enables' = enables + 1
  /\ stealing' = [stealing EXCEPT ![n] = TRUE]
  /\ UNCHANGED <<pc, Collectives, Crew, lock, sl, target_node, asker, chan, Ending>>

(* The messages in q that ask to prefetch, and the others.                 *)
Prefetches(q) == {i \in 1 .. Len(q) : q[i].type = "prefetch"}
Due(q) == {i \in 1 .. Len(q) : q[i].type # "prefetch"}

(* prefetch_request asks nobody when the flag is set, or when              *)
(* prefetch_decision, which depends on timings and is a free choice here,  *)
(* is against it.  Its test of the flag and its message are one step: the  *)
(* server takes a request as well that was sent just after the flag.       *)
PrefetchRequest(w) ==
  LET n == w[1]
      m == target_node[w] IN
  /\ pc[w] = "search" /\ m # n
  /\ ~termination_flag[n] /\ ~lock[n]
  /\ Cardinality(Prefetches(chan[n][m][MaxNvps])) < setup.requests
  /\ Post(n, m, MaxNvps, [type |-> "prefetch", from |-> w])
  /\ target_node' = [target_node EXCEPT ![w] = NextNode(m)]
  /\ UNCHANGED <<pc, Collectives, Crew, lock, sl, asker, stealing, enables, Ending>>

NoRequest(w) ==
  /\ pc[w] = "search" /\ target_node[w] # w[1]
  /\ target_node' = [target_node EXCEPT ![w] = NextNode(@)]
  /\ UNCHANGED <<pc, Collectives, Crew, lock, sl, asker, stealing, enables, chan, Ending>>

(* The queues are empty; the next thing is to steal or to give up.         *)
Looked(w) == pc[w] = "search" /\ target_node[w] = w[1]

(* The node that is asked for work.  get_next_task would go on to the one  *)
(* after it when that has none; here a round has one victim.               *)
Victim(n) == NextNode(n)

(* get_next_task finds nothing here and does not steal.                    *)
SearchInVain(w) ==
  /\ Looked(w)
  /\ ~stealing[w[1]]
  /\ Goto(w, "test")
  /\ UNCHANGED <<Collectives, Crew, Steals, chan, Ending>>

(* direct_synchronous_stealing_request: nothing at all when the flag is    *)
(* set, otherwise a request to the victim.                                 *)
StealNothing(w) ==
  LET n == w[1] IN
  /\ Looked(w) /\ stealing[n] /\ termination_flag[n]
  /\ stealing' = [stealing EXCEPT ![n] = FALSE]
  /\ Goto(w, "test")
  /\ UNCHANGED <<Collectives, Crew, lock, sl, target_node, asker, enables, chan, Ending>>

StealRequest(w) ==
  LET n == w[1] IN
  /\ Looked(w) /\ stealing[n] /\ ~termination_flag[n]
  /\ ~sl[n] /\ ~lock[n]
  /\ sl' = [sl EXCEPT ![n] = TRUE]
  /\ Post(n, Victim(n), MaxNvps, [type |-> "steal", from |-> w])
  /\ Goto(w, "await")
  /\ UNCHANGED <<Collectives, Crew, lock, target_node, asker, stealing, enables, Ending>>

(* receive_descriptor with a thread-safe library.                          *)
HoldForReply(w) ==
  /\ ThreadSafe
  /\ pc[w] = "await" /\ ~lock[w[1]]
  /\ lock' = [lock EXCEPT ![w[1]] = TRUE]
  /\ Goto(w, "held")
  /\ UNCHANGED <<Collectives, Crew, sl, target_node, asker, stealing, enables, chan, Ending>>

StealOver(w) ==
  LET n == w[1] IN
  /\ lock' = [lock EXCEPT ![n] = FALSE]
  /\ sl' = [sl EXCEPT ![n] = FALSE]
  /\ stealing' = [stealing EXCEPT ![n] = FALSE]
  /\ Goto(w, "test")

StealReply(w) ==
  LET tag == StealTag(w[2]) IN
  /\ IF ThreadSafe THEN pc[w] = "held" ELSE pc[w] = "await" /\ ~lock[w[1]]
  /\ chan[Victim(w[1])][w[1]][tag] # <<>>
  /\ Take(Victim(w[1]), w[1], tag)
  /\ StealOver(w)
  /\ UNCHANGED <<Collectives, Crew, target_node, asker, enables, Ending>>

(* Mutant: it waits for the reply whatever happens.                        *)
GiveUp_Never(w) == FALSE /\ UNCHANGED vars

(* Without a thread-safe library receive_descriptor gives the request up   *)
(* when the application has finished.                                      *)
GiveUp(w) ==
  /\ ~ThreadSafe
  /\ pc[w] = "await" /\ appl_finished[w[1]] = 1
  /\ StealOver(w)
  /\ UNCHANGED <<Collectives, Crew, target_node, asker, enables, chan, Ending>>

(* The test of appl_finished between two searches, and the next search.    *)
GoOn(w) ==
  /\ pc[w] = "test" /\ appl_finished[w[1]] # 1
  /\ target_node' = [target_node EXCEPT ![w] = FirstTarget(w)]
  /\ Goto(w, "search")
  /\ UNCHANGED <<Collectives, Crew, lock, sl, asker, stealing, enables, chan, Ending>>

EndOfWork(w) ==
  /\ pc[w] = "test" /\ appl_finished[w[1]] = 1
  /\ Goto(w, "md_end")
  /\ UNCHANGED <<Collectives, Crew, Steals, chan, Ending>>

(***************************************************************************)
(* The end.                                                                *)
(***************************************************************************)

(* torc_finalize, on node 0.                                               *)
Finalize ==
  /\ pc[Main(0)] = "app"
  /\ appl_finished' = [appl_finished EXCEPT ![0] = 1]
  /\ Goto(Main(0), "terminate_workers")
  /\ UNCHANGED <<Collectives, Crew, Steals, chan, told, termination_flag>>

(* Mutant: a node is told again and again.                                 *)
TerminateWorkers_Repeats(n) ==
  /\ pc[Main(0)] = "terminate_workers" /\ ~lock[0] /\ n # 0
  /\ Post(0, n, MaxNvps, [type |-> "terminate_workers", from |-> Main(0)])
  /\ UNCHANGED <<pc, Collectives, Crew, Steals, Ending>>

TerminateWorkers(n) ==
  /\ pc[Main(0)] = "terminate_workers" /\ ~lock[0]
  /\ n \notin told \cup {0} /\ \A m \in 1 .. n - 1 : m \in told
  /\ Post(0, n, MaxNvps, [type |-> "terminate_workers", from |-> Main(0)])
  /\ told' = told \cup {n}
  /\ UNCHANGED <<pc, Collectives, Crew, Steals, appl_finished, termination_flag>>

AllTold ==
  /\ pc[Main(0)] = "terminate_workers" /\ told = Nodes \ {0}
  /\ Goto(Main(0), "md_end")
  /\ UNCHANGED <<Collectives, Crew, Steals, chan, Ending>>

(* md_end by a worker other than vp 0.                                     *)
ExitWorker(w) ==
  /\ pc[w] = "md_end" /\ w[2] # 0 /\ ~al[w[1]]
  /\ active_workers' = [active_workers EXCEPT ![w[1]] = @ - 1]
  /\ al' = [al EXCEPT ![w[1]] = ~ExitUnlocks]
  /\ Goto(w, "exited")
  /\ UNCHANGED <<Collectives, info, work_created, Steals, chan, Ending>>

(* Mutants: it does not wait for its workers; it goes straight to the      *)
(* server, as if the barrier before it were not needed.                    *)
LastOfNode_NotAwaited(n) ==
  /\ pc[Main(n)] = "md_end"
  /\ Goto(Main(n), "all_idle")
  /\ UNCHANGED <<Collectives, Crew, Steals, chan, Ending>>

LastOfNode_NoBarrier(n) ==
  /\ pc[Main(n)] = "md_end" /\ ~al[n]
  /\ active_workers[n] = 1
  /\ Goto(Main(n), "shutdown_server")
  /\ UNCHANGED <<Collectives, Crew, Steals, chan, Ending>>

(* md_end by vp 0: it waits for the workers of its node, then for the      *)
(* other nodes.                                                            *)
LastOfNode(n) ==
  /\ pc[Main(n)] = "md_end" /\ ~al[n]
  /\ active_workers[n] = 1
  /\ Goto(Main(n), "all_idle")
  /\ UNCHANGED <<Collectives, Crew, Steals, chan, Ending>>

(* shutdown_server_thread: a message to the own node, or the flag.         *)
ShutdownServer(n) ==
  /\ pc[Main(n)] = "shutdown_server" /\ ~lock[n]
  /\ IF ThreadSafe
     THEN /\ Post(n, n, MaxNvps, [type |-> "terminate_server", from |-> Main(n)])
          /\ UNCHANGED termination_flag
     ELSE /\ termination_flag' = [termination_flag EXCEPT ![n] = TRUE]
          /\ UNCHANGED chan
  /\ Goto(Main(n), "join")
  /\ UNCHANGED <<Collectives, Crew, Steals, told, appl_finished>>

JoinServer(n) ==
  /\ pc[Main(n)] = "join" /\ pc[Server(n)] = "exited"
  /\ Goto(Main(n), "last")
  /\ UNCHANGED <<Collectives, Crew, Steals, chan, Ending>>

(***************************************************************************)
(* The server thread.  Without a thread-safe library it looks at the flag  *)
(* before each MPI_Test.                                                   *)
(***************************************************************************)
FlagUp(n) ==
  /\ pc[Server(n)] = "flag"
  /\ Goto(Server(n), IF termination_flag[n] THEN "exited" ELSE "receive")
  /\ UNCHANGED <<Collectives, Crew, Steals, chan, Ending>>

NoMessage(n) ==
  /\ ~ThreadSafe
  /\ pc[Server(n)] = "receive"
  /\ \A m \in Nodes : chan[m][n][MaxNvps] = <<>>
  /\ Goto(Server(n), "flag")
  /\ UNCHANGED <<Collectives, Crew, Steals, chan, Ending>>

Receives(n, m, type) ==
  /\ pc[Server(n)] = "receive"
  /\ chan[m][n][MaxNvps] # <<>>
  /\ Head(chan[m][n][MaxNvps]).type = type
  /\ Take(m, n, MaxNvps)

ServeSteal(n, m) ==
  /\ Receives(n, m, "steal")
  /\ asker' = [asker EXCEPT ![n] = Head(chan[m][n][MaxNvps]).from]
  /\ Goto(Server(n), "reply")
  /\ UNCHANGED <<Collectives, Crew, lock, sl, target_node, stealing, enables, Ending>>

Reply(n) ==
  /\ pc[Server(n)] = "reply" /\ ~lock[n]
  /\ Post(n, asker[n][1], StealTag(asker[n][2]), [type |-> "no_work", from |-> Server(n)])
  /\ Goto(Server(n), ServerStart)
  /\ UNCHANGED <<Collectives, Crew, Steals, Ending>>

(* There is no task to prefetch any more.                                  *)
ServePrefetch(n, m) ==
  /\ Receives(n, m, "prefetch")
  /\ Goto(Server(n), ServerStart)
  /\ UNCHANGED <<Collectives, Crew, Steals, Ending>>

ServeTerminateWorkers(n, m) ==
  /\ Receives(n, m, "terminate_workers")
  /\ termination_flag' = [termination_flag EXCEPT ![n] = TRUE]
  /\ appl_finished' = IF m # n THEN [appl_finished EXCEPT ![n] = @ + 1] ELSE appl_finished
  /\ Goto(Server(n), ServerStart)
  /\ UNCHANGED <<Collectives, Crew, Steals, told>>

ServeTerminateServer(n) ==
  /\ Receives(n, n, "terminate_server")
  /\ Goto(Server(n), "exited")
  /\ UNCHANGED <<Collectives, Crew, Steals, Ending>>

-----------------------------------------------------------------------------
MainStep(n) ==
  \/ EnterCollective(n) \/ LeaveCollective(n) \/ MdInit(n) \/ FillNodeInfo(n)
  \/ Start(n) \/ LastOfNode(n) \/ ShutdownServer(n) \/ JoinServer(n)
  \/ n = 0 /\ (AllTold \/ \E m \in Nodes : TerminateWorkers(m))

WorkerStep(w) ==
  \/ Created(w) \/ AllCreated(w) \/ PrefetchRequest(w) \/ NoRequest(w) \/ SearchInVain(w)
  \/ StealNothing(w) \/ StealRequest(w) \/ HoldForReply(w) \/ StealReply(w) \/ GiveUp(w)
  \/ GoOn(w) \/ EndOfWork(w) \/ ExitWorker(w)

ServerStep(n) ==
  \/ FlagUp(n) \/ NoMessage(n) \/ Reply(n) \/ ServeTerminateServer(n)
  \/ \E m \in Nodes : ServeSteal(n, m) \/ ServePrefetch(n, m) \/ ServeTerminateWorkers(n, m)

(* Application: local_enable_stealing and torc_finalize, when it likes.    *)
Next ==
  \/ Finalize
  \/ \E n \in Nodes : LocalEnable(n) \/ MainStep(n) \/ ServerStep(n)
  \/ \E w \in Workers : WorkerStep(w)

(* Threads are scheduled, messages arrive, collectives complete.           *)
Spec ==
  /\ Init /\ [][Next]_vars
  /\ \A n \in 0 .. MaxNodes - 1 :
       /\ WF_vars(n \in Nodes /\ MainStep(n)) /\ WF_vars(n \in Nodes /\ ServerStep(n))
       /\ \A vp \in 0 .. MaxNvps - 1 : WF_vars(<<n, vp>> \in Workers /\ WorkerStep(<<n, vp>>))

-----------------------------------------------------------------------------
Places == CollectivePoints \cup
  {"unborn", "md_init", "node_info", "worker", "created", "start", "app", "search",
   "await", "held", "test", "terminate_workers", "md_end", "shutdown_server", "join",
   "flag", "receive", "reply", "exited"}

TypeOK ==
  /\ pc \in [Threads -> Places]
  /\ entered \in [Nodes -> 0 .. Cardinality(CollectivePoints)]
  /\ inside \in [Nodes -> BOOLEAN] /\ info \in [Nodes -> BOOLEAN]
  /\ work_created \in [Nodes -> Nat] /\ active_workers \in [Nodes -> Nat]
  /\ al \in [Nodes -> BOOLEAN] /\ lock \in [Nodes -> BOOLEAN] /\ sl \in [Nodes -> BOOLEAN]
  /\ target_node \in [Workers -> Nodes]
  /\ asker \in [Nodes -> Threads] /\ told \subseteq Nodes
  /\ appl_finished \in [Nodes -> 0 .. 1]
  /\ termination_flag \in [Nodes -> BOOLEAN] /\ stealing \in [Nodes -> BOOLEAN]
  /\ \A n \in Nodes, m \in Nodes, tag \in Tags :
       Cardinality(Due(chan[n][m][tag])) <= setup.enables + 2

(* StartsTogether: the application runs, on any node, only when every node *)
(* knows the numbers of workers of all nodes and has its server and all    *)
(* its workers; no worker of a node schedules before that node knows them. *)
StartsTogether ==
  /\ pc[Main(0)] = "app" =>
       \A n \in Nodes : /\ info[n] /\ pc[Server(n)] # "unborn"
                        /\ work_created[n] = kthreads[n]
  /\ \A w \in Workers : pc[w] \in {"search", "await", "held", "test"} => info[w[1]]

(* NobodyLeftBehind: when a process ends no thread of it is left, no node  *)
(* has a server that still serves, and with a thread-safe library every    *)
(* message has been received but requests to prefetch, to which nobody     *)
(* waits for an answer.  A server may go with such a request unreceived,   *)
(* since MPI keeps no order between it and the message of the own node     *)
(* that ends the server.                                                   *)
NobodyLeftBehind ==
  \A n \in Nodes : pc[Main(n)] = "exited" =>
    /\ \A w \in WorkersOf(n) : pc[w] = "exited"
    /\ \A m \in Nodes : pc[Server(m)] = "exited"
    /\ ThreadSafe => \A m \in Nodes, k \in Nodes, tag \in Tags : Due(chan[m][k][tag]) = {}

(* AnsweredOrOver: a thief whose victim has no server any more will not    *)
(* wait for it: the library is not thread-safe and the application has     *)
(* finished, so that the thief gives up.                                   *)
AnsweredOrOver ==
  \A w \in Workers :
    pc[w] \in {"await", "held"} /\ pc[Server(Victim(w[1]))] = "exited" =>
      \/ chan[Victim(w[1])][w[1]][StealTag(w[2])] # <<>>
      \/ ~ThreadSafe /\ appl_finished[0] = 1

(* Starts: the rendezvous of threads and nodes is passed.                  *)
Starts == <>(pc[Main(0)] = "app")

(* EveryoneLeaves: after torc_finalize every thread of every node ends, if *)
(* al is unlocked by the threads that exit inside its critical section.    *)
EveryoneLeaves ==
  (appl_finished[0] = 1 /\ ExitUnlocks) ~> (\A th \in Threads : pc[th] = "exited")
=============================================================================
