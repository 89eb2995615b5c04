--------------------------- MODULE LifecycleProofs ---------------------------
(***************************************************************************)
(* Proofs about Lifecycle, for every cluster: any number of nodes, of      *)
(* workers on each of them, and any library and build.                     *)
(***************************************************************************)
EXTENDS Lifecycle, Facts, SequenceTheorems

(***************************************************************************)
(* Threads and nodes.                                                      *)
(***************************************************************************)
SetupInv == setup \in Setups

LEMMA SetupFacts ==
  ASSUME SetupInv
  PROVE  /\ NumNodes \in Nat /\ NumNodes >= 2 /\ Nodes = 0 .. NumNodes - 1 /\ 0 \in Nodes
         /\ \A n \in Nodes : kthreads[n] \in 1 .. MaxNvps
         /\ MaxNvps \in 0 .. 99
BY LifecycleAssumption DEF SetupInv, NumNodes, Nodes, kthreads

LEMMA ThreadFacts ==
  ASSUME SetupInv
  PROVE  /\ \A n, m \in Nodes : Main(n) = Main(m) => n = m
         /\ \A n, m \in Nodes : Server(n) = Server(m) => n = m
         /\ \A n \in Nodes : Main(n) \in WorkersOf(n) /\ Server(n) \in Threads
         /\ \A n, m \in Nodes : Server(n) \notin WorkersOf(m)
         /\ \A n, m \in Nodes : \A w \in WorkersOf(n) : w \in WorkersOf(m) => n = m
         /\ \A n \in Nodes : \A w \in WorkersOf(n) :
              w[1] = n /\ w \in Workers /\ w \in Threads /\ (w[2] = 0 <=> w = Main(n))
         /\ \A w \in Workers : w[1] \in Nodes /\ w \in WorkersOf(w[1])
         /\ \A th \in Threads : \E n \in Nodes : th \in WorkersOf(n) \/ th = Server(n)
<1>1. \A n \in Nodes : kthreads[n] \in 1 .. MaxNvps
  BY SetupFacts
<1>2. \A n \in Nodes : \A w \in WorkersOf(n) : \E vp \in 0 .. kthreads[n] - 1 : w = <<n, vp>>
  BY DEF WorkersOf
<1>3. \A n \in Nodes : Main(n) \in WorkersOf(n)
  <2> TAKE n \in Nodes
  <2>1. 0 \in 0 .. kthreads[n] - 1
    BY <1>1
  <2> QED BY <2>1 DEF Main, WorkersOf
<1>4. \A n, m \in Nodes : Server(n) \notin WorkersOf(m)
  <2> SUFFICES ASSUME NEW n \in Nodes, NEW m \in Nodes, Server(n) \in WorkersOf(m) PROVE FALSE
    OBVIOUS
  <2>1. PICK vp \in 0 .. kthreads[m] - 1 : Server(n) = <<m, vp>>
    BY <1>2
  <2> QED BY <1>1, <2>1 DEF Server
<1> QED BY <1>2, <1>3, <1>4 DEF Main, Server, Workers, Threads

(* The cluster does not change.                                            *)
Same == /\ NumNodes' = NumNodes /\ kthreads' = kthreads /\ Nodes' = Nodes
        /\ Workers' = Workers /\ Threads' = Threads /\ Tags' = Tags
        /\ ThreadSafe' = ThreadSafe
        /\ \A n : WorkersOf(n)' = WorkersOf(n) /\ Victim(n)' = Victim(n)

LEMMA SetupFixed == ASSUME setup' = setup PROVE Same
BY DEF Same, NumNodes, kthreads, Nodes, Workers, Threads, Tags, ThreadSafe, WorkersOf, Victim, NextNode, Server

LEMMA StepKeepsSetup == [Next]_vars => setup' = setup
BY DEF Next, vars, Finalize, LocalEnable, MainStep, ServerStep, WorkerStep, Collectives,
   EnterCollective, LeaveCollective, MdInit, FillNodeInfo, Start, LastOfNode, ShutdownServer,
   JoinServer, AllTold, TerminateWorkers, Created, AllCreated, PrefetchRequest, NoRequest,
   SearchInVain, StealNothing, StealRequest, HoldForReply, StealReply, GiveUp, GoOn, EndOfWork,
   ExitWorker, FlagUp, NoMessage, Reply, ServeTerminateServer, ServeSteal, ServePrefetch,
   ServeTerminateWorkers

(* A node has as many workers as it is configured to have.                 *)
LEMMA NumbersCount ==
  ASSUME NEW k \in Nat PROVE IsFiniteSet(0 .. k - 1) /\ Cardinality(0 .. k - 1) = k
<1>1. k - 1 \in Int
  OBVIOUS
<1>2. /\ IsFiniteSet(0 .. k - 1)
      /\ Cardinality(0 .. k - 1) = IF 0 > k - 1 THEN 0 ELSE k - 1 - 0 + 1
  BY <1>1, FS_Interval
<1> QED BY <1>2

LEMMA WorkersCount ==
  ASSUME SetupInv, NEW n \in Nodes
  PROVE  IsFiniteSet(WorkersOf(n)) /\ Cardinality(WorkersOf(n)) = kthreads[n]
<1> DEFINE k == kthreads[n]
           f == [vp \in 0 .. k - 1 |-> <<n, vp>>]
<1>1. k \in Nat
  BY SetupFacts
<1>2. IsFiniteSet(0 .. k - 1) /\ Cardinality(0 .. k - 1) = k
  BY <1>1, NumbersCount
<1>3. f \in Bijection(0 .. k - 1, WorkersOf(n))
  <2>1. f \in [0 .. k - 1 -> WorkersOf(n)]
    BY DEF WorkersOf
  <2>2. \A a, b \in 0 .. k - 1 : f[a] = f[b] => a = b
    OBVIOUS
  <2>3. \A w \in WorkersOf(n) : \E vp \in 0 .. k - 1 : f[vp] = w
    BY DEF WorkersOf
  <2> HIDE DEF f
  <2> QED BY <2>1, <2>2, <2>3 DEF Bijection, Injection, Surjection, IsInjective
<1> HIDE DEF f
<1>4. ExistsBijection(0 .. k - 1, WorkersOf(n))
  BY <1>3 DEF ExistsBijection
<1> HIDE DEF k
<1>5. /\ IsFiniteSet(0 .. k - 1) => IsFiniteSet(WorkersOf(n))
      /\ IsFiniteSet(0 .. k - 1) => Cardinality(0 .. k - 1) = Cardinality(WorkersOf(n))
  BY <1>2, <1>4, FS_Bijection
<1> QED BY <1>2, <1>5 DEF k

(***************************************************************************)
(* The invariant of one node.                                              *)
(***************************************************************************)
Booting == {"opt", "md_init"}
BeforeArrival == Booting \cup {"unborn", "aslr", "workers", "gathered", "node_info", "known", "worker"}
Idle == {"all_idle", "shutdown_server", "join", "last", "exited"}

MainPlaces == CollectivePoints \cup
  {"md_init", "node_info", "worker", "created", "start", "app", "search", "await", "held",
   "test", "terminate_workers", "md_end", "shutdown_server", "join", "exited"}
OtherPlaces == {"unborn", "worker", "created", "search", "await", "held", "test", "md_end",
                "exited"}
ServerPlaces == {"unborn", "flag", "receive", "reply", "exited"}

(* How many collectives a process has left that is at this place.          *)
Phase(p) ==
  IF p = "opt" THEN 0
  ELSE IF p \in {"md_init", "aslr"} THEN 1
  ELSE IF p = "workers" THEN 2
  ELSE IF p = "gathered" THEN 3
  ELSE IF p \in {"node_info", "known"} THEN 4
  ELSE IF p \in {"worker", "created", "rendezvous"} THEN 5
  ELSE IF p \in {"shutdown_server", "join", "last"} THEN 7
  ELSE IF p = "exited" THEN 8
  ELSE 6

Others(n) == WorkersOf(n) \ {Main(n)}
Arrived(n) == {w \in WorkersOf(n) : pc[w] \notin BeforeArrival}
Present(n) == {w \in WorkersOf(n) : w = Main(n) \/ pc[w] # "exited"}

PlacesOf(n) ==
  /\ pc[Main(n)] \in MainPlaces /\ pc[Server(n)] \in ServerPlaces
  /\ \A w \in Others(n) : pc[w] \in OtherPlaces
  /\ \A th \in Others(n) \cup {Server(n)} : pc[th] = "unborn" <=> pc[Main(n)] \in Booting
  /\ pc[Main(n)] \in {"app", "terminate_workers"} => n = 0
  /\ n = 0 => pc[Main(n)] \notin {"search", "await", "held", "test"}

PhaseOf(n) ==
  /\ entered[n] = Phase(pc[Main(n)]) + (IF inside[n] THEN 1 ELSE 0)
  /\ inside[n] => pc[Main(n)] \in CollectivePoints
  /\ pc[Main(n)] \notin BeforeArrival \ {"known", "worker"} => info[n]

ArrivalOf(n) ==
  /\ work_created[n] = Cardinality(Arrived(n))
  /\ \A w \in WorkersOf(n) : pc[w] \notin BeforeArrival \cup {"created"} => Arrived(n) = WorkersOf(n)

DepartureOf(n) ==
  /\ pc[Main(n)] \notin Booting => active_workers[n] = Cardinality(Present(n))
  /\ pc[Main(n)] \in Idle => \A w \in Others(n) : pc[w] = "exited"
  /\ pc[Main(n)] \in {"last", "exited"} => pc[Server(n)] = "exited"

NodeInv(n) == PlacesOf(n) /\ PhaseOf(n) /\ ArrivalOf(n) /\ DepartureOf(n)

Domains ==
  /\ pc \in [Threads -> Places]
  /\ entered \in [Nodes -> Nat] /\ inside \in [Nodes -> BOOLEAN] /\ info \in [Nodes -> BOOLEAN]
  /\ work_created \in [Nodes -> Nat] /\ active_workers \in [Nodes -> Int]

(* Nobody is ahead of the collectives that the others have entered.        *)
InStep == \A n \in Nodes, m \in Nodes : Phase(pc[Main(n)]) <= entered[m]

(* Requests to prefetch go to nodes.                                       *)
TargetInv == target_node \in [Workers -> Nodes]

CrewInv == SetupInv /\ TargetInv /\ Domains /\ InStep /\ \A n \in Nodes : NodeInv(n)

LEMMA NextNodeType ==
  ASSUME SetupInv, NEW n \in Nodes PROVE NextNode(n) \in Nodes /\ NextNode(n) # n
<1>1. NumNodes \in Nat /\ NumNodes >= 2 /\ Nodes = 0 .. NumNodes - 1
  BY SetupFacts
<1>2. CASE n + 1 = NumNodes
  <2>1. (n + 1) % NumNodes = 0
    BY <1>1, <1>2
  <2> QED BY <1>1, <1>2, <2>1 DEF NextNode
<1>3. CASE n + 1 # NumNodes
  <2>1. (n + 1) % NumNodes = n + 1
    BY <1>1, <1>3
  <2> QED BY <1>1, <1>3, <2>1 DEF NextNode
<1> QED BY <1>2, <1>3

LEMMA TargetKept ==
  ASSUME SetupInv, TargetInv, Same, [Next]_vars PROVE TargetInv'
<1>a. \A w \in Workers : target_node[w] \in Nodes /\ NextNode(target_node[w]) \in Nodes /\ FirstTarget(w) \in Nodes
  BY ThreadFacts, NextNodeType DEF TargetInv, FirstTarget
<1>1. CASE UNCHANGED target_node
  BY <1>1 DEF TargetInv, Same
<1>2. ASSUME NEW w \in Workers, PrefetchRequest(w) \/ NoRequest(w) \/ GoOn(w) PROVE TargetInv'
  <2>1. PICK t \in Nodes : target_node' = [target_node EXCEPT ![w] = t]
    BY <1>a, <1>2 DEF PrefetchRequest, NoRequest, GoOn
  <2> QED BY <2>1 DEF TargetInv, Same
<1>3. ASSUME NEW w \in Workers, WorkerStep(w), ~(PrefetchRequest(w) \/ NoRequest(w) \/ GoOn(w))
      PROVE  UNCHANGED target_node
  BY <1>3 DEF WorkerStep, Created, AllCreated, SearchInVain, StealNothing, StealRequest, HoldForReply,
     StealReply, GiveUp, EndOfWork, ExitWorker, Steals
<1>4. ASSUME NEW n \in Nodes, LocalEnable(n) \/ MainStep(n) \/ ServerStep(n) \/ Finalize
      PROVE  UNCHANGED target_node
  BY <1>4 DEF LocalEnable, MainStep, ServerStep, Finalize, EnterCollective, LeaveCollective, MdInit,
     FillNodeInfo, Start, LastOfNode, ShutdownServer, JoinServer, AllTold, TerminateWorkers, FlagUp,
     NoMessage, Reply, ServeTerminateServer, ServeSteal, ServePrefetch, ServeTerminateWorkers, Steals
<1>5. CASE UNCHANGED vars
  BY <1>1, <1>5 DEF vars
<1>6. 0 \in Nodes
  BY SetupFacts
<1> QED BY <1>1, <1>2, <1>3, <1>4, <1>5, <1>6 DEF Next

LEMMA CrewInit == Init => CrewInv
<1> SUFFICES ASSUME Init PROVE CrewInv
  OBVIOUS
<1>1. SetupInv
  BY DEF Init, SetupInv
<1>2. \A n \in Nodes : \A w \in Others(n) : w \in WorkersOf(n) /\ pc[w] = "unborn"
  BY <1>1, ThreadFacts DEF Init, Others
<1>3. \A n \in Nodes : pc[Main(n)] = "opt" /\ pc[Server(n)] = "unborn"
  <2> TAKE n \in Nodes
  <2>1. Main(n)[2] = 0 /\ Server(n)[2] = MaxNvps /\ MaxNvps # 0 /\ Main(n) \in Threads /\ Server(n) \in Threads
    BY <1>1, ThreadFacts, SetupFacts DEF Main, Server
  <2> QED BY <2>1 DEF Init
<1>4. Domains
  <2>1. pc \in [Threads -> Places]
    BY DEF Init, Places, CollectivePoints
  <2> QED BY <2>1 DEF Init, Domains
<1>5. InStep
  BY <1>3 DEF Init, InStep, Phase
<1>6. ASSUME NEW n \in Nodes PROVE NodeInv(n)
  <2>1. \A w \in WorkersOf(n) : pc[w] \in BeforeArrival
    BY <1>2, <1>3 DEF Others, BeforeArrival, Booting
  <2>2. Arrived(n) = {}
    BY <2>1 DEF Arrived
  <2>3. ArrivalOf(n)
    BY <2>1, <2>2, FS_EmptySet DEF ArrivalOf, Init
  <2>4. PlacesOf(n)
    BY <1>1, <1>2, <1>3, SetupFacts DEF PlacesOf, MainPlaces, OtherPlaces, ServerPlaces, Booting, CollectivePoints
  <2>5. PhaseOf(n)
    <3>1. entered[n] = 0 /\ inside[n] = FALSE /\ pc[Main(n)] = "opt"
      BY <1>3 DEF Init
    <3> QED BY <3>1 DEF PhaseOf, Phase, BeforeArrival, Booting
  <2>6. DepartureOf(n)
    BY <1>3 DEF DepartureOf, Booting, Idle
  <2> QED BY <2>3, <2>4, <2>5, <2>6 DEF NodeInv
<1>7. TargetInv
  <2>1. \A w \in Workers : w[1] \in Nodes
    BY <1>1, ThreadFacts
  <2>2. \A w \in Workers : FirstTarget(w) \in Nodes
    BY <1>1, <2>1, NextNodeType DEF FirstTarget
  <2> QED BY <2>2 DEF TargetInv, Init
<1> QED BY <1>1, <1>4, <1>5, <1>6, <1>7 DEF CrewInv

(***************************************************************************)
(* What the steps do to the crew of a node.                                *)
(***************************************************************************)
Moves(th, p, q) == pc[th] = p /\ pc' = [pc EXCEPT ![th] = q]

SearchPlaces == {"search", "await", "held", "test"}

SearchMove(w) == \E p \in SearchPlaces, q \in SearchPlaces \cup {"md_end"} : Moves(w, p, q)

MainMove(n) ==
  \/ Moves(Main(n), "start", IF n = 0 THEN "app" ELSE "search")
  \/ n = 0 /\ Moves(Main(n), "app", "terminate_workers")
  \/ n = 0 /\ Moves(Main(n), "terminate_workers", "md_end")
  \/ Moves(Main(n), "shutdown_server", "join")

ServerMove(n) ==
  \E p \in {"flag", "receive", "reply"}, q \in {"flag", "receive", "reply", "exited"} :
     Moves(Server(n), p, q)

Count == <<entered, inside, info, work_created, active_workers>>

QuietStep(n) ==
  /\ UNCHANGED Count
  /\ MainMove(n) \/ ServerMove(n) \/ \E w \in WorkersOf(n) : SearchMove(w)

CrewStep(n) ==
  \/ EnterCollective(n) \/ LeaveCollective(n) \/ MdInit(n) \/ FillNodeInfo(n)
  \/ LastOfNode(n) \/ JoinServer(n)
  \/ \E w \in WorkersOf(n) : Created(w) \/ AllCreated(w) \/ ExitWorker(w)

LEMMA StepKinds ==
  ASSUME SetupInv, [Next]_vars
  PROVE  \/ UNCHANGED <<pc, Count>>
         \/ \E n \in Nodes : QuietStep(n) \/ CrewStep(n)
<1> DEFINE Goal == \/ UNCHANGED <<pc, Count>>
                   \/ \E n \in Nodes : QuietStep(n) \/ CrewStep(n)
<1>a. 0 \in Nodes
  BY SetupFacts
<1>1. CASE UNCHANGED vars
  BY <1>1 DEF vars, Count
<1>2. CASE Finalize
  BY <1>2, <1>a DEF Finalize, QuietStep, MainMove, Moves, Goto, Count, Collectives, Crew
<1>3. ASSUME NEW n \in Nodes, LocalEnable(n) PROVE Goal
  BY <1>3 DEF LocalEnable, Count, Collectives, Crew
<1>4. ASSUME NEW n \in Nodes, MainStep(n) PROVE Goal
  <2>1. CASE Start(n) \/ ShutdownServer(n) \/ (n = 0 /\ AllTold)
    BY <2>1 DEF Start, ShutdownServer, AllTold, QuietStep, MainMove, Moves, Goto, Count, Collectives, Crew
  <2>2. ASSUME NEW m \in Nodes, TerminateWorkers(m) PROVE Goal
    BY <2>2 DEF TerminateWorkers, Count, Collectives, Crew
  <2> QED BY <1>4, <2>1, <2>2 DEF MainStep, CrewStep
<1>5. ASSUME NEW n \in Nodes, ServerStep(n) PROVE Goal
  <2>1. UNCHANGED Count
    BY <1>5 DEF ServerStep, FlagUp, NoMessage, Reply, ServeTerminateServer, ServeSteal,
       ServePrefetch, ServeTerminateWorkers, Count, Collectives, Crew
  <2>2. \E p \in {"flag", "receive", "reply"}, q \in {"flag", "receive", "reply", "exited"} :
           pc[Server(n)] = p /\ Goto(Server(n), q)
    BY <1>5 DEF ServerStep, FlagUp, NoMessage, Reply, ServeTerminateServer, ServeSteal,
       ServePrefetch, ServeTerminateWorkers, Receives, ServerStart
  <2> QED BY <2>1, <2>2 DEF QuietStep, ServerMove, Moves, Goto
<1>6. ASSUME NEW w \in Workers, WorkerStep(w) PROVE Goal
  <2>1. w[1] \in Nodes /\ w \in WorkersOf(w[1])
    BY ThreadFacts
  <2>2. CASE Created(w) \/ AllCreated(w) \/ ExitWorker(w)
    BY <2>1, <2>2 DEF CrewStep
  <2>3. CASE SearchInVain(w) \/ StealNothing(w) \/ StealRequest(w) \/ HoldForReply(w)
             \/ StealReply(w) \/ GiveUp(w) \/ GoOn(w) \/ EndOfWork(w)
    <3>1. UNCHANGED Count
      BY <2>3 DEF SearchInVain, StealNothing, StealRequest, HoldForReply, StealReply, GiveUp,
         GoOn, EndOfWork, Count, Collectives, Crew
    <3>2. \E p \in SearchPlaces, q \in SearchPlaces \cup {"md_end"} : pc[w] = p /\ Goto(w, q)
      BY <2>3 DEF SearchInVain, StealNothing, StealRequest, HoldForReply, StealReply, GiveUp,
         GoOn, EndOfWork, Looked, StealOver, SearchPlaces
    <3> QED BY <2>1, <3>1, <3>2 DEF QuietStep, SearchMove, Moves, Goto
  <2>4. CASE PrefetchRequest(w) \/ NoRequest(w)
    BY <2>4 DEF PrefetchRequest, NoRequest, Count, Collectives, Crew
  <2> QED BY <1>6, <2>2, <2>3, <2>4 DEF WorkerStep
<1> QED BY <1>1, <1>2, <1>3, <1>4, <1>5, <1>6 DEF Next

(* A node that nothing happens to.                                         *)
NodeSame(n) ==
  /\ \A th \in WorkersOf(n) \cup {Server(n)} : pc'[th] = pc[th]
  /\ entered'[n] = entered[n] /\ inside'[n] = inside[n] /\ info'[n] = info[n]
  /\ work_created'[n] = work_created[n] /\ active_workers'[n] = active_workers[n]

LEMMA NodeKept ==
  ASSUME SetupInv, Same, NEW n \in Nodes, NodeInv(n), NodeSame(n)
  PROVE  NodeInv(n)'
<1>1. /\ Main(n) \in WorkersOf(n) /\ WorkersOf(n)' = WorkersOf(n)
  BY ThreadFacts DEF Same
<1>2. Others(n)' = Others(n) /\ Arrived(n)' = Arrived(n) /\ Present(n)' = Present(n)
  BY <1>1 DEF NodeSame, Others, Arrived, Present
<1>3. pc'[Main(n)] = pc[Main(n)] /\ pc'[Server(n)] = pc[Server(n)]
      /\ \A w \in Others(n) : pc'[w] = pc[w]
  BY <1>1 DEF NodeSame, Others
<1>4. PlacesOf(n)'
  BY <1>2, <1>3 DEF NodeInv, PlacesOf
<1>5. PhaseOf(n)'
  BY <1>3 DEF NodeInv, PhaseOf, NodeSame
<1>6. ArrivalOf(n)'
  BY <1>1, <1>2 DEF NodeInv, ArrivalOf, NodeSame
<1>7. DepartureOf(n)'
  BY <1>2, <1>3 DEF NodeInv, DepartureOf, NodeSame
<1> QED BY <1>4, <1>5, <1>6, <1>7 DEF NodeInv

(* One thread moves.                                                       *)
LEMMA OneThread ==
  ASSUME SetupInv, pc \in [Threads -> Places], NEW n \in Nodes,
         NEW th \in WorkersOf(n) \cup {Server(n)}, NEW q \in Places,
         pc' = [pc EXCEPT ![th] = q]
  PROVE  /\ pc' \in [Threads -> Places] /\ pc'[th] = q
         /\ \A t \in WorkersOf(n) \cup {Server(n)} : t # th => pc'[t] = pc[t]
         /\ \A m \in Nodes \ {n} : \A t \in WorkersOf(m) \cup {Server(m)} : pc'[t] = pc[t]
<1>1. \A m \in Nodes : \A t \in WorkersOf(m) \cup {Server(m)} : t \in Threads
  BY ThreadFacts
<1>2. \A m \in Nodes \ {n} : th \notin WorkersOf(m) \cup {Server(m)}
  BY ThreadFacts
<1> QED BY <1>1, <1>2

(* What a step has to establish about node k and the others.               *)
StepGood(k) ==
  /\ Domains' /\ NodeInv(k)'
  /\ \A n \in Nodes \ {k} : NodeSame(n)
  /\ \A n \in Nodes : entered'[n] >= entered[n]
  /\ \/ Phase(pc'[Main(k)]) = Phase(pc[Main(k)])
     \/ \A n \in Nodes : Phase(pc'[Main(k)]) <= entered[n]

LEMMA StepGoodKeeps ==
  ASSUME CrewInv, Same, setup' = setup, TargetInv', NEW k \in Nodes, StepGood(k)
  PROVE  CrewInv'
<1>1. SetupInv /\ SetupInv'
  BY DEF CrewInv, SetupInv
<1>2. ASSUME NEW n \in Nodes PROVE NodeInv(n)'
  BY <1>1, <1>2, NodeKept DEF CrewInv, StepGood
<1>3. InStep'
  <2> SUFFICES ASSUME NEW n \in Nodes, NEW m \in Nodes PROVE Phase(pc'[Main(n)]) <= entered'[m]
    BY DEF InStep, Same
  <2>1. Phase(pc[Main(n)]) <= entered[m] /\ entered'[m] >= entered[m] /\ entered[m] \in Nat /\ entered'[m] \in Nat
    BY DEF CrewInv, InStep, StepGood, Domains, Same
  <2>2. \A p : Phase(p) \in 0 .. 8
    BY DEF Phase
  <2>3. n # k => pc'[Main(n)] = pc[Main(n)]
    BY <1>1, ThreadFacts DEF StepGood, NodeSame
  <2> HIDE DEF Phase
  <2> QED BY <2>1, <2>2, <2>3 DEF StepGood
<1> QED BY <1>1, <1>2, <1>3 DEF CrewInv, StepGood, Same

(* A step in which one thread moves.                                       *)
OtherNodesCount(k) ==
  \A n \in Nodes \ {k} :
    /\ entered'[n] = entered[n] /\ inside'[n] = inside[n] /\ info'[n] = info[n]
    /\ work_created'[n] = work_created[n] /\ active_workers'[n] = active_workers[n]

LEMMA ServerMoveGood ==
  ASSUME CrewInv, Same, NEW k \in Nodes, UNCHANGED Count, ServerMove(k)
  PROVE  StepGood(k)
<1> DEFINE th == Server(k)
<1>1. PICK p \in {"flag", "receive", "reply"}, q \in {"flag", "receive", "reply", "exited"} :
         pc[th] = p /\ pc' = [pc EXCEPT ![th] = q]
  BY DEF ServerMove, Moves
<1>2. /\ SetupInv /\ Domains /\ NodeInv(k) /\ q \in Places
      /\ Main(k) \in WorkersOf(k) /\ th \notin WorkersOf(k) /\ WorkersOf(k)' = WorkersOf(k)
  BY ThreadFacts DEF CrewInv, Places, Same
<1>3. /\ pc' \in [Threads -> Places] /\ pc'[th] = q
      /\ \A t \in WorkersOf(k) : pc'[t] = pc[t]
      /\ \A m \in Nodes \ {k} : \A t \in WorkersOf(m) \cup {Server(m)} : pc'[t] = pc[t]
  BY <1>1, <1>2, OneThread DEF Domains
<1>4. Others(k)' = Others(k) /\ Arrived(k)' = Arrived(k) /\ Present(k)' = Present(k)
  BY <1>2, <1>3 DEF Others, Arrived, Present
<1>5. pc'[Main(k)] = pc[Main(k)] /\ \A w \in Others(k) : pc'[w] = pc[w]
  BY <1>2, <1>3 DEF Others
<1>6. PlacesOf(k)'
  BY <1>1, <1>2, <1>3, <1>4, <1>5 DEF NodeInv, PlacesOf, ServerPlaces
<1>7. PhaseOf(k)' /\ ArrivalOf(k)' /\ DepartureOf(k)'
  BY <1>1, <1>2, <1>3, <1>4, <1>5 DEF NodeInv, PhaseOf, ArrivalOf, DepartureOf, Count
<1> QED BY <1>2, <1>3, <1>5, <1>6, <1>7 DEF StepGood, NodeInv, NodeSame, Domains, Same, Count

(* Vp 0 moves, and whoever is suspended, counted or exited stays so.       *)
LEMMA MainMoveGood ==
  ASSUME CrewInv, Same, NEW k \in Nodes, UNCHANGED Count, MainMove(k)
  PROVE  StepGood(k)
<1> DEFINE th == Main(k)
           p == pc[th]
           q == pc'[th]
           Late == {"start", "app", "search", "terminate_workers", "md_end", "shutdown_server", "join"}
<1>a. /\ SetupInv /\ Domains /\ NodeInv(k)
      /\ th \in WorkersOf(k) /\ Server(k) \notin WorkersOf(k) /\ WorkersOf(k)' = WorkersOf(k)
      /\ th \in Threads
  BY ThreadFacts DEF CrewInv, Same
<1>1. /\ p \in Late /\ pc' = [pc EXCEPT ![th] = q]
      /\ \/ p = "start" /\ q = IF k = 0 THEN "app" ELSE "search"
         \/ k = 0 /\ p = "app" /\ q = "terminate_workers"
         \/ k = 0 /\ p = "terminate_workers" /\ q = "md_end"
         \/ p = "shutdown_server" /\ q = "join"
  BY <1>a DEF MainMove, Moves, Domains
<1>2. q \in Places
  BY <1>1 DEF Places
<1> HIDE DEF q
<1>3. /\ pc' \in [Threads -> Places] /\ pc'[th] = q
      /\ \A t \in WorkersOf(k) \cup {Server(k)} : t # th => pc'[t] = pc[t]
      /\ \A m \in Nodes \ {k} : \A t \in WorkersOf(m) \cup {Server(m)} : pc'[t] = pc[t]
  BY <1>a, <1>1, <1>2, OneThread DEF Domains
<1>4. p \notin BeforeArrival \cup {"created"} /\ q \notin BeforeArrival \cup {"created"}
  BY <1>1 DEF BeforeArrival, Booting
<1>5. Others(k)' = Others(k) /\ Arrived(k)' = Arrived(k) /\ Present(k)' = Present(k)
  BY <1>a, <1>3, <1>4 DEF Others, Arrived, Present
<1>6. pc'[Server(k)] = pc[Server(k)] /\ \A w \in Others(k) : pc'[w] = pc[w]
  BY <1>a, <1>3 DEF Others
<1> HIDE DEF th
<1>7. PlacesOf(k)'
  <2>1. p \notin Booting /\ q \notin Booting /\ q \in MainPlaces /\ (q \in {"app", "terminate_workers"} => k = 0)
        /\ (k = 0 => q \notin {"search", "await", "held", "test"})
    BY <1>1 DEF Booting, MainPlaces
  <2> QED BY <1>a, <1>3, <1>5, <1>6, <2>1 DEF NodeInv, PlacesOf, th
<1>8. Phase(q) = Phase(p)
  BY <1>1 DEF Phase
<1>9. PhaseOf(k)'
  <2>1. p \notin CollectivePoints /\ q \notin CollectivePoints
    BY <1>1 DEF CollectivePoints
  <2> QED BY <1>a, <1>3, <1>4, <1>8, <2>1 DEF NodeInv, PhaseOf, Count, th
<1>10. ArrivalOf(k)'
  <2>1. Arrived(k) = WorkersOf(k)
    BY <1>a, <1>4 DEF NodeInv, ArrivalOf, th
  <2> QED BY <1>a, <1>5, <2>1 DEF NodeInv, ArrivalOf, Count
<1>11. DepartureOf(k)'
  <2>1. /\ p \notin Booting /\ (q \in Idle => p \in Idle) /\ q \notin {"last", "exited"}
    BY <1>1 DEF Booting, Idle
  <2> QED BY <1>a, <1>3, <1>5, <1>6, <2>1 DEF NodeInv, DepartureOf, Count, th
<1> QED BY <1>a, <1>3, <1>7, <1>8, <1>9, <1>10, <1>11 DEF StepGood, NodeInv, NodeSame, Domains, Same, Count, th

(* Searching does not change where a worker counts.                        *)
LEMMA SearchMoveGood ==
  ASSUME CrewInv, Same, NEW k \in Nodes, UNCHANGED Count,
         NEW w \in WorkersOf(k), SearchMove(w)
  PROVE  StepGood(k)
<1> DEFINE main == Main(k)
           After == SearchPlaces \cup {"md_end"}
<1>a. /\ SetupInv /\ Domains /\ NodeInv(k)
      /\ main \in WorkersOf(k) /\ Server(k) \notin WorkersOf(k) /\ WorkersOf(k)' = WorkersOf(k)
  BY ThreadFacts DEF CrewInv, Same
<1>1. PICK p \in SearchPlaces, q \in After : pc[w] = p /\ pc' = [pc EXCEPT ![w] = q]
  BY DEF SearchMove, Moves
<1>2. /\ p \in After /\ q \in Places
      /\ \A s \in After : /\ s \notin BeforeArrival \cup {"created"} /\ s # "exited" /\ s \notin Idle
                          /\ Phase(s) = 6 /\ s \in MainPlaces \cap OtherPlaces
                          /\ s \notin CollectivePoints /\ s \notin Booting /\ s # "unborn"
                          /\ s \notin {"app", "terminate_workers"}
  BY DEF Places, BeforeArrival, Booting, Idle, Phase, MainPlaces, OtherPlaces, CollectivePoints,
     SearchPlaces
<1>3. /\ pc' \in [Threads -> Places] /\ pc'[w] = q
      /\ \A t \in WorkersOf(k) \cup {Server(k)} : t # w => pc'[t] = pc[t]
      /\ \A m \in Nodes \ {k} : \A t \in WorkersOf(m) \cup {Server(m)} : pc'[t] = pc[t]
  BY <1>a, <1>1, <1>2, OneThread DEF Domains
<1>4. Others(k)' = Others(k)
  BY <1>a DEF Others
<1>5. Arrived(k)' = Arrived(k)
  BY <1>a, <1>1, <1>2, <1>3 DEF Arrived
<1>6. Present(k)' = Present(k)
  BY <1>a, <1>1, <1>2, <1>3 DEF Present
<1>7. /\ pc'[Server(k)] = pc[Server(k)]
      /\ w # main => pc'[main] = pc[main]
      /\ \A t \in Others(k) : pc'[t] = pc[t] \/ (t = w /\ pc'[t] = q)
  BY <1>a, <1>3 DEF Others
<1>8. Phase(pc'[main]) = Phase(pc[main]) /\ (pc'[main] \in Booting <=> pc[main] \in Booting)
      /\ (pc'[main] \in CollectivePoints <=> pc[main] \in CollectivePoints)
      /\ (pc'[main] \in BeforeArrival <=> pc[main] \in BeforeArrival)
      /\ (pc'[main] \in Idle <=> pc[main] \in Idle)
  BY <1>1, <1>2, <1>3, <1>7
<1>9. PlacesOf(k)'
  <2>1. pc'[main] \in MainPlaces
    BY <1>a, <1>2, <1>3, <1>7 DEF NodeInv, PlacesOf
  <2>2. \A t \in Others(k) : pc'[t] \in OtherPlaces /\ (pc'[t] = "unborn" <=> pc[t] = "unborn")
    BY <1>a, <1>1, <1>2, <1>7 DEF NodeInv, PlacesOf
  <2>3. pc'[main] \in {"app", "terminate_workers"} => pc'[main] = pc[main]
    BY <1>2, <1>3, <1>7
  <2>4. k = 0 => w # main
    BY <1>a, <1>1 DEF NodeInv, PlacesOf, SearchPlaces
  <2> QED BY <1>a, <1>4, <1>7, <1>8, <2>1, <2>2, <2>3, <2>4 DEF NodeInv, PlacesOf
<1>10. PhaseOf(k)'
  <2>1. pc'[main] \notin BeforeArrival \ {"known", "worker"} <=> pc[main] \notin BeforeArrival \ {"known", "worker"}
    BY <1>1, <1>2, <1>3, <1>7
  <2> HIDE DEF Phase
  <2> QED BY <1>a, <1>8, <2>1 DEF NodeInv, PhaseOf, Count
<1>11. ArrivalOf(k)'
  <2>1. Arrived(k) = WorkersOf(k)
    BY <1>a, <1>1, <1>2 DEF NodeInv, ArrivalOf
  <2> QED BY <1>a, <1>5, <2>1 DEF NodeInv, ArrivalOf, Count
<1>12. DepartureOf(k)'
  <2>1. pc[main] \in Idle => w = main
    BY <1>a, <1>1, <1>2 DEF NodeInv, DepartureOf, Others
  <2>2. pc[main] \notin Idle
    BY <1>1, <1>2, <2>1
  <2>3. pc'[main] \notin {"last", "exited"}
    BY <1>8, <2>2 DEF Idle
  <2> QED BY <1>a, <1>6, <1>8, <2>2, <2>3 DEF NodeInv, DepartureOf, Count
<1> QED BY <1>a, <1>3, <1>8, <1>9, <1>10, <1>11, <1>12 DEF StepGood, NodeInv, NodeSame, Domains, Same, Count

(* Entering and leaving a collective.                                      *)
LEMMA EnterGood ==
  ASSUME CrewInv, Same, NEW k \in Nodes, EnterCollective(k)
  PROVE  StepGood(k)
<1>a. SetupInv /\ Domains /\ NodeInv(k) /\ WorkersOf(k)' = WorkersOf(k)
  BY DEF CrewInv, Same
<1>1. /\ pc[Main(k)] \in CollectivePoints /\ ~inside[k] /\ UNCHANGED <<pc, info, work_created, active_workers>>
      /\ inside' = [inside EXCEPT ![k] = TRUE]
      /\ entered' = [entered EXCEPT ![k] = @ + 1]
  BY DEF EnterCollective, Crew
<1>2. Others(k)' = Others(k) /\ Arrived(k)' = Arrived(k) /\ Present(k)' = Present(k)
  BY <1>a, <1>1 DEF Others, Arrived, Present
<1>3. PlacesOf(k)' /\ ArrivalOf(k)' /\ DepartureOf(k)'
  BY <1>a, <1>1, <1>2 DEF NodeInv, PlacesOf, ArrivalOf, DepartureOf
<1>4. Phase(pc[Main(k)]) \in Nat
  BY DEF Phase
<1>5. PhaseOf(k)'
  BY <1>a, <1>1, <1>4 DEF NodeInv, PhaseOf, Domains
<1>6. Domains'
  BY <1>a, <1>1 DEF Domains, Same
<1>7. \A n \in Nodes : entered'[n] >= entered[n]
  BY <1>a, <1>1 DEF Domains
<1> QED BY <1>a, <1>1, <1>3, <1>5, <1>6, <1>7 DEF StepGood, NodeInv, NodeSame, Domains

LEMMA CollectiveOrder ==
  ASSUME NEW p \in CollectivePoints
  PROVE  LET q == AfterCollective(p) IN
         /\ q \in MainPlaces /\ q \in Places /\ Phase(q) = Phase(p) + 1
         /\ q \notin {"app", "terminate_workers"} \cup SearchPlaces
         /\ q \in Booting <=> p \in Booting
         /\ p \notin BeforeArrival \cup {"created"} <=> q \notin BeforeArrival \cup {"created"}
         /\ p \notin BeforeArrival \cup {"created"} <=> p \notin BeforeArrival
         /\ q \notin BeforeArrival \cup {"created"} <=> q \notin BeforeArrival
         /\ q \notin BeforeArrival \ {"known", "worker"} => p \notin BeforeArrival \ {"known", "worker"}
         /\ q \in Idle <=> p \in Idle
         /\ q \in {"last", "exited"} <=> p \in {"last", "exited"}
<1> DEFINE q == AfterCollective(p)
<1>1. \/ p = "opt" /\ q = "md_init"
      \/ p = "aslr" /\ q = "workers"
      \/ p = "workers" /\ q = "gathered"
      \/ p = "gathered" /\ q = "node_info"
      \/ p = "known" /\ q = "worker"
      \/ p = "rendezvous" /\ q = "start"
      \/ p = "all_idle" /\ q = "shutdown_server"
      \/ p = "last" /\ q = "exited"
  BY DEF AfterCollective, CollectivePoints
<1> HIDE DEF q
<1>2. Phase(q) = Phase(p) + 1
  BY <1>1 DEF Phase
<1>3. q \in MainPlaces /\ q \in Places
  BY <1>1 DEF CollectivePoints, MainPlaces, Places
<1> QED BY <1>1, <1>2, <1>3 DEF q, SearchPlaces, Booting, BeforeArrival, Idle

LEMMA LeaveGood ==
  ASSUME CrewInv, Same, NEW k \in Nodes, LeaveCollective(k)
  PROVE  StepGood(k)
<1> DEFINE th == Main(k)
           p == pc[th]
           q == AfterCollective(p)
<1>a. /\ SetupInv /\ Domains /\ NodeInv(k)
      /\ th \in WorkersOf(k) /\ Server(k) \notin WorkersOf(k) /\ WorkersOf(k)' = WorkersOf(k)
  BY ThreadFacts DEF CrewInv, Same
<1>1. /\ inside[k] /\ \A m \in Nodes : entered[m] >= entered[k]
      /\ inside' = [inside EXCEPT ![k] = FALSE] /\ pc' = [pc EXCEPT ![th] = q]
      /\ UNCHANGED <<entered, info, work_created, active_workers>>
  BY DEF LeaveCollective, Goto, Crew
<1>b. p \in CollectivePoints
  BY <1>a, <1>1 DEF NodeInv, PhaseOf
<1>2. /\ q \in MainPlaces /\ q \in Places /\ Phase(q) = Phase(p) + 1
      /\ q \notin {"app", "terminate_workers"} \cup SearchPlaces
      /\ q \in Booting <=> p \in Booting
      /\ p \notin BeforeArrival \cup {"created"} <=> q \notin BeforeArrival \cup {"created"}
      /\ p \notin BeforeArrival \cup {"created"} <=> p \notin BeforeArrival
      /\ q \notin BeforeArrival \cup {"created"} <=> q \notin BeforeArrival
      /\ q \notin BeforeArrival \ {"known", "worker"} => p \notin BeforeArrival \ {"known", "worker"}
      /\ q \in Idle <=> p \in Idle
      /\ q \in {"last", "exited"} <=> p \in {"last", "exited"}
  BY <1>b, CollectiveOrder
<1> HIDE DEF q
<1>3. /\ pc' \in [Threads -> Places] /\ pc'[th] = q
      /\ \A t \in WorkersOf(k) \cup {Server(k)} : t # th => pc'[t] = pc[t]
      /\ \A m \in Nodes \ {k} : \A t \in WorkersOf(m) \cup {Server(m)} : pc'[t] = pc[t]
  BY <1>a, <1>1, <1>2, OneThread DEF Domains
<1>4. Others(k)' = Others(k) /\ Arrived(k)' = Arrived(k) /\ Present(k)' = Present(k)
  BY <1>a, <1>2, <1>3 DEF Others, Arrived, Present
<1>5. pc'[Server(k)] = pc[Server(k)] /\ \A w \in Others(k) : pc'[w] = pc[w]
  BY <1>a, <1>3 DEF Others
<1> HIDE DEF th
<1>6. PlacesOf(k)'
  BY <1>a, <1>2, <1>3, <1>4, <1>5 DEF NodeInv, PlacesOf, SearchPlaces, th
<1>7. Phase(p) \in Nat
  BY DEF Phase
<1>8. PhaseOf(k)'
  BY <1>a, <1>1, <1>2, <1>3, <1>7 DEF NodeInv, PhaseOf, Domains, th
<1>9. ArrivalOf(k)'
  <2>1. \A w \in WorkersOf(k) : pc'[w] \notin BeforeArrival \cup {"created"} => pc[w] \notin BeforeArrival \cup {"created"}
    BY <1>2, <1>3
  <2> QED BY <1>a, <1>1, <1>4, <2>1 DEF NodeInv, ArrivalOf
<1>10. DepartureOf(k)'
  BY <1>a, <1>1, <1>2, <1>3, <1>4, <1>5 DEF NodeInv, DepartureOf, th
<1>11. \A n \in Nodes : Phase(pc'[Main(k)]) <= entered[n]
  <2>1. entered[k] = Phase(p) + 1
    BY <1>a, <1>1 DEF NodeInv, PhaseOf, th
  <2> QED BY <1>1, <1>2, <1>3, <2>1 DEF th
<1>12. Domains'
  BY <1>a, <1>1, <1>3 DEF Domains, Same
<1>13. \A n \in Nodes : entered'[n] >= entered[n]
  BY <1>a, <1>1 DEF Domains
<1> QED BY <1>1, <1>3, <1>6, <1>8, <1>9, <1>10, <1>11, <1>12, <1>13, <1>a DEF StepGood, NodeInv, NodeSame, Domains

(* Vp 0 goes on between two collectives.                                   *)
LEMMA MainGoes ==
  ASSUME CrewInv, Same, NEW k \in Nodes, NEW q \in MainPlaces \cap Places,
         pc' = [pc EXCEPT ![Main(k)] = q],
         UNCHANGED <<entered, inside, work_created, active_workers>>,
         info' \in [Nodes -> BOOLEAN], \A n \in Nodes \ {k} : info'[n] = info[n],
         q \notin BeforeArrival \ {"known", "worker"} => info'[k],
         pc[Main(k)] \notin CollectivePoints \cup Booting,
         q \notin Booting \cup SearchPlaces \cup {"app", "terminate_workers"},
         q \in BeforeArrival <=> pc[Main(k)] \in BeforeArrival,
         q \notin BeforeArrival \cup {"created"} => Arrived(k) = WorkersOf(k),
         Phase(q) = Phase(pc[Main(k)]),
         q \in Idle => \A w \in Others(k) : pc[w] = "exited",
         q \in {"last", "exited"} => pc[Server(k)] = "exited"
  PROVE  StepGood(k)
<1> DEFINE th == Main(k)
           p == pc[th]
<1>a. /\ SetupInv /\ Domains /\ NodeInv(k)
      /\ th \in WorkersOf(k) /\ Server(k) \notin WorkersOf(k) /\ WorkersOf(k)' = WorkersOf(k)
  BY ThreadFacts DEF CrewInv, Same
<1>1. /\ pc' \in [Threads -> Places] /\ pc'[th] = q
      /\ \A t \in WorkersOf(k) \cup {Server(k)} : t # th => pc'[t] = pc[t]
      /\ \A m \in Nodes \ {k} : \A t \in WorkersOf(m) \cup {Server(m)} : pc'[t] = pc[t]
  BY <1>a, OneThread DEF Domains
<1>2. Others(k)' = Others(k) /\ Arrived(k)' = Arrived(k) /\ Present(k)' = Present(k)
  BY <1>a, <1>1 DEF Others, Arrived, Present
<1>3. pc'[Server(k)] = pc[Server(k)] /\ \A w \in Others(k) : pc'[w] = pc[w]
  BY <1>a, <1>1 DEF Others
<1> HIDE DEF th
<1>4. PlacesOf(k)'
  BY <1>a, <1>1, <1>2, <1>3 DEF NodeInv, PlacesOf, SearchPlaces, th
<1>5. PhaseOf(k)'
  BY <1>a, <1>1 DEF NodeInv, PhaseOf, th
<1>6. ArrivalOf(k)'
  BY <1>a, <1>1, <1>2 DEF NodeInv, ArrivalOf, th
<1>7. DepartureOf(k)'
  BY <1>a, <1>1, <1>2, <1>3 DEF NodeInv, DepartureOf, th
<1>8. Domains' /\ \A n \in Nodes : entered'[n] >= entered[n]
  BY <1>a, <1>1 DEF Domains, Same
<1> QED BY <1>a, <1>1, <1>4, <1>5, <1>6, <1>7, <1>8 DEF StepGood, NodeInv, NodeSame, th

LEMMA FillGood ==
  ASSUME CrewInv, Same, NEW k \in Nodes, FillNodeInfo(k)
  PROVE  StepGood(k)
<1>1. /\ pc[Main(k)] = "node_info" /\ pc' = [pc EXCEPT ![Main(k)] = "known"]
      /\ info' = [info EXCEPT ![k] = TRUE]
      /\ UNCHANGED <<entered, inside, work_created, active_workers>>
  BY DEF FillNodeInfo, Goto, Collectives
<1>2. info' \in [Nodes -> BOOLEAN] /\ \A n \in Nodes \ {k} : info'[n] = info[n]
  BY <1>1 DEF CrewInv, Domains
<1>3. "known" \in MainPlaces \cap Places /\ Phase("known") = Phase("node_info")
  BY DEF MainPlaces, Places, CollectivePoints, Phase
<1>4. info'[k]
  BY <1>1 DEF CrewInv, Domains
<1> QED BY <1>1, <1>2, <1>3, <1>4, MainGoes
        DEF BeforeArrival, Booting, SearchPlaces, CollectivePoints, Idle

(* The sets that are counted are finite.                                   *)
LEMMA PresentCount ==
  ASSUME CrewInv, NEW k \in Nodes
  PROVE  /\ IsFiniteSet(Present(k)) /\ Main(k) \in Present(k)
         /\ IsFiniteSet(Arrived(k)) /\ Arrived(k) \subseteq WorkersOf(k)
<1>1. IsFiniteSet(WorkersOf(k)) /\ Main(k) \in WorkersOf(k)
  BY WorkersCount, ThreadFacts DEF CrewInv
<1> QED BY <1>1, FS_Subset DEF Present, Arrived

LEMMA LastGood ==
  ASSUME CrewInv, Same, NEW k \in Nodes, LastOfNode(k)
  PROVE  StepGood(k)
<1>1. /\ pc[Main(k)] = "md_end" /\ pc' = [pc EXCEPT ![Main(k)] = "all_idle"]
      /\ active_workers[k] = 1
      /\ UNCHANGED Count
  BY DEF LastOfNode, Goto, Collectives, Crew, Count
<1>2. Cardinality(Present(k)) = 1
  BY <1>1 DEF CrewInv, NodeInv, DepartureOf, Booting
<1>3. Present(k) = {Main(k)}
  <2>1. PICK x : Present(k) = {x}
    BY <1>2, PresentCount, FS_Singleton
  <2> QED BY <2>1, PresentCount
<1>4. \A w \in Others(k) : pc[w] = "exited"
  BY <1>3 DEF Others, Present
<1>5. info[k] /\ Arrived(k) = WorkersOf(k)
  <2>1. Main(k) \in WorkersOf(k)
    BY ThreadFacts DEF CrewInv
  <2> QED BY <1>1, <2>1 DEF CrewInv, NodeInv, PhaseOf, ArrivalOf, BeforeArrival, Booting
<1>6. "all_idle" \in MainPlaces \cap Places /\ Phase("all_idle") = Phase("md_end")
  BY DEF MainPlaces, Places, CollectivePoints, Phase
<1>7. info' \in [Nodes -> BOOLEAN] /\ \A n \in Nodes : info'[n] = info[n]
  BY <1>1 DEF CrewInv, Domains, Count
<1> QED BY <1>1, <1>4, <1>5, <1>6, <1>7, MainGoes
        DEF BeforeArrival, Booting, SearchPlaces, CollectivePoints, Count

LEMMA JoinGood ==
  ASSUME CrewInv, Same, NEW k \in Nodes, JoinServer(k)
  PROVE  StepGood(k)
<1>1. /\ pc[Main(k)] = "join" /\ pc' = [pc EXCEPT ![Main(k)] = "last"]
      /\ pc[Server(k)] = "exited"
      /\ UNCHANGED Count
  BY DEF JoinServer, Goto, Collectives, Crew, Count
<1>4. \A w \in Others(k) : pc[w] = "exited"
  BY <1>1 DEF CrewInv, NodeInv, DepartureOf, Idle
<1>5. info[k] /\ Arrived(k) = WorkersOf(k)
  <2>1. Main(k) \in WorkersOf(k)
    BY ThreadFacts DEF CrewInv
  <2> QED BY <1>1, <2>1 DEF CrewInv, NodeInv, PhaseOf, ArrivalOf, BeforeArrival, Booting
<1>6. "last" \in MainPlaces \cap Places /\ Phase("last") = Phase("join")
  BY DEF MainPlaces, Places, CollectivePoints, Phase
<1>7. info' \in [Nodes -> BOOLEAN] /\ \A n \in Nodes : info'[n] = info[n]
  BY <1>1 DEF CrewInv, Domains, Count
<1> QED BY <1>1, <1>4, <1>5, <1>6, <1>7, MainGoes
        DEF BeforeArrival, Booting, SearchPlaces, CollectivePoints, Count

(* md_init creates the server and the other workers.                       *)
LEMMA MdInitGood ==
  ASSUME CrewInv, Same, NEW k \in Nodes, MdInit(k)
  PROVE  StepGood(k)
<1> DEFINE th == Main(k)
<1>a. /\ SetupInv /\ Domains /\ NodeInv(k)
      /\ th \in WorkersOf(k) /\ Server(k) \notin WorkersOf(k) /\ WorkersOf(k)' = WorkersOf(k)
      /\ \A n \in Nodes : \A t \in WorkersOf(n) \cup {Server(n)} : t \in Threads
      /\ \A n \in Nodes \ {k} : \A t \in WorkersOf(n) \cup {Server(n)} :
           t \notin WorkersOf(k) \cup {Server(k)}
  BY ThreadFacts DEF CrewInv, Same
<1>1. /\ pc[th] = "md_init"
      /\ pc' = [t \in Threads |-> IF t = th THEN "aslr"
                                  ELSE IF t = Server(k) THEN ServerStart
                                  ELSE IF t \in WorkersOf(k) THEN "worker"
                                  ELSE pc[t]]
      /\ active_workers' = [active_workers EXCEPT ![k] = kthreads[k]]
      /\ UNCHANGED <<entered, inside, info, work_created>>
  BY DEF MdInit, Collectives
<1>2. ServerStart \in {"flag", "receive"}
  BY DEF ServerStart
<1>3. /\ pc'[th] = "aslr" /\ pc'[Server(k)] = ServerStart
      /\ \A w \in Others(k) : pc'[w] = "worker"
      /\ \A n \in Nodes \ {k} : \A t \in WorkersOf(n) \cup {Server(n)} : pc'[t] = pc[t]
  BY <1>a, <1>1 DEF Others
<1>4. pc' \in [Threads -> Places]
  BY <1>a, <1>1, <1>2 DEF Domains, Places, CollectivePoints
<1>5. Others(k)' = Others(k) /\ \A w \in Others(k) : pc[w] = "unborn"
  BY <1>a, <1>1 DEF Others, NodeInv, PlacesOf, Booting
<1>6. Arrived(k) = {} /\ Arrived(k)' = {} /\ Present(k)' = WorkersOf(k)
  BY <1>a, <1>1, <1>3, <1>5 DEF Arrived, Present, Others, BeforeArrival, Booting
<1> HIDE DEF th
<1>7. PlacesOf(k)'
  BY <1>2, <1>3, <1>5 DEF PlacesOf, MainPlaces, OtherPlaces, ServerPlaces, CollectivePoints, Booting, th
<1>8. PhaseOf(k)'
  <2>1. entered[k] = Phase("md_init") + 0 /\ ~inside[k]
    BY <1>a, <1>1 DEF NodeInv, PhaseOf, CollectivePoints, th
  <2>2. Phase("aslr") = Phase("md_init")
    BY DEF Phase
  <2> QED BY <1>1, <1>3, <2>1, <2>2 DEF PhaseOf, BeforeArrival, Booting, th
<1>9. ArrivalOf(k)'
  <2>1. \A w \in WorkersOf(k) : pc'[w] \in BeforeArrival
    BY <1>3 DEF Others, BeforeArrival, Booting, th
  <2> QED BY <1>a, <1>1, <1>6, <2>1 DEF ArrivalOf, NodeInv
<1>10. DepartureOf(k)'
  <2>1. active_workers'[k] = Cardinality(Present(k)')
    BY <1>a, <1>1, <1>6, WorkersCount DEF Domains
  <2> QED BY <1>3, <2>1 DEF DepartureOf, Idle, th
<1>11. Phase(pc'[Main(k)]) = Phase(pc[Main(k)])
  BY <1>1, <1>3 DEF Phase, th
<1>12. Domains'
  <2>1. kthreads[k] \in Int
    BY <1>a, SetupFacts
  <2> QED BY <1>a, <1>1, <1>4, <2>1 DEF Domains, Same
<1>13. \A n \in Nodes : entered'[n] >= entered[n]
  BY <1>a, <1>1 DEF Domains
<1> QED BY <1>a, <1>1, <1>3, <1>7, <1>8, <1>9, <1>10, <1>11, <1>12, <1>13
        DEF StepGood, NodeInv, NodeSame, Domains

(* A worker of node k goes on, in the rendezvous or at the end.            *)
LEMMA WorkerGoes ==
  ASSUME CrewInv, Same, NEW k \in Nodes, NEW w \in WorkersOf(k), NEW q \in Places,
         pc' = [pc EXCEPT ![w] = q],
         UNCHANGED <<entered, inside, info>>,
         work_created' \in [Nodes -> Nat], active_workers' \in [Nodes -> Int],
         \A n \in Nodes \ {k} : /\ work_created'[n] = work_created[n]
                                /\ active_workers'[n] = active_workers[n],
         w # Main(k) => q \in OtherPlaces \ {"unborn"} /\ pc[w] \notin {"unborn", "exited"},
         w = Main(k) => /\ pc[w] \in {"worker", "created"}
                        /\ q \in {"created", "rendezvous"},
         work_created'[k] = Cardinality(Arrived(k)'),
         active_workers'[k] = Cardinality(Present(k)'),
         \A t \in WorkersOf(k) : pc'[t] \notin BeforeArrival \cup {"created"} =>
           Arrived(k)' = WorkersOf(k)
  PROVE  StepGood(k)
<1> DEFINE main == Main(k)
<1>a. /\ SetupInv /\ Domains /\ NodeInv(k)
      /\ main \in WorkersOf(k) /\ Server(k) \notin WorkersOf(k) /\ WorkersOf(k)' = WorkersOf(k)
  BY ThreadFacts DEF CrewInv, Same
<1>1. /\ pc' \in [Threads -> Places] /\ pc'[w] = q
      /\ \A t \in WorkersOf(k) \cup {Server(k)} : t # w => pc'[t] = pc[t]
      /\ \A m \in Nodes \ {k} : \A t \in WorkersOf(m) \cup {Server(m)} : pc'[t] = pc[t]
  BY <1>a, OneThread DEF Domains
<1>2. /\ Others(k)' = Others(k) /\ pc'[Server(k)] = pc[Server(k)]
      /\ \A t \in Others(k) : pc'[t] = pc[t] \/ (t = w /\ pc'[t] = q)
  BY <1>a, <1>1 DEF Others
<1>3. \/ w # main /\ pc'[main] = pc[main]
      \/ w = main /\ pc[main] \in {"worker", "created"} /\ pc'[main] \in {"created", "rendezvous"}
  BY <1>a, <1>1
<1> HIDE DEF main
<1>4. PlacesOf(k)'
  <2>1. /\ pc'[main] \in MainPlaces
        /\ pc'[main] \in Booting <=> pc[main] \in Booting
        /\ pc'[main] \in {"app", "terminate_workers"} => k = 0
        /\ k = 0 => pc'[main] \notin {"search", "await", "held", "test"}
    BY <1>a, <1>3 DEF NodeInv, PlacesOf, MainPlaces, CollectivePoints, Booting, main
  <2>2. \A t \in Others(k) : pc'[t] \in OtherPlaces /\ (pc'[t] = "unborn" <=> pc[t] = "unborn")
    BY <1>a, <1>2 DEF NodeInv, PlacesOf, Others
  <2> QED BY <1>a, <1>2, <2>1, <2>2 DEF NodeInv, PlacesOf, main
<1>5. Phase(pc'[main]) = Phase(pc[main])
  BY <1>3 DEF Phase
<1>6. PhaseOf(k)'
  <2>1. w = main => pc[main] \notin CollectivePoints
    BY <1>3 DEF CollectivePoints
  <2>2. inside[k] => w # main
    BY <1>a, <2>1 DEF NodeInv, PhaseOf, main
  <2>3. \/ pc'[main] = pc[main]
        \/ pc[main] \in {"worker", "created"}
    BY <1>3
  <2>4. pc[main] = "worker" => info[k]
    BY <1>a DEF NodeInv, PhaseOf, main, BeforeArrival, Booting
  <2>5. pc[main] = "created" => info[k]
    BY <1>a DEF NodeInv, PhaseOf, main, BeforeArrival, Booting
  <2> HIDE DEF Phase
  <2> QED BY <1>a, <1>3, <1>5, <2>2, <2>3, <2>4, <2>5 DEF NodeInv, PhaseOf, main
<1>7. ArrivalOf(k)'
  BY <1>a DEF ArrivalOf
<1>8. DepartureOf(k)'
  <2>1. pc'[main] \in Idle => w # main /\ pc[main] \in Idle
    BY <1>3 DEF Idle
  <2>2. pc[main] \in Idle => w = main
    BY <1>a DEF NodeInv, DepartureOf, Others, main
  <2>3. pc'[main] \notin Idle
    BY <2>1, <2>2
  <2> QED BY <1>a, <2>3 DEF DepartureOf, Idle, main
<1>9. Domains' /\ \A n \in Nodes : entered'[n] >= entered[n]
  BY <1>a, <1>1 DEF Domains, Same
<1> QED BY <1>a, <1>1, <1>4, <1>5, <1>6, <1>7, <1>8, <1>9 DEF StepGood, NodeInv, NodeSame, main

LEMMA Booted ==
  ASSUME CrewInv, NEW k \in Nodes, NEW w \in WorkersOf(k), pc[w] \notin {"unborn", "opt", "md_init"}
  PROVE  /\ pc[Main(k)] \notin Booting
         /\ active_workers[k] = Cardinality(Present(k))
<1>1. pc[Main(k)] \notin Booting
  BY DEF CrewInv, NodeInv, PlacesOf, Others, Booting
<1> QED BY <1>1 DEF CrewInv, NodeInv, DepartureOf

LEMMA CreatedGood ==
  ASSUME CrewInv, Same, NEW k \in Nodes, NEW w \in WorkersOf(k), Created(w)
  PROVE  StepGood(k)
<1>a. SetupInv /\ Domains /\ NodeInv(k) /\ WorkersOf(k)' = WorkersOf(k) /\ w[1] = k /\ w \in Threads
  BY ThreadFacts DEF CrewInv, Same
<1>1. /\ pc[w] = "worker" /\ pc' = [pc EXCEPT ![w] = "created"]
      /\ work_created' = [work_created EXCEPT ![k] = @ + 1]
      /\ UNCHANGED <<entered, inside, info, active_workers>>
  BY <1>a DEF Created, Goto, Collectives
<1>2. /\ pc'[w] = "created" /\ \A t \in WorkersOf(k) : t # w => pc'[t] = pc[t]
  BY <1>a, <1>1, ThreadFacts DEF Domains
<1>3. Arrived(k)' = Arrived(k) \cup {w} /\ w \notin Arrived(k)
  BY <1>a, <1>1, <1>2 DEF Arrived, BeforeArrival, Booting
<1>4. Present(k)' = Present(k)
  BY <1>a, <1>1, <1>2 DEF Present
<1>5. work_created'[k] = Cardinality(Arrived(k)')
  <2>1. work_created[k] = Cardinality(Arrived(k)) /\ work_created'[k] = work_created[k] + 1
    BY <1>a, <1>1 DEF Domains, NodeInv, ArrivalOf
  <2>2. Cardinality(Arrived(k) \cup {w}) = Cardinality(Arrived(k)) + 1
    BY <1>3, PresentCount, FS_AddElement
  <2> QED BY <1>3, <2>1, <2>2
<1>6. active_workers'[k] = Cardinality(Present(k)')
  BY <1>1, <1>4, Booted
<1>7. \A t \in WorkersOf(k) : pc'[t] \notin BeforeArrival \cup {"created"} => Arrived(k)' = WorkersOf(k)
  <2> SUFFICES ASSUME NEW t \in WorkersOf(k), pc'[t] \notin BeforeArrival \cup {"created"}
               PROVE  FALSE
    OBVIOUS
  <2>1. t # w
    BY <1>2
  <2>2. Arrived(k) = WorkersOf(k)
    BY <1>a, <1>2, <2>1 DEF NodeInv, ArrivalOf
  <2> QED BY <1>3, <2>2
<1>8. work_created' \in [Nodes -> Nat] /\ active_workers' \in [Nodes -> Int]
      /\ \A n \in Nodes \ {k} : /\ work_created'[n] = work_created[n]
                                /\ active_workers'[n] = active_workers[n]
  BY <1>a, <1>1 DEF Domains
<1>9. "created" \in OtherPlaces \ {"unborn"} /\ "created" \in Places
  BY DEF OtherPlaces, Places
<1> QED BY <1>1, <1>5, <1>6, <1>7, <1>8, <1>9, WorkerGoes

LEMMA AllCreatedGood ==
  ASSUME CrewInv, Same, NEW k \in Nodes, NEW w \in WorkersOf(k), AllCreated(w)
  PROVE  StepGood(k)
<1> DEFINE q == IF w = Main(k) THEN "rendezvous" ELSE "search"
<1>a. /\ SetupInv /\ Domains /\ NodeInv(k) /\ WorkersOf(k)' = WorkersOf(k) /\ w[1] = k /\ w \in Threads
      /\ w[2] = 0 <=> w = Main(k)
  BY ThreadFacts DEF CrewInv, Same
<1>1. /\ pc[w] = "created" /\ pc' = [pc EXCEPT ![w] = q]
      /\ work_created[k] >= kthreads[k]
      /\ UNCHANGED Count
  BY <1>a DEF AllCreated, Goto, Collectives, Crew, Count
<1>2. /\ pc'[w] = q /\ \A t \in WorkersOf(k) : t # w => pc'[t] = pc[t]
  BY <1>a, <1>1, ThreadFacts DEF Domains
<1>3. Arrived(k) = WorkersOf(k)
  <2>1. Cardinality(Arrived(k)) >= Cardinality(WorkersOf(k))
    BY <1>a, <1>1, WorkersCount DEF NodeInv, ArrivalOf
  <2>2. /\ IsFiniteSet(WorkersOf(k)) /\ Arrived(k) \subseteq WorkersOf(k)
        /\ Cardinality(Arrived(k)) \in Nat /\ Cardinality(WorkersOf(k)) \in Nat
    BY <1>a, PresentCount, WorkersCount, FS_CardinalityType
  <2>3. Arrived(k) # WorkersOf(k) => Cardinality(Arrived(k)) < Cardinality(WorkersOf(k))
    BY <2>2, FS_Subset
  <2> QED BY <2>1, <2>2, <2>3
<1>4. q \notin BeforeArrival /\ q # "exited"
  BY DEF BeforeArrival, Booting
<1>5. Arrived(k)' = Arrived(k) /\ Present(k)' = Present(k)
  BY <1>a, <1>1, <1>2, <1>3, <1>4 DEF Arrived, Present, BeforeArrival, Booting
<1>6. active_workers'[k] = Cardinality(Present(k)') /\ work_created'[k] = Cardinality(Arrived(k)')
  BY <1>a, <1>1, <1>5, Booted DEF NodeInv, ArrivalOf, Count
<1>8. work_created' \in [Nodes -> Nat] /\ active_workers' \in [Nodes -> Int]
      /\ \A n \in Nodes \ {k} : /\ work_created'[n] = work_created[n]
                                /\ active_workers'[n] = active_workers[n]
  BY <1>a, <1>1 DEF Domains, Count
<1>9. q \in Places /\ (w # Main(k) => q \in OtherPlaces \ {"unborn"})
  BY DEF OtherPlaces, Places, CollectivePoints
<1> QED BY <1>1, <1>3, <1>5, <1>6, <1>8, <1>9, WorkerGoes DEF Count

LEMMA ExitGood ==
  ASSUME CrewInv, Same, NEW k \in Nodes, NEW w \in WorkersOf(k), ExitWorker(w)
  PROVE  StepGood(k)
<1>a. /\ SetupInv /\ Domains /\ NodeInv(k) /\ WorkersOf(k)' = WorkersOf(k) /\ w[1] = k /\ w \in Threads
      /\ w[2] = 0 <=> w = Main(k)
  BY ThreadFacts DEF CrewInv, Same
<1>1. /\ pc[w] = "md_end" /\ w # Main(k) /\ pc' = [pc EXCEPT ![w] = "exited"]
      /\ active_workers' = [active_workers EXCEPT ![k] = @ - 1]
      /\ UNCHANGED <<entered, inside, info, work_created>>
  BY <1>a DEF ExitWorker, Goto, Collectives
<1>2. /\ pc'[w] = "exited" /\ \A t \in WorkersOf(k) : t # w => pc'[t] = pc[t]
  BY <1>a, <1>1, ThreadFacts DEF Domains
<1>3. Arrived(k) = WorkersOf(k)
  BY <1>a, <1>1 DEF NodeInv, ArrivalOf, BeforeArrival, Booting
<1>4. Arrived(k)' = Arrived(k)
  BY <1>a, <1>1, <1>2 DEF Arrived, BeforeArrival, Booting
<1>5. Present(k)' = Present(k) \ {w} /\ w \in Present(k)
  BY <1>a, <1>1, <1>2 DEF Present
<1>6. active_workers'[k] = Cardinality(Present(k)')
  <2>1. active_workers[k] = Cardinality(Present(k)) /\ active_workers[k] \in Int
    BY <1>a, <1>1, Booted DEF Domains
  <2>2. Cardinality(Present(k) \ {w}) = Cardinality(Present(k)) - 1
    BY <1>5, PresentCount, FS_RemoveElement
  <2> QED BY <1>a, <1>1, <1>5, <2>1, <2>2 DEF Domains
<1>7. work_created'[k] = Cardinality(Arrived(k)')
  BY <1>a, <1>1, <1>4 DEF NodeInv, ArrivalOf
<1>8. work_created' \in [Nodes -> Nat] /\ active_workers' \in [Nodes -> Int]
      /\ \A n \in Nodes \ {k} : /\ work_created'[n] = work_created[n]
                                /\ active_workers'[n] = active_workers[n]
  BY <1>a, <1>1 DEF Domains
<1>9. "exited" \in OtherPlaces \ {"unborn"} /\ "exited" \in Places
  BY DEF OtherPlaces, Places
<1> QED BY <1>1, <1>3, <1>4, <1>6, <1>7, <1>8, <1>9, WorkerGoes

(***************************************************************************)
(* The invariant of the crews, and what follows from it.                   *)
(***************************************************************************)
LEMMA CrewStepKeeps == CrewInv /\ [Next]_vars => CrewInv'
<1> SUFFICES ASSUME CrewInv, [Next]_vars PROVE CrewInv'
  OBVIOUS
<1>1. SetupInv /\ setup' = setup /\ Same /\ TargetInv'
  BY StepKeepsSetup, SetupFixed, TargetKept DEF CrewInv
<1>2. 0 \in Nodes
  BY <1>1, SetupFacts
<1>3. CASE UNCHANGED <<pc, Count>>
  <2>1. \A n \in Nodes : NodeSame(n)
    BY <1>3 DEF NodeSame, Count
  <2>2. NodeInv(0)'
    BY <1>1, <1>2, <2>1, NodeKept DEF CrewInv
  <2>3. Domains'
    BY <1>1, <1>3 DEF CrewInv, Domains, Count, Same
  <2>4. \A n \in Nodes : entered'[n] >= entered[n]
    BY <1>3 DEF CrewInv, Domains, Count
  <2>5. StepGood(0)
    BY <1>3, <2>1, <2>2, <2>3, <2>4 DEF StepGood
  <2> QED BY <1>1, <1>2, <2>5, StepGoodKeeps
<1>4. ASSUME NEW k \in Nodes, QuietStep(k) \/ CrewStep(k) PROVE CrewInv'
  <2>1. StepGood(k)
    BY <1>1, <1>4, ServerMoveGood, MainMoveGood, SearchMoveGood, EnterGood, LeaveGood, MdInitGood,
       FillGood, LastGood, JoinGood, CreatedGood, AllCreatedGood, ExitGood DEF QuietStep, CrewStep
  <2> QED BY <1>1, <2>1, StepGoodKeeps
<1> QED BY <1>1, <1>3, <1>4, StepKinds

(* In every reachable state each node is where its collectives allow, its  *)
(* counters of started and of remaining workers are what they count, and   *)
(* its workers and server exist and have exited when main says so.         *)
THEOREM CrewsAreSound == Spec => []CrewInv
BY CrewInit, CrewStepKeeps, PTL DEF Spec

(* How far the other nodes are.                                            *)
LEMMA OthersFollow ==
  ASSUME CrewInv, NEW n \in Nodes, NEW m \in Nodes
  PROVE  \/ Phase(pc[Main(n)]) <= Phase(pc[Main(m)])
         \/ /\ Phase(pc[Main(n)]) = Phase(pc[Main(m)]) + 1
            /\ pc[Main(m)] \in CollectivePoints
<1>1. /\ Phase(pc[Main(n)]) <= entered[m]
      /\ entered[m] = Phase(pc[Main(m)]) + (IF inside[m] THEN 1 ELSE 0)
      /\ inside[m] => pc[Main(m)] \in CollectivePoints
  BY DEF CrewInv, InStep, NodeInv, PhaseOf
<1>2. \A p : Phase(p) \in Nat
  BY DEF Phase
<1> HIDE DEF Phase
<1> QED BY <1>1, <1>2

(* The application starts only when all nodes know each other and all      *)
(* threads are there, and no worker schedules before.                      *)
THEOREM ClusterStartsTogether == Spec => []StartsTogether
<1>1. CrewInv => StartsTogether
  <2> SUFFICES ASSUME CrewInv PROVE StartsTogether
    OBVIOUS
  <2>a. SetupInv /\ 0 \in Nodes
    BY SetupFacts DEF CrewInv
  <2>1. ASSUME pc[Main(0)] = "app", NEW n \in Nodes
        PROVE  info[n] /\ pc[Server(n)] # "unborn" /\ work_created[n] = kthreads[n]
    <3> DEFINE p == pc[Main(n)]
    <3>1. p \in MainPlaces /\ Main(n) \in WorkersOf(n)
      BY <2>a, ThreadFacts DEF CrewInv, NodeInv, PlacesOf
    <3>2. Phase(pc[Main(0)]) = 6
      BY <2>1 DEF Phase
    <3>3. Phase(p) \in Nat
      BY DEF Phase
    <3>4. 6 <= Phase(p) \/ (Phase(p) = 5 /\ p \in CollectivePoints)
      <4> HIDE DEF Phase
      <4> QED BY <2>a, <3>2, <3>3, OthersFollow
    <3>5. p \notin BeforeArrival \cup {"created"}
      BY <3>1, <3>4 DEF Phase, CollectivePoints, BeforeArrival, Booting, MainPlaces
    <3>6. info[n] /\ Arrived(n) = WorkersOf(n) /\ pc[Server(n)] # "unborn"
      BY <3>1, <3>5 DEF CrewInv, NodeInv, PhaseOf, ArrivalOf, PlacesOf, BeforeArrival
    <3> QED BY <2>a, <3>6, WorkersCount DEF CrewInv, NodeInv, ArrivalOf
  <2>2. ASSUME NEW w \in Workers, pc[w] \in {"search", "await", "held", "test"}
        PROVE  info[w[1]]
    <3> DEFINE n == w[1]
    <3>1. n \in Nodes /\ w \in WorkersOf(n) /\ Main(n) \in WorkersOf(n)
      BY <2>a, ThreadFacts
    <3>2. Arrived(n) = WorkersOf(n)
      BY <2>2, <3>1 DEF CrewInv, NodeInv, ArrivalOf, BeforeArrival, Booting
    <3>3. pc[Main(n)] \notin BeforeArrival
      BY <3>1, <3>2 DEF Arrived
    <3> QED BY <3>1, <3>3 DEF CrewInv, NodeInv, PhaseOf
  <2> QED BY <2>1, <2>2 DEF StartsTogether
<1> QED BY <1>1, CrewsAreSound, PTL

(***************************************************************************)
(* Messages.                                                               *)
(***************************************************************************)
Messages == [type : {"steal", "no_work", "prefetch", "terminate_workers", "terminate_server"},
             from : Threads]

Elems(s) == {s[i] : i \in 1 .. Len(s)}

(* There is no limit to the requests to prefetch.                          *)
OneOfAKind(s) == \A i \in 1 .. Len(s), j \in 1 .. Len(s) :
                   s[i].type = s[j].type /\ s[i].type # "prefetch" => i = j

LEMMA ElemsAppend ==
  ASSUME NEW M, NEW s \in Seq(M), NEW x \in M
  PROVE  /\ Append(s, x) \in Seq(M) /\ Len(Append(s, x)) = Len(s) + 1
         /\ Elems(Append(s, x)) = Elems(s) \cup {x}
         /\ OneOfAKind(s) /\ (x.type = "prefetch" \/ \A y \in Elems(s) : y.type # x.type) =>
              OneOfAKind(Append(s, x))
<1> DEFINE t == Append(s, x)
<1>1. /\ t \in Seq(M) /\ Len(t) = Len(s) + 1 /\ Len(s) \in Nat
      /\ t[Len(s) + 1] = x /\ \A i \in 1 .. Len(s) : t[i] = s[i]
  OBVIOUS
<1> HIDE DEF t
<1>2. \A i \in 1 .. Len(t) : i \in 1 .. Len(s) \/ i = Len(s) + 1
  BY <1>1
<1>3. \A i \in 1 .. Len(s) : i \in 1 .. Len(t) /\ i # Len(s) + 1
  BY <1>1
<1>4. Len(s) + 1 \in 1 .. Len(t)
  BY <1>1
<1>5. Elems(t) = Elems(s) \cup {x}
  BY <1>1, <1>2, <1>3, <1>4 DEF Elems
<1>6. ASSUME OneOfAKind(s), x.type = "prefetch" \/ \A y \in Elems(s) : y.type # x.type
      PROVE  OneOfAKind(t)
  <2>1. \A i \in 1 .. Len(s) : s[i].type = x.type => x.type = "prefetch"
    BY <1>6 DEF Elems
  <2> QED BY <1>1, <1>2, <1>6, <2>1 DEF OneOfAKind
<1> QED BY <1>1, <1>5, <1>6 DEF t

LEMMA ElemsTail ==
  ASSUME NEW M, NEW s \in Seq(M), s # <<>>
  PROVE  /\ Tail(s) \in Seq(M) /\ Len(Tail(s)) = Len(s) - 1
         /\ Head(s) \in Elems(s) /\ Head(s) \in M
         /\ Elems(Tail(s)) \subseteq Elems(s)
         /\ OneOfAKind(s) => /\ OneOfAKind(Tail(s))
                             /\ Head(s).type # "prefetch" =>
                                  \A y \in Elems(Tail(s)) : y.type # Head(s).type
<1> DEFINE t == Tail(s)
<1>1. /\ t \in Seq(M) /\ Len(t) = Len(s) - 1 /\ Len(s) \in Nat /\ Len(s) >= 1
      /\ \A i \in 1 .. Len(t) : t[i] = s[i + 1]
      /\ Head(s) = s[1] /\ Head(s) \in M
  OBVIOUS
<1> HIDE DEF t
<1>2. 1 \in 1 .. Len(s) /\ \A i \in 1 .. Len(t) : i + 1 \in 1 .. Len(s) /\ i + 1 # 1
  BY <1>1
<1>3. Elems(t) \subseteq Elems(s) /\ Head(s) \in Elems(s)
  BY <1>1, <1>2 DEF Elems
<1>4. ASSUME OneOfAKind(s)
      PROVE  /\ OneOfAKind(t)
             /\ Head(s).type # "prefetch" => \A y \in Elems(t) : y.type # Head(s).type
  <2>1. ASSUME NEW i \in 1 .. Len(t), NEW j \in 1 .. Len(t), t[i].type = t[j].type,
               t[i].type # "prefetch"
        PROVE  i = j
    <3>1. i + 1 = j + 1
      BY <1>1, <1>2, <1>4, <2>1 DEF OneOfAKind
    <3> QED BY <3>1
  <2>2. ASSUME NEW i \in 1 .. Len(t), s[1].type # "prefetch" PROVE t[i].type # s[1].type
    BY <1>1, <1>2, <1>4, <2>2 DEF OneOfAKind
  <2> QED BY <1>1, <2>1, <2>2 DEF OneOfAKind, Elems
<1> QED BY <1>1, <1>3, <1>4 DEF t

LEMMA ElemsOfTail ==
  ASSUME NEW M, NEW s \in Seq(M), s # <<>>, NEW x \in Elems(s)
  PROVE  x = Head(s) \/ x \in Elems(Tail(s))
<1>1. PICK i \in 1 .. Len(s) : x = s[i]
  BY DEF Elems
<1>2. i = 1 => x = Head(s)
  BY <1>1
<1>3. ASSUME i # 1 PROVE x \in Elems(Tail(s))
  <2>1. i - 1 \in 1 .. Len(Tail(s)) /\ Tail(s)[i - 1] = x
    BY <1>1, <1>3
  <2> QED BY <2>1 DEF Elems
<1> QED BY <1>2, <1>3

LEMMA ElemsEmpty == Elems(<<>>) = {} /\ OneOfAKind(<<>>)
BY DEF Elems, OneOfAKind

Chans == [Nodes -> [Nodes -> [Tags -> Seq(Messages)]]]

LEMMA PostEffect ==
  ASSUME chan \in Chans, NEW n \in Nodes, NEW m \in Nodes, NEW tag \in Tags,
         NEW msg \in Messages, Post(n, m, tag, msg)
  PROVE  /\ chan' \in Chans
         /\ chan'[n][m][tag] = Append(chan[n][m][tag], msg)
         /\ \A a, b \in Nodes : \A t \in Tags :
              a # n \/ b # m \/ t # tag => chan'[a][b][t] = chan[a][b][t]
<1>1. chan[n][m][tag] \in Seq(Messages)
  BY DEF Chans
<1>2. Append(chan[n][m][tag], msg) \in Seq(Messages)
  BY <1>1, ElemsAppend
<1> QED BY <1>1, <1>2 DEF Chans, Post

LEMMA TakeEffect ==
  ASSUME chan \in Chans, NEW n \in Nodes, NEW m \in Nodes, NEW tag \in Tags,
         chan[n][m][tag] # <<>>, Take(n, m, tag)
  PROVE  /\ chan' \in Chans
         /\ chan'[n][m][tag] = Tail(chan[n][m][tag])
         /\ \A a, b \in Nodes : \A t \in Tags :
              a # n \/ b # m \/ t # tag => chan'[a][b][t] = chan[a][b][t]
<1>1. chan[n][m][tag] \in Seq(Messages)
  BY DEF Chans
<1>2. Tail(chan[n][m][tag]) \in Seq(Messages)
  BY <1>1, ElemsTail
<1> QED BY <1>1, <1>2 DEF Chans, Take

(***************************************************************************)
(* The invariant of the messages.                                          *)
(***************************************************************************)
Waiting == {"await", "held"}
Ended == {"join", "last", "exited"}
Final == {"terminate_workers", "md_end"} \cup Idle

Thieves == {w \in Workers : pc[w] \in Waiting}
Inbox(m, k) == chan[m][k][MaxNvps]
AnswerTags == Tags \ {MaxNvps}

MailDomains ==
  /\ chan \in Chans /\ asker \in [Nodes -> Workers] /\ sl \in [Nodes -> BOOLEAN]
  /\ told \subseteq Nodes /\ appl_finished \in [Nodes -> Nat]
  /\ termination_flag \in [Nodes -> BOOLEAN]

(* Servers are told to stop only when the application has finished.        *)
OverInv ==
  /\ \A m \in Nodes, k \in Nodes : \A x \in Elems(Inbox(m, k)) :
       /\ x.type # "no_work"
       /\ x.type = "steal" => x.from \in Workers
       /\ x.type = "terminate_workers" => m = 0 /\ k # 0 /\ appl_finished[0] = 1
       /\ x.type = "terminate_server" => ThreadSafe /\ m = k /\ pc[Main(k)] \in Ended
  /\ \A n \in Nodes : termination_flag[n] => appl_finished[0] = 1
  /\ \A n \in Nodes : pc[Server(n)] = "exited" =>
       IF ThreadSafe THEN pc[Main(n)] \in Ended ELSE appl_finished[0] = 1
  /\ \A n \in Nodes : ThreadSafe => pc[Server(n)] # "flag"
  /\ pc[Main(0)] \in Final => appl_finished[0] = 1

(* Where the one steal attempt of a node may be.                           *)
Asks(n) == \E x \in Elems(Inbox(n, Victim(n))) : x.type = "steal"
Served(n) == pc[Server(Victim(n))] = "reply" /\ asker[Victim(n)][1] = n
Answered(n) == \E tag \in AnswerTags : chan[Victim(n)][n][tag] # <<>>

TheftInv ==
  /\ \A m \in Nodes, k \in Nodes : OneOfAKind(Inbox(m, k))
  /\ \A m \in Nodes, k \in Nodes : \A x \in Elems(Inbox(m, k)) :
       x.type = "steal" => x.from \in Thieves /\ x.from[1] = m /\ k = Victim(m)
  /\ \A k \in Nodes : pc[Server(k)] = "reply" =>
       asker[k] \in Thieves /\ Victim(asker[k][1]) = k
  /\ \A m \in Nodes, k \in Nodes, tag \in AnswerTags : chan[m][k][tag] # <<>> =>
       /\ Len(chan[m][k][tag]) = 1 /\ m = Victim(k)
       /\ \E w \in Thieves : w[1] = k /\ tag = StealTag(w[2])
  /\ \A w \in Thieves : sl[w[1]]
  /\ \A v \in Thieves, w \in Thieves : v[1] = w[1] => v = w
  /\ \A n \in Nodes : /\ ~ (Asks(n) /\ Served(n)) /\ ~ (Asks(n) /\ Answered(n))
                      /\ ~ (Served(n) /\ Answered(n))

(* Nodes are told once that the application has finished, servers once     *)
(* that they may go.                                                       *)
ReleaseInv ==
  /\ \A m \in Nodes, k \in Nodes : \A x \in Elems(Inbox(m, k)) :
       /\ x.type = "terminate_workers" => k \in told /\ appl_finished[k] = 0
       /\ x.type = "terminate_server" => pc[Main(k)] = "join" /\ pc[Server(k)] # "exited"
  /\ \A n \in Nodes \ {0} : n \notin told => appl_finished[n] = 0
  /\ \A n \in Nodes \ {0} : pc[Main(n)] \in {"md_end"} \cup Idle => appl_finished[n] = 1

MailInv == MailDomains /\ OverInv /\ (ThreadSafe => TheftInv /\ ReleaseInv)

LEMMA MailInit == Init => MailInv
<1> SUFFICES ASSUME Init PROVE MailInv
  OBVIOUS
<1>1. SetupInv
  BY DEF Init, SetupInv
<1>2. \A n \in Nodes : pc[Main(n)] = "opt" /\ pc[Server(n)] = "unborn"
  <2> TAKE n \in Nodes
  <2>1. Main(n)[2] = 0 /\ Server(n)[2] = MaxNvps /\ MaxNvps # 0 /\ Main(n) \in Threads /\ Server(n) \in Threads
    BY <1>1, ThreadFacts, SetupFacts DEF Main, Server
  <2> QED BY <2>1 DEF Init
<1>3. /\ \A m, k \in Nodes : \A tag \in Tags : chan[m][k][tag] = <<>>
      /\ \A m, k \in Nodes : Inbox(m, k) = <<>>
  BY DEF Init, Inbox, Tags
<1>4. Thieves = {}
  <2>1. \A w \in Workers : w \in Threads
    BY DEF Threads
  <2> QED BY <2>1 DEF Init, Thieves, Waiting
<1>5. MailDomains
  <2>1. <<>> \in Seq(Messages)
    OBVIOUS
  <2>2. chan \in Chans
    BY <2>1 DEF Init, Chans
  <2>3. asker \in [Nodes -> Workers]
    BY <1>1, ThreadFacts DEF Init
  <2> QED BY <2>2, <2>3 DEF Init, MailDomains
<1>6. \A n \in Nodes : Victim(n) \in Nodes
  BY <1>1, NextNodeType DEF Victim
<1>7. OverInv
  BY <1>1, <1>2, <1>3, ElemsEmpty, SetupFacts DEF OverInv, Init, Final, Idle
<1>8. TheftInv
  BY <1>2, <1>3, <1>4, <1>6, ElemsEmpty DEF TheftInv, Asks, Served, Answered, AnswerTags
<1>9. ReleaseInv
  BY <1>2, <1>3, ElemsEmpty DEF ReleaseInv, Init, Idle
<1> QED BY <1>5, <1>7, <1>8, <1>9 DEF MailInv

(***************************************************************************)
(* Steps that neither send nor receive.                                    *)
(***************************************************************************)
Mail == <<chan, asker, sl, told, appl_finished, termination_flag>>

(* What moves of threads mean for the messages.                            *)
MainCalm(n) ==
  /\ pc[Main(n)] \in Ended => pc'[Main(n)] \in Ended
  /\ pc[Main(n)] = "join" => pc'[Main(n)] = "join" \/ pc[Server(n)] = "exited"
  /\ pc'[Main(n)] \in Final => pc[Main(n)] \in Final
       \/ (n # 0 /\ (appl_finished[n] = 1 \/ pc'[Main(n)] = "terminate_workers"))

ServerCalm(n) ==
  /\ pc'[Server(n)] = "reply" <=> pc[Server(n)] = "reply"
  /\ pc'[Server(n)] = "exited" =>
       pc[Server(n)] = "exited" \/ (~ThreadSafe /\ termination_flag[n])
  /\ ThreadSafe => pc'[Server(n)] # "flag"

Inert ==
  /\ UNCHANGED Mail
  /\ Thieves' = Thieves
  /\ \A n \in Nodes : MainCalm(n) /\ ServerCalm(n)

LEMMA VictimType == ASSUME SetupInv, NEW n \in Nodes PROVE Victim(n) \in Nodes /\ Victim(n) # n
BY NextNodeType DEF Victim

LEMMA InertKeeps ==
  ASSUME CrewInv, CrewInv', MailInv, Same, Inert
  PROVE  MailInv'
<1>1. /\ SetupInv /\ 0 \in Nodes /\ UNCHANGED Mail /\ Thieves' = Thieves
      /\ \A n \in Nodes : MainCalm(n) /\ ServerCalm(n)
      /\ \A m, k \in Nodes : Inbox(m, k)' = Inbox(m, k)
      /\ AnswerTags' = AnswerTags /\ Chans' = Chans
      /\ \A n \in Nodes : Victim(n) \in Nodes
      /\ Nodes' = Nodes /\ ThreadSafe' = ThreadSafe /\ Workers' = Workers /\ \A n : Victim(n)' = Victim(n)
  BY SetupFacts, VictimType DEF CrewInv, Inert, Mail, Inbox, AnswerTags, Chans, Same, Messages
<1>2. MailDomains'
  BY <1>1 DEF MailInv, MailDomains, Mail
<1>3. OverInv'
  <2>a. appl_finished'[0] = appl_finished[0] /\ \A n \in Nodes : termination_flag'[n] = termination_flag[n]
    BY <1>1 DEF Mail
  <2>1. ASSUME NEW m \in Nodes, NEW k \in Nodes, NEW x \in Elems(Inbox(m, k))
        PROVE  /\ x.type # "no_work"
               /\ x.type = "steal" => x.from \in Workers
               /\ x.type = "terminate_workers" => m = 0 /\ k # 0 /\ appl_finished'[0] = 1
               /\ x.type = "terminate_server" => ThreadSafe /\ m = k /\ pc'[Main(k)] \in Ended
    BY <1>1, <2>a DEF MailInv, OverInv, MainCalm
  <2>2. ASSUME NEW n \in Nodes, pc'[Server(n)] = "exited"
        PROVE  IF ThreadSafe THEN pc'[Main(n)] \in Ended ELSE appl_finished'[0] = 1
    BY <1>1, <2>a, <2>2 DEF MailInv, OverInv, MainCalm, ServerCalm
  <2>3. ASSUME pc'[Main(0)] \in Final PROVE appl_finished'[0] = 1
    BY <1>1, <2>a, <2>3 DEF MailInv, OverInv, MainCalm
  <2>4. \A n \in Nodes : termination_flag'[n] => appl_finished'[0] = 1
    BY <2>a DEF MailInv, OverInv
  <2>5. \A n \in Nodes : ThreadSafe => pc'[Server(n)] # "flag"
    BY <1>1 DEF ServerCalm
  <2> QED BY <1>1, <2>1, <2>2, <2>3, <2>4, <2>5 DEF OverInv
<1>4. ASSUME ThreadSafe PROVE TheftInv'
  <2>1. \A n \in Nodes : /\ Asks(n)' <=> Asks(n)
                         /\ Served(n)' <=> Served(n)
                         /\ Answered(n)' <=> Answered(n)
    BY <1>1 DEF Asks, Served, Answered, ServerCalm, Mail
  <2>2. \A m, k \in Nodes : \A tag \in AnswerTags : chan'[m][k][tag] = chan[m][k][tag]
    BY <1>1 DEF Mail
  <2>3. \A n \in Nodes : asker'[n] = asker[n] /\ sl'[n] = sl[n] /\ (pc'[Server(n)] = "reply" <=> pc[Server(n)] = "reply")
    BY <1>1 DEF Mail, ServerCalm
  <2>4. \A w \in Thieves : w[1] \in Nodes
    BY <1>1, ThreadFacts DEF Thieves
  <2> QED BY <1>1, <1>4, <2>1, <2>2, <2>3, <2>4 DEF MailInv, TheftInv
<1>5. ASSUME ThreadSafe PROVE ReleaseInv'
  <2>a. \A n \in Nodes : (n \in told' <=> n \in told) /\ appl_finished'[n] = appl_finished[n]
    BY <1>1 DEF Mail
  <2>1. ASSUME NEW m \in Nodes, NEW k \in Nodes, NEW x \in Elems(Inbox(m, k))
        PROVE  /\ x.type = "terminate_workers" => k \in told' /\ appl_finished'[k] = 0
               /\ x.type = "terminate_server" => pc'[Main(k)] = "join" /\ pc'[Server(k)] # "exited"
    BY <1>1, <1>5, <2>a DEF MailInv, ReleaseInv, MainCalm, ServerCalm
  <2>2. ASSUME NEW n \in Nodes \ {0}, pc'[Main(n)] \in {"md_end"} \cup Idle
        PROVE  appl_finished'[n] = 1
    <3>1. pc[Main(n)] \in Final \/ appl_finished[n] = 1 \/ pc'[Main(n)] = "terminate_workers"
      BY <1>1, <2>2 DEF MainCalm, Final
    <3>2. pc[Main(n)] # "terminate_workers" /\ pc'[Main(n)] # "terminate_workers"
      BY <1>1 DEF CrewInv, NodeInv, PlacesOf
    <3> QED BY <1>5, <2>a, <2>2, <3>1, <3>2 DEF MailInv, ReleaseInv, Final
  <2> QED BY <1>1, <1>5, <2>a, <2>1, <2>2 DEF MailInv, ReleaseInv
<1> QED BY <1>1, <1>2, <1>3, <1>4, <1>5 DEF MailInv

(* A thread that moves and is not touched by the messages' invariant.      *)
LEMMA InertMove ==
  ASSUME CrewInv, MailInv, Same, UNCHANGED Mail, NEW k \in Nodes,
         NEW th \in WorkersOf(k) \cup {Server(k)}, NEW q \in Places,
         pc' = [pc EXCEPT ![th] = q],
         th \in WorkersOf(k) => (q \in Waiting <=> pc[th] \in Waiting),
         th = Main(k) => MainCalm(k), th = Server(k) => ServerCalm(k)
  PROVE  Inert
<1>a. /\ SetupInv /\ Domains
      /\ \A n \in Nodes : Main(n) \in WorkersOf(n) /\ Server(n) \notin WorkersOf(n)
      /\ \A n, m \in Nodes : Server(n) \notin WorkersOf(m)
      /\ \A w \in Workers : w \in Threads /\ w[1] \in Nodes /\ w \in WorkersOf(w[1])
  BY ThreadFacts DEF CrewInv
<1>b. SetupInv /\ pc \in [Threads -> Places]
  BY <1>a DEF Domains
<1>1. /\ pc'[th] = q
      /\ \A t \in WorkersOf(k) \cup {Server(k)} : t # th => pc'[t] = pc[t]
      /\ \A m \in Nodes \ {k} : \A t \in WorkersOf(m) \cup {Server(m)} : pc'[t] = pc[t]
  <2>1. /\ th \in Threads
        /\ \A m \in Nodes : \A t \in WorkersOf(m) \cup {Server(m)} : t \in Threads
    BY <1>a, ThreadFacts
  <2>2. \A m \in Nodes \ {k} : \A t \in WorkersOf(m) \cup {Server(m)} : t # th
    BY <1>a, ThreadFacts
  <2> QED BY <1>b, <2>1, <2>2
<1>2. \A n \in Nodes : Main(n) # th => pc'[Main(n)] = pc[Main(n)]
  BY <1>a, <1>1
<1>3. \A n \in Nodes : Server(n) # th => pc'[Server(n)] = pc[Server(n)]
  BY <1>a, <1>1
<1>4. \A n \in Nodes : MainCalm(n)
  <2> TAKE n \in Nodes
  <2>1. CASE Main(n) # th
    BY <1>2, <2>1 DEF MainCalm
  <2>2. CASE Main(n) = th
    BY <1>a, <2>2, ThreadFacts
  <2> QED BY <2>1, <2>2
<1>5. \A n \in Nodes : ServerCalm(n)
  <2> TAKE n \in Nodes
  <2>1. CASE Server(n) # th
    BY <1>3, <2>1 DEF ServerCalm, MailInv, OverInv
  <2>2. CASE Server(n) = th
    BY <1>a, <2>2, ThreadFacts
  <2> QED BY <2>1, <2>2
<1>6. \A w \in Workers : pc'[w] \in Waiting <=> pc[w] \in Waiting
  <2> TAKE w \in Workers
  <2>1. w # th => pc'[w] = pc[w]
    BY <1>a, <1>1
  <2>2. w = th => th \in WorkersOf(k)
    BY <1>a
  <2> QED BY <1>1, <2>1, <2>2
<1>7. Thieves' = Thieves
  BY <1>6 DEF Thieves, Same
<1> QED BY <1>4, <1>5, <1>7 DEF Inert

LEMMA WorkerPlaces ==
  ASSUME CrewInv, NEW w \in Workers
  PROVE  /\ w[1] \in Nodes /\ w \in WorkersOf(w[1])
         /\ w[2] = 0 <=> w = Main(w[1])
         /\ w = Main(0) => pc[w] \notin SearchPlaces
BY ThreadFacts, SetupFacts DEF CrewInv, NodeInv, PlacesOf, SearchPlaces

(* Workers that go on without a message.                                   *)
LEMMA InertWorkers ==
  ASSUME CrewInv, MailInv, Same, NEW w \in Workers,
         \/ SearchInVain(w) \/ StealNothing(w) \/ HoldForReply(w) \/ GoOn(w) \/ EndOfWork(w)
         \/ Created(w) \/ AllCreated(w) \/ ExitWorker(w)
  PROVE  Inert
<1> DEFINE k == w[1]
<1>a. k \in Nodes /\ w \in WorkersOf(k) /\ (w[2] = 0 <=> w = Main(k)) /\ (w = Main(0) => pc[w] \notin SearchPlaces)
      /\ w # Server(k)
  BY WorkerPlaces, ThreadFacts DEF CrewInv
<1>b. UNCHANGED Mail
  BY DEF SearchInVain, StealNothing, HoldForReply, GoOn, EndOfWork, Created, AllCreated, ExitWorker,
         Mail, Ending, Steals
<1> HIDE DEF k
<1>1. ASSUME NEW p \in Places, NEW q \in Places, pc[w] = p, pc' = [pc EXCEPT ![w] = q],
             q \in Waiting <=> p \in Waiting, p \notin Ended,
             w = Main(k) /\ q \in Final => k # 0 /\ appl_finished[k] = 1
      PROVE  Inert
  <2>1. w = Main(k) => MainCalm(k)
    <3>1. ASSUME w = Main(k) PROVE pc'[Main(k)] = q /\ p # "join"
      <4>1. pc \in [Threads -> Places] /\ w \in Threads
        BY <1>a, ThreadFacts DEF CrewInv, Domains
      <4> QED BY <1>1, <3>1, <4>1 DEF Ended
    <3> QED BY <1>1, <3>1 DEF MainCalm
  <2> QED BY <1>1, <1>a, <1>b, <2>1, InertMove
<1>2. CASE SearchInVain(w) \/ StealNothing(w)
  BY <1>1, <1>2 DEF SearchInVain, StealNothing, Looked, Goto, Places, Waiting, Ended, Final, Idle
<1>3. CASE HoldForReply(w)
  BY <1>1, <1>3 DEF HoldForReply, Goto, Places, Waiting, Ended, Final, Idle
<1>4. CASE GoOn(w)
  BY <1>1, <1>4 DEF GoOn, Goto, Places, Waiting, Ended, Final, Idle
<1>5. CASE EndOfWork(w)
  <2>1. pc[w] = "test" /\ appl_finished[k] = 1 /\ pc' = [pc EXCEPT ![w] = "md_end"]
    BY <1>5 DEF EndOfWork, Goto, k
  <2>2. w = Main(k) => k # 0
    BY <1>a, <2>1 DEF SearchPlaces
  <2> QED BY <1>1, <2>1, <2>2 DEF Places, Waiting, Ended
<1>6. CASE Created(w)
  BY <1>1, <1>6 DEF Created, Goto, Places, Waiting, Ended, Final, Idle
<1>7. CASE AllCreated(w)
  <2>1. PICK q \in {"rendezvous", "search"} : pc[w] = "created" /\ pc' = [pc EXCEPT ![w] = q]
    BY <1>7 DEF AllCreated, Goto
  <2> QED BY <1>1, <2>1 DEF Places, CollectivePoints, Waiting, Ended, Final, Idle
<1>8. CASE ExitWorker(w)
  <2>1. pc[w] = "md_end" /\ w # Main(k) /\ pc' = [pc EXCEPT ![w] = "exited"]
    BY <1>8, <1>a DEF ExitWorker, Goto
  <2> QED BY <1>1, <2>1 DEF Places, Waiting, Ended
<1> QED BY <1>2, <1>3, <1>4, <1>5, <1>6, <1>7, <1>8

(* The steps of vp 0 between messages.                                     *)
LEMMA InertMains ==
  ASSUME CrewInv, MailInv, Same, NEW k \in Nodes,
         \/ LeaveCollective(k) \/ FillNodeInfo(k) \/ Start(k) \/ LastOfNode(k) \/ JoinServer(k)
         \/ k = 0 /\ AllTold
  PROVE  Inert
<1> DEFINE th == Main(k)
           p == pc[th]
<1>a. th \in WorkersOf(k) /\ th # Server(k) /\ th \in Threads /\ pc \in [Threads -> Places] /\ NodeInv(k)
  BY ThreadFacts DEF CrewInv, Domains
<1>b. UNCHANGED Mail
  BY DEF LeaveCollective, FillNodeInfo, Start, LastOfNode, JoinServer, AllTold, Mail, Ending, Steals
<1> HIDE DEF th
<1>1. ASSUME NEW q \in Places, pc' = [pc EXCEPT ![th] = q],
             q \notin Waiting, p \notin Waiting, p \in Ended => q \in Ended,
             p = "join" => pc[Server(k)] = "exited",
             q \in Final => p \in Final
      PROVE  Inert
  <2>1. pc'[th] = q
    BY <1>1, <1>a
  <2>2. MainCalm(k)
    BY <1>1, <2>1 DEF MainCalm, th
  <2> QED BY <1>1, <1>a, <1>b, <2>2, InertMove DEF th
<1>2. CASE LeaveCollective(k)
  <2>1. p \in CollectivePoints
    BY <1>2, <1>a DEF LeaveCollective, NodeInv, PhaseOf, th
  <2> DEFINE q == AfterCollective(p)
  <2>2. \/ p = "opt" /\ q = "md_init"
        \/ p = "aslr" /\ q = "workers"
        \/ p = "workers" /\ q = "gathered"
        \/ p = "gathered" /\ q = "node_info"
        \/ p = "known" /\ q = "worker"
        \/ p = "rendezvous" /\ q = "start"
        \/ p = "all_idle" /\ q = "shutdown_server"
        \/ p = "last" /\ q = "exited"
    BY <2>1 DEF AfterCollective, CollectivePoints
  <2>3. pc' = [pc EXCEPT ![th] = q]
    BY <1>2 DEF LeaveCollective, Goto, th
  <2> HIDE DEF q
  <2>4. q \in Places
    BY <2>2 DEF Places, CollectivePoints
  <2> QED BY <1>1, <2>2, <2>3, <2>4 DEF Waiting, Ended, Final, Idle
<1>3. CASE FillNodeInfo(k)
  BY <1>1, <1>3 DEF FillNodeInfo, Goto, Places, CollectivePoints, Waiting, Ended, Final, Idle, th
<1>4. CASE Start(k)
  <2>1. k = 0 \/ k # 0
    OBVIOUS
  <2>2. PICK q \in {"app", "search"} : p = "start" /\ pc' = [pc EXCEPT ![th] = q]
    BY <1>4 DEF Start, Goto, th
  <2> QED BY <1>1, <2>2 DEF Places, Waiting, Ended, Final, Idle
<1>5. CASE LastOfNode(k)
  BY <1>1, <1>5 DEF LastOfNode, Goto, Places, CollectivePoints, Waiting, Ended, Final, Idle, th
<1>6. CASE JoinServer(k)
  BY <1>1, <1>6 DEF JoinServer, Goto, Places, CollectivePoints, Waiting, Ended, Final, Idle, th
<1>7. CASE k = 0 /\ AllTold
  BY <1>1, <1>7 DEF AllTold, Goto, Places, Waiting, Ended, Final, Idle, th
<1> QED BY <1>2, <1>3, <1>4, <1>5, <1>6, <1>7

LEMMA InertServers ==
  ASSUME CrewInv, MailInv, Same, NEW k \in Nodes, FlagUp(k) \/ NoMessage(k)
  PROVE  Inert
<1> DEFINE th == Server(k)
<1>a. th \in Threads /\ pc \in [Threads -> Places] /\ th \notin WorkersOf(k) /\ Main(k) \in WorkersOf(k)
  BY ThreadFacts DEF CrewInv, Domains
<1>b. UNCHANGED Mail
  BY DEF FlagUp, NoMessage, Mail, Ending, Steals
<1>c. ~ThreadSafe
  BY DEF FlagUp, NoMessage, MailInv, OverInv
<1>1. PICK q \in {"exited", "receive", "flag"} :
         /\ pc[th] \in {"flag", "receive"} /\ pc' = [pc EXCEPT ![th] = q]
         /\ q = "exited" => termination_flag[k]
  BY DEF FlagUp, NoMessage, Goto
<1>2. pc'[th] = q /\ q \in Places
  BY <1>1, <1>a DEF Places
<1>3. ServerCalm(k)
  BY <1>1, <1>2, <1>c DEF ServerCalm
<1> QED BY <1>1, <1>2, <1>3, <1>a, <1>b, InertMove

LEMMA InertMdInit ==
  ASSUME CrewInv, MailInv, Same, NEW k \in Nodes, MdInit(k)
  PROVE  Inert
<1>a. /\ SetupInv /\ NodeInv(k) /\ Main(k) \in WorkersOf(k) /\ Server(k) \notin WorkersOf(k)
      /\ \A n \in Nodes : \A t \in WorkersOf(n) \cup {Server(n)} : t \in Threads
      /\ \A n \in Nodes \ {k} : \A t \in WorkersOf(n) \cup {Server(n)} :
           t \notin WorkersOf(k) \cup {Server(k)}
      /\ \A n \in Nodes : Main(n) \in WorkersOf(n)
      /\ \A w \in Workers : w[1] \in Nodes /\ w \in WorkersOf(w[1])
  BY ThreadFacts DEF CrewInv
<1>1. /\ pc[Main(k)] = "md_init"
      /\ pc' = [t \in Threads |-> IF t = Main(k) THEN "aslr"
                                  ELSE IF t = Server(k) THEN ServerStart
                                  ELSE IF t \in WorkersOf(k) THEN "worker"
                                  ELSE pc[t]]
      /\ UNCHANGED Mail
  BY DEF MdInit, Mail, Ending, Steals
<1>2. /\ pc[Server(k)] = "unborn" /\ \A w \in WorkersOf(k) : pc[w] \in {"unborn", "md_init"}
  BY <1>1, <1>a DEF NodeInv, PlacesOf, Others, Booting
<1>3. /\ pc'[Main(k)] = "aslr" /\ pc'[Server(k)] = ServerStart
      /\ \A w \in WorkersOf(k) : pc'[w] \in {"aslr", "worker"}
      /\ \A n \in Nodes \ {k} : \A t \in WorkersOf(n) \cup {Server(n)} : pc'[t] = pc[t]
  BY <1>a, <1>1
<1>4. \A n \in Nodes : MainCalm(n)
  BY <1>1, <1>3, <1>a DEF MainCalm, Ended, Final, Idle
<1>5. \A n \in Nodes : ServerCalm(n)
  <2>1. ServerCalm(k)
    BY <1>2, <1>3 DEF ServerCalm, ServerStart
  <2>2. \A n \in Nodes \ {k} : ServerCalm(n)
    BY <1>3 DEF ServerCalm, MailInv, OverInv
  <2> QED BY <2>1, <2>2
<1>6. Thieves' = Thieves
  <2>1. \A w \in Workers : pc'[w] \in Waiting <=> pc[w] \in Waiting
    <3> TAKE w \in Workers
    <3>1. CASE w \in WorkersOf(k)
      BY <1>2, <1>3, <3>1 DEF Waiting
    <3>2. CASE w \notin WorkersOf(k)
      BY <1>3, <1>a, <3>2
    <3> QED BY <3>1, <3>2
  <2> QED BY <2>1 DEF Thieves, Same
<1> QED BY <1>1, <1>4, <1>5, <1>6 DEF Inert

LEMMA InertRest ==
  ASSUME MailInv, Same, UNCHANGED pc, UNCHANGED Mail
  PROVE  Inert
BY DEF Inert, MainCalm, ServerCalm, Thieves, Same, MailInv, OverInv

(***************************************************************************)
(* Steps that send or receive.                                             *)
(***************************************************************************)

(* One thread moves: what its node's and the others' threads see of it.    *)
LEMMA MoveFacts ==
  ASSUME CrewInv, Same, NEW th \in Threads, NEW q \in Places, pc' = [pc EXCEPT ![th] = q]
  PROVE  /\ pc'[th] = q
         /\ \A n \in Nodes : Main(n) # th => pc'[Main(n)] = pc[Main(n)]
         /\ \A n \in Nodes : Server(n) # th => pc'[Server(n)] = pc[Server(n)]
         /\ \A w \in Workers : w # th => pc'[w] = pc[w]
         /\ q \in Waiting /\ th \in Workers => Thieves' = Thieves \cup {th}
         /\ q \notin Waiting /\ th \in Workers => Thieves' = Thieves \ {th}
         /\ th \notin Workers \/ (q \notin Waiting /\ pc[th] \notin Waiting) => Thieves' = Thieves
<1>1. /\ pc \in [Threads -> Places]
      /\ \A n \in Nodes : Main(n) \in Threads /\ Server(n) \in Threads
      /\ \A w \in Workers : w \in Threads
  <2>1. SetupInv /\ pc \in [Threads -> Places]
    BY DEF CrewInv, Domains
  <2>2. \A n \in Nodes : Main(n) \in Threads /\ Server(n) \in Threads
    BY <2>1, ThreadFacts
  <2>3. \A w \in Workers : w \in Threads
    BY DEF Threads
  <2> QED BY <2>1, <2>2, <2>3
<1>2. pc'[th] = q /\ \A t \in Threads : t # th => pc'[t] = pc[t]
  BY <1>1
<1>3. Thieves' = {w \in Workers : pc'[w] \in Waiting}
  BY DEF Thieves, Same
<1> QED BY <1>1, <1>2, <1>3 DEF Thieves

LEMMA TagFacts ==
  ASSUME SetupInv
  PROVE  /\ MaxNvps \in Tags
         /\ \A w \in Workers : StealTag(w[2]) \in AnswerTags /\ w[2] \in Nat
         /\ \A v, w \in Workers : v[1] = w[1] /\ StealTag(v[2]) = StealTag(w[2]) => v = w
<1>1. \A w \in Workers : w[2] \in Nat /\ w = <<w[1], w[2]>>
  <2> TAKE w \in Workers
  <2>1. w[1] \in Nodes /\ w \in WorkersOf(w[1])
    BY ThreadFacts
  <2>2. PICK vp \in 0 .. kthreads[w[1]] - 1 : w = <<w[1], vp>>
    BY <2>1 DEF WorkersOf
  <2>3. kthreads[w[1]] \in Int
    BY <2>1, SetupFacts
  <2> QED BY <2>2, <2>3
<1>2. \A w \in Workers : StealTag(w[2]) \in Tags
  BY DEF Tags
<1>3. \A w \in Workers : StealTag(w[2]) # MaxNvps
  <2> TAKE w \in Workers
  <2>1. w[2] \in Nat /\ MaxNvps \in 0 .. 99
    BY <1>1, SetupFacts
  <2> QED BY <2>1 DEF StealTag
<1>4. \A v, w \in Workers : v[1] = w[1] /\ StealTag(v[2]) = StealTag(w[2]) => v = w
  BY <1>1 DEF StealTag
<1> QED BY <1>1, <1>2, <1>3, <1>4 DEF Tags, AnswerTags

LEMMA InboxPost ==
  ASSUME SetupInv, Same, chan \in Chans, NEW n \in Nodes, NEW m \in Nodes, NEW msg \in Messages,
         Post(n, m, MaxNvps, msg)
  PROVE  /\ chan' \in Chans
         /\ Elems(Inbox(n, m)') = Elems(Inbox(n, m)) \cup {msg}
         /\ \A a, b \in Nodes : a # n \/ b # m => Inbox(a, b)' = Inbox(a, b)
         /\ \A a, b \in Nodes : \A t \in AnswerTags : chan'[a][b][t] = chan[a][b][t]
         /\ OneOfAKind(Inbox(n, m)) /\ (msg.type = "prefetch" \/ \A x \in Elems(Inbox(n, m)) : x.type # msg.type) =>
              OneOfAKind(Inbox(n, m)')
<1>1. MaxNvps \in Tags /\ \A t \in AnswerTags : t \in Tags /\ t # MaxNvps
  BY TagFacts DEF AnswerTags
<1>2. /\ chan' \in Chans
      /\ Inbox(n, m)' = Append(Inbox(n, m), msg)
      /\ \A a, b \in Nodes : \A t \in Tags :
              a # n \/ b # m \/ t # MaxNvps => chan'[a][b][t] = chan[a][b][t]
  BY <1>1, PostEffect DEF Inbox
<1>3. Inbox(n, m) \in Seq(Messages)
  BY <1>1 DEF Inbox, Chans
<1>4. \A a, b \in Nodes : a # n \/ b # m => Inbox(a, b)' = Inbox(a, b)
  BY <1>1, <1>2 DEF Inbox
<1>5. /\ Elems(Append(Inbox(n, m), msg)) = Elems(Inbox(n, m)) \cup {msg}
      /\ OneOfAKind(Inbox(n, m)) /\ (msg.type = "prefetch" \/ \A x \in Elems(Inbox(n, m)) : x.type # msg.type) =>
              OneOfAKind(Append(Inbox(n, m), msg))
  BY <1>3, ElemsAppend
<1> QED BY <1>1, <1>2, <1>4, <1>5

LEMMA InboxTake ==
  ASSUME SetupInv, Same, chan \in Chans, NEW m \in Nodes, NEW n \in Nodes,
         Inbox(m, n) # <<>>, Take(m, n, MaxNvps)
  PROVE  /\ chan' \in Chans
         /\ Head(Inbox(m, n)) \in Elems(Inbox(m, n)) /\ Head(Inbox(m, n)) \in Messages
         /\ Elems(Inbox(m, n)') \subseteq Elems(Inbox(m, n))
         /\ \A a, b \in Nodes : a # m \/ b # n => Inbox(a, b)' = Inbox(a, b)
         /\ \A a, b \in Nodes : \A t \in AnswerTags : chan'[a][b][t] = chan[a][b][t]
         /\ OneOfAKind(Inbox(m, n)) =>
              /\ OneOfAKind(Inbox(m, n)')
              /\ Head(Inbox(m, n)).type # "prefetch" =>
                   \A x \in Elems(Inbox(m, n)') : x.type # Head(Inbox(m, n)).type
<1>1. MaxNvps \in Tags /\ \A t \in AnswerTags : t \in Tags /\ t # MaxNvps
  BY TagFacts DEF AnswerTags
<1>2. /\ chan' \in Chans
      /\ Inbox(m, n)' = Tail(Inbox(m, n))
      /\ \A a, b \in Nodes : \A t \in Tags :
              a # m \/ b # n \/ t # MaxNvps => chan'[a][b][t] = chan[a][b][t]
  BY <1>1, TakeEffect DEF Inbox
<1>3. Inbox(m, n) \in Seq(Messages)
  BY <1>1 DEF Inbox, Chans
<1>4. \A a, b \in Nodes : a # m \/ b # n => Inbox(a, b)' = Inbox(a, b)
  BY <1>1, <1>2 DEF Inbox
<1>5. /\ Head(Inbox(m, n)) \in Elems(Inbox(m, n)) /\ Head(Inbox(m, n)) \in Messages
      /\ Elems(Tail(Inbox(m, n))) \subseteq Elems(Inbox(m, n))
      /\ OneOfAKind(Inbox(m, n)) =>
           /\ OneOfAKind(Tail(Inbox(m, n)))
           /\ Head(Inbox(m, n)).type # "prefetch" =>
                \A x \in Elems(Tail(Inbox(m, n))) : x.type # Head(Inbox(m, n)).type
  BY <1>3, ElemsTail
<1> QED BY <1>1, <1>2, <1>4, <1>5

(* Messages on the tags of the replies leave the inboxes alone.            *)
LEMMA AnswerPost ==
  ASSUME SetupInv, Same, chan \in Chans, NEW n \in Nodes, NEW m \in Nodes,
         NEW tag \in AnswerTags, NEW msg \in Messages, Post(n, m, tag, msg)
  PROVE  /\ chan' \in Chans /\ \A a, b \in Nodes : Inbox(a, b)' = Inbox(a, b)
         /\ chan'[n][m][tag] = Append(chan[n][m][tag], msg)
         /\ \A a, b \in Nodes : \A t \in AnswerTags :
              a # n \/ b # m \/ t # tag => chan'[a][b][t] = chan[a][b][t]
<1>1. MaxNvps \in Tags /\ \A t \in AnswerTags : t \in Tags /\ t # MaxNvps
  BY TagFacts DEF AnswerTags
<1> QED BY <1>1, PostEffect DEF Inbox

LEMMA AnswerTake ==
  ASSUME SetupInv, Same, chan \in Chans, NEW n \in Nodes, NEW m \in Nodes,
         NEW tag \in AnswerTags, chan[n][m][tag] # <<>>, Take(n, m, tag)
  PROVE  /\ chan' \in Chans /\ \A a, b \in Nodes : Inbox(a, b)' = Inbox(a, b)
         /\ chan'[n][m][tag] = Tail(chan[n][m][tag])
         /\ \A a, b \in Nodes : \A t \in AnswerTags :
              a # n \/ b # m \/ t # tag => chan'[a][b][t] = chan[a][b][t]
<1>1. MaxNvps \in Tags /\ \A t \in AnswerTags : t \in Tags /\ t # MaxNvps
  BY TagFacts DEF AnswerTags
<1> QED BY <1>1, TakeEffect DEF Inbox

(* What a step has to say for each part of the invariant.                  *)
OverKept ==
  /\ \A m \in Nodes, k \in Nodes : \A x \in Elems(Inbox(m, k)') :
       \/ x \in Elems(Inbox(m, k))
       \/ /\ x.type # "no_work"
          /\ x.type = "steal" => x.from \in Workers
          /\ x.type = "terminate_workers" => m = 0 /\ k # 0 /\ appl_finished'[0] = 1
          /\ x.type = "terminate_server" => ThreadSafe /\ m = k /\ pc'[Main(k)] \in Ended
  /\ appl_finished[0] = 1 => appl_finished'[0] = 1
  /\ \A n \in Nodes : termination_flag'[n] => termination_flag[n] \/ appl_finished'[0] = 1
  /\ \A n \in Nodes : pc[Main(n)] \in Ended => pc'[Main(n)] \in Ended
  /\ \A n \in Nodes : pc'[Server(n)] = "exited" => pc[Server(n)] = "exited"
       \/ (ThreadSafe /\ pc'[Main(n)] \in Ended)
  /\ \A n \in Nodes : ThreadSafe => pc'[Server(n)] # "flag"
  /\ pc'[Main(0)] \in Final => pc[Main(0)] \in Final \/ appl_finished'[0] = 1

LEMMA OverKeeps == ASSUME Same, SetupInv, OverInv, OverKept PROVE OverInv'
<1>1. Nodes' = Nodes /\ ThreadSafe' = ThreadSafe /\ Workers' = Workers /\ 0 \in Nodes
  BY SetupFacts DEF Same
<1>2. ASSUME NEW m \in Nodes, NEW k \in Nodes, NEW x \in Elems(Inbox(m, k)')
      PROVE  /\ x.type # "no_work"
             /\ x.type = "steal" => x.from \in Workers
             /\ x.type = "terminate_workers" => m = 0 /\ k # 0 /\ appl_finished'[0] = 1
             /\ x.type = "terminate_server" => ThreadSafe /\ m = k /\ pc'[Main(k)] \in Ended
  <2>1. CASE x \in Elems(Inbox(m, k))
    BY <2>1 DEF OverInv, OverKept
  <2>2. CASE x \notin Elems(Inbox(m, k))
    BY <2>2 DEF OverKept
  <2> QED BY <2>1, <2>2
<1>3. ASSUME NEW n \in Nodes, pc'[Server(n)] = "exited"
      PROVE  IF ThreadSafe THEN pc'[Main(n)] \in Ended ELSE appl_finished'[0] = 1
  BY <1>3 DEF OverInv, OverKept
<1>4. \A n \in Nodes : termination_flag'[n] => appl_finished'[0] = 1
  BY DEF OverInv, OverKept
<1>5. pc'[Main(0)] \in Final => appl_finished'[0] = 1
  BY DEF OverInv, OverKept
<1> QED BY <1>1, <1>2, <1>3, <1>4, <1>5 DEF OverInv, OverKept

ReleaseKept ==
  /\ \A m \in Nodes, k \in Nodes : \A x \in Elems(Inbox(m, k)') :
       \/ /\ x \in Elems(Inbox(m, k))
          /\ x.type = "terminate_workers" => appl_finished'[k] = appl_finished[k]
          /\ x.type = "terminate_server" =>
               /\ pc'[Main(k)] = pc[Main(k)]
               /\ pc'[Server(k)] = "exited" => pc[Server(k)] = "exited"
       \/ /\ x.type = "terminate_workers" => k \in told' /\ appl_finished'[k] = 0
          /\ x.type = "terminate_server" => pc'[Main(k)] = "join" /\ pc'[Server(k)] # "exited"
  /\ told \subseteq told'
  /\ \A n \in Nodes \ {0} : n \notin told' => appl_finished'[n] = appl_finished[n]
  /\ \A n \in Nodes \ {0} : appl_finished[n] = 1 => appl_finished'[n] = 1
  /\ \A n \in Nodes \ {0} : pc'[Main(n)] \in {"md_end"} \cup Idle =>
       pc[Main(n)] \in {"md_end"} \cup Idle

LEMMA ReleaseKeeps == ASSUME Same, SetupInv, ReleaseInv, ReleaseKept PROVE ReleaseInv'
<1>1. Nodes' = Nodes
  BY DEF Same
<1>2. ASSUME NEW m \in Nodes, NEW k \in Nodes, NEW x \in Elems(Inbox(m, k)')
      PROVE  /\ x.type = "terminate_workers" => k \in told' /\ appl_finished'[k] = 0
             /\ x.type = "terminate_server" => pc'[Main(k)] = "join" /\ pc'[Server(k)] # "exited"
  <2>1. CASE /\ x \in Elems(Inbox(m, k))
             /\ x.type = "terminate_workers" => appl_finished'[k] = appl_finished[k]
             /\ x.type = "terminate_server" =>
                  /\ pc'[Main(k)] = pc[Main(k)]
                  /\ pc'[Server(k)] = "exited" => pc[Server(k)] = "exited"
    BY <2>1 DEF ReleaseInv, ReleaseKept
  <2>2. CASE ~(/\ x \in Elems(Inbox(m, k))
               /\ x.type = "terminate_workers" => appl_finished'[k] = appl_finished[k]
               /\ x.type = "terminate_server" =>
                    /\ pc'[Main(k)] = pc[Main(k)]
                    /\ pc'[Server(k)] = "exited" => pc[Server(k)] = "exited")
    BY <2>2 DEF ReleaseKept
  <2> QED BY <2>1, <2>2
<1>3. \A n \in Nodes \ {0} : n \notin told' => appl_finished'[n] = 0
  BY DEF ReleaseInv, ReleaseKept
<1>4. \A n \in Nodes \ {0} : pc'[Main(n)] \in {"md_end"} \cup Idle => appl_finished'[n] = 1
  BY DEF ReleaseInv, ReleaseKept
<1> QED BY <1>1, <1>2, <1>3, <1>4 DEF ReleaseInv

(* A step that has nothing to do with stealing.                            *)
TheftKept ==
  /\ Thieves' = Thieves
  /\ \A m \in Nodes, k \in Nodes : OneOfAKind(Inbox(m, k)')
  /\ \A m \in Nodes, k \in Nodes : \A x \in Messages : x.type = "steal" =>
       (x \in Elems(Inbox(m, k)') <=> x \in Elems(Inbox(m, k)))
  /\ \A n \in Nodes : /\ asker'[n] = asker[n] /\ sl'[n] = sl[n]
                      /\ pc'[Server(n)] = "reply" <=> pc[Server(n)] = "reply"
  /\ \A m \in Nodes, k \in Nodes, tag \in AnswerTags : chan'[m][k][tag] = chan[m][k][tag]

LEMMA InboxType ==
  ASSUME SetupInv, chan \in Chans, NEW m \in Nodes, NEW k \in Nodes
  PROVE  Elems(Inbox(m, k)) \subseteq Messages /\ Inbox(m, k) \in Seq(Messages)
<1>1. Inbox(m, k) \in Seq(Messages)
  BY TagFacts DEF Inbox, Chans
<1> QED BY <1>1 DEF Elems

LEMMA TheftKeeps ==
  ASSUME Same, SetupInv, SetupInv', chan \in Chans, chan' \in Chans', TheftInv, TheftKept
  PROVE TheftInv'
<1>1. /\ Nodes' = Nodes /\ AnswerTags' = AnswerTags /\ Thieves' = Thieves /\ Messages' = Messages
      /\ \A n : Victim(n)' = Victim(n)
      /\ \A n \in Nodes : Victim(n) \in Nodes
      /\ \A w \in Thieves : w[1] \in Nodes
  BY VictimType, ThreadFacts DEF Same, AnswerTags, TheftKept, Messages, Thieves
<1>2. \A m, k \in Nodes : \A x \in Elems(Inbox(m, k)') : x \in Messages
  <2> TAKE m, k \in Nodes
  <2>1. MaxNvps \in Tags
    BY TagFacts
  <2>2. chan' \in [Nodes -> [Nodes -> [Tags -> Seq(Messages)]]]
    BY <1>1 DEF Chans, Same
  <2>3. Inbox(m, k)' \in Seq(Messages)
    BY <2>1, <2>2 DEF Inbox
  <2> QED BY <2>3 DEF Elems
<1>3. \A m, k \in Nodes : \A x \in Elems(Inbox(m, k)) : x \in Messages
  BY InboxType
<1>4. \A n \in Nodes : /\ Asks(n)' <=> Asks(n)
                       /\ Served(n)' <=> Served(n)
                       /\ Answered(n)' <=> Answered(n)
  BY <1>1, <1>2, <1>3 DEF Asks, Served, Answered, TheftKept
<1>5. ASSUME NEW m \in Nodes, NEW k \in Nodes, NEW x \in Elems(Inbox(m, k)'), x.type = "steal"
      PROVE  x.from \in Thieves /\ x.from[1] = m /\ k = Victim(m)
  BY <1>2, <1>5 DEF TheftInv, TheftKept
<1> QED BY <1>1, <1>4, <1>5 DEF TheftInv, TheftKept

(* The three parts together.                                               *)
LEMMA Assemble ==
  ASSUME CrewInv, CrewInv', MailInv, Same, MailDomains', OverKept,
         ThreadSafe => (TheftInv' \/ TheftKept) /\ ReleaseKept
  PROVE  MailInv'
<1>1. SetupInv /\ SetupInv' /\ ThreadSafe' = ThreadSafe
  BY DEF CrewInv, Same
<1>2. OverInv'
  BY <1>1, OverKeeps DEF MailInv
<1>3. ASSUME ThreadSafe PROVE TheftInv'
  BY <1>1, <1>3, TheftKeeps DEF MailInv, MailDomains
<1>4. ASSUME ThreadSafe PROVE ReleaseInv'
  BY <1>1, <1>4, ReleaseKeeps DEF MailInv
<1> QED BY <1>1, <1>2, <1>3, <1>4 DEF MailInv

LEMMA FinalizeKeeps ==
  ASSUME CrewInv, CrewInv', MailInv, Same, Finalize
  PROVE  MailInv'
<1> DEFINE th == Main(0)
<1>a. /\ SetupInv /\ 0 \in Nodes /\ th \in Threads /\ th \in Workers
      /\ \A n \in Nodes : Server(n) # th
  BY SetupFacts, ThreadFacts DEF CrewInv
<1>1. /\ pc[th] = "app" /\ pc' = [pc EXCEPT ![th] = "terminate_workers"]
      /\ appl_finished' = [appl_finished EXCEPT ![0] = 1]
      /\ UNCHANGED <<chan, asker, sl, told, termination_flag>>
  BY DEF Finalize, Goto, Steals
<1>2. "terminate_workers" \in Places /\ "terminate_workers" \notin Waiting /\ pc[th] \notin Waiting
  BY <1>1 DEF Places, Waiting
<1>3. /\ pc'[th] = "terminate_workers"
      /\ \A n \in Nodes : Main(n) # th => pc'[Main(n)] = pc[Main(n)]
      /\ \A n \in Nodes : pc'[Server(n)] = pc[Server(n)]
      /\ Thieves' = Thieves
  BY <1>a, <1>1, <1>2, MoveFacts
<1>4. /\ MailDomains' /\ appl_finished'[0] = 1
      /\ \A n \in Nodes \ {0} : appl_finished'[n] = appl_finished[n]
  BY <1>a, <1>1 DEF MailInv, MailDomains, Same, Chans, Messages
<1>5. \A m, k \in Nodes : Inbox(m, k)' = Inbox(m, k)
  BY <1>1 DEF Inbox
<1>b. \A n \in Nodes : Main(n) = th => n = 0
  BY <1>a, ThreadFacts
<1> HIDE DEF th
<1>6. OverKept
  <2>1. \A n \in Nodes : pc[Main(n)] \in Ended => pc'[Main(n)] \in Ended
    BY <1>1, <1>3 DEF Ended
  <2> QED BY <1>1, <1>3, <1>4, <1>5, <2>1 DEF OverKept, MailInv, OverInv
<1>7. ASSUME ThreadSafe PROVE TheftKept
  BY <1>1, <1>3, <1>5, <1>7 DEF TheftKept, MailInv, TheftInv
<1>8. ASSUME ThreadSafe PROVE ReleaseKept
  <2>1. \A n \in Nodes \ {0} : pc'[Main(n)] = pc[Main(n)]
    BY <1>3, <1>b
  <2>2. \A m, k \in Nodes : \A x \in Elems(Inbox(m, k)) :
           /\ x.type = "terminate_workers" => k # 0
           /\ x.type = "terminate_server" => pc[Main(k)] = "join"
    BY <1>8 DEF MailInv, OverInv, ReleaseInv
  <2>3. \A k \in Nodes : pc[Main(k)] = "join" => pc'[Main(k)] = pc[Main(k)]
    BY <1>1, <1>3
  <2> QED BY <1>1, <1>3, <1>4, <1>5, <2>1, <2>2, <2>3 DEF ReleaseKept
<1> QED BY <1>4, <1>6, <1>7, <1>8, Assemble

LEMMA TerminateWorkersKeeps ==
  ASSUME CrewInv, CrewInv', MailInv, Same, NEW n \in Nodes, TerminateWorkers(n)
  PROVE  MailInv'
<1> DEFINE msg == [type |-> "terminate_workers", from |-> Main(0)]
<1>a. SetupInv /\ 0 \in Nodes /\ Main(0) \in Threads /\ chan \in Chans
  BY SetupFacts, ThreadFacts DEF CrewInv, MailInv, MailDomains
<1>1. /\ pc[Main(0)] = "terminate_workers" /\ n \notin told /\ n # 0
      /\ Post(0, n, MaxNvps, msg) /\ told' = told \cup {n}
      /\ UNCHANGED <<pc, asker, sl, appl_finished, termination_flag>>
  BY DEF TerminateWorkers, Steals
<1>2. msg \in Messages /\ msg.type = "terminate_workers"
  BY <1>a DEF Messages
<1> HIDE DEF msg
<1>3. /\ chan' \in Chans
      /\ Elems(Inbox(0, n)') = Elems(Inbox(0, n)) \cup {msg}
      /\ \A a, b \in Nodes : a # 0 \/ b # n => Inbox(a, b)' = Inbox(a, b)
      /\ \A a, b \in Nodes : \A t \in AnswerTags : chan'[a][b][t] = chan[a][b][t]
      /\ OneOfAKind(Inbox(0, n)) /\ (\A x \in Elems(Inbox(0, n)) : x.type # msg.type) =>
           OneOfAKind(Inbox(0, n)')
  BY <1>a, <1>1, <1>2, InboxPost
<1>b. \A a, b \in Nodes : \A x \in Elems(Inbox(a, b)') :
         x \in Elems(Inbox(a, b)) \/ (a = 0 /\ b = n /\ x = msg)
  BY <1>3
<1>4. MailDomains'
  BY <1>1, <1>3 DEF MailInv, MailDomains, Same, Chans, Messages
<1>5. appl_finished[0] = 1
  BY <1>1 DEF MailInv, OverInv, Final
<1>6. OverKept
  BY <1>1, <1>2, <1>b, <1>5 DEF OverKept, MailInv, OverInv
<1>7. ASSUME ThreadSafe PROVE TheftKept
  <2>1. \A x \in Elems(Inbox(0, n)) : x.type # "terminate_workers"
    BY <1>a, <1>1, <1>7 DEF MailInv, ReleaseInv
  <2>2. \A m, k \in Nodes : OneOfAKind(Inbox(m, k)')
    BY <1>2, <1>3, <1>7, <2>1 DEF MailInv, TheftInv
  <2>3. \A m, k \in Nodes : \A x \in Messages : x.type = "steal" =>
          (x \in Elems(Inbox(m, k)') <=> x \in Elems(Inbox(m, k)))
    BY <1>2, <1>3
  <2>4. Thieves' = Thieves
    BY <1>1 DEF Thieves, Same
  <2> QED BY <1>1, <1>3, <2>2, <2>3, <2>4 DEF TheftKept
<1>8. ASSUME ThreadSafe PROVE ReleaseKept
  <2>1. appl_finished[n] = 0
    BY <1>1, <1>8 DEF MailInv, ReleaseInv
  <2> QED BY <1>1, <1>2, <1>b, <2>1 DEF ReleaseKept
<1> QED BY <1>4, <1>6, <1>7, <1>8, Assemble

LEMMA PrefetchRequestKeeps ==
  ASSUME CrewInv, CrewInv', MailInv, Same, NEW w \in Workers, PrefetchRequest(w)
  PROVE  MailInv'
<1> DEFINE msg == [type |-> "prefetch", from |-> w]
<1>z. SetupInv /\ chan \in Chans /\ 0 \in Nodes /\ w \in Threads
  <2>1. SetupInv /\ chan \in Chans /\ w \in Threads
    BY DEF CrewInv, MailInv, MailDomains, Threads
  <2> QED BY <2>1, SetupFacts
<1>n. PICK n \in Nodes : n = w[1]
  BY <1>z, ThreadFacts
<1>m. PICK m \in Nodes : m = target_node[w]
  BY DEF CrewInv, TargetInv
<1>1. /\ Post(n, m, MaxNvps, msg)
      /\ UNCHANGED <<pc, asker, sl, told, appl_finished, termination_flag>>
  BY <1>n, <1>m DEF PrefetchRequest, Ending
<1>2. msg \in Messages /\ msg.type = "prefetch"
  BY <1>z DEF Messages
<1> HIDE DEF msg
<1>3. /\ chan' \in Chans
      /\ Elems(Inbox(n, m)') = Elems(Inbox(n, m)) \cup {msg}
      /\ \A a, b \in Nodes : a # n \/ b # m => Inbox(a, b)' = Inbox(a, b)
      /\ \A a, b \in Nodes : \A t \in AnswerTags : chan'[a][b][t] = chan[a][b][t]
      /\ OneOfAKind(Inbox(n, m)) => OneOfAKind(Inbox(n, m)')
  BY <1>z, <1>1, <1>2, InboxPost
<1>b. \A a, b \in Nodes : \A x \in Elems(Inbox(a, b)') :
         x \in Elems(Inbox(a, b)) \/ (a = n /\ b = m /\ x = msg)
  BY <1>3
<1>4. MailDomains'
  BY <1>1, <1>3 DEF MailInv, MailDomains, Same, Chans, Messages
<1>5. OverKept
  BY <1>1, <1>2, <1>b DEF OverKept, MailInv, OverInv
<1>6. ASSUME ThreadSafe PROVE TheftKept
  <2>1. \A a, b \in Nodes : OneOfAKind(Inbox(a, b)')
    BY <1>3, <1>6 DEF MailInv, TheftInv
  <2>2. \A a, b \in Nodes : \A x \in Messages : x.type = "steal" =>
          (x \in Elems(Inbox(a, b)') <=> x \in Elems(Inbox(a, b)))
    BY <1>2, <1>3
  <2>3. Thieves' = Thieves
    BY <1>1 DEF Thieves, Same
  <2> QED BY <1>1, <1>3, <2>1, <2>2, <2>3 DEF TheftKept
<1>7. ASSUME ThreadSafe PROVE ReleaseKept
  BY <1>1, <1>2, <1>b DEF ReleaseKept
<1> QED BY <1>4, <1>5, <1>6, <1>7, Assemble

LEMMA ShutdownKeeps ==
  ASSUME CrewInv, CrewInv', MailInv, Same, NEW n \in Nodes, ShutdownServer(n)
  PROVE  MailInv'
<1> DEFINE msg == [type |-> "terminate_server", from |-> Main(n)]
           th == Main(n)
<1>a. /\ SetupInv /\ 0 \in Nodes /\ th \in WorkersOf(n) /\ th \in Workers /\ th \in Threads
      /\ \A m \in Nodes : Server(m) # th
      /\ \A m \in Nodes : Main(m) = th => m = n
      /\ chan \in Chans
  BY SetupFacts, ThreadFacts DEF CrewInv, MailInv, MailDomains
<1>1. /\ pc[th] = "shutdown_server" /\ pc' = [pc EXCEPT ![th] = "join"]
      /\ UNCHANGED <<asker, sl, told, appl_finished>>
      /\ IF ThreadSafe
         THEN Post(n, n, MaxNvps, msg) /\ UNCHANGED termination_flag
         ELSE /\ termination_flag' = [termination_flag EXCEPT ![n] = TRUE]
              /\ UNCHANGED chan
  BY DEF ShutdownServer, Steals, Goto
<1>2. msg \in Messages /\ msg.type = "terminate_server"
  BY <1>a DEF Messages
<1>3. "join" \in Places /\ "join" \notin Waiting /\ pc[th] \notin Waiting
  BY <1>1 DEF Places, Waiting
<1>4. /\ pc'[th] = "join"
      /\ \A m \in Nodes : Main(m) # th => pc'[Main(m)] = pc[Main(m)]
      /\ \A m \in Nodes : pc'[Server(m)] = pc[Server(m)]
      /\ Thieves' = Thieves
  BY <1>a, <1>1, <1>3, MoveFacts
<1> HIDE DEF th, msg
<1>5. pc[Server(n)] # "exited" \/ ~ThreadSafe
  BY <1>1 DEF MailInv, OverInv, Ended, th
<1>6. /\ \A m \in Nodes : pc[Main(m)] \in Ended => pc'[Main(m)] \in Ended
      /\ \A m \in Nodes : pc'[Main(m)] \in Final => pc[Main(m)] \in Final
      /\ \A m \in Nodes \ {0} : pc'[Main(m)] \in {"md_end"} \cup Idle =>
           pc[Main(m)] \in {"md_end"} \cup Idle
      /\ \A m \in Nodes : pc[Main(m)] = "join" => pc'[Main(m)] = pc[Main(m)]
  BY <1>1, <1>4 DEF Ended, Final, Idle
<1>7. CASE ThreadSafe
  <2>1. /\ chan' \in Chans
        /\ Elems(Inbox(n, n)') = Elems(Inbox(n, n)) \cup {msg}
        /\ \A a, b \in Nodes : a # n \/ b # n => Inbox(a, b)' = Inbox(a, b)
        /\ \A a, b \in Nodes : \A t \in AnswerTags : chan'[a][b][t] = chan[a][b][t]
        /\ OneOfAKind(Inbox(n, n)) /\ (\A x \in Elems(Inbox(n, n)) : x.type # msg.type) =>
             OneOfAKind(Inbox(n, n)')
    BY <1>a, <1>1, <1>2, <1>7, InboxPost
  <2>2. \A a, b \in Nodes : \A x \in Elems(Inbox(a, b)') :
           x \in Elems(Inbox(a, b)) \/ (a = n /\ b = n /\ x = msg)
    BY <2>1
  <2>3. MailDomains'
    BY <1>1, <1>7, <2>1 DEF MailInv, MailDomains, Same, Chans, Messages
  <2>4. OverKept
    BY <1>1, <1>2, <1>4, <1>6, <1>7, <2>2 DEF OverKept, MailInv, OverInv, Ended, th
  <2>5. TheftKept
    <3>1. \A x \in Elems(Inbox(n, n)) : x.type # "terminate_server"
      BY <1>1, <1>7 DEF MailInv, ReleaseInv, th
    <3>2. \A m, k \in Nodes : OneOfAKind(Inbox(m, k)')
      BY <1>2, <1>7, <2>1, <3>1 DEF MailInv, TheftInv
    <3>3. \A m, k \in Nodes : \A x \in Messages : x.type = "steal" =>
            (x \in Elems(Inbox(m, k)') <=> x \in Elems(Inbox(m, k)))
      BY <1>2, <2>1
    <3> QED BY <1>1, <1>4, <2>1, <3>2, <3>3 DEF TheftKept
  <2>6. ReleaseKept
    <3>1. \A m, k \in Nodes : \A x \in Elems(Inbox(m, k)) :
             x.type = "terminate_server" => pc[Main(k)] = "join"
      BY <1>7 DEF MailInv, ReleaseInv
    <3> QED BY <1>1, <1>2, <1>4, <1>5, <1>6, <1>7, <2>2, <3>1 DEF ReleaseKept, th
  <2> QED BY <2>3, <2>4, <2>5, <2>6, Assemble
<1>8. CASE ~ThreadSafe
  <2>1. \A a, b \in Nodes : Inbox(a, b)' = Inbox(a, b)
    BY <1>1, <1>8 DEF Inbox
  <2>2. MailDomains'
    BY <1>1, <1>8 DEF MailInv, MailDomains, Same, Chans, Messages
  <2>3. appl_finished[0] = 1
    <3>1. Phase(pc[Main(n)]) = 7
      BY <1>1 DEF Phase, th
    <3>2. Phase(pc[Main(0)]) >= 7 \/ (Phase(pc[Main(0)]) = 6 /\ pc[Main(0)] \in CollectivePoints)
      <4>1. Phase(pc[Main(0)]) \in Nat
        BY DEF Phase
      <4> HIDE DEF Phase
      <4> QED BY <1>a, <3>1, <4>1, OthersFollow
    <3>3. pc[Main(0)] \in Final
      BY <3>2 DEF Phase, CollectivePoints, Final, Idle
    <3> QED BY <3>3 DEF MailInv, OverInv
  <2>4. OverKept
    BY <1>1, <1>4, <1>6, <1>8, <2>1, <2>3 DEF OverKept, MailInv, OverInv, MailDomains
  <2> QED BY <1>8, <2>2, <2>4, Assemble
<1> QED BY <1>7, <1>8

(* A server goes on; nothing but its own place changes.                    *)
LEMMA ServerGoes ==
  ASSUME CrewInv, MailInv, Same, NEW n \in Nodes, NEW q \in {"receive", "flag", "reply", "exited"},
         pc' = [pc EXCEPT ![Server(n)] = q]
  PROVE  /\ pc'[Server(n)] = q
         /\ \A k \in Nodes : pc'[Main(k)] = pc[Main(k)]
         /\ \A k \in Nodes \ {n} : pc'[Server(k)] = pc[Server(k)]
         /\ Thieves' = Thieves
<1>1. q \in Places /\ Server(n) \in Threads
  BY ThreadFacts DEF Places, CrewInv
<1>2. /\ \A k \in Nodes : Main(k) # Server(n)
      /\ \A k \in Nodes \ {n} : Server(k) # Server(n)
      /\ Server(n) \notin Workers
  BY ThreadFacts DEF CrewInv
<1> QED BY <1>1, <1>2, MoveFacts

LEMMA ServeTerminateWorkersKeeps ==
  ASSUME CrewInv, CrewInv', MailInv, Same, NEW n \in Nodes, NEW m \in Nodes,
         ServeTerminateWorkers(n, m)
  PROVE  MailInv'
<1> DEFINE head == Head(Inbox(m, n))
<1>a. SetupInv /\ chan \in Chans /\ 0 \in Nodes
  BY SetupFacts DEF CrewInv, MailInv, MailDomains
<1>1. /\ pc[Server(n)] = "receive" /\ Inbox(m, n) # <<>> /\ head.type = "terminate_workers"
      /\ Take(m, n, MaxNvps)
      /\ termination_flag' = [termination_flag EXCEPT ![n] = TRUE]
      /\ appl_finished' = IF m # n THEN [appl_finished EXCEPT ![n] = @ + 1] ELSE appl_finished
      /\ pc' = [pc EXCEPT ![Server(n)] = ServerStart]
      /\ UNCHANGED <<asker, sl, told>>
  BY DEF ServeTerminateWorkers, Receives, Inbox, Goto, Steals
<1>2. /\ chan' \in Chans /\ head \in Elems(Inbox(m, n))
      /\ Elems(Inbox(m, n)') \subseteq Elems(Inbox(m, n))
      /\ \A a, b \in Nodes : a # m \/ b # n => Inbox(a, b)' = Inbox(a, b)
      /\ \A a, b \in Nodes : \A t \in AnswerTags : chan'[a][b][t] = chan[a][b][t]
      /\ OneOfAKind(Inbox(m, n)) =>
           /\ OneOfAKind(Inbox(m, n)')
           /\ \A x \in Elems(Inbox(m, n)') : x.type # head.type
  BY <1>a, <1>1, InboxTake
<1> HIDE DEF head
<1>3. m = 0 /\ n # 0 /\ appl_finished[0] = 1
  BY <1>1, <1>2 DEF MailInv, OverInv
<1>4. /\ appl_finished' = [appl_finished EXCEPT ![n] = @ + 1]
      /\ appl_finished'[0] = 1
      /\ \A k \in Nodes \ {n} : appl_finished'[k] = appl_finished[k]
  BY <1>a, <1>1, <1>3 DEF MailInv, MailDomains
<1>5. ServerStart \in {"receive", "flag"} /\ (ThreadSafe => ServerStart = "receive")
  BY DEF ServerStart
<1>6. /\ pc'[Server(n)] = ServerStart
      /\ \A k \in Nodes : pc'[Main(k)] = pc[Main(k)]
      /\ \A k \in Nodes \ {n} : pc'[Server(k)] = pc[Server(k)]
      /\ Thieves' = Thieves
  BY <1>1, <1>5, ServerGoes
<1>b. \A a, b \in Nodes : Elems(Inbox(a, b)') \subseteq Elems(Inbox(a, b))
  BY <1>2
<1>7. MailDomains'
  <2>1. appl_finished' \in [Nodes -> Nat] /\ termination_flag' \in [Nodes -> BOOLEAN]
    BY <1>1, <1>4 DEF MailInv, MailDomains
  <2> QED BY <1>1, <1>2, <2>1 DEF MailInv, MailDomains, Same, Chans, Messages
<1>8. OverKept
  <2>1. \A k \in Nodes : pc'[Server(k)] = "exited" => pc[Server(k)] = "exited"
    BY <1>5, <1>6
  <2>2. \A k \in Nodes : ThreadSafe => pc'[Server(k)] # "flag"
    BY <1>5, <1>6 DEF MailInv, OverInv
  <2>3. pc'[Main(0)] = pc[Main(0)]
    BY <1>a, <1>6
  <2> QED BY <1>4, <1>6, <1>b, <2>1, <2>2, <2>3 DEF OverKept
<1>9. ASSUME ThreadSafe PROVE TheftKept
  <2>1. \A a, b \in Nodes : OneOfAKind(Inbox(a, b)')
    BY <1>2, <1>9 DEF MailInv, TheftInv
  <2>2. \A x \in Elems(Inbox(m, n)) : x.type = "steal" => x \in Elems(Inbox(m, n)')
    <3>1. Inbox(m, n) \in Seq(Messages) /\ Inbox(m, n)' = Tail(Inbox(m, n))
      <4>1. MaxNvps \in Tags
        BY <1>a, TagFacts
      <4> QED BY <1>a, <1>1, <4>1 DEF Inbox, Chans, Take
    <3>2. \A x \in Elems(Inbox(m, n)) : x = Head(Inbox(m, n)) \/ x \in Elems(Tail(Inbox(m, n)))
      BY <1>1, <3>1, ElemsOfTail
    <3> QED BY <1>1, <3>1, <3>2 DEF head
  <2>3. \A a, b \in Nodes : \A x \in Messages : x.type = "steal" =>
          (x \in Elems(Inbox(a, b)') <=> x \in Elems(Inbox(a, b)))
    BY <1>2, <2>2
  <2>4. \A k \in Nodes : pc'[Server(k)] = "reply" <=> pc[Server(k)] = "reply"
    BY <1>1, <1>5, <1>6
  <2> QED BY <1>1, <1>2, <1>6, <2>1, <2>3, <2>4 DEF TheftKept
<1>10. ASSUME ThreadSafe PROVE ReleaseKept
  <2>1. n \in told /\ appl_finished[n] = 0
    BY <1>1, <1>2, <1>10 DEF MailInv, ReleaseInv
  <2>2. ASSUME NEW a \in Nodes, NEW b \in Nodes, NEW x \in Elems(Inbox(a, b)')
        PROVE  /\ x \in Elems(Inbox(a, b))
               /\ x.type = "terminate_workers" => appl_finished'[b] = appl_finished[b]
               /\ pc'[Main(b)] = pc[Main(b)]
               /\ pc'[Server(b)] = "exited" => pc[Server(b)] = "exited"
    <3>1. x \in Elems(Inbox(a, b))
      BY <1>b, <2>2
    <3>2. ASSUME x.type = "terminate_workers" PROVE b # n
      <4>1. a = 0
        BY <3>1, <3>2 DEF MailInv, OverInv
      <4>2. b = n => x.type # head.type
        BY <1>2, <1>3, <1>10, <2>2, <4>1 DEF MailInv, TheftInv
      <4> QED BY <1>1, <3>2, <4>2
    <3> QED BY <1>4, <1>5, <1>6, <3>1, <3>2
  <2>3. \A k \in Nodes \ {0} : appl_finished[k] = 1 => appl_finished'[k] = 1
    BY <1>4, <2>1
  <2>4. \A k \in Nodes \ {0} : k \notin told' => appl_finished'[k] = appl_finished[k]
    BY <1>1, <1>4, <2>1
  <2> QED BY <1>1, <1>6, <2>2, <2>3, <2>4 DEF ReleaseKept
<1> QED BY <1>7, <1>8, <1>9, <1>10, Assemble

LEMMA ServeTerminateServerKeeps ==
  ASSUME CrewInv, CrewInv', MailInv, Same, NEW n \in Nodes, ServeTerminateServer(n)
  PROVE  MailInv'
<1> DEFINE head == Head(Inbox(n, n))
<1>a. SetupInv /\ chan \in Chans /\ 0 \in Nodes
  BY SetupFacts DEF CrewInv, MailInv, MailDomains
<1>1. /\ pc[Server(n)] = "receive" /\ Inbox(n, n) # <<>> /\ head.type = "terminate_server"
      /\ Take(n, n, MaxNvps)
      /\ pc' = [pc EXCEPT ![Server(n)] = "exited"]
      /\ UNCHANGED <<asker, sl, told, appl_finished, termination_flag>>
  BY DEF ServeTerminateServer, Receives, Inbox, Goto, Steals, Ending
<1>2. /\ chan' \in Chans /\ head \in Elems(Inbox(n, n))
      /\ Elems(Inbox(n, n)') \subseteq Elems(Inbox(n, n))
      /\ \A a, b \in Nodes : a # n \/ b # n => Inbox(a, b)' = Inbox(a, b)
      /\ \A a, b \in Nodes : \A t \in AnswerTags : chan'[a][b][t] = chan[a][b][t]
      /\ OneOfAKind(Inbox(n, n)) =>
           /\ OneOfAKind(Inbox(n, n)')
           /\ \A x \in Elems(Inbox(n, n)') : x.type # head.type
  BY <1>a, <1>1, InboxTake
<1> HIDE DEF head
<1>3. ThreadSafe /\ pc[Main(n)] \in Ended
  BY <1>1, <1>2 DEF MailInv, OverInv
<1>6. /\ pc'[Server(n)] = "exited"
      /\ \A k \in Nodes : pc'[Main(k)] = pc[Main(k)]
      /\ \A k \in Nodes \ {n} : pc'[Server(k)] = pc[Server(k)]
      /\ Thieves' = Thieves
  BY <1>1, ServerGoes
<1>b. \A a, b \in Nodes : Elems(Inbox(a, b)') \subseteq Elems(Inbox(a, b))
  BY <1>2
<1>7. MailDomains'
  BY <1>1, <1>2 DEF MailInv, MailDomains, Same, Chans, Messages
<1>8. OverKept
  <2>2. \A k \in Nodes : ThreadSafe => pc'[Server(k)] # "flag"
    BY <1>6 DEF MailInv, OverInv
  <2>3. pc'[Main(0)] = pc[Main(0)]
    BY <1>a, <1>6
  <2> QED BY <1>1, <1>3, <1>6, <1>b, <2>2, <2>3 DEF OverKept
<1>9. TheftKept
  <2>1. \A a, b \in Nodes : OneOfAKind(Inbox(a, b)')
    BY <1>2, <1>3 DEF MailInv, TheftInv
  <2>2. \A x \in Elems(Inbox(n, n)) : x.type = "steal" => x \in Elems(Inbox(n, n)')
    <3>1. Inbox(n, n) \in Seq(Messages) /\ Inbox(n, n)' = Tail(Inbox(n, n))
      <4>1. MaxNvps \in Tags
        BY <1>a, TagFacts
      <4> QED BY <1>a, <1>1, <4>1 DEF Inbox, Chans, Take
    <3>2. \A x \in Elems(Inbox(n, n)) : x = Head(Inbox(n, n)) \/ x \in Elems(Tail(Inbox(n, n)))
      BY <1>1, <3>1, ElemsOfTail
    <3> QED BY <1>1, <3>1, <3>2 DEF head
  <2>3. \A a, b \in Nodes : \A x \in Messages : x.type = "steal" =>
          (x \in Elems(Inbox(a, b)') <=> x \in Elems(Inbox(a, b)))
    BY <1>2, <2>2
  <2>4. \A k \in Nodes : pc'[Server(k)] = "reply" <=> pc[Server(k)] = "reply"
    BY <1>1, <1>6
  <2> QED BY <1>1, <1>2, <1>6, <2>1, <2>3, <2>4 DEF TheftKept
<1>10. ReleaseKept
  <2>2. ASSUME NEW a \in Nodes, NEW b \in Nodes, NEW x \in Elems(Inbox(a, b)')
        PROVE  /\ x \in Elems(Inbox(a, b))
               /\ pc'[Main(b)] = pc[Main(b)]
               /\ x.type = "terminate_server" => pc'[Server(b)] = pc[Server(b)]
    <3>1. x \in Elems(Inbox(a, b))
      BY <1>b, <2>2
    <3>2. ASSUME x.type = "terminate_server" PROVE b # n
      <4>1. a = b
        BY <3>1, <3>2 DEF MailInv, OverInv
      <4>2. b = n => x.type # head.type
        BY <1>2, <1>3, <2>2, <4>1 DEF MailInv, TheftInv
      <4> QED BY <1>1, <3>2, <4>2
    <3> QED BY <1>6, <3>1, <3>2
  <2> QED BY <1>1, <1>6, <2>2 DEF ReleaseKept
<1> QED BY <1>3, <1>7, <1>8, <1>9, <1>10, Assemble

LEMMA ServePrefetchKeeps ==
  ASSUME CrewInv, CrewInv', MailInv, Same, NEW n \in Nodes, NEW m \in Nodes, ServePrefetch(n, m)
  PROVE  MailInv'
<1> DEFINE head == Head(Inbox(m, n))
<1>a. SetupInv /\ chan \in Chans /\ 0 \in Nodes
  BY SetupFacts DEF CrewInv, MailInv, MailDomains
<1>1. /\ pc[Server(n)] = "receive" /\ Inbox(m, n) # <<>> /\ head.type = "prefetch"
      /\ Take(m, n, MaxNvps)
      /\ pc' = [pc EXCEPT ![Server(n)] = ServerStart]
      /\ UNCHANGED <<asker, sl, told, appl_finished, termination_flag>>
  BY DEF ServePrefetch, Receives, Inbox, Goto, Steals, Ending
<1>2. /\ chan' \in Chans /\ Elems(Inbox(m, n)') \subseteq Elems(Inbox(m, n))
      /\ \A a, b \in Nodes : a # m \/ b # n => Inbox(a, b)' = Inbox(a, b)
      /\ \A a, b \in Nodes : \A t \in AnswerTags : chan'[a][b][t] = chan[a][b][t]
      /\ OneOfAKind(Inbox(m, n)) => OneOfAKind(Inbox(m, n)')
  BY <1>a, <1>1, InboxTake
<1> HIDE DEF head
<1>3. ServerStart \in {"receive", "flag"} /\ (ThreadSafe => ServerStart = "receive")
  BY DEF ServerStart
<1>4. /\ pc'[Server(n)] = ServerStart
      /\ \A k \in Nodes : pc'[Main(k)] = pc[Main(k)]
      /\ \A k \in Nodes \ {n} : pc'[Server(k)] = pc[Server(k)]
      /\ Thieves' = Thieves
  BY <1>1, <1>3, ServerGoes
<1>5. /\ \A a, b \in Nodes : Elems(Inbox(a, b)') \subseteq Elems(Inbox(a, b))
      /\ \A k \in Nodes : pc'[Server(k)] = "exited" => pc[Server(k)] = "exited"
      /\ \A k \in Nodes : pc'[Server(k)] = "reply" <=> pc[Server(k)] = "reply"
  BY <1>1, <1>2, <1>3, <1>4
<1>6. MailDomains'
  BY <1>1, <1>2 DEF MailInv, MailDomains, Same, Chans, Messages
<1>7. OverKept
  <2>1. \A k \in Nodes : ThreadSafe => pc'[Server(k)] # "flag"
    BY <1>3, <1>4 DEF MailInv, OverInv
  <2>2. pc'[Main(0)] = pc[Main(0)]
    BY <1>a, <1>4
  <2> QED BY <1>1, <1>4, <1>5, <2>1, <2>2 DEF OverKept
<1>8. ASSUME ThreadSafe PROVE TheftKept
  <2>1. \A a, b \in Nodes : OneOfAKind(Inbox(a, b)')
    BY <1>2, <1>8 DEF MailInv, TheftInv
  <2>2. \A x \in Elems(Inbox(m, n)) : x.type = "steal" => x \in Elems(Inbox(m, n)')
    <3>1. Inbox(m, n) \in Seq(Messages) /\ Inbox(m, n)' = Tail(Inbox(m, n))
      <4>1. MaxNvps \in Tags
        BY <1>a, TagFacts
      <4> QED BY <1>a, <1>1, <4>1 DEF Inbox, Chans, Take
    <3>2. \A x \in Elems(Inbox(m, n)) : x = Head(Inbox(m, n)) \/ x \in Elems(Tail(Inbox(m, n)))
      BY <1>1, <3>1, ElemsOfTail
    <3> QED BY <1>1, <3>1, <3>2 DEF head
  <2>3. \A a, b \in Nodes : \A x \in Messages : x.type = "steal" =>
          (x \in Elems(Inbox(a, b)') <=> x \in Elems(Inbox(a, b)))
    BY <1>2, <2>2
  <2> QED BY <1>1, <1>2, <1>4, <1>5, <2>1, <2>3 DEF TheftKept
<1>9. ASSUME ThreadSafe PROVE ReleaseKept
  BY <1>1, <1>4, <1>5 DEF ReleaseKept
<1> QED BY <1>6, <1>7, <1>8, <1>9, Assemble

LEMMA ServeStealKeeps ==
  ASSUME CrewInv, CrewInv', MailInv, Same, NEW n \in Nodes, NEW m \in Nodes, ServeSteal(n, m)
  PROVE  MailInv'
<1> DEFINE head == Head(Inbox(m, n))
           w == head.from
<1>a. SetupInv /\ chan \in Chans /\ 0 \in Nodes
  BY SetupFacts DEF CrewInv, MailInv, MailDomains
<1>1. /\ pc[Server(n)] = "receive" /\ Inbox(m, n) # <<>> /\ head.type = "steal"
      /\ Take(m, n, MaxNvps)
      /\ asker' = [asker EXCEPT ![n] = w]
      /\ pc' = [pc EXCEPT ![Server(n)] = "reply"]
      /\ UNCHANGED <<sl, told, appl_finished, termination_flag>>
  BY DEF ServeSteal, Receives, Inbox, Goto, Ending
<1>2. /\ chan' \in Chans /\ head \in Elems(Inbox(m, n))
      /\ Elems(Inbox(m, n)') \subseteq Elems(Inbox(m, n))
      /\ \A a, b \in Nodes : a # m \/ b # n => Inbox(a, b)' = Inbox(a, b)
      /\ \A a, b \in Nodes : \A t \in AnswerTags : chan'[a][b][t] = chan[a][b][t]
      /\ OneOfAKind(Inbox(m, n)) =>
           /\ OneOfAKind(Inbox(m, n)')
           /\ \A x \in Elems(Inbox(m, n)') : x.type # head.type
  BY <1>a, <1>1, InboxTake
<1> HIDE DEF head
<1>3. w \in Workers
  BY <1>1, <1>2 DEF MailInv, OverInv
<1> HIDE DEF w
<1>4. /\ pc'[Server(n)] = "reply"
      /\ \A k \in Nodes : pc'[Main(k)] = pc[Main(k)]
      /\ \A k \in Nodes \ {n} : pc'[Server(k)] = pc[Server(k)]
      /\ Thieves' = Thieves
  BY <1>1, ServerGoes
<1>5. /\ \A a, b \in Nodes : Elems(Inbox(a, b)') \subseteq Elems(Inbox(a, b))
      /\ asker'[n] = w /\ \A k \in Nodes \ {n} : asker'[k] = asker[k]
      /\ asker' \in [Nodes -> Workers]
  BY <1>1, <1>2, <1>3 DEF MailInv, MailDomains
<1>6. MailDomains'
  BY <1>1, <1>2, <1>5 DEF MailInv, MailDomains, Same, Chans, Messages
<1>7. OverKept
  <2>2. \A k \in Nodes : ThreadSafe => pc'[Server(k)] # "flag"
    BY <1>4 DEF MailInv, OverInv
  <2>3. pc'[Main(0)] = pc[Main(0)]
    BY <1>a, <1>4
  <2>4. \A k \in Nodes : pc'[Server(k)] = "exited" => pc[Server(k)] = "exited"
    BY <1>4
  <2> QED BY <1>1, <1>4, <1>5, <2>2, <2>3, <2>4 DEF OverKept
<1>8. ASSUME ThreadSafe PROVE TheftInv'
  <2>1. TheftInv /\ w \in Thieves /\ w[1] = m /\ n = Victim(m)
    BY <1>1, <1>2, <1>8 DEF MailInv, TheftInv, w
  <2>2. /\ Nodes' = Nodes /\ AnswerTags' = AnswerTags /\ Thieves' = Thieves
        /\ \A k : Victim(k)' = Victim(k)
        /\ \A k \in Nodes : Victim(k) \in Nodes
    BY <1>a, <1>4, VictimType DEF Same, AnswerTags
  <2>3. Asks(m) /\ ~Asks(m)' /\ \A k \in Nodes : Asks(k)' => Asks(k)
    BY <1>1, <1>2, <1>5, <2>1, <2>2 DEF Asks, TheftInv
  <2>4. \A k \in Nodes \ {m} : Served(k)' => Served(k)
    BY <1>1, <1>4, <1>5, <2>1, <2>2 DEF Served
  <2>5. \A k \in Nodes : Answered(k)' <=> Answered(k)
    BY <1>2, <2>2 DEF Answered
  <2>6. \A a, b \in Nodes : OneOfAKind(Inbox(a, b)')
    BY <1>2, <2>1 DEF TheftInv
  <2>7. \A a, b \in Nodes : \A x \in Elems(Inbox(a, b)') :
          x.type = "steal" => x.from \in Thieves /\ x.from[1] = a /\ b = Victim(a)
    BY <1>5, <2>1 DEF TheftInv
  <2>8. \A k \in Nodes : pc'[Server(k)] = "reply" => asker'[k] \in Thieves /\ Victim(asker'[k][1]) = k
    BY <1>4, <1>5, <2>1 DEF TheftInv
  <2>9. \A k \in Nodes : /\ ~ (Asks(k)' /\ Served(k)') /\ ~ (Asks(k)' /\ Answered(k)')
                         /\ ~ (Served(k)' /\ Answered(k)')
    BY <2>1, <2>3, <2>4, <2>5 DEF TheftInv
  <2>10. \A u \in Thieves : sl'[u[1]]
    BY <1>1, <2>1 DEF TheftInv
  <2>11. \A a \in Nodes, b \in Nodes, tag \in AnswerTags : chan'[a][b][tag] # <<>> =>
           /\ Len(chan'[a][b][tag]) = 1 /\ a = Victim(b)
           /\ \E u \in Thieves : u[1] = b /\ tag = StealTag(u[2])
    BY <1>2, <2>1 DEF TheftInv
  <2>12. \A u \in Thieves, v \in Thieves : u[1] = v[1] => u = v
    BY <2>1 DEF TheftInv
  <2> QED BY <2>2, <2>6, <2>7, <2>8, <2>9, <2>10, <2>11, <2>12 DEF TheftInv
<1>9. ASSUME ThreadSafe PROVE ReleaseKept
  <2>1. \A k \in Nodes : pc'[Server(k)] = "exited" => pc[Server(k)] = "exited"
    BY <1>4
  <2> QED BY <1>1, <1>4, <1>5, <2>1 DEF ReleaseKept
<1> QED BY <1>6, <1>7, <1>8, <1>9, Assemble

LEMMA ReplyKeeps ==
  ASSUME CrewInv, CrewInv', MailInv, Same, NEW n \in Nodes, Reply(n)
  PROVE  MailInv'
<1>0. PICK w \in Workers : w = asker[n]
  BY DEF MailInv, MailDomains
<1> DEFINE k == w[1]
           tag == StealTag(w[2])
           msg == [type |-> "no_work", from |-> Server(n)]
<1>a. SetupInv /\ chan \in Chans /\ 0 \in Nodes
  BY SetupFacts DEF CrewInv, MailInv, MailDomains
<1>b. k \in Nodes /\ tag \in AnswerTags /\ msg \in Messages
  BY <1>a, ThreadFacts, TagFacts DEF Messages
<1>1. /\ pc[Server(n)] = "reply" /\ Post(n, k, tag, msg)
      /\ pc' = [pc EXCEPT ![Server(n)] = ServerStart]
      /\ UNCHANGED <<asker, sl, told, appl_finished, termination_flag>>
  BY <1>0 DEF Reply, Goto, Ending, Steals
<1> HIDE DEF k, tag, msg
<1>2. /\ chan' \in Chans /\ \A a, b \in Nodes : Inbox(a, b)' = Inbox(a, b)
      /\ chan'[n][k][tag] = Append(chan[n][k][tag], msg)
      /\ \A a, b \in Nodes : \A t \in AnswerTags :
           a # n \/ b # k \/ t # tag => chan'[a][b][t] = chan[a][b][t]
  BY <1>a, <1>b, <1>1, AnswerPost
<1>3. ServerStart \in {"receive", "flag"} /\ (ThreadSafe => ServerStart = "receive")
  BY DEF ServerStart
<1>4. /\ pc'[Server(n)] = ServerStart
      /\ \A j \in Nodes : pc'[Main(j)] = pc[Main(j)]
      /\ \A j \in Nodes \ {n} : pc'[Server(j)] = pc[Server(j)]
      /\ Thieves' = Thieves
  BY <1>1, <1>3, ServerGoes
<1>6. MailDomains'
  BY <1>1, <1>2 DEF MailInv, MailDomains, Same, Chans, Messages
<1>5. \A j \in Nodes : pc'[Server(j)] = "exited" => pc[Server(j)] = "exited"
  BY <1>3, <1>4
<1>7. OverKept
  <2>2. \A j \in Nodes : ThreadSafe => pc'[Server(j)] # "flag"
    BY <1>3, <1>4 DEF MailInv, OverInv
  <2>3. pc'[Main(0)] = pc[Main(0)]
    BY <1>a, <1>4
  <2> QED BY <1>1, <1>2, <1>4, <1>5, <2>2, <2>3 DEF OverKept
<1>8. ASSUME ThreadSafe PROVE TheftInv'
  <2>1. TheftInv /\ w \in Thieves /\ n = Victim(k) /\ Served(k)
    BY <1>0, <1>1, <1>8 DEF MailInv, TheftInv, Served, k
  <2>2. /\ Nodes' = Nodes /\ AnswerTags' = AnswerTags /\ Thieves' = Thieves
        /\ \A j : Victim(j)' = Victim(j)
        /\ \A j \in Nodes : Victim(j) \in Nodes
    BY <1>a, <1>4, VictimType DEF Same, AnswerTags
  <2>3. ~Asks(k) /\ ~Answered(k) /\ chan[n][k][tag] = <<>>
    <3>1. ~Asks(k) /\ ~Answered(k)
      BY <1>b, <2>1 DEF TheftInv
    <3> QED BY <1>b, <2>1, <3>1 DEF Answered
  <2>4. \A j \in Nodes : Asks(j)' <=> Asks(j)
    BY <1>2, <2>2 DEF Asks
  <2>5. ~Served(k)' /\ \A j \in Nodes : Served(j)' => Served(j)
    <3>1. pc'[Server(n)] # "reply"
      BY <1>3, <1>4
    <3>2. ASSUME NEW j \in Nodes, Served(j)' PROVE Victim(j) # n /\ Served(j)
      BY <1>1, <1>4, <2>2, <3>1, <3>2 DEF Served
    <3> QED BY <1>b, <2>1, <3>2
  <2>6. \A j \in Nodes \ {k} : Answered(j)' <=> Answered(j)
    BY <1>2, <2>2 DEF Answered
  <2>7. Len(chan'[n][k][tag]) = 1
    BY <1>2, <2>3
  <2>8. \A a \in Nodes, b \in Nodes, t \in AnswerTags : chan'[a][b][t] # <<>> =>
           /\ Len(chan'[a][b][t]) = 1 /\ a = Victim(b)
           /\ \E u \in Thieves : u[1] = b /\ t = StealTag(u[2])
    <3> TAKE a \in Nodes, b \in Nodes, t \in AnswerTags
    <3>1. CASE a = n /\ b = k /\ t = tag
      BY <2>1, <2>7, <3>1 DEF tag, k
    <3>2. CASE a # n \/ b # k \/ t # tag
      <4>1. chan'[a][b][t] = chan[a][b][t]
        BY <1>2, <3>2
      <4> QED BY <2>1, <4>1 DEF TheftInv
    <3> QED BY <3>1, <3>2
  <2>9. \A j \in Nodes : /\ ~ (Asks(j)' /\ Served(j)') /\ ~ (Asks(j)' /\ Answered(j)')
                         /\ ~ (Served(j)' /\ Answered(j)')
    <3> TAKE j \in Nodes
    <3>1. CASE j = k
      BY <1>b, <2>3, <2>4, <2>5, <3>1
    <3>2. CASE j # k
      BY <2>1, <2>4, <2>5, <2>6, <3>2 DEF TheftInv
    <3> QED BY <3>1, <3>2
  <2>10. \A j \in Nodes : pc'[Server(j)] = "reply" => asker'[j] \in Thieves /\ Victim(asker'[j][1]) = j
    BY <1>1, <1>3, <1>4, <2>1 DEF TheftInv
  <2>11. /\ \A a, b \in Nodes : OneOfAKind(Inbox(a, b)')
         /\ \A a, b \in Nodes : \A x \in Elems(Inbox(a, b)') :
              x.type = "steal" => x.from \in Thieves /\ x.from[1] = a /\ b = Victim(a)
    BY <1>2, <2>1 DEF TheftInv
  <2>12. \A u \in Thieves : sl'[u[1]]
    BY <1>1, <2>1 DEF TheftInv
  <2>13. \A u \in Thieves, v \in Thieves : u[1] = v[1] => u = v
    BY <2>1 DEF TheftInv
  <2> QED BY <2>2, <2>8, <2>9, <2>10, <2>11, <2>12, <2>13 DEF TheftInv
<1>9. ASSUME ThreadSafe PROVE ReleaseKept
  BY <1>1, <1>2, <1>4, <1>5 DEF ReleaseKept
<1> QED BY <1>6, <1>7, <1>8, <1>9, Assemble

(* The thief itself.                                                       *)
LEMMA ThiefMoves ==
  ASSUME CrewInv, MailInv, Same, NEW w \in Workers, NEW q \in {"await", "test"},
         pc[w] \in SearchPlaces, pc' = [pc EXCEPT ![w] = q]
  PROVE  /\ Thieves' = IF q = "await" THEN Thieves \cup {w} ELSE Thieves \ {w}
         /\ \A k \in Nodes : pc'[Server(k)] = pc[Server(k)]
         /\ \A k \in Nodes : pc[Main(k)] \in Ended \cup {"join"} => pc'[Main(k)] = pc[Main(k)]
         /\ \A k \in Nodes : pc'[Main(k)] \in Final => pc[Main(k)] \in Final
         /\ \A k \in Nodes : pc'[Main(k)] \in {"md_end"} \cup Idle =>
              pc[Main(k)] \in {"md_end"} \cup Idle
<1>1. q \in Places /\ w \in Threads /\ \A k \in Nodes : Server(k) # w
  BY ThreadFacts DEF Places, CrewInv, Threads
<1>2. /\ pc'[w] = q
      /\ \A n \in Nodes : Main(n) # w => pc'[Main(n)] = pc[Main(n)]
      /\ \A n \in Nodes : Server(n) # w => pc'[Server(n)] = pc[Server(n)]
      /\ q \in Waiting => Thieves' = Thieves \cup {w}
      /\ q \notin Waiting => Thieves' = Thieves \ {w}
  BY <1>1, MoveFacts
<1>3. q \notin Final /\ q \notin {"md_end"} \cup Idle /\ (q \in Waiting <=> q = "await")
  BY DEF Final, Idle, Waiting
<1>4. pc[w] \notin Ended \cup {"join"}
  BY DEF SearchPlaces, Ended
<1> QED BY <1>1, <1>2, <1>3, <1>4

LEMMA StealRequestKeeps ==
  ASSUME CrewInv, CrewInv', MailInv, Same, NEW w \in Workers, StealRequest(w)
  PROVE  MailInv'
<1> DEFINE msg == [type |-> "steal", from |-> w]
<1>z. SetupInv /\ chan \in Chans /\ 0 \in Nodes /\ w \in Threads
  <2>1. SetupInv /\ chan \in Chans /\ w \in Threads
    BY DEF CrewInv, MailInv, MailDomains, Threads
  <2> QED BY <2>1, SetupFacts
<1>n. PICK n \in Nodes : n = w[1]
  BY <1>z, ThreadFacts
<1>v. PICK v \in Nodes : v = Victim(n)
  BY <1>z, VictimType
<1>a. SetupInv /\ chan \in Chans /\ 0 \in Nodes /\ n \in Nodes /\ v \in Nodes /\ w \in Threads
      /\ n = w[1] /\ v = Victim(n)
  BY <1>z, <1>n, <1>v
<1>1. /\ pc[w] = "search" /\ ~sl[n] /\ Post(n, v, MaxNvps, msg)
      /\ sl' = [sl EXCEPT ![n] = TRUE]
      /\ pc' = [pc EXCEPT ![w] = "await"]
      /\ UNCHANGED <<asker, told, appl_finished, termination_flag>>
  BY <1>n, <1>v DEF StealRequest, Looked, Goto, Ending
<1>b. msg \in Messages /\ msg.type = "steal" /\ msg.from = w
  BY <1>a DEF Messages
<1> HIDE DEF msg
<1>2. /\ chan' \in Chans
      /\ Elems(Inbox(n, v)') = Elems(Inbox(n, v)) \cup {msg}
      /\ \A a, b \in Nodes : a # n \/ b # v => Inbox(a, b)' = Inbox(a, b)
      /\ \A a, b \in Nodes : \A t \in AnswerTags : chan'[a][b][t] = chan[a][b][t]
      /\ OneOfAKind(Inbox(n, v)) /\ (\A x \in Elems(Inbox(n, v)) : x.type # msg.type) =>
           OneOfAKind(Inbox(n, v)')
  <2> QED BY <1>a, <1>b, <1>1, InboxPost
<1>3. /\ Thieves' = Thieves \cup {w}
      /\ \A k \in Nodes : pc'[Server(k)] = pc[Server(k)]
      /\ \A k \in Nodes : pc[Main(k)] \in Ended \cup {"join"} => pc'[Main(k)] = pc[Main(k)]
      /\ \A k \in Nodes : pc'[Main(k)] \in Final => pc[Main(k)] \in Final
      /\ \A k \in Nodes : pc'[Main(k)] \in {"md_end"} \cup Idle =>
              pc[Main(k)] \in {"md_end"} \cup Idle
  BY <1>1, ThiefMoves DEF SearchPlaces
<1>4. \A a, b \in Nodes : \A x \in Elems(Inbox(a, b)') :
         x \in Elems(Inbox(a, b)) \/ (a = n /\ b = v /\ x = msg)
  BY <1>2
<1>5. MailDomains'
  <2>1. sl' \in [Nodes -> BOOLEAN]
    BY <1>1 DEF MailInv, MailDomains
  <2> QED BY <1>1, <1>2, <2>1 DEF MailInv, MailDomains, Same, Chans, Messages
<1>6. OverKept
  <2>1. \A k \in Nodes : ThreadSafe => pc'[Server(k)] # "flag"
    BY <1>3 DEF MailInv, OverInv
  <2> QED BY <1>a, <1>b, <1>1, <1>3, <1>4, <2>1 DEF OverKept
<1>7. ASSUME ThreadSafe PROVE TheftInv'
  <2>a. TheftInv
    BY <1>7 DEF MailInv
  <2>1. /\ Nodes' = Nodes /\ AnswerTags' = AnswerTags
        /\ \A k : Victim(k)' = Victim(k)
        /\ \A k \in Nodes : Victim(k) \in Nodes
    BY <1>a, VictimType DEF Same, AnswerTags
  <2>2. \A u \in Thieves : u[1] # n
    BY <1>1, <2>a DEF TheftInv
  <2>3. ~Asks(n)
    BY <1>a, <2>a, <2>2 DEF TheftInv, Asks
  <2>4. ~Served(n) /\ ~Answered(n)
    BY <1>a, <2>a, <2>2 DEF TheftInv, Served, Answered
  <2>5. /\ \A k \in Nodes : (Served(k)' <=> Served(k)) /\ (Answered(k)' <=> Answered(k))
        /\ \A k \in Nodes \ {n} : Asks(k)' <=> Asks(k)
    BY <1>1, <1>2, <1>3, <2>1 DEF Asks, Served, Answered
  <2>6. \A k \in Nodes : /\ ~ (Asks(k)' /\ Served(k)') /\ ~ (Asks(k)' /\ Answered(k)')
                         /\ ~ (Served(k)' /\ Answered(k)')
    <3> TAKE k \in Nodes
    <3>1. CASE k = n
      BY <1>a, <2>4, <2>5, <3>1
    <3>2. CASE k # n
      BY <2>a, <2>5, <3>2 DEF TheftInv
    <3> QED BY <3>1, <3>2
  <2>7. \A a, b \in Nodes : OneOfAKind(Inbox(a, b)')
    BY <1>a, <1>b, <1>2, <2>a, <2>3 DEF TheftInv, Asks
  <2>8. \A a, b \in Nodes : \A x \in Elems(Inbox(a, b)') :
          x.type = "steal" => x.from \in Thieves' /\ x.from[1] = a /\ b = Victim(a)
    BY <1>a, <1>b, <1>3, <1>4, <2>a DEF TheftInv
  <2>9. \A k \in Nodes : pc'[Server(k)] = "reply" => asker'[k] \in Thieves' /\ Victim(asker'[k][1]) = k
    BY <1>1, <1>3, <2>a DEF TheftInv
  <2>10. \A a \in Nodes, b \in Nodes, t \in AnswerTags : chan'[a][b][t] # <<>> =>
           /\ Len(chan'[a][b][t]) = 1 /\ a = Victim(b)
           /\ \E u \in Thieves' : u[1] = b /\ t = StealTag(u[2])
    BY <1>2, <1>3, <2>a DEF TheftInv
  <2>11. \A u \in Thieves' : sl'[u[1]]
    <3>1. sl'[n] /\ \A k \in Nodes : sl[k] => sl'[k]
      BY <1>a, <1>1 DEF MailInv, MailDomains
    <3>2. \A u \in Thieves : u[1] \in Nodes
      BY <1>a, ThreadFacts DEF Thieves
    <3> QED BY <1>a, <1>3, <2>a, <3>1, <3>2 DEF TheftInv
  <2>12. \A u \in Thieves', x \in Thieves' : u[1] = x[1] => u = x
    BY <1>a, <1>3, <2>a, <2>2 DEF TheftInv
  <2> QED BY <2>1, <2>6, <2>7, <2>8, <2>9, <2>10, <2>11, <2>12 DEF TheftInv
<1>8. ASSUME ThreadSafe PROVE ReleaseKept
  <2>1. \A a, b \in Nodes : \A x \in Elems(Inbox(a, b)) :
          x.type = "terminate_server" => pc[Main(b)] = "join"
    BY <1>8 DEF MailInv, ReleaseInv
  <2> QED BY <1>b, <1>1, <1>3, <1>4, <2>1 DEF ReleaseKept
<1> QED BY <1>5, <1>6, <1>7, <1>8, Assemble

LEMMA StealReplyKeeps ==
  ASSUME CrewInv, CrewInv', MailInv, Same, NEW w \in Workers, StealReply(w)
  PROVE  MailInv'
<1>z. SetupInv /\ chan \in Chans /\ 0 \in Nodes
  <2>1. SetupInv /\ chan \in Chans
    BY DEF CrewInv, MailInv, MailDomains
  <2> QED BY <2>1, SetupFacts
<1>n. PICK n \in Nodes : n = w[1]
  BY <1>z, ThreadFacts
<1>v. PICK v \in Nodes : v = Victim(n)
  BY <1>z, VictimType
<1>t. PICK tag \in AnswerTags : tag = StealTag(w[2])
  BY <1>z, TagFacts
<1>a. SetupInv /\ chan \in Chans /\ 0 \in Nodes /\ n \in Nodes /\ v \in Nodes /\ tag \in AnswerTags
      /\ n = w[1] /\ v = Victim(n) /\ tag = StealTag(w[2])
  BY <1>z, <1>n, <1>v, <1>t
<1>1. /\ pc[w] \in Waiting /\ chan[v][n][tag] # <<>> /\ Take(v, n, tag)
      /\ sl' = [sl EXCEPT ![n] = FALSE]
      /\ pc' = [pc EXCEPT ![w] = "test"]
      /\ UNCHANGED <<asker, told, appl_finished, termination_flag>>
  BY <1>n, <1>v, <1>t DEF StealReply, StealOver, Goto, Ending, Waiting
<1>2. /\ chan' \in Chans /\ \A a, b \in Nodes : Inbox(a, b)' = Inbox(a, b)
      /\ chan'[v][n][tag] = Tail(chan[v][n][tag])
      /\ \A a, b \in Nodes : \A t \in AnswerTags :
           a # v \/ b # n \/ t # tag => chan'[a][b][t] = chan[a][b][t]
  <2> QED BY <1>a, <1>1, AnswerTake
<1>3. /\ Thieves' = Thieves \ {w} /\ w \in Thieves
      /\ \A k \in Nodes : pc'[Server(k)] = pc[Server(k)]
      /\ \A k \in Nodes : pc[Main(k)] \in Ended \cup {"join"} => pc'[Main(k)] = pc[Main(k)]
      /\ \A k \in Nodes : pc'[Main(k)] \in Final => pc[Main(k)] \in Final
      /\ \A k \in Nodes : pc'[Main(k)] \in {"md_end"} \cup Idle =>
              pc[Main(k)] \in {"md_end"} \cup Idle
  BY <1>1, ThiefMoves DEF SearchPlaces, Thieves, Waiting
<1>5. MailDomains'
  <2>1. sl' \in [Nodes -> BOOLEAN]
    BY <1>1 DEF MailInv, MailDomains
  <2> QED BY <1>1, <1>2, <2>1 DEF MailInv, MailDomains, Same, Chans, Messages
<1>6. OverKept
  <2>1. \A k \in Nodes : ThreadSafe => pc'[Server(k)] # "flag"
    BY <1>3 DEF MailInv, OverInv
  <2> QED BY <1>a, <1>1, <1>2, <1>3, <2>1 DEF OverKept
<1>7. ASSUME ThreadSafe PROVE TheftInv'
  <2>a. TheftInv
    BY <1>7 DEF MailInv
  <2>1. /\ Nodes' = Nodes /\ AnswerTags' = AnswerTags
        /\ \A k : Victim(k)' = Victim(k)
        /\ \A k \in Nodes : Victim(k) \in Nodes
    BY <1>a, VictimType DEF Same, AnswerTags
  <2>2. Answered(n) /\ ~Asks(n) /\ ~Served(n)
    BY <1>a, <1>1, <2>a DEF TheftInv, Answered
  <2>3. chan'[v][n][tag] = <<>>
    <3>1. chan[v][n][tag] \in Seq(Messages) /\ Len(chan[v][n][tag]) = 1
      BY <1>a, <1>1, <2>a DEF TheftInv, Chans, AnswerTags
    <3> DEFINE c == chan[v][n][tag]
    <3>2. c \in Seq(Messages) /\ Len(c) = 1
      BY <3>1
    <3> HIDE DEF c
    <3>3. Tail(c) = <<>>
      <4>1. Tail(c) \in Seq(Messages) /\ Len(Tail(c)) = 0
        BY <3>2, EmptySeq, HeadTailProperties
      <4> QED BY <4>1, EmptySeq
    <3> USE DEF c
    <3> QED BY <1>2, <3>3
  <2>4. \A k \in Nodes : (Asks(k)' <=> Asks(k)) /\ (Served(k)' <=> Served(k))
    BY <1>1, <1>2, <1>3, <2>1 DEF Asks, Served
  <2>5. \A a, b \in Nodes : \A t \in AnswerTags : chan'[a][b][t] # <<>> =>
          chan'[a][b][t] = chan[a][b][t] /\ ~(a = v /\ b = n /\ t = tag)
    BY <1>2, <2>3
  <2>6. \A k \in Nodes : Answered(k)' => Answered(k)
    BY <2>1, <2>5 DEF Answered
  <2>7. \A a, b \in Nodes : OneOfAKind(Inbox(a, b)')
    BY <1>2, <2>a DEF TheftInv
  <2>8. \A a, b \in Nodes : \A x \in Elems(Inbox(a, b)') :
          x.type = "steal" => x.from \in Thieves' /\ x.from[1] = a /\ b = Victim(a)
    <3> SUFFICES ASSUME NEW a \in Nodes, NEW b \in Nodes, NEW x \in Elems(Inbox(a, b)), x.type = "steal"
                 PROVE  x.from \in Thieves' /\ x.from[1] = a /\ b = Victim(a)
      BY <1>2
    <3>1. x.from \in Thieves /\ x.from[1] = a /\ b = Victim(a)
      BY <2>a DEF TheftInv
    <3>2. x.from # w
      BY <1>a, <2>2, <3>1 DEF Asks
    <3> QED BY <1>3, <3>1, <3>2
  <2>9. \A k \in Nodes : pc'[Server(k)] = "reply" => asker'[k] \in Thieves' /\ Victim(asker'[k][1]) = k
    <3> SUFFICES ASSUME NEW k \in Nodes, pc[Server(k)] = "reply"
                 PROVE  asker[k] \in Thieves' /\ Victim(asker[k][1]) = k
      BY <1>1, <1>3
    <3>1. asker[k] \in Thieves /\ Victim(asker[k][1]) = k
      BY <2>a DEF TheftInv
    <3>2. asker[k] # w
      BY <1>a, <2>2, <3>1 DEF Served
    <3> QED BY <1>3, <3>1, <3>2
  <2>10. \A a \in Nodes, b \in Nodes, t \in AnswerTags : chan'[a][b][t] # <<>> =>
           /\ Len(chan'[a][b][t]) = 1 /\ a = Victim(b)
           /\ \E u \in Thieves' : u[1] = b /\ t = StealTag(u[2])
    <3> SUFFICES ASSUME NEW a \in Nodes, NEW b \in Nodes, NEW t \in AnswerTags, chan'[a][b][t] # <<>>
                 PROVE  /\ Len(chan'[a][b][t]) = 1 /\ a = Victim(b)
                        /\ \E u \in Thieves' : u[1] = b /\ t = StealTag(u[2])
      OBVIOUS
    <3>1. chan'[a][b][t] = chan[a][b][t] /\ ~(a = v /\ b = n /\ t = tag)
      BY <2>5
    <3>2. Len(chan[a][b][t]) = 1 /\ a = Victim(b)
      BY <2>a, <3>1 DEF TheftInv
    <3>3. PICK u \in Thieves : u[1] = b /\ t = StealTag(u[2])
      BY <2>a, <3>1 DEF TheftInv
    <3>4. u # w
      BY <1>a, <3>1, <3>2, <3>3
    <3> QED BY <1>3, <3>1, <3>2, <3>3, <3>4
  <2>11. \A u \in Thieves' : sl'[u[1]]
    <3> SUFFICES ASSUME NEW u \in Thieves, u # w PROVE sl'[u[1]]
      BY <1>3
    <3>1. u[1] # n /\ sl[u[1]]
      BY <1>a, <1>3, <2>a DEF TheftInv
    <3>2. u[1] \in Nodes
      BY <1>a, ThreadFacts DEF Thieves
    <3> QED BY <1>1, <3>1, <3>2 DEF MailInv, MailDomains
  <2>12. \A u \in Thieves', x \in Thieves' : u[1] = x[1] => u = x
    BY <1>3, <2>a DEF TheftInv
  <2>13. \A k \in Nodes : /\ ~ (Asks(k)' /\ Served(k)') /\ ~ (Asks(k)' /\ Answered(k)')
                          /\ ~ (Served(k)' /\ Answered(k)')
    BY <2>a, <2>4, <2>6 DEF TheftInv
  <2> QED BY <2>1, <2>7, <2>8, <2>9, <2>10, <2>11, <2>12, <2>13 DEF TheftInv
<1>8. ASSUME ThreadSafe PROVE ReleaseKept
  <2>1. \A a, b \in Nodes : \A x \in Elems(Inbox(a, b)) :
          x.type = "terminate_server" => pc[Main(b)] = "join"
    BY <1>8 DEF MailInv, ReleaseInv
  <2> QED BY <1>1, <1>2, <1>3, <2>1 DEF ReleaseKept
<1> QED BY <1>5, <1>6, <1>7, <1>8, Assemble

LEMMA GiveUpKeeps ==
  ASSUME CrewInv, CrewInv', MailInv, Same, NEW w \in Workers, GiveUp(w)
  PROVE  MailInv'
<1>a. SetupInv /\ 0 \in Nodes /\ w[1] \in Nodes
  BY SetupFacts, ThreadFacts DEF CrewInv
<1>1. /\ ~ThreadSafe /\ pc[w] = "await"
      /\ sl' = [sl EXCEPT ![w[1]] = FALSE]
      /\ pc' = [pc EXCEPT ![w] = "test"]
      /\ UNCHANGED <<chan, asker, told, appl_finished, termination_flag>>
  BY DEF GiveUp, StealOver, Goto, Ending
<1>3. /\ \A k \in Nodes : pc'[Server(k)] = pc[Server(k)]
      /\ \A k \in Nodes : pc[Main(k)] \in Ended \cup {"join"} => pc'[Main(k)] = pc[Main(k)]
      /\ \A k \in Nodes : pc'[Main(k)] \in Final => pc[Main(k)] \in Final
  BY <1>1, ThiefMoves DEF SearchPlaces
<1>5. MailDomains'
  <2>1. sl' \in [Nodes -> BOOLEAN]
    BY <1>1 DEF MailInv, MailDomains
  <2> QED BY <1>1, <2>1 DEF MailInv, MailDomains, Same, Chans, Messages
<1>6. OverKept
  <2>1. \A a, b \in Nodes : Inbox(a, b)' = Inbox(a, b)
    BY <1>1 DEF Inbox
  <2> QED BY <1>a, <1>1, <1>3, <2>1 DEF OverKept
<1> QED BY <1>1, <1>5, <1>6, Assemble

LEMMA MailStepKeeps == CrewInv /\ CrewInv' /\ MailInv /\ [Next]_vars => MailInv'
<1> SUFFICES ASSUME CrewInv, CrewInv', MailInv, [Next]_vars PROVE MailInv'
  OBVIOUS
<1>a. Same
  BY StepKeepsSetup, SetupFixed
<1>1. CASE UNCHANGED vars
  BY <1>1, <1>a, InertRest, InertKeeps DEF vars, Mail
<1>2. CASE Finalize
  BY <1>2, <1>a, FinalizeKeeps
<1>3. ASSUME NEW n \in Nodes, LocalEnable(n) PROVE MailInv'
  <2>1. UNCHANGED pc /\ UNCHANGED Mail
    BY <1>3 DEF LocalEnable, Mail, Ending
  <2> QED BY <2>1, <1>a, InertRest, InertKeeps
<1>4. ASSUME NEW n \in Nodes, MainStep(n) PROVE MailInv'
  <2>1. CASE EnterCollective(n)
    <3>1. UNCHANGED pc /\ UNCHANGED Mail
      BY <2>1 DEF EnterCollective, Mail, Ending, Steals
    <3> QED BY <3>1, <1>a, InertRest, InertKeeps
  <2>2. CASE MdInit(n)
    BY <2>2, <1>a, InertMdInit, InertKeeps
  <2>3. CASE \/ LeaveCollective(n) \/ FillNodeInfo(n) \/ Start(n) \/ LastOfNode(n) \/ JoinServer(n)
             \/ n = 0 /\ AllTold
    BY <2>3, <1>a, InertMains, InertKeeps
  <2>4. CASE ShutdownServer(n)
    BY <2>4, <1>a, ShutdownKeeps
  <2>5. ASSUME NEW m \in Nodes, TerminateWorkers(m) PROVE MailInv'
    BY <2>5, <1>a, TerminateWorkersKeeps
  <2> QED BY <1>4, <2>1, <2>2, <2>3, <2>4, <2>5 DEF MainStep
<1>5. ASSUME NEW n \in Nodes, ServerStep(n) PROVE MailInv'
  <2>1. CASE FlagUp(n) \/ NoMessage(n)
    BY <2>1, <1>a, InertServers, InertKeeps
  <2>2. CASE Reply(n)
    BY <2>2, <1>a, ReplyKeeps
  <2>3. CASE ServeTerminateServer(n)
    BY <2>3, <1>a, ServeTerminateServerKeeps
  <2>4. ASSUME NEW m \in Nodes, ServeSteal(n, m) PROVE MailInv'
    BY <2>4, <1>a, ServeStealKeeps
  <2>5. ASSUME NEW m \in Nodes, ServeTerminateWorkers(n, m) PROVE MailInv'
    BY <2>5, <1>a, ServeTerminateWorkersKeeps
  <2>6. ASSUME NEW m \in Nodes, ServePrefetch(n, m) PROVE MailInv'
    BY <2>6, <1>a, ServePrefetchKeeps
  <2> QED BY <1>5, <2>1, <2>2, <2>3, <2>4, <2>5, <2>6 DEF ServerStep
<1>6. ASSUME NEW w \in Workers, WorkerStep(w) PROVE MailInv'
  <2>1. CASE \/ SearchInVain(w) \/ StealNothing(w) \/ HoldForReply(w) \/ GoOn(w) \/ EndOfWork(w)
             \/ Created(w) \/ AllCreated(w) \/ ExitWorker(w)
    BY <2>1, <1>a, InertWorkers, InertKeeps
  <2>2. CASE StealRequest(w)
    BY <2>2, <1>a, StealRequestKeeps
  <2>3. CASE StealReply(w)
    BY <2>3, <1>a, StealReplyKeeps
  <2>4. CASE GiveUp(w)
    BY <2>4, <1>a, GiveUpKeeps
  <2>5. CASE PrefetchRequest(w)
    BY <2>5, <1>a, PrefetchRequestKeeps
  <2>6. CASE NoRequest(w)
    <3>1. UNCHANGED pc /\ UNCHANGED Mail
      BY <2>6 DEF NoRequest, Mail, Ending
    <3> QED BY <3>1, <1>a, InertRest, InertKeeps
  <2> QED BY <1>6, <2>1, <2>2, <2>3, <2>4, <2>5, <2>6 DEF WorkerStep
<1> QED BY <1>1, <1>2, <1>3, <1>4, <1>5, <1>6 DEF Next

(* In every reachable state each message under way is one that its sender  *)
(* could send and its receiver still expects: a node has at most one steal *)
(* attempt, in one place, and is told once that the application has        *)
(* finished and once that its server may go.                               *)
THEOREM MessagesAreSound == Spec => [](CrewInv /\ MailInv)
<1>1. Init => CrewInv /\ MailInv
  BY CrewInit, MailInit
<1>2. CrewInv /\ MailInv /\ [Next]_vars => (CrewInv /\ MailInv)'
  BY CrewStepKeeps, MailStepKeeps
<1> QED BY <1>1, <1>2, PTL DEF Spec

(***************************************************************************)
(* The end.                                                                *)
(***************************************************************************)
(* A process that ends its server is ahead of nobody who still works.      *)
LEMMA AllIdle ==
  ASSUME CrewInv, NEW n \in Nodes, pc[Main(n)] \in Ended, NEW m \in Nodes
  PROVE  /\ pc[Main(m)] \in Idle
         /\ pc[Main(n)] = "exited" => pc[Main(m)] \in {"last", "exited"}
<1> DEFINE p == pc[Main(m)]
<1>1. p \in MainPlaces
  BY DEF CrewInv, NodeInv, PlacesOf
<1>2. Phase(pc[Main(n)]) >= 7 /\ (pc[Main(n)] = "exited" => Phase(pc[Main(n)]) = 8)
  BY DEF Phase, Ended
<1>3. Phase(pc[Main(n)]) \in Nat /\ Phase(p) \in Nat
  BY DEF Phase
<1>4. /\ Phase(p) >= 7 \/ (Phase(p) >= 6 /\ p \in CollectivePoints)
      /\ pc[Main(n)] = "exited" =>
           Phase(p) >= 8 \/ (Phase(p) >= 7 /\ p \in CollectivePoints)
  <2> HIDE DEF Phase
  <2> QED BY <1>2, <1>3, OthersFollow
<1> QED BY <1>1, <1>4 DEF Phase, MainPlaces, CollectivePoints, Idle

LEMMA IdleSteal ==
  ASSUME CrewInv, \A m \in Nodes : pc[Main(m)] \in Idle
  PROVE  Thieves = {}
<1> SUFFICES ASSUME NEW w \in Workers, pc[w] \in Waiting PROVE FALSE
  BY DEF Thieves
<1>1. w[1] \in Nodes /\ w \in WorkersOf(w[1])
  BY ThreadFacts DEF CrewInv
<1>2. \A v \in Others(w[1]) : pc[v] = "exited"
  BY <1>1 DEF CrewInv, NodeInv, DepartureOf
<1> QED BY <1>1, <1>2 DEF Others, Idle, Waiting

(* A thief whose victim has no server any more will not wait for it.       *)
THEOREM NobodyAsksInVain == Spec => []AnsweredOrOver
<1>1. CrewInv /\ MailInv => AnsweredOrOver
  <2> SUFFICES ASSUME CrewInv, MailInv, NEW w \in Workers, pc[w] \in Waiting,
                      pc[Server(Victim(w[1]))] = "exited"
               PROVE  ~ThreadSafe /\ appl_finished[0] = 1
    BY DEF AnsweredOrOver, Waiting
  <2>1. SetupInv /\ w[1] \in Nodes
    BY ThreadFacts DEF CrewInv
  <2>2. PICK v \in Nodes : v = Victim(w[1])
    BY <2>1, VictimType
  <2>3. IF ThreadSafe THEN pc[Main(v)] \in Ended ELSE appl_finished[0] = 1
    BY <2>2 DEF MailInv, OverInv
  <2>4. w \in Thieves
    BY DEF Thieves
  <2>5. pc[Main(v)] \notin Ended
    BY <2>4, AllIdle, IdleSteal
  <2> QED BY <2>3, <2>5
<1> QED BY <1>1, MessagesAreSound, PTL

(* When a process ends, no thread of it and no server is left, and with a  *)
(* thread-safe library no message but requests to prefetch.                *)
THEOREM NothingIsLeft == Spec => []NobodyLeftBehind
<1>1. CrewInv /\ MailInv => NobodyLeftBehind
  <2> SUFFICES ASSUME CrewInv, MailInv, NEW n \in Nodes, pc[Main(n)] = "exited"
               PROVE  /\ \A w \in WorkersOf(n) : pc[w] = "exited"
                      /\ \A m \in Nodes : pc[Server(m)] = "exited"
                      /\ ThreadSafe => \A m \in Nodes, k \in Nodes, tag \in Tags :
                           Due(chan[m][k][tag]) = {}
    BY DEF NobodyLeftBehind
  <2>a. SetupInv /\ chan \in Chans
    BY DEF CrewInv, MailInv, MailDomains
  <2>1. \A m \in Nodes : pc[Main(m)] \in {"last", "exited"} /\ pc[Main(m)] \in Idle
    BY AllIdle DEF Ended
  <2>2. \A w \in WorkersOf(n) : pc[w] = "exited"
    <3>1. \A w \in Others(n) : pc[w] = "exited"
      BY <2>1 DEF CrewInv, NodeInv, DepartureOf
    <3> QED BY <3>1 DEF Others
  <2>3. \A m \in Nodes : pc[Server(m)] = "exited"
    BY <2>1 DEF CrewInv, NodeInv, DepartureOf
  <2>4. ASSUME ThreadSafe, NEW m \in Nodes, NEW k \in Nodes, NEW tag \in Tags
        PROVE  Due(chan[m][k][tag]) = {}
    <3>a. OverInv /\ TheftInv /\ ReleaseInv
      BY <2>4 DEF MailInv
    <3>1. Thieves = {}
      BY <2>1, IdleSteal
    <3>2. CASE tag # MaxNvps
      <4>1. chan[m][k][tag] = <<>>
        BY <2>4, <3>a, <3>1, <3>2 DEF TheftInv, AnswerTags
      <4> QED BY <4>1 DEF Due
    <3>3. CASE tag = MaxNvps
      <4>1. ASSUME NEW x \in Elems(Inbox(m, k)) PROVE x.type = "prefetch"
        <5>1. x.type \in {"steal", "no_work", "prefetch", "terminate_workers", "terminate_server"}
          BY <2>a, InboxType DEF Messages
        <5>2. x.type # "no_work"
          BY <3>a DEF OverInv
        <5>3. x.type # "steal"
          BY <3>a, <3>1 DEF TheftInv
        <5>4. x.type # "terminate_server"
          BY <2>1, <3>a DEF ReleaseInv
        <5>5. x.type # "terminate_workers"
          <6> SUFFICES ASSUME x.type = "terminate_workers" PROVE FALSE
            OBVIOUS
          <6>1. k # 0 /\ appl_finished[k] = 0
            BY <3>a DEF OverInv, ReleaseInv
          <6> QED BY <2>1, <3>a, <6>1 DEF ReleaseInv
        <5> QED BY <5>1, <5>2, <5>3, <5>4, <5>5
      <4>2. Due(Inbox(m, k)) = {}
        BY <4>1 DEF Due, Elems
      <4> QED BY <3>3, <4>2 DEF Inbox
    <3> QED BY <3>2, <3>3
  <2> QED BY <2>2, <2>3, <2>4
<1> QED BY <1>1, MessagesAreSound, PTL

(***************************************************************************)
(* How many messages one channel can hold.                                 *)
(***************************************************************************)

(* Requests to prefetch are not counted.                                   *)
Owed(q) == Cardinality(Due(q))

LEMMA OwedNum ==
  ASSUME NEW S, NEW q \in Seq(S)
  PROVE  Owed(q) = Num(q, {msg \in S : msg.type # "prefetch"}) /\ Owed(q) \in Nat /\ Owed(q) <= Len(q)
<1> DEFINE M == {msg \in S : msg.type # "prefetch"}
<1>1. \A i \in 1 .. Len(q) : q[i] \in S
  OBVIOUS
<1>2. Due(q) = {i \in 1 .. Len(q) : q[i] \in M}
  BY <1>1 DEF Due
<1>3. Len(q) \in Nat /\ IsFiniteSet(1 .. Len(q)) /\ Cardinality(1 .. Len(q)) = Len(q)
  BY IntervalCount, FS_Interval
<1>4. Due(q) \subseteq 1 .. Len(q)
  BY DEF Due
<1>5. Cardinality(Due(q)) <= Cardinality(1 .. Len(q)) /\ IsFiniteSet(Due(q))
  BY <1>3, <1>4, FS_Subset
<1> QED BY <1>2, <1>3, <1>5, FS_CardinalityType DEF Num, Owed

LEMMA OwedEmpty == Owed(<<>>) = 0
<1>1. Due(<<>>) = {}
  BY DEF Due
<1> QED BY <1>1, FS_EmptySet DEF Owed

LEMMA OwedAppend ==
  ASSUME NEW S, NEW q \in Seq(S), NEW msg \in S
  PROVE  /\ msg.type # "prefetch" => Owed(Append(q, msg)) = Owed(q) + 1
         /\ msg.type = "prefetch" => Owed(Append(q, msg)) = Owed(q)
<1> DEFINE M == {x \in S : x.type # "prefetch"}
<1>1. Append(q, msg) \in Seq(S)
  OBVIOUS
<1>2. Owed(q) = Num(q, M) /\ Owed(Append(q, msg)) = Num(Append(q, msg), M) /\ Owed(q) \in Nat
  BY <1>1, OwedNum
<1>3. Num(Append(q, msg), M) = Num(q, M) + One(msg \in M)
  BY NumAppend
<1>4. msg \in M <=> msg.type # "prefetch"
  OBVIOUS
<1> HIDE DEF M
<1> QED BY <1>2, <1>3, <1>4 DEF One

LEMMA OwedTail ==
  ASSUME NEW S, NEW q \in Seq(S), q # <<>>
  PROVE  /\ Head(q).type # "prefetch" => Owed(Tail(q)) = Owed(q) - 1
         /\ Head(q).type = "prefetch" => Owed(Tail(q)) = Owed(q)
<1> DEFINE M == {x \in S : x.type # "prefetch"}
<1>1. Tail(q) \in Seq(S) /\ Head(q) \in S
  BY ElemsTail
<1>2. Owed(q) = Num(q, M) /\ Owed(Tail(q)) = Num(Tail(q), M) /\ Owed(Tail(q)) \in Nat
  BY <1>1, OwedNum
<1>3. Num(q, M) = Num(Tail(q), M) + One(Head(q) \in M)
  BY NumTail
<1>4. Head(q) \in M <=> Head(q).type # "prefetch"
  BY <1>1
<1> HIDE DEF M
<1> QED BY <1>2, <1>3, <1>4 DEF One

(* Where the steal attempts of a node are: it may begin one, its requests, *)
(* a server about to reply, the replies on one tag.                        *)
Free(n) == One(stealing[n] /\ ~sl[n])
Requests(n) == Owed(Inbox(n, Victim(n)))
Serving(n) == One(Served(n))
Replies(n, tag) == Len(chan[Victim(n)][n][tag])
Attempts(n, tag) == Free(n) + Requests(n) + Serving(n) + Replies(n, tag)

(* Each uses up one call of local_enable_stealing, whoever gives it up.    *)
(* Node 0 sends one more message to its victim, to end it.                 *)
Ends(n) == One(n = 0 /\ Victim(n) \in told)
Allowed(n) == enables + Ends(n)

Releases == {msg \in Messages : msg.type = "terminate_workers"}

SwitchDomains ==
  /\ lock \in [Nodes -> BOOLEAN] /\ al \in [Nodes -> BOOLEAN] /\ stealing \in [Nodes -> BOOLEAN]
  /\ enables \in 0 .. setup.enables
  /\ active_workers \in [Nodes -> Nat]

AttemptInv ==
  /\ \A n \in Nodes, tag \in AnswerTags : Attempts(n, tag) <= Allowed(n)
  /\ \A m \in Nodes, n \in Nodes, tag \in AnswerTags : m # Victim(n) => chan[m][n][tag] = <<>>
  /\ \A m \in Nodes, k \in Nodes : \A x \in Elems(Inbox(m, k)) :
       x.type = "steal" => x.from[1] = m /\ k = Victim(m)
  /\ \A k \in Nodes : pc[Server(k)] = "reply" => Victim(asker[k][1]) = k

(* The only other messages are those of the end, each sent once.           *)
EndInv ==
  /\ \A m \in Nodes, k \in Nodes : k # Victim(m) =>
       Owed(Inbox(m, k)) <= One(m = 0 /\ k \in told) + One(m = k /\ pc[Main(m)] \in Ended)
  /\ appl_finished[0] <= 1
  /\ \A n \in Nodes \ {0} : Num(Inbox(0, n), Releases) + appl_finished[n] <= One(n \in told)

BoundInv == SwitchDomains /\ AttemptInv /\ EndInv

LEMMA BoundInit == Init => BoundInv
<1> SUFFICES ASSUME Init PROVE BoundInv
  OBVIOUS
<1>1. SetupInv /\ setup.enables \in Nat /\ 0 \in Nodes
  <2>1. SetupInv
    BY DEF Init, SetupInv
  <2> QED BY <2>1, SetupFacts, LifecycleAssumption DEF SetupInv
<1>2. \A n \in Nodes : pc[Server(n)] = "unborn"
  <2> TAKE n \in Nodes
  <2>1. Server(n)[2] = MaxNvps /\ MaxNvps # 0 /\ Server(n) \in Threads
    BY <1>1, ThreadFacts, SetupFacts DEF Server
  <2> QED BY <2>1 DEF Init
<1>3. /\ \A m, k \in Nodes : \A tag \in Tags : chan[m][k][tag] = <<>>
      /\ \A m, k \in Nodes : Inbox(m, k) = <<>>
  BY DEF Init, Inbox, Tags
<1>4. /\ \A n \in Nodes : Victim(n) \in Nodes
      /\ Len(<<>>) = 0 /\ Owed(<<>>) = 0 /\ \A M : Num(<<>>, M) = 0
  BY <1>1, VictimType, NumEmpty, OwedEmpty
<1>5. SwitchDomains
  BY <1>1 DEF Init, SwitchDomains
<1>6. AttemptInv
  <2>1. \A n \in Nodes : ~Served(n) /\ ~stealing[n]
    BY <1>2, <1>4 DEF Init, Served
  <2>2. \A n \in Nodes : Serving(n) = 0 /\ Free(n) = 0 /\ Ends(n) = 0 /\ enables = 0
    BY <2>1 DEF Serving, Free, Ends, Init, One
  <2>3. \A n \in Nodes, tag \in AnswerTags : Attempts(n, tag) <= Allowed(n)
    BY <1>3, <1>4, <2>2 DEF Attempts, Allowed, Requests, Replies, AnswerTags
  <2> QED BY <1>2, <1>3, <2>3, ElemsEmpty DEF AttemptInv, AnswerTags
<1>7. EndInv
  <2>1. \A m, k \in Nodes :
          Owed(Inbox(m, k)) <= One(m = 0 /\ k \in told) + One(m = k /\ pc[Main(m)] \in Ended)
    BY <1>3, <1>4 DEF One
  <2>2. \A n \in Nodes \ {0} : Num(Inbox(0, n), Releases) + appl_finished[n] <= One(n \in told)
    BY <1>1, <1>3, <1>4 DEF Init, One
  <2> QED BY <1>1, <2>1, <2>2 DEF EndInv, Init
<1> QED BY <1>5, <1>6, <1>7 DEF BoundInv

LEMMA SwitchKeeps ==
  ASSUME CrewInv, CrewInv', Same, SwitchDomains, [Next]_vars
  PROVE  SwitchDomains'
<1>1. /\ lock' \in [Nodes -> BOOLEAN] /\ al' \in [Nodes -> BOOLEAN] /\ stealing' \in [Nodes -> BOOLEAN]
      /\ enables' \in 0 .. setup.enables
  <2>0. ExitUnlocks \in BOOLEAN
    BY LifecycleAssumption DEF CrewInv, SetupInv, ExitUnlocks
  <2>1. CASE UNCHANGED <<lock, al, stealing, enables>>
    BY <2>1 DEF SwitchDomains
  <2>2. ASSUME NEW n \in Nodes, LocalEnable(n)
        PROVE  UNCHANGED <<lock, al>> /\ stealing' \in [Nodes -> BOOLEAN] /\ enables' \in 0 .. setup.enables
    <3>1. enables' = enables + 1 /\ enables < setup.enables /\ setup.enables \in Nat
      BY <2>2, LifecycleAssumption DEF LocalEnable, CrewInv, SetupInv
    <3> QED BY <2>2, <3>1 DEF LocalEnable, Crew, SwitchDomains
  <2>3. ASSUME NEW w \in Workers, \/ StealNothing(w) \/ HoldForReply(w) \/ StealReply(w) \/ GiveUp(w)
        PROVE  /\ UNCHANGED <<al, enables>>
               /\ lock' \in [Nodes -> BOOLEAN] /\ stealing' \in [Nodes -> BOOLEAN]
    BY <2>3 DEF StealNothing, HoldForReply, StealReply, GiveUp, StealOver, Crew, SwitchDomains
  <2>4. ASSUME NEW w \in Workers, ExitWorker(w)
        PROVE  UNCHANGED <<lock, stealing, enables>> /\ al' \in [Nodes -> BOOLEAN]
    BY <2>0, <2>4 DEF ExitWorker, Steals, SwitchDomains
  <2>5. ASSUME NEW w \in Workers,
               \/ Created(w) \/ AllCreated(w) \/ PrefetchRequest(w) \/ NoRequest(w) \/ SearchInVain(w)
               \/ StealRequest(w) \/ GoOn(w) \/ EndOfWork(w)
        PROVE  UNCHANGED <<lock, al, stealing, enables>>
    BY <2>5 DEF Created, AllCreated, PrefetchRequest, NoRequest, SearchInVain, StealRequest, GoOn,
       EndOfWork, Crew, Steals
  <2>6. ASSUME NEW n \in Nodes, MainStep(n) \/ ServerStep(n) \/ Finalize
        PROVE  UNCHANGED <<lock, al, stealing, enables>>
    BY <2>6 DEF MainStep, ServerStep, Finalize, EnterCollective, LeaveCollective, MdInit, FillNodeInfo,
       Start, LastOfNode, ShutdownServer, JoinServer, AllTold, TerminateWorkers, FlagUp, NoMessage,
       Reply, ServeTerminateServer, ServeSteal, ServePrefetch, ServeTerminateWorkers, Crew, Steals
  <2>7. 0 \in Nodes
    BY SetupFacts DEF CrewInv
  <2>8. CASE UNCHANGED vars
    BY <2>1, <2>8 DEF vars
  <2>9. CASE Next
    <3>1. CASE Finalize
      BY <2>1, <2>6, <2>7, <3>1
    <3>2. CASE \E n \in Nodes : LocalEnable(n) \/ MainStep(n) \/ ServerStep(n)
      BY <2>1, <2>2, <2>6, <3>2 DEF SwitchDomains
    <3>3. CASE \E w \in Workers : WorkerStep(w)
      BY <2>1, <2>3, <2>4, <2>5, <3>3 DEF SwitchDomains, WorkerStep
    <3> QED BY <2>9, <3>1, <3>2, <3>3 DEF Next
  <2> QED BY <2>8, <2>9
<1>2. active_workers' \in [Nodes -> Nat]
  <2>1. active_workers' \in [Nodes -> Int]
    BY DEF CrewInv, Domains, Same
  <2>2. ASSUME NEW n \in Nodes PROVE active_workers'[n] \in Nat
    <3>1. CASE pc'[Main(n)] \notin Booting
      <4>1. active_workers'[n] = Cardinality(Present(n)') /\ SetupInv'
        BY <3>1 DEF CrewInv, NodeInv, DepartureOf, Same, Main
      <4>2. IsFiniteSet(WorkersOf(n))
        BY WorkersCount DEF CrewInv
      <4>3. Present(n)' \subseteq WorkersOf(n)
        BY DEF Present, Same
      <4>4. IsFiniteSet(Present(n)')
        BY <4>2, <4>3, FS_Subset
      <4> QED BY <4>1, <4>4, FS_CardinalityType
    <3>2. CASE pc'[Main(n)] \in Booting
      <4>1. active_workers'[n] = active_workers[n]
        <5>1. CASE UNCHANGED active_workers
          BY <5>1
        <5>2. ASSUME NEW k \in Nodes, MdInit(k) PROVE active_workers'[n] = active_workers[n]
          <6>1. CASE k = n
            <7>1. Main(n) \in Threads
              BY ThreadFacts DEF CrewInv
            <7>2. pc'[Main(n)] = "aslr"
              BY <5>2, <6>1, <7>1 DEF MdInit
            <7> QED BY <3>2, <7>2 DEF Booting
          <6>2. CASE k # n
            BY <5>2, <6>2 DEF MdInit, SwitchDomains
          <6> QED BY <6>1, <6>2
        <5>3. ASSUME NEW w \in Workers, ExitWorker(w) PROVE active_workers'[n] = active_workers[n]
          <6>0. SetupInv /\ w[1] \in Nodes /\ w \in WorkersOf(w[1])
            BY ThreadFacts DEF CrewInv
          <6>1. CASE w[1] = n
            <7>1. w \in Others(n) /\ pc[w] = "md_end" /\ pc' = [pc EXCEPT ![w] = "exited"]
              BY <5>3, <6>0, <6>1 DEF ExitWorker, Others, Main, Goto
            <7>2. pc[Main(n)] \notin Booting
              BY <6>0, <7>1 DEF CrewInv, NodeInv, PlacesOf
            <7>3. Main(n) # w /\ pc'[Main(n)] = pc[Main(n)]
              <8>1. Main(n) # w /\ Main(n) \in Threads /\ pc \in [Threads -> Places]
                BY <6>0, <7>1, ThreadFacts DEF Others, CrewInv, Domains
              <8> QED BY <7>1, <8>1
            <7> QED BY <3>2, <7>2, <7>3
          <6>2. CASE w[1] # n
            BY <5>3, <6>0, <6>2 DEF ExitWorker, SwitchDomains
          <6> QED BY <6>1, <6>2
        <5>4. ASSUME NEW w \in Workers, WorkerStep(w), ~ExitWorker(w) PROVE UNCHANGED active_workers
          BY <5>4 DEF WorkerStep, Created, AllCreated, PrefetchRequest, NoRequest, SearchInVain,
             StealNothing, StealRequest, HoldForReply, StealReply, GiveUp, GoOn, EndOfWork, Crew
        <5>5. ASSUME NEW k \in Nodes, LocalEnable(k) \/ (MainStep(k) /\ ~MdInit(k)) \/ ServerStep(k) \/ Finalize
              PROVE  UNCHANGED active_workers
          BY <5>5 DEF MainStep, ServerStep, Finalize, LocalEnable, EnterCollective, LeaveCollective,
             FillNodeInfo, Start, LastOfNode, ShutdownServer, JoinServer, AllTold, TerminateWorkers,
             FlagUp, NoMessage, Reply, ServeTerminateServer, ServeSteal, ServePrefetch,
             ServeTerminateWorkers, Crew
        <5>6. CASE UNCHANGED vars
          BY <5>1, <5>6 DEF vars
        <5>7. 0 \in Nodes
          BY SetupFacts DEF CrewInv
        <5> QED BY <5>1, <5>2, <5>3, <5>4, <5>5, <5>6, <5>7 DEF Next
      <4> QED BY <4>1 DEF SwitchDomains
    <3> QED BY <3>1, <3>2
  <2> QED BY <2>1, <2>2
<1> QED BY <1>1, <1>2, StepKeepsSetup DEF SwitchDomains, Same

(* What a message adds to a channel of descriptors, and takes away.        *)
LEMMA InboxGrows ==
  ASSUME SetupInv, Same, chan \in Chans, NEW n \in Nodes, NEW m \in Nodes, NEW msg \in Messages,
         Post(n, m, MaxNvps, msg)
  PROVE  /\ msg.type # "prefetch" => Owed(Inbox(n, m)') = Owed(Inbox(n, m)) + 1
         /\ msg.type = "prefetch" => Owed(Inbox(n, m)') = Owed(Inbox(n, m))
         /\ Num(Inbox(n, m)', Releases) = Num(Inbox(n, m), Releases) + One(msg.type = "terminate_workers")
<1>1. MaxNvps \in Tags /\ Inbox(n, m) \in Seq(Messages)
  BY TagFacts, InboxType
<1>2. Inbox(n, m)' = Append(Inbox(n, m), msg)
  BY <1>1, PostEffect DEF Inbox
<1>3. /\ msg.type # "prefetch" => Owed(Append(Inbox(n, m), msg)) = Owed(Inbox(n, m)) + 1
      /\ msg.type = "prefetch" => Owed(Append(Inbox(n, m), msg)) = Owed(Inbox(n, m))
  BY <1>1, OwedAppend
<1>4. Num(Append(Inbox(n, m), msg), Releases) = Num(Inbox(n, m), Releases) + One(msg \in Releases)
  BY <1>1, NumAppend
<1>5. msg \in Releases <=> msg.type = "terminate_workers"
  BY DEF Releases
<1> QED BY <1>2, <1>3, <1>4, <1>5

LEMMA InboxShrinks ==
  ASSUME SetupInv, Same, chan \in Chans, NEW m \in Nodes, NEW n \in Nodes,
         Inbox(m, n) # <<>>, Take(m, n, MaxNvps)
  PROVE  /\ Head(Inbox(m, n)).type # "prefetch" => Owed(Inbox(m, n)') = Owed(Inbox(m, n)) - 1
         /\ Head(Inbox(m, n)).type = "prefetch" => Owed(Inbox(m, n)') = Owed(Inbox(m, n))
         /\ Num(Inbox(m, n), Releases) =
              Num(Inbox(m, n)', Releases) + One(Head(Inbox(m, n)).type = "terminate_workers")
<1>1. MaxNvps \in Tags /\ Inbox(m, n) \in Seq(Messages)
  BY TagFacts, InboxType
<1>2. Inbox(m, n)' = Tail(Inbox(m, n))
  BY <1>1, TakeEffect DEF Inbox
<1>3. /\ Head(Inbox(m, n)).type # "prefetch" => Owed(Tail(Inbox(m, n))) = Owed(Inbox(m, n)) - 1
      /\ Head(Inbox(m, n)).type = "prefetch" => Owed(Tail(Inbox(m, n))) = Owed(Inbox(m, n))
      /\ Head(Inbox(m, n)) \in Messages
  BY <1>1, ElemsTail, OwedTail
<1>4. Num(Inbox(m, n), Releases) = Num(Tail(Inbox(m, n)), Releases) + One(Head(Inbox(m, n)) \in Releases)
  BY <1>1, NumTail
<1>5. Head(Inbox(m, n)) \in Releases <=> Head(Inbox(m, n)).type = "terminate_workers"
  BY <1>3 DEF Releases
<1> QED BY <1>2, <1>3, <1>4, <1>5

LEMMA InboxNumbers ==
  ASSUME SetupInv, chan \in Chans, NEW m \in Nodes, NEW k \in Nodes
  PROVE  Owed(Inbox(m, k)) \in Nat /\ Num(Inbox(m, k), Releases) \in Nat
BY InboxType, NumType, OwedNum

LEMMA NumbersNext ==
  ASSUME SetupInv, Same, chan' \in Chans', NEW m \in Nodes, NEW k \in Nodes
  PROVE  Owed(Inbox(m, k)') \in Nat /\ Num(Inbox(m, k)', Releases) \in Nat
<1>1. chan' \in [Nodes -> [Nodes -> [Tags -> Seq(Messages')]]] /\ MaxNvps \in Tags
  BY TagFacts DEF Chans, Same
<1>2. chan'[m][k][MaxNvps] \in Seq(Messages')
  BY <1>1
<1> QED BY <1>2, NumType, OwedNum DEF Inbox

LEMMA AttemptNumbers ==
  ASSUME SetupInv, chan \in Chans, SwitchDomains, NEW n \in Nodes, NEW tag \in AnswerTags
  PROVE  /\ Free(n) \in {0, 1} /\ Serving(n) \in {0, 1} /\ Ends(n) \in {0, 1}
         /\ Requests(n) \in Nat /\ Replies(n, tag) \in Nat /\ enables \in Nat
<1>1. Victim(n) \in Nodes /\ tag \in Tags
  BY VictimType DEF AnswerTags
<1>2. chan[Victim(n)][n][tag] \in Seq(Messages)
  BY <1>1 DEF Chans
<1>3. Free(n) \in {0, 1} /\ Serving(n) \in {0, 1} /\ Ends(n) \in {0, 1} /\ enables \in Nat
  BY DEF Free, Serving, Ends, One, SwitchDomains
<1> QED BY <1>1, <1>2, <1>3, InboxNumbers, LenProperties DEF Requests, Replies

LEMMA AttemptNumbersNext ==
  ASSUME SetupInv, Same, chan' \in Chans', SwitchDomains', NEW n \in Nodes, NEW tag \in AnswerTags
  PROVE  /\ Free(n)' \in {0, 1} /\ Serving(n)' \in {0, 1} /\ Ends(n)' \in {0, 1}
         /\ Requests(n)' \in Nat /\ Replies(n, tag)' \in Nat /\ enables' \in Nat
<1>1. Victim(n) \in Nodes /\ tag \in Tags /\ MaxNvps \in Tags /\ Victim(n)' = Victim(n)
  BY VictimType, TagFacts DEF AnswerTags, Same
<1>2. chan' \in [Nodes -> [Nodes -> [Tags -> Seq(Messages')]]]
  BY DEF Chans, Same
<1>3. chan'[Victim(n)][n][tag] \in Seq(Messages') /\ chan'[n][Victim(n)][MaxNvps] \in Seq(Messages')
  BY <1>1, <1>2
<1>4. Free(n)' \in {0, 1} /\ Serving(n)' \in {0, 1} /\ Ends(n)' \in {0, 1} /\ enables' \in Nat
  BY DEF Free, Serving, Ends, One, SwitchDomains
<1> QED BY <1>1, <1>3, <1>4, LenProperties, OwedNum DEF Requests, Replies, Inbox

(* What a step has to say for the two parts.                               *)
AttemptKept ==
  /\ \A n \in Nodes, tag \in AnswerTags :
       Attempts(n, tag)' <= Allowed(n)' \/ Attempts(n, tag)' - Allowed(n)' <= Attempts(n, tag) - Allowed(n)
  /\ \A m \in Nodes, n \in Nodes, tag \in AnswerTags :
       m # Victim(n) => chan'[m][n][tag] = <<>> \/ chan'[m][n][tag] = chan[m][n][tag]
  /\ \A m \in Nodes, k \in Nodes : \A x \in Elems(Inbox(m, k)') :
       x \in Elems(Inbox(m, k)) \/ (x.type = "steal" => x.from[1] = m /\ k = Victim(m))
  /\ \A k \in Nodes : pc'[Server(k)] = "reply" =>
       (pc[Server(k)] = "reply" /\ asker'[k] = asker[k]) \/ Victim(asker'[k][1]) = k

LEMMA AttemptKeeps ==
  ASSUME SetupInv, SetupInv', Same, chan \in Chans, chan' \in Chans', SwitchDomains, SwitchDomains',
         AttemptInv, AttemptKept
  PROVE  AttemptInv'
<1>1. Nodes' = Nodes /\ AnswerTags' = AnswerTags /\ \A n : Victim(n)' = Victim(n)
  BY DEF Same, AnswerTags
<1>2. ASSUME NEW n \in Nodes, NEW tag \in AnswerTags PROVE Attempts(n, tag)' <= Allowed(n)'
  <2>1. Attempts(n, tag) \in Int /\ Allowed(n) \in Int
    BY AttemptNumbers DEF Attempts, Allowed
  <2>2. Attempts(n, tag)' \in Int /\ Allowed(n)' \in Int
    BY AttemptNumbersNext DEF Attempts, Allowed
  <2>3. Attempts(n, tag) <= Allowed(n)
    BY DEF AttemptInv
  <2>4. Attempts(n, tag)' <= Allowed(n)' \/ Attempts(n, tag)' - Allowed(n)' <= Attempts(n, tag) - Allowed(n)
    BY DEF AttemptKept
  <2> QED BY <2>1, <2>2, <2>3, <2>4
<1>3. \A m \in Nodes, n \in Nodes, tag \in AnswerTags : m # Victim(n) => chan'[m][n][tag] = <<>>
  BY DEF AttemptInv, AttemptKept
<1>4. ASSUME NEW m \in Nodes, NEW k \in Nodes, NEW x \in Elems(Inbox(m, k)'), x.type = "steal"
      PROVE  x.from[1] = m /\ k = Victim(m)
  BY <1>4 DEF AttemptInv, AttemptKept
<1>5. \A k \in Nodes : pc'[Server(k)] = "reply" => Victim(asker'[k][1]) = k
  BY DEF AttemptInv, AttemptKept
<1>6. \A k \in Nodes : (Victim(asker[k][1]) = k)' <=> Victim(asker'[k][1]) = k
  BY DEF Victim, NextNode, Same
<1> QED BY <1>1, <1>2, <1>3, <1>4, <1>5, <1>6 DEF AttemptInv

EndKept ==
  /\ \A m \in Nodes, k \in Nodes : k # Victim(m) =>
       \/ Owed(Inbox(m, k)') <= Owed(Inbox(m, k))
       \/ Owed(Inbox(m, k)') = Owed(Inbox(m, k)) + 1 /\ m = 0 /\ k \in told' \ told
       \/ Owed(Inbox(m, k)') = Owed(Inbox(m, k)) + 1 /\ m = k /\ pc[Main(m)] \notin Ended /\ pc'[Main(m)] \in Ended
  /\ told \subseteq told'
  /\ \A n \in Nodes : pc[Main(n)] \in Ended => pc'[Main(n)] \in Ended
  /\ appl_finished'[0] \in {1, appl_finished[0]}
  /\ \A n \in Nodes \ {0} :
       \/ Num(Inbox(0, n)', Releases) + appl_finished'[n] = Num(Inbox(0, n), Releases) + appl_finished[n]
       \/ /\ n \in told' \ told
          /\ Num(Inbox(0, n)', Releases) + appl_finished'[n] = Num(Inbox(0, n), Releases) + appl_finished[n] + 1

LEMMA EndKeeps ==
  ASSUME SetupInv, Same, chan \in Chans, chan' \in Chans', appl_finished \in [Nodes -> Nat], EndInv, EndKept
  PROVE  EndInv'
<1>1. Nodes' = Nodes /\ (\A n : Victim(n)' = Victim(n)) /\ 0 \in Nodes
  BY SetupFacts DEF Same
<1>2. ASSUME NEW m \in Nodes, NEW k \in Nodes, k # Victim(m)
      PROVE  Owed(Inbox(m, k)') <= One(m = 0 /\ k \in told') + One(m = k /\ pc'[Main(m)] \in Ended)
  <2> DEFINE a == Owed(Inbox(m, k))
             b == Owed(Inbox(m, k)')
  <2>1. a \in Nat /\ a <= One(m = 0 /\ k \in told) + One(m = k /\ pc[Main(m)] \in Ended)
    BY <1>2, InboxNumbers DEF EndInv
  <2>2. \/ b <= a
        \/ b = a + 1 /\ m = 0 /\ k \in told' \ told
        \/ b = a + 1 /\ m = k /\ pc[Main(m)] \notin Ended /\ pc'[Main(m)] \in Ended
    BY <1>2 DEF EndKept
  <2>3. (k \in told => k \in told') /\ (pc[Main(m)] \in Ended => pc'[Main(m)] \in Ended)
    BY DEF EndKept
  <2>4. b \in Nat
    <3>1. chan' \in [Nodes -> [Nodes -> [Tags -> Seq(Messages')]]] /\ MaxNvps \in Tags
      BY TagFacts DEF Chans, Same
    <3>2. chan'[m][k][MaxNvps] \in Seq(Messages')
      BY <3>1
    <3> QED BY <3>2, OwedNum DEF Inbox
  <2> HIDE DEF a, b
  <2>5. CASE b <= a
    <3>1. b <= One(m = 0 /\ k \in told) + One(m = k /\ pc[Main(m)] \in Ended)
      BY <2>1, <2>4, <2>5 DEF One
    <3> QED BY <2>3, <2>4, <3>1 DEF One, b
  <2>6. CASE b = a + 1 /\ m = 0 /\ k \in told' \ told
    BY <2>1, <2>3, <2>6 DEF One, b
  <2>7. CASE b = a + 1 /\ m = k /\ pc[Main(m)] \notin Ended /\ pc'[Main(m)] \in Ended
    BY <2>1, <2>3, <2>7 DEF One, b
  <2> QED BY <2>2, <2>5, <2>6, <2>7
<1>3. appl_finished'[0] <= 1
  BY DEF EndInv, EndKept
<1>4. ASSUME NEW n \in Nodes \ {0}
      PROVE  Num(Inbox(0, n)', Releases) + appl_finished'[n] <= One(n \in told')
  <2> DEFINE a == Num(Inbox(0, n), Releases) + appl_finished[n]
             b == Num(Inbox(0, n)', Releases) + appl_finished'[n]
  <2>1. a \in Nat /\ a <= One(n \in told)
    BY <1>1, InboxNumbers DEF EndInv
  <2>2. b = a \/ (n \in told' \ told /\ b = a + 1)
    BY DEF EndKept
  <2>3. n \in told => n \in told'
    BY DEF EndKept
  <2> HIDE DEF a, b
  <2>4. b <= One(n \in told')
    BY <2>1, <2>2, <2>3 DEF One
  <2> QED BY <2>4 DEF b
<1>5. Releases' = Releases
  BY DEF Releases, Messages, Same
<1> QED BY <1>1, <1>2, <1>3, <1>4, <1>5 DEF EndInv

(* The steps of the invariant, in two cases: what moves no message ...     *)
LEMMA CalmBounds ==
  ASSUME CrewInv, CrewInv', MailInv, MailInv', Same, BoundInv, SwitchDomains',
         UNCHANGED <<chan, asker, told>>,
         appl_finished'[0] \in {1, appl_finished[0]},
         \A n \in Nodes \ {0} : appl_finished'[n] = appl_finished[n],
         \A n \in Nodes : pc'[Server(n)] = "reply" <=> pc[Server(n)] = "reply",
         \A n \in Nodes : pc[Main(n)] \in Ended => pc'[Main(n)] \in Ended,
         \A n \in Nodes : Free(n)' - Free(n) <= enables' - enables
  PROVE  BoundInv'
<1>0. /\ SetupInv /\ SetupInv' /\ chan \in Chans /\ chan' \in Chans' /\ appl_finished \in [Nodes -> Nat]
      /\ SwitchDomains
  BY DEF CrewInv, MailInv, MailDomains, BoundInv
<1>1. \A m, k \in Nodes : Inbox(m, k)' = Inbox(m, k)
  BY DEF Inbox
<1>2. AttemptKept
  <2>1. ASSUME NEW n \in Nodes, NEW tag \in AnswerTags
        PROVE  Attempts(n, tag)' - Allowed(n)' <= Attempts(n, tag) - Allowed(n)
    <3>1. Victim(n) \in Nodes /\ Victim(n)' = Victim(n)
      BY <1>0, VictimType DEF Same
    <3>2. Requests(n)' = Requests(n) /\ Replies(n, tag)' = Replies(n, tag) /\ Ends(n)' = Ends(n)
      BY <1>1, <3>1 DEF Requests, Replies, Ends
    <3>3. Served(n)' <=> Served(n)
      BY <3>1 DEF Served
    <3>4. Serving(n)' = Serving(n)
      BY <3>3 DEF Serving, One
    <3>5. Free(n)' - Free(n) <= enables' - enables
      OBVIOUS
    <3> QED BY <1>0, <3>2, <3>4, <3>5, AttemptNumbers, AttemptNumbersNext DEF Attempts, Allowed
  <2> QED BY <1>1, <2>1 DEF AttemptKept
<1>3. EndKept
  <2>1. 0 \in Nodes
    BY <1>0, SetupFacts
  <2>2. \A m, k \in Nodes : Owed(Inbox(m, k)') <= Owed(Inbox(m, k))
    BY <1>0, <1>1, InboxNumbers
  <2> QED BY <1>1, <2>1, <2>2 DEF EndKept
<1> QED BY <1>0, <1>2, <1>3, AttemptKeeps, EndKeeps DEF BoundInv

LEMMA FreeStays ==
  ASSUME \A n \in Nodes : stealing'[n] /\ ~sl'[n] => stealing[n] /\ ~sl[n], SwitchDomains, SwitchDomains',
         enables' = enables
  PROVE  \A n \in Nodes : Free(n)' - Free(n) <= enables' - enables
<1> TAKE n \in Nodes
<1>1. Free(n) \in {0, 1} /\ Free(n)' \in {0, 1} /\ (Free(n)' = 1 => Free(n) = 1)
  BY DEF Free, One
<1>2. enables \in Nat
  BY DEF SwitchDomains
<1> QED BY <1>1, <1>2

LEMMA InertBounds ==
  ASSUME CrewInv, CrewInv', MailInv, MailInv', Same, BoundInv, SwitchDomains', Inert,
         enables' = enables, \A n \in Nodes : stealing'[n] => stealing[n]
  PROVE  BoundInv'
<1>1. /\ UNCHANGED <<chan, asker, sl, told, appl_finished>>
      /\ \A n \in Nodes : pc'[Server(n)] = "reply" <=> pc[Server(n)] = "reply"
      /\ \A n \in Nodes : pc[Main(n)] \in Ended => pc'[Main(n)] \in Ended
  BY DEF Inert, Mail, MainCalm, ServerCalm
<1>2. \A n \in Nodes : Free(n)' - Free(n) <= enables' - enables
  BY <1>1, FreeStays DEF BoundInv
<1> QED BY <1>1, <1>2, CalmBounds

LEMMA LocalEnableBounds ==
  ASSUME CrewInv, CrewInv', MailInv, MailInv', Same, BoundInv, SwitchDomains', NEW n \in Nodes, LocalEnable(n)
  PROVE  BoundInv'
<1>1. /\ UNCHANGED <<chan, asker, sl, told, appl_finished, pc>> /\ enables' = enables + 1
      /\ \A m \in Nodes : Free(m) \in {0, 1} /\ Free(m)' \in {0, 1}
  BY DEF LocalEnable, Ending, Free, One
<1>2. enables \in Nat
  BY DEF BoundInv, SwitchDomains
<1>3. \A m \in Nodes : Free(m)' - Free(m) <= enables' - enables
  BY <1>1, <1>2
<1> QED BY <1>1, <1>3, CalmBounds

LEMMA FinalizeBounds ==
  ASSUME CrewInv, CrewInv', MailInv, MailInv', Same, BoundInv, SwitchDomains', Finalize
  PROVE  BoundInv'
<1>1. /\ SetupInv /\ 0 \in Nodes /\ Main(0) \in Threads /\ pc \in [Threads -> Places]
      /\ \A n \in Nodes : Server(n) # Main(0)
  <2>1. SetupInv /\ pc \in [Threads -> Places]
    BY DEF CrewInv, Domains
  <2>2. 0 \in Nodes
    BY <2>1, SetupFacts
  <2>3. Main(0) \in WorkersOf(0)
    BY <2>1, <2>2, ThreadFacts
  <2> QED BY <2>1, <2>2, <2>3, ThreadFacts
<1>2. /\ UNCHANGED <<chan, asker, sl, told, stealing, enables>>
      /\ pc[Main(0)] = "app" /\ pc' = [pc EXCEPT ![Main(0)] = "terminate_workers"]
      /\ appl_finished' = [appl_finished EXCEPT ![0] = 1]
  BY DEF Finalize, Steals, Goto
<1>3. \A n \in Nodes : pc'[Server(n)] = pc[Server(n)]
  BY <1>1, <1>2, ThreadFacts
<1>4. \A n \in Nodes : pc[Main(n)] \in Ended => pc'[Main(n)] \in Ended
  BY <1>1, <1>2, ThreadFacts DEF Ended
<1>5. /\ appl_finished'[0] \in {1, appl_finished[0]}
      /\ \A n \in Nodes \ {0} : appl_finished'[n] = appl_finished[n]
  BY <1>1, <1>2 DEF MailInv, MailDomains
<1>6. \A n \in Nodes : Free(n)' - Free(n) <= enables' - enables
  BY <1>2, FreeStays DEF BoundInv
<1> QED BY <1>2, <1>3, <1>4, <1>5, <1>6, CalmBounds

LEMMA GiveUpBounds ==
  ASSUME CrewInv, CrewInv', MailInv, MailInv', Same, BoundInv, SwitchDomains', NEW w \in Workers, GiveUp(w)
  PROVE  BoundInv'
<1>1. /\ SetupInv /\ w[1] \in Nodes /\ w \in Threads /\ pc \in [Threads -> Places]
      /\ \A n \in Nodes : Server(n) # w
  BY ThreadFacts DEF CrewInv, Domains
<1>2. /\ UNCHANGED <<chan, asker, told, appl_finished, enables>>
      /\ pc[w] = "await" /\ pc' = [pc EXCEPT ![w] = "test"]
      /\ stealing' = [stealing EXCEPT ![w[1]] = FALSE] /\ sl' = [sl EXCEPT ![w[1]] = FALSE]
  BY DEF GiveUp, StealOver, Ending, Goto
<1>3. \A n \in Nodes : pc'[Server(n)] = pc[Server(n)]
  BY <1>1, <1>2, ThreadFacts
<1>4. \A n \in Nodes : pc[Main(n)] \in Ended => pc'[Main(n)] \in Ended
  BY <1>1, <1>2, ThreadFacts DEF Ended
<1>5. \A n \in Nodes : stealing'[n] /\ ~sl'[n] => stealing[n] /\ ~sl[n]
  BY <1>1, <1>2 DEF BoundInv, SwitchDomains, MailInv, MailDomains
<1>6. \A n \in Nodes : Free(n)' - Free(n) <= enables' - enables
  BY <1>2, <1>5, FreeStays DEF BoundInv
<1> QED BY <1>2, <1>3, <1>4, <1>6, CalmBounds

(* ... and what sends or receives one.                                     *)
LEMMA TerminateWorkersBounds ==
  ASSUME CrewInv, CrewInv', MailInv, MailInv', Same, BoundInv, SwitchDomains', NEW k \in Nodes, TerminateWorkers(k)
  PROVE  BoundInv'
<1> DEFINE msg == [type |-> "terminate_workers", from |-> Main(0)]
<1>0. /\ SetupInv /\ SetupInv' /\ chan \in Chans /\ chan' \in Chans' /\ appl_finished \in [Nodes -> Nat]
      /\ SwitchDomains /\ 0 \in Nodes
  BY SetupFacts DEF CrewInv, MailInv, MailDomains, BoundInv
<1>1. /\ Post(0, k, MaxNvps, msg) /\ k \notin told /\ k # 0 /\ told' = told \cup {k}
      /\ UNCHANGED <<pc, asker, sl, stealing, enables, appl_finished>>
  BY DEF TerminateWorkers, Steals
<1>2. msg \in Messages /\ msg.type = "terminate_workers"
  <2>1. Main(0) \in WorkersOf(0)
    BY <1>0, ThreadFacts
  <2>2. Main(0) \in Threads
    BY <1>0, <2>1, ThreadFacts
  <2> QED BY <2>2 DEF Messages
<1> HIDE DEF msg
<1>3. /\ Elems(Inbox(0, k)') = Elems(Inbox(0, k)) \cup {msg}
      /\ \A a, b \in Nodes : a # 0 \/ b # k => Inbox(a, b)' = Inbox(a, b)
      /\ \A a, b \in Nodes : \A t \in AnswerTags : chan'[a][b][t] = chan[a][b][t]
  BY <1>0, <1>1, <1>2, InboxPost
<1>4. /\ Owed(Inbox(0, k)') = Owed(Inbox(0, k)) + 1
      /\ Num(Inbox(0, k)', Releases) = Num(Inbox(0, k), Releases) + 1
  <2>1. One(msg.type = "terminate_workers") = 1
    BY <1>2 DEF One
  <2> QED BY <1>0, <1>1, <1>2, <2>1, InboxGrows
<1>5. AttemptKept
  <2>1. ASSUME NEW n \in Nodes, NEW tag \in AnswerTags
        PROVE  Attempts(n, tag)' - Allowed(n)' <= Attempts(n, tag) - Allowed(n)
    <3>1. Victim(n) \in Nodes /\ Victim(n)' = Victim(n)
      BY <1>0, VictimType DEF Same
    <3>2. Replies(n, tag)' = Replies(n, tag) /\ enables' = enables
      BY <1>1, <1>3, <3>1 DEF Replies
    <3>3. (Served(n)' <=> Served(n)) /\ (stealing'[n] /\ ~sl'[n] <=> stealing[n] /\ ~sl[n])
      BY <1>1, <3>1 DEF Served
    <3>4. Serving(n)' = Serving(n) /\ Free(n)' = Free(n)
      BY <3>3 DEF Serving, Free, One
    <3>5. \/ n = 0 /\ Victim(n) = k
          \/ Requests(n)' = Requests(n) /\ Ends(n)' = Ends(n)
      <4>1. CASE n = 0 /\ Victim(n) = k
        BY <4>1
      <4>2. CASE ~(n = 0 /\ Victim(n) = k)
        <5>1. Requests(n)' = Requests(n)
          BY <1>3, <3>1, <4>2 DEF Requests
        <5>2. (n = 0 /\ Victim(n) \in told') <=> (n = 0 /\ Victim(n) \in told)
          BY <1>1, <4>2
        <5> QED BY <3>1, <5>1, <5>2 DEF Ends, One
      <4> QED BY <4>1, <4>2
    <3>6. n = 0 /\ Victim(n) = k => Requests(n)' = Requests(n) + 1 /\ Ends(n)' = 1 /\ Ends(n) = 0
      BY <1>1, <1>4, <3>1 DEF Requests, Ends, One
    <3> QED BY <1>0, <3>2, <3>4, <3>5, <3>6, AttemptNumbers DEF Attempts, Allowed
  <2> QED BY <1>1, <1>2, <1>3, <2>1 DEF AttemptKept
<1>6. EndKept
  <2>1. ASSUME NEW m \in Nodes, NEW b \in Nodes
        PROVE  \/ Owed(Inbox(m, b)') <= Owed(Inbox(m, b))
               \/ Owed(Inbox(m, b)') = Owed(Inbox(m, b)) + 1 /\ m = 0 /\ b \in told' \ told
    <3>1. CASE m = 0 /\ b = k
      BY <1>1, <1>4, <3>1
    <3>2. CASE m # 0 \/ b # k
      <4>1. Inbox(m, b)' = Inbox(m, b) /\ Owed(Inbox(m, b)) \in Nat
        BY <1>0, <1>3, <3>2, InboxNumbers
      <4> QED BY <4>1
    <3> QED BY <3>1, <3>2
  <2>2. ASSUME NEW n \in Nodes \ {0}
        PROVE  \/ Num(Inbox(0, n)', Releases) + appl_finished'[n] = Num(Inbox(0, n), Releases) + appl_finished[n]
               \/ /\ n \in told' \ told
                  /\ Num(Inbox(0, n)', Releases) + appl_finished'[n] = Num(Inbox(0, n), Releases) + appl_finished[n] + 1
    <3>1. CASE n = k
      <4>1. Num(Inbox(0, k), Releases) \in Nat /\ appl_finished[k] \in Nat
        BY <1>0, InboxNumbers
      <4> QED BY <1>1, <1>4, <3>1, <4>1
    <3>2. CASE n # k
      BY <1>0, <1>1, <1>3, <3>2
    <3> QED BY <3>1, <3>2
  <2> QED BY <1>0, <1>1, <2>1, <2>2 DEF EndKept
<1> QED BY <1>0, <1>5, <1>6, AttemptKeeps, EndKeeps DEF BoundInv

LEMMA PrefetchRequestBounds ==
  ASSUME CrewInv, CrewInv', MailInv, MailInv', Same, BoundInv, SwitchDomains', NEW w \in Workers, PrefetchRequest(w)
  PROVE  BoundInv'
<1> DEFINE msg == [type |-> "prefetch", from |-> w]
<1>z. /\ SetupInv /\ SetupInv' /\ chan \in Chans /\ chan' \in Chans' /\ appl_finished \in [Nodes -> Nat]
      /\ SwitchDomains /\ w \in Threads
  BY DEF CrewInv, MailInv, MailDomains, BoundInv, Threads
<1>n. PICK n \in Nodes : n = w[1]
  BY <1>z, ThreadFacts
<1>m. PICK m \in Nodes : m = target_node[w]
  BY DEF CrewInv, TargetInv
<1>0. 0 \in Nodes
  BY <1>z, SetupFacts
<1>1. /\ Post(n, m, MaxNvps, msg)
      /\ UNCHANGED <<pc, asker, sl, stealing, enables, told, appl_finished>>
  BY <1>n, <1>m DEF PrefetchRequest, Ending
<1>2. msg \in Messages /\ msg.type = "prefetch"
  BY <1>z DEF Messages
<1> HIDE DEF msg
<1>3. /\ Elems(Inbox(n, m)') = Elems(Inbox(n, m)) \cup {msg}
      /\ \A a, b \in Nodes : a # n \/ b # m => Inbox(a, b)' = Inbox(a, b)
      /\ \A a, b \in Nodes : \A t \in AnswerTags : chan'[a][b][t] = chan[a][b][t]
  BY <1>z, <1>1, <1>2, InboxPost
<1>4. /\ Owed(Inbox(n, m)') = Owed(Inbox(n, m))
      /\ Num(Inbox(n, m)', Releases) = Num(Inbox(n, m), Releases)
  <2>1. One(msg.type = "terminate_workers") = 0
    BY <1>2 DEF One
  <2>2. Num(Inbox(n, m), Releases) \in Nat
    BY <1>z, InboxNumbers
  <2> QED BY <1>z, <1>1, <1>2, <2>1, <2>2, InboxGrows
<1>5. ASSUME NEW a \in Nodes, NEW b \in Nodes
      PROVE  /\ Owed(Inbox(a, b)') = Owed(Inbox(a, b))
             /\ Num(Inbox(a, b)', Releases) = Num(Inbox(a, b), Releases)
             /\ Owed(Inbox(a, b)) \in Nat
  BY <1>z, <1>3, <1>4, InboxNumbers
<1>6. AttemptKept
  <2>1. ASSUME NEW j \in Nodes, NEW tag \in AnswerTags
        PROVE  Attempts(j, tag)' - Allowed(j)' <= Attempts(j, tag) - Allowed(j)
    <3>1. Victim(j) \in Nodes /\ Victim(j)' = Victim(j)
      BY <1>z, VictimType DEF Same
    <3>2. Requests(j)' = Requests(j) /\ Replies(j, tag)' = Replies(j, tag) /\ Ends(j)' = Ends(j)
          /\ enables' = enables
      <4>1. Requests(j)' = Owed(Inbox(j, Victim(j))')
        BY <3>1 DEF Requests, Inbox
      <4>2. Requests(j)' = Requests(j)
        BY <1>5, <3>1, <4>1 DEF Requests
      <4>3. Replies(j, tag)' = Replies(j, tag)
        BY <1>3, <3>1 DEF Replies
      <4> QED BY <1>1, <3>1, <4>2, <4>3 DEF Ends
    <3>3. (Served(j)' <=> Served(j)) /\ (stealing'[j] /\ ~sl'[j] <=> stealing[j] /\ ~sl[j])
      BY <1>1, <3>1 DEF Served
    <3>4. Serving(j)' = Serving(j) /\ Free(j)' = Free(j)
      BY <3>3 DEF Serving, Free, One
    <3> QED BY <1>z, <3>2, <3>4, AttemptNumbers DEF Attempts, Allowed
  <2> QED BY <1>1, <1>2, <1>3, <2>1 DEF AttemptKept
<1>7. EndKept
  <2>1. \A a, b \in Nodes : Owed(Inbox(a, b)') <= Owed(Inbox(a, b))
    BY <1>5
  <2> QED BY <1>0, <1>1, <1>5, <2>1 DEF EndKept
<1> QED BY <1>z, <1>6, <1>7, AttemptKeeps, EndKeeps DEF BoundInv

LEMMA ShutdownBounds ==
  ASSUME CrewInv, CrewInv', MailInv, MailInv', Same, BoundInv, SwitchDomains', NEW k \in Nodes, ShutdownServer(k)
  PROVE  BoundInv'
<1> DEFINE msg == [type |-> "terminate_server", from |-> Main(k)]
<1>0. /\ SetupInv /\ SetupInv' /\ chan \in Chans /\ chan' \in Chans' /\ appl_finished \in [Nodes -> Nat]
      /\ SwitchDomains /\ 0 \in Nodes /\ pc \in [Threads -> Places] /\ Main(k) \in Threads
  BY SetupFacts, ThreadFacts DEF CrewInv, MailInv, MailDomains, BoundInv, Domains
<1>1. /\ pc[Main(k)] = "shutdown_server" /\ pc' = [pc EXCEPT ![Main(k)] = "join"]
      /\ UNCHANGED <<asker, sl, stealing, enables, told, appl_finished>>
      /\ IF ThreadSafe THEN Post(k, k, MaxNvps, msg) ELSE UNCHANGED chan
  BY DEF ShutdownServer, Steals, Goto
<1>2. /\ \A n \in Nodes : pc'[Server(n)] = pc[Server(n)]
      /\ \A n \in Nodes : pc[Main(n)] \in Ended => pc'[Main(n)] \in Ended
      /\ pc[Main(k)] \notin Ended /\ pc'[Main(k)] \in Ended
  <2>1. /\ \A n \in Nodes : Server(n) # Main(k) /\ Main(n) \in Threads
        /\ \A n \in Nodes : Main(n) = Main(k) => n = k
    BY <1>0, ThreadFacts
  <2> QED BY <1>0, <1>1, <2>1, ThreadFacts DEF Ended
<1>3. \A n \in Nodes : Free(n)' - Free(n) <= enables' - enables
  BY <1>0, <1>1, FreeStays
<1>4. CASE ~ThreadSafe
  BY <1>0, <1>1, <1>2, <1>3, <1>4, CalmBounds
<1>5. CASE ThreadSafe
  <2>1. msg \in Messages /\ msg.type = "terminate_server"
    BY <1>0 DEF Messages
  <2> HIDE DEF msg
  <2>2. /\ Elems(Inbox(k, k)') = Elems(Inbox(k, k)) \cup {msg}
        /\ \A a, b \in Nodes : a # k \/ b # k => Inbox(a, b)' = Inbox(a, b)
        /\ \A a, b \in Nodes : \A t \in AnswerTags : chan'[a][b][t] = chan[a][b][t]
    BY <1>0, <1>1, <1>5, <2>1, InboxPost
  <2>3. Owed(Inbox(k, k)') = Owed(Inbox(k, k)) + 1
    BY <1>0, <1>1, <1>5, <2>1, InboxGrows
  <2>4. AttemptKept
    <3>1. ASSUME NEW n \in Nodes, NEW tag \in AnswerTags
          PROVE  Attempts(n, tag)' - Allowed(n)' <= Attempts(n, tag) - Allowed(n)
      <4>1. Victim(n) \in Nodes /\ Victim(n)' = Victim(n) /\ Victim(n) # n
        BY <1>0, VictimType DEF Same
      <4>2. Replies(n, tag)' = Replies(n, tag) /\ Requests(n)' = Requests(n) /\ enables' = enables
        BY <1>1, <2>2, <4>1 DEF Replies, Requests
      <4>3. Served(n)' <=> Served(n)
        BY <1>1, <1>2, <4>1 DEF Served
      <4>4. Serving(n)' = Serving(n) /\ Ends(n)' = Ends(n)
        BY <1>1, <4>1, <4>3 DEF Serving, Ends, One
      <4> QED BY <1>0, <1>3, <4>2, <4>4, AttemptNumbers, AttemptNumbersNext DEF Attempts, Allowed
    <3> QED BY <1>1, <1>2, <2>1, <2>2, <3>1 DEF AttemptKept
  <2>5. EndKept
    <3>1. ASSUME NEW m \in Nodes, NEW b \in Nodes
          PROVE  \/ Owed(Inbox(m, b)') <= Owed(Inbox(m, b))
                 \/ /\ Owed(Inbox(m, b)') = Owed(Inbox(m, b)) + 1 /\ m = b
                    /\ pc[Main(m)] \notin Ended /\ pc'[Main(m)] \in Ended
      <4>1. CASE m = k /\ b = k
        BY <1>2, <2>3, <4>1
      <4>2. CASE m # k \/ b # k
        <5>1. Inbox(m, b)' = Inbox(m, b) /\ Owed(Inbox(m, b)) \in Nat
          BY <1>0, <2>2, <4>2, InboxNumbers
        <5> QED BY <5>1
      <4> QED BY <4>1, <4>2
    <3>2. \A n \in Nodes \ {0} : Inbox(0, n)' = Inbox(0, n)
      BY <1>0, <2>2
    <3> QED BY <1>0, <1>1, <1>2, <3>1, <3>2 DEF EndKept
  <2> QED BY <1>0, <2>4, <2>5, AttemptKeeps, EndKeeps DEF BoundInv
<1> QED BY <1>4, <1>5

(* A server that has taken a message.                                      *)
LEMMA ServerTakes ==
  ASSUME CrewInv, CrewInv', MailInv, MailInv', Same, BoundInv, SwitchDomains',
         NEW n \in Nodes, NEW m \in Nodes, NEW q \in {"receive", "flag", "reply", "exited"},
         pc[Server(n)] = "receive", Inbox(m, n) # <<>>, Take(m, n, MaxNvps),
         pc' = [pc EXCEPT ![Server(n)] = q],
         UNCHANGED <<sl, stealing, enables, told>>,
         \/ q # "reply" /\ asker' = asker
         \/ /\ Head(Inbox(m, n)).type = "steal"
            /\ asker' = [asker EXCEPT ![n] = Head(Inbox(m, n)).from]
  PROVE  /\ AttemptKept
         /\ \A a, b \in Nodes : Owed(Inbox(a, b)') <= Owed(Inbox(a, b))
         /\ \A k \in Nodes : pc'[Main(k)] = pc[Main(k)]
<1> DEFINE head == Head(Inbox(m, n))
<1>0. SetupInv /\ SetupInv' /\ chan \in Chans /\ chan' \in Chans' /\ SwitchDomains /\ AttemptInv
      /\ asker \in [Nodes -> Workers]
  BY DEF CrewInv, MailInv, MailDomains, BoundInv
<1>1. /\ head \in Elems(Inbox(m, n)) /\ Elems(Inbox(m, n)') \subseteq Elems(Inbox(m, n))
      /\ \A a, b \in Nodes : a # m \/ b # n => Inbox(a, b)' = Inbox(a, b)
      /\ \A a, b \in Nodes : \A t \in AnswerTags : chan'[a][b][t] = chan[a][b][t]
  BY <1>0, InboxTake
<1>2. /\ head.type # "prefetch" => Owed(Inbox(m, n)') = Owed(Inbox(m, n)) - 1
      /\ head.type = "prefetch" => Owed(Inbox(m, n)') = Owed(Inbox(m, n))
      /\ Owed(Inbox(m, n)) \in Nat
  BY <1>0, InboxShrinks, InboxNumbers
<1>3. /\ pc'[Server(n)] = q
      /\ \A k \in Nodes : pc'[Main(k)] = pc[Main(k)]
      /\ \A k \in Nodes \ {n} : pc'[Server(k)] = pc[Server(k)]
  BY ServerGoes
<1>4. \A k \in Nodes \ {n} : asker'[k] = asker[k]
  BY <1>0
<1>5. q = "reply" => asker'[n][1] = m /\ n = Victim(m) /\ head.type # "prefetch"
  <2>1. ASSUME q = "reply" PROVE head.type = "steal" /\ asker'[n] = head.from
    BY <1>0, <2>1
  <2> HIDE DEF head
  <2> QED BY <1>0, <1>1, <2>1 DEF AttemptInv
<1> HIDE DEF head
<1>6. ASSUME NEW j \in Nodes, NEW tag \in AnswerTags
      PROVE  Attempts(j, tag)' - Allowed(j)' <= Attempts(j, tag) - Allowed(j)
  <2>1. Victim(j) \in Nodes /\ Victim(j)' = Victim(j)
    BY <1>0, VictimType DEF Same
  <2>2. Replies(j, tag)' = Replies(j, tag) /\ Free(j)' = Free(j) /\ Ends(j)' = Ends(j)
    BY <1>1, <2>1 DEF Replies, Free, Ends
  <2>n. /\ Free(j) \in {0, 1} /\ Serving(j) \in {0, 1} /\ Ends(j) \in {0, 1} /\ enables \in Nat
        /\ Requests(j) \in Nat /\ Replies(j, tag) \in Nat /\ Serving(j)' \in {0, 1} /\ enables' = enables
    BY <1>0, AttemptNumbers, AttemptNumbersNext
  <2>3. CASE Victim(j) # n
    <3>1. Requests(j)' = Requests(j)
      BY <1>1, <2>1, <2>3 DEF Requests
    <3>2. Served(j)' <=> Served(j)
      BY <1>3, <1>4, <2>1, <2>3 DEF Served
    <3>3. Serving(j)' = Serving(j)
      BY <3>2 DEF Serving, One
    <3> QED BY <2>n, <2>2, <3>1, <3>3 DEF Attempts, Allowed
  <2>4. CASE Victim(j) = n /\ j = m
    <3>1. ~Served(j)
      BY <2>4 DEF Served
    <3>2. Serving(j) = 0
      BY <3>1 DEF Serving, One
    <3>3. CASE head.type # "prefetch"
      <4>1. Requests(j)' = Requests(j) - 1
        BY <1>2, <2>1, <2>4, <3>3 DEF Requests
      <4> QED BY <2>n, <2>2, <3>2, <4>1 DEF Attempts, Allowed
    <3>4. CASE head.type = "prefetch"
      <4>1. Requests(j)' = Requests(j)
        BY <1>2, <2>1, <2>4, <3>4 DEF Requests
      <4>2. ~Served(j)'
        BY <1>3, <1>5, <2>1, <2>4, <3>4 DEF Served
      <4>3. Serving(j)' = 0
        BY <4>2 DEF Serving, One
      <4> QED BY <2>n, <2>2, <3>2, <4>1, <4>3 DEF Attempts, Allowed
    <3> QED BY <3>3, <3>4
  <2>5. CASE Victim(j) = n /\ j # m
    <3>1. Requests(j)' = Requests(j)
      BY <1>1, <2>1, <2>5 DEF Requests
    <3>2. ~Served(j)'
      BY <1>3, <1>5, <2>1, <2>5 DEF Served
    <3>3. Serving(j)' = 0
      BY <3>2 DEF Serving, One
    <3> QED BY <2>n, <2>2, <3>1, <3>3 DEF Attempts, Allowed
  <2> QED BY <2>3, <2>4, <2>5
<1>7. AttemptKept
  <2>1. ASSUME NEW a \in Nodes, NEW b \in Nodes, NEW x \in Elems(Inbox(a, b)')
        PROVE  x \in Elems(Inbox(a, b))
    BY <1>1
  <2>2. ASSUME NEW k \in Nodes, pc'[Server(k)] = "reply"
        PROVE  (pc[Server(k)] = "reply" /\ asker'[k] = asker[k]) \/ Victim(asker'[k][1]) = k
    BY <1>3, <1>4, <1>5, <2>2
  <2> QED BY <1>1, <1>6, <2>1, <2>2 DEF AttemptKept
<1>8. ASSUME NEW a \in Nodes, NEW b \in Nodes PROVE Owed(Inbox(a, b)') <= Owed(Inbox(a, b))
  <2>1. CASE a = m /\ b = n
    BY <1>2, <2>1
  <2>2. CASE a # m \/ b # n
    <3>1. Inbox(a, b)' = Inbox(a, b) /\ Owed(Inbox(a, b)) \in Nat
      BY <1>0, <1>1, <2>2, InboxNumbers
    <3> QED BY <3>1
  <2> QED BY <2>1, <2>2
<1> QED BY <1>3, <1>7, <1>8

LEMMA ServeStealBounds ==
  ASSUME CrewInv, CrewInv', MailInv, MailInv', Same, BoundInv, SwitchDomains',
         NEW n \in Nodes, NEW m \in Nodes, ServeSteal(n, m)
  PROVE  BoundInv'
<1>0. SetupInv /\ SetupInv' /\ chan \in Chans /\ chan' \in Chans' /\ SwitchDomains
      /\ appl_finished \in [Nodes -> Nat] /\ AttemptInv /\ EndInv /\ 0 \in Nodes
  BY SetupFacts DEF CrewInv, MailInv, MailDomains, BoundInv
<1>1. /\ pc[Server(n)] = "receive" /\ Inbox(m, n) # <<>> /\ Head(Inbox(m, n)).type = "steal"
      /\ Take(m, n, MaxNvps)
      /\ asker' = [asker EXCEPT ![n] = Head(Inbox(m, n)).from]
      /\ pc' = [pc EXCEPT ![Server(n)] = "reply"]
      /\ UNCHANGED <<sl, stealing, enables, told, appl_finished>>
  BY DEF ServeSteal, Receives, Inbox, Goto, Ending
<1>2. /\ AttemptKept
      /\ \A a, b \in Nodes : Owed(Inbox(a, b)') <= Owed(Inbox(a, b))
      /\ \A k \in Nodes : pc'[Main(k)] = pc[Main(k)]
  BY <1>1, ServerTakes
<1>3. \A k \in Nodes : Num(Inbox(0, k)', Releases) = Num(Inbox(0, k), Releases)
  <2> TAKE k \in Nodes
  <2>1. CASE m = 0 /\ k = n
    <3>1. Num(Inbox(m, n), Releases) =
            Num(Inbox(m, n)', Releases) + One(Head(Inbox(m, n)).type = "terminate_workers")
      BY <1>0, <1>1, InboxShrinks
    <3>2. One(Head(Inbox(m, n)).type = "terminate_workers") = 0
      BY <1>1 DEF One
    <3>3. Num(Inbox(m, n)', Releases) \in Nat
      BY <1>0, <2>1, NumbersNext
    <3> QED BY <2>1, <3>1, <3>2, <3>3
  <2>2. CASE m # 0 \/ k # n
    BY <1>0, <1>1, <2>2, InboxTake
  <2> QED BY <2>1, <2>2
<1>4. EndKept
  BY <1>0, <1>1, <1>2, <1>3 DEF EndKept
<1> QED BY <1>0, <1>2, <1>4, AttemptKeeps, EndKeeps DEF BoundInv

LEMMA ServeTerminateWorkersBounds ==
  ASSUME CrewInv, CrewInv', MailInv, MailInv', Same, BoundInv, SwitchDomains',
         NEW n \in Nodes, NEW m \in Nodes, ServeTerminateWorkers(n, m)
  PROVE  BoundInv'
<1>0. SetupInv /\ SetupInv' /\ chan \in Chans /\ chan' \in Chans' /\ SwitchDomains
      /\ appl_finished \in [Nodes -> Nat] /\ AttemptInv /\ EndInv /\ 0 \in Nodes
  BY SetupFacts DEF CrewInv, MailInv, MailDomains, BoundInv
<1>s. ServerStart \in {"receive", "flag"}
  BY DEF ServerStart
<1>1. /\ pc[Server(n)] = "receive" /\ Inbox(m, n) # <<>> /\ Head(Inbox(m, n)).type = "terminate_workers"
      /\ Take(m, n, MaxNvps) /\ pc' = [pc EXCEPT ![Server(n)] = ServerStart]
      /\ appl_finished' = IF m # n THEN [appl_finished EXCEPT ![n] = @ + 1] ELSE appl_finished
      /\ UNCHANGED <<asker, sl, stealing, enables, told>>
  BY DEF ServeTerminateWorkers, Receives, Inbox, Goto, Steals
<1>2. /\ AttemptKept
      /\ \A a, b \in Nodes : Owed(Inbox(a, b)') <= Owed(Inbox(a, b))
      /\ \A k \in Nodes : pc'[Main(k)] = pc[Main(k)]
  BY <1>s, <1>1, ServerTakes
<1>3. m = 0 /\ n # 0
  <2>1. Head(Inbox(m, n)) \in Elems(Inbox(m, n))
    BY <1>0, <1>1, InboxTake
  <2> QED BY <1>1, <2>1 DEF MailInv, OverInv
<1>4. ASSUME NEW k \in Nodes \ {0}
      PROVE  Num(Inbox(0, k)', Releases) + appl_finished'[k] = Num(Inbox(0, k), Releases) + appl_finished[k]
  <2>1. CASE k = n
    <3>1. Num(Inbox(0, n), Releases) =
            Num(Inbox(0, n)', Releases) + One(Head(Inbox(0, n)).type = "terminate_workers")
      BY <1>0, <1>1, <1>3, InboxShrinks
    <3>2. One(Head(Inbox(0, n)).type = "terminate_workers") = 1
      BY <1>1, <1>3 DEF One
    <3>3. Num(Inbox(0, n)', Releases) \in Nat
      BY <1>0, NumbersNext
    <3>4. appl_finished'[n] = appl_finished[n] + 1 /\ appl_finished[n] \in Nat
      BY <1>0, <1>1, <1>3
    <3> QED BY <2>1, <3>1, <3>2, <3>3, <3>4
  <2>2. CASE k # n
    <3>1. Inbox(0, k)' = Inbox(0, k)
      BY <1>0, <1>1, <2>2, InboxTake
    <3> QED BY <1>0, <1>1, <2>2, <3>1
  <2> QED BY <2>1, <2>2
<1>5. appl_finished'[0] = appl_finished[0]
  BY <1>0, <1>1, <1>3
<1>6. EndKept
  BY <1>0, <1>1, <1>2, <1>4, <1>5 DEF EndKept
<1> QED BY <1>0, <1>2, <1>6, AttemptKeeps, EndKeeps DEF BoundInv

LEMMA ServePrefetchBounds ==
  ASSUME CrewInv, CrewInv', MailInv, MailInv', Same, BoundInv, SwitchDomains',
         NEW n \in Nodes, NEW m \in Nodes, ServePrefetch(n, m)
  PROVE  BoundInv'
<1>0. SetupInv /\ SetupInv' /\ chan \in Chans /\ chan' \in Chans' /\ SwitchDomains
      /\ appl_finished \in [Nodes -> Nat] /\ AttemptInv /\ EndInv /\ 0 \in Nodes
  BY SetupFacts DEF CrewInv, MailInv, MailDomains, BoundInv
<1>s. ServerStart \in {"receive", "flag"}
  BY DEF ServerStart
<1>1. /\ pc[Server(n)] = "receive" /\ Inbox(m, n) # <<>> /\ Head(Inbox(m, n)).type = "prefetch"
      /\ Take(m, n, MaxNvps) /\ pc' = [pc EXCEPT ![Server(n)] = ServerStart]
      /\ UNCHANGED <<asker, sl, stealing, enables, told, appl_finished>>
  BY DEF ServePrefetch, Receives, Inbox, Goto, Steals, Ending
<1>2. /\ AttemptKept
      /\ \A a, b \in Nodes : Owed(Inbox(a, b)') <= Owed(Inbox(a, b))
      /\ \A k \in Nodes : pc'[Main(k)] = pc[Main(k)]
  BY <1>s, <1>1, ServerTakes
<1>3. \A k \in Nodes : Num(Inbox(0, k)', Releases) = Num(Inbox(0, k), Releases)
  <2> TAKE k \in Nodes
  <2>1. CASE m = 0 /\ k = n
    <3>1. Num(Inbox(m, n), Releases) =
            Num(Inbox(m, n)', Releases) + One(Head(Inbox(m, n)).type = "terminate_workers")
      BY <1>0, <1>1, InboxShrinks
    <3>2. One(Head(Inbox(m, n)).type = "terminate_workers") = 0
      BY <1>1 DEF One
    <3>3. Num(Inbox(m, n)', Releases) \in Nat
      BY <1>0, <2>1, NumbersNext
    <3> QED BY <2>1, <3>1, <3>2, <3>3
  <2>2. CASE m # 0 \/ k # n
    BY <1>0, <1>1, <2>2, InboxTake
  <2> QED BY <2>1, <2>2
<1>4. EndKept
  BY <1>0, <1>1, <1>2, <1>3 DEF EndKept
<1> QED BY <1>0, <1>2, <1>4, AttemptKeeps, EndKeeps DEF BoundInv

LEMMA ServeTerminateServerBounds ==
  ASSUME CrewInv, CrewInv', MailInv, MailInv', Same, BoundInv, SwitchDomains',
         NEW n \in Nodes, ServeTerminateServer(n)
  PROVE  BoundInv'
<1>0. SetupInv /\ SetupInv' /\ chan \in Chans /\ chan' \in Chans' /\ SwitchDomains
      /\ appl_finished \in [Nodes -> Nat] /\ AttemptInv /\ EndInv /\ 0 \in Nodes
  BY SetupFacts DEF CrewInv, MailInv, MailDomains, BoundInv
<1>1. /\ pc[Server(n)] = "receive" /\ Inbox(n, n) # <<>>
      /\ Take(n, n, MaxNvps) /\ pc' = [pc EXCEPT ![Server(n)] = "exited"]
      /\ Head(Inbox(n, n)).type = "terminate_server"
      /\ UNCHANGED <<asker, sl, stealing, enables, told, appl_finished>>
  BY DEF ServeTerminateServer, Receives, Inbox, Goto, Steals, Ending
<1>2. /\ AttemptKept
      /\ \A a, b \in Nodes : Owed(Inbox(a, b)') <= Owed(Inbox(a, b))
      /\ \A k \in Nodes : pc'[Main(k)] = pc[Main(k)]
  BY <1>1, ServerTakes
<1>3. \A k \in Nodes \ {0} : Inbox(0, k)' = Inbox(0, k)
  BY <1>0, <1>1, InboxTake
<1>4. EndKept
  BY <1>0, <1>1, <1>2, <1>3 DEF EndKept
<1> QED BY <1>0, <1>2, <1>4, AttemptKeeps, EndKeeps DEF BoundInv

LEMMA StealRequestBounds ==
  ASSUME CrewInv, CrewInv', MailInv, MailInv', Same, BoundInv, SwitchDomains', NEW w \in Workers, StealRequest(w)
  PROVE  BoundInv'
<1> DEFINE msg == [type |-> "steal", from |-> w]
<1>z. SetupInv /\ SetupInv' /\ chan \in Chans /\ chan' \in Chans' /\ SwitchDomains
      /\ appl_finished \in [Nodes -> Nat] /\ AttemptInv /\ EndInv
      /\ pc \in [Threads -> Places] /\ sl \in [Nodes -> BOOLEAN]
  BY DEF CrewInv, Domains, MailInv, MailDomains, BoundInv
<1>n. PICK n \in Nodes : n = w[1]
  BY <1>z, ThreadFacts
<1>v. PICK v \in Nodes : v = Victim(n) /\ v # n
  BY <1>z, VictimType
<1>0. 0 \in Nodes /\ w \in Threads /\ (\A k \in Nodes : Server(k) # w) /\ msg \in Messages
  <2>1. w \in WorkersOf(n)
    BY <1>z, <1>n, ThreadFacts
  <2>2. w \in Threads /\ \A k \in Nodes : Server(k) # w
    BY <1>z, <2>1, ThreadFacts
  <2> QED BY <1>z, <2>2, SetupFacts DEF Messages
<1>1. /\ pc[w] = "search" /\ pc' = [pc EXCEPT ![w] = "await"]
      /\ stealing[n] /\ ~sl[n] /\ sl' = [sl EXCEPT ![n] = TRUE]
      /\ Post(n, v, MaxNvps, msg)
      /\ UNCHANGED <<asker, stealing, enables, told, appl_finished>>
  BY <1>n, <1>v DEF StealRequest, Looked, Goto, Ending
<1>2. msg.type = "steal" /\ msg.from = w
  OBVIOUS
<1> HIDE DEF msg
<1>3. /\ Elems(Inbox(n, v)') = Elems(Inbox(n, v)) \cup {msg}
      /\ \A a, b \in Nodes : a # n \/ b # v => Inbox(a, b)' = Inbox(a, b)
      /\ \A a, b \in Nodes : \A t \in AnswerTags : chan'[a][b][t] = chan[a][b][t]
  BY <1>z, <1>0, <1>1, InboxPost
<1>4. /\ Owed(Inbox(n, v)') = Owed(Inbox(n, v)) + 1
      /\ Num(Inbox(n, v)', Releases) = Num(Inbox(n, v), Releases)
  <2>1. One(msg.type = "terminate_workers") = 0
    BY <1>2 DEF One
  <2>2. Num(Inbox(n, v), Releases) \in Nat
    BY <1>z, InboxNumbers
  <2> QED BY <1>z, <1>0, <1>1, <1>2, <2>1, <2>2, InboxGrows
<1>5. /\ \A k \in Nodes : pc'[Server(k)] = pc[Server(k)]
      /\ \A k \in Nodes : pc[Main(k)] \in Ended => pc'[Main(k)] \in Ended
  BY <1>z, <1>0, <1>1, ThreadFacts DEF Ended
<1>6. AttemptKept
  <2>1. ASSUME NEW j \in Nodes, NEW tag \in AnswerTags
        PROVE  Attempts(j, tag)' - Allowed(j)' <= Attempts(j, tag) - Allowed(j)
    <3>1. Victim(j) \in Nodes /\ Victim(j)' = Victim(j)
      BY <1>z, VictimType DEF Same
    <3>n. /\ Free(j) \in {0, 1} /\ Serving(j) \in {0, 1} /\ Ends(j) \in {0, 1} /\ enables \in Nat
          /\ Requests(j) \in Nat /\ Replies(j, tag) \in Nat /\ enables' = enables
      BY <1>z, <1>1, AttemptNumbers
    <3>2. Served(j)' <=> Served(j)
      BY <1>1, <1>5, <3>1 DEF Served
    <3>3. Serving(j)' = Serving(j) /\ Ends(j)' = Ends(j) /\ Replies(j, tag)' = Replies(j, tag)
      BY <1>1, <1>3, <3>1, <3>2 DEF Serving, Ends, Replies, One
    <3>4. CASE j = n
      <4>1. Requests(j)' = Requests(j) + 1
        BY <1>v, <1>4, <3>1, <3>4 DEF Requests
      <4>2. Free(j) = 1 /\ Free(j)' = 0
        BY <1>z, <1>1, <3>4 DEF Free, One
      <4> QED BY <3>n, <3>3, <4>1, <4>2 DEF Attempts, Allowed
    <3>5. CASE j # n
      <4>1. Requests(j)' = Requests(j)
        BY <1>3, <3>1, <3>5 DEF Requests
      <4>2. (stealing'[j] /\ ~sl'[j]) <=> (stealing[j] /\ ~sl[j])
        BY <1>z, <1>1, <3>5
      <4>3. Free(j)' = Free(j)
        BY <4>2 DEF Free, One
      <4> QED BY <3>n, <3>3, <4>1, <4>3 DEF Attempts, Allowed
    <3> QED BY <3>4, <3>5
  <2>2. ASSUME NEW a \in Nodes, NEW b \in Nodes, NEW x \in Elems(Inbox(a, b)')
        PROVE  x \in Elems(Inbox(a, b)) \/ (x.type = "steal" => x.from[1] = a /\ b = Victim(a))
    <3>1. CASE a = n /\ b = v
      BY <1>n, <1>v, <1>2, <1>3, <3>1
    <3>2. CASE a # n \/ b # v
      BY <1>3, <3>2
    <3> QED BY <3>1, <3>2
  <2> QED BY <1>1, <1>3, <1>5, <2>1, <2>2 DEF AttemptKept
<1>7. EndKept
  <2>1. ASSUME NEW a \in Nodes, NEW b \in Nodes, b # Victim(a)
        PROVE  Owed(Inbox(a, b)') <= Owed(Inbox(a, b))
    <3>1. Inbox(a, b)' = Inbox(a, b) /\ Owed(Inbox(a, b)) \in Nat
      BY <1>z, <1>v, <1>3, <2>1, InboxNumbers
    <3> QED BY <3>1
  <2>2. ASSUME NEW k \in Nodes \ {0}
        PROVE  Num(Inbox(0, k)', Releases) + appl_finished'[k] = Num(Inbox(0, k), Releases) + appl_finished[k]
    <3>1. CASE n = 0 /\ v = k
      BY <1>1, <1>4, <3>1
    <3>2. CASE n # 0 \/ v # k
      BY <1>0, <1>1, <1>3, <3>2
    <3> QED BY <3>1, <3>2
  <2> QED BY <1>1, <1>5, <2>1, <2>2 DEF EndKept
<1> QED BY <1>z, <1>6, <1>7, AttemptKeeps, EndKeeps DEF BoundInv

LEMMA StealReplyBounds ==
  ASSUME CrewInv, CrewInv', MailInv, MailInv', Same, BoundInv, SwitchDomains', NEW w \in Workers, StealReply(w)
  PROVE  BoundInv'
<1>z. SetupInv /\ SetupInv' /\ chan \in Chans /\ chan' \in Chans' /\ SwitchDomains
      /\ appl_finished \in [Nodes -> Nat] /\ AttemptInv /\ EndInv
      /\ pc \in [Threads -> Places] /\ sl \in [Nodes -> BOOLEAN]
  BY DEF CrewInv, Domains, MailInv, MailDomains, BoundInv
<1>n. PICK n \in Nodes : n = w[1]
  BY <1>z, ThreadFacts
<1>v. PICK v \in Nodes : v = Victim(n)
  BY <1>z, VictimType
<1>t. PICK tag \in AnswerTags : tag = StealTag(w[2])
  BY <1>z, TagFacts
<1>0. w \in Threads /\ \A k \in Nodes : Server(k) # w
  <2>1. w \in WorkersOf(n)
    BY <1>z, <1>n, ThreadFacts
  <2> QED BY <1>z, <2>1, ThreadFacts
<1>1. /\ pc[w] \in Waiting /\ pc' = [pc EXCEPT ![w] = "test"]
      /\ chan[v][n][tag] # <<>> /\ Take(v, n, tag)
      /\ sl' = [sl EXCEPT ![n] = FALSE] /\ stealing' = [stealing EXCEPT ![n] = FALSE]
      /\ UNCHANGED <<asker, enables, told, appl_finished>>
  BY <1>n, <1>v, <1>t DEF StealReply, StealOver, Goto, Ending, Waiting
<1>2. /\ \A a, b \in Nodes : Inbox(a, b)' = Inbox(a, b)
      /\ chan'[v][n][tag] = Tail(chan[v][n][tag])
      /\ \A a, b \in Nodes : \A t \in AnswerTags :
           a # v \/ b # n \/ t # tag => chan'[a][b][t] = chan[a][b][t]
  BY <1>z, <1>1, AnswerTake
<1>3. /\ \A k \in Nodes : pc'[Server(k)] = pc[Server(k)]
      /\ \A k \in Nodes : pc[Main(k)] \in Ended => pc'[Main(k)] \in Ended
  BY <1>z, <1>0, <1>1, ThreadFacts DEF Ended, Waiting
<1>4. Len(chan'[v][n][tag]) = Len(chan[v][n][tag]) - 1
  <2>1. chan[v][n][tag] \in Seq(Messages)
    BY <1>z DEF Chans, AnswerTags
  <2> QED BY <1>1, <1>2, <2>1, ElemsTail
<1>5. AttemptKept
  <2>1. ASSUME NEW j \in Nodes, NEW t \in AnswerTags
        PROVE  Attempts(j, t)' - Allowed(j)' <= Attempts(j, t) - Allowed(j)
    <3>1. Victim(j) \in Nodes /\ Victim(j)' = Victim(j)
      BY <1>z, VictimType DEF Same
    <3>n. /\ Free(j) \in {0, 1} /\ Serving(j) \in {0, 1} /\ Ends(j) \in {0, 1} /\ enables \in Nat
          /\ Requests(j) \in Nat /\ Replies(j, t) \in Nat /\ enables' = enables /\ Free(j)' \in {0, 1}
      BY <1>z, <1>1, AttemptNumbers, AttemptNumbersNext
    <3>2. Served(j)' <=> Served(j)
      BY <1>1, <1>3, <3>1 DEF Served
    <3>3. Serving(j)' = Serving(j) /\ Ends(j)' = Ends(j) /\ Requests(j)' = Requests(j)
      BY <1>1, <1>2, <3>1, <3>2 DEF Serving, Ends, Requests, One
    <3>4. Replies(j, t)' = Replies(j, t) \/ Replies(j, t)' = Replies(j, t) - 1
      <4>1. CASE j = n /\ t = tag
        BY <1>v, <1>4, <3>1, <4>1 DEF Replies
      <4>2. CASE j # n \/ t # tag
        BY <1>2, <3>1, <4>2 DEF Replies
      <4> QED BY <4>1, <4>2
    <3>5. (stealing'[j] /\ ~sl'[j]) => (stealing[j] /\ ~sl[j])
      BY <1>z, <1>1 DEF SwitchDomains
    <3>6. Free(j)' <= Free(j)
      BY <3>5 DEF Free, One
    <3> QED BY <3>n, <3>3, <3>4, <3>6 DEF Attempts, Allowed
  <2>2. ASSUME NEW a \in Nodes, NEW b \in Nodes, NEW t \in AnswerTags, a # Victim(b)
        PROVE  chan'[a][b][t] = chan[a][b][t]
    BY <1>v, <1>2, <2>2
  <2> QED BY <1>1, <1>2, <1>3, <2>1, <2>2 DEF AttemptKept
<1>6. EndKept
  <2>1. \A a, b \in Nodes : Owed(Inbox(a, b)') <= Owed(Inbox(a, b))
    BY <1>z, <1>2, InboxNumbers
  <2>2. 0 \in Nodes
    BY <1>z, SetupFacts
  <2> QED BY <1>1, <1>2, <1>3, <2>1, <2>2 DEF EndKept
<1> QED BY <1>z, <1>5, <1>6, AttemptKeeps, EndKeeps DEF BoundInv

LEMMA ReplyBounds ==
  ASSUME CrewInv, CrewInv', MailInv, MailInv', Same, BoundInv, SwitchDomains', NEW v \in Nodes, Reply(v)
  PROVE  BoundInv'
<1> DEFINE msg == [type |-> "no_work", from |-> Server(v)]
<1>z. SetupInv /\ SetupInv' /\ chan \in Chans /\ chan' \in Chans' /\ SwitchDomains
      /\ appl_finished \in [Nodes -> Nat] /\ AttemptInv /\ EndInv /\ asker \in [Nodes -> Workers]
  BY DEF CrewInv, MailInv, MailDomains, BoundInv
<1>w. PICK w \in Workers : w = asker[v]
  BY <1>z
<1>n. PICK n \in Nodes : n = w[1]
  BY <1>z, ThreadFacts
<1>t. PICK tag \in AnswerTags : tag = StealTag(w[2])
  BY <1>z, TagFacts
<1>0. 0 \in Nodes /\ msg \in Messages /\ ServerStart \in {"receive", "flag"}
  BY <1>z, SetupFacts, ThreadFacts DEF Messages, ServerStart
<1>1. /\ pc[Server(v)] = "reply" /\ pc' = [pc EXCEPT ![Server(v)] = ServerStart]
      /\ Post(v, n, tag, msg)
      /\ UNCHANGED <<asker, sl, stealing, enables, told, appl_finished>>
  BY <1>w, <1>n, <1>t DEF Reply, Goto, Ending, Steals
<1>v. v = Victim(n)
  BY <1>z, <1>w, <1>n, <1>1 DEF AttemptInv
<1> HIDE DEF msg
<1>2. /\ \A a, b \in Nodes : Inbox(a, b)' = Inbox(a, b)
      /\ chan'[v][n][tag] = Append(chan[v][n][tag], msg)
      /\ \A a, b \in Nodes : \A t \in AnswerTags :
           a # v \/ b # n \/ t # tag => chan'[a][b][t] = chan[a][b][t]
  BY <1>z, <1>0, <1>1, AnswerPost
<1>3. /\ pc'[Server(v)] # "reply"
      /\ \A k \in Nodes : pc'[Main(k)] = pc[Main(k)]
      /\ \A k \in Nodes \ {v} : pc'[Server(k)] = pc[Server(k)]
  BY <1>0, <1>1, ServerGoes
<1>4. Len(chan'[v][n][tag]) = Len(chan[v][n][tag]) + 1
  <2>1. chan[v][n][tag] \in Seq(Messages)
    BY <1>z DEF Chans, AnswerTags
  <2> QED BY <1>0, <1>2, <2>1, ElemsAppend
<1>5. AttemptKept
  <2>1. ASSUME NEW j \in Nodes, NEW t \in AnswerTags
        PROVE  Attempts(j, t)' - Allowed(j)' <= Attempts(j, t) - Allowed(j)
    <3>1. Victim(j) \in Nodes /\ Victim(j)' = Victim(j)
      BY <1>z, VictimType DEF Same
    <3>n. /\ Free(j) \in {0, 1} /\ Serving(j) \in {0, 1} /\ Ends(j) \in {0, 1} /\ enables \in Nat
          /\ Requests(j) \in Nat /\ Replies(j, t) \in Nat /\ enables' = enables
      BY <1>z, <1>1, AttemptNumbers
    <3>2. Free(j)' = Free(j) /\ Ends(j)' = Ends(j) /\ Requests(j)' = Requests(j)
      BY <1>1, <1>2, <3>1 DEF Free, Ends, Requests
    <3>3. CASE j = n
      <4>1. Served(j) /\ ~Served(j)'
        BY <1>w, <1>n, <1>v, <1>1, <1>3, <3>1, <3>3 DEF Served
      <4>2. Serving(j) = 1 /\ Serving(j)' = 0
        BY <4>1 DEF Serving, One
      <4>3. Replies(j, t)' = Replies(j, t) \/ Replies(j, t)' = Replies(j, t) + 1
        <5>1. CASE t = tag
          BY <1>v, <1>4, <3>1, <3>3, <5>1 DEF Replies
        <5>2. CASE t # tag
          BY <1>2, <3>1, <5>2 DEF Replies
        <5> QED BY <5>1, <5>2
      <4> QED BY <3>n, <3>2, <4>2, <4>3 DEF Attempts, Allowed
    <3>4. CASE j # n
      <4>1. Replies(j, t)' = Replies(j, t)
        BY <1>2, <3>1, <3>4 DEF Replies
      <4>2. Served(j)' <=> Served(j)
        BY <1>w, <1>n, <1>1, <1>3, <3>1, <3>4 DEF Served
      <4>3. Serving(j)' = Serving(j)
        BY <4>2 DEF Serving, One
      <4> QED BY <3>n, <3>2, <4>1, <4>3 DEF Attempts, Allowed
    <3> QED BY <3>3, <3>4
  <2>2. ASSUME NEW a \in Nodes, NEW b \in Nodes, NEW t \in AnswerTags, a # Victim(b)
        PROVE  chan'[a][b][t] = chan[a][b][t]
    BY <1>v, <1>2, <2>2
  <2> QED BY <1>1, <1>2, <1>3, <2>1, <2>2 DEF AttemptKept
<1>6. EndKept
  <2>1. \A a, b \in Nodes : Owed(Inbox(a, b)') <= Owed(Inbox(a, b))
    BY <1>z, <1>2, InboxNumbers
  <2> QED BY <1>0, <1>1, <1>2, <1>3, <2>1 DEF EndKept
<1> QED BY <1>z, <1>5, <1>6, AttemptKeeps, EndKeeps DEF BoundInv

LEMMA BoundStepKeeps == CrewInv /\ CrewInv' /\ MailInv /\ MailInv' /\ BoundInv /\ [Next]_vars => BoundInv'
<1> SUFFICES ASSUME CrewInv, CrewInv', MailInv, MailInv', BoundInv, [Next]_vars PROVE BoundInv'
  OBVIOUS
<1>a. Same /\ SwitchDomains'
  <2>1. Same
    BY StepKeepsSetup, SetupFixed
  <2> QED BY <2>1, SwitchKeeps DEF BoundInv
<1>1. CASE UNCHANGED vars
  <2>1. Inert /\ UNCHANGED <<stealing, enables>>
    BY <1>1, <1>a, InertRest DEF vars, Mail
  <2> QED BY <1>a, <2>1, InertBounds
<1>2. CASE Finalize
  BY <1>2, <1>a, FinalizeBounds
<1>3. ASSUME NEW n \in Nodes, LocalEnable(n) PROVE BoundInv'
  BY <1>3, <1>a, LocalEnableBounds
<1>4. ASSUME NEW n \in Nodes, MainStep(n) PROVE BoundInv'
  <2>1. CASE EnterCollective(n)
    <3>1. UNCHANGED pc /\ UNCHANGED Mail /\ UNCHANGED <<stealing, enables>>
      BY <2>1 DEF EnterCollective, Mail, Ending, Steals
    <3>2. Inert
      BY <3>1, <1>a, InertRest
    <3> QED BY <1>a, <3>1, <3>2, InertBounds
  <2>2. CASE MdInit(n)
    <3>1. UNCHANGED <<stealing, enables>>
      BY <2>2 DEF MdInit, Steals
    <3>2. Inert
      BY <2>2, <1>a, InertMdInit
    <3> QED BY <1>a, <3>1, <3>2, InertBounds
  <2>3. CASE \/ LeaveCollective(n) \/ FillNodeInfo(n) \/ Start(n) \/ LastOfNode(n) \/ JoinServer(n)
             \/ n = 0 /\ AllTold
    <3>1. UNCHANGED <<stealing, enables>>
      BY <2>3 DEF LeaveCollective, FillNodeInfo, Start, LastOfNode, JoinServer, AllTold, Steals
    <3>2. Inert
      BY <2>3, <1>a, InertMains
    <3> QED BY <1>a, <3>1, <3>2, InertBounds
  <2>4. CASE ShutdownServer(n)
    BY <2>4, <1>a, ShutdownBounds
  <2>5. ASSUME NEW m \in Nodes, TerminateWorkers(m) PROVE BoundInv'
    BY <2>5, <1>a, TerminateWorkersBounds
  <2> QED BY <1>4, <2>1, <2>2, <2>3, <2>4, <2>5 DEF MainStep
<1>5. ASSUME NEW n \in Nodes, ServerStep(n) PROVE BoundInv'
  <2>1. CASE FlagUp(n) \/ NoMessage(n)
    <3>1. UNCHANGED <<stealing, enables>>
      BY <2>1 DEF FlagUp, NoMessage, Steals
    <3>2. Inert
      BY <2>1, <1>a, InertServers
    <3> QED BY <1>a, <3>1, <3>2, InertBounds
  <2>2. CASE Reply(n)
    BY <2>2, <1>a, ReplyBounds
  <2>3. CASE ServeTerminateServer(n)
    BY <2>3, <1>a, ServeTerminateServerBounds
  <2>4. ASSUME NEW m \in Nodes, ServeSteal(n, m) PROVE BoundInv'
    BY <2>4, <1>a, ServeStealBounds
  <2>5. ASSUME NEW m \in Nodes, ServeTerminateWorkers(n, m) PROVE BoundInv'
    BY <2>5, <1>a, ServeTerminateWorkersBounds
  <2>6. ASSUME NEW m \in Nodes, ServePrefetch(n, m) PROVE BoundInv'
    BY <2>6, <1>a, ServePrefetchBounds
  <2> QED BY <1>5, <2>1, <2>2, <2>3, <2>4, <2>5, <2>6 DEF ServerStep
<1>6. ASSUME NEW w \in Workers, WorkerStep(w) PROVE BoundInv'
  <2>1. CASE \/ SearchInVain(w) \/ StealNothing(w) \/ HoldForReply(w) \/ GoOn(w) \/ EndOfWork(w)
             \/ Created(w) \/ AllCreated(w) \/ ExitWorker(w)
    <3>1. enables' = enables /\ \A n \in Nodes : stealing'[n] => stealing[n]
      BY <2>1 DEF SearchInVain, StealNothing, HoldForReply, GoOn, EndOfWork, Created, AllCreated,
         ExitWorker, Steals, BoundInv, SwitchDomains
    <3>2. Inert
      BY <2>1, <1>a, InertWorkers
    <3> QED BY <1>a, <3>1, <3>2, InertBounds
  <2>2. CASE StealRequest(w)
    BY <2>2, <1>a, StealRequestBounds
  <2>3. CASE StealReply(w)
    BY <2>3, <1>a, StealReplyBounds
  <2>4. CASE GiveUp(w)
    BY <2>4, <1>a, GiveUpBounds
  <2>5. CASE PrefetchRequest(w)
    BY <2>5, <1>a, PrefetchRequestBounds
  <2>6. CASE NoRequest(w)
    <3>1. UNCHANGED pc /\ UNCHANGED Mail /\ UNCHANGED <<stealing, enables>>
      BY <2>6 DEF NoRequest, Mail, Ending
    <3>2. Inert
      BY <3>1, <1>a, InertRest
    <3> QED BY <1>a, <3>1, <3>2, InertBounds
  <2> QED BY <1>6, <2>1, <2>2, <2>3, <2>4, <2>5, <2>6 DEF WorkerStep
<1> QED BY <1>1, <1>2, <1>3, <1>4, <1>5, <1>6 DEF Next

LEMMA OneMore ==
  ASSUME NEW S, NEW x, x \notin S, IsFiniteSet(S)
  PROVE  IsFiniteSet(S \cup {x}) /\ Cardinality(S \cup {x}) = Cardinality(S) + 1
BY FS_AddElement

LEMMA EightCollectives == Cardinality(CollectivePoints) = 8
<1> DEFINE S1 == {"opt"}
           S2 == S1 \cup {"aslr"}
           S3 == S2 \cup {"workers"}
           S4 == S3 \cup {"gathered"}
           S5 == S4 \cup {"known"}
           S6 == S5 \cup {"rendezvous"}
           S7 == S6 \cup {"all_idle"}
           S8 == S7 \cup {"last"}
<1>1. IsFiniteSet(S1) /\ Cardinality(S1) = 1
  BY FS_Singleton
<1>2. IsFiniteSet(S2) /\ Cardinality(S2) = 2
  <2>1. "aslr" \notin S1
    OBVIOUS
  <2> HIDE DEF S1
  <2>2. /\ IsFiniteSet(S1 \cup {"aslr"})
        /\ Cardinality(S1 \cup {"aslr"}) = Cardinality(S1) + 1
    BY <1>1, <2>1, OneMore
  <2> QED BY <1>1, <2>2
<1>3. IsFiniteSet(S3) /\ Cardinality(S3) = 3
  <2>1. "workers" \notin S2
    OBVIOUS
  <2> HIDE DEF S2
  <2>2. /\ IsFiniteSet(S2 \cup {"workers"})
        /\ Cardinality(S2 \cup {"workers"}) = Cardinality(S2) + 1
    BY <1>2, <2>1, OneMore
  <2> QED BY <1>2, <2>2
<1>4. IsFiniteSet(S4) /\ Cardinality(S4) = 4
  <2>1. "gathered" \notin S3
    OBVIOUS
  <2> HIDE DEF S3
  <2>2. /\ IsFiniteSet(S3 \cup {"gathered"})
        /\ Cardinality(S3 \cup {"gathered"}) = Cardinality(S3) + 1
    BY <1>3, <2>1, OneMore
  <2> QED BY <1>3, <2>2
<1>5. IsFiniteSet(S5) /\ Cardinality(S5) = 5
  <2>1. "known" \notin S4
    OBVIOUS
  <2> HIDE DEF S4
  <2>2. /\ IsFiniteSet(S4 \cup {"known"})
        /\ Cardinality(S4 \cup {"known"}) = Cardinality(S4) + 1
    BY <1>4, <2>1, OneMore
  <2> QED BY <1>4, <2>2
<1>6. IsFiniteSet(S6) /\ Cardinality(S6) = 6
  <2>1. "rendezvous" \notin S5
    OBVIOUS
  <2> HIDE DEF S5
  <2>2. /\ IsFiniteSet(S5 \cup {"rendezvous"})
        /\ Cardinality(S5 \cup {"rendezvous"}) = Cardinality(S5) + 1
    BY <1>5, <2>1, OneMore
  <2> QED BY <1>5, <2>2
<1>7. IsFiniteSet(S7) /\ Cardinality(S7) = 7
  <2>1. "all_idle" \notin S6
    OBVIOUS
  <2> HIDE DEF S6
  <2>2. /\ IsFiniteSet(S6 \cup {"all_idle"})
        /\ Cardinality(S6 \cup {"all_idle"}) = Cardinality(S6) + 1
    BY <1>6, <2>1, OneMore
  <2> QED BY <1>6, <2>2
<1>8. IsFiniteSet(S8) /\ Cardinality(S8) = 8
  <2>1. "last" \notin S7
    OBVIOUS
  <2> HIDE DEF S7
  <2>2. /\ IsFiniteSet(S7 \cup {"last"})
        /\ Cardinality(S7 \cup {"last"}) = Cardinality(S7) + 1
    BY <1>7, <2>1, OneMore
  <2> QED BY <1>7, <2>2
<1>9. CollectivePoints = S8
  BY DEF CollectivePoints
<1> HIDE DEF S8
<1> QED BY <1>8, <1>9

(* Requests to prefetch apart, a channel never holds more messages than    *)
(* local_enable_stealing has been called and two, even where replies come  *)
(* after their thieves have given up; nobody is told twice that the        *)
(* application has finished; no counter of workers is negative; and a      *)
(* process enters each collective once.                                    *)
THEOREM LifecycleTypes == Spec => []TypeOK
<1>1. Init => CrewInv /\ MailInv /\ BoundInv
  BY CrewInit, MailInit, BoundInit
<1>2. CrewInv /\ MailInv /\ BoundInv /\ [Next]_vars => (CrewInv /\ MailInv /\ BoundInv)'
  BY CrewStepKeeps, MailStepKeeps, BoundStepKeeps
<1>3. CrewInv /\ MailInv /\ BoundInv => TypeOK
  <2> SUFFICES ASSUME CrewInv, MailInv, BoundInv PROVE TypeOK
    OBVIOUS
  <2>0. SetupInv /\ chan \in Chans /\ SwitchDomains /\ AttemptInv /\ EndInv /\ 0 \in Nodes
    BY SetupFacts DEF CrewInv, MailInv, MailDomains, BoundInv
  <2>1. /\ pc \in [Threads -> Places] /\ inside \in [Nodes -> BOOLEAN] /\ info \in [Nodes -> BOOLEAN]
        /\ work_created \in [Nodes -> Nat] /\ active_workers \in [Nodes -> Nat]
        /\ al \in [Nodes -> BOOLEAN] /\ lock \in [Nodes -> BOOLEAN] /\ sl \in [Nodes -> BOOLEAN]
        /\ told \subseteq Nodes /\ termination_flag \in [Nodes -> BOOLEAN] /\ stealing \in [Nodes -> BOOLEAN]
    BY <2>0 DEF CrewInv, Domains, MailInv, MailDomains, SwitchDomains
  <2>2. entered \in [Nodes -> 0 .. Cardinality(CollectivePoints)]
    <3>1. ASSUME NEW n \in Nodes PROVE entered[n] \in 0 .. 8
      <4>1. /\ entered[n] = Phase(pc[Main(n)]) + (IF inside[n] THEN 1 ELSE 0)
            /\ inside[n] => pc[Main(n)] \in CollectivePoints
        BY DEF CrewInv, NodeInv, PhaseOf
      <4>2. Phase(pc[Main(n)]) \in 0 .. 8 /\ (pc[Main(n)] \in CollectivePoints => Phase(pc[Main(n)]) <= 7)
        BY DEF Phase, CollectivePoints
      <4> QED BY <4>1, <4>2
    <3> QED BY <3>1, EightCollectives DEF CrewInv, Domains
  <2>3. asker \in [Nodes -> Threads]
    BY DEF MailInv, MailDomains, Threads
  <2>4. appl_finished \in [Nodes -> 0 .. 1]
    <3>1. appl_finished \in [Nodes -> Nat]
      BY DEF MailInv, MailDomains
    <3>2. ASSUME NEW n \in Nodes PROVE appl_finished[n] <= 1
      <4>1. CASE n = 0
        BY <2>0, <4>1 DEF EndInv
      <4>2. CASE n # 0
        <5>1. Num(Inbox(0, n), Releases) + appl_finished[n] <= One(n \in told)
          BY <2>0, <4>2 DEF EndInv
        <5>2. Num(Inbox(0, n), Releases) \in Nat /\ appl_finished[n] \in Nat
          BY <2>0, <3>1, InboxNumbers
        <5>3. One(n \in told) \in {0, 1}
          BY DEF One
        <5> QED BY <5>1, <5>2, <5>3
      <4> QED BY <4>1, <4>2
    <3> QED BY <3>1, <3>2
  <2>5. ASSUME NEW n \in Nodes, NEW m \in Nodes, NEW tag \in Tags
        PROVE  Owed(chan[n][m][tag]) <= setup.enables + 2
    <3>0. enables \in Nat /\ setup.enables \in Nat /\ enables <= setup.enables
      BY <2>0, LifecycleAssumption DEF SwitchDomains, SetupInv
    <3>1. CASE tag = MaxNvps /\ m # Victim(n)
      <4>1. Owed(Inbox(n, m)) <= One(n = 0 /\ m \in told) + One(n = m /\ pc[Main(n)] \in Ended)
        BY <2>0, <3>1 DEF EndInv
      <4>2. /\ One(n = 0 /\ m \in told) \in {0, 1}
            /\ One(n = m /\ pc[Main(n)] \in Ended) \in {0, 1}
        BY DEF One
      <4>3. Owed(Inbox(n, m)) \in Nat
        BY <2>0, InboxNumbers
      <4>4. Owed(Inbox(n, m)) <= 2
        BY <4>1, <4>2, <4>3
      <4> QED BY <3>0, <3>1, <4>3, <4>4 DEF Inbox
    <3>2. CASE tag = MaxNvps /\ m = Victim(n)
      <4>1. PICK t \in AnswerTags : TRUE
        <5>1. Main(0) \in WorkersOf(0)
          BY <2>0, ThreadFacts
        <5>2. Main(0) \in Workers
          BY <2>0, <5>1, ThreadFacts
        <5> QED BY <2>0, <5>2, TagFacts
      <4>2. Attempts(n, t) <= Allowed(n)
        BY <2>0 DEF AttemptInv
      <4>3. Requests(n) <= enables + 1 /\ Requests(n) \in Nat
        BY <2>0, <4>2, AttemptNumbers DEF Attempts, Allowed
      <4>4. chan[n][m][tag] = Inbox(n, Victim(n))
        BY <3>2 DEF Inbox
      <4> QED BY <3>0, <4>3, <4>4 DEF Requests
    <3>3. CASE tag # MaxNvps
      <4>0. tag \in AnswerTags
        BY <3>3 DEF AnswerTags
      <4>1. CASE n = Victim(m)
        <5>1. Attempts(m, tag) <= Allowed(m)
          BY <2>0, <4>0 DEF AttemptInv
        <5>2. Replies(m, tag) <= enables + 1 /\ Replies(m, tag) \in Nat
          BY <2>0, <4>0, <5>1, AttemptNumbers DEF Attempts, Allowed
        <5>3. chan[n][m][tag] \in Seq(Messages)
          BY <2>0 DEF Chans
        <5>4. ASSUME NEW q \in Seq(Messages)
              PROVE  Owed(q) \in Nat /\ Owed(q) <= Len(q)
          BY OwedNum
        <5>5. Owed(chan[n][m][tag]) \in Nat /\ Owed(chan[n][m][tag]) <= Len(chan[n][m][tag])
          BY <5>3, <5>4
        <5> QED BY <3>0, <4>1, <5>2, <5>5 DEF Replies
      <4>2. CASE n # Victim(m)
        <5>1. chan[n][m][tag] = <<>>
          BY <2>0, <4>0, <4>2 DEF AttemptInv
        <5> QED BY <3>0, <5>1, OwedEmpty
      <4> QED BY <4>1, <4>2
    <3> QED BY <3>1, <3>2, <3>3
  <2>6. target_node \in [Workers -> Nodes]
    BY DEF CrewInv, TargetInv
  <2> QED BY <2>1, <2>2, <2>3, <2>4, <2>5, <2>6 DEF TypeOK, Owed
<1> QED BY <1>1, <1>2, <1>3, PTL DEF Spec
=============================================================================
