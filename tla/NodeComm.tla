------------------------------- MODULE NodeComm -------------------------------
(***************************************************************************)
(* Several nodes: worker threads that create tasks, send them to other     *)
(* nodes, steal and prefetch, and one server thread per node that serves   *)
(* the messages (torcc_comm.cpp, torcc_server.cpp, and the node-wide part  *)
(* of get_next_task in torcc_runtime.cpp).                                 *)
(*                                                                         *)
(* A thread is <<node, vp>>; the server has vp number MaxNvps, as in       *)
(* thread_id().  MPI is external: a channel per (source, destination, tag) *)
(* is a FIFO, and MPI_Send does not wait for the receiver.                 *)
(*                                                                         *)
(* lock[n] is the comm_lock of torcc_comm.cpp.  The variable is static in  *)
(* a header, so torcc_server.cpp has one of its own, which only the server *)
(* thread takes and which is left out.  A critical section that does not   *)
(* wait is one step with the guard that the lock is free; a receive that   *)
(* waits with the lock held is two, taking the lock and receiving.         *)
(*                                                                         *)
(* Tasks do not create tasks here and what happens inside the scheduler is *)
(* TaskRuntime's subject; one queue stands for the public ones.            *)
(*                                                                         *)
(* The size of the cluster, the library it runs on and what the application*)
(* does are one of the records in Setups, chosen at the start.  Broadcast  *)
(* adds torc_broadcast and states the specification.                       *)
(***************************************************************************)
EXTENDS Integers, Sequences, FiniteSets, Functions, FiniteSetsExt

CONSTANTS
  AllWorkers,  \* the worker threads <<node, vp>> of the largest cluster
  Tasks,
  Setups,
  MaxNvps, NoTask, NoThread

SwitchCalls == {"enable_stealing", "disable_stealing", "enable_prefetching",
                "disable_prefetching"}
LocalCalls == {"local_enable_stealing", "local_disable_stealing"}
AllCalls == {"task", "task_direct", "broadcast"} \cup SwitchCalls \cup LocalCalls

ASSUME NodeCommAssumption ==
  /\ MaxNvps \in 0 .. 99  \* so that no thread has another one's StealTag as its number
  /\ AllWorkers \subseteq Nat \X (0 .. MaxNvps - 1)
  /\ IsFiniteSet(Tasks) /\ Tasks \cap AllWorkers = {}
  /\ NoTask \notin Tasks /\ NoThread \notin Tasks \cup AllWorkers
  /\ \A u \in Setups :
       /\ u.nodes \in Nat \ {0}
       /\ u.workers \subseteq AllWorkers \cap (0 .. u.nodes - 1) \X Nat
       /\ \A n \in 0 .. u.nodes - 1 : <<n, 0>> \in u.workers  \* the main thread
       /\ u.creators \subseteq u.workers  \* the workers whose root runs application
                                         \* code; the others are in scheduler_loop(0)
       /\ u.calls \subseteq AllCalls      \* the calls it makes
       /\ u.argMsgs \in {0, 1}           \* argument messages of a task: 0 when all
                                         \* of its arguments are single values
       /\ u.resMsgs \in {0, 1}           \* result messages
       /\ u.threadSafe \in BOOLEAN       \* the library is MPI_THREAD_MULTIPLE
       /\ u.sendsAddress \in BOOLEAN     \* see Broadcast
       /\ {u.tasks, u.switches, u.prefetches, u.broadcasts} \subseteq Nat
                                         \* bounds: tasks created, switch calls and
                                         \* broadcasts of a creator, prefetch requests
                                         \* under way between two nodes

VARIABLES
  setup,
  chan,      \* chan[n][m][tag]: messages from node n to node m
  lock,      \* lock[n]: the thread that holds comm_lock of torcc_comm.cpp
  pc,        \* where a thread is
  hand,      \* the task a thread has in hand
  peer,      \* the node and tag a thread sends to or receives from
  public,    \* public[n], private[n]: the queues
  private,
  stealing,  \* internode_stealing of each node
  prefetching,
  made,      \* the switch calls a creator has made, in order
  ndep,      \* dependency counter of each creator's root
  unjoined,  \* the creators that created tasks since their last wait
  parent,    \* the creator of each task
  direct,    \* rte_type = 20: the tasks created by task_direct
  stage      \* how far a task has come

vars == <<setup, chan, lock, pc, hand, peer, public, private, stealing,
          prefetching, made, ndep, unjoined, parent, direct, stage>>

NumNodes == setup.nodes
Workers == setup.workers
Creators == setup.creators
ArgMsgs == setup.argMsgs
ResMsgs == setup.resMsgs
ThreadSafe == setup.threadSafe

Nodes == 0 .. NumNodes - 1
Servers == {<<n, MaxNvps>> : n \in Nodes}
Threads == Workers \cup Servers

IsServer(th) == th[2] = MaxNvps
Vps == {w[2] : w \in Workers} \cup {MaxNvps}
StealTag(vp) == vp + 100
Tags == Vps \cup {StealTag(vp) : vp \in Vps}

(* Mutant: every worker has the number 0.                                  *)
thread_id_Shared(th) == IF IsServer(th) THEN MaxNvps ELSE 0

thread_id(th) == th[2]

Home(t) == parent[t][1]

(* A message carries a task, or an address or a value (Broadcast).         *)
Message(type, body, th) == [type |-> type, body |-> body, vp |-> thread_id(th)]
NoPeer == <<0, 0>>

(* What a worker does after a task, or after a search without result.      *)
Again(w) == IF w \in Creators THEN "wait" ELSE "poll"
AfterTask(th) == IF IsServer(th) THEN "serve" ELSE Again(th)
AfterSend(th) == IF IsServer(th) THEN "serve" ELSE "app"

Init ==
  /\ setup \in Setups
  /\ chan = [n \in Nodes |-> [m \in Nodes |-> [tag \in Tags |-> <<>>]]]
  /\ lock = [n \in Nodes |-> NoThread]
  /\ pc = [th \in Threads |-> IF IsServer(th) THEN "serve"
                              ELSE IF th \in Creators THEN "app" ELSE "poll"]
  /\ hand = [th \in Threads |-> NoTask]
  /\ peer = [th \in Threads |-> NoPeer]
  /\ public = [n \in Nodes |-> <<>>]
  /\ private = [n \in Nodes |-> <<>>]
  /\ stealing = [n \in Nodes |-> FALSE]
  /\ prefetching = [n \in Nodes |-> FALSE]
  /\ made = [c \in Creators |-> <<>>]
  /\ ndep = [c \in Creators |-> 0]
  /\ unjoined = {}
  /\ parent = [t \in Tasks |-> NoThread]
  /\ direct = {}
  /\ stage = [t \in Tasks |-> "none"]

Goto(th, where) == pc' = [pc EXCEPT ![th] = where]
Holds(th, t) == hand' = [hand EXCEPT ![th] = t]
Unlocked(th) == lock[th[1]] = NoThread
Post(n, m, tag, msg) == chan' = [chan EXCEPT ![n][m][tag] = Append(@, msg)]
Take(n, m, tag) == chan' = [chan EXCEPT ![n][m][tag] = Tail(@)]

Application == <<ndep, unjoined, parent, direct>>
Queues == <<public, private>>
Switch == <<setup, stealing, prefetching, made>>

(***************************************************************************)
(* The application.                                                        *)
(***************************************************************************)

(* task, task_direct with the number of a worker of node n.  The two       *)
(* critical sections of the counter and the put in a queue are one step:   *)
(* the steps between them, which another thread of the node may see, are   *)
(* those of TaskRuntime.                                                   *)
Create(c, t, n, call) ==
  /\ pc[c] = "app" /\ call \in setup.calls
  /\ stage[t] = "none"
  /\ Cardinality({u \in Tasks : stage[u] # "none"}) < setup.tasks
  /\ stage' = [stage EXCEPT ![t] = "spawned"]
  /\ parent' = [parent EXCEPT ![t] = c]
  /\ direct' = IF call = "task_direct" THEN direct \cup {t} ELSE direct
  /\ ndep' = [ndep EXCEPT ![c] = IF @ = 0 THEN 2 ELSE @ + 1]
  /\ unjoined' = unjoined \cup {c}
  /\ IF n = c[1]
     THEN /\ public' = [public EXCEPT ![n] = Append(@, t)]
          /\ UNCHANGED <<pc, hand, peer>>
     ELSE /\ Goto(c, "send") /\ Holds(c, t)
          /\ peer' = [peer EXCEPT ![c] = <<n, thread_id(c)>>]
          /\ UNCHANGED public
  /\ UNCHANGED <<chan, lock, private, Switch>>

(* What a switch call or its message does to a node.                       *)
Apply(n, call) ==
  /\ stealing' = [stealing EXCEPT ![n] =
       CASE call \in {"enable_stealing", "local_enable_stealing"}   -> TRUE
         [] call \in {"disable_stealing", "local_disable_stealing"} -> FALSE
         [] OTHER -> @]
  /\ prefetching' = [prefetching EXCEPT ![n] =
       CASE call = "enable_prefetching"  -> TRUE
         [] call = "disable_prefetching" -> FALSE
         [] OTHER -> @]

(* The own switch, and then a message to every other node in turn.         *)
SwitchCall(c, call) ==
  /\ pc[c] = "app" /\ call \in setup.calls
  /\ Len(made[c]) < setup.switches
  /\ made' = [made EXCEPT ![c] = Append(@, call)]
  /\ Apply(c[1], call)
  /\ IF call \in LocalCalls THEN UNCHANGED <<pc, peer>>
     ELSE Goto(c, "switch") /\ peer' = [peer EXCEPT ![c] = <<0, MaxNvps>>]
  /\ UNCHANGED <<setup, chan, lock, hand, Queues, Application, stage>>

SendSwitch(c) ==
  LET n == peer[c][1] IN
  /\ pc[c] = "switch"
  /\ IF n = c[1] THEN UNCHANGED chan
     ELSE /\ Unlocked(c)
          /\ Post(c[1], n, MaxNvps, Message(made[c][Len(made[c])], NoTask, c))
  /\ IF n + 1 < NumNodes THEN peer' = [peer EXCEPT ![c][1] = n + 1] /\ UNCHANGED pc
     ELSE Goto(c, "app") /\ UNCHANGED peer
  /\ UNCHANGED <<lock, hand, Queues, Switch, Application, stage>>

(* block: the token goes back, then the counter is tested before each      *)
(* scheduler_loop(1).                                                      *)
WaitAll(c) ==
  /\ pc[c] = "app"
  /\ ndep' = [ndep EXCEPT ![c] = IF @ > 0 THEN @ - 1 ELSE 0]
  /\ unjoined' = unjoined \ {c}
  /\ Goto(c, "wait")
  /\ UNCHANGED <<chan, lock, hand, peer, Queues, Switch, parent, direct, stage>>

(* Mutant: one child may be outstanding.                                   *)
Joined_OneLeft(c) ==
  /\ pc[c] = "wait" /\ ndep[c] <= 1
  /\ Goto(c, "app")
  /\ UNCHANGED <<chan, lock, hand, peer, Queues, Switch, Application, stage>>

Joined(c) ==
  /\ pc[c] = "wait" /\ ndep[c] <= 0
  /\ Goto(c, "app")
  /\ UNCHANGED <<chan, lock, hand, peer, Queues, Switch, Application, stage>>

NotYet(c) ==
  /\ pc[c] = "wait" /\ ndep[c] > 0
  /\ Goto(c, "poll")
  /\ UNCHANGED <<chan, lock, hand, peer, Queues, Switch, Application, stage>>

(***************************************************************************)
(* get_next_task.                                                          *)
(***************************************************************************)

(* Prefetch requests go to the other nodes first; whether one is sent is   *)
(* decided from timings and counters (prefetch_decision): a free choice.   *)
PrefetchRequest(w, n) ==
  /\ pc[w] \in {"poll", "repoll"}
  /\ prefetching[w[1]] /\ Unlocked(w) /\ n # w[1]
  /\ Cardinality({i \in 1 .. Len(chan[w[1]][n][MaxNvps]) :
                    chan[w[1]][n][MaxNvps][i].type = "prefetch"}) < setup.prefetches
  /\ Post(w[1], n, MaxNvps, Message("prefetch", NoTask, w))
  /\ UNCHANGED <<lock, pc, hand, peer, Queues, Switch, Application, stage>>

(* The private queue, then the public ones.                                *)
TakeLocal(w) ==
  LET n == w[1] IN
  /\ pc[w] \in {"poll", "repoll"}
  /\ \/ /\ private[n] # <<>>
        /\ Holds(w, Head(private[n]))
        /\ private' = [private EXCEPT ![n] = Tail(@)]
        /\ UNCHANGED public
     \/ /\ private[n] = <<>> /\ public[n] # <<>>
        /\ Holds(w, Head(public[n]))
        /\ public' = [public EXCEPT ![n] = Tail(@)]
        /\ UNCHANGED private
  /\ Goto(w, "execute")
  /\ UNCHANGED <<chan, lock, peer, Switch, Application, stage>>

(* scheduler_loop searches twice; scheduler_loop(1) then returns 0, which  *)
(* brings a creator back to the test of its counter.                       *)
AfterSearch(w) == IF w \in Creators /\ pc[w] = "repoll" THEN "wait" ELSE "repoll"

NothingHere(w) ==
  LET n == w[1] IN
  /\ pc[w] \in {"poll", "repoll"}
  /\ private[n] = <<>> /\ public[n] = <<>>
  /\ ~stealing[n]
  /\ Goto(w, AfterSearch(w))
  /\ UNCHANGED <<chan, lock, hand, peer, Queues, Switch, Application, stage>>

(* A round of steal attempts starts with the next node.  The mutex sl,     *)
(* which one attempt holds from the request to the reply, is the guard that*)
(* no other worker of the node is inside one.                              *)
StartRound(w) ==
  LET n == w[1] IN
  /\ pc[w] \in {"poll", "repoll"}
  /\ private[n] = <<>> /\ public[n] = <<>>
  /\ stealing[n] /\ NumNodes > 1
  /\ peer' = [peer EXCEPT ![w] = <<(n + 1) % NumNodes, StealTag(thread_id(w))>>]
  /\ Goto(w, IF pc[w] = "poll" THEN "ask" ELSE "reask")
  /\ UNCHANGED <<chan, lock, hand, Queues, Switch, Application, stage>>

(* Inside sl, by the search that the round belongs to.  The code holds sl  *)
(* until a stolen task has its arguments; here the next thief of the node  *)
(* may begin when the descriptor has come (get_args, held_args), which     *)
(* allows all that the code does, and more.                                *)
InFirst == {"await", "held"}
InSecond == {"reawait", "reheld"}

StealRequest(w) ==
  /\ pc[w] \in {"ask", "reask"}
  /\ \A v \in Workers : v[1] = w[1] => pc[v] \notin InFirst \cup InSecond
  /\ Unlocked(w)
  /\ Post(w[1], peer[w][1], MaxNvps, Message("steal", NoTask, w))
  /\ Goto(w, IF pc[w] = "ask" THEN "await" ELSE "reawait")
  /\ UNCHANGED <<lock, hand, peer, Queues, Switch, Application, stage>>

(* receive_descriptor with a thread-safe library: comm_lock is held while  *)
(* MPI_Recv waits.                                                         *)
HoldForReply(w) ==
  /\ ThreadSafe
  /\ pc[w] \in {"await", "reawait"} /\ Unlocked(w)
  /\ lock' = [lock EXCEPT ![w[1]] = w]
  /\ Goto(w, IF pc[w] = "await" THEN "held" ELSE "reheld")
  /\ UNCHANGED <<chan, hand, peer, Queues, Switch, Application, stage>>

(* Mutant: without a thread-safe library the thief tests once and takes    *)
(* that there is no reply yet for no work.                                 *)
StealReply_OneTest(w) ==
  LET n == w[1]
      victim == peer[w][1]
      c == chan[victim][n][peer[w][2]]
      found == c # <<>> /\ Head(c).type = "work" IN
  /\ IF ThreadSafe THEN pc[w] \in {"held", "reheld"}
     ELSE pc[w] \in {"await", "reawait"} /\ Unlocked(w)
  /\ IF c # <<>> THEN Take(victim, n, peer[w][2]) ELSE UNCHANGED chan
  /\ lock' = IF ThreadSafe THEN [lock EXCEPT ![n] = NoThread] ELSE lock
  /\ Holds(w, IF found THEN Head(c).body ELSE NoTask)
  /\ Goto(w, IF ~found THEN "repoll"
             ELSE IF Home(Head(c).body) = n \/ ArgMsgs = 0 THEN "execute" ELSE "get_args")
  /\ UNCHANGED <<peer, Queues, Switch, Application, stage>>

(* The reply arrives: in MPI_Recv, or, without a thread-safe library, in   *)
(* one of the MPI_Tests that each take the lock for themselves.            *)
StealReply(w) ==
  LET n == w[1]
      victim == peer[w][1]
      msg == Head(chan[victim][n][peer[w][2]])
      again == pc[w] \in InSecond
      next == (victim + 1) % NumNodes IN
  /\ IF ThreadSafe THEN pc[w] \in {"held", "reheld"}
     ELSE pc[w] \in {"await", "reawait"} /\ Unlocked(w)
  /\ chan[victim][n][peer[w][2]] # <<>>
  /\ Take(victim, n, peer[w][2])
  /\ lock' = IF ThreadSafe THEN [lock EXCEPT ![n] = NoThread] ELSE lock
  /\ IF msg.type = "work"
     THEN /\ Holds(w, msg.body)
          /\ Goto(w, IF Home(msg.body) = n \/ ArgMsgs = 0 THEN "execute" ELSE "get_args")
          /\ UNCHANGED <<peer, stealing>>
     ELSE /\ UNCHANGED hand
          /\ IF next = n
             THEN /\ stealing' = [stealing EXCEPT ![n] = FALSE]
                  /\ Goto(w, IF again /\ w \in Creators THEN "wait" ELSE "repoll")
                  /\ UNCHANGED peer
             ELSE /\ peer' = [peer EXCEPT ![w][1] = next]
                  /\ Goto(w, IF again THEN "reask" ELSE "ask")
                  /\ UNCHANGED stealing
  /\ UNCHANGED <<setup, prefetching, made, Queues, Application, stage>>

(***************************************************************************)
(* Descriptors and arguments between nodes, for workers and servers alike. *)
(***************************************************************************)

(* send_descriptor(NORMAL_ENQUEUE): placement by a worker ("send"), or a   *)
(* prefetched task sent by a server ("push").  A task that comes home      *)
(* brings no arguments.                                                    *)
SendDescriptor(th) ==
  LET n == peer[th][1]
      t == hand[th] IN
  /\ pc[th] \in {"send", "push"} /\ Unlocked(th)
  /\ Post(th[1], n, MaxNvps,
          Message(IF pc[th] = "send" THEN "enqueue" ELSE "enqueue_private", t, th))
  /\ IF Home(t) = n \/ ArgMsgs = 0
     THEN Goto(th, AfterSend(th)) /\ Holds(th, NoTask)
     ELSE Goto(th, "send_args") /\ UNCHANGED hand
  /\ UNCHANGED <<lock, peer, Queues, Switch, Application, stage>>

(* direct_send_descriptor: the server's reply to a steal request.          *)
DirectSendDescriptor(th) ==
  LET n == peer[th][1]
      t == hand[th] IN
  /\ pc[th] = "reply" /\ Unlocked(th)
  /\ Post(th[1], n, peer[th][2], Message(IF t = NoTask THEN "no_work" ELSE "work", t, th))
  /\ IF t = NoTask \/ ArgMsgs = 0 \/ Home(t) = n
     THEN Goto(th, "serve") /\ Holds(th, NoTask)
     ELSE Goto(th, "send_args") /\ UNCHANGED hand
  /\ UNCHANGED <<lock, peer, Queues, Switch, Application, stage>>

SendArguments(th) ==
  /\ pc[th] = "send_args" /\ Unlocked(th)
  /\ Post(th[1], peer[th][1], peer[th][2], Message("argument", hand[th], th))
  /\ Goto(th, AfterSend(th)) /\ Holds(th, NoTask)
  /\ UNCHANGED <<lock, peer, Queues, Switch, Application, stage>>

(* receive_arguments takes comm_lock and waits in MPI_Recv, whatever the   *)
(* library provides.                                                       *)
HoldForArguments(th) ==
  /\ pc[th] \in {"get_args", "get_args_private"} /\ Unlocked(th)
  /\ lock' = [lock EXCEPT ![th[1]] = th]
  /\ Goto(th, IF pc[th] = "get_args" THEN "held_args" ELSE "held_args_private")
  /\ UNCHANGED <<chan, hand, peer, Queues, Switch, Application, stage>>

(* The end of process_a_received_descriptor for a task from another node.  *)
Enqueued(th, t, toPrivate) ==
  IF t \in direct
  THEN Goto(th, "execute") /\ Holds(th, t) /\ UNCHANGED Queues
  ELSE /\ Goto(th, "serve") /\ Holds(th, NoTask)
       /\ IF toPrivate
          THEN private' = [private EXCEPT ![th[1]] = Append(@, t)] /\ UNCHANGED public
          ELSE public' = [public EXCEPT ![th[1]] = Append(@, t)] /\ UNCHANGED private

ReceiveArguments(th) ==
  /\ pc[th] \in {"held_args", "held_args_private"}
  /\ chan[peer[th][1]][th[1]][peer[th][2]] # <<>>
  /\ Take(peer[th][1], th[1], peer[th][2])
  /\ lock' = [lock EXCEPT ![th[1]] = NoThread]
  /\ IF IsServer(th)
     THEN Enqueued(th, hand[th], pc[th] = "held_args_private")
     ELSE Goto(th, "execute") /\ UNCHANGED <<hand, Queues>>
  /\ UNCHANGED <<peer, Switch, Application, stage>>

(***************************************************************************)
(* Execution and cleanup.                                                  *)
(***************************************************************************)

Execute(th) ==
  /\ pc[th] = "execute"
  /\ stage' = [stage EXCEPT ![hand[th]] = "active"]
  /\ Goto(th, "run")
  /\ UNCHANGED <<chan, lock, hand, peer, Queues, Switch, Application>>

(* Mutant: a task executed on its own node is not taken off the counter.   *)
ReturnHome_NotCounted(th) ==
  LET t == hand[th] IN
  /\ pc[th] = "run" /\ Home(t) = th[1]
  /\ stage' = [stage EXCEPT ![t] = "done"]
  /\ Goto(th, AfterTask(th)) /\ Holds(th, NoTask)
  /\ UNCHANGED <<chan, lock, peer, Queues, Switch, Application>>

(* The task returns: at home its parent's counter is decremented, otherwise*)
(* an ANSWER goes to its home node, followed by the results.               *)
ReturnHome(th) ==
  LET t == hand[th] IN
  /\ pc[th] = "run" /\ Home(t) = th[1]
  /\ ndep' = [ndep EXCEPT ![parent[t]] = @ - 1]
  /\ stage' = [stage EXCEPT ![t] = "done"]
  /\ Goto(th, AfterTask(th)) /\ Holds(th, NoTask)
  /\ UNCHANGED <<chan, lock, peer, Queues, Switch, unjoined, parent, direct>>

SendAnswer(th) ==
  LET t == hand[th] IN
  /\ pc[th] = "run" /\ Home(t) # th[1] /\ Unlocked(th)
  /\ stage' = [stage EXCEPT ![t] = "returned"]
  /\ Post(th[1], Home(t), MaxNvps, Message("answer", t, th))
  /\ IF ResMsgs = 0
     THEN Goto(th, AfterTask(th)) /\ Holds(th, NoTask)
     ELSE Goto(th, "send_results") /\ UNCHANGED hand
  /\ UNCHANGED <<lock, peer, Queues, Switch, Application>>

SendResults(th) ==
  /\ pc[th] = "send_results" /\ Unlocked(th)
  /\ Post(th[1], Home(hand[th]), thread_id(th), Message("result", hand[th], th))
  /\ Goto(th, AfterTask(th)) /\ Holds(th, NoTask)
  /\ UNCHANGED <<lock, peer, Queues, Switch, Application, stage>>

(***************************************************************************)
(* The server thread: process_a_received_descriptor for a message of each  *)
(* type.                                                                   *)
(***************************************************************************)

(* MPI_Recv(MPI_ANY_SOURCE, MAX_NVPS) has a message of that type from n.   *)
Serves(s, n, type) ==
  /\ pc[s] = "serve"
  /\ chan[n][s[1]][MaxNvps] # <<>>
  /\ Head(chan[n][s[1]][MaxNvps]).type = type
  /\ Take(n, s[1], MaxNvps)

ServeEnqueue(s, n, type) ==
  LET msg == Head(chan[n][s[1]][MaxNvps])
      t == msg.body IN
  /\ Serves(s, n, type)
  /\ IF Home(t) = s[1]
     THEN /\ public' = [public EXCEPT ![s[1]] = <<t>> \o @]
          /\ UNCHANGED <<pc, hand, peer, private>>
     ELSE IF ArgMsgs = 0
     THEN Enqueued(s, t, type = "enqueue_private") /\ UNCHANGED peer
     ELSE /\ Holds(s, t)
          /\ peer' = [peer EXCEPT ![s] = <<n, msg.vp>>]
          /\ Goto(s, IF type = "enqueue" THEN "get_args" ELSE "get_args_private")
          /\ UNCHANGED Queues
  /\ UNCHANGED <<lock, Switch, Application, stage>>

(* ANSWER: the results are received first, then the parent is satisfied.   *)
DepSatisfy(t) ==
  /\ ndep' = [ndep EXCEPT ![parent[t]] = @ - 1]
  /\ stage' = [stage EXCEPT ![t] = "done"]

ServeAnswer(s, n) ==
  LET msg == Head(chan[n][s[1]][MaxNvps]) IN
  /\ Serves(s, n, "answer")
  /\ IF ResMsgs = 0
     THEN DepSatisfy(msg.body) /\ UNCHANGED <<pc, hand, peer>>
     ELSE /\ Holds(s, msg.body) /\ Goto(s, "get_results")
          /\ peer' = [peer EXCEPT ![s] = <<n, msg.vp>>]
          /\ UNCHANGED <<ndep, stage>>
  /\ UNCHANGED <<lock, Queues, Switch, unjoined, parent, direct>>

(* Mutant: the parent is satisfied twice.                                 *)
ReceiveResults_Twice(s) ==
  /\ pc[s] = "get_results"
  /\ chan[peer[s][1]][s[1]][peer[s][2]] # <<>>
  /\ Take(peer[s][1], s[1], peer[s][2])
  /\ ndep' = [ndep EXCEPT ![parent[hand[s]]] = @ - 2]
  /\ stage' = [stage EXCEPT ![hand[s]] = "done"]
  /\ Goto(s, "serve") /\ Holds(s, NoTask)
  /\ UNCHANGED <<lock, peer, Queues, Switch, unjoined, parent, direct>>

ReceiveResults(s) ==
  /\ pc[s] = "get_results"
  /\ chan[peer[s][1]][s[1]][peer[s][2]] # <<>>
  /\ Take(peer[s][1], s[1], peer[s][2])
  /\ DepSatisfy(hand[s])
  /\ Goto(s, "serve") /\ Holds(s, NoTask)
  /\ UNCHANGED <<lock, peer, Queues, Switch, unjoined, parent, direct>>

(* Mutant: the task that is sent to the thief stays in the queue.          *)
ServeSteal_Keeps(s, n) ==
  LET msg == Head(chan[n][s[1]][MaxNvps])
      m == s[1] IN
  /\ Serves(s, n, "steal")
  /\ peer' = [peer EXCEPT ![s] = <<n, StealTag(msg.vp)>>]
  /\ Holds(s, IF public[m] = <<>> THEN NoTask ELSE Head(public[m]))
  /\ Goto(s, "reply")
  /\ UNCHANGED <<lock, Queues, Switch, Application, stage>>

(* The oldest public task, or none, goes to the thief.                     *)
ServeSteal(s, n) ==
  LET msg == Head(chan[n][s[1]][MaxNvps])
      m == s[1] IN
  /\ Serves(s, n, "steal")
  /\ peer' = [peer EXCEPT ![s] = <<n, StealTag(msg.vp)>>]
  /\ Holds(s, IF public[m] = <<>> THEN NoTask ELSE Head(public[m]))
  /\ public' = [public EXCEPT ![m] = IF @ = <<>> THEN @ ELSE Tail(@)]
  /\ Goto(s, "reply")
  /\ UNCHANGED <<lock, private, Switch, Application, stage>>

ServePrefetch(s, n) ==
  LET m == s[1] IN
  /\ Serves(s, n, "prefetch")
  /\ IF public[m] = <<>> THEN UNCHANGED <<public, pc, hand, peer>>
     ELSE /\ public' = [public EXCEPT ![m] = Tail(@)]
          /\ Holds(s, Head(public[m]))
          /\ peer' = [peer EXCEPT ![s] = <<n, thread_id(s)>>]
          /\ Goto(s, "push")
  /\ UNCHANGED <<lock, private, Switch, Application, stage>>

(* Mutant: the message that disables stealing is handled like the other.   *)
ServeSwitch_AlwaysOn(s, n, call) ==
  /\ Serves(s, n, call)
  /\ Apply(s[1], IF call = "disable_stealing" THEN "enable_stealing" ELSE call)
  /\ UNCHANGED <<setup, made, lock, pc, hand, peer, Queues, Application, stage>>

ServeSwitch(s, n, call) ==
  /\ Serves(s, n, call)
  /\ Apply(s[1], call)
  /\ UNCHANGED <<setup, made, lock, pc, hand, peer, Queues, Application, stage>>

-----------------------------------------------------------------------------
AppStep(c) ==
  \/ \E t \in Tasks, n \in Nodes, call \in {"task", "task_direct"} : Create(c, t, n, call)
  \/ \E call \in SwitchCalls \cup LocalCalls : SwitchCall(c, call)
  \/ WaitAll(c)

Search(w) == TakeLocal(w) \/ NothingHere(w) \/ StartRound(w) \/ StealRequest(w)
               \/ HoldForReply(w) \/ StealReply(w)

Communicate(th) ==
  SendDescriptor(th) \/ DirectSendDescriptor(th) \/ SendArguments(th)
    \/ HoldForArguments(th) \/ ReceiveArguments(th)

RunTask(th) == Execute(th) \/ ReturnHome(th) \/ SendAnswer(th) \/ SendResults(th)

Serve(s) ==
  \/ \E n \in Nodes :
       \/ ServeEnqueue(s, n, "enqueue") \/ ServeEnqueue(s, n, "enqueue_private")
       \/ ServeAnswer(s, n) \/ ServeSteal(s, n) \/ ServePrefetch(s, n)
       \/ \E call \in SwitchCalls : ServeSwitch(s, n, call)
  \/ ReceiveResults(s)

Step(th) ==
  \/ th \in Creators /\ (Joined(th) \/ NotYet(th) \/ SendSwitch(th))
  \/ th \in Workers /\ Search(th)
  \/ th \in Servers /\ Serve(th)
  \/ th \in Threads /\ (Communicate(th) \/ RunTask(th))

Next ==
  \/ \E c \in Creators : AppStep(c)
  \/ \E w \in Workers, n \in Nodes : PrefetchRequest(w, n)
  \/ \E th \in Threads : Step(th)

-----------------------------------------------------------------------------
Types == {"enqueue", "enqueue_private", "work", "no_work", "argument", "answer",
          "result", "steal", "prefetch", "bcast", "data"} \cup SwitchCalls

Places == {"app", "send", "send_args", "switch", "bcast", "offer", "ssend", "wait",
           "poll", "repoll", "ask", "reask", "await", "reawait", "held", "reheld",
           "get_args", "get_args_private", "held_args", "held_args_private", "execute",
           "run", "send_results", "serve", "push", "reply", "get_results", "get_data"}

TypeOK ==
  /\ \A n \in Nodes, m \in Nodes, tag \in Tags : \A i \in DOMAIN chan[n][m][tag] :
       chan[n][m][tag][i].type \in Types /\ chan[n][m][tag][i].vp \in Vps
  /\ lock \in [Nodes -> Threads \cup {NoThread}]
  /\ pc \in [Threads -> Places]
  /\ hand \in [Threads -> Tasks \cup {NoTask}]
  /\ peer \in [Threads -> Nodes \X Tags]
  /\ public \in [Nodes -> Seq(Tasks)] /\ private \in [Nodes -> Seq(Tasks)]
  /\ stealing \in [Nodes -> BOOLEAN] /\ prefetching \in [Nodes -> BOOLEAN]
  /\ made \in [Creators -> Seq(SwitchCalls \cup LocalCalls)]
  /\ ndep \in [Creators -> Nat] /\ unjoined \subseteq Creators
  /\ parent \in [Tasks -> Workers \cup {NoThread}] /\ direct \subseteq Tasks
  /\ stage \in [Tasks -> {"none", "spawned", "active", "returned", "done"}]

(* The tasks of a creator whose end it has not been told.                  *)
Outstanding(c) == {t \in Tasks : parent[t] = c /\ stage[t] # "done"}

(* DepCount: a creator's counter is the number of its tasks that are in a  *)
(* queue, in a message, executed somewhere or answered but not yet taken   *)
(* off, plus the token it holds between its first task and its next wait.  *)
DepCount ==
  \A c \in Creators :
    ndep[c] = Cardinality(Outstanding(c)) + IF c \in unjoined THEN 1 ELSE 0

(* OnePlace: a task that nobody has finished is once in a queue of one     *)
(* node, in one message or in one thread's hands: sending, stealing,       *)
(* prefetching and coming home neither lose nor duplicate it.              *)
QueuePlaces(t) ==
  UNION {{<<n, "public", i>> : i \in {j \in DOMAIN public[n] : public[n][j] = t}}
           \cup {<<n, "private", i>> : i \in {j \in DOMAIN private[n] : private[n][j] = t}} :
         n \in Nodes}
Moves(msg, t) == msg.type \in {"enqueue", "enqueue_private", "work"} /\ msg.body = t
MessagePlaces(t) ==
  UNION {{<<n, m, tag, i>> : i \in {j \in DOMAIN chan[n][m][tag] : Moves(chan[n][m][tag][j], t)}} :
         n \in Nodes, m \in Nodes, tag \in Tags}
Carrying == {"send", "push", "reply", "get_args", "get_args_private", "held_args",
             "held_args_private", "execute", "run"}
HandPlaces(t) == {th \in Threads : hand[th] = t /\ pc[th] \in Carrying}

OnePlace ==
  \A t \in Tasks :
    Cardinality(QueuePlaces(t)) + Cardinality(MessagePlaces(t)) + Cardinality(HandPlaces(t))
      = IF stage[t] \in {"spawned", "active"} THEN 1 ELSE 0

(* RightMessage: a thread that waits for arguments or results with some tag*)
(* gets those of the task it has in hand, one that waits for the data of a *)
(* broadcast gets data, and a server that waits for descriptors gets       *)
(* descriptors.                                                            *)
Awaited(where) == CASE where \in {"held_args", "held_args_private"} -> "argument"
                    [] where = "get_results" -> "result"
                    [] where = "get_data"    -> "data"

RightMessage ==
  /\ \A th \in Threads :
       LET c == chan[peer[th][1]][th[1]][peer[th][2]] IN
       pc[th] \in {"held_args", "held_args_private", "get_results", "get_data"} /\ c # <<>> =>
         /\ Head(c).type = Awaited(pc[th])
         /\ pc[th] = "get_data" \/ Head(c).body = hand[th]
  /\ \A s \in Servers, n \in Nodes :
       LET c == chan[n][s[1]][MaxNvps] IN
       pc[s] = "serve" /\ c # <<>> => Head(c).type \notin {"argument", "result", "data"}

(* RepliesInOrder: a node asks one victim at a time, and the reply it takes*)
(* is the one to its own request: at most one request or reply is under    *)
(* way between a thief and its victim.                                     *)
RepliesInOrder ==
  \A w \in Workers : \A n \in Nodes :
    LET asked == {i \in 1 .. Len(chan[w[1]][n][MaxNvps]) :
                    chan[w[1]][n][MaxNvps][i].type = "steal"
                    /\ chan[w[1]][n][MaxNvps][i].vp = w[2]}
        answered == {i \in 1 .. Len(chan[n][w[1]][StealTag(w[2])]) :
                       chan[n][w[1]][StealTag(w[2])][i].type \in {"work", "no_work"}}
        answering == {s \in Servers : s[1] = n /\ pc[s] = "reply"
                                      /\ peer[s] = <<w[1], StealTag(w[2])>>} IN
    Cardinality(asked) + Cardinality(answered) + Cardinality(answering)
      = IF pc[w] \in InFirst \cup InSecond /\ peer[w][1] = n THEN 1 ELSE 0

(* RefinesForkJoin: the cluster keeps the promise that one node keeps: a   *)
(* task is started once, finishes once, and a wait outlasts its children.  *)
InApplication == {"app", "send", "send_args", "switch", "bcast", "offer", "ssend"}
Joining == {c \in Creators : pc[c] \notin InApplication}

FJ == INSTANCE ForkJoin WITH
  Roots <- AllWorkers,
  NoParent <- NoThread,
  Structured <- TRUE,
  status <- [t \in Tasks |-> IF stage[t] \in {"returned", "done"} THEN "finished" ELSE stage[t]],
  joining <- Joining

RefinesForkJoin == FJ!Spec

(* CallsReturn: when every thread of the application is inside a call of   *)
(* the library, a wait, a creation, a switch or a broadcast, one of these  *)
(* calls comes back.  This is what StealsReturn states for the case that   *)
(* nodes steal with a thread-safe library: a thief then waits for the      *)
(* reply with comm_lock held, which the server of its node needs to reply. *)
InCall == {c \in Creators : pc[c] # "app"}
HoldingThieves ==
  ThreadSafe /\ setup.calls \cap {"enable_stealing", "local_enable_stealing"} # {}

CallsReturn == (InCall = Creators /\ ~HoldingThieves) ~> (InCall # Creators)
StealsReturn == (InCall = Creators /\ HoldingThieves) ~> (InCall # Creators)

(* Agreement: with one thread that makes switch calls, when their messages *)
(* have been received every node prefetches or not as the last call has    *)
(* asked.  A failed round of steal attempts may have cleared the switch for*)
(* stealing meanwhile, but no node steals when the last call was to stop.  *)
Quiet ==
  /\ \A c \in Creators : pc[c] # "switch"
  /\ \A n \in Nodes, m \in Nodes :
       \A i \in DOMAIN chan[n][m][MaxNvps] : chan[n][m][MaxNvps][i].type \notin SwitchCalls

LastOn(calls, on, off) ==
  LET setting == {i \in DOMAIN calls : calls[i] \in {on, off}} IN
  setting # {} /\ calls[Max(setting)] = on

Agreement ==
  \A c \in Creators :
    Quiet /\ Creators = {c} /\ setup.calls \cap LocalCalls = {} =>
      \A n \in Nodes :
        /\ prefetching[n] = LastOn(made[c], "enable_prefetching", "disable_prefetching")
        /\ stealing[n] => LastOn(made[c], "enable_stealing", "disable_stealing")
=============================================================================
