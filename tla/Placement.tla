------------------------------ MODULE Placement ------------------------------
(***************************************************************************)
(* Where a task goes when there are several nodes: the numbering of the    *)
(* worker threads (torcc_comm.cpp), the functions that choose a queue of   *)
(* this or of another node (torcc_queue.cpp) and the part of the server    *)
(* thread that puts an arriving task in a queue (torcc_server.cpp).        *)
(*                                                                         *)
(* A task stays where it was put, except that a prefetch request moves it  *)
(* to the node that asked; execution is the subject of other modules.  With *)
(* one node all these functions are to_local_rq_end: see TaskRuntime.      *)
(*                                                                         *)
(* Who creates tasks, and how, is one of the records in Setups, chosen at  *)
(* the start.                                                              *)
(***************************************************************************)
EXTENDS Integers, Sequences, FiniteSets, Functions

CONSTANTS
  NumNodes,    \* MPI processes
  MaxWorkers,  \* a bound on the worker threads of a node
  Tasks,
  NumLevels,   \* the number of public queues (10 in the code)
  Setups,
  NoTask

(* The functions that walk round all nodes or all workers, and the others.  *)
Rotating == {"to_rq", "to_rq_end__", "to_rq_end"}
ToNode == {"to_nrq", "to_nrq_end", "to_npq", "to_npq_end"}
ToWorker == {"to_lrq", "to_lrq_end"}
AtFront == {"to_rq", "to_nrq", "to_lrq", "to_npq"}
ToPrivate == {"to_npq", "to_npq_end"}

ASSUME PlacementAssumption ==
  /\ NumNodes \in Nat /\ NumNodes >= 2
  /\ NumLevels \in Nat \ {0}
  /\ NoTask \notin Tasks
  /\ \A u \in Setups :
       /\ u.creators \subseteq (0 .. NumNodes - 1) \X Nat
                                     \* the threads <<node, vp>> that create tasks
       /\ u.placedBy \subseteq Rotating \cup ToNode \cup ToWorker
                                     \* the placement functions they call
       /\ u.prefetching \in BOOLEAN  \* nodes ask each other for tasks in advance
       /\ u.tasks \in Nat /\ u.maxLevel \in Nat
                                     \* bounds: tasks created, their nesting level
(* The search for a task to prefetch walks the public queues up to index   *)
(* kthreads: with as many workers as queues it would leave the array.      *)
ASSUME SearchAssumption == MaxWorkers \in Nat \ {0} /\ MaxWorkers < NumLevels

VARIABLES
  setup,
  nworkers,    \* node_info: the number of workers of each node
  initialized, \* the static variables of the rotating functions on each node
  target,
  pc,          \* where each creator is in a placement function
  job,         \* the task, the function and the choice it has in hand
  desc,        \* the fields of a task's descriptor that decide its place
  wire,        \* wire[n][m]: NORMAL_ENQUEUE messages from n to m's server
  public,      \* public[n][q]
  private,     \* private[n]
  asked,       \* history: the functions that have placed a task
  created,     \* history: the tasks of each creator in the order of creation
  hits         \* history: how often to_rq_end of node n chose each worker <<node, vp>>

vars == <<setup, nworkers, initialized, target, pc, job, desc, wire, public, private,
          asked, created, hits>>

Nodes == 0 .. NumNodes - 1
Creators == setup.creators

(***************************************************************************)
(* The numbering.                                                          *)
(***************************************************************************)

(* The workers on the nodes before n.                                      *)
sum_vp(n) ==
  Cardinality({w \in (0 .. n - 1) \X (0 .. MaxWorkers - 1) : w[2] < nworkers[w[1]]})

total_num_threads == sum_vp(NumNodes)

(* Mutant: the worker after the last one of a node still counts as its own. *)
global_thread_id_to_node_id_OneTooMany(g) ==
  CHOOSE n \in Nodes : g <= sum_vp(n + 1) /\ \A m \in 0 .. n - 1 : g > sum_vp(m + 1)

(* The first node whose workers reach beyond g; -1 is the call of Error.    *)
global_thread_id_to_node_id(g) ==
  IF g >= total_num_threads THEN -1
  ELSE CHOOSE n \in Nodes : g < sum_vp(n + 1) /\ \A m \in 0 .. n - 1 : g >= sum_vp(m + 1)

global_thread_id_to_local_thread_id(g) == g - sum_vp(global_thread_id_to_node_id(g))

local_thread_id_to_global_thread_id(n, vp) == sum_vp(n) + vp

(* to_local_rq, to_local_rq_end: the public queue of a nesting level.      *)
QueueIndex(l) ==
  IF l <= 1 THEN 0 ELSE IF l - 1 >= NumLevels THEN NumLevels - 1 ELSE l - 1

-----------------------------------------------------------------------------
(* A task in a creator's hands, the function that places it, the node and  *)
(* the worker's number chosen, and the static variables still to be set.   *)
Job(t, f, n, q, s) ==
  [task |-> t, by |-> f, node |-> n, queue |-> q, next |-> -1, stores |-> s]

Idle == Job(NoTask, "none", -1, -1, {})

Init ==
  /\ setup \in Setups
  /\ nworkers \in {f \in [Nodes -> 1 .. MaxWorkers] :
                     \A c \in Creators : c[2] < f[c[1]]}
  /\ initialized = [f \in Rotating |-> [n \in Nodes |-> FALSE]]
  /\ target = [f \in Rotating |-> [n \in Nodes |-> 0]]
  /\ pc = [c \in Creators |-> "app"]
  /\ job = [c \in Creators |-> Idle]
  /\ desc = [t \in Tasks |-> [home |-> -1, level |-> 0, front |-> FALSE,
                              private |-> FALSE, queue |-> -1]]
  /\ wire = [n \in Nodes |-> [m \in Nodes |-> <<>>]]
  /\ public = [n \in Nodes |-> [q \in 0 .. NumLevels - 1 |-> <<>>]]
  /\ private = [n \in Nodes |-> <<>>]
  /\ asked = [t \in Tasks |-> {}]
  /\ created = [c \in Creators |-> <<>>]
  /\ hits = [n \in Nodes |-> [w \in Nodes \X (0 .. MaxWorkers - 1) |-> 0]]

At(c, where) == pc[c] = where

(* task() and its kin: a fresh descriptor of level l enters a placement    *)
(* function; a rotating one first looks at its static variables, without a *)
(* lock.                                                                   *)
Create(c, t, l, f) ==
  /\ At(c, "app")
  /\ desc[t].home = -1
  /\ Cardinality({u \in Tasks : desc[u].home # -1}) < setup.tasks
  /\ desc' = [desc EXCEPT ![t].home = c[1], ![t].level = l]
  /\ created' = [created EXCEPT ![c] = Append(@, t)]
  /\ asked' = [asked EXCEPT ![t] = {f}]
  /\ \/ /\ f \in Rotating
        /\ job' = [job EXCEPT ![c] = Job(t, f, -1, -1, {"initialized", "target"})]
        /\ pc' = [pc EXCEPT ![c] = IF initialized[f][c[1]] THEN "node" ELSE "init"]
     \/ /\ f \in ToNode
        /\ \E n \in Nodes :
             job' = [job EXCEPT ![c] = Job(t, f, n, -1, {})]
        /\ pc' = [pc EXCEPT ![c] = "put"]
     \/ /\ f \in ToWorker
        /\ \E g \in 0 .. total_num_threads - 1 :
             job' = [job EXCEPT ![c] = Job(t, f, global_thread_id_to_node_id(g),
                                           global_thread_id_to_local_thread_id(g), {})]
        /\ pc' = [pc EXCEPT ![c] = "put"]
  /\ UNCHANGED <<setup, nworkers, initialized, target, wire, public, private, hits>>

(* The first call sets both static variables; other threads may see the    *)
(* two plain stores in either order.                                       *)
InitStatic(c) ==
  LET n == c[1]
      f == job[c].by
      own == IF f = "to_rq_end" THEN local_thread_id_to_global_thread_id(n, c[2]) ELSE n IN
  /\ At(c, "init")
  /\ \E s \in job[c].stores :
       /\ job' = [job EXCEPT ![c].stores = @ \ {s}]
       /\ IF s = "target"
          THEN target' = [target EXCEPT ![f][n] = own] /\ UNCHANGED initialized
          ELSE initialized' = [initialized EXCEPT ![f][n] = TRUE] /\ UNCHANGED target
  /\ pc' = [pc EXCEPT ![c] = IF job'[c].stores = {} THEN "node" ELSE "init"]
  /\ UNCHANGED <<setup, nworkers, desc, wire, public, private, asked, created, hits>>

(* The target is read; the worker version reads it once for the node and   *)
(* once more for the thread on that node.                                  *)
ReadNode(c) ==
  LET n == c[1]
      f == job[c].by
      g == target[f][n] IN
  /\ At(c, "node")
  /\ job' = [job EXCEPT ![c].node =
               IF f = "to_rq_end" THEN global_thread_id_to_node_id(g) ELSE g]
  /\ pc' = [pc EXCEPT ![c] = IF f = "to_rq_end" THEN "queue" ELSE "put"]
  /\ UNCHANGED <<setup, nworkers, initialized, target, desc, wire, public, private, asked,
                 created, hits>>

ReadQueue(c) ==
  LET vp == global_thread_id_to_local_thread_id(target[job[c].by][c[1]]) IN
  /\ At(c, "queue")
  /\ job' = [job EXCEPT ![c].queue = vp]
  /\ hits' = [hits EXCEPT ![c[1]] =
                [w \in DOMAIN @ |-> @[w] + IF w = <<job[c].node, vp>> THEN 1 ELSE 0]]
  /\ pc' = [pc EXCEPT ![c] = "put"]
  /\ UNCHANGED <<setup, nworkers, initialized, target, desc, wire, public, private, asked,
                 created>>

(* Mutant: to_lrq forgets to ask for the front.                            *)
Flagged_NoFront(d, f, q) ==
  [d EXCEPT !.front = @ \/ f \in AtFront \ {"to_lrq"},
            !.private = (@ \/ f \in ToPrivate) /\ f \notin Rotating,
            !.queue = q]

(* What each of the nine functions writes into the descriptor before it    *)
(* compares the nodes.  Only the rotating ones clear insert_private, and   *)
(* nobody clears insert_in_front.                                          *)
Flagged(d, f, q) ==
  [d EXCEPT !.front = @ \/ f \in AtFront,
            !.private = (@ \/ f \in ToPrivate) /\ f \notin Rotating,
            !.queue = q]

Insert(s, t, inFront) == IF inFront THEN <<t>> \o s ELSE Append(s, t)

(* A task enters a queue of node n.                                        *)
Enqueue(n, t, toPrivate, inFront) ==
  IF toPrivate
  THEN private' = [private EXCEPT ![n] = Insert(@, t, inFront)] /\ UNCHANGED public
  ELSE /\ public' = [public EXCEPT ![n][QueueIndex(desc[t].level)] = Insert(@, t, inFront)]
       /\ UNCHANGED private

(* Mutant: the message overtakes the earlier ones.                         *)
PutOrSend_Overtakes(n, m, t, f, q) ==
  /\ desc' = [desc EXCEPT ![t] = Flagged(@, f, q)]
  /\ IF m = n
     THEN Enqueue(n, t, f \in ToPrivate, f \in AtFront) /\ UNCHANGED wire
     ELSE wire' = [wire EXCEPT ![n][m] = <<t>> \o @] /\ UNCHANGED <<public, private>>

(* The end of every placement function: its own node's queue, or a message *)
(* to the server of the chosen node.                                       *)
PutOrSend(n, m, t, f, q) ==
  /\ desc' = [desc EXCEPT ![t] = Flagged(@, f, q)]
  /\ IF m = n
     THEN Enqueue(n, t, f \in ToPrivate, f \in AtFront) /\ UNCHANGED wire
     ELSE wire' = [wire EXCEPT ![n][m] = Append(@, t)] /\ UNCHANGED <<public, private>>

Put(c) ==
  LET j == job[c] IN
  /\ At(c, "put")
  /\ j.node \in Nodes
  /\ PutOrSend(c[1], j.node, j.task, j.by, j.queue)
  /\ pc' = [pc EXCEPT ![c] = IF j.by \in Rotating THEN "advance" ELSE "app"]
  /\ job' = IF j.by \in Rotating THEN job ELSE [job EXCEPT ![c] = Idle]
  /\ UNCHANGED <<setup, nworkers, initialized, target, asked, created, hits>>

(* Mutant: the modulus is forgotten.                                       *)
AdvanceRead_NoWrap(c) ==
  /\ At(c, "advance")
  /\ job' = [job EXCEPT ![c].next = target[job[c].by][c[1]] + 1]
  /\ pc' = [pc EXCEPT ![c] = "store"]
  /\ UNCHANGED <<setup, nworkers, initialized, target, desc, wire, public, private,
                 asked, created, hits>>

(* target = (target + 1) % total: a read and a write.                      *)
AdvanceRead(c) ==
  LET f == job[c].by
      total == IF f = "to_rq_end" THEN total_num_threads ELSE NumNodes IN
  /\ At(c, "advance")
  /\ job' = [job EXCEPT ![c].next = (target[f][c[1]] + 1) % total]
  /\ pc' = [pc EXCEPT ![c] = "store"]
  /\ UNCHANGED <<setup, nworkers, initialized, target, desc, wire, public, private,
                 asked, created, hits>>

AdvanceWrite(c) ==
  /\ At(c, "store")
  /\ target' = [target EXCEPT ![job[c].by][c[1]] = job[c].next]
  /\ job' = [job EXCEPT ![c] = Idle]
  /\ pc' = [pc EXCEPT ![c] = "app"]
  /\ UNCHANGED <<setup, nworkers, initialized, desc, wire, public, private, asked, created, hits>>

(* Mutant: the received message stays in the channel.                      *)
ServerEnqueue_Keeps(n, m) ==
  /\ wire[n][m] # <<>>
  /\ LET t == Head(wire[n][m]) IN
       IF desc[t].home = m
       THEN Enqueue(m, t, FALSE, TRUE)
       ELSE Enqueue(m, t, desc[t].private, desc[t].front)
  /\ UNCHANGED <<setup, nworkers, initialized, target, pc, job, desc, wire, asked, created, hits>>

(* The server of m receives a task from n.  One that comes home goes to    *)
(* the front of the public queue; another one where its flags say.         *)
ServerEnqueue(n, m) ==
  /\ wire[n][m] # <<>>
  /\ LET t == Head(wire[n][m]) IN
       IF desc[t].home = m
       THEN Enqueue(m, t, FALSE, TRUE)
       ELSE Enqueue(m, t, desc[t].private, desc[t].front)
  /\ wire' = [wire EXCEPT ![n][m] = Tail(@)]
  /\ UNCHANGED <<setup, nworkers, initialized, target, pc, job, desc, asked, created, hits>>

(* A PREFETCH_REQUEST of m reaches the server of n, which sends the first  *)
(* task it finds in the public queues 0 .. kthreads.                       *)
ServerPrefetch(n, m) ==
  /\ setup.prefetching /\ m # n
  /\ \E q \in 0 .. nworkers[n] :
       /\ public[n][q] # <<>>
       /\ \A p \in 0 .. q - 1 : public[n][p] = <<>>
       /\ LET t == Head(public[n][q]) IN
            /\ desc' = [desc EXCEPT ![t] = Flagged(@, "to_npq_end", -1)]
            /\ asked' = [asked EXCEPT ![t] = @ \cup {"to_npq_end"}]
            /\ wire' = [wire EXCEPT ![n][m] = Append(@, t)]
       /\ public' = [public EXCEPT ![n][q] = Tail(@)]
  /\ UNCHANGED <<setup, nworkers, initialized, target, pc, job, private, created, hits>>

Next ==
  \/ \E c \in Creators :
       \/ \E t \in Tasks, l \in 1 .. setup.maxLevel, f \in setup.placedBy : Create(c, t, l, f)
       \/ InitStatic(c) \/ ReadNode(c) \/ ReadQueue(c) \/ Put(c)
       \/ AdvanceRead(c) \/ AdvanceWrite(c)
  \/ \E n, m \in Nodes : ServerEnqueue(n, m) \/ ServerPrefetch(n, m)

Spec == Init /\ [][Next]_vars

-----------------------------------------------------------------------------
(* The places where a descriptor may wait, and what waits there.  A        *)
(* creator has one in its hands until it has put it somewhere.             *)
Slots ==
  (Nodes \X Nodes \X {"wire"}) \cup (Nodes \X {0} \X {"private"})
    \cup (Nodes \X (0 .. NumLevels - 1) \X {"public"})

Content(x) ==
  CASE x[3] = "wire" -> wire[x[1]][x[2]]
    [] x[3] = "private" -> private[x[1]]
    [] x[3] = "public" -> public[x[1]][x[2]]

Carrying == {"init", "node", "queue", "put"}
InHand == {job[c].task : c \in {d \in Creators : pc[d] \in Carrying}}

(* TargetExists: however the unprotected reads and writes of the static    *)
(* target of several creators interleave, it names a worker or node that   *)
(* exists, so that "target_to_node failed" never aborts the program and    *)
(* no message goes to a rank outside the communicator.                     *)
TargetExists ==
  \A c \in Creators : At(c, "put") => job[c].node \in Nodes

(* OneCopy: a created task is in one creator's hands, on one wire or in    *)
(* one queue of one node, and in one place of it: placement, delivery and  *)
(* prefetching neither lose nor duplicate it.                              *)
OneCopy ==
  /\ \A x \in Slots : IsInjective(Content(x))
  /\ \A t \in Tasks :
       Cardinality({x \in Slots : \E i \in 1 .. Len(Content(x)) : Content(x)[i] = t})
         = IF desc[t].home = -1 \/ t \in InHand THEN 0 ELSE 1

(* RoundRobin: a thread that is the only one of its node to create tasks   *)
(* deals them out evenly: the task goes to a worker that exists, and no    *)
(* worker of the cluster is ever two tasks ahead of another, whatever the  *)
(* numbers of workers are (torc_to_rq_end and the numbering).              *)
RoundRobin ==
  \A n \in Nodes : Cardinality({c \in Creators : c[1] = n}) = 1 =>
    \A v, w \in DOMAIN hits[n] :
      /\ v[2] >= nworkers[v[1]] => hits[n][v] = 0
      /\ w[2] < nworkers[w[1]] => hits[n][v] <= hits[n][w] + 1

(* CreationOrder: two tasks that one creator put at the end of the public  *)
(* queue of one level of one node are there in the order of their          *)
(* creation, whether they travelled or not.                                *)
CreationOrder ==
  \A c \in Creators, n \in Nodes, q \in 0 .. NumLevels - 1 :
    \A i, j \in 1 .. Len(created[c]), k, l \in 1 .. Len(public[n][q]) :
      (/\ i < j
       /\ public[n][q][k] = created[c][i] /\ public[n][q][l] = created[c][j]
       /\ asked[created[c][i]] \cup asked[created[c][j]]
            \subseteq {"to_rq_end", "to_rq_end__", "to_lrq_end", "to_nrq_end"})
      => k < l

(* LandsWhereAsked: a task that arrives on a node other than its home goes *)
(* to the queue, and to the end of it, that the placement function would   *)
(* have chosen on its own node: the flags in the descriptor and the        *)
(* server's reading of them agree with the function called, also for a     *)
(* task that is placed a second time by a prefetch.  That one goes to the  *)
(* private queue, and to the front of it if it had been placed at the      *)
(* front before: nobody clears insert_in_front.                            *)
LandsWhereAsked ==
  [][\A n, m \in Nodes :
       (/\ wire[n][m] # <<>> /\ wire'[n][m] = Tail(wire[n][m])
        /\ desc[Head(wire[n][m])].home # m)
       => LET t == Head(wire[n][m])
              inFront == asked[t] \cap AtFront # {} IN
          IF asked[t] \cap ToPrivate # {}
          THEN private'[m] = Insert(private[m], t, inFront)
          ELSE public'[m] = [public[m] EXCEPT ![QueueIndex(desc[t].level)] =
                               Insert(@, t, inFront)]]_vars
=============================================================================
