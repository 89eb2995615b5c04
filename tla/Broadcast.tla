------------------------------ MODULE Broadcast ------------------------------
(***************************************************************************)
(* torc_broadcast (torcc_comm.cpp) and the server's part in it, on top of  *)
(* NodeComm: broadcasts run beside tasks and switch messages and share     *)
(* their channels and comm_lock with them.  The specification of the whole *)
(* is stated here.                                                         *)
(*                                                                         *)
(* A broadcast sends every other node a descriptor with the address, and   *)
(* then the data, with MPI_Ssend and comm_lock held: MPI_Ssend ends when   *)
(* the receiver has taken the data.  Every process runs the same program   *)
(* at the same addresses, so a variable has one address on all nodes.      *)
(***************************************************************************)
EXTENDS NodeComm

CONSTANTS
  Variables,  \* addresses of variables the application broadcasts
  Values,     \* their values; the value is the first word at the address
  Initially   \* the value they have at the start

ASSUME BroadcastAssumption ==
  Variables # {} /\ Initially \in Values /\ Variables \cap Values = {}

VARIABLES
  memory,     \* memory[n][a]: what is at address a of node n
  var,        \* the variable a creator broadcasts
  sent,       \* how many broadcasts it has begun
  address     \* where a server puts the data it waits for

bvars == <<memory, var, sent, address>>
cvars == <<vars, bvars>>

BroadcastInit ==
  /\ memory = [n \in Nodes |-> [a \in Variables |-> Initially]]
  /\ var = [c \in Creators |-> CHOOSE a \in Variables : TRUE]
  /\ sent = [c \in Creators |-> 0]
  /\ address = [s \in Servers |-> CHOOSE a \in Variables : TRUE]

(* The application gives the variable a value and broadcasts it; no two    *)
(* threads broadcast the same variable.                                    *)
Broadcast(c, a, v) ==
  /\ pc[c] = "app" /\ "broadcast" \in setup.calls
  /\ sent[c] < setup.broadcasts
  /\ \A d \in Creators \ {c} : sent[d] = 0 \/ var[d] # a
  /\ sent' = [sent EXCEPT ![c] = @ + 1]
  /\ memory' = [memory EXCEPT ![c[1]][a] = v]
  /\ var' = [var EXCEPT ![c] = a]
  /\ Goto(c, "bcast") /\ peer' = [peer EXCEPT ![c] = <<0, thread_id(c)>>]
  /\ UNCHANGED <<address, chan, lock, hand, Queues, Switch, Application, stage>>

(* The loop goes on to the next node, or the call returns.                 *)
NextNode(c) ==
  IF peer[c][1] + 1 < NumNodes
  THEN Goto(c, "bcast") /\ peer' = [peer EXCEPT ![c][1] = @ + 1]
  ELSE Goto(c, "app") /\ UNCHANGED peer

SkipOwn(c) ==
  /\ pc[c] = "bcast" /\ peer[c][1] = c[1]
  /\ NextNode(c)
  /\ UNCHANGED <<bvars, chan, lock, hand, Queues, Switch, Application, stage>>

(* send_descriptor(node, &mydata, BCAST): localarg[1] is meant to be the   *)
(* address (sendsAddress); as written it is the first word of the data.    *)
SendBroadcast(c) ==
  LET n == c[1]
      va == IF setup.sendsAddress THEN var[c] ELSE memory[n][var[c]] IN
  /\ pc[c] = "bcast" /\ peer[c][1] # n /\ Unlocked(c)
  /\ Post(n, peer[c][1], MaxNvps, Message("bcast", va, c))
  /\ Goto(c, "offer")
  /\ UNCHANGED <<bvars, lock, hand, peer, Queues, Switch, Application, stage>>

(* MPI_Ssend: the data is offered, and the call waits until it is taken.   *)
Ssend(c) ==
  LET n == c[1] IN
  /\ pc[c] = "offer" /\ Unlocked(c)
  /\ lock' = [lock EXCEPT ![n] = c]
  /\ Post(n, peer[c][1], peer[c][2], Message("data", memory[n][var[c]], c))
  /\ Goto(c, "ssend")
  /\ UNCHANGED <<bvars, hand, peer, Queues, Switch, Application, stage>>

(* Mutant: it goes to the next node before the data has been taken.        *)
SsendDone_AtOnce(c) ==
  /\ pc[c] = "ssend"
  /\ lock' = [lock EXCEPT ![c[1]] = NoThread]
  /\ NextNode(c)
  /\ UNCHANGED <<bvars, chan, hand, Queues, Switch, Application, stage>>

SsendDone(c) ==
  LET q == chan[c[1]][peer[c][1]][peer[c][2]] IN
  /\ pc[c] = "ssend"
  /\ \A i \in DOMAIN q : q[i].type # "data"
  /\ lock' = [lock EXCEPT ![c[1]] = NoThread]
  /\ NextNode(c)
  /\ UNCHANGED <<bvars, chan, hand, Queues, Switch, Application, stage>>

(* Mutant: a BCAST descriptor is taken for an unknown type and dropped.    *)
ServeBroadcast_Drops(s, n) ==
  /\ Serves(s, n, "bcast")
  /\ UNCHANGED <<bvars, pc, lock, hand, peer, Queues, Switch, Application, stage>>

(* The server waits for the data, with a comm_lock of its own.             *)
ServeBroadcast(s, n) ==
  LET msg == Head(chan[n][s[1]][MaxNvps]) IN
  /\ Serves(s, n, "bcast")
  /\ address' = [address EXCEPT ![s] = msg.body]
  /\ Goto(s, "get_data") /\ peer' = [peer EXCEPT ![s] = <<n, msg.vp>>]
  /\ UNCHANGED <<memory, var, sent, lock, hand, Queues, Switch, Application, stage>>

(* What is not the address of a variable lies outside the model.           *)
ReceiveData(s) ==
  LET n == peer[s][1]
      q == chan[n][s[1]][peer[s][2]] IN
  /\ pc[s] = "get_data" /\ q # <<>>
  /\ Take(n, s[1], peer[s][2])
  /\ memory' = IF address[s] \in Variables
               THEN [memory EXCEPT ![s[1]][address[s]] = Head(q).body] ELSE memory
  /\ Goto(s, "serve")
  /\ UNCHANGED <<var, sent, address, lock, hand, peer, Queues, Switch, Application, stage>>

-----------------------------------------------------------------------------
ClusterInit == Init /\ BroadcastInit

BroadcastStep(th) ==
  \/ th \in Creators /\ (SkipOwn(th) \/ SendBroadcast(th) \/ Ssend(th) \/ SsendDone(th))
  \/ th \in Servers /\ (ReceiveData(th) \/ \E n \in Nodes : ServeBroadcast(th, n))

ClusterStep(th) == (Step(th) /\ UNCHANGED bvars) \/ BroadcastStep(th)

ClusterNext ==
  \/ Next /\ UNCHANGED bvars
  \/ \E c \in Creators, a \in Variables, v \in Values : Broadcast(c, a, v)
  \/ \E th \in Threads : BroadcastStep(th)

(* Threads are scheduled and messages are delivered.  The application may  *)
(* stop at any point.                                                      *)
AllThreads == AllWorkers \cup {<<w[1], MaxNvps>> : w \in AllWorkers}

ClusterSpec ==
  /\ ClusterInit /\ [][ClusterNext]_cvars
  /\ \A th \in AllThreads : WF_cvars(ClusterStep(th))

-----------------------------------------------------------------------------
(* Arrived: when a broadcast has returned every node has the value, however*)
(* many broadcasts, tasks and messages overlap with it.                    *)
Arrived ==
  \A c \in Creators :
    pc[c] = "app" /\ sent[c] > 0 =>
      \A m \in Nodes : memory[m][var[c]] = memory[c[1]][var[c]]
=============================================================================
