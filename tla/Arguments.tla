------------------------------ MODULE Arguments ------------------------------
(***************************************************************************)
(* The arguments of one task: how the four calls that create a task store  *)
(* them in the descriptor (torcc.cpp), how they follow the task from node  *)
(* to node (send_arguments and receive_arguments, torcc_comm.cpp), what    *)
(* the task's function finds in them (core_execution, torcc_runtime.cpp)   *)
(* and how results come back (ANSWER, torcc_comm.cpp, torcc_server.cpp).   *)
(*                                                                         *)
(* Memory is a set of cells: the caller's variables, the private copies    *)
(* made on the home node and the buffers allocated where a task arrives.   *)
(* A word of the descriptor is a value or the address of a cell.  A cell   *)
(* holds "in" (what the caller passed), "out" (the result), "changed" (the *)
(* caller assigned to its variable later), "scratch" (the task wrote to an *)
(* argument that is its own), "zero" or "freed".                           *)
(***************************************************************************)
EXTENDS Integers, Sequences

CONSTANTS
  Nodes, Home,
  NArgs,       \* the number of arguments of the task
  MaxHops      \* a bound on the transfers of the task between nodes

ASSUME ArgumentsAssumption ==
  Home \in Nodes /\ NArgs \in Nat \ {0} /\ MaxHops \in Nat

VARIABLES
  call,      \* the call that created the task
  at,        \* the phase the task is in and the node where that is
  arg,       \* the arguments in the descriptor: callway, quantity, localarg, temparg
  todo,      \* the argument that the receiver's loop has reached
  out,       \* the sender: its copy of the arguments and the one its loop has reached
  chan,      \* the argument messages of the transfer under way
  mem,       \* the contents of the cells
  frees,     \* how often each cell was freed
  hops,      \* transfers so far
  seen,      \* history: what the task's function found
  satisfied  \* dep_satisfy was called for the parent

vars == <<call, at, arg, todo, out, chan, mem, frees, hops, seen, satisfied>>

Args == 1 .. NArgs
End == NArgs + 1          \* where a loop over the arguments ends

(* CALL_BY_VAL is the same constant as CALL_BY_COP.                        *)
Callways == {"COP", "REF", "RES", "PTR"}
Quantities == {0, 1, 2}      \* none, one, several elements

Var(i) == <<"var", i>>
Copy(i) == <<"copy", i>>
Temp(i, h) == <<"temp", i, h>>
Cells == {Var(i) : i \in Args} \cup {Copy(i) : i \in Args}
           \cup {Temp(i, h) : i \in Args, h \in 1 .. MaxHops}
Val(x) == <<"val", x>>
Null == <<"null">>

Idle == [kind |-> "none", arg |-> <<>>, todo |-> End, from |-> Home]

Init ==
  /\ call = "none"
  /\ at = [phase |-> "none", node |-> Home]
  /\ arg = <<>>
  /\ todo = End
  /\ out = Idle
  /\ chan = <<>>
  /\ mem = [c \in Cells |-> IF c[1] = "var" THEN "in" ELSE "zero"]
  /\ frees = [c \in Cells |-> 0]
  /\ hops = 0
  /\ seen = [i \in Args |-> "none"]
  /\ satisfied = FALSE

(***************************************************************************)
(* Creation.                                                               *)
(***************************************************************************)

(* One argument: a single element by copy goes into the descriptor, several*)
(* are copied to a cell of their own, an argument without elements stays 0,*)
(* everything else is the caller's address.                                *)
Marshal(i, way, q) ==
  [way |-> IF way = "COP" /\ q > 1 THEN "COP2" ELSE way,
   quantity |-> q,
   local |-> IF q = 0 THEN Null
             ELSE IF way # "COP" THEN Var(i)
             ELSE IF q = 1 THEN Val(mem[Var(i)])
             ELSE Copy(i),
   temp |-> Null]

Create(how, ways, qs) ==
  /\ at.phase = "none"
  /\ call' = how
  /\ arg' = [i \in Args |-> Marshal(i, ways[i], qs[i])]
  /\ mem' = [c \in Cells |->
               IF c[1] = "copy" /\ arg'[c[2]].local = c THEN mem[Var(c[2])] ELSE mem[c]]
  /\ at' = [phase |-> "place", node |-> Home]
  /\ UNCHANGED <<todo, out, chan, frees, hops, seen, satisfied>>

Task(ways, qs) == Create("task", ways, qs)
TaskEx(ways, qs) == Create("task_ex", ways, qs)
TaskDirect(ways, qs) == Create("task_direct", ways, qs)
TaskDetached(ways, qs) == Create("task_detached", ways, qs)

(* The application goes on and assigns to a variable it passed by copy.    *)
CallerChanges(i) ==
  /\ at.phase \notin {"none", "place"}
  /\ arg[i].way \in {"COP", "COP2"}
  /\ mem[Var(i)] = "in"
  /\ mem' = [mem EXCEPT ![Var(i)] = "changed"]
  /\ UNCHANGED <<call, at, arg, todo, out, chan, frees, hops, seen, satisfied>>

(***************************************************************************)
(* Placement and transfer.                                                 *)
(***************************************************************************)

(* The queue of the own node: read_arguments.                              *)
PlaceHere ==
  /\ at.phase = "place"
  /\ arg' = [i \in Args |-> [arg[i] EXCEPT !.temp = arg[i].local]]
  /\ at' = [at EXCEPT !.phase = "queue"]
  /\ UNCHANGED <<call, todo, out, chan, mem, frees, hops, seen, satisfied>>

(* A message to the server of node m (placement or prefetch), or to a      *)
(* thief on m that asked for it.  Nothing follows a task that comes home.  *)
Send(phase, m) ==
  /\ hops < MaxHops
  /\ m # at.node
  /\ hops' = hops + 1
  /\ at' = [phase |-> phase, node |-> m]
  /\ out.todo = End
  /\ out' = [kind |-> "arguments", arg |-> arg, from |-> at.node,
             todo |-> IF m = Home THEN End ELSE 1]
  /\ UNCHANGED <<call, arg, todo, chan, mem, frees, seen, satisfied>>

SendDescriptor(m) == at.phase = "place" /\ Send("enqueued", m)
Prefetch(m) == at.phase = "queue" /\ Send("enqueued", m)
DirectSendDescriptor(m) == at.phase = "queue" /\ Send("stolen", m)

(* Mutant: PTR is forgotten.                                               *)
Sent_NotPtr(a) ==
  /\ a.quantity # 0
  /\ \/ a.way = "COP" /\ a.quantity # 1
     \/ a.way \in {"REF", "COP2"}

(* send_arguments: the loop body for the next argument.  On the home node  *)
(* the data is at localarg, elsewhere at temparg.                          *)
Sent(a) ==
  /\ a.quantity # 0
  /\ \/ a.way = "COP" /\ a.quantity # 1
     \/ a.way \in {"REF", "PTR", "COP2"}

SendArguments ==
  LET i == out.todo
      a == out.arg[i]
      from == IF out.from = Home THEN a.local ELSE a.temp IN
  /\ out.kind = "arguments" /\ i # End
  /\ out' = [out EXCEPT !.todo = @ + 1]
  /\ chan' = IF Sent(a) THEN Append(chan, [arg |-> i, data |-> mem[from]]) ELSE chan
  /\ UNCHANGED <<call, at, arg, todo, mem, frees, hops, seen, satisfied>>

(* The descriptor arrives; on its home node no argument is received.       *)
ReceiveDescriptor ==
  /\ at.phase \in {"enqueued", "stolen"}
  /\ IF at.node = Home
     THEN /\ at' = [at EXCEPT !.phase = IF at.phase = "stolen" THEN "execute" ELSE "queue"]
          /\ UNCHANGED todo
     ELSE /\ at' = [at EXCEPT !.phase = IF at.phase = "stolen" THEN "receive_stolen" ELSE "receive"]
          /\ todo' = 1
  /\ UNCHANGED <<call, arg, out, chan, mem, frees, hops, seen, satisfied>>

(* receive_arguments: the loop body for the next argument.                 *)
HasBuffer(a) == a.quantity > 1 \/ (a.quantity = 1 /\ a.way # "COP")
Receives(a) == HasBuffer(a) /\ a.way # "RES"

ReceiveArguments ==
  LET i == todo
      a == arg[i]
      receives == Receives(a) IN
  /\ at.phase \in {"receive", "receive_stolen"}
  /\ i # End
  /\ receives => chan # <<>>
  /\ todo' = i + 1
  /\ arg' = [arg EXCEPT ![i].temp = IF HasBuffer(a) THEN Temp(i, hops)
                                    ELSE IF a.quantity = 0 THEN @ ELSE a.local]
  /\ mem' = IF receives THEN [mem EXCEPT ![Temp(i, hops)] = Head(chan).data] ELSE mem
  /\ chan' = IF receives THEN Tail(chan) ELSE chan
  /\ UNCHANGED <<call, at, out, frees, hops, seen, satisfied>>

(* All arguments are there: a thief executes the task, and so does the     *)
(* server a task created by task_direct; any other task goes to a queue.   *)
Received ==
  /\ at.phase \in {"receive", "receive_stolen"}
  /\ todo = End
  /\ at' = [at EXCEPT !.phase =
              IF @ = "receive_stolen" \/ call = "task_direct" THEN "execute" ELSE "queue"]
  /\ UNCHANGED <<call, arg, todo, out, chan, mem, frees, hops, seen, satisfied>>

Dequeue ==
  /\ at.phase = "queue"
  /\ at' = [at EXCEPT !.phase = "execute"]
  /\ UNCHANGED <<call, arg, todo, out, chan, mem, frees, hops, seen, satisfied>>

(***************************************************************************)
(* Execution and completion.                                               *)
(***************************************************************************)

(* Mutant: always the words of the home node.                              *)
Word_Local(i) == arg[i].local

(* core_execution: the words the task's function is called with.  By copy, *)
(* it is given the address of the word itself.                             *)
Word(i) == IF at.node = Home THEN arg[i].local ELSE arg[i].temp

(* An address means something on the node that has the cell only.          *)
OnThisNode(c) ==
  IF at.node = Home THEN c[1] # "temp" ELSE c[1] = "temp" /\ c[3] = hops

Content(w) ==
  IF w = Null THEN "none"
  ELSE IF w[1] = "val" THEN w[2]
  ELSE IF OnThisNode(w) THEN mem[w] ELSE "wild"

(* The function reads its arguments, assigns the results and may use its   *)
(* copies as scratch space.                                                *)
CoreExecution ==
  LET writes(i, c) == arg[i].quantity > 0 /\ Word(i) = c /\ OnThisNode(c) IN
  /\ at.phase = "execute"
  /\ seen' = [i \in Args |-> Content(Word(i))]
  /\ mem' = [c \in Cells |->
               IF \E i \in Args : writes(i, c) /\ arg[i].way \in {"REF", "RES"} THEN "out"
               ELSE IF \E i \in Args : writes(i, c) /\ arg[i].way = "COP2" THEN "scratch"
               ELSE mem[c]]
  /\ at' = [at EXCEPT !.phase = "executed"]
  /\ UNCHANGED <<call, arg, todo, out, chan, frees, hops, satisfied>>

Free(c) == /\ frees' = [frees EXCEPT ![c] = @ + 1]
           /\ mem' = [mem EXCEPT ![c] = "freed"]

FreeAll(cells) ==
  /\ frees' = [c \in Cells |-> IF c \in cells THEN frees[c] + 1 ELSE frees[c]]
  /\ mem' = [c \in Cells |-> IF c \in cells THEN "freed" ELSE mem[c]]

Copies == {arg[i].local : i \in {j \in Args : arg[j].way = "COP2" /\ arg[j].quantity > 0}}

(* Mutant: the copies are left to the ANSWER, which a local task never has. *)
CleanupHome_NoFree ==
  /\ at.phase = "executed" /\ at.node = Home
  /\ satisfied' = (call # "task_detached")
  /\ at' = [at EXCEPT !.phase = "done"]
  /\ UNCHANGED <<call, arg, todo, out, chan, mem, frees, hops, seen>>

(* cleanup on the home node frees the copies and satisfies the parent.     *)
CleanupHome ==
  /\ at.phase = "executed" /\ at.node = Home
  /\ FreeAll(Copies)
  /\ satisfied' = (call # "task_detached")
  /\ at' = [at EXCEPT !.phase = "done"]
  /\ UNCHANGED <<call, arg, todo, out, chan, hops, seen>>

(* cleanup elsewhere, and the server after a direct task: the descriptor   *)
(* goes home as an ANSWER.                                                 *)
SendAnswer ==
  /\ at.phase = "executed" /\ at.node # Home
  /\ out.todo = End
  /\ out' = [kind |-> "results", arg |-> arg, from |-> at.node, todo |-> 1]
  /\ at' = [phase |-> "answer", node |-> Home]
  /\ UNCHANGED <<call, arg, todo, chan, mem, frees, hops, seen, satisfied>>

IsResult(a) == a.quantity # 0 /\ a.way \in {"REF", "RES"}

(* send_descriptor's loop for an ANSWER: copies are freed, results sent,   *)
(* and the buffer of a result of several elements is freed.                *)
SendResults ==
  LET i == out.todo
      a == out.arg[i]
      result == IsResult(a) IN
  /\ out.kind = "results" /\ i # End
  /\ out' = [out EXCEPT !.todo = @ + 1]
  /\ chan' = IF result THEN Append(chan, [arg |-> i, data |-> mem[a.temp]]) ELSE chan
  /\ IF a.quantity > 1 /\ a.way \in {"COP2", "REF", "RES"}
     THEN Free(a.temp) ELSE UNCHANGED <<mem, frees>>
  /\ UNCHANGED <<call, at, arg, todo, hops, seen, satisfied>>

(* The home node's server: it receives the results into the caller's       *)
(* variables one after the other, ...                                      *)
ReceiveAnswer ==
  /\ at.phase = "answer"
  /\ at' = [at EXCEPT !.phase = "results"]
  /\ todo' = 1
  /\ UNCHANGED <<call, arg, out, chan, mem, frees, hops, seen, satisfied>>

ReceiveResult ==
  LET a == arg[todo]
      result == IsResult(a) IN
  /\ at.phase = "results"
  /\ todo # End
  /\ result => chan # <<>>
  /\ mem' = IF result THEN [mem EXCEPT ![a.local] = Head(chan).data] ELSE mem
  /\ chan' = IF result THEN Tail(chan) ELSE chan
  /\ todo' = todo + 1
  /\ UNCHANGED <<call, at, arg, out, frees, hops, seen, satisfied>>

(* Mutant: the parent is satisfied before the results are there.           *)
Answered_Early ==
  /\ at.phase = "results"
  /\ FreeAll(Copies)
  /\ satisfied' = (call # "task_detached")
  /\ at' = [at EXCEPT !.phase = "done"]
  /\ UNCHANGED <<call, arg, todo, out, chan, hops, seen>>

(* ... then frees the copies and satisfies the parent, if there is one.    *)
Answered ==
  /\ at.phase = "results"
  /\ todo = End
  /\ FreeAll(Copies)
  /\ satisfied' = (call # "task_detached")
  /\ at' = [at EXCEPT !.phase = "done"]
  /\ UNCHANGED <<call, arg, todo, out, chan, hops, seen>>

Creation == \E ways \in [Args -> Callways], qs \in [Args -> Quantities] :
  Task(ways, qs) \/ TaskEx(ways, qs) \/ TaskDirect(ways, qs) \/ TaskDetached(ways, qs)

Runtime ==
  \/ PlaceHere
  \/ \E m \in Nodes : SendDescriptor(m) \/ Prefetch(m) \/ DirectSendDescriptor(m)
  \/ SendArguments \/ ReceiveDescriptor \/ ReceiveArguments \/ Received \/ Dequeue
  \/ CoreExecution \/ CleanupHome \/ SendAnswer
  \/ SendResults \/ ReceiveAnswer \/ ReceiveResult \/ Answered

Next == Creation \/ Runtime \/ \E i \in Args : CallerChanges(i)

Spec == Init /\ [][Next]_vars

-----------------------------------------------------------------------------
(* SeesCallerData: wherever a task is executed and however often it was    *)
(* moved, its function finds what the caller passed when it created the    *)
(* task, also if the caller has changed a variable passed by copy since.   *)
SeesCallerData ==
  at.phase = "executed" =>
    \A i \in Args : arg[i].quantity > 0 /\ arg[i].way # "RES" => seen[i] = "in"

(* ResultsBeforeJoin: when the parent's counter is decremented, all results*)
(* are in the caller's variables, and nothing else of the caller was       *)
(* written by the task.                                                    *)
ResultsBeforeJoin ==
  satisfied => \A i \in Args : arg[i].quantity > 0 =>
    IF arg[i].way \in {"REF", "RES"} THEN mem[Var(i)] = "out"
    ELSE mem[Var(i)] \in {"in", "changed"}

(* The arguments whose messages the receiving loop has still to take.      *)
Awaited ==
  IF at.phase \in {"enqueued", "stolen"} /\ at.node # Home
  THEN {i \in Args : Receives(arg[i])}
  ELSE IF at.phase \in {"receive", "receive_stolen"}
  THEN {i \in Args : i >= todo /\ Receives(arg[i])}
  ELSE IF at.phase = "answer" THEN {i \in Args : IsResult(arg[i])}
  ELSE IF at.phase = "results" THEN {i \in Args : i >= todo /\ IsResult(arg[i])} ELSE {}

(* PayloadMatches: sender and receiver decide separately which arguments   *)
(* travel, and agree: the messages under way are the next ones that the    *)
(* receiver's loop takes, in its order, and none is left over when the     *)
(* task is queued, executed or answered.                                   *)
PayloadMatches ==
  \A k \in 1 .. Len(chan) :
    /\ chan[k].arg \in Awaited
    /\ {i \in Awaited : i < chan[k].arg} = {chan[l].arg : l \in 1 .. k - 1}

(* CopiesFreedOnce: a private copy made by the home node is freed exactly  *)
(* once, on the path through cleanup or on the path through the ANSWER,    *)
(* and no buffer is freed twice.                                           *)
CopiesFreedOnce ==
  /\ \A c \in Cells : frees[c] <= 1 /\ (c[1] = "var" => frees[c] = 0)
  /\ at.phase = "done" => \A c \in Copies : frees[c] = 1
=============================================================================
