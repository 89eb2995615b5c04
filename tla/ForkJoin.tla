------------------------------ MODULE ForkJoin ------------------------------
(***************************************************************************)
(* What torc promises an application about its tasks, without saying how:  *)
(* a task is started at most once, it finishes at most once, and the call  *)
(* that waits for children (torc::wait_all and its two variants) comes     *)
(* back only when every child spawned so far has finished.                 *)
(*                                                                         *)
(* TaskRuntime is shown to implement this specification.                   *)
(***************************************************************************)
CONSTANTS
  Roots,      \* the activities that exist from the start: one per worker thread
  Tasks,      \* the tasks that may be spawned
  NoParent,   \* the parent of a detached task
  Structured  \* TRUE: a task returns only after it has joined its children

VARIABLES
  status,     \* status[t]: how far task t has come
  parent,     \* parent[t]: the activity that spawned t
  joining     \* the activities inside a wait call

vars == <<status, parent, joining>>

Activities == Roots \cup Tasks

Status == {"none", "spawned", "active", "finished"}

TypeOK ==
  /\ status \in [Tasks -> Status]
  /\ parent \in [Tasks -> Activities \cup {NoParent}]
  /\ joining \in SUBSET Activities

(* An activity executes application code: it may spawn, join or return.    *)
Running(a) ==
  /\ a \in Roots \/ status[a] = "active"
  /\ a \notin joining

(* Every child that a has spawned has finished.                            *)
ChildrenFinished(a) ==
  \A t \in Tasks : parent[t] = a => status[t] = "finished"

Init ==
  /\ status = [t \in Tasks |-> "none"]
  /\ parent = [t \in Tasks |-> NoParent]
  /\ joining = {}

Spawn(a, t, p) ==
  /\ Running(a)
  /\ p \in {a, NoParent}
  /\ status[t] = "none"
  /\ status' = [status EXCEPT ![t] = "spawned"]
  /\ parent' = [parent EXCEPT ![t] = p]
  /\ UNCHANGED joining

Start(t) ==
  /\ status[t] = "spawned"
  /\ status' = [status EXCEPT ![t] = "active"]
  /\ UNCHANGED <<parent, joining>>

Join(a) ==
  /\ Running(a)
  /\ joining' = joining \cup {a}
  /\ UNCHANGED <<status, parent>>

Joined(a) ==
  /\ a \in joining
  /\ ChildrenFinished(a)
  /\ joining' = joining \ {a}
  /\ UNCHANGED <<status, parent>>

Finish(t) ==
  /\ status[t] = "active"
  /\ t \notin joining
  /\ Structured => ChildrenFinished(t)
  /\ status' = [status EXCEPT ![t] = "finished"]
  /\ UNCHANGED <<parent, joining>>

Next ==
  \/ \E a \in Activities : Join(a) \/ Joined(a)
  \/ \E a \in Activities, t \in Tasks, p \in Activities \cup {NoParent} : Spawn(a, t, p)
  \/ \E t \in Tasks : Start(t) \/ Finish(t)

Spec == Init /\ [][Next]_vars
=============================================================================
