--------------------------- MODULE DescriptorQueue ---------------------------
(***************************************************************************)
(* Inside one descriptor_queue (torcc_base.h): the list that the threads   *)
(* of a node build with the pointers head_, tail_ and next.                *)
(*                                                                         *)
(* Everything under the queue's mutex is one step.  dequeue() tests head_  *)
(* before it locks, so it is two.  The prev pointers are written but never *)
(* read anywhere, and left out.  Because dequeue() keeps what it takes to  *)
(* itself (its parameter is a copy of the caller's pointer), no descriptor *)
(* enters a queue a second time: those that enter are fresh, next null.    *)
(***************************************************************************)
EXTENDS Integers, Sequences, FiniteSets

CONSTANTS
  Users,      \* the threads that use the queue
  Dequeuers,  \* those of them that may call dequeue
  Nodes,      \* the descriptors
  Null        \* the null pointer

ASSUME UsersAssumption == IsFiniteSet(Users) /\ Dequeuers \subseteq Users
ASSUME NodesAssumption == IsFiniteSet(Nodes) /\ Null \notin Nodes

VARIABLES
  dequeuers,         \* the threads that call dequeue in this execution
  head, tail, next,  \* the fields of the queue, and next of each descriptor
  locking,           \* the threads in dequeue() that saw head_ set
  fresh,             \* the descriptors that have not been in the queue
  crashed            \* TRUE: a thread has dereferenced a null pointer

vars == <<dequeuers, head, tail, next, locking, fresh, crashed>>

Init ==
  /\ dequeuers \in SUBSET Dequeuers
  /\ head = Null
  /\ tail = Null
  /\ next = [d \in Nodes |-> Null]
  /\ locking = {}
  /\ fresh = Nodes
  /\ crashed = FALSE

EnqueueHead(u, d) ==
  /\ ~crashed /\ u \notin locking /\ d \in fresh
  /\ next' = [next EXCEPT ![d] = head]
  /\ head' = d
  /\ tail' = IF head = Null THEN d ELSE tail
  /\ fresh' = fresh \ {d}
  /\ UNCHANGED <<dequeuers, locking, crashed>>

(* Mutant: the old tail is not linked to the new one.                      *)
EnqueueTail_NoLink(u, d) ==
  /\ ~crashed /\ u \notin locking /\ d \in fresh
  /\ head' = IF tail = Null THEN d ELSE head
  /\ tail' = d
  /\ fresh' = fresh \ {d}
  /\ UNCHANGED <<dequeuers, next, locking, crashed>>

EnqueueTail(u, d) ==
  /\ ~crashed /\ u \notin locking /\ d \in fresh
  /\ head' = IF tail = Null THEN d ELSE head
  /\ next' = IF tail = Null THEN next ELSE [next EXCEPT ![tail] = d]
  /\ tail' = d
  /\ fresh' = fresh \ {d}
  /\ UNCHANGED <<dequeuers, locking, crashed>>

(* Mutant: the test of head_ is missing.                                   *)
DequeueTest_Missing(u) ==
  /\ ~crashed /\ u \in dequeuers \ locking
  /\ locking' = locking \cup {u}
  /\ UNCHANGED <<dequeuers, head, tail, next, fresh, crashed>>

(* if (head_), without the lock; if it is null, dequeue() does nothing.    *)
DequeueTest(u) ==
  /\ ~crashed /\ u \in dequeuers \ locking
  /\ head # Null
  /\ locking' = locking \cup {u}
  /\ UNCHANGED <<dequeuers, head, tail, next, fresh, crashed>>

(* Mutant: the tail pointer is not reset when the queue becomes empty.     *)
DequeueTake_KeepsTail(u) ==
  /\ ~crashed /\ u \in locking
  /\ IF head = Null
       THEN crashed' = TRUE /\ UNCHANGED <<head, tail>>
       ELSE head' = next[head] /\ UNCHANGED <<tail, crashed>>
  /\ locking' = locking \ {u}
  /\ UNCHANGED <<dequeuers, next, fresh>>

(* With the lock: the head is unlinked.  If another thread has emptied the *)
(* queue since the test, head_->next dereferences a null pointer.          *)
DequeueTake(u) ==
  /\ ~crashed /\ u \in locking
  /\ IF head = Null
       THEN crashed' = TRUE /\ UNCHANGED <<head, tail>>
       ELSE /\ head' = next[head]
            /\ tail' = IF next[head] = Null THEN Null ELSE tail
            /\ UNCHANGED crashed
  /\ locking' = locking \ {u}
  /\ UNCHANGED <<dequeuers, next, fresh>>

Next ==
  \E u \in Users :
    \/ DequeueTest(u) \/ DequeueTake(u)
    \/ \E d \in Nodes : EnqueueHead(u, d) \/ EnqueueTail(u, d)

Spec == Init /\ [][Next]_vars

(***************************************************************************)
(* Properties.                                                             *)
(***************************************************************************)

(* Where one gets to from head_ along the next pointers, in as many steps  *)
(* as there are descriptors.                                               *)
Walk[i \in 1 .. Cardinality(Nodes) + 1] ==
  IF i = 1 THEN head
  ELSE IF Walk[i - 1] = Null THEN Null ELSE next[Walk[i - 1]]

Content ==
  LET length == Cardinality({i \in 1 .. Cardinality(Nodes) + 1 : Walk[i] # Null})
  IN  [i \in 1 .. length |-> Walk[i]]

(* The pointers form one list: it ends in null, at the descriptor that     *)
(* tail_ points to, it visits no descriptor twice and none that has not    *)
(* been put in.  Both ends change under the lock, and they change          *)
(* differently when the list is empty or has one element.                  *)
ListShape ==
  LET s == Content
      n == Len(s) IN
  /\ n = 0 <=> head = Null
  /\ n = 0 <=> tail = Null
  /\ n > 0 => s[n] = tail /\ next[s[n]] = Null
  /\ \A i, j \in 1 .. n : s[i] = s[j] => i = j
  /\ \A i \in 1 .. n : s[i] \notin fresh

(* The list is a queue: what goes in at one end comes out in order.        *)
D == INSTANCE Deque WITH content <- Content, outside <- fresh
RefinesDeque == D!Spec

(* Where one thread alone takes descriptors out, dequeue() never           *)
(* dereferences a null pointer, whoever puts descriptors in meanwhile.     *)
NoNullDeref == Cardinality(dequeuers) <= 1 => ~crashed
=============================================================================
