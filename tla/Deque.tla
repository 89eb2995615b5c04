-------------------------------- MODULE Deque --------------------------------
(***************************************************************************)
(* What the users of a descriptor_queue rely on: a sequence of descriptors *)
(* that grows at either end and shrinks at the front, each call at once    *)
(* and none without effect.                                                *)
(*                                                                         *)
(* DescriptorQueue is shown to implement this specification.               *)
(***************************************************************************)
EXTENDS Sequences

CONSTANT Nodes      \* the descriptors

VARIABLES
  content,          \* the queue, from the head to the tail
  outside           \* the descriptors that have not been put in

vars == <<content, outside>>

Init == content = <<>> /\ outside = Nodes

Put(d) == d \in outside /\ outside' = outside \ {d}

PutFirst(d) == Put(d) /\ content' = <<d>> \o content

PutLast(d) == Put(d) /\ content' = Append(content, d)

TakeFirst == content # <<>> /\ content' = Tail(content) /\ UNCHANGED outside

Next == TakeFirst \/ \E d \in Nodes : PutFirst(d) \/ PutLast(d)

Spec == Init /\ [][Next]_vars
=============================================================================
