-------------------------- MODULE TaskRuntimeProofs --------------------------
(***************************************************************************)
(* Proofs about TaskRuntime, for every number of workers, tasks and queue  *)
(* levels, every set of API calls, and both values of the two switches.    *)
(*                                                                         *)
(* IInv is inductive: each of its six conjuncts is preserved by a step of  *)
(* a worker (TypeStep ... CountStep).  Most actions only move the          *)
(* descriptor on top of one worker's stack (Local); what such a move       *)
(* leaves alone is said once, in the Frame lemmas.                         *)
(***************************************************************************)
EXTENDS TaskRuntime, Facts

(***************************************************************************)
(* The names of places and callers, and what the helpers return.           *)
(***************************************************************************)
LEMMA PlaceNames ==
  /\ "run" \in Places /\ "token" \in Places /\ "added" \in Places /\ "found" \in Places
  /\ "idle" \in Places /\ "poll" \in Places /\ "repoll" \in Places /\ "blocked" \in Places
  /\ "recheck" \in Places /\ "spin" \in Places /\ "exec" \in Places /\ "unborn" \in Places
  /\ "new" \in Places /\ "queued" \in Places /\ "held" \in Places /\ "lost" \in Places
  /\ "done" \in Places
BY DEF Places, Active, TopStates, Scanning, Waiting, Dormant

LEMMA TopNames ==
  /\ "run" \in TopStates /\ "token" \in TopStates /\ "added" \in TopStates
  /\ "found" \in TopStates /\ "idle" \in TopStates /\ "poll" \in TopStates
  /\ "repoll" \in TopStates /\ "blocked" \in TopStates /\ "recheck" \in TopStates
  /\ "spin" \in TopStates
  /\ "exec" \notin TopStates /\ "unborn" \notin TopStates /\ "new" \notin TopStates
  /\ "queued" \notin TopStates /\ "held" \notin TopStates /\ "lost" \notin TopStates
  /\ "done" \notin TopStates
  /\ Active = TopStates \cup {"exec"}
BY DEF Active, TopStates, Scanning, Waiting

LEMMA CallerNames ==
  /\ "none" \in Callers /\ "worker" \in Callers /\ "block" \in Callers
  /\ "block2" \in Callers /\ "once" \in Callers /\ "fetch" \in Callers
BY DEF Callers

LEMMA QueueIndexType == \A l \in Nat : QueueIndex(l) \in Queues
BY NumLevelsAssumption DEF QueueIndex, Queues

LEMMA QueuesType == PrivateQ \in Queues /\ \A q \in Queues : q > 0 => q - 1 \in Queues
BY NumLevelsAssumption DEF PrivateQ, Queues

LEMMA TopType ==
  ASSUME IInv, NEW w \in Workers
  PROVE  /\ curr[w] \in Descriptors
         /\ pc[curr[w]] \in TopStates
         /\ pc[curr[w]] \in {"token", "added", "found"} => rte[w] \in Tasks
         /\ curr[w] \in Tasks => me[curr[w]] \in Descriptors /\ pc[me[curr[w]]] = "exec"
BY DEF IInv, TypeOK, StackInv, HandsInv, Active

(* A search that found nothing in a queue either looks at the next one or  *)
(* ends; then d is where NothingFound says.                                *)
LEMMA NextQueueEffect ==
  ASSUME NEW w, NEW now, NextQueue(w, now)
  PROVE  \/ pc' = now /\ caller' = caller
         \/ /\ pc' = [now EXCEPT ![curr[w]] = NothingFound(curr[w])]
            /\ caller' = [caller EXCEPT ![curr[w]] =
                            IF NothingFound(curr[w]) = "run" THEN "none" ELSE @]
BY DEF NextQueue

(***************************************************************************)
(* Types.                                                                  *)
(***************************************************************************)
LEMMA NextQueueType ==
  ASSUME TypeOK, NEW w \in Workers, NEW now, NextQueue(w, now), now \in [Descriptors -> Places]
  PROVE  /\ pc' \in [Descriptors -> Places]
         /\ cursor' \in [Workers -> Queues]
         /\ caller' \in [Descriptors -> Callers]
<1> DEFINE next == NothingFound(curr[w])
<1>1. CASE cursor[w] > 0
  BY <1>1, QueuesType DEF NextQueue, TypeOK
<1>2. CASE ~(cursor[w] > 0)
  <2>1. next \in Places
    BY PlaceNames DEF NothingFound
  <2>2. /\ pc' = [now EXCEPT ![curr[w]] = next]
        /\ cursor' = [cursor EXCEPT ![w] = PrivateQ]
        /\ caller' = caller \/ caller' = [caller EXCEPT ![curr[w]] = "none"]
    BY <1>2 DEF NextQueue, TypeOK
  <2> HIDE DEF next
  <2> QED BY <2>1, <2>2, QueuesType, CallerNames DEF TypeOK
<1> QED BY <1>1, <1>2

LEMMA TypeStep ==
  ASSUME IInv, NEW w \in Workers, Step(w)
  PROVE  TypeOK'
<1> DEFINE d == curr[w]
<1>a. TypeOK
  BY DEF IInv
<1>b. /\ d \in Descriptors
      /\ pc[d] \in {"token", "added", "found"} => rte[w] \in Tasks
      /\ d \in Tasks => me[d] \in Descriptors
  BY TopType
<1>1. CASE DepAdd(w)
  BY <1>1, <1>a, PlaceNames DEF DepAdd, TypeOK
<1>2. CASE ToRqEnd(w)
  <2> DEFINE l == level[curr[w]] + 1
  <2>1. l \in Nat /\ QueueIndex(l) \in Queues
    BY <1>a, QueueIndexType DEF TypeOK
  <2>2. rte[w] \in Tasks
    BY <1>2, <1>b DEF ToRqEnd
  <2>3. queue' \in [Queues -> Seq(Tasks)]
    BY <1>2, <1>a, <2>1, <2>2 DEF ToRqEnd, TypeOK
  <2>4. pc' \in [Descriptors -> Places]
    BY <1>2, <1>a, PlaceNames DEF ToRqEnd, TypeOK
  <2>5. level' \in [Descriptors -> Nat] /\ parent' \in [Tasks -> Descriptors \cup {NoDesc}]
    BY <1>2, <1>a, <1>b, <2>1 DEF ToRqEnd, TypeOK
  <2> QED BY <1>2, <1>a, <2>3, <2>4, <2>5 DEF ToRqEnd, TypeOK
<1>3. ASSUME NEW t \in Tasks, Task(w, t) PROVE TypeOK'
  <2>1. ndep' \in [Descriptors -> Int]
    BY <1>3, <1>a DEF Task, TypeOK
  <2>2. pc' \in [Descriptors -> Places]
    BY <1>3, <1>a, PlaceNames DEF Task, TypeOK
  <2>3. unjoined' \in SUBSET Descriptors
    BY <1>3, <1>a DEF Task, TypeOK
  <2> QED BY <1>3, <1>a, <2>1, <2>2, <2>3 DEF Task, TypeOK
<1>4. ASSUME NEW t \in Tasks, TaskDetached(w, t) PROVE TypeOK'
  <2>1. queue' \in [Queues -> Seq(Tasks)]
    BY <1>4, <1>a, QueueIndexType DEF TaskDetached, TypeOK
  <2>2. pc' \in [Descriptors -> Places]
    BY <1>4, <1>a, PlaceNames DEF TaskDetached, TypeOK
  <2> QED BY <1>4, <1>a, <2>1, <2>2 DEF TaskDetached, TypeOK
<1>5. ASSUME NEW call, NEW c \in {"block", "block2"}, GiveTokenBack(w, call, c) PROVE TypeOK'
  <2>1. ndep' \in [Descriptors -> Int]
    BY <1>5, <1>a DEF GiveTokenBack, TypeOK
  <2>2. caller' \in [Descriptors -> Callers] /\ pc' \in [Descriptors -> Places]
    BY <1>5, <1>a, PlaceNames, CallerNames DEF GiveTokenBack, TypeOK
  <2> QED BY <1>5, <1>a, <2>1, <2>2 DEF GiveTokenBack, TypeOK
<1>6. CASE WaitAll3(w)
  BY <1>6, <1>a, PlaceNames DEF WaitAll3, TypeOK
<1>7. CASE SpinDone(w)
  BY <1>7, <1>a, PlaceNames, CallerNames DEF SpinDone, Return, TypeOK
<1>18. CASE BlockDone(w)
  BY <1>18, <1>a, PlaceNames, CallerNames DEF BlockDone, Return, TypeOK
<1>8. CASE BlockOn(w)
  BY <1>8, <1>a, PlaceNames, QueuesType DEF BlockOn, EnterScheduler, TypeOK
<1>9. CASE Block2Peek(w)
  BY <1>9, <1>a, PlaceNames, QueuesType DEF Block2Peek, EnterScheduler, TypeOK
<1>10. CASE Block2Recheck(w)
  <2>1. CASE ndep[d] <= 0
    <3>1. caller' \in [Descriptors -> Callers] /\ pc' \in [Descriptors -> Places]
      BY <1>10, <2>1, <1>a, PlaceNames, CallerNames DEF Block2Recheck, Return, TypeOK
    <3>2. ndep' \in [Descriptors -> Int] /\ unjoined' \in SUBSET Descriptors
      BY <1>10, <2>1, <1>a DEF Block2Recheck, Return, TypeOK
    <3> QED BY <1>10, <2>1, <1>a, <3>1, <3>2 DEF Block2Recheck, TypeOK
  <2>2. CASE ~(ndep[d] <= 0)
    BY <1>10, <2>2, <1>a, PlaceNames, QueuesType DEF Block2Recheck, EnterScheduler, TypeOK
  <2> QED BY <2>1, <2>2
<1>11. CASE Block2Idle(w)
  <2>1. CASE ndep[d] = 0
    BY <1>11, <2>1, <1>a, PlaceNames, CallerNames DEF Block2Idle, Return, TypeOK
  <2>2. CASE ndep[d] # 0
    BY <1>11, <2>2, <1>a, PlaceNames DEF Block2Idle, TypeOK
  <2> QED BY <2>1, <2>2
<1>12. ASSUME NEW call, NEW c \in {"once", "fetch"}, EnterFrom(w, call, c) PROVE TypeOK'
  BY <1>12, <1>a, PlaceNames, CallerNames, QueuesType DEF EnterFrom, EnterScheduler, TypeOK
<1>13. CASE DequeueEmpty(w)
  <2>1. pc \in [Descriptors -> Places]
    BY <1>a DEF TypeOK
  <2> QED BY <1>13, <1>a, <2>1, NextQueueType DEF DequeueEmpty, TypeOK
<1>14. CASE Dequeue(w) \/ DequeueDrop(w)
  <2> DEFINE q == queue[cursor[w]]
  <2>1. q \in Seq(Tasks) /\ q # <<>>
    BY <1>14, <1>a DEF Dequeue, DequeueDrop, TypeOK
  <2>2. Head(q) \in Tasks /\ Tail(q) \in Seq(Tasks)
    BY <2>1
  <2>3. queue' \in [Queues -> Seq(Tasks)]
    BY <1>14, <1>a, <2>2 DEF Dequeue, DequeueDrop, TypeOK
  <2>4. CASE Dequeue(w)
    <3>1. pc' \in [Descriptors -> Places]
      BY <2>4, <1>a, PlaceNames DEF Dequeue, TypeOK
    <3> QED BY <2>4, <1>a, <2>2, <2>3, <3>1 DEF Dequeue, TypeOK
  <2>5. CASE DequeueDrop(w)
    <3>1. [pc EXCEPT ![Head(q)] = "lost"] \in [Descriptors -> Places]
      BY <1>a, PlaceNames DEF TypeOK
    <3> QED BY <2>5, <1>a, <2>3, <3>1, NextQueueType DEF DequeueDrop, TypeOK
  <2> QED BY <1>14, <2>4, <2>5
<1>15. CASE FetchPut(w)
  <2>1. rte[w] \in Tasks
    BY <1>15, <1>b DEF FetchPut
  <2>2. queue' \in [Queues -> Seq(Tasks)]
    BY <1>15, <1>a, <2>1, QueuesType DEF FetchPut, TypeOK
  <2>3. pc' \in [Descriptors -> Places]
    BY <1>15, <1>a, PlaceNames DEF FetchPut, TypeOK
  <2> QED BY <1>15, <1>a, <2>2, <2>3, CallerNames DEF FetchPut, TypeOK
<1>16. CASE Execute(w)
  BY <1>16, <1>a, <1>b, PlaceNames DEF Execute, TypeOK, Descriptors
<1>17. CASE Finish(w)
  <2>1. d \in Tasks /\ me[d] \in Descriptors
    BY <1>17, <1>b DEF Finish
  <2>2. ndep' \in [Descriptors -> Int]
    BY <1>17, <1>a DEF Finish, TypeOK
  <2>3. AfterWork(caller[me[d]]) \in Places
    BY PlaceNames DEF AfterWork
  <2>4. pc' \in [Descriptors -> Places]
    BY <1>17, <1>a, <2>3, PlaceNames DEF Finish, TypeOK
  <2>5. caller' \in [Descriptors -> Callers]
    BY <1>17, <1>a, CallerNames DEF Finish, TypeOK
  <2> QED BY <1>17, <1>a, <2>1, <2>2, <2>4, <2>5, QueuesType DEF Finish, TypeOK
<1> QED
  BY <1>1, <1>2, <1>3, <1>4, <1>5, <1>6, <1>7, <1>8, <1>9, <1>10, <1>11, <1>12, <1>13,
     <1>14, <1>15, <1>16, <1>17, <1>18
  DEF Step, Creates, Waits, Schedules, WaitAll, WaitAll2, SchedulerLoopOnce, FetchWork

(***************************************************************************)
(* Local actions: the descriptor on top of w's stack moves, and nothing    *)
(* else happens to the queues, the stacks and what workers hold.           *)
(***************************************************************************)
Local(w) ==
  DepAdd(w) \/ Waits(w) \/ SchedulerLoopOnce(w) \/ FetchWork(w) \/ DequeueEmpty(w)

LEMMA LocalMove ==
  ASSUME IInv, NEW w \in Workers, Local(w)
  PROVE  \E s \in TopStates :
           /\ pc' = [pc EXCEPT ![curr[w]] = s]
           /\ pc[curr[w]] \notin {"added", "found"} /\ s \notin {"token", "found"}
           /\ s = "added" <=> pc[curr[w]] = "token"
           /\ UNCHANGED <<queue, curr, rte, me, parent, level>>
<1> DEFINE d == curr[w]
           Moves(s) == /\ pc' = [pc EXCEPT ![d] = s]
                       /\ pc[d] \notin {"added", "found"} /\ s \notin {"token", "found"}
                       /\ s = "added" <=> pc[d] = "token"
                       /\ UNCHANGED <<queue, curr, rte, me, parent, level>>
<1> SUFFICES \E s \in TopStates : Moves(s)
  OBVIOUS
<1>a. d \in Descriptors /\ pc \in [Descriptors -> Places]
  BY DEF IInv, TypeOK
<1>1. CASE DepAdd(w)
  <2>1. Moves("added") BY <1>1 DEF DepAdd
  <2> QED BY <2>1, TopNames
<1>2. CASE WaitAll(w) \/ WaitAll2(w)
  <2>1. Moves("blocked") BY <1>2 DEF WaitAll, WaitAll2, GiveTokenBack, AppCalls
  <2> QED BY <2>1, TopNames
<1>3. CASE WaitAll3(w)
  <2>1. Moves("spin") BY <1>3 DEF WaitAll3, AppCalls
  <2> QED BY <2>1, TopNames
<1>4. CASE SpinDone(w) \/ BlockDone(w)
  <2>1. Moves("run") BY <1>4 DEF SpinDone, BlockDone, Return
  <2> QED BY <2>1, TopNames
<1>5. CASE BlockOn(w)
  <2>1. Moves("poll") BY <1>5 DEF BlockOn, EnterScheduler
  <2> QED BY <2>1, TopNames
<1>6. CASE Block2Peek(w)
  <2>1. Moves("recheck") \/ Moves("poll") BY <1>6 DEF Block2Peek, EnterScheduler
  <2> QED BY <2>1, TopNames
<1>7. CASE Block2Recheck(w)
  <2>1. Moves("run") \/ Moves("poll") BY <1>7 DEF Block2Recheck, Return, EnterScheduler
  <2> QED BY <2>1, TopNames
<1>8. CASE Block2Idle(w)
  <2>1. Moves("run") \/ Moves("blocked") BY <1>8 DEF Block2Idle, Return
  <2> QED BY <2>1, TopNames
<1>9. CASE SchedulerLoopOnce(w) \/ FetchWork(w)
  <2>1. Moves("poll")
    BY <1>9 DEF SchedulerLoopOnce, FetchWork, EnterFrom, EnterScheduler, AppCalls
  <2> QED BY <2>1, TopNames
<1>10. CASE DequeueEmpty(w)
  <2>1. /\ pc[d] \in {"poll", "repoll"}
        /\ UNCHANGED <<queue, curr, rte, me, parent, level>>
    BY <1>10 DEF DequeueEmpty, Scanning
  <2>2. pc' = pc \/ pc' = [pc EXCEPT ![d] = NothingFound(d)]
    BY <1>10, NextQueueEffect DEF DequeueEmpty
  <2>3. CASE pc' = pc
    <3>1. Moves(pc[d]) BY <2>1, <2>3, <1>a
    <3> QED BY <3>1, <2>1, TopNames
  <2>4. CASE pc' = [pc EXCEPT ![d] = NothingFound(d)]
    <3>1. NothingFound(d) \in {"run", "repoll", "blocked", "idle"} BY DEF NothingFound
    <3>2. Moves(NothingFound(d)) BY <2>1, <2>4, <3>1
    <3> QED BY <3>1, <3>2, TopNames
  <2> QED BY <2>2, <2>3, <2>4
<1> QED
  BY <1>1, <1>2, <1>3, <1>4, <1>5, <1>6, <1>7, <1>8, <1>9, <1>10 DEF Local, Waits

(***************************************************************************)
(* Stacks.                                                                 *)
(***************************************************************************)
(* What a dequeue would return is a queued task.                           *)
LEMMA HeadQueued ==
  ASSUME TypeOK, QueueInv, NEW w \in Workers, queue[cursor[w]] # <<>>
  PROVE  /\ Head(queue[cursor[w]]) \in Tasks
         /\ pc[Head(queue[cursor[w]])] = "queued"
<1> DEFINE q == queue[cursor[w]]
<1>1. cursor[w] \in Queues /\ q \in Seq(Tasks)
  BY DEF TypeOK
<1>2. Head(q) = q[1] /\ 1 \in DOMAIN q /\ q[1] \in Tasks
  BY <1>1
<1> QED BY <1>1, <1>2 DEF QueueInv

LEMMA StackFrame ==
  ASSUME TypeOK, TypeOK', StackInv, UNCHANGED <<curr, me>>,
         \A d \in Descriptors : /\ pc[d] \in TopStates <=> pc'[d] \in TopStates
                                /\ pc[d] = "exec" <=> pc'[d] = "exec"
  PROVE  StackInv'
BY TopNames DEF StackInv, TypeOK, Descriptors

LEMMA StackStep ==
  ASSUME IInv, TypeOK', NEW w \in Workers, Step(w)
  PROVE  StackInv'
<1> DEFINE d == curr[w]
           t == rte[w]
<1>a. TypeOK /\ StackInv /\ HandsInv /\ QueueInv
  BY DEF IInv
<1>b. d \in Descriptors /\ pc[d] \in TopStates
  BY TopType
<1>1. CASE Local(w)
  <2>1. PICK s \in TopStates : pc' = [pc EXCEPT ![d] = s] /\ UNCHANGED <<curr, me>>
    BY <1>1, LocalMove
  <2> QED BY <2>1, <1>a, <1>b, TopNames, StackFrame DEF TypeOK
<1> DEFINE SameKind == \A e \in Descriptors : /\ pc[e] \in TopStates <=> pc'[e] \in TopStates
                                              /\ pc[e] = "exec" <=> pc'[e] = "exec"
<1>2. CASE ToRqEnd(w)
  <2>1. t \in Tasks /\ pc[t] = "new"
    BY <1>2, <1>a DEF ToRqEnd, HandsInv, TypeOK
  <2>2. SameKind
    BY <1>2, <1>a, <1>b, <2>1, TopNames DEF ToRqEnd, TypeOK
  <2>3. UNCHANGED <<curr, me>>
    BY <1>2 DEF ToRqEnd
  <2> QED BY <1>a, <2>2, <2>3, StackFrame
<1>3. ASSUME NEW u \in Tasks, Task(w, u) \/ TaskDetached(w, u) PROVE StackInv'
  <2>1. pc[u] = "unborn" /\ pc[d] = "run" /\ u # d
    BY <1>3 DEF Task, TaskDetached, AppCalls
  <2>2. \/ pc' = [pc EXCEPT ![d] = "token", ![u] = "new"]
        \/ pc' = [pc EXCEPT ![u] = "queued"]
    BY <1>3 DEF Task, TaskDetached
  <2>5. u \in Descriptors /\ pc \in [Descriptors -> Places]
    BY <1>a DEF TypeOK, Descriptors
  <2>6. /\ \A e \in Descriptors \ {d, u} : pc'[e] = pc[e]
        /\ pc'[d] = "token" \/ pc'[d] = "run"
        /\ pc'[u] = "new" \/ pc'[u] = "queued"
    BY <1>b, <2>1, <2>2, <2>5
  <2>3. SameKind
    BY <1>b, <2>1, <2>5, <2>6, TopNames
  <2>4. UNCHANGED <<curr, me>>
    BY <1>3 DEF Task, TaskDetached
  <2> QED BY <1>a, <2>3, <2>4, StackFrame
<1>4. CASE Dequeue(w)
  <2> DEFINE h == Head(queue[cursor[w]])
  <2>1. h \in Tasks /\ pc[h] = "queued" /\ pc[d] \in {"poll", "repoll"}
    BY <1>4, <1>a, HeadQueued DEF Dequeue, Scanning
  <2>2. SameKind
    BY <1>4, <1>a, <1>b, <2>1, TopNames DEF Dequeue, TypeOK
  <2>3. UNCHANGED <<curr, me>>
    BY <1>4 DEF Dequeue
  <2> QED BY <1>a, <2>2, <2>3, StackFrame
<1>5. CASE DequeueDrop(w)
  <2> DEFINE h == Head(queue[cursor[w]])
             now == [pc EXCEPT ![h] = "lost"]
             next == NothingFound(d)
  <2>1. h \in Tasks /\ pc[h] = "queued" /\ pc[d] \in {"poll", "repoll"}
    BY <1>5, <1>a, HeadQueued DEF DequeueDrop, Scanning
  <2>2. next \in TopStates
    BY TopNames DEF NothingFound
  <2>3. pc' = now \/ pc' = [now EXCEPT ![d] = next]
    BY <1>5, NextQueueEffect DEF DequeueDrop
  <2> HIDE DEF next
  <2>4. h \in Descriptors /\ h # d /\ pc \in [Descriptors -> Places]
    BY <1>a, <2>1 DEF TypeOK, Descriptors
  <2>6. \A e \in Descriptors : e # d => pc'[e] = IF e = h THEN "lost" ELSE pc[e]
    BY <1>b, <2>3, <2>4
  <2>7. pc'[d] = pc[d] \/ pc'[d] = next
    BY <1>b, <2>3, <2>4
  <2>8. SameKind
    BY <1>b, <2>1, <2>2, <2>4, <2>6, <2>7, TopNames
  <2>5. UNCHANGED <<curr, me>>
    BY <1>5 DEF DequeueDrop
  <2> QED BY <1>a, <2>8, <2>5, StackFrame
<1>6. CASE FetchPut(w)
  <2>1. t \in Tasks /\ pc[t] = "held"
    BY <1>6, <1>a DEF FetchPut, HandsInv, TypeOK
  <2>2. SameKind
    BY <1>6, <1>a, <1>b, <2>1, TopNames DEF FetchPut, TypeOK
  <2>3. UNCHANGED <<curr, me>>
    BY <1>6 DEF FetchPut
  <2> QED BY <1>a, <2>2, <2>3, StackFrame
<1>c. /\ \A v \in Workers : curr[v] \in Descriptors /\ pc[curr[v]] \in TopStates
      /\ \A u, v \in Workers : curr[u] = curr[v] => u = v
      /\ \A e \in Descriptors : pc[e] \in TopStates => \E v \in Workers : curr[v] = e
      /\ \A u \in Tasks : pc[u] \in Active => me[u] \in Descriptors /\ pc[me[u]] = "exec"
      /\ \A u, v \in Tasks : pc[u] \in Active /\ pc[v] \in Active /\ me[u] = me[v] => u = v
  BY <1>a DEF StackInv, TypeOK
<1>d. \A u \in Tasks : u \in Descriptors
  BY DEF Descriptors
<1>7. CASE Execute(w)
  <2>1. t \in Tasks /\ pc[t] = "held" /\ t # d
    BY <1>7, <1>a DEF Execute, HandsInv, TypeOK
  <2>2. /\ \A v \in Workers : curr'[v] = IF v = w THEN t ELSE curr[v]
        /\ \A u \in Tasks : me'[u] = IF u = t THEN d ELSE me[u]
        /\ \A e \in Descriptors : pc'[e] = IF e = d THEN "exec" ELSE IF e = t THEN "run" ELSE pc[e]
    BY <1>7, <1>a, <1>b, <2>1 DEF Execute, TypeOK, Descriptors
  <2>3. \A v \in Workers : pc'[curr'[v]] \in TopStates
    BY <1>b, <1>c, <1>d, <2>1, <2>2, TopNames
  <2>4. \A u, v \in Workers : curr'[u] = curr'[v] => u = v
    BY <1>b, <1>c, <2>1, <2>2, TopNames
  <2>5. \A e \in Descriptors : pc'[e] \in TopStates => \E v \in Workers : curr'[v] = e
    BY <1>b, <1>c, <1>d, <2>1, <2>2, TopNames
  <2>6. \A u \in Tasks : pc'[u] \in Active => me'[u] \in Descriptors /\ pc'[me'[u]] = "exec"
    BY <1>b, <1>c, <1>d, <2>1, <2>2, TopNames
  <2>7. \A u, v \in Tasks : pc'[u] \in Active /\ pc'[v] \in Active /\ me'[u] = me'[v] => u = v
    BY <1>b, <1>c, <1>d, <2>1, <2>2, TopNames
  <2> QED BY <2>3, <2>4, <2>5, <2>6, <2>7 DEF StackInv
<1>8. CASE Finish(w)
  <2> DEFINE m == me[d]
             next == AfterWork(caller[m])
  <2>1. d \in Tasks /\ m \in Descriptors /\ pc[m] = "exec" /\ pc[d] = "run" /\ m # d
    BY <1>8, TopType DEF Finish
  <2>2. next \in TopStates
    BY TopNames DEF AfterWork
  <2> HIDE DEF next
  <2>3. /\ \A v \in Workers : curr'[v] = IF v = w THEN m ELSE curr[v]
        /\ \A u \in Tasks : me'[u] = me[u]
        /\ \A e \in Descriptors : pc'[e] = IF e = m THEN next ELSE IF e = d THEN "done" ELSE pc[e]
    BY <1>8, <1>a, <1>b, <2>1 DEF Finish, TypeOK, next
  <2>4. \A v \in Workers : pc'[curr'[v]] \in TopStates
    BY <1>b, <1>c, <1>d, <2>1, <2>2, <2>3, TopNames
  <2>5. \A u, v \in Workers : curr'[u] = curr'[v] => u = v
    BY <1>b, <1>c, <2>1, <2>2, <2>3, TopNames
  <2>6. \A e \in Descriptors : pc'[e] \in TopStates => \E v \in Workers : curr'[v] = e
    BY <1>b, <1>c, <1>d, <2>1, <2>2, <2>3, TopNames
  <2>7. \A u \in Tasks : pc'[u] \in Active => me'[u] \in Descriptors /\ pc'[me'[u]] = "exec"
    BY <1>b, <1>c, <1>d, <2>1, <2>2, <2>3, TopNames
  <2>8. \A u, v \in Tasks : pc'[u] \in Active /\ pc'[v] \in Active /\ me'[u] = me'[v] => u = v
    BY <1>b, <1>c, <1>d, <2>1, <2>2, <2>3, TopNames
  <2> QED BY <2>4, <2>5, <2>6, <2>7, <2>8 DEF StackInv
<1> QED
  BY <1>1, <1>2, <1>3, <1>4, <1>5, <1>6, <1>7, <1>8
  DEF Step, Creates, Waits, Schedules, Local

(***************************************************************************)
(* Queues.                                                                 *)
(***************************************************************************)
LEMMA QueueFrame ==
  ASSUME TypeOK, QueueInv, UNCHANGED queue,
         \A t \in Tasks : pc'[t] = "queued" <=> pc[t] = "queued"
  PROVE  QueueInv'
<1>1. \A q \in Queues : \A i \in DOMAIN queue[q] : queue[q][i] \in Tasks
  BY DEF TypeOK
<1> QED BY <1>1 DEF QueueInv

(* A task that was in no queue is appended to one.                         *)
LEMMA QueueAppend ==
  ASSUME TypeOK, QueueInv, NEW q \in Queues, NEW t \in Tasks, pc[t] # "queued",
         queue' = [queue EXCEPT ![q] = Append(@, t)],
         \A u \in Tasks : pc'[u] = "queued" <=> pc[u] = "queued" \/ u = t
  PROVE  QueueInv'
<1>1. /\ \A r \in Queues : queue[r] \in Seq(Tasks)
      /\ \A r \in Queues : \A i \in DOMAIN queue[r] : queue[r][i] \in Tasks
  BY DEF TypeOK
<1>2. /\ DOMAIN queue'[q] = DOMAIN queue[q] \cup {Len(queue[q]) + 1}
      /\ Len(queue[q]) + 1 \notin DOMAIN queue[q]
      /\ queue'[q][Len(queue[q]) + 1] = t
      /\ \A i \in DOMAIN queue[q] : queue'[q][i] = queue[q][i]
  <2>1. queue'[q] = Append(queue[q], t)
    BY DEF TypeOK
  <2>2. queue[q] \in Seq(Tasks)
    BY <1>1
  <2> QED BY <2>1, <2>2
<1>3. \A r \in Queues : r # q => queue'[r] = queue[r]
  BY DEF TypeOK
<1>4. \A r \in Queues : \A i \in DOMAIN queue[r] : queue[r][i] # t
  BY DEF QueueInv
<1>5. \A r \in Queues : \A i \in DOMAIN queue'[r] :
        \/ i \in DOMAIN queue[r] /\ queue'[r][i] = queue[r][i]
        \/ r = q /\ i = Len(queue[q]) + 1 /\ queue'[r][i] = t
  BY <1>2, <1>3
<1>6. \A r \in Queues : \A i \in DOMAIN queue'[r] : pc'[queue'[r][i]] = "queued"
  BY <1>1, <1>5 DEF QueueInv
<1>7. \A u \in Tasks : pc'[u] = "queued" =>
        \E r \in Queues : \E i \in DOMAIN queue'[r] : queue'[r][i] = u
  <2> SUFFICES ASSUME NEW u \in Tasks, pc'[u] = "queued"
               PROVE  \E r \in Queues : \E i \in DOMAIN queue'[r] : queue'[r][i] = u
    OBVIOUS
  <2>1. CASE u = t
    BY <2>1, <1>2
  <2>2. CASE u # t
    <3>1. PICK r \in Queues : \E i \in DOMAIN queue[r] : queue[r][i] = u
      BY <2>2 DEF QueueInv
    <3> QED BY <3>1, <1>2, <1>3
  <2> QED BY <2>1, <2>2
<1>8. \A r, p \in Queues : \A i \in DOMAIN queue'[r], j \in DOMAIN queue'[p] :
        queue'[r][i] = queue'[p][j] => r = p /\ i = j
  BY <1>4, <1>5 DEF QueueInv
<1> QED BY <1>6, <1>7, <1>8 DEF QueueInv

(* The head of a queue is taken out.                                       *)
LEMMA QueueRemove ==
  ASSUME TypeOK, QueueInv, NEW q \in Queues, queue[q] # <<>>,
         queue' = [queue EXCEPT ![q] = Tail(@)],
         \A u \in Tasks : pc'[u] = "queued" <=> pc[u] = "queued" /\ u # Head(queue[q])
  PROVE  QueueInv'
<1> DEFINE h == Head(queue[q])
<1>1. /\ \A r \in Queues : queue[r] \in Seq(Tasks)
      /\ \A r \in Queues : \A i \in DOMAIN queue[r] : queue[r][i] \in Tasks
  BY DEF TypeOK
<1>2. /\ 1 \in DOMAIN queue[q] /\ h = queue[q][1] /\ 0 \notin DOMAIN queue[q]
      /\ \A i \in DOMAIN queue'[q] :
           i \in Nat /\ i + 1 \in DOMAIN queue[q] /\ i + 1 # 1 /\ queue'[q][i] = queue[q][i + 1]
      /\ \A i \in DOMAIN queue[q] : i \in Nat /\ (i # 1 => i - 1 \in DOMAIN queue'[q])
  <2>1. queue'[q] = Tail(queue[q])
    BY DEF TypeOK
  <2>2. queue[q] \in Seq(Tasks)
    BY <1>1
  <2>3. DOMAIN queue[q] = 1 .. Len(queue[q]) /\ Len(queue[q]) \in Nat \ {0}
    BY <2>2
  <2>4. /\ DOMAIN Tail(queue[q]) = 1 .. Len(queue[q]) - 1
        /\ \A i \in 1 .. Len(queue[q]) - 1 : Tail(queue[q])[i] = queue[q][i + 1]
    BY <2>2, <2>3
  <2>5. h = queue[q][1]
    BY <2>2, <2>3
  <2> HIDE DEF h
  <2>6. 1 \in DOMAIN queue[q] /\ 0 \notin DOMAIN queue[q]
    BY <2>3
  <2>7. \A i \in 1 .. Len(queue[q]) - 1 : i \in Nat /\ i + 1 \in 1 .. Len(queue[q]) /\ i + 1 # 1
    BY <2>3
  <2>8. \A i \in 1 .. Len(queue[q]) : i \in Nat /\ (i # 1 => i - 1 \in 1 .. Len(queue[q]) - 1)
    BY <2>3
  <2> QED BY <2>1, <2>3, <2>4, <2>5, <2>6, <2>7, <2>8
<1>3. \A r \in Queues : r # q => queue'[r] = queue[r]
  BY DEF TypeOK
<1>4. \A r \in Queues : \A i \in DOMAIN queue[r] : queue[r][i] = h => r = q /\ i = 1
  BY <1>2 DEF QueueInv
<1>5. \A r \in Queues : \A i \in DOMAIN queue'[r] :
        LET k == IF r = q THEN i + 1 ELSE i
        IN  k \in DOMAIN queue[r] /\ queue'[r][i] = queue[r][k] /\ queue[r][k] # h
  BY <1>2, <1>3, <1>4
<1>6. \A r \in Queues : \A i \in DOMAIN queue'[r] : pc'[queue'[r][i]] = "queued"
  BY <1>1, <1>5 DEF QueueInv
<1>7. \A u \in Tasks : pc'[u] = "queued" =>
        \E r \in Queues : \E i \in DOMAIN queue'[r] : queue'[r][i] = u
  <2> SUFFICES ASSUME NEW u \in Tasks, pc'[u] = "queued"
               PROVE  \E r \in Queues : \E i \in DOMAIN queue'[r] : queue'[r][i] = u
    OBVIOUS
  <2>1. PICK r \in Queues : \E i \in DOMAIN queue[r] : queue[r][i] = u
    BY DEF QueueInv
  <2>2. PICK i \in DOMAIN queue[r] : queue[r][i] = u
    BY <2>1
  <2>3. CASE r # q
    BY <2>2, <2>3, <1>3
  <2>4. CASE r = q
    <3>1. i # 1
      BY <2>2, <2>4, <1>2
    <3>2. i \in Nat /\ i - 1 \in DOMAIN queue'[q]
      BY <3>1, <2>4, <1>2
    <3>3. queue'[q][i - 1] = u
      BY <3>2, <2>2, <2>4, <1>2
    <3> QED BY <3>2, <3>3
  <2> QED BY <2>3, <2>4
<1>8. \A r, p \in Queues : \A i \in DOMAIN queue'[r], j \in DOMAIN queue'[p] :
        queue'[r][i] = queue'[p][j] => r = p /\ i = j
  <2> SUFFICES ASSUME NEW r \in Queues, NEW p \in Queues,
                      NEW i \in DOMAIN queue'[r], NEW j \in DOMAIN queue'[p],
                      queue'[r][i] = queue'[p][j]
               PROVE  r = p /\ i = j
    OBVIOUS
  <2> DEFINE k == IF r = q THEN i + 1 ELSE i
             l == IF p = q THEN j + 1 ELSE j
  <2>3. k \in DOMAIN queue[r] /\ l \in DOMAIN queue[p] /\ queue[r][k] = queue[p][l]
    BY <1>5
  <2> HIDE DEF k, l
  <2>1. r = p /\ k = l
    BY <2>3 DEF QueueInv
  <2> USE DEF k, l
  <2> QED BY <2>1, <1>2
<1> QED BY <1>6, <1>7, <1>8 DEF QueueInv

LEMMA QueueStep ==
  ASSUME IInv, NEW w \in Workers, Step(w)
  PROVE  QueueInv'
<1> DEFINE d == curr[w]
           t == rte[w]
<1>a. TypeOK /\ QueueInv /\ HandsInv
  BY DEF IInv
<1>b. /\ d \in Descriptors /\ pc[d] \in TopStates
      /\ pc \in [Descriptors -> Places]
      /\ \A u \in Tasks : u \in Descriptors
  BY <1>a, TopType DEF TypeOK, Descriptors
<1>1. CASE Local(w)
  <2>1. PICK s \in TopStates : pc' = [pc EXCEPT ![d] = s] /\ UNCHANGED queue
    BY <1>1, LocalMove
  <2>2. \A u \in Tasks : pc'[u] = "queued" <=> pc[u] = "queued"
    BY <1>b, <2>1, TopNames
  <2> QED BY <1>a, <2>1, <2>2, QueueFrame
<1>2. CASE ToRqEnd(w)
  <2> DEFINE q == QueueIndex(level[d] + 1)
  <2>1. t \in Tasks /\ pc[t] = "new" /\ t # d
    BY <1>2, <1>a DEF ToRqEnd, HandsInv, TypeOK
  <2>2. q \in Queues
    BY <1>a, QueueIndexType DEF TypeOK
  <2>3. queue' = [queue EXCEPT ![q] = Append(@, t)] /\ pc' = [pc EXCEPT ![d] = "run", ![t] = "queued"]
    BY <1>2 DEF ToRqEnd
  <2>4. \A u \in Tasks : pc'[u] = "queued" <=> pc[u] = "queued" \/ u = t
    BY <1>b, <2>1, <2>3, TopNames
  <2> HIDE DEF q
  <2> QED BY <1>a, <2>1, <2>2, <2>3, <2>4, QueueAppend
<1>3. ASSUME NEW u \in Tasks, Task(w, u) PROVE QueueInv'
  <2>1. /\ pc[u] = "unborn" /\ UNCHANGED queue
        /\ pc' = [pc EXCEPT ![d] = "token", ![u] = "new"]
    BY <1>3 DEF Task
  <2>2. \A v \in Tasks : pc'[v] = "queued" <=> pc[v] = "queued"
    BY <1>b, <2>1, TopNames
  <2> QED BY <1>a, <2>1, <2>2, QueueFrame
<1>4. ASSUME NEW u \in Tasks, TaskDetached(w, u) PROVE QueueInv'
  <2> DEFINE q == QueueIndex(0)
  <2>1. q \in Queues
    BY QueueIndexType
  <2>2. /\ pc[u] = "unborn" /\ queue' = [queue EXCEPT ![q] = Append(@, u)]
        /\ pc' = [pc EXCEPT ![u] = "queued"]
    BY <1>4 DEF TaskDetached
  <2>3. \A v \in Tasks : pc'[v] = "queued" <=> pc[v] = "queued" \/ v = u
    BY <1>b, <2>2
  <2> HIDE DEF q
  <2> QED BY <1>a, <2>1, <2>2, <2>3, QueueAppend
<1>5. CASE Dequeue(w) \/ DequeueDrop(w)
  <2> DEFINE q == queue[cursor[w]]
             h == Head(q)
             next == NothingFound(d)
  <2>1. /\ cursor[w] \in Queues /\ q # <<>>
        /\ queue' = [queue EXCEPT ![cursor[w]] = Tail(@)]
    BY <1>5, <1>a DEF Dequeue, DequeueDrop, TypeOK
  <2>2. h \in Tasks /\ pc[h] = "queued" /\ h # d
    BY <2>1, <1>a, <1>b, HeadQueued, TopNames
  <2>3. next # "queued"
    BY DEF NothingFound
  <2>4. \/ pc' = [pc EXCEPT ![d] = "found", ![h] = "held"]
        \/ pc' = [pc EXCEPT ![h] = "lost"]
        \/ pc' = [[pc EXCEPT ![h] = "lost"] EXCEPT ![d] = next]
    BY <1>5, NextQueueEffect DEF Dequeue, DequeueDrop
  <2> HIDE DEF next, h
  <2>5. \A u \in Tasks : pc'[u] = "queued" <=> pc[u] = "queued" /\ u # h
    BY <1>b, <2>2, <2>3, <2>4, TopNames
  <2> QED BY <1>a, <2>1, <2>5, QueueRemove DEF h
<1>6. CASE FetchPut(w)
  <2>1. t \in Tasks /\ pc[t] = "held"
    BY <1>6, <1>a DEF FetchPut, HandsInv, TypeOK
  <2>2. /\ queue' = [queue EXCEPT ![PrivateQ] = Append(@, t)]
        /\ pc' = [pc EXCEPT ![d] = "run", ![t] = "queued"]
    BY <1>6 DEF FetchPut
  <2>3. \A u \in Tasks : pc'[u] = "queued" <=> pc[u] = "queued" \/ u = t
    BY <1>b, <2>1, <2>2, TopNames
  <2> QED BY <1>a, <2>1, <2>2, <2>3, QueuesType, QueueAppend
<1>7. CASE Execute(w)
  <2>1. t \in Tasks /\ pc[t] = "held"
    BY <1>7, <1>a DEF Execute, HandsInv, TypeOK
  <2>2. pc' = [pc EXCEPT ![d] = "exec", ![t] = "run"] /\ UNCHANGED queue
    BY <1>7 DEF Execute
  <2>3. \A u \in Tasks : pc'[u] = "queued" <=> pc[u] = "queued"
    BY <1>b, <2>1, <2>2, TopNames
  <2> QED BY <1>a, <2>2, <2>3, QueueFrame
<1>8. CASE Finish(w)
  <2> DEFINE next == AfterWork(caller[me[d]])
  <2>1. pc[me[d]] = "exec" /\ me[d] \in Descriptors
    BY <1>8, TopType DEF Finish
  <2>2. next # "queued"
    BY DEF AfterWork
  <2>3. pc' = [pc EXCEPT ![d] = "done", ![me[d]] = next] /\ UNCHANGED queue
    BY <1>8 DEF Finish
  <2> HIDE DEF next
  <2>4. \A u \in Tasks : pc'[u] = "queued" <=> pc[u] = "queued"
    BY <1>b, <2>1, <2>2, <2>3, TopNames
  <2> QED BY <1>a, <2>3, <2>4, QueueFrame
<1> QED
  BY <1>1, <1>2, <1>3, <1>4, <1>5, <1>6, <1>7, <1>8
  DEF Step, Creates, Waits, Schedules, Local

(***************************************************************************)
(* What workers hold.                                                      *)
(***************************************************************************)

(* One worker's part of HandsInv.                                          *)
Holds(w) ==
  /\ pc[curr[w]] \in {"token", "added"} => rte[w] # NoDesc /\ pc[rte[w]] = "new"
  /\ pc[curr[w]] = "found" => rte[w] # NoDesc /\ pc[rte[w]] = "held"
  /\ pc[curr[w]] \notin {"token", "added", "found"} => rte[w] = NoDesc

(* Only w moved, and what the others hold was not touched.                 *)
LEMMA HandsFrame ==
  ASSUME HandsInv, NEW w \in Workers, Holds(w)',
         \A v \in Workers \ {w} :
           /\ curr'[v] = curr[v] /\ pc'[curr[v]] = pc[curr[v]] /\ rte'[v] = rte[v]
           /\ rte[v] # NoDesc => pc'[rte[v]] = pc[rte[v]] /\ rte'[w] # rte[v]
  PROVE  HandsInv'
BY DEF HandsInv, Holds

LEMMA HandsStep ==
  ASSUME IInv, NEW w \in Workers, Step(w)
  PROVE  HandsInv'
<1> DEFINE d == curr[w]
           t == rte[w]
           Others == \A v \in Workers \ {w} :
                       /\ curr'[v] = curr[v] /\ pc'[curr[v]] = pc[curr[v]] /\ rte'[v] = rte[v]
                       /\ rte[v] # NoDesc => pc'[rte[v]] = pc[rte[v]] /\ rte'[w] # rte[v]
<1>a. TypeOK /\ QueueInv /\ HandsInv
  BY DEF IInv
<1>b. /\ d \in Descriptors /\ pc[d] \in TopStates
      /\ pc \in [Descriptors -> Places]
      /\ \A u \in Tasks : u \in Descriptors
      /\ rte \in [Workers -> Tasks \cup {NoDesc}] /\ curr \in [Workers -> Descriptors]
      /\ NoDesc \notin Descriptors
  BY <1>a, TopType, NoDescAssumption DEF TypeOK, Descriptors
<1>c. /\ Holds(w)
      /\ \A v \in Workers \ {w} : /\ curr[v] \in Descriptors /\ curr[v] # d
                                  /\ pc[curr[v]] \in TopStates
      /\ \A v \in Workers \ {w} : rte[v] # NoDesc => /\ rte[v] \in Tasks /\ rte[v] # t
                                                     /\ pc[rte[v]] \in {"new", "held"}
  BY <1>b DEF IInv, StackInv, HandsInv, Holds
<1>1. CASE Local(w)
  <2>1. PICK s \in TopStates :
          /\ pc' = [pc EXCEPT ![d] = s]
          /\ pc[d] \notin {"added", "found"} /\ s \notin {"token", "found"}
          /\ s = "added" <=> pc[d] = "token"
          /\ UNCHANGED <<curr, rte>>
    BY <1>1, LocalMove
  <2>2. Others
    BY <1>b, <1>c, <2>1, TopNames
  <2>3. Holds(w)'
    BY <1>b, <1>c, <2>1, TopNames DEF Holds
  <2> QED BY <1>a, <2>2, <2>3, HandsFrame
<1>2. CASE ToRqEnd(w)
  <2>1. /\ t \in Tasks /\ pc[t] = "new" /\ t # d
        /\ pc' = [pc EXCEPT ![d] = "run", ![t] = "queued"]
        /\ rte' = [rte EXCEPT ![w] = NoDesc] /\ curr' = curr
    BY <1>2, <1>b, <1>c DEF ToRqEnd, Holds
  <2>2. Others
    BY <1>b, <1>c, <2>1, TopNames
  <2>3. Holds(w)'
    BY <1>b, <2>1 DEF Holds
  <2> QED BY <1>a, <2>2, <2>3, HandsFrame
<1>3. ASSUME NEW u \in Tasks, Task(w, u) PROVE HandsInv'
  <2>1. /\ pc[u] = "unborn" /\ u # d
        /\ pc' = [pc EXCEPT ![d] = "token", ![u] = "new"]
        /\ rte' = [rte EXCEPT ![w] = u] /\ curr' = curr
    BY <1>3 DEF Task, AppCalls
  <2>2. Others
    BY <1>b, <1>c, <2>1, TopNames
  <2>3. Holds(w)'
    BY <1>b, <2>1 DEF Holds
  <2> QED BY <1>a, <2>2, <2>3, HandsFrame
<1>4. ASSUME NEW u \in Tasks, TaskDetached(w, u) PROVE HandsInv'
  <2>1. /\ pc[u] = "unborn" /\ pc[d] = "run"
        /\ pc' = [pc EXCEPT ![u] = "queued"] /\ UNCHANGED <<rte, curr>>
    BY <1>4 DEF TaskDetached, AppCalls
  <2>2. Others
    BY <1>b, <1>c, <2>1, TopNames
  <2>3. Holds(w)'
    BY <1>b, <1>c, <2>1 DEF Holds
  <2> QED BY <1>a, <2>2, <2>3, HandsFrame
<1>5. CASE Dequeue(w)
  <2> DEFINE h == Head(queue[cursor[w]])
  <2>1. h \in Tasks /\ pc[h] = "queued" /\ h # d
    BY <1>5, <1>a, <1>b, HeadQueued, TopNames DEF Dequeue
  <2>2. /\ pc' = [pc EXCEPT ![d] = "found", ![h] = "held"]
        /\ rte' = [rte EXCEPT ![w] = h] /\ curr' = curr
    BY <1>5 DEF Dequeue
  <2> HIDE DEF h
  <2>3. Others
    BY <1>b, <1>c, <2>1, <2>2, TopNames
  <2>4. Holds(w)'
    BY <1>b, <2>1, <2>2 DEF Holds
  <2> QED BY <1>a, <2>3, <2>4, HandsFrame
<1>6. CASE DequeueDrop(w)
  <2> DEFINE h == Head(queue[cursor[w]])
             next == NothingFound(d)
  <2>1. h \in Tasks /\ pc[h] = "queued" /\ h # d /\ pc[d] \in {"poll", "repoll"}
    BY <1>6, <1>a, <1>b, HeadQueued, TopNames DEF DequeueDrop, Scanning
  <2>2. next \notin {"token", "added", "found"}
    BY DEF NothingFound
  <2>3. /\ \/ pc' = [pc EXCEPT ![h] = "lost"]
           \/ pc' = [[pc EXCEPT ![h] = "lost"] EXCEPT ![d] = next]
        /\ UNCHANGED <<rte, curr>>
    BY <1>6, NextQueueEffect DEF DequeueDrop
  <2> HIDE DEF h, next
  <2>4. Others
    BY <1>b, <1>c, <2>1, <2>3, TopNames
  <2>5. Holds(w)'
    BY <1>b, <1>c, <2>1, <2>2, <2>3 DEF Holds
  <2> QED BY <1>a, <2>4, <2>5, HandsFrame
<1>7. CASE FetchPut(w)
  <2>1. /\ t \in Tasks /\ pc[t] = "held" /\ t # d
        /\ pc' = [pc EXCEPT ![d] = "run", ![t] = "queued"]
        /\ rte' = [rte EXCEPT ![w] = NoDesc] /\ curr' = curr
    BY <1>7, <1>b, <1>c DEF FetchPut, Holds
  <2>2. Others
    BY <1>b, <1>c, <2>1, TopNames
  <2>3. Holds(w)'
    BY <1>b, <2>1 DEF Holds
  <2> QED BY <1>a, <2>2, <2>3, HandsFrame
<1>8. CASE Execute(w)
  <2>1. /\ t \in Tasks /\ pc[t] = "held" /\ t # d
        /\ pc' = [pc EXCEPT ![d] = "exec", ![t] = "run"]
        /\ rte' = [rte EXCEPT ![w] = NoDesc] /\ curr' = [curr EXCEPT ![w] = t]
    BY <1>8, <1>b, <1>c DEF Execute, Holds
  <2>2. Others
    BY <1>b, <1>c, <2>1, TopNames
  <2>3. Holds(w)'
    BY <1>b, <2>1 DEF Holds
  <2> QED BY <1>a, <2>2, <2>3, HandsFrame
<1>9. CASE Finish(w)
  <2> DEFINE m == me[d]
             next == AfterWork(caller[m])
  <2>1. d \in Tasks /\ m \in Descriptors /\ pc[m] = "exec" /\ pc[d] = "run" /\ m # d
    BY <1>9, TopType DEF Finish
  <2>2. next \notin {"token", "added", "found"}
    BY DEF AfterWork
  <2>3. /\ pc' = [pc EXCEPT ![d] = "done", ![m] = next]
        /\ rte' = rte /\ curr' = [curr EXCEPT ![w] = m]
    BY <1>9 DEF Finish
  <2> HIDE DEF m, next
  <2>4. Others
    BY <1>b, <1>c, <2>1, <2>3, TopNames
  <2>5. Holds(w)'
    BY <1>b, <1>c, <2>1, <2>2, <2>3 DEF Holds
  <2> QED BY <1>a, <2>4, <2>5, HandsFrame
<1> QED
  BY <1>1, <1>2, <1>3, <1>4, <1>5, <1>6, <1>7, <1>8, <1>9
  DEF Step, Creates, Waits, Schedules, Local

(***************************************************************************)
(* The fields of descriptors.                                              *)
(***************************************************************************)

(* One descriptor's part of FieldsInv, for a place p and a caller c.       *)
Agree(p, c) ==
  /\ p \in Dormant \cup {"run", "token", "added", "spin"} => c = "none"
  /\ p = "blocked" => c \in {"block", "block2"}
  /\ p \in {"recheck", "idle"} => c = "block2"
  /\ p \in Scanning \cup {"found"} => c # "none"
  /\ p = "exec" => c \notin {"none", "fetch"}

LEMMA AgreeNames ==
  /\ \A p \in Dormant \cup {"run", "token", "added", "spin"} : Agree(p, "none")
  /\ \A p \in {"blocked", "poll", "repoll", "found", "exec"} :
       Agree(p, "block") /\ Agree(p, "block2")
  /\ Agree("recheck", "block2") /\ Agree("idle", "block2")
  /\ \A c : c # "none" => Agree("poll", c) /\ Agree("repoll", c) /\ Agree("found", c)
  /\ \A c : c \notin {"none", "fetch"} => Agree("exec", c)
BY DEF Agree, Dormant, Scanning

(* A search that ended without a task leaves its descriptor where its      *)
(* caller expects it.                                                      *)
LEMMA NothingFoundAgrees ==
  ASSUME NEW d, pc[d] \in Scanning, caller[d] \in Callers \ {"none"}
  PROVE  Agree(NothingFound(d), IF NothingFound(d) = "run" THEN "none" ELSE caller[d])
BY DEF Agree, NothingFound, Callers, Scanning, Dormant

LEMMA AfterWorkAgrees ==
  ASSUME NEW c \in Callers \ {"none", "fetch"}
  PROVE  Agree(AfterWork(c), IF c = "once" THEN "none" ELSE c)
BY DEF Agree, AfterWork, Callers, Scanning, Dormant

LEMMA FieldsFrame ==
  ASSUME FieldsInv,
         \A e \in Descriptors :
           (pc'[e] = pc[e] /\ caller'[e] = caller[e]) \/ Agree(pc'[e], caller'[e]),
         \A t \in Tasks : pc'[t] \in {"unborn", "new"} =>
                            pc[t] \in {"unborn", "new"} /\ parent'[t] = parent[t]
  PROVE  FieldsInv'
<1>1. \A e \in Descriptors : Agree(pc[e], caller[e])
  BY DEF FieldsInv, Agree
<1>2. \A e \in Descriptors : Agree(pc'[e], caller'[e])
  BY <1>1
<1> QED BY <1>2 DEF FieldsInv, Agree

LEMMA FieldsStep ==
  ASSUME IInv, NEW w \in Workers, Step(w)
  PROVE  FieldsInv'
<1> DEFINE d == curr[w]
           t == rte[w]
           Callees == \A e \in Descriptors :
             (pc'[e] = pc[e] /\ caller'[e] = caller[e]) \/ Agree(pc'[e], caller'[e])
           Parents == \A u \in Tasks : pc'[u] \in {"unborn", "new"} =>
             pc[u] \in {"unborn", "new"} /\ parent'[u] = parent[u]
<1>a. TypeOK /\ QueueInv /\ HandsInv /\ FieldsInv
  BY DEF IInv
<1>b. /\ d \in Descriptors /\ pc[d] \in TopStates
      /\ pc \in [Descriptors -> Places] /\ caller \in [Descriptors -> Callers]
      /\ \A u \in Tasks : u \in Descriptors
      /\ parent \in [Tasks -> Descriptors \cup {NoDesc}]
  BY <1>a, TopType DEF TypeOK, Descriptors
<1>c. \A e \in Descriptors : Agree(pc[e], caller[e])
  BY <1>a DEF FieldsInv, Agree
<1>d. /\ "unborn" \in Dormant /\ "new" \in Dormant /\ "queued" \in Dormant
      /\ "held" \in Dormant /\ "lost" \in Dormant /\ "done" \in Dormant
  BY DEF Dormant
<1>1. CASE Local(w)
  <2>1. Parents
    <3>1. PICK s \in TopStates : pc' = [pc EXCEPT ![d] = s] /\ UNCHANGED parent
      BY <1>1, LocalMove
    <3> QED BY <1>b, <3>1, TopNames
  <2>2. Callees
    <3> SUFFICES \E p, c : Agree(p, c) /\ pc' = [pc EXCEPT ![d] = p] /\ caller' = [caller EXCEPT ![d] = c]
      BY <1>b
    <3>1. caller = [caller EXCEPT ![d] = caller[d]] /\ pc = [pc EXCEPT ![d] = pc[d]]
      BY <1>b
    <3>2. CASE DepAdd(w)
      <4>1. caller[d] = "none" BY <3>2, <1>b, <1>c DEF DepAdd, Agree
      <4> QED BY <3>1, <3>2, <4>1, AgreeNames DEF DepAdd
    <3>3. CASE WaitAll(w) \/ WaitAll2(w)
      BY <3>3, AgreeNames DEF WaitAll, WaitAll2, GiveTokenBack
    <3>4. CASE WaitAll3(w)
      <4>1. caller[d] = "none" BY <3>4, <1>b, <1>c DEF WaitAll3, AppCalls, Agree
      <4> QED BY <3>1, <3>4, <4>1, AgreeNames DEF WaitAll3
    <3>5. CASE Block2Recheck(w) \/ Block2Idle(w) \/ Block2Peek(w) \/ BlockOn(w)
      <4>1. caller[d] # "none"
        BY <3>5, <1>b, <1>c DEF Block2Recheck, Block2Idle, Block2Peek, BlockOn, Agree
      <4>2. Block2Peek(w) \/ Block2Idle(w) => caller[d] = "block2"
        BY <1>b, <1>c DEF Block2Peek, Block2Idle, Agree
      <4> QED BY <3>1, <3>5, <4>1, <4>2, AgreeNames
          DEF Block2Recheck, Block2Idle, Block2Peek, BlockOn, EnterScheduler, Return
    <3>6. CASE SpinDone(w) \/ BlockDone(w)
      BY <3>6, AgreeNames DEF SpinDone, BlockDone, Return
    <3>7. CASE SchedulerLoopOnce(w) \/ FetchWork(w)
      BY <3>7, AgreeNames DEF SchedulerLoopOnce, FetchWork, EnterFrom, EnterScheduler
    <3>8. CASE DequeueEmpty(w)
      <4>1. pc[d] \in Scanning /\ caller[d] \in Callers \ {"none"}
        BY <3>8, <1>b, <1>c DEF DequeueEmpty, Agree
      <4>2. \/ pc' = pc /\ caller' = caller
            \/ /\ pc' = [pc EXCEPT ![d] = NothingFound(d)]
               /\ caller' = [caller EXCEPT ![d] = IF NothingFound(d) = "run" THEN "none" ELSE @]
        BY <3>8, NextQueueEffect DEF DequeueEmpty
      <4> QED BY <3>1, <4>1, <4>2, <1>b, <1>c, NothingFoundAgrees
    <3> QED
      BY <1>1, <3>2, <3>3, <3>4, <3>5, <3>6, <3>7, <3>8 DEF Local, Waits
  <2> QED BY <1>a, <2>1, <2>2, FieldsFrame
<1>2. CASE ToRqEnd(w)
  <2>1. /\ t \in Tasks /\ pc[t] = "new" /\ pc[d] = "added"
        /\ pc' = [pc EXCEPT ![d] = "run", ![t] = "queued"]
        /\ caller' = caller /\ parent' = [parent EXCEPT ![t] = d]
    BY <1>2, <1>a DEF ToRqEnd, HandsInv, TypeOK
  <2>2. caller[t] = "none" /\ caller[d] = "none"
    BY <1>b, <1>c, <1>d, <2>1 DEF Agree
  <2>3. Callees
    BY <1>b, <1>d, <2>1, <2>2, AgreeNames
  <2>4. Parents
    BY <1>b, <2>1
  <2> QED BY <1>a, <2>3, <2>4, FieldsFrame
<1>3. ASSUME NEW u \in Tasks, Task(w, u) PROVE FieldsInv'
  <2>1. /\ pc[u] = "unborn" /\ pc[d] = "run"
        /\ pc' = [pc EXCEPT ![d] = "token", ![u] = "new"]
        /\ caller' = caller /\ parent' = parent
    BY <1>3 DEF Task, AppCalls
  <2>2. caller[u] = "none" /\ caller[d] = "none"
    BY <1>b, <1>c, <1>d, <2>1 DEF Agree
  <2>3. Callees
    BY <1>b, <1>d, <2>1, <2>2, AgreeNames
  <2>4. Parents
    BY <1>b, <2>1
  <2> QED BY <1>a, <2>3, <2>4, FieldsFrame
<1>4. ASSUME NEW u \in Tasks, TaskDetached(w, u) PROVE FieldsInv'
  <2>1. /\ pc[u] = "unborn" /\ pc' = [pc EXCEPT ![u] = "queued"]
        /\ caller' = caller /\ parent' = parent
    BY <1>4 DEF TaskDetached
  <2>2. caller[u] = "none"
    BY <1>b, <1>c, <1>d, <2>1 DEF Agree
  <2>3. Callees
    BY <1>b, <1>d, <2>1, <2>2, AgreeNames
  <2>4. Parents
    BY <1>b, <2>1
  <2> QED BY <1>a, <2>3, <2>4, FieldsFrame
<1>5. CASE Dequeue(w) \/ DequeueDrop(w)
  <2> DEFINE h == Head(queue[cursor[w]])
             next == NothingFound(d)
             back == IF next = "run" THEN "none" ELSE caller[d]
  <2>1. h \in Tasks /\ pc[h] = "queued" /\ h # d /\ pc[d] \in Scanning
    BY <1>5, <1>a, <1>b, HeadQueued, TopNames DEF Dequeue, DequeueDrop
  <2>2. caller[h] = "none" /\ caller[d] \in Callers \ {"none"}
    BY <1>b, <1>c, <1>d, <2>1 DEF Agree
  <2>3. Agree(next, back)
    BY <2>1, <2>2, NothingFoundAgrees
  <2>4. /\ parent' = parent
        /\ \/ pc' = [pc EXCEPT ![d] = "found", ![h] = "held"] /\ caller' = caller
           \/ pc' = [pc EXCEPT ![h] = "lost"] /\ caller' = caller
           \/ /\ pc' = [[pc EXCEPT ![h] = "lost"] EXCEPT ![d] = next]
              /\ caller' = [caller EXCEPT ![d] = back]
    BY <1>5, NextQueueEffect DEF Dequeue, DequeueDrop
  <2>6. next \notin {"unborn", "new"}
    BY DEF NothingFound
  <2> HIDE DEF h, next, back
  <2>5. Callees
    BY <1>b, <1>d, <2>1, <2>2, <2>3, <2>4, AgreeNames
  <2>7. Parents
    BY <1>b, <2>1, <2>4, <2>6
  <2> QED BY <1>a, <2>5, <2>7, FieldsFrame
<1>6. CASE FetchPut(w)
  <2>1. /\ t \in Tasks /\ pc[t] = "held" /\ t # d
        /\ pc' = [pc EXCEPT ![d] = "run", ![t] = "queued"]
        /\ caller' = [caller EXCEPT ![d] = "none"] /\ parent' = parent
    BY <1>6, <1>a DEF FetchPut, HandsInv, TypeOK
  <2>2. caller[t] = "none"
    BY <1>b, <1>c, <1>d, <2>1 DEF Agree
  <2>3. Callees
    BY <1>b, <1>d, <2>1, <2>2, AgreeNames
  <2>4. Parents
    BY <1>b, <2>1
  <2> QED BY <1>a, <2>3, <2>4, FieldsFrame
<1>7. CASE Execute(w)
  <2>1. /\ t \in Tasks /\ pc[t] = "held" /\ t # d /\ pc[d] = "found" /\ caller[d] # "fetch"
        /\ pc' = [pc EXCEPT ![d] = "exec", ![t] = "run"]
        /\ caller' = caller /\ parent' = parent
    BY <1>7, <1>a DEF Execute, HandsInv, TypeOK
  <2>2. caller[t] = "none" /\ caller[d] # "none"
    BY <1>b, <1>c, <1>d, <2>1 DEF Agree
  <2>3. Callees
    BY <1>b, <1>d, <2>1, <2>2, AgreeNames
  <2>4. Parents
    BY <1>b, <2>1
  <2> QED BY <1>a, <2>3, <2>4, FieldsFrame
<1>8. CASE Finish(w)
  <2> DEFINE m == me[d]
             next == AfterWork(caller[m])
             back == IF caller[m] = "once" THEN "none" ELSE caller[m]
  <2>1. d \in Tasks /\ m \in Descriptors /\ pc[m] = "exec" /\ pc[d] = "run" /\ m # d
    BY <1>8, TopType DEF Finish
  <2>2. caller[d] = "none" /\ caller[m] \in Callers \ {"none", "fetch"}
    BY <1>b, <1>c, <2>1 DEF Agree
  <2>3. Agree(next, back) /\ next \notin {"unborn", "new"}
    BY <2>2, AfterWorkAgrees DEF AfterWork
  <2>4. /\ pc' = [pc EXCEPT ![d] = "done", ![m] = next]
        /\ caller' = [caller EXCEPT ![m] = back] /\ parent' = parent
    BY <1>8 DEF Finish
  <2> HIDE DEF m, next, back
  <2>5. Callees
    BY <1>b, <1>d, <2>1, <2>2, <2>3, <2>4, AgreeNames
  <2>6. Parents
    BY <1>b, <2>1, <2>3, <2>4
  <2> QED BY <1>a, <2>5, <2>6, FieldsFrame
<1> QED
  BY <1>1, <1>2, <1>3, <1>4, <1>5, <1>6, <1>7, <1>8
  DEF Step, Creates, Waits, Schedules, Local

(***************************************************************************)
(* Counters.                                                               *)
(***************************************************************************)

(* One descriptor's part of DepCount.                                      *)
Counts(e) ==
  /\ ndep[e] = Cardinality(Children(e)) + OwnShare(e)
  /\ e \notin unjoined => Children(e) = {} /\ pc[e] \notin {"token", "added"}

LEMMA ChildrenFinite ==
  ASSUME NEW e
  PROVE  /\ IsFiniteSet(Children(e)) /\ Cardinality(Children(e)) \in Nat
         /\ Cardinality(Children(e)) = 0 <=> Children(e) = {}
<1>1. Children(e) \in SUBSET Tasks
  BY DEF Children
<1>2. IsFiniteSet(Children(e))
  BY <1>1, TasksAssumption, FS_Subset
<1> QED BY <1>2, FS_CardinalityType, FS_EmptySet

LEMMA OwnShareType == \A e : OwnShare(e) \in Int
BY DEF OwnShare

(* e's counter and e's children are as they were, and so is its share.     *)
LEMMA CountsFrame ==
  ASSUME NEW e, Counts(e), Children(e)' = Children(e), ndep'[e] = ndep[e],
         pc'[e] = pc[e] \/ {pc[e], pc'[e]} \cap {"token", "added", "spin"} = {},
         Joining(e)' <=> Joining(e), e \in unjoined' <=> e \in unjoined
  PROVE  Counts(e)'
<1>1. OwnShare(e)' = OwnShare(e)
  BY DEF OwnShare
<1> QED BY <1>1 DEF Counts

(* No task gets a parent, and none finishes.                               *)
LEMMA ChildrenFrame ==
  ASSUME NEW e, \A t \in Tasks : parent'[t] = e <=> parent[t] = e,
         \A t \in Tasks : pc'[t] = "done" <=> pc[t] = "done"
  PROVE  Children(e)' = Children(e)
BY DEF Children

(* When the counter of a waiting descriptor is 0, its children are done.   *)
LEMMA ZeroMeansNoChildren ==
  ASSUME NEW e, Counts(e), Joining(e), pc[e] # "added", ndep[e] <= 0
  PROVE  Children(e) = {}
<1>1. Cardinality(Children(e)) \in Nat
  BY ChildrenFinite
<1>2. CASE e \in unjoined
  <2>1. OwnShare(e) = 0
    BY <1>2 DEF OwnShare
  <2>2. Cardinality(Children(e)) = 0
    BY <1>1, <2>1 DEF Counts
  <2> QED BY <2>2, ChildrenFinite
<1>3. CASE e \notin unjoined
  BY <1>3 DEF Counts
<1> QED BY <1>2, <1>3

(* The local actions change the counter and the share of d alike.          *)
LEMMA CountLocal ==
  ASSUME IInv, NEW w \in Workers, Local(w),
         NEW d \in Descriptors, d = curr[w], Children(d)' = Children(d)
  PROVE  Counts(d)'
<1> DEFINE n == Cardinality(Children(d))
<1>a. /\ Counts(d)
      /\ pc \in [Descriptors -> Places] /\ caller \in [Descriptors -> Callers]
      /\ ndep \in [Descriptors -> Int]
  BY DEF IInv, TypeOK, DepCount, Counts
<1>b. /\ pc[d] \in {"run", "token", "added", "spin"} => caller[d] = "none"
      /\ pc[d] = "blocked" => caller[d] \in {"block", "block2"}
      /\ pc[d] \in {"recheck", "idle"} => caller[d] = "block2"
  BY <1>a DEF IInv, FieldsInv
<1>c. n \in Nat /\ (n = 0 <=> Children(d) = {})
  BY ChildrenFinite
<1>d. /\ ndep[d] = n + OwnShare(d)
      /\ d \notin unjoined => n = 0 /\ pc[d] \notin {"token", "added"}
      /\ Cardinality(Children(d)') = n
  BY <1>a, <1>c DEF Counts
<1> SUFFICES /\ ndep'[d] = n + OwnShare(d)'
             /\ d \notin unjoined' => n = 0 /\ pc'[d] \notin {"token", "added"}
  BY <1>c, <1>d DEF Counts
<1> HIDE DEF n
<1>1. CASE DepAdd(w)
  BY <1>1, <1>a, <1>b, <1>c, <1>d DEF DepAdd, OwnShare, Joining
<1>2. CASE WaitAll(w) \/ WaitAll2(w)
  BY <1>2, <1>a, <1>b, <1>c, <1>d DEF WaitAll, WaitAll2, GiveTokenBack, AppCalls, OwnShare, Joining
<1>3. CASE WaitAll3(w)
  BY <1>3, <1>a, <1>b, <1>c, <1>d DEF WaitAll3, AppCalls, OwnShare, Joining
<1>4. CASE SpinDone(w)
  BY <1>4, <1>a, <1>b, <1>c, <1>d DEF SpinDone, Return, OwnShare, Joining
<1>5. CASE BlockDone(w)
  BY <1>5, <1>a, <1>b, <1>c, <1>d DEF BlockDone, Return, OwnShare, Joining
<1>6. CASE BlockOn(w)
  BY <1>6, <1>a, <1>b, <1>c, <1>d DEF BlockOn, EnterScheduler, OwnShare, Joining
<1>7. CASE Block2Peek(w)
  BY <1>7, <1>a, <1>b, <1>c, <1>d DEF Block2Peek, EnterScheduler, OwnShare, Joining
<1>8. CASE Block2Recheck(w)
  BY <1>8, <1>a, <1>b, <1>c, <1>d DEF Block2Recheck, Return, EnterScheduler, OwnShare, Joining
<1>9. CASE Block2Idle(w)
  BY <1>9, <1>a, <1>b, <1>c, <1>d DEF Block2Idle, Return, OwnShare, Joining
<1>10. CASE SchedulerLoopOnce(w) \/ FetchWork(w)
  BY <1>10, <1>a, <1>b, <1>c, <1>d
  DEF SchedulerLoopOnce, FetchWork, EnterFrom, EnterScheduler, AppCalls, OwnShare, Joining
<1>11. CASE DequeueEmpty(w)
  <2> DEFINE next == NothingFound(d)
  <2>1. /\ pc[d] \in {"poll", "repoll"} /\ UNCHANGED <<ndep, unjoined>>
        /\ \/ pc' = pc /\ caller' = caller
           \/ /\ pc' = [pc EXCEPT ![d] = next]
              /\ caller' = [caller EXCEPT ![d] = IF next = "run" THEN "none" ELSE @]
    BY <1>11, NextQueueEffect DEF DequeueEmpty, Scanning
  <2>2. /\ next \in {"run", "repoll", "blocked", "idle"}
        /\ next = "run" => caller[d] \notin {"block", "block2"}
    BY <2>1 DEF NothingFound
  <2> HIDE DEF next
  <2> QED BY <2>1, <2>2, <1>a, <1>c, <1>d DEF OwnShare, Joining
<1> QED
  BY <1>1, <1>2, <1>3, <1>4, <1>5, <1>6, <1>7, <1>8, <1>9, <1>10, <1>11 DEF Local, Waits

(* A task and a descriptor move between places that make no difference to  *)
(* any counter.                                                            *)
LEMMA CountMove ==
  ASSUME NEW e \in Descriptors, Counts(e), NEW d \in Descriptors, NEW u \in Tasks,
         UNCHANGED <<parent, ndep, unjoined>>,
         {pc[d], pc'[d], pc[u], pc'[u]} \cap {"token", "added", "spin", "done"} = {},
         \A f \in Descriptors \ {d, u} : pc'[f] = pc[f],
         \A f \in Descriptors \ {d} : caller'[f] = caller[f],
         caller'[d] \in {"block", "block2"} <=> caller[d] \in {"block", "block2"}
  PROVE  Counts(e)'
<1>1. \A v \in Tasks : pc'[v] = "done" <=> pc[v] = "done"
  BY DEF Descriptors
<1>2. Children(e)' = Children(e)
  BY <1>1, ChildrenFrame
<1>3. pc'[e] = pc[e] \/ {pc[e], pc'[e]} \cap {"token", "added", "spin"} = {}
  OBVIOUS
<1>4. Joining(e)' <=> Joining(e)
  BY <1>3 DEF Joining
<1> QED BY <1>2, <1>3, <1>4, CountsFrame

LEMMA CountStep ==
  ASSUME IInv, NEW w \in Workers, Step(w)
  PROVE  DepCount'
<1> SUFFICES ASSUME NEW e \in Descriptors
             PROVE  Counts(e)'
  BY DEF DepCount, Counts
<1> DEFINE d == curr[w]
           t == rte[w]
<1>a. /\ Counts(e) /\ Counts(d) /\ TypeOK /\ QueueInv /\ HandsInv /\ FieldsInv
  BY TopType DEF IInv, DepCount, Counts
<1>b. /\ d \in Descriptors /\ pc[d] \in TopStates
      /\ pc \in [Descriptors -> Places] /\ caller \in [Descriptors -> Callers]
      /\ ndep \in [Descriptors -> Int] /\ parent \in [Tasks -> Descriptors \cup {NoDesc}]
      /\ \A u \in Tasks : u \in Descriptors
      /\ NoDesc \notin Descriptors
  BY <1>a, TopType, NoDescAssumption DEF TypeOK, Descriptors
<1>c. /\ Cardinality(Children(e)) \in Nat /\ (Cardinality(Children(e)) = 0 <=> Children(e) = {})
      /\ ndep[e] = Cardinality(Children(e)) + OwnShare(e)
      /\ e \notin unjoined => Children(e) = {} /\ pc[e] \notin {"token", "added"}
  BY <1>a, ChildrenFinite DEF Counts
<1>1. CASE Local(w)
  <2>1. PICK s \in TopStates : pc' = [pc EXCEPT ![d] = s] /\ UNCHANGED parent
    BY <1>1, LocalMove
  <2>2. \A u \in Tasks : pc'[u] = "done" <=> pc[u] = "done"
    BY <1>b, <2>1, TopNames
  <2>3. Children(e)' = Children(e)
    BY <2>1, <2>2, ChildrenFrame
  <2>4. CASE e = d
    BY <1>1, <2>3, <2>4, CountLocal
  <2>5. CASE e # d
    <3>1. /\ caller'[e] = caller[e] /\ ndep'[e] = ndep[e]
          /\ e \in unjoined' <=> e \in unjoined
      BY <1>1, <1>b, <2>5 DEF Local, Waits, DepAdd, WaitAll, WaitAll2, GiveTokenBack, WaitAll3,
         SpinDone, BlockDone, BlockOn, Block2Peek, Block2Recheck, Block2Idle, Return,
         EnterScheduler, SchedulerLoopOnce, FetchWork, EnterFrom, DequeueEmpty, NextQueue
    <3>2. pc'[e] = pc[e]
      BY <1>b, <2>1, <2>5
    <3> QED BY <1>a, <2>3, <3>1, <3>2, CountsFrame DEF Joining
  <2> QED BY <2>4, <2>5
<1>2. CASE ToRqEnd(w)
  <2>1. /\ t \in Tasks /\ pc[t] = "new" /\ pc[d] = "added" /\ parent[t] = NoDesc
        /\ pc' = [pc EXCEPT ![d] = "run", ![t] = "queued"] /\ parent' = [parent EXCEPT ![t] = d]
        /\ UNCHANGED <<ndep, caller, unjoined>>
    BY <1>2, <1>a DEF ToRqEnd, HandsInv, TypeOK, FieldsInv
  <2>2. \A u \in Tasks : pc'[u] = "done" <=> pc[u] = "done"
    BY <1>b, <2>1, TopNames
  <2>3. CASE e = d
    <3>1. Children(e)' = Children(e) \cup {t} /\ t \notin Children(e)
      BY <1>b, <2>1, <2>2, <2>3 DEF Children
    <3>2. Cardinality(Children(e)') = Cardinality(Children(e)) + 1
      BY <3>1, ChildrenFinite, FS_AddElement
    <3>3. caller[e] = "none" /\ e \in unjoined /\ pc'[e] = "run"
      BY <1>a, <1>b, <1>c, <2>1, <2>3 DEF FieldsInv
    <3>4. OwnShare(e) = 2 /\ OwnShare(e)' = 1
      BY <2>1, <2>3, <3>3 DEF OwnShare, Joining
    <3> QED BY <1>c, <2>1, <3>1, <3>2, <3>3, <3>4 DEF Counts
  <2>4. CASE e # d
    <3>1. Children(e)' = Children(e)
      BY <1>b, <2>1, <2>2, <2>4, ChildrenFrame
    <3>2. pc'[e] = pc[e] \/ {pc[e], pc'[e]} \cap {"token", "added", "spin"} = {}
      BY <1>b, <2>1, <2>4
    <3>3. Joining(e)' <=> Joining(e)
      BY <2>1, <3>2 DEF Joining
    <3> QED BY <1>a, <2>1, <3>1, <3>2, <3>3, CountsFrame
  <2> QED BY <2>3, <2>4
<1>3. ASSUME NEW u \in Tasks, Task(w, u) PROVE Counts(e)'
  <2>1. /\ pc[u] = "unborn" /\ pc[d] = "run" /\ u # d
        /\ pc' = [pc EXCEPT ![d] = "token", ![u] = "new"]
        /\ ndep' = [ndep EXCEPT ![d] = IF @ = 0 THEN 1 ELSE @]
        /\ unjoined' = unjoined \cup {d}
        /\ UNCHANGED <<parent, caller>>
    BY <1>3 DEF Task, AppCalls
  <2>2. \A v \in Tasks : pc'[v] = "done" <=> pc[v] = "done"
    BY <1>b, <2>1, TopNames
  <2>3. Children(e)' = Children(e)
    BY <2>1, <2>2, ChildrenFrame
  <2>4. CASE e = d
    <3>1. caller[e] = "none" /\ pc'[e] = "token" /\ pc[e] = "run" /\ e \in unjoined'
      BY <1>a, <1>b, <2>1, <2>4 DEF FieldsInv
    <3>2. OwnShare(e) = (IF e \in unjoined THEN 1 ELSE 0) /\ OwnShare(e)' = 1
      BY <2>1, <3>1 DEF OwnShare, Joining
    <3>3. ndep'[e] = IF ndep[e] = 0 THEN 1 ELSE ndep[e]
      BY <1>b, <2>1, <2>4
    <3>4. ndep'[e] = Cardinality(Children(e)) + 1
      BY <1>c, <3>2, <3>3
    <3> QED BY <2>3, <3>1, <3>2, <3>4 DEF Counts
  <2>5. CASE e # d
    <3>1. pc'[e] = pc[e] \/ {pc[e], pc'[e]} \cap {"token", "added", "spin"} = {}
      BY <1>b, <2>1, <2>5
    <3>2. Joining(e)' <=> Joining(e)
      BY <2>1, <3>1 DEF Joining
    <3> QED BY <1>a, <1>b, <2>1, <2>3, <2>5, <3>1, <3>2, CountsFrame
  <2> QED BY <2>4, <2>5
<1>4. ASSUME NEW u \in Tasks, TaskDetached(w, u) PROVE Counts(e)'
  <2>1. /\ pc[u] = "unborn" /\ pc[d] = "run" /\ pc' = [pc EXCEPT ![u] = "queued"]
        /\ UNCHANGED <<parent, ndep, unjoined, caller>>
    BY <1>4 DEF TaskDetached, AppCalls
  <2>2. /\ pc'[u] = "queued" /\ pc'[d] = "run"
        /\ \A f \in Descriptors \ {d, u} : pc'[f] = pc[f]
    BY <1>b, <2>1
  <2> HIDE DEF d
  <2> QED BY <1>a, <1>b, <2>1, <2>2, CountMove
<1>5. CASE Dequeue(w)
  <2> DEFINE h == Head(queue[cursor[w]])
  <2>1. /\ h \in Tasks /\ pc[h] = "queued" /\ h # d /\ pc[d] \in {"poll", "repoll"}
        /\ pc' = [pc EXCEPT ![d] = "found", ![h] = "held"]
        /\ UNCHANGED <<parent, ndep, unjoined, caller>>
    BY <1>5, <1>a, <1>b, HeadQueued, TopNames DEF Dequeue, Scanning
  <2> HIDE DEF h, d
  <2>2. /\ pc'[h] = "held" /\ pc'[d] = "found"
        /\ \A f \in Descriptors \ {d, h} : pc'[f] = pc[f]
    BY <1>b, <2>1
  <2> QED BY <1>a, <1>b, <2>1, <2>2, CountMove
<1>6. CASE DequeueDrop(w)
  <2> DEFINE h == Head(queue[cursor[w]])
             next == NothingFound(d)
  <2>1. /\ h \in Tasks /\ pc[h] = "queued" /\ h # d /\ pc[d] \in {"poll", "repoll"}
        /\ UNCHANGED <<parent, ndep, unjoined>>
    BY <1>6, <1>a, <1>b, HeadQueued, TopNames DEF DequeueDrop, Scanning
  <2>2. /\ next \in {"run", "repoll", "blocked", "idle"}
        /\ next = "run" => caller[d] \notin {"block", "block2"}
    BY <2>1 DEF NothingFound
  <2>3. \/ pc' = [pc EXCEPT ![h] = "lost"] /\ caller' = caller
        \/ /\ pc' = [[pc EXCEPT ![h] = "lost"] EXCEPT ![d] = next]
           /\ caller' = [caller EXCEPT ![d] = IF next = "run" THEN "none" ELSE @]
    BY <1>6, NextQueueEffect DEF DequeueDrop
  <2> HIDE DEF h, d, next
  <2>4. /\ pc'[h] = "lost" /\ (pc'[d] = pc[d] \/ pc'[d] = next)
        /\ \A f \in Descriptors \ {d, h} : pc'[f] = pc[f]
        /\ \A f \in Descriptors \ {d} : caller'[f] = caller[f]
        /\ caller'[d] \in {"block", "block2"} <=> caller[d] \in {"block", "block2"}
    BY <1>b, <2>1, <2>2, <2>3
  <2> QED BY <1>a, <1>b, <2>1, <2>2, <2>4, CountMove
<1>7. CASE FetchPut(w)
  <2>1. /\ t \in Tasks /\ pc[t] = "held" /\ t # d /\ pc[d] = "found" /\ caller[d] = "fetch"
        /\ pc' = [pc EXCEPT ![d] = "run", ![t] = "queued"]
        /\ caller' = [caller EXCEPT ![d] = "none"]
        /\ UNCHANGED <<parent, ndep, unjoined>>
    BY <1>7, <1>a DEF FetchPut, HandsInv, TypeOK
  <2> HIDE DEF t, d
  <2>2. /\ pc'[t] = "queued" /\ pc'[d] = "run" /\ caller'[d] = "none"
        /\ \A f \in Descriptors \ {d, t} : pc'[f] = pc[f]
        /\ \A f \in Descriptors \ {d} : caller'[f] = caller[f]
    BY <1>b, <2>1
  <2> QED BY <1>a, <1>b, <2>1, <2>2, CountMove
<1>8. CASE Execute(w)
  <2>1. /\ t \in Tasks /\ pc[t] = "held" /\ t # d /\ pc[d] = "found"
        /\ pc' = [pc EXCEPT ![d] = "exec", ![t] = "run"]
        /\ UNCHANGED <<parent, ndep, unjoined, caller>>
    BY <1>8, <1>a DEF Execute, HandsInv, TypeOK
  <2> HIDE DEF t, d
  <2>2. /\ pc'[t] = "run" /\ pc'[d] = "exec"
        /\ \A f \in Descriptors \ {d, t} : pc'[f] = pc[f]
    BY <1>b, <2>1
  <2> QED BY <1>a, <1>b, <2>1, <2>2, CountMove
<1>9. CASE Finish(w)
  <2> DEFINE m == me[d]
             next == AfterWork(caller[m])
  <2>1. /\ d \in Tasks /\ m \in Descriptors /\ pc[m] = "exec" /\ pc[d] = "run" /\ m # d
        /\ pc' = [pc EXCEPT ![d] = "done", ![m] = next]
        /\ ndep' = IF parent[d] = NoDesc THEN ndep ELSE [ndep EXCEPT ![parent[d]] = @ - 1]
        /\ caller' = [caller EXCEPT ![m] = IF @ = "once" THEN "none" ELSE @]
        /\ UNCHANGED <<parent, unjoined>>
    BY <1>9, TopType DEF Finish
  <2>2. next \in {"poll", "blocked", "run"}
    BY DEF AfterWork
  <2> HIDE DEF m, d, next
  <2>3. /\ pc'[d] = "done" /\ pc'[m] = next
        /\ \A f \in Descriptors \ {d, m} : pc'[f] = pc[f]
        /\ \A f \in Descriptors \ {m} : caller'[f] = caller[f]
        /\ caller'[m] \in {"block", "block2"} <=> caller[m] \in {"block", "block2"}
    BY <1>b, <2>1
  <2>4. Children(e)' = Children(e) \ {d}
    BY <1>b, <2>1, <2>2, <2>3 DEF Children
  <2>5. pc'[e] \notin {"token", "added", "spin"} \/ pc'[e] = pc[e]
    BY <2>2, <2>3
  <2>6. pc[e] \notin {"token", "added", "spin"} \/ pc'[e] = pc[e]
    BY <2>1, <2>3
  <2>7. Joining(e)' <=> Joining(e)
    BY <2>3, <2>5, <2>6 DEF Joining
  <2>8. OwnShare(e)' = OwnShare(e)
    BY <2>1, <2>5, <2>6, <2>7 DEF OwnShare
  <2>9. CASE parent[d] = e
    <3>1. d \in Children(e)
      BY <2>1, <2>9 DEF Children
    <3>2. Cardinality(Children(e)') = Cardinality(Children(e)) - 1
      BY <2>4, <3>1, ChildrenFinite, FS_RemoveElement
    <3>3. ndep'[e] = ndep[e] - 1
      BY <1>b, <2>1, <2>9
    <3>4. ndep'[e] = Cardinality(Children(e)') + OwnShare(e)'
      BY <1>b, <1>c, <2>8, <3>2, <3>3, OwnShareType
    <3> QED BY <1>c, <2>1, <2>4, <2>5, <3>1, <3>4 DEF Counts
  <2>10. CASE parent[d] # e
    <3>1. Children(e)' = Children(e)
      BY <2>4, <2>10 DEF Children
    <3>2. ndep'[e] = ndep[e]
      BY <1>b, <2>1, <2>10
    <3> QED BY <1>c, <2>1, <2>5, <2>8, <3>1, <3>2 DEF Counts
  <2> QED BY <2>9, <2>10
<1> QED
  BY <1>1, <1>2, <1>3, <1>4, <1>5, <1>6, <1>7, <1>8, <1>9
  DEF Step, Creates, Waits, Schedules, Local

(***************************************************************************)
(* The theorems.                                                           *)
(***************************************************************************)
LEMMA InitInv == Init => IInv
<1> SUFFICES ASSUME Init
             PROVE  IInv
  OBVIOUS
<1>a. /\ \A d \in Descriptors : pc[d] \in {"run", "poll", "unborn"}
      /\ \A t \in Tasks : pc[t] = "unborn" /\ t \notin Workers /\ t \in Descriptors
      /\ \A w \in Workers : pc[w] \in {"run", "poll"} /\ curr[w] = w /\ w \in Descriptors
  BY WorkersAssumption, TasksAssumption DEF Init, Descriptors
<1>1. TypeOK
  BY <1>a, PlaceNames, QueuesType, WorkersAssumption DEF Init, TypeOK, Callers, Descriptors
<1>2. StackInv
  BY <1>a, TopNames DEF Init, StackInv, Descriptors
<1>3. QueueInv
  BY <1>a DEF Init, QueueInv
<1>4. HandsInv
  BY <1>a DEF Init, HandsInv
<1>5. FieldsInv
  <2>1. \A d \in Descriptors : Agree(pc[d], caller[d])
    BY <1>a, WorkersAssumption, AgreeNames DEF Init, Descriptors, Dormant
  <2>2. \A t \in Tasks : parent[t] = NoDesc
    BY DEF Init
  <2> QED BY <2>1, <2>2 DEF FieldsInv, Agree
<1>6. DepCount
  <2> SUFFICES ASSUME NEW d \in Descriptors
               PROVE  Counts(d)
    BY DEF DepCount, Counts
  <2>1. Children(d) = {}
    BY NoDescAssumption DEF Init, Children, Descriptors
  <2>2. Cardinality(Children(d)) = 0
    BY <2>1, FS_EmptySet
  <2>3. ndep[d] = 0 /\ d \notin unjoined /\ OwnShare(d) = 0 /\ pc[d] \notin {"token", "added"}
    BY <1>a DEF Init, OwnShare
  <2> QED BY <2>1, <2>2, <2>3 DEF Counts
<1> QED BY <1>1, <1>2, <1>3, <1>4, <1>5, <1>6 DEF IInv

LEMMA StepInv == IInv /\ [Next]_vars => IInv'
<1> SUFFICES ASSUME IInv, [Next]_vars
             PROVE  IInv'
  OBVIOUS
<1>1. ASSUME NEW w \in Workers, Step(w) PROVE IInv'
  BY <1>1, TypeStep, StackStep, QueueStep, HandsStep, FieldsStep, CountStep DEF IInv
<1>2. CASE UNCHANGED vars
  <2>1. TypeOK' /\ StackInv' /\ HandsInv'
    BY <1>2 DEF vars, IInv, TypeOK, StackInv, HandsInv
  <2>2. QueueInv' /\ FieldsInv'
    BY <1>2 DEF vars, IInv, QueueInv, FieldsInv
  <2>3. \A d \in Descriptors : Children(d)' = Children(d) /\ OwnShare(d)' = OwnShare(d)
    BY <1>2 DEF vars, Children, OwnShare, Joining
  <2>4. DepCount'
    BY <1>2, <2>3 DEF vars, IInv, DepCount
  <2> QED BY <2>1, <2>2, <2>4 DEF IInv
<1> QED BY <1>1, <1>2 DEF Next

(* The invariant holds in every reachable state: the counters count the    *)
(* unfinished children, the executing descriptors form one stack per       *)
(* worker, and a task that waits to be executed is in exactly one place.   *)
THEOREM Invariance == Spec => []IInv
BY InitInv, StepInv, PTL DEF Spec

(* Type correctness.                                                       *)
THEOREM TypeCorrect == Spec => []TypeOK
<1>1. IInv => TypeOK
  BY DEF IInv
<1> QED BY <1>1, Invariance, PTL

(* The counters count what they are there to count.                        *)
THEOREM CounterCorrect == Spec => []DepCount
<1>1. IInv => DepCount
  BY DEF IInv
<1> QED BY <1>1, Invariance, PTL

(* Executing descriptors form one stack per worker, with self() on top.    *)
THEOREM StacksCorrect == Spec => []StackInv
<1>1. IInv => StackInv
  BY DEF IInv
<1> QED BY <1>1, Invariance, PTL

(* A queued task is in one queue, and there once.                          *)
THEOREM QueuesCorrect == Spec => []QueueInv
<1>1. IInv => QueueInv
  BY DEF IInv
<1> QED BY <1>1, Invariance, PTL

(***************************************************************************)
(* Joins.                                                                  *)
(***************************************************************************)

(* The only steps that end a wait are those of its own worker, from one of *)
(* the places where the counter has just been compared with 0.             *)
LEMMA EndOfJoin ==
  ASSUME IInv, NEW w \in Workers, Step(w), NEW e \in Descriptors, Joining(e), ~Joining(e)'
  PROVE  e = curr[w] /\ ndep[e] <= 0 /\ pc[e] # "added"
<1> DEFINE d == curr[w]
           t == rte[w]
<1>a. TypeOK /\ QueueInv /\ HandsInv /\ FieldsInv
  BY DEF IInv
<1>b. /\ d \in Descriptors /\ pc[d] \in TopStates
      /\ pc \in [Descriptors -> Places] /\ caller \in [Descriptors -> Callers]
      /\ ndep \in [Descriptors -> Int]
      /\ \A u \in Tasks : u \in Descriptors
  BY <1>a, TopType DEF TypeOK, Descriptors
<1>c. caller[e] \in {"block", "block2"} \/ pc[e] = "spin"
  BY DEF Joining
<1>d. caller'[e] \notin {"block", "block2"} /\ pc'[e] # "spin"
  BY DEF Joining
<1>e. pc[d] \in {"run", "token", "added"} => caller[d] = "none"
  BY <1>a, <1>b DEF FieldsInv
<1>1. CASE Local(w)
  <2>1. CASE DepAdd(w) \/ WaitAll3(w) \/ SchedulerLoopOnce(w) \/ FetchWork(w)
    BY <2>1, <1>b, <1>c, <1>d, <1>e DEF DepAdd, WaitAll3, AppCalls, SchedulerLoopOnce, FetchWork,
       EnterFrom, EnterScheduler
  <2>2. CASE WaitAll(w) \/ WaitAll2(w)
    BY <2>2, <1>b, <1>c, <1>d DEF WaitAll, WaitAll2, GiveTokenBack, AppCalls
  <2>3. CASE SpinDone(w) \/ BlockDone(w)
    BY <2>3, <1>b, <1>c, <1>d DEF SpinDone, BlockDone, Return
  <2>4. CASE BlockOn(w) \/ Block2Peek(w)
    BY <2>4, <1>b, <1>c, <1>d DEF BlockOn, Block2Peek, EnterScheduler
  <2>5. CASE Block2Recheck(w)
    BY <2>5, <1>b, <1>c, <1>d DEF Block2Recheck, Return, EnterScheduler
  <2>6. CASE Block2Idle(w)
    BY <2>6, <1>b, <1>c, <1>d DEF Block2Idle, Return
  <2>7. CASE DequeueEmpty(w)
    <3> DEFINE next == NothingFound(d)
    <3>1. /\ pc[d] \in {"poll", "repoll"}
          /\ \/ pc' = pc /\ caller' = caller
             \/ /\ pc' = [pc EXCEPT ![d] = next]
                /\ caller' = [caller EXCEPT ![d] = IF next = "run" THEN "none" ELSE @]
      BY <2>7, NextQueueEffect DEF DequeueEmpty, Scanning
    <3>2. next = "run" => caller[d] \notin {"block", "block2"}
      BY <3>1 DEF NothingFound
    <3> HIDE DEF next
    <3> QED BY <3>1, <3>2, <1>b, <1>c, <1>d
  <2> QED
    BY <1>1, <2>1, <2>2, <2>3, <2>4, <2>5, <2>6, <2>7 DEF Local, Waits
<1>2. CASE ToRqEnd(w)
  <2>1. t \in Tasks /\ pc[t] = "new" /\ pc[d] = "added"
    BY <1>2, <1>a DEF ToRqEnd, HandsInv, TypeOK
  <2> QED BY <1>2, <2>1, <1>b, <1>c, <1>d DEF ToRqEnd
<1>3. ASSUME NEW u \in Tasks, Task(w, u) \/ TaskDetached(w, u) PROVE FALSE
  BY <1>3, <1>b, <1>c, <1>d DEF Task, TaskDetached, AppCalls
<1>4. CASE Dequeue(w) \/ DequeueDrop(w)
  <2> DEFINE h == Head(queue[cursor[w]])
             next == NothingFound(d)
  <2>1. h \in Tasks /\ pc[h] = "queued" /\ h # d /\ pc[d] \in {"poll", "repoll"}
    BY <1>4, <1>a, <1>b, HeadQueued, TopNames DEF Dequeue, DequeueDrop, Scanning
  <2>2. next = "run" => caller[d] \notin {"block", "block2"}
    BY <2>1 DEF NothingFound
  <2>3. \/ pc' = [pc EXCEPT ![d] = "found", ![h] = "held"] /\ caller' = caller
        \/ pc' = [pc EXCEPT ![h] = "lost"] /\ caller' = caller
        \/ /\ pc' = [[pc EXCEPT ![h] = "lost"] EXCEPT ![d] = next]
           /\ caller' = [caller EXCEPT ![d] = IF next = "run" THEN "none" ELSE @]
    BY <1>4, NextQueueEffect DEF Dequeue, DequeueDrop
  <2> HIDE DEF h, next
  <2> QED BY <2>1, <2>2, <2>3, <1>b, <1>c, <1>d
<1>5. CASE FetchPut(w) \/ Execute(w)
  <2>1. t \in Tasks /\ pc[t] = "held" /\ t # d /\ pc[d] = "found"
    BY <1>5, <1>a DEF FetchPut, Execute, HandsInv, TypeOK
  <2> QED BY <1>5, <2>1, <1>b, <1>c, <1>d DEF FetchPut, Execute
<1>6. CASE Finish(w)
  <2> DEFINE m == me[d]
             next == AfterWork(caller[m])
  <2>1. /\ d \in Tasks /\ m \in Descriptors /\ pc[m] = "exec" /\ pc[d] = "run"
        /\ pc' = [pc EXCEPT ![d] = "done", ![m] = next]
        /\ caller' = [caller EXCEPT ![m] = IF @ = "once" THEN "none" ELSE @]
    BY <1>6, TopType DEF Finish
  <2> HIDE DEF m, next
  <2> QED BY <2>1, <1>b, <1>c, <1>d, <1>e
<1> QED
  BY <1>1, <1>2, <1>3, <1>4, <1>5, <1>6 DEF Step, Creates, Waits, Schedules, Local

LEMMA JoinStep ==
  ASSUME IInv, NEW w \in Workers, Step(w), NEW e \in Descriptors, Joining(e), ~Joining(e)'
  PROVE  Children(e) = {}
<1>1. Counts(e)
  BY DEF IInv, DepCount, Counts
<1> QED BY <1>1, EndOfJoin, ZeroMeansNoChildren

(* A wait comes back only when every child has finished.                   *)
THEOREM JoinsAreSound == Spec => JoinSound
<1>1. IInv /\ [Next]_vars =>
        [\A d \in Descriptors : Joining(d) /\ ~Joining(d)' => Children(d) = {}]_vars
  BY JoinStep DEF Next
<1> QED BY <1>1, Invariance, PTL DEF Spec, JoinSound

(***************************************************************************)
(* Parents.                                                                *)
(***************************************************************************)

(* A descriptor that has returned has nothing left to wait for.            *)
DoneJoined ==
  JoinBeforeReturn => \A d \in Descriptors : pc[d] = "done" => d \notin unjoined

(* A step of w marks nobody done but the task that returns, which has      *)
(* joined its children, and nobody unjoined but a creator.                 *)
LEMMA DoneJoinedStep ==
  ASSUME IInv, DoneJoined, NEW w \in Workers, Step(w)
  PROVE  DoneJoined'
<1> DEFINE d == curr[w]
           t == rte[w]
<1> SUFFICES ASSUME JoinBeforeReturn, NEW u \in Descriptors, pc'[u] = "done"
             PROVE  u \notin unjoined'
  BY DEF DoneJoined
<1>a. /\ TypeOK /\ QueueInv /\ HandsInv
      /\ pc[u] = "done" => u \notin unjoined
  BY DEF IInv, DoneJoined
<1>b. /\ d \in Descriptors /\ pc[d] \in TopStates /\ pc \in [Descriptors -> Places]
      /\ u \in Descriptors
  BY <1>a, TopType DEF TypeOK, Descriptors
<1>1. CASE Local(w)
  <2>1. unjoined' \subseteq unjoined
    BY <1>1 DEF Local, Waits, DepAdd, WaitAll, WaitAll2, GiveTokenBack, WaitAll3,
       SpinDone, BlockDone, BlockOn, Block2Peek, Block2Recheck, Block2Idle, Return,
       SchedulerLoopOnce, FetchWork, EnterFrom, DequeueEmpty
  <2>2. PICK s \in TopStates : pc' = [pc EXCEPT ![d] = s]
    BY <1>1, LocalMove
  <2>3. pc[u] = "done"
    BY <1>b, <2>2, TopNames
  <2> QED BY <1>a, <2>1, <2>3
<1>2. CASE ToRqEnd(w)
  <2>1. t \in Tasks
    BY <1>2, <1>a DEF ToRqEnd, HandsInv, TypeOK
  <2> QED BY <1>2, <2>1, <1>a, <1>b DEF ToRqEnd
<1>3. ASSUME NEW v \in Tasks, Task(w, v) \/ TaskDetached(w, v) PROVE u \notin unjoined'
  BY <1>3, <1>a, <1>b DEF Task, TaskDetached
<1>4. CASE Dequeue(w) \/ DequeueDrop(w)
  <2> DEFINE h == Head(queue[cursor[w]])
             next == NothingFound(d)
  <2>1. next # "done"
    BY DEF NothingFound
  <2>2. /\ unjoined' = unjoined
        /\ \/ pc' = [pc EXCEPT ![d] = "found", ![h] = "held"]
           \/ pc' = [pc EXCEPT ![h] = "lost"]
           \/ pc' = [[pc EXCEPT ![h] = "lost"] EXCEPT ![d] = next]
    BY <1>4, NextQueueEffect DEF Dequeue, DequeueDrop
  <2> HIDE DEF h, next
  <2> QED BY <2>1, <2>2, <1>a, <1>b
<1>5. CASE FetchPut(w) \/ Execute(w)
  BY <1>5, <1>a, <1>b DEF FetchPut, Execute
<1>6. CASE Finish(w)
  <2> DEFINE next == AfterWork(caller[me[d]])
  <2>1. next # "done"
    BY DEF AfterWork
  <2>2. /\ unjoined' = unjoined /\ d \notin unjoined
        /\ pc' = [pc EXCEPT ![d] = "done", ![me[d]] = next]
    BY <1>6 DEF Finish
  <2> HIDE DEF next
  <2> QED BY <2>1, <2>2, <1>a, <1>b
<1> QED
  BY <1>1, <1>2, <1>3, <1>4, <1>5, <1>6 DEF Step, Creates, Waits, Schedules, Local

LEMMA DoneJoinedInvariant == Spec => []DoneJoined
<1>1. Init => DoneJoined
  BY TasksAssumption, WorkersAssumption DEF Init, DoneJoined
<1>2. IInv /\ DoneJoined /\ [Next]_vars => DoneJoined'
  <2>1. CASE UNCHANGED vars
    BY <2>1 DEF DoneJoined, vars
  <2> QED BY <2>1, DoneJoinedStep DEF Next
<1> QED BY <1>1, <1>2, Invariance, PTL DEF Spec

(* In an application whose tasks wait before they return, a task never     *)
(* returns while a child still points to its descriptor.                   *)
THEOREM ParentsStay == Spec => []NoStaleParent
<1>1. IInv /\ DoneJoined => NoStaleParent
  BY DEF IInv, TypeOK, DepCount, DoneJoined, NoStaleParent, Children
<1> QED BY <1>1, Invariance, DoneJoinedInvariant, PTL

(***************************************************************************)
(* Refinement.                                                             *)
(***************************************************************************)

(* The statuses of all tasks.                                              *)
Statuses == [t \in Tasks |-> Status(t)]

LEMMA StatusOfTop ==
  ASSUME NEW t, pc[t] \in TopStates \cup {"exec"}
  PROVE  Status(t) = "active"
BY TopNames DEF Status

LEMMA RefinesInit == Init => FJ!Init
<1> SUFFICES ASSUME Init
             PROVE  FJ!Init
  OBVIOUS
<1>1. \A t \in Tasks : Status(t) = "none"
  BY TasksAssumption, WorkersAssumption DEF Init, Status, Descriptors
<1>2. \A d \in Descriptors : ~Joining(d)
  BY DEF Init, Joining
<1> QED BY <1>1, <1>2 DEF FJ!Init, Init

(* Who is waiting changes at the top of w's stack only, and a wait begins  *)
(* with a call of the application.                                         *)
LEMMA LocalJoin ==
  ASSUME IInv, NEW w \in Workers, Local(w), NEW d, d = curr[w]
  PROVE  /\ \A e \in Descriptors \ {d} : Joining(e)' <=> Joining(e)
         /\ Joining(d)' /\ ~Joining(d) => pc[d] = "run"
<1>a. /\ d \in Descriptors /\ pc[d] \in TopStates
      /\ pc \in [Descriptors -> Places] /\ caller \in [Descriptors -> Callers]
  BY TopType DEF IInv, TypeOK
<1>1. PICK s \in TopStates : pc' = [pc EXCEPT ![d] = s]
  BY LocalMove
<1>2. CASE WaitAll(w) \/ WaitAll2(w) \/ WaitAll3(w) \/ SchedulerLoopOnce(w) \/ FetchWork(w)
  BY <1>2, <1>a DEF WaitAll, WaitAll2, GiveTokenBack, WaitAll3, AppCalls, SchedulerLoopOnce,
     FetchWork, EnterFrom, Joining, EnterScheduler
<1>3. CASE SpinDone(w) \/ BlockDone(w)
  BY <1>3, <1>a DEF SpinDone, BlockDone, Return, Joining
<1>4. CASE DepAdd(w) \/ BlockOn(w) \/ Block2Peek(w)
  BY <1>4, <1>a DEF DepAdd, BlockOn, Block2Peek, EnterScheduler, Joining
<1>5. CASE Block2Recheck(w) \/ Block2Idle(w)
  BY <1>5, <1>a DEF Block2Recheck, Block2Idle, Return, EnterScheduler, Joining
<1>6. CASE DequeueEmpty(w)
  <2> DEFINE next == NothingFound(d)
  <2>1. \/ pc' = pc /\ caller' = caller
        \/ /\ pc' = [pc EXCEPT ![d] = next]
           /\ caller' = [caller EXCEPT ![d] = IF next = "run" THEN "none" ELSE @]
    BY <1>6, NextQueueEffect DEF DequeueEmpty
  <2>2. next # "spin"
    BY DEF NothingFound
  <2> HIDE DEF next
  <2> QED BY <2>1, <2>2, <1>a DEF Joining
<1> QED BY <1>2, <1>3, <1>4, <1>5, <1>6, Zenon DEF Local, Waits

LEMMA RefinesStep ==
  ASSUME IInv, NEW w \in Workers, Step(w)
  PROVE  FJ!Next \/ UNCHANGED FJ!vars
<1> DEFINE d == curr[w]
           t == rte[w]
<1>a. TypeOK /\ QueueInv /\ HandsInv /\ FieldsInv /\ DepCount
  BY DEF IInv
<1>b. /\ d \in Descriptors /\ pc[d] \in TopStates
      /\ pc \in [Descriptors -> Places] /\ caller \in [Descriptors -> Callers]
      /\ parent \in [Tasks -> Descriptors \cup {NoDesc}]
      /\ \A u \in Tasks : u \in Descriptors
      /\ d \in Workers \/ (d \in Tasks /\ Status(d) = "active")
  BY <1>a, TopType, StatusOfTop DEF TypeOK, Descriptors
<1>c. /\ pc[d] \in {"run", "token", "added"} => caller[d] = "none"
      /\ pc[d] \in {"run", "token", "added"} => ~Joining(d)
  BY <1>a, <1>b DEF FieldsInv, Joining
<1>1. CASE Local(w)
  <2>0. PICK c \in Descriptors : c = d
    BY <1>b
  <2>1. PICK s \in TopStates : pc' = [pc EXCEPT ![c] = s] /\ parent' = parent
    BY <1>1, <2>0, LocalMove
  <2>2. \A v \in Tasks : Status(v)' = Status(v)
    <3>1. TAKE v \in Tasks
    <3>2. CASE v = c
      BY <2>1, <3>2, <2>0, <1>b, TopNames DEF Status
    <3>3. CASE v # c
      BY <2>1, <3>3, <2>0, <1>b DEF Status
    <3> QED BY <3>2, <3>3
  <2>3. \A e \in Descriptors \ {c} : Joining(e)' <=> Joining(e)
    BY <1>1, <2>0, LocalJoin
  <2>4. CASE Joining(c)' <=> Joining(c)
    BY <2>1, <2>2, <2>3, <2>4 DEF FJ!vars
  <2>5. CASE Joining(c)' /\ ~Joining(c)
    <3>0. pc[c] = "run"
      BY <1>1, <2>0, <2>5, LocalJoin
    <3>1. FJ!Join(c)
      BY <2>0, <1>b, <3>0, <2>1, <2>2, <2>3, <2>5 DEF FJ!Join, FJ!Running
    <3> QED BY <3>1, <2>0, <1>b DEF FJ!Next, FJ!Activities, Descriptors
  <2>6. CASE Joining(c) /\ ~Joining(c)'
    <3>1. Children(c) = {}
      BY <2>0, <1>b, <2>6, JoinStep
    <3>2. \A v \in Tasks : parent[v] = c => Status(v) = "finished"
      BY <3>1 DEF Children, Status
    <3>3. FJ!Joined(c)
      BY <2>0, <1>b, <2>1, <2>2, <2>3, <2>6, <3>2 DEF FJ!Joined, FJ!ChildrenFinished
    <3> QED BY <3>3, <2>0, <1>b DEF FJ!Next, FJ!Activities, Descriptors
  <2> QED BY <2>4, <2>5, <2>6
<1>2. CASE ToRqEnd(w)
  <2>1. /\ t \in Tasks /\ pc[t] = "new" /\ pc[d] = "added" /\ t # d
        /\ pc' = [pc EXCEPT ![d] = "run", ![t] = "queued"]
        /\ parent' = [parent EXCEPT ![t] = d] /\ caller' = caller
    BY <1>2, <1>a DEF ToRqEnd, HandsInv, TypeOK
  <2>2. \A e \in Descriptors : Joining(e)' <=> Joining(e)
    BY <1>b, <2>1 DEF Joining
  <2>3. Statuses' = [Statuses EXCEPT ![t] = "spawned"]
    BY <1>b, <2>1 DEF Statuses, Status
  <2>4. Status(t) = "none"
    BY <2>1 DEF Status
  <2>5. FJ!Spawn(d, t, d)
    BY <1>b, <1>c, <2>1, <2>2, <2>3, <2>4 DEF FJ!Spawn, FJ!Running, Statuses
  <2> QED BY <1>b, <2>1, <2>5 DEF FJ!Next, FJ!Activities, Descriptors
<1>3. ASSUME NEW u \in Tasks, Task(w, u) PROVE UNCHANGED FJ!vars
  <2>1. /\ pc[u] = "unborn" /\ pc[d] = "run"
        /\ pc' = [pc EXCEPT ![d] = "token", ![u] = "new"]
        /\ UNCHANGED <<parent, caller>>
    BY <1>3 DEF Task, AppCalls
  <2>2. \A e \in Descriptors : Joining(e)' <=> Joining(e)
    BY <1>b, <2>1 DEF Joining
  <2>3. \A v \in Tasks : Status(v)' = Status(v)
    BY <1>b, <2>1 DEF Status
  <2> QED BY <2>1, <2>2, <2>3 DEF FJ!vars
<1>4. ASSUME NEW u \in Tasks, TaskDetached(w, u) PROVE FJ!Next
  <2>1. /\ pc[u] = "unborn" /\ pc[d] = "run" /\ pc' = [pc EXCEPT ![u] = "queued"]
        /\ UNCHANGED <<parent, caller>> /\ parent[u] = NoDesc
    BY <1>4, <1>a DEF TaskDetached, AppCalls, FieldsInv
  <2>2. \A e \in Descriptors : Joining(e)' <=> Joining(e)
    BY <1>b, <2>1 DEF Joining
  <2>3. Statuses' = [Statuses EXCEPT ![u] = "spawned"] /\ Status(u) = "none"
    BY <1>b, <2>1 DEF Statuses, Status
  <2>4. parent' = [parent EXCEPT ![u] = NoDesc]
    BY <1>b, <2>1
  <2>5. FJ!Spawn(d, u, NoDesc)
    BY <1>b, <1>c, <2>1, <2>2, <2>3, <2>4 DEF FJ!Spawn, FJ!Running, Statuses
  <2> QED BY <1>b, <2>5 DEF FJ!Next, FJ!Activities, Descriptors
<1>5. CASE Dequeue(w) \/ DequeueDrop(w)
  <2> DEFINE h == Head(queue[cursor[w]])
             next == NothingFound(d)
  <2>1. /\ h \in Tasks /\ pc[h] = "queued" /\ h # d /\ pc[d] \in {"poll", "repoll"}
        /\ parent' = parent
    BY <1>5, <1>a, <1>b, HeadQueued, TopNames DEF Dequeue, DequeueDrop, Scanning
  <2>2. /\ next \in {"run", "repoll", "blocked", "idle"}
        /\ next = "run" => caller[d] \notin {"block", "block2"}
    BY <2>1 DEF NothingFound
  <2>3. \/ pc' = [pc EXCEPT ![d] = "found", ![h] = "held"] /\ caller' = caller
        \/ pc' = [pc EXCEPT ![h] = "lost"] /\ caller' = caller
        \/ /\ pc' = [[pc EXCEPT ![h] = "lost"] EXCEPT ![d] = next]
           /\ caller' = [caller EXCEPT ![d] = IF next = "run" THEN "none" ELSE @]
    BY <1>5, NextQueueEffect DEF Dequeue, DequeueDrop
  <2> HIDE DEF h, next
  <2>4. \A e \in Descriptors : Joining(e)' <=> Joining(e)
    BY <1>b, <2>1, <2>2, <2>3 DEF Joining
  <2>5. \A v \in Tasks : Status(v)' = Status(v)
    BY <1>b, <2>1, <2>2, <2>3 DEF Status
  <2> QED BY <2>1, <2>4, <2>5 DEF FJ!vars
<1>6. CASE FetchPut(w)
  <2>1. /\ t \in Tasks /\ pc[t] = "held" /\ t # d /\ pc[d] = "found" /\ caller[d] = "fetch"
        /\ pc' = [pc EXCEPT ![d] = "run", ![t] = "queued"]
        /\ caller' = [caller EXCEPT ![d] = "none"] /\ parent' = parent
    BY <1>6, <1>a DEF FetchPut, HandsInv, TypeOK
  <2>2. \A e \in Descriptors : Joining(e)' <=> Joining(e)
    BY <1>b, <2>1 DEF Joining
  <2>3. \A v \in Tasks : Status(v)' = Status(v)
    BY <1>b, <2>1 DEF Status
  <2> QED BY <2>1, <2>2, <2>3 DEF FJ!vars
<1>7. CASE Execute(w)
  <2>1. /\ t \in Tasks /\ pc[t] = "held" /\ t # d /\ pc[d] = "found"
        /\ pc' = [pc EXCEPT ![d] = "exec", ![t] = "run"]
        /\ UNCHANGED <<parent, caller>>
    BY <1>7, <1>a DEF Execute, HandsInv, TypeOK
  <2>2. \A e \in Descriptors : Joining(e)' <=> Joining(e)
    BY <1>b, <2>1 DEF Joining
  <2>3. Statuses' = [Statuses EXCEPT ![t] = "active"] /\ Status(t) = "spawned"
    BY <1>b, <2>1 DEF Statuses, Status
  <2>4. FJ!Start(t)
    BY <1>b, <2>1, <2>2, <2>3 DEF FJ!Start, Statuses
  <2> QED BY <2>1, <2>4 DEF FJ!Next
<1>8. CASE Finish(w)
  <2> DEFINE m == me[d]
             next == AfterWork(caller[m])
  <2>1. /\ d \in Tasks /\ m \in Descriptors /\ pc[m] = "exec" /\ pc[d] = "run" /\ m # d
        /\ JoinBeforeReturn => d \notin unjoined
        /\ pc' = [pc EXCEPT ![d] = "done", ![m] = next]
        /\ caller' = [caller EXCEPT ![m] = IF @ = "once" THEN "none" ELSE @]
        /\ parent' = parent
    BY <1>8, TopType DEF Finish
  <2>2. /\ next \in {"poll", "blocked", "run"}
        /\ Status(d) = "active" /\ ~Joining(d)
    BY <1>c, <2>1, TopNames, StatusOfTop DEF AfterWork
  <2> HIDE DEF m, next, d
  <2>3. \A e \in Descriptors : Joining(e)' <=> Joining(e)
    BY <1>b, <2>1, <2>2 DEF Joining
  <2>4. Statuses' = [Statuses EXCEPT ![d] = "finished"]
    BY <1>b, <2>1, <2>2 DEF Statuses, Status
  <2>5. JoinBeforeReturn => \A u \in Tasks : parent[u] = d => Status(u) = "finished"
    BY <1>a, <1>b, <2>1 DEF DepCount, Children, Status
  <2>6. FJ!Finish(d)
    BY <2>1, <2>2, <2>3, <2>4, <2>5 DEF FJ!Finish, FJ!ChildrenFinished, Statuses
  <2> QED BY <2>1, <2>6 DEF FJ!Next
<1> QED
  BY <1>1, <1>2, <1>3, <1>4, <1>5, <1>6, <1>7, <1>8
  DEF Step, Creates, Waits, Schedules, Local

(* The runtime implements ForkJoin: a step of a worker is a spawn, a start,*)
(* the begin or the end of a join, a return, or nothing an application can *)
(* see.                                                                    *)
THEOREM RuntimeImplementsForkJoin == Spec => RefinesForkJoin
<1>1. Init => FJ!Init
  BY RefinesInit
<1>2. IInv /\ [Next]_vars => [FJ!Next]_FJ!vars
  <2> SUFFICES ASSUME IInv, [Next]_vars
               PROVE  [FJ!Next]_FJ!vars
    OBVIOUS
  <2>1. CASE UNCHANGED vars
    BY <2>1 DEF vars, FJ!vars, Status, Joining
  <2>2. CASE Next
    BY <2>2, RefinesStep DEF Next
  <2> QED BY <2>1, <2>2
<1> QED BY <1>1, <1>2, Invariance, PTL DEF Spec, RefinesForkJoin, FJ!Spec
(***************************************************************************)
(* No group of descriptors waits for itself in a circle.  The argument:    *)
(* number the tasks in the order in which execute() starts them.  A task   *)
(* is suspended only under one that started later, and waits only for      *)
(* children, which start later than it.  So every descriptor waits for     *)
(* descriptors with higher numbers, and in a group the one with the        *)
(* highest number waits for nobody in it.                                  *)
(***************************************************************************)

(* A parent has started.                                                   *)
Started == {d \in Descriptors : pc[d] \in Active \cup {"done"}}

ParentsStarted == \A t \in Tasks : parent[t] # NoDesc => parent[t] \in Started

(* The numbers grow from what a task runs on top of, and from    *)
(* its parent, to the task.                                                *)
Ordered(rank) ==
  \A t \in Tasks : pc[t] \in Active =>
    /\ rank[me[t]] < rank[t]
    /\ parent[t] # NoDesc => rank[parent[t]] < rank[t]

StartOrder == \E m \in Nat : \E rank \in [Descriptors -> 0 .. m] : Ordered(rank)

(* What steps other than Execute do to who has started.                    *)
LEMMA StartedStep ==
  ASSUME IInv, NEW w \in Workers, Step(w), ~Execute(w)
  PROVE  /\ \A e \in Descriptors : pc'[e] \in Active <=> pc[e] \in Active /\ pc'[e] # "done"
         /\ \A e \in Descriptors : pc[e] = "done" => pc'[e] = "done"
         /\ \A e \in Descriptors : pc[e] \notin Active \cup {"done"} => pc'[e] # "done"
         /\ me' = me
<1> DEFINE d == curr[w]
           t == rte[w]
           Goal == /\ \A e \in Descriptors : pc'[e] \in Active <=> pc[e] \in Active /\ pc'[e] # "done"
                   /\ \A e \in Descriptors : pc[e] = "done" => pc'[e] = "done"
                   /\ \A e \in Descriptors : pc[e] \notin Active \cup {"done"} => pc'[e] # "done"
                   /\ me' = me
<1>a. TypeOK /\ QueueInv /\ HandsInv
  BY DEF IInv
<1>b. /\ d \in Descriptors /\ pc[d] \in TopStates
      /\ pc \in [Descriptors -> Places]
      /\ \A u \in Tasks : u \in Descriptors
      /\ rte \in [Workers -> Tasks \cup {NoDesc}]
  BY <1>a, TopType DEF TypeOK, Descriptors
<1>1. CASE Local(w)
  <2>1. PICK s \in TopStates : pc' = [pc EXCEPT ![d] = s] /\ UNCHANGED me
    BY <1>1, LocalMove
  <2> QED BY <1>b, <2>1, TopNames
<1>2. CASE ToRqEnd(w)
  <2>1. /\ t \in Tasks /\ pc[t] = "new"
        /\ pc' = [pc EXCEPT ![d] = "run", ![t] = "queued"] /\ me' = me
    BY <1>2, <1>a, <1>b DEF ToRqEnd, HandsInv
  <2> HIDE DEF d, t
  <2> QED BY <1>b, <2>1, TopNames
<1>3. ASSUME NEW u \in Tasks, Task(w, u) \/ TaskDetached(w, u) PROVE Goal
  <2>1. /\ pc[u] = "unborn" /\ me' = me
        /\ \/ pc' = [pc EXCEPT ![d] = "token", ![u] = "new"]
           \/ pc' = [pc EXCEPT ![u] = "queued"]
    BY <1>3 DEF Task, TaskDetached
  <2> HIDE DEF d
  <2> QED BY <1>b, <2>1, TopNames
<1>4. CASE Dequeue(w) \/ DequeueDrop(w)
  <2> DEFINE h == Head(queue[cursor[w]])
             next == NothingFound(d)
  <2>1. h \in Tasks /\ pc[h] = "queued"
    BY <1>4, <1>a, HeadQueued DEF Dequeue, DequeueDrop
  <2>2. next \in TopStates
    BY TopNames DEF NothingFound
  <2>3. /\ me' = me
        /\ \/ pc' = [pc EXCEPT ![d] = "found", ![h] = "held"]
           \/ pc' = [pc EXCEPT ![h] = "lost"]
           \/ pc' = [[pc EXCEPT ![h] = "lost"] EXCEPT ![d] = next]
    BY <1>4, NextQueueEffect DEF Dequeue, DequeueDrop
  <2> HIDE DEF h, next, d
  <2> QED BY <1>b, <2>1, <2>2, <2>3, TopNames
<1>5. CASE FetchPut(w)
  <2>1. /\ t \in Tasks /\ pc[t] = "held" /\ me' = me
        /\ pc' = [pc EXCEPT ![d] = "run", ![t] = "queued"]
    BY <1>5, <1>a, <1>b DEF FetchPut, HandsInv
  <2> HIDE DEF d, t
  <2> QED BY <1>b, <2>1, TopNames
<1>6. CASE Finish(w)
  <2> DEFINE m == me[d]
             next == AfterWork(caller[m])
  <2>1. m \in Descriptors /\ pc[m] = "exec" /\ d \in Tasks
    BY <1>6, TopType DEF Finish
  <2>2. next \in TopStates
    BY TopNames DEF AfterWork
  <2>3. pc' = [pc EXCEPT ![d] = "done", ![m] = next] /\ me' = me
    BY <1>6 DEF Finish
  <2> HIDE DEF m, next, d
  <2> QED BY <1>b, <2>1, <2>2, <2>3, TopNames
<1> HIDE DEF Goal
<1>7. Goal
  BY <1>1, <1>2, <1>3, <1>4, <1>5, <1>6
  DEF Goal, Step, Creates, Waits, Schedules, Local
<1> QED BY <1>7 DEF Goal

(* Execute starts the task that w holds, on top of w's descriptor.         *)
LEMMA ExecuteEffect ==
  ASSUME IInv, NEW w \in Workers, Execute(w)
  PROVE  /\ rte[w] \in Tasks /\ pc[rte[w]] = "held" /\ rte[w] # curr[w]
         /\ curr[w] \in Descriptors /\ pc[curr[w]] \in Active
         /\ \A e \in Descriptors : pc'[e] = IF e = curr[w] THEN "exec"
                                            ELSE IF e = rte[w] THEN "run" ELSE pc[e]
         /\ \A t \in Tasks : me'[t] = IF t = rte[w] THEN curr[w] ELSE me[t]
         /\ parent' = parent
<1>1. /\ rte[w] \in Tasks /\ pc[rte[w]] = "held" /\ pc[curr[w]] = "found"
      /\ curr[w] \in Descriptors
  BY TopType DEF IInv, HandsInv, Execute
<1>2. /\ pc' = [pc EXCEPT ![curr[w]] = "exec", ![rte[w]] = "run"]
      /\ me' = [me EXCEPT ![rte[w]] = curr[w]] /\ parent' = parent
      /\ pc \in [Descriptors -> Places] /\ me \in [Tasks -> Descriptors \cup {NoDesc}]
      /\ rte[w] \in Descriptors
  BY <1>1 DEF Execute, IInv, TypeOK, Descriptors
<1> QED BY <1>1, <1>2, TopNames

(* A parent is set once, by its creator, which is running.                 *)
LEMMA ParentStep ==
  ASSUME IInv, NEW w \in Workers, Step(w)
  PROVE  \A t \in Tasks : parent'[t] = parent[t]
                          \/ /\ pc'[t] = "queued"
                             /\ parent'[t] = curr[w] /\ pc[curr[w]] \in Active
                             /\ pc'[curr[w]] = "run"
<1>1. CASE ToRqEnd(w)
  <2>1. /\ rte[w] \in Tasks /\ pc[rte[w]] = "new" /\ curr[w] \in Descriptors
        /\ pc[curr[w]] = "added"
    BY <1>1, TopType DEF ToRqEnd, IInv, HandsInv
  <2>2. /\ parent' = [parent EXCEPT ![rte[w]] = curr[w]]
        /\ pc' = [pc EXCEPT ![curr[w]] = "run", ![rte[w]] = "queued"]
        /\ pc \in [Descriptors -> Places] /\ parent \in [Tasks -> Descriptors \cup {NoDesc}]
        /\ rte[w] \in Descriptors
    BY <1>1, <2>1 DEF ToRqEnd, IInv, TypeOK, Descriptors
  <2> QED BY <2>1, <2>2, TopNames
<1>2. CASE Local(w)
  BY <1>2, LocalMove
<1>3. ASSUME NEW u \in Tasks, Task(w, u) \/ TaskDetached(w, u) PROVE parent' = parent
  BY <1>3 DEF Task, TaskDetached
<1>4. CASE Dequeue(w) \/ DequeueDrop(w) \/ FetchPut(w) \/ Execute(w) \/ Finish(w)
  BY <1>4 DEF Dequeue, DequeueDrop, FetchPut, Execute, Finish
<1> QED
  BY <1>1, <1>2, <1>3, <1>4 DEF Step, Creates, Waits, Schedules, Local

LEMMA ParentsStartedStep ==
  ASSUME IInv, ParentsStarted, NEW w \in Workers, Step(w)
  PROVE  ParentsStarted'
<1>1. \A e \in Started : pc'[e] \in Active \cup {"done"}
  <2>1. CASE Execute(w)
    BY <2>1, ExecuteEffect, TopNames DEF Started
  <2>2. CASE ~Execute(w)
    BY <2>2, StartedStep DEF Started
  <2> QED BY <2>1, <2>2
<1>2. curr[w] \in Descriptors
  BY TopType
<1> SUFFICES ASSUME NEW t \in Tasks, parent'[t] # NoDesc PROVE parent'[t] \in Started'
  BY DEF ParentsStarted
<1>3. CASE parent'[t] = parent[t]
  BY <1>1, <1>3 DEF ParentsStarted, Started
<1>4. CASE parent'[t] # parent[t]
  <2>1. parent'[t] = curr[w] /\ pc'[curr[w]] = "run"
    BY <1>4, ParentStep
  <2> QED BY <1>2, <2>1, TopNames DEF Started
<1> QED BY <1>3, <1>4

LEMMA StartOrderStep ==
  ASSUME IInv, ParentsStarted, StartOrder, NEW w \in Workers, Step(w)
  PROVE  StartOrder'
<1>1. PICK m \in Nat : \E rank \in [Descriptors -> 0 .. m] : Ordered(rank)
  BY DEF StartOrder
<1>2. PICK rank \in [Descriptors -> 0 .. m] : Ordered(rank)
  BY <1>1
<1>3. \A t \in Tasks : t \in Descriptors
  BY DEF Descriptors
<1>4. CASE ~Execute(w)
  <2>1. \A t \in Tasks : pc'[t] \in Active =>
          pc[t] \in Active /\ me'[t] = me[t] /\ parent'[t] = parent[t]
    BY <1>3, <1>4, StartedStep, ParentStep, TopNames
  <2>2. Ordered(rank)'
    BY <1>2, <2>1 DEF Ordered
  <2> QED BY <2>2 DEF StartOrder
<1>5. CASE Execute(w)
  <2> DEFINE d == curr[w]
             t == rte[w]
  <2>1. /\ t \in Tasks /\ pc[t] = "held" /\ t # d /\ d \in Descriptors /\ parent' = parent
        /\ \A e \in Descriptors : pc'[e] = IF e = d THEN "exec" ELSE IF e = t THEN "run" ELSE pc[e]
        /\ \A u \in Tasks : me'[u] = IF u = t THEN d ELSE me[u]
        /\ pc[d] \in Active
    BY <1>5, ExecuteEffect
  <2>2. t \notin Started
    BY <2>1, TopNames DEF Started
  <2> HIDE DEF d, t
  <2>3. PICK above \in [Descriptors -> 0 .. m + 1] :
          /\ above[t] = m + 1
          /\ \A e \in Descriptors : e # t => above[e] = rank[e] /\ rank[e] < m + 1
    <3> DEFINE up == [rank EXCEPT ![t] = m + 1]
    <3>1. up \in [Descriptors -> 0 .. m + 1]
      BY <1>2, <1>3, <2>1
    <3>2. up[t] = m + 1 /\ \A e \in Descriptors : e # t => up[e] = rank[e] /\ rank[e] < m + 1
      BY <1>2, <1>3, <2>1
    <3> HIDE DEF up
    <3> QED BY <3>1, <3>2
  <2>4. \A u \in Tasks : parent[u] # NoDesc => parent[u] \in Descriptors /\ parent[u] # t
    BY <2>2 DEF ParentsStarted, Started
  <2>5. ASSUME NEW u \in Tasks, pc'[u] \in Active
        PROVE  /\ above[me'[u]] < above[u]
               /\ parent'[u] # NoDesc => above[parent'[u]] < above[u]
    <3>1. CASE u = t
      BY <2>1, <2>3, <2>4, <3>1
    <3>2. CASE u # t
      <4>1. pc[u] \in Active /\ me'[u] = me[u]
        BY <1>3, <2>1, <2>5, <3>2
      <4>2. me[u] \in Descriptors /\ me[u] # t
        BY <2>1, <4>1 DEF IInv, StackInv
      <4>3. rank[me[u]] < rank[u] /\ (parent[u] # NoDesc => rank[parent[u]] < rank[u])
        BY <1>2, <4>1 DEF Ordered
      <4> QED BY <1>3, <2>1, <2>3, <2>4, <3>2, <4>1, <4>2, <4>3
    <3> QED BY <3>1, <3>2
  <2>6. Ordered(above)'
    BY <2>5 DEF Ordered
  <2> QED BY <2>3, <2>6 DEF StartOrder
<1> QED BY <1>4, <1>5

(* The descriptor of a group that started last waits for nobody in it.     *)
LEMMA OrderMeansNoCycle == IInv /\ StartOrder => NoWaitCycle
<1> SUFFICES ASSUME IInv, StartOrder, NEW S \in SUBSET Descriptors, S # {}
             PROVE  \E d \in S : \A e \in S : ~WaitsFor(d, e)
  BY DEF NoWaitCycle
<1>1. PICK m \in Nat : \E rank \in [Descriptors -> 0 .. m] : Ordered(rank)
  BY DEF StartOrder
<1>2. PICK rank \in [Descriptors -> 0 .. m] : Ordered(rank)
  BY <1>1
<1> DEFINE Below == {m - rank[d] : d \in S}
<1>3. \A d \in S : rank[d] \in 0 .. m /\ d \in Descriptors /\ d # NoDesc
  BY <1>2, NoDescAssumption DEF Descriptors
<1>4. Below \subseteq Nat /\ Below # {}
  BY <1>1, <1>3
<1>5. PICK b \in Below : \A c \in Below : b <= c
  <2> HIDE DEF Below
  <2> QED BY <1>4, Least
<1>6. PICK d \in S : b = m - rank[d]
  BY <1>5
<1>7. \A e \in S : rank[e] <= rank[d]
  <2> TAKE e \in S
  <2>1. m - rank[d] <= m - rank[e]
    BY <1>5, <1>6
  <2> QED BY <1>1, <1>3, <2>1
<1>8. ASSUME NEW e \in S, WaitsFor(d, e) PROVE FALSE
  <2>1. e \in Tasks /\ pc[e] \in Active /\ (me[e] = d \/ parent[e] = d)
    BY <1>8 DEF WaitsFor
  <2>2. rank[d] < rank[e]
    BY <1>2, <1>3, <2>1 DEF Ordered
  <2> QED BY <1>3, <1>7, <2>2
<1> QED BY <1>8

(* Waiting tasks run others on top of themselves, and are stuck until      *)
(* those return; still no group of descriptors ever waits in a circle.     *)
THEOREM NobodyWaitsInACircle == Spec => []NoWaitCycle
<1>1. Init => ParentsStarted /\ StartOrder
  <2> SUFFICES ASSUME Init PROVE ParentsStarted /\ StartOrder
    OBVIOUS
  <2>1. \A t \in Tasks : parent[t] = NoDesc /\ pc[t] = "unborn"
    BY TasksAssumption, WorkersAssumption DEF Init, Descriptors
  <2>2. Ordered([d \in Descriptors |-> 0])
    BY <2>1, TopNames DEF Ordered
  <2>3. [d \in Descriptors |-> 0] \in [Descriptors -> 0 .. 0]
    OBVIOUS
  <2> QED BY <2>1, <2>2, <2>3 DEF ParentsStarted, StartOrder
<1>2. IInv /\ ParentsStarted /\ StartOrder /\ [Next]_vars => (ParentsStarted /\ StartOrder)'
  <2> SUFFICES ASSUME IInv, ParentsStarted, StartOrder, [Next]_vars
               PROVE  ParentsStarted' /\ StartOrder'
    OBVIOUS
  <2>1. CASE UNCHANGED vars
    BY <2>1 DEF vars, ParentsStarted, Started, StartOrder, Ordered
  <2> QED BY <2>1, ParentsStartedStep, StartOrderStep DEF Next
<1>3. IInv /\ StartOrder => NoWaitCycle
  BY OrderMeansNoCycle
<1> QED BY <1>1, <1>2, <1>3, Invariance, PTL DEF Spec
=============================================================================
