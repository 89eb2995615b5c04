----------------------------- MODULE TaskRuntime -----------------------------
(***************************************************************************)
(* The task layer of torcc on one node: the task API (torcc.cpp), the      *)
(* dependency counters, the scheduler and the wait calls                   *)
(* (torcc_runtime.cpp) and the intra-node queues (torcc_queue.cpp), as     *)
(* several worker threads run them between torc::init and torc_finalize.   *)
(*                                                                         *)
(* A descriptor is either the root descriptor that a worker thread         *)
(* allocates for itself (named here by the worker) or that of a task.      *)
(* With one node the node-wide branches of the code (prefetch, stealing,   *)
(* send_descriptor) do nothing.  Arguments, statistics and timings are     *)
(* left out.                                                               *)
(*                                                                         *)
(* A queue operation is one atomic step here; DescriptorQueue looks inside.*)
(***************************************************************************)
EXTENDS Integers, Sequences, FiniteSets

CONSTANTS
  Workers,          \* the worker threads
  Main,             \* virtual processor 0, which runs the application's main
  Tasks,            \* the tasks the application may create (a bound)
  NoDesc,           \* the null descriptor pointer
  NumLevels,        \* the number of public queues (10 in the code)
  Calls,            \* the API calls this application makes
  Dequeues,         \* what descriptor_queue::dequeue may do with the descriptor
                    \* it unlinks.  "delivers": hand it to its caller, as every
                    \* caller expects.  "loses": keep it to itself, as written,
                    \* since its parameter is a copy of the caller's pointer
  JoinBeforeReturn  \* TRUE: a task that created tasks waits before it returns

API == {"task", "task_detached", "wait_all", "wait_all2", "wait_all3",
        "scheduler_loop", "fetch_work"}

ASSUME WorkersAssumption == Main \in Workers /\ IsFiniteSet(Workers)
ASSUME TasksAssumption == IsFiniteSet(Tasks) /\ Tasks \cap Workers = {}
ASSUME NoDescAssumption == NoDesc \notin Workers \cup Tasks
ASSUME NumLevelsAssumption == NumLevels \in Nat \ {0}
ASSUME CallsAssumption == Calls \subseteq API
ASSUME SwitchesAssumption ==
  Dequeues \subseteq {"delivers", "loses"} /\ JoinBeforeReturn \in BOOLEAN

VARIABLES
  queue,     \* queue[0 .. NumLevels-1]: public_grq, queue[NumLevels]: private_grq
  curr,      \* curr[w]: the descriptor under w's currt_key, what self() returns
  rte,       \* rte[w]: the local variable rte or rte_next of w's innermost call
  cursor,    \* cursor[w]: the queue that w's get_next_task looks at next
  pc,        \* pc[d]: where the code of descriptor d is
  caller,    \* caller[d]: who called the scheduler_loop that d is inside
  me,        \* me[t]: the local variable me of the execute() that runs t
  ndep,      \* ndep[d], parent[t], level[d]: the fields of the descriptor
  parent,
  level,
  unjoined   \* the application's own state: who created tasks since its last wait

vars == <<queue, curr, rte, cursor, pc, caller, me, ndep, parent, level, unjoined>>

Descriptors == Workers \cup Tasks
PrivateQ == NumLevels
Queues == 0 .. NumLevels

Callers == {"none", "worker", "block", "block2", "once", "fetch"}

(* Where a task may be before and after it is active.                      *)
Dormant == {"unborn", "new", "queued", "held", "lost", "done"}
(* Inside get_next_task; inside a wait but outside the scheduler.          *)
Scanning == {"poll", "repoll"}
Waiting == {"blocked", "recheck", "spin"}
(* What the descriptor on top of a worker's stack may be doing.            *)
TopStates == {"run", "token", "added", "found", "idle"} \cup Scanning \cup Waiting
Active == TopStates \cup {"exec"}
Places == Active \cup Dormant

(* to_local_rq_end: the public queue for a nesting level.                  *)
QueueIndex(l) ==
  IF l <= 1 THEN 0 ELSE IF l - 1 >= NumLevels THEN NumLevels - 1 ELSE l - 1

(* The code of the application runs on w and makes one of the API calls.   *)
AppCalls(w, call) == pc[curr[w]] = "run" /\ call \in Calls

Init ==
  /\ queue = [q \in Queues |-> <<>>]
  /\ curr = [w \in Workers |-> w]
  /\ rte = [w \in Workers |-> NoDesc]
  /\ cursor = [w \in Workers |-> PrivateQ]
  /\ pc = [d \in Descriptors |->
             IF d = Main THEN "run" ELSE IF d \in Workers THEN "poll" ELSE "unborn"]
  /\ caller = [d \in Descriptors |-> IF d \in Workers \ {Main} THEN "worker" ELSE "none"]
  /\ me = [t \in Tasks |-> NoDesc]
  /\ ndep = [d \in Descriptors |-> 0]
  /\ parent = [t \in Tasks |-> NoDesc]
  /\ level = [d \in Descriptors |-> 0]
  /\ unjoined = {}

(***************************************************************************)
(* Creating tasks.                                                         *)
(***************************************************************************)

(* task(): under the creator's lock, the first task since the last wait    *)
(* brings the creator's own token.  The descriptor that get_reused_desc    *)
(* will return further down is picked here.                                *)
Task(w, t) ==
  LET d == curr[w] IN
  /\ AppCalls(w, "task")
  /\ pc[t] = "unborn"
  /\ ndep' = [ndep EXCEPT ![d] = IF @ = 0 THEN 1 ELSE @]
  /\ rte' = [rte EXCEPT ![w] = t]
  /\ pc' = [pc EXCEPT ![d] = "token", ![t] = "new"]
  /\ unjoined' = unjoined \cup {d}
  /\ UNCHANGED <<queue, curr, cursor, caller, me, parent, level>>

(* dep_add(self, 1), which takes the lock a second time.                   *)
DepAdd(w) ==
  LET d == curr[w] IN
  /\ pc[d] = "token"
  /\ ndep' = [ndep EXCEPT ![d] = @ + 1]
  /\ pc' = [pc EXCEPT ![d] = "added"]
  /\ UNCHANGED <<queue, curr, rte, cursor, caller, me, parent, level, unjoined>>

(* The descriptor is filled in and appended to the public queue of its     *)
(* level; from then on any worker may take it.                             *)
ToRqEnd(w) ==
  LET d == curr[w]
      t == rte[w]
      q == QueueIndex(level[d] + 1) IN
  /\ pc[d] = "added"
  /\ parent' = [parent EXCEPT ![t] = d]
  /\ level' = [level EXCEPT ![t] = level[d] + 1]
  /\ queue' = [queue EXCEPT ![q] = Append(@, t)]
  /\ pc' = [pc EXCEPT ![d] = "run", ![t] = "queued"]
  /\ rte' = [rte EXCEPT ![w] = NoDesc]
  /\ UNCHANGED <<curr, cursor, caller, me, ndep, unjoined>>

(* task_detached(): a task of level 0 that nobody waits for.               *)
TaskDetached(w, t) ==
  /\ AppCalls(w, "task_detached")
  /\ pc[t] = "unborn"
  /\ queue' = [queue EXCEPT ![QueueIndex(0)] = Append(@, t)]
  /\ pc' = [pc EXCEPT ![t] = "queued"]
  /\ UNCHANGED <<curr, rte, cursor, caller, me, ndep, parent, level, unjoined>>

(***************************************************************************)
(* Waiting for tasks.                                                      *)
(***************************************************************************)

(* Mutants: the decrement is forgotten; its lower bound is forgotten.      *)
GiveTokenBack_Keeps(w, call, c) ==
  LET d == curr[w] IN
  /\ AppCalls(w, call)
  /\ pc' = [pc EXCEPT ![d] = "blocked"]
  /\ caller' = [caller EXCEPT ![d] = c]
  /\ UNCHANGED <<queue, curr, rte, cursor, me, ndep, parent, level, unjoined>>

GiveTokenBack_NoBound(w, call, c) ==
  LET d == curr[w] IN
  /\ AppCalls(w, call)
  /\ ndep' = [ndep EXCEPT ![d] = @ - 1]
  /\ pc' = [pc EXCEPT ![d] = "blocked"]
  /\ caller' = [caller EXCEPT ![d] = c]
  /\ UNCHANGED <<queue, curr, rte, cursor, me, parent, level, unjoined>>

(* block() and block2() give the token back, and never go below 0.         *)
GiveTokenBack(w, call, c) ==
  LET d == curr[w] IN
  /\ AppCalls(w, call)
  /\ ndep' = [ndep EXCEPT ![d] = IF @ < 1 THEN 0 ELSE @ - 1]
  /\ pc' = [pc EXCEPT ![d] = "blocked"]
  /\ caller' = [caller EXCEPT ![d] = c]
  /\ UNCHANGED <<queue, curr, rte, cursor, me, parent, level, unjoined>>

WaitAll(w) == GiveTokenBack(w, "wait_all", "block")
WaitAll2(w) == GiveTokenBack(w, "wait_all2", "block2")

(* wait_all3() gives the token back with no lower bound, then spins.       *)
WaitAll3(w) ==
  LET d == curr[w] IN
  /\ AppCalls(w, "wait_all3")
  /\ ndep' = [ndep EXCEPT ![d] = @ - 1]
  /\ pc' = [pc EXCEPT ![d] = "spin"]
  /\ UNCHANGED <<queue, curr, rte, cursor, caller, me, parent, level, unjoined>>

(* A wait of d returns to the application.                                 *)
Return(d) ==
  /\ pc' = [pc EXCEPT ![d] = "run"]
  /\ caller' = [caller EXCEPT ![d] = "none"]
  /\ unjoined' = unjoined \ {d}

(* d enters get_next_task.                                                 *)
EnterScheduler(w, d) ==
  /\ pc' = [pc EXCEPT ![d] = "poll"]
  /\ cursor' = [cursor EXCEPT ![w] = PrivateQ]

(* Mutant: the loop takes a counter of 1 for the token.                    *)
SpinDone_OneLeft(w) ==
  /\ pc[curr[w]] = "spin"
  /\ ndep[curr[w]] <= 1
  /\ Return(curr[w])
  /\ UNCHANGED <<queue, curr, rte, cursor, me, ndep, parent, level>>

(* The test of wait_all3's loop; while it fails nothing changes.           *)
SpinDone(w) ==
  /\ pc[curr[w]] = "spin"
  /\ ndep[curr[w]] = 0
  /\ Return(curr[w])
  /\ UNCHANGED <<queue, curr, rte, cursor, me, ndep, parent, level>>

(* Mutant: the loop takes a counter of 1 for the token.                    *)
BlockDone_OneLeft(w) ==
  LET d == curr[w] IN
  /\ pc[d] = "blocked" /\ caller[d] = "block"
  /\ ndep[d] <= 1
  /\ Return(d)
  /\ UNCHANGED <<queue, curr, rte, cursor, me, ndep, parent, level>>

(* block() leaves its loop.  rem_deps is unsigned: only 0 passes the test. *)
BlockDone(w) ==
  LET d == curr[w] IN
  /\ pc[d] = "blocked" /\ caller[d] = "block"
  /\ ndep[d] = 0
  /\ Return(d)
  /\ UNCHANGED <<queue, curr, rte, cursor, me, ndep, parent, level>>

(* block() has dependencies left and calls scheduler_loop(1).              *)
BlockOn(w) ==
  LET d == curr[w] IN
  /\ pc[d] = "blocked" /\ caller[d] = "block"
  /\ ndep[d] # 0
  /\ EnterScheduler(w, d)
  /\ UNCHANGED <<queue, curr, rte, caller, me, ndep, parent, level, unjoined>>

(* block2() reads ndep without the lock ...                                *)
Block2Peek(w) ==
  LET d == curr[w] IN
  /\ pc[d] = "blocked" /\ caller[d] = "block2"
  /\ IF ndep[d] > 0
       THEN pc' = [pc EXCEPT ![d] = "recheck"] /\ UNCHANGED cursor
       ELSE EnterScheduler(w, d)
  /\ UNCHANGED <<queue, curr, rte, caller, me, ndep, parent, level, unjoined>>

(* ... and if it was positive, once more with the lock.                    *)
Block2Recheck(w) ==
  LET d == curr[w] IN
  /\ pc[d] = "recheck"
  /\ IF ndep[d] <= 0
       THEN Return(d) /\ ndep' = [ndep EXCEPT ![d] = 0] /\ UNCHANGED cursor
       ELSE EnterScheduler(w, d) /\ UNCHANGED <<ndep, caller, unjoined>>
  /\ UNCHANGED <<queue, curr, rte, me, parent, level>>

(* block2() comes back from a scheduler_loop(1) that found no work, and    *)
(* returns if ndep is 0 by now.                                            *)
Block2Idle(w) ==
  LET d == curr[w] IN
  /\ pc[d] = "idle"
  /\ IF ndep[d] = 0
       THEN Return(d)
       ELSE pc' = [pc EXCEPT ![d] = "blocked"] /\ UNCHANGED <<caller, unjoined>>
  /\ UNCHANGED <<queue, curr, rte, cursor, me, ndep, parent, level>>

(***************************************************************************)
(* The scheduler.                                                          *)
(***************************************************************************)

(* The application calls scheduler_loop(1) or fetch_work() itself.         *)
EnterFrom(w, call, c) ==
  LET d == curr[w] IN
  /\ AppCalls(w, call)
  /\ EnterScheduler(w, d)
  /\ caller' = [caller EXCEPT ![d] = c]
  /\ UNCHANGED <<queue, curr, rte, me, ndep, parent, level, unjoined>>

SchedulerLoopOnce(w) == EnterFrom(w, "scheduler_loop", "once")
FetchWork(w) == EnterFrom(w, "fetch_work", "fetch")

(* Where d goes on when a call of get_next_task found nothing: fetch_work  *)
(* calls it once, scheduler_loop twice before it may return, and a         *)
(* worker's own loop never returns.                                        *)
NothingFound(d) ==
  IF caller[d] = "fetch" THEN "run"
  ELSE IF caller[d] = "worker" \/ pc[d] = "poll" THEN "repoll"
  ELSE IF caller[d] = "block" THEN "blocked"
  ELSE IF caller[d] = "block2" THEN "idle"
  ELSE "run"

(* Mutants: the loop over the levels runs one too far, or stops before 0.  *)
NextQueue_PastEnd(w, now) ==
  LET d == curr[w] IN
  IF cursor[w] >= 0
    THEN /\ cursor' = [cursor EXCEPT ![w] = @ - 1]
         /\ pc' = now
         /\ UNCHANGED caller
    ELSE UNCHANGED <<cursor, pc, caller>>

NextQueue_SkipsLevel0(w, now) ==
  LET d == curr[w]
      next == NothingFound(d) IN
  IF cursor[w] > 1
    THEN /\ cursor' = [cursor EXCEPT ![w] = @ - 1]
         /\ pc' = now
         /\ UNCHANGED caller
    ELSE /\ cursor' = [cursor EXCEPT ![w] = PrivateQ]
         /\ pc' = [now EXCEPT ![d] = next]
         /\ caller' = [caller EXCEPT ![d] = IF next = "run" THEN "none" ELSE @]

(* get_next_task goes on to the next queue, the private one first and then *)
(* the public ones from the deepest level up.  now is pc after the dequeue.*)
NextQueue(w, now) ==
  LET d == curr[w]
      next == NothingFound(d) IN
  IF cursor[w] > 0
    THEN /\ cursor' = [cursor EXCEPT ![w] = @ - 1]
         /\ pc' = now
         /\ UNCHANGED caller
    ELSE /\ cursor' = [cursor EXCEPT ![w] = PrivateQ]
         /\ pc' = [now EXCEPT ![d] = next]
         /\ caller' = [caller EXCEPT ![d] = IF next = "run" THEN "none" ELSE @]

(* The queue is empty.                                                     *)
DequeueEmpty(w) ==
  /\ pc[curr[w]] \in Scanning
  /\ queue[cursor[w]] = <<>>
  /\ NextQueue(w, pc)
  /\ UNCHANGED <<queue, curr, rte, me, ndep, parent, level, unjoined>>

(* Mutant: the head is handed out but stays linked.                        *)
Dequeue_StaysLinked(w) ==
  LET d == curr[w]
      q == queue[cursor[w]] IN
  /\ "delivers" \in Dequeues
  /\ pc[d] \in Scanning
  /\ q # <<>>
  /\ rte' = [rte EXCEPT ![w] = Head(q)]
  /\ pc' = [pc EXCEPT ![d] = "found", ![Head(q)] = "held"]
  /\ UNCHANGED <<queue, curr, cursor, caller, me, ndep, parent, level, unjoined>>

(* The head of the queue is unlinked and handed to the caller.             *)
Dequeue(w) ==
  LET d == curr[w]
      q == queue[cursor[w]] IN
  /\ "delivers" \in Dequeues
  /\ pc[d] \in Scanning
  /\ q # <<>>
  /\ queue' = [queue EXCEPT ![cursor[w]] = Tail(q)]
  /\ rte' = [rte EXCEPT ![w] = Head(q)]
  /\ pc' = [pc EXCEPT ![d] = "found", ![Head(q)] = "held"]
  /\ UNCHANGED <<curr, cursor, caller, me, ndep, parent, level, unjoined>>

(* As written: the head is unlinked, but the caller's pointer stays null,  *)
(* so the search goes on as if the queue had been empty.                   *)
DequeueDrop(w) ==
  LET q == queue[cursor[w]] IN
  /\ "loses" \in Dequeues
  /\ pc[curr[w]] \in Scanning
  /\ q # <<>>
  /\ queue' = [queue EXCEPT ![cursor[w]] = Tail(q)]
  /\ NextQueue(w, [pc EXCEPT ![Head(q)] = "lost"])
  /\ UNCHANGED <<curr, rte, me, ndep, parent, level, unjoined>>

(* fetch_work() parks what it found in the private queue.                  *)
FetchPut(w) ==
  LET d == curr[w] IN
  /\ pc[d] = "found" /\ caller[d] = "fetch"
  /\ queue' = [queue EXCEPT ![PrivateQ] = Append(@, rte[w])]
  /\ pc' = [pc EXCEPT ![d] = "run", ![rte[w]] = "queued"]
  /\ caller' = [caller EXCEPT ![d] = "none"]
  /\ rte' = [rte EXCEPT ![w] = NoDesc]
  /\ UNCHANGED <<curr, cursor, me, ndep, parent, level, unjoined>>

(* Mutant: execute() does not save the descriptor it suspends.             *)
Execute_NotSaved(w) ==
  LET d == curr[w]
      t == rte[w] IN
  /\ pc[d] = "found" /\ caller[d] # "fetch"
  /\ curr' = [curr EXCEPT ![w] = t]
  /\ pc' = [pc EXCEPT ![d] = "exec", ![t] = "run"]
  /\ rte' = [rte EXCEPT ![w] = NoDesc]
  /\ UNCHANGED <<queue, cursor, caller, me, ndep, parent, level, unjoined>>

(* Mutant: execute() reads self() only after it has changed it.            *)
Execute_SavedLate(w) ==
  LET d == curr[w]
      t == rte[w] IN
  /\ pc[d] = "found" /\ caller[d] # "fetch"
  /\ me' = [me EXCEPT ![t] = t]
  /\ curr' = [curr EXCEPT ![w] = t]
  /\ pc' = [pc EXCEPT ![d] = "exec", ![t] = "run"]
  /\ rte' = [rte EXCEPT ![w] = NoDesc]
  /\ UNCHANGED <<queue, cursor, caller, ndep, parent, level, unjoined>>

(* execute(): the task starts on top of the descriptor that found it.      *)
Execute(w) ==
  LET d == curr[w]
      t == rte[w] IN
  /\ pc[d] = "found" /\ caller[d] # "fetch"
  /\ me' = [me EXCEPT ![t] = d]
  /\ curr' = [curr EXCEPT ![w] = t]
  /\ pc' = [pc EXCEPT ![d] = "exec", ![t] = "run"]
  /\ rte' = [rte EXCEPT ![w] = NoDesc]
  /\ UNCHANGED <<queue, cursor, caller, ndep, parent, level, unjoined>>

(* Where the scheduler_loop that executed a task goes on.                  *)
AfterWork(c) ==
  CASE c = "worker" -> "poll" [] c \in {"block", "block2"} -> "blocked" [] OTHER -> "run"

(* The task returns: cleanup() satisfies one dependency of its parent, and *)
(* execute() makes the saved descriptor current again.                     *)
Finish(w) ==
  LET t == curr[w]
      d == me[t] IN
  /\ t \in Tasks
  /\ pc[t] = "run"
  /\ JoinBeforeReturn => t \notin unjoined
  /\ ndep' = IF parent[t] = NoDesc THEN ndep ELSE [ndep EXCEPT ![parent[t]] = @ - 1]
  /\ curr' = [curr EXCEPT ![w] = d]
  /\ pc' = [pc EXCEPT ![t] = "done", ![d] = AfterWork(caller[d])]
  /\ caller' = [caller EXCEPT ![d] = IF @ = "once" THEN "none" ELSE @]
  /\ cursor' = [cursor EXCEPT ![w] = PrivateQ]
  /\ UNCHANGED <<queue, rte, me, parent, level, unjoined>>

(* One step of worker w.                                                   *)
Creates(w) == DepAdd(w) \/ ToRqEnd(w) \/ \E t \in Tasks : Task(w, t) \/ TaskDetached(w, t)
Waits(w) ==
  \/ WaitAll(w) \/ WaitAll2(w) \/ WaitAll3(w)
  \/ SpinDone(w) \/ BlockDone(w) \/ BlockOn(w)
  \/ Block2Peek(w) \/ Block2Recheck(w) \/ Block2Idle(w)
Schedules(w) ==
  \/ SchedulerLoopOnce(w) \/ FetchWork(w)
  \/ DequeueEmpty(w) \/ Dequeue(w) \/ DequeueDrop(w)
  \/ FetchPut(w) \/ Execute(w) \/ Finish(w)
Step(w) == Creates(w) \/ Waits(w) \/ Schedules(w)

Next == \E w \in Workers : Step(w)

Spec == Init /\ [][Next]_vars

(* The operating system runs every worker thread (they are preemptive      *)
(* pthreads), and a task that could return does not call the runtime for   *)
(* ever instead.                                                           *)
Fairness == \A w \in Workers : WF_vars(Step(w)) /\ SF_vars(Finish(w))
FairSpec == Spec /\ Fairness

(***************************************************************************)
(* Properties.                                                             *)
(***************************************************************************)

(* Every variable has its type; in particular a search never looks at a    *)
(* queue that does not exist.                                              *)
TypeOK ==
  /\ queue \in [Queues -> Seq(Tasks)]
  /\ curr \in [Workers -> Descriptors]
  /\ rte \in [Workers -> Tasks \cup {NoDesc}]
  /\ cursor \in [Workers -> Queues]
  /\ pc \in [Descriptors -> Places]
  /\ caller \in [Descriptors -> Callers]
  /\ me \in [Tasks -> Descriptors \cup {NoDesc}]
  /\ ndep \in [Descriptors -> Int]
  /\ parent \in [Tasks -> Descriptors \cup {NoDesc}]
  /\ level \in [Descriptors -> Nat]
  /\ unjoined \in SUBSET Descriptors

(* d is inside wait_all, wait_all2 or wait_all3.                           *)
Joining(d) == caller[d] \in {"block", "block2"} \/ pc[d] = "spin"

(* The tasks that d has created and that have not finished.                *)
Children(d) == {t \in Tasks : parent[t] = d /\ pc[t] # "done"}

(* What d itself contributes to its counter: the token it holds between    *)
(* its first task and its next wait, the task it is just creating, or the  *)
(* token that wait_all3 gives back without having had one.                 *)
OwnShare(d) ==
  IF pc[d] = "added" THEN 2
  ELSE IF d \in unjoined THEN IF Joining(d) THEN 0 ELSE 1
  ELSE IF pc[d] = "spin" THEN -1 ELSE 0

(* The dependency counter counts what it is there to count: the unfinished *)
(* children, and the owner's share on top.  It does so whoever created,    *)
(* finished or waited in between, although task() updates the counter      *)
(* twice and under two separate critical sections.                         *)
DepCount ==
  \A d \in Descriptors :
    /\ ndep[d] = Cardinality(Children(d)) + OwnShare(d)
    /\ d \notin unjoined => Children(d) = {} /\ pc[d] \notin {"token", "added"}

(* A wait comes back only when every child has finished, even if block2    *)
(* reads the counter without the lock.                                     *)
JoinSound ==
  [][\A d \in Descriptors : Joining(d) /\ ~Joining(d)' => Children(d) = {}]_vars

(* The descriptors that are executing form one stack per worker thread:    *)
(* self() is the top, and below a task is the descriptor that execute()    *)
(* saved in me, itself inside a call of execute().  So self(), which task()*)
(* and the waits act upon, is the task that calls them.                    *)
StackInv ==
  /\ \A w \in Workers : pc[curr[w]] \in TopStates
  /\ \A v, w \in Workers : curr[v] = curr[w] => v = w
  /\ \A d \in Descriptors : pc[d] \in TopStates => \E w \in Workers : curr[w] = d
  /\ \A t \in Tasks : pc[t] \in Active => me[t] \in Descriptors /\ pc[me[t]] = "exec"
  /\ \A t, u \in Tasks : pc[t] \in Active /\ pc[u] \in Active /\ me[t] = me[u] => t = u

(* A queued task is in one queue, and there once.                          *)
QueueInv ==
  /\ \A q \in Queues : \A i \in DOMAIN queue[q] : pc[queue[q][i]] = "queued"
  /\ \A t \in Tasks : pc[t] = "queued" =>
       \E q \in Queues : \E i \in DOMAIN queue[q] : queue[q][i] = t
  /\ \A q, r \in Queues : \A i \in DOMAIN queue[q], j \in DOMAIN queue[r] :
       queue[q][i] = queue[r][j] => q = r /\ i = j

(* Between creation and queue, and between queue and execution, a task is  *)
(* in the hands of one worker.                                             *)
HandsInv ==
  /\ \A w \in Workers :
       /\ pc[curr[w]] \in {"token", "added"} => rte[w] # NoDesc /\ pc[rte[w]] = "new"
       /\ pc[curr[w]] = "found" => rte[w] # NoDesc /\ pc[rte[w]] = "held"
       /\ pc[curr[w]] \notin {"token", "added", "found"} => rte[w] = NoDesc
  /\ \A v, w \in Workers : rte[v] = rte[w] /\ rte[v] # NoDesc => v = w

(* Who called the scheduler agrees with where the descriptor is, and a     *)
(* task has a parent only once its descriptor has been filled in.          *)
FieldsInv ==
  /\ \A d \in Descriptors :
       /\ pc[d] \in Dormant \cup {"run", "token", "added", "spin"} => caller[d] = "none"
       /\ pc[d] = "blocked" => caller[d] \in {"block", "block2"}
       /\ pc[d] \in {"recheck", "idle"} => caller[d] = "block2"
       /\ pc[d] \in Scanning \cup {"found"} => caller[d] # "none"
       /\ pc[d] = "exec" => caller[d] \notin {"none", "fetch"}
  /\ \A t \in Tasks : pc[t] \in {"unborn", "new"} => parent[t] = NoDesc

(* The inductive invariant behind the theorems of TaskRuntimeProofs.       *)
IInv == TypeOK /\ StackInv /\ QueueInv /\ HandsInv /\ FieldsInv /\ DepCount

(* d cannot go on before e does: e is above d on d's stack, or d waits for *)
(* its child e.                                                            *)
WaitsFor(d, e) ==
  /\ e \in Tasks
  /\ pc[e] \in Active
  /\ me[e] = d \/ (Joining(d) /\ parent[e] = d)

(* Waiting tasks run others on top of themselves, on whatever worker they  *)
(* are, and are stuck until those return; still no group of descriptors    *)
(* ever waits for itself in a circle.                                      *)
NoWaitCycle ==
  \A S \in SUBSET Descriptors :
    S # {} => \E d \in S : \A e \in S : ~WaitsFor(d, e)

(* If tasks wait before they return, a task never returns while a child    *)
(* still holds a pointer to its descriptor, which is then recycled.        *)
NoStaleParent ==
  JoinBeforeReturn =>
    \A t \in Tasks : pc[t] # "done" /\ parent[t] # NoDesc => pc[parent[t]] # "done"

(* The runtime implements the abstract fork/join specification: the queues *)
(* and the counters are hidden.                                            *)
Status(t) ==
  IF pc[t] \in {"unborn", "new"} THEN "none"
  ELSE IF pc[t] \in {"queued", "held", "lost"} THEN "spawned"
  ELSE IF pc[t] = "done" THEN "finished" ELSE "active"

FJ == INSTANCE ForkJoin WITH
        Roots <- Workers, NoParent <- NoDesc, Structured <- JoinBeforeReturn,
        status <- [t \in Tasks |-> Status(t)],
        joining <- {d \in Descriptors : Joining(d)}
RefinesForkJoin == FJ!Spec

(* Every call of wait_all returns: its children, and theirs, are executed  *)
(* by whichever worker finds them, the waiting one included.               *)
JoinReturns == \A d \in Descriptors : Joining(d) ~> ~Joining(d)

(* Every task that is put in a queue is executed to its end.               *)
TasksFinish == \A t \in Tasks : pc[t] = "queued" ~> pc[t] = "done"

(* What the comment on block2 promises: it returns when no more work       *)
(* exists, so it never leaves a task in a queue behind.                    *)
Block2MeansNoWork ==
  [][\A d \in Descriptors :
       caller[d] = "block2" /\ caller'[d] = "none" =>
         \A t \in Tasks : pc[t] # "queued"]_vars
=============================================================================
