--------------------------- MODULE PlacementProofs ---------------------------
(***************************************************************************)
(* Proofs about Placement, for every number of nodes, workers, tasks and   *)
(* queues, and for every set of creators and placement functions.          *)
(*                                                                         *)
(* IInv is inductive.  Its parts are the types, what creators have in      *)
(* hand (JobInv), where tasks are (PlaceInv), what their flags say         *)
(* (FlagInv), who created which tasks (CreatedInv), the order of creation  *)
(* (OrderInv) and the turns of the rotation (RoundInv).  A slot changes in three ways: a task is appended, *)
(* inserted in front or taken from the head; the lemmas about Num and      *)
(* Sorted say what each does.                                              *)
(***************************************************************************)
EXTENDS Placement, Facts

Functions9 == Rotating \cup ToNode \cup ToWorker

(***************************************************************************)
(* The inductive invariant.                                                *)
(***************************************************************************)
Queues == 0 .. NumLevels - 1
Workers == {w \in Nodes \X (0 .. MaxWorkers - 1) : w[2] < nworkers[w[1]]}
Total(f) == IF f = "to_rq_end" THEN total_num_threads ELSE NumNodes
Statics == {"initialized", "target"}

Jobs == [task : Tasks \cup {NoTask}, by : Functions9 \cup {"none"}, node : Int, queue : Int,
         next : Int, stores : SUBSET Statics]
Descs == [home : Int, level : Nat, front : BOOLEAN, private : BOOLEAN, queue : Int]

SetupInv ==
  /\ setup \in Setups
  /\ nworkers \in [Nodes -> 1 .. MaxWorkers]
  /\ \A c \in Creators : c \in Nodes \X Nat /\ c[2] < nworkers[c[1]]

PlacesOfCreators == Carrying \cup {"app", "advance", "store"}

TypeInv ==
  /\ initialized \in [Rotating -> [Nodes -> BOOLEAN]]
  /\ target \in [Rotating -> [Nodes -> Nat]]
  /\ pc \in [Creators -> PlacesOfCreators]
  /\ job \in [Creators -> Jobs]
  /\ desc \in [Tasks -> Descs]
  /\ wire \in [Nodes -> [Nodes -> Seq(Tasks)]]
  /\ public \in [Nodes -> [Queues -> Seq(Tasks)]]
  /\ private \in [Nodes -> Seq(Tasks)]
  /\ asked \in [Tasks -> SUBSET Functions9]
  /\ created \in [Creators -> Seq(Tasks)]
  /\ hits \in [Nodes -> [Nodes \X (0 .. MaxWorkers - 1) -> Nat]]

(* A target is in range, and so is what a creator has read of it or is     *)
(* about to write.                                                         *)
JobOK(p, j) ==
  /\ p # "app" => j.task \in Tasks /\ j.by \in Functions9
  /\ p \in {"init", "node", "queue", "advance", "store"} => j.by \in Rotating
  /\ p = "queue" => j.by = "to_rq_end"
  /\ p \in {"queue", "put"} => j.node \in Nodes
  /\ p = "store" => j.next \in 0 .. Total(j.by) - 1

JobInv ==
  /\ \A f \in Rotating, n \in Nodes : target[f][n] < Total(f)
  /\ \A c \in Creators : JobOK(pc[c], job[c])

(* A task is in one slot at most, once; which it is.                       *)
At1(x, t) == Num(Content(x), {t})

PlaceInv ==
  /\ \A x \in Slots, t \in Tasks : At1(x, t) <= 1
  /\ \A x, y \in Slots, t \in Tasks : At1(x, t) = 1 /\ At1(y, t) = 1 => x = y
  /\ \A c, d \in Creators :
       pc[c] \in Carrying /\ pc[d] \in Carrying /\ job[c].task = job[d].task => c = d
  /\ \A c \in Creators : pc[c] \in Carrying => desc[job[c].task].home = c[1]
  /\ \A t \in Tasks :
       (\A x \in Slots : At1(x, t) = 0) <=> (desc[t].home = -1 \/ t \in InHand)

(* The flags of a task that has been placed tell how.                      *)
FlagInv ==
  /\ \A t \in Tasks : desc[t].home = -1 => ~desc[t].front /\ ~desc[t].private
  /\ \A c \in Creators : pc[c] \in Carrying =>
       LET d == desc[job[c].task] IN
       ~d.front /\ ~d.private /\ asked[job[c].task] = {job[c].by}
  /\ \A x \in Slots, t \in Tasks : At1(x, t) = 1 =>
       /\ desc[t].front <=> asked[t] \cap AtFront # {}
       /\ desc[t].private <=> asked[t] \cap ToPrivate # {}

(* Pairs of tasks, placed at the end of public queues only, of which the   *)
(* first was created before the second by the same creator.                *)
EndFunctions == {"to_rq_end", "to_rq_end__", "to_lrq_end", "to_nrq_end"}
Direct(t) == asked[t] \subseteq EndFunctions
Before(t, u) ==
  \E c \in Creators : \E i, j \in 1 .. Len(created[c]) :
    i < j /\ created[c][i] = t /\ created[c][j] = u
Older == {p \in Tasks \X Tasks : Before(p[1], p[2]) /\ Direct(p[1]) /\ Direct(p[2])}

(* No element of s is older, in the sense of R, than one in front of it.   *)
Sorted(s, R) == \A k, l \in 1 .. Len(s) : k < l => <<s[l], s[k]>> \notin R

CreatedInv ==
  /\ \A c, d \in Creators : \A i \in 1 .. Len(created[c]), j \in 1 .. Len(created[d]) :
       created[c][i] = created[d][j] => c = d /\ i = j
  /\ \A c \in Creators : \A i \in 1 .. Len(created[c]) : desc[created[c][i]].home = c[1]
  /\ \A c \in Creators : pc[c] \in Carrying =>
       created[c] # <<>> /\ created[c][Len(created[c])] = job[c].task

(* Every slot is in order, and so are a queue and a wire that leads to it.  *)
OrderInv ==
  /\ \A n \in Nodes, t \in Tasks : At1(<<n, n, "wire">>, t) = 0
  /\ \A n, m \in Nodes, t \in Tasks :
       At1(<<n, m, "wire">>, t) = 1 /\ Direct(t) => desc[t].home = n
  /\ \A x \in Slots : Sorted(Content(x), Older)
  /\ \A n, m \in Nodes, q \in Queues, t, u \in Tasks :
       At1(<<n, m, "wire">>, t) = 1 /\ At1(<<m, q, "public">>, u) = 1 => <<t, u>> \notin Older

(* The one creator of a node deals in turn: from its own worker on, round  *)
(* the cluster, up to the target, every worker has got one task more.      *)
Gid(w) == sum_vp(w[1]) + w[2]
Alone(n, c) == {d \in Creators : d[1] = n} = {c}
Counted(c) == pc[c] \in {"put", "advance", "store"} /\ job[c].by = "to_rq_end"
Turn(n) == target["to_rq_end"][n]
DealtTo(from, to, more, g) ==
  \/ IF from <= to THEN from <= g /\ g < to ELSE from <= g \/ g < to
  \/ more /\ g = to
Dealt(c, g) == DealtTo(Gid(c), Turn(c[1]), Counted(c), g)
Fresh(c) ==
  \/ ~initialized["to_rq_end"][c[1]]
  \/ pc[c] = "init" /\ job[c].by = "to_rq_end"

AllWorkers == Nodes \X (0 .. MaxWorkers - 1)

Counts(n, c) ==
  /\ \A w \in AllWorkers \ Workers : hits[n][w] = 0
  /\ Fresh(c) => \A w \in Workers : hits[n][w] = 0
  /\ ~Fresh(c) =>
       \E b \in Nat : \A w \in Workers : hits[n][w] = IF Dealt(c, Gid(w)) THEN b + 1 ELSE b

(* Where the creator is in to_rq_end, and what it knows there.             *)
InTurn(n, c) ==
  job[c].by = "to_rq_end" =>
    /\ pc[c] = "init" =>
         /\ job[c].stores # {}
         /\ "target" \notin job[c].stores => Turn(n) = Gid(c)
         /\ "initialized" \notin job[c].stores => initialized["to_rq_end"][n]
    /\ pc[c] \notin {"app", "init"} => initialized["to_rq_end"][n]
    /\ pc[c] = "queue" => job[c].node = global_thread_id_to_node_id(Turn(n))
    /\ pc[c] = "store" => job[c].next = (Turn(n) + 1) % total_num_threads

RoundInv ==
  \A n \in Nodes, c \in Creators : Alone(n, c) => Counts(n, c) /\ InTurn(n, c)

IInv == SetupInv /\ TypeInv /\ JobInv /\ PlaceInv /\ FlagInv /\ CreatedInv
        /\ OrderInv /\ RoundInv

(***************************************************************************)
(* The numbering.                                                          *)
(***************************************************************************)
LEMMA SumType ==
  ASSUME SetupInv, NEW n \in 0 .. NumNodes
  PROVE  /\ IsFiniteSet({w \in (0 .. n - 1) \X (0 .. MaxWorkers - 1) : w[2] < nworkers[w[1]]})
         /\ sum_vp(n) \in Nat
<1> DEFINE W == {w \in (0 .. n - 1) \X (0 .. MaxWorkers - 1) : w[2] < nworkers[w[1]]}
<1>1. n \in Int /\ MaxWorkers \in Int
  BY PlacementAssumption, SearchAssumption
<1>2. IsFiniteSet(0 .. n - 1) /\ IsFiniteSet(0 .. MaxWorkers - 1)
  BY <1>1, FS_Interval
<1>3. IsFiniteSet((0 .. n - 1) \X (0 .. MaxWorkers - 1))
  BY <1>2, FS_Product
<1>4. IsFiniteSet(W)
  BY <1>3, FS_Subset
<1> QED BY <1>4, FS_CardinalityType DEF sum_vp

LEMMA SumZero == ASSUME SetupInv PROVE sum_vp(0) = 0
<1>1. {w \in (0 .. 0 - 1) \X (0 .. MaxWorkers - 1) : w[2] < nworkers[w[1]]} = {}
  OBVIOUS
<1> QED BY <1>1, FS_EmptySet DEF sum_vp

LEMMA SumStep ==
  ASSUME SetupInv, NEW n \in Nodes
  PROVE  sum_vp(n + 1) = sum_vp(n) + nworkers[n]
<1> DEFINE W(k) == {w \in (0 .. k - 1) \X (0 .. MaxWorkers - 1) : w[2] < nworkers[w[1]]}
           V == {n} \X (0 .. nworkers[n] - 1)
<1>1. /\ NumNodes \in Nat /\ MaxWorkers \in Nat /\ n \in Nat /\ n < NumNodes
      /\ nworkers[n] \in Nat /\ nworkers[n] >= 1 /\ nworkers[n] <= MaxWorkers
  BY PlacementAssumption, SearchAssumption DEF SetupInv, Nodes
<1>2. IsFiniteSet(W(n)) /\ IsFiniteSet(W(n + 1))
  <2>1. n \in 0 .. NumNodes /\ n + 1 \in 0 .. NumNodes
    BY <1>1
  <2> QED BY <2>1, SumType
<1>3. IsFiniteSet(V) /\ Cardinality(V) = nworkers[n]
  <2>1. IsFiniteSet({n}) /\ Cardinality({n}) = 1
    BY FS_Singleton
  <2>2. IsFiniteSet(0 .. nworkers[n] - 1) /\ Cardinality(0 .. nworkers[n] - 1) = nworkers[n]
    <3>1. 0 \in Int /\ nworkers[n] - 1 \in Int
      BY <1>1
    <3>2. /\ IsFiniteSet(0 .. nworkers[n] - 1)
          /\ Cardinality(0 .. nworkers[n] - 1)
               = IF 0 > nworkers[n] - 1 THEN 0 ELSE (nworkers[n] - 1) - 0 + 1
      BY <3>1, FS_Interval
    <3>3. ~(0 > nworkers[n] - 1) /\ (nworkers[n] - 1) - 0 + 1 = nworkers[n]
      BY <1>1
    <3> QED BY <3>2, <3>3
  <2>3. IsFiniteSet(V) /\ Cardinality(V) = 1 * nworkers[n]
    BY <2>1, <2>2, FS_Product
  <2> QED BY <1>1, <2>3
<1>4. W(n + 1) = W(n) \cup V
  <2>1. ASSUME NEW w \in W(n + 1) PROVE w \in W(n) \cup V
    <3>1. PICK a \in 0 .. (n + 1) - 1, b \in 0 .. MaxWorkers - 1 : w = <<a, b>>
      OBVIOUS
    <3>2. b < nworkers[a]
      BY <3>1
    <3>3. CASE a = n
      <4>1. b \in 0 .. nworkers[n] - 1
        BY <1>1, <3>1, <3>2, <3>3
      <4> QED BY <3>1, <3>3, <4>1
    <3>4. CASE a # n
      <4>1. a \in 0 .. n - 1
        BY <1>1, <3>4
      <4> QED BY <3>1, <3>2, <4>1
    <3> QED BY <3>3, <3>4
  <2>2. ASSUME NEW w \in W(n) PROVE w \in W(n + 1)
    <3>1. PICK a \in 0 .. n - 1, b \in 0 .. MaxWorkers - 1 : w = <<a, b>>
      OBVIOUS
    <3>2. b < nworkers[a] /\ a \in 0 .. (n + 1) - 1
      BY <1>1, <3>1
    <3> QED BY <3>1, <3>2
  <2>3. ASSUME NEW w \in V PROVE w \in W(n + 1)
    <3>1. PICK b \in 0 .. nworkers[n] - 1 : w = <<n, b>>
      OBVIOUS
    <3>2. b < nworkers[n] /\ b \in 0 .. MaxWorkers - 1 /\ n \in 0 .. (n + 1) - 1
      BY <1>1, <3>1
    <3> QED BY <3>1, <3>2
  <2> HIDE DEF W, V
  <2> QED BY <2>1, <2>2, <2>3
<1>5. W(n) \cap V = {}
  <2>1. \A w \in W(n) : w[1] \in 0 .. n - 1
    OBVIOUS
  <2>2. \A w \in V : w[1] = n
    OBVIOUS
  <2>3. n \notin 0 .. n - 1
    BY <1>1
  <2> HIDE DEF W, V
  <2> QED BY <2>1, <2>2, <2>3
<1>6. Cardinality(W(n + 1)) = Cardinality(W(n)) + Cardinality(V) - Cardinality(W(n) \cap V)
  <2> HIDE DEF W, V
  <2> QED BY <1>2, <1>3, <1>4, FS_Union
<1>7. Cardinality(W(n)) \in Nat /\ Cardinality(W(n) \cap V) = 0
  BY <1>2, <1>5, FS_CardinalityType, FS_EmptySet
<1>8. sum_vp(n) = Cardinality(W(n)) /\ sum_vp(n + 1) = Cardinality(W(n + 1))
  BY DEF sum_vp
<1> HIDE DEF W, V
<1> QED BY <1>1, <1>3, <1>6, <1>7, <1>8

LEMMA SumGrows ==
  ASSUME SetupInv, NEW n \in 0 .. NumNodes, NEW m \in 0 .. n
  PROVE  sum_vp(m) <= sum_vp(n)
<1> DEFINE W(k) == {w \in (0 .. k - 1) \X (0 .. MaxWorkers - 1) : w[2] < nworkers[w[1]]}
<1>1. m \in 0 .. NumNodes /\ 0 .. m - 1 \subseteq 0 .. n - 1
  BY PlacementAssumption
<1>2. W(m) \subseteq W(n)
  BY <1>1
<1>3. IsFiniteSet(W(n))
  BY SumType
<1>4. Cardinality(W(m)) <= Cardinality(W(n))
  <2> HIDE DEF W
  <2> QED BY <1>2, <1>3, FS_Subset
<1> QED BY <1>4 DEF sum_vp

(* Every number below the total has a node, and the node has a worker of   *)
(* this number.                                                            *)
LEMMA NodeOf ==
  ASSUME SetupInv, NEW g \in Nat, g < total_num_threads
  PROVE  /\ global_thread_id_to_node_id(g) \in Nodes
         /\ sum_vp(global_thread_id_to_node_id(g)) <= g
         /\ g < sum_vp(global_thread_id_to_node_id(g) + 1)
<1> DEFINE T == {n \in Nodes : g < sum_vp(n + 1)}
           P(n) == n \in Nodes /\ g < sum_vp(n + 1) /\ \A m \in 0 .. n - 1 : g >= sum_vp(m + 1)
           d == global_thread_id_to_node_id(g)
<1>1. NumNodes \in Nat /\ NumNodes >= 2
  BY PlacementAssumption
<1>2. \A n \in 0 .. NumNodes : sum_vp(n) \in Nat
  BY SumType
<1>3. NumNodes - 1 \in T
  <2>1. NumNodes - 1 \in Nodes /\ (NumNodes - 1) + 1 = NumNodes
    BY <1>1 DEF Nodes
  <2> QED BY <2>1 DEF total_num_threads
<1>4. PICK n \in T : \A y \in T : n <= y
  <2>1. T \subseteq Nat
    BY <1>1 DEF Nodes
  <2>2. T # {}
    BY <1>3
  <2> HIDE DEF T
  <2> QED BY <2>1, <2>2, Least
<1>5. P(n)
  <2>1. ASSUME NEW m \in 0 .. n - 1 PROVE g >= sum_vp(m + 1)
    <3>1. m \in Nodes /\ m + 1 \in 0 .. NumNodes /\ ~(n <= m)
      BY <1>1 DEF Nodes
    <3>2. m \notin T
      BY <1>4, <3>1
    <3>3. sum_vp(m + 1) \in Nat
      BY <1>2, <3>1
    <3> HIDE DEF global_thread_id_to_node_id
    <3> QED BY <3>1, <3>2, <3>3
  <2> QED BY <2>1
<1>6. P(d)
  <2>1. total_num_threads \in Nat
    BY <1>1, <1>2 DEF total_num_threads
  <2>2. d = CHOOSE k : P(k)
    <3>1. ~(g >= total_num_threads)
      BY <2>1
    <3>2. d = CHOOSE k \in Nodes : g < sum_vp(k + 1) /\ \A m \in 0 .. k - 1 : g >= sum_vp(m + 1)
      BY <3>1 DEF global_thread_id_to_node_id
    <3> QED BY <3>2
  <2> HIDE DEF P, d
  <2> QED BY <1>5, <2>2
<1>7. sum_vp(d) <= g
  <2>1. d \in Nat /\ d < NumNodes
    BY <1>1, <1>6 DEF Nodes
  <2>2. CASE d = 0
    BY <2>2, SumZero
  <2>3. CASE d # 0
    <3>1. d - 1 \in 0 .. d - 1 /\ (d - 1) + 1 = d /\ d \in 0 .. NumNodes
      BY <2>1, <2>3, <1>1
    <3>2. g >= sum_vp((d - 1) + 1)
      BY <1>6, <3>1
    <3>3. sum_vp(d) \in Nat
      BY <1>2, <3>1
    <3> HIDE DEF d
    <3> QED BY <3>1, <3>2, <3>3
  <2> QED BY <2>2, <2>3
<1> QED BY <1>6, <1>7

LEMMA ThreadOf ==
  ASSUME SetupInv, NEW g \in Nat, g < total_num_threads
  PROVE  LET w == <<global_thread_id_to_node_id(g), global_thread_id_to_local_thread_id(g)>>
         IN  w \in Workers /\ Gid(w) = g
<1> DEFINE d == global_thread_id_to_node_id(g)
           v == global_thread_id_to_local_thread_id(g)
<1>1. d \in Nodes /\ sum_vp(d) <= g /\ g < sum_vp(d + 1)
  BY NodeOf
<1>2. v = g - sum_vp(d)
  BY DEF global_thread_id_to_local_thread_id
<1>3. sum_vp(d + 1) = sum_vp(d) + nworkers[d]
  BY <1>1, SumStep
<1>4. /\ NumNodes \in Nat /\ MaxWorkers \in Nat
      /\ nworkers[d] \in Nat /\ nworkers[d] <= MaxWorkers
  BY <1>1, PlacementAssumption, SearchAssumption DEF SetupInv
<1>5. d \in 0 .. NumNodes
  BY <1>1, <1>4 DEF Nodes
<1>6. sum_vp(d) \in Nat
  BY <1>5, SumType
<1> HIDE DEF d, v
<1>7. v \in 0 .. MaxWorkers - 1 /\ v < nworkers[d] /\ sum_vp(d) + v = g
  BY <1>1, <1>2, <1>3, <1>4, <1>6
<1>8. <<d, v>> \in Workers /\ Gid(<<d, v>>) = g
  BY <1>1, <1>7 DEF Workers, Gid
<1> QED BY <1>8 DEF d, v

(* The numbers of the workers are below the total and differ.              *)
LEMMA GidRange ==
  ASSUME SetupInv, NEW w \in Workers
  PROVE  Gid(w) \in Nat /\ Gid(w) < total_num_threads
<1>1. PICK a \in Nodes, b \in 0 .. MaxWorkers - 1 : w = <<a, b>> /\ b < nworkers[a]
  BY DEF Workers
<1>2. sum_vp(a + 1) = sum_vp(a) + nworkers[a]
  BY SumStep
<1>3. NumNodes \in Nat /\ MaxWorkers \in Nat /\ nworkers[a] \in Nat
  BY PlacementAssumption, SearchAssumption DEF SetupInv
<1>4. a \in 0 .. NumNodes /\ a + 1 \in 0 .. NumNodes /\ NumNodes \in 0 .. NumNodes
  BY <1>3 DEF Nodes
<1>5. sum_vp(a) \in Nat /\ sum_vp(NumNodes) \in Nat /\ sum_vp(a + 1) <= sum_vp(NumNodes)
  BY <1>4, SumType, SumGrows
<1>6. Gid(w) = sum_vp(a) + b /\ b \in Nat
  BY <1>1, <1>3 DEF Gid
<1> QED BY <1>1, <1>2, <1>3, <1>5, <1>6 DEF total_num_threads

LEMMA GidsDiffer ==
  ASSUME SetupInv, NEW w \in Workers, NEW v \in Workers, Gid(w) = Gid(v)
  PROVE  w = v
<1>1. PICK a \in Nodes, b \in 0 .. MaxWorkers - 1 : w = <<a, b>> /\ b < nworkers[a]
  BY DEF Workers
<1>2. PICK c \in Nodes, d \in 0 .. MaxWorkers - 1 : v = <<c, d>> /\ d < nworkers[c]
  BY DEF Workers
<1>3. NumNodes \in Nat /\ MaxWorkers \in Nat /\ nworkers[a] \in Nat /\ nworkers[c] \in Nat
  BY PlacementAssumption, SearchAssumption DEF SetupInv
<1>4. sum_vp(a + 1) = sum_vp(a) + nworkers[a] /\ sum_vp(c + 1) = sum_vp(c) + nworkers[c]
  BY SumStep
<1>5. a \in Nat /\ a + 1 \in 0 .. NumNodes /\ c \in Nat /\ c + 1 \in 0 .. NumNodes
      /\ a \in 0 .. NumNodes /\ c \in 0 .. NumNodes
  BY <1>3 DEF Nodes
<1>6. sum_vp(a) \in Nat /\ sum_vp(c) \in Nat
  BY <1>5, SumType
<1>7. sum_vp(a) + b = sum_vp(c) + d
  BY <1>1, <1>2 DEF Gid
<1>8. CASE a < c
  <2>1. a + 1 \in 0 .. c
    BY <1>5, <1>8
  <2>2. sum_vp(a + 1) <= sum_vp(c)
    BY <1>5, <2>1, SumGrows
  <2> QED BY <1>1, <1>2, <1>3, <1>4, <1>6, <1>7, <2>2
<1>9. CASE c < a
  <2>1. c + 1 \in 0 .. a
    BY <1>5, <1>9
  <2>2. sum_vp(c + 1) <= sum_vp(a)
    BY <1>5, <2>1, SumGrows
  <2> QED BY <1>1, <1>2, <1>3, <1>4, <1>6, <1>7, <2>2
<1>10. CASE a = c
  <2>1. b = d
    BY <1>1, <1>2, <1>3, <1>6, <1>7, <1>10
  <2> QED BY <1>1, <1>2, <1>10, <2>1
<1> QED BY <1>5, <1>8, <1>9, <1>10

(***************************************************************************)
(* What the three changes of a slot do.                                    *)
(***************************************************************************)
LEMMA SortedAppend ==
  ASSUME NEW S, NEW s \in Seq(S), NEW x \in S, NEW R, Sorted(s, R),
         \A k \in 1 .. Len(s) : <<x, s[k]>> \notin R
  PROVE  Sorted(Append(s, x), R)
<1>1. Len(s) \in Nat /\ Len(Append(s, x)) = Len(s) + 1 /\ Append(s, x)[Len(s) + 1] = x
      /\ \A i \in 1 .. Len(s) : Append(s, x)[i] = s[i]
  BY AppendProperties, LenProperties
<1> DEFINE t == Append(s, x)
<1>2. ASSUME NEW k \in 1 .. Len(t), NEW l \in 1 .. Len(t), k < l PROVE <<t[l], t[k]>> \notin R
  <2>1. k \in 1 .. Len(s) /\ t[k] = s[k]
    BY <1>1, <1>2
  <2>2. CASE l \in 1 .. Len(s)
    <3>1. t[l] = s[l]
      BY <1>1, <2>2
    <3> QED BY <1>2, <2>1, <2>2, <3>1 DEF Sorted
  <2>3. CASE l = Len(s) + 1
    <3>1. t[l] = x
      BY <1>1, <2>3
    <3> QED BY <2>1, <3>1
  <2> QED BY <1>1, <2>2, <2>3
<1> QED BY <1>2 DEF Sorted

LEMMA SortedPush ==
  ASSUME NEW S, NEW s \in Seq(S), NEW x \in S, NEW R, Sorted(s, R),
         \A k \in 1 .. Len(s) : <<s[k], x>> \notin R
  PROVE  Sorted(<<x>> \o s, R)
<1> DEFINE t == <<x>> \o s
<1>1. <<x>> \in Seq(S) /\ Len(<<x>>) = 1 /\ <<x>>[1] = x /\ Len(s) \in Nat
  OBVIOUS
<1>2. Len(t) = 1 + Len(s) /\ t[1] = x /\ \A i \in 2 .. Len(t) : t[i] = s[i - 1]
  <2> DEFINE a == <<x>>
  <2>1. a \in Seq(S) /\ Len(a) = 1 /\ a[1] = x
    BY <1>1
  <2> HIDE DEF a
  <2>2. /\ Len(a \o s) = Len(a) + Len(s)
        /\ \A i \in 1 .. Len(a) + Len(s) : (a \o s)[i] = IF i <= Len(a) THEN a[i] ELSE s[i - Len(a)]
    BY <2>1, ConcatProperties
  <2>3. Len(a \o s) = 1 + Len(s) /\ (a \o s)[1] = x
    BY <1>1, <2>1, <2>2
  <2>4. \A i \in 2 .. 1 + Len(s) : (a \o s)[i] = s[i - 1]
    BY <1>1, <2>1, <2>2
  <2> QED BY <2>3, <2>4 DEF a
<1>3. ASSUME NEW k \in 1 .. Len(t), NEW l \in 1 .. Len(t), k < l PROVE <<t[l], t[k]>> \notin R
  <2> HIDE DEF t
  <2>1. l \in 2 .. Len(t) /\ t[l] = s[l - 1] /\ l - 1 \in 1 .. Len(s)
    BY <1>1, <1>2, <1>3
  <2>2. CASE k = 1
    BY <1>2, <2>1, <2>2
  <2>3. CASE k # 1
    <3>1. t[k] = s[k - 1] /\ k - 1 \in 1 .. Len(s) /\ k - 1 < l - 1
      BY <1>1, <1>2, <1>3, <2>3
    <3> QED BY <2>1, <3>1 DEF Sorted
  <2> QED BY <2>2, <2>3
<1> QED BY <1>3 DEF Sorted

LEMMA SortedTail ==
  ASSUME NEW S, NEW s \in Seq(S), s # <<>>, NEW R, Sorted(s, R)
  PROVE  Sorted(Tail(s), R)
<1>1. /\ Len(Tail(s)) = Len(s) - 1 /\ Len(s) \in Nat
      /\ \A i \in 1 .. Len(Tail(s)) : Tail(s)[i] = s[i + 1]
  BY HeadTailProperties, LenProperties
<1> DEFINE t == Tail(s)
<1>2. ASSUME NEW k \in 1 .. Len(t), NEW l \in 1 .. Len(t), k < l PROVE <<t[l], t[k]>> \notin R
  <2>1. /\ k + 1 \in 1 .. Len(s) /\ l + 1 \in 1 .. Len(s) /\ k + 1 < l + 1
        /\ t[k] = s[k + 1] /\ t[l] = s[l + 1]
    BY <1>1, <1>2
  <2> QED BY <2>1 DEF Sorted
<1> QED BY <1>2 DEF Sorted

LEMMA SortedLess ==
  ASSUME NEW s, NEW R, NEW Q, Sorted(s, R),
         \A k, l \in 1 .. Len(s) : <<s[l], s[k]>> \in Q => <<s[l], s[k]>> \in R
  PROVE  Sorted(s, Q)
BY DEF Sorted

Is(a, b) == IF a = b THEN 1 ELSE 0
Hit(x, u, y, t) == IF x = y /\ u = t THEN 1 ELSE 0

LEMMA InsertEffect ==
  ASSUME NEW S, NEW s \in Seq(S), NEW x \in S, NEW b \in BOOLEAN
  PROVE  /\ Insert(s, x, b) \in Seq(S)
         /\ \A u : Num(Insert(s, x, b), {u}) = Num(s, {u}) + Is(x, u)
<1>1. \A u : One(x \in {u}) = Is(x, u)
  BY DEF One, Is
<1>2. CASE b
  <2>1. Insert(s, x, b) = <<x>> \o s
    BY <1>2 DEF Insert
  <2>2. /\ <<x>> \o s \in Seq(S)
        /\ \A M : Num(<<x>> \o s, M) = Num(s, M) + One(x \in M)
    BY NumPush
  <2> QED BY <1>1, <2>1, <2>2
<1>3. CASE ~b
  <2>1. Insert(s, x, b) = Append(s, x) /\ Append(s, x) \in Seq(S)
    BY <1>3, AppendProperties DEF Insert
  <2>2. \A M : Num(Append(s, x), M) = Num(s, M) + One(x \in M)
    BY NumAppend
  <2> QED BY <1>1, <2>1, <2>2
<1> QED BY <1>2, <1>3

LEMMA TailEffect ==
  ASSUME NEW S, NEW s \in Seq(S), s # <<>>
  PROVE  /\ Head(s) \in S /\ Tail(s) \in Seq(S)
         /\ \A u : Num(s, {u}) = Num(Tail(s), {u}) + Is(Head(s), u)
<1>1. \A u : One(Head(s) \in {u}) = Is(Head(s), u)
  BY DEF One, Is
<1>2. Head(s) \in S /\ Tail(s) \in Seq(S)
  BY HeadTailProperties
<1>3. \A M : Num(s, M) = Num(Tail(s), M) + One(Head(s) \in M)
  BY NumTail
<1> QED BY <1>1, <1>2, <1>3

(***************************************************************************)
(* The slots.                                                              *)
(***************************************************************************)
LEMMA SlotKinds ==
  ASSUME NEW x \in Slots
  PROVE  \/ \E n, m \in Nodes : x = <<n, m, "wire">>
         \/ \E n \in Nodes : x = <<n, 0, "private">>
         \/ \E n \in Nodes, q \in Queues : x = <<n, q, "public">>
BY DEF Slots, Queues

LEMMA SlotNames ==
  /\ \A n, m \in Nodes : <<n, m, "wire">> \in Slots
  /\ \A n \in Nodes : <<n, 0, "private">> \in Slots
  /\ \A n \in Nodes, q \in Queues : <<n, q, "public">> \in Slots
BY DEF Slots, Queues

LEMMA Contents ==
  /\ \A n, m : Content(<<n, m, "wire">>) = wire[n][m]
  /\ \A n, m : Content(<<n, m, "wire">>)' = wire'[n][m]
  /\ \A n : Content(<<n, 0, "private">>) = private[n]
  /\ \A n : Content(<<n, 0, "private">>)' = private'[n]
  /\ \A n, q : Content(<<n, q, "public">>) = public[n][q]
  /\ \A n, q : Content(<<n, q, "public">>)' = public'[n][q]
BY DEF Content

LEMMA ContentType ==
  ASSUME TypeInv, NEW x \in Slots PROVE Content(x) \in Seq(Tasks)
<1>1. CASE \E n, m \in Nodes : x = <<n, m, "wire">>
  BY <1>1, Contents DEF TypeInv
<1>2. CASE \E n \in Nodes : x = <<n, 0, "private">>
  BY <1>2, Contents DEF TypeInv
<1>3. CASE \E n \in Nodes, q \in Queues : x = <<n, q, "public">>
  BY <1>3, Contents DEF TypeInv
<1> QED BY <1>1, <1>2, <1>3, SlotKinds

LEMMA QueueIndexType == ASSUME NEW l \in Nat PROVE QueueIndex(l) \in Queues
BY PlacementAssumption DEF QueueIndex, Queues

(* The slot of node n for a task.                                          *)
LocalSlot(n, t, toPrivate) ==
  IF toPrivate THEN <<n, 0, "private">> ELSE <<n, QueueIndex(desc[t].level), "public">>

LEMMA LocalSlotType ==
  ASSUME TypeInv, NEW n \in Nodes, NEW t \in Tasks, NEW p \in BOOLEAN
  PROVE  /\ LocalSlot(n, t, p) \in Slots /\ LocalSlot(n, t, p)[3] # "wire"
         /\ QueueIndex(desc[t].level) \in Queues
<1>1. desc[t].level \in Nat
  BY DEF TypeInv, Descs
<1>2. QueueIndex(desc[t].level) \in Queues
  BY <1>1, QueueIndexType
<1> QED BY <1>2, SlotNames DEF LocalSlot

(* A new task in a slot; a task that goes from the head of one slot to     *)
(* another one.                                                            *)
Stored(y, t, b) ==
  \A x \in Slots : Content(x)' = IF x = y THEN Insert(Content(x), t, b) ELSE Content(x)

Moved(y, z, t, b) ==
  /\ y # z /\ Content(y) # <<>> /\ t = Head(Content(y))
  /\ \A x \in Slots :
       Content(x)' = IF x = y THEN Tail(Content(x))
                     ELSE IF x = z THEN Insert(Content(x), t, b) ELSE Content(x)

Untouched == \A x \in Slots : Content(x)' = Content(x)

LEMMA UntouchedSlots == UNCHANGED <<wire, public, private>> => Untouched
<1> SUFFICES ASSUME UNCHANGED <<wire, public, private>>, NEW x \in Slots
             PROVE  Content(x)' = Content(x)
  BY DEF Untouched
<1> QED BY SlotKinds, Contents

LEMMA EnqueueEffect ==
  ASSUME TypeInv, NEW n \in Nodes, NEW t \in Tasks, NEW p \in BOOLEAN, NEW b \in BOOLEAN,
         Enqueue(n, t, p, b)
  PROVE  /\ public' \in [Nodes -> [Queues -> Seq(Tasks)]]
         /\ private' \in [Nodes -> Seq(Tasks)]
         /\ \A x \in Slots : x[3] # "wire" =>
              Content(x)' = IF x = LocalSlot(n, t, p) THEN Insert(Content(x), t, b)
                            ELSE Content(x)
<1> DEFINE q == QueueIndex(desc[t].level)
<1>1. q \in Queues
  BY LocalSlotType
<1>2. CASE p
  <2>1. private' = [private EXCEPT ![n] = Insert(@, t, b)] /\ public' = public
    BY <1>2 DEF Enqueue
  <2>2. private[n] \in Seq(Tasks) /\ private \in [Nodes -> Seq(Tasks)]
    BY DEF TypeInv
  <2>3. Insert(private[n], t, b) \in Seq(Tasks)
    BY <2>2, InsertEffect
  <2>4. LocalSlot(n, t, p) = <<n, 0, "private">>
    BY <1>2 DEF LocalSlot
  <2>5. ASSUME NEW x \in Slots, x[3] # "wire"
        PROVE  Content(x)' = IF x = <<n, 0, "private">> THEN Insert(Content(x), t, b)
                             ELSE Content(x)
    <3>1. CASE \E a \in Nodes : x = <<a, 0, "private">>
      <4>1. PICK a \in Nodes : x = <<a, 0, "private">>
        BY <3>1
      <4>2. Content(x) = private[a] /\ Content(x)' = private'[a]
        BY <4>1, Contents
      <4>3. x = <<n, 0, "private">> <=> a = n
        BY <4>1
      <4> HIDE DEF q
      <4> QED BY <2>1, <2>2, <4>2, <4>3
    <3>2. CASE \E a \in Nodes, r \in Queues : x = <<a, r, "public">>
      <4>1. PICK a \in Nodes, r \in Queues : x = <<a, r, "public">>
        BY <3>2
      <4>2. Content(x) = public[a][r] /\ Content(x)' = public'[a][r]
        BY <4>1, Contents
      <4>3. x # <<n, 0, "private">>
        BY <4>1
      <4> QED BY <2>1, <4>2, <4>3
    <3> QED BY <2>5, <3>1, <3>2, SlotKinds
  <2>6. public' \in [Nodes -> [Queues -> Seq(Tasks)]] /\ private' \in [Nodes -> Seq(Tasks)]
    BY <2>1, <2>2, <2>3 DEF TypeInv
  <2> QED BY <2>4, <2>5, <2>6
<1>3. CASE ~p
  <2>1. /\ public' = [public EXCEPT ![n][q] = Insert(@, t, b)] /\ private' = private
    BY <1>3 DEF Enqueue
  <2>2. public[n][q] \in Seq(Tasks) /\ public \in [Nodes -> [Queues -> Seq(Tasks)]]
    BY <1>1 DEF TypeInv
  <2>3. Insert(public[n][q], t, b) \in Seq(Tasks)
    BY <2>2, InsertEffect
  <2>4. LocalSlot(n, t, p) = <<n, q, "public">>
    BY <1>3 DEF LocalSlot
  <2> HIDE DEF q
  <2>5. ASSUME NEW x \in Slots, x[3] # "wire"
        PROVE  Content(x)' = IF x = <<n, q, "public">> THEN Insert(Content(x), t, b)
                             ELSE Content(x)
    <3>1. CASE \E a \in Nodes : x = <<a, 0, "private">>
      <4>1. PICK a \in Nodes : x = <<a, 0, "private">>
        BY <3>1
      <4>2. Content(x) = private[a] /\ Content(x)' = private'[a]
        BY <4>1, Contents
      <4>3. x # <<n, q, "public">>
        BY <4>1
      <4> QED BY <2>1, <4>2, <4>3
    <3>2. CASE \E a \in Nodes, r \in Queues : x = <<a, r, "public">>
      <4>1. PICK a \in Nodes, r \in Queues : x = <<a, r, "public">>
        BY <3>2
      <4>2. Content(x) = public[a][r] /\ Content(x)' = public'[a][r]
        BY <4>1, Contents
      <4>3. x = <<n, q, "public">> <=> a = n /\ r = q
        BY <4>1
      <4>4. public'[a][r] = IF a = n /\ r = q THEN Insert(public[a][r], t, b) ELSE public[a][r]
        BY <1>1, <2>1, <2>2
      <4> QED BY <4>2, <4>3, <4>4
    <3> QED BY <2>5, <3>1, <3>2, SlotKinds
  <2>6. public' \in [Nodes -> [Queues -> Seq(Tasks)]] /\ private' \in [Nodes -> Seq(Tasks)]
    BY <1>1, <2>1, <2>2, <2>3 DEF TypeInv
  <2> QED BY <2>4, <2>5, <2>6
<1> QED BY <1>2, <1>3

(* How many times a task is in each slot afterwards.                       *)
LEMMA StoredCounts ==
  ASSUME TypeInv, NEW y \in Slots, NEW t \in Tasks, NEW b \in BOOLEAN, Stored(y, t, b)
  PROVE  \A x \in Slots : \A u :
           /\ At1(x, u) \in Nat
           /\ At1(x, u)' = At1(x, u) + Hit(x, u, y, t)
<1> SUFFICES ASSUME NEW x \in Slots, NEW u
             PROVE  At1(x, u) \in Nat /\ At1(x, u)' = At1(x, u) + Hit(x, u, y, t)
  OBVIOUS
<1>1. Content(x) \in Seq(Tasks) /\ At1(x, u) \in Nat
  BY ContentType, NumType DEF At1
<1>2. At1(x, u)' = Num(Content(x)', {u})
  BY DEF At1
<1>3. CASE x = y
  <2>1. Content(x)' = Insert(Content(x), t, b)
    BY <1>3 DEF Stored
  <2>2. Num(Insert(Content(x), t, b), {u}) = Num(Content(x), {u}) + Is(t, u)
    BY <1>1, InsertEffect
  <2>3. Is(t, u) = Hit(x, u, y, t)
    BY <1>3 DEF Is, Hit
  <2> QED BY <1>1, <1>2, <2>1, <2>2, <2>3 DEF At1
<1>4. CASE x # y
  <2>1. Content(x)' = Content(x) /\ Hit(x, u, y, t) = 0
    BY <1>4 DEF Stored, Hit
  <2> QED BY <1>1, <1>2, <2>1 DEF At1
<1> QED BY <1>3, <1>4

LEMMA MovedCounts ==
  ASSUME TypeInv, NEW y \in Slots, NEW z \in Slots, NEW t \in Tasks, NEW b \in BOOLEAN,
         Moved(y, z, t, b)
  PROVE  \A x \in Slots : \A u :
           /\ At1(x, u) \in Nat
           /\ At1(x, u)' + Hit(x, u, y, t) = At1(x, u) + Hit(x, u, z, t)
           /\ At1(x, u)' \in Nat
<1> SUFFICES ASSUME NEW x \in Slots, NEW u
             PROVE  /\ At1(x, u) \in Nat
                    /\ At1(x, u)' + Hit(x, u, y, t) = At1(x, u) + Hit(x, u, z, t)
                    /\ At1(x, u)' \in Nat
  OBVIOUS
<1>1. Content(x) \in Seq(Tasks) /\ At1(x, u) \in Nat
  BY ContentType, NumType DEF At1
<1>2. At1(x, u)' = Num(Content(x)', {u})
  BY DEF At1
<1>3. Hit(x, u, z, t) \in Nat /\ Hit(x, u, y, t) \in Nat
  BY DEF Is, Hit
<1>4. CASE x = y
  <2>1. Content(x)' = Tail(Content(x)) /\ Content(x) # <<>> /\ t = Head(Content(x)) /\ x # z
    BY <1>4 DEF Moved
  <2>2. /\ Tail(Content(x)) \in Seq(Tasks)
        /\ Num(Content(x), {u}) = Num(Tail(Content(x)), {u}) + Is(t, u)
    BY <1>1, <2>1, TailEffect
  <2>3. Is(t, u) = Hit(x, u, y, t) /\ Hit(x, u, z, t) = 0
    BY <1>4, <2>1 DEF Is, Hit
  <2>4. Num(Tail(Content(x)), {u}) \in Nat
    BY <2>2, NumType
  <2> QED BY <1>1, <1>2, <1>3, <2>1, <2>2, <2>3, <2>4 DEF At1
<1>5. CASE x # y /\ x = z
  <2>1. Content(x)' = Insert(Content(x), t, b)
    BY <1>5 DEF Moved
  <2>2. Num(Insert(Content(x), t, b), {u}) = Num(Content(x), {u}) + Is(t, u)
    BY <1>1, InsertEffect
  <2>3. Is(t, u) = Hit(x, u, z, t) /\ Hit(x, u, y, t) = 0
    BY <1>5 DEF Is, Hit
  <2> QED BY <1>1, <1>2, <1>3, <2>1, <2>2, <2>3 DEF At1
<1>6. CASE x # y /\ x # z
  <2>1. Content(x)' = Content(x) /\ Hit(x, u, y, t) = 0 /\ Hit(x, u, z, t) = 0
    BY <1>6 DEF Moved, Hit
  <2> QED BY <1>1, <1>2, <2>1 DEF At1
<1> QED BY <1>4, <1>5, <1>6

(* A task that is somewhere in a slot counts.                              *)
LEMMA Present ==
  ASSUME TypeInv, NEW x \in Slots, NEW t \in Tasks
  PROVE  /\ At1(x, t) \in Nat
         /\ At1(x, t) = 0 <=> \A i \in 1 .. Len(Content(x)) : Content(x)[i] # t
<1>1. Content(x) \in Seq(Tasks)
  BY ContentType
<1>2. Num(Content(x), {t}) = 0 <=> \A i \in 1 .. Len(Content(x)) : Content(x)[i] \notin {t}
  BY <1>1, NumZero
<1>3. Num(Content(x), {t}) \in Nat
  BY <1>1, NumType
<1> QED BY <1>2, <1>3 DEF At1

(***************************************************************************)
(* The steps, and what each does to the slots.                             *)
(***************************************************************************)
CreatorStep(c) ==
  \/ \E t \in Tasks, l \in 1 .. setup.maxLevel, f \in setup.placedBy : Create(c, t, l, f)
  \/ InitStatic(c) \/ ReadNode(c) \/ ReadQueue(c) \/ Put(c)
  \/ AdvanceRead(c) \/ AdvanceWrite(c)

LEMMA StepKinds ==
  ASSUME [Next]_vars
  PROVE  \/ UNCHANGED vars
         \/ \E c \in Creators : CreatorStep(c)
         \/ \E n, m \in Nodes : ServerEnqueue(n, m) \/ ServerPrefetch(n, m)
BY DEF Next, CreatorStep

LEMMA SetupKept == [Next]_vars => setup' = setup /\ nworkers' = nworkers
<1> SUFFICES ASSUME [Next]_vars PROVE setup' = setup /\ nworkers' = nworkers
  OBVIOUS
<1>1. CASE UNCHANGED vars
  BY <1>1 DEF vars
<1>2. CASE \E c \in Creators : CreatorStep(c)
  <2>1. PICK c \in Creators : CreatorStep(c)
    BY <1>2
  <2>2. CASE \E t \in Tasks, l \in 1 .. setup.maxLevel, f \in setup.placedBy : Create(c, t, l, f)
    BY <2>2 DEF Create
  <2>3. CASE InitStatic(c) \/ ReadNode(c) \/ ReadQueue(c)
    BY <2>3 DEF InitStatic, ReadNode, ReadQueue
  <2>4. CASE Put(c) \/ AdvanceRead(c) \/ AdvanceWrite(c)
    BY <2>4 DEF Put, AdvanceRead, AdvanceWrite
  <2> QED BY <2>1, <2>2, <2>3, <2>4 DEF CreatorStep
<1>3. CASE \E n, m \in Nodes : ServerEnqueue(n, m) \/ ServerPrefetch(n, m)
  BY <1>3 DEF ServerEnqueue, ServerPrefetch
<1> QED BY <1>1, <1>2, <1>3, StepKinds

LEMMA SetupStep == ASSUME SetupInv, setup' = setup, nworkers' = nworkers PROVE SetupInv'
BY DEF SetupInv, Creators

LEMMA Numbering ==
  ASSUME setup' = setup, nworkers' = nworkers
  PROVE  /\ Creators' = Creators
         /\ total_num_threads' = total_num_threads
         /\ \A f : Total(f)' = Total(f)
         /\ \A g : global_thread_id_to_node_id(g)' = global_thread_id_to_node_id(g)
         /\ \A w : Gid(w)' = Gid(w)
         /\ Workers' = Workers
<1>1. \A n : sum_vp(n)' = sum_vp(n)
  BY DEF sum_vp
<1>2. total_num_threads' = total_num_threads
  BY <1>1 DEF total_num_threads
<1>3. ASSUME NEW g PROVE global_thread_id_to_node_id(g)' = global_thread_id_to_node_id(g)
  BY <1>1, <1>2 DEF global_thread_id_to_node_id, sum_vp, total_num_threads
<1> QED BY <1>1, <1>2, <1>3 DEF Creators, Total, Gid, Workers

LEMMA TotalType ==
  ASSUME SetupInv, NEW f \in Rotating
  PROVE  Total(f) \in Nat /\ Total(f) >= 1 /\ total_num_threads \in Nat
<1>1. NumNodes \in Nat /\ NumNodes >= 2
  BY PlacementAssumption
<1>2. 0 \in Nodes /\ 0 \in 0 .. NumNodes /\ 1 \in 0 .. NumNodes /\ NumNodes \in 0 .. NumNodes
      /\ 1 \in 0 .. NumNodes /\ 0 + 1 = 1
  BY <1>1 DEF Nodes
<1>3. sum_vp(0) = 0 /\ sum_vp(0 + 1) = sum_vp(0) + nworkers[0] /\ sum_vp(1) <= sum_vp(NumNodes)
      /\ sum_vp(NumNodes) \in Nat
  BY <1>2, SumZero, SumStep, SumGrows, SumType
<1>4. nworkers[0] \in Nat /\ nworkers[0] >= 1
  BY <1>2, SearchAssumption DEF SetupInv
<1>5. total_num_threads \in Nat /\ total_num_threads >= 1
  BY <1>2, <1>3, <1>4 DEF total_num_threads
<1> QED BY <1>1, <1>5 DEF Total

LEMMA FunctionNames ==
  /\ Rotating \subseteq Functions9 /\ ToNode \subseteq Functions9 /\ ToWorker \subseteq Functions9
  /\ AtFront \subseteq Functions9 /\ ToPrivate \subseteq Functions9
  /\ ToPrivate \cap Rotating = {} /\ "to_npq_end" \in ToPrivate \ AtFront
  /\ EndFunctions \cap AtFront = {} /\ EndFunctions \cap ToPrivate = {}
BY DEF Functions9, Rotating, ToNode, ToWorker, AtFront, ToPrivate, EndFunctions

LEMMA CreatorType ==
  ASSUME SetupInv, NEW c \in Creators
  PROVE  c = <<c[1], c[2]>> /\ c[1] \in Nodes /\ c[2] \in Nat /\ c[2] < nworkers[c[1]] /\ c \in Workers
<1>1. c \in Nodes \X Nat /\ c[2] < nworkers[c[1]]
  BY DEF SetupInv
<1>2. nworkers[c[1]] \in Nat /\ nworkers[c[1]] <= MaxWorkers /\ MaxWorkers \in Nat
  BY <1>1, SearchAssumption DEF SetupInv
<1>3. c[2] \in 0 .. MaxWorkers - 1
  BY <1>1, <1>2
<1> QED BY <1>1, <1>3 DEF Workers

(* The slot a creator puts its task in.                                    *)
Goal(c) ==
  IF job[c].node = c[1] THEN LocalSlot(c[1], job[c].task, job[c].by \in ToPrivate)
  ELSE <<c[1], job[c].node, "wire">>
InFront(c) == job[c].node = c[1] /\ job[c].by \in AtFront

LEMMA PutEffect ==
  ASSUME SetupInv, TypeInv, JobInv, NEW c \in Creators, Put(c)
  PROVE  /\ wire' \in [Nodes -> [Nodes -> Seq(Tasks)]]
         /\ public' \in [Nodes -> [Queues -> Seq(Tasks)]]
         /\ private' \in [Nodes -> Seq(Tasks)]
         /\ Goal(c) \in Slots /\ InFront(c) \in BOOLEAN
         /\ Stored(Goal(c), job[c].task, InFront(c))
<1> DEFINE n == c[1]
           m == job[c].node
           t == job[c].task
           f == job[c].by
<1>1. /\ n \in Nodes /\ m \in Nodes /\ t \in Tasks /\ f \in Functions9 /\ pc[c] = "put"
      /\ PutOrSend(n, m, t, f, job[c].queue)
  BY CreatorType DEF Put, At, JobInv, JobOK
<1>2. CASE m = n
  <2>1. Enqueue(n, t, f \in ToPrivate, f \in AtFront) /\ wire' = wire
    BY <1>1, <1>2 DEF PutOrSend
  <2> DEFINE p == f \in ToPrivate
             b == f \in AtFront
  <2>2. p \in BOOLEAN /\ b \in BOOLEAN
    OBVIOUS
  <2>3. Goal(c) = LocalSlot(n, t, p) /\ InFront(c) = b
    BY <1>2 DEF Goal, InFront
  <2> HIDE DEF n, m, t, f, p, b
  <2>4. Enqueue(n, t, p, b)
    BY <2>1 DEF p, b
  <2>5. LocalSlot(n, t, p) \in Slots /\ LocalSlot(n, t, p)[3] # "wire"
    BY <1>1, <2>2, LocalSlotType
  <2>6. /\ public' \in [Nodes -> [Queues -> Seq(Tasks)]]
        /\ private' \in [Nodes -> Seq(Tasks)]
        /\ \A x \in Slots : x[3] # "wire" =>
             Content(x)' = IF x = LocalSlot(n, t, p) THEN Insert(Content(x), t, b)
                           ELSE Content(x)
    BY <1>1, <2>2, <2>4, EnqueueEffect
  <2>7. ASSUME NEW x \in Slots
        PROVE  Content(x)' = IF x = LocalSlot(n, t, p) THEN Insert(Content(x), t, b)
                             ELSE Content(x)
    <3>1. CASE x[3] # "wire"
      BY <2>6, <3>1
    <3>2. CASE x[3] = "wire"
      <4>1. PICK k, l \in Nodes : x = <<k, l, "wire">>
        BY <3>2, SlotKinds
      <4>2. Content(x)' = Content(x)
        BY <2>1, <4>1, Contents
      <4> QED BY <2>5, <3>2, <4>2
    <3> QED BY <3>1, <3>2
  <2>8. wire' \in [Nodes -> [Nodes -> Seq(Tasks)]]
    BY <2>1 DEF TypeInv
  <2>9. Stored(LocalSlot(n, t, p), t, b)
    BY <2>7 DEF Stored
  <2>10. Stored(Goal(c), t, InFront(c))
    BY <2>3, <2>9
  <2> QED BY <2>2, <2>3, <2>5, <2>6, <2>8, <2>10 DEF t
<1>3. CASE m # n
  <2>1. wire' = [wire EXCEPT ![n][m] = Append(@, t)] /\ public' = public /\ private' = private
    BY <1>1, <1>3 DEF PutOrSend
  <2>2. Goal(c) = <<n, m, "wire">> /\ InFront(c) = FALSE
    BY <1>3 DEF Goal, InFront
  <2> HIDE DEF n, m, t, f
  <2>3. wire[n][m] \in Seq(Tasks) /\ wire \in [Nodes -> [Nodes -> Seq(Tasks)]]
    BY <1>1 DEF TypeInv
  <2>4. Append(wire[n][m], t) \in Seq(Tasks)
    BY <1>1, <2>3, AppendProperties
  <2>5. wire' \in [Nodes -> [Nodes -> Seq(Tasks)]]
    BY <1>1, <2>1, <2>3, <2>4
  <2>6. ASSUME NEW x \in Slots
        PROVE  Content(x)' = IF x = <<n, m, "wire">> THEN Insert(Content(x), t, FALSE)
                             ELSE Content(x)
    <3>1. CASE x[3] = "wire"
      <4>1. PICK k, l \in Nodes : x = <<k, l, "wire">>
        BY <3>1, SlotKinds
      <4>2. Content(x)' = wire'[k][l] /\ Content(x) = wire[k][l]
        BY <4>1, Contents
      <4>3. x = <<n, m, "wire">> <=> k = n /\ l = m
        BY <4>1
      <4>4. wire'[k][l] = IF k = n /\ l = m THEN Append(wire[k][l], t) ELSE wire[k][l]
        BY <1>1, <2>1, <2>3
      <4>5. Insert(Content(x), t, FALSE) = Append(Content(x), t)
        BY DEF Insert
      <4> QED BY <4>2, <4>3, <4>4, <4>5
    <3>2. CASE x[3] # "wire"
      <4>1. Content(x)' = Content(x)
        BY <2>1, <3>2, SlotKinds, Contents
      <4>2. x # <<n, m, "wire">>
        BY <3>2
      <4> QED BY <4>1, <4>2
    <3> QED BY <3>1, <3>2
  <2>7. Stored(<<n, m, "wire">>, t, FALSE)
    BY <2>6 DEF Stored
  <2>8. Stored(Goal(c), t, InFront(c))
    BY <2>2, <2>7
  <2>9. public' \in [Nodes -> [Queues -> Seq(Tasks)]] /\ private' \in [Nodes -> Seq(Tasks)]
    BY <2>1 DEF TypeInv
  <2>10. <<n, m, "wire">> \in Slots
    BY <1>1, SlotNames
  <2> QED BY <2>2, <2>5, <2>8, <2>9, <2>10 DEF t
<1> QED BY <1>2, <1>3

(* Where the server of m puts a task, and at which end.                    *)
ToHome(m, t) == desc[t].home = m
Arrives(m, t) == LocalSlot(m, t, ~ToHome(m, t) /\ desc[t].private)
ArrivesInFront(m, t) == ToHome(m, t) \/ desc[t].front

LEMMA ServerEnqueueEffect ==
  ASSUME SetupInv, TypeInv, NEW n \in Nodes, NEW m \in Nodes, ServerEnqueue(n, m)
  PROVE  LET t == Head(wire[n][m]) IN
         /\ wire' \in [Nodes -> [Nodes -> Seq(Tasks)]]
         /\ public' \in [Nodes -> [Queues -> Seq(Tasks)]]
         /\ private' \in [Nodes -> Seq(Tasks)]
         /\ t \in Tasks /\ wire[n][m] # <<>> /\ ArrivesInFront(m, t) \in BOOLEAN
         /\ <<n, m, "wire">> \in Slots /\ Arrives(m, t) \in Slots /\ Arrives(m, t)[3] # "wire"
         /\ Moved(<<n, m, "wire">>, Arrives(m, t), t, ArrivesInFront(m, t))
         /\ wire' = [wire EXCEPT ![n][m] = Tail(@)]
         /\ Enqueue(m, t, ~ToHome(m, t) /\ desc[t].private, ArrivesInFront(m, t))
<1> DEFINE t == Head(wire[n][m])
           p == ~ToHome(m, t) /\ desc[t].private
           b == ArrivesInFront(m, t)
<1>1. /\ wire[n][m] # <<>> /\ wire' = [wire EXCEPT ![n][m] = Tail(@)]
      /\ wire[n][m] \in Seq(Tasks) /\ wire \in [Nodes -> [Nodes -> Seq(Tasks)]]
  BY DEF ServerEnqueue, TypeInv
<1>2. t \in Tasks /\ Tail(wire[n][m]) \in Seq(Tasks)
  BY <1>1, HeadTailProperties
<1>3. p \in BOOLEAN /\ b \in BOOLEAN
  BY DEF ToHome, ArrivesInFront
<1>4. Enqueue(m, t, p, b)
  <2>1. desc[t].front \in BOOLEAN /\ desc[t].private \in BOOLEAN
    BY <1>2 DEF TypeInv, Descs
  <2>2. CASE desc[t].home = m
    <3>1. Enqueue(m, t, FALSE, TRUE) /\ p = FALSE /\ b = TRUE
      BY <2>2 DEF ServerEnqueue, ToHome, ArrivesInFront
    <3> QED BY <3>1
  <2>3. CASE desc[t].home # m
    <3>1. Enqueue(m, t, desc[t].private, desc[t].front)
      BY <2>3 DEF ServerEnqueue
    <3>2. p = desc[t].private /\ b = desc[t].front
      BY <2>1, <2>3 DEF ToHome, ArrivesInFront
    <3> QED BY <3>1, <3>2
  <2> QED BY <2>2, <2>3
<1>5. Arrives(m, t) = LocalSlot(m, t, p)
  BY DEF Arrives
<1>6. wire' \in [Nodes -> [Nodes -> Seq(Tasks)]]
  BY <1>1, <1>2
<1> HIDE DEF t, p, b
<1>7. LocalSlot(m, t, p) \in Slots /\ LocalSlot(m, t, p)[3] # "wire"
  BY <1>2, <1>3, LocalSlotType
<1>8. /\ public' \in [Nodes -> [Queues -> Seq(Tasks)]]
      /\ private' \in [Nodes -> Seq(Tasks)]
      /\ \A x \in Slots : x[3] # "wire" =>
           Content(x)' = IF x = LocalSlot(m, t, p) THEN Insert(Content(x), t, b)
                         ELSE Content(x)
  BY <1>2, <1>3, <1>4, EnqueueEffect
<1> DEFINE y == <<n, m, "wire">>
           z == LocalSlot(m, t, p)
<1>9. y \in Slots /\ Content(y) = wire[n][m]
  BY SlotNames, Contents
<1>10. ASSUME NEW x \in Slots
       PROVE  Content(x)' = IF x = y THEN Tail(Content(x))
                            ELSE IF x = z THEN Insert(Content(x), t, b) ELSE Content(x)
  <2>1. CASE x[3] = "wire"
    <3>1. PICK k, l \in Nodes : x = <<k, l, "wire">>
      BY <2>1, SlotKinds
    <3>2. Content(x)' = wire'[k][l] /\ Content(x) = wire[k][l]
      BY <3>1, Contents
    <3>3. x = y <=> k = n /\ l = m
      BY <3>1
    <3>4. wire'[k][l] = IF k = n /\ l = m THEN Tail(wire[k][l]) ELSE wire[k][l]
      BY <1>1
    <3>5. x # z
      BY <1>7, <2>1
    <3> HIDE DEF y, z
    <3> QED BY <3>2, <3>3, <3>4, <3>5
  <2>2. CASE x[3] # "wire"
    <3>1. x # y
      BY <2>2
    <3>2. Content(x)' = IF x = z THEN Insert(Content(x), t, b) ELSE Content(x)
      BY <1>8, <2>2
    <3> QED BY <3>1, <3>2
  <2> QED BY <2>1, <2>2
<1>11. Moved(y, z, t, b)
  <2>1. y # z
    BY <1>7
  <2>2. Content(y) # <<>> /\ t = Head(Content(y))
    BY <1>1, <1>9 DEF t
  <2> QED BY <1>10, <2>1, <2>2 DEF Moved
<1>12. Moved(<<n, m, "wire">>, Arrives(m, t), t, b)
  BY <1>5, <1>11
<1>13. Arrives(m, t) \in Slots /\ Arrives(m, t)[3] # "wire"
  BY <1>5, <1>7
<1> QED BY <1>1, <1>2, <1>3, <1>4, <1>6, <1>8, <1>9, <1>12, <1>13 DEF t, p, b

LEMMA ServerPrefetchEffect ==
  ASSUME SetupInv, TypeInv, NEW n \in Nodes, NEW m \in Nodes, ServerPrefetch(n, m)
  PROVE  /\ wire' \in [Nodes -> [Nodes -> Seq(Tasks)]]
         /\ public' \in [Nodes -> [Queues -> Seq(Tasks)]]
         /\ private' = private
         /\ m # n /\ <<n, m, "wire">> \in Slots
         /\ \E q \in Queues, t \in Tasks :
              /\ t = Head(public[n][q]) /\ public[n][q] # <<>>
              /\ desc' = [desc EXCEPT ![t] = Flagged(@, "to_npq_end", -1)]
              /\ asked' = [asked EXCEPT ![t] = @ \cup {"to_npq_end"}]
              /\ wire' = [wire EXCEPT ![n][m] = Append(@, t)]
              /\ public' = [public EXCEPT ![n][q] = Tail(@)]
              /\ <<n, q, "public">> \in Slots
              /\ Moved(<<n, q, "public">>, <<n, m, "wire">>, t, FALSE)
<1>1. PICK q \in 0 .. nworkers[n] :
        LET t == Head(public[n][q]) IN
        /\ public[n][q] # <<>>
        /\ desc' = [desc EXCEPT ![t] = Flagged(@, "to_npq_end", -1)]
        /\ asked' = [asked EXCEPT ![t] = @ \cup {"to_npq_end"}]
        /\ wire' = [wire EXCEPT ![n][m] = Append(@, t)]
        /\ public' = [public EXCEPT ![n][q] = Tail(@)]
  BY DEF ServerPrefetch
<1>2. m # n /\ private' = private
  BY DEF ServerPrefetch
<1>3. q \in Queues
  <2>1. nworkers[n] \in Nat /\ nworkers[n] <= MaxWorkers /\ MaxWorkers \in Nat
    BY SearchAssumption DEF SetupInv
  <2>2. NumLevels \in Nat /\ MaxWorkers < NumLevels
    BY PlacementAssumption, SearchAssumption
  <2> QED BY <2>1, <2>2 DEF Queues
<1> DEFINE t == Head(public[n][q])
<1>4. /\ public[n][q] \in Seq(Tasks) /\ public \in [Nodes -> [Queues -> Seq(Tasks)]]
      /\ wire[n][m] \in Seq(Tasks) /\ wire \in [Nodes -> [Nodes -> Seq(Tasks)]]
  BY <1>3 DEF TypeInv
<1>5. t \in Tasks /\ Tail(public[n][q]) \in Seq(Tasks)
  BY <1>1, <1>4, HeadTailProperties
<1>6. Append(wire[n][m], t) \in Seq(Tasks)
  BY <1>4, <1>5, AppendProperties
<1>7. wire' = [wire EXCEPT ![n][m] = Append(@, t)] /\ public' = [public EXCEPT ![n][q] = Tail(@)]
  BY <1>1
<1>8. wire' \in [Nodes -> [Nodes -> Seq(Tasks)]]
  <2> HIDE DEF t
  <2> QED BY <1>4, <1>6, <1>7
<1>9. public' \in [Nodes -> [Queues -> Seq(Tasks)]]
  BY <1>3, <1>4, <1>5, <1>7
<1>10. t = Head(public[n][q])
  OBVIOUS
<1>11. /\ desc' = [desc EXCEPT ![t] = Flagged(@, "to_npq_end", -1)]
       /\ asked' = [asked EXCEPT ![t] = @ \cup {"to_npq_end"}]
       /\ public[n][q] # <<>>
  BY <1>1
<1> HIDE DEF t
<1> DEFINE y == <<n, q, "public">>
           z == <<n, m, "wire">>
<1>12. y \in Slots /\ z \in Slots /\ Content(y) = public[n][q]
  BY <1>3, SlotNames, Contents
<1>13. ASSUME NEW x \in Slots
       PROVE  Content(x)' = IF x = y THEN Tail(Content(x))
                            ELSE IF x = z THEN Insert(Content(x), t, FALSE) ELSE Content(x)
  <2>1. CASE \E k, l \in Nodes : x = <<k, l, "wire">>
    <3>1. PICK k, l \in Nodes : x = <<k, l, "wire">>
      BY <2>1
    <3>2. Content(x)' = wire'[k][l] /\ Content(x) = wire[k][l]
      BY <3>1, Contents
    <3>3. x # y /\ (x = z <=> k = n /\ l = m)
      BY <3>1
    <3>4. wire'[k][l] = IF k = n /\ l = m THEN Append(wire[k][l], t) ELSE wire[k][l]
      BY <1>4, <1>7
    <3>5. Insert(Content(x), t, FALSE) = Append(Content(x), t)
      BY DEF Insert
    <3> HIDE DEF y, z
    <3> QED BY <3>2, <3>3, <3>4, <3>5
  <2>2. CASE \E k \in Nodes : x = <<k, 0, "private">>
    <3>1. PICK k \in Nodes : x = <<k, 0, "private">>
      BY <2>2
    <3>2. Content(x)' = Content(x) /\ x # y /\ x # z
      BY <1>2, <3>1, Contents
    <3> HIDE DEF y, z
    <3> QED BY <3>2
  <2>3. CASE \E k \in Nodes, r \in Queues : x = <<k, r, "public">>
    <3>1. PICK k \in Nodes, r \in Queues : x = <<k, r, "public">>
      BY <2>3
    <3>2. Content(x)' = public'[k][r] /\ Content(x) = public[k][r]
      BY <3>1, Contents
    <3>3. x # z /\ (x = y <=> k = n /\ r = q)
      BY <3>1
    <3>4. public'[k][r] = IF k = n /\ r = q THEN Tail(public[k][r]) ELSE public[k][r]
      BY <1>3, <1>4, <1>7
    <3> HIDE DEF y, z
    <3> QED BY <3>2, <3>3, <3>4
  <2> QED BY <2>1, <2>2, <2>3, SlotKinds
<1>14. Moved(y, z, t, FALSE)
  <2>1. y # z
    OBVIOUS
  <2>2. Content(y) # <<>> /\ t = Head(Content(y))
    BY <1>10, <1>11, <1>12
  <2> HIDE DEF y, z
  <2> QED BY <1>13, <2>1, <2>2 DEF Moved
<1> QED BY <1>2, <1>3, <1>5, <1>7, <1>8, <1>9, <1>10, <1>11, <1>12, <1>14

(***************************************************************************)
(* TypeInv and JobInv.                                                     *)
(***************************************************************************)
LEMMA JobFields ==
  ASSUME NEW j \in Jobs
  PROVE  /\ \A v \in Int : [j EXCEPT !.node = v] \in Jobs
         /\ \A v \in Int : [j EXCEPT !.queue = v] \in Jobs
         /\ \A v \in Int : [j EXCEPT !.next = v] \in Jobs
         /\ \A v \in SUBSET Statics : [j EXCEPT !.stores = v] \in Jobs
         /\ Idle \in Jobs
<1>1. Idle \in Jobs
  BY DEF Idle, Job, Jobs
<1>2. \A v \in Int : [j EXCEPT !.node = v] \in Jobs
  BY DEF Jobs
<1>3. \A v \in Int : [j EXCEPT !.queue = v] \in Jobs
  BY DEF Jobs
<1>4. \A v \in Int : [j EXCEPT !.next = v] \in Jobs
  BY DEF Jobs
<1>5. \A v \in SUBSET Statics : [j EXCEPT !.stores = v] \in Jobs
  BY DEF Jobs
<1> QED BY <1>1, <1>2, <1>3, <1>4, <1>5

(* One creator goes on.                                                    *)
Goes(c, p, j) ==
  /\ pc' = [pc EXCEPT ![c] = p]
  /\ job' = [job EXCEPT ![c] = j]

LEMMA CreatorGoes ==
  ASSUME TypeInv, NEW c \in Creators, NEW p, NEW j, Goes(c, p, j)
  PROVE  /\ pc'[c] = p /\ job'[c] = j
         /\ \A d \in Creators : d # c => pc'[d] = pc[d] /\ job'[d] = job[d]
BY DEF TypeInv, Goes

LEMMA GoesType ==
  ASSUME TypeInv, JobInv, setup' = setup, nworkers' = nworkers,
         NEW c \in Creators, NEW p \in PlacesOfCreators, NEW j \in Jobs, Goes(c, p, j), JobOK(p, j)
  PROVE  /\ pc' \in [Creators -> PlacesOfCreators]' /\ job' \in [Creators -> Jobs]'
         /\ \A d \in Creators' : JobOK(pc[d], job[d])'
<1>1. Creators' = Creators /\ \A f : Total(f)' = Total(f)
  BY Numbering
<1>2. ASSUME NEW d \in Creators PROVE JobOK(pc[d], job[d])'
  <2>1. \A q, k : JobOK(q, k) => JobOK(q, k)'
    BY <1>1 DEF JobOK
  <2>2. CASE d = c
    <3>1. pc'[d] = p /\ job'[d] = j
      BY <2>2, CreatorGoes
    <3>2. JobOK(p, j)'
      BY <2>1
    <3> QED BY <3>1, <3>2 DEF JobOK
  <2>3. CASE d # c
    <3>1. pc'[d] = pc[d] /\ job'[d] = job[d]
      BY <2>3, CreatorGoes
    <3>2. JobOK(pc[d], job[d])
      BY DEF JobInv
    <3> QED BY <1>1, <3>1, <3>2 DEF JobOK
  <2> QED BY <2>2, <2>3
<1>3. pc' \in [Creators -> PlacesOfCreators] /\ job' \in [Creators -> Jobs]
  BY DEF TypeInv, Goes
<1>4. [Creators -> PlacesOfCreators]' = [Creators -> PlacesOfCreators]
      /\ [Creators -> Jobs]' = [Creators -> Jobs]
  BY <1>1 DEF PlacesOfCreators, Jobs, Functions9, Statics
<1> QED BY <1>1, <1>2, <1>3, <1>4

(* The variables other than pc and job.                                    *)
RestType ==
  /\ initialized \in [Rotating -> [Nodes -> BOOLEAN]]
  /\ target \in [Rotating -> [Nodes -> Nat]]
  /\ desc \in [Tasks -> Descs]
  /\ wire \in [Nodes -> [Nodes -> Seq(Tasks)]]
  /\ public \in [Nodes -> [Queues -> Seq(Tasks)]]
  /\ private \in [Nodes -> Seq(Tasks)]
  /\ asked \in [Tasks -> SUBSET Functions9]
  /\ created \in [Creators -> Seq(Tasks)]
  /\ hits \in [Nodes -> [Nodes \X (0 .. MaxWorkers - 1) -> Nat]]
  /\ \A f \in Rotating, n \in Nodes : target[f][n] < Total(f)

LEMMA GoesKeepsTypes ==
  ASSUME TypeInv, JobInv, setup' = setup, nworkers' = nworkers,
         NEW c \in Creators, NEW p \in PlacesOfCreators, NEW j \in Jobs, Goes(c, p, j), JobOK(p, j),
         RestType'
  PROVE  TypeInv' /\ JobInv'
<1>1. /\ pc' \in [Creators -> PlacesOfCreators]' /\ job' \in [Creators -> Jobs]'
      /\ \A d \in Creators' : JobOK(pc[d], job[d])'
  BY GoesType
<1> QED BY <1>1 DEF RestType, TypeInv, JobInv

(* The task and the function a creation starts with, and where it goes.    *)
LEMMA CreateGoes ==
  ASSUME SetupInv, TypeInv, JobInv, NEW c \in Creators, NEW t \in Tasks,
         NEW l \in 1 .. setup.maxLevel, NEW f \in setup.placedBy, Create(c, t, l, f)
  PROVE  /\ l \in Nat /\ f \in Functions9
         /\ \E p \in {"init", "node", "put"}, j \in Jobs :
              /\ Goes(c, p, j) /\ JobOK(p, j) /\ j.task = t /\ j.by = f
              /\ p = "init" => ~initialized[f][c[1]] /\ j.stores = {"initialized", "target"}
              /\ p = "node" => initialized[f][c[1]]
              /\ p = "put" => f \notin Rotating
<1>1. l \in Nat /\ f \in Functions9
  <2>1. setup.maxLevel \in Nat /\ setup.placedBy \subseteq Functions9
    BY PlacementAssumption DEF SetupInv, Functions9
  <2> QED BY <2>1
<1>2. CASE f \in Rotating
  <2> DEFINE j == Job(t, f, -1, -1, {"initialized", "target"})
             p == IF initialized[f][c[1]] THEN "node" ELSE "init"
  <2>1. f \notin ToNode /\ f \notin ToWorker
    BY <1>2 DEF Rotating, ToNode, ToWorker
  <2>2. Goes(c, p, j)
    BY <2>1 DEF Create, Goes
  <2> HIDE DEF j
  <2>4. j \in Jobs /\ j.task = t /\ j.by = f /\ j.stores = {"initialized", "target"}
    BY <1>1 DEF Jobs, Statics, j, Job
  <2>5. JobOK(p, j)
    BY <1>1, <1>2, <2>4 DEF JobOK
  <2>6. p = "init" => ~initialized[f][c[1]]
    OBVIOUS
  <2>7. p = "node" => initialized[f][c[1]]
    OBVIOUS
  <2>8. p \in {"init", "node", "put"} /\ p # "put"
    OBVIOUS
  <2> HIDE DEF p
  <2> QED BY <1>1, <2>2, <2>4, <2>5, <2>6, <2>7, <2>8
<1>3. CASE f \in ToNode
  <2>1. f \notin Rotating /\ f \notin ToWorker
    BY <1>3 DEF Rotating, ToNode, ToWorker
  <2>2. PICK n \in Nodes : Goes(c, "put", Job(t, f, n, -1, {}))
    BY <2>1 DEF Create, Goes
  <2> DEFINE j == Job(t, f, n, -1, {})
  <2>4. Goes(c, "put", j)
    BY <2>2
  <2>5. n \in Int
    BY PlacementAssumption DEF Nodes
  <2> HIDE DEF j
  <2>6. j \in Jobs /\ j.task = t /\ j.by = f /\ j.node = n
    BY <1>1, <2>5 DEF Jobs, j, Job
  <2>7. JobOK("put", j)
    BY <1>1, <2>6 DEF JobOK
  <2> QED BY <1>1, <2>1, <2>4, <2>6, <2>7
<1>4. CASE f \in ToWorker
  <2>1. f \notin Rotating /\ f \notin ToNode
    BY <1>4 DEF Rotating, ToNode, ToWorker
  <2>2. PICK g \in 0 .. total_num_threads - 1 :
          Goes(c, "put", Job(t, f, global_thread_id_to_node_id(g),
                             global_thread_id_to_local_thread_id(g), {}))
    BY <2>1 DEF Create, Goes
  <2> DEFINE n == global_thread_id_to_node_id(g)
             q == global_thread_id_to_local_thread_id(g)
             j == Job(t, f, n, q, {})
  <2>3. total_num_threads \in Nat
    <3>1. "to_rq_end" \in Rotating
      BY DEF Rotating
    <3> QED BY <3>1, TotalType
  <2>4. g \in Nat /\ g < total_num_threads
    BY <2>3
  <2>5. <<n, q>> \in Workers
    BY <2>4, ThreadOf
  <2>6. n \in Nodes /\ n \in Int /\ q \in Int
    BY <2>5, PlacementAssumption, SearchAssumption DEF Workers, Nodes
  <2>7. Goes(c, "put", j)
    BY <2>2
  <2> HIDE DEF n, q, j
  <2>9. j \in Jobs /\ j.task = t /\ j.by = f /\ j.node = n
    BY <1>1, <2>6 DEF Jobs, j, Job
  <2>10. JobOK("put", j)
    BY <1>1, <2>6, <2>9 DEF JobOK
  <2> QED BY <1>1, <2>1, <2>7, <2>9, <2>10
<1> QED BY <1>1, <1>2, <1>3, <1>4 DEF Functions9

LEMMA RestFrame ==
  ASSUME TypeInv, JobInv, setup' = setup, nworkers' = nworkers
  PROVE  /\ RestType
         /\ Creators' = Creators
         /\ \A f : Total(f)' = Total(f)
BY Numbering DEF TypeInv, JobInv, RestType

LEMMA CreateTypes ==
  ASSUME SetupInv, TypeInv, JobInv, NEW c \in Creators, NEW t \in Tasks,
         NEW l \in 1 .. setup.maxLevel, NEW f \in setup.placedBy, Create(c, t, l, f)
  PROVE  TypeInv' /\ JobInv'
<1>1. /\ setup' = setup /\ nworkers' = nworkers /\ initialized' = initialized /\ target' = target
      /\ wire' = wire /\ public' = public /\ private' = private /\ hits' = hits
      /\ desc' = [desc EXCEPT ![t].home = c[1], ![t].level = l]
      /\ created' = [created EXCEPT ![c] = Append(@, t)]
      /\ asked' = [asked EXCEPT ![t] = {f}]
  BY DEF Create
<1>2. l \in Nat /\ f \in Functions9
  BY CreateGoes
<1>3. PICK p \in {"init", "node", "put"}, j \in Jobs : Goes(c, p, j) /\ JobOK(p, j)
  BY CreateGoes
<1>4. p \in PlacesOfCreators
  BY DEF PlacesOfCreators, Carrying
<1>5. c[1] \in Int
  BY CreatorType, PlacementAssumption DEF Nodes
<1>6. desc' \in [Tasks -> Descs]
  <2>1. desc[t] \in Descs /\ desc \in [Tasks -> Descs]
    BY DEF TypeInv
  <2>2. [desc[t] EXCEPT !.home = c[1], !.level = l] \in Descs
    <3>1. [desc[t] EXCEPT !.home = c[1]] \in Descs
      BY <1>5, <2>1 DEF Descs
    <3> DEFINE d == [desc[t] EXCEPT !.home = c[1]]
    <3>2. [d EXCEPT !.level = l] \in Descs
      <4> HIDE DEF d
      <4> QED BY <1>2, <3>1 DEF Descs, d
    <3> QED BY <3>2
  <2>3. desc' = [desc EXCEPT ![t] = [desc[t] EXCEPT !.home = c[1], !.level = l]]
    BY <1>1, <2>1
  <2> QED BY <2>1, <2>2, <2>3
<1>7. created' \in [Creators -> Seq(Tasks)]
  <2>1. created[c] \in Seq(Tasks) /\ created \in [Creators -> Seq(Tasks)]
    BY DEF TypeInv
  <2>2. Append(created[c], t) \in Seq(Tasks)
    BY <2>1, AppendProperties
  <2> QED BY <1>1, <2>1, <2>2
<1>8. asked' \in [Tasks -> SUBSET Functions9]
  BY <1>1, <1>2 DEF TypeInv
<1>9. RestType'
  <2>1. RestType /\ Creators' = Creators /\ \A g : Total(g)' = Total(g)
    BY <1>1, RestFrame
  <2> QED BY <1>1, <1>6, <1>7, <1>8, <2>1 DEF RestType
<1> QED BY <1>1, <1>3, <1>4, <1>9, GoesKeepsTypes

(* What InitStatic does.                                                   *)
OwnTarget(c) == IF job[c].by = "to_rq_end" THEN Gid(c) ELSE c[1]

LEMMA InitStaticGoes ==
  ASSUME SetupInv, TypeInv, JobInv, NEW c \in Creators, InitStatic(c)
  PROVE  /\ pc[c] = "init" /\ job[c].by \in Rotating
         /\ setup' = setup /\ nworkers' = nworkers
         /\ OwnTarget(c) \in Nat /\ OwnTarget(c) < Total(job[c].by)
         /\ \E s \in job[c].stores :
              LET j == [job[c] EXCEPT !.stores = @ \ {s}] IN
              /\ j \in Jobs
              /\ Goes(c, IF j.stores = {} THEN "node" ELSE "init", j)
              /\ JobOK(IF j.stores = {} THEN "node" ELSE "init", j)
              /\ s = "target" => target' = [target EXCEPT ![job[c].by][c[1]] = OwnTarget(c)]
                                 /\ initialized' = initialized
              /\ s # "target" => initialized' = [initialized EXCEPT ![job[c].by][c[1]] = TRUE]
                                 /\ target' = target
<1>1. pc[c] = "init" /\ setup' = setup /\ nworkers' = nworkers
  BY DEF InitStatic, At
<1>2. job[c] \in Jobs /\ job \in [Creators -> Jobs] /\ JobOK(pc[c], job[c])
  BY DEF TypeInv, JobInv
<1>3. job[c].by \in Rotating
  BY <1>1, <1>2 DEF JobOK
<1>4. OwnTarget(c) \in Nat /\ OwnTarget(c) < Total(job[c].by)
  <2>1. c[1] \in Nat /\ c[1] < NumNodes /\ c \in Workers
    BY CreatorType, PlacementAssumption DEF Nodes
  <2>2. Gid(c) \in Nat /\ Gid(c) < total_num_threads
    BY <2>1, GidRange
  <2> QED BY <2>1, <2>2 DEF OwnTarget, Total
<1>5. PICK s \in job[c].stores :
        /\ job' = [job EXCEPT ![c].stores = @ \ {s}]
        /\ IF s = "target"
           THEN target' = [target EXCEPT ![job[c].by][c[1]]
                  = IF job[c].by = "to_rq_end" THEN local_thread_id_to_global_thread_id(c[1], c[2])
                    ELSE c[1]] /\ UNCHANGED initialized
           ELSE initialized' = [initialized EXCEPT ![job[c].by][c[1]] = TRUE] /\ UNCHANGED target
  BY DEF InitStatic
<1>6. OwnTarget(c) = IF job[c].by = "to_rq_end"
                     THEN local_thread_id_to_global_thread_id(c[1], c[2]) ELSE c[1]
  BY DEF OwnTarget, Gid, local_thread_id_to_global_thread_id
<1> DEFINE j == [job[c] EXCEPT !.stores = @ \ {s}]
           p == IF j.stores = {} THEN "node" ELSE "init"
<1>7. j \in Jobs /\ j.by = job[c].by /\ j.task = job[c].task
  <2>1. job[c].stores \ {s} \in SUBSET Statics
    BY <1>2 DEF Jobs
  <2>2. \A v \in SUBSET Statics : [job[c] EXCEPT !.stores = v] \in Jobs
    BY <1>2, JobFields
  <2> QED BY <1>2, <2>1, <2>2 DEF Jobs
<1>8. job' = [job EXCEPT ![c] = j]
  BY <1>2, <1>5
<1>9. job'[c] = j
  <2> HIDE DEF j
  <2> QED BY <1>2, <1>8
<1>10. pc' = [pc EXCEPT ![c] = p]
  BY <1>9 DEF InitStatic
<1>11. Goes(c, p, j)
  BY <1>8, <1>10 DEF Goes
<1>12. JobOK(p, j)
  <2>1. p \in {"node", "init"}
    OBVIOUS
  <2> HIDE DEF p, j
  <2> QED BY <1>1, <1>2, <1>7, <2>1 DEF JobOK
<1>13. /\ s = "target" => target' = [target EXCEPT ![job[c].by][c[1]] = OwnTarget(c)]
                          /\ initialized' = initialized
       /\ s # "target" => initialized' = [initialized EXCEPT ![job[c].by][c[1]] = TRUE]
                          /\ target' = target
  BY <1>5, <1>6
<1>14. s \in job[c].stores
  BY <1>5
<1> HIDE DEF OwnTarget
<1> QED BY <1>1, <1>3, <1>4, <1>7, <1>11, <1>12, <1>13, <1>14

LEMMA InitStaticTypes ==
  ASSUME SetupInv, TypeInv, JobInv, NEW c \in Creators, InitStatic(c)
  PROVE  TypeInv' /\ JobInv'
<1>1. /\ setup' = setup /\ nworkers' = nworkers /\ desc' = desc /\ asked' = asked
      /\ wire' = wire /\ public' = public /\ private' = private /\ hits' = hits
      /\ created' = created
  BY DEF InitStatic
<1>2. PICK s \in job[c].stores :
         LET j == [job[c] EXCEPT !.stores = @ \ {s}] IN
         /\ j \in Jobs
         /\ Goes(c, IF j.stores = {} THEN "node" ELSE "init", j)
         /\ JobOK(IF j.stores = {} THEN "node" ELSE "init", j)
         /\ s = "target" => target' = [target EXCEPT ![job[c].by][c[1]] = OwnTarget(c)]
                            /\ initialized' = initialized
         /\ s # "target" => initialized' = [initialized EXCEPT ![job[c].by][c[1]] = TRUE]
                            /\ target' = target
  BY InitStaticGoes
<1>3. /\ OwnTarget(c) \in Nat /\ OwnTarget(c) < Total(job[c].by) /\ job[c].by \in Rotating
      /\ c[1] \in Nodes
  BY InitStaticGoes, CreatorType
<1>4. RestType /\ Creators' = Creators /\ \A f : Total(f)' = Total(f)
  BY <1>1, RestFrame
<1>5. /\ initialized' \in [Rotating -> [Nodes -> BOOLEAN]]
      /\ target' \in [Rotating -> [Nodes -> Nat]]
      /\ \A f \in Rotating, n \in Nodes : target'[f][n] < Total(f)
  <2>1. CASE s = "target"
    <3>1. target' = [target EXCEPT ![job[c].by][c[1]] = OwnTarget(c)] /\ initialized' = initialized
      BY <1>2, <2>1
    <3> QED BY <1>3, <1>4, <3>1 DEF RestType
  <2>2. CASE s # "target"
    <3>1. initialized' = [initialized EXCEPT ![job[c].by][c[1]] = TRUE] /\ target' = target
      BY <1>2, <2>2
    <3> QED BY <1>3, <1>4, <3>1 DEF RestType
  <2> QED BY <2>1, <2>2
<1>6. RestType'
  BY <1>1, <1>4, <1>5 DEF RestType
<1> DEFINE j == [job[c] EXCEPT !.stores = @ \ {s}]
           p == IF j.stores = {} THEN "node" ELSE "init"
<1>7. p \in PlacesOfCreators
  BY DEF PlacesOfCreators, Carrying
<1>8. j \in Jobs /\ Goes(c, p, j) /\ JobOK(p, j)
  BY <1>2
<1> HIDE DEF j, p
<1> QED BY <1>1, <1>6, <1>7, <1>8, GoesKeepsTypes

LEMMA ReadNodeGoes ==
  ASSUME SetupInv, TypeInv, JobInv, NEW c \in Creators, ReadNode(c)
  PROVE  LET f == job[c].by
             g == target[f][c[1]]
             j == [job[c] EXCEPT !.node =
                     IF f = "to_rq_end" THEN global_thread_id_to_node_id(g) ELSE g]
             p == IF f = "to_rq_end" THEN "queue" ELSE "put"
         IN  pc[c] = "node" /\ f \in Rotating /\ j \in Jobs /\ Goes(c, p, j) /\ JobOK(p, j)
<1> DEFINE f == job[c].by
           g == target[f][c[1]]
           v == IF f = "to_rq_end" THEN global_thread_id_to_node_id(g) ELSE g
           j == [job[c] EXCEPT !.node = v]
           p == IF f = "to_rq_end" THEN "queue" ELSE "put"
<1>1. pc[c] = "node" /\ pc' = [pc EXCEPT ![c] = p] /\ job' = [job EXCEPT ![c].node = v]
  BY DEF ReadNode, At
<1>2. job[c] \in Jobs /\ job \in [Creators -> Jobs] /\ JobOK(pc[c], job[c])
  BY DEF TypeInv, JobInv
<1>3. f \in Rotating /\ job[c].task \in Tasks /\ f \in Functions9
  BY <1>1, <1>2 DEF JobOK
<1>4. g \in Nat /\ g < Total(f) /\ c[1] \in Nodes
  BY <1>3, CreatorType DEF TypeInv, JobInv
<1>5. v \in Nodes
  <2>1. CASE f = "to_rq_end"
    <3>1. g < total_num_threads
      BY <1>4, <2>1 DEF Total
    <3>2. global_thread_id_to_node_id(g) \in Nodes
      BY <1>4, <3>1, NodeOf
    <3> QED BY <2>1, <3>2
  <2>2. CASE f # "to_rq_end"
    <3>1. g < NumNodes
      BY <1>4, <2>2 DEF Total
    <3> QED BY <1>4, <2>2, <3>1, PlacementAssumption DEF Nodes
  <2> QED BY <2>1, <2>2
<1>6. v \in Int
  BY <1>5, PlacementAssumption DEF Nodes
<1>7. job' = [job EXCEPT ![c] = j]
  BY <1>1, <1>2
<1>8. Goes(c, p, j)
  BY <1>1, <1>7 DEF Goes
<1>9. \A w \in Int : [job[c] EXCEPT !.node = w] \in Jobs
  BY <1>2, JobFields
<1>10. j \in Jobs
  BY <1>6, <1>9
<1>11. j.by = f /\ j.node = v /\ j.task = job[c].task
  <2> HIDE DEF v
  <2> QED BY <1>2 DEF Jobs
<1>12. JobOK(p, j)
  <2>1. p \in {"queue", "put"} /\ (p = "queue" => f = "to_rq_end")
    OBVIOUS
  <2> HIDE DEF v, j, p
  <2> QED BY <1>3, <1>5, <1>11, <2>1 DEF JobOK
<1> QED BY <1>1, <1>3, <1>8, <1>10, <1>12

LEMMA ReadNodeTypes ==
  ASSUME SetupInv, TypeInv, JobInv, NEW c \in Creators, ReadNode(c)
  PROVE  TypeInv' /\ JobInv'
<1>1. /\ setup' = setup /\ nworkers' = nworkers /\ initialized' = initialized /\ target' = target
      /\ wire' = wire /\ public' = public /\ private' = private /\ hits' = hits
      /\ desc' = desc /\ asked' = asked /\ created' = created
  BY DEF ReadNode
<1>2. RestType'
  BY <1>1, RestFrame DEF RestType
<1> DEFINE f == job[c].by
           g == target[f][c[1]]
           j == [job[c] EXCEPT !.node =
                   IF f = "to_rq_end" THEN global_thread_id_to_node_id(g) ELSE g]
           p == IF f = "to_rq_end" THEN "queue" ELSE "put"
<1>3. j \in Jobs /\ Goes(c, p, j) /\ JobOK(p, j)
  BY ReadNodeGoes
<1>4. p \in PlacesOfCreators
  BY DEF PlacesOfCreators, Carrying
<1> HIDE DEF j, p
<1> QED BY <1>1, <1>2, <1>3, <1>4, GoesKeepsTypes

LEMMA ReadQueueGoes ==
  ASSUME SetupInv, TypeInv, JobInv, NEW c \in Creators, ReadQueue(c)
  PROVE  LET g == target["to_rq_end"][c[1]]
             j == [job[c] EXCEPT !.queue = global_thread_id_to_local_thread_id(g)]
         IN  /\ pc[c] = "queue" /\ job[c].by = "to_rq_end" /\ j \in Jobs /\ Goes(c, "put", j)
             /\ JobOK("put", j) /\ g \in Nat /\ g < total_num_threads
<1> DEFINE g == target["to_rq_end"][c[1]]
           v == global_thread_id_to_local_thread_id(g)
           j == [job[c] EXCEPT !.queue = v]
<1>1. pc[c] = "queue" /\ job[c] \in Jobs /\ job \in [Creators -> Jobs] /\ JobOK(pc[c], job[c])
  BY DEF ReadQueue, At, TypeInv, JobInv
<1>2. job[c].by = "to_rq_end" /\ job[c].task \in Tasks /\ job[c].node \in Nodes
  BY <1>1 DEF JobOK
<1>3. pc' = [pc EXCEPT ![c] = "put"] /\ job' = [job EXCEPT ![c].queue = v]
  BY <1>2 DEF ReadQueue
<1>4. g \in Nat /\ g < total_num_threads
  <2>1. "to_rq_end" \in Rotating /\ c[1] \in Nodes
    BY CreatorType DEF Rotating
  <2>2. g \in Nat /\ g < Total("to_rq_end")
    BY <2>1 DEF TypeInv, JobInv
  <2> QED BY <2>2 DEF Total
<1>5. v \in Int
  <2>1. <<global_thread_id_to_node_id(g), v>> \in Workers
    BY <1>4, ThreadOf
  <2> QED BY <2>1, SearchAssumption DEF Workers
<1>6. \A w \in Int : [job[c] EXCEPT !.queue = w] \in Jobs
  BY <1>1, JobFields
<1>7. j \in Jobs
  BY <1>5, <1>6
<1>8. Goes(c, "put", j)
  BY <1>1, <1>3 DEF Goes
<1>9. j.by = "to_rq_end" /\ j.task = job[c].task /\ j.node = job[c].node
  <2> HIDE DEF v
  <2> QED BY <1>1, <1>2 DEF Jobs
<1>10. JobOK("put", j)
  <2>1. "to_rq_end" \in Functions9
    BY DEF Functions9, Rotating
  <2> HIDE DEF j
  <2> QED BY <1>2, <1>9, <2>1 DEF JobOK
<1> QED BY <1>1, <1>2, <1>4, <1>7, <1>8, <1>10

LEMMA ReadQueueTypes ==
  ASSUME SetupInv, TypeInv, JobInv, NEW c \in Creators, ReadQueue(c)
  PROVE  TypeInv' /\ JobInv'
<1> DEFINE g == target["to_rq_end"][c[1]]
           v == global_thread_id_to_local_thread_id(g)
           j == [job[c] EXCEPT !.queue = v]
           W == Nodes \X (0 .. MaxWorkers - 1)
           h == [w \in DOMAIN hits[c[1]] |-> hits[c[1]][w] + IF w = <<job[c].node, v>> THEN 1 ELSE 0]
<1>1. job[c].by = "to_rq_end" /\ j \in Jobs /\ Goes(c, "put", j) /\ JobOK("put", j)
  BY ReadQueueGoes
<1>2. /\ setup' = setup /\ nworkers' = nworkers /\ initialized' = initialized /\ target' = target
      /\ wire' = wire /\ public' = public /\ private' = private
      /\ desc' = desc /\ asked' = asked /\ created' = created
      /\ hits' = [hits EXCEPT ![c[1]] = h]
  BY <1>1 DEF ReadQueue
<1>3. hits[c[1]] \in [W -> Nat] /\ hits \in [Nodes -> [W -> Nat]] /\ c[1] \in Nodes
  BY CreatorType DEF TypeInv
<1>4. h \in [W -> Nat]
  <2> HIDE DEF v, W
  <2> QED BY <1>3
<1>5. hits' \in [Nodes -> [W -> Nat]]
  <2> HIDE DEF h, W
  <2> QED BY <1>2, <1>3, <1>4
<1>6. RestType'
  <2>1. RestType /\ Creators' = Creators /\ \A f : Total(f)' = Total(f)
    BY <1>2, RestFrame
  <2>2. hits' \in [Nodes -> [Nodes \X (0 .. MaxWorkers - 1) -> Nat]]
    BY <1>5
  <2> HIDE DEF h, v, g, j
  <2> QED BY <1>2, <2>1, <2>2 DEF RestType
<1>7. "put" \in PlacesOfCreators
  BY DEF PlacesOfCreators, Carrying
<1> HIDE DEF j
<1> QED BY <1>1, <1>2, <1>6, <1>7, GoesKeepsTypes

(* What Flagged writes.                                                    *)
LEMMA FlaggedFields ==
  ASSUME NEW d \in Descs, NEW f, NEW q \in Int
  PROVE  /\ Flagged(d, f, q) \in Descs
         /\ Flagged(d, f, q).home = d.home /\ Flagged(d, f, q).level = d.level
         /\ Flagged(d, f, q).front <=> (d.front \/ f \in AtFront)
         /\ Flagged(d, f, q).private <=> ((d.private \/ f \in ToPrivate) /\ f \notin Rotating)
<1> DEFINE b == d.front \/ f \in AtFront
           p == (d.private \/ f \in ToPrivate) /\ f \notin Rotating
           x == [d EXCEPT !.front = b]
           y == [x EXCEPT !.private = p]
           z == [y EXCEPT !.queue = q]
<1>1. b \in BOOLEAN /\ p \in BOOLEAN
  OBVIOUS
<1>2. /\ d.home \in Int /\ d.level \in Nat /\ d.queue \in Int
      /\ d = [home |-> d.home, level |-> d.level, front |-> d.front, private |-> d.private,
              queue |-> d.queue]
  BY DEF Descs
<1>3. Flagged(d, f, q) = z
  BY <1>2 DEF Flagged
<1> HIDE DEF b, p
<1>4. x = [home |-> d.home, level |-> d.level, front |-> b, private |-> d.private,
           queue |-> d.queue]
  BY <1>2
<1>5. y = [home |-> d.home, level |-> d.level, front |-> b, private |-> p, queue |-> d.queue]
  <2> HIDE DEF x
  <2> QED BY <1>4
<1>6. z = [home |-> d.home, level |-> d.level, front |-> b, private |-> p, queue |-> q]
  <2> HIDE DEF y
  <2> QED BY <1>5
<1>7. z \in Descs /\ z.home = d.home /\ z.level = d.level /\ z.front = b /\ z.private = p
  <2> HIDE DEF z
  <2> QED BY <1>1, <1>2, <1>6 DEF Descs
<1> HIDE DEF z
<1> QED BY <1>1, <1>3, <1>7 DEF b, p

LEMMA PutGoes ==
  ASSUME SetupInv, TypeInv, JobInv, NEW c \in Creators, Put(c)
  PROVE  /\ pc[c] = "put" /\ job[c].task \in Tasks /\ job[c].node \in Nodes
         /\ job[c].by \in Functions9 /\ job[c].queue \in Int
         /\ desc' = [desc EXCEPT ![job[c].task] = Flagged(@, job[c].by, job[c].queue)]
         /\ job[c].by \in Rotating => Goes(c, "advance", job[c]) /\ JobOK("advance", job[c])
         /\ job[c].by \notin Rotating => Goes(c, "app", Idle) /\ JobOK("app", Idle)
<1>1. /\ pc[c] = "put" /\ job[c] \in Jobs /\ job \in [Creators -> Jobs] /\ JobOK(pc[c], job[c])
  BY DEF Put, At, TypeInv, JobInv
<1>2. /\ job[c].task \in Tasks /\ job[c].node \in Nodes /\ job[c].by \in Functions9
      /\ job[c].queue \in Int
  BY <1>1 DEF JobOK, Jobs
<1>3. desc' = [desc EXCEPT ![job[c].task] = Flagged(@, job[c].by, job[c].queue)]
  BY DEF Put, PutOrSend
<1>4. CASE job[c].by \in Rotating
  <2>1. pc' = [pc EXCEPT ![c] = "advance"] /\ job' = job
    BY <1>4 DEF Put
  <2>2. job' = [job EXCEPT ![c] = job[c]]
    BY <1>1, <2>1
  <2>3. JobOK("advance", job[c])
    BY <1>1, <1>2, <1>4 DEF JobOK
  <2> QED BY <1>1, <1>2, <1>3, <1>4, <2>1, <2>2, <2>3 DEF Goes
<1>5. CASE job[c].by \notin Rotating
  <2>1. pc' = [pc EXCEPT ![c] = "app"] /\ job' = [job EXCEPT ![c] = Idle]
    BY <1>5 DEF Put
  <2>2. JobOK("app", Idle)
    BY DEF JobOK
  <2> QED BY <1>1, <1>2, <1>3, <1>5, <2>1, <2>2 DEF Goes
<1> QED BY <1>4, <1>5

LEMMA PutTypes ==
  ASSUME SetupInv, TypeInv, JobInv, NEW c \in Creators, Put(c)
  PROVE  TypeInv' /\ JobInv'
<1> DEFINE t == job[c].task
<1>1. /\ setup' = setup /\ nworkers' = nworkers /\ initialized' = initialized /\ target' = target
      /\ asked' = asked /\ created' = created /\ hits' = hits
  BY DEF Put
<1>2. t \in Tasks /\ job[c].queue \in Int
      /\ desc' = [desc EXCEPT ![t] = Flagged(@, job[c].by, job[c].queue)]
  BY PutGoes
<1>3. desc' \in [Tasks -> Descs]
  <2>1. desc \in [Tasks -> Descs] /\ desc[t] \in Descs
    BY <1>2 DEF TypeInv
  <2>2. Flagged(desc[t], job[c].by, job[c].queue) \in Descs
    BY <1>2, <2>1, FlaggedFields
  <2> HIDE DEF t
  <2> QED BY <1>2, <2>1, <2>2
<1>4. RestType'
  <2>1. RestType /\ Creators' = Creators /\ \A g : Total(g)' = Total(g)
    BY <1>1, RestFrame
  <2>2. /\ wire' \in [Nodes -> [Nodes -> Seq(Tasks)]]
        /\ public' \in [Nodes -> [Queues -> Seq(Tasks)]]
        /\ private' \in [Nodes -> Seq(Tasks)]
    BY PutEffect
  <2> QED BY <1>1, <1>3, <2>1, <2>2 DEF RestType
<1>5. CASE job[c].by \in Rotating
  <2>1. Goes(c, "advance", job[c]) /\ JobOK("advance", job[c])
    BY <1>5, PutGoes
  <2>2. "advance" \in PlacesOfCreators /\ job[c] \in Jobs
    BY DEF PlacesOfCreators, TypeInv
  <2> QED BY <1>1, <1>4, <2>1, <2>2, GoesKeepsTypes
<1>6. CASE job[c].by \notin Rotating
  <2>1. Goes(c, "app", Idle) /\ JobOK("app", Idle)
    BY <1>6, PutGoes
  <2>2. "app" \in PlacesOfCreators /\ Idle \in Jobs
    BY DEF PlacesOfCreators, Idle, Job, Jobs
  <2> QED BY <1>1, <1>4, <2>1, <2>2, GoesKeepsTypes
<1> QED BY <1>5, <1>6

LEMMA AdvanceReadGoes ==
  ASSUME SetupInv, TypeInv, JobInv, NEW c \in Creators, AdvanceRead(c)
  PROVE  LET f == job[c].by
             j == [job[c] EXCEPT !.next = (target[f][c[1]] + 1) % Total(f)]
         IN  pc[c] = "advance" /\ f \in Rotating /\ j \in Jobs /\ Goes(c, "store", j)
             /\ JobOK("store", j)
<1> DEFINE f == job[c].by
           v == (target[f][c[1]] + 1) % Total(f)
           j == [job[c] EXCEPT !.next = v]
<1>1. /\ pc[c] = "advance" /\ job[c] \in Jobs /\ job \in [Creators -> Jobs]
      /\ JobOK(pc[c], job[c])
  BY DEF AdvanceRead, At, TypeInv, JobInv
<1>2. f \in Rotating /\ job[c].task \in Tasks /\ f \in Functions9
  BY <1>1 DEF JobOK
<1>3. pc' = [pc EXCEPT ![c] = "store"] /\ job' = [job EXCEPT ![c].next = v]
  BY DEF AdvanceRead, Total
<1>4. v \in 0 .. Total(f) - 1
  <2>1. Total(f) \in Nat /\ Total(f) >= 1
    BY <1>2, TotalType
  <2>2. target[f][c[1]] \in Nat
    BY <1>2, CreatorType DEF TypeInv
  <2> HIDE DEF f
  <2> QED BY <2>1, <2>2
<1>5. v \in Int
  <2>1. Total(f) \in Nat
    BY <1>2, TotalType
  <2> QED BY <1>4, <2>1
<1>6. \A w \in Int : [job[c] EXCEPT !.next = w] \in Jobs
  BY <1>1, JobFields
<1>7. j \in Jobs
  BY <1>5, <1>6
<1>8. job' = [job EXCEPT ![c] = j]
  BY <1>1, <1>3
<1>9. j.by = f /\ j.task = job[c].task /\ j.next = v
  <2> HIDE DEF v
  <2> QED BY <1>1 DEF Jobs
<1>10. JobOK("store", j)
  <2> HIDE DEF j, v
  <2> QED BY <1>2, <1>4, <1>9 DEF JobOK
<1>11. Goes(c, "store", j)
  BY <1>3, <1>8 DEF Goes
<1> QED BY <1>1, <1>2, <1>7, <1>10, <1>11

LEMMA AdvanceWriteGoes ==
  ASSUME SetupInv, TypeInv, JobInv, NEW c \in Creators, AdvanceWrite(c)
  PROVE  LET f == job[c].by IN
         /\ pc[c] = "store" /\ f \in Rotating /\ job[c].next \in 0 .. Total(f) - 1
         /\ Goes(c, "app", Idle) /\ JobOK("app", Idle)
         /\ target' = [target EXCEPT ![f][c[1]] = job[c].next]
BY DEF AdvanceWrite, At, Goes, JobInv, JobOK

LEMMA AdvanceTypes ==
  ASSUME SetupInv, TypeInv, JobInv, NEW c \in Creators, AdvanceRead(c) \/ AdvanceWrite(c)
  PROVE  TypeInv' /\ JobInv'
<1>1. CASE AdvanceRead(c)
  <2>1. /\ setup' = setup /\ nworkers' = nworkers /\ initialized' = initialized
        /\ target' = target
        /\ wire' = wire /\ public' = public /\ private' = private /\ hits' = hits
        /\ desc' = desc /\ asked' = asked /\ created' = created
    BY <1>1 DEF AdvanceRead
  <2>2. RestType'
    BY <2>1, RestFrame DEF RestType
  <2> DEFINE j == [job[c] EXCEPT !.next = (target[job[c].by][c[1]] + 1) % Total(job[c].by)]
  <2>3. j \in Jobs /\ Goes(c, "store", j) /\ JobOK("store", j)
    BY <1>1, AdvanceReadGoes
  <2>4. "store" \in PlacesOfCreators
    BY DEF PlacesOfCreators
  <2> HIDE DEF j
  <2> QED BY <2>1, <2>2, <2>3, <2>4, GoesKeepsTypes
<1>2. CASE AdvanceWrite(c)
  <2> DEFINE f == job[c].by
             v == job[c].next
  <2>1. /\ setup' = setup /\ nworkers' = nworkers /\ initialized' = initialized
        /\ wire' = wire /\ public' = public /\ private' = private /\ hits' = hits
        /\ desc' = desc /\ asked' = asked /\ created' = created
    BY <1>2 DEF AdvanceWrite
  <2>2. /\ f \in Rotating /\ v \in 0 .. Total(f) - 1
        /\ Goes(c, "app", Idle) /\ JobOK("app", Idle)
        /\ target' = [target EXCEPT ![f][c[1]] = v]
    BY <1>2, AdvanceWriteGoes
  <2>3. Total(f) \in Nat /\ c[1] \in Nodes
    BY <2>2, TotalType, CreatorType
  <2>4. RestType /\ Creators' = Creators /\ \A g : Total(g)' = Total(g)
    BY <2>1, RestFrame
  <2> HIDE DEF f, v
  <2>5. /\ target' \in [Rotating -> [Nodes -> Nat]]
        /\ \A g \in Rotating, n \in Nodes : target'[g][n] < Total(g)
    <3>1. v \in Nat /\ v < Total(f)
      BY <2>2, <2>3
    <3> QED BY <2>2, <2>3, <2>4, <3>1 DEF RestType
  <2>6. RestType'
    BY <2>1, <2>4, <2>5 DEF RestType
  <2>7. "app" \in PlacesOfCreators /\ Idle \in Jobs
    BY DEF PlacesOfCreators, Idle, Job, Jobs
  <2> QED BY <2>1, <2>2, <2>6, <2>7, GoesKeepsTypes
<1> QED BY <1>1, <1>2

LEMMA StayTypes ==
  ASSUME TypeInv, JobInv, setup' = setup, nworkers' = nworkers, pc' = pc, job' = job, RestType'
  PROVE  TypeInv' /\ JobInv'
<1>1. Creators' = Creators /\ \A f : Total(f)' = Total(f)
  BY Numbering
<1>2. pc' \in [Creators -> PlacesOfCreators]' /\ job' \in [Creators -> Jobs]'
  BY <1>1 DEF TypeInv, PlacesOfCreators, Jobs
<1>3. \A c \in Creators' : JobOK(pc[c], job[c])'
  BY <1>1 DEF JobInv, JobOK
<1> QED BY <1>2, <1>3 DEF RestType, TypeInv, JobInv

LEMMA ServerTypes ==
  ASSUME SetupInv, TypeInv, JobInv, NEW n \in Nodes, NEW m \in Nodes,
         ServerEnqueue(n, m) \/ ServerPrefetch(n, m)
  PROVE  TypeInv' /\ JobInv'
<1>1. /\ setup' = setup /\ nworkers' = nworkers /\ initialized' = initialized /\ target' = target
      /\ pc' = pc /\ job' = job /\ created' = created /\ hits' = hits
  BY DEF ServerEnqueue, ServerPrefetch
<1>2. RestType /\ Creators' = Creators /\ \A f : Total(f)' = Total(f)
  BY <1>1, RestFrame
<1>3. CASE ServerEnqueue(n, m)
  <2>1. desc' = desc /\ asked' = asked
    BY <1>3 DEF ServerEnqueue
  <2>2. /\ wire' \in [Nodes -> [Nodes -> Seq(Tasks)]]
        /\ public' \in [Nodes -> [Queues -> Seq(Tasks)]]
        /\ private' \in [Nodes -> Seq(Tasks)]
    BY <1>3, ServerEnqueueEffect
  <2>3. RestType'
    BY <1>1, <1>2, <2>1, <2>2 DEF RestType
  <2> QED BY <1>1, <2>3, StayTypes
<1>4. CASE ServerPrefetch(n, m)
  <2>1. /\ wire' \in [Nodes -> [Nodes -> Seq(Tasks)]]
        /\ public' \in [Nodes -> [Queues -> Seq(Tasks)]]
        /\ private' = private
    BY <1>4, ServerPrefetchEffect
  <2>2. PICK t \in Tasks :
          /\ desc' = [desc EXCEPT ![t] = Flagged(@, "to_npq_end", -1)]
          /\ asked' = [asked EXCEPT ![t] = @ \cup {"to_npq_end"}]
    BY <1>4, ServerPrefetchEffect
  <2>3. desc' \in [Tasks -> Descs]
    <3>1. desc \in [Tasks -> Descs] /\ desc[t] \in Descs
      BY <1>2 DEF RestType
    <3>2. Flagged(desc[t], "to_npq_end", -1) \in Descs
      BY <3>1, FlaggedFields
    <3> QED BY <2>2, <3>1, <3>2
  <2>4. asked' \in [Tasks -> SUBSET Functions9]
    <3>1. asked[t] \cup {"to_npq_end"} \in SUBSET Functions9
      BY <1>2, FunctionNames DEF RestType
    <3> QED BY <1>2, <2>2, <3>1 DEF RestType
  <2>5. RestType'
    BY <1>1, <1>2, <2>1, <2>3, <2>4 DEF RestType
  <2> QED BY <1>1, <2>5, StayTypes
<1> QED BY <1>3, <1>4

LEMMA TypesStep ==
  ASSUME SetupInv, TypeInv, JobInv, [Next]_vars
  PROVE  SetupInv' /\ TypeInv' /\ JobInv'
<1>1. setup' = setup /\ nworkers' = nworkers
  BY SetupKept
<1>2. SetupInv'
  BY <1>1, SetupStep
<1>3. CASE UNCHANGED vars
  <2>1. RestType'
    BY <1>1, <1>3, RestFrame DEF RestType, vars
  <2> QED BY <1>1, <1>2, <1>3, <2>1, StayTypes DEF vars
<1>4. CASE \E c \in Creators : CreatorStep(c)
  <2>1. PICK c \in Creators : CreatorStep(c)
    BY <1>4
  <2>2. CASE \E t \in Tasks, l \in 1 .. setup.maxLevel, f \in setup.placedBy : Create(c, t, l, f)
    BY <1>2, <2>2, CreateTypes
  <2>3. CASE InitStatic(c)
    BY <1>2, <2>3, InitStaticTypes
  <2>4. CASE ReadNode(c)
    BY <1>2, <2>4, ReadNodeTypes
  <2>5. CASE ReadQueue(c)
    BY <1>2, <2>5, ReadQueueTypes
  <2>6. CASE Put(c)
    BY <1>2, <2>6, PutTypes
  <2>7. CASE AdvanceRead(c) \/ AdvanceWrite(c)
    BY <1>2, <2>7, AdvanceTypes
  <2> QED BY <2>1, <2>2, <2>3, <2>4, <2>5, <2>6, <2>7 DEF CreatorStep
<1>5. CASE \E n, m \in Nodes : ServerEnqueue(n, m) \/ ServerPrefetch(n, m)
  BY <1>2, <1>5, ServerTypes
<1> QED BY <1>3, <1>4, <1>5, StepKinds

(***************************************************************************)
(* PlaceInv.                                                               *)
(***************************************************************************)
(* Every creator has the same task in hand, of the same function.          *)
Keeps ==
  /\ Creators' = Creators
  /\ \A c \in Creators : pc'[c] \in Carrying <=> pc[c] \in Carrying
  /\ \A c \in Creators : pc[c] \in Carrying =>
       job'[c].task = job[c].task /\ job'[c].by = job[c].by

LEMMA KeepsInHand == ASSUME Keeps PROVE InHand' = InHand
<1>1. ASSUME NEW t PROVE t \in InHand' <=> t \in InHand
  BY DEF Keeps, InHand, Carrying
<1> QED BY <1>1

(* The steps that move no task.                                            *)
Quiet(c) == InitStatic(c) \/ ReadNode(c) \/ ReadQueue(c) \/ AdvanceRead(c) \/ AdvanceWrite(c)

LEMMA GoesKeeps ==
  ASSUME TypeInv, setup' = setup, NEW c \in Creators, NEW p, NEW j, Goes(c, p, j),
         p \in Carrying <=> pc[c] \in Carrying,
         pc[c] \in Carrying => j.task = job[c].task /\ j.by = job[c].by
  PROVE  Keeps
<1>1. Creators' = Creators
  BY DEF Creators
<1>2. /\ pc'[c] = p /\ job'[c] = j
      /\ \A d \in Creators : d # c => pc'[d] = pc[d] /\ job'[d] = job[d]
  BY CreatorGoes
<1> QED BY <1>1, <1>2 DEF Keeps

LEMMA QuietEffect ==
  ASSUME SetupInv, TypeInv, JobInv, NEW c \in Creators, Quiet(c)
  PROVE  Keeps /\ desc' = desc /\ asked' = asked /\ created' = created
         /\ wire' = wire /\ public' = public /\ private' = private
<1>1. /\ setup' = setup /\ desc' = desc /\ asked' = asked /\ created' = created
      /\ wire' = wire /\ public' = public /\ private' = private
  BY DEF Quiet, InitStatic, ReadNode, ReadQueue, AdvanceRead, AdvanceWrite
<1>2. job[c] \in Jobs
  BY DEF TypeInv
<1>3. CASE InitStatic(c)
  <2>1. pc[c] = "init"
    BY <1>3 DEF InitStatic, At
  <2>2. PICK s \in job[c].stores :
          LET j == [job[c] EXCEPT !.stores = @ \ {s}] IN
          Goes(c, IF j.stores = {} THEN "node" ELSE "init", j)
    BY <1>3, InitStaticGoes
  <2> DEFINE j == [job[c] EXCEPT !.stores = @ \ {s}]
             p == IF j.stores = {} THEN "node" ELSE "init"
  <2>3. j.task = job[c].task /\ j.by = job[c].by
    BY <1>2 DEF Jobs
  <2>4. p \in Carrying /\ pc[c] \in Carrying
    BY <2>1 DEF Carrying
  <2>5. Goes(c, p, j)
    BY <2>2
  <2> HIDE DEF j, p
  <2> QED BY <1>1, <2>3, <2>4, <2>5, GoesKeeps
<1>4. CASE ReadNode(c)
  <2> DEFINE v == IF job[c].by = "to_rq_end" THEN global_thread_id_to_node_id(target[job[c].by][c[1]])
                  ELSE target[job[c].by][c[1]]
             j == [job[c] EXCEPT !.node = v]
             p == IF job[c].by = "to_rq_end" THEN "queue" ELSE "put"
  <2>1. pc[c] = "node" /\ Goes(c, p, j)
    BY <1>4, ReadNodeGoes
  <2>2. p \in Carrying /\ pc[c] \in Carrying
    BY <2>1 DEF Carrying
  <2>3. j.task = job[c].task /\ j.by = job[c].by
    <3> HIDE DEF v
    <3> QED BY <1>2 DEF Jobs
  <2> HIDE DEF j, p
  <2> QED BY <1>1, <2>1, <2>2, <2>3, GoesKeeps
<1>5. CASE ReadQueue(c)
  <2> DEFINE v == global_thread_id_to_local_thread_id(target["to_rq_end"][c[1]])
             j == [job[c] EXCEPT !.queue = v]
  <2>1. pc[c] = "queue" /\ Goes(c, "put", j)
    BY <1>5, ReadQueueGoes
  <2>2. "put" \in Carrying /\ pc[c] \in Carrying
    BY <2>1 DEF Carrying
  <2>3. j.task = job[c].task /\ j.by = job[c].by
    <3> HIDE DEF v
    <3> QED BY <1>2 DEF Jobs
  <2> HIDE DEF j
  <2> QED BY <1>1, <2>1, <2>2, <2>3, GoesKeeps
<1>6. CASE AdvanceRead(c)
  <2> DEFINE j == [job[c] EXCEPT !.next = (target[job[c].by][c[1]] + 1) % Total(job[c].by)]
  <2>1. pc[c] = "advance" /\ Goes(c, "store", j)
    BY <1>6, AdvanceReadGoes
  <2>2. "store" \notin Carrying /\ pc[c] \notin Carrying
    BY <2>1 DEF Carrying
  <2> HIDE DEF j
  <2> QED BY <1>1, <2>1, <2>2, GoesKeeps
<1>7. CASE AdvanceWrite(c)
  <2>1. pc[c] = "store" /\ Goes(c, "app", Idle)
    BY <1>7, AdvanceWriteGoes
  <2>2. "app" \notin Carrying /\ pc[c] \notin Carrying
    BY <2>1 DEF Carrying
  <2> QED BY <1>1, <2>1, <2>2, GoesKeeps
<1> QED BY <1>1, <1>3, <1>4, <1>5, <1>6, <1>7 DEF Quiet

(* A fresh task in the creator's hand; a task that leaves it.              *)
LEMMA CreateEffect ==
  ASSUME SetupInv, TypeInv, JobInv, NEW c \in Creators, NEW t \in Tasks,
         NEW l \in 1 .. setup.maxLevel, NEW f \in setup.placedBy, Create(c, t, l, f)
  PROVE  /\ Untouched /\ Creators' = Creators
         /\ wire' = wire /\ public' = public
         /\ desc[t].home = -1 /\ desc'[t].home = c[1] /\ c[1] # -1
         /\ desc'[t].front = desc[t].front /\ desc'[t].private = desc[t].private
         /\ \A u \in Tasks : u # t => desc'[u] = desc[u] /\ asked'[u] = asked[u]
         /\ asked'[t] = {f} /\ asked' = [asked EXCEPT ![t] = {f}]
         /\ created' = [created EXCEPT ![c] = Append(@, t)]
         /\ pc[c] = "app" /\ pc'[c] \in Carrying /\ job'[c].task = t /\ job'[c].by = f
         /\ \A d \in Creators : d # c => pc'[d] = pc[d] /\ job'[d] = job[d]
<1>1. /\ wire' = wire /\ public' = public /\ private' = private /\ setup' = setup
      /\ desc[t].home = -1 /\ pc[c] = "app"
      /\ desc' = [desc EXCEPT ![t].home = c[1], ![t].level = l]
      /\ created' = [created EXCEPT ![c] = Append(@, t)]
      /\ asked' = [asked EXCEPT ![t] = {f}]
  BY DEF Create, At
<1>2. Untouched /\ Creators' = Creators
  BY <1>1, UntouchedSlots DEF Creators
<1>3. c[1] # -1
  BY CreatorType, PlacementAssumption DEF Nodes
<1>4. PICK p \in {"init", "node", "put"}, j \in Jobs : Goes(c, p, j) /\ j.task = t /\ j.by = f
  BY CreateGoes
<1>5. /\ pc'[c] = p /\ job'[c] = j
      /\ \A d \in Creators : d # c => pc'[d] = pc[d] /\ job'[d] = job[d]
  BY <1>4, CreatorGoes
<1>6. p \in Carrying
  BY DEF Carrying
<1>7. desc \in [Tasks -> Descs] /\ desc[t] \in Descs /\ asked \in [Tasks -> SUBSET Functions9]
  BY DEF TypeInv
<1>8. \A u \in Tasks : u # t => desc'[u] = desc[u] /\ asked'[u] = asked[u]
  BY <1>1, <1>7
<1>9. asked'[t] = {f}
  BY <1>1, <1>7
<1>10. /\ desc'[t].home = c[1] /\ desc'[t].front = desc[t].front
       /\ desc'[t].private = desc[t].private
  <2> DEFINE x == [desc[t] EXCEPT !.home = c[1]]
  <2>1. x.home = c[1] /\ x.front = desc[t].front /\ x.private = desc[t].private
        /\ x = [home |-> c[1], level |-> desc[t].level, front |-> desc[t].front,
                private |-> desc[t].private, queue |-> desc[t].queue]
    BY <1>7 DEF Descs
  <2>2. desc'[t] = [x EXCEPT !.level = l]
    BY <1>1, <1>7
  <2> HIDE DEF x
  <2> QED BY <2>1, <2>2
<1> QED BY <1>1, <1>2, <1>3, <1>4, <1>5, <1>6, <1>8, <1>9, <1>10

LEMMA PutStep ==
  ASSUME SetupInv, TypeInv, JobInv, NEW c \in Creators, Put(c)
  PROVE  LET t == job[c].task
             f == job[c].by IN
         /\ pc[c] = "put" /\ pc[c] \in Carrying /\ pc'[c] \notin Carrying
         /\ t \in Tasks /\ f \in Functions9
         /\ Creators' = Creators
         /\ \A d \in Creators : d # c => pc'[d] = pc[d] /\ job'[d] = job[d]
         /\ \A u \in Tasks : desc'[u].home = desc[u].home
         /\ \A u \in Tasks : u # t => desc'[u] = desc[u]
         /\ desc'[t].front <=> (desc[t].front \/ f \in AtFront)
         /\ desc'[t].private <=> ((desc[t].private \/ f \in ToPrivate) /\ f \notin Rotating)
         /\ asked' = asked /\ created' = created
<1> DEFINE t == job[c].task
           f == job[c].by
<1>1. /\ pc[c] = "put" /\ t \in Tasks /\ f \in Functions9 /\ job[c].queue \in Int
      /\ desc' = [desc EXCEPT ![t] = Flagged(@, f, job[c].queue)]
  BY PutGoes
<1>2. pc'[c] \notin Carrying /\ \A d \in Creators : d # c => pc'[d] = pc[d] /\ job'[d] = job[d]
  <2>1. CASE f \in Rotating
    <3>1. Goes(c, "advance", job[c])
      BY <2>1, PutGoes
    <3>2. "advance" \notin Carrying
      BY DEF Carrying
    <3> QED BY <3>1, <3>2, CreatorGoes
  <2>2. CASE f \notin Rotating
    <3>1. Goes(c, "app", Idle)
      BY <2>2, PutGoes
    <3>2. "app" \notin Carrying
      BY DEF Carrying
    <3> QED BY <3>1, <3>2, CreatorGoes
  <2> QED BY <2>1, <2>2
<1>3. "put" \in Carrying
  BY DEF Carrying
<1>4. Creators' = Creators /\ asked' = asked /\ created' = created
  BY DEF Put, Creators
<1>5. desc \in [Tasks -> Descs] /\ desc[t] \in Descs
  BY <1>1 DEF TypeInv
<1> DEFINE e == Flagged(desc[t], f, job[c].queue)
<1>6. /\ e.home = desc[t].home
      /\ e.front <=> (desc[t].front \/ f \in AtFront)
      /\ e.private <=> ((desc[t].private \/ f \in ToPrivate) /\ f \notin Rotating)
  BY <1>1, <1>5, FlaggedFields
<1>7. desc'[t] = e /\ \A u \in Tasks : u # t => desc'[u] = desc[u]
  <2> HIDE DEF t, f
  <2> QED BY <1>1, <1>5
<1>8. /\ desc'[t].home = desc[t].home
      /\ desc'[t].front <=> (desc[t].front \/ f \in AtFront)
      /\ desc'[t].private <=> ((desc[t].private \/ f \in ToPrivate) /\ f \notin Rotating)
  <2> HIDE DEF e
  <2> QED BY <1>6, <1>7
<1>9. \A u \in Tasks : desc'[u].home = desc[u].home
  BY <1>7, <1>8
<1> HIDE DEF e
<1> QED BY <1>1, <1>2, <1>3, <1>4, <1>7, <1>8, <1>9

LEMMA AtType == ASSUME TypeInv PROVE \A x \in Slots, t \in Tasks : At1(x, t) \in Nat
BY Present

LEMMA UntouchedCounts == ASSUME Untouched PROVE \A x \in Slots : \A t : At1(x, t)' = At1(x, t)
<1> TAKE x \in Slots
<1> TAKE t
<1>1. Content(x)' = Content(x)
  BY DEF Untouched
<1> QED BY <1>1 DEF At1

LEMMA PlaceQuiet ==
  ASSUME PlaceInv, Keeps, Untouched, \A t \in Tasks : desc'[t].home = desc[t].home,
         \A c \in Creators : pc[c] \in Carrying => job[c].task \in Tasks
  PROVE  PlaceInv'
<1>1. InHand' = InHand
  BY KeepsInHand
<1>2. \A x \in Slots, t \in Tasks : At1(x, t)' = At1(x, t)
  BY UntouchedCounts
<1> QED BY <1>1, <1>2 DEF PlaceInv, Keeps, Carrying

(* What Create, Put and a server do to the place of the task.              *)
LEMMA PlaceCreate ==
  ASSUME SetupInv, TypeInv, JobInv, PlaceInv, NEW c \in Creators, NEW t \in Tasks,
         NEW l \in 1 .. setup.maxLevel, NEW f \in setup.placedBy, Create(c, t, l, f)
  PROVE  /\ \A x \in Slots, u \in Tasks : At1(x, u)' = At1(x, u)
         /\ \A x \in Slots : At1(x, t) = 0
         /\ \A d \in Creators : pc[d] \in Carrying => job[d].task \in Tasks /\ job[d].task # t
         /\ InHand' = InHand \cup {t}
         /\ PlaceInv'
<1>1. /\ Untouched /\ Creators' = Creators
      /\ desc[t].home = -1 /\ desc'[t].home = c[1] /\ c[1] # -1
      /\ \A u \in Tasks : u # t => desc'[u] = desc[u]
      /\ pc[c] = "app" /\ pc'[c] \in Carrying /\ job'[c].task = t
      /\ \A d \in Creators : d # c => pc'[d] = pc[d] /\ job'[d] = job[d]
  BY CreateEffect
<1>2. \A x \in Slots, u \in Tasks : At1(x, u)' = At1(x, u)
  BY <1>1, UntouchedCounts
<1>3. \A x \in Slots : At1(x, t) = 0
  BY <1>1 DEF PlaceInv
<1>4. \A d \in Creators : pc[d] \in Carrying => job[d].task \in Tasks /\ job[d].task # t
  <2>1. SUFFICES ASSUME NEW d \in Creators, pc[d] \in Carrying
                 PROVE  job[d].task \in Tasks /\ job[d].task # t
    OBVIOUS
  <2>2. job[d].task \in Tasks
    BY <2>1 DEF JobInv, JobOK, Carrying
  <2>3. desc[job[d].task].home = d[1] /\ d[1] # -1
    BY <2>1, CreatorType, PlacementAssumption DEF PlaceInv, Nodes
  <2> QED BY <1>1, <2>2, <2>3
<1>5. "app" \notin Carrying
  BY DEF Carrying
<1>6. InHand' = InHand \cup {t}
  <2>1. ASSUME NEW u PROVE u \in InHand' <=> u \in InHand \cup {t}
    <3>1. u \in InHand' <=> \E d \in Creators : pc'[d] \in Carrying /\ u = job'[d].task
      BY <1>1 DEF InHand, Carrying
    <3>2. u \in InHand <=> \E d \in Creators : pc[d] \in Carrying /\ u = job[d].task
      BY DEF InHand
    <3> QED BY <1>1, <1>5, <3>1, <3>2
  <2> QED BY <2>1
<1>7. PlaceInv'
  <2>1. /\ \A x \in Slots, u \in Tasks : At1(x, u)' <= 1
        /\ \A x, y \in Slots, u \in Tasks : At1(x, u)' = 1 /\ At1(y, u)' = 1 => x = y
    BY <1>2 DEF PlaceInv
  <2>2. \A a, d \in Creators :
          pc'[a] \in Carrying /\ pc'[d] \in Carrying /\ job'[a].task = job'[d].task => a = d
    <3>1. SUFFICES ASSUME NEW a \in Creators, NEW d \in Creators, pc'[a] \in Carrying,
                          pc'[d] \in Carrying, job'[a].task = job'[d].task
                   PROVE  a = d
      OBVIOUS
    <3>2. CASE a # c /\ d # c
      BY <1>1, <3>1, <3>2 DEF PlaceInv
    <3>3. CASE a = c \/ d = c
      BY <1>1, <1>4, <3>1, <3>3
    <3> QED BY <3>2, <3>3
  <2>3. \A d \in Creators : pc'[d] \in Carrying => desc'[job'[d].task].home = d[1]
    <3>1. SUFFICES ASSUME NEW d \in Creators, pc'[d] \in Carrying
                   PROVE  desc'[job'[d].task].home = d[1]
      OBVIOUS
    <3>2. CASE d = c
      BY <1>1, <3>2
    <3>3. CASE d # c
      BY <1>1, <1>4, <3>1, <3>3 DEF PlaceInv
    <3> QED BY <3>2, <3>3
  <2>4. \A u \in Tasks :
          (\A x \in Slots : At1(x, u)' = 0) <=> (desc'[u].home = -1 \/ u \in InHand')
    <3>1. SUFFICES ASSUME NEW u \in Tasks
                   PROVE  (\A x \in Slots : At1(x, u)' = 0)
                            <=> (desc'[u].home = -1 \/ u \in InHand')
      OBVIOUS
    <3>2. CASE u = t
      BY <1>2, <1>3, <1>6, <3>2
    <3>3. CASE u # t
      <4>1. desc'[u] = desc[u] /\ (u \in InHand' <=> u \in InHand)
        BY <1>1, <1>6, <3>3
      <4> QED BY <1>2, <4>1 DEF PlaceInv
    <3> QED BY <3>2, <3>3
  <2> QED BY <1>1, <2>1, <2>2, <2>3, <2>4 DEF PlaceInv, Carrying
<1> QED BY <1>2, <1>3, <1>4, <1>6, <1>7

LEMMA PlacePut ==
  ASSUME SetupInv, TypeInv, JobInv, PlaceInv, NEW c \in Creators, Put(c)
  PROVE  /\ \A x \in Slots : At1(x, job[c].task) = 0
         /\ \A x \in Slots, u \in Tasks :
              At1(x, u)' = At1(x, u) + Hit(x, u, Goal(c), job[c].task)
         /\ \A d \in Creators : pc'[d] \in Carrying =>
              d # c /\ pc[d] \in Carrying /\ job'[d] = job[d] /\ job[d].task # job[c].task
         /\ InHand' = InHand \ {job[c].task}
         /\ PlaceInv'
<1>a. job[c].task \in Tasks /\ Goal(c) \in Slots
  BY PutStep, PutEffect
<1>b. PICK t \in Tasks : t = job[c].task
  BY <1>a
<1>c. PICK y \in Slots : y = Goal(c)
  BY <1>a
<1>1. /\ pc[c] \in Carrying /\ pc'[c] \notin Carrying /\ t \in Tasks /\ Creators' = Creators
      /\ \A d \in Creators : d # c => pc'[d] = pc[d] /\ job'[d] = job[d]
      /\ \A u \in Tasks : desc'[u].home = desc[u].home
  BY <1>b, PutStep
<1>2. y \in Slots /\ InFront(c) \in BOOLEAN /\ Stored(y, t, InFront(c))
  BY <1>b, <1>c, PutEffect
<1>3. \A x \in Slots, u \in Tasks : At1(x, u) \in Nat /\ At1(x, u)' = At1(x, u) + Hit(x, u, y, t)
  BY <1>1, <1>2, StoredCounts
<1>4. t \in InHand
  BY <1>1, <1>b DEF InHand
<1>5. \A x \in Slots : At1(x, t) = 0
  BY <1>1, <1>4 DEF PlaceInv
<1>6. \A d \in Creators : pc'[d] \in Carrying =>
         d # c /\ pc[d] \in Carrying /\ job'[d] = job[d] /\ job[d].task # t
  BY <1>1, <1>b DEF PlaceInv
<1>7. InHand' = InHand \ {t}
  <2>1. ASSUME NEW u PROVE u \in InHand' <=> u \in InHand \ {t}
    <3>1. u \in InHand' <=> \E d \in Creators : pc'[d] \in Carrying /\ u = job'[d].task
      BY <1>1, <1>b DEF InHand, Carrying
    <3>2. u \in InHand <=> \E d \in Creators : pc[d] \in Carrying /\ u = job[d].task
      BY DEF InHand
    <3> QED BY <1>1, <1>b, <1>6, <3>1, <3>2
  <2> QED BY <2>1
<1>8. PlaceInv'
  <2>1. \A x \in Slots, u \in Tasks : u # t => At1(x, u)' = At1(x, u)
    BY <1>3 DEF Hit
  <2>2. \A x \in Slots : At1(x, t)' = IF x = y THEN 1 ELSE 0
    <3>1. SUFFICES ASSUME NEW x \in Slots PROVE At1(x, t)' = IF x = y THEN 1 ELSE 0
      OBVIOUS
    <3>2. At1(x, t)' = At1(x, t) + Hit(x, t, y, t) /\ At1(x, t) = 0
      BY <1>1, <1>3, <1>5
    <3> QED BY <3>2 DEF Hit
  <2>3. /\ \A x \in Slots, u \in Tasks : At1(x, u)' <= 1
        /\ \A x, z \in Slots, u \in Tasks : At1(x, u)' = 1 /\ At1(z, u)' = 1 => x = z
    <3>1. ASSUME NEW x \in Slots, NEW u \in Tasks PROVE At1(x, u)' <= 1
      BY <2>1, <2>2 DEF PlaceInv
    <3>2. ASSUME NEW x \in Slots, NEW z \in Slots, NEW u \in Tasks,
                 At1(x, u)' = 1, At1(z, u)' = 1 PROVE x = z
      BY <2>1, <2>2, <3>2 DEF PlaceInv
    <3> QED BY <3>1, <3>2
  <2>4. \A a, d \in Creators :
          pc'[a] \in Carrying /\ pc'[d] \in Carrying /\ job'[a].task = job'[d].task => a = d
    BY <1>6 DEF PlaceInv
  <2>5. \A d \in Creators : pc'[d] \in Carrying => desc'[job'[d].task].home = d[1]
    <3>1. SUFFICES ASSUME NEW d \in Creators, pc'[d] \in Carrying
                   PROVE  desc'[job'[d].task].home = d[1]
      OBVIOUS
    <3>2. pc[d] \in Carrying /\ job'[d] = job[d] /\ desc[job[d].task].home = d[1]
      BY <1>6, <3>1 DEF PlaceInv
    <3>3. job[d].task \in Tasks
      BY <3>2 DEF JobInv, JobOK, Carrying
    <3> QED BY <1>1, <3>2, <3>3
  <2>6. \A u \in Tasks :
          (\A x \in Slots : At1(x, u)' = 0) <=> (desc'[u].home = -1 \/ u \in InHand')
    <3>1. SUFFICES ASSUME NEW u \in Tasks
                   PROVE  (\A x \in Slots : At1(x, u)' = 0)
                            <=> (desc'[u].home = -1 \/ u \in InHand')
      OBVIOUS
    <3>2. CASE u = t
      <4>1. desc'[t].home # -1
        <5>1. desc[t].home = c[1]
          BY <1>1, <1>b DEF PlaceInv
        <5>2. c[1] # -1
          BY CreatorType, PlacementAssumption DEF Nodes
        <5> QED BY <1>1, <5>1, <5>2
      <4>2. At1(y, t)' = 1 /\ t \notin InHand'
        BY <1>2, <1>7, <2>2
      <4> QED BY <1>2, <3>2, <4>1, <4>2
    <3>3. CASE u # t
      BY <1>1, <1>7, <2>1, <3>3 DEF PlaceInv
    <3> QED BY <3>2, <3>3
  <2> QED BY <1>1, <2>3, <2>4, <2>5, <2>6 DEF PlaceInv, Carrying
<1> QED BY <1>b, <1>c, <1>3, <1>5, <1>6, <1>7, <1>8

LEMMA PlaceMoved ==
  ASSUME TypeInv, PlaceInv, JobInv, Keeps, \A u \in Tasks : desc'[u].home = desc[u].home,
         NEW y \in Slots, NEW z \in Slots, NEW t \in Tasks, NEW b \in BOOLEAN, Moved(y, z, t, b)
  PROVE  /\ \A x \in Slots, u \in Tasks : u # t => At1(x, u)' = At1(x, u)
         /\ At1(y, t) = 1 /\ At1(z, t) = 0
         /\ \A x \in Slots : At1(x, t)' = IF x = z THEN 1 ELSE 0
         /\ PlaceInv'
<1>1. \A x \in Slots, u \in Tasks :
         /\ At1(x, u) \in Nat /\ At1(x, u)' \in Nat
         /\ At1(x, u)' + Hit(x, u, y, t) = At1(x, u) + Hit(x, u, z, t)
  BY MovedCounts
<1>2. y # z
  BY DEF Moved
<1>3. At1(y, t) = 1
  <2>1. Hit(y, t, y, t) = 1 /\ Hit(y, t, z, t) = 0
    BY <1>2 DEF Hit
  <2>2. At1(y, t)' + 1 = At1(y, t) /\ At1(y, t)' \in Nat /\ At1(y, t) \in Nat /\ At1(y, t) <= 1
    <3>1. At1(y, t)' + Hit(y, t, y, t) = At1(y, t) + Hit(y, t, z, t)
      BY <1>1
    <3> QED BY <1>1, <2>1, <3>1 DEF PlaceInv
  <2> QED BY <2>2
<1>4. \A x \in Slots : x # y => At1(x, t) = 0
  BY <1>1, <1>3 DEF PlaceInv
<1>5. \A x \in Slots, u \in Tasks : u # t => At1(x, u)' = At1(x, u)
  BY <1>1 DEF Hit
<1>6. \A x \in Slots : At1(x, t)' = IF x = z THEN 1 ELSE 0
  <2>1. SUFFICES ASSUME NEW x \in Slots PROVE At1(x, t)' = IF x = z THEN 1 ELSE 0
    OBVIOUS
  <2>2. At1(x, t)' \in Nat /\ At1(x, t)' + Hit(x, t, y, t) = At1(x, t) + Hit(x, t, z, t)
    BY <1>1
  <2>3. CASE x = y
    BY <1>2, <1>3, <2>2, <2>3 DEF Hit
  <2>4. CASE x # y
    BY <1>4, <2>2, <2>4 DEF Hit
  <2> QED BY <2>3, <2>4
<1>7. InHand' = InHand
  BY KeepsInHand
<1>8. PlaceInv'
  <2>1. ASSUME NEW x \in Slots, NEW u \in Tasks PROVE At1(x, u)' <= 1
    BY <1>5, <1>6 DEF PlaceInv
  <2>2. ASSUME NEW x \in Slots, NEW w \in Slots, NEW u \in Tasks,
               At1(x, u)' = 1, At1(w, u)' = 1 PROVE x = w
    BY <1>5, <1>6, <2>2 DEF PlaceInv
  <2>3. \A u \in Tasks :
          (\A x \in Slots : At1(x, u)' = 0) <=> (desc'[u].home = -1 \/ u \in InHand')
    <3>1. SUFFICES ASSUME NEW u \in Tasks
                   PROVE  (\A x \in Slots : At1(x, u)' = 0)
                            <=> (desc'[u].home = -1 \/ u \in InHand')
      OBVIOUS
    <3>2. CASE u = t
      <4>1. At1(z, t)' = 1
        BY <1>6
      <4>2. ~(desc[t].home = -1 \/ t \in InHand)
        <5>1. (\A x \in Slots : At1(x, t) = 0) <=> (desc[t].home = -1 \/ t \in InHand)
          BY DEF PlaceInv
        <5> QED BY <1>3, <5>1
      <4> QED BY <1>7, <3>2, <4>1, <4>2
    <3>3. CASE u # t
      <4>1. (\A x \in Slots : At1(x, u) = 0) <=> (desc[u].home = -1 \/ u \in InHand)
        BY DEF PlaceInv
      <4> QED BY <1>5, <1>7, <3>3, <4>1
    <3> QED BY <3>2, <3>3
  <2>4. \A a, d \in Creators :
          pc'[a] \in Carrying /\ pc'[d] \in Carrying /\ job'[a].task = job'[d].task => a = d
    BY DEF PlaceInv, Keeps
  <2>5. \A d \in Creators : pc'[d] \in Carrying => desc'[job'[d].task].home = d[1]
    <3>1. SUFFICES ASSUME NEW d \in Creators, pc'[d] \in Carrying
                   PROVE  desc'[job'[d].task].home = d[1]
      OBVIOUS
    <3>2. pc[d] \in Carrying /\ job'[d].task = job[d].task /\ desc[job[d].task].home = d[1]
      BY <3>1 DEF PlaceInv, Keeps
    <3>3. job[d].task \in Tasks
      BY <3>2 DEF JobInv, JobOK, Carrying
    <3> QED BY <3>2, <3>3
  <2> QED BY <2>1, <2>2, <2>3, <2>4, <2>5 DEF PlaceInv, Carrying, Keeps
<1> QED BY <1>3, <1>2, <1>4, <1>5, <1>6, <1>8

(***************************************************************************)
(* FlagInv.                                                                *)
(***************************************************************************)
LEMMA CarriedTask ==
  ASSUME JobInv, NEW c \in Creators, pc[c] \in Carrying
  PROVE  job[c].task \in Tasks /\ job[c].task \in InHand
<1>1. job[c].task \in Tasks
  BY DEF JobInv, JobOK, Carrying
<1> QED BY <1>1 DEF InHand

LEMMA FlagSame ==
  ASSUME JobInv, FlagInv, Keeps, desc' = desc, asked' = asked,
         \A x \in Slots, t \in Tasks : At1(x, t)' = 1 => \E y \in Slots : At1(y, t) = 1
  PROVE  FlagInv'
<1>1. \A t \in Tasks : desc'[t].home = -1 => ~desc'[t].front /\ ~desc'[t].private
  BY DEF FlagInv
<1>2. ASSUME NEW c \in Creators, pc'[c] \in Carrying
      PROVE  LET d == desc'[job'[c].task] IN
             ~d.front /\ ~d.private /\ asked'[job'[c].task] = {job'[c].by}
  <2>1. pc[c] \in Carrying /\ job'[c].task = job[c].task /\ job'[c].by = job[c].by
    BY <1>2 DEF Keeps
  <2> QED BY <2>1 DEF FlagInv
<1>3. ASSUME NEW x \in Slots, NEW t \in Tasks, At1(x, t)' = 1
      PROVE  /\ desc'[t].front <=> asked'[t] \cap AtFront # {}
             /\ desc'[t].private <=> asked'[t] \cap ToPrivate # {}
  <2>1. PICK y \in Slots : At1(y, t) = 1
    BY <1>3
  <2> QED BY <2>1 DEF FlagInv
<1> QED BY <1>1, <1>2, <1>3 DEF FlagInv, Keeps, Carrying

LEMMA FlagCreate ==
  ASSUME SetupInv, TypeInv, JobInv, PlaceInv, FlagInv, NEW c \in Creators, NEW t \in Tasks,
         NEW l \in 1 .. setup.maxLevel, NEW f \in setup.placedBy, Create(c, t, l, f)
  PROVE  FlagInv'
<1>1. /\ Creators' = Creators /\ desc[t].home = -1 /\ desc'[t].home = c[1] /\ c[1] # -1
      /\ desc'[t].front = desc[t].front /\ desc'[t].private = desc[t].private
      /\ \A u \in Tasks : u # t => desc'[u] = desc[u] /\ asked'[u] = asked[u]
      /\ asked'[t] = {f} /\ pc'[c] \in Carrying /\ job'[c].task = t /\ job'[c].by = f
      /\ \A d \in Creators : d # c => pc'[d] = pc[d] /\ job'[d] = job[d]
  BY CreateEffect
<1>2. /\ \A x \in Slots, u \in Tasks : At1(x, u)' = At1(x, u)
      /\ \A x \in Slots : At1(x, t) = 0
      /\ \A d \in Creators : pc[d] \in Carrying => job[d].task \in Tasks /\ job[d].task # t
  BY PlaceCreate
<1>3. ASSUME NEW u \in Tasks, desc'[u].home = -1
      PROVE  ~desc'[u].front /\ ~desc'[u].private
  <2>1. u # t
    BY <1>1, <1>3
  <2> QED BY <1>1, <1>3, <2>1 DEF FlagInv
<1>4. ASSUME NEW d \in Creators, pc'[d] \in Carrying
      PROVE  /\ ~desc'[job'[d].task].front /\ ~desc'[job'[d].task].private
             /\ asked'[job'[d].task] = {job'[d].by}
  <2>1. CASE d = c
    <3>1. ~desc[t].front /\ ~desc[t].private
      BY <1>1 DEF FlagInv
    <3> QED BY <1>1, <2>1, <3>1
  <2>2. CASE d # c
    <3>1. pc[d] \in Carrying /\ job'[d] = job[d] /\ job[d].task \in Tasks /\ job[d].task # t
      BY <1>1, <1>2, <1>4, <2>2
    <3>2. desc'[job[d].task] = desc[job[d].task] /\ asked'[job[d].task] = asked[job[d].task]
      BY <1>1, <3>1
    <3> QED BY <3>1, <3>2 DEF FlagInv
  <2> QED BY <2>1, <2>2
<1>5. ASSUME NEW x \in Slots, NEW u \in Tasks, At1(x, u)' = 1
      PROVE  /\ desc'[u].front <=> asked'[u] \cap AtFront # {}
             /\ desc'[u].private <=> asked'[u] \cap ToPrivate # {}
  <2>1. At1(x, u) = 1 /\ u # t
    BY <1>2, <1>5
  <2>2. desc'[u] = desc[u] /\ asked'[u] = asked[u]
    BY <1>1, <2>1
  <2> QED BY <2>1, <2>2 DEF FlagInv
<1> QED BY <1>1, <1>3, <1>4, <1>5 DEF FlagInv, Carrying

LEMMA FlagPut ==
  ASSUME SetupInv, TypeInv, JobInv, PlaceInv, FlagInv, NEW c \in Creators, Put(c)
  PROVE  FlagInv'
<1>1. PICK t \in Tasks, f \in Functions9 : t = job[c].task /\ f = job[c].by
  BY PutStep
<1>2. /\ pc[c] \in Carrying /\ Creators' = Creators
      /\ \A u \in Tasks : desc'[u].home = desc[u].home
      /\ \A u \in Tasks : u # t => desc'[u] = desc[u]
      /\ desc'[t].front <=> (desc[t].front \/ f \in AtFront)
      /\ desc'[t].private <=> ((desc[t].private \/ f \in ToPrivate) /\ f \notin Rotating)
      /\ asked' = asked
  BY <1>1, PutStep
<1>3. /\ \A x \in Slots : At1(x, t) = 0
      /\ \A x \in Slots, u \in Tasks : At1(x, u)' = At1(x, u) + Hit(x, u, Goal(c), t)
      /\ \A d \in Creators : pc'[d] \in Carrying =>
           d # c /\ pc[d] \in Carrying /\ job'[d] = job[d] /\ job[d].task # t
  BY <1>1, PlacePut
<1>4. ~desc[t].front /\ ~desc[t].private /\ asked[t] = {f}
  BY <1>1, <1>2 DEF FlagInv
<1>5. ASSUME NEW u \in Tasks, desc'[u].home = -1
      PROVE  ~desc'[u].front /\ ~desc'[u].private
  <2>1. u # t
    <3>1. desc[t].home = c[1] /\ c[1] # -1
      BY <1>1, <1>2, CreatorType, PlacementAssumption DEF PlaceInv, Nodes
    <3> QED BY <1>2, <1>5, <3>1
  <2> QED BY <1>2, <1>5, <2>1 DEF FlagInv
<1>6. ASSUME NEW d \in Creators, pc'[d] \in Carrying
      PROVE  /\ ~desc'[job'[d].task].front /\ ~desc'[job'[d].task].private
             /\ asked'[job'[d].task] = {job'[d].by}
  <2>1. pc[d] \in Carrying /\ job'[d] = job[d] /\ job[d].task # t
    BY <1>3, <1>6
  <2>2. job[d].task \in Tasks
    BY <2>1, CarriedTask
  <2>3. desc'[job[d].task] = desc[job[d].task]
    BY <1>2, <2>1, <2>2
  <2> QED BY <1>2, <2>1, <2>3 DEF FlagInv
<1>7. ASSUME NEW x \in Slots, NEW u \in Tasks, At1(x, u)' = 1
      PROVE  /\ desc'[u].front <=> asked'[u] \cap AtFront # {}
             /\ desc'[u].private <=> asked'[u] \cap ToPrivate # {}
  <2>1. CASE u = t
    <3>1. desc'[t].front <=> f \in AtFront
      BY <1>2, <1>4
    <3>2. desc'[t].private <=> f \in ToPrivate
      BY <1>2, <1>4, FunctionNames
    <3> QED BY <1>2, <1>4, <2>1, <3>1, <3>2
  <2>2. CASE u # t
    <3>1. Hit(x, u, Goal(c), t) = 0 /\ At1(x, u) \in Nat
      BY <2>2, AtType DEF Hit
    <3>2. At1(x, u) = 1
      BY <1>3, <1>7, <3>1
    <3>3. desc'[u] = desc[u]
      BY <1>2, <2>2
    <3> QED BY <1>2, <3>2, <3>3 DEF FlagInv
  <2> QED BY <2>1, <2>2
<1> QED BY <1>2, <1>5, <1>6, <1>7 DEF FlagInv, Carrying

(* A prefetched task keeps its home and its place at the front.            *)
LEMMA PrefetchFields ==
  ASSUME TypeInv, NEW t \in Tasks,
         desc' = [desc EXCEPT ![t] = Flagged(@, "to_npq_end", -1)],
         asked' = [asked EXCEPT ![t] = @ \cup {"to_npq_end"}]
  PROVE  /\ \A u \in Tasks : desc'[u].home = desc[u].home
         /\ \A u \in Tasks : u # t => desc'[u] = desc[u] /\ asked'[u] = asked[u]
         /\ desc'[t].front = desc[t].front /\ desc'[t].private
         /\ asked'[t] = asked[t] \cup {"to_npq_end"}
<1>1. desc \in [Tasks -> Descs] /\ desc[t] \in Descs /\ asked \in [Tasks -> SUBSET Functions9]
  BY DEF TypeInv
<1> DEFINE e == Flagged(desc[t], "to_npq_end", -1)
<1>2. /\ e \in Descs /\ e.home = desc[t].home
      /\ e.front <=> (desc[t].front \/ "to_npq_end" \in AtFront)
      /\ e.private <=> ((desc[t].private \/ "to_npq_end" \in ToPrivate)
                         /\ "to_npq_end" \notin Rotating)
  BY <1>1, FlaggedFields
<1>3. "to_npq_end" \notin AtFront /\ "to_npq_end" \in ToPrivate /\ "to_npq_end" \notin Rotating
  BY DEF AtFront, ToPrivate, Rotating
<1>4. desc'[t] = e /\ \A u \in Tasks : u # t => desc'[u] = desc[u] /\ asked'[u] = asked[u]
  BY <1>1
<1>5. asked'[t] = asked[t] \cup {"to_npq_end"}
  BY <1>1
<1> HIDE DEF e
<1>6. e.front = desc[t].front /\ e.private
  BY <1>1, <1>2, <1>3 DEF Descs
<1> QED BY <1>2, <1>4, <1>5, <1>6

LEMMA FlagPrefetch ==
  ASSUME SetupInv, TypeInv, JobInv, PlaceInv, FlagInv, Keeps, NEW t \in Tasks,
         NEW y \in Slots, NEW z \in Slots, Moved(y, z, t, FALSE),
         desc' = [desc EXCEPT ![t] = Flagged(@, "to_npq_end", -1)],
         asked' = [asked EXCEPT ![t] = @ \cup {"to_npq_end"}]
  PROVE  FlagInv'
<1>1. /\ \A u \in Tasks : desc'[u].home = desc[u].home
      /\ \A u \in Tasks : u # t => desc'[u] = desc[u] /\ asked'[u] = asked[u]
      /\ desc'[t].front = desc[t].front /\ desc'[t].private
      /\ asked'[t] = asked[t] \cup {"to_npq_end"}
  BY PrefetchFields
<1>2. /\ \A x \in Slots, u \in Tasks : u # t => At1(x, u)' = At1(x, u)
      /\ At1(y, t) = 1
  <2>1. PICK b \in BOOLEAN : b = FALSE
    OBVIOUS
  <2>2. Moved(y, z, t, b) /\ \A u \in Tasks : desc'[u].home = desc[u].home
    BY <1>1, <2>1
  <2> QED BY <2>2, PlaceMoved
<1>3. desc[t].home # -1 /\ t \notin InHand
  BY <1>2 DEF PlaceInv
<1>4. ASSUME NEW u \in Tasks, desc'[u].home = -1
      PROVE  ~desc'[u].front /\ ~desc'[u].private
  <2>1. u # t
    BY <1>1, <1>3, <1>4
  <2> QED BY <1>1, <1>4, <2>1 DEF FlagInv
<1>5. ASSUME NEW d \in Creators, pc'[d] \in Carrying
      PROVE  /\ ~desc'[job'[d].task].front /\ ~desc'[job'[d].task].private
             /\ asked'[job'[d].task] = {job'[d].by}
  <2>1. pc[d] \in Carrying /\ job'[d].task = job[d].task /\ job'[d].by = job[d].by
    BY <1>5 DEF Keeps
  <2>2. job[d].task \in Tasks /\ job[d].task # t
    BY <1>3, <2>1, CarriedTask
  <2>3. desc'[job[d].task] = desc[job[d].task] /\ asked'[job[d].task] = asked[job[d].task]
    BY <1>1, <2>2
  <2> QED BY <2>1, <2>3 DEF FlagInv
<1>6. ASSUME NEW x \in Slots, NEW u \in Tasks, At1(x, u)' = 1
      PROVE  /\ desc'[u].front <=> asked'[u] \cap AtFront # {}
             /\ desc'[u].private <=> asked'[u] \cap ToPrivate # {}
  <2>1. CASE u = t
    <3>1. desc[t].front <=> asked[t] \cap AtFront # {}
      BY <1>2 DEF FlagInv
    <3>2. asked'[t] \cap AtFront = asked[t] \cap AtFront /\ asked'[t] \cap ToPrivate # {}
      BY <1>1 DEF AtFront, ToPrivate
    <3> QED BY <1>1, <2>1, <3>1, <3>2
  <2>2. CASE u # t
    <3>1. At1(x, u) = 1 /\ desc'[u] = desc[u] /\ asked'[u] = asked[u]
      BY <1>1, <1>2, <1>6, <2>2
    <3> QED BY <3>1 DEF FlagInv
  <2> QED BY <2>1, <2>2
<1> QED BY <1>4, <1>5, <1>6 DEF FlagInv, Keeps, Carrying

LEMMA ServerKeeps ==
  ASSUME NEW n \in Nodes, NEW m \in Nodes, ServerEnqueue(n, m) \/ ServerPrefetch(n, m)
  PROVE  Keeps /\ created' = created
<1>1. pc' = pc /\ job' = job /\ setup' = setup /\ created' = created
  BY DEF ServerEnqueue, ServerPrefetch
<1> QED BY <1>1 DEF Keeps, Creators

LEMMA PlaceFlagStep ==
  ASSUME SetupInv, TypeInv, JobInv, PlaceInv, FlagInv, [Next]_vars
  PROVE  PlaceInv' /\ FlagInv'
<1>1. ASSUME Keeps, desc' = desc, asked' = asked, wire' = wire, public' = public,
             private' = private
      PROVE  PlaceInv' /\ FlagInv'
  <2>1. Untouched
    BY <1>1, UntouchedSlots
  <2>2. \A x \in Slots, t \in Tasks : At1(x, t)' = At1(x, t)
    BY <2>1, UntouchedCounts
  <2>3. PlaceInv'
    BY <1>1, <2>1, PlaceQuiet, CarriedTask
  <2>4. FlagInv'
    BY <1>1, <2>2, FlagSame
  <2> QED BY <2>3, <2>4
<1>2. CASE UNCHANGED vars
  <2>1. Keeps
    BY <1>2 DEF vars, Keeps, Creators
  <2> QED BY <1>1, <1>2, <2>1 DEF vars
<1>3. CASE \E c \in Creators : CreatorStep(c)
  <2>1. PICK c \in Creators : CreatorStep(c)
    BY <1>3
  <2>2. CASE \E t \in Tasks, l \in 1 .. setup.maxLevel, f \in setup.placedBy : Create(c, t, l, f)
    BY <2>2, PlaceCreate, FlagCreate
  <2>3. CASE Quiet(c)
    BY <1>1, <2>3, QuietEffect
  <2>4. CASE Put(c)
    BY <2>4, PlacePut, FlagPut
  <2> QED BY <2>1, <2>2, <2>3, <2>4 DEF CreatorStep, Quiet
<1>4. CASE \E n, m \in Nodes : ServerEnqueue(n, m) \/ ServerPrefetch(n, m)
  <2>1. PICK n \in Nodes, m \in Nodes : ServerEnqueue(n, m) \/ ServerPrefetch(n, m)
    BY <1>4
  <2>2. Keeps
    BY <2>1, ServerKeeps
  <2>3. CASE ServerEnqueue(n, m)
    <3>1. desc' = desc /\ asked' = asked
      BY <2>3 DEF ServerEnqueue
    <3> DEFINE h == Head(wire[n][m])
    <3>a. /\ h \in Tasks /\ ArrivesInFront(m, h) \in BOOLEAN /\ <<n, m, "wire">> \in Slots
          /\ Arrives(m, h) \in Slots
          /\ Moved(<<n, m, "wire">>, Arrives(m, h), h, ArrivesInFront(m, h))
      BY <2>3, ServerEnqueueEffect
    <3> HIDE DEF h
    <3>2. PICK y \in Slots, z \in Slots, t \in Tasks, b \in BOOLEAN : Moved(y, z, t, b)
      BY <3>a
    <3>3. /\ \A x \in Slots, u \in Tasks : u # t => At1(x, u)' = At1(x, u)
          /\ At1(y, t) = 1 /\ PlaceInv'
      BY <2>2, <3>1, <3>2, PlaceMoved
    <3>4. FlagInv'
      BY <2>2, <3>1, <3>3, FlagSame
    <3> QED BY <3>3, <3>4
  <2>4. CASE ServerPrefetch(n, m)
    <3>1. PICK q \in Queues, t \in Tasks :
            /\ desc' = [desc EXCEPT ![t] = Flagged(@, "to_npq_end", -1)]
            /\ asked' = [asked EXCEPT ![t] = @ \cup {"to_npq_end"}]
            /\ <<n, q, "public">> \in Slots
            /\ Moved(<<n, q, "public">>, <<n, m, "wire">>, t, FALSE)
      BY <2>4, ServerPrefetchEffect
    <3>2. <<n, m, "wire">> \in Slots
      BY SlotNames
    <3>3. \A u \in Tasks : desc'[u].home = desc[u].home
      BY <3>1, PrefetchFields
    <3>4. PlaceInv'
      BY <2>2, <3>1, <3>2, <3>3, PlaceMoved
    <3>5. FlagInv'
      BY <2>2, <3>1, <3>2, FlagPrefetch
    <3> QED BY <3>4, <3>5
  <2> QED BY <2>1, <2>3, <2>4
<1> QED BY <1>2, <1>3, <1>4, StepKinds

(***************************************************************************)
(* CreatedInv and OrderInv.                                                *)
(***************************************************************************)
LEMMA CreatedTask ==
  ASSUME TypeInv, NEW c \in Creators, NEW i \in 1 .. Len(created[c])
  PROVE  created[c][i] \in Tasks
<1>1. created[c] \in Seq(Tasks)
  BY DEF TypeInv
<1> QED BY <1>1

LEMMA CreatedKept ==
  ASSUME TypeInv, JobInv, CreatedInv, Creators' = Creators, created' = created,
         \A t \in Tasks : desc'[t].home = desc[t].home,
         \A c \in Creators : pc'[c] \in Carrying =>
           pc[c] \in Carrying /\ job'[c].task = job[c].task
  PROVE  CreatedInv'
<1>1. \A c \in Creators : \A i \in 1 .. Len(created[c]) : desc'[created[c][i]].home = c[1]
  BY CreatedTask DEF CreatedInv
<1> QED BY <1>1 DEF CreatedInv, Carrying

LEMMA CreatedCreate ==
  ASSUME SetupInv, TypeInv, JobInv, PlaceInv, CreatedInv, NEW c \in Creators, NEW t \in Tasks,
         NEW l \in 1 .. setup.maxLevel, NEW f \in setup.placedBy, Create(c, t, l, f)
  PROVE  /\ CreatedInv'
         /\ \A u, w : Before(u, w)' => u # t
         /\ \A u, w : Before(u, w)' /\ w # t => Before(u, w)
<1>1. /\ Creators' = Creators /\ desc[t].home = -1 /\ desc'[t].home = c[1] /\ c[1] # -1
      /\ \A u \in Tasks : u # t => desc'[u] = desc[u] /\ asked'[u] = asked[u]
      /\ created' = [created EXCEPT ![c] = Append(@, t)]
      /\ pc'[c] \in Carrying /\ job'[c].task = t
      /\ \A d \in Creators : d # c => pc'[d] = pc[d] /\ job'[d] = job[d]
  BY CreateEffect
<1>2. \A d \in Creators : \A i \in 1 .. Len(created[d]) : created[d][i] \in Tasks /\ created[d][i] # t
  <2>1. SUFFICES ASSUME NEW d \in Creators, NEW i \in 1 .. Len(created[d])
                 PROVE  created[d][i] \in Tasks /\ created[d][i] # t
    OBVIOUS
  <2>2. desc[created[d][i]].home = d[1] /\ d[1] # -1
    BY CreatorType, PlacementAssumption DEF CreatedInv, Nodes
  <2> QED BY <1>1, <2>2, CreatedTask
<1>3. created[c] \in Seq(Tasks) /\ created \in [Creators -> Seq(Tasks)]
  BY DEF TypeInv
<1>4. PICK k \in Nat : k = Len(created[c]) + 1
  BY <1>3
<1>5. /\ \A d \in Creators : d # c => created'[d] = created[d]
      /\ created'[c] = Append(created[c], t)
  BY <1>1, <1>3
<1>6. /\ Len(created'[c]) = k /\ created'[c][k] = t
      /\ \A i \in 1 .. Len(created[c]) : created'[c][i] = created[c][i]
  BY <1>3, <1>4, <1>5, AppendProperties
<1>7. ASSUME NEW d \in Creators, NEW i \in 1 .. Len(created'[d])
      PROVE  \/ created'[d][i] = t /\ d = c /\ i = k
             \/ /\ i \in 1 .. Len(created[d]) /\ created'[d][i] = created[d][i]
                /\ created[d][i] # t /\ created[d][i] \in Tasks
  <2>1. CASE d # c
    BY <1>2, <1>5, <2>1
  <2>2. CASE d = c /\ i = k
    BY <1>6, <2>2
  <2>3. CASE d = c /\ i # k
    <3>1. i \in 1 .. Len(created[c])
      BY <1>3, <1>4, <1>6, <2>3
    <3> QED BY <1>2, <1>6, <2>3, <3>1
  <2> QED BY <2>1, <2>2, <2>3
<1>8. CreatedInv'
  <2>1. ASSUME NEW a \in Creators, NEW d \in Creators, NEW i \in 1 .. Len(created'[a]),
               NEW j \in 1 .. Len(created'[d]), created'[a][i] = created'[d][j]
        PROVE  a = d /\ i = j
    <3>1. CASE created'[a][i] = t
      <4>1. a = c /\ i = k
        BY <1>7, <3>1
      <4>2. d = c /\ j = k
        BY <1>7, <2>1, <3>1
      <4> QED BY <4>1, <4>2
    <3>2. CASE created'[a][i] # t
      <4>1. i \in 1 .. Len(created[a]) /\ created'[a][i] = created[a][i]
        BY <1>7, <3>2
      <4>2. j \in 1 .. Len(created[d]) /\ created'[d][j] = created[d][j]
        BY <1>7, <2>1, <3>2
      <4>3. \A x, y \in Creators : \A v \in 1 .. Len(created[x]), w \in 1 .. Len(created[y]) :
              created[x][v] = created[y][w] => x = y /\ v = w
        BY DEF CreatedInv
      <4>4. created[a][i] = created[d][j]
        BY <2>1, <4>1, <4>2
      <4> QED BY <4>1, <4>2, <4>3, <4>4
    <3> QED BY <3>1, <3>2
  <2>2. ASSUME NEW d \in Creators, NEW i \in 1 .. Len(created'[d])
        PROVE  desc'[created'[d][i]].home = d[1]
    BY <1>1, <1>7 DEF CreatedInv
  <2>3. ASSUME NEW d \in Creators, pc'[d] \in Carrying
        PROVE  created'[d] # <<>> /\ created'[d][Len(created'[d])] = job'[d].task
    <3>1. CASE d = c
      BY <1>1, <1>3, <1>4, <1>5, <1>6, <3>1
    <3>2. CASE d # c
      BY <1>1, <1>5, <2>3, <3>2 DEF CreatedInv
    <3> QED BY <3>1, <3>2
  <2> QED BY <1>1, <2>1, <2>2, <2>3 DEF CreatedInv, Carrying
<1>9. ASSUME NEW u, NEW w, Before(u, w)' PROVE u # t
  <2>1. PICK d \in Creators : \E i, j \in 1 .. Len(created'[d]) :
          i < j /\ created'[d][i] = u /\ created'[d][j] = w
    BY <1>1, <1>9 DEF Before
  <2>2. PICK i \in 1 .. Len(created'[d]), j \in 1 .. Len(created'[d]) :
          i < j /\ created'[d][i] = u /\ created'[d][j] = w
    BY <2>1
  <2>3. CASE u = t
    <3>1. d = c /\ i = k
      BY <1>7, <2>2, <2>3
    <3> QED BY <1>6, <2>2, <3>1
  <2> QED BY <2>3
<1>10. ASSUME NEW u, NEW w, Before(u, w)', w # t PROVE Before(u, w)
  <2>1. PICK d \in Creators : \E i, j \in 1 .. Len(created'[d]) :
          i < j /\ created'[d][i] = u /\ created'[d][j] = w
    BY <1>1, <1>10 DEF Before
  <2>2. PICK i \in 1 .. Len(created'[d]), j \in 1 .. Len(created'[d]) :
          i < j /\ created'[d][i] = u /\ created'[d][j] = w
    BY <2>1
  <2>3. u # t
    BY <1>9, <1>10
  <2>4. /\ i \in 1 .. Len(created[d]) /\ created[d][i] = u
        /\ j \in 1 .. Len(created[d]) /\ created[d][j] = w
    BY <1>7, <1>10, <2>2, <2>3
  <2> QED BY <2>2, <2>4 DEF Before
<1> QED BY <1>8, <1>9, <1>10

(* Pairs in Older.                                                         *)
LEMMA OlderFacts ==
  ASSUME TypeInv, CreatedInv, NEW t, NEW u, <<t, u>> \in Older
  PROVE  /\ t \in Tasks /\ u \in Tasks /\ Direct(t) /\ Direct(u) /\ Before(t, u)
         /\ desc[t].home = desc[u].home
<1>1. t \in Tasks /\ u \in Tasks /\ Direct(t) /\ Direct(u) /\ Before(t, u)
  BY DEF Older
<1>2. desc[t].home = desc[u].home
  BY <1>1 DEF Before, CreatedInv
<1> QED BY <1>1, <1>2

(* What a creator has in its hands is its latest task.                     *)
LEMMA LatestNotOlder ==
  ASSUME SetupInv, TypeInv, CreatedInv, NEW c \in Creators, pc[c] \in Carrying, NEW u
  PROVE  <<job[c].task, u>> \notin Older
<1>1. SUFFICES ASSUME Before(job[c].task, u) PROVE FALSE
  BY DEF Older
<1>2. PICK d \in Creators : \E i, j \in 1 .. Len(created[d]) :
        i < j /\ created[d][i] = job[c].task /\ created[d][j] = u
  BY <1>1 DEF Before
<1>3. PICK i \in 1 .. Len(created[d]), j \in 1 .. Len(created[d]) :
        i < j /\ created[d][i] = job[c].task
  BY <1>2
<1>4. created[c] # <<>> /\ created[c][Len(created[c])] = job[c].task
  BY DEF CreatedInv
<1>5. created[c] \in Seq(Tasks)
  BY DEF TypeInv
<1>6. Len(created[c]) \in 1 .. Len(created[c])
  BY <1>4, <1>5
<1>7. d = c /\ i = Len(created[c])
  BY <1>3, <1>4, <1>6 DEF CreatedInv
<1> QED BY <1>3, <1>5, <1>7

LEMMA SortedNext ==
  ASSUME NEW x, Sorted(Content(x)', Older') PROVE Sorted(Content(x), Older)'
BY DEF Sorted

(* A task that is in a slot behind its head is not older than the head.    *)
LEMMA HeadFirst ==
  ASSUME TypeInv, OrderInv, NEW x \in Slots, Content(x) # <<>>, NEW u \in Tasks,
         At1(x, u) = 1, u # Head(Content(x))
  PROVE  <<u, Head(Content(x))>> \notin Older
<1>1. Content(x) \in Seq(Tasks)
  BY ContentType
<1>2. PICK i \in 1 .. Len(Content(x)) : Content(x)[i] = u
  <2>1. At1(x, u) # 0
    OBVIOUS
  <2> QED BY <2>1, Present
<1>3. Head(Content(x)) = Content(x)[1] /\ 1 \in 1 .. Len(Content(x))
  BY <1>1
<1>4. i # 1
  BY <1>2, <1>3
<1>5. Sorted(Content(x), Older)
  BY DEF OrderInv
<1>6. 1 < i
  BY <1>1, <1>4
<1> QED BY <1>2, <1>3, <1>5, <1>6 DEF Sorted

(* An older task stays older only.                                         *)
LEMMA InsertSorted ==
  ASSUME TypeInv, NEW x \in Slots, NEW t \in Tasks, NEW b \in BOOLEAN,
         Sorted(Content(x), Older),
         b => \A u \in Tasks : <<u, t>> \notin Older,
         ~b => \A u \in Tasks : At1(x, u) = 1 => <<t, u>> \notin Older,
         \A u \in Tasks : At1(x, u) <= 1
  PROVE  Sorted(Insert(Content(x), t, b), Older)
<1>1. Content(x) \in Seq(Tasks)
  BY ContentType
<1>2. \A k \in 1 .. Len(Content(x)) : Content(x)[k] \in Tasks /\ At1(x, Content(x)[k]) = 1
  <2>1. SUFFICES ASSUME NEW k \in 1 .. Len(Content(x))
                 PROVE  Content(x)[k] \in Tasks /\ At1(x, Content(x)[k]) = 1
    OBVIOUS
  <2>2. PICK u \in Tasks : u = Content(x)[k]
    BY <1>1
  <2>3. At1(x, u) \in Nat /\ At1(x, u) # 0
    BY <2>2, Present
  <2> QED BY <2>2, <2>3
<1>3. CASE b
  <2>1. \A k \in 1 .. Len(Content(x)) : <<Content(x)[k], t>> \notin Older
    BY <1>2, <1>3
  <2> QED BY <1>1, <1>3, <2>1, SortedPush DEF Insert
<1>4. CASE ~b
  <2>1. \A k \in 1 .. Len(Content(x)) : <<t, Content(x)[k]>> \notin Older
    BY <1>2, <1>4
  <2> QED BY <1>1, <1>4, <2>1, SortedAppend DEF Insert
<1> QED BY <1>3, <1>4

LEMMA OlderSame ==
  ASSUME Creators' = Creators, created' = created, asked' = asked
  PROVE  Older' = Older /\ \A t \in Tasks : Direct(t)' <=> Direct(t)
<1>1. \A t : Direct(t)' <=> Direct(t)
  BY DEF Direct, EndFunctions
<1>2. \A t, u : Before(t, u)' <=> Before(t, u)
  BY DEF Before
<1>3. \A p : p \in Older' <=> p \in Older
  BY <1>1, <1>2 DEF Older
<1> QED BY <1>1, <1>3

(* Slots that do not change stay in order when no new pair concerns them.  *)
LEMMA SortedSame ==
  ASSUME TypeInv, PlaceInv, OrderInv, NEW x \in Slots, Content(x)' = Content(x),
         \A t, u \in Tasks : At1(x, t) = 1 /\ At1(x, u) = 1 /\ <<t, u>> \in Older'
                               => <<t, u>> \in Older
  PROVE  Sorted(Content(x), Older)'
<1>1. Content(x) \in Seq(Tasks)
  BY ContentType
<1>2. \A k \in 1 .. Len(Content(x)) : Content(x)[k] \in Tasks /\ At1(x, Content(x)[k]) = 1
  <2>1. SUFFICES ASSUME NEW k \in 1 .. Len(Content(x))
                 PROVE  Content(x)[k] \in Tasks /\ At1(x, Content(x)[k]) = 1
    OBVIOUS
  <2>2. PICK u \in Tasks : u = Content(x)[k]
    BY <1>1
  <2>3. At1(x, u) \in Nat /\ At1(x, u) # 0 /\ At1(x, u) <= 1
    BY <2>2, Present DEF PlaceInv
  <2> QED BY <2>2, <2>3
<1>3. Sorted(Content(x), Older)
  BY DEF OrderInv
<1>4. \A k, l \in 1 .. Len(Content(x)) : <<Content(x)[l], Content(x)[k]>> \in Older'
        => <<Content(x)[l], Content(x)[k]>> \in Older
  BY <1>2
<1>5. Sorted(Content(x), Older')
  BY <1>3, <1>4, SortedLess
<1>6. Sorted(Content(x)', Older')
  BY <1>5
<1> QED BY <1>6, SortedNext

LEMMA OrderQuiet ==
  ASSUME TypeInv, PlaceInv, OrderInv, Creators' = Creators, created' = created, asked' = asked,
         desc' = desc, Untouched
  PROVE  OrderInv'
<1>1. Older' = Older /\ \A t \in Tasks : Direct(t)' <=> Direct(t)
  BY OlderSame
<1>2. \A x \in Slots : \A t : At1(x, t)' = At1(x, t)
  BY UntouchedCounts
<1>3. \A x \in Slots : Sorted(Content(x), Older)'
  BY <1>1, SortedSame DEF Untouched
<1>4. \A n \in Nodes, t \in Tasks : At1(<<n, n, "wire">>, t)' = 0
  BY <1>2, SlotNames DEF OrderInv
<1>5. \A n, m \in Nodes, t \in Tasks :
        At1(<<n, m, "wire">>, t)' = 1 /\ Direct(t)' => desc'[t].home = n
  BY <1>1, <1>2, SlotNames DEF OrderInv
<1>6. \A n, m \in Nodes, q \in Queues, t, u \in Tasks :
        At1(<<n, m, "wire">>, t)' = 1 /\ At1(<<m, q, "public">>, u)' = 1 => <<t, u>> \notin Older'
  BY <1>1, <1>2, SlotNames DEF OrderInv
<1> QED BY <1>3, <1>4, <1>5, <1>6 DEF OrderInv

LEMMA OrderCreate ==
  ASSUME SetupInv, TypeInv, JobInv, PlaceInv, CreatedInv, OrderInv, NEW c \in Creators,
         NEW t \in Tasks, NEW l \in 1 .. setup.maxLevel, NEW f \in setup.placedBy,
         Create(c, t, l, f)
  PROVE  OrderInv'
<1>1. /\ Untouched
      /\ \A u \in Tasks : u # t => desc'[u] = desc[u] /\ asked'[u] = asked[u]
  BY CreateEffect
<1>2. /\ \A u, w : Before(u, w)' => u # t
      /\ \A u, w : Before(u, w)' /\ w # t => Before(u, w)
  BY CreatedCreate
<1>3. \A x \in Slots, u \in Tasks : At1(x, u)' = At1(x, u)
  BY PlaceCreate
<1>4. \A x \in Slots : At1(x, t) = 0
  BY PlaceCreate
<1>5. \A u \in Tasks : u # t => (Direct(u)' <=> Direct(u))
  BY <1>1 DEF Direct, EndFunctions
<1>6. \A u, w \in Tasks : u # t /\ w # t /\ <<u, w>> \in Older' => <<u, w>> \in Older
  BY <1>2, <1>5 DEF Older
<1>7. \A x \in Slots : Sorted(Content(x), Older)'
  <2>1. SUFFICES ASSUME NEW x \in Slots PROVE Sorted(Content(x), Older)'
    OBVIOUS
  <2>2. \A u, w \in Tasks : At1(x, u) = 1 /\ At1(x, w) = 1 /\ <<u, w>> \in Older'
                              => <<u, w>> \in Older
    BY <1>4, <1>6
  <2>3. Content(x)' = Content(x)
    BY <1>1 DEF Untouched
  <2> QED BY <2>2, <2>3, SortedSame
<1>8. \A n \in Nodes, u \in Tasks : At1(<<n, n, "wire">>, u)' = 0
  BY <1>3, SlotNames DEF OrderInv
<1>9. ASSUME NEW n \in Nodes, NEW m \in Nodes, NEW u \in Tasks,
             At1(<<n, m, "wire">>, u)' = 1, Direct(u)'
      PROVE  desc'[u].home = n
  <2>1. At1(<<n, m, "wire">>, u) = 1 /\ u # t
    BY <1>3, <1>4, <1>9, SlotNames
  <2> QED BY <1>1, <1>5, <1>9, <2>1 DEF OrderInv
<1>10. ASSUME NEW n \in Nodes, NEW m \in Nodes, NEW q \in Queues, NEW u \in Tasks, NEW w \in Tasks,
              At1(<<n, m, "wire">>, u)' = 1, At1(<<m, q, "public">>, w)' = 1
       PROVE  <<u, w>> \notin Older'
  <2>1. At1(<<n, m, "wire">>, u) = 1 /\ At1(<<m, q, "public">>, w) = 1 /\ u # t /\ w # t
    BY <1>3, <1>4, <1>10, SlotNames
  <2> QED BY <1>6, <2>1 DEF OrderInv
<1> QED BY <1>7, <1>8, <1>9, <1>10 DEF OrderInv

LEMMA OrderPut ==
  ASSUME SetupInv, TypeInv, JobInv, PlaceInv, FlagInv, CreatedInv, OrderInv, NEW c \in Creators,
         Put(c)
  PROVE  OrderInv'
<1>1. PICK t \in Tasks : t = job[c].task
  BY PutStep
<1>2. /\ pc[c] \in Carrying /\ Creators' = Creators
      /\ \A u \in Tasks : desc'[u].home = desc[u].home
      /\ asked' = asked /\ created' = created
  BY PutStep
<1>3. PICK y \in Slots, b \in BOOLEAN : y = Goal(c) /\ b = InFront(c)
  BY PutEffect
<1>4. Stored(y, t, b)
  BY <1>1, <1>3, PutEffect
<1>5. /\ \A x \in Slots : At1(x, t) = 0
      /\ \A x \in Slots, u \in Tasks : At1(x, u)' = At1(x, u) + Hit(x, u, y, t)
  BY <1>1, <1>3, PlacePut
<1>6. \A x \in Slots, u \in Tasks :
        At1(x, u)' = 1 => (At1(x, u) = 1 /\ u # t) \/ (x = y /\ u = t)
  <2>1. SUFFICES ASSUME NEW x \in Slots, NEW u \in Tasks, At1(x, u)' = 1
                 PROVE  (At1(x, u) = 1 /\ u # t) \/ (x = y /\ u = t)
    OBVIOUS
  <2>2. At1(x, u)' = At1(x, u) + Hit(x, u, y, t) /\ At1(x, u) \in Nat
    BY <1>5, AtType
  <2> QED BY <1>5, <2>1, <2>2 DEF Hit
<1>7. Older' = Older /\ \A u \in Tasks : Direct(u)' <=> Direct(u)
  BY <1>2, OlderSame
<1>8. \A u \in Tasks : <<t, u>> \notin Older
  BY <1>1, <1>2, LatestNotOlder
<1>9. desc[t].home = c[1] /\ c[1] \in Nodes
  BY <1>1, <1>2, CreatorType DEF PlaceInv
<1>10. /\ y[3] = "wire" => y[1] = c[1] /\ y[2] # c[1]
       /\ y[3] = "public" => y[1] = c[1]
       /\ b => ~Direct(t)
  <2>1. asked[t] = {job[c].by}
    BY <1>1, <1>2 DEF FlagInv
  <2>2. b => ~Direct(t)
    BY <1>3, <2>1, FunctionNames DEF InFront, Direct
  <2> QED BY <1>3, <2>2 DEF Goal, LocalSlot
<1>11. \A x \in Slots : Sorted(Content(x), Older)'
  <2>1. SUFFICES ASSUME NEW x \in Slots PROVE Sorted(Content(x), Older)'
    OBVIOUS
  <2>2. CASE x = y
    <3>1. Content(x)' = Insert(Content(x), t, b)
      BY <1>4, <2>2 DEF Stored
    <3>2. b => \A u \in Tasks : <<u, t>> \notin Older
      BY <1>10 DEF Older
    <3>3. Sorted(Insert(Content(x), t, b), Older)
      <4>1. Sorted(Content(x), Older) /\ \A u \in Tasks : At1(x, u) <= 1
        BY DEF OrderInv, PlaceInv
      <4> QED BY <1>8, <3>2, <4>1, InsertSorted
    <3>4. Sorted(Content(x)', Older')
      BY <1>7, <3>1, <3>3
    <3> QED BY <3>4, SortedNext
  <2>3. CASE x # y
    <3>1. Content(x)' = Content(x)
      BY <1>4, <2>3 DEF Stored
    <3> QED BY <1>7, <3>1, SortedSame
  <2> QED BY <2>2, <2>3
<1>12. \A n \in Nodes, u \in Tasks : At1(<<n, n, "wire">>, u)' = 0
  <2>1. SUFFICES ASSUME NEW n \in Nodes, NEW u \in Tasks PROVE At1(<<n, n, "wire">>, u)' = 0
    OBVIOUS
  <2> DEFINE x == <<n, n, "wire">>
  <2>2. x \in Slots /\ x # y
    BY <1>10, SlotNames
  <2>3. At1(x, u) = 0
    BY DEF OrderInv
  <2> HIDE DEF x
  <2>4. At1(x, u)' = At1(x, u) + Hit(x, u, y, t)
    BY <1>5, <2>2
  <2>5. Hit(x, u, y, t) = 0
    BY <2>2 DEF Hit
  <2>6. At1(x, u)' = 0
    BY <2>3, <2>4, <2>5
  <2> QED BY <2>6 DEF x
<1>13. ASSUME NEW n \in Nodes, NEW m \in Nodes, NEW u \in Tasks,
              At1(<<n, m, "wire">>, u)' = 1, Direct(u)'
       PROVE  desc'[u].home = n
  <2>1. CASE At1(<<n, m, "wire">>, u) = 1
    BY <1>2, <1>7, <1>13, <2>1 DEF OrderInv
  <2>2. CASE At1(<<n, m, "wire">>, u) # 1
    <3>1. <<n, m, "wire">> = y /\ u = t
      BY <1>6, <1>13, <2>2, SlotNames
    <3>2. n = c[1]
      BY <1>10, <3>1
    <3> QED BY <1>2, <1>9, <3>1, <3>2
  <2> QED BY <2>1, <2>2
<1>14. ASSUME NEW n \in Nodes, NEW m \in Nodes, NEW q \in Queues, NEW u \in Tasks, NEW w \in Tasks,
              At1(<<n, m, "wire">>, u)' = 1, At1(<<m, q, "public">>, w)' = 1,
              <<u, w>> \in Older
       PROVE  FALSE
  <2>1. u # t
    BY <1>8, <1>14
  <2>2. At1(<<n, m, "wire">>, u) = 1
    BY <1>6, <1>14, <2>1, SlotNames
  <2>3. CASE w # t
    <3>1. At1(<<m, q, "public">>, w) = 1
      BY <1>6, <1>14, <2>3, SlotNames
    <3> QED BY <1>14, <2>2, <3>1 DEF OrderInv
  <2>4. CASE w = t
    <3>1. <<m, q, "public">> = y
      BY <1>5, <1>6, <1>14, <2>4, SlotNames
    <3>2. m = c[1]
      BY <1>10, <3>1
    <3>3. Direct(u) /\ desc[u].home = desc[t].home
      BY <1>14, <2>4, OlderFacts
    <3>4. desc[u].home = n
      BY <2>2, <3>3 DEF OrderInv
    <3>5. n = m
      BY <1>9, <3>2, <3>3, <3>4
    <3>6. At1(<<n, n, "wire">>, u) = 0
      BY DEF OrderInv
    <3> QED BY <2>2, <3>5, <3>6
  <2> QED BY <2>3, <2>4
<1>15. \A n, m \in Nodes, q \in Queues, u, w \in Tasks :
         At1(<<n, m, "wire">>, u)' = 1 /\ At1(<<m, q, "public">>, w)' = 1 => <<u, w>> \notin Older'
  BY <1>7, <1>14
<1> QED BY <1>11, <1>12, <1>13, <1>15 DEF OrderInv

LEMMA OrderEnqueue ==
  ASSUME SetupInv, TypeInv, JobInv, PlaceInv, FlagInv, CreatedInv, OrderInv,
         NEW n \in Nodes, NEW m \in Nodes, ServerEnqueue(n, m)
  PROVE  OrderInv'
<1>1. Keeps /\ created' = created /\ desc' = desc /\ asked' = asked
  BY ServerKeeps DEF ServerEnqueue
<1>2. Older' = Older /\ \A u \in Tasks : Direct(u)' <=> Direct(u)
  BY <1>1, OlderSame DEF Keeps
<1> DEFINE h == Head(wire[n][m])
<1>3. /\ h \in Tasks /\ wire[n][m] # <<>> /\ ArrivesInFront(m, h) \in BOOLEAN
      /\ <<n, m, "wire">> \in Slots /\ Arrives(m, h) \in Slots /\ Arrives(m, h)[3] # "wire"
      /\ Moved(<<n, m, "wire">>, Arrives(m, h), h, ArrivesInFront(m, h))
  BY ServerEnqueueEffect
<1>4. PICK t \in Tasks : t = h
  BY <1>3
<1>5. PICK y \in Slots : y = <<n, m, "wire">>
  BY <1>3
<1>6. PICK z \in Slots, b \in BOOLEAN : z = Arrives(m, t) /\ b = ArrivesInFront(m, t)
  BY <1>3, <1>4
<1>7. Moved(y, z, t, b) /\ z[3] # "wire" /\ y # z
  BY <1>3, <1>4, <1>5, <1>6 DEF Moved
<1>8. /\ \A x \in Slots, u \in Tasks : u # t => At1(x, u)' = At1(x, u)
      /\ At1(y, t) = 1 /\ At1(z, t) = 0
      /\ \A x \in Slots : At1(x, t)' = IF x = z THEN 1 ELSE 0
  BY <1>1, <1>7, PlaceMoved
<1>9. Content(y) # <<>> /\ t = Head(Content(y))
  BY <1>7 DEF Moved
<1>10. n # m
  BY <1>5, <1>8 DEF OrderInv
<1>11. Direct(t) => desc[t].home = n /\ ~b /\ z = <<m, QueueIndex(desc[t].level), "public">>
  <2>1. SUFFICES ASSUME Direct(t)
                 PROVE  desc[t].home = n /\ ~b /\ z = <<m, QueueIndex(desc[t].level), "public">>
    OBVIOUS
  <2>2. desc[t].home = n
    BY <1>5, <1>8, <2>1 DEF OrderInv
  <2>3. ~desc[t].front /\ ~desc[t].private
    <3>1. /\ desc[t].front <=> asked[t] \cap AtFront # {}
          /\ desc[t].private <=> asked[t] \cap ToPrivate # {}
      BY <1>8 DEF FlagInv
    <3> QED BY <2>1, <3>1, FunctionNames DEF Direct
  <2> QED BY <1>6, <1>10, <2>2, <2>3 DEF Arrives, ArrivesInFront, ToHome, LocalSlot
<1>12. z[3] = "public" => z[1] = m
  BY <1>6 DEF Arrives, LocalSlot
(* What is in front of t's new place is not younger than t, and what is on  *)
(* the wire behind it is not older.                                         *)
<1>13. \A u \in Tasks : At1(z, u) = 1 => <<t, u>> \notin Older
  <2>1. SUFFICES ASSUME NEW u \in Tasks, At1(z, u) = 1, <<t, u>> \in Older PROVE FALSE
    OBVIOUS
  <2>2. Direct(t)
    BY <2>1, OlderFacts
  <2>3. z = <<m, QueueIndex(desc[t].level), "public">> /\ QueueIndex(desc[t].level) \in Queues
    <3>1. desc[t].level \in Nat
      BY DEF TypeInv, Descs
    <3> QED BY <1>11, <2>2, <3>1, QueueIndexType
  <2> QED BY <1>5, <1>8, <2>1, <2>3 DEF OrderInv
<1>14. \A x \in Slots : Sorted(Content(x), Older)'
  <2>1. SUFFICES ASSUME NEW x \in Slots PROVE Sorted(Content(x), Older)'
    OBVIOUS
  <2>2. Sorted(Content(x), Older) /\ Content(x) \in Seq(Tasks)
    BY ContentType DEF OrderInv
  <2>3. CASE x = y
    <3>1. Content(x)' = Tail(Content(x))
      BY <1>7, <2>3 DEF Moved
    <3>2. Sorted(Tail(Content(x)), Older)
      BY <1>9, <2>2, <2>3, SortedTail
    <3>3. Sorted(Content(x)', Older')
      BY <1>2, <3>1, <3>2
    <3> QED BY <3>3, SortedNext
  <2>4. CASE x = z
    <3>1. Content(x)' = Insert(Content(x), t, b)
      BY <1>7, <2>4 DEF Moved
    <3>2. b => \A u \in Tasks : <<u, t>> \notin Older
      BY <1>11 DEF Older
    <3>3. \A u \in Tasks : At1(x, u) <= 1
      BY DEF PlaceInv
    <3>4. Sorted(Insert(Content(x), t, b), Older)
      BY <1>13, <2>2, <2>4, <3>2, <3>3, InsertSorted
    <3>5. Sorted(Content(x)', Older')
      BY <1>2, <3>1, <3>4
    <3> QED BY <3>5, SortedNext
  <2>5. CASE x # y /\ x # z
    <3>1. Content(x)' = Content(x)
      BY <1>7, <2>5 DEF Moved
    <3> QED BY <1>2, <3>1, SortedSame
  <2> QED BY <2>3, <2>4, <2>5
<1>15. \A k, l \in Nodes, u \in Tasks :
         At1(<<k, l, "wire">>, u)' = 1 => u # t /\ At1(<<k, l, "wire">>, u) = 1
  <2>1. SUFFICES ASSUME NEW k \in Nodes, NEW l \in Nodes, NEW u \in Tasks,
                        At1(<<k, l, "wire">>, u)' = 1
                 PROVE  u # t /\ At1(<<k, l, "wire">>, u) = 1
    OBVIOUS
  <2>2. <<k, l, "wire">> \in Slots /\ <<k, l, "wire">> # z
    BY <1>7, SlotNames
  <2>3. u # t
    <3>1. At1(<<k, l, "wire">>, t)' = 0
      BY <1>8, <2>2
    <3> QED BY <2>1, <3>1
  <2> QED BY <1>8, <2>1, <2>2, <2>3
<1>16. \A k \in Nodes, u \in Tasks : At1(<<k, k, "wire">>, u)' = 0
  <2>1. SUFFICES ASSUME NEW k \in Nodes, NEW u \in Tasks PROVE At1(<<k, k, "wire">>, u)' = 0
    OBVIOUS
  <2>2. <<k, k, "wire">> \in Slots /\ <<k, k, "wire">> # z
    BY <1>7, SlotNames
  <2>3. At1(<<k, k, "wire">>, u) = 0
    BY DEF OrderInv
  <2>4. CASE u = t
    BY <1>8, <2>2, <2>4
  <2>5. CASE u # t
    BY <1>8, <2>2, <2>3, <2>5
  <2> QED BY <2>4, <2>5
<1>17. \A k, l \in Nodes, u \in Tasks :
         At1(<<k, l, "wire">>, u)' = 1 /\ Direct(u)' => desc'[u].home = k
  BY <1>1, <1>2, <1>15 DEF OrderInv
<1>18. ASSUME NEW k \in Nodes, NEW l \in Nodes, NEW q \in Queues, NEW u \in Tasks, NEW w \in Tasks,
              At1(<<k, l, "wire">>, u)' = 1, At1(<<l, q, "public">>, w)' = 1, <<u, w>> \in Older
       PROVE  FALSE
  <2>1. u # t /\ At1(<<k, l, "wire">>, u) = 1
    BY <1>15, <1>18
  <2>2. CASE w # t
    <3>1. At1(<<l, q, "public">>, w) = 1
      BY <1>8, <1>18, <2>2, SlotNames
    <3> QED BY <1>18, <2>1, <3>1 DEF OrderInv
  <2>3. CASE w = t
    <3>1. <<l, q, "public">> = z
      <4>1. <<l, q, "public">> \in Slots /\ At1(<<l, q, "public">>, t)' = 1
        BY <1>18, <2>3, SlotNames
      <4>2. At1(<<l, q, "public">>, t)' = IF <<l, q, "public">> = z THEN 1 ELSE 0
        BY <1>8, <4>1
      <4> QED BY <4>1, <4>2
    <3>2. l = m
      BY <1>12, <3>1
    <3>3. Direct(u) /\ Direct(t) /\ desc[u].home = desc[t].home
      BY <1>18, <2>3, OlderFacts
    <3>4. desc[u].home = k /\ desc[t].home = n
      BY <1>11, <2>1, <3>3 DEF OrderInv
    <3>5. At1(y, u) = 1
      BY <1>5, <2>1, <3>2, <3>3, <3>4
    <3>6. <<u, t>> \notin Older
      BY <1>9, <2>1, <3>5, HeadFirst
    <3> QED BY <1>18, <2>3, <3>6
  <2> QED BY <2>2, <2>3
<1>19. \A k, l \in Nodes, q \in Queues, u, w \in Tasks :
         At1(<<k, l, "wire">>, u)' = 1 /\ At1(<<l, q, "public">>, w)' = 1 => <<u, w>> \notin Older'
  BY <1>2, <1>18
<1> QED BY <1>14, <1>16, <1>17, <1>19 DEF OrderInv

LEMMA OrderPrefetch ==
  ASSUME SetupInv, TypeInv, JobInv, PlaceInv, FlagInv, CreatedInv, OrderInv,
         NEW n \in Nodes, NEW m \in Nodes, ServerPrefetch(n, m)
  PROVE  OrderInv'
<1>1. Keeps /\ created' = created
  BY ServerKeeps
<1>2. PICK q \in Queues, t \in Tasks :
        /\ desc' = [desc EXCEPT ![t] = Flagged(@, "to_npq_end", -1)]
        /\ asked' = [asked EXCEPT ![t] = @ \cup {"to_npq_end"}]
        /\ <<n, q, "public">> \in Slots
        /\ Moved(<<n, q, "public">>, <<n, m, "wire">>, t, FALSE)
  BY ServerPrefetchEffect
<1>3. m # n /\ <<n, m, "wire">> \in Slots
  BY ServerPrefetchEffect
<1>4. PICK y \in Slots, z \in Slots, b \in BOOLEAN :
        y = <<n, q, "public">> /\ z = <<n, m, "wire">> /\ b = FALSE
  BY <1>2, <1>3
<1>5. Moved(y, z, t, b)
  BY <1>2, <1>4
<1>6. /\ \A u \in Tasks : desc'[u].home = desc[u].home
      /\ \A u \in Tasks : u # t => desc'[u] = desc[u] /\ asked'[u] = asked[u]
      /\ asked'[t] = asked[t] \cup {"to_npq_end"}
  BY <1>2, PrefetchFields
<1>7. /\ \A x \in Slots, u \in Tasks : u # t => At1(x, u)' = At1(x, u)
      /\ At1(y, t) = 1 /\ At1(z, t) = 0
      /\ \A x \in Slots : At1(x, t)' = IF x = z THEN 1 ELSE 0
  BY <1>1, <1>5, <1>6, PlaceMoved
<1>8. ~Direct(t)' /\ \A u \in Tasks : u # t => (Direct(u)' <=> Direct(u))
  BY <1>6 DEF Direct, EndFunctions
<1>9. \A u, w \in Tasks : <<u, w>> \in Older' => <<u, w>> \in Older /\ u # t /\ w # t
  <2>1. \A u, w : Before(u, w)' <=> Before(u, w)
    BY <1>1 DEF Before, Keeps
  <2> QED BY <1>8, <2>1 DEF Older
<1>10. \A x \in Slots : Sorted(Content(x), Older)'
  <2>1. SUFFICES ASSUME NEW x \in Slots PROVE Sorted(Content(x), Older)'
    OBVIOUS
  <2>2. Sorted(Content(x), Older) /\ Content(x) \in Seq(Tasks)
    BY ContentType DEF OrderInv
  <2>3. \A k \in 1 .. Len(Content(x)) : Content(x)[k] \in Tasks
    BY <2>2
  <2>4. Sorted(Content(x), Older')
    <3>1. \A k, l \in 1 .. Len(Content(x)) : <<Content(x)[l], Content(x)[k]>> \in Older'
            => <<Content(x)[l], Content(x)[k]>> \in Older
      BY <1>9, <2>3
    <3> QED BY <2>2, <3>1, SortedLess
  <2>5. CASE x = y
    <3>1. Content(x)' = Tail(Content(x)) /\ Content(x) # <<>>
      BY <1>5, <2>5 DEF Moved
    <3>2. Sorted(Tail(Content(x)), Older')
      BY <2>2, <2>4, <3>1, SortedTail
    <3>3. Sorted(Content(x)', Older')
      BY <3>1, <3>2
    <3> QED BY <3>3, SortedNext
  <2>6. CASE x = z
    <3>1. Content(x)' = Append(Content(x), t)
      BY <1>4, <1>5, <2>6 DEF Moved, Insert
    <3>2. \A k \in 1 .. Len(Content(x)) : <<t, Content(x)[k]>> \notin Older'
      BY <1>9, <2>3
    <3>3. Sorted(Append(Content(x), t), Older')
      BY <2>2, <2>4, <3>2, SortedAppend
    <3>4. Sorted(Content(x)', Older')
      BY <3>1, <3>3
    <3> QED BY <3>4, SortedNext
  <2>7. CASE x # y /\ x # z
    <3>1. Content(x)' = Content(x)
      BY <1>5, <2>7 DEF Moved
    <3> QED BY <1>9, <3>1, SortedSame
  <2> QED BY <2>5, <2>6, <2>7
<1>11. \A k \in Nodes, u \in Tasks : At1(<<k, k, "wire">>, u)' = 0
  <2>1. SUFFICES ASSUME NEW k \in Nodes, NEW u \in Tasks PROVE At1(<<k, k, "wire">>, u)' = 0
    OBVIOUS
  <2>2. <<k, k, "wire">> \in Slots /\ <<k, k, "wire">> # z
    BY <1>3, <1>4, SlotNames
  <2>3. At1(<<k, k, "wire">>, u) = 0
    BY DEF OrderInv
  <2>4. CASE u = t
    BY <1>7, <2>2, <2>4
  <2>5. CASE u # t
    BY <1>7, <2>2, <2>3, <2>5
  <2> QED BY <2>4, <2>5
<1>12. ASSUME NEW k \in Nodes, NEW l \in Nodes, NEW u \in Tasks,
              At1(<<k, l, "wire">>, u)' = 1, Direct(u)'
       PROVE  desc'[u].home = k
  <2>1. u # t
    BY <1>8, <1>12
  <2>2. At1(<<k, l, "wire">>, u) = 1 /\ Direct(u)
    BY <1>7, <1>8, <1>12, <2>1, SlotNames
  <2> QED BY <1>6, <2>2 DEF OrderInv
<1>13. ASSUME NEW k \in Nodes, NEW l \in Nodes, NEW p \in Queues, NEW u \in Tasks, NEW w \in Tasks,
              At1(<<k, l, "wire">>, u)' = 1, At1(<<l, p, "public">>, w)' = 1, <<u, w>> \in Older'
       PROVE  FALSE
  <2>1. <<u, w>> \in Older /\ u # t /\ w # t
    BY <1>9, <1>13
  <2>2. At1(<<k, l, "wire">>, u) = 1 /\ At1(<<l, p, "public">>, w) = 1
    BY <1>7, <1>13, <2>1, SlotNames
  <2> QED BY <2>1, <2>2 DEF OrderInv
<1> QED BY <1>10, <1>11, <1>12, <1>13 DEF OrderInv

LEMMA OrderStep ==
  ASSUME SetupInv, TypeInv, JobInv, PlaceInv, FlagInv, CreatedInv, OrderInv, [Next]_vars
  PROVE  CreatedInv' /\ OrderInv'
<1>1. ASSUME Keeps, created' = created, \A u \in Tasks : desc'[u].home = desc[u].home
      PROVE  CreatedInv'
  BY <1>1, CreatedKept DEF Keeps
<1>2. ASSUME Keeps, created' = created, desc' = desc, asked' = asked, wire' = wire,
             public' = public, private' = private
      PROVE  CreatedInv' /\ OrderInv'
  <2>1. Untouched
    BY <1>2, UntouchedSlots
  <2> QED BY <1>1, <1>2, <2>1, OrderQuiet DEF Keeps
<1>3. CASE UNCHANGED vars
  <2>1. Keeps
    BY <1>3 DEF vars, Keeps, Creators
  <2> QED BY <1>2, <1>3, <2>1 DEF vars
<1>4. CASE \E c \in Creators : CreatorStep(c)
  <2>1. PICK c \in Creators : CreatorStep(c)
    BY <1>4
  <2>2. CASE \E t \in Tasks, l \in 1 .. setup.maxLevel, f \in setup.placedBy : Create(c, t, l, f)
    BY <2>2, CreatedCreate, OrderCreate
  <2>3. CASE Quiet(c)
    BY <1>2, <2>3, QuietEffect
  <2>4. CASE Put(c)
    <3>1. /\ Creators' = Creators /\ created' = created
          /\ \A u \in Tasks : desc'[u].home = desc[u].home
      BY <2>4, PutStep
    <3>2. \A d \in Creators : pc'[d] \in Carrying =>
            pc[d] \in Carrying /\ job'[d].task = job[d].task
      BY <2>4, PlacePut
    <3> QED BY <2>4, <3>1, <3>2, CreatedKept, OrderPut
  <2> QED BY <2>1, <2>2, <2>3, <2>4 DEF CreatorStep, Quiet
<1>5. CASE \E n, m \in Nodes : ServerEnqueue(n, m) \/ ServerPrefetch(n, m)
  <2>1. PICK n \in Nodes, m \in Nodes : ServerEnqueue(n, m) \/ ServerPrefetch(n, m)
    BY <1>5
  <2>2. Keeps /\ created' = created
    BY <2>1, ServerKeeps
  <2>3. CASE ServerEnqueue(n, m)
    <3>1. desc' = desc
      BY <2>3 DEF ServerEnqueue
    <3> QED BY <1>1, <2>2, <2>3, <3>1, OrderEnqueue
  <2>4. CASE ServerPrefetch(n, m)
    <3>1. PICK t \in Tasks :
            /\ desc' = [desc EXCEPT ![t] = Flagged(@, "to_npq_end", -1)]
            /\ asked' = [asked EXCEPT ![t] = @ \cup {"to_npq_end"}]
      BY <2>4, ServerPrefetchEffect
    <3>2. \A u \in Tasks : desc'[u].home = desc[u].home
      BY <3>1, PrefetchFields
    <3> QED BY <1>1, <2>2, <2>4, <3>2, OrderPrefetch
  <2> QED BY <2>1, <2>3, <2>4
<1> QED BY <1>3, <1>4, <1>5, StepKinds

(***************************************************************************)
(* RoundInv.                                                               *)
(***************************************************************************)
LEMMA DealtNone ==
  ASSUME NEW from \in Nat, NEW g \in Nat PROVE ~DealtTo(from, from, FALSE, g)
BY DEF DealtTo

LEMMA DealtMore ==
  ASSUME NEW from \in Nat, NEW to \in Nat, NEW g \in Nat
  PROVE  /\ ~DealtTo(from, to, FALSE, to)
         /\ DealtTo(from, to, TRUE, g) <=> DealtTo(from, to, FALSE, g) \/ g = to
BY DEF DealtTo

LEMMA DealtNext ==
  ASSUME NEW T \in Nat, NEW from \in Nat, NEW to \in Nat, NEW next \in Nat, NEW g \in Nat,
         from < T, to < T, g < T, next = (to + 1) % T
  PROVE  /\ next # from => (DealtTo(from, next, FALSE, g) <=> DealtTo(from, to, TRUE, g))
         /\ next = from => DealtTo(from, to, TRUE, g) /\ ~DealtTo(from, next, FALSE, g)
<1>1. CASE to + 1 < T
  <2>1. next = to + 1
    BY <1>1
  <2> QED BY <2>1 DEF DealtTo
<1>2. CASE to + 1 = T
  <2>1. next = 0
    BY <1>2
  <2> QED BY <1>2, <2>1 DEF DealtTo
<1>3. to + 1 < T \/ to + 1 = T
  OBVIOUS
<1> HIDE DEF DealtTo
<1> QED BY <1>1, <1>2, <1>3

LEMMA CountsKept ==
  ASSUME setup' = setup, nworkers' = nworkers, NEW n \in Nodes, NEW c \in Creators, c[1] = n,
         Counts(n, c), hits'[n] = hits[n], Turn(n)' = Turn(n), Counted(c)' <=> Counted(c),
         Fresh(c)' <=> Fresh(c)
  PROVE  Counts(n, c)'
<1>1. Workers' = Workers /\ \A w : Gid(w)' = Gid(w)
  BY Numbering
<1>2. \A g : Dealt(c, g)' <=> Dealt(c, g)
  BY <1>1 DEF Dealt, DealtTo
<1>3. \A w : Dealt(c, Gid(w))' <=> Dealt(c, Gid(w))
  BY <1>1, <1>2 DEF Dealt, DealtTo
<1> QED BY <1>1, <1>3 DEF Counts, AllWorkers

LEMMA RoundFrame ==
  ASSUME setup' = setup, nworkers' = nworkers, NEW n \in Nodes, NEW c \in Creators, c[1] = n,
         Counts(n, c), InTurn(n, c), hits'[n] = hits[n], Turn(n)' = Turn(n),
         initialized'["to_rq_end"][n] = initialized["to_rq_end"][n],
         pc'[c] = pc[c], job'[c] = job[c]
  PROVE  Counts(n, c)' /\ InTurn(n, c)'
<1>1. (Counted(c)' <=> Counted(c)) /\ (Fresh(c)' <=> Fresh(c))
  BY DEF Counted, Fresh
<1>2. Counts(n, c)'
  BY <1>1, CountsKept
<1>3. /\ Gid(c)' = Gid(c)
      /\ global_thread_id_to_node_id(Turn(n))' = global_thread_id_to_node_id(Turn(n))
      /\ total_num_threads' = total_num_threads
  BY Numbering
<1> QED BY <1>2, <1>3 DEF InTurn

LEMMA TurnType ==
  ASSUME SetupInv, TypeInv, JobInv, NEW n \in Nodes
  PROVE  Turn(n) \in Nat /\ Turn(n) < total_num_threads /\ total_num_threads \in Nat
<1>1. "to_rq_end" \in Rotating
  BY DEF Rotating
<1>2. Turn(n) \in Nat /\ Turn(n) < Total("to_rq_end")
  BY <1>1 DEF TypeInv, JobInv, Turn
<1>3. total_num_threads \in Nat
  BY <1>1, TotalType
<1> QED BY <1>2, <1>3 DEF Total

LEMMA RoundCreate ==
  ASSUME SetupInv, TypeInv, JobInv, NEW c \in Creators, NEW t \in Tasks,
         NEW l \in 1 .. setup.maxLevel, NEW f \in setup.placedBy, Create(c, t, l, f),
         Counts(c[1], c)
  PROVE  Counts(c[1], c)' /\ InTurn(c[1], c)'
<1>1. PICK n \in Nodes : n = c[1]
  BY CreatorType
<1>2. /\ setup' = setup /\ nworkers' = nworkers /\ initialized' = initialized /\ target' = target
      /\ hits' = hits /\ pc[c] = "app"
  BY DEF Create, At
<1>3. PICK p \in {"init", "node", "put"}, j \in Jobs :
        /\ Goes(c, p, j) /\ j.by = f
        /\ p = "init" => ~initialized[f][c[1]] /\ j.stores = {"initialized", "target"}
        /\ p = "node" => initialized[f][c[1]]
        /\ p = "put" => f \notin Rotating
  BY CreateGoes
<1>4. pc'[c] = p /\ job'[c] = j
  BY <1>3, CreatorGoes
<1>5. "to_rq_end" \in Rotating
  BY DEF Rotating
<1>6. Counted(c)' <=> Counted(c)
  BY <1>2, <1>3, <1>4, <1>5 DEF Counted
<1>7. Fresh(c)' <=> Fresh(c)
  BY <1>2, <1>3, <1>4 DEF Fresh
<1>8. Counts(n, c)'
  BY <1>1, <1>2, <1>6, <1>7, CountsKept DEF Turn
<1>9. InTurn(n, c)'
  BY <1>1, <1>2, <1>3, <1>4, <1>5 DEF InTurn
<1> QED BY <1>1, <1>8, <1>9 DEF Counts, InTurn

LEMMA RoundInit ==
  ASSUME SetupInv, TypeInv, JobInv, NEW c \in Creators, InitStatic(c), NEW n \in Nodes, n = c[1],
         Counts(n, c), InTurn(n, c)
  PROVE  Counts(n, c)' /\ InTurn(n, c)'
<1>1. /\ pc[c] = "init" /\ setup' = setup /\ nworkers' = nworkers /\ hits' = hits
      /\ initialized \in [Rotating -> [Nodes -> BOOLEAN]]
      /\ target \in [Rotating -> [Nodes -> Nat]]
      /\ job[c].by \in Rotating /\ "to_rq_end" \in Rotating
  BY InitStaticGoes DEF InitStatic, TypeInv, Rotating
<1>2. PICK s \in job[c].stores, j \in Jobs, p \in {"init", "node"} :
        /\ j = [job[c] EXCEPT !.stores = @ \ {s}]
        /\ p = IF j.stores = {} THEN "node" ELSE "init"
        /\ Goes(c, p, j)
        /\ s = "target" => target' = [target EXCEPT ![job[c].by][c[1]] = OwnTarget(c)]
                           /\ initialized' = initialized
        /\ s # "target" => initialized' = [initialized EXCEPT ![job[c].by][c[1]] = TRUE]
                           /\ target' = target
  <2>1. PICK s \in job[c].stores :
              LET j == [job[c] EXCEPT !.stores = @ \ {s}] IN
              /\ j \in Jobs
              /\ Goes(c, IF j.stores = {} THEN "node" ELSE "init", j)
              /\ s = "target" => target' = [target EXCEPT ![job[c].by][c[1]] = OwnTarget(c)]
                                 /\ initialized' = initialized
              /\ s # "target" => initialized' = [initialized EXCEPT ![job[c].by][c[1]] = TRUE]
                                 /\ target' = target
    BY InitStaticGoes
  <2> DEFINE j == [job[c] EXCEPT !.stores = @ \ {s}]
             p == IF j.stores = {} THEN "node" ELSE "init"
  <2>2. j \in Jobs /\ Goes(c, p, j)
    BY <2>1
  <2>3. p \in {"init", "node"}
    OBVIOUS
  <2> HIDE DEF OwnTarget
  <2> QED BY <2>1, <2>2, <2>3
<1>3. pc'[c] = p /\ job'[c] = j
  BY <1>2, CreatorGoes
<1>4. job[c] \in Jobs /\ job[c].stores \subseteq Statics
  BY DEF TypeInv, Jobs
<1>5. j.by = job[c].by /\ j.stores = job[c].stores \ {s}
  BY <1>2, <1>4 DEF Jobs
<1>6. ~Counted(c)' /\ ~Counted(c)
  BY <1>1, <1>3 DEF Counted
<1>7. CASE job[c].by # "to_rq_end"
  <2>1. /\ target'["to_rq_end"] = target["to_rq_end"]
        /\ initialized'["to_rq_end"] = initialized["to_rq_end"]
    <3>1. CASE s = "target"
      <4>1. target' = [target EXCEPT ![job[c].by][c[1]] = OwnTarget(c)] /\ initialized' = initialized
        BY <1>2, <3>1
      <4> QED BY <1>1, <1>7, <4>1
    <3>2. CASE s # "target"
      <4>1. initialized' = [initialized EXCEPT ![job[c].by][c[1]] = TRUE] /\ target' = target
        BY <1>2, <3>2
      <4> QED BY <1>1, <1>7, <4>1
    <3> QED BY <3>1, <3>2
  <2>2. Fresh(c)' <=> Fresh(c)
    BY <1>3, <1>5, <1>7, <2>1 DEF Fresh
  <2>3. Counts(n, c)'
    BY <1>1, <1>6, <2>1, <2>2, CountsKept DEF Turn
  <2>4. InTurn(n, c)'
    BY <1>3, <1>5, <1>7 DEF InTurn
  <2> QED BY <2>3, <2>4
<1>8. CASE job[c].by = "to_rq_end"
  <2>1. Fresh(c)
    BY <1>1, <1>8 DEF Fresh
  <2>2. OwnTarget(c) = Gid(c) /\ Gid(c) \in Nat
    BY <1>8, CreatorType, GidRange DEF OwnTarget
  <2>3. /\ s = "target" => Turn(n)' = Gid(c) /\ initialized' = initialized
        /\ s # "target" => /\ s = "initialized" /\ initialized'["to_rq_end"][n]
                           /\ Turn(n)' = Turn(n)
    <3>1. CASE s = "target"
      <4>1. target' = [target EXCEPT !["to_rq_end"][n] = Gid(c)] /\ initialized' = initialized
        BY <1>2, <1>8, <2>2, <3>1
      <4> QED BY <1>1, <3>1, <4>1 DEF Turn
    <3>2. CASE s # "target"
      <4>1. initialized' = [initialized EXCEPT !["to_rq_end"][n] = TRUE] /\ target' = target
        BY <1>2, <1>8, <3>2
      <4>2. s = "initialized"
        BY <1>2, <1>4, <3>2 DEF Statics
      <4> QED BY <1>1, <3>2, <4>1, <4>2 DEF Turn
    <3> QED BY <3>1, <3>2
  <2>4. /\ "target" \notin j.stores => Turn(n)' = Gid(c)
        /\ "initialized" \notin j.stores => initialized'["to_rq_end"][n]
    <3>1. /\ "target" \notin job[c].stores => Turn(n) = Gid(c)
          /\ "initialized" \notin job[c].stores => initialized["to_rq_end"][n]
      BY <1>1, <1>8 DEF InTurn
    <3> QED BY <1>5, <2>3, <3>1
  <2>5. /\ Gid(c)' = Gid(c) /\ Workers' = Workers /\ \A w : Gid(w)' = Gid(w)
    BY <1>1, Numbering
  <2>6. \A w \in AllWorkers : hits[n][w] = 0
    BY <2>1 DEF Counts
  <2>7. Counts(n, c)'
    <3>1. \A w \in AllWorkers \ Workers : hits'[n][w] = 0
      BY <1>1, <2>6
    <3>2. \A w \in Workers : hits'[n][w] = 0
      BY <1>1, <2>1 DEF Counts
    <3>3. ~Fresh(c)' => \A w \in Workers : hits'[n][w] = IF Dealt(c, Gid(w))' THEN 0 + 1 ELSE 0
      <4>1. SUFFICES ASSUME ~Fresh(c)', NEW w \in Workers PROVE ~Dealt(c, Gid(w))'
        BY <3>2
      <4>2. p = "node"
        BY <1>2, <1>3, <1>5, <1>8, <4>1 DEF Fresh
      <4>3. j.stores = {}
        BY <1>2, <4>2
      <4>4. Turn(n)' = Gid(c)
        BY <2>4, <4>3
      <4>5. Dealt(c, Gid(w))' = DealtTo(Gid(c), Gid(c), FALSE, Gid(w))
        BY <1>6, <2>5, <4>4 DEF Dealt, DealtTo
      <4> QED BY <2>2, <4>5, GidRange, DealtNone
    <3> QED BY <2>5, <3>1, <3>2, <3>3 DEF Counts, AllWorkers
  <2>8. InTurn(n, c)'
    <3>1. p = "node" => j.stores = {}
      BY <1>2
    <3>2. p = "init" => j.stores # {}
      BY <1>2
    <3> QED BY <1>2, <1>3, <1>5, <2>4, <2>5, <3>1, <3>2 DEF InTurn
  <2> QED BY <2>7, <2>8
<1> QED BY <1>7, <1>8

LEMMA RoundReadNode ==
  ASSUME SetupInv, TypeInv, JobInv, NEW c \in Creators, ReadNode(c), NEW n \in Nodes, n = c[1],
         Counts(n, c), InTurn(n, c)
  PROVE  Counts(n, c)' /\ InTurn(n, c)'
<1>1. /\ setup' = setup /\ nworkers' = nworkers /\ initialized' = initialized /\ target' = target
      /\ hits' = hits
  BY DEF ReadNode
<1> DEFINE v == IF job[c].by = "to_rq_end" THEN global_thread_id_to_node_id(target[job[c].by][c[1]])
                ELSE target[job[c].by][c[1]]
           j == [job[c] EXCEPT !.node = v]
           p == IF job[c].by = "to_rq_end" THEN "queue" ELSE "put"
<1>2. pc[c] = "node" /\ Goes(c, p, j) /\ job[c] \in Jobs
  BY ReadNodeGoes DEF TypeInv
<1>3. j.by = job[c].by /\ j.node = v
  <2> HIDE DEF v
  <2> QED BY <1>2 DEF Jobs
<1>4. job[c].by = "to_rq_end" => p = "queue" /\ v = global_thread_id_to_node_id(Turn(n))
  BY DEF Turn
<1>5. p \in {"queue", "put"} /\ (p = "queue" => job[c].by = "to_rq_end")
  OBVIOUS
<1>6. global_thread_id_to_node_id(Turn(n))' = global_thread_id_to_node_id(Turn(n))
  <2>1. \A g : global_thread_id_to_node_id(g)' = global_thread_id_to_node_id(g)
    BY <1>1, Numbering
  <2> QED BY <1>1, <2>1 DEF Turn, global_thread_id_to_node_id, total_num_threads, sum_vp
<1> HIDE DEF j, v, p
<1>7. pc'[c] = p /\ job'[c] = j
  BY <1>2, CreatorGoes
<1>8. Counted(c)' <=> Counted(c)
  BY <1>2, <1>3, <1>4, <1>5, <1>7 DEF Counted
<1>9. Fresh(c)' <=> Fresh(c)
  BY <1>1, <1>2, <1>5, <1>7 DEF Fresh
<1>10. Counts(n, c)'
  BY <1>1, <1>8, <1>9, CountsKept DEF Turn
<1>11. InTurn(n, c)'
  <2>1. job[c].by = "to_rq_end" => initialized["to_rq_end"][n]
    BY <1>2 DEF InTurn
  <2> QED BY <1>1, <1>3, <1>4, <1>5, <1>6, <1>7, <2>1 DEF InTurn
<1> QED BY <1>10, <1>11

LEMMA RoundReadQueue ==
  ASSUME SetupInv, TypeInv, JobInv, NEW c \in Creators, ReadQueue(c), NEW n \in Nodes, n = c[1],
         Counts(n, c), InTurn(n, c)
  PROVE  Counts(n, c)' /\ InTurn(n, c)'
<1> DEFINE g == target["to_rq_end"][c[1]]
           vp == global_thread_id_to_local_thread_id(g)
           j == [job[c] EXCEPT !.queue = vp]
           w0 == <<job[c].node, vp>>
<1>1. /\ pc[c] = "queue" /\ job[c].by = "to_rq_end" /\ Goes(c, "put", j)
      /\ g \in Nat /\ g < total_num_threads /\ job[c] \in Jobs
  BY ReadQueueGoes DEF TypeInv
<1>2. /\ setup' = setup /\ nworkers' = nworkers /\ initialized' = initialized /\ target' = target
      /\ hits' = [hits EXCEPT ![n] = [w \in DOMAIN @ |-> @[w] + IF w = w0 THEN 1 ELSE 0]]
  BY <1>1 DEF ReadQueue
<1>3. hits \in [Nodes -> [AllWorkers -> Nat]]
  BY DEF TypeInv, AllWorkers
<1>4. Turn(n) = g /\ Turn(n)' = g
  BY <1>2 DEF Turn
<1>5. initialized["to_rq_end"][n] /\ job[c].node = global_thread_id_to_node_id(g)
  BY <1>1, <1>4 DEF InTurn
<1>6. w0 \in Workers /\ Gid(w0) = g
  BY <1>1, <1>5, ThreadOf
<1>7. j.by = "to_rq_end"
  <2> HIDE DEF vp
  <2> QED BY <1>1 DEF Jobs
<1>8. Workers' = Workers /\ \A w : Gid(w)' = Gid(w)
  BY <1>2, Numbering
<1> HIDE DEF vp, j, w0
<1>9. pc'[c] = "put" /\ job'[c] = j
  BY <1>1, CreatorGoes
<1>10. \A w \in AllWorkers : hits'[n][w] = hits[n][w] + IF w = w0 THEN 1 ELSE 0
  BY <1>2, <1>3
<1>11. ~Fresh(c) /\ ~Fresh(c)'
  BY <1>1, <1>2, <1>5, <1>9 DEF Fresh
<1>12. Counted(c)' /\ ~Counted(c)
  BY <1>1, <1>7, <1>9 DEF Counted
<1>13. Gid(c) \in Nat
  BY CreatorType, GidRange
<1>14. PICK b \in Nat : \A w \in Workers : hits[n][w] = IF Dealt(c, Gid(w)) THEN b + 1 ELSE b
  BY <1>11 DEF Counts
<1>15. ASSUME NEW w \in Workers
       PROVE  hits'[n][w] = IF Dealt(c, Gid(w))' THEN b + 1 ELSE b
  <2>1. w \in AllWorkers /\ Gid(w) \in Nat
    BY GidRange DEF Workers, AllWorkers
  <2>2. Dealt(c, Gid(w)) <=> DealtTo(Gid(c), g, FALSE, Gid(w))
    BY <1>4, <1>12 DEF Dealt, DealtTo
  <2>3. Dealt(c, Gid(w))' <=> DealtTo(Gid(c), g, TRUE, Gid(w))
    BY <1>4, <1>8, <1>12 DEF Dealt, DealtTo
  <2>4. /\ ~DealtTo(Gid(c), g, FALSE, g)
        /\ DealtTo(Gid(c), g, TRUE, Gid(w)) <=> DealtTo(Gid(c), g, FALSE, Gid(w)) \/ Gid(w) = g
    BY <1>1, <1>13, <2>1, DealtMore
  <2>5. Gid(w) = g <=> w = w0
    BY <1>6, GidsDiffer
  <2>6. hits[n][w] = IF Dealt(c, Gid(w)) THEN b + 1 ELSE b
    BY <1>14
  <2>7. hits'[n][w] = hits[n][w] + IF w = w0 THEN 1 ELSE 0
    BY <1>10, <2>1
  <2>8. CASE w = w0
    <3>1. Gid(w) = g
      BY <2>5, <2>8
    <3>2. ~Dealt(c, Gid(w)) /\ Dealt(c, Gid(w))'
      BY <2>2, <2>3, <2>4, <3>1
    <3> QED BY <2>6, <2>7, <2>8, <3>2
  <2>9. CASE w # w0
    <3>1. Dealt(c, Gid(w))' <=> Dealt(c, Gid(w))
      BY <2>2, <2>3, <2>4, <2>5, <2>9
    <3> QED BY <2>6, <2>7, <2>9, <3>1
  <2> QED BY <2>8, <2>9
<1>16. Counts(n, c)'
  <2>1. \A w \in AllWorkers \ Workers : hits'[n][w] = 0
    <3>1. \A w \in AllWorkers \ Workers : hits[n][w] = 0 /\ w # w0
      BY <1>6 DEF Counts
    <3> QED BY <1>10, <3>1
  <2> QED BY <1>8, <1>11, <1>15, <2>1 DEF Counts, AllWorkers
<1>17. InTurn(n, c)'
  BY <1>2, <1>5, <1>9 DEF InTurn
<1> QED BY <1>16, <1>17

LEMMA RoundPut ==
  ASSUME SetupInv, TypeInv, JobInv, NEW c \in Creators, Put(c), NEW n \in Nodes, n = c[1],
         Counts(n, c), InTurn(n, c)
  PROVE  Counts(n, c)' /\ InTurn(n, c)'
<1>1. /\ setup' = setup /\ nworkers' = nworkers /\ initialized' = initialized /\ target' = target
      /\ hits' = hits /\ pc[c] = "put"
  BY DEF Put, At
<1>2. "to_rq_end" \in Rotating
  BY DEF Rotating
<1>3. CASE job[c].by \in Rotating
  <2>1. pc'[c] = "advance" /\ job'[c] = job[c]
    BY <1>3, PutGoes, CreatorGoes
  <2>2. (Counted(c)' <=> Counted(c)) /\ (Fresh(c)' <=> Fresh(c))
    BY <1>1, <2>1 DEF Counted, Fresh
  <2>3. Counts(n, c)'
    BY <1>1, <2>2, CountsKept DEF Turn
  <2>4. InTurn(n, c)'
    BY <1>1, <2>1 DEF InTurn
  <2> QED BY <2>3, <2>4
<1>4. CASE job[c].by \notin Rotating
  <2>1. pc'[c] = "app" /\ job'[c] = Idle /\ job[c].by # "to_rq_end"
    BY <1>2, <1>4, PutGoes, CreatorGoes
  <2>2. (Counted(c)' <=> Counted(c)) /\ (Fresh(c)' <=> Fresh(c))
    BY <1>1, <2>1 DEF Counted, Fresh
  <2>3. Counts(n, c)'
    BY <1>1, <2>2, CountsKept DEF Turn
  <2>4. InTurn(n, c)'
    BY <2>1 DEF InTurn
  <2> QED BY <2>3, <2>4
<1> QED BY <1>3, <1>4

LEMMA RoundAdvanceRead ==
  ASSUME SetupInv, TypeInv, JobInv, NEW c \in Creators, AdvanceRead(c), NEW n \in Nodes, n = c[1],
         Counts(n, c), InTurn(n, c)
  PROVE  Counts(n, c)' /\ InTurn(n, c)'
<1>1. /\ setup' = setup /\ nworkers' = nworkers /\ initialized' = initialized /\ target' = target
      /\ hits' = hits
  BY DEF AdvanceRead
<1> DEFINE v == (target[job[c].by][c[1]] + 1) % Total(job[c].by)
           j == [job[c] EXCEPT !.next = v]
<1>2. pc[c] = "advance" /\ Goes(c, "store", j) /\ job[c] \in Jobs
  BY AdvanceReadGoes DEF TypeInv
<1>3. j.by = job[c].by /\ j.next = v
  <2> HIDE DEF v
  <2> QED BY <1>2 DEF Jobs
<1>4. job[c].by = "to_rq_end" => v = (Turn(n) + 1) % total_num_threads
  BY DEF Turn, Total
<1> HIDE DEF j, v
<1>5. pc'[c] = "store" /\ job'[c] = j
  BY <1>2, CreatorGoes
<1>6. (Counted(c)' <=> Counted(c)) /\ (Fresh(c)' <=> Fresh(c))
  BY <1>1, <1>2, <1>3, <1>5 DEF Counted, Fresh
<1>7. Counts(n, c)'
  BY <1>1, <1>6, CountsKept DEF Turn
<1>8. Turn(n)' = Turn(n) /\ total_num_threads' = total_num_threads
  BY <1>1, Numbering DEF Turn
<1>9. InTurn(n, c)'
  <2>1. job[c].by = "to_rq_end" => initialized["to_rq_end"][n]
    BY <1>2 DEF InTurn
  <2>2. j.by = "to_rq_end" => j.next = (Turn(n)' + 1) % total_num_threads'
    BY <1>3, <1>4, <1>8
  <2> QED BY <1>1, <1>3, <1>5, <2>1, <2>2 DEF InTurn
<1> QED BY <1>7, <1>9

LEMMA RoundAdvanceWrite ==
  ASSUME SetupInv, TypeInv, JobInv, NEW c \in Creators, AdvanceWrite(c), NEW n \in Nodes, n = c[1],
         Counts(n, c), InTurn(n, c)
  PROVE  Counts(n, c)' /\ InTurn(n, c)'
<1>1. /\ setup' = setup /\ nworkers' = nworkers /\ initialized' = initialized /\ hits' = hits
      /\ target \in [Rotating -> [Nodes -> Nat]]
  BY DEF AdvanceWrite, TypeInv
<1>2. /\ pc[c] = "store" /\ job[c].by \in Rotating /\ Goes(c, "app", Idle)
      /\ target' = [target EXCEPT ![job[c].by][n] = job[c].next]
  BY AdvanceWriteGoes
<1>3. pc'[c] = "app" /\ job'[c] = Idle /\ Idle.by = "none"
  BY <1>2, CreatorGoes DEF Idle, Job
<1>4. InTurn(n, c)'
  BY <1>3 DEF InTurn
<1>5. ~Counted(c)' /\ (Fresh(c)' <=> Fresh(c))
  BY <1>1, <1>2, <1>3 DEF Counted, Fresh
<1>6. CASE job[c].by # "to_rq_end"
  <2>1. target'["to_rq_end"] = target["to_rq_end"]
    <3>1. "to_rq_end" \in Rotating
      BY DEF Rotating
    <3> QED BY <1>1, <1>2, <1>6, <3>1
  <2>2. ~Counted(c)
    BY <1>6 DEF Counted
  <2> QED BY <1>1, <1>4, <1>5, <2>1, <2>2, CountsKept DEF Turn
<1>7. CASE job[c].by = "to_rq_end"
  <2>1. PICK T \in Nat, from \in Nat, to \in Nat :
          T = total_num_threads /\ from = Gid(c) /\ to = Turn(n) /\ from < T /\ to < T
    <3>1. Gid(c) \in Nat /\ Gid(c) < total_num_threads
      BY CreatorType, GidRange
    <3> QED BY <3>1, TurnType
  <2>2. PICK next \in Nat : next = Turn(n)' /\ next = (to + 1) % T
    <3>1. job[c].next = (Turn(n) + 1) % total_num_threads /\ Turn(n)' = job[c].next
      <4>1. Turn(n)' = job[c].next
        BY <1>1, <1>2, <1>7 DEF Turn
      <4> QED BY <1>2, <1>7, <4>1 DEF InTurn
    <3>2. (to + 1) % T \in Nat
      BY <2>1
    <3> QED BY <2>1, <3>1, <3>2
  <2>3. Counted(c) /\ ~Fresh(c) /\ ~Fresh(c)'
    <3>1. initialized["to_rq_end"][n]
      BY <1>2, <1>7 DEF InTurn
    <3> QED BY <1>2, <1>5, <1>7, <3>1 DEF Counted, Fresh
  <2>4. PICK b \in Nat : \A w \in Workers : hits[n][w] = IF Dealt(c, Gid(w)) THEN b + 1 ELSE b
    BY <2>3 DEF Counts
  <2>5. Workers' = Workers /\ \A w : Gid(w)' = Gid(w)
    BY <1>1, Numbering
  <2>6. ASSUME NEW w \in Workers
        PROVE  /\ Dealt(c, Gid(w)) <=> DealtTo(from, to, TRUE, Gid(w))
               /\ Dealt(c, Gid(w))' <=> DealtTo(from, next, FALSE, Gid(w))
               /\ next # from => (DealtTo(from, next, FALSE, Gid(w))
                                    <=> DealtTo(from, to, TRUE, Gid(w)))
               /\ next = from => /\ DealtTo(from, to, TRUE, Gid(w))
                                 /\ ~DealtTo(from, next, FALSE, Gid(w))
    <3>1. Dealt(c, Gid(w)) <=> DealtTo(from, to, TRUE, Gid(w))
      BY <2>1, <2>3 DEF Dealt, DealtTo
    <3>2. Dealt(c, Gid(w))' <=> DealtTo(from, next, FALSE, Gid(w))
      BY <1>5, <2>1, <2>2, <2>5 DEF Dealt, DealtTo
    <3>3. PICK g \in Nat : g = Gid(w) /\ g < T
      BY <2>1, GidRange
    <3>4. /\ next # from => (DealtTo(from, next, FALSE, g) <=> DealtTo(from, to, TRUE, g))
          /\ next = from => DealtTo(from, to, TRUE, g) /\ ~DealtTo(from, next, FALSE, g)
      BY <2>1, <2>2, <3>3, DealtNext
    <3> QED BY <3>1, <3>2, <3>3, <3>4
  <2>7. \E a \in Nat : \A w \in Workers : hits'[n][w] = IF Dealt(c, Gid(w))' THEN a + 1 ELSE a
    <3>1. CASE next # from
      <4>1. \A w \in Workers : hits'[n][w] = IF Dealt(c, Gid(w))' THEN b + 1 ELSE b
        BY <1>1, <2>4, <2>6, <3>1
      <4> QED BY <4>1
    <3>2. CASE next = from
      <4>1. \A w \in Workers : hits'[n][w] = b + 1 /\ ~Dealt(c, Gid(w))'
        BY <1>1, <2>4, <2>6, <3>2
      <4>2. \A w \in Workers : hits'[n][w] = IF Dealt(c, Gid(w))' THEN (b + 1) + 1 ELSE b + 1
        BY <4>1
      <4> QED BY <4>2
    <3> QED BY <3>1, <3>2
  <2>8. Counts(n, c)'
    <3>1. \A w \in AllWorkers \ Workers : hits'[n][w] = 0
      BY <1>1 DEF Counts
    <3> QED BY <2>3, <2>5, <2>7, <3>1 DEF Counts, AllWorkers
  <2> QED BY <1>4, <2>8
<1> QED BY <1>6, <1>7

(* The steps of another node's creators.                                   *)
LEMMA OtherGoes ==
  ASSUME SetupInv, TypeInv, JobInv, NEW d \in Creators, CreatorStep(d),
         NEW c \in Creators, c # d
  PROVE  pc'[c] = pc[c] /\ job'[c] = job[c]
<1>1. CASE \E t \in Tasks, l \in 1 .. setup.maxLevel, f \in setup.placedBy : Create(d, t, l, f)
  BY <1>1, CreateEffect
<1>2. CASE InitStatic(d)
  <2>1. \E p, j : Goes(d, p, j)
    BY <1>2, InitStaticGoes
  <2> QED BY <2>1, CreatorGoes
<1>3. CASE ReadNode(d)
  <2>1. \E p, j : Goes(d, p, j)
    BY <1>3, ReadNodeGoes
  <2> QED BY <2>1, CreatorGoes
<1>4. CASE ReadQueue(d)
  <2>1. \E p, j : Goes(d, p, j)
    BY <1>4, ReadQueueGoes
  <2> QED BY <2>1, CreatorGoes
<1>5. CASE Put(d)
  BY <1>5, PutStep
<1>6. CASE AdvanceRead(d)
  <2>1. \E p, j : Goes(d, p, j)
    BY <1>6, AdvanceReadGoes
  <2> QED BY <2>1, CreatorGoes
<1>7. CASE AdvanceWrite(d)
  <2>1. \E p, j : Goes(d, p, j)
    BY <1>7, AdvanceWriteGoes
  <2> QED BY <2>1, CreatorGoes
<1> QED BY <1>1, <1>2, <1>3, <1>4, <1>5, <1>6, <1>7 DEF CreatorStep

LEMMA OtherStatics ==
  ASSUME SetupInv, TypeInv, JobInv, NEW d \in Creators, CreatorStep(d), NEW n \in Nodes, n # d[1]
  PROVE  /\ hits'[n] = hits[n] /\ Turn(n)' = Turn(n)
         /\ initialized'["to_rq_end"][n] = initialized["to_rq_end"][n]
<1>1. /\ hits \in [Nodes -> [AllWorkers -> Nat]] /\ "to_rq_end" \in Rotating
      /\ target \in [Rotating -> [Nodes -> Nat]]
      /\ initialized \in [Rotating -> [Nodes -> BOOLEAN]]
  BY DEF TypeInv, AllWorkers, Rotating
<1>2. CASE \E t \in Tasks, l \in 1 .. setup.maxLevel, f \in setup.placedBy : Create(d, t, l, f)
  BY <1>2 DEF Create, Turn
<1>3. CASE InitStatic(d)
  <2>1. \/ target' = [target EXCEPT ![job[d].by][d[1]] = OwnTarget(d)] /\ initialized' = initialized
        \/ initialized' = [initialized EXCEPT ![job[d].by][d[1]] = TRUE] /\ target' = target
    BY <1>3, InitStaticGoes
  <2>2. hits' = hits
    BY <1>3 DEF InitStatic
  <2> HIDE DEF OwnTarget
  <2>3. target'["to_rq_end"][n] = target["to_rq_end"][n]
    BY <1>1, <2>1
  <2>4. initialized'["to_rq_end"][n] = initialized["to_rq_end"][n]
    BY <1>1, <2>1
  <2> QED BY <2>2, <2>3, <2>4 DEF Turn
<1>4. CASE ReadNode(d)
  BY <1>4 DEF ReadNode, Turn
<1>5. CASE ReadQueue(d)
  <2>1. target' = target /\ initialized' = initialized
    BY <1>5 DEF ReadQueue
  <2>2. \E h : hits' = [hits EXCEPT ![d[1]] = h]
    BY <1>5 DEF ReadQueue
  <2>3. hits'[n] = hits[n]
    BY <1>1, <2>2
  <2> QED BY <2>1, <2>3 DEF Turn
<1>6. CASE Put(d)
  BY <1>6 DEF Put, Turn
<1>7. CASE AdvanceRead(d)
  BY <1>7 DEF AdvanceRead, Turn
<1>8. CASE AdvanceWrite(d)
  <2>1. target' = [target EXCEPT ![job[d].by][d[1]] = job[d].next]
        /\ initialized' = initialized /\ hits' = hits
    BY <1>8 DEF AdvanceWrite
  <2>2. target'["to_rq_end"][n] = target["to_rq_end"][n]
    BY <1>1, <2>1
  <2> QED BY <2>1, <2>2 DEF Turn
<1> QED BY <1>2, <1>3, <1>4, <1>5, <1>6, <1>7, <1>8 DEF CreatorStep

LEMMA RoundStep ==
  ASSUME SetupInv, TypeInv, JobInv, RoundInv, [Next]_vars
  PROVE  RoundInv'
<1>1. setup' = setup /\ nworkers' = nworkers /\ Creators' = Creators
  BY SetupKept, Numbering
<1>2. SUFFICES ASSUME NEW n \in Nodes, NEW c \in Creators, Alone(n, c)
               PROVE  Counts(n, c)' /\ InTurn(n, c)'
  BY <1>1 DEF RoundInv, Alone
<1>3. Counts(n, c) /\ InTurn(n, c) /\ c[1] = n
  BY <1>2 DEF RoundInv, Alone
<1>4. CASE pc' = pc /\ job' = job /\ hits' = hits /\ target' = target /\ initialized' = initialized
  <2>1. /\ hits'[n] = hits[n] /\ Turn(n)' = Turn(n) /\ pc'[c] = pc[c] /\ job'[c] = job[c]
        /\ initialized'["to_rq_end"][n] = initialized["to_rq_end"][n]
    BY <1>4 DEF Turn
  <2> QED BY <1>1, <1>3, <2>1, RoundFrame
<1>5. CASE UNCHANGED vars
  BY <1>4, <1>5 DEF vars
<1>6. CASE \E m, k \in Nodes : ServerEnqueue(m, k) \/ ServerPrefetch(m, k)
  BY <1>4, <1>6 DEF ServerEnqueue, ServerPrefetch
<1>7. CASE \E d \in Creators : CreatorStep(d)
  <2>1. PICK d \in Creators : CreatorStep(d)
    BY <1>7
  <2>2. CASE d = c
    <3>1. CASE \E t \in Tasks, l \in 1 .. setup.maxLevel, f \in setup.placedBy : Create(c, t, l, f)
      <4>1. Counts(c[1], c)' /\ InTurn(c[1], c)'
        BY <1>3, <3>1, RoundCreate
      <4> QED BY <1>3, <4>1 DEF Counts, InTurn
    <3>2. CASE InitStatic(c)
      BY <1>3, <3>2, RoundInit
    <3>3. CASE ReadNode(c)
      BY <1>3, <3>3, RoundReadNode
    <3>4. CASE ReadQueue(c)
      BY <1>3, <3>4, RoundReadQueue
    <3>5. CASE Put(c)
      BY <1>3, <3>5, RoundPut
    <3>6. CASE AdvanceRead(c)
      BY <1>3, <3>6, RoundAdvanceRead
    <3>7. CASE AdvanceWrite(c)
      BY <1>3, <3>7, RoundAdvanceWrite
    <3> QED BY <2>1, <2>2, <3>1, <3>2, <3>3, <3>4, <3>5, <3>6, <3>7 DEF CreatorStep
  <2>3. CASE d # c
    <3>1. d[1] # n
      BY <1>2, <2>3 DEF Alone
    <3>2. pc'[c] = pc[c] /\ job'[c] = job[c]
      BY <2>1, <2>3, OtherGoes
    <3>3. /\ hits'[n] = hits[n] /\ Turn(n)' = Turn(n)
          /\ initialized'["to_rq_end"][n] = initialized["to_rq_end"][n]
      BY <2>1, <3>1, OtherStatics
    <3> QED BY <1>1, <1>3, <3>2, <3>3, RoundFrame
  <2> QED BY <2>2, <2>3
<1> QED BY <1>5, <1>6, <1>7, StepKinds

(***************************************************************************)
(* The invariant.                                                          *)
(***************************************************************************)
LEMMA InitTypes == ASSUME Init PROVE SetupInv /\ TypeInv /\ JobInv
<1>1. SetupInv
  BY PlacementAssumption DEF Init, SetupInv, Nodes, Creators
<1>2. TypeInv
  <2>1. Idle \in Jobs /\ "app" \in PlacesOfCreators
    BY DEF Idle, Job, Jobs, PlacesOfCreators
  <2>2. /\ job \in [Creators -> Jobs] /\ pc \in [Creators -> PlacesOfCreators]
        /\ created \in [Creators -> Seq(Tasks)]
    BY <2>1 DEF Init
  <2>3. /\ initialized \in [Rotating -> [Nodes -> BOOLEAN]]
        /\ target \in [Rotating -> [Nodes -> Nat]]
        /\ asked \in [Tasks -> SUBSET Functions9]
        /\ hits \in [Nodes -> [Nodes \X (0 .. MaxWorkers - 1) -> Nat]]
    BY DEF Init
  <2>4. /\ wire \in [Nodes -> [Nodes -> Seq(Tasks)]] /\ private \in [Nodes -> Seq(Tasks)]
        /\ public \in [Nodes -> [Queues -> Seq(Tasks)]]
    BY DEF Init, Queues
  <2>5. desc \in [Tasks -> Descs]
    BY DEF Init, Descs
  <2> QED BY <2>2, <2>3, <2>4, <2>5 DEF TypeInv
<1>3. JobInv
  <2>1. \A f \in Rotating, n \in Nodes : target[f][n] < Total(f)
    <3>1. SUFFICES ASSUME NEW f \in Rotating, NEW n \in Nodes PROVE target[f][n] < Total(f)
      OBVIOUS
    <3>2. target[f][n] = 0 /\ Total(f) \in Nat /\ Total(f) >= 1
      BY <1>1, TotalType DEF Init
    <3> QED BY <3>2
  <2>2. \A c \in Creators : JobOK(pc[c], job[c])
    BY DEF Init, JobOK
  <2> QED BY <2>1, <2>2 DEF JobInv
<1> QED BY <1>1, <1>2, <1>3

LEMMA InitIInv == ASSUME Init PROVE IInv
<1>1. SetupInv /\ TypeInv /\ JobInv
  BY InitTypes
<1>2. \A x \in Slots : Content(x) = <<>>
  <2>1. SUFFICES ASSUME NEW x \in Slots PROVE Content(x) = <<>>
    OBVIOUS
  <2>2. CASE \E n, m \in Nodes : x = <<n, m, "wire">>
    BY <2>2, Contents DEF Init
  <2>3. CASE \E n \in Nodes : x = <<n, 0, "private">>
    BY <2>3, Contents DEF Init
  <2>4. CASE \E n \in Nodes, q \in Queues : x = <<n, q, "public">>
    <3>1. PICK n \in Nodes, q \in Queues : x = <<n, q, "public">>
      BY <2>4
    <3>2. public[n][q] = <<>>
      BY DEF Init, Queues
    <3> QED BY <3>1, <3>2, Contents
  <2> QED BY <2>2, <2>3, <2>4, SlotKinds
<1>3. \A x \in Slots : \A t : At1(x, t) = 0
  BY <1>2, NumEmpty DEF At1
<1>4. /\ \A t \in Tasks : desc[t].home = -1 /\ ~desc[t].front /\ ~desc[t].private
      /\ \A c \in Creators : pc[c] = "app" /\ pc[c] \notin Carrying /\ created[c] = <<>>
  BY DEF Init, Carrying
<1>5. PlaceInv
  BY <1>3, <1>4 DEF PlaceInv, InHand
<1>6. FlagInv
  BY <1>3, <1>4 DEF FlagInv
<1>7. CreatedInv
  BY <1>4 DEF CreatedInv
<1>8. OrderInv
  <2>1. \A x \in Slots : Sorted(Content(x), Older)
    BY <1>2 DEF Sorted
  <2>2. \A n, m \in Nodes, t \in Tasks : At1(<<n, m, "wire">>, t) = 0
    BY <1>3, SlotNames
  <2> QED BY <2>1, <2>2 DEF OrderInv
<1>9. RoundInv
  <2>1. SUFFICES ASSUME NEW n \in Nodes, NEW c \in Creators, Alone(n, c)
                 PROVE  Counts(n, c) /\ InTurn(n, c)
    BY DEF RoundInv
  <2>2. c[1] = n
    BY <2>1 DEF Alone
  <2>3. \A w \in AllWorkers : hits[n][w] = 0
    BY DEF Init, AllWorkers
  <2>4. Fresh(c)
    BY <2>2 DEF Init, Fresh, Rotating
  <2>5. Workers \subseteq AllWorkers
    BY DEF Workers, AllWorkers
  <2>6. job[c].by # "to_rq_end"
    BY DEF Init, Idle, Job
  <2> QED BY <2>3, <2>4, <2>5, <2>6 DEF Counts, InTurn
<1> QED BY <1>1, <1>5, <1>6, <1>7, <1>8, <1>9 DEF IInv

LEMMA StepIInv == IInv /\ [Next]_vars => IInv'
<1> SUFFICES ASSUME IInv, [Next]_vars PROVE IInv'
  OBVIOUS
<1>1. SetupInv /\ TypeInv /\ JobInv /\ PlaceInv /\ FlagInv /\ CreatedInv /\ OrderInv /\ RoundInv
  BY DEF IInv
<1>2. SetupInv' /\ TypeInv' /\ JobInv'
  BY <1>1, TypesStep
<1>3. PlaceInv' /\ FlagInv'
  BY <1>1, PlaceFlagStep
<1>4. CreatedInv' /\ OrderInv'
  BY <1>1, OrderStep
<1>5. RoundInv'
  BY <1>1, RoundStep
<1> QED BY <1>2, <1>3, <1>4, <1>5 DEF IInv

(* Invariance: the inductive invariant holds in every reachable state of   *)
(* the placement functions and the servers.                                *)
THEOREM Invariance == Spec => []IInv
<1>1. Init => IInv
  BY InitIInv
<1> QED BY <1>1, StepIInv, PTL DEF Spec

(***************************************************************************)
(* The properties.                                                         *)
(***************************************************************************)
(* TargetExists, for any number of nodes, workers and creators that race   *)
(* for the static target of the rotating functions (torc_to_rq and its     *)
(* kin): the node a task is sent to exists.                                *)
THEOREM TargetAlwaysExists == Spec => []TargetExists
<1>1. IInv => TargetExists
  <2> SUFFICES ASSUME IInv, NEW c \in Creators, At(c, "put") PROVE job[c].node \in Nodes
    BY DEF TargetExists
  <2>1. JobOK(pc[c], job[c])
    BY DEF IInv, JobInv
  <2> QED BY <2>1 DEF JobOK, At
<1> QED BY <1>1, Invariance, PTL

LEMMA NumInjective ==
  ASSUME NEW S, NEW s \in Seq(S), \A u \in S : Num(s, {u}) <= 1
  PROVE  IsInjective(s)
<1>1. SUFFICES ASSUME NEW i \in 1 .. Len(s), NEW j \in 1 .. Len(s), s[i] = s[j] PROVE i = j
  BY DEF IsInjective
<1>2. PICK u \in S : u = s[i]
  OBVIOUS
<1>3. Num(s, {u}) # 0 /\ Num(s, {u}) \in Nat
  BY <1>2, NumZero, NumType
<1>4. Num(s, {u}) = 1
  BY <1>3
<1>5. PICK k \in 1 .. Len(s) : {l \in 1 .. Len(s) : s[l] \in {u}} = {k}
  BY <1>4, NumOne
<1> QED BY <1>1, <1>2, <1>5

(* OneCopy: whatever the interleaving of placements, deliveries and        *)
(* prefetches, a task is in one place, once.                               *)
THEOREM OneCopyAlways == Spec => []OneCopy
<1>1. IInv => OneCopy
  <2> SUFFICES ASSUME IInv PROVE OneCopy
    OBVIOUS
  <2>1. TypeInv /\ PlaceInv
    BY DEF IInv
  <2>2. ASSUME NEW x \in Slots PROVE IsInjective(Content(x))
    <3>1. Content(x) \in Seq(Tasks)
      BY <2>1, ContentType
    <3>2. \A u \in Tasks : Num(Content(x), {u}) <= 1
      BY <2>1 DEF PlaceInv, At1
    <3> QED BY <3>1, <3>2, NumInjective
  <2>3. ASSUME NEW t \in Tasks
        PROVE  Cardinality({x \in Slots : \E i \in 1 .. Len(Content(x)) : Content(x)[i] = t})
                 = IF desc[t].home = -1 \/ t \in InHand THEN 0 ELSE 1
    <3> DEFINE X == {x \in Slots : \E i \in 1 .. Len(Content(x)) : Content(x)[i] = t}
    <3>1. \A x \in Slots : x \in X <=> At1(x, t) = 1
      <4>1. SUFFICES ASSUME NEW x \in Slots PROVE x \in X <=> At1(x, t) = 1
        OBVIOUS
      <4>2. /\ At1(x, t) \in Nat /\ At1(x, t) <= 1
            /\ At1(x, t) = 0 <=> \A i \in 1 .. Len(Content(x)) : Content(x)[i] # t
        BY <2>1, Present DEF PlaceInv
      <4>3. At1(x, t) = 0 \/ At1(x, t) = 1
        BY <4>2
      <4> QED BY <4>2, <4>3
    <3>2. (\A x \in Slots : At1(x, t) = 0) <=> (desc[t].home = -1 \/ t \in InHand)
      BY <2>1 DEF PlaceInv
    <3>3. CASE desc[t].home = -1 \/ t \in InHand
      <4>1. \A x \in Slots : At1(x, t) = 0
        BY <3>2, <3>3
      <4>2. X = {}
        BY <3>1, <4>1
      <4>3. Cardinality(X) = 0
        BY <4>2, FS_EmptySet
      <4> QED BY <3>3, <4>3
    <3>4. CASE ~(desc[t].home = -1 \/ t \in InHand)
      <4>1. PICK y \in Slots : At1(y, t) # 0
        BY <3>2, <3>4
      <4>2. At1(y, t) = 1
        BY <2>1, <4>1, AtType DEF PlaceInv
      <4>3. X = {y}
        <5>1. \A x \in X : x = y
          BY <2>1, <3>1, <4>2 DEF PlaceInv
        <5>2. y \in X
          BY <3>1, <4>2
        <5> QED BY <5>1, <5>2
      <4>4. Cardinality(X) = 1
        BY <4>3, FS_Singleton
      <4> QED BY <3>4, <4>4
    <3> QED BY <3>3, <3>4
  <2> QED BY <2>2, <2>3 DEF OneCopy
<1> QED BY <1>1, Invariance, PTL

(* RoundRobin, for every number of workers of every node: the only creator *)
(* of a node deals its tasks (torc_to_rq_end) evenly to all workers.       *)
THEOREM RoundRobinAlways == Spec => []RoundRobin
<1>1. IInv => RoundRobin
  <2> SUFFICES ASSUME IInv, NEW n \in Nodes, Cardinality({c \in Creators : c[1] = n}) = 1,
                      NEW v \in DOMAIN hits[n], NEW w \in DOMAIN hits[n]
               PROVE  /\ v[2] >= nworkers[v[1]] => hits[n][v] = 0
                      /\ w[2] < nworkers[w[1]] => hits[n][v] <= hits[n][w] + 1
    BY DEF RoundRobin
  <2>1. SetupInv /\ TypeInv /\ RoundInv
    BY DEF IInv
  <2>2. DOMAIN hits[n] = AllWorkers /\ \A u \in AllWorkers : hits[n][u] \in Nat
    BY <2>1 DEF TypeInv, AllWorkers
  <2>3. PICK c \in Creators : Alone(n, c)
    <3> DEFINE D == {d \in Creators : d[1] = n}
    <3>1. D \subseteq AllWorkers
      BY <2>1, CreatorType DEF Workers, AllWorkers
    <3>2. IsFiniteSet(AllWorkers)
      <4>1. NumNodes \in Int /\ MaxWorkers \in Int
        BY PlacementAssumption, SearchAssumption
      <4>2. IsFiniteSet(Nodes) /\ IsFiniteSet(0 .. MaxWorkers - 1)
        BY <4>1, FS_Interval DEF Nodes
      <4> QED BY <4>2, FS_Product DEF AllWorkers
    <3>3. IsFiniteSet(D)
      <4> HIDE DEF D
      <4> QED BY <3>1, <3>2, FS_Subset
    <3>4. PICK c : D = {c}
      <4>1. Cardinality(D) = 1
        OBVIOUS
      <4> HIDE DEF D
      <4> QED BY <3>3, <4>1, FS_Singleton
    <3>5. c \in Creators
      BY <3>4
    <3> QED BY <3>4, <3>5 DEF Alone
  <2>4. Counts(n, c)
    BY <2>1, <2>3 DEF RoundInv
  <2>5. \A u \in AllWorkers : u \in Workers <=> u[2] < nworkers[u[1]]
    BY DEF Workers, AllWorkers
  <2>6. \A u \in AllWorkers : u[2] \in Int /\ nworkers[u[1]] \in Int
    BY <2>1, SearchAssumption DEF AllWorkers, SetupInv
  <2>7. v[2] >= nworkers[v[1]] => hits[n][v] = 0
    <3>1. v[2] >= nworkers[v[1]] => v \notin Workers
      BY <2>2, <2>5, <2>6
    <3> QED BY <2>2, <2>4, <3>1 DEF Counts
  <2>8. w[2] < nworkers[w[1]] => hits[n][v] <= hits[n][w] + 1
    <3>1. SUFFICES ASSUME w \in Workers PROVE hits[n][v] <= hits[n][w] + 1
      BY <2>2, <2>5
    <3>2. hits[n][v] \in Nat /\ hits[n][w] \in Nat
      BY <2>2
    <3>3. CASE v \notin Workers
      <4>1. hits[n][v] = 0
        BY <2>2, <2>4, <3>3 DEF Counts
      <4> QED BY <3>2, <4>1
    <3>4. CASE v \in Workers /\ Fresh(c)
      <4>1. hits[n][v] = 0
        BY <2>4, <3>4 DEF Counts
      <4> QED BY <3>2, <4>1
    <3>5. CASE v \in Workers /\ ~Fresh(c)
      <4>1. PICK b \in Nat : \A u \in Workers : hits[n][u] = IF Dealt(c, Gid(u)) THEN b + 1 ELSE b
        BY <2>4, <3>5 DEF Counts
      <4>2. hits[n][v] <= b + 1 /\ hits[n][w] >= b
        BY <3>1, <3>5, <4>1
      <4> QED BY <3>2, <4>2
    <3> QED BY <3>3, <3>4, <3>5
  <2> QED BY <2>7, <2>8
<1> QED BY <1>1, Invariance, PTL

(* CreationOrder: tasks of one creator that were put at the end of one     *)
(* public queue, from here or by a server, are in the order of creation.   *)
THEOREM CreationOrderAlways == Spec => []CreationOrder
<1>1. IInv => CreationOrder
  <2> SUFFICES ASSUME IInv, NEW c \in Creators, NEW n \in Nodes, NEW q \in 0 .. NumLevels - 1,
                      NEW i \in 1 .. Len(created[c]), NEW j \in 1 .. Len(created[c]),
                      NEW k \in 1 .. Len(public[n][q]), NEW l \in 1 .. Len(public[n][q]),
                      /\ i < j
                      /\ public[n][q][k] = created[c][i] /\ public[n][q][l] = created[c][j]
                      /\ asked[created[c][i]] \cup asked[created[c][j]]
                           \subseteq {"to_rq_end", "to_rq_end__", "to_lrq_end", "to_nrq_end"}
               PROVE  k < l
    BY DEF CreationOrder
  <2>a. q \in Queues /\ asked[created[c][i]] \cup asked[created[c][j]] \subseteq EndFunctions
    BY DEF Queues, EndFunctions
  <2>1. TypeInv /\ CreatedInv /\ OrderInv
    BY DEF IInv
  <2>2. PICK t \in Tasks, u \in Tasks : t = created[c][i] /\ u = created[c][j]
    BY <2>1, CreatedTask
  <2>3. <<t, u>> \in Older
    <3>1. Before(t, u)
      BY <2>2 DEF Before
    <3>2. Direct(t) /\ Direct(u)
      BY <2>a, <2>2 DEF Direct
    <3> QED BY <3>1, <3>2 DEF Older
  <2>4. t # u
    <3>1. \A a, b \in Creators : \A x \in 1 .. Len(created[a]), y \in 1 .. Len(created[b]) :
            created[a][x] = created[b][y] => a = b /\ x = y
      BY <2>1 DEF CreatedInv
    <3>2. i # j
      BY <2>1 DEF TypeInv
    <3> QED BY <2>2, <3>1, <3>2
  <2>5. Sorted(public[n][q], Older)
    <3>1. <<n, q, "public">> \in Slots /\ Content(<<n, q, "public">>) = public[n][q]
      BY <2>a, SlotNames, Contents
    <3> QED BY <2>1, <3>1 DEF OrderInv
  <2>6. k # l
    BY <2>2, <2>4
  <2>7. ~(l < k)
    BY <2>2, <2>3, <2>5 DEF Sorted
  <2>8. k \in Int /\ l \in Int
    BY <2>1 DEF TypeInv
  <2> QED BY <2>6, <2>7, <2>8
<1> QED BY <1>1, Invariance, PTL

(* Only the server that receives from a wire shortens it.                  *)
LEMMA OnlyServersReceive ==
  ASSUME SetupInv, TypeInv, JobInv, [Next]_vars, NEW n \in Nodes, NEW m \in Nodes,
         wire[n][m] # <<>>, wire'[n][m] = Tail(wire[n][m])
  PROVE  ServerEnqueue(n, m)
<1>1. PICK y \in Slots : y = <<n, m, "wire">> /\ Content(y) = wire[n][m] /\ Content(y)' = wire'[n][m]
  BY SlotNames, Contents
<1>2. /\ wire[n][m] \in Seq(Tasks) /\ wire[n][m] # Tail(wire[n][m])
      /\ \A t \in Tasks : Append(wire[n][m], t) # Tail(wire[n][m])
  <2>1. wire[n][m] \in Seq(Tasks)
    BY DEF TypeInv
  <2>2. /\ Len(Tail(wire[n][m])) = Len(wire[n][m]) - 1 /\ Len(wire[n][m]) \in Nat
        /\ \A t \in Tasks : Len(Append(wire[n][m], t)) = Len(wire[n][m]) + 1
    BY <2>1, HeadTailProperties, AppendProperties, LenProperties
  <2>3. \A t \in Tasks : Append(wire[n][m], t) # Tail(wire[n][m])
    BY <2>2
  <2>4. ASSUME wire[n][m] = Tail(wire[n][m])
        PROVE  FALSE
    <3>1. Len(wire[n][m]) = Len(wire[n][m]) - 1
      BY <2>2, <2>4
    <3>2. PICK k \in Nat : k = Len(wire[n][m])
      BY <2>2
    <3>3. k = k - 1
      BY <3>1, <3>2
    <3> QED BY <3>3
  <2> QED BY <2>1, <2>3, <2>4
<1>3. CASE UNCHANGED vars
  BY <1>2, <1>3 DEF vars
<1>4. CASE \E c \in Creators : CreatorStep(c)
  <2>1. PICK c \in Creators : CreatorStep(c)
    BY <1>4
  <2>2. CASE \E t \in Tasks, l \in 1 .. setup.maxLevel, f \in setup.placedBy : Create(c, t, l, f)
    BY <1>2, <2>2, CreateEffect
  <2>3. CASE Quiet(c)
    BY <1>2, <2>3, QuietEffect
  <2>4. CASE Put(c)
    <3>1. PICK t \in Tasks, z \in Slots : t = job[c].task /\ z = Goal(c) /\ Stored(z, t, InFront(c))
      BY <2>4, PutStep, PutEffect
    <3>2. CASE y = z
      <4>1. ~InFront(c)
        BY <1>1, <3>1, <3>2 DEF Goal, InFront, LocalSlot
      <4>2. Content(y)' = Append(Content(y), t)
        BY <3>1, <3>2, <4>1 DEF Stored, Insert
      <4> QED BY <1>1, <1>2, <4>2
    <3>3. CASE y # z
      BY <1>1, <1>2, <3>1, <3>3 DEF Stored
    <3> QED BY <3>2, <3>3
  <2> QED BY <2>1, <2>2, <2>3, <2>4 DEF CreatorStep, Quiet
<1>5. CASE \E k, l \in Nodes : ServerEnqueue(k, l) \/ ServerPrefetch(k, l)
  <2>1. PICK k \in Nodes, l \in Nodes : ServerEnqueue(k, l) \/ ServerPrefetch(k, l)
    BY <1>5
  <2>2. wire \in [Nodes -> [Nodes -> Seq(Tasks)]]
    BY DEF TypeInv
  <2>3. CASE ServerEnqueue(k, l)
    <3>1. wire' = [wire EXCEPT ![k][l] = Tail(@)]
      BY <2>3 DEF ServerEnqueue
    <3>2. CASE k = n /\ l = m
      BY <2>3, <3>2
    <3>3. CASE ~(k = n /\ l = m)
      <4>1. wire'[n][m] = wire[n][m]
        BY <2>2, <3>1, <3>3
      <4> QED BY <1>2, <4>1
    <3> QED BY <3>2, <3>3
  <2>4. CASE ServerPrefetch(k, l)
    <3>1. PICK q \in Queues, t \in Tasks :
            /\ <<k, q, "public">> \in Slots
            /\ Moved(<<k, q, "public">>, <<k, l, "wire">>, t, FALSE)
      BY <2>4, ServerPrefetchEffect
    <3>2. y # <<k, q, "public">>
      BY <1>1
    <3>3. CASE y = <<k, l, "wire">>
      <4>1. Content(y)' = Append(Content(y), t)
        BY <1>1, <3>1, <3>2, <3>3 DEF Moved, Insert
      <4> QED BY <1>1, <1>2, <4>1
    <3>4. CASE y # <<k, l, "wire">>
      <4>1. Content(y)' = Content(y)
        BY <1>1, <3>1, <3>2, <3>4 DEF Moved
      <4> QED BY <1>1, <1>2, <4>1
    <3> QED BY <3>3, <3>4
  <2> QED BY <2>1, <2>3, <2>4
<1> QED BY <1>3, <1>4, <1>5, StepKinds

(* LandsWhereAsked: the server puts a task that is not at home where the   *)
(* placement function would have put it there, because the flags of the    *)
(* descriptor tell which functions have placed it.                         *)
THEOREM LandsWhereAskedAlways == Spec => LandsWhereAsked
<1> DEFINE Lands ==
      \A n, m \in Nodes :
        (/\ wire[n][m] # <<>> /\ wire'[n][m] = Tail(wire[n][m])
         /\ desc[Head(wire[n][m])].home # m)
        => LET t == Head(wire[n][m])
               inFront == asked[t] \cap AtFront # {} IN
           IF asked[t] \cap ToPrivate # {}
           THEN private'[m] = Insert(private[m], t, inFront)
           ELSE public'[m] = [public[m] EXCEPT ![QueueIndex(desc[t].level)] =
                                Insert(@, t, inFront)]
<1>1. IInv /\ [Next]_vars => Lands
  <2> SUFFICES ASSUME IInv, [Next]_vars, NEW n \in Nodes, NEW m \in Nodes,
                      wire[n][m] # <<>>, wire'[n][m] = Tail(wire[n][m]),
                      desc[Head(wire[n][m])].home # m
               PROVE  LET t == Head(wire[n][m])
                          inFront == asked[t] \cap AtFront # {} IN
                      IF asked[t] \cap ToPrivate # {}
                      THEN private'[m] = Insert(private[m], t, inFront)
                      ELSE public'[m] = [public[m] EXCEPT ![QueueIndex(desc[t].level)] =
                                           Insert(@, t, inFront)]
    OBVIOUS
  <2>1. SetupInv /\ TypeInv /\ JobInv /\ PlaceInv /\ FlagInv
    BY DEF IInv
  <2>2. ServerEnqueue(n, m)
    BY <2>1, OnlyServersReceive
  <2>3. PICK t \in Tasks : t = Head(wire[n][m])
    BY <2>1, <2>2, ServerEnqueueEffect
  <2>4. desc[t].home # m /\ Enqueue(m, t, desc[t].private, desc[t].front)
    BY <2>2, <2>3 DEF ServerEnqueue
  <2>5. /\ desc[t].front <=> asked[t] \cap AtFront # {}
        /\ desc[t].private <=> asked[t] \cap ToPrivate # {}
    <3>1. PICK y \in Slots : y = <<n, m, "wire">> /\ Content(y) = wire[n][m]
      BY SlotNames, Contents
    <3>2. At1(y, t) = 1
      <4>1. Content(y) \in Seq(Tasks)
        BY <2>1, ContentType
      <4>2. Content(y)[1] = t /\ 1 \in 1 .. Len(Content(y))
        BY <2>3, <3>1, <4>1
      <4>3. At1(y, t) \in Nat /\ At1(y, t) # 0 /\ At1(y, t) <= 1
        BY <2>1, <4>2, Present DEF PlaceInv
      <4> QED BY <4>3
    <3> QED BY <2>1, <3>2 DEF FlagInv
  <2>6. desc[t].front = (asked[t] \cap AtFront # {})
    BY <2>1, <2>5 DEF TypeInv, Descs
  <2>7. /\ private \in [Nodes -> Seq(Tasks)] /\ public \in [Nodes -> [Queues -> Seq(Tasks)]]
    BY <2>1 DEF TypeInv
  <2>8. CASE asked[t] \cap ToPrivate # {}
    <3>1. private' = [private EXCEPT ![m] = Insert(@, t, desc[t].front)]
      BY <2>4, <2>5, <2>8 DEF Enqueue
    <3>2. private'[m] = Insert(private[m], t, desc[t].front)
      BY <2>7, <3>1
    <3> QED BY <2>3, <2>6, <2>8, <3>2
  <2>9. CASE ~(asked[t] \cap ToPrivate # {})
    <3>1. public' = [public EXCEPT ![m][QueueIndex(desc[t].level)] = Insert(@, t, desc[t].front)]
      BY <2>4, <2>5, <2>9 DEF Enqueue
    <3>2. public'[m] = [public[m] EXCEPT ![QueueIndex(desc[t].level)] = Insert(@, t, desc[t].front)]
      BY <2>7, <3>1
    <3> QED BY <2>3, <2>6, <2>9, <3>2
  <2> QED BY <2>8, <2>9
<1>2. IInv /\ [Next]_vars => [Lands]_vars
  BY <1>1
<1> QED BY <1>2, Invariance, PTL DEF Spec, LandsWhereAsked
=============================================================================
