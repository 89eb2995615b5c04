------------------------ MODULE DescriptorQueueProofs ------------------------
(***************************************************************************)
(* Proofs about DescriptorQueue, for every set of threads and descriptors. *)
(***************************************************************************)
EXTENDS DescriptorQueue, Facts, FiniteSetTheorems, TLAPS

(***************************************************************************)
(* One dequeuer.                                                           *)
(***************************************************************************)

TypeInv ==
  /\ dequeuers \subseteq Dequeuers
  /\ head \in Nodes \cup {Null}
  /\ tail \in Nodes \cup {Null}
  /\ next \in [Nodes -> Nodes \cup {Null}]
  /\ locking \subseteq dequeuers
  /\ fresh \subseteq Nodes

LEMMA TypeStep == TypeInv /\ [Next]_vars => TypeInv'
<1> SUFFICES ASSUME TypeInv, [Next]_vars
             PROVE  TypeInv'
  OBVIOUS
<1> USE DEF TypeInv
<1>1. ASSUME NEW u \in Users, NEW d \in Nodes, EnqueueHead(u, d) PROVE TypeInv'
  BY <1>1 DEF EnqueueHead
<1>2. ASSUME NEW u \in Users, NEW d \in Nodes, EnqueueTail(u, d) PROVE TypeInv'
  BY <1>2 DEF EnqueueTail
<1>3. ASSUME NEW u \in Users, DequeueTest(u) PROVE TypeInv'
  BY <1>3 DEF DequeueTest
<1>4. ASSUME NEW u \in Users, DequeueTake(u) PROVE TypeInv'
  BY <1>4 DEF DequeueTake
<1>5. CASE UNCHANGED vars
  BY <1>5 DEF vars
<1> QED BY <1>1, <1>2, <1>3, <1>4, <1>5 DEF Next

(* Between its test and its lock, nobody empties the queue.                *)
SeenStays == Cardinality(dequeuers) <= 1 => ~crashed /\ (locking # {} => head # Null)

LEMMA AtMostOne ==
  ASSUME TypeInv, Cardinality(dequeuers) <= 1, NEW u \in dequeuers, NEW v \in dequeuers
  PROVE  u = v
<1>1. IsFiniteSet(dequeuers)
  BY UsersAssumption, FS_Subset DEF TypeInv
<1>2. {u, v} \subseteq dequeuers /\ Cardinality({u, v}) <= Cardinality(dequeuers)
  BY <1>1, FS_Subset
<1>3. u # v => Cardinality({u, v}) = 2
  <2> SUFFICES ASSUME u # v PROVE Cardinality({u, v}) = 2
    OBVIOUS
  <2>1. IsFiniteSet({u}) /\ Cardinality({u}) = 1 /\ v \notin {u}
    BY FS_Singleton
  <2>2. Cardinality({u} \cup {v}) = Cardinality({u}) + 1
    BY <2>1, FS_AddElement
  <2> QED BY <2>1, <2>2
<1>4. Cardinality(dequeuers) \in Nat /\ Cardinality({u, v}) \in Nat
  BY <1>1, <1>2, FS_CardinalityType, FS_Subset
<1> QED BY <1>2, <1>3, <1>4

LEMMA SeenStaysStep == TypeInv /\ SeenStays /\ [Next]_vars => SeenStays'
<1>d. [Next]_vars => dequeuers' = dequeuers
  BY DEF Next, vars, EnqueueHead, EnqueueTail, DequeueTest, DequeueTake
<1> SUFFICES ASSUME TypeInv, SeenStays, [Next]_vars, Cardinality(dequeuers) <= 1
             PROVE  ~crashed' /\ (locking' # {} => head' # Null)
  BY <1>d DEF SeenStays
<1>a. ~crashed /\ (locking # {} => head # Null) /\ locking \subseteq dequeuers
  BY DEF SeenStays, TypeInv
<1>1. ASSUME NEW u \in Users, NEW d \in Nodes, EnqueueHead(u, d) \/ EnqueueTail(u, d)
      PROVE  ~crashed' /\ (locking' # {} => head' # Null)
  BY <1>1, <1>a, NodesAssumption DEF EnqueueHead, EnqueueTail
<1>2. ASSUME NEW u \in Users, DequeueTest(u)
      PROVE  ~crashed' /\ (locking' # {} => head' # Null)
  BY <1>2, <1>a DEF DequeueTest
<1>3. ASSUME NEW u \in Users, DequeueTake(u)
      PROVE  ~crashed' /\ (locking' # {} => head' # Null)
  <2>1. \A v \in locking : v = u
    BY <1>3, <1>a, AtMostOne DEF DequeueTake
  <2> QED BY <1>3, <2>1, <1>a DEF DequeueTake
<1>4. CASE UNCHANGED vars
  BY <1>4, <1>a DEF vars
<1> QED BY <1>1, <1>2, <1>3, <1>4 DEF Next

(* A queue with a single dequeuing thread never dereferences null.         *)
THEOREM OneDequeuerIsSafe == Spec => []NoNullDeref
<1>1. Init => TypeInv /\ SeenStays
  BY DEF Init, TypeInv, SeenStays
<1>2. TypeInv /\ SeenStays /\ [Next]_vars => (TypeInv /\ SeenStays)'
  BY TypeStep, SeenStaysStep
<1>3. TypeInv /\ SeenStays => NoNullDeref
  BY DEF SeenStays, NoNullDeref
<1> QED BY <1>1, <1>2, <1>3, PTL DEF Spec

(***************************************************************************)
(* The list.                                                               *)
(***************************************************************************)

(* The pointers spell out the sequence s.                                  *)
Spells(s) ==
  /\ s = <<>> => head = Null /\ tail = Null
  /\ s # <<>> => head = s[1] /\ tail = s[Len(s)] /\ next[s[Len(s)]] = Null
  /\ \A i \in 1 .. Len(s) - 1 : next[s[i]] = s[i + 1]
  /\ \A i, j \in 1 .. Len(s) : s[i] = s[j] => i = j
  /\ \A i \in 1 .. Len(s) : s[i] \notin fresh

FreshNext == \A d \in fresh : next[d] = Null

IsList == TypeInv /\ FreshNext /\ \E s \in Seq(Nodes) : Spells(s)

LEMMA HeadStep ==
  ASSUME TypeInv, NEW s \in Seq(Nodes), Spells(s),
         NEW u \in Users, NEW d \in Nodes, EnqueueHead(u, d)
  PROVE  <<d>> \o s \in Seq(Nodes) /\ Spells(<<d>> \o s)'
<1>a. /\ d \in fresh /\ head' = d /\ fresh' = fresh \ {d}
      /\ next' = [next EXCEPT ![d] = head]
      /\ tail' = IF head = Null THEN d ELSE tail
      /\ next \in [Nodes -> Nodes \cup {Null}] /\ Null \notin Nodes
  BY NodesAssumption DEF EnqueueHead, TypeInv
<1>b. \A i \in 1 .. Len(s) : s[i] \in Nodes /\ s[i] # d /\ next'[s[i]] = next[s[i]]
  BY <1>a DEF Spells
<1> DEFINE t == <<d>> \o s
<1>1. /\ t \in Seq(Nodes) /\ Len(t) = Len(s) + 1 /\ t[1] = d
      /\ \A i \in 1 .. Len(s) : t[i + 1] = s[i]
  OBVIOUS
<1> HIDE DEF t
<1>2. Len(s) \in Nat /\ (s = <<>> <=> Len(s) = 0) /\ t # <<>>
  BY <1>1
<1>3. head' = t[1] /\ next'[d] = head
  BY <1>a, <1>1
<1>4. tail' = t[Len(t)] /\ next'[t[Len(t)]] = Null
  <2>1. CASE s = <<>>
    BY <2>1, <1>a, <1>1, <1>2, <1>3 DEF Spells
  <2>2. CASE s # <<>>
    <3>1. Len(s) \in 1 .. Len(s) /\ t[Len(t)] = s[Len(s)]
      BY <2>2, <1>1, <1>2
    <3>2. head # Null
      BY <2>2, <1>2, <1>a, <1>b DEF Spells
    <3> QED BY <2>2, <3>1, <3>2, <1>a, <1>b DEF Spells
  <2> QED BY <2>1, <2>2
<1>5. \A i \in 1 .. Len(t) - 1 : next'[t[i]] = t[i + 1]
  <2>1. TAKE i \in 1 .. Len(t) - 1
  <2>2. CASE i = 1
    <3>1. s # <<>> /\ t[2] = s[1]
      BY <2>1, <2>2, <1>1, <1>2
    <3> QED BY <2>2, <3>1, <1>1, <1>3 DEF Spells
  <2>3. CASE i # 1
    <3>1. PICK k \in 1 .. Len(s) - 1 : i = k + 1
      BY <2>1, <2>3, <1>1, <1>2
    <3>2. t[i] = s[k] /\ t[i + 1] = s[k + 1] /\ k \in 1 .. Len(s)
      BY <3>1, <1>1, <1>2
    <3> QED BY <3>1, <3>2, <1>b DEF Spells
  <2> QED BY <2>2, <2>3
<1>6. \A i \in 1 .. Len(t) : t[i] = d <=> i = 1
  <2>1. TAKE i \in 1 .. Len(t)
  <2>2. CASE i # 1
    <3>1. PICK k \in 1 .. Len(s) : i = k + 1
      BY <2>1, <2>2, <1>1, <1>2
    <3> QED BY <3>1, <2>2, <1>1, <1>b
  <2> QED BY <2>2, <1>1
<1>7. \A i, j \in 1 .. Len(t) : t[i] = t[j] => i = j
  <2>1. SUFFICES ASSUME NEW i \in 1 .. Len(t), NEW j \in 1 .. Len(t), t[i] = t[j]
                 PROVE  i = j
    OBVIOUS
  <2>2. CASE i # 1 /\ j # 1
    <3>1. PICK k \in 1 .. Len(s), m \in 1 .. Len(s) : i = k + 1 /\ j = m + 1
      BY <2>1, <2>2, <1>1, <1>2
    <3>2. s[k] = s[m]
      BY <3>1, <2>1, <1>1
    <3> QED BY <3>1, <3>2 DEF Spells
  <2> QED BY <2>1, <2>2, <1>6
<1>8. \A i \in 1 .. Len(t) : t[i] \notin fresh'
  <2>1. TAKE i \in 1 .. Len(t)
  <2>2. CASE i # 1
    <3>1. PICK k \in 1 .. Len(s) : i = k + 1
      BY <2>1, <2>2, <1>1, <1>2
    <3> QED BY <3>1, <1>1, <1>a DEF Spells
  <2> QED BY <2>2, <1>1, <1>a
<1>9. Spells(t)'
  BY <1>2, <1>3, <1>4, <1>5, <1>7, <1>8 DEF Spells
<1> QED BY <1>1, <1>9 DEF t

LEMMA TailStep ==
  ASSUME TypeInv, FreshNext, NEW s \in Seq(Nodes), Spells(s),
         NEW u \in Users, NEW d \in Nodes, EnqueueTail(u, d)
  PROVE  Append(s, d) \in Seq(Nodes) /\ Spells(Append(s, d))'
<1>a. /\ d \in fresh /\ tail' = d /\ fresh' = fresh \ {d} /\ next[d] = Null
      /\ head' = IF tail = Null THEN d ELSE head
      /\ next' = IF tail = Null THEN next ELSE [next EXCEPT ![tail] = d]
      /\ next \in [Nodes -> Nodes \cup {Null}] /\ Null \notin Nodes
  BY NodesAssumption DEF EnqueueTail, TypeInv, FreshNext
<1>b. \A i \in 1 .. Len(s) : s[i] \in Nodes /\ s[i] # d
  BY <1>a DEF Spells
<1> DEFINE t == Append(s, d)
<1>1. /\ t \in Seq(Nodes) /\ Len(t) = Len(s) + 1 /\ t[Len(t)] = d
      /\ \A i \in 1 .. Len(s) : t[i] = s[i]
  OBVIOUS
<1> HIDE DEF t
<1>2. Len(s) \in Nat /\ (s = <<>> <=> Len(s) = 0) /\ t # <<>>
  BY <1>1
<1>3. ASSUME s = <<>> PROVE Spells(t)'
  BY <1>3, <1>a, <1>1, <1>2 DEF Spells
<1>4. ASSUME s # <<>> PROVE Spells(t)'
  <2>1. /\ Len(s) \in 1 .. Len(s) /\ tail = s[Len(s)] /\ tail \in Nodes /\ tail # d
        /\ t[1] = s[1] /\ head = s[1]
    BY <1>4, <1>b, <1>1, <1>2 DEF Spells
  <2>2. next' = [next EXCEPT ![tail] = d] /\ head' = head
    BY <2>1, <1>a
  <2>3. \A i \in 1 .. Len(s) - 1 : s[i] # tail
    BY <2>1, <1>2 DEF Spells
  <2>4. next'[d] = Null /\ next'[tail] = d
    BY <2>1, <2>2, <1>a
  <2>5. \A i \in 1 .. Len(t) - 1 : next'[t[i]] = t[i + 1]
    <3>1. TAKE i \in 1 .. Len(t) - 1
    <3>2. CASE i = Len(s)
      BY <3>1, <3>2, <2>1, <2>4, <1>1, <1>2
    <3>3. CASE i # Len(s)
      <4>1. i \in 1 .. Len(s) - 1 /\ i \in 1 .. Len(s) /\ i + 1 \in 1 .. Len(s)
        BY <3>1, <3>3, <1>1, <1>2
      <4>2. next[s[i]] = s[i + 1] /\ t[i] = s[i] /\ t[i + 1] = s[i + 1]
        BY <4>1, <1>1 DEF Spells
      <4>3. next'[s[i]] = next[s[i]]
        BY <4>1, <2>2, <2>3, <1>a, <1>b
      <4> QED BY <4>2, <4>3
    <3> QED BY <3>2, <3>3
  <2>6. \A i, j \in 1 .. Len(t) : t[i] = t[j] => i = j
    <3>1. SUFFICES ASSUME NEW i \in 1 .. Len(t), NEW j \in 1 .. Len(t), t[i] = t[j]
                   PROVE  i = j
      OBVIOUS
    <3>2. /\ i = Len(t) \/ (i \in 1 .. Len(s) /\ t[i] = s[i])
          /\ j = Len(t) \/ (j \in 1 .. Len(s) /\ t[j] = s[j])
      BY <3>1, <1>1, <1>2
    <3> QED BY <3>1, <3>2, <1>1, <1>b DEF Spells
  <2>7. \A i \in 1 .. Len(t) : t[i] \notin fresh'
    <3>1. TAKE i \in 1 .. Len(t)
    <3>2. i = Len(t) \/ (i \in 1 .. Len(s) /\ t[i] = s[i])
      BY <3>1, <1>1, <1>2
    <3> QED BY <3>1, <3>2, <1>1, <1>a DEF Spells
  <2> QED BY <1>a, <1>1, <1>2, <2>1, <2>2, <2>4, <2>5, <2>6, <2>7 DEF Spells
<1> QED BY <1>1, <1>3, <1>4 DEF t

LEMMA TakeStep ==
  ASSUME TypeInv, NEW s \in Seq(Nodes), Spells(s), NEW u \in Users, DequeueTake(u)
  PROVE  IF s = <<>> THEN Spells(s)'
                     ELSE Tail(s) \in Seq(Nodes) /\ Spells(Tail(s))'
<1>a. /\ next' = next /\ fresh' = fresh
      /\ next \in [Nodes -> Nodes \cup {Null}] /\ Null \notin Nodes
  BY NodesAssumption DEF DequeueTake, TypeInv
<1>b. s = <<>> <=> head = Null
  <2>1. s # <<>> => 1 \in 1 .. Len(s) /\ s[1] # Null
    BY <1>a
  <2> QED BY <2>1 DEF Spells
<1>1. CASE head = Null
  BY <1>1, <1>a, <1>b DEF DequeueTake, Spells
<1>2. CASE head # Null
  <2> DEFINE t == Tail(s)
  <2>1. /\ s # <<>> /\ Len(s) \in Nat /\ Len(s) >= 1 /\ head = s[1]
        /\ \A i \in 1 .. Len(s) : s[i] \in Nodes
        /\ head' = next[head] /\ tail' = IF next[head] = Null THEN Null ELSE tail
    BY <1>2 DEF DequeueTake, Spells
  <2>2. /\ t \in Seq(Nodes) /\ Len(t) = Len(s) - 1
        /\ \A i \in 1 .. Len(t) : t[i] = s[i + 1]
    BY <2>1
  <2> HIDE DEF t
  <2>3. Len(t) \in Nat /\ (t = <<>> <=> Len(t) = 0)
    BY <2>2
  <2>4. \A i \in 1 .. Len(t) : i + 1 \in 1 .. Len(s) /\ i \in 1 .. Len(s) - 1
    BY <2>1, <2>2
  <2>5. \A i, j \in 1 .. Len(t) : t[i] = t[j] => i = j
    <3>1. SUFFICES ASSUME NEW i \in 1 .. Len(t), NEW j \in 1 .. Len(t), t[i] = t[j]
                   PROVE  i = j
      OBVIOUS
    <3>2. i + 1 \in 1 .. Len(s) /\ j + 1 \in 1 .. Len(s) /\ s[i + 1] = s[j + 1]
      BY <3>1, <2>2, <2>4
    <3>3. i + 1 = j + 1
      BY <3>2 DEF Spells
    <3> QED BY <3>3
  <2>6. \A i \in 1 .. Len(t) : t[i] \notin fresh'
    BY <2>2, <2>4, <1>a DEF Spells
  <2>7. \A i \in 1 .. Len(t) - 1 : next'[t[i]] = t[i + 1]
    <3>1. TAKE i \in 1 .. Len(t) - 1
    <3>2. i + 1 \in 1 .. Len(s) - 1 /\ t[i] = s[i + 1] /\ t[i + 1] = s[(i + 1) + 1]
      BY <3>1, <2>1, <2>2, <2>3
    <3> QED BY <3>2, <1>a DEF Spells
  <2>8. ASSUME Len(s) = 1 PROVE Spells(t)'
    <3>1. head' = Null /\ tail' = Null /\ t = <<>>
      BY <2>8, <2>1, <2>2, <2>3 DEF Spells
    <3> QED BY <3>1, <2>5, <2>6, <2>7 DEF Spells
  <2>9. ASSUME Len(s) # 1 PROVE Spells(t)'
    <3>1. /\ t # <<>> /\ Len(t) \in 1 .. Len(t) /\ t[Len(t)] = s[Len(s)]
          /\ 1 \in 1 .. Len(t) /\ t[1] = s[2] /\ 2 \in 1 .. Len(s) /\ 1 \in 1 .. Len(s) - 1
      BY <2>9, <2>1, <2>2, <2>3
    <3>2. next[head] = s[2] /\ s[2] # Null
      BY <3>1, <2>1, <1>a DEF Spells
    <3>3. head' = t[1] /\ tail' = t[Len(t)] /\ next'[t[Len(t)]] = Null
      BY <3>1, <3>2, <2>1, <1>a DEF Spells
    <3> QED BY <3>1, <3>3, <2>5, <2>6, <2>7 DEF Spells
  <2> QED BY <2>1, <2>2, <2>8, <2>9 DEF t
<1> QED BY <1>1, <1>2

LEMMA FreshNextStep ==
  TypeInv /\ FreshNext /\ (\E s \in Seq(Nodes) : Spells(s)) /\ [Next]_vars => FreshNext'
<1> SUFFICES ASSUME TypeInv, FreshNext, NEW s \in Seq(Nodes), Spells(s), [Next]_vars
             PROVE  FreshNext'
  OBVIOUS
<1>a. fresh \subseteq Nodes /\ next \in [Nodes -> Nodes \cup {Null}]
  BY DEF TypeInv
<1>1. ASSUME NEW u \in Users, NEW d \in Nodes, EnqueueHead(u, d) PROVE FreshNext'
  BY <1>1, <1>a DEF EnqueueHead, FreshNext
<1>2. ASSUME NEW u \in Users, NEW d \in Nodes, EnqueueTail(u, d) PROVE FreshNext'
  <2>1. tail # Null => tail \notin fresh
    BY DEF Spells
  <2> QED BY <1>2, <1>a, <2>1 DEF EnqueueTail, FreshNext
<1>3. ASSUME NEW u \in Users, DequeueTest(u) \/ DequeueTake(u) PROVE FreshNext'
  BY <1>3, <1>a DEF DequeueTest, DequeueTake, FreshNext
<1>4. CASE UNCHANGED vars
  BY <1>4 DEF vars, FreshNext
<1> QED BY <1>1, <1>2, <1>3, <1>4 DEF Next

(* However many threads put in and take out, the pointers of the queue     *)
(* always form a list without a repetition from head_ to tail_.            *)
THEOREM QueueIsAList == Spec => []IsList
<1>1. Init => IsList
  <2> SUFFICES ASSUME Init PROVE IsList
    OBVIOUS
  <2>1. <<>> \in Seq(Nodes) /\ Spells(<<>>)
    BY DEF Init, Spells
  <2> QED BY <2>1 DEF Init, IsList, TypeInv, FreshNext
<1>2. IsList /\ [Next]_vars => IsList'
  <2> SUFFICES ASSUME TypeInv, FreshNext, NEW s \in Seq(Nodes), Spells(s), [Next]_vars
               PROVE  \E t \in Seq(Nodes) : Spells(t)'
    BY TypeStep, FreshNextStep DEF IsList
  <2>1. ASSUME NEW u \in Users, DequeueTest(u) PROVE Spells(s)'
    BY <2>1 DEF DequeueTest, Spells
  <2>2. CASE UNCHANGED vars
    BY <2>2 DEF vars, Spells
  <2>3. ASSUME NEW u \in Users, NEW d \in Nodes, EnqueueHead(u, d)
        PROVE  \E t \in Seq(Nodes) : Spells(t)'
    BY <2>3, HeadStep
  <2>4. ASSUME NEW u \in Users, NEW d \in Nodes, EnqueueTail(u, d)
        PROVE  \E t \in Seq(Nodes) : Spells(t)'
    BY <2>4, TailStep
  <2>5. ASSUME NEW u \in Users, DequeueTake(u) PROVE \E t \in Seq(Nodes) : Spells(t)'
    BY <2>5, TakeStep
  <2> QED BY <2>1, <2>2, <2>3, <2>4, <2>5 DEF Next
<1> QED BY <1>1, <1>2, PTL DEF Spec

(***************************************************************************)
(* The content.                                                            *)
(***************************************************************************)

(* There is no room in a list for more than all descriptors.               *)
LEMMA SpellingFits ==
  ASSUME NEW s \in Seq(Nodes), Spells(s)
  PROVE  Len(s) <= Cardinality(Nodes) /\ Cardinality(Nodes) \in Nat
<1>1. s \in Injection(1 .. Len(s), Nodes)
  BY DEF Spells, Injection, IsInjective
<1>2. Cardinality(1 .. Len(s)) = Len(s)
  BY IntervalCount
<1> QED BY <1>1, <1>2, NodesAssumption, FS_Injection, FS_CardinalityType

(* Walk satisfies its equation, since with a list some function does.      *)
LEMMA WalkEquation ==
  ASSUME TypeInv, NEW s \in Seq(Nodes), Spells(s)
  PROVE  \A i \in 1 .. Cardinality(Nodes) + 1 :
           Walk[i] = IF i = 1 THEN head
                     ELSE IF Walk[i - 1] = Null THEN Null ELSE next[Walk[i - 1]]
<1> DEFINE N == Cardinality(Nodes)
           Solves(w) == w = [i \in 1 .. N + 1 |->
                               IF i = 1 THEN head
                               ELSE IF w[i - 1] = Null THEN Null ELSE next[w[i - 1]]]
           f == [i \in 1 .. N + 1 |-> IF i <= Len(s) THEN s[i] ELSE Null]
<1>1. N \in Nat /\ Len(s) <= N /\ Len(s) \in Nat
  BY SpellingFits
<1>2. \A i \in 1 .. Len(s) : s[i] \in Nodes /\ s[i] # Null
  BY NodesAssumption
<1>3. ASSUME NEW i \in 1 .. N + 1
      PROVE  f[i] = IF i = 1 THEN head
                    ELSE IF f[i - 1] = Null THEN Null ELSE next[f[i - 1]]
  <2>1. CASE i = 1
    BY <1>1, <1>3, <2>1 DEF Spells
  <2>2. CASE i # 1
    <3>1. i - 1 \in 1 .. N + 1 /\ i - 1 \in Nat /\ i \in Nat
      BY <1>1, <2>2
    <3>2. CASE i <= Len(s)
      <4>1. i - 1 \in 1 .. Len(s) - 1 /\ i - 1 \in 1 .. Len(s) /\ (i - 1) + 1 = i
        BY <1>1, <2>2, <3>2
      <4>2. f[i] = s[i] /\ f[i - 1] = s[i - 1]
        BY <3>1, <3>2, <4>1
      <4> QED BY <1>2, <2>2, <4>1, <4>2 DEF Spells
    <3>3. CASE i = Len(s) + 1
      <4>1. i - 1 = Len(s) /\ Len(s) \in 1 .. Len(s) /\ s # <<>>
        BY <1>1, <2>2, <3>3
      <4>2. f[i] = Null /\ f[i - 1] = s[Len(s)]
        BY <1>1, <3>1, <3>3, <4>1
      <4> QED BY <1>2, <2>2, <4>1, <4>2 DEF Spells
    <3>4. CASE i > Len(s) + 1
      <4>1. f[i] = Null /\ f[i - 1] = Null
        BY <1>1, <3>1, <3>4
      <4> QED BY <2>2, <4>1
    <3> QED BY <1>1, <3>1, <3>2, <3>3, <3>4
  <2> QED BY <2>1, <2>2
<1>4. Solves(f)
  BY <1>3
<1>5. Walk = CHOOSE w : Solves(w)
  BY DEF Walk
<1> HIDE DEF f
<1>6. Solves(Walk)
  BY <1>4, <1>5
<1> QED BY <1>6

LEMMA WalkSpells ==
  ASSUME TypeInv, NEW s \in Seq(Nodes), Spells(s)
  PROVE  \A i \in 1 .. Cardinality(Nodes) + 1 :
           Walk[i] = IF i <= Len(s) THEN s[i] ELSE Null
<1> DEFINE N == Cardinality(Nodes)
           Bad == {i \in 1 .. N + 1 : Walk[i] # IF i <= Len(s) THEN s[i] ELSE Null}
<1>1. N \in Nat /\ Len(s) <= N /\ Len(s) \in Nat
  BY SpellingFits
<1>2. SUFFICES ASSUME Bad # {} PROVE FALSE
  OBVIOUS
<1>3. Bad \subseteq Nat
  BY <1>1
<1>4. PICK i \in Bad : \A j \in Bad : i <= j
  <2> HIDE DEF Bad
  <2> QED BY <1>2, <1>3, Least
<1>5. i \in 1 .. N + 1 /\ Walk[i] # IF i <= Len(s) THEN s[i] ELSE Null
  BY <1>4
<1>6. Walk[i] = IF i = 1 THEN head
                ELSE IF Walk[i - 1] = Null THEN Null ELSE next[Walk[i - 1]]
  BY <1>5, WalkEquation
<1>7. \A j \in 1 .. Len(s) : s[j] \in Nodes /\ s[j] # Null
  BY NodesAssumption
<1>8. CASE i = 1
  BY <1>1, <1>5, <1>6, <1>8 DEF Spells
<1>9. CASE i # 1
  <2>1. i - 1 \in 1 .. N + 1 /\ i \in Nat /\ i - 1 \in Nat /\ i - 1 < i
    BY <1>1, <1>5, <1>9
  <2>2. i - 1 \notin Bad
    <3>1. i - 1 \in Bad => i <= i - 1
      BY <1>4
    <3> QED BY <2>1, <3>1
  <2>3. Walk[i - 1] = IF i - 1 <= Len(s) THEN s[i - 1] ELSE Null
    BY <2>1, <2>2
  <2>4. CASE i <= Len(s)
    <3>1. i - 1 \in 1 .. Len(s) - 1 /\ i - 1 \in 1 .. Len(s) /\ (i - 1) + 1 = i
      BY <1>1, <1>9, <2>1, <2>4
    <3>2. next[s[i - 1]] = s[i]
      BY <3>1 DEF Spells
    <3> QED BY <1>5, <1>6, <1>7, <1>9, <2>1, <2>3, <2>4, <3>1, <3>2
  <2>5. CASE i = Len(s) + 1
    <3>1. i - 1 = Len(s) /\ Len(s) \in 1 .. Len(s) /\ s # <<>> /\ ~(i <= Len(s))
      BY <1>1, <1>9, <2>1, <2>5
    <3>2. next[s[Len(s)]] = Null
      BY <3>1 DEF Spells
    <3> QED BY <1>1, <1>5, <1>6, <1>7, <1>9, <2>3, <3>1, <3>2
  <2>6. CASE i > Len(s) + 1
    <3>1. ~(i <= Len(s)) /\ ~(i - 1 <= Len(s))
      BY <1>1, <2>1, <2>6
    <3> QED BY <1>5, <1>6, <1>9, <2>3, <3>1
  <2> QED BY <1>1, <2>1, <2>4, <2>5, <2>6
<1> QED BY <1>8, <1>9

(* The walk from head_ visits the descriptors of the list, in its order.   *)
ContentSpelt == \A s \in Seq(Nodes) : TypeInv /\ Spells(s) => Content = s

LEMMA ContentIsSpelling == ContentSpelt
<1> SUFFICES ASSUME TypeInv, NEW s \in Seq(Nodes), Spells(s) PROVE Content = s
  BY DEF ContentSpelt
<1> DEFINE N == Cardinality(Nodes)
           Places == {i \in 1 .. N + 1 : Walk[i] # Null}
<1>1. N \in Nat /\ Len(s) <= N /\ Len(s) \in Nat
  BY SpellingFits
<1>2. \A i \in 1 .. N + 1 : Walk[i] = IF i <= Len(s) THEN s[i] ELSE Null
  BY WalkSpells
<1>3. \A i \in 1 .. Len(s) : s[i] # Null /\ i \in 1 .. N + 1
  BY <1>1, NodesAssumption
<1>4. Places = 1 .. Len(s)
  BY <1>1, <1>2, <1>3
<1>5. Cardinality(1 .. Len(s)) = Len(s)
  BY IntervalCount
<1>6. Content = [i \in 1 .. Len(s) |-> Walk[i]]
  BY <1>4, <1>5 DEF Content
<1>7. \A i \in 1 .. Len(s) : Walk[i] = s[i]
  BY <1>1, <1>2, <1>3
<1>8. Content = [i \in 1 .. Len(s) |-> s[i]]
  BY <1>6, <1>7
<1> QED BY <1>8

(* The pointers form one list, as ListShape puts it.                       *)
THEOREM ListIsSound == Spec => []ListShape
<1>1. IsList => ListShape
  <2> SUFFICES ASSUME TypeInv, NEW s \in Seq(Nodes), Spells(s) PROVE ListShape
    BY DEF IsList
  <2>1. Content = s
    BY ContentIsSpelling DEF ContentSpelt
  <2>2. \A i \in 1 .. Len(s) : s[i] \in Nodes /\ s[i] # Null
    BY NodesAssumption
  <2>3. Len(s) \in Nat /\ (Len(s) = 0 <=> s = <<>>)
    OBVIOUS
  <2>4. Len(s) > 0 => 1 \in 1 .. Len(s) /\ Len(s) \in 1 .. Len(s)
    BY <2>3
  <2> QED BY <2>1, <2>2, <2>3, <2>4 DEF ListShape, Spells
<1> QED BY <1>1, QueueIsAList, PTL

(***************************************************************************)
(* The refinement: Deque's content is what the walk finds.                 *)
(***************************************************************************)

LEMMA DequeStep ==
  IsList /\ IsList' /\ [Next]_vars => [D!Next]_(D!vars)
<1>a. ContentSpelt'
  BY ContentIsSpelling, PTL
<1> SUFFICES ASSUME IsList, IsList', [Next]_vars PROVE [D!Next]_(D!vars)
  OBVIOUS
<1>1. PICK s \in Seq(Nodes) : Spells(s)
  BY DEF IsList
<1>2. TypeInv /\ TypeInv' /\ FreshNext /\ Content = s
  BY <1>1, ContentIsSpelling DEF IsList, ContentSpelt
<1>3. ASSUME NEW t \in Seq(Nodes), Spells(t)' PROVE Content' = t
  BY <1>2, <1>3, <1>a DEF ContentSpelt
<1>4. ASSUME NEW u \in Users, NEW d \in Nodes, EnqueueHead(u, d) PROVE D!PutFirst(d)
  <2>1. Content' = <<d>> \o s
    BY <1>1, <1>2, <1>3, <1>4, HeadStep
  <2> QED BY <1>2, <1>4, <2>1 DEF EnqueueHead, D!PutFirst, D!Put
<1>5. ASSUME NEW u \in Users, NEW d \in Nodes, EnqueueTail(u, d) PROVE D!PutLast(d)
  <2>1. Content' = Append(s, d)
    BY <1>1, <1>2, <1>3, <1>5, TailStep
  <2> QED BY <1>2, <1>5, <2>1 DEF EnqueueTail, D!PutLast, D!Put
<1>6. ASSUME NEW u \in Users, DequeueTake(u)
      PROVE  D!TakeFirst \/ UNCHANGED D!vars
  <2>1. Content' = IF s = <<>> THEN s ELSE Tail(s)
    BY <1>1, <1>2, <1>3, <1>6, TakeStep
  <2> QED BY <1>2, <1>6, <2>1 DEF DequeueTake, D!TakeFirst, D!vars
<1>7. ASSUME UNCHANGED <<head, tail, next, fresh>> PROVE UNCHANGED D!vars
  <2>1. Spells(s)'
    BY <1>1, <1>7 DEF Spells
  <2> QED BY <1>2, <1>3, <1>7, <2>1 DEF D!vars
<1>8. ASSUME NEW u \in Users, DequeueTest(u) PROVE UNCHANGED D!vars
  BY <1>7, <1>8 DEF DequeueTest
<1>9. CASE UNCHANGED vars
  BY <1>7, <1>9 DEF vars
<1> QED BY <1>4, <1>5, <1>6, <1>8, <1>9 DEF Next, D!Next

(* Whatever the threads do, the queue behaves as a sequence that grows at  *)
(* both ends and shrinks at the front, each call taking effect at once.    *)
THEOREM QueueImplementsDeque == Spec => RefinesDeque
<1>1. Init => D!Init
  <2> SUFFICES ASSUME Init PROVE D!Init
    OBVIOUS
  <2>1. <<>> \in Seq(Nodes) /\ Spells(<<>>) /\ TypeInv
    BY DEF Init, Spells, TypeInv
  <2>2. Content = <<>>
    BY <2>1, ContentIsSpelling DEF ContentSpelt
  <2> QED BY <2>2 DEF Init, D!Init
<1> QED BY <1>1, QueueIsAList, DequeStep, PTL DEF Spec, RefinesDeque, D!Spec
=============================================================================
