---------------------------- MODULE MessageProofs ---------------------------
(***************************************************************************)
(* More about NodeComm and Broadcast, for every cluster: what the messages *)
(* of a switch will have a node do, which message announces which payload, *)
(* what a thief gets, and where the value of a broadcast is.  Each needs   *)
(* an invariant of its own, beside that of ClusterProofs.                  *)
(***************************************************************************)
EXTENDS ClusterProofs

(***************************************************************************)
(* The switches.  Node n has been told of the calls of creator c up to one,*)
(* by messages that it has received or will: Told is the setting it will   *)
(* have when it has received them all, and Latest the one that was asked.  *)
(***************************************************************************)

(* The last of the first k calls that is on or off is on.                  *)
Latest(s, k, on, off) ==
  \E i \in 1 .. k : s[i] = on /\ \A j \in 1 .. k : i < j => s[j] # on /\ s[j] # off

(* A node with setting b, when it has received the messages in q.          *)
Sets(msg, on, off) == msg.type = on \/ msg.type = off
Told(q, on, off, b) ==
  \/ /\ b
     /\ \A i \in 1 .. Len(q) : ~Sets(q[i], on, off)
  \/ \E i \in 1 .. Len(q) :
       q[i].type = on /\ \A j \in 1 .. Len(q) : i < j => ~Sets(q[j], on, off)

(* How many calls of c are in messages that have been sent to n.           *)
SentTo(c, n) ==
  IF pc[c] = "switch" /\ peer[c][1] <= n /\ n # c[1] THEN Len(made[c]) - 1 ELSE Len(made[c])

ToldOf(c, n) == chan[c[1]][n][MaxNvps]

AgreeOn(c) ==
  /\ \A k \in Nodes, n \in Nodes : \A i \in 1 .. Len(chan[k][n][MaxNvps]) :
       chan[k][n][MaxNvps][i].type \in SwitchCalls => k = c[1] /\ n # c[1]
  /\ \A n \in Nodes :
       /\ Told(ToldOf(c, n), "enable_prefetching", "disable_prefetching", prefetching[n])
            <=> Latest(made[c], SentTo(c, n), "enable_prefetching", "disable_prefetching")
       /\ Told(ToldOf(c, n), "enable_stealing", "disable_stealing", stealing[n])
            => Latest(made[c], SentTo(c, n), "enable_stealing", "disable_stealing")

OneCaller(c) == Creators = {c} /\ setup.calls \cap LocalCalls = {}
AgreeInv == \A c \in Creators : OneCaller(c) => AgreeOn(c)

LEMMA LatestNext ==
  ASSUME NEW r, NEW n \in Nat, NEW on, NEW off, on # off
  PROVE  Latest(r, n + 1, on, off) <=> (r[n + 1] = on \/ (r[n + 1] # off /\ Latest(r, n, on, off)))
<1>1. n + 1 \in 1 .. n + 1 /\ (\A j \in 1 .. n + 1 : ~(n + 1 < j))
      /\ \A i \in 1 .. n : i \in 1 .. n + 1 /\ i < n + 1
  OBVIOUS
<1>2. \A i \in 1 .. n + 1 : i = n + 1 \/ i \in 1 .. n
  OBVIOUS
<1>3. CASE r[n + 1] = on
  BY <1>1, <1>3 DEF Latest
<1>4. CASE r[n + 1] # on /\ r[n + 1] = off
  BY <1>1, <1>2, <1>4 DEF Latest
<1>5. CASE r[n + 1] # on /\ r[n + 1] # off
  BY <1>1, <1>2, <1>5 DEF Latest
<1> QED BY <1>3, <1>4, <1>5

LEMMA LatestAppend ==
  ASSUME NEW S, NEW s \in Seq(S), NEW x \in S, NEW on, NEW off, on # off
  PROVE  /\ Latest(Append(s, x), Len(s), on, off) <=> Latest(s, Len(s), on, off)
         /\ Len(Append(s, x)) = Len(s) + 1
         /\ Latest(Append(s, x), Len(s) + 1, on, off)
              <=> (x = on \/ (x # off /\ Latest(s, Len(s), on, off)))
<1>1. PICK n \in Nat : n = Len(s)
  BY LenProperties
<1>2. PICK r : r = Append(s, x)
  OBVIOUS
<1>3. /\ Len(r) = n + 1 /\ r[n + 1] = x
      /\ \A i \in 1 .. n : r[i] = s[i]
  BY <1>1, <1>2, AppendProperties
<1>4. Latest(r, n, on, off) <=> Latest(s, n, on, off)
  BY <1>3 DEF Latest
<1>5. Latest(r, n + 1, on, off) <=> (x = on \/ (x # off /\ Latest(r, n, on, off)))
  <2>1. Latest(r, n + 1, on, off) <=> (r[n + 1] = on \/ (r[n + 1] # off /\ Latest(r, n, on, off)))
    BY LatestNext
  <2> QED BY Zenon, <1>3, <2>1
<1> QED BY <1>1, <1>2, <1>3, <1>4, <1>5

(* LastOn, the definition of the model, says the same.                     *)
LEMMA LastOnIsLatest ==
  ASSUME NEW S, NEW s \in Seq(S), NEW on, NEW off, on # off
  PROVE  LastOn(s, on, off) <=> Latest(s, Len(s), on, off)
<1> DEFINE I == {i \in 1 .. Len(s) : s[i] \in {on, off}}
<1>1. DOMAIN s = 1 .. Len(s) /\ Len(s) \in Nat
  BY LenProperties
<1>2. LastOn(s, on, off) <=> I # {} /\ s[Max(I)] = on
  BY <1>1 DEF LastOn
<1>3. ASSUME I # {} PROVE Max(I) \in I /\ \A i \in I : Max(I) >= i
  <2>1. IsFiniteSet(I)
    <3>1. IsFiniteSet(1 .. Len(s))
      BY <1>1, FS_Interval
    <3> QED BY <3>1, FS_Subset
  <2>2. \E x \in I : \A y \in I : x >= y
    <3> DEFINE J == {k \in Nat : \A y \in I : k >= y}
    <3>1. Len(s) \in J
      BY <1>1
    <3>2. PICK k \in J : \A j \in J : k <= j
      BY <3>1, Least
    <3>3. k \in Nat /\ \A y \in I : k >= y
      BY <3>2
    <3>4. CASE k \in I
      BY <3>3, <3>4
    <3>5. CASE k \notin I
      <4>1. \A y \in I : y \in Nat /\ y <= k /\ y # k /\ y >= 1
        BY <1>1, <3>3, <3>5
      <4>2. k - 1 \in Nat /\ \A y \in I : k - 1 >= y
        BY <1>3, <3>3, <4>1
      <4>3. k - 1 \in J
        BY <4>2
      <4>4. k <= k - 1
        BY <3>2, <4>3
      <4> QED BY <3>3, <4>4
    <3> QED BY <3>4, <3>5
  <2> QED BY <2>2 DEF Max
<1>4. ASSUME I # {}, s[Max(I)] = on PROVE Latest(s, Len(s), on, off)
  <2>1. PICK m \in I : m = Max(I) /\ \A i \in I : m >= i
    BY <1>3, <1>4
  <2>2. m \in 1 .. Len(s) /\ s[m] = on
    BY <1>4, <2>1
  <2>3. \A j \in 1 .. Len(s) : m < j => j \notin I
    BY <1>1, <2>1
  <2> QED BY <2>2, <2>3 DEF Latest
<1>5. ASSUME Latest(s, Len(s), on, off) PROVE I # {} /\ s[Max(I)] = on
  <2>1. PICK i \in 1 .. Len(s) : s[i] = on /\ \A j \in 1 .. Len(s) : i < j => s[j] # on /\ s[j] # off
    BY <1>5 DEF Latest
  <2>2. i \in I
    BY <2>1
  <2>3. PICK m \in I : m = Max(I) /\ \A k \in I : m >= k
    BY <1>3, <2>2
  <2>4. ~(i < m) /\ m >= i
    BY <2>1, <2>2, <2>3
  <2>5. m = i
    BY <1>1, <2>3, <2>4
  <2> QED BY <2>1, <2>2, <2>3, <2>5
<1> QED BY <1>2, <1>4, <1>5

LEMMA ToldAppend ==
  ASSUME NEW S, NEW q \in Seq(S), NEW msg \in S, NEW on, NEW off, NEW b \in BOOLEAN, on # off
  PROVE  Told(Append(q, msg), on, off, b)
           <=> (msg.type = on \/ (msg.type # off /\ Told(q, on, off, b)))
<1> DEFINE r == Append(q, msg)
           n == Len(q)
<1>1. /\ n \in Nat /\ Len(r) = n + 1 /\ r[n + 1] = msg
      /\ \A i \in 1 .. n : r[i] = q[i]
  BY AppendProperties, LenProperties
<1>2. n + 1 \in 1 .. n + 1 /\ (\A j \in 1 .. n + 1 : ~(n + 1 < j)) /\ \A i \in 1 .. n : i \in 1 .. n + 1 /\ i < n + 1
  BY <1>1
<1>3. \A i \in 1 .. n + 1 : i = n + 1 \/ i \in 1 .. n
  BY <1>1
<1>d. /\ Told(r, on, off, b) <=>
           (b /\ \A i \in 1 .. n + 1 : ~Sets(r[i], on, off))
             \/ \E i \in 1 .. n + 1 : r[i].type = on /\ \A j \in 1 .. n + 1 : i < j => ~Sets(r[j], on, off)
      /\ Told(q, on, off, b) <=>
           (b /\ \A i \in 1 .. n : ~Sets(q[i], on, off))
             \/ \E i \in 1 .. n : q[i].type = on /\ \A j \in 1 .. n : i < j => ~Sets(q[j], on, off)
  BY <1>1 DEF Told
<1> HIDE DEF r, n
<1>4. CASE msg.type = on
  BY <1>1, <1>2, <1>4, <1>d DEF Sets, r
<1>5. CASE msg.type # on /\ msg.type = off
  <2>1. Sets(r[n + 1], on, off) /\ r[n + 1].type # on
    BY <1>1, <1>5 DEF Sets
  <2>2. ASSUME NEW i \in 1 .. n + 1, r[i].type = on, \A j \in 1 .. n + 1 : i < j => ~Sets(r[j], on, off)
        PROVE  FALSE
    BY <1>2, <1>3, <2>1, <2>2
  <2> QED BY <1>2, <1>5, <1>d, <2>1, <2>2 DEF r
<1>6. CASE msg.type # on /\ msg.type # off
  <2>1. ~Sets(r[n + 1], on, off) /\ r[n + 1].type # on
    BY <1>1, <1>6 DEF Sets
  <2>2. (\A i \in 1 .. n + 1 : ~Sets(r[i], on, off)) <=> \A i \in 1 .. n : ~Sets(q[i], on, off)
    BY <1>1, <1>2, <1>3, <2>1
  <2>3. (\E i \in 1 .. n + 1 : r[i].type = on /\ \A j \in 1 .. n + 1 : i < j => ~Sets(r[j], on, off))
          <=> \E i \in 1 .. n : q[i].type = on /\ \A j \in 1 .. n : i < j => ~Sets(q[j], on, off)
    <3>1. ASSUME NEW i \in 1 .. n + 1, r[i].type = on, \A j \in 1 .. n + 1 : i < j => ~Sets(r[j], on, off)
          PROVE  i \in 1 .. n /\ q[i].type = on /\ \A j \in 1 .. n : i < j => ~Sets(q[j], on, off)
      BY <1>1, <1>2, <1>3, <2>1, <3>1
    <3>2. ASSUME NEW i \in 1 .. n, q[i].type = on, \A j \in 1 .. n : i < j => ~Sets(q[j], on, off)
          PROVE  i \in 1 .. n + 1 /\ r[i].type = on /\ \A j \in 1 .. n + 1 : i < j => ~Sets(r[j], on, off)
      BY <1>1, <1>2, <1>3, <2>1, <3>2
    <3> QED BY <3>1, <3>2
  <2> QED BY <1>6, <1>d, <2>2, <2>3 DEF r
<1> QED BY <1>4, <1>5, <1>6

LEMMA ToldTail ==
  ASSUME NEW S, NEW q \in Seq(S), q # <<>>, NEW on, NEW off, NEW b \in BOOLEAN, NEW d \in BOOLEAN, on # off,
         Head(q).type = on => d, Head(q).type = off => ~d,
         Head(q).type # on /\ Head(q).type # off => d = b
  PROVE  Told(Tail(q), on, off, d) <=> Told(q, on, off, b)
<1> DEFINE r == Tail(q)
           n == Len(r)
<1>1. /\ n \in Nat /\ Len(q) = n + 1 /\ q[1] = Head(q)
      /\ \A i \in 1 .. n : r[i] = q[i + 1]
  BY HeadTailProperties, LenProperties
<1>2. 1 \in 1 .. n + 1 /\ \A i \in 1 .. n : i + 1 \in 1 .. n + 1 /\ 1 < i + 1
  BY <1>1
<1>3. \A i \in 1 .. n + 1 : i = 1 \/ \E k \in 1 .. n : i = k + 1
  <2> TAKE i \in 1 .. n + 1
  <2>1. CASE i # 1
    <3>1. i - 1 \in 1 .. n /\ i = (i - 1) + 1
      BY <1>1, <2>1
    <3> QED BY <3>1
  <2> QED BY <2>1
<1>d. /\ Told(r, on, off, d) <=>
           (d /\ \A i \in 1 .. n : ~Sets(r[i], on, off))
             \/ \E i \in 1 .. n : r[i].type = on /\ \A j \in 1 .. n : i < j => ~Sets(r[j], on, off)
      /\ Told(q, on, off, b) <=>
           (b /\ \A i \in 1 .. n + 1 : ~Sets(q[i], on, off))
             \/ \E i \in 1 .. n + 1 : q[i].type = on /\ \A j \in 1 .. n + 1 : i < j => ~Sets(q[j], on, off)
  BY <1>1 DEF Told
<1>4. PICK h : h = Head(q).type
  OBVIOUS
<1> HIDE DEF r, n
<1>5. (\A i \in 1 .. n + 1 : ~Sets(q[i], on, off))
        <=> (h # on /\ h # off /\ \A i \in 1 .. n : ~Sets(r[i], on, off))
  <2>1. \A i \in 1 .. n : Sets(q[i + 1], on, off) <=> Sets(r[i], on, off)
    BY <1>1
  <2>2. Sets(q[1], on, off) <=> h = on \/ h = off
    BY <1>1, <1>4 DEF Sets
  <2>3. (\A i \in 1 .. n + 1 : ~Sets(q[i], on, off))
          <=> (~Sets(q[1], on, off) /\ \A i \in 1 .. n : ~Sets(q[i + 1], on, off))
    <3> HIDE DEF Sets
    <3> QED BY <1>2, <1>3
  <2> QED BY <2>1, <2>2, <2>3
<1>6. (\E i \in 1 .. n + 1 : q[i].type = on /\ \A j \in 1 .. n + 1 : i < j => ~Sets(q[j], on, off))
        <=> \/ h = on /\ \A i \in 1 .. n : ~Sets(r[i], on, off)
            \/ \E i \in 1 .. n : r[i].type = on /\ \A j \in 1 .. n : i < j => ~Sets(r[j], on, off)
  <2>1. ASSUME NEW i \in 1 .. n + 1, q[i].type = on, \A j \in 1 .. n + 1 : i < j => ~Sets(q[j], on, off)
        PROVE  \/ h = on /\ \A k \in 1 .. n : ~Sets(r[k], on, off)
               \/ \E k \in 1 .. n : r[k].type = on /\ \A j \in 1 .. n : k < j => ~Sets(r[j], on, off)
    <3>1. CASE i = 1
      BY <1>1, <1>2, <1>4, <2>1, <3>1
    <3>2. CASE i # 1
      <4>1. PICK k \in 1 .. n : i = k + 1
        BY <1>3, <3>2
      <4>2. \A j \in 1 .. n : k < j => i < j + 1
        BY <1>1, <4>1
      <4>3. r[k].type = on /\ \A j \in 1 .. n : k < j => ~Sets(r[j], on, off)
        BY <1>1, <1>2, <2>1, <4>1, <4>2
      <4> QED BY <4>3
    <3> QED BY <3>1, <3>2
  <2>2. ASSUME h = on, \A k \in 1 .. n : ~Sets(r[k], on, off)
        PROVE  q[1].type = on /\ \A j \in 1 .. n + 1 : 1 < j => ~Sets(q[j], on, off)
    BY <1>1, <1>3, <1>4, <2>2
  <2>3. ASSUME NEW i \in 1 .. n, r[i].type = on, \A j \in 1 .. n : i < j => ~Sets(r[j], on, off)
        PROVE  q[i + 1].type = on /\ \A j \in 1 .. n + 1 : i + 1 < j => ~Sets(q[j], on, off)
    <3>1. ASSUME NEW j \in 1 .. n + 1, i + 1 < j PROVE ~Sets(q[j], on, off)
      <4>1. PICK k \in 1 .. n : j = k + 1
        BY <1>1, <1>3, <3>1
      <4>2. i < k
        BY <1>1, <3>1, <4>1
      <4> QED BY <1>1, <2>3, <4>1, <4>2
    <3> QED BY <1>1, <2>3, <3>1
  <2> QED BY <1>2, <2>1, <2>2, <2>3
<1>7. CASE h = on
  BY <1>4, <1>5, <1>6, <1>7, <1>d DEF r
<1>8. CASE h = off
  BY <1>4, <1>5, <1>6, <1>8, <1>d DEF r
<1>9. CASE h # on /\ h # off
  BY <1>4, <1>5, <1>6, <1>9, <1>d DEF r
<1> QED BY <1>7, <1>8, <1>9

LEMMA ToldMore ==
  ASSUME NEW q, NEW on, NEW off, NEW b \in BOOLEAN, NEW d \in BOOLEAN, d => b, Told(q, on, off, d)
  PROVE  Told(q, on, off, b)
BY DEF Told

(* Messages that have nothing to do with the switches.                     *)
OtherLetters ==
  \A a \in Nodes, b \in Nodes :
    \/ chan'[a][b][MaxNvps] = chan[a][b][MaxNvps]
    \/ \E msg \in AnyMessage :
         msg.type \notin SwitchCalls /\ chan'[a][b][MaxNvps] = Append(chan[a][b][MaxNvps], msg)
    \/ /\ chan[a][b][MaxNvps] # <<>> /\ Head(chan[a][b][MaxNvps]).type \notin SwitchCalls
       /\ chan'[a][b][MaxNvps] = Tail(chan[a][b][MaxNvps])

LEMMA LettersSame == ASSUME UNCHANGED chan PROVE OtherLetters
BY DEF OtherLetters

LEMMA LettersSent ==
  ASSUME ShapeInv, Same, NEW n \in Nodes, NEW m \in Nodes, NEW tag \in Tags,
         \E msg \in Messages(tag) : msg.type \notin SwitchCalls /\ Post(n, m, tag, msg)
  PROVE  OtherLetters
<1>0. SetupInv /\ Channels /\ MaxNvps \in Tags
  BY TagFacts DEF ShapeInv
<1>1. PICK msg \in Messages(tag) : msg.type \notin SwitchCalls /\ Post(n, m, tag, msg)
  OBVIOUS
<1>2. /\ chan'[n][m][tag] = Append(chan[n][m][tag], msg)
      /\ \A a \in Nodes, b \in Nodes, g \in Tags : <<a, b, g>> # <<n, m, tag>> =>
           chan'[a][b][g] = chan[a][b][g]
  BY <1>0, <1>1, PostEffect
<1>3. msg \in AnyMessage
  BY DEF Messages
<1>4. ASSUME NEW a \in Nodes, NEW b \in Nodes
      PROVE  \/ chan'[a][b][MaxNvps] = chan[a][b][MaxNvps]
             \/ chan'[a][b][MaxNvps] = Append(chan[a][b][MaxNvps], msg)
  <2>1. CASE <<a, b, MaxNvps>> = <<n, m, tag>>
    BY <1>2, <2>1
  <2>2. CASE <<a, b, MaxNvps>> # <<n, m, tag>>
    BY <1>0, <1>2, <2>2
  <2> QED BY <2>1, <2>2
<1> QED BY <1>1, <1>3, <1>4 DEF OtherLetters

LEMMA LettersTaken ==
  ASSUME ShapeInv, Same, NEW n \in Nodes, NEW m \in Nodes, NEW tag \in Tags,
         chan[n][m][tag] # <<>>, Take(n, m, tag),
         tag # MaxNvps \/ Head(chan[n][m][tag]).type \notin SwitchCalls
  PROVE  OtherLetters
<1>0. SetupInv /\ Channels /\ MaxNvps \in Tags
  BY TagFacts DEF ShapeInv
<1>2. /\ chan'[n][m][tag] = Tail(chan[n][m][tag])
      /\ \A a \in Nodes, b \in Nodes, g \in Tags : <<a, b, g>> # <<n, m, tag>> =>
           chan'[a][b][g] = chan[a][b][g]
  BY <1>0, TakeEffect
<1>4. ASSUME NEW a \in Nodes, NEW b \in Nodes
      PROVE  \/ chan'[a][b][MaxNvps] = chan[a][b][MaxNvps]
             \/ /\ chan[a][b][MaxNvps] # <<>> /\ Head(chan[a][b][MaxNvps]).type \notin SwitchCalls
                /\ chan'[a][b][MaxNvps] = Tail(chan[a][b][MaxNvps])
  <2>1. CASE <<a, b, MaxNvps>> = <<n, m, tag>>
    BY <1>2, <2>1
  <2>2. CASE <<a, b, MaxNvps>> # <<n, m, tag>>
    BY <1>0, <1>2, <2>2
  <2> QED BY <2>1, <2>2
<1> QED BY <1>4 DEF OtherLetters

LEMMA ServedLetters ==
  ASSUME ShapeInv, Same, NEW s \in Servers, NEW n \in Nodes, NEW type, Serves(s, n, type),
         type \notin SwitchCalls
  PROVE  OtherLetters
<1>1. PICK msg : msg = Head(chan[n][s[1]][MaxNvps])
  OBVIOUS
<1>2. /\ s[1] \in Nodes /\ MaxNvps \in Tags /\ msg.type = type
      /\ chan[n][s[1]][MaxNvps] # <<>> /\ Take(n, s[1], MaxNvps)
  BY <1>1, ServesEffect
<1> QED BY <1>1, <1>2, LettersTaken

(* What the switches have to do with one channel.                          *)
LEMMA LettersCount ==
  ASSUME ShapeInv, OtherLetters, NEW a \in Nodes, NEW b \in Nodes
  PROVE  /\ (\E i \in 1 .. Len(chan'[a][b][MaxNvps]) : chan'[a][b][MaxNvps][i].type \in SwitchCalls)
              => \E i \in 1 .. Len(chan[a][b][MaxNvps]) : chan[a][b][MaxNvps][i].type \in SwitchCalls
         /\ \A on, off \in SwitchCalls : \A d \in BOOLEAN : on # off =>
              (Told(chan'[a][b][MaxNvps], on, off, d) <=> Told(chan[a][b][MaxNvps], on, off, d))
<1>1. PICK q \in Seq(AnyMessage) : q = chan[a][b][MaxNvps]
  BY TagFacts DEF ShapeInv, Channels
<1>2. PICK r : r = chan'[a][b][MaxNvps]
  OBVIOUS
<1>3. CASE r = q
  BY <1>1, <1>2, <1>3
<1>4. ASSUME NEW msg \in AnyMessage, msg.type \notin SwitchCalls, r = Append(q, msg)
      PROVE  /\ (\E i \in 1 .. Len(r) : r[i].type \in SwitchCalls)
                  => \E i \in 1 .. Len(q) : q[i].type \in SwitchCalls
             /\ \A on, off \in SwitchCalls : \A d \in BOOLEAN : on # off =>
                  (Told(r, on, off, d) <=> Told(q, on, off, d))
  <2>1. Len(q) \in Nat /\ Len(r) = Len(q) + 1 /\ r[Len(q) + 1] = msg
        /\ \A i \in 1 .. Len(q) : r[i] = q[i]
    BY <1>4, AppendProperties, LenProperties
  <2>2. \A i \in 1 .. Len(r) : i = Len(q) + 1 \/ i \in 1 .. Len(q)
    BY <2>1
  <2>3. ASSUME NEW on \in SwitchCalls, NEW off \in SwitchCalls, NEW d \in BOOLEAN, on # off
        PROVE  Told(r, on, off, d) <=> Told(q, on, off, d)
    <3>1. msg.type # on /\ msg.type # off
      BY <1>4
    <3> QED BY <1>4, <2>3, <3>1, ToldAppend
  <2> QED BY <1>4, <2>1, <2>2, <2>3
<1>5. ASSUME q # <<>>, Head(q).type \notin SwitchCalls, r = Tail(q)
      PROVE  /\ (\E i \in 1 .. Len(r) : r[i].type \in SwitchCalls)
                  => \E i \in 1 .. Len(q) : q[i].type \in SwitchCalls
             /\ \A on, off \in SwitchCalls : \A d \in BOOLEAN : on # off =>
                  (Told(r, on, off, d) <=> Told(q, on, off, d))
  <2>1. Len(r) \in Nat /\ Len(q) = Len(r) + 1 /\ \A i \in 1 .. Len(r) : r[i] = q[i + 1]
    BY <1>5, HeadTailProperties, LenProperties
  <2>2. \A i \in 1 .. Len(r) : i + 1 \in 1 .. Len(q)
    BY <2>1
  <2>3. ASSUME NEW on \in SwitchCalls, NEW off \in SwitchCalls, NEW d \in BOOLEAN, on # off
        PROVE  Told(r, on, off, d) <=> Told(q, on, off, d)
    <3>1. Head(q).type # on /\ Head(q).type # off
      BY <1>5
    <3> QED BY <1>5, <2>3, <3>1, ToldTail
  <2> QED BY <2>1, <2>2, <2>3
<1>6. \/ r = q
      \/ \E msg \in AnyMessage : msg.type \notin SwitchCalls /\ r = Append(q, msg)
      \/ q # <<>> /\ Head(q).type \notin SwitchCalls /\ r = Tail(q)
  BY <1>1, <1>2 DEF OtherLetters
<1>7. /\ (\E i \in 1 .. Len(r) : r[i].type \in SwitchCalls)
           => \E i \in 1 .. Len(q) : q[i].type \in SwitchCalls
      /\ \A on, off \in SwitchCalls : \A d \in BOOLEAN : on # off =>
           (Told(r, on, off, d) <=> Told(q, on, off, d))
  BY <1>3, <1>4, <1>5, <1>6
<1> QED BY <1>1, <1>2, <1>7

(***************************************************************************)
(* Every step but those of the switches: it lets a node steal no more.     *)
(***************************************************************************)
LEMMA Setting ==
  ASSUME ShapeInv
  PROVE  \A n \in Nodes : stealing[n] \in BOOLEAN /\ prefetching[n] \in BOOLEAN
BY DEF ShapeInv, SwitchTypes

LEMMA AgreeStays ==
  ASSUME ShapeInv, Same, NEW c \in Creators, AgreeOn(c), OtherLetters, UNCHANGED <<prefetching, made>>,
         UNCHANGED stealing \/ \E k \in Nodes : stealing' = [stealing EXCEPT ![k] = FALSE],
         \A n \in Nodes : SentTo(c, n)' = SentTo(c, n)
  PROVE  AgreeOn(c)'
<1>0. c[1] \in Nodes /\ Nodes' = Nodes
  BY WorkerFacts DEF ShapeInv, Same
<1>1. ASSUME NEW k \in Nodes, NEW n \in Nodes, NEW i \in 1 .. Len(chan'[k][n][MaxNvps]),
             chan'[k][n][MaxNvps][i].type \in SwitchCalls
      PROVE  k = c[1] /\ n # c[1]
  <2>1. \E j \in 1 .. Len(chan[k][n][MaxNvps]) : chan[k][n][MaxNvps][j].type \in SwitchCalls
    BY <1>1, LettersCount
  <2> QED BY <2>1 DEF AgreeOn
<1>2. ASSUME NEW n \in Nodes
      PROVE  /\ Told(ToldOf(c, n)', "enable_prefetching", "disable_prefetching", prefetching'[n])
                  <=> Latest(made'[c], SentTo(c, n)', "enable_prefetching", "disable_prefetching")
             /\ Told(ToldOf(c, n)', "enable_stealing", "disable_stealing", stealing'[n])
                  => Latest(made'[c], SentTo(c, n)', "enable_stealing", "disable_stealing")
  <2>1. \A on, off \in SwitchCalls : \A d \in BOOLEAN : on # off =>
          (Told(ToldOf(c, n)', on, off, d) <=> Told(ToldOf(c, n), on, off, d))
    BY <1>0, LettersCount DEF ToldOf
  <2>2. /\ stealing[n] \in BOOLEAN /\ prefetching[n] \in BOOLEAN
        /\ stealing'[n] \in BOOLEAN /\ (stealing'[n] => stealing[n])
    <3>1. stealing \in [Nodes -> BOOLEAN] /\ prefetching \in [Nodes -> BOOLEAN]
      BY DEF ShapeInv, SwitchTypes
    <3> QED BY <3>1
  <2>3. PICK d \in BOOLEAN : d = stealing'[n]
    BY <2>2
  <2>4. PICK b \in BOOLEAN : b = stealing[n]
    BY <2>2
  <2>5. PICK p \in BOOLEAN : p = prefetching[n]
    BY <2>2
  <2>6. prefetching'[n] = p /\ made' = made /\ SentTo(c, n)' = SentTo(c, n)
    BY <2>5
  <2>7. /\ Told(ToldOf(c, n), "enable_prefetching", "disable_prefetching", p)
             <=> Latest(made[c], SentTo(c, n), "enable_prefetching", "disable_prefetching")
        /\ Told(ToldOf(c, n), "enable_stealing", "disable_stealing", b)
             => Latest(made[c], SentTo(c, n), "enable_stealing", "disable_stealing")
    BY <2>4, <2>5 DEF AgreeOn
  <2>8. Told(ToldOf(c, n)', "enable_prefetching", "disable_prefetching", p)
          <=> Told(ToldOf(c, n), "enable_prefetching", "disable_prefetching", p)
    BY <2>1 DEF SwitchCalls
  <2>9. Told(ToldOf(c, n)', "enable_stealing", "disable_stealing", d)
          => Told(ToldOf(c, n), "enable_stealing", "disable_stealing", b)
    <3>1. Told(ToldOf(c, n)', "enable_stealing", "disable_stealing", d)
            <=> Told(ToldOf(c, n), "enable_stealing", "disable_stealing", d)
      BY <2>1 DEF SwitchCalls
    <3>2. d => b
      BY <2>2, <2>3, <2>4
    <3>3. Told(ToldOf(c, n), "enable_stealing", "disable_stealing", d)
            => Told(ToldOf(c, n), "enable_stealing", "disable_stealing", b)
      BY <3>2, ToldMore
    <3> QED BY <3>1, <3>3
  <2> HIDE DEF Told, Latest, SentTo, ToldOf
  <2> QED BY <2>3, <2>6, <2>7, <2>8, <2>9
<1> QED BY <1>0, <1>1, <1>2 DEF AgreeOn

LEMMA AgreeQuiet ==
  ASSUME ShapeInv, Same, AgreeInv, NEW th \in Threads, Alone(th), OtherLetters,
         UNCHANGED <<prefetching, made>>,
         UNCHANGED stealing \/ \E k \in Nodes : stealing' = [stealing EXCEPT ![k] = FALSE],
         pc[th] # "switch", pc'[th] # "switch"
  PROVE  AgreeInv'
<1>0. Creators' = Creators /\ setup' = setup /\ Nodes' = Nodes /\ ThreadsFit /\ Creators \subseteq Threads
  BY WorkerFacts DEF Same, ShapeInv
<1>1. ASSUME NEW c \in Creators, OneCaller(c) PROVE AgreeOn(c)'
  <2>1. \A n \in Nodes : SentTo(c, n)' = SentTo(c, n)
    <3>1. c # th => pc'[c] = pc[c] /\ peer'[c] = peer[c]
      BY <1>0, AloneOthers
    <3> QED BY <3>1 DEF SentTo
  <2>2. AgreeOn(c)
    BY <1>1 DEF AgreeInv
  <2> QED BY <2>1, <2>2, AgreeStays
<1> QED BY <1>0, <1>1 DEF AgreeInv, OneCaller

LEMMA QuietAgrees ==
  ASSUME ShapeInv, Same, AgreeInv, NEW th \in Threads, Alone(th), OtherLetters, UNCHANGED Switch,
         pc[th] # "switch", pc'[th] # "switch"
  PROVE  AgreeInv'
<1>1. UNCHANGED <<prefetching, made>> /\ UNCHANGED stealing
  BY DEF Switch
<1> QED BY <1>1, AgreeQuiet

LEMMA CreateAgree ==
  ASSUME ShapeInv, Same, AgreeInv, NEW c \in Creators, NEW t \in Tasks, NEW n \in Nodes,
         NEW call \in {"task", "task_direct"}, Create(c, t, n, call), UNCHANGED bvars
  PROVE  AgreeInv'
<1>1. Alone(c) /\ c \in Threads
  BY CreateShape
<1>2. UNCHANGED Switch /\ UNCHANGED chan /\ pc[c] = "app" /\ (UNCHANGED pc \/ Goto(c, "send"))
  BY DEF Create
<1>3. pc'[c] # "switch"
  BY <1>1, <1>2, WentTo
<1> QED BY <1>1, <1>2, <1>3, LettersSame, QuietAgrees

LEMMA WaitAgrees ==
  ASSUME ShapeInv, Same, AgreeInv, NEW c \in Creators, UNCHANGED bvars,
         WaitAll(c) \/ Joined(c) \/ NotYet(c)
  PROVE  AgreeInv'
<1>1. Alone(c) /\ c \in Threads
  BY WaitShape
<1>2. UNCHANGED Switch /\ UNCHANGED chan
  BY DEF WaitAll, Joined, NotYet
<1>3. pc[c] \in {"app", "wait"} /\ \E q \in {"wait", "app", "poll"} : Goto(c, q)
  BY DEF WaitAll, Joined, NotYet
<1>4. pc'[c] # "switch"
  BY <1>1, <1>3, WentTo
<1> QED BY <1>1, <1>2, <1>3, <1>4, LettersSame, QuietAgrees

(* get_next_task, to the reply of a victim.                                *)
LEMMA PrefetchRequestAgrees ==
  ASSUME ShapeInv, Same, AgreeInv, NEW w \in Workers, NEW n \in Nodes, PrefetchRequest(w, n),
         UNCHANGED bvars
  PROVE  AgreeInv'
<1>1. /\ Alone(w) /\ w \in Threads
      /\ \E msg \in Messages(MaxNvps) : msg.type = "prefetch" /\ Post(w[1], n, MaxNvps, msg)
  BY PrefetchRequestShape
<1>2. UNCHANGED Switch /\ UNCHANGED pc /\ pc[w] \in {"poll", "repoll"} /\ w[1] \in Nodes
  BY <1>1, Now DEF PrefetchRequest
<1>3. OtherLetters
  <2>1. "prefetch" \notin SwitchCalls /\ MaxNvps \in Tags
    BY TagFacts DEF SwitchCalls, ShapeInv
  <2> QED BY <1>1, <1>2, <2>1, LettersSent
<1> QED BY <1>1, <1>2, <1>3, QuietAgrees

LEMMA TakeLocalAgrees ==
  ASSUME ShapeInv, Same, AgreeInv, NEW w \in Workers, TakeLocal(w), UNCHANGED bvars
  PROVE  AgreeInv'
<1>1. Alone(w) /\ w \in Threads /\ pc'[w] = "execute"
  BY TakeLocalShape
<1>2. UNCHANGED Switch /\ UNCHANGED chan /\ pc[w] \in {"poll", "repoll"}
  BY DEF TakeLocal
<1> QED BY <1>1, <1>2, LettersSame, QuietAgrees

LEMMA SearchAgrees ==
  ASSUME ShapeInv, Same, AgreeInv, NEW w \in Workers, NothingHere(w) \/ HoldForReply(w),
         UNCHANGED bvars
  PROVE  AgreeInv'
<1>1. Alone(w) /\ w \in Threads
  BY SearchShape
<1>2. UNCHANGED Switch /\ UNCHANGED chan /\ pc[w] \in {"poll", "repoll", "await", "reawait"}
  BY DEF NothingHere, HoldForReply
<1>3. \E q \in {"wait", "repoll", "held", "reheld"} : Goto(w, q)
  BY DEF NothingHere, HoldForReply, AfterSearch
<1>4. pc'[w] # "switch"
  BY <1>1, <1>3, WentTo
<1> QED BY <1>1, <1>2, <1>4, LettersSame, QuietAgrees

LEMMA StartRoundAgrees ==
  ASSUME ShapeInv, Same, AgreeInv, NEW w \in Workers, StartRound(w), UNCHANGED bvars
  PROVE  AgreeInv'
<1>1. Alone(w) /\ w \in Threads /\ pc'[w] \in {"ask", "reask"}
  BY StartRoundShape
<1>2. UNCHANGED Switch /\ UNCHANGED chan /\ pc[w] \in {"poll", "repoll"}
  BY DEF StartRound
<1> QED BY <1>1, <1>2, LettersSame, QuietAgrees

LEMMA StealRequestAgrees ==
  ASSUME ShapeInv, Same, AgreeInv, NEW w \in Workers, StealRequest(w), UNCHANGED bvars
  PROVE  AgreeInv'
<1>0. PICK k \in Nodes : k = peer[w][1]
  BY Now
<1>1. /\ Alone(w) /\ w \in Threads /\ pc'[w] \in {"await", "reawait"}
      /\ \E msg \in Messages(MaxNvps) : msg.type = "steal" /\ Post(w[1], k, MaxNvps, msg)
  BY <1>0, StealRequestShape
<1>2. UNCHANGED Switch /\ pc[w] \in {"ask", "reask"} /\ w[1] \in Nodes
  BY <1>1, Now DEF StealRequest
<1>3. OtherLetters
  <2>1. "steal" \notin SwitchCalls /\ MaxNvps \in Tags
    BY TagFacts DEF SwitchCalls, ShapeInv
  <2> QED BY <1>1, <1>2, <2>1, LettersSent
<1> QED BY <1>1, <1>2, <1>3, QuietAgrees

(* When the last victim has no work the node stops stealing.               *)
LEMMA StealReplyAgrees ==
  ASSUME ShapeInv, Same, AgreeInv, NEW w \in Workers, StealReply(w), UNCHANGED bvars
  PROVE  AgreeInv'
<1>0. PICK k \in Nodes : k = peer[w][1]
  BY Now
<1>a. PICK tag : tag = StealTag(w[2])
  OBVIOUS
<1>1. /\ Alone(w) /\ w \in Threads /\ pc[w] \in Inside
      /\ chan[k][w[1]][tag] # <<>> /\ Take(k, w[1], tag)
      /\ pc'[w] \in {"execute", "get_args", "wait", "repoll", "reask", "ask"}
  <2>1. /\ ShapeInv' /\ Alone(w) /\ w \in Threads
        /\ pc[w] \in Inside /\ peer[w][2] = StealTag(w[2])
        /\ chan[k][w[1]][StealTag(w[2])] # <<>> /\ Take(k, w[1], StealTag(w[2]))
        /\ LET msg == Head(chan[k][w[1]][StealTag(w[2])]) IN
           \/ /\ msg.type = "work" /\ hand'[w] = msg.body /\ peer'[w] = peer[w]
              /\ pc'[w] = IF Home(msg.body) = w[1] \/ ArgMsgs = 0 THEN "execute" ELSE "get_args"
           \/ /\ msg.type # "work" /\ hand'[w] = hand[w]
              /\ pc'[w] \in {"wait", "repoll", "reask", "ask"}
    BY <1>0, StealReplyShape
  <2> QED BY <1>a, <2>1
<1>2. UNCHANGED <<prefetching, made>> /\ w[1] \in Nodes
      /\ (UNCHANGED stealing \/ stealing' = [stealing EXCEPT ![w[1]] = FALSE])
  BY <1>1, ZenonT(30), Now DEF StealReply
<1>3. OtherLetters
  <2>1. tag \in Tags /\ tag # MaxNvps
    BY <1>a, TagFacts DEF ShapeInv
  <2> QED BY <1>1, <1>2, <2>1, LettersTaken
<1>4. pc[w] # "switch" /\ pc'[w] # "switch"
  BY <1>1 DEF Inside, InFirst, InSecond
<1> QED BY <1>1, <1>2, <1>3, <1>4, AgreeQuiet

(* Descriptors and arguments.                                              *)
LEMMA SendDescriptorAgrees ==
  ASSUME ShapeInv, Same, AgreeInv, NEW th \in Threads, SendDescriptor(th), UNCHANGED bvars
  PROVE  AgreeInv'
<1>d. pc[th] \in {"send", "push"} /\ UNCHANGED Switch
  BY DEF SendDescriptor
<1>0. PICK n \in Nodes, t \in Tasks : n = peer[th][1] /\ t = hand[th]
  BY <1>d, Now DEF WithTask
<1>1. /\ Alone(th) /\ pc'[th] \in {"serve", "app", "send_args"}
      /\ \E msg \in Messages(MaxNvps) :
           msg.type \in {"enqueue", "enqueue_private"} /\ Post(th[1], n, MaxNvps, msg)
  <2>1. /\ Alone(th)
        /\ \E msg \in Messages(MaxNvps) :
             msg.type \in {"enqueue", "enqueue_private"} /\ Post(th[1], n, MaxNvps, msg)
        /\ \/ pc'[th] = AfterSend(th)
           \/ pc'[th] = "send_args" /\ th \in Workers
    BY <1>0, SendDescriptorShape
  <2> QED BY <2>1 DEF AfterSend
<1>3. OtherLetters
  <2>1. "enqueue" \notin SwitchCalls /\ "enqueue_private" \notin SwitchCalls
        /\ MaxNvps \in Tags /\ th[1] \in Nodes
    BY Now, TagFacts DEF SwitchCalls, ShapeInv
  <2>2. \E msg \in Messages(MaxNvps) : msg.type \notin SwitchCalls /\ Post(th[1], n, MaxNvps, msg)
    BY <1>1, <2>1
  <2> QED BY <2>1, <2>2, LettersSent
<1> QED BY <1>d, <1>1, <1>3, QuietAgrees

LEMMA DirectSendAgrees ==
  ASSUME ShapeInv, Same, AgreeInv, NEW th \in Threads, DirectSendDescriptor(th), UNCHANGED bvars
  PROVE  AgreeInv'
<1>0. PICK n \in Nodes, t \in Tasks \cup {NoTask}, tag \in Tags :
        n = peer[th][1] /\ t = hand[th] /\ tag = peer[th][2]
  BY Now
<1>1. /\ Alone(th) /\ pc[th] = "reply" /\ pc'[th] \in {"serve", "send_args"}
      /\ \E msg \in Messages(tag) : msg.type \in {"no_work", "work"} /\ Post(th[1], n, tag, msg)
  BY <1>0, DirectSendShape
<1>2. UNCHANGED Switch /\ th[1] \in Nodes
  BY Now DEF DirectSendDescriptor
<1>3. OtherLetters
  <2>1. "work" \notin SwitchCalls /\ "no_work" \notin SwitchCalls
    BY DEF SwitchCalls
  <2>2. \E msg \in Messages(tag) : msg.type \notin SwitchCalls /\ Post(th[1], n, tag, msg)
    BY <1>1, <2>1
  <2> QED BY <1>2, <2>2, LettersSent
<1> QED BY <1>1, <1>2, <1>3, QuietAgrees

LEMMA SendArgumentsAgrees ==
  ASSUME ShapeInv, Same, AgreeInv, NEW th \in Threads, SendArguments(th), UNCHANGED bvars
  PROVE  AgreeInv'
<1>0. PICK n \in Nodes, tag \in Tags : n = peer[th][1] /\ tag = peer[th][2]
  BY Now
<1>1. /\ Alone(th) /\ pc[th] = "send_args" /\ pc'[th] = AfterSend(th)
      /\ \E msg \in Messages(tag) : msg.type = "argument" /\ Post(th[1], n, tag, msg)
  BY <1>0, SendArgumentsShape
<1>2. UNCHANGED Switch /\ th[1] \in Nodes
  BY Now DEF SendArguments
<1>3. OtherLetters
  <2>1. "argument" \notin SwitchCalls
    BY DEF SwitchCalls
  <2>2. \E msg \in Messages(tag) : msg.type \notin SwitchCalls /\ Post(th[1], n, tag, msg)
    BY <1>1, <2>1
  <2> QED BY <1>2, <2>2, LettersSent
<1>4. pc'[th] # "switch"
  BY <1>1 DEF AfterSend
<1> QED BY <1>1, <1>2, <1>3, <1>4, QuietAgrees

LEMMA HoldForArgumentsAgrees ==
  ASSUME ShapeInv, Same, AgreeInv, NEW th \in Threads, HoldForArguments(th), UNCHANGED bvars
  PROVE  AgreeInv'
<1>1. Alone(th) /\ pc[th] = "get_args" /\ pc'[th] = "held_args"
  BY HoldForArgumentsShape
<1>2. UNCHANGED Switch /\ UNCHANGED chan
  BY DEF HoldForArguments
<1> QED BY <1>1, <1>2, LettersSame, QuietAgrees

LEMMA ReceiveArgumentsAgrees ==
  ASSUME ShapeInv, Same, AgreeInv, NEW th \in Threads, ReceiveArguments(th), UNCHANGED bvars
  PROVE  AgreeInv'
<1>d. pc[th] \in {"held_args", "held_args_private"} /\ UNCHANGED Switch
  BY DEF ReceiveArguments
<1>0. PICK n \in Nodes, tag \in Tags, t \in Tasks : n = peer[th][1] /\ tag = peer[th][2] /\ t = hand[th]
  <2>1. pc[th] \in WithTask
    <3>1. pc[th] = "held_args_private" => th \notin Workers /\ th \notin Servers
      BY Now DEF WorkerFits, ServerFits, ServerPlaces, SearchPlaces, InApplication
    <3>2. th \in Workers \/ th \in Servers
      BY ServerFacts DEF ShapeInv
    <3> QED BY <1>d, <3>1, <3>2 DEF WithTask
  <2> QED BY <2>1, Now
<1>1. /\ Alone(th) /\ chan[n][th[1]][tag] # <<>> /\ Take(n, th[1], tag) /\ UNCHANGED peer
      /\ \/ th \in Workers /\ tag = StealTag(th[2]) /\ pc'[th] = "execute"
         \/ th \in Servers /\ tag \in WorkerVps /\ \E b \in BOOLEAN : Enqueued(th, t, b)
  BY <1>0, ReceiveArgumentsShape
<1>2. pc'[th] \in {"execute", "serve"}
  BY <1>1, EnqueuedFits
<1>3. OtherLetters
  <2>1. tag # MaxNvps /\ th[1] \in Nodes
    BY <1>1, Now, TagFacts DEF ShapeInv
  <2> QED BY <1>1, <2>1, LettersTaken
<1> QED BY <1>d, <1>1, <1>2, <1>3, QuietAgrees

(* Execution and cleanup.                                                  *)
LEMMA ExecuteAgrees ==
  ASSUME ShapeInv, Same, AgreeInv, NEW th \in Threads, Execute(th), UNCHANGED bvars
  PROVE  AgreeInv'
<1>1. Alone(th) /\ pc[th] = "execute" /\ pc'[th] = "run"
  BY ExecuteShape
<1>2. UNCHANGED Switch /\ UNCHANGED chan
  BY DEF Execute
<1> QED BY <1>1, <1>2, LettersSame, QuietAgrees

LEMMA ReturnHomeAgrees ==
  ASSUME ShapeInv, Same, AgreeInv, NEW th \in Threads, ReturnHome(th), UNCHANGED bvars
  PROVE  AgreeInv'
<1>0. PICK t \in Tasks : t = hand[th]
  BY Now DEF ReturnHome, WithTask
<1>1. Alone(th) /\ pc[th] = "run" /\ pc'[th] \in {"serve", "wait", "poll"}
  BY <1>0, ReturnHomeShape
<1>2. UNCHANGED Switch /\ UNCHANGED chan
  BY DEF ReturnHome
<1> QED BY <1>1, <1>2, LettersSame, QuietAgrees

LEMMA SendAnswerAgrees ==
  ASSUME ShapeInv, Same, AgreeInv, PlaceInv, NEW th \in Threads, SendAnswer(th), UNCHANGED bvars
  PROVE  AgreeInv'
<1>0. PICK t \in Tasks : t = hand[th]
  BY Now DEF SendAnswer, WithTask
<1>a. PICK h \in Nodes : h = Home(t)
  BY <1>0, AtHome DEF SendAnswer
<1>1. /\ Alone(th) /\ pc[th] = "run" /\ pc'[th] \in {"serve", "wait", "poll", "send_results"}
      /\ \E msg \in Messages(MaxNvps) : msg.type = "answer" /\ Post(th[1], h, MaxNvps, msg)
  BY <1>0, <1>a, SendAnswerShape
<1>2. UNCHANGED Switch /\ th[1] \in Nodes
  BY Now DEF SendAnswer
<1>3. OtherLetters
  <2>1. "answer" \notin SwitchCalls /\ MaxNvps \in Tags
    BY TagFacts DEF SwitchCalls, ShapeInv
  <2> QED BY <1>1, <1>2, <2>1, LettersSent
<1> QED BY <1>1, <1>2, <1>3, QuietAgrees

LEMMA SendResultsAgrees ==
  ASSUME ShapeInv, Same, AgreeInv, PlaceInv, NEW th \in Threads, SendResults(th), UNCHANGED bvars
  PROVE  AgreeInv'
<1>0. PICK t \in Tasks : t = hand[th]
  BY Now DEF SendResults, WithTask
<1>a. PICK h \in Nodes : h = Home(t)
  BY <1>0, AtHome DEF SendResults
<1>1. /\ Alone(th) /\ pc[th] = "send_results" /\ pc'[th] \in {"wait", "poll"}
      /\ \E msg \in Messages(th[2]) : msg.type = "result" /\ Post(th[1], h, th[2], msg)
  BY <1>0, <1>a, SendResultsShape
<1>2. UNCHANGED Switch /\ th[1] \in Nodes /\ th[2] \in Vps
  BY Now DEF SendResults
<1>3. OtherLetters
  <2>1. "result" \notin SwitchCalls /\ th[2] \in Tags
    BY <1>2, TagFacts DEF SwitchCalls, ShapeInv
  <2> QED BY <1>1, <1>2, <2>1, LettersSent
<1> QED BY <1>1, <1>2, <1>3, QuietAgrees

(* The server.                                                             *)
LEMMA ServeEnqueueAgrees ==
  ASSUME ShapeInv, Same, AgreeInv, NEW s \in Servers, NEW n \in Nodes,
         NEW type \in {"enqueue", "enqueue_private"}, ServeEnqueue(s, n, type), UNCHANGED bvars
  PROVE  AgreeInv'
<1>0. PICK msg : msg = Head(chan[n][s[1]][MaxNvps])
  OBVIOUS
<1>t. PICK t : t = msg.body
  OBVIOUS
<1>1. /\ Alone(s) /\ s \in Threads /\ t \in Tasks
      /\ \/ UNCHANGED pc
         \/ UNCHANGED peer /\ \E b \in BOOLEAN : Enqueued(s, t, b)
         \/ pc'[s] = "get_args"
  <2>1. /\ Alone(s) /\ s \in Threads /\ t \in Tasks
        /\ \/ /\ public' = [public EXCEPT ![s[1]] = <<t>> \o @]
              /\ UNCHANGED <<pc, hand, peer, private>>
           \/ UNCHANGED peer /\ \E b \in BOOLEAN : Enqueued(s, t, b)
           \/ /\ pc'[s] = "get_args" /\ hand'[s] = t /\ peer'[s] = <<n, msg.vp>> /\ UNCHANGED Queues
              /\ type = "enqueue" /\ Home(t) # s[1] /\ ArgMsgs # 0
    BY <1>0, <1>t, ServeEnqueueShape
  <2> QED BY <2>1
<1>2. Serves(s, n, type) /\ UNCHANGED Switch /\ pc[s] = "serve"
  BY DEF ServeEnqueue, Serves
<1>3. pc'[s] # "switch"
  BY <1>1, <1>2, EnqueuedFits
<1>4. OtherLetters
  BY <1>2, ServedLetters DEF SwitchCalls
<1> QED BY <1>1, <1>2, <1>3, <1>4, QuietAgrees

LEMMA ServeAnswerAgrees ==
  ASSUME ShapeInv, Same, AgreeInv, NEW s \in Servers, NEW n \in Nodes, ServeAnswer(s, n), UNCHANGED bvars
  PROVE  AgreeInv'
<1>0. PICK msg : msg = Head(chan[n][s[1]][MaxNvps])
  OBVIOUS
<1>t. PICK t : t = msg.body
  OBVIOUS
<1>1. Alone(s) /\ s \in Threads /\ (UNCHANGED pc \/ pc'[s] = "get_results")
  BY <1>0, <1>t, ServeAnswerShape
<1>2. Serves(s, n, "answer") /\ UNCHANGED Switch /\ pc[s] = "serve"
  BY DEF ServeAnswer, Serves
<1>3. OtherLetters
  BY <1>2, ServedLetters DEF SwitchCalls
<1> QED BY <1>1, <1>2, <1>3, QuietAgrees

LEMMA ReceiveResultsAgrees ==
  ASSUME ShapeInv, Same, AgreeInv, NEW s \in Servers, ReceiveResults(s), UNCHANGED bvars
  PROVE  AgreeInv'
<1>a. s \in Threads /\ pc[s] = "get_results" /\ UNCHANGED Switch
  BY ServerFacts DEF ShapeInv, ReceiveResults
<1>0. PICK n \in Nodes, tag \in Tags, t \in Tasks : n = peer[s][1] /\ tag = peer[s][2] /\ t = hand[s]
  BY <1>a, Now DEF WithTask
<1>1. /\ Alone(s) /\ tag \in WorkerVps /\ pc'[s] = "serve"
      /\ chan[n][s[1]][tag] # <<>> /\ Take(n, s[1], tag)
  BY <1>0, ReceiveResultsShape
<1>2. OtherLetters
  <2>1. tag # MaxNvps /\ s[1] \in Nodes
    BY <1>a, <1>1, Now, TagFacts DEF ShapeInv
  <2> QED BY <1>1, <2>1, LettersTaken
<1> QED BY <1>a, <1>1, <1>2, QuietAgrees

LEMMA ServeStealAgrees ==
  ASSUME ShapeInv, Same, AgreeInv, NEW s \in Servers, NEW n \in Nodes, ServeSteal(s, n), UNCHANGED bvars
  PROVE  AgreeInv'
<1>0. PICK msg : msg = Head(chan[n][s[1]][MaxNvps])
  OBVIOUS
<1>1. Alone(s) /\ s \in Threads /\ pc[s] = "serve" /\ pc'[s] = "reply"
  BY <1>0, ServeStealShape
<1>2. Serves(s, n, "steal") /\ UNCHANGED Switch
  BY DEF ServeSteal
<1>3. OtherLetters
  BY <1>2, ServedLetters DEF SwitchCalls
<1> QED BY <1>1, <1>2, <1>3, QuietAgrees

LEMMA ServePrefetchAgrees ==
  ASSUME ShapeInv, Same, AgreeInv, NEW s \in Servers, NEW n \in Nodes, ServePrefetch(s, n), UNCHANGED bvars
  PROVE  AgreeInv'
<1>1. Alone(s) /\ s \in Threads /\ pc[s] = "serve" /\ (UNCHANGED pc \/ pc'[s] = "push")
  BY ServePrefetchShape
<1>2. Serves(s, n, "prefetch") /\ UNCHANGED Switch
  BY DEF ServePrefetch
<1>3. OtherLetters
  BY <1>2, ServedLetters DEF SwitchCalls
<1> QED BY <1>1, <1>2, <1>3, QuietAgrees

(* Broadcasts.                                                             *)
LEMMA BroadcastCallAgrees ==
  ASSUME ShapeInv, Same, AgreeInv, NEW c \in Creators, NEW a \in Variables, NEW v \in Values,
         Broadcast(c, a, v)
  PROVE  AgreeInv'
<1>1. Alone(c) /\ c \in Threads /\ pc[c] = "app" /\ pc'[c] = "bcast"
  BY BroadcastCallShape
<1>2. UNCHANGED Switch /\ UNCHANGED chan
  BY DEF Broadcast
<1> QED BY <1>1, <1>2, LettersSame, QuietAgrees

LEMMA NextNodeAgrees ==
  ASSUME ShapeInv, Same, AgreeInv, NEW c \in Creators, SkipOwn(c) \/ SsendDone(c)
  PROVE  AgreeInv'
<1>1. Alone(c) /\ c \in Threads /\ pc[c] \in {"bcast", "ssend"} /\ pc'[c] \in {"bcast", "app"}
  BY SMTT(30), NextNodeShape
<1>2. UNCHANGED Switch /\ UNCHANGED chan
  BY ZenonT(30) DEF SkipOwn, SsendDone
<1>3. pc[c] # "switch" /\ pc'[c] # "switch"
  BY <1>1
<1> QED BY SMTT(30), <1>1, <1>2, <1>3, LettersSame, QuietAgrees

LEMMA SendBroadcastAgrees ==
  ASSUME ShapeInv, Same, AgreeInv, NEW c \in Creators, SendBroadcast(c)
  PROVE  AgreeInv'
<1>0. PICK n \in Nodes : n = peer[c][1]
  BY Now, WorkerFacts DEF ShapeInv
<1>1. /\ Alone(c) /\ c \in Threads /\ pc[c] = "bcast" /\ pc'[c] = "offer"
      /\ \E msg \in Messages(MaxNvps) : msg.type = "bcast" /\ Post(c[1], n, MaxNvps, msg)
  BY <1>0, SendBroadcastShape
<1>2. UNCHANGED Switch /\ c[1] \in Nodes
  BY <1>1, Now DEF SendBroadcast
<1>3. OtherLetters
  <2>1. "bcast" \notin SwitchCalls /\ MaxNvps \in Tags
    BY TagFacts DEF SwitchCalls, ShapeInv
  <2> QED BY <1>1, <1>2, <2>1, LettersSent
<1> QED BY <1>1, <1>2, <1>3, QuietAgrees

LEMMA SsendAgrees ==
  ASSUME ShapeInv, Same, AgreeInv, NEW c \in Creators, Ssend(c)
  PROVE  AgreeInv'
<1>0. PICK n \in Nodes : n = peer[c][1]
  BY Now, WorkerFacts DEF ShapeInv
<1>1. /\ Alone(c) /\ c \in Threads /\ pc[c] = "offer" /\ pc'[c] = "ssend"
      /\ \E msg \in Messages(c[2]) : msg.type = "data" /\ Post(c[1], n, c[2], msg)
  BY <1>0, SsendShape
<1>2. UNCHANGED Switch /\ c[1] \in Nodes /\ c[2] \in Vps
  BY <1>1, Now DEF Ssend
<1>3. OtherLetters
  <2>1. "data" \notin SwitchCalls /\ c[2] \in Tags
    BY <1>2, TagFacts DEF SwitchCalls, ShapeInv
  <2> QED BY <1>1, <1>2, <2>1, LettersSent
<1> QED BY <1>1, <1>2, <1>3, QuietAgrees

LEMMA ServeBroadcastAgrees ==
  ASSUME ShapeInv, Same, AgreeInv, NEW s \in Servers, NEW n \in Nodes, ServeBroadcast(s, n)
  PROVE  AgreeInv'
<1>1. Alone(s) /\ s \in Threads /\ pc[s] = "serve" /\ pc'[s] = "get_data"
  BY ServeBroadcastShape
<1>2. Serves(s, n, "bcast") /\ UNCHANGED Switch
  BY DEF ServeBroadcast
<1>3. OtherLetters
  BY <1>2, ServedLetters DEF SwitchCalls
<1> QED BY <1>1, <1>2, <1>3, QuietAgrees

LEMMA ReceiveDataAgrees ==
  ASSUME ShapeInv, Same, AgreeInv, NEW s \in Servers, ReceiveData(s)
  PROVE  AgreeInv'
<1>0. s \in Threads /\ UNCHANGED Switch
  BY ServerFacts DEF ShapeInv, ReceiveData
<1>1. PICK n \in Nodes, tag \in Tags : n = peer[s][1] /\ tag = peer[s][2]
  BY <1>0, Now
<1>2. /\ Alone(s) /\ pc[s] = "get_data" /\ tag \in WorkerVps /\ pc'[s] = "serve"
      /\ chan[n][s[1]][tag] # <<>> /\ Take(n, s[1], tag)
  BY <1>1, ReceiveDataShape
<1>3. OtherLetters
  <2>1. tag # MaxNvps /\ s[1] \in Nodes
    BY <1>0, <1>2, Now, TagFacts DEF ShapeInv
  <2> QED BY <1>2, <2>1, LettersTaken
<1> QED BY <1>0, <1>2, <1>3, QuietAgrees

(***************************************************************************)
(* The switches themselves.                                                *)
(***************************************************************************)
LEMMA AgreeFor ==
  ASSUME ShapeInv, Same, \A c \in Creators : OneCaller(c) => AgreeOn(c)'
  PROVE  AgreeInv'
<1>1. Creators' = Creators /\ setup' = setup
  BY DEF Same
<1> QED BY <1>1 DEF AgreeInv, OneCaller

LEMMA ToldUnset ==
  ASSUME NEW q, NEW on, NEW off, NEW b \in BOOLEAN, \A i \in 1 .. Len(q) : ~Sets(q[i], on, off)
  PROVE  Told(q, on, off, b) <=> b
BY DEF Told, Sets

(* What a call asks, and what it leaves alone.                             *)
Asks(call, on, off, b, d) == (d <=> (call = on \/ (call # off /\ b)))

LEMMA ApplyEffect ==
  ASSUME ShapeInv, NEW n \in Nodes, NEW call \in SwitchCalls, Apply(n, call)
  PROVE  /\ \A m \in Nodes : m # n => stealing'[m] = stealing[m] /\ prefetching'[m] = prefetching[m]
         /\ stealing'[n] \in BOOLEAN /\ prefetching'[n] \in BOOLEAN
         /\ Asks(call, "enable_stealing", "disable_stealing", stealing[n], stealing'[n])
         /\ Asks(call, "enable_prefetching", "disable_prefetching", prefetching[n], prefetching'[n])
<1>1. /\ stealing \in [Nodes -> BOOLEAN] /\ prefetching \in [Nodes -> BOOLEAN]
      /\ stealing[n] \in BOOLEAN /\ prefetching[n] \in BOOLEAN
  BY DEF ShapeInv, SwitchTypes
<1>2. PICK s \in BOOLEAN : s = stealing[n]
  BY <1>1
<1>3. PICK p \in BOOLEAN : p = prefetching[n]
  BY <1>1
<1>4. PICK sn \in BOOLEAN : stealing' = [stealing EXCEPT ![n] = sn]
                            /\ sn = (call = "enable_stealing" \/ (call # "disable_stealing" /\ s))
  BY <1>2 DEF Apply, SwitchCalls
<1>5. PICK pn \in BOOLEAN : prefetching' = [prefetching EXCEPT ![n] = pn]
                            /\ pn = (call = "enable_prefetching" \/ (call # "disable_prefetching" /\ p))
  BY <1>3 DEF Apply, SwitchCalls
<1>6. /\ stealing'[n] = sn /\ prefetching'[n] = pn
      /\ \A m \in Nodes : m # n => stealing'[m] = stealing[m] /\ prefetching'[m] = prefetching[m]
  BY <1>1, <1>4, <1>5
<1>7. Asks(call, "enable_stealing", "disable_stealing", stealing[n], stealing'[n])
  BY <1>2, <1>4, <1>6 DEF Asks
<1>8. Asks(call, "enable_prefetching", "disable_prefetching", prefetching[n], prefetching'[n])
  BY <1>3, <1>5, <1>6 DEF Asks
<1> QED BY <1>6, <1>7, <1>8

(* The own node has the setting at once, and no message of the call is out.*)
LEMMA SwitchCallAgrees ==
  ASSUME ShapeInv, Same, AgreeInv, NEW a \in Creators, NEW call \in SwitchCalls \cup LocalCalls,
         SwitchCall(a, call), UNCHANGED bvars
  PROVE  AgreeInv'
<1> SUFFICES ASSUME NEW c \in Creators, OneCaller(c) PROVE AgreeOn(c)'
  BY AgreeFor
<1>1. AgreeOn(c) /\ a = c /\ call \in SwitchCalls
  BY DEF AgreeInv, OneCaller, SwitchCall
<1>2. /\ c[1] \in Nodes /\ Nodes' = Nodes /\ c \in Threads /\ ThreadsFit
      /\ \A n \in Nodes : n \in Nat
      /\ made \in [Creators -> Seq(Calls)] /\ call \in Calls
  <2>1. call = "enable_prefetching" => ArgMsgs = 0
    <3>1. call \in setup.calls /\ PayloadsApart
      BY DEF SwitchCall, ShapeInv
    <3> QED BY <3>1, Numbers DEF PayloadsApart, ShapeInv
  <2>2. call \in Calls
    BY <2>1 DEF Calls
  <2> QED BY <2>2, WorkerFacts, Numbers DEF ShapeInv, Same, SwitchTypes
<1>3. PICK s \in Seq(Calls) : s = made[c]
  BY <1>2
<1>4. /\ Apply(c[1], call) /\ UNCHANGED chan /\ pc[c] = "app"
      /\ pc'[c] = "switch" /\ peer'[c] = <<0, MaxNvps>> /\ made'[c] = Append(s, call)
  <2>1. call \notin LocalCalls
    BY <1>1 DEF SwitchCalls, LocalCalls
  <2> QED BY <1>1, <1>2, <1>3, <2>1 DEF SwitchCall, Goto, ThreadsFit
<1>5. /\ Len(s) \in Nat /\ Len(Append(s, call)) = Len(s) + 1
      /\ \A n \in Nodes : SentTo(c, n) = Len(s)
      /\ \A n \in Nodes : n # c[1] => SentTo(c, n)' = Len(s)
      /\ SentTo(c, c[1])' = Len(s) + 1
  <2>1. Len(s) \in Nat /\ Len(Append(s, call)) = Len(s) + 1
    BY <1>2, AppendProperties, LenProperties
  <2> QED BY <1>2, <1>3, <1>4, <2>1 DEF SentTo
<1>6. ASSUME NEW n \in Nodes, n # c[1]
      PROVE  /\ Told(ToldOf(c, n)', "enable_prefetching", "disable_prefetching", prefetching'[n])
                  <=> Latest(made'[c], SentTo(c, n)', "enable_prefetching", "disable_prefetching")
             /\ Told(ToldOf(c, n)', "enable_stealing", "disable_stealing", stealing'[n])
                  => Latest(made'[c], SentTo(c, n)', "enable_stealing", "disable_stealing")
  <2>1. stealing'[n] = stealing[n] /\ prefetching'[n] = prefetching[n] /\ ToldOf(c, n)' = ToldOf(c, n)
    BY <1>1, <1>2, <1>4, <1>6, ApplyEffect DEF ToldOf
  <2>2. /\ Latest(made'[c], SentTo(c, n)', "enable_prefetching", "disable_prefetching")
             <=> Latest(s, Len(s), "enable_prefetching", "disable_prefetching")
        /\ Latest(made'[c], SentTo(c, n)', "enable_stealing", "disable_stealing")
             <=> Latest(s, Len(s), "enable_stealing", "disable_stealing")
    BY <1>2, <1>4, <1>5, <1>6, LatestAppend
  <2>3. /\ Told(ToldOf(c, n), "enable_prefetching", "disable_prefetching", prefetching[n])
             <=> Latest(s, Len(s), "enable_prefetching", "disable_prefetching")
        /\ Told(ToldOf(c, n), "enable_stealing", "disable_stealing", stealing[n])
             => Latest(s, Len(s), "enable_stealing", "disable_stealing")
    BY <1>1, <1>3, <1>5 DEF AgreeOn
  <2> QED BY <2>1, <2>2, <2>3
<1>7. ASSUME NEW n \in Nodes, n = c[1]
      PROVE  /\ Told(ToldOf(c, n)', "enable_prefetching", "disable_prefetching", prefetching'[n])
                  <=> Latest(made'[c], SentTo(c, n)', "enable_prefetching", "disable_prefetching")
             /\ Told(ToldOf(c, n)', "enable_stealing", "disable_stealing", stealing'[n])
                  => Latest(made'[c], SentTo(c, n)', "enable_stealing", "disable_stealing")
  <2>1. /\ stealing'[n] \in BOOLEAN /\ prefetching'[n] \in BOOLEAN
        /\ stealing[n] \in BOOLEAN /\ prefetching[n] \in BOOLEAN
        /\ Asks(call, "enable_stealing", "disable_stealing", stealing[n], stealing'[n])
        /\ Asks(call, "enable_prefetching", "disable_prefetching", prefetching[n], prefetching'[n])
    BY <1>1, <1>4, <1>7, ApplyEffect, Setting
  <2>2. PICK q : q = chan[n][n][MaxNvps]
    OBVIOUS
  <2>3. ToldOf(c, n) = q /\ ToldOf(c, n)' = q
    BY <1>4, <1>7, <2>2 DEF ToldOf
  <2>4. \A i \in 1 .. Len(q) : q[i].type \notin SwitchCalls
    BY <1>1, <1>7, <2>2 DEF AgreeOn
  <2>5. /\ \A i \in 1 .. Len(q) : ~Sets(q[i], "enable_prefetching", "disable_prefetching")
        /\ \A i \in 1 .. Len(q) : ~Sets(q[i], "enable_stealing", "disable_stealing")
    BY <2>4 DEF Sets, SwitchCalls
  <2>6. /\ Told(q, "enable_prefetching", "disable_prefetching", prefetching[n]) <=> prefetching[n]
        /\ Told(q, "enable_stealing", "disable_stealing", stealing[n]) <=> stealing[n]
        /\ Told(q, "enable_prefetching", "disable_prefetching", prefetching'[n]) <=> prefetching'[n]
        /\ Told(q, "enable_stealing", "disable_stealing", stealing'[n]) <=> stealing'[n]
    BY <2>1, <2>5, ToldUnset
  <2>7. /\ prefetching[n] <=> Latest(s, Len(s), "enable_prefetching", "disable_prefetching")
        /\ stealing[n] => Latest(s, Len(s), "enable_stealing", "disable_stealing")
    BY <1>1, <1>3, <1>5, <2>3, <2>6 DEF AgreeOn
  <2>8. /\ Latest(made'[c], SentTo(c, n)', "enable_prefetching", "disable_prefetching")
             <=> (call = "enable_prefetching"
                  \/ (call # "disable_prefetching"
                      /\ Latest(s, Len(s), "enable_prefetching", "disable_prefetching")))
        /\ Latest(made'[c], SentTo(c, n)', "enable_stealing", "disable_stealing")
             <=> (call = "enable_stealing"
                  \/ (call # "disable_stealing"
                      /\ Latest(s, Len(s), "enable_stealing", "disable_stealing")))
    BY <1>2, <1>4, <1>5, <1>7, LatestAppend
  <2>9. prefetching'[n] <=> Latest(made'[c], SentTo(c, n)', "enable_prefetching", "disable_prefetching")
    BY <2>1, <2>7, <2>8 DEF Asks
  <2>10. stealing'[n] => Latest(made'[c], SentTo(c, n)', "enable_stealing", "disable_stealing")
    BY <2>1, <2>7, <2>8 DEF Asks
  <2> QED BY <2>3, <2>6, <2>9, <2>10
<1>8. \A k \in Nodes, n \in Nodes : \A i \in 1 .. Len(chan'[k][n][MaxNvps]) :
        chan'[k][n][MaxNvps][i].type \in SwitchCalls => k = c[1] /\ n # c[1]
  BY <1>1, <1>4 DEF AgreeOn
<1> QED BY <1>2, <1>6, <1>7, <1>8 DEF AgreeOn

(* A node more has been sent the last call.                                *)
LEMMA SendSwitchAgrees ==
  ASSUME ShapeInv, Same, AgreeInv, NEW a \in Creators, SendSwitch(a), UNCHANGED bvars
  PROVE  AgreeInv'
<1> SUFFICES ASSUME NEW c \in Creators, OneCaller(c) PROVE AgreeOn(c)'
  BY AgreeFor
<1>1. AgreeOn(c) /\ a = c
  BY DEF AgreeInv, OneCaller
<1>2. /\ c[1] \in Nodes /\ Nodes' = Nodes /\ NumNodes \in Nat /\ Nodes = 0 .. NumNodes - 1
      /\ c \in Threads /\ ThreadsFit /\ pc[c] = "switch" /\ MaxNvps \in Tags
      /\ NumNodes' = NumNodes
  BY <1>1, WorkerFacts, Numbers, TagFacts DEF ShapeInv, Same, SendSwitch
<1>3. PICK k \in Nodes : k = peer[c][1]
  BY <1>2, Now
<1>4. PICK s \in Seq(Calls) : s = made[c]
  BY DEF ShapeInv, SwitchTypes
<1>5. s # <<>> /\ s[Len(s)] \in SwitchCalls
  BY <1>2, <1>4 DEF ShapeInv, SwitchTypes
<1>6. PICK z \in Nat : Len(s) = z + 1
  <2>1. Len(s) \in Nat /\ Len(s) # 0
    BY <1>5
  <2>2. Len(s) - 1 \in Nat /\ Len(s) = (Len(s) - 1) + 1
    BY <2>1
  <2> QED BY <2>2
<1>7. PICK call \in SwitchCalls : call = s[z + 1]
  BY <1>5, <1>6
<1>8. /\ UNCHANGED Switch
      /\ k = c[1] => UNCHANGED chan
      /\ k # c[1] => Post(c[1], k, MaxNvps, Message(call, NoTask, c))
      /\ k + 1 < NumNodes => pc'[c] = "switch" /\ peer'[c][1] = k + 1
      /\ ~(k + 1 < NumNodes) => pc'[c] = "app"
  <2>1. UNCHANGED Switch
    BY DEF SendSwitch
  <2>2. /\ k = c[1] => UNCHANGED chan
        /\ k # c[1] => Post(c[1], k, MaxNvps, Message(call, NoTask, c))
    BY <1>1, <1>3, <1>4, <1>6, <1>7 DEF SendSwitch
  <2>3. k + 1 < NumNodes => pc'[c] = "switch" /\ peer'[c][1] = k + 1
    <3>1. peer \in [Threads -> Nodes \X Tags]
      BY <1>2 DEF ThreadsFit
    <3>2. ASSUME k + 1 < NumNodes PROVE peer' = [peer EXCEPT ![c][1] = k + 1] /\ UNCHANGED pc
      BY <1>1, <1>3, <3>2 DEF SendSwitch
    <3> QED BY <1>2, <3>1, <3>2
  <2>4. ~(k + 1 < NumNodes) => pc'[c] = "app"
    BY <1>1, <1>2, <1>3 DEF SendSwitch, Goto, ThreadsFit
  <2> QED BY <2>1, <2>2, <2>3, <2>4
<1>9. /\ \A n \in Nodes : n # k \/ k = c[1] => SentTo(c, n)' = SentTo(c, n)
      /\ k # c[1] => SentTo(c, k) = z /\ SentTo(c, k)' = z + 1
  <2>1. made' = made /\ Len(made[c]) = z + 1
    BY <1>4, <1>6, <1>8 DEF Switch
  <2>2. \A n \in Nodes : n \in Nat /\ n < NumNodes
    BY <1>2
  <2> QED BY <1>2, <1>3, <1>8, <2>1, <2>2 DEF SentTo
<1>10. stealing' = stealing /\ prefetching' = prefetching /\ made'[c] = s /\ made[c] = s
  BY <1>4, <1>8 DEF Switch
<1>11. CASE k = c[1]
  <2>1. \A n \in Nodes : SentTo(c, n)' = SentTo(c, n)
    BY <1>9, <1>11
  <2> QED BY <1>1, <1>8, <1>11, <2>1, LettersSame, AgreeStays DEF Switch
<1>12. CASE k # c[1]
  <2>1. PICK msg : msg = Message(call, NoTask, c)
    OBVIOUS
  <2>2. msg \in Messages(MaxNvps) /\ msg.type = call
    <3>1. call \in Types /\ NoTask \in Bodies
      BY DEF Types, Bodies
    <3>2. msg.type = call /\ (Legal(MaxNvps, msg) => msg \in Messages(MaxNvps))
      BY <1>2, <2>1, <3>1, MessageFacts DEF ShapeInv
    <3>3. call = "enable_prefetching" => ArgMsgs = 0
      <4>1. call \in Calls
        BY <1>5, <1>6, <1>7, EmptySeq, ElementOfSeq
      <4> QED BY <4>1 DEF Calls
    <3>4. Legal(MaxNvps, msg)
      BY <3>2, <3>3, TagFacts DEF Legal, ShapeInv, Descriptors, SwitchCalls
    <3> QED BY <3>2, <3>4
  <2>3. /\ chan'[c[1]][k][MaxNvps] = Append(chan[c[1]][k][MaxNvps], msg)
        /\ \A x \in Nodes, y \in Nodes : <<x, y>> # <<c[1], k>> =>
             chan'[x][y][MaxNvps] = chan[x][y][MaxNvps]
    <3>1. /\ chan'[c[1]][k][MaxNvps] = Append(chan[c[1]][k][MaxNvps], msg)
          /\ \A x \in Nodes, y \in Nodes, g \in Tags : <<x, y, g>> # <<c[1], k, MaxNvps>> =>
               chan'[x][y][g] = chan[x][y][g]
      <4>1. SetupInv /\ Channels /\ Post(c[1], k, MaxNvps, msg)
        BY <1>8, <1>12, <2>1 DEF ShapeInv
      <4>2. PICK u \in Nodes : u = c[1]
        BY <1>2
      <4>3. MaxNvps \in Tags /\ msg \in Messages(MaxNvps) /\ Post(u, k, MaxNvps, msg)
        BY <1>2, <2>2, <4>1, <4>2
      <4>4. /\ chan'[u][k][MaxNvps] = Append(chan[u][k][MaxNvps], msg)
            /\ \A x \in Nodes, y \in Nodes, g \in Tags : <<x, y, g>> # <<u, k, MaxNvps>> =>
                 chan'[x][y][g] = chan[x][y][g]
        BY <4>1, <4>3, PostEffect
      <4> QED BY <4>2, <4>4
    <3>2. \A x, y : <<x, y>> # <<c[1], k>> => <<x, y, MaxNvps>> # <<c[1], k, MaxNvps>>
      OBVIOUS
    <3> QED BY <1>2, <3>1, <3>2
  <2>4. PICK q \in Seq(AnyMessage) : q = chan[c[1]][k][MaxNvps]
    BY <1>2 DEF ShapeInv, Channels
  <2>5. msg \in AnyMessage
    BY <2>2 DEF Messages
  <2>6. ASSUME NEW x \in Nodes, NEW y \in Nodes, NEW i \in 1 .. Len(chan'[x][y][MaxNvps]),
               chan'[x][y][MaxNvps][i].type \in SwitchCalls
        PROVE  x = c[1] /\ y # c[1]
    <3>1. CASE <<x, y>> = <<c[1], k>>
      BY <1>12, <3>1
    <3>2. CASE <<x, y>> # <<c[1], k>>
      <4>1. chan'[x][y][MaxNvps] = chan[x][y][MaxNvps]
        BY <2>3, <3>2
      <4> QED BY <1>1, <2>6, <4>1 DEF AgreeOn
    <3> QED BY <3>1, <3>2
  <2>7. ASSUME NEW n \in Nodes, n # k
        PROVE  /\ Told(ToldOf(c, n)', "enable_prefetching", "disable_prefetching", prefetching'[n])
                    <=> Latest(made'[c], SentTo(c, n)', "enable_prefetching", "disable_prefetching")
               /\ Told(ToldOf(c, n)', "enable_stealing", "disable_stealing", stealing'[n])
                    => Latest(made'[c], SentTo(c, n)', "enable_stealing", "disable_stealing")
    <3>1. ToldOf(c, n)' = ToldOf(c, n) /\ SentTo(c, n)' = SentTo(c, n)
      BY <1>2, <1>9, <2>3, <2>7 DEF ToldOf
    <3> QED BY <1>1, <1>10, <3>1 DEF AgreeOn
  <2>8. /\ Told(ToldOf(c, k)', "enable_prefetching", "disable_prefetching", prefetching'[k])
             <=> Latest(made'[c], SentTo(c, k)', "enable_prefetching", "disable_prefetching")
        /\ Told(ToldOf(c, k)', "enable_stealing", "disable_stealing", stealing'[k])
             => Latest(made'[c], SentTo(c, k)', "enable_stealing", "disable_stealing")
    <3>1. ToldOf(c, k) = q /\ ToldOf(c, k)' = Append(q, msg)
      BY <2>3, <2>4 DEF ToldOf
    <3>2. PICK b \in BOOLEAN, p \in BOOLEAN : b = stealing[k] /\ p = prefetching[k]
      BY Setting
    <3>3. /\ Told(q, "enable_prefetching", "disable_prefetching", p)
               <=> Latest(s, z, "enable_prefetching", "disable_prefetching")
          /\ Told(q, "enable_stealing", "disable_stealing", b)
               => Latest(s, z, "enable_stealing", "disable_stealing")
      <4>1. SentTo(c, k) = z
        BY <1>9, <1>12
      <4> QED BY <1>1, <1>10, <3>1, <3>2, <4>1 DEF AgreeOn
    <3>4. /\ Told(Append(q, msg), "enable_prefetching", "disable_prefetching", p)
               <=> (call = "enable_prefetching" \/ (call # "disable_prefetching"
                      /\ Told(q, "enable_prefetching", "disable_prefetching", p)))
          /\ Told(Append(q, msg), "enable_stealing", "disable_stealing", b)
               <=> (call = "enable_stealing" \/ (call # "disable_stealing"
                      /\ Told(q, "enable_stealing", "disable_stealing", b)))
      BY <2>2, <2>5, ToldAppend
    <3>5. /\ Latest(s, z + 1, "enable_prefetching", "disable_prefetching")
               <=> (call = "enable_prefetching" \/ (call # "disable_prefetching"
                      /\ Latest(s, z, "enable_prefetching", "disable_prefetching")))
          /\ Latest(s, z + 1, "enable_stealing", "disable_stealing")
               <=> (call = "enable_stealing" \/ (call # "disable_stealing"
                      /\ Latest(s, z, "enable_stealing", "disable_stealing")))
      BY <1>7, LatestNext
    <3>6. SentTo(c, k)' = z + 1 /\ stealing'[k] = b /\ prefetching'[k] = p /\ made'[c] = s
      BY <1>9, <1>10, <1>12, <3>2
    <3> HIDE DEF Told, Latest, ToldOf, SentTo
    <3> QED BY <3>1, <3>3, <3>4, <3>5, <3>6
  <2> QED BY <1>2, <2>6, <2>7, <2>8 DEF AgreeOn
<1> QED BY <1>11, <1>12

(* What the message says is done, and it is no longer under way.           *)
LEMMA ServeSwitchAgrees ==
  ASSUME ShapeInv, Same, AgreeInv, NEW s \in Servers, NEW n \in Nodes, NEW call \in SwitchCalls,
         ServeSwitch(s, n, call), UNCHANGED bvars
  PROVE  AgreeInv'
<1> SUFFICES ASSUME NEW c \in Creators, OneCaller(c) PROVE AgreeOn(c)'
  BY AgreeFor
<1>1. AgreeOn(c)
  BY DEF AgreeInv
<1>2. PICK msg : msg = Head(chan[n][s[1]][MaxNvps])
  OBVIOUS
<1>3. PICK m \in Nodes : m = s[1]
  BY ServerFacts DEF ShapeInv
<1>4. /\ SetupInv /\ Channels /\ MaxNvps \in Tags /\ msg \in Messages(MaxNvps) /\ msg.type = call
      /\ chan[n][m][MaxNvps] # <<>> /\ Take(n, m, MaxNvps)
  BY <1>2, <1>3, ServesEffect DEF ServeSwitch
<1>5. PICK q \in Seq(AnyMessage) : q = chan[n][m][MaxNvps]
  BY <1>4 DEF Channels
<1>6. /\ q # <<>> /\ Head(q) = msg /\ msg \in AnyMessage /\ 1 \in 1 .. Len(q) /\ q[1] = msg
      /\ Tail(q) \in Seq(AnyMessage) /\ Len(Tail(q)) \in Nat /\ Len(q) = Len(Tail(q)) + 1
      /\ \A i \in 1 .. Len(Tail(q)) : Tail(q)[i] = q[i + 1] /\ i + 1 \in 1 .. Len(q)
  <2>1. q # <<>> /\ Head(q) = msg /\ msg \in AnyMessage
    BY <1>2, <1>3, <1>4, <1>5 DEF Messages
  <2>2. /\ Tail(q) \in Seq(AnyMessage) /\ Len(Tail(q)) \in Nat /\ Len(q) = Len(Tail(q)) + 1
        /\ q[1] = Head(q) /\ \A i \in 1 .. Len(Tail(q)) : Tail(q)[i] = q[i + 1]
    BY <2>1, HeadTailProperties, LenProperties
  <2> QED BY <2>1, <2>2
<1>7. n = c[1] /\ m # c[1]
  BY <1>1, <1>4, <1>5, <1>6 DEF AgreeOn
<1>8. /\ chan'[n][m][MaxNvps] = Tail(q)
      /\ \A x \in Nodes, y \in Nodes : <<x, y>> # <<n, m>> => chan'[x][y][MaxNvps] = chan[x][y][MaxNvps]
  <2>1. /\ chan'[n][m][MaxNvps] = Tail(chan[n][m][MaxNvps])
        /\ \A x \in Nodes, y \in Nodes, g \in Tags : <<x, y, g>> # <<n, m, MaxNvps>> =>
             chan'[x][y][g] = chan[x][y][g]
    BY <1>4, TakeEffect
  <2>2. \A x, y : <<x, y>> # <<n, m>> => <<x, y, MaxNvps>> # <<n, m, MaxNvps>>
    OBVIOUS
  <2> QED BY <1>4, <1>5, <2>1, <2>2
<1>9. /\ Nodes' = Nodes /\ made' = made /\ Apply(m, call)
      /\ \A k \in Nodes : SentTo(c, k)' = SentTo(c, k)
  BY <1>3 DEF Same, ServeSwitch, SentTo
<1>10. ASSUME NEW x \in Nodes, NEW y \in Nodes, NEW i \in 1 .. Len(chan'[x][y][MaxNvps]),
              chan'[x][y][MaxNvps][i].type \in SwitchCalls
       PROVE  x = c[1] /\ y # c[1]
  <2>1. CASE <<x, y>> = <<n, m>>
    BY <1>7, <2>1
  <2>2. CASE <<x, y>> # <<n, m>>
    <3>1. chan'[x][y][MaxNvps] = chan[x][y][MaxNvps]
      BY <1>8, <2>2
    <3> QED BY <1>1, <1>10, <3>1 DEF AgreeOn
  <2> QED BY <2>1, <2>2
<1>11. ASSUME NEW k \in Nodes, k # m
       PROVE  /\ Told(ToldOf(c, k)', "enable_prefetching", "disable_prefetching", prefetching'[k])
                   <=> Latest(made'[c], SentTo(c, k)', "enable_prefetching", "disable_prefetching")
              /\ Told(ToldOf(c, k)', "enable_stealing", "disable_stealing", stealing'[k])
                   => Latest(made'[c], SentTo(c, k)', "enable_stealing", "disable_stealing")
  <2>1. ToldOf(c, k)' = ToldOf(c, k)
    BY <1>7, <1>8, <1>11 DEF ToldOf
  <2>2. stealing'[k] = stealing[k] /\ prefetching'[k] = prefetching[k]
    BY <1>9, <1>11, ApplyEffect
  <2> QED BY <1>1, <1>9, <2>1, <2>2 DEF AgreeOn
<1>12. /\ Told(ToldOf(c, m)', "enable_prefetching", "disable_prefetching", prefetching'[m])
            <=> Latest(made'[c], SentTo(c, m)', "enable_prefetching", "disable_prefetching")
       /\ Told(ToldOf(c, m)', "enable_stealing", "disable_stealing", stealing'[m])
            => Latest(made'[c], SentTo(c, m)', "enable_stealing", "disable_stealing")
  <2>1. ToldOf(c, m) = q /\ ToldOf(c, m)' = Tail(q)
    BY <1>5, <1>7, <1>8 DEF ToldOf
  <2>2. /\ stealing'[m] \in BOOLEAN /\ prefetching'[m] \in BOOLEAN
        /\ stealing[m] \in BOOLEAN /\ prefetching[m] \in BOOLEAN
        /\ Asks(call, "enable_stealing", "disable_stealing", stealing[m], stealing'[m])
        /\ Asks(call, "enable_prefetching", "disable_prefetching", prefetching[m], prefetching'[m])
    BY <1>9, ApplyEffect, Setting
  <2>3. Told(Tail(q), "enable_prefetching", "disable_prefetching", prefetching'[m])
          <=> Told(q, "enable_prefetching", "disable_prefetching", prefetching[m])
    <3>1. /\ Head(q).type = "enable_prefetching" => prefetching'[m]
          /\ Head(q).type = "disable_prefetching" => ~prefetching'[m]
          /\ Head(q).type # "enable_prefetching" /\ Head(q).type # "disable_prefetching"
               => prefetching'[m] = prefetching[m]
      BY <1>4, <1>6, <2>2 DEF Asks
    <3> QED BY <1>6, <2>2, <3>1, ToldTail
  <2>4. Told(Tail(q), "enable_stealing", "disable_stealing", stealing'[m])
          <=> Told(q, "enable_stealing", "disable_stealing", stealing[m])
    <3>1. /\ Head(q).type = "enable_stealing" => stealing'[m]
          /\ Head(q).type = "disable_stealing" => ~stealing'[m]
          /\ Head(q).type # "enable_stealing" /\ Head(q).type # "disable_stealing"
               => stealing'[m] = stealing[m]
      BY <1>4, <1>6, <2>2 DEF Asks
    <3> QED BY <1>6, <2>2, <3>1, ToldTail
  <2> QED BY <1>1, <1>9, <2>1, <2>3, <2>4 DEF AgreeOn
<1> QED BY <1>9, <1>10, <1>11, <1>12 DEF AgreeOn

(***************************************************************************)
(* Together: the settings are as the calls and the messages say.           *)
(***************************************************************************)
LEMMA AgreeInit == ASSUME ClusterInit, PayloadsApart PROVE AgreeInv
<1>1. ShapeInv
  BY ShapeInit
<1>2. ASSUME NEW c \in Creators PROVE AgreeOn(c)
  <2>1. c[1] \in Nodes /\ MaxNvps \in Tags /\ c \in Threads
    BY <1>1, WorkerFacts, TagFacts DEF ShapeInv
  <2>2. \A k \in Nodes, n \in Nodes : chan[k][n][MaxNvps] = <<>>
    BY <2>1 DEF ClusterInit, Init
  <2>3. /\ made[c] = <<>> /\ pc[c] # "switch"
        /\ \A n \in Nodes : stealing[n] = FALSE /\ prefetching[n] = FALSE
    BY <2>1 DEF ClusterInit, Init
  <2>4. Len(<<>>) = 0 /\ 1 .. 0 = {}
    OBVIOUS
  <2>5. \A n \in Nodes : ToldOf(c, n) = <<>> /\ SentTo(c, n) = 0
    BY <2>1, <2>2, <2>3, <2>4 DEF ToldOf, SentTo
  <2>6. \A on, off : ~Told(<<>>, on, off, FALSE) /\ ~Latest(<<>>, 0, on, off)
    BY <2>4 DEF Told, Latest
  <2> HIDE DEF Told, Latest, ToldOf, SentTo
  <2>7. \A k \in Nodes, n \in Nodes : \A i \in 1 .. Len(chan[k][n][MaxNvps]) :
          chan[k][n][MaxNvps][i].type \in SwitchCalls => k = c[1] /\ n # c[1]
    BY <2>2, <2>4
  <2> QED BY <2>3, <2>5, <2>6, <2>7 DEF AgreeOn
<1> QED BY <1>2 DEF AgreeInv

LEMMA AgreeSteps ==
  ASSUME ClusterInv, Same, AgreeInv, UNCHANGED bvars
  PROVE  /\ \A c \in Creators : AppStep(c) => AgreeInv'
         /\ \A w \in Workers, n \in Nodes : PrefetchRequest(w, n) => AgreeInv'
         /\ \A th \in Threads : Step(th) => AgreeInv'
<1>0. ShapeInv /\ PlaceInv
  BY DEF ClusterInv
<1>1. ASSUME NEW c \in Creators, AppStep(c) PROVE AgreeInv'
  BY <1>0, <1>1, CreateAgree, SwitchCallAgrees, WaitAgrees DEF AppStep
<1>2. ASSUME NEW w \in Workers, NEW n \in Nodes, PrefetchRequest(w, n) PROVE AgreeInv'
  BY <1>0, <1>2, PrefetchRequestAgrees
<1>3. ASSUME NEW th \in Threads, Step(th) PROVE AgreeInv'
  <2>1. ASSUME th \in Creators, Joined(th) \/ NotYet(th) \/ SendSwitch(th) PROVE AgreeInv'
    BY <1>0, <2>1, WaitAgrees, SendSwitchAgrees
  <2>2. ASSUME th \in Workers, Search(th) PROVE AgreeInv'
    BY <1>0, <2>2, TakeLocalAgrees, SearchAgrees, StartRoundAgrees, StealRequestAgrees, StealReplyAgrees
       DEF Search
  <2>3. ASSUME th \in Servers, Serve(th) PROVE AgreeInv'
    BY <1>0, <2>3, ServeEnqueueAgrees, ServeAnswerAgrees, ServeStealAgrees, ServePrefetchAgrees,
       ServeSwitchAgrees, ReceiveResultsAgrees DEF Serve
  <2>4. ASSUME Communicate(th) PROVE AgreeInv'
    BY <1>0, <2>4, SendDescriptorAgrees, DirectSendAgrees, SendArgumentsAgrees, HoldForArgumentsAgrees,
       ReceiveArgumentsAgrees DEF Communicate
  <2>5. ASSUME RunTask(th) PROVE AgreeInv'
    BY <1>0, <2>5, ExecuteAgrees, ReturnHomeAgrees, SendAnswerAgrees, SendResultsAgrees DEF RunTask
  <2> QED BY <1>3, <2>1, <2>2, <2>3, <2>4, <2>5 DEF Step
<1> QED BY <1>1, <1>2, <1>3

LEMMA AgreeStep ==
  ASSUME ClusterInv, AgreeInv, [ClusterNext]_cvars
  PROVE  AgreeInv'
<1>0. ShapeInv
  BY DEF ClusterInv
<1>1. CASE UNCHANGED cvars
  <2>1. UNCHANGED <<setup, chan, pc, peer, stealing, prefetching, made>>
    BY <1>1 DEF cvars, vars
  <2>2. Same /\ OtherLetters
    BY <2>1, SetupFixed, LettersSame
  <2>3. \A c \in Creators : OneCaller(c) => AgreeOn(c)'
    <3> SUFFICES ASSUME NEW c \in Creators, OneCaller(c) PROVE AgreeOn(c)'
      OBVIOUS
    <3>1. AgreeOn(c)
      BY DEF AgreeInv
    <3>2. \A n \in Nodes : SentTo(c, n)' = SentTo(c, n)
      BY <2>1 DEF SentTo
    <3> QED BY <1>0, <2>1, <2>2, <3>1, <3>2, AgreeStays
  <2> QED BY <1>0, <2>2, <2>3, AgreeFor
<1>2. CASE ClusterNext
  <2>1. Same
    BY <1>2, SetupKept, SetupFixed
  <2>2. CASE Next /\ UNCHANGED bvars
    BY <2>1, <2>2, AgreeSteps DEF Next
  <2>3. ASSUME NEW c \in Creators, NEW a \in Variables, NEW v \in Values, Broadcast(c, a, v) PROVE AgreeInv'
    BY <1>0, <2>1, <2>3, BroadcastCallAgrees
  <2>4. ASSUME NEW th \in Threads, BroadcastStep(th) PROVE AgreeInv'
    <3>1. ASSUME th \in Creators, SkipOwn(th) \/ SendBroadcast(th) \/ Ssend(th) \/ SsendDone(th)
          PROVE  AgreeInv'
      BY <1>0, <2>1, <3>1, NextNodeAgrees, SendBroadcastAgrees, SsendAgrees
    <3>2. ASSUME th \in Servers, ReceiveData(th) \/ \E n \in Nodes : ServeBroadcast(th, n)
          PROVE  AgreeInv'
      BY <1>0, <2>1, <3>2, ReceiveDataAgrees, ServeBroadcastAgrees
    <3> QED BY <2>4, <3>1, <3>2 DEF BroadcastStep
  <2> QED BY <1>2, <2>2, <2>3, <2>4 DEF ClusterNext
<1> QED BY <1>1, <1>2

(* Without messages under way the setting is the one asked.                *)
LEMMA AgreeHolds == ASSUME ShapeInv, AgreeInv PROVE Agreement
<1> SUFFICES ASSUME NEW c \in Creators, Quiet, OneCaller(c), NEW n \in Nodes
             PROVE  /\ prefetching[n] = LastOn(made[c], "enable_prefetching", "disable_prefetching")
                    /\ stealing[n] => LastOn(made[c], "enable_stealing", "disable_stealing")
  BY DEF Agreement, OneCaller
<1>1. AgreeOn(c) /\ c[1] \in Nodes /\ MaxNvps \in Tags
  BY WorkerFacts, TagFacts DEF AgreeInv, ShapeInv
<1>2. PICK s \in Seq(Calls) : s = made[c]
  BY DEF ShapeInv, SwitchTypes
<1>3. SentTo(c, n) = Len(s)
  BY <1>2 DEF SentTo, Quiet
<1>4. PICK q \in Seq(AnyMessage) : q = ToldOf(c, n)
  BY <1>1 DEF ToldOf, ShapeInv, Channels
<1>5. \A i \in 1 .. Len(q) : q[i].type \notin SwitchCalls
  <2>1. DOMAIN q = 1 .. Len(q) /\ q = chan[c[1]][n][MaxNvps]
    BY <1>4, LenProperties DEF ToldOf
  <2> QED BY <1>1, <2>1 DEF Quiet
<1>6. PICK b \in BOOLEAN, p \in BOOLEAN : b = stealing[n] /\ p = prefetching[n]
  BY Setting
<1>7. /\ Told(q, "enable_prefetching", "disable_prefetching", p) <=> p
      /\ Told(q, "enable_stealing", "disable_stealing", b) <=> b
  <2>1. /\ \A i \in 1 .. Len(q) : ~Sets(q[i], "enable_prefetching", "disable_prefetching")
        /\ \A i \in 1 .. Len(q) : ~Sets(q[i], "enable_stealing", "disable_stealing")
    BY <1>5 DEF Sets, SwitchCalls
  <2> QED BY <2>1, ToldUnset
<1>8. /\ LastOn(s, "enable_prefetching", "disable_prefetching")
           <=> Latest(s, Len(s), "enable_prefetching", "disable_prefetching")
      /\ LastOn(s, "enable_stealing", "disable_stealing")
           <=> Latest(s, Len(s), "enable_stealing", "disable_stealing")
  BY LastOnIsLatest
<1>9. /\ Told(q, "enable_prefetching", "disable_prefetching", p)
           <=> Latest(s, Len(s), "enable_prefetching", "disable_prefetching")
      /\ Told(q, "enable_stealing", "disable_stealing", b)
           => Latest(s, Len(s), "enable_stealing", "disable_stealing")
  BY <1>1, <1>2, <1>3, <1>4, <1>6 DEF AgreeOn
<1>10. LastOn(s, "enable_prefetching", "disable_prefetching") \in BOOLEAN
  BY DEF LastOn
<1>11. p = LastOn(s, "enable_prefetching", "disable_prefetching")
  BY <1>7, <1>8, <1>9, <1>10
<1>12. b => LastOn(s, "enable_stealing", "disable_stealing")
  BY <1>7, <1>8, <1>9
<1> QED BY <1>2, <1>6, <1>11, <1>12

(* Agreement in every cluster and however the messages of a switch overlap *)
(* with tasks, thefts and broadcasts: when they have been received, every  *)
(* node is set as the one caller's last call of enable_prefetching or      *)
(* disable_prefetching asked, and none steals after disable_stealing.      *)
THEOREM ClusterSwitchesAgree == ClusterSpec /\ PayloadsApart => []Agreement
<1>1. ClusterInit /\ PayloadsApart => AgreeInv
  BY AgreeInit
<1>2. ClusterInv /\ AgreeInv /\ [ClusterNext]_cvars => AgreeInv'
  BY AgreeStep
<1>3. ClusterInv /\ AgreeInv => Agreement
  BY AgreeHolds DEF ClusterInv
<1> QED BY <1>1, <1>2, <1>3, ClusterInvariant, PTL DEF ClusterSpec

(***************************************************************************)
(* Payloads.  Between n and m, the messages that announce a payload with   *)
(* the tag vp and the payloads themselves are in different channels.  They *)
(* are matched by their order: the server of m may have taken the message  *)
(* and wait for the payload, and worker vp of n may still have to send it. *)
(***************************************************************************)

(* How many of the first i elements of Q are in A.                         *)
Upto(Q, i, A) == Cardinality({j \in 1 .. i : Q[j] \in A})

(* The payload that a message announces.                                   *)
Fit(msg, load) ==
  IF msg.type = "bcast" THEN load.type = "data"
  ELSE /\ load.body = msg.body
       /\ load.type = IF msg.type = "enqueue" THEN "argument" ELSE "result"

(* The elements of Q that are in A announce the elements of R, in order.   *)
Match(Q, R, A) ==
  /\ Num(Q, A) = Len(R)
  /\ \A i \in 1 .. Len(Q) : Q[i] \in A => Fit(Q[i], R[Upto(Q, i, A)])

LEMMA Counted ==
  ASSUME NEW S, NEW Q \in Seq(S), NEW A, NEW i \in 1 .. Len(Q)
  PROVE  /\ Upto(Q, i, A) \in Nat /\ Upto(Q, i, A) <= Num(Q, A)
         /\ Q[i] \in A => Upto(Q, i, A) >= 1
<1> DEFINE U == {j \in 1 .. i : Q[j] \in A}
           V == {j \in 1 .. Len(Q) : Q[j] \in A}
<1>1. Len(Q) \in Nat /\ i \in Nat /\ i <= Len(Q)
  OBVIOUS
<1>2. U \subseteq V
  BY <1>1
<1>3. IsFiniteSet(V)
  BY NumType
<1>4. IsFiniteSet(U) /\ Cardinality(U) <= Cardinality(V)
  BY <1>2, <1>3, FS_Subset
<1>5. Cardinality(U) \in Nat
  BY <1>4, FS_CardinalityType
<1>6. ASSUME Q[i] \in A PROVE Cardinality(U) >= 1
  <2>1. i \in U
    BY <1>1, <1>6
  <2>2. Cardinality(U) # 0
    BY <1>4, <2>1, FS_EmptySet
  <2> QED BY <1>5, <2>2
<1> QED BY <1>4, <1>5, <1>6 DEF Upto, Num

(* A matched element is matched with an element.                           *)
LEMMA MatchIn ==
  ASSUME NEW S, NEW Q \in Seq(S), NEW R, NEW A, Match(Q, R, A), NEW i \in 1 .. Len(Q), Q[i] \in A
  PROVE  Upto(Q, i, A) \in 1 .. Len(R) /\ Fit(Q[i], R[Upto(Q, i, A)])
<1>1. /\ Upto(Q, i, A) \in Nat /\ Upto(Q, i, A) <= Num(Q, A) /\ Upto(Q, i, A) >= 1
  BY Counted
<1>2. Num(Q, A) = Len(R) /\ Num(Q, A) \in Nat
  BY NumType DEF Match
<1> QED BY <1>1, <1>2 DEF Match

LEMMA MatchAppend ==
  ASSUME NEW S, NEW Q \in Seq(S), NEW T, NEW R \in Seq(T), NEW A, Match(Q, R, A),
         NEW x \in S, NEW y \in T, x \in A, Fit(x, y)
  PROVE  Match(Append(Q, x), Append(R, y), A)
<1> DEFINE P == Append(Q, x)
<1>1. /\ Len(Q) \in Nat /\ Len(R) \in Nat /\ Len(P) = Len(Q) + 1 /\ P \in Seq(S)
      /\ (\A i \in 1 .. Len(Q) : P[i] = Q[i]) /\ P[Len(Q) + 1] = x
  BY AppendProperties, LenProperties
<1>2. /\ Len(Append(R, y)) = Len(R) + 1
      /\ (\A i \in 1 .. Len(R) : Append(R, y)[i] = R[i]) /\ Append(R, y)[Len(R) + 1] = y
  BY AppendProperties, LenProperties
<1>3. Num(P, A) = Num(Q, A) + 1 /\ Num(Q, A) = Len(R)
  BY NumAppend DEF One, Match
<1>4. \A i \in 1 .. Len(Q) : Upto(P, i, A) = Upto(Q, i, A)
  <2> SUFFICES ASSUME NEW i \in 1 .. Len(Q) PROVE Upto(P, i, A) = Upto(Q, i, A)
    OBVIOUS
  <2>1. {j \in 1 .. i : P[j] \in A} = {j \in 1 .. i : Q[j] \in A}
    BY <1>1
  <2> QED BY <2>1 DEF Upto
<1>5. Upto(P, Len(Q) + 1, A) = Len(R) + 1
  BY <1>1, <1>3 DEF Upto, Num
<1>6. ASSUME NEW i \in 1 .. Len(P), P[i] \in A PROVE Fit(P[i], Append(R, y)[Upto(P, i, A)])
  <2>1. CASE i = Len(Q) + 1
    BY <2>1, <1>1, <1>2, <1>5
  <2>2. CASE i # Len(Q) + 1
    <3>1. i \in 1 .. Len(Q)
      BY <1>1, <2>2
    <3>2. P[i] = Q[i] /\ Upto(P, i, A) = Upto(Q, i, A)
      BY <1>1, <1>4, <3>1
    <3>3. Upto(Q, i, A) \in 1 .. Len(R) /\ Fit(Q[i], R[Upto(Q, i, A)])
      BY <1>6, <3>1, <3>2, MatchIn
    <3> QED BY <1>2, <3>2, <3>3
  <2> QED BY <2>1, <2>2
<1> HIDE DEF P
<1>7. Num(P, A) = Len(Append(R, y))
  BY <1>2, <1>3
<1>8. Match(P, Append(R, y), A)
  BY <1>6, <1>7 DEF Match
<1> QED BY <1>8 DEF P

LEMMA MatchAppendOther ==
  ASSUME NEW S, NEW Q \in Seq(S), NEW R, NEW A, Match(Q, R, A), NEW x \in S, x \notin A
  PROVE  Match(Append(Q, x), R, A)
<1> DEFINE P == Append(Q, x)
<1>1. /\ Len(Q) \in Nat /\ Len(P) = Len(Q) + 1 /\ P \in Seq(S)
      /\ (\A i \in 1 .. Len(Q) : P[i] = Q[i]) /\ P[Len(Q) + 1] = x
  BY AppendProperties, LenProperties
<1>2. Num(P, A) = Num(Q, A)
  <2>1. Num(P, A) = Num(Q, A) + 0 /\ Num(Q, A) \in Nat
    BY NumAppend, NumType DEF One
  <2> QED BY <2>1
<1>3. ASSUME NEW i \in 1 .. Len(P), P[i] \in A PROVE Fit(P[i], R[Upto(P, i, A)])
  <2>1. i \in 1 .. Len(Q)
    <3>1. i # Len(Q) + 1
      BY <1>1, <1>3
    <3> QED BY <1>1, <3>1
  <2>2. {j \in 1 .. i : P[j] \in A} = {j \in 1 .. i : Q[j] \in A}
    BY <1>1, <2>1
  <2>3. P[i] = Q[i] /\ Upto(P, i, A) = Upto(Q, i, A)
    BY <1>1, <2>1, <2>2 DEF Upto
  <2> QED BY <1>3, <2>1, <2>3, MatchIn
<1> HIDE DEF P
<1>4. Match(P, R, A)
  BY <1>2, <1>3 DEF Match
<1> QED BY <1>4 DEF P

(* The first element of Q is taken.                                        *)
LEMMA UptoTail ==
  ASSUME NEW S, NEW Q \in Seq(S), Q # <<>>, NEW A, NEW i \in 1 .. Len(Tail(Q))
  PROVE  /\ i + 1 \in 1 .. Len(Q) /\ Tail(Q)[i] = Q[i + 1]
         /\ Upto(Q, i + 1, A) = Upto(Tail(Q), i, A) + One(Head(Q) \in A)
<1> DEFINE P == Tail(Q)
           r == [j \in 1 .. i + 1 |-> Q[j]]
           s == [j \in 1 .. i |-> P[j]]
<1>1. /\ Len(Q) \in Nat /\ P \in Seq(S) /\ Len(P) = Len(Q) - 1 /\ i \in Nat /\ 1 <= i /\ i <= Len(P)
      /\ (\A j \in 1 .. Len(P) : P[j] = Q[j + 1]) /\ Head(Q) = Q[1]
  BY HeadTailProperties, LenProperties
<1>2. i + 1 \in 1 .. Len(Q) /\ P[i] = Q[i + 1]
  BY <1>1
<1> HIDE DEF P
<1>3. r \in Seq(S) /\ Len(r) = i + 1
  BY <1>1
<1>4. s \in Seq(S) /\ Len(s) = i
  BY <1>1
<1>5. \A j \in 1 .. Len(s) : r[j + 1] = s[j]
  BY <1>1, <1>4
<1>6. r[1] = Head(Q)
  BY <1>1
<1>7. Num(r, A) = Upto(Q, i + 1, A)
  <2>1. {j \in 1 .. i + 1 : r[j] \in A} = {j \in 1 .. i + 1 : Q[j] \in A}
    OBVIOUS
  <2> QED BY <1>3, <2>1 DEF Num, Upto
<1>8. Num(s, A) = Upto(P, i, A)
  <2>1. {j \in 1 .. i : s[j] \in A} = {j \in 1 .. i : P[j] \in A}
    OBVIOUS
  <2> QED BY <1>4, <2>1 DEF Num, Upto
<1> HIDE DEF r, s
<1>9. Num(r, A) = Num(s, A) + One(r[1] \in A)
  BY <1>3, <1>4, <1>5, NumShift
<1>10. Upto(Q, i + 1, A) = Upto(P, i, A) + One(Head(Q) \in A)
  BY <1>6, <1>7, <1>8, <1>9
<1> QED BY <1>2, <1>10 DEF P

LEMMA MatchHead ==
  ASSUME NEW S, NEW Q \in Seq(S), Q # <<>>, NEW T, NEW R \in Seq(T), NEW A, Match(Q, R, A), Head(Q) \in A
  PROVE  R # <<>> /\ Fit(Head(Q), Head(R))
<1>1. 1 \in 1 .. Len(Q) /\ Head(Q) = Q[1]
  BY EmptySeq
<1>2. Upto(Q, 1, A) \in 1 .. Len(R) /\ Fit(Q[1], R[Upto(Q, 1, A)])
  BY <1>1, MatchIn
<1>3. {j \in 1 .. 1 : Q[j] \in A} = {1}
  BY <1>1
<1>4. Upto(Q, 1, A) = 1
  BY <1>3, FS_Singleton DEF Upto
<1>5. R # <<>>
  BY <1>2, EmptySeq
<1> QED BY <1>1, <1>2, <1>4, <1>5

LEMMA MatchTail ==
  ASSUME NEW S, NEW Q \in Seq(S), Q # <<>>, NEW T, NEW R \in Seq(T), NEW A, Match(Q, R, A), Head(Q) \in A
  PROVE  Match(Tail(Q), Tail(R), A)
<1> DEFINE P == Tail(Q)
<1>0. R # <<>>
  BY MatchHead
<1>1. /\ P \in Seq(S) /\ Len(R) \in Nat /\ Len(Tail(R)) = Len(R) - 1
      /\ \A i \in 1 .. Len(Tail(R)) : Tail(R)[i] = R[i + 1]
  BY <1>0, HeadTailProperties, LenProperties
<1>2. Num(P, A) = Len(Tail(R))
  <2>1. Num(Q, A) = Num(P, A) + 1 /\ Num(P, A) \in Nat /\ Num(Q, A) = Len(R)
    BY <1>1, NumTail, NumType DEF One, Match
  <2> QED BY <1>1, <2>1
<1>3. ASSUME NEW i \in 1 .. Len(P), P[i] \in A PROVE Fit(P[i], Tail(R)[Upto(P, i, A)])
  <2>1. /\ i + 1 \in 1 .. Len(Q) /\ P[i] = Q[i + 1]
        /\ Upto(Q, i + 1, A) = Upto(P, i, A) + 1
    BY UptoTail DEF One
  <2>2. Upto(Q, i + 1, A) \in 1 .. Len(R) /\ Fit(Q[i + 1], R[Upto(Q, i + 1, A)])
    BY <1>3, <2>1, MatchIn
  <2>3. Upto(P, i, A) \in Nat /\ Upto(P, i, A) >= 1
    BY <1>1, <1>3, Counted
  <2>4. Upto(P, i, A) \in 1 .. Len(Tail(R))
    BY <1>1, <2>1, <2>2, <2>3
  <2> QED BY <1>1, <2>1, <2>2, <2>4
<1> HIDE DEF P
<1>4. Match(P, Tail(R), A)
  BY <1>2, <1>3 DEF Match
<1> QED BY <1>4 DEF P

LEMMA MatchTailOther ==
  ASSUME NEW S, NEW Q \in Seq(S), Q # <<>>, NEW R, NEW A, Match(Q, R, A), Head(Q) \notin A
  PROVE  Match(Tail(Q), R, A)
<1> DEFINE P == Tail(Q)
<1>1. P \in Seq(S)
  BY HeadTailProperties
<1>2. Num(P, A) = Len(R)
  <2>1. Num(Q, A) = Num(P, A) + 0 /\ Num(P, A) \in Nat /\ Num(Q, A) = Len(R)
    BY <1>1, NumTail, NumType DEF One, Match
  <2> QED BY <2>1
<1>3. ASSUME NEW i \in 1 .. Len(P), P[i] \in A PROVE Fit(P[i], R[Upto(P, i, A)])
  <2>1. /\ i + 1 \in 1 .. Len(Q) /\ P[i] = Q[i + 1]
        /\ Upto(Q, i + 1, A) = Upto(P, i, A) + 0
    BY UptoTail DEF One
  <2>2. Fit(Q[i + 1], R[Upto(Q, i + 1, A)])
    BY <1>3, <2>1, MatchIn
  <2>3. Upto(P, i, A) \in Nat
    BY <1>1, Counted
  <2> QED BY <2>1, <2>2, <2>3
<1> HIDE DEF P
<1>4. Match(P, R, A)
  BY <1>2, <1>3 DEF Match
<1> QED BY <1>4 DEF P

(* A payload counts by its type and its task.                              *)
LEMMA MatchSame ==
  ASSUME NEW S, NEW Q \in Seq(S), NEW R, NEW P, NEW A, Match(Q, R, A), Len(P) = Len(R),
         \A i \in 1 .. Len(R) :
           P[i].type = R[i].type /\ (R[i].type = "data" \/ P[i].body = R[i].body)
  PROVE  Match(Q, P, A)
<1>1. ASSUME NEW i \in 1 .. Len(Q), Q[i] \in A PROVE Fit(Q[i], P[Upto(Q, i, A)])
  <2>1. PICK k \in 1 .. Len(R) : k = Upto(Q, i, A) /\ Fit(Q[i], R[k])
    BY <1>1, MatchIn
  <2>2. P[k].type = R[k].type /\ (R[k].type = "data" \/ P[k].body = R[k].body)
    BY <2>1
  <2>3. Fit(Q[i], P[k])
    BY <2>1, <2>2 DEF Fit
  <2> QED BY <2>1, <2>3
<1> QED BY <1>1 DEF Match

(***************************************************************************)
(* Sequences with a first or a last element of their own.                  *)
(***************************************************************************)
LEMMA EdgeFacts ==
  ASSUME NEW S, NEW Q \in Seq(S), NEW x \in S
  PROVE  /\ <<x>> \o Q \in Seq(S) /\ <<x>> \o Q # <<>>
         /\ Head(<<x>> \o Q) = x /\ Tail(<<x>> \o Q) = Q
         /\ Q \o <<x>> = Append(Q, x)
         /\ <<>> \o Q = Q /\ Q \o <<>> = Q
         /\ Q # <<>> => <<Head(Q)>> \o Tail(Q) = Q
<1> DEFINE a == <<x>>
<1>1. a \in Seq(S) /\ Len(a) = 1 /\ a[1] = x
  OBVIOUS
<1> HIDE DEF a
<1>2. a \o Q \in Seq(S) /\ Len(a \o Q) = 1 + Len(Q) /\ Len(Q) \in Nat
      /\ \A i \in 1 .. 1 + Len(Q) : (a \o Q)[i] = IF i <= 1 THEN a[i] ELSE Q[i - 1]
  <2>1. a \o Q \in Seq(S) /\ Len(a \o Q) = Len(a) + Len(Q)
        /\ \A i \in 1 .. Len(a) + Len(Q) : (a \o Q)[i] = IF i <= Len(a) THEN a[i] ELSE Q[i - Len(a)]
    BY <1>1, ConcatProperties
  <2> QED BY <1>1, <2>1, LenProperties
<1>3. a \o Q # <<>> /\ Head(a \o Q) = x
  <2>1. Len(a \o Q) # 0 /\ 1 \in 1 .. 1 + Len(Q)
    BY <1>2
  <2>2. (a \o Q)[1] = x
    BY <1>1, <1>2, <2>1
  <2>3. a \o Q # <<>>
    BY <2>1, EmptySeq
  <2> QED BY <1>2, <2>2, <2>3
<1>4. Tail(a \o Q) = Q
  <2> DEFINE t == Tail(a \o Q)
  <2>1. t \in Seq(S) /\ Len(t) = Len(Q) /\ \A i \in 1 .. Len(t) : t[i] = (a \o Q)[i + 1]
    BY <1>2, <1>3, HeadTailProperties
  <2>2. ASSUME NEW i \in 1 .. Len(t) PROVE t[i] = Q[i]
    <3>1. i + 1 \in 1 .. 1 + Len(Q) /\ ~(i + 1 <= 1) /\ (i + 1) - 1 = i
      BY <1>2, <2>1
    <3>2. (a \o Q)[i + 1] = Q[(i + 1) - 1]
      BY <1>2, <3>1
    <3> QED BY <2>1, <3>1, <3>2
  <2> HIDE DEF t
  <2>3. t = Q
    BY <2>1, <2>2, SeqEqual
  <2> QED BY <2>3 DEF t
<1>5. Q \o a = Append(Q, x)
  <2> DEFINE p == Q \o a
             r == Append(Q, x)
  <2>1. /\ p \in Seq(S) /\ Len(p) = Len(Q) + 1
        /\ \A i \in 1 .. Len(Q) + 1 : p[i] = IF i <= Len(Q) THEN Q[i] ELSE a[i - Len(Q)]
    <3>1. /\ p \in Seq(S) /\ Len(p) = Len(Q) + Len(a)
          /\ \A i \in 1 .. Len(Q) + Len(a) : p[i] = IF i <= Len(Q) THEN Q[i] ELSE a[i - Len(Q)]
      BY <1>1, ConcatProperties
    <3> QED BY <1>1, <3>1
  <2>2. /\ r \in Seq(S) /\ Len(r) = Len(Q) + 1
        /\ (\A i \in 1 .. Len(Q) : r[i] = Q[i]) /\ r[Len(Q) + 1] = x
    BY AppendProperties
  <2>3. ASSUME NEW i \in 1 .. Len(p) PROVE p[i] = r[i]
    <3>1. CASE i <= Len(Q)
      BY <1>2, <2>1, <2>2, <3>1
    <3>2. CASE ~(i <= Len(Q))
      <4>1. i = Len(Q) + 1 /\ i - Len(Q) = 1
        BY <1>2, <2>1, <3>2
      <4>2. p[i] = a[i - Len(Q)]
        BY <2>1, <3>2
      <4> QED BY <1>1, <2>2, <4>1, <4>2
    <3> QED BY <3>1, <3>2
  <2> HIDE DEF p, r
  <2>4. p = r
    BY <2>1, <2>2, <2>3, SeqEqual
  <2> QED BY <2>4 DEF p, r
<1>6. <<>> \o Q = Q /\ Q \o <<>> = Q
  BY ConcatEmptySeq
<1>7. ASSUME Q # <<>> PROVE <<Head(Q)>> \o Tail(Q) = Q
  <2>1. /\ Head(Q) \in S /\ Tail(Q) \in Seq(S) /\ Len(Tail(Q)) = Len(Q) - 1 /\ Len(Q) \in Nat
        /\ Head(Q) = Q[1] /\ \A i \in 1 .. Len(Tail(Q)) : Tail(Q)[i] = Q[i + 1]
    BY <1>7, HeadTailProperties, LenProperties
  <2>2. PICK h \in S, t \in Seq(S) : h = Head(Q) /\ t = Tail(Q)
    BY <2>1
  <2>a. <<h>> \in Seq(S) /\ Len(<<h>>) = 1 /\ <<h>>[1] = h
    OBVIOUS
  <2>3. PICK b \in Seq(S) : b = <<h>> /\ Len(b) = 1 /\ b[1] = h
    BY <2>a
  <2>4. /\ Len(t) = Len(Q) - 1 /\ h = Q[1]
        /\ \A i \in 1 .. Len(t) : t[i] = Q[i + 1]
    BY <2>1, <2>2
  <2> DEFINE p == b \o t
  <2>5. /\ p \in Seq(S) /\ Len(p) = Len(b) + Len(t)
        /\ \A i \in 1 .. Len(b) + Len(t) : p[i] = IF i <= Len(b) THEN b[i] ELSE t[i - Len(b)]
    BY ConcatProperties
  <2> HIDE DEF p
  <2>6. Len(p) = Len(Q) /\ Len(Q) \in Nat
    BY <2>1, <2>3, <2>4, <2>5
  <2>7. ASSUME NEW i \in 1 .. Len(p) PROVE p[i] = Q[i]
    <3>1. p[i] = IF i <= 1 THEN b[i] ELSE t[i - 1]
      BY <2>3, <2>4, <2>5, <2>6
    <3>2. CASE i <= 1
      BY <2>3, <2>4, <2>6, <3>1, <3>2
    <3>3. CASE ~(i <= 1)
      <4>1. i - 1 \in 1 .. Len(t) /\ (i - 1) + 1 = i
        BY <2>4, <2>6, <3>3
      <4> QED BY <2>4, <3>1, <3>3, <4>1
    <3> QED BY <3>2, <3>3
  <2>8. p = Q
    BY <2>5, <2>6, <2>7, SeqEqual
  <2> QED BY <2>2, <2>3, <2>8 DEF p
<1> QED BY <1>2, <1>3, <1>4, <1>5, <1>6, <1>7 DEF a

LEMMA JoinFacts ==
  ASSUME NEW S, NEW P \in Seq(S), NEW C \in Seq(S), NEW x \in S
  PROVE  /\ P \o C \in Seq(S)
         /\ P \o Append(C, x) = Append(P \o C, x)
         /\ C # <<>> => C \o <<x>> # <<>> /\ Tail(C \o <<x>>) = Tail(C) \o <<x>>
<1>0. <<x>> \in Seq(S)
  OBVIOUS
<1>1. PICK b \in Seq(S) : b = <<x>>
  BY <1>0
<1>2. P \o C \in Seq(S)
  BY ConcatProperties
<1>3. Append(C, x) = C \o b /\ Append(P \o C, x) = (P \o C) \o b
  BY <1>1, <1>2, AppendIsConcat
<1>4. (P \o C) \o b = P \o (C \o b)
  BY ConcatAssociative
<1>5. ASSUME C # <<>> PROVE C \o b # <<>> /\ Tail(C \o b) = Tail(C) \o b
  <2>1. Tail(C) \in Seq(S)
    BY <1>5, HeadTailProperties
  <2>2. Append(Tail(C), x) = Tail(C) \o b
    BY <1>1, <2>1, AppendIsConcat
  <2>3. Tail(Append(C, x)) = Append(Tail(C), x) /\ Append(C, x) # <<>>
    BY <1>5, HeadTailAppend, AppendProperties
  <2> QED BY <1>3, <2>2, <2>3
<1> QED BY <1>1, <1>2, <1>3, <1>4, <1>5
(* The messages to m that announce a payload with the tag vp.              *)
Heralds(m, vp) ==
  {msg \in AnyMessage :
     /\ msg.vp = vp
     /\ \/ msg.type = "enqueue" /\ ArgMsgs # 0 /\ Home(msg.body) # m
        \/ msg.type = "answer" /\ ResMsgs # 0
        \/ msg.type = "bcast"}

(* The message that a server has taken and waits for the payload of.       *)
Expecting == {"get_args", "held_args", "get_results", "get_data"}
Letter(s) ==
  [type |-> IF pc[s] = "get_results" THEN "answer"
            ELSE IF pc[s] = "get_data" THEN "bcast" ELSE "enqueue",
   body |-> IF pc[s] = "get_data" THEN address[s] ELSE hand[s],
   vp |-> peer[s][2]]
Pending(s, p) == IF pc[s] \in Expecting /\ peer[s] = p THEN <<Letter(s)>> ELSE <<>>
Announced(n, m, vp) == Pending(Server(m), <<n, vp>>) \o chan[n][m][MaxNvps]

(* The payload that a worker has announced to node m and not sent yet.     *)
Paying == {"send_args", "send_results", "offer"}
Payee(u) == IF pc[u] = "send_results" THEN Home(hand[u]) ELSE peer[u][1]
Load(u) ==
  [type |-> IF pc[u] = "send_args" THEN "argument"
            ELSE IF pc[u] = "send_results" THEN "result" ELSE "data",
   body |-> IF pc[u] = "offer" THEN NoTask ELSE hand[u],
   vp |-> u[2]]
Debt(u, m) == IF u \in Workers /\ pc[u] \in Paying /\ Payee(u) = m THEN <<Load(u)>> ELSE <<>>
Owed(n, m, vp) == chan[n][m][vp] \o Debt(<<n, vp>>, m)

MatchInv ==
  /\ address \in [Servers -> Bodies]
  /\ \A n \in Nodes, m \in Nodes, vp \in WorkerVps :
       Match(Announced(n, m, vp), Owed(n, m, vp), Heralds(m, vp))
  /\ \A s \in Servers : pc[s] \in Expecting => Letter(s) \in Heralds(s[1], peer[s][2])


(* What a thread that does not move waits for, and owes.                   *)
LEMMA PendingSame ==
  ASSUME NEW s, pc'[s] = pc[s], hand'[s] = hand[s], peer'[s] = peer[s], address'[s] = address[s]
  PROVE  /\ Letter(s)' = Letter(s) /\ \A p : Pending(s, p)' = Pending(s, p)
         /\ pc'[s] \in Expecting <=> pc[s] \in Expecting
  BY DEF Letter, Pending

LEMMA DebtSame ==
  ASSUME Same, NEW u, pc'[u] = pc[u], hand'[u] = hand[u], peer'[u] = peer[u],
         pc[u] = "send_results" => parent'[hand[u]] = parent[hand[u]]
  PROVE  \A m : Debt(u, m)' = Debt(u, m)
<1>1. Workers' = Workers
  BY DEF Same
<1>2. Load(u)' = Load(u)
  BY DEF Load
<1>3. pc[u] \in Paying => Payee(u)' = Payee(u)
  BY DEF Payee, Home
<1> QED BY <1>1, <1>2, <1>3 DEF Debt

LEMMA HeraldsSame ==
  ASSUME Same, UNCHANGED parent
  PROVE  \A m, vp : Heralds(m, vp)' = Heralds(m, vp)
<1>1. ArgMsgs' = ArgMsgs /\ ResMsgs' = ResMsgs /\ AnyMessage' = AnyMessage
  BY DEF Same
<1>2. \A msg : Home(msg.body)' = Home(msg.body)
  BY DEF Home
<1> QED BY <1>1, <1>2 DEF Heralds

(* The channels and the threads behind Announced and Owed.                 *)
LEMMA LinkFacts ==
  ASSUME ShapeInv, NEW n \in Nodes, NEW m \in Nodes, NEW vp \in WorkerVps
  PROVE  /\ MaxNvps \in Tags /\ vp \in Tags /\ vp # MaxNvps
         /\ chan[n][m][MaxNvps] \in Seq(AnyMessage) /\ chan[n][m][vp] \in Seq(AnyMessage)
         /\ Server(m) \in Servers /\ Server(m) \in Threads /\ Server(m)[1] = m
         /\ Server(m) \notin Workers
         /\ <<n, vp>>[1] = n /\ <<n, vp>>[2] = vp /\ <<n, vp>> \notin Servers
<1>1. MaxNvps \in Tags /\ vp \in Tags /\ vp # MaxNvps
  BY TagFacts DEF ShapeInv
<1>2. chan[n][m][MaxNvps] \in Seq(AnyMessage) /\ chan[n][m][vp] \in Seq(AnyMessage)
  BY <1>1 DEF ShapeInv, Channels
<1>3. Server(m) \in Servers /\ Server(m) \in Threads /\ Server(m)[1] = m /\ Server(m) \notin Workers
  BY ServerFacts DEF ShapeInv
<1>4. <<n, vp>> \notin Servers
  BY <1>1, ServerFacts DEF ShapeInv
<1> QED BY <1>1, <1>2, <1>3, <1>4

LEMMA LoadType ==
  ASSUME ShapeInv, NEW u \in Workers, pc[u] \in Paying
  PROVE  Load(u) \in AnyMessage
<1>1. hand[u] \in Tasks \cup {NoTask} /\ u[2] \in Vps
  BY Now
<1>2. Load(u).body \in Bodies /\ Load(u).vp \in Vps /\ Load(u).type \in Types
  BY <1>1 DEF Load, Bodies, Types
<1> QED BY <1>2 DEF Load, AnyMessage

LEMMA LinkSeqs ==
  ASSUME ShapeInv, MatchInv, NEW n \in Nodes, NEW m \in Nodes, NEW vp \in WorkerVps
  PROVE  /\ Pending(Server(m), <<n, vp>>) \in Seq(AnyMessage)
         /\ Debt(<<n, vp>>, m) \in Seq(AnyMessage)
         /\ Announced(n, m, vp) \in Seq(AnyMessage) /\ Owed(n, m, vp) \in Seq(AnyMessage)
<1>1. /\ chan[n][m][MaxNvps] \in Seq(AnyMessage) /\ chan[n][m][vp] \in Seq(AnyMessage)
      /\ Server(m) \in Servers
  BY LinkFacts
<1>2. pc[Server(m)] \in Expecting => Letter(Server(m)) \in AnyMessage
  BY <1>1 DEF MatchInv, Heralds
<1>3. Pending(Server(m), <<n, vp>>) \in Seq(AnyMessage)
  BY <1>2 DEF Pending
<1>4. Debt(<<n, vp>>, m) \in Seq(AnyMessage)
  BY LoadType DEF Debt
<1> QED BY <1>1, <1>3, <1>4, ConcatProperties DEF Announced, Owed

(***************************************************************************)
(* The steps, by what they do to the messages between two nodes.           *)
(***************************************************************************)
LEMMA LinkSame ==
  ASSUME ShapeInv, Same, NEW th \in Threads, Alone(th), UNCHANGED parent,
         \A s \in Servers : s # th => address'[s] = address[s],
         NEW n \in Nodes, NEW m \in Nodes, NEW vp \in WorkerVps
  PROVE  /\ Server(m) # th => Pending(Server(m), <<n, vp>>)' = Pending(Server(m), <<n, vp>>)
         /\ <<n, vp>> # th => Debt(<<n, vp>>, m)' = Debt(<<n, vp>>, m)
<1>0. /\ \A o \in Threads : o # th => pc'[o] = pc[o] /\ hand'[o] = hand[o] /\ peer'[o] = peer[o]
      /\ Server(m)' = Server(m) /\ Workers' = Workers /\ Workers \subseteq Threads
  BY AloneOthers, WorkerFacts DEF ShapeInv, Same, Server
<1>1. ASSUME Server(m) # th PROVE Pending(Server(m), <<n, vp>>)' = Pending(Server(m), <<n, vp>>)
  <2>1. PICK s \in Servers : s = Server(m) /\ s \in Threads
    BY LinkFacts
  <2>2. \A p : Pending(s, p)' = Pending(s, p)
    BY <1>0, <1>1, <2>1, PendingSame
  <2> QED BY <1>0, <2>1, <2>2 DEF Pending, Letter
<1>2. ASSUME <<n, vp>> # th PROVE Debt(<<n, vp>>, m)' = Debt(<<n, vp>>, m)
  <2>1. PICK u : u = <<n, vp>>
    OBVIOUS
  <2>2. CASE u \in Workers
    <3>1. pc'[u] = pc[u] /\ hand'[u] = hand[u] /\ peer'[u] = peer[u]
      BY <1>0, <1>2, <2>1, <2>2
    <3>2. Debt(u, m)' = Debt(u, m)
      BY <3>1, DebtSame
    <3> QED BY <2>1, <3>2
  <2>3. CASE u \notin Workers
    <3>1. Debt(u, m)' = Debt(u, m)
      BY <1>0, <2>3 DEF Debt
    <3> QED BY <2>1, <3>1
  <2> QED BY <2>2, <2>3
<1> QED BY <1>1, <1>2

LEMMA MatchFor ==
  ASSUME ShapeInv, Same, MatchInv, NEW th \in Threads, Alone(th), UNCHANGED parent,
         address' \in [Servers -> Bodies], \A s \in Servers : s # th => address'[s] = address[s],
         \A n \in Nodes, m \in Nodes, vp \in WorkerVps :
           Match(Announced(n, m, vp)', Owed(n, m, vp)', Heralds(m, vp)),
         th \in Servers /\ pc'[th] \in Expecting => Letter(th)' \in Heralds(th[1], peer'[th][2])
  PROVE  MatchInv'
<1>0. Nodes' = Nodes /\ Servers' = Servers /\ WorkerVps' = WorkerVps
  BY DEF Same
<1>1. \A m, vp : Heralds(m, vp)' = Heralds(m, vp)
  BY HeraldsSame
<1>2. ASSUME NEW s \in Servers, pc'[s] \in Expecting
      PROVE  Letter(s)' \in Heralds(s[1], peer'[s][2])
  <2>1. CASE s # th
    <3>1. pc'[s] = pc[s] /\ hand'[s] = hand[s] /\ peer'[s] = peer[s] /\ address'[s] = address[s]
      BY <2>1, AloneOthers, ServerFacts DEF ShapeInv
    <3>2. Letter(s)' = Letter(s) /\ pc[s] \in Expecting
      BY <1>2, <3>1, PendingSame
    <3> QED BY <3>1, <3>2 DEF MatchInv
  <2> QED BY <1>2, <2>1
<1>3. (\A s \in Servers : pc[s] \in Expecting => Letter(s) \in Heralds(s[1], peer[s][2]))'
  BY <1>0, <1>1, <1>2
<1>4. \A n \in Nodes, m \in Nodes, vp \in WorkerVps :
        Match(Announced(n, m, vp)', Owed(n, m, vp)', Heralds(m, vp)')
  BY <1>1
<1> QED BY <1>0, <1>3, <1>4 DEF MatchInv

(* No payload moves, and the descriptors that do announce none.            *)
CalmMail ==
  \A n \in Nodes, m \in Nodes, vp \in WorkerVps :
    /\ chan'[n][m][vp] = chan[n][m][vp]
    /\ \/ chan'[n][m][MaxNvps] = chan[n][m][MaxNvps]
       \/ \E x \in AnyMessage : /\ x \notin Heralds(m, vp)
                                /\ chan'[n][m][MaxNvps] = Append(chan[n][m][MaxNvps], x)
       \/ /\ chan[n][m][MaxNvps] # <<>> /\ Head(chan[n][m][MaxNvps]) \notin Heralds(m, vp)
          /\ chan'[n][m][MaxNvps] = Tail(chan[n][m][MaxNvps])
          /\ pc[Server(m)] \notin Expecting

CalmThread(th) ==
  /\ th \in Workers => pc[th] \notin Paying /\ pc'[th] \notin Paying
  /\ th \in Servers =>
       \/ pc[th] \notin Expecting /\ pc'[th] \notin Expecting
       \/ /\ pc[th] = "get_args" /\ pc'[th] = "held_args"
          /\ hand'[th] = hand[th] /\ peer'[th] = peer[th]

LEMMA CalmSame == ASSUME UNCHANGED chan PROVE CalmMail
  BY DEF CalmMail

LEMMA CalmSent ==
  ASSUME ShapeInv, Same, NEW n \in Nodes, NEW m \in Nodes, NEW tag \in Tags, tag \notin WorkerVps,
         NEW msg \in Messages(tag), Post(n, m, tag, msg),
         tag = MaxNvps => \A vp \in WorkerVps : msg \notin Heralds(m, vp)
  PROVE  CalmMail
<1>1. /\ chan'[n][m][tag] = Append(chan[n][m][tag], msg)
      /\ \A a \in Nodes, b \in Nodes, g \in Tags : <<a, b, g>> # <<n, m, tag>> =>
           chan'[a][b][g] = chan[a][b][g]
  BY PostEffect DEF ShapeInv
<1>2. MaxNvps \in Tags /\ WorkerVps \subseteq Tags /\ msg \in AnyMessage
  BY TagFacts DEF ShapeInv, Messages
<1> SUFFICES ASSUME NEW a \in Nodes, NEW b \in Nodes, NEW vp \in WorkerVps
             PROVE  /\ chan'[a][b][vp] = chan[a][b][vp]
                    /\ \/ chan'[a][b][MaxNvps] = chan[a][b][MaxNvps]
                       \/ \E x \in AnyMessage : /\ x \notin Heralds(b, vp)
                            /\ chan'[a][b][MaxNvps] = Append(chan[a][b][MaxNvps], x)
  BY DEF CalmMail
<1>3. chan'[a][b][vp] = chan[a][b][vp]
  BY <1>1, <1>2
<1>4. CASE <<a, b, MaxNvps>> = <<n, m, tag>>
  <2>1. a = n /\ b = m /\ tag = MaxNvps
    BY <1>4
  <2> QED BY <1>1, <1>2, <1>3, <2>1
<1>5. CASE <<a, b, MaxNvps>> # <<n, m, tag>>
  BY <1>1, <1>2, <1>3, <1>5
<1> QED BY <1>4, <1>5

LEMMA CalmTaken ==
  ASSUME ShapeInv, Same, NEW n \in Nodes, NEW m \in Nodes, NEW tag \in Tags, tag \notin WorkerVps,
         chan[n][m][tag] # <<>>, Take(n, m, tag),
         tag = MaxNvps => /\ pc[Server(m)] \notin Expecting
                          /\ \A vp \in WorkerVps : Head(chan[n][m][tag]) \notin Heralds(m, vp)
  PROVE  CalmMail
<1>1. /\ chan'[n][m][tag] = Tail(chan[n][m][tag])
      /\ \A a \in Nodes, b \in Nodes, g \in Tags : <<a, b, g>> # <<n, m, tag>> =>
           chan'[a][b][g] = chan[a][b][g]
  BY TakeEffect DEF ShapeInv
<1>2. MaxNvps \in Tags /\ WorkerVps \subseteq Tags
  BY TagFacts DEF ShapeInv
<1> SUFFICES ASSUME NEW a \in Nodes, NEW b \in Nodes, NEW vp \in WorkerVps
             PROVE  /\ chan'[a][b][vp] = chan[a][b][vp]
                    /\ \/ chan'[a][b][MaxNvps] = chan[a][b][MaxNvps]
                       \/ /\ chan[a][b][MaxNvps] # <<>>
                          /\ Head(chan[a][b][MaxNvps]) \notin Heralds(b, vp)
                          /\ chan'[a][b][MaxNvps] = Tail(chan[a][b][MaxNvps])
                          /\ pc[Server(b)] \notin Expecting
  BY DEF CalmMail
<1>3. chan'[a][b][vp] = chan[a][b][vp]
  BY <1>1, <1>2
<1>4. CASE <<a, b, MaxNvps>> = <<n, m, tag>>
  <2>1. a = n /\ b = m /\ tag = MaxNvps
    BY <1>4
  <2> QED BY <1>1, <1>2, <1>3, <2>1
<1>5. CASE <<a, b, MaxNvps>> # <<n, m, tag>>
  BY <1>1, <1>2, <1>3, <1>5
<1> QED BY <1>4, <1>5

LEMMA MatchQuiet ==
  ASSUME ShapeInv, Same, MatchInv, NEW th \in Threads, Alone(th), UNCHANGED <<parent, address>>,
         CalmThread(th), CalmMail
  PROVE  MatchInv'
<1>0. /\ UNCHANGED parent /\ address' \in [Servers -> Bodies]
      /\ \A s \in Servers : address'[s] = address[s]
  BY DEF MatchInv
<1>1. ASSUME NEW n \in Nodes, NEW m \in Nodes, NEW vp \in WorkerVps
      PROVE  Match(Announced(n, m, vp)', Owed(n, m, vp)', Heralds(m, vp))
  <2>1. /\ MaxNvps \in Tags /\ vp \in Tags /\ chan[n][m][MaxNvps] \in Seq(AnyMessage)
        /\ chan[n][m][vp] \in Seq(AnyMessage) /\ Server(m) \in Servers /\ Server(m) \notin Workers
        /\ <<n, vp>> \notin Servers
    BY LinkFacts
  <2>2. PICK P \in Seq(AnyMessage), D \in Seq(AnyMessage) :
          P = Pending(Server(m), <<n, vp>>) /\ D = Debt(<<n, vp>>, m)
    BY LinkSeqs
  <2>3. PICK C \in Seq(AnyMessage), L \in Seq(AnyMessage) :
          C = chan[n][m][MaxNvps] /\ L = chan[n][m][vp]
    BY <2>1
  <2>4. PICK A : A = Heralds(m, vp)
    OBVIOUS
  <2>5. P \o C \in Seq(AnyMessage) /\ L \o D \in Seq(AnyMessage) /\ Match(P \o C, L \o D, A)
    BY <2>2, <2>3, <2>4, ConcatProperties DEF MatchInv, Announced, Owed
  <2>6. Pending(Server(m), <<n, vp>>)' = P
    <3>1. CASE Server(m) # th
      BY <1>0, <2>2, <3>1, LinkSame
    <3>2. CASE Server(m) = th
      <4>1. Server(m)' = Server(m) /\ Server(m) \in Servers
        BY <2>1 DEF Same, Server
      <4>2. PICK s \in Servers : s = Server(m) /\ s = th
        BY <3>2, <4>1
      <4>3. Pending(s, <<n, vp>>)' = Pending(s, <<n, vp>>)
        <5>1. CASE pc[s] \notin Expecting /\ pc'[s] \notin Expecting
          BY <5>1 DEF Pending
        <5>2. CASE pc[s] = "get_args" /\ pc'[s] = "held_args" /\ hand'[s] = hand[s] /\ peer'[s] = peer[s]
          <6>1. Letter(s)' = Letter(s)
            BY <5>2 DEF Letter
          <6>2. pc[s] \in Expecting /\ pc'[s] \in Expecting
            BY <5>2 DEF Expecting
          <6> QED BY <5>2, <6>1, <6>2 DEF Pending
        <5> QED BY <4>2, <5>1, <5>2 DEF CalmThread
      <4> QED BY <2>2, <4>1, <4>2, <4>3 DEF Pending, Letter
    <3> QED BY <3>1, <3>2
  <2>7. Debt(<<n, vp>>, m)' = D
    <3>1. CASE <<n, vp>> # th
      BY <1>0, <2>2, <3>1, LinkSame
    <3>2. CASE <<n, vp>> = th
      <4>1. PICK u : u = <<n, vp>>
        OBVIOUS
      <4>2. Workers' = Workers
        BY DEF Same
      <4>3. Debt(u, m)' = Debt(u, m)
        BY <3>2, <4>1, <4>2 DEF Debt, CalmThread
      <4> QED BY <2>2, <4>1, <4>3
    <3> QED BY <3>1, <3>2
  <2>8. Announced(n, m, vp)' = P \o chan'[n][m][MaxNvps] /\ Owed(n, m, vp)' = L \o D
    BY <2>3, <2>6, <2>7 DEF Announced, Owed, CalmMail
  <2>9. CASE chan'[n][m][MaxNvps] = chan[n][m][MaxNvps]
    BY <2>3, <2>4, <2>5, <2>8, <2>9
  <2>10. ASSUME NEW x \in AnyMessage, x \notin A, chan'[n][m][MaxNvps] = Append(C, x)
         PROVE  Match(Announced(n, m, vp)', Owed(n, m, vp)', A)
    <3>1. Announced(n, m, vp)' = Append(P \o C, x)
      BY <2>8, <2>10, JoinFacts
    <3> QED BY <2>5, <2>8, <2>10, <3>1, MatchAppendOther
  <2>11. ASSUME C # <<>>, Head(C) \notin A, chan'[n][m][MaxNvps] = Tail(C), P = <<>>
         PROVE  Match(Announced(n, m, vp)', Owed(n, m, vp)', A)
    <3>1. P \o C = C
      BY <2>11, ConcatEmptySeq
    <3>2. Tail(C) \in Seq(AnyMessage)
      BY <2>11, HeadTailProperties
    <3>3. Announced(n, m, vp)' = Tail(C)
      BY <2>8, <2>11, <3>2, ConcatEmptySeq
    <3> QED BY <2>5, <2>8, <2>11, <3>1, <3>3, MatchTailOther
  <2>12. pc[Server(m)] \notin Expecting => P = <<>>
    BY <2>2 DEF Pending
  <2> QED BY <2>3, <2>4, <2>9, <2>10, <2>11, <2>12 DEF CalmMail
<1>2. th \in Servers /\ pc'[th] \in Expecting => Letter(th)' \in Heralds(th[1], peer'[th][2])
  <2> SUFFICES ASSUME th \in Servers, pc'[th] \in Expecting
               PROVE  Letter(th)' \in Heralds(th[1], peer'[th][2])
    OBVIOUS
  <2>1. pc[th] = "get_args" /\ pc'[th] = "held_args" /\ hand'[th] = hand[th] /\ peer'[th] = peer[th]
    BY DEF CalmThread
  <2>2. Letter(th)' = Letter(th) /\ pc[th] \in Expecting
    BY <2>1 DEF Letter, Expecting
  <2> QED BY <2>1, <2>2 DEF MatchInv
<1> QED BY <1>0, <1>1, <1>2, MatchFor

(* What is between n and m, and how much of it this thread changes.        *)
LEMMA LinkNow ==
  ASSUME ShapeInv, Same, MatchInv, NEW th \in Threads, Alone(th), UNCHANGED parent,
         \A s \in Servers : s # th => address'[s] = address[s],
         NEW n \in Nodes, NEW m \in Nodes, NEW vp \in WorkerVps
  PROVE  /\ Match(Pending(Server(m), <<n, vp>>) \o chan[n][m][MaxNvps],
                  chan[n][m][vp] \o Debt(<<n, vp>>, m), Heralds(m, vp))
         /\ Server(m) # th =>
              Announced(n, m, vp)' = Pending(Server(m), <<n, vp>>) \o chan'[n][m][MaxNvps]
         /\ <<n, vp>> # th => Owed(n, m, vp)' = chan'[n][m][vp] \o Debt(<<n, vp>>, m)
<1>1. /\ Server(m) # th => Pending(Server(m), <<n, vp>>)' = Pending(Server(m), <<n, vp>>)
      /\ <<n, vp>> # th => Debt(<<n, vp>>, m)' = Debt(<<n, vp>>, m)
  BY LinkSame
<1>2. /\ Announced(n, m, vp)' = Pending(Server(m), <<n, vp>>)' \o chan'[n][m][MaxNvps]
      /\ Owed(n, m, vp)' = chan'[n][m][vp] \o Debt(<<n, vp>>, m)'
  BY DEF Announced, Owed
<1> QED BY <1>1, <1>2 DEF MatchInv, Announced, Owed

(* A worker sends a message that announces a payload, and owes it.         *)
LEMMA MatchAnnounce ==
  ASSUME ShapeInv, Same, MatchInv, NEW w \in Workers, Alone(w), UNCHANGED <<parent, address>>,
         NEW k \in Nodes, NEW x \in Messages(MaxNvps), x \in Heralds(k, w[2]),
         Post(w[1], k, MaxNvps, x), pc[w] \notin Paying, pc'[w] \in Paying,
         NEW y \in AnyMessage, Load(w)' = y, Payee(w)' = k, Fit(x, y)
  PROVE  MatchInv'
<1>0. /\ UNCHANGED parent /\ address' \in [Servers -> Bodies]
      /\ (\A s \in Servers : s # w => address'[s] = address[s])
      /\ w \in Threads /\ w \notin Servers /\ w = <<w[1], w[2]>> /\ w[1] \in Nodes
      /\ Workers' = Workers
  BY WorkerFacts, ServerFacts DEF MatchInv, ShapeInv, Same
<1>1. /\ chan'[w[1]][k][MaxNvps] = Append(chan[w[1]][k][MaxNvps], x)
      /\ \A a \in Nodes, b \in Nodes, g \in Tags : <<a, b, g>> # <<w[1], k, MaxNvps>> =>
           chan'[a][b][g] = chan[a][b][g]
  BY <1>0, TagFacts, PostEffect DEF ShapeInv
<1>2. x \in AnyMessage /\ x.vp = w[2]
  BY DEF Messages, Heralds
<1>3. ASSUME NEW n \in Nodes, NEW m \in Nodes, NEW vp \in WorkerVps
      PROVE  Match(Announced(n, m, vp)', Owed(n, m, vp)', Heralds(m, vp))
  <2>0. MaxNvps \in Tags /\ vp \in Tags /\ vp # MaxNvps /\ Server(m) \in Servers
    BY LinkFacts
  <2>b. PICK P, D, C, L : /\ P = Pending(Server(m), <<n, vp>>) /\ D = Debt(<<n, vp>>, m)
                          /\ C = chan[n][m][MaxNvps] /\ L = chan[n][m][vp]
    OBVIOUS
  <2>1. /\ P \in Seq(AnyMessage) /\ D \in Seq(AnyMessage) /\ C \in Seq(AnyMessage) /\ L \in Seq(AnyMessage)
        /\ P \o C \in Seq(AnyMessage) /\ L \o D \in Seq(AnyMessage)
    BY <2>b, LinkFacts, LinkSeqs, ConcatProperties
  <2>d. /\ Match(P \o C, L \o D, Heralds(m, vp))
        /\ Server(m) # w => Announced(n, m, vp)' = P \o chan'[n][m][MaxNvps]
        /\ <<n, vp>> # w => Owed(n, m, vp)' = chan'[n][m][vp] \o D
    <3>1. /\ Match(Pending(Server(m), <<n, vp>>) \o chan[n][m][MaxNvps],
                  chan[n][m][vp] \o Debt(<<n, vp>>, m), Heralds(m, vp))
      BY <1>0, ZenonT(60), LinkNow
    <3>2. Server(m) # w =>
              Announced(n, m, vp)' = Pending(Server(m), <<n, vp>>) \o chan'[n][m][MaxNvps]
      BY <1>0, ZenonT(60), LinkNow
    <3>3. <<n, vp>> # w => Owed(n, m, vp)' = chan'[n][m][vp] \o Debt(<<n, vp>>, m)
      BY <1>0, ZenonT(60), LinkNow
    <3> QED BY <2>b, <3>1, <3>2, <3>3
  <2>c. Owed(n, m, vp)' = chan'[n][m][vp] \o Debt(<<n, vp>>, m)'
    BY DEF Owed
  <2>a. PICK A : A = Heralds(m, vp) /\ Match(P \o C, L \o D, A)
    BY <2>d
  <2>2. /\ Announced(n, m, vp)' = P \o chan'[n][m][MaxNvps]
        /\ Owed(n, m, vp)' = L \o Debt(<<n, vp>>, m)'
        /\ <<n, vp>> # w => Owed(n, m, vp)' = L \o D
    <3>1. Server(m) # w
      BY <1>0, <2>0
    <3>2. chan'[n][m][vp] = L
      BY <1>1, <2>0, <2>1, <2>b, <2>d
    <3> QED BY <2>1, <2>b, <2>d, <2>c, <3>1, <3>2
  <2>3. <<n, m, MaxNvps>> # <<w[1], k, MaxNvps>> => chan'[n][m][MaxNvps] = C
    BY <1>1, <2>0, <2>1, <2>b, <2>d
  <2>4. CASE <<n, vp>> # w
    <3>1. Owed(n, m, vp)' = L \o D
      BY <2>1, <2>b, <2>d, <2>2, <2>4
    <3>2. CASE n = w[1] /\ m = k
      <4>1. x \notin A
        BY <1>0, <1>2, <2>a, <2>4, <3>2 DEF Heralds
      <4>2. chan'[n][m][MaxNvps] = Append(C, x)
        BY <1>1, <2>1, <2>b, <2>d, <3>2
      <4>3. Announced(n, m, vp)' = Append(P \o C, x)
        <5>1. P \o Append(C, x) = Append(P \o C, x)
          BY <1>2, JoinFacts
        <5> QED BY <2>2, <4>2, <5>1
      <4> QED BY <1>2, <2>a, <2>1, <2>b, <2>d, <3>1, <4>1, <4>3, MatchAppendOther
    <3>3. CASE ~(n = w[1] /\ m = k)
      <4>1. Announced(n, m, vp)' = P \o C
        BY <2>2, <2>3, <3>3
      <4> QED BY <2>a, <2>1, <2>b, <2>d, <3>1, <4>1
    <3> QED BY <3>2, <3>3
  <2>5. CASE <<n, vp>> = w
    <3>1. n = w[1] /\ vp = w[2]
      BY <2>5
    <3>2. D = <<>> /\ L \o D = L
      <4>1. D = <<>>
        BY <2>1, <2>b, <2>d, <2>5 DEF Debt
      <4> QED BY <4>1, ConcatEmptySeq
    <3>3. Debt(w, m)' = IF k = m THEN <<y>> ELSE <<>>
      BY <1>0 DEF Debt
    <3>4. Owed(n, m, vp)' = L \o (IF k = m THEN <<y>> ELSE <<>>)
      BY <2>2, <2>5, <3>3
    <3>5. CASE m = k
      <4>0. chan'[n][m][MaxNvps] = Append(C, x)
        BY <1>1, <2>1, <2>b, <2>d, <3>1, <3>5
      <4>1. Announced(n, m, vp)' = Append(P \o C, x)
        <5>1. P \o Append(C, x) = Append(P \o C, x)
          BY <1>2, JoinFacts
        <5> QED BY <2>2, <4>0, <5>1
      <4>2. Owed(n, m, vp)' = Append(L, y)
        BY <3>4, <3>5, EdgeFacts
      <4>3. x \in A
        BY <2>a, <3>1, <3>5
      <4>4. Match(Append(P \o C, x), Append(L, y), A)
        BY <2>a, <1>2, <2>1, <2>b, <2>d, <3>2, <4>3, MatchAppend
      <4> QED BY <2>a, <4>1, <4>2, <4>4
    <3>6. CASE m # k
      <4>1. Announced(n, m, vp)' = P \o C
        BY <2>2, <2>3, <3>6
      <4>2. Owed(n, m, vp)' = L
        BY <2>1, <3>4, <3>6, ConcatEmptySeq
      <4> QED BY <2>a, <2>1, <2>b, <2>d, <3>2, <4>1, <4>2
    <3> QED BY <3>5, <3>6
  <2> QED BY <2>4, <2>5
<1> QED BY <1>0, <1>3, MatchFor

(* A worker sends the payload that it owes.                                *)
LEMMA MatchPay ==
  ASSUME ShapeInv, Same, MatchInv, NEW w \in Workers, Alone(w), UNCHANGED <<parent, address>>,
         NEW k \in Nodes, Payee(w) = k, NEW y \in Messages(w[2]), Post(w[1], k, w[2], y),
         pc[w] \in Paying, pc'[w] \notin Paying,
         y.type = Load(w).type, y.type = "data" \/ y.body = Load(w).body
  PROVE  MatchInv'
<1>0. /\ UNCHANGED parent /\ address' \in [Servers -> Bodies]
      /\ (\A s \in Servers : s # w => address'[s] = address[s])
      /\ w \in Threads /\ w \notin Servers /\ w = <<w[1], w[2]>> /\ w[1] \in Nodes
      /\ Workers' = Workers /\ w[2] \in Tags /\ w[2] # MaxNvps
  BY WorkerFacts, ServerFacts, TagFacts DEF MatchInv, ShapeInv, Same
<1>1. /\ chan'[w[1]][k][w[2]] = Append(chan[w[1]][k][w[2]], y)
      /\ \A a \in Nodes, b \in Nodes, g \in Tags : <<a, b, g>> # <<w[1], k, w[2]>> =>
           chan'[a][b][g] = chan[a][b][g]
  BY <1>0, PostEffect DEF ShapeInv
<1>2. PICK z \in AnyMessage : z = Load(w) /\ y \in AnyMessage
  BY LoadType DEF Messages
<1>3. ASSUME NEW n \in Nodes, NEW m \in Nodes, NEW vp \in WorkerVps
      PROVE  Match(Announced(n, m, vp)', Owed(n, m, vp)', Heralds(m, vp))
  <2>0. MaxNvps \in Tags /\ vp \in Tags /\ vp # MaxNvps /\ Server(m) \in Servers
    BY LinkFacts
  <2>b. PICK P, D, C, L : /\ P = Pending(Server(m), <<n, vp>>) /\ D = Debt(<<n, vp>>, m)
                          /\ C = chan[n][m][MaxNvps] /\ L = chan[n][m][vp]
    OBVIOUS
  <2>1. /\ P \in Seq(AnyMessage) /\ D \in Seq(AnyMessage) /\ C \in Seq(AnyMessage) /\ L \in Seq(AnyMessage)
        /\ P \o C \in Seq(AnyMessage) /\ L \o D \in Seq(AnyMessage)
    BY <2>b, LinkFacts, LinkSeqs, ConcatProperties
  <2>d. /\ Match(P \o C, L \o D, Heralds(m, vp))
        /\ Server(m) # w => Announced(n, m, vp)' = P \o chan'[n][m][MaxNvps]
        /\ <<n, vp>> # w => Owed(n, m, vp)' = chan'[n][m][vp] \o D
    <3>1. /\ Match(Pending(Server(m), <<n, vp>>) \o chan[n][m][MaxNvps],
                  chan[n][m][vp] \o Debt(<<n, vp>>, m), Heralds(m, vp))
      BY <1>0, ZenonT(60), LinkNow
    <3>2. Server(m) # w =>
              Announced(n, m, vp)' = Pending(Server(m), <<n, vp>>) \o chan'[n][m][MaxNvps]
      BY <1>0, ZenonT(60), LinkNow
    <3>3. <<n, vp>> # w => Owed(n, m, vp)' = chan'[n][m][vp] \o Debt(<<n, vp>>, m)
      BY <1>0, ZenonT(60), LinkNow
    <3> QED BY <2>b, <3>1, <3>2, <3>3
  <2>c. Owed(n, m, vp)' = chan'[n][m][vp] \o Debt(<<n, vp>>, m)'
    BY DEF Owed
  <2>a. PICK A : A = Heralds(m, vp) /\ Match(P \o C, L \o D, A)
    BY <2>d
  <2>2. Announced(n, m, vp)' = P \o C
    <3>1. Server(m) # w
      BY <1>0, <2>0
    <3>2. chan'[n][m][MaxNvps] = C
      BY <1>0, <1>1, <2>0, <2>1, <2>b, <2>d
    <3> QED BY <2>1, <2>b, <2>d, <3>1, <3>2
  <2>3. CASE <<n, vp>> # w
    <3>1. chan'[n][m][vp] = L
      BY <1>0, <1>1, <2>0, <2>1, <2>b, <2>d, <2>3
    <3> QED BY <2>1, <2>b, <2>d, <2>2, <2>3, <2>a, <3>1
  <2>4. CASE <<n, vp>> = w
    <3>1. n = w[1] /\ vp = w[2]
      BY <2>4
    <3>2. Debt(w, m)' = <<>>
      BY DEF Debt
    <3>3. D = IF k = m THEN <<z>> ELSE <<>>
      BY <1>2, <2>1, <2>b, <2>d, <2>4 DEF Debt
    <3>4. Owed(n, m, vp)' = chan'[n][m][vp] \o <<>>
      BY <2>c, <2>4, <3>2
    <3>5. CASE m = k
      <4>1. L \o D = Append(L, z)
        BY <1>2, <3>3, <3>5, EdgeFacts
      <4>2. Append(L, y) \in Seq(AnyMessage)
        BY <1>2, <2>1, AppendProperties
      <4>3. chan'[n][m][vp] = Append(L, y)
        BY <1>1, <2>1, <2>b, <2>d, <3>1, <3>5
      <4>4. Owed(n, m, vp)' = Append(L, y)
        BY <3>4, <4>2, <4>3, ConcatEmptySeq
      <4>5. /\ Len(Append(L, z)) = Len(L) + 1 /\ Len(Append(L, y)) = Len(L) + 1 /\ Len(L) \in Nat
            /\ \A i \in 1 .. Len(L) : Append(L, z)[i] = L[i] /\ Append(L, y)[i] = L[i]
            /\ Append(L, z)[Len(L) + 1] = z /\ Append(L, y)[Len(L) + 1] = y
        BY <1>2, AppendProperties, LenProperties
      <4>6. y.type = z.type /\ (z.type = "data" \/ y.body = z.body)
        BY <1>2
      <4>7. ASSUME NEW i \in 1 .. Len(Append(L, z))
            PROVE  /\ Append(L, y)[i].type = Append(L, z)[i].type
                   /\ Append(L, z)[i].type = "data" \/ Append(L, y)[i].body = Append(L, z)[i].body
        <5>1. CASE i = Len(L) + 1
          BY <4>5, <4>6, <5>1
        <5>2. CASE i # Len(L) + 1
          <6>1. i \in 1 .. Len(L)
            BY <4>5, <5>2
          <6>2. Append(L, z)[i] = L[i] /\ Append(L, y)[i] = L[i]
            BY <4>5, <6>1
          <6> QED BY <6>2
        <5> QED BY <5>1, <5>2
      <4>8. Match(P \o C, Append(L, z), A)
        BY <2>a, <4>1
      <4>9. Match(P \o C, Append(L, y), A)
        <5>0. Append(L, z) \in Seq(AnyMessage)
          BY <1>2, <2>1, AppendProperties
        <5>1. PICK q \in Seq(AnyMessage), r \in Seq(AnyMessage), u \in Seq(AnyMessage) :
                q = P \o C /\ r = Append(L, z) /\ u = Append(L, y)
          BY <2>1, <2>b, <2>d, <4>2, <5>0
        <5>2. Match(q, r, A) /\ Len(u) = Len(r)
          BY <4>5, <4>8, <5>1
        <5>3. \A i \in 1 .. Len(r) : u[i].type = r[i].type /\ (r[i].type = "data" \/ u[i].body = r[i].body)
          BY <4>7, <5>1
        <5>4. Match(q, u, A)
          BY <5>2, <5>3, MatchSame
        <5> QED BY <5>1, <5>4
      <4> QED BY <2>2, <2>a, <4>4, <4>9
    <3>6. CASE m # k
      <4>1. chan'[n][m][vp] = L
        BY <1>0, <1>1, <2>0, <2>1, <2>b, <2>d, <3>6
      <4>2. L \o D = L /\ Owed(n, m, vp)' = L
        BY <2>1, <3>3, <3>4, <3>6, <4>1, ConcatEmptySeq
      <4> QED BY <2>1, <2>b, <2>d, <2>2, <2>a, <4>2
    <3> QED BY <3>5, <3>6
  <2> QED BY <2>3, <2>4
<1> QED BY <1>0, <1>3, MatchFor

(* A server takes a message that announces a payload, and waits for it.    *)
LEMMA MatchExpect ==
  ASSUME ShapeInv, Same, MatchInv, NEW s \in Servers, Alone(s), UNCHANGED parent,
         address' \in [Servers -> Bodies], \A o \in Servers : o # s => address'[o] = address[o],
         NEW k \in Nodes, NEW x, x = Head(chan[k][s[1]][MaxNvps]), x \in Heralds(s[1], x.vp),
         chan[k][s[1]][MaxNvps] # <<>>, Take(k, s[1], MaxNvps),
         pc[s] \notin Expecting, pc'[s] \in Expecting, peer'[s] = <<k, x.vp>>, Letter(s)' = x
  PROVE  MatchInv'
<1>0. /\ s \in Threads /\ s \notin Workers /\ s = Server(s[1]) /\ s[1] \in Nodes
      /\ \A m \in Nodes : Server(m)[1] = m
  BY ServerFacts DEF ShapeInv
<1>s. \A o \in Servers : o # s => address'[o] = address[o]
  OBVIOUS
<1>p. UNCHANGED parent
  OBVIOUS
<1>1. /\ chan'[k][s[1]][MaxNvps] = Tail(chan[k][s[1]][MaxNvps])
      /\ \A a \in Nodes, b \in Nodes, g \in Tags : <<a, b, g>> # <<k, s[1], MaxNvps>> =>
           chan'[a][b][g] = chan[a][b][g]
  BY <1>0, TagFacts, TakeEffect DEF ShapeInv
<1>2. x \in AnyMessage
  BY DEF Heralds
<1>3. ASSUME NEW n \in Nodes, NEW m \in Nodes, NEW vp \in WorkerVps
      PROVE  Match(Announced(n, m, vp)', Owed(n, m, vp)', Heralds(m, vp))
  <2>0. MaxNvps \in Tags /\ vp \in Tags /\ vp # MaxNvps /\ Server(m) \in Servers
        /\ <<n, vp>> \notin Servers
    BY LinkFacts
  <2>a. PICK P, D, C, L : /\ P = Pending(Server(m), <<n, vp>>) /\ D = Debt(<<n, vp>>, m)
                          /\ C = chan[n][m][MaxNvps] /\ L = chan[n][m][vp]
    OBVIOUS
  <2>1. /\ P \in Seq(AnyMessage) /\ D \in Seq(AnyMessage) /\ C \in Seq(AnyMessage) /\ L \in Seq(AnyMessage)
        /\ P \o C \in Seq(AnyMessage) /\ L \o D \in Seq(AnyMessage)
    BY <2>a, LinkFacts, LinkSeqs, ConcatProperties
  <2>2. PICK A : A = Heralds(m, vp) /\ Match(P \o C, L \o D, A)
    <3>1. Match(Pending(Server(m), <<n, vp>>) \o chan[n][m][MaxNvps],
                chan[n][m][vp] \o Debt(<<n, vp>>, m), Heralds(m, vp))
      BY DEF MatchInv, Announced, Owed
    <3> QED BY <2>a, <3>1
  <2>3. Owed(n, m, vp)' = L \o D
    <3>1. <<n, vp>> # s => Owed(n, m, vp)' = chan'[n][m][vp] \o Debt(<<n, vp>>, m)
      BY <1>0, <1>s, <1>p, ZenonT(60), LinkNow
    <3>2. chan'[n][m][vp] = L
      BY <1>0, <1>1, <2>0, <2>a
    <3> QED BY <2>0, <2>a, <3>1, <3>2
  <2>4. CASE m # s[1]
    <3>1. Server(m) # s => Announced(n, m, vp)' = Pending(Server(m), <<n, vp>>) \o chan'[n][m][MaxNvps]
      BY <1>0, <1>s, <1>p, ZenonT(60), LinkNow
    <3>2. Server(m) # s /\ chan'[n][m][MaxNvps] = C
      BY <1>0, <1>1, <2>0, <2>4, <2>a
    <3> QED BY <2>2, <2>3, <2>a, <3>1, <3>2
  <2>5. CASE m = s[1]
    <3>0. Server(m) = s /\ s' = s
      BY <1>0, <2>5
    <3>1. P = <<>> /\ P \o C = C
      <4>1. P = <<>>
        BY <2>a, <3>0 DEF Pending
      <4> QED BY <2>1, <4>1, ConcatEmptySeq
    <3>2. Pending(s, <<n, vp>>)' = IF <<k, x.vp>> = <<n, vp>> THEN <<x>> ELSE <<>>
      BY DEF Pending
    <3>3. Announced(n, m, vp)' = Pending(Server(m), <<n, vp>>)' \o chan'[n][m][MaxNvps]
      BY DEF Announced
    <3>4. Pending(Server(m), <<n, vp>>)' = Pending(s, <<n, vp>>)'
      <4>1. Server(m)' = s
        BY <3>0 DEF Server
      <4> QED BY <4>1 DEF Pending, Letter
    <3>5. Announced(n, m, vp)' = (IF k = n /\ x.vp = vp THEN <<x>> ELSE <<>>) \o chan'[n][m][MaxNvps]
      BY <3>2, <3>3, <3>4
    <3>6. CASE k = n
      <4>1. C # <<>> /\ Head(C) = x /\ chan'[n][m][MaxNvps] = Tail(C)
        BY <1>1, <2>5, <2>a, <3>6
      <4>2. Tail(C) \in Seq(AnyMessage)
        BY <2>1, <4>1, HeadTailProperties
      <4>3. CASE x.vp = vp
        <5>1. <<Head(C)>> \o Tail(C) = C
          BY <1>2, <2>1, <4>1, EdgeFacts
        <5>2. Announced(n, m, vp)' = C
          BY <3>5, <3>6, <4>1, <4>3, <5>1
        <5> QED BY <2>2, <2>3, <3>1, <5>2
      <4>4. CASE x.vp # vp
        <5>1. Announced(n, m, vp)' = Tail(C)
          BY <3>5, <4>1, <4>2, <4>4, ConcatEmptySeq
        <5>2. Head(C) \notin A
          BY <2>2, <4>1, <4>4 DEF Heralds
        <5>3. Match(Tail(C), L \o D, A)
          BY <2>1, <2>2, <3>1, <4>1, <5>2, MatchTailOther
        <5> QED BY <2>2, <2>3, <5>1, <5>3
      <4> QED BY <4>3, <4>4
    <3>7. CASE k # n
      <4>1. chan'[n][m][MaxNvps] = C
        BY <1>1, <2>0, <2>a, <3>7
      <4>2. Announced(n, m, vp)' = C
        BY <2>1, <3>5, <3>7, <4>1, ConcatEmptySeq
      <4> QED BY <2>2, <2>3, <3>1, <4>2
    <3> QED BY <3>6, <3>7
  <2> QED BY <2>4, <2>5
<1>4. Letter(s)' \in Heralds(s[1], peer'[s][2])
  OBVIOUS
<1> QED BY <1>0, <1>s, <1>p, <1>3, <1>4, MatchFor

(* A server receives the payload that it waits for.                        *)
LEMMA MatchReceive ==
  ASSUME ShapeInv, Same, MatchInv, NEW s \in Servers, Alone(s), UNCHANGED <<parent, address>>,
         NEW k \in Nodes, NEW tag \in WorkerVps, peer[s] = <<k, tag>>,
         chan[k][s[1]][tag] # <<>>, Take(k, s[1], tag),
         pc[s] \in Expecting, pc'[s] \notin Expecting
  PROVE  MatchInv'
<1>0. /\ s \in Threads /\ s \notin Workers /\ s = Server(s[1]) /\ s[1] \in Nodes
      /\ \A m \in Nodes : Server(m)[1] = m
  BY ServerFacts DEF ShapeInv
<1>s. (\A o \in Servers : o # s => address'[o] = address[o]) /\ address' \in [Servers -> Bodies]
  BY DEF MatchInv
<1>p. UNCHANGED parent
  OBVIOUS
<1>1. /\ chan'[k][s[1]][tag] = Tail(chan[k][s[1]][tag])
      /\ \A a \in Nodes, b \in Nodes, g \in Tags : <<a, b, g>> # <<k, s[1], tag>> =>
           chan'[a][b][g] = chan[a][b][g]
  BY <1>0, TagFacts, TakeEffect DEF ShapeInv
<1>3. ASSUME NEW n \in Nodes, NEW m \in Nodes, NEW vp \in WorkerVps
      PROVE  Match(Announced(n, m, vp)', Owed(n, m, vp)', Heralds(m, vp))
  <2>0. MaxNvps \in Tags /\ vp \in Tags /\ vp # MaxNvps /\ tag # MaxNvps /\ Server(m) \in Servers
        /\ <<n, vp>> \notin Servers
    BY LinkFacts, TagFacts DEF ShapeInv
  <2>a. PICK P, D, C, L : /\ P = Pending(Server(m), <<n, vp>>) /\ D = Debt(<<n, vp>>, m)
                          /\ C = chan[n][m][MaxNvps] /\ L = chan[n][m][vp]
    OBVIOUS
  <2>1. /\ P \in Seq(AnyMessage) /\ D \in Seq(AnyMessage) /\ C \in Seq(AnyMessage) /\ L \in Seq(AnyMessage)
        /\ P \o C \in Seq(AnyMessage) /\ L \o D \in Seq(AnyMessage)
    BY <2>a, LinkFacts, LinkSeqs, ConcatProperties
  <2>2. PICK A : A = Heralds(m, vp) /\ Match(P \o C, L \o D, A)
    <3>1. Match(Pending(Server(m), <<n, vp>>) \o chan[n][m][MaxNvps],
                chan[n][m][vp] \o Debt(<<n, vp>>, m), Heralds(m, vp))
      BY DEF MatchInv, Announced, Owed
    <3> QED BY <2>a, <3>1
  <2>3. Owed(n, m, vp)' = chan'[n][m][vp] \o D
    <3>1. <<n, vp>> # s => Owed(n, m, vp)' = chan'[n][m][vp] \o Debt(<<n, vp>>, m)
      BY <1>0, <1>s, <1>p, ZenonT(60), LinkNow
    <3> QED BY <2>0, <2>a, <3>1
  <2>c. chan'[n][m][MaxNvps] = C
    BY <1>0, <1>1, <2>0, <2>a
  <2>d. <<n, m, vp>> # <<k, s[1], tag>> => chan'[n][m][vp] = L
    BY <1>1, <2>0, <2>a
  <2>4. CASE m # s[1]
    <3>1. Server(m) # s => Announced(n, m, vp)' = Pending(Server(m), <<n, vp>>) \o chan'[n][m][MaxNvps]
      BY <1>0, <1>s, <1>p, ZenonT(60), LinkNow
    <3>2. Server(m) # s
      BY <1>0, <2>4
    <3>3. <<n, m, vp>> # <<k, s[1], tag>>
      BY <2>4
    <3> QED BY <2>2, <2>3, <2>a, <2>c, <2>d, <3>1, <3>2, <3>3
  <2>5. CASE m = s[1]
    <3>0. Server(m) = s
      BY <1>0, <2>5
    <3>1. Announced(n, m, vp)' = C
      <4>1. Pending(s, <<n, vp>>)' = <<>>
        BY DEF Pending
      <4>2. Server(m)' = s
        BY <3>0 DEF Server
      <4>3. Pending(Server(m), <<n, vp>>)' = Pending(s, <<n, vp>>)'
        BY <4>2 DEF Pending, Letter
      <4>4. Announced(n, m, vp)' = Pending(Server(m), <<n, vp>>)' \o chan'[n][m][MaxNvps]
        BY DEF Announced
      <4>5. Announced(n, m, vp)' = <<>> \o C
        BY <2>c, <4>1, <4>3, <4>4
      <4> QED BY <2>1, <4>5, ConcatEmptySeq
    <3>2. CASE k = n /\ tag = vp
      <4>1. PICK z : z = Letter(s)
        OBVIOUS
      <4>2. z \in A /\ z \in AnyMessage
        <5>1. z \in Heralds(s[1], peer[s][2])
          BY <4>1 DEF MatchInv
        <5>2. peer[s][2] = vp
          BY <3>2
        <5> QED BY <2>2, <2>5, <5>1, <5>2 DEF Heralds
      <4>3. P = <<z>>
        BY <2>a, <3>0, <3>2, <4>1 DEF Pending
      <4>4. P \o C # <<>> /\ Head(P \o C) = z /\ Tail(P \o C) = C
        BY <2>1, <4>2, <4>3, EdgeFacts
      <4>5. L # <<>> /\ chan'[n][m][vp] = Tail(L) /\ Tail(L) \in Seq(AnyMessage)
        <5>1. L # <<>> /\ chan'[n][m][vp] = Tail(L)
          BY <1>1, <2>5, <2>a, <3>2
        <5> QED BY <2>1, <5>1, HeadTailProperties
      <4>6. Tail(L \o D) = Tail(L) \o D
        <5>1. CASE D = <<>>
          BY <2>1, <4>5, <5>1, ConcatEmptySeq
        <5>2. CASE D # <<>>
          <6>1. PICK y : D = <<y>> /\ y \in AnyMessage
            BY <2>a, <5>2, LoadType DEF Debt
          <6> QED BY <2>1, <4>5, <6>1, JoinFacts
        <5> QED BY <5>1, <5>2
      <4>7. Match(Tail(P \o C), Tail(L \o D), A)
        BY <2>1, <2>2, <4>2, <4>4, MatchTail
      <4> QED BY <2>2, <2>3, <3>1, <4>4, <4>5, <4>6, <4>7
    <3>3. CASE ~(k = n /\ tag = vp)
      <4>1. P = <<>>
        BY <2>a, <3>0, <3>3 DEF Pending
      <4>2. P \o C = C
        BY <2>1, <4>1, ConcatEmptySeq
      <4>3. chan'[n][m][vp] = L
        BY <2>d, <3>3
      <4> QED BY <2>2, <2>3, <3>1, <4>2, <4>3
    <3> QED BY <3>2, <3>3
  <2> QED BY <2>4, <2>5
<1>4. pc'[s] \in Expecting => Letter(s)' \in Heralds(s[1], peer'[s][2])
  OBVIOUS
<1> QED BY <1>0, <1>s, <1>p, <1>3, <1>4, MatchFor

(***************************************************************************)
(* The actions.                                                            *)
(***************************************************************************)
Silent(msg) == msg.type \notin {"enqueue", "answer", "bcast"}

LEMMA NoHerald ==
  ASSUME NEW msg, Silent(msg)
  PROVE  \A m, vp : msg \notin Heralds(m, vp)
  BY DEF Heralds, Silent

LEMMA CallMatches ==
  ASSUME ShapeInv, Same, MatchInv, NEW c \in Creators, UNCHANGED bvars,
         \/ WaitAll(c) \/ Joined(c) \/ NotYet(c)
         \/ \E call \in SwitchCalls \cup LocalCalls : SwitchCall(c, call)
  PROVE  MatchInv'
<1>1. Alone(c) /\ c \in Threads
  BY WaitShape, SwitchCallShape
<1>2. UNCHANGED chan /\ UNCHANGED <<parent, address>>
  BY DEF WaitAll, Joined, NotYet, SwitchCall, Application, bvars
<1>3. pc[c] \in {"app", "wait"} /\ (UNCHANGED pc \/ \E q \in {"wait", "app", "poll", "switch"} : Goto(c, q))
  BY DEF WaitAll, Joined, NotYet, SwitchCall
<1>4. pc'[c] \in {"wait", "app", "poll", "switch"}
  BY <1>1, <1>3, WentTo
<1>5. CalmThread(c)
  BY <1>3, <1>4, WorkerFacts, ServerFacts DEF CalmThread, Paying, ShapeInv
<1> QED BY <1>1, <1>2, <1>5, CalmSame, MatchQuiet

LEMMA SendSwitchMatches ==
  ASSUME ShapeInv, Same, MatchInv, NEW c \in Creators, UNCHANGED bvars, SendSwitch(c)
  PROVE  MatchInv'
<1>1. /\ Alone(c) /\ c \in Threads /\ pc'[c] \in {"switch", "app"}
      /\ \/ UNCHANGED chan
         \/ \E n \in Nodes, msg \in Messages(MaxNvps) :
              msg.type \in SwitchCalls /\ Post(c[1], n, MaxNvps, msg)
  BY SendSwitchShape
<1>2. pc[c] = "switch" /\ UNCHANGED <<parent, address>> /\ c[1] \in Nodes
  BY WorkerFacts DEF SendSwitch, Application, bvars, ShapeInv
<1>3. MaxNvps \in Tags /\ MaxNvps \notin WorkerVps
  BY TagFacts DEF ShapeInv
<1>4. CalmMail
  <2>1. ASSUME NEW n \in Nodes, NEW msg \in Messages(MaxNvps), msg.type \in SwitchCalls,
               Post(c[1], n, MaxNvps, msg)
        PROVE  CalmMail
    <3>1. \A m, vp : msg \notin Heralds(m, vp)
      BY <2>1, NoHerald DEF Silent, SwitchCalls
    <3> QED BY <1>2, <1>3, <2>1, <3>1, CalmSent
  <2> QED BY <1>1, <2>1, CalmSame
<1>5. CalmThread(c)
  BY <1>1, <1>2, WorkerFacts, ServerFacts DEF CalmThread, Paying, ShapeInv
<1> QED BY <1>1, <1>2, <1>4, <1>5, MatchQuiet

(* get_next_task, to the reply of a victim.                                *)
LEMMA SearchMatches ==
  ASSUME ShapeInv, Same, MatchInv, NEW w \in Workers, UNCHANGED bvars,
         TakeLocal(w) \/ NothingHere(w) \/ HoldForReply(w) \/ StartRound(w)
  PROVE  MatchInv'
<1>1. Alone(w) /\ w \in Threads
  BY TakeLocalShape, SearchShape, StartRoundShape
<1>2. UNCHANGED chan /\ UNCHANGED <<parent, address>>
  BY DEF TakeLocal, NothingHere, HoldForReply, StartRound, Application, bvars
<1>3. /\ pc[w] \in {"poll", "repoll", "await", "reawait"}
      /\ \E q \in {"execute", "wait", "repoll", "held", "reheld", "ask", "reask"} : Goto(w, q)
  BY DEF TakeLocal, NothingHere, HoldForReply, StartRound, AfterSearch
<1>4. pc'[w] \in {"execute", "wait", "repoll", "held", "reheld", "ask", "reask"}
  BY <1>1, <1>3, WentTo
<1>5. CalmThread(w)
  BY <1>3, <1>4, WorkerFacts, ServerFacts DEF CalmThread, Paying, ShapeInv
<1> QED BY <1>1, <1>2, <1>5, CalmSame, MatchQuiet

LEMMA RequestMatches ==
  ASSUME ShapeInv, Same, MatchInv, NEW w \in Workers, UNCHANGED bvars,
         StealRequest(w) \/ \E n \in Nodes : PrefetchRequest(w, n)
  PROVE  MatchInv'
<1>0. PICK k \in Nodes : k = peer[w][1]
  BY Now
<1>1. /\ Alone(w) /\ w \in Threads
      /\ \E n \in Nodes, msg \in Messages(MaxNvps) :
           msg.type \in {"steal", "prefetch"} /\ Post(w[1], n, MaxNvps, msg)
  <2>1. ASSUME StealRequest(w)
        PROVE  /\ Alone(w) /\ w \in Threads
               /\ \E msg \in Messages(MaxNvps) : msg.type = "steal" /\ Post(w[1], k, MaxNvps, msg)
    BY <1>0, <2>1, StealRequestShape
  <2>2. ASSUME NEW n \in Nodes, PrefetchRequest(w, n)
        PROVE  /\ Alone(w) /\ w \in Threads
               /\ \E msg \in Messages(MaxNvps) : msg.type = "prefetch" /\ Post(w[1], n, MaxNvps, msg)
    BY <2>2, PrefetchRequestShape
  <2> QED BY <2>1, <2>2
<1>2. UNCHANGED <<parent, address>> /\ w[1] \in Nodes
  BY WorkerFacts DEF StealRequest, PrefetchRequest, Application, bvars, ShapeInv
<1>3. pc[w] \in {"ask", "reask", "poll", "repoll"} /\ pc'[w] \in {"await", "reawait", "poll", "repoll"}
  <2>1. StealRequest(w) => pc[w] \in {"ask", "reask"} /\ pc'[w] \in {"await", "reawait"}
    BY StealRequestShape DEF StealRequest
  <2>2. ASSUME NEW n \in Nodes, PrefetchRequest(w, n) PROVE pc[w] \in {"poll", "repoll"} /\ UNCHANGED pc
    BY <2>2 DEF PrefetchRequest
  <2> QED BY <2>1, <2>2
<1>4. MaxNvps \in Tags /\ MaxNvps \notin WorkerVps
  BY TagFacts DEF ShapeInv
<1>5. CalmMail
  <2>1. PICK n \in Nodes, msg \in Messages(MaxNvps) :
          msg.type \in {"steal", "prefetch"} /\ Post(w[1], n, MaxNvps, msg)
    BY <1>1
  <2>2. \A m, vp : msg \notin Heralds(m, vp)
    BY <2>1, NoHerald DEF Silent
  <2> QED BY <1>2, <1>4, <2>1, <2>2, CalmSent
<1>6. CalmThread(w)
  BY <1>3, WorkerFacts, ServerFacts DEF CalmThread, Paying, ShapeInv
<1> QED BY <1>1, <1>2, <1>5, <1>6, MatchQuiet

LEMMA StealReplyMatches ==
  ASSUME ShapeInv, Same, MatchInv, NEW w \in Workers, StealReply(w), UNCHANGED bvars
  PROVE  MatchInv'
<1>0. PICK k \in Nodes : k = peer[w][1]
  BY Now
<1>a. PICK tag : tag = StealTag(w[2])
  OBVIOUS
<1>1. /\ Alone(w) /\ w \in Threads /\ pc[w] \in Inside
      /\ chan[k][w[1]][tag] # <<>> /\ Take(k, w[1], tag)
      /\ pc'[w] \in {"execute", "get_args", "wait", "repoll", "reask", "ask"}
  <2>1. /\ ShapeInv' /\ Alone(w) /\ w \in Threads
        /\ pc[w] \in Inside /\ peer[w][2] = StealTag(w[2])
        /\ chan[k][w[1]][StealTag(w[2])] # <<>> /\ Take(k, w[1], StealTag(w[2]))
        /\ LET msg == Head(chan[k][w[1]][StealTag(w[2])]) IN
           \/ /\ msg.type = "work" /\ hand'[w] = msg.body /\ peer'[w] = peer[w]
              /\ pc'[w] = IF Home(msg.body) = w[1] \/ ArgMsgs = 0 THEN "execute" ELSE "get_args"
           \/ /\ msg.type # "work" /\ hand'[w] = hand[w]
              /\ pc'[w] \in {"wait", "repoll", "reask", "ask"}
    BY <1>0, StealReplyShape
  <2> QED BY <1>a, <2>1
<1>2. UNCHANGED <<parent, address>> /\ w[1] \in Nodes
  BY <1>1, Now DEF StealReply, Application, bvars
<1>3. CalmMail
  <2>1. tag \in Tags /\ tag # MaxNvps /\ tag \notin WorkerVps
    BY <1>a, TagFacts DEF ShapeInv
  <2> QED BY <1>1, <1>2, <2>1, CalmTaken
<1>4. CalmThread(w)
  BY <1>1, WorkerFacts, ServerFacts DEF CalmThread, Paying, Inside, InFirst, InSecond, ShapeInv
<1> QED BY <1>1, <1>2, <1>3, <1>4, MatchQuiet

(* Descriptors and arguments.                                              *)
LEMMA SendDescriptorMatches ==
  ASSUME ShapeInv, Same, MatchInv, NEW th \in Threads, SendDescriptor(th), UNCHANGED bvars
  PROVE  MatchInv'
<1>d. pc[th] \in {"send", "push"} /\ UNCHANGED <<parent, address>>
  BY DEF SendDescriptor, Application, bvars
<1>0. PICK n \in Nodes, t \in Tasks : n = peer[th][1] /\ t = hand[th]
  BY <1>d, Now DEF WithTask
<1>1. /\ Alone(th)
      /\ \E msg \in Messages(MaxNvps) :
           /\ msg.type \in {"enqueue", "enqueue_private"} /\ msg.body = t /\ msg.vp = th[2]
           /\ msg.type = (IF pc[th] = "send" THEN "enqueue" ELSE "enqueue_private")
           /\ Post(th[1], n, MaxNvps, msg)
      /\ peer'[th] = peer[th]
      /\ \/ /\ Home(t) = n \/ ArgMsgs = 0
            /\ pc'[th] = AfterSend(th) /\ hand'[th] = NoTask
         \/ /\ Home(t) # n /\ ArgMsgs # 0
            /\ pc'[th] = "send_args" /\ hand'[th] = t /\ th \in Workers
  BY <1>0, SendDescriptorShape
<1>2. PICK msg \in Messages(MaxNvps) :
        /\ msg.body = t /\ msg.vp = th[2]
        /\ msg.type = (IF pc[th] = "send" THEN "enqueue" ELSE "enqueue_private")
        /\ Post(th[1], n, MaxNvps, msg)
  BY <1>1
<1>3. th[1] \in Nodes /\ MaxNvps \in Tags /\ MaxNvps \notin WorkerVps
  BY Now, TagFacts DEF ShapeInv
<1>4. CASE Home(t) = n \/ ArgMsgs = 0
  <2>1. pc'[th] \in {"serve", "app"}
    BY <1>1, <1>4 DEF AfterSend
  <2>2. CalmThread(th)
    BY <1>d, <2>1 DEF CalmThread, Paying, Expecting
  <2>3. \A vp : msg \notin Heralds(n, vp)
    BY <1>2, <1>4 DEF Heralds
  <2>4. CalmMail
    BY <1>2, <1>3, <2>3, CalmSent
  <2> QED BY <1>d, <1>1, <2>2, <2>4, MatchQuiet
<1>5. CASE Home(t) # n /\ ArgMsgs # 0
  <2>1. pc'[th] = "send_args" /\ hand'[th] = t /\ th \in Workers
    BY <1>1, <1>5
  <2>2. pc[th] = "send"
    <3>1. WorkerFits(th, pc[th], peer[th])
      BY <2>1, Now
    <3> QED BY <1>d, <3>1 DEF WorkerFits, SearchPlaces, InApplication
  <2>3. msg \in Heralds(n, th[2])
    BY <1>2, <1>5, <2>2 DEF Heralds, Messages
  <2>4. PICK y : y = [type |-> "argument", body |-> t, vp |-> th[2]]
    OBVIOUS
  <2>5. Load(th)' = y
    BY <2>1, <2>4 DEF Load
  <2>6. y \in AnyMessage
    <3>1. th[2] \in Vps
      BY Now
    <3> QED BY <2>4, <3>1 DEF AnyMessage, Types, Bodies
  <2>7. Payee(th)' = n
    BY <1>0, <1>1, <2>1 DEF Payee
  <2>8. Fit(msg, y)
    BY <1>2, <2>2, <2>4 DEF Fit
  <2>9. pc[th] \notin Paying /\ pc'[th] \in Paying
    BY <2>1, <2>2 DEF Paying
  <2> QED BY <1>d, <1>1, <1>2, <2>1, <2>3, <2>5, <2>6, <2>7, <2>8, <2>9, MatchAnnounce
<1> QED BY <1>4, <1>5

LEMMA DirectSendMatches ==
  ASSUME ShapeInv, Same, MatchInv, NEW th \in Threads, DirectSendDescriptor(th), UNCHANGED bvars
  PROVE  MatchInv'
<1>0. PICK n \in Nodes, t \in Tasks \cup {NoTask}, tag \in Tags :
        n = peer[th][1] /\ t = hand[th] /\ tag = peer[th][2]
  BY Now
<1>1. /\ Alone(th) /\ pc[th] = "reply" /\ pc'[th] \in {"serve", "send_args"}
      /\ th \in Servers /\ tag \in StealTags
      /\ \E msg \in Messages(tag) : msg.type \in {"no_work", "work"} /\ Post(th[1], n, tag, msg)
  BY <1>0, DirectSendShape
<1>2. UNCHANGED <<parent, address>> /\ th[1] \in Nodes
  BY Now DEF DirectSendDescriptor, Application, bvars
<1>3. CalmMail
  <2>1. tag # MaxNvps /\ tag \notin WorkerVps
    BY <1>1, TagFacts DEF ShapeInv
  <2> QED BY <1>1, <1>2, <2>1, CalmSent
<1>4. CalmThread(th)
  BY <1>1, ServerFacts DEF CalmThread, Expecting, ShapeInv
<1> QED BY <1>1, <1>2, <1>3, <1>4, MatchQuiet

LEMMA SendArgumentsMatches ==
  ASSUME ShapeInv, Same, MatchInv, NEW th \in Threads, SendArguments(th), UNCHANGED bvars
  PROVE  MatchInv'
<1>0. PICK n \in Nodes, tag \in Tags : n = peer[th][1] /\ tag = peer[th][2]
  BY Now
<1>1. /\ Alone(th) /\ pc[th] = "send_args" /\ pc'[th] = AfterSend(th)
      /\ \E msg \in Messages(tag) : /\ msg.type = "argument" /\ msg.body = hand[th]
                                    /\ Post(th[1], n, tag, msg)
      /\ th \in Servers => tag \in StealTags
      /\ th \in Workers => tag = th[2]
  BY <1>0, SendArgumentsShape
<1>2. UNCHANGED <<parent, address>> /\ th[1] \in Nodes
  BY Now DEF SendArguments, Application, bvars
<1>3. PICK msg \in Messages(tag) :
        msg.type = "argument" /\ msg.body = hand[th] /\ Post(th[1], n, tag, msg)
  BY <1>1
<1>4. pc'[th] \in {"serve", "app"}
  BY <1>1 DEF AfterSend
<1>5. CASE th \in Servers
  <2>1. tag # MaxNvps /\ tag \notin WorkerVps
    BY <1>1, <1>5, TagFacts DEF ShapeInv
  <2>2. CalmMail
    BY <1>2, <1>3, <2>1, CalmSent
  <2>3. CalmThread(th)
    BY <1>1, <1>4, <1>5, ServerFacts DEF CalmThread, Expecting, ShapeInv
  <2> QED BY <1>1, <1>2, <2>2, <2>3, MatchQuiet
<1>6. CASE th \in Workers
  <2>1. tag = th[2]
    BY <1>1, <1>6
  <2>2. Payee(th) = n /\ Load(th).type = "argument" /\ Load(th).body = hand[th]
    BY <1>0, <1>1 DEF Payee, Load
  <2>3. pc[th] \in Paying /\ pc'[th] \notin Paying
    BY <1>1, <1>4 DEF Paying
  <2>4. msg \in Messages(th[2]) /\ Post(th[1], n, th[2], msg)
    BY <1>3, <2>1
  <2> QED BY <1>1, <1>2, <1>3, <1>6, <2>2, <2>3, <2>4, MatchPay
<1> QED BY <1>5, <1>6, ServerFacts DEF ShapeInv

LEMMA HoldForArgumentsMatches ==
  ASSUME ShapeInv, Same, MatchInv, NEW th \in Threads, HoldForArguments(th), UNCHANGED bvars
  PROVE  MatchInv'
<1>1. Alone(th) /\ pc[th] = "get_args" /\ pc'[th] = "held_args" /\ hand'[th] = hand[th] /\ peer'[th] = peer[th]
  BY HoldForArgumentsShape
<1>2. UNCHANGED chan /\ UNCHANGED <<parent, address>>
  BY DEF HoldForArguments, Application, bvars
<1>3. CalmThread(th)
  BY <1>1 DEF CalmThread, Paying
<1> QED BY <1>1, <1>2, <1>3, CalmSame, MatchQuiet

LEMMA ReceiveArgumentsMatches ==
  ASSUME ShapeInv, Same, MatchInv, NEW th \in Threads, ReceiveArguments(th), UNCHANGED bvars
  PROVE  MatchInv'
<1>d. pc[th] \in {"held_args", "held_args_private"} /\ UNCHANGED <<parent, address>>
  BY DEF ReceiveArguments, Application, bvars
<1>0. PICK n \in Nodes, tag \in Tags, t \in Tasks : n = peer[th][1] /\ tag = peer[th][2] /\ t = hand[th]
  <2>1. pc[th] \in WithTask
    <3>1. pc[th] = "held_args_private" => th \notin Workers /\ th \notin Servers
      BY Now DEF WorkerFits, ServerFits, ServerPlaces, SearchPlaces, InApplication
    <3>2. th \in Workers \/ th \in Servers
      BY ServerFacts DEF ShapeInv
    <3> QED BY <1>d, <3>1, <3>2 DEF WithTask
  <2> QED BY <2>1, Now
<1>1. /\ Alone(th) /\ pc[th] = "held_args"
      /\ chan[n][th[1]][tag] # <<>> /\ Take(n, th[1], tag) /\ UNCHANGED peer
      /\ \/ th \in Workers /\ tag = StealTag(th[2]) /\ pc'[th] = "execute"
         \/ th \in Servers /\ tag \in WorkerVps /\ \E b \in BOOLEAN : Enqueued(th, t, b)
  BY <1>0, ReceiveArgumentsShape
<1>2. th[1] \in Nodes /\ peer[th] = <<n, tag>>
  <2>1. peer[th] \in Nodes \X Tags /\ th[1] \in Nodes
    BY Now
  <2> QED BY <1>0, <2>1
<1>3. CASE th \in Workers /\ tag = StealTag(th[2]) /\ pc'[th] = "execute"
  <2>1. tag # MaxNvps /\ tag \notin WorkerVps
    BY <1>3, TagFacts DEF ShapeInv
  <2>2. CalmMail
    BY <1>1, <1>2, <2>1, CalmTaken
  <2>3. CalmThread(th)
    BY <1>1, <1>3, ServerFacts DEF CalmThread, Paying, ShapeInv
  <2> QED BY <1>d, <1>1, <2>2, <2>3, MatchQuiet
<1>4. CASE th \in Servers /\ tag \in WorkerVps /\ \E b \in BOOLEAN : Enqueued(th, t, b)
  <2>1. pc'[th] \in {"execute", "serve"}
    BY <1>1, <1>4, EnqueuedFits
  <2>2. pc[th] \in Expecting /\ pc'[th] \notin Expecting
    BY <1>1, <2>1 DEF Expecting
  <2> QED BY <1>d, <1>1, <1>2, <1>4, <2>2, MatchReceive
<1> QED BY <1>1, <1>3, <1>4

LEMMA MessageIs ==
  ASSUME NEW msg \in AnyMessage
  PROVE  msg = [type |-> msg.type, body |-> msg.body, vp |-> msg.vp]
  BY DEF AnyMessage

(* Execution and cleanup.                                                  *)
LEMMA ExecuteMatches ==
  ASSUME ShapeInv, Same, MatchInv, NEW th \in Threads, Execute(th) \/ ReturnHome(th), UNCHANGED bvars
  PROVE  MatchInv'
<1>1. Alone(th) /\ pc[th] \in {"execute", "run"} /\ pc'[th] \in {"run", "serve", "wait", "poll"}
  <2>1. Execute(th) => Alone(th) /\ pc[th] = "execute" /\ pc'[th] = "run"
    BY ExecuteShape
  <2>2. ASSUME ReturnHome(th)
        PROVE  Alone(th) /\ pc[th] = "run" /\ pc'[th] \in {"serve", "wait", "poll"}
    <3>1. PICK t \in Tasks : t = hand[th]
      BY <2>2, Now DEF ReturnHome, WithTask
    <3> QED BY <2>2, <3>1, ReturnHomeShape
  <2> QED BY <2>1, <2>2
<1>2. UNCHANGED chan /\ UNCHANGED <<parent, address>>
  BY DEF Execute, ReturnHome, Application, bvars
<1>3. CalmThread(th)
  BY <1>1 DEF CalmThread, Paying, Expecting
<1> QED BY <1>1, <1>2, <1>3, CalmSame, MatchQuiet

LEMMA SendAnswerMatches ==
  ASSUME ShapeInv, Same, MatchInv, PlaceInv, NEW th \in Threads, SendAnswer(th), UNCHANGED bvars
  PROVE  MatchInv'
<1>0. PICK t \in Tasks : t = hand[th]
  BY Now DEF SendAnswer, WithTask
<1>a. PICK h \in Nodes : h = Home(t)
  BY <1>0, AtHome DEF SendAnswer
<1>1. /\ Alone(th) /\ pc[th] = "run"
      /\ \E msg \in Messages(MaxNvps) : /\ msg.type = "answer" /\ msg.body = t /\ msg.vp = th[2]
                                        /\ Post(th[1], h, MaxNvps, msg)
      /\ \/ ResMsgs = 0 /\ hand'[th] = NoTask /\ pc'[th] \in {"serve", "wait", "poll"}
         \/ ResMsgs # 0 /\ hand'[th] = t /\ pc'[th] = "send_results" /\ th \in Workers
  BY <1>0, <1>a, SendAnswerShape
<1>2. /\ UNCHANGED <<parent, address>> /\ th[1] \in Nodes
      /\ MaxNvps \in Tags /\ MaxNvps \notin WorkerVps
  BY Now, TagFacts DEF SendAnswer, Application, bvars, ShapeInv
<1>3. PICK msg \in Messages(MaxNvps) : /\ msg.type = "answer" /\ msg.body = t /\ msg.vp = th[2]
                                       /\ Post(th[1], h, MaxNvps, msg)
  BY <1>1
<1>4. CASE ResMsgs = 0
  <2>1. pc'[th] \in {"serve", "wait", "poll"}
    BY <1>1, <1>4
  <2>2. CalmThread(th)
    BY <1>1, <2>1 DEF CalmThread, Paying, Expecting
  <2>3. \A vp : msg \notin Heralds(h, vp)
    BY <1>3, <1>4 DEF Heralds
  <2>4. CalmMail
    BY <1>2, <1>3, <2>3, CalmSent
  <2> QED BY <1>1, <1>2, <2>2, <2>4, MatchQuiet
<1>5. CASE ResMsgs # 0
  <2>1. pc'[th] = "send_results" /\ hand'[th] = t /\ th \in Workers
    BY <1>1, <1>5
  <2>3. msg \in Heralds(h, th[2])
    BY <1>3, <1>5 DEF Heralds, Messages
  <2>4. PICK y : y = [type |-> "result", body |-> t, vp |-> th[2]]
    OBVIOUS
  <2>5. Load(th)' = y
    BY <2>1, <2>4 DEF Load
  <2>6. y \in AnyMessage
    <3>1. th[2] \in Vps
      BY Now
    <3> QED BY <2>4, <3>1 DEF AnyMessage, Types, Bodies
  <2>7. Payee(th)' = h
    <3>1. Home(hand[th])' = h
      BY <1>2, <1>a, <2>1 DEF Home
    <3> QED BY <2>1, <3>1 DEF Payee
  <2>8. Fit(msg, y)
    BY <1>3, <2>4 DEF Fit
  <2>9. pc[th] \notin Paying /\ pc'[th] \in Paying
    BY <1>1, <2>1 DEF Paying
  <2> QED BY <1>1, <1>2, <1>3, <2>1, <2>3, <2>5, <2>6, <2>7, <2>8, <2>9, MatchAnnounce
<1> QED BY <1>4, <1>5

LEMMA SendResultsMatches ==
  ASSUME ShapeInv, Same, MatchInv, PlaceInv, NEW th \in Threads, SendResults(th), UNCHANGED bvars
  PROVE  MatchInv'
<1>0. PICK t \in Tasks : t = hand[th]
  BY Now DEF SendResults, WithTask
<1>a. PICK h \in Nodes : h = Home(t)
  BY <1>0, AtHome DEF SendResults
<1>1. /\ Alone(th) /\ pc[th] = "send_results" /\ pc'[th] \in {"wait", "poll"} /\ th \in Workers
      /\ \E msg \in Messages(th[2]) : /\ msg.type = "result" /\ msg.body = t
                                      /\ Post(th[1], h, th[2], msg)
  BY <1>0, <1>a, SendResultsShape
<1>2. UNCHANGED <<parent, address>>
  BY DEF SendResults, Application, bvars
<1>3. Payee(th) = h /\ Load(th).type = "result" /\ Load(th).body = t
  BY <1>0, <1>a, <1>1 DEF Payee, Load
<1>4. pc[th] \in Paying /\ pc'[th] \notin Paying
  BY <1>1 DEF Paying
<1> QED BY <1>1, <1>2, <1>3, <1>4, MatchPay

(* The server.                                                             *)
LEMMA CalmServed ==
  ASSUME ShapeInv, Same, NEW s \in Servers, NEW n \in Nodes, NEW type, Serves(s, n, type),
         NEW msg, msg = Head(chan[n][s[1]][MaxNvps]), \A vp \in WorkerVps : msg \notin Heralds(s[1], vp)
  PROVE  CalmMail
<1>1. /\ s[1] \in Nodes /\ pc[s] = "serve" /\ MaxNvps \in Tags
      /\ chan[n][s[1]][MaxNvps] # <<>> /\ Take(n, s[1], MaxNvps)
  BY ServesEffect
<1>2. Server(s[1]) = s /\ MaxNvps \notin WorkerVps
  BY ServerFacts, TagFacts DEF ShapeInv
<1> QED BY <1>1, <1>2, CalmTaken DEF Expecting

LEMMA ServeEnqueueMatches ==
  ASSUME ShapeInv, Same, MatchInv, NEW s \in Servers, NEW n \in Nodes,
         NEW type \in {"enqueue", "enqueue_private"}, ServeEnqueue(s, n, type), UNCHANGED bvars
  PROVE  MatchInv'
<1>0. PICK msg : msg = Head(chan[n][s[1]][MaxNvps])
  OBVIOUS
<1>t. PICK t : t = msg.body
  OBVIOUS
<1>1. /\ ShapeInv' /\ Alone(s) /\ s \in Threads /\ t \in Tasks
      /\ \/ /\ public' = [public EXCEPT ![s[1]] = <<t>> \o @]
            /\ UNCHANGED <<pc, hand, peer, private>>
         \/ UNCHANGED peer /\ \E b \in BOOLEAN : Enqueued(s, t, b)
         \/ /\ pc'[s] = "get_args" /\ hand'[s] = t /\ peer'[s] = <<n, msg.vp>> /\ UNCHANGED Queues
            /\ type = "enqueue" /\ Home(t) # s[1] /\ ArgMsgs # 0
  BY <1>0, <1>t, ServeEnqueueShape
<1>2. Serves(s, n, type) /\ UNCHANGED <<parent, address>>
  BY DEF ServeEnqueue, Application, bvars
<1>3. /\ s[1] \in Nodes /\ pc[s] = "serve" /\ msg \in Messages(MaxNvps) /\ Legal(MaxNvps, msg)
      /\ msg.type = type /\ chan[n][s[1]][MaxNvps] # <<>> /\ Take(n, s[1], MaxNvps)
  BY <1>0, <1>2, ServesEffect
<1>4. CASE type = "enqueue" /\ Home(t) # s[1] /\ ArgMsgs # 0
  <2>1. pc'[s] = "get_args" /\ hand'[s] = t /\ peer'[s] = <<n, msg.vp>>
    <3>1. Goto(s, "get_args") /\ Holds(s, t) /\ peer' = [peer EXCEPT ![s] = <<n, msg.vp>>]
      BY <1>0, <1>t, <1>4 DEF ServeEnqueue
    <3> QED BY <1>1, <3>1 DEF Goto, Holds, ShapeInv, ThreadsFit
  <2>2. msg.vp \in WorkerVps /\ msg \in AnyMessage
    BY <1>3, <1>4 DEF Legal, Messages
  <2>3. msg \in Heralds(s[1], msg.vp)
    BY <1>3, <1>4, <1>t, <2>2 DEF Heralds
  <2>4. Letter(s)' = [type |-> "enqueue", body |-> t, vp |-> msg.vp]
    BY <2>1 DEF Letter
  <2>5. Letter(s)' = msg
    BY <1>3, <1>4, <1>t, <2>2, <2>4, MessageIs
  <2>6. pc[s] \notin Expecting /\ pc'[s] \in Expecting
    BY <1>3, <2>1 DEF Expecting
  <2>7. address' \in [Servers -> Bodies] /\ \A o \in Servers : o # s => address'[o] = address[o]
    BY <1>2 DEF MatchInv
  <2> QED BY <1>0, <1>1, <1>2, <1>3, <2>1, <2>3, <2>5, <2>6, <2>7, MatchExpect
<1>5. CASE ~(type = "enqueue" /\ Home(t) # s[1] /\ ArgMsgs # 0)
  <2>1. \A vp : msg \notin Heralds(s[1], vp)
    BY <1>3, <1>5, <1>t DEF Heralds
  <2>2. CalmMail
    BY <1>0, <1>2, <2>1, CalmServed
  <2>3. pc'[s] \in {"serve", "execute"}
    BY <1>1, <1>3, <1>5, EnqueuedFits
  <2>4. CalmThread(s)
    BY <1>3, <2>3, ServerFacts DEF CalmThread, Expecting, ShapeInv
  <2> QED BY <1>1, <1>2, <2>2, <2>4, MatchQuiet
<1> QED BY <1>4, <1>5

LEMMA ServeAnswerMatches ==
  ASSUME ShapeInv, Same, MatchInv, NEW s \in Servers, NEW n \in Nodes, ServeAnswer(s, n), UNCHANGED bvars
  PROVE  MatchInv'
<1>0. PICK msg : msg = Head(chan[n][s[1]][MaxNvps])
  OBVIOUS
<1>t. PICK t : t = msg.body
  OBVIOUS
<1>1. /\ Alone(s) /\ s \in Threads /\ t \in Tasks
      /\ \/ ResMsgs = 0 /\ DepSatisfy(t) /\ UNCHANGED <<pc, hand, peer>>
         \/ /\ ResMsgs # 0 /\ UNCHANGED <<ndep, stage>>
            /\ pc'[s] = "get_results" /\ hand'[s] = t /\ peer'[s] = <<n, msg.vp>>
  BY <1>0, <1>t, ServeAnswerShape
<1>2. Serves(s, n, "answer") /\ UNCHANGED <<parent, address>>
  BY DEF ServeAnswer, bvars
<1>3. /\ s[1] \in Nodes /\ pc[s] = "serve" /\ msg \in Messages(MaxNvps) /\ Legal(MaxNvps, msg)
      /\ msg.type = "answer" /\ chan[n][s[1]][MaxNvps] # <<>> /\ Take(n, s[1], MaxNvps)
  BY <1>0, <1>2, ServesEffect
<1>4. CASE ResMsgs # 0
  <2>1. pc'[s] = "get_results" /\ hand'[s] = t /\ peer'[s] = <<n, msg.vp>>
    BY <1>1, <1>4
  <2>2. msg.vp \in WorkerVps /\ msg \in AnyMessage
    BY <1>3, <1>4 DEF Legal, Messages
  <2>3. msg \in Heralds(s[1], msg.vp)
    BY <1>3, <1>4, <2>2 DEF Heralds
  <2>4. Letter(s)' = [type |-> "answer", body |-> t, vp |-> msg.vp]
    BY <2>1 DEF Letter
  <2>5. Letter(s)' = msg
    BY <1>3, <1>t, <2>2, <2>4, MessageIs
  <2>6. pc[s] \notin Expecting /\ pc'[s] \in Expecting
    BY <1>3, <2>1 DEF Expecting
  <2>7. address' \in [Servers -> Bodies] /\ \A o \in Servers : o # s => address'[o] = address[o]
    BY <1>2 DEF MatchInv
  <2> QED BY <1>0, <1>1, <1>2, <1>3, <2>1, <2>3, <2>5, <2>6, <2>7, MatchExpect
<1>5. CASE ResMsgs = 0
  <2>1. \A vp : msg \notin Heralds(s[1], vp)
    BY <1>3, <1>5 DEF Heralds
  <2>2. CalmMail
    BY <1>0, <1>2, <2>1, CalmServed
  <2>4. CalmThread(s)
    BY <1>1, <1>3, <1>5, ServerFacts DEF CalmThread, Expecting, ShapeInv
  <2> QED BY <1>1, <1>2, <2>2, <2>4, MatchQuiet
<1> QED BY <1>4, <1>5

LEMMA ReceiveResultsMatches ==
  ASSUME ShapeInv, Same, MatchInv, NEW s \in Servers, ReceiveResults(s), UNCHANGED bvars
  PROVE  MatchInv'
<1>a. s \in Threads /\ pc[s] = "get_results" /\ UNCHANGED <<parent, address>>
  BY ServerFacts DEF ShapeInv, ReceiveResults, bvars
<1>0. PICK n \in Nodes, tag \in Tags, t \in Tasks : n = peer[s][1] /\ tag = peer[s][2] /\ t = hand[s]
  BY <1>a, Now DEF WithTask
<1>1. /\ Alone(s) /\ tag \in WorkerVps /\ pc'[s] = "serve"
      /\ chan[n][s[1]][tag] # <<>> /\ Take(n, s[1], tag)
  BY <1>0, ReceiveResultsShape
<1>2. peer[s] = <<n, tag>>
  <2>1. peer[s] \in Nodes \X Tags
    BY <1>a, Now
  <2> QED BY <1>0, <2>1
<1>3. pc[s] \in Expecting /\ pc'[s] \notin Expecting
  BY <1>a, <1>1 DEF Expecting
<1> QED BY <1>a, <1>1, <1>2, <1>3, MatchReceive

LEMMA ServeOtherMatches ==
  ASSUME ShapeInv, Same, MatchInv, NEW s \in Servers, NEW n \in Nodes, UNCHANGED bvars,
         \/ ServeSteal(s, n) \/ ServePrefetch(s, n)
         \/ \E call \in SwitchCalls : ServeSwitch(s, n, call)
  PROVE  MatchInv'
<1>0. PICK msg : msg = Head(chan[n][s[1]][MaxNvps])
  OBVIOUS
<1>1. Alone(s) /\ s \in Threads
  BY <1>0, ServeStealShape, ServePrefetchShape, ServeSwitchShape
<1>2. PICK type \in {"steal", "prefetch"} \cup SwitchCalls : Serves(s, n, type)
  BY DEF ServeSteal, ServePrefetch, ServeSwitch
<1>3. UNCHANGED <<parent, address>>
  BY DEF ServeSteal, ServePrefetch, ServeSwitch, Application, bvars
<1>4. pc[s] = "serve" /\ msg.type = type
  BY <1>0, <1>2, ServesEffect
<1>5. CalmMail
  <2>1. \A m, vp : msg \notin Heralds(m, vp)
    BY <1>2, <1>4, NoHerald DEF Silent, SwitchCalls
  <2> QED BY <1>0, <1>2, <2>1, CalmServed
<1>6. pc'[s] \in {"serve", "reply", "push"}
  <2>1. UNCHANGED pc \/ \E q \in {"reply", "push"} : Goto(s, q)
    BY DEF ServeSteal, ServePrefetch, ServeSwitch
  <2> QED BY <1>1, <1>4, <2>1, WentTo
<1>7. CalmThread(s)
  BY <1>4, <1>6, ServerFacts DEF CalmThread, Expecting, ShapeInv
<1> QED BY <1>1, <1>3, <1>5, <1>7, MatchQuiet

(* Broadcasts.                                                             *)
LEMMA BroadcastCallMatches ==
  ASSUME ShapeInv, Same, MatchInv, NEW c \in Creators, NEW a \in Variables, NEW v \in Values,
         Broadcast(c, a, v)
  PROVE  MatchInv'
<1>1. Alone(c) /\ c \in Threads /\ pc[c] = "app" /\ pc'[c] = "bcast"
  BY BroadcastCallShape
<1>2. UNCHANGED chan /\ UNCHANGED <<parent, address>>
  BY DEF Broadcast, Application
<1>3. CalmThread(c)
  BY <1>1, WorkerFacts, ServerFacts DEF CalmThread, Paying, ShapeInv
<1> QED BY <1>1, <1>2, <1>3, CalmSame, MatchQuiet

LEMMA NextNodeMatches ==
  ASSUME ShapeInv, Same, MatchInv, NEW c \in Creators, SkipOwn(c) \/ SsendDone(c)
  PROVE  MatchInv'
<1>1. Alone(c) /\ c \in Threads /\ pc[c] \in {"bcast", "ssend"} /\ pc'[c] \in {"bcast", "app"}
  BY SMTT(30), NextNodeShape
<1>2. UNCHANGED chan /\ UNCHANGED <<parent, address>>
  BY ZenonT(30) DEF SkipOwn, SsendDone, Application, bvars
<1>3. CalmThread(c)
  BY <1>1, WorkerFacts, ServerFacts DEF CalmThread, Paying, ShapeInv
<1> QED BY SMTT(30), <1>1, <1>2, <1>3, CalmSame, MatchQuiet

LEMMA SendBroadcastMatches ==
  ASSUME ShapeInv, Same, MatchInv, NEW c \in Creators, SendBroadcast(c)
  PROVE  MatchInv'
<1>0. PICK k \in Nodes : k = peer[c][1]
  BY Now, WorkerFacts DEF ShapeInv
<1>1. Alone(c) /\ c \in Threads /\ pc[c] = "bcast" /\ pc'[c] = "offer"
  BY <1>0, SendBroadcastShape
<1>2. UNCHANGED <<parent, address>> /\ peer'[c] = peer[c] /\ c \in Workers /\ c[2] \in WorkerVps
      /\ c[2] \in Vps
  BY WorkerFacts, TagFacts DEF SendBroadcast, Application, bvars, ShapeInv
<1>3. PICK va \in Bodies : Post(c[1], k, MaxNvps, Message("bcast", va, c))
  <2>1. PICK va : /\ va = IF setup.sendsAddress THEN var[c] ELSE memory[c[1]][var[c]]
                  /\ Post(c[1], k, MaxNvps, Message("bcast", va, c))
    BY <1>0 DEF SendBroadcast
  <2>2. var[c] \in Variables /\ memory[c[1]] \in [Variables -> Bodies]
    BY <1>1, Now DEF ShapeInv, MemoryTypes
  <2>3. va \in Bodies
    BY <2>1, <2>2 DEF Bodies
  <2> QED BY <2>1, <2>3
<1>4. PICK msg : msg = Message("bcast", va, c)
  OBVIOUS
<1>5. /\ msg \in AnyMessage /\ msg.type = "bcast" /\ msg.body = va /\ msg.vp = c[2]
      /\ \A tag : Legal(tag, msg) => msg \in Messages(tag)
  <2>1. SetupInv /\ "bcast" \in Types /\ c \in Threads
    BY <1>1 DEF ShapeInv, Types
  <2> QED BY ONLY <1>3, <1>4, <2>1, MessageFacts
<1>6. msg \in Messages(MaxNvps)
  <2>1. MaxNvps \notin WorkerVps /\ MaxNvps \notin StealTags
    BY TagFacts DEF ShapeInv
  <2>2. Legal(MaxNvps, msg)
    BY <1>2, <1>5, <2>1 DEF Legal, Descriptors
  <2> QED BY <1>5, <2>2
<1>7. msg \in Heralds(k, c[2])
  BY <1>5 DEF Heralds
<1>8. PICK y : y = [type |-> "data", body |-> NoTask, vp |-> c[2]]
  OBVIOUS
<1>9. Load(c)' = y /\ y \in AnyMessage
  BY <1>1, <1>2, <1>8 DEF Load, AnyMessage, Types, Bodies
<1>10. Payee(c)' = k
  BY <1>0, <1>1, <1>2 DEF Payee
<1>11. Fit(msg, y)
  BY <1>5, <1>8 DEF Fit
<1>12. pc[c] \notin Paying /\ pc'[c] \in Paying
  BY <1>1 DEF Paying
<1>13. Post(c[1], k, MaxNvps, msg)
  BY <1>3, <1>4
<1> QED BY <1>1, <1>2, <1>6, <1>7, <1>9, <1>10, <1>11, <1>12, <1>13, MatchAnnounce

LEMMA SsendMatches ==
  ASSUME ShapeInv, Same, MatchInv, NEW c \in Creators, Ssend(c)
  PROVE  MatchInv'
<1>0. PICK k \in Nodes : k = peer[c][1]
  BY Now, WorkerFacts DEF ShapeInv
<1>1. /\ Alone(c) /\ c \in Threads /\ pc[c] = "offer" /\ pc'[c] = "ssend"
      /\ \E msg \in Messages(c[2]) : msg.type = "data" /\ Post(c[1], k, c[2], msg)
  BY <1>0, SsendShape
<1>2. UNCHANGED <<parent, address>> /\ c \in Workers
  BY WorkerFacts DEF Ssend, Application, bvars, ShapeInv
<1>3. Payee(c) = k /\ Load(c).type = "data"
  BY <1>0, <1>1 DEF Payee, Load
<1>4. pc[c] \in Paying /\ pc'[c] \notin Paying
  BY <1>1 DEF Paying
<1> QED BY <1>1, <1>2, <1>3, <1>4, MatchPay

LEMMA ServeBroadcastMatches ==
  ASSUME ShapeInv, Same, MatchInv, NEW s \in Servers, NEW n \in Nodes, ServeBroadcast(s, n)
  PROVE  MatchInv'
<1>0. PICK msg : msg = Head(chan[n][s[1]][MaxNvps])
  OBVIOUS
<1>1. Alone(s) /\ s \in Threads /\ pc[s] = "serve" /\ pc'[s] = "get_data"
  BY ServeBroadcastShape
<1>2. Serves(s, n, "bcast") /\ UNCHANGED parent /\ address' = [address EXCEPT ![s] = msg.body]
      /\ peer' = [peer EXCEPT ![s] = <<n, msg.vp>>]
  BY <1>0 DEF ServeBroadcast, Application
<1>3. /\ s[1] \in Nodes /\ msg \in Messages(MaxNvps) /\ Legal(MaxNvps, msg)
      /\ msg.type = "bcast" /\ chan[n][s[1]][MaxNvps] # <<>> /\ Take(n, s[1], MaxNvps)
  BY <1>0, <1>2, ServesEffect
<1>4. msg \in AnyMessage /\ msg.body \in Bodies /\ msg.vp \in WorkerVps
  BY <1>3 DEF Messages, AnyMessage, Legal
<1>5. /\ address' \in [Servers -> Bodies] /\ address'[s] = msg.body
      /\ \A o \in Servers : o # s => address'[o] = address[o]
  BY <1>2, <1>4 DEF MatchInv
<1>6. peer'[s] = <<n, msg.vp>>
  BY <1>1, <1>2 DEF ShapeInv, ThreadsFit
<1>7. msg \in Heralds(s[1], msg.vp)
  BY <1>3, <1>4 DEF Heralds
<1>8. Letter(s)' = [type |-> "bcast", body |-> msg.body, vp |-> msg.vp]
  BY <1>1, <1>5, <1>6 DEF Letter
<1>9. Letter(s)' = msg
  BY <1>3, <1>4, <1>8, MessageIs
<1>10. pc[s] \notin Expecting /\ pc'[s] \in Expecting
  BY <1>1 DEF Expecting
<1> QED BY <1>0, <1>1, <1>2, <1>3, <1>5, <1>6, <1>7, <1>9, <1>10, MatchExpect

LEMMA ReceiveDataMatches ==
  ASSUME ShapeInv, Same, MatchInv, NEW s \in Servers, ReceiveData(s)
  PROVE  MatchInv'
<1>0. s \in Threads /\ UNCHANGED <<parent, address>>
  BY ServerFacts DEF ShapeInv, ReceiveData, Application
<1>1. PICK n \in Nodes, tag \in Tags : n = peer[s][1] /\ tag = peer[s][2]
  BY <1>0, Now
<1>2. /\ Alone(s) /\ pc[s] = "get_data" /\ tag \in WorkerVps /\ pc'[s] = "serve"
      /\ chan[n][s[1]][tag] # <<>> /\ Take(n, s[1], tag)
  BY <1>1, ReceiveDataShape
<1>3. peer[s] = <<n, tag>>
  <2>1. peer[s] \in Nodes \X Tags
    BY <1>0, Now
  <2> QED BY <1>1, <2>1
<1>4. pc[s] \in Expecting /\ pc'[s] \notin Expecting
  BY <1>2 DEF Expecting
<1> QED BY <1>0, <1>2, <1>3, <1>4, MatchReceive

(* A new task is in no message: whose home it is does not matter yet.      *)
LEMMA MatchElements ==
  ASSUME NEW S, NEW Q \in Seq(S), NEW R, NEW A, NEW B, Match(Q, R, A), \A x \in S : x \in A <=> x \in B
  PROVE  Match(Q, R, B)
<1>1. \A i \in 1 .. Len(Q) : Q[i] \in A <=> Q[i] \in B
  BY ElementOfSeq
<1>2. Num(Q, B) = Num(Q, A)
  <2>1. {i \in 1 .. Len(Q) : Q[i] \in A} = {i \in 1 .. Len(Q) : Q[i] \in B}
    BY <1>1
  <2> QED BY <2>1 DEF Num
<1>3. ASSUME NEW i \in 1 .. Len(Q), Q[i] \in B PROVE Fit(Q[i], R[Upto(Q, i, B)])
  <2>1. {j \in 1 .. i : Q[j] \in A} = {j \in 1 .. i : Q[j] \in B}
    <3>1. \A j \in 1 .. i : j \in 1 .. Len(Q)
      BY LenProperties
    <3> QED BY <1>1, <3>1
  <2>2. Upto(Q, i, B) = Upto(Q, i, A)
    BY <2>1 DEF Upto
  <2>3. Fit(Q[i], R[Upto(Q, i, A)])
    BY <1>1, <1>3 DEF Match
  <2> QED BY <2>2, <2>3
<1> QED BY <1>2, <1>3 DEF Match

LEMMA CreateMatches ==
  ASSUME ShapeInv, Same, MatchInv, PlaceInv, NEW c \in Creators, NEW t \in Tasks, NEW n \in Nodes,
         NEW call \in {"task", "task_direct"}, Create(c, t, n, call), UNCHANGED bvars
  PROVE  MatchInv'
<1>1. Alone(c) /\ c \in Threads /\ pc[c] = "app" /\ stage[t] = "none" /\ UNCHANGED chan
  BY CreateShape DEF Create
<1>2. pc'[c] \in {"app", "send"} /\ c \in Workers /\ c \notin Servers
  <2>1. UNCHANGED pc \/ Goto(c, "send")
    BY DEF Create
  <2> QED BY <1>1, <2>1, WentTo, WorkerFacts, ServerFacts DEF ShapeInv
<1>3. (\A u \in Tasks : u # t => parent'[u] = parent[u]) /\ UNCHANGED address
  BY DEF Create, ShapeInv, AppTypes, bvars
<1>4. \A o \in Threads : o # c => pc'[o] = pc[o] /\ hand'[o] = hand[o] /\ peer'[o] = peer[o]
  BY <1>1, AloneOthers DEF ShapeInv
<1>5. IsAt(t, <<"nowhere", 0>>)
  BY <1>1, FoundNowhere
<1> DEFINE Old == {x \in AnyMessage : x.type = "enqueue" => x.body \in Tasks /\ x.body # t}
<1>6. \A x \in Old : \A m, vp : x \in Heralds(m, vp)' <=> x \in Heralds(m, vp)
  <2>1. ArgMsgs' = ArgMsgs /\ ResMsgs' = ResMsgs /\ AnyMessage' = AnyMessage
    BY DEF Same
  <2>2. \A x \in Old : x.type = "enqueue" => Home(x.body)' = Home(x.body)
    BY <1>3 DEF Home
  <2> QED BY <2>1, <2>2 DEF Heralds
<1>7. ASSUME NEW a \in Nodes, NEW m \in Nodes PROVE chan[a][m][MaxNvps] \in Seq(Old)
  <2>1. MaxNvps \in Tags
    BY TagFacts DEF ShapeInv
  <2>2. PICK q \in Seq(Messages(MaxNvps)) : q = chan[a][m][MaxNvps]
    BY <2>1 DEF ShapeInv, Channels
  <2>3. \A i \in 1 .. Len(q) : q[i] \notin Movers(t)
    <3>1. Num(q, Movers(t)) = 0
      BY <1>5, <2>1, <2>2 DEF IsAt, One
    <3> QED BY <3>1, NumZero
  <2>4. ASSUME NEW i \in 1 .. Len(q) PROVE q[i] \in Old
    <3>1. PICK x \in Messages(MaxNvps) : x = q[i]
      BY ElementOfSeq
    <3>2. x \in AnyMessage /\ Legal(MaxNvps, x) /\ (x \in Movers(t) <=> Moves(x, t))
      BY HeldFacts DEF ShapeInv
    <3>3. x \notin Movers(t)
      BY <2>3, <3>1
    <3> QED BY <3>1, <3>2, <3>3 DEF Moves, Legal
  <2>5. q \in [1 .. Len(q) -> Old] /\ Len(q) \in Nat
    BY <2>4, LenProperties
  <2>6. q \in Seq(Old)
    BY <2>5, SeqDef
  <2> QED BY <2>2, <2>6
<1>8. ASSUME NEW s \in Servers
      PROVE  /\ Letter(s)' = Letter(s) /\ \A p : Pending(s, p)' = Pending(s, p)
             /\ pc'[s] \in Expecting <=> pc[s] \in Expecting
             /\ peer'[s] = peer[s]
             /\ pc[s] \in Expecting => Letter(s) \in Old
  <2>1. s \in Threads /\ s # c
    BY <1>2, ServerFacts DEF ShapeInv
  <2>2. pc'[s] = pc[s] /\ hand'[s] = hand[s] /\ peer'[s] = peer[s] /\ address'[s] = address[s]
    BY <1>3, <1>4, <2>1
  <2>3. ASSUME pc[s] \in Expecting PROVE Letter(s) \in Old
    <3>1. Letter(s) \in AnyMessage
      BY <2>3 DEF MatchInv, Heralds
    <3>2. CASE pc[s] \in {"get_args", "held_args"}
      <4>1. hand[s] \in Tasks
        BY <2>1, <3>2, Now DEF WithTask
      <4>2. hand[s] # t
        <5>1. "hand" \in Kinds /\ KindOf(pc[s]) = "hand"
          BY <3>2 DEF Kinds, KindOf, Carrying
        <5>2. ~Has(s, t, "hand")
          BY <1>5, <2>1, <5>1 DEF IsAt
        <5> QED BY <5>1, <5>2 DEF Has
      <4>3. Letter(s).body = hand[s]
        BY <3>2 DEF Letter
      <4> QED BY <3>1, <4>1, <4>2, <4>3
    <3>3. CASE pc[s] \notin {"get_args", "held_args"}
      <4>1. Letter(s).type # "enqueue"
        BY <2>3, <3>3 DEF Letter, Expecting
      <4> QED BY <3>1, <4>1
    <3> QED BY <3>2, <3>3
  <2> QED BY <2>2, <2>3, PendingSame
<1>9. ASSUME NEW a \in Nodes, NEW m \in Nodes, NEW vp \in WorkerVps
      PROVE  Debt(<<a, vp>>, m)' = Debt(<<a, vp>>, m)
  <2>1. PICK u : u = <<a, vp>>
    OBVIOUS
  <2>2. CASE u = c
    <3>1. Debt(u, m)' = <<>> /\ Debt(u, m) = <<>>
      BY <1>1, <1>2, <2>2 DEF Debt, Paying
    <3> QED BY <2>1, <3>1
  <2>3. CASE u # c /\ u \in Workers
    <3>1. u \in Threads
      BY <2>3, WorkerFacts DEF ShapeInv
    <3>2. ASSUME pc[u] = "send_results" PROVE parent'[hand[u]] = parent[hand[u]]
      <4>1. hand[u] \in Tasks /\ parent[hand[u]] \in Creators
        BY <3>1, <3>2, Now DEF PlaceInv, WithTask
      <4>2. parent[t] = NoThread /\ NoThread \notin Creators
        BY <1>1, ServerFacts DEF PlaceInv, Parented, ShapeInv
      <4> QED BY <1>3, <4>1, <4>2
    <3>3. Debt(u, m)' = Debt(u, m)
      BY <1>4, <2>3, <3>1, <3>2, DebtSame
    <3> QED BY <2>1, <3>3
  <2>4. CASE u \notin Workers
    <3>1. Debt(u, m)' = Debt(u, m)
      BY <2>4 DEF Debt, Same
    <3> QED BY <2>1, <3>1
  <2> QED BY <2>2, <2>3, <2>4
<1> HIDE DEF Old
<1>10. ASSUME NEW a \in Nodes, NEW m \in Nodes, NEW vp \in WorkerVps
       PROVE  Match(Announced(a, m, vp)', Owed(a, m, vp)', Heralds(m, vp)')
  <2>1. PICK s \in Servers : s = Server(m) /\ s = Server(m)'
    BY LinkFacts DEF Same, Server
  <2>2. PICK P : P = Pending(s, <<a, vp>>)
    OBVIOUS
  <2>3. P \in Seq(Old)
    <3>1. CASE pc[s] \in Expecting
      <4>1. PICK x \in Old : x = Letter(s)
        BY <1>8, <3>1
      <4>2. <<x>> \in Seq(Old) /\ <<>> \in Seq(Old)
        OBVIOUS
      <4>3. P = <<x>> \/ P = <<>>
        BY <2>2, <4>1 DEF Pending
      <4> QED BY <4>2, <4>3
    <3>2. CASE pc[s] \notin Expecting
      <4>1. P = <<>>
        BY <2>2, <3>2 DEF Pending
      <4> QED BY <4>1, EmptySeq
    <3> QED BY <3>1, <3>2
  <2>4. Announced(a, m, vp)' = Announced(a, m, vp)
    <3>1. Pending(Server(m), <<a, vp>>)' = Pending(s, <<a, vp>>)'
      BY <2>1 DEF Pending, Letter
    <3>2. Pending(s, <<a, vp>>)' = P
      BY <1>8, <2>2
    <3> QED BY <1>1, <2>1, <2>2, <3>1, <3>2 DEF Announced
  <2>5. Announced(a, m, vp) \in Seq(Old)
    BY <1>7, <2>1, <2>2, <2>3, ConcatProperties DEF Announced
  <2>6. Owed(a, m, vp)' = Owed(a, m, vp)
    BY <1>1, <1>9 DEF Owed
  <2>7. Match(Announced(a, m, vp), Owed(a, m, vp), Heralds(m, vp))
    BY DEF MatchInv
  <2>8. PICK B : B = Heralds(m, vp)'
    OBVIOUS
  <2>9. Match(Announced(a, m, vp), Owed(a, m, vp), B)
    BY <1>6, <2>5, <2>7, <2>8, MatchElements
  <2> QED BY <2>4, <2>6, <2>8, <2>9
<1>11. ASSUME NEW s \in Servers, pc'[s] \in Expecting
       PROVE  (Letter(s) \in Heralds(s[1], peer[s][2]))'
  <2>0. PICK a, b : a = s[1] /\ b = peer[s][2]
    OBVIOUS
  <2>1. PICK x \in Old : x = Letter(s) /\ x \in Heralds(a, b)
    BY <1>8, <1>11, <2>0 DEF MatchInv
  <2>2. x = Letter(s)' /\ b = peer'[s][2]
    BY <1>8, <2>0, <2>1
  <2>3. x \in Heralds(a, b)'
    BY <1>6, <2>1
  <2> QED BY <2>0, <2>1, <2>2, <2>3 DEF Heralds
<1>12. Nodes' = Nodes /\ Servers' = Servers /\ WorkerVps' = WorkerVps /\ address' = address
  BY <1>3 DEF Same
<1>13. address' \in [Servers -> Bodies]
  BY <1>12 DEF MatchInv
<1> QED BY <1>10, <1>11, <1>12, <1>13 DEF MatchInv

LEMMA MatchInit == ASSUME ClusterInit, PayloadsApart PROVE MatchInv
<1>1. ShapeInv
  BY ShapeInit
<1>2. address \in [Servers -> Bodies]
  <2>1. (CHOOSE a \in Variables : TRUE) \in Bodies
    BY BroadcastAssumption DEF Bodies
  <2> QED BY <2>1 DEF ClusterInit, BroadcastInit
<1>3. ASSUME NEW n \in Nodes, NEW m \in Nodes, NEW vp \in WorkerVps
      PROVE  Match(Announced(n, m, vp), Owed(n, m, vp), Heralds(m, vp))
  <2>1. chan[n][m][MaxNvps] = <<>> /\ chan[n][m][vp] = <<>>
    BY <1>1, LinkFacts DEF ClusterInit, Init
  <2>2. Pending(Server(m), <<n, vp>>) = <<>>
    <3>1. pc[Server(m)] = "serve"
      BY <1>1, ServerFacts DEF ClusterInit, Init, ShapeInv
    <3> QED BY <3>1 DEF Pending, Expecting
  <2>3. Debt(<<n, vp>>, m) = <<>>
    <3>1. PICK u : u = <<n, vp>>
      OBVIOUS
    <3>2. u \in Workers => pc[u] \in {"app", "poll"}
      BY <1>1, WorkerFacts, ServerFacts DEF ClusterInit, Init, ShapeInv
    <3>3. Debt(u, m) = <<>>
      BY <3>2 DEF Debt, Paying
    <3> QED BY <3>1, <3>3
  <2>4. Announced(n, m, vp) = <<>> /\ Owed(n, m, vp) = <<>>
    <3>1. <<>> \o <<>> = <<>>
      OBVIOUS
    <3> QED BY <2>1, <2>2, <2>3, <3>1 DEF Announced, Owed
  <2>5. \A A : Match(<<>>, <<>>, A)
    BY NumEmpty DEF Match
  <2> QED BY <2>4, <2>5
<1>4. \A s \in Servers : pc[s] \notin Expecting
  BY <1>1, ServerFacts DEF ClusterInit, Init, ShapeInv, Expecting
<1> QED BY <1>2, <1>3, <1>4 DEF MatchInv

LEMMA MatchSteps ==
  ASSUME ClusterInv, Same, MatchInv, UNCHANGED bvars
  PROVE  /\ \A c \in Creators : AppStep(c) => MatchInv'
         /\ \A w \in Workers, n \in Nodes : PrefetchRequest(w, n) => MatchInv'
         /\ \A th \in Threads : Step(th) => MatchInv'
<1>0. ShapeInv /\ PlaceInv
  BY DEF ClusterInv
<1>1. ASSUME NEW c \in Creators, AppStep(c) PROVE MatchInv'
  BY <1>0, <1>1, CreateMatches, CallMatches DEF AppStep
<1>2. ASSUME NEW w \in Workers, NEW n \in Nodes, PrefetchRequest(w, n) PROVE MatchInv'
  BY <1>0, <1>2, RequestMatches
<1>3. ASSUME NEW th \in Threads, Step(th) PROVE MatchInv'
  <2>1. ASSUME th \in Creators, Joined(th) \/ NotYet(th) \/ SendSwitch(th) PROVE MatchInv'
    BY <1>0, <2>1, CallMatches, SendSwitchMatches
  <2>2. ASSUME th \in Workers, Search(th) PROVE MatchInv'
    BY <1>0, <2>2, SearchMatches, RequestMatches, StealReplyMatches DEF Search
  <2>3. ASSUME th \in Servers, Serve(th) PROVE MatchInv'
    BY <1>0, <2>3, ServeEnqueueMatches, ServeAnswerMatches, ServeOtherMatches, ReceiveResultsMatches
       DEF Serve
  <2>4. ASSUME Communicate(th) PROVE MatchInv'
    BY <1>0, <2>4, SendDescriptorMatches, DirectSendMatches, SendArgumentsMatches,
       HoldForArgumentsMatches, ReceiveArgumentsMatches DEF Communicate
  <2>5. ASSUME RunTask(th) PROVE MatchInv'
    BY <1>0, <2>5, ExecuteMatches, SendAnswerMatches, SendResultsMatches DEF RunTask
  <2> QED BY <1>3, <2>1, <2>2, <2>3, <2>4, <2>5 DEF Step
<1> QED BY <1>1, <1>2, <1>3

LEMMA MatchStep ==
  ASSUME ClusterInv, MatchInv, [ClusterNext]_cvars
  PROVE  MatchInv'
<1>0. ShapeInv
  BY DEF ClusterInv
<1>1. CASE UNCHANGED cvars
  <2>1. UNCHANGED <<setup, chan, pc, hand, peer, parent, address>>
    BY <1>1 DEF cvars, vars, bvars
  <2>2. Same
    BY <2>1, SetupFixed
  <2>3. \A m, vp : Heralds(m, vp)' = Heralds(m, vp)
    BY <2>1, <2>2, HeraldsSame
  <2>4. /\ \A s, p : Pending(s, p)' = Pending(s, p)
        /\ \A s : Letter(s)' = Letter(s)
        /\ \A u, m : Debt(u, m)' = Debt(u, m)
    BY <2>1, <2>2, PendingSame, DebtSame
  <2>5. \A n, m, vp : Announced(n, m, vp)' = Announced(n, m, vp) /\ Owed(n, m, vp)' = Owed(n, m, vp)
    BY <2>1, <2>2, <2>4 DEF Announced, Owed, Server, Same
  <2> QED BY <2>1, <2>2, <2>3, <2>4, <2>5 DEF MatchInv, Same
<1>2. CASE ClusterNext
  <2>1. Same
    BY <1>2, SetupKept, SetupFixed
  <2>2. CASE Next /\ UNCHANGED bvars
    BY <2>1, <2>2, MatchSteps DEF Next
  <2>3. ASSUME NEW c \in Creators, NEW a \in Variables, NEW v \in Values, Broadcast(c, a, v) PROVE MatchInv'
    BY <1>0, <2>1, <2>3, BroadcastCallMatches
  <2>4. ASSUME NEW th \in Threads, BroadcastStep(th) PROVE MatchInv'
    <3>1. ASSUME th \in Creators, SkipOwn(th) \/ SendBroadcast(th) \/ Ssend(th) \/ SsendDone(th)
          PROVE  MatchInv'
      BY <1>0, <2>1, <3>1, NextNodeMatches, SendBroadcastMatches, SsendMatches
    <3>2. ASSUME th \in Servers, ReceiveData(th) \/ \E n \in Nodes : ServeBroadcast(th, n)
          PROVE  MatchInv'
      BY <1>0, <2>1, <3>2, ReceiveDataMatches, ServeBroadcastMatches
    <3> QED BY <2>4, <3>1, <3>2 DEF BroadcastStep
  <2> QED BY <1>2, <2>2, <2>3, <2>4 DEF ClusterNext
<1> QED BY <1>1, <1>2

(***************************************************************************)
(* What a thief gets is for the task that it has got.                      *)
(***************************************************************************)

(* The work and the arguments under way between a thief and a victim are of*)
(* one task.                                                               *)
OneLoad(w, k) ==
  \E t \in Tasks \cup {NoTask} :
    /\ \A i \in 1 .. Len(ToThief(w, k)) :
         ToThief(w, k)[i].type \in {"work", "argument"} => ToThief(w, k)[i].body = t
    /\ Due(w, k) => hand[w] = t
    /\ Owing(w, k) => hand[Server(k)] = t

LoadInv == \A w \in Workers, k \in Nodes : OneLoad(w, k)

LEMMA LoadInit ==
  ASSUME ClusterInit, PayloadsApart
  PROVE  LoadInv
<1>1. ShapeInv
  BY ShapeInit
<1>2. SUFFICES ASSUME NEW w \in Workers, NEW k \in Nodes PROVE OneLoad(w, k)
  BY DEF LoadInv
<1>3. ToThief(w, k) = <<>>
  BY <1>1, StealTypes DEF ClusterInit, Init, ToThief
<1>4. ~IsServer(w) /\ IsServer(Server(k)) /\ w \in Threads /\ Server(k) \in Threads
  BY <1>1, WorkerFacts, ServerFacts DEF ShapeInv
<1>5. ~Due(w, k) /\ ~Owing(w, k)
  BY <1>4 DEF ClusterInit, Init, RoleOf, Inside, InFirst, InSecond, Due, Owing, Plays
<1>6. Len(ToThief(w, k)) = 0
  BY <1>3
<1> QED BY <1>5, <1>6 DEF OneLoad

(* Between one thief and one victim nothing is added, and nobody begins to *)
(* owe or to expect arguments.                                             *)
LEMMA OneLoadKept ==
  ASSUME ShapeInv, Same, NEW w \in Workers, NEW k \in Nodes, OneLoad(w, k),
         \/ ToThief(w, k)' = ToThief(w, k)
         \/ ToThief(w, k) # <<>> /\ ToThief(w, k)' = Tail(ToThief(w, k)),
         Due(w, k)' => Due(w, k) /\ hand'[w] = hand[w],
         Owing(w, k)' => Owing(w, k) /\ hand'[Server(k)] = hand[Server(k)]
  PROVE  OneLoad(w, k)'
<1>1. PICK t \in Tasks \cup {NoTask} :
        /\ \A i \in 1 .. Len(ToThief(w, k)) :
             ToThief(w, k)[i].type \in {"work", "argument"} => ToThief(w, k)[i].body = t
        /\ Due(w, k) => hand[w] = t
        /\ Owing(w, k) => hand[Server(k)] = t
  BY DEF OneLoad
<1>2. PICK S : S = Messages(StealTag(w[2]))
  OBVIOUS
<1>3. PICK q, r : q = ToThief(w, k) /\ r = ToThief(w, k)' /\ q \in Seq(S)
  BY <1>2, StealTypes
<1>4. ASSUME NEW i \in 1 .. Len(r) PROVE \E j \in 1 .. Len(q) : r[i] = q[j]
  <2>1. CASE r = q
    BY <1>4, <2>1
  <2>2. CASE q # <<>> /\ r = Tail(q)
    <3>1. Len(r) = Len(q) - 1 /\ Len(q) \in Nat /\ r[i] = q[i + 1]
      BY <1>4, <2>2, HeadTailProperties
    <3>2. i + 1 \in 1 .. Len(q)
      BY <1>4, <3>1
    <3> QED BY <3>1, <3>2
  <2> QED BY <1>3, <2>1, <2>2
<1>5. \A i \in 1 .. Len(r) : r[i].type \in {"work", "argument"} => r[i].body = t
  BY <1>1, <1>3, <1>4
<1>6. Server(k)' = Server(k) /\ Tasks' = Tasks
  BY DEF Same, Server
<1>7. \A i \in 1 .. Len(ToThief(w, k)') :
        ToThief(w, k)'[i].type \in {"work", "argument"} => ToThief(w, k)'[i].body = t
  BY <1>3, <1>5
<1>8. (Due(w, k)' => hand'[w] = t) /\ (Owing(w, k)' => hand'[Server(k)'] = t)
  BY <1>1, <1>6
<1> HIDE DEF ToThief, Due, Owing, Server
<1> QED BY <1>7, <1>8 DEF OneLoad

(* Nothing is sent to a thief, nor taken by one.                           *)
ThiefMail == \A w \in Workers, k \in Nodes : ToThief(w, k)' = ToThief(w, k)

LEMMA ThiefMailSame == ASSUME UNCHANGED chan, Same PROVE ThiefMail
  BY DEF ThiefMail, ToThief

LEMMA ThiefMailSent ==
  ASSUME ShapeInv, Same, NEW n \in Nodes, NEW m \in Nodes, NEW tag \in WorkerVps \cup {MaxNvps},
         NEW msg \in Messages(tag), Post(n, m, tag, msg)
  PROVE  ThiefMail
<1>1. tag \in Tags /\ tag \notin StealTags
  BY TagFacts DEF ShapeInv
<1>2. \A a \in Nodes, b \in Nodes, g \in Tags : <<a, b, g>> # <<n, m, tag>> =>
        chan'[a][b][g] = chan[a][b][g]
  BY <1>1, PostEffect DEF ShapeInv
<1>3. ASSUME NEW w \in Workers, NEW k \in Nodes PROVE ToThief(w, k)' = ToThief(w, k)
  <2>1. w[1] \in Nodes /\ StealTag(w[2]) \in Tags /\ StealTag(w[2]) \in StealTags
    BY StealTypes
  <2>2. <<k, w[1], StealTag(w[2])>> # <<n, m, tag>>
    BY <1>1, <2>1
  <2> QED BY <1>2, <2>1, <2>2 DEF ToThief
<1> QED BY <1>3 DEF ThiefMail

LEMMA ThiefMailTaken ==
  ASSUME ShapeInv, Same, NEW n \in Nodes, NEW m \in Nodes, NEW tag \in WorkerVps \cup {MaxNvps},
         chan[n][m][tag] # <<>>, Take(n, m, tag)
  PROVE  ThiefMail
<1>1. tag \in Tags /\ tag \notin StealTags
  BY TagFacts DEF ShapeInv
<1>2. \A a \in Nodes, b \in Nodes, g \in Tags : <<a, b, g>> # <<n, m, tag>> =>
        chan'[a][b][g] = chan[a][b][g]
  BY <1>1, TakeEffect DEF ShapeInv
<1>3. ASSUME NEW w \in Workers, NEW k \in Nodes PROVE ToThief(w, k)' = ToThief(w, k)
  <2>1. w[1] \in Nodes /\ StealTag(w[2]) \in Tags /\ StealTag(w[2]) \in StealTags
    BY StealTypes
  <2>2. <<k, w[1], StealTag(w[2])>> # <<n, m, tag>>
    BY <1>1, <2>1
  <2> QED BY <1>2, <2>1, <2>2 DEF ToThief
<1> QED BY <1>3 DEF ThiefMail

(* The place that a thread goes to: it does not begin to owe arguments or  *)
(* to expect them from a victim.                                           *)
LoadPlaces == {"app", "send", "switch", "bcast", "offer", "ssend", "wait", "poll", "repoll", "ask",
               "reask", "await", "reawait", "held", "reheld", "execute", "run", "send_results",
               "serve", "push", "reply", "get_results", "get_data"}

LEMMA LoadStays ==
  ASSUME ShapeInv, Same, LoadInv, NEW th \in Threads, Alone(th), ThiefMail,
         \/ pc'[th] \in LoadPlaces
         \/ th \in Servers /\ pc'[th] \in {"get_args", "held_args"}
         \/ th \in Workers /\ pc'[th] = "send_args"
         \/ /\ th \in Workers /\ pc[th] = "get_args" /\ pc'[th] = "held_args"
            /\ peer'[th] = peer[th] /\ hand'[th] = hand[th]
  PROVE  LoadInv'
<1>0. Workers' = Workers /\ Nodes' = Nodes
  BY DEF Same
<1> SUFFICES ASSUME NEW w \in Workers, NEW k \in Nodes PROVE OneLoad(w, k)'
  BY <1>0 DEF LoadInv
<1>1. /\ w \in Threads /\ Server(k) \in Threads /\ Server(k) \in Servers /\ w \notin Servers
      /\ Server(k) \notin Workers
  BY StealTypes, ServerFacts DEF ShapeInv
<1>2. \A o \in Threads : o # th => hand'[o] = hand[o]
  BY AloneOthers DEF ShapeInv
<1>3. Due(w, k)' => Due(w, k) /\ hand'[w] = hand[w]
  <2>1. CASE th = w
    BY <1>1, <2>1, WorkerRole DEF LoadPlaces
  <2>2. CASE th # w
    BY <1>1, <1>2, <2>2, RolesOfOthers
  <2> QED BY <2>1, <2>2
<1>4. Owing(w, k)' => Owing(w, k) /\ hand'[Server(k)] = hand[Server(k)]
  <2>1. CASE th = Server(k)
    BY <1>1, <2>1, ServerRole DEF LoadPlaces
  <2>2. CASE th # Server(k)
    BY <1>1, <1>2, <2>2, RolesOfOthers
  <2> QED BY <2>1, <2>2
<1>5. ToThief(w, k)' = ToThief(w, k) /\ OneLoad(w, k)
  BY DEF ThiefMail, LoadInv
<1> QED BY <1>3, <1>4, <1>5, OneLoadKept

(***************************************************************************)
(* The steps that have nothing to do with a broadcast, nor with the mail   *)
(* between a thief and a victim.                                           *)
(***************************************************************************)
InBroadcast == {"bcast", "offer", "ssend"}
Broadcasting == InBroadcast \cup {"get_data"}
OfBroadcast == {"bcast", "data"}
OwnTags == WorkerVps \cup {MaxNvps}

PlainMail(T) ==
  \/ UNCHANGED chan
  \/ \E n \in Nodes, m \in Nodes, tag \in T : \E msg \in Messages(tag) :
       msg.type \notin OfBroadcast /\ Post(n, m, tag, msg)
  \/ \E n \in Nodes, m \in Nodes, tag \in T :
       /\ chan[n][m][tag] # <<>> /\ Take(n, m, tag)
       /\ Head(chan[n][m][tag]).type \notin OfBroadcast

Plain(th, T) ==
  /\ th \in Threads /\ Alone(th) /\ PlainMail(T)
  /\ pc[th] \notin Broadcasting /\ pc'[th] \notin Broadcasting

(* th does not begin to owe arguments to a thief, or to expect them.       *)
Aloof(th) ==
  \/ pc'[th] \in LoadPlaces
  \/ th \in Servers /\ pc'[th] \in {"get_args", "held_args"}
  \/ th \in Workers /\ pc'[th] = "send_args"
  \/ /\ th \in Workers /\ pc[th] = "get_args" /\ pc'[th] = "held_args"
     /\ peer'[th] = peer[th] /\ hand'[th] = hand[th]

Quiets(th) == Plain(th, OwnTags) /\ Aloof(th)

LEMMA OwnTagFacts ==
  ASSUME ShapeInv
  PROVE  MaxNvps \in OwnTags /\ OwnTags \subseteq Tags /\ StealTags \subseteq Tags
         /\ \A c \in Workers : c[2] \in OwnTags /\ c[2] \in Tags
BY TagFacts, WorkerFacts DEF ShapeInv, OwnTags, WorkerVps

LEMMA PlainOn ==
  ASSUME ShapeInv, NEW th, Plain(th, OwnTags)
  PROVE  Plain(th, Tags)
BY OwnTagFacts DEF Plain, PlainMail

LEMMA QuietsLoad ==
  ASSUME ShapeInv, Same, LoadInv, NEW th, Quiets(th)
  PROVE  LoadInv'
<1>1. ThiefMail
  <2>1. CASE UNCHANGED chan
    BY <2>1, ThiefMailSame
  <2>2. ASSUME NEW n \in Nodes, NEW m \in Nodes, NEW tag \in OwnTags, NEW msg \in Messages(tag),
               Post(n, m, tag, msg)
        PROVE  ThiefMail
    BY <2>2, ThiefMailSent DEF OwnTags
  <2>3. ASSUME NEW n \in Nodes, NEW m \in Nodes, NEW tag \in OwnTags, chan[n][m][tag] # <<>>,
               Take(n, m, tag)
        PROVE  ThiefMail
    BY <2>3, ThiefMailTaken DEF OwnTags
  <2> QED BY <2>1, <2>2, <2>3 DEF Quiets, Plain, PlainMail
<1> QED BY <1>1, LoadStays DEF Quiets, Plain, Aloof

LEMMA CallQuiet ==
  ASSUME ShapeInv, Same, NEW c \in Creators, UNCHANGED bvars,
         \/ WaitAll(c) \/ Joined(c) \/ NotYet(c) \/ SendSwitch(c)
         \/ \E call \in SwitchCalls \cup LocalCalls : SwitchCall(c, call)
  PROVE  Quiets(c)
<1>1. Alone(c) /\ c \in Threads
  BY WaitShape, SwitchCallShape, SendSwitchShape
<1>2. PlainMail(OwnTags)
  <2>1. ~SendSwitch(c) => UNCHANGED chan
    BY DEF WaitAll, Joined, NotYet, SwitchCall, Application
  <2>2. ASSUME SendSwitch(c)
        PROVE  \/ UNCHANGED chan
               \/ \E n \in Nodes, msg \in Messages(MaxNvps) :
                    msg.type \in SwitchCalls /\ Post(c[1], n, MaxNvps, msg)
    BY <2>2, SendSwitchShape
  <2>3. c[1] \in Nodes
    BY WorkerFacts DEF ShapeInv
  <2> QED BY <2>1, <2>2, <2>3, OwnTagFacts DEF PlainMail, OfBroadcast, SwitchCalls
<1>3. pc[c] \in {"app", "wait", "switch"} /\ pc'[c] \in {"wait", "app", "poll", "switch"}
  <2>1. CASE SendSwitch(c)
    <3>1. pc'[c] \in {"switch", "app"}
      BY <2>1, SendSwitchShape
    <3> QED BY <2>1, <3>1 DEF SendSwitch
  <2>2. CASE ~SendSwitch(c)
    <3>1. /\ pc[c] \in {"app", "wait"}
          /\ UNCHANGED pc \/ \E q \in {"wait", "app", "poll", "switch"} : Goto(c, q)
      BY <2>2 DEF WaitAll, Joined, NotYet, SwitchCall
    <3> QED BY <1>1, <3>1, WentTo
  <2> QED BY <2>1, <2>2
<1> QED BY <1>1, <1>2, <1>3 DEF Quiets, Plain, Aloof, LoadPlaces, Broadcasting, InBroadcast

LEMMA CreateQuiet ==
  ASSUME ShapeInv, Same, NEW c \in Creators, NEW t \in Tasks, NEW n \in Nodes,
         NEW call \in {"task", "task_direct"}, Create(c, t, n, call), UNCHANGED bvars
  PROVE  Quiets(c)
<1>1. Alone(c) /\ c \in Threads /\ pc[c] = "app" /\ UNCHANGED chan
  BY CreateShape DEF Create
<1>2. pc'[c] \in {"app", "send"}
  <2>1. UNCHANGED pc \/ Goto(c, "send")
    BY DEF Create
  <2> QED BY <1>1, <2>1, WentTo
<1> QED BY <1>1, <1>2 DEF Quiets, Plain, PlainMail, Aloof, LoadPlaces, Broadcasting, InBroadcast

LEMMA SearchQuiet ==
  ASSUME ShapeInv, Same, NEW w \in Workers, UNCHANGED bvars,
         \/ TakeLocal(w) \/ NothingHere(w) \/ HoldForReply(w) \/ StartRound(w)
         \/ StealRequest(w) \/ \E n \in Nodes : PrefetchRequest(w, n)
  PROVE  Quiets(w)
<1>1. CASE TakeLocal(w) \/ NothingHere(w) \/ HoldForReply(w) \/ StartRound(w)
  <2>1. Alone(w) /\ w \in Threads
    BY <1>1, TakeLocalShape, SearchShape, StartRoundShape
  <2>2. UNCHANGED chan
    BY <1>1 DEF TakeLocal, NothingHere, HoldForReply, StartRound
  <2>3. /\ pc[w] \in {"poll", "repoll", "await", "reawait"}
        /\ \E q \in {"execute", "wait", "repoll", "held", "reheld", "ask", "reask"} : Goto(w, q)
    BY <1>1 DEF TakeLocal, NothingHere, HoldForReply, StartRound, AfterSearch
  <2>4. pc'[w] \in {"execute", "wait", "repoll", "held", "reheld", "ask", "reask"}
    BY <2>1, <2>3, WentTo
  <2> QED BY <2>1, <2>2, <2>3, <2>4
          DEF Quiets, Plain, PlainMail, Aloof, LoadPlaces, Broadcasting, InBroadcast
<1>2. ASSUME StealRequest(w) \/ \E n \in Nodes : PrefetchRequest(w, n) PROVE Quiets(w)
  <2>0. PICK k \in Nodes : k = peer[w][1]
    BY Now
  <2>1. /\ Alone(w) /\ w \in Threads
        /\ \E n \in Nodes, msg \in Messages(MaxNvps) :
             msg.type \in {"steal", "prefetch"} /\ Post(w[1], n, MaxNvps, msg)
    <3>1. ASSUME StealRequest(w)
          PROVE  /\ Alone(w) /\ w \in Threads
                 /\ \E msg \in Messages(MaxNvps) : msg.type = "steal" /\ Post(w[1], k, MaxNvps, msg)
      BY <2>0, <3>1, StealRequestShape
    <3>2. ASSUME NEW n \in Nodes, PrefetchRequest(w, n)
          PROVE  /\ Alone(w) /\ w \in Threads
                 /\ \E msg \in Messages(MaxNvps) : msg.type = "prefetch" /\ Post(w[1], n, MaxNvps, msg)
      BY <3>2, PrefetchRequestShape
    <3> QED BY <1>2, <3>1, <3>2
  <2>2. pc[w] \in {"ask", "reask", "poll", "repoll"} /\ pc'[w] \in {"await", "reawait", "poll", "repoll"}
    <3>1. StealRequest(w) => pc[w] \in {"ask", "reask"} /\ pc'[w] \in {"await", "reawait"}
      BY StealRequestShape DEF StealRequest
    <3>2. ASSUME NEW n \in Nodes, PrefetchRequest(w, n) PROVE pc[w] \in {"poll", "repoll"} /\ UNCHANGED pc
      BY <3>2 DEF PrefetchRequest
    <3> QED BY <1>2, <3>1, <3>2
  <2>3. w[1] \in Nodes
    BY WorkerFacts DEF ShapeInv
  <2>4. PlainMail(OwnTags)
    BY <2>1, <2>3, OwnTagFacts DEF PlainMail, OfBroadcast
  <2> QED BY <2>1, <2>2, <2>4 DEF Quiets, Plain, Aloof, LoadPlaces, Broadcasting, InBroadcast
<1> QED BY <1>1, <1>2

LEMMA SendDescriptorQuiet ==
  ASSUME ShapeInv, Same, NEW th \in Threads, SendDescriptor(th), UNCHANGED bvars
  PROVE  Quiets(th)
<1>d. pc[th] \in {"send", "push"}
  BY DEF SendDescriptor
<1>0. PICK n \in Nodes, t \in Tasks : n = peer[th][1] /\ t = hand[th]
  BY <1>d, Now DEF WithTask
<1>1. /\ Alone(th)
      /\ \E msg \in Messages(MaxNvps) :
           msg.type \in {"enqueue", "enqueue_private"} /\ Post(th[1], n, MaxNvps, msg)
      /\ \/ pc'[th] = AfterSend(th)
         \/ pc'[th] = "send_args" /\ th \in Workers
  BY <1>0, SendDescriptorShape
<1>2. th[1] \in Nodes
  BY Now
<1>3. PlainMail(OwnTags)
  BY <1>1, <1>2, OwnTagFacts DEF PlainMail, OfBroadcast
<1>4. Aloof(th) /\ pc'[th] \notin Broadcasting
  BY <1>1 DEF Aloof, AfterSend, LoadPlaces, Broadcasting, InBroadcast
<1> QED BY <1>d, <1>1, <1>3, <1>4 DEF Quiets, Plain, Broadcasting, InBroadcast

LEMMA HoldForArgumentsQuiet ==
  ASSUME ShapeInv, Same, NEW th \in Threads, HoldForArguments(th), UNCHANGED bvars
  PROVE  Quiets(th)
<1>1. /\ Alone(th) /\ pc[th] = "get_args" /\ pc'[th] = "held_args" /\ peer'[th] = peer[th]
      /\ hand'[th] = hand[th]
  BY HoldForArgumentsShape DEF HoldForArguments
<1>2. UNCHANGED chan /\ (th \in Workers \/ th \in Servers)
  BY ServerFacts DEF HoldForArguments, ShapeInv
<1> QED BY <1>1, <1>2 DEF Quiets, Plain, PlainMail, Aloof, Broadcasting, InBroadcast

LEMMA RunQuiet ==
  ASSUME ShapeInv, Same, PlaceInv, NEW th \in Threads, UNCHANGED bvars,
         Execute(th) \/ ReturnHome(th) \/ SendAnswer(th) \/ SendResults(th)
  PROVE  Quiets(th)
<1>0. th[1] \in Nodes
  BY Now
<1>1. CASE Execute(th)
  <2>1. Alone(th) /\ pc[th] = "execute" /\ pc'[th] = "run" /\ UNCHANGED chan
    BY <1>1, ExecuteShape DEF Execute
  <2> QED BY <2>1 DEF Quiets, Plain, PlainMail, Aloof, LoadPlaces, Broadcasting, InBroadcast
<1>2. CASE ReturnHome(th)
  <2>0. PICK t \in Tasks : t = hand[th]
    BY <1>2, Now DEF ReturnHome, WithTask
  <2>1. Alone(th) /\ pc[th] = "run" /\ pc'[th] \in {"serve", "wait", "poll"} /\ UNCHANGED chan
    BY <1>2, <2>0, ReturnHomeShape DEF ReturnHome
  <2> QED BY <2>1 DEF Quiets, Plain, PlainMail, Aloof, LoadPlaces, Broadcasting, InBroadcast
<1>3. CASE SendAnswer(th)
  <2>0. PICK t \in Tasks : t = hand[th]
    BY <1>3, Now DEF SendAnswer, WithTask
  <2>a. PICK h \in Nodes : h = Home(t)
    BY <1>3, <2>0, AtHome DEF SendAnswer
  <2>1. /\ Alone(th) /\ pc[th] = "run"
        /\ \E msg \in Messages(MaxNvps) : msg.type = "answer" /\ Post(th[1], h, MaxNvps, msg)
        /\ pc'[th] \in {"serve", "wait", "poll", "send_results"}
    BY <1>3, <2>0, <2>a, SendAnswerShape
  <2>2. PlainMail(OwnTags)
    BY <1>0, <2>1, OwnTagFacts DEF PlainMail, OfBroadcast
  <2> QED BY <2>1, <2>2 DEF Quiets, Plain, Aloof, LoadPlaces, Broadcasting, InBroadcast
<1>4. CASE SendResults(th)
  <2>0. PICK t \in Tasks : t = hand[th]
    BY <1>4, Now DEF SendResults, WithTask
  <2>a. PICK h \in Nodes : h = Home(t)
    BY <1>4, <2>0, AtHome DEF SendResults
  <2>1. /\ Alone(th) /\ pc[th] = "send_results" /\ pc'[th] \in {"wait", "poll"} /\ th \in Workers
        /\ \E msg \in Messages(th[2]) : msg.type = "result" /\ Post(th[1], h, th[2], msg)
    BY <1>4, <2>0, <2>a, SendResultsShape
  <2>2. PICK tag \in OwnTags : tag = th[2]
    BY <2>1, OwnTagFacts
  <2>3. PlainMail(OwnTags)
    BY <1>0, <2>1, <2>2 DEF PlainMail, OfBroadcast
  <2> QED BY <2>1, <2>3 DEF Quiets, Plain, Aloof, LoadPlaces, Broadcasting, InBroadcast
<1> QED BY <1>1, <1>2, <1>3, <1>4

(* The server.                                                             *)
LEMMA ServedPlain ==
  ASSUME ShapeInv, Same, NEW s \in Servers, NEW n \in Nodes, NEW type, Serves(s, n, type),
         type \notin OfBroadcast
  PROVE  PlainMail(OwnTags) /\ pc[s] = "serve" /\ s \in Threads
<1>1. PICK msg : msg = Head(chan[n][s[1]][MaxNvps])
  OBVIOUS
<1>2. /\ s \in Threads /\ s[1] \in Nodes /\ pc[s] = "serve" /\ msg.type = type
      /\ chan[n][s[1]][MaxNvps] # <<>> /\ Take(n, s[1], MaxNvps)
  BY <1>1, ServesEffect
<1> QED BY <1>1, <1>2, OwnTagFacts DEF PlainMail

LEMMA ServeQuiet ==
  ASSUME ShapeInv, Same, NEW s \in Servers, NEW n \in Nodes, UNCHANGED bvars,
         \/ \E type \in {"enqueue", "enqueue_private"} : ServeEnqueue(s, n, type)
         \/ ServeAnswer(s, n) \/ ServeSteal(s, n) \/ ServePrefetch(s, n)
         \/ \E call \in SwitchCalls : ServeSwitch(s, n, call)
  PROVE  Quiets(s)
<1>0. PICK msg, t : msg = Head(chan[n][s[1]][MaxNvps]) /\ t = msg.body
  OBVIOUS
<1>1. ASSUME NEW type \in {"enqueue", "enqueue_private"}, ServeEnqueue(s, n, type) PROVE Quiets(s)
  <2>1. Serves(s, n, type) /\ type \notin OfBroadcast
    BY <1>1 DEF ServeEnqueue, OfBroadcast
  <2>2. PlainMail(OwnTags) /\ pc[s] = "serve" /\ s \in Threads
    BY <2>1, ServedPlain
  <2>3. /\ Alone(s) /\ t \in Tasks
        /\ \/ /\ public' = [public EXCEPT ![s[1]] = <<t>> \o @]
              /\ UNCHANGED <<pc, hand, peer, private>>
           \/ UNCHANGED peer /\ \E b \in BOOLEAN : Enqueued(s, t, b)
           \/ /\ pc'[s] = "get_args" /\ hand'[s] = t /\ peer'[s] = <<n, msg.vp>> /\ UNCHANGED Queues
              /\ type = "enqueue" /\ Home(t) # s[1] /\ ArgMsgs # 0
    BY <1>0, <1>1, ServeEnqueueShape
  <2>4. pc'[s] \in {"serve", "execute", "get_args"}
    BY <2>2, <2>3, EnqueuedFits
  <2> QED BY <2>2, <2>3, <2>4 DEF Quiets, Plain, Aloof, LoadPlaces, Broadcasting, InBroadcast
<1>2. ASSUME ServeAnswer(s, n) PROVE Quiets(s)
  <2>1. Serves(s, n, "answer") /\ "answer" \notin OfBroadcast
    BY <1>2 DEF ServeAnswer, OfBroadcast
  <2>2. PlainMail(OwnTags) /\ pc[s] = "serve" /\ s \in Threads
    BY <2>1, ServedPlain
  <2>3. Alone(s) /\ (UNCHANGED pc \/ pc'[s] = "get_results")
    BY <1>0, <1>2, ServeAnswerShape
  <2> QED BY <2>2, <2>3 DEF Quiets, Plain, Aloof, LoadPlaces, Broadcasting, InBroadcast
<1>3. ASSUME ServeSteal(s, n) \/ ServePrefetch(s, n) \/ \E call \in SwitchCalls : ServeSwitch(s, n, call)
      PROVE  Quiets(s)
  <2>1. PICK type \in {"steal", "prefetch"} \cup SwitchCalls : Serves(s, n, type)
    BY <1>3 DEF ServeSteal, ServePrefetch, ServeSwitch
  <2>2. type \notin OfBroadcast
    BY <2>1 DEF OfBroadcast, SwitchCalls
  <2>3. PlainMail(OwnTags) /\ pc[s] = "serve" /\ s \in Threads
    BY <2>1, <2>2, ServedPlain
  <2>4. Alone(s)
    BY <1>0, <1>3, ServeStealShape, ServePrefetchShape, ServeSwitchShape
  <2>5. pc'[s] \in {"serve", "reply", "push"}
    <3>1. UNCHANGED pc \/ \E q \in {"reply", "push"} : Goto(s, q)
      BY <1>3 DEF ServeSteal, ServePrefetch, ServeSwitch
    <3> QED BY <2>3, <3>1, WentTo
  <2> QED BY <2>3, <2>4, <2>5 DEF Quiets, Plain, Aloof, LoadPlaces, Broadcasting, InBroadcast
<1> QED BY <1>1, <1>2, <1>3

(* The payload that a server gets is the one that it waits for.            *)
LEMMA PayloadComes ==
  ASSUME ShapeInv, MatchInv, NEW s \in Servers, NEW k \in Nodes, NEW tag \in WorkerVps,
         peer[s] = <<k, tag>>, pc[s] \in Expecting, chan[k][s[1]][tag] # <<>>
  PROVE  Fit(Letter(s), Head(chan[k][s[1]][tag]))
<1>1. s = Server(s[1]) /\ s[1] \in Nodes
  BY ServerFacts DEF ShapeInv
<1>2. PICK m \in Nodes : m = s[1] /\ s = Server(m)
  BY <1>1
<1>a. PICK P, D, C, L, A : /\ P = Pending(Server(m), <<k, tag>>) /\ D = Debt(<<k, tag>>, m)
                           /\ C = chan[k][m][MaxNvps] /\ L = chan[k][m][tag] /\ A = Heralds(m, tag)
  OBVIOUS
<1>3. /\ P \in Seq(AnyMessage) /\ D \in Seq(AnyMessage) /\ C \in Seq(AnyMessage) /\ L \in Seq(AnyMessage)
      /\ P \o C \in Seq(AnyMessage) /\ L \o D \in Seq(AnyMessage)
  BY <1>a, LinkFacts, LinkSeqs, ConcatProperties
<1>4. Match(P \o C, L \o D, A)
  BY <1>a DEF MatchInv, Announced, Owed
<1>5. PICK z : z = Letter(s)
  OBVIOUS
<1>6. z \in A /\ z \in AnyMessage
  <2>1. z \in Heralds(s[1], peer[s][2])
    BY <1>5 DEF MatchInv
  <2>2. peer[s][2] = tag
    OBVIOUS
  <2>3. z \in Heralds(m, tag)
    BY <1>2, <2>1, <2>2
  <2> QED BY <1>a, <2>3 DEF Heralds
<1>7. P = <<z>>
  BY <1>2, <1>a, <1>5 DEF Pending
<1>8. P \o C # <<>> /\ Head(P \o C) = z
  BY <1>3, <1>6, <1>7, EdgeFacts
<1>9. Fit(z, Head(L \o D))
  BY <1>3, <1>4, <1>6, <1>8, MatchHead
<1>10. L # <<>> /\ Head(L \o D) = Head(L)
  <2>1. L # <<>>
    BY <1>2, <1>a
  <2>2. CASE D = <<>>
    BY <1>3, <2>1, <2>2, ConcatEmptySeq
  <2>3. CASE D # <<>>
    <3>1. 1 \in 1 .. Len(L) /\ Head(L) = L[1] /\ L \o D # <<>> /\ Head(L \o D) = (L \o D)[1]
      BY <1>3, <2>1, EmptySeq, ConcatProperties
    <3> QED BY <1>3, <2>1, <3>1, ConcatProperties
  <2> QED BY <2>1, <2>2, <2>3
<1> QED BY <1>2, <1>5, <1>9, <1>10, <1>a

(* The steps that send something to a thief, or take it.                   *)
LEMMA ReceiveResultsQuiet ==
  ASSUME ShapeInv, Same, MatchInv, NEW s \in Servers, ReceiveResults(s), UNCHANGED bvars
  PROVE  Quiets(s)
<1>a. s \in Threads /\ pc[s] = "get_results"
  BY ServerFacts DEF ShapeInv, ReceiveResults
<1>0. PICK n \in Nodes, tag \in Tags, t \in Tasks : n = peer[s][1] /\ tag = peer[s][2] /\ t = hand[s]
  BY <1>a, Now DEF WithTask
<1>1. /\ Alone(s) /\ tag \in WorkerVps /\ pc'[s] = "serve"
      /\ chan[n][s[1]][tag] # <<>> /\ Take(n, s[1], tag)
  BY <1>0, ReceiveResultsShape
<1>2. peer[s] = <<n, tag>> /\ s[1] \in Nodes
  <2>1. peer[s] \in Nodes \X Tags /\ s[1] \in Nodes
    BY <1>a, Now
  <2> QED BY <1>0, <2>1
<1>3. Fit(Letter(s), Head(chan[n][s[1]][tag]))
  BY <1>a, <1>1, <1>2, PayloadComes DEF Expecting
<1>4. Head(chan[n][s[1]][tag]).type = "result"
  <2>1. Letter(s).type = "answer"
    BY <1>a DEF Letter
  <2> QED BY <1>3, <2>1 DEF Fit
<1>5. PlainMail(OwnTags)
  BY <1>1, <1>2, <1>4 DEF PlainMail, OwnTags, OfBroadcast
<1> QED BY <1>a, <1>1, <1>5 DEF Quiets, Plain, Aloof, LoadPlaces, Broadcasting, InBroadcast

LEMMA StealReplyPlain ==
  ASSUME ShapeInv, Same, LoadInv, StealInv, NEW w \in Workers, StealReply(w), UNCHANGED bvars
  PROVE  Plain(w, Tags) /\ LoadInv'
<1>0. PICK k \in Nodes : k = peer[w][1]
  BY Now, WorkerFacts DEF ShapeInv
<1>t. PICK tag \in StealTags : tag = StealTag(w[2])
  BY SMTT(30), StealTypes
<1>m. PICK msg : msg = Head(chan[k][w[1]][tag])
  BY SMTT(30)
<1>1. /\ Alone(w) /\ w \in Threads /\ pc[w] \in Inside /\ peer[w][2] = tag
      /\ chan[k][w[1]][tag] # <<>> /\ Take(k, w[1], tag)
      /\ \/ /\ msg.type = "work" /\ hand'[w] = msg.body /\ peer'[w] = peer[w]
            /\ pc'[w] = IF Home(msg.body) = w[1] \/ ArgMsgs = 0 THEN "execute" ELSE "get_args"
         \/ /\ msg.type # "work" /\ hand'[w] = hand[w]
            /\ pc'[w] \in {"wait", "repoll", "reask", "ask"}
  <2>1. /\ Alone(w) /\ w \in Threads
        /\ pc[w] \in Inside /\ peer[w][2] = StealTag(w[2])
        /\ chan[k][w[1]][StealTag(w[2])] # <<>> /\ Take(k, w[1], StealTag(w[2]))
        /\ LET z == Head(chan[k][w[1]][StealTag(w[2])]) IN
           \/ /\ z.type = "work" /\ hand'[w] = z.body /\ peer'[w] = peer[w]
              /\ pc'[w] = IF Home(z.body) = w[1] \/ ArgMsgs = 0 THEN "execute" ELSE "get_args"
           \/ /\ z.type # "work" /\ hand'[w] = hand[w]
              /\ pc'[w] \in {"wait", "repoll", "reask", "ask"}
    BY <1>0, StealReplyShape
  <2> QED BY <1>t, <1>m, <2>1
<1>2. /\ w[1] \in Nodes /\ peer[w] = <<k, tag>> /\ tag \in Tags /\ SetupInv /\ Channels /\ w \notin Servers
      /\ StealTags \subseteq Tags
  BY <1>0, <1>t, <1>1, StealTypes, WorkerPeer, OwnTagFacts, ServerFacts DEF ShapeInv
<1>3. msg \in Messages(tag) /\ msg.type \in {"work", "no_work", "argument"}
  <2>1. msg \in Messages(tag)
    BY <1>m, <1>1, <1>2, ChannelCounts
  <2> QED BY <2>1, LoadFacts
<1>4. Plain(w, Tags)
  <2>1. PlainMail(Tags)
    BY <1>m, <1>1, <1>2, <1>3 DEF PlainMail, OfBroadcast
  <2> QED BY <1>1, <2>1 DEF Plain, Broadcasting, InBroadcast, Inside, InFirst, InSecond
<1>5. chan'[k][w[1]][tag] = Tail(chan[k][w[1]][tag])
  BY <1>1, <1>2, TakeEffect
<1>6. \A v \in Workers, j \in Nodes : ~(v[1] = w[1] /\ StealTag(v[2]) = tag /\ j = k) =>
        ToThief(v, j)' = ToThief(v, j)
  BY SMTT(30), <1>1, <1>2, <1>m, ThiefTake
<1>7. ASSUME NEW v \in Workers, NEW j \in Nodes PROVE OneLoad(v, j)'
  <2>1. OneLoad(v, j) /\ Server(j) # w /\ Server(j) \in Threads /\ v \in Threads
    BY <1>2, StealTypes DEF LoadInv
  <2>2. Owing(v, j)' => Owing(v, j) /\ hand'[Server(j)] = hand[Server(j)]
    BY <1>1, <2>1, RolesOfOthers, AloneOthers DEF ShapeInv
  <2>3. CASE v # w
    <3>1. Due(v, j)' => Due(v, j) /\ hand'[v] = hand[v]
      BY <1>1, <2>1, <2>3, RolesOfOthers, AloneOthers DEF ShapeInv
    <3>2. ~(v[1] = w[1] /\ StealTag(v[2]) = tag /\ j = k)
      BY <1>t, <2>3, OneThief
    <3>3. ToThief(v, j)' = ToThief(v, j)
      BY <1>6, <3>2
    <3> QED BY <2>1, <2>2, <3>1, <3>3, OneLoadKept
  <2>4. CASE v = w /\ j # k
    <3>1. ~Due(w, j)'
      <4>1. <<k, tag>> # <<j, tag>>
        BY <2>4
      <4>2. pc'[w] \in {"get_args", "held_args"} => peer'[w] = <<k, tag>>
        BY <1>1, <1>2
      <4> QED BY <1>t, <4>1, <4>2, WorkerRole
    <3>2. ToThief(v, j)' = ToThief(v, j)
      BY <1>6, <2>4
    <3> QED BY <2>1, <2>2, <2>4, <3>1, <3>2, OneLoadKept
  <2>5. CASE v = w /\ j = k
    <3>1. ToThief(w, k) # <<>> /\ ToThief(w, k)' = Tail(ToThief(w, k)) /\ msg = Head(ToThief(w, k))
      BY <1>t, <1>m, <1>1, <1>5 DEF ToThief
    <3>2. CASE msg.type # "work"
      <4>1. ~Due(w, k)'
        BY <1>1, <3>2, WorkerRole
      <4> QED BY <2>1, <2>2, <2>5, <3>1, <4>1, OneLoadKept
    <3>3. CASE msg.type = "work"
      <4>1. PICK t \in Tasks \cup {NoTask} :
              /\ \A i \in 1 .. Len(ToThief(w, k)) :
                   ToThief(w, k)[i].type \in {"work", "argument"} => ToThief(w, k)[i].body = t
              /\ Owing(w, k) => hand[Server(k)] = t
        BY <2>1, <2>5 DEF OneLoad
      <4>2. PICK q, r : q = ToThief(w, k) /\ r = ToThief(w, k)' /\ q \in Seq(Messages(StealTag(w[2])))
        BY StealTypes
      <4>3. /\ q # <<>> /\ r = Tail(q) /\ msg = Head(q)
            /\ \A i \in 1 .. Len(q) : q[i].type \in {"work", "argument"} => q[i].body = t
        BY <3>1, <4>1, <4>2
      <4>4. msg.body = t
        <5>1. 1 \in 1 .. Len(q) /\ Head(q) = q[1]
          BY <4>2, <4>3, EmptySeq
        <5> QED BY <3>3, <4>3, <5>1
      <4>5. \A i \in 1 .. Len(r) : r[i].type \in {"work", "argument"} => r[i].body = t
        <5> SUFFICES ASSUME NEW i \in 1 .. Len(r), r[i].type \in {"work", "argument"} PROVE r[i].body = t
          OBVIOUS
        <5>1. Len(r) = Len(q) - 1 /\ Len(q) \in Nat /\ r[i] = q[i + 1]
          BY <4>2, <4>3, HeadTailProperties
        <5>2. i + 1 \in 1 .. Len(q)
          BY <5>1
        <5> QED BY <4>3, <5>1, <5>2
      <4>6. hand'[w] = t
        BY <1>1, <3>3, <4>4
      <4>7. Owing(w, k)' => hand'[Server(k)] = t
        BY <2>2, <2>5, <4>1
      <4>8. Server(k)' = Server(k) /\ Tasks' = Tasks
        BY DEF Same, Server
      <4>9. \A i \in 1 .. Len(ToThief(w, k)') :
              ToThief(w, k)'[i].type \in {"work", "argument"} => ToThief(w, k)'[i].body = t
        BY <4>2, <4>5
      <4>10. /\ Due(w, k)' => hand'[w] = t
             /\ Owing(w, k)' => hand'[Server(k)'] = t
        BY <4>6, <4>7, <4>8
      <4> HIDE DEF ToThief, Due, Owing, Server
      <4> QED BY <2>5, <4>9, <4>10 DEF OneLoad
    <3> QED BY <3>2, <3>3
  <2> QED BY <2>3, <2>4, <2>5
<1>8. Workers' = Workers /\ Nodes' = Nodes
  BY DEF Same
<1> QED BY <1>4, <1>7, <1>8 DEF LoadInv

LEMMA DirectSendPlain ==
  ASSUME ShapeInv, Same, LoadInv, StealInv, NEW s \in Threads, DirectSendDescriptor(s), UNCHANGED bvars
  PROVE  Plain(s, Tags) /\ LoadInv'
<1>0. PICK n \in Nodes, tag \in Tags, t \in Tasks \cup {NoTask} : n = peer[s][1] /\ tag = peer[s][2] /\ t = hand[s]
  BY Now
<1>1. /\ Alone(s) /\ pc[s] = "reply" /\ s \in Servers /\ tag \in StealTags /\ peer'[s] = peer[s]
      /\ \/ (t = NoTask \/ ArgMsgs = 0 \/ Home(t) = n) /\ pc'[s] = "serve"
         \/ t \in Tasks /\ Home(t) # n /\ ArgMsgs # 0 /\ pc'[s] = "send_args" /\ hand'[s] = t
  BY <1>0, DirectSendShape
<1>2. PICK msg \in Messages(tag) : /\ msg.type = (IF t = NoTask THEN "no_work" ELSE "work") /\ msg.body = t
                                   /\ Post(s[1], n, tag, msg)
  BY <1>0, DirectSendShape
<1>3. PICK k \in Nodes : k = s[1] /\ s = Server(k)
  BY <1>1, ServerFacts DEF ShapeInv
<1>4. SetupInv /\ peer[s] = <<n, tag>> /\ s \notin Workers
  <2>1. peer[s] \in Nodes \X Tags
    BY Now
  <2> QED BY <1>0, <1>1, <2>1, ServerFacts DEF ShapeInv
<1>5. Plain(s, Tags)
  <2>1. PlainMail(Tags)
    BY <1>2, <1>3 DEF PlainMail, OfBroadcast
  <2> QED BY <1>1, <2>1 DEF Plain, Broadcasting, InBroadcast
<1>6. ASSUME NEW v \in Workers, NEW j \in Nodes PROVE OneLoad(v, j)'
  <2>1. OneLoad(v, j) /\ v # s /\ v \in Threads /\ Server(j) \in Threads
    BY <1>4, StealTypes DEF LoadInv
  <2>2. Due(v, j)' => Due(v, j) /\ hand'[v] = hand[v]
    BY <1>1, <2>1, RolesOfOthers, AloneOthers DEF ShapeInv
  <2>3. CASE ~(v[1] = n /\ StealTag(v[2]) = tag /\ j = k)
    <3>1. ToThief(v, j)' = ToThief(v, j)
      BY <1>1, <1>2, <1>3, <2>3, ThiefPost
    <3>2. Owing(v, j)' => Owing(v, j) /\ hand'[Server(j)] = hand[Server(j)]
      <4>1. CASE j # k
        <5>1. Server(j) # s
          BY <1>3, <4>1, ServerFacts DEF ShapeInv
        <5> QED BY <1>1, <2>1, <5>1, RolesOfOthers, AloneOthers DEF ShapeInv
      <4>2. CASE j = k
        <5>1. <<n, tag>> # <<v[1], StealTag(v[2])>>
          BY <2>3, <4>2
        <5> QED BY <1>1, <1>3, <1>4, <4>2, <5>1, ServerRole
      <4> QED BY <4>1, <4>2
    <3> QED BY <2>1, <2>2, <3>1, <3>2, OneLoadKept
  <2>4. CASE v[1] = n /\ StealTag(v[2]) = tag /\ j = k
    <3>1. StealOn(v, k) /\ Answering(v, k)
      BY <1>1, <1>3, <1>4, <2>4, ServerRole DEF StealInv
    <3>2. \A M : Num(ToVictim(v, k), M) \in Nat /\ Num(ToThief(v, k), M) \in Nat
      BY StealTypes
    <3>3. Num(ToVictim(v, k), Requests(v)) \in Nat /\ Num(ToThief(v, k), Replies) \in Nat
      BY <3>2
    <3>4. Waiting(v, k) /\ Num(ToThief(v, k), Replies) = 0
      BY <3>1, <3>3 DEF StealOn, One
    <3>5. ~Due(v, k)
      BY <3>4, WorkerRole DEF Inside, InFirst, InSecond
    <3>6. ToThief(v, k) = <<>>
      BY <3>1, <3>4, <3>5, NothingComes
    <3>7. ToThief(v, k)' = Append(ToThief(v, k), msg)
      BY <1>1, <1>2, <1>3, <2>4, ThiefPost
    <3>8. Len(ToThief(v, k)') = 1 /\ ToThief(v, k)'[1] = msg
      <4>1. Append(<<>>, msg) = <<msg>>
        OBVIOUS
      <4> QED BY <3>6, <3>7, <4>1
    <3>9. ~Due(v, k)'
      BY <2>2, <2>4, <3>5
    <3>10. Owing(v, k)' => hand'[s] = t
      BY <1>1, <1>3, ServerRole
    <3>11. Server(k)' = s /\ Tasks' = Tasks
      BY <1>3 DEF Same, Server
    <3>12. \A i \in 1 .. Len(ToThief(v, k)') :
             ToThief(v, k)'[i].type \in {"work", "argument"} => ToThief(v, k)'[i].body = t
      BY <1>2, <3>8
    <3>13. Owing(v, k)' => hand'[Server(k)'] = t
      BY <3>10, <3>11
    <3> HIDE DEF ToThief, Due, Owing, Server
    <3> QED BY <2>4, <3>9, <3>12, <3>13 DEF OneLoad
  <2> QED BY <2>3, <2>4
<1>7. Workers' = Workers /\ Nodes' = Nodes
  BY DEF Same
<1> QED BY <1>5, <1>6, <1>7 DEF LoadInv

LEMMA SendArgumentsPlain ==
  ASSUME ShapeInv, Same, LoadInv, NEW s \in Threads, SendArguments(s), UNCHANGED bvars
  PROVE  Plain(s, Tags) /\ LoadInv'
<1>0. PICK n \in Nodes, tag \in Tags, t \in Tasks : n = peer[s][1] /\ tag = peer[s][2] /\ t = hand[s]
  BY Now, SendArgumentsShape
<1>1. /\ Alone(s) /\ pc[s] = "send_args" /\ peer'[s] = peer[s] /\ pc'[s] = AfterSend(s)
      /\ s \in Servers => tag \in StealTags
      /\ s \in Workers => tag = s[2]
  BY <1>0, SendArgumentsShape
<1>2. PICK msg \in Messages(tag) : /\ msg.type = "argument" /\ msg.body = t
                                   /\ Post(s[1], n, tag, msg)
  BY <1>0, SendArgumentsShape
<1>3. SetupInv /\ s[1] \in Nodes /\ peer[s] = <<n, tag>>
  <2>1. peer[s] \in Nodes \X Tags /\ s[1] \in Nodes
    BY Now
  <2> QED BY <1>0, <2>1 DEF ShapeInv
<1>4. pc'[s] \in {"serve", "app"}
  BY <1>1 DEF AfterSend
<1>5. ASSUME NEW T, tag \in T PROVE Plain(s, T)
  <2>1. PlainMail(T)
    BY <1>2, <1>3, <1>5 DEF PlainMail, OfBroadcast
  <2> QED BY <1>1, <1>4, <2>1 DEF Plain, Broadcasting, InBroadcast
<1>6. CASE s \in Workers
  <2>1. tag \in OwnTags
    BY <1>1, <1>6, OwnTagFacts
  <2>2. Quiets(s)
    BY <1>4, <1>5, <2>1 DEF Quiets, Aloof, LoadPlaces
  <2> QED BY <1>5, <2>2, QuietsLoad
<1>7. CASE s \in Servers
  <2>0. tag \in StealTags /\ s \notin Workers
    BY <1>1, <1>3, <1>7, ServerFacts
  <2>1. PICK k \in Nodes : k = s[1] /\ s = Server(k)
    BY <1>3, <1>7, ServerFacts
  <2>2. ASSUME NEW v \in Workers, NEW j \in Nodes PROVE OneLoad(v, j)'
    <3>1. OneLoad(v, j) /\ v # s /\ v \in Threads /\ Server(j) \in Threads
      BY <2>0, StealTypes DEF LoadInv
    <3>2. Due(v, j)' => Due(v, j) /\ hand'[v] = hand[v]
      BY <1>1, <3>1, RolesOfOthers, AloneOthers DEF ShapeInv
    <3>3. CASE ~(v[1] = n /\ StealTag(v[2]) = tag /\ j = k)
      <4>1. ToThief(v, j)' = ToThief(v, j)
        BY <1>2, <2>0, <2>1, <3>3, ThiefPost
      <4>2. Owing(v, j)' => Owing(v, j) /\ hand'[Server(j)] = hand[Server(j)]
        <5>1. CASE j # k
          <6>1. Server(j) # s
            BY <1>3, <2>1, <5>1, ServerFacts
          <6> QED BY <1>1, <3>1, <6>1, RolesOfOthers, AloneOthers DEF ShapeInv
        <5>2. CASE j = k
          BY <1>4, <2>1, <5>2, ServerRole
        <5> QED BY <5>1, <5>2
      <4> QED BY <3>1, <3>2, <4>1, <4>2, OneLoadKept
    <3>4. CASE v[1] = n /\ StealTag(v[2]) = tag /\ j = k
      <4>1. Owing(v, k)
        BY <1>1, <1>3, <2>1, <3>4, ServerRole
      <4>2. ~Owing(v, k)'
        BY <1>4, <2>1, ServerRole
      <4>3. /\ \A i \in 1 .. Len(ToThief(v, k)) :
                 ToThief(v, k)[i].type \in {"work", "argument"} => ToThief(v, k)[i].body = t
            /\ Due(v, k) => hand[v] = t
        <5>1. PICK u \in Tasks \cup {NoTask} :
                /\ \A i \in 1 .. Len(ToThief(v, k)) :
                     ToThief(v, k)[i].type \in {"work", "argument"} => ToThief(v, k)[i].body = u
                /\ Due(v, k) => hand[v] = u
                /\ Owing(v, k) => hand[Server(k)] = u
          BY <3>1, <3>4 DEF OneLoad
        <5>2. u = t
          BY <1>0, <2>1, <4>1, <5>1
        <5> QED BY <5>1, <5>2
      <4>4. ToThief(v, k)' = Append(ToThief(v, k), msg)
        BY <1>2, <2>0, <2>1, <3>4, ThiefPost
      <4>5. PICK q, r : q = ToThief(v, k) /\ r = ToThief(v, k)' /\ q \in Seq(Messages(tag))
        BY <3>4, StealTypes
      <4>6. \A i \in 1 .. Len(r) : r[i].type \in {"work", "argument"} => r[i].body = t
        <5> SUFFICES ASSUME NEW i \in 1 .. Len(r), r[i].type \in {"work", "argument"} PROVE r[i].body = t
          OBVIOUS
        <5>1. /\ Len(r) = Len(q) + 1 /\ Len(q) \in Nat /\ r[Len(q) + 1] = msg
              /\ i \in 1 .. Len(q) => r[i] = q[i]
          BY <4>4, <4>5, AppendProperties
        <5>2. CASE i \in 1 .. Len(q)
          BY <4>3, <4>5, <5>1, <5>2
        <5>3. CASE i = Len(q) + 1
          BY <1>2, <5>1, <5>3
        <5> QED BY <5>1, <5>2, <5>3
      <4>7. /\ Tasks' = Tasks
            /\ \A i \in 1 .. Len(ToThief(v, k)') :
                 ToThief(v, k)'[i].type \in {"work", "argument"} => ToThief(v, k)'[i].body = t
        BY <4>5, <4>6
      <4>8. Due(v, k)' => hand'[v] = t
        BY <3>2, <3>4, <4>3
      <4> HIDE DEF ToThief, Due, Owing, Server
      <4> QED BY <3>4, <4>2, <4>7, <4>8 DEF OneLoad
    <3> QED BY <3>3, <3>4
  <2>3. Workers' = Workers /\ Nodes' = Nodes
    BY DEF Same
  <2> QED BY <1>5, <2>2, <2>3 DEF LoadInv
<1> QED BY <1>3, <1>6, <1>7, ServerFacts

LEMMA ReceiveArgumentsPlain ==
  ASSUME ShapeInv, Same, LoadInv, StealInv, MatchInv, NEW w \in Threads, ReceiveArguments(w), UNCHANGED bvars
  PROVE  Plain(w, Tags) /\ LoadInv'
<1>p. pc[w] = "held_args"
  BY SMTT(30), Now DEF ReceiveArguments, WorkerFits, ServerFits, SearchPlaces, InApplication, ServerPlaces,
     ShapeInv, Threads
<1>0. PICK k \in Nodes, tag \in Tags, t \in Tasks : k = peer[w][1] /\ tag = peer[w][2] /\ t = hand[w]
  BY <1>p, Now DEF WithTask
<1>1. /\ Alone(w) /\ chan[k][w[1]][tag] # <<>> /\ Take(k, w[1], tag) /\ UNCHANGED peer
      /\ \/ w \in Workers /\ tag = StealTag(w[2]) /\ pc'[w] = "execute"
         \/ w \in Servers /\ tag \in WorkerVps /\ \E b \in BOOLEAN : Enqueued(w, t, b)
  BY ZenonT(30), <1>0, ReceiveArgumentsShape
<1>2. w[1] \in Nodes /\ peer[w] = <<k, tag>>
  <2>1. peer[w] \in Nodes \X Tags /\ w[1] \in Nodes
    BY Now
  <2> QED BY <1>0, <2>1
<1>3. PICK msg : msg = Head(chan[k][w[1]][tag])
  OBVIOUS
<1>4. CASE w \in Servers /\ tag \in WorkerVps /\ \E b \in BOOLEAN : Enqueued(w, t, b)
  <2>1. msg.type = "argument"
    <3>1. Fit(Letter(w), msg)
      BY <1>p, <1>1, <1>2, <1>3, <1>4, PayloadComes DEF Expecting
    <3>2. Letter(w).type = "enqueue"
      BY <1>p DEF Letter
    <3> QED BY <3>1, <3>2 DEF Fit
  <2>2. PlainMail(OwnTags)
    BY <1>1, <1>2, <1>3, <1>4, <2>1 DEF PlainMail, OwnTags, OfBroadcast
  <2>3. pc'[w] \in {"execute", "serve"}
    BY <1>1, <1>4, EnqueuedFits
  <2>4. Quiets(w)
    BY <1>p, <1>1, <2>2, <2>3 DEF Quiets, Plain, Aloof, LoadPlaces, Broadcasting, InBroadcast
  <2> QED BY <2>4, PlainOn, QuietsLoad DEF Quiets
<1>5. CASE w \in Workers /\ tag = StealTag(w[2]) /\ pc'[w] = "execute"
  <2>1. tag \in StealTags /\ tag \in Tags /\ w \notin Servers /\ SetupInv
    BY <1>5, StealTypes, ServerFacts DEF ShapeInv
  <2>2. Due(w, k) /\ ToThief(w, k) # <<>> /\ Head(ToThief(w, k)) = msg
    BY <1>p, <1>1, <1>2, <1>3, <1>5, WorkerRole DEF ToThief
  <2>3. msg.type = "argument"
    BY <1>5, <2>2, ArgumentComes
  <2>4. Plain(w, Tags)
    <3>1. PlainMail(Tags)
      BY <1>1, <1>2, <1>3, <2>1, <2>3 DEF PlainMail, OfBroadcast
    <3> QED BY <1>p, <1>1, <1>5, <3>1 DEF Plain, Broadcasting, InBroadcast
  <2>5. \A v \in Workers, j \in Nodes : ~(v[1] = w[1] /\ StealTag(v[2]) = tag /\ j = k) =>
          ToThief(v, j)' = ToThief(v, j)
    BY <1>1, <1>2, <1>3, <2>1, ThiefTake
  <2>6. ToThief(w, k)' = Tail(ToThief(w, k))
    <3>1. chan'[k][w[1]][tag] = Tail(chan[k][w[1]][tag])
      BY <1>1, <1>2, <2>1, TakeEffect DEF ShapeInv
    <3> QED BY <1>5, <3>1 DEF ToThief
  <2>7. ASSUME NEW v \in Workers, NEW j \in Nodes PROVE OneLoad(v, j)'
    <3>1. OneLoad(v, j) /\ Server(j) # w /\ Server(j) \in Threads /\ v \in Threads
      BY <2>1, StealTypes DEF LoadInv
    <3>2. Owing(v, j)' => Owing(v, j) /\ hand'[Server(j)] = hand[Server(j)]
      BY <1>1, <3>1, RolesOfOthers, AloneOthers DEF ShapeInv
    <3>3. Due(v, j)' => Due(v, j) /\ hand'[v] = hand[v]
      <4>1. CASE v # w
        BY <1>1, <3>1, <4>1, RolesOfOthers, AloneOthers DEF ShapeInv
      <4>2. CASE v = w
        BY <1>5, <4>2, WorkerRole
      <4> QED BY <4>1, <4>2
    <3>4. \/ ToThief(v, j)' = ToThief(v, j)
          \/ ToThief(v, j) # <<>> /\ ToThief(v, j)' = Tail(ToThief(v, j))
      <4>1. CASE v = w /\ j = k
        BY <2>2, <2>6, <4>1
      <4>2. CASE v = w /\ j # k
        BY <2>5, <4>2
      <4>3. CASE v # w
        <5>1. ~(v[1] = w[1] /\ StealTag(v[2]) = tag)
          BY <1>5, <4>3, OneThief
        <5> QED BY <2>5, <5>1
      <4> QED BY <4>1, <4>2, <4>3
    <3> QED BY <3>1, <3>2, <3>3, <3>4, OneLoadKept
  <2>8. Workers' = Workers /\ Nodes' = Nodes
    BY DEF Same
  <2> QED BY <2>4, <2>7, <2>8 DEF LoadInv
<1> QED BY <1>1, <1>4, <1>5

LEMMA PlainSteps ==
  ASSUME ClusterInv, Same, MatchInv, LoadInv, UNCHANGED bvars, Next
  PROVE  LoadInv' /\ \E th : Plain(th, Tags)
<1>0. ShapeInv /\ PlaceInv /\ StealInv
  BY DEF ClusterInv
<1>1. ASSUME NEW th, Quiets(th) PROVE LoadInv' /\ \E o : Plain(o, Tags)
  BY <1>0, <1>1, QuietsLoad, PlainOn DEF Quiets
<1>2. ASSUME NEW c \in Creators, AppStep(c) PROVE LoadInv' /\ \E o : Plain(o, Tags)
  BY <1>0, <1>1, <1>2, CreateQuiet, CallQuiet DEF AppStep
<1>3. ASSUME NEW w \in Workers, NEW n \in Nodes, PrefetchRequest(w, n)
      PROVE  LoadInv' /\ \E o : Plain(o, Tags)
  BY <1>0, <1>1, <1>3, SearchQuiet
<1>4. ASSUME NEW th \in Threads, Step(th) PROVE LoadInv' /\ \E o : Plain(o, Tags)
  <2>1. ASSUME th \in Creators, Joined(th) \/ NotYet(th) \/ SendSwitch(th) PROVE Quiets(th)
    BY <1>0, <2>1, CallQuiet
  <2>2. ASSUME th \in Workers, Search(th), ~StealReply(th) PROVE Quiets(th)
    BY <1>0, <2>2, SearchQuiet DEF Search
  <2>3. ASSUME th \in Workers, StealReply(th) PROVE LoadInv' /\ \E o : Plain(o, Tags)
    BY <1>0, <2>3, StealReplyPlain
  <2>4. ASSUME th \in Servers, Serve(th) PROVE Quiets(th)
    BY <1>0, <2>4, ServeQuiet, ReceiveResultsQuiet DEF Serve
  <2>5. ASSUME SendDescriptor(th) \/ HoldForArguments(th) PROVE Quiets(th)
    BY <1>0, <2>5, SendDescriptorQuiet, HoldForArgumentsQuiet
  <2>6. ASSUME DirectSendDescriptor(th) \/ SendArguments(th) \/ ReceiveArguments(th)
        PROVE  LoadInv' /\ \E o : Plain(o, Tags)
    BY <1>0, <2>6, DirectSendPlain, SendArgumentsPlain, ReceiveArgumentsPlain
  <2>7. ASSUME RunTask(th) PROVE Quiets(th)
    BY <1>0, <2>7, RunQuiet DEF RunTask
  <2> QED BY <1>1, <1>4, <2>1, <2>2, <2>3, <2>4, <2>5, <2>6, <2>7 DEF Step, Communicate
<1> QED BY <1>2, <1>3, <1>4 DEF Next

LEMMA BroadcastLoad ==
  ASSUME ShapeInv, Same, LoadInv,
         \/ \E c \in Creators, a \in Variables, v \in Values : Broadcast(c, a, v)
         \/ \E th \in Threads : BroadcastStep(th)
  PROVE  LoadInv'
<1>1. ASSUME NEW c \in Creators, NEW a \in Variables, NEW v \in Values, Broadcast(c, a, v) PROVE LoadInv'
  <2>1. Alone(c) /\ c \in Threads /\ pc'[c] = "bcast" /\ UNCHANGED chan
    BY <1>1, BroadcastCallShape DEF Broadcast
  <2> QED BY <2>1, ThiefMailSame, LoadStays DEF LoadPlaces
<1>2. ASSUME NEW c \in Creators, SkipOwn(c) \/ SsendDone(c) PROVE LoadInv'
  <2>1. Alone(c) /\ c \in Threads /\ pc'[c] \in {"bcast", "app"}
    BY <1>2, SMTT(30), NextNodeShape
  <2>2. UNCHANGED chan
    BY <1>2, ZenonT(30) DEF SkipOwn, SsendDone
  <2>3. pc'[c] \in LoadPlaces /\ ThiefMail
    BY <2>1, <2>2, ThiefMailSame DEF LoadPlaces
  <2> QED BY <2>1, <2>3, LoadStays
<1>3. ASSUME NEW c \in Creators, SendBroadcast(c) \/ Ssend(c) PROVE LoadInv'
  <2>0. PICK n \in Nodes : n = peer[c][1]
    BY Now, WorkerFacts DEF ShapeInv
  <2>1. c[1] \in Nodes /\ MaxNvps \in OwnTags /\ c[2] \in OwnTags
    BY WorkerFacts, OwnTagFacts DEF ShapeInv
  <2>2. CASE SendBroadcast(c)
    <3>1. /\ Alone(c) /\ c \in Threads /\ pc'[c] = "offer"
          /\ \E msg \in Messages(MaxNvps) : msg.type = "bcast" /\ Post(c[1], n, MaxNvps, msg)
      BY <2>0, <2>2, SendBroadcastShape
    <3>2. ThiefMail
      BY <2>1, <3>1, ThiefMailSent DEF OwnTags
    <3> QED BY <3>1, <3>2, LoadStays DEF LoadPlaces
  <2>3. CASE Ssend(c)
    <3>1. /\ Alone(c) /\ c \in Threads /\ pc'[c] = "ssend"
          /\ \E msg \in Messages(c[2]) : msg.type = "data" /\ Post(c[1], n, c[2], msg)
      BY <2>0, <2>3, SsendShape
    <3>2. ThiefMail
      BY <2>1, <3>1, ThiefMailSent DEF OwnTags
    <3> QED BY <3>1, <3>2, LoadStays DEF LoadPlaces
  <2> QED BY <1>3, <2>2, <2>3
<1>4. ASSUME NEW s \in Servers, ReceiveData(s) PROVE LoadInv'
  <2>0. PICK n \in Nodes, tag \in Tags : s \in Threads /\ n = peer[s][1] /\ tag = peer[s][2]
    BY Now, ServerFacts DEF ShapeInv
  <2>1. /\ Alone(s) /\ tag \in OwnTags /\ pc'[s] = "serve" /\ s[1] \in Nodes
        /\ chan[n][s[1]][tag] # <<>> /\ Take(n, s[1], tag)
    BY <1>4, <2>0, Now, ReceiveDataShape DEF OwnTags
  <2>2. ThiefMail
    BY <2>1, ThiefMailTaken DEF OwnTags
  <2> QED BY <2>0, <2>1, <2>2, LoadStays DEF LoadPlaces
<1>5. ASSUME NEW s \in Servers, NEW n \in Nodes, ServeBroadcast(s, n) PROVE LoadInv'
  <2>1. Alone(s) /\ pc'[s] = "get_data" /\ s \in Threads /\ s[1] \in Nodes
    BY <1>5, ServeBroadcastShape, ServerFacts DEF ShapeInv
  <2>2. chan[n][s[1]][MaxNvps] # <<>> /\ Take(n, s[1], MaxNvps)
    BY <1>5 DEF ServeBroadcast, Serves
  <2>3. ThiefMail
    BY <2>1, <2>2, ThiefMailTaken
  <2> QED BY <2>1, <2>3, LoadStays DEF LoadPlaces
<1>6. ASSUME NEW th \in Threads, BroadcastStep(th) PROVE LoadInv'
  BY <1>2, <1>3, <1>4, <1>5, <1>6 DEF BroadcastStep
<1> QED BY <1>1, <1>6

LEMMA LoadStep ==
  ASSUME ClusterInv, MatchInv, LoadInv, [ClusterNext]_cvars
  PROVE  LoadInv'
<1>0. ShapeInv
  BY DEF ClusterInv
<1>1. CASE UNCHANGED cvars
  <2>1. UNCHANGED <<setup, chan, pc, hand, peer>>
    BY <1>1 DEF cvars, vars
  <2>2. Same
    BY <2>1, SetupFixed
  <2>3. ASSUME NEW w \in Workers, NEW k \in Nodes PROVE OneLoad(w, k)'
    <3>1. ToThief(w, k)' = ToThief(w, k) /\ (Due(w, k)' <=> Due(w, k)) /\ (Owing(w, k)' <=> Owing(w, k))
      BY <2>1, <2>2 DEF ToThief, Due, Owing, Plays, RoleOf, IsServer, Server, Same
    <3> QED BY <1>0, <2>1, <2>2, <3>1, OneLoadKept DEF LoadInv
  <2> QED BY <2>2, <2>3 DEF LoadInv, Same
<1>2. CASE ClusterNext
  <2>1. Same
    BY <1>2, SetupKept, SetupFixed
  <2> QED BY <1>0, <1>2, <2>1, PlainSteps, BroadcastLoad DEF ClusterNext
<1> QED BY <1>1, <1>2

PayInv == MatchInv /\ LoadInv

LEMMA PayInvariant == ClusterSpec /\ PayloadsApart => [](ClusterInv /\ PayInv)
<1>1. ClusterInit /\ PayloadsApart => PayInv
  BY MatchInit, LoadInit DEF PayInv
<1>2. ClusterInv /\ PayInv /\ [ClusterNext]_cvars => PayInv'
  BY MatchStep, LoadStep DEF PayInv
<1> QED BY <1>1, <1>2, ClusterInvariant, PTL DEF ClusterSpec

LEMMA RightHolds == ASSUME ClusterInv, PayInv PROVE RightMessage
<1>0. ShapeInv /\ StealInv /\ MatchInv /\ LoadInv
  BY DEF ClusterInv, PayInv
<1>1. ASSUME NEW th \in Threads, chan[peer[th][1]][th[1]][peer[th][2]] # <<>>,
             pc[th] \in {"held_args", "held_args_private", "get_results", "get_data"}
      PROVE  /\ Head(chan[peer[th][1]][th[1]][peer[th][2]]).type = Awaited(pc[th])
             /\ pc[th] = "get_data" \/ Head(chan[peer[th][1]][th[1]][peer[th][2]]).body = hand[th]
  <2>0. /\ th \in Workers => WorkerFits(th, pc[th], peer[th])
        /\ th \in Servers => ServerFits(pc[th], peer[th])
        /\ peer[th] \in Nodes \X Tags /\ th[1] \in Nodes /\ (th \in Workers \/ th \in Servers)
    BY <1>0, Now DEF Threads
  <2>1. PICK k \in Nodes, tag \in Tags : peer[th] = <<k, tag>>
    BY <2>0
  <2>2. PICK msg : msg = Head(chan[k][th[1]][tag])
    OBVIOUS
  <2>3. chan[k][th[1]][tag] # <<>>
    BY <1>1, <2>1
  <2>4. CASE th \in Servers
    <3>1. pc[th] \in {"held_args", "get_results", "get_data"} /\ tag \in WorkerVps
      BY <1>1, <2>0, <2>1, <2>4 DEF ServerFits, ServerPlaces
    <3>2. Fit(Letter(th), msg)
      BY <1>0, <2>1, <2>2, <2>3, <2>4, <3>1, PayloadComes DEF Expecting
    <3>3. msg.type = Awaited(pc[th]) /\ (pc[th] = "get_data" \/ msg.body = hand[th])
      BY <3>1, <3>2 DEF Fit, Letter, Awaited
    <3> QED BY <2>1, <2>2, <3>3
  <2>5. CASE th \in Workers
    <3>1. pc[th] = "held_args" /\ tag = StealTag(th[2])
      BY <1>1, <2>0, <2>1, <2>5 DEF WorkerFits, SearchPlaces, InApplication
    <3>2. Due(th, k) /\ ToThief(th, k) # <<>> /\ msg = Head(ToThief(th, k))
      BY <1>0, <2>1, <2>2, <2>3, <2>5, <3>1, WorkerRole DEF ToThief
    <3>3. msg.type = "argument"
      BY <1>0, <2>5, <3>2, ArgumentComes
    <3>4. PICK t \in Tasks \cup {NoTask} :
            /\ \A i \in 1 .. Len(ToThief(th, k)) :
                 ToThief(th, k)[i].type \in {"work", "argument"} => ToThief(th, k)[i].body = t
            /\ Due(th, k) => hand[th] = t
      BY <1>0, <2>5 DEF LoadInv, OneLoad
    <3>5. PICK q \in Seq(Messages(StealTag(th[2]))) : q = ToThief(th, k)
      BY <1>0, <2>5, StealTypes
    <3>6. 1 \in 1 .. Len(q) /\ Head(q) = q[1]
      BY <3>2, <3>5, EmptySeq
    <3>7. msg.body = hand[th]
      BY <3>2, <3>3, <3>4, <3>5, <3>6
    <3> QED BY <2>1, <2>2, <3>1, <3>3, <3>7 DEF Awaited
  <2> QED BY <2>0, <2>4, <2>5
<1>2. ASSUME NEW s \in Servers, NEW n \in Nodes, chan[n][s[1]][MaxNvps] # <<>>
      PROVE  Head(chan[n][s[1]][MaxNvps]).type \notin {"argument", "result", "data"}
  <2>1. MaxNvps \in Tags /\ s[1] \in Nodes
    BY <1>0, TagFacts, ServerFacts DEF ShapeInv
  <2>2. PICK msg : msg = Head(chan[n][s[1]][MaxNvps])
    OBVIOUS
  <2>3. Legal(MaxNvps, msg)
    BY <1>0, <1>2, <2>1, <2>2, HeadCounts DEF ShapeInv
  <2>4. MaxNvps \notin WorkerVps /\ MaxNvps \notin StealTags
    BY <1>0, TagFacts DEF ShapeInv
  <2> QED BY <2>2, <2>3, <2>4 DEF Legal, Descriptors, SwitchCalls
<1> QED BY <1>1, <1>2 DEF RightMessage

(* RightMessage in every cluster: a thread that waits for arguments or     *)
(* results gets those of the task it has in hand, one that waits for the   *)
(* data of a broadcast gets data, and a server gets descriptors, although  *)
(* all payloads of one worker come with the same tag.                      *)
THEOREM ClusterRightMessage == ClusterSpec /\ PayloadsApart => []RightMessage
BY PayInvariant, RightHolds, PTL

(***************************************************************************)
(* Where the value of a creator's variable is.                             *)
(***************************************************************************)

(* The elements of Q with that type.                                       *)
OfType(Q, type) == {Q[i] : i \in {j \in 1 .. Len(Q) : Q[j].type = type}}
Data(n, m, vp) == OfType(chan[n][m][vp], "data")
Announcing(n, m) == OfType(chan[n][m][MaxNvps], "bcast")

(* The loop of c has not come to node m yet, or is there.                  *)
NotPast(c, m) == pc[c] \in InBroadcast /\ peer[c][1] <= m
Value(c) == memory[c[1]][var[c]]

(* Who broadcasts has begun to, and has its variable to itself.            *)
OwnVariable ==
  /\ sent \in [Creators -> Nat]
  /\ \A c \in Creators : pc[c] \in InBroadcast => sent[c] > 0
  /\ \A c \in Creators, d \in Creators :
       sent[c] > 0 /\ sent[d] > 0 /\ c # d => var[c] # var[d]

(* The value is at the nodes that the loop has passed, and at the one where*)
(* MPI_Ssend waits it is there or on its way.                              *)
Spread ==
  /\ \A c \in Creators : sent[c] > 0 =>
       \A m \in Nodes : NotPast(c, m) \/ memory[m][var[c]] = Value(c)
  /\ \A c \in Creators : pc[c] = "ssend" =>
       \A m \in Nodes : peer[c][1] = m =>
         memory[m][var[c]] = Value(c) \/ Data(c[1], m, c[2]) # {}

(* What is under way is the value, for the address of the variable.        *)
UnderWay ==
  /\ \A n \in Nodes, m \in Nodes, vp \in WorkerVps : \A msg \in Data(n, m, vp) :
       /\ <<n, vp>> \in Creators /\ pc[<<n, vp>>] = "ssend" /\ peer[<<n, vp>>][1] = m
       /\ msg.body = Value(<<n, vp>>)
  /\ \A n \in Nodes, m \in Nodes : \A msg \in Announcing(n, m) :
       <<n, msg.vp>> \in Creators /\ msg.body = var[<<n, msg.vp>>]
  /\ \A s \in Servers : pc[s] = "get_data" => peer[s] \in Creators /\ address[s] = var[peer[s]]

SpreadInv == OwnVariable /\ Spread /\ UnderWay

LEMMA OfTypeAppend ==
  ASSUME NEW S, NEW Q \in Seq(S), NEW x \in S, NEW type
  PROVE  OfType(Append(Q, x), type) = OfType(Q, type) \cup (IF x.type = type THEN {x} ELSE {})
<1>1. /\ Len(Q) \in Nat /\ Len(Append(Q, x)) = Len(Q) + 1
      /\ (\A i \in 1 .. Len(Q) : Append(Q, x)[i] = Q[i]) /\ Append(Q, x)[Len(Q) + 1] = x
  BY AppendProperties
<1>0. PICK n \in Nat : n = Len(Q)
  BY <1>1
<1>2. PICK P : P = Append(Q, x)
  OBVIOUS
<1>3. \A i : i \in 1 .. n + 1 <=> i \in 1 .. n \/ i = n + 1
  OBVIOUS
<1>4. (\A i \in 1 .. n : P[i] = Q[i]) /\ P[n + 1] = x /\ Len(P) = n + 1 /\ Len(Q) = n
  BY <1>0, <1>1, <1>2
<1>5. ASSUME NEW y PROVE y \in OfType(P, type) <=> y \in OfType(Q, type) \/ (x.type = type /\ y = x)
  BY <1>3, <1>4 DEF OfType
<1> QED BY <1>2, <1>5

LEMMA OfTypeTail ==
  ASSUME NEW S, NEW Q \in Seq(S), Q # <<>>, NEW type
  PROVE  /\ OfType(Tail(Q), type) \subseteq OfType(Q, type)
         /\ OfType(Q, type) \subseteq OfType(Tail(Q), type) \cup {Head(Q)}
         /\ Head(Q).type = type => Head(Q) \in OfType(Q, type)
         /\ Head(Q).type # type => OfType(Tail(Q), type) = OfType(Q, type)
<1>1. /\ Len(Q) \in Nat /\ Len(Q) > 0 /\ Len(Tail(Q)) = Len(Q) - 1
      /\ (\A i \in 1 .. Len(Tail(Q)) : Tail(Q)[i] = Q[i + 1]) /\ Head(Q) = Q[1]
  BY HeadTailProperties, EmptySeq
<1>a. Len(Tail(Q)) \in Nat /\ Len(Q) = Len(Tail(Q)) + 1
  BY <1>1
<1>0. PICK n \in Nat : n = Len(Tail(Q))
  BY <1>a
<1>2. PICK P : P = Tail(Q)
  OBVIOUS
<1>3. /\ (\A i \in 1 .. n : i + 1 \in 1 .. n + 1) /\ (\A i \in 1 .. n + 1 : i = 1 \/ i - 1 \in 1 .. n)
      /\ (\A i \in 1 .. n + 1 : (i - 1) + 1 = i) /\ 1 \in 1 .. n + 1
  OBVIOUS
<1>4. (\A i \in 1 .. n : P[i] = Q[i + 1]) /\ Head(Q) = Q[1] /\ Len(P) = n /\ Len(Q) = n + 1
  BY <1>a, <1>0, <1>1, <1>2
<1>5. ASSUME NEW y \in OfType(P, type) PROVE y \in OfType(Q, type)
  <2>1. PICK i \in 1 .. n : P[i].type = type /\ y = P[i]
    BY <1>4, <1>5 DEF OfType
  <2>2. i + 1 \in 1 .. Len(Q) /\ Q[i + 1].type = type /\ y = Q[i + 1]
    BY <1>3, <1>4, <2>1
  <2> QED BY <2>2 DEF OfType
<1>6. ASSUME NEW y \in OfType(Q, type) PROVE y \in OfType(P, type) \/ (y = Head(Q) /\ Head(Q).type = type)
  <2>1. PICK i \in 1 .. n + 1 : Q[i].type = type /\ y = Q[i]
    BY <1>4, <1>6 DEF OfType
  <2>2. CASE i = 1
    BY <1>4, <2>1, <2>2
  <2>3. CASE i # 1
    <3>1. PICK j \in 1 .. n : i = j + 1
      BY <1>3, <2>3
    <3>2. P[j].type = type /\ y = P[j]
      BY <1>4, <2>1, <3>1
    <3> QED BY <1>4, <3>2 DEF OfType
  <2> QED BY <2>2, <2>3
<1>7. Head(Q).type = type => Head(Q) \in OfType(Q, type)
  BY <1>3, <1>4 DEF OfType
<1> QED BY <1>2, <1>5, <1>6, <1>7

LEMMA OfTypeFacts ==
  ASSUME NEW Q, NEW type
  PROVE  /\ \A x \in OfType(Q, type) : x.type = type
         /\ OfType(Q, type) = {} <=> \A i \in 1 .. Len(Q) : Q[i].type # type
         /\ OfType(<<>>, type) = {}
<1>1. \A i : i \notin 1 .. Len(<<>>)
  OBVIOUS
<1> QED BY <1>1 DEF OfType

LEMMA SpreadInit ==
  ASSUME ClusterInit, PayloadsApart
  PROVE  SpreadInv
<1>1. ShapeInv
  BY ShapeInit
<1>2. \A n \in Nodes, m \in Nodes, tag \in Tags : chan[n][m][tag] = <<>>
  BY DEF ClusterInit, Init
<1>3. \A n \in Nodes, m \in Nodes : Announcing(n, m) = {} /\ \A vp \in WorkerVps : Data(n, m, vp) = {}
  BY <1>1, <1>2, OfTypeFacts, TagFacts DEF ShapeInv, Data, Announcing
<1>4. /\ \A th \in Threads : pc[th] \notin Broadcasting
      /\ sent \in [Creators -> Nat] /\ \A c \in Creators : ~(sent[c] > 0)
  BY <1>1 DEF ClusterInit, Init, BroadcastInit, Broadcasting, InBroadcast
<1>5. /\ \A c \in Creators : pc[c] \notin InBroadcast /\ pc[c] # "ssend"
      /\ \A s \in Servers : pc[s] # "get_data"
  BY <1>1, <1>4, WorkerFacts, ServerFacts DEF ShapeInv, Broadcasting, InBroadcast
<1> QED BY <1>3, <1>4, <1>5 DEF SpreadInv, OwnVariable, Spread, UnderWay

(* What a message that is sent or taken does to the others.                *)
LEMMA MailSent ==
  ASSUME ShapeInv, Same, NEW n \in Nodes, NEW m \in Nodes, NEW tag \in Tags,
         NEW msg \in Messages(tag), Post(n, m, tag, msg)
  PROVE  \A a \in Nodes, b \in Nodes, g \in Tags : \A type :
           OfType(chan'[a][b][g], type)
             = OfType(chan[a][b][g], type)
                 \cup (IF <<a, b, g>> = <<n, m, tag>> /\ msg.type = type THEN {msg} ELSE {})
<1>1. /\ chan'[n][m][tag] = Append(chan[n][m][tag], msg)
      /\ \A a \in Nodes, b \in Nodes, g \in Tags : <<a, b, g>> # <<n, m, tag>> =>
           chan'[a][b][g] = chan[a][b][g]
  BY PostEffect DEF ShapeInv
<1>2. PICK q \in Seq(Messages(tag)) : q = chan[n][m][tag]
  BY DEF ShapeInv, Channels
<1>3. \A type : OfType(Append(q, msg), type)
                  = OfType(q, type) \cup (IF msg.type = type THEN {msg} ELSE {})
  BY OfTypeAppend
<1>4. ASSUME NEW a \in Nodes, NEW b \in Nodes, NEW g \in Tags, NEW type
      PROVE  OfType(chan'[a][b][g], type)
               = OfType(chan[a][b][g], type)
                   \cup (IF <<a, b, g>> = <<n, m, tag>> /\ msg.type = type THEN {msg} ELSE {})
  <2>1. CASE <<a, b, g>> = <<n, m, tag>>
    <3>1. a = n /\ b = m /\ g = tag
      BY <2>1
    <3>2. OfType(chan'[n][m][tag], type)
            = OfType(chan[n][m][tag], type) \cup (IF msg.type = type THEN {msg} ELSE {})
      BY <1>1, <1>2, <1>3
    <3> QED BY <3>1, <3>2
  <2>2. CASE <<a, b, g>> # <<n, m, tag>>
    <3>1. chan'[a][b][g] = chan[a][b][g]
      BY <1>1, <2>2
    <3> QED BY <2>2, <3>1
  <2> QED BY <2>1, <2>2
<1> QED BY <1>4

LEMMA MailTaken ==
  ASSUME ShapeInv, Same, NEW n \in Nodes, NEW m \in Nodes, NEW tag \in Tags,
         chan[n][m][tag] # <<>>, Take(n, m, tag)
  PROVE  /\ \A type :
              /\ OfType(chan'[n][m][tag], type) \subseteq OfType(chan[n][m][tag], type)
              /\ OfType(chan[n][m][tag], type)
                   \subseteq OfType(chan'[n][m][tag], type) \cup {Head(chan[n][m][tag])}
              /\ Head(chan[n][m][tag]).type = type =>
                   Head(chan[n][m][tag]) \in OfType(chan[n][m][tag], type)
              /\ Head(chan[n][m][tag]).type # type =>
                   OfType(chan'[n][m][tag], type) = OfType(chan[n][m][tag], type)
         /\ \A a \in Nodes, b \in Nodes, g \in Tags : <<a, b, g>> # <<n, m, tag>> =>
              chan'[a][b][g] = chan[a][b][g]
<1>1. /\ chan'[n][m][tag] = Tail(chan[n][m][tag])
      /\ \A a \in Nodes, b \in Nodes, g \in Tags : <<a, b, g>> # <<n, m, tag>> =>
           chan'[a][b][g] = chan[a][b][g]
  BY TakeEffect DEF ShapeInv
<1>2. PICK q \in Seq(Messages(tag)) : q = chan[n][m][tag]
  BY DEF ShapeInv, Channels
<1>3. \A type : /\ OfType(Tail(q), type) \subseteq OfType(q, type)
                /\ OfType(q, type) \subseteq OfType(Tail(q), type) \cup {Head(q)}
                /\ Head(q).type = type => Head(q) \in OfType(q, type)
                /\ Head(q).type # type => OfType(Tail(q), type) = OfType(q, type)
  BY <1>2, OfTypeTail
<1> QED BY <1>1, <1>2, <1>3

(* The steps that have nothing to do with a broadcast.                     *)
LEMMA PlainMailKept ==
  ASSUME ShapeInv, Same, PlainMail(Tags)
  PROVE  \A a \in Nodes, b \in Nodes, g \in Tags : \A type \in OfBroadcast :
           OfType(chan'[a][b][g], type) = OfType(chan[a][b][g], type)
<1>1. CASE UNCHANGED chan
  BY <1>1
<1>2. ASSUME NEW n \in Nodes, NEW m \in Nodes, NEW tag \in Tags, NEW msg \in Messages(tag),
             msg.type \notin OfBroadcast, Post(n, m, tag, msg)
      PROVE  \A a \in Nodes, b \in Nodes, g \in Tags : \A type \in OfBroadcast :
               OfType(chan'[a][b][g], type) = OfType(chan[a][b][g], type)
  <2>1. \A a \in Nodes, b \in Nodes, g \in Tags : \A type :
          OfType(chan'[a][b][g], type)
            = OfType(chan[a][b][g], type)
                \cup (IF <<a, b, g>> = <<n, m, tag>> /\ msg.type = type THEN {msg} ELSE {})
    BY <1>2, MailSent
  <2>2. \A type \in OfBroadcast : msg.type # type
    BY <1>2
  <2>3. ASSUME NEW a \in Nodes, NEW b \in Nodes, NEW g \in Tags, NEW type \in OfBroadcast
        PROVE  OfType(chan'[a][b][g], type) = OfType(chan[a][b][g], type)
    <3>1. OfType(chan'[a][b][g], type)
            = OfType(chan[a][b][g], type)
                \cup (IF <<a, b, g>> = <<n, m, tag>> /\ msg.type = type THEN {msg} ELSE {})
      BY <2>1
    <3>2. msg.type # type
      BY <2>2, <2>3
    <3> QED BY <3>1, <3>2
  <2> QED BY <2>3
<1>3. ASSUME NEW n \in Nodes, NEW m \in Nodes, NEW tag \in Tags, chan[n][m][tag] # <<>>,
             Take(n, m, tag), Head(chan[n][m][tag]).type \notin OfBroadcast
      PROVE  \A a \in Nodes, b \in Nodes, g \in Tags : \A type \in OfBroadcast :
               OfType(chan'[a][b][g], type) = OfType(chan[a][b][g], type)
  <2>1. \A a \in Nodes, b \in Nodes, g \in Tags : <<a, b, g>> # <<n, m, tag>> =>
          chan'[a][b][g] = chan[a][b][g]
    BY <1>3, MailTaken
  <2>2. \A type :
          /\ OfType(chan'[n][m][tag], type) \subseteq OfType(chan[n][m][tag], type)
          /\ OfType(chan[n][m][tag], type)
               \subseteq OfType(chan'[n][m][tag], type) \cup {Head(chan[n][m][tag])}
          /\ Head(chan[n][m][tag]).type = type =>
               Head(chan[n][m][tag]) \in OfType(chan[n][m][tag], type)
          /\ Head(chan[n][m][tag]).type # type =>
               OfType(chan'[n][m][tag], type) = OfType(chan[n][m][tag], type)
    BY <1>3, MailTaken
  <2>3. \A type \in OfBroadcast : OfType(chan'[n][m][tag], type) = OfType(chan[n][m][tag], type)
    BY <1>3, <2>2
  <2> QED BY <2>1, <2>3
<1> QED BY <1>1, <1>2, <1>3 DEF PlainMail

(* What the invariant is about.                                            *)
BroadcastsSame ==
  /\ \A n \in Nodes, m \in Nodes : Announcing(n, m)' = Announcing(n, m)
  /\ \A n \in Nodes, m \in Nodes, vp \in WorkerVps : Data(n, m, vp)' = Data(n, m, vp)

LEMMA SpreadSame ==
  ASSUME ShapeInv, Same, SpreadInv, UNCHANGED bvars, BroadcastsSame,
         \A c \in Creators : (pc'[c] \in InBroadcast <=> pc[c] \in InBroadcast)
                             /\ (pc'[c] = "ssend" <=> pc[c] = "ssend")
                             /\ (pc[c] \in InBroadcast => peer'[c] = peer[c]),
         \A s \in Servers : pc'[s] = "get_data" => pc[s] = "get_data" /\ peer'[s] = peer[s]
  PROVE  SpreadInv'
<1>1. UNCHANGED <<memory, var, sent, address>>
  BY DEF bvars
<1>2. /\ Nodes' = Nodes /\ Creators' = Creators /\ Servers' = Servers /\ WorkerVps' = WorkerVps
      /\ \A c \in Creators : c[1] \in Nodes /\ c[2] \in WorkerVps
  BY WorkerFacts, TagFacts DEF Same, ShapeInv
<1>3. OwnVariable'
  BY <1>1, <1>2 DEF SpreadInv, OwnVariable
<1>4. \A c \in Creators : Value(c)' = Value(c)
  BY <1>1 DEF Value
<1>5. \A c \in Creators : \A m \in Nodes : NotPast(c, m)' <=> NotPast(c, m)
  BY DEF NotPast
<1>6. Spread'
  <2>1. ASSUME NEW c \in Creators, sent[c] > 0, NEW m \in Nodes
        PROVE  NotPast(c, m)' \/ memory'[m][var'[c]] = Value(c)'
    BY <1>1, <1>4, <1>5, <2>1 DEF SpreadInv, Spread
  <2>2. ASSUME NEW c \in Creators, pc'[c] = "ssend", NEW m \in Nodes, peer'[c][1] = m
        PROVE  memory'[m][var'[c]] = Value(c)' \/ Data(c[1], m, c[2])' # {}
    <3>1. pc[c] = "ssend" /\ peer[c][1] = m
      BY <2>2 DEF InBroadcast
    <3>2. memory[m][var[c]] = Value(c) \/ Data(c[1], m, c[2]) # {}
      BY <3>1 DEF SpreadInv, Spread
    <3> QED BY <1>1, <1>2, <1>4, <3>2 DEF BroadcastsSame
  <2> QED BY <1>1, <1>2, <2>1, <2>2 DEF Spread
<1>7. UnderWay'
  <2>1. ASSUME NEW n \in Nodes, NEW m \in Nodes, NEW vp \in WorkerVps, NEW msg \in Data(n, m, vp)'
        PROVE  /\ <<n, vp>> \in Creators /\ pc'[<<n, vp>>] = "ssend" /\ peer'[<<n, vp>>][1] = m
               /\ msg.body = Value(<<n, vp>>)'
    <3>1. msg \in Data(n, m, vp)
      BY <2>1 DEF BroadcastsSame
    <3>2. /\ <<n, vp>> \in Creators /\ pc[<<n, vp>>] = "ssend" /\ peer[<<n, vp>>][1] = m
          /\ msg.body = Value(<<n, vp>>)
      BY <3>1 DEF SpreadInv, UnderWay
    <3>3. pc[<<n, vp>>] \in InBroadcast
      BY <3>2 DEF InBroadcast
    <3> QED BY <1>4, <3>2, <3>3
  <2>2. ASSUME NEW n \in Nodes, NEW m \in Nodes, NEW msg \in Announcing(n, m)'
        PROVE  <<n, msg.vp>> \in Creators /\ msg.body = var'[<<n, msg.vp>>]
    BY <1>1, <2>2 DEF BroadcastsSame, SpreadInv, UnderWay
  <2>3. ASSUME NEW s \in Servers, pc'[s] = "get_data"
        PROVE  peer'[s] \in Creators /\ address'[s] = var'[peer'[s]]
    BY <1>1, <2>3 DEF SpreadInv, UnderWay
  <2> QED BY <1>2, <2>1, <2>2, <2>3 DEF UnderWay
<1> QED BY <1>3, <1>6, <1>7 DEF SpreadInv

LEMMA SpreadPlain ==
  ASSUME ShapeInv, Same, SpreadInv, UNCHANGED bvars, NEW th, Plain(th, Tags)
  PROVE  SpreadInv'
<1>1. th \in Threads /\ PlainMail(Tags) /\ pc[th] \notin Broadcasting /\ pc'[th] \notin Broadcasting
  BY DEF Plain
<1>2. \A o \in Threads : o # th => pc'[o] = pc[o] /\ hand'[o] = hand[o] /\ peer'[o] = peer[o]
  BY AloneOthers DEF Plain, ShapeInv
<1>3. \A a \in Nodes, b \in Nodes, g \in Tags : \A type \in OfBroadcast :
        OfType(chan'[a][b][g], type) = OfType(chan[a][b][g], type)
  BY <1>1, PlainMailKept
<1>4. /\ MaxNvps' = MaxNvps /\ MaxNvps \in Tags /\ \A vp \in WorkerVps : vp \in Tags
  BY OwnTagFacts, TagFacts DEF ShapeInv, OwnTags
<1>5. BroadcastsSame
  BY <1>3, <1>4 DEF BroadcastsSame, Announcing, Data, OfBroadcast
<1>6. \A o \in Threads : \/ pc'[o] = pc[o] /\ peer'[o] = peer[o]
                         \/ /\ pc'[o] \notin InBroadcast /\ pc[o] \notin InBroadcast
                            /\ pc'[o] # "ssend" /\ pc[o] # "ssend" /\ pc'[o] # "get_data"
  BY <1>1, <1>2 DEF Broadcasting, InBroadcast
<1>7. \A c \in Creators : c \in Threads
  BY WorkerFacts DEF ShapeInv
<1>8. \A s \in Servers : s \in Threads
  BY ServerFacts DEF ShapeInv
<1> QED BY <1>5, <1>6, <1>7, <1>8, SpreadSame

(* Who is in its application has no broadcast under way.                   *)
LEMMA NoneAnnounced ==
  ASSUME ShapeInv, MatchInv, SpreadInv, NEW c \in Creators, pc[c] = "app", NEW m \in Nodes
  PROVE  /\ \A msg \in Announcing(c[1], m) : msg.vp # c[2]
         /\ pc[Server(m)] = "get_data" => peer[Server(m)] # c
<1>1. /\ c[1] \in Nodes /\ c[2] \in WorkerVps /\ c = <<c[1], c[2]>> /\ Server(m) \in Servers
      /\ Server(m)[1] = m
  BY WorkerFacts, ServerFacts, TagFacts DEF ShapeInv
<1>2. PICK n \in Nodes, vp \in WorkerVps : n = c[1] /\ vp = c[2] /\ c = <<n, vp>>
  BY <1>1
<1>3. PICK P, C, L, A : /\ P = Pending(Server(m), <<n, vp>>) /\ C = chan[n][m][MaxNvps]
                        /\ L = chan[n][m][vp] /\ A = Heralds(m, vp)
  OBVIOUS
<1>4. Debt(<<n, vp>>, m) = <<>>
  BY <1>2 DEF Debt, Paying
<1>5. /\ P \in Seq(AnyMessage) /\ C \in Seq(AnyMessage) /\ L \in Seq(AnyMessage)
      /\ P \o C \in Seq(AnyMessage)
  BY <1>3, LinkFacts, LinkSeqs, ConcatProperties
<1>6. Match(P \o C, L, A)
  <2>1. Match(P \o C, L \o <<>>, A)
    BY <1>3, <1>4 DEF MatchInv, Announced, Owed
  <2> QED BY <1>5, <2>1, ConcatEmptySeq
<1>7. \A i \in 1 .. Len(L) : L[i].type # "data"
  <2>1. Data(n, m, vp) = {}
    BY <1>2 DEF SpreadInv, UnderWay
  <2> QED BY <1>3, <2>1, OfTypeFacts DEF Data
<1>8. ASSUME NEW j \in 1 .. Len(P \o C) PROVE ~((P \o C)[j] \in A /\ (P \o C)[j].type = "bcast")
  <2>1. SUFFICES ASSUME (P \o C)[j] \in A, (P \o C)[j].type = "bcast" PROVE FALSE
    OBVIOUS
  <2>2. PICK i : i \in 1 .. Len(L) /\ Fit((P \o C)[j], L[i])
    BY <1>5, <1>6, <2>1, MatchIn
  <2> QED BY <1>7, <2>1, <2>2 DEF Fit
<1>9. /\ Len(P) \in Nat /\ Len(C) \in Nat /\ Len(P \o C) = Len(P) + Len(C)
      /\ (\A i \in 1 .. Len(P) : (P \o C)[i] = P[i])
      /\ (\A i \in 1 .. Len(C) : (P \o C)[Len(P) + i] = C[i])
  BY <1>5, ConcatProperties
<1>10. ASSUME NEW msg \in Announcing(c[1], m) PROVE msg.vp # c[2]
  <2>1. PICK i \in 1 .. Len(C) : msg = C[i] /\ msg.type = "bcast"
    BY <1>2, <1>3 DEF Announcing, OfType
  <2>2. msg \in AnyMessage
    BY <1>5, <2>1, ElementOfSeq
  <2>3. PICK p \in Nat : p = Len(P)
    BY <1>9
  <2>4. p + i \in 1 .. Len(P \o C) /\ (P \o C)[p + i] = msg
    BY <1>9, <2>1, <2>3
  <2>5. msg \notin A
    BY <1>8, <2>1, <2>4
  <2> QED BY <1>2, <1>3, <2>1, <2>2, <2>5 DEF Heralds
<1>11. ASSUME pc[Server(m)] = "get_data" PROVE peer[Server(m)] # c
  <2>1. SUFFICES ASSUME peer[Server(m)] = c PROVE FALSE
    OBVIOUS
  <2>2. P = <<Letter(Server(m))>>
    BY <1>2, <1>3, <1>11, <2>1 DEF Pending, Expecting
  <2>3. Letter(Server(m)).type = "bcast"
    BY <1>11 DEF Letter
  <2>4. PICK s : s = Server(m)
    OBVIOUS
  <2>5. Letter(s) \in Heralds(s[1], peer[s][2])
    BY <1>1, <1>11, <2>4 DEF MatchInv, Expecting
  <2>6. s[1] = m /\ peer[s][2] = vp
    BY <1>1, <1>2, <2>1, <2>4
  <2>7. Letter(Server(m)) \in A
    BY <1>3, <2>4, <2>5, <2>6
  <2>8. Len(P) = 1 /\ P[1] = Letter(Server(m))
    BY <2>2
  <2>9. 1 \in 1 .. Len(P \o C) /\ (P \o C)[1] = Letter(Server(m))
    BY <1>9, <2>8
  <2> QED BY <1>8, <2>3, <2>7, <2>9
<1> QED BY <1>10, <1>11

(* A step that changes neither memory nor whose variables they are.        *)
LEMMA SpreadStays ==
  ASSUME ShapeInv, Same, SpreadInv, UNCHANGED <<memory, var, sent>>,
         \A c \in Creators : pc'[c] \in InBroadcast => pc[c] \in InBroadcast,
         \A c \in Creators : \A m \in Nodes :
           NotPast(c, m) => NotPast(c, m)' \/ memory[m][var[c]] = Value(c),
         \A c \in Creators : \A m \in Nodes :
           pc'[c] = "ssend" /\ peer'[c][1] = m =>
             memory[m][var[c]] = Value(c) \/ Data(c[1], m, c[2])' # {}
  PROVE  OwnVariable' /\ Spread'
<1>1. /\ Nodes' = Nodes /\ Creators' = Creators /\ Servers' = Servers /\ WorkerVps' = WorkerVps
      /\ UNCHANGED <<memory, var, sent>>
  BY DEF Same
<1>2. OwnVariable'
  BY <1>1 DEF SpreadInv, OwnVariable
<1>3. \A c : Value(c)' = Value(c)
  BY <1>1 DEF Value
<1>4. Spread'
  <2>1. ASSUME NEW c \in Creators, sent[c] > 0, NEW m \in Nodes
        PROVE  NotPast(c, m)' \/ memory'[m][var'[c]] = Value(c)'
    BY <1>1, <1>3, <2>1 DEF SpreadInv, Spread
  <2>2. ASSUME NEW c \in Creators, pc'[c] = "ssend", NEW m \in Nodes, peer'[c][1] = m
        PROVE  memory'[m][var'[c]] = Value(c)' \/ Data(c[1], m, c[2])' # {}
    BY <1>1, <1>3, <2>2
  <2> QED BY <1>1, <2>1, <2>2 DEF Spread
<1> QED BY <1>2, <1>4

LEMMA BroadcastCallSpread ==
  ASSUME ShapeInv, Same, MatchInv, SpreadInv,
         NEW c \in Creators, NEW a \in Variables, NEW v \in Values, Broadcast(c, a, v)
  PROVE  SpreadInv'
<1>1. /\ Alone(c) /\ c \in Threads /\ c \in Workers /\ pc[c] = "app" /\ pc'[c] = "bcast"
      /\ c[1] \in Nodes /\ c[2] \in WorkerVps /\ c = <<c[1], c[2]>>
  BY BroadcastCallShape, WorkerFacts, TagFacts DEF ShapeInv
<1>2. /\ UNCHANGED <<chan, address>> /\ sent' = [sent EXCEPT ![c] = @ + 1]
      /\ memory' = [memory EXCEPT ![c[1]][a] = v] /\ var' = [var EXCEPT ![c] = a]
      /\ peer' = [peer EXCEPT ![c] = <<0, c[2]>>]
      /\ \A d \in Creators \ {c} : sent[d] = 0 \/ var[d] # a
  BY DEF Broadcast, thread_id
<1>3. /\ \A d \in Creators : d \in Threads /\ d[1] \in Nodes
      /\ \A s \in Servers : s \in Threads /\ s # c
      /\ \A o \in Threads : o # c => pc'[o] = pc[o] /\ peer'[o] = peer[o]
  BY <1>1, AloneOthers, WorkerFacts, ServerFacts DEF ShapeInv
<1>4. /\ sent \in [Creators -> Nat] /\ var \in [Creators -> Variables]
      /\ memory \in [Nodes -> [Variables -> Bodies]]
  BY DEF SpreadInv, OwnVariable, ShapeInv, MemoryTypes
<1>5. /\ sent' \in [Creators -> Nat] /\ sent'[c] > 0 /\ var'[c] = a
      /\ \A d \in Creators : d # c => sent'[d] = sent[d] /\ var'[d] = var[d]
  BY <1>2, <1>4
<1>6. \A m \in Nodes, b \in Variables : b # a => memory'[m][b] = memory[m][b]
  BY <1>2, <1>4
<1>7. peer'[c][1] = 0
  BY <1>1, <1>2 DEF ShapeInv, ThreadsFit
<1>8. \A d \in Creators : d # c /\ sent[d] > 0 =>
        /\ var[d] # a /\ \A m \in Nodes : memory'[m][var'[d]] = memory[m][var[d]]
  BY <1>2, <1>4, <1>5, <1>6
<1>9. \A d \in Creators : d # c /\ sent[d] > 0 => Value(d)' = Value(d)
  BY <1>3, <1>8 DEF Value
<1>10. /\ Nodes' = Nodes /\ Creators' = Creators /\ Servers' = Servers /\ WorkerVps' = WorkerVps
  BY DEF Same
<1>11. OwnVariable'
  <2>1. \A d \in Creators : pc'[d] \in InBroadcast => sent'[d] > 0
    BY <1>3, <1>5 DEF SpreadInv, OwnVariable
  <2>2. \A d \in Creators, e \in Creators :
          sent'[d] > 0 /\ sent'[e] > 0 /\ d # e => var'[d] # var'[e]
    BY <1>5, <1>8 DEF SpreadInv, OwnVariable
  <2> QED BY <1>5, <1>10, <2>1, <2>2 DEF OwnVariable
<1>12. Spread'
  <2>1. ASSUME NEW d \in Creators, sent'[d] > 0, NEW m \in Nodes
        PROVE  NotPast(d, m)' \/ memory'[m][var'[d]] = Value(d)'
    <3>1. CASE d = c
      <4>1. 0 <= m
        BY DEF Nodes
      <4> QED BY <1>1, <1>7, <3>1, <4>1 DEF NotPast, InBroadcast
    <3>2. CASE d # c
      <4>1. sent[d] > 0 /\ (NotPast(d, m)' <=> NotPast(d, m))
        BY <1>3, <1>5, <2>1, <3>2 DEF NotPast
      <4>2. NotPast(d, m) \/ memory[m][var[d]] = Value(d)
        BY <4>1 DEF SpreadInv, Spread
      <4> QED BY <1>8, <1>9, <3>2, <4>1, <4>2
    <3> QED BY <3>1, <3>2
  <2>2. ASSUME NEW d \in Creators, pc'[d] = "ssend", NEW m \in Nodes, peer'[d][1] = m
        PROVE  memory'[m][var'[d]] = Value(d)' \/ Data(d[1], m, d[2])' # {}
    <3>1. d # c /\ pc[d] = "ssend" /\ peer[d][1] = m
      BY <1>1, <1>3, <2>2
    <3>2. sent[d] > 0
      BY <3>1 DEF SpreadInv, OwnVariable, InBroadcast
    <3>3. memory[m][var[d]] = Value(d) \/ Data(d[1], m, d[2]) # {}
      BY <3>1 DEF SpreadInv, Spread
    <3>4. Data(d[1], m, d[2])' = Data(d[1], m, d[2])
      BY <1>2 DEF Data
    <3> QED BY <1>8, <1>9, <3>1, <3>2, <3>3, <3>4
  <2> QED BY <1>10, <2>1, <2>2 DEF Spread
<1>13. UnderWay'
  <2>1. ASSUME NEW n \in Nodes, NEW m \in Nodes, NEW vp \in WorkerVps, NEW msg \in Data(n, m, vp)'
        PROVE  /\ <<n, vp>> \in Creators /\ pc'[<<n, vp>>] = "ssend" /\ peer'[<<n, vp>>][1] = m
               /\ msg.body = Value(<<n, vp>>)'
    <3>1. PICK d : d = <<n, vp>>
      OBVIOUS
    <3>2. msg \in Data(n, m, vp)
      BY <1>2, <2>1 DEF Data
    <3>3. d \in Creators /\ pc[d] = "ssend" /\ peer[d][1] = m /\ msg.body = Value(d)
      BY <3>1, <3>2 DEF SpreadInv, UnderWay
    <3>4. d # c /\ sent[d] > 0
      BY <1>1, <3>3 DEF SpreadInv, OwnVariable, InBroadcast
    <3>5. pc'[d] = "ssend" /\ peer'[d][1] = m /\ msg.body = Value(d)'
      BY <1>3, <1>9, <3>3, <3>4
    <3> QED BY <3>1, <3>3, <3>5
  <2>2. ASSUME NEW n \in Nodes, NEW m \in Nodes, NEW msg \in Announcing(n, m)'
        PROVE  <<n, msg.vp>> \in Creators /\ msg.body = var'[<<n, msg.vp>>]
    <3>1. msg \in Announcing(n, m)
      BY <1>2, <2>2 DEF Announcing
    <3>2. <<n, msg.vp>> \in Creators /\ msg.body = var[<<n, msg.vp>>]
      BY <3>1 DEF SpreadInv, UnderWay
    <3>3. <<n, msg.vp>> # c
      <4>1. SUFFICES ASSUME <<n, msg.vp>> = c PROVE FALSE
        OBVIOUS
      <4>2. n = c[1] /\ msg.vp = c[2]
        BY <4>1
      <4> QED BY <1>1, <3>1, <4>2, NoneAnnounced
    <3> QED BY <1>5, <3>2, <3>3
  <2>3. ASSUME NEW s \in Servers, pc'[s] = "get_data"
        PROVE  peer'[s] \in Creators /\ address'[s] = var'[peer'[s]]
    <3>1. pc[s] = "get_data" /\ peer'[s] = peer[s] /\ address'[s] = address[s]
      BY <1>2, <1>3, <2>3
    <3>2. peer[s] \in Creators /\ address[s] = var[peer[s]]
      BY <3>1 DEF SpreadInv, UnderWay
    <3>3. PICK m \in Nodes : s = Server(m)
      BY ServerFacts DEF ShapeInv
    <3>4. peer[s] # c
      BY <1>1, <3>1, <3>3, NoneAnnounced
    <3> QED BY <1>5, <3>1, <3>2, <3>4
  <2> QED BY <1>10, <2>1, <2>2, <2>3 DEF UnderWay
<1> QED BY <1>11, <1>12, <1>13 DEF SpreadInv

(* The loop goes on from a node that has the value.                        *)
LEMMA NextNodeSpread ==
  ASSUME ShapeInv, Same, SpreadInv, NEW c \in Creators, SkipOwn(c) \/ SsendDone(c)
  PROVE  SpreadInv'
<1>1. /\ Alone(c) /\ c \in Threads /\ pc[c] \in {"bcast", "ssend"} /\ pc'[c] \in {"bcast", "app"}
      /\ NextNode(c) /\ UNCHANGED <<chan, memory, var, sent, address>>
      /\ c[1] \in Nodes /\ c[2] \in WorkerVps /\ c = <<c[1], c[2]>>
  <2>1. Alone(c) /\ c \in Threads /\ pc[c] \in {"bcast", "ssend"} /\ pc'[c] \in {"bcast", "app"}
    BY SMTT(30), NextNodeShape
  <2>2. NextNode(c) /\ UNCHANGED <<chan, memory, var, sent, address>>
    BY ZenonT(30) DEF SkipOwn, SsendDone, bvars
  <2>3. c[1] \in Nodes /\ c[2] \in WorkerVps /\ c = <<c[1], c[2]>>
    BY WorkerFacts, TagFacts DEF ShapeInv
  <2> QED BY <2>1, <2>2, <2>3
<1>2. PICK k \in Nodes : k = peer[c][1]
  BY <1>1, Now
<1>3. /\ \A d \in Creators : d \in Threads
      /\ \A s \in Servers : s \in Threads /\ s # c
      /\ \A o \in Threads : o # c => pc'[o] = pc[o] /\ peer'[o] = peer[o]
  BY <1>1, AloneOthers, WorkerFacts, ServerFacts DEF ShapeInv
<1>4. memory[k][var[c]] = Value(c) /\ \A m \in Nodes : Data(c[1], m, c[2]) = {}
  <2>1. CASE SkipOwn(c)
    <3>1. k = c[1] /\ pc[c] = "bcast"
      BY <1>2, <2>1 DEF SkipOwn
    <3>2. \A m \in Nodes : Data(c[1], m, c[2]) = {}
      BY <1>1, <3>1 DEF SpreadInv, UnderWay
    <3> QED BY <3>1, <3>2 DEF Value
  <2>2. CASE SsendDone(c)
    <3>0. peer[c][2] = c[2]
      <4>1. WorkerFits(c, pc[c], peer[c])
        BY <1>1, Now, WorkerFacts DEF ShapeInv
      <4> QED BY <1>1, <4>1 DEF WorkerFits, InApplication
    <3>1. pc[c] = "ssend" /\ \A i \in DOMAIN chan[c[1]][k][c[2]] : chan[c[1]][k][c[2]][i].type # "data"
      BY ZenonT(30), <1>2, <2>2, <3>0 DEF SsendDone
    <3>2. PICK q \in Seq(AnyMessage) : q = chan[c[1]][k][c[2]]
      BY <1>1, LinkFacts
    <3>3. \A i \in 1 .. Len(q) : q[i].type # "data"
      BY <3>1, <3>2
    <3>4. Data(c[1], k, c[2]) = {}
      BY <3>2, <3>3, OfTypeFacts DEF Data
    <3>5. memory[k][var[c]] = Value(c)
      BY <1>2, <3>1, <3>4 DEF SpreadInv, Spread
    <3>6. \A m \in Nodes : m # k => Data(c[1], m, c[2]) = {}
      BY <1>1, <1>2 DEF SpreadInv, UnderWay
    <3> QED BY <3>4, <3>5, <3>6
  <2> QED BY <2>1, <2>2
<1>5. \A m \in Nodes : NotPast(c, m) => NotPast(c, m)' \/ m = k
  <2>1. SUFFICES ASSUME NEW m \in Nodes, NotPast(c, m), m # k PROVE NotPast(c, m)'
    OBVIOUS
  <2>2. k \in Int /\ m \in Int /\ k <= m /\ k + 1 <= m /\ m < NumNodes /\ NumNodes \in Int
    BY <1>2, <2>1, Numbers DEF NotPast, Nodes, ShapeInv
  <2>3. k + 1 < NumNodes
    BY <2>2
  <2>4. Goto(c, "bcast") /\ peer' = [peer EXCEPT ![c][1] = k + 1]
    BY <1>1, <1>2, <2>3 DEF NextNode
  <2>5. pc'[c] = "bcast" /\ peer'[c][1] = k + 1
    <3>1. peer'[c] = [peer[c] EXCEPT ![1] = k + 1]
      BY <1>1, <2>4 DEF ShapeInv, ThreadsFit
    <3>2. peer[c] \in Nodes \X Tags
      BY <1>1, Now
    <3> QED BY <1>1, <2>4, <3>1, <3>2, WentTo
  <2> QED BY <2>2, <2>5 DEF NotPast, InBroadcast
<1>6. \A d \in Creators : pc'[d] \in InBroadcast => pc[d] \in InBroadcast
  BY <1>1, <1>3 DEF InBroadcast
<1>7. \A d \in Creators : \A m \in Nodes : NotPast(d, m) => NotPast(d, m)' \/ memory[m][var[d]] = Value(d)
  <2>1. \A d \in Creators : d # c => \A m \in Nodes : NotPast(d, m) => NotPast(d, m)'
    BY <1>3 DEF NotPast
  <2> QED BY <1>4, <1>5, <2>1
<1>9. \A d \in Creators : \A m \in Nodes : pc'[d] = "ssend" /\ peer'[d][1] = m =>
        memory[m][var[d]] = Value(d) \/ Data(d[1], m, d[2])' # {}
  <2>1. SUFFICES ASSUME NEW d \in Creators, NEW m \in Nodes, pc'[d] = "ssend", peer'[d][1] = m
                 PROVE  memory[m][var[d]] = Value(d) \/ Data(d[1], m, d[2])' # {}
    OBVIOUS
  <2>2. pc[d] = "ssend" /\ peer[d][1] = m
    BY <1>1, <1>3, <2>1
  <2>3. memory[m][var[d]] = Value(d) \/ Data(d[1], m, d[2]) # {}
    BY <2>2 DEF SpreadInv, Spread
  <2> QED BY <1>1, <2>3 DEF Data
<1>v. /\ Nodes' = Nodes /\ Creators' = Creators /\ Servers' = Servers /\ WorkerVps' = WorkerVps
      /\ \A d : Value(d)' = Value(d)
  BY <1>1 DEF Same, Value
<1>10. UnderWay'
  <2>1. ASSUME NEW n \in Nodes, NEW m \in Nodes, NEW vp \in WorkerVps, NEW x \in Data(n, m, vp)'
        PROVE  /\ <<n, vp>> \in Creators /\ pc'[<<n, vp>>] = "ssend" /\ peer'[<<n, vp>>][1] = m
               /\ x.body = Value(<<n, vp>>)'
    <3>1. x \in Data(n, m, vp)
      BY <1>1, <2>1 DEF Data
    <3>2. /\ <<n, vp>> \in Creators /\ pc[<<n, vp>>] = "ssend" /\ peer[<<n, vp>>][1] = m
          /\ x.body = Value(<<n, vp>>)
      BY <3>1 DEF SpreadInv, UnderWay
    <3>3. <<n, vp>> # c
      <4>1. SUFFICES ASSUME <<n, vp>> = c PROVE FALSE
        OBVIOUS
      <4>2. n = c[1] /\ vp = c[2]
        BY <4>1
      <4> QED BY <1>4, <3>1, <4>2
    <3> QED BY <1>3, <1>v, <3>2, <3>3
  <2>2. ASSUME NEW n \in Nodes, NEW m \in Nodes, NEW x \in Announcing(n, m)'
        PROVE  <<n, x.vp>> \in Creators /\ x.body = var'[<<n, x.vp>>]
    <3>1. x \in Announcing(n, m)
      BY <1>1, <2>2 DEF Announcing
    <3> QED BY <1>1, <3>1 DEF SpreadInv, UnderWay
  <2>3. ASSUME NEW s \in Servers, pc'[s] = "get_data"
        PROVE  peer'[s] \in Creators /\ address'[s] = var'[peer'[s]]
    BY <1>1, <1>3, <2>3 DEF SpreadInv, UnderWay
  <2> QED BY <1>v, <2>1, <2>2, <2>3 DEF UnderWay
<1> QED BY <1>1, <1>6, <1>7, <1>9, <1>10, SpreadStays DEF SpreadInv

LEMMA SendBroadcastSpread ==
  ASSUME ShapeInv, Same, SpreadInv, setup.sendsAddress, NEW c \in Creators, SendBroadcast(c)
  PROVE  SpreadInv'
<1>0. PICK k \in Nodes : k = peer[c][1]
  BY Now, WorkerFacts DEF ShapeInv
<1>1. /\ Alone(c) /\ c \in Threads /\ pc[c] = "bcast" /\ pc'[c] = "offer"
      /\ c[1] \in Nodes /\ c[2] \in WorkerVps /\ c = <<c[1], c[2]>>
  BY <1>0, SendBroadcastShape, WorkerFacts, TagFacts DEF ShapeInv
<1>2. /\ UNCHANGED <<memory, var, sent, address, peer>>
      /\ Post(c[1], k, MaxNvps, Message("bcast", var[c], c))
  BY <1>0 DEF SendBroadcast, bvars
<1>3. /\ \A d \in Creators : d \in Threads
      /\ \A s \in Servers : s \in Threads /\ s # c
      /\ \A o \in Threads : o # c => pc'[o] = pc[o]
      /\ \A vp \in WorkerVps : vp # MaxNvps /\ vp \in Tags
      /\ MaxNvps \in Tags /\ MaxNvps \notin WorkerVps /\ MaxNvps \notin StealTags
  BY <1>1, AloneOthers, WorkerFacts, ServerFacts, TagFacts DEF ShapeInv
<1>4. PICK va \in Bodies : va = var[c]
  BY <1>1 DEF ShapeInv, MemoryTypes, Bodies
<1>5. PICK msg : msg = Message("bcast", va, c)
  OBVIOUS
<1>6. /\ msg.type = "bcast" /\ msg.body = va /\ msg.vp = c[2]
      /\ \A tag : Legal(tag, msg) => msg \in Messages(tag)
  <2>1. SetupInv /\ "bcast" \in Types /\ c \in Threads
    BY <1>1 DEF ShapeInv, Types
  <2> QED BY ONLY <1>4, <1>5, <2>1, MessageFacts
<1>7. msg \in Messages(MaxNvps)
  <2>1. Legal(MaxNvps, msg)
    BY <1>1, <1>3, <1>6 DEF Legal, Descriptors
  <2> QED BY <1>6, <2>1
<1>8. \A a \in Nodes, b \in Nodes, g \in Tags : \A type :
        OfType(chan'[a][b][g], type)
          = OfType(chan[a][b][g], type)
              \cup (IF <<a, b, g>> = <<c[1], k, MaxNvps>> /\ msg.type = type THEN {msg} ELSE {})
  <2>1. Post(c[1], k, MaxNvps, msg) /\ MaxNvps \in Tags
    BY <1>2, <1>3, <1>4, <1>5
  <2> QED BY <1>1, <1>7, <2>1, MailSent
<1>9. \A a \in Nodes, b \in Nodes, vp \in WorkerVps : Data(a, b, vp)' = Data(a, b, vp)
  <2>1. SUFFICES ASSUME NEW a \in Nodes, NEW b \in Nodes, NEW vp \in WorkerVps
                 PROVE  OfType(chan'[a][b][vp], "data") = OfType(chan[a][b][vp], "data")
    BY DEF Data
  <2>2. OfType(chan'[a][b][vp], "data")
          = OfType(chan[a][b][vp], "data")
              \cup (IF <<a, b, vp>> = <<c[1], k, MaxNvps>> /\ msg.type = "data" THEN {msg} ELSE {})
    BY <1>3, <1>8
  <2> QED BY <1>6, <2>2
<1>a. \A a \in Nodes, b \in Nodes :
        Announcing(a, b)' = Announcing(a, b) \cup (IF <<a, b>> = <<c[1], k>> THEN {msg} ELSE {})
  <2>1. SUFFICES ASSUME NEW a \in Nodes, NEW b \in Nodes
                 PROVE  OfType(chan'[a][b][MaxNvps], "bcast")
                          = OfType(chan[a][b][MaxNvps], "bcast")
                              \cup (IF <<a, b>> = <<c[1], k>> THEN {msg} ELSE {})
    BY DEF Announcing
  <2>2. OfType(chan'[a][b][MaxNvps], "bcast")
          = OfType(chan[a][b][MaxNvps], "bcast")
              \cup (IF <<a, b, MaxNvps>> = <<c[1], k, MaxNvps>> /\ msg.type = "bcast" THEN {msg} ELSE {})
    BY <1>3, <1>8
  <2>3. <<a, b, MaxNvps>> = <<c[1], k, MaxNvps>> <=> <<a, b>> = <<c[1], k>>
    OBVIOUS
  <2> QED BY <1>6, <2>2, <2>3
<1>10. ASSUME NEW a \in Nodes, NEW b \in Nodes, NEW x \in Announcing(a, b)'
       PROVE  x \in Announcing(a, b) \/ (a = c[1] /\ x = msg)
  BY <1>a, <1>10
<1>11. \A d \in Creators : /\ pc'[d] \in InBroadcast <=> pc[d] \in InBroadcast
                           /\ pc'[d] = "ssend" <=> pc[d] = "ssend"
                           /\ peer'[d] = peer[d]
  BY <1>1, <1>2, <1>3 DEF InBroadcast
<1>12. \A d \in Creators : \A m \in Nodes : NotPast(d, m) => NotPast(d, m)'
  BY <1>11 DEF NotPast
<1>13. \A d \in Creators : \A m \in Nodes : pc'[d] = "ssend" /\ peer'[d][1] = m =>
         memory[m][var[d]] = Value(d) \/ Data(d[1], m, d[2])' # {}
  <2>1. SUFFICES ASSUME NEW d \in Creators, NEW m \in Nodes, pc'[d] = "ssend", peer'[d][1] = m
                 PROVE  memory[m][var[d]] = Value(d) \/ Data(d[1], m, d[2])' # {}
    OBVIOUS
  <2>2. memory[m][var[d]] = Value(d) \/ Data(d[1], m, d[2]) # {}
    BY <1>11, <2>1 DEF SpreadInv, Spread
  <2>3. d[1] \in Nodes /\ d[2] \in WorkerVps
    BY WorkerFacts, TagFacts DEF ShapeInv
  <2> QED BY <1>9, <2>2, <2>3
<1>v. /\ Nodes' = Nodes /\ Creators' = Creators /\ Servers' = Servers /\ WorkerVps' = WorkerVps
      /\ \A d : Value(d)' = Value(d)
  BY <1>2 DEF Same, Value
<1>14. UnderWay'
  <2>1. ASSUME NEW n \in Nodes, NEW m \in Nodes, NEW vp \in WorkerVps, NEW x \in Data(n, m, vp)'
        PROVE  /\ <<n, vp>> \in Creators /\ pc'[<<n, vp>>] = "ssend" /\ peer'[<<n, vp>>][1] = m
               /\ x.body = Value(<<n, vp>>)'
    <3>1. /\ <<n, vp>> \in Creators /\ pc[<<n, vp>>] = "ssend" /\ peer[<<n, vp>>][1] = m
          /\ x.body = Value(<<n, vp>>)
      BY <1>9, <2>1 DEF SpreadInv, UnderWay
    <3> QED BY <1>11, <1>v, <3>1
  <2>2. ASSUME NEW n \in Nodes, NEW m \in Nodes, NEW x \in Announcing(n, m)'
        PROVE  <<n, x.vp>> \in Creators /\ x.body = var'[<<n, x.vp>>]
    <3>1. CASE x \in Announcing(n, m)
      BY <1>2, <3>1 DEF SpreadInv, UnderWay
    <3>2. CASE n = c[1] /\ x = msg
      <4>1. <<n, x.vp>> = c /\ x.body = var[c]
        BY <1>1, <1>4, <1>6, <3>2
      <4> QED BY <1>2, <4>1
    <3> QED BY <1>10, <2>2, <3>1, <3>2
  <2>3. ASSUME NEW s \in Servers, pc'[s] = "get_data"
        PROVE  peer'[s] \in Creators /\ address'[s] = var'[peer'[s]]
    BY <1>2, <1>3, <2>3 DEF SpreadInv, UnderWay
  <2> QED BY <1>v, <2>1, <2>2, <2>3 DEF UnderWay
<1> QED BY <1>2, <1>11, <1>12, <1>13, <1>14, SpreadStays DEF SpreadInv

LEMMA SsendSpread ==
  ASSUME ShapeInv, Same, SpreadInv, NEW c \in Creators, Ssend(c)
  PROVE  SpreadInv'
<1>0. PICK k \in Nodes : k = peer[c][1]
  BY Now, WorkerFacts DEF ShapeInv
<1>1. /\ Alone(c) /\ c \in Threads /\ pc[c] = "offer" /\ pc'[c] = "ssend"
      /\ c[1] \in Nodes /\ c[2] \in WorkerVps /\ c = <<c[1], c[2]>>
  BY <1>0, SsendShape, WorkerFacts, TagFacts DEF ShapeInv
<1>a. peer[c][2] = c[2]
  <2>1. WorkerFits(c, pc[c], peer[c])
    BY <1>1, Now, WorkerFacts DEF ShapeInv
  <2> QED BY <1>1, <2>1 DEF WorkerFits, InApplication
<1>2. /\ UNCHANGED <<memory, var, sent, address, peer>>
      /\ Post(c[1], k, c[2], Message("data", Value(c), c))
  BY <1>0, <1>a DEF Ssend, bvars, Value
<1>3. /\ \A d \in Creators : d \in Threads
      /\ \A s \in Servers : s \in Threads /\ s # c
      /\ \A o \in Threads : o # c => pc'[o] = pc[o]
      /\ \A vp \in WorkerVps : vp # MaxNvps /\ vp \in Tags /\ vp \notin StealTags
      /\ MaxNvps \in Tags
  BY <1>1, AloneOthers, WorkerFacts, ServerFacts, TagFacts DEF ShapeInv
<1>4. PICK va \in Bodies : va = Value(c)
  <2>1. var[c] \in Variables /\ memory[c[1]] \in [Variables -> Bodies]
    BY <1>1 DEF ShapeInv, MemoryTypes
  <2> QED BY <2>1 DEF Value
<1>5. PICK msg : msg = Message("data", va, c)
  OBVIOUS
<1>6. /\ msg.type = "data" /\ msg.body = va /\ msg.vp = c[2]
      /\ \A tag : Legal(tag, msg) => msg \in Messages(tag)
  <2>1. SetupInv /\ "data" \in Types /\ c \in Threads
    BY <1>1 DEF ShapeInv, Types
  <2> QED BY ONLY <1>4, <1>5, <2>1, MessageFacts
<1>7. msg \in Messages(c[2])
  <2>1. Legal(c[2], msg)
    BY <1>1, <1>3, <1>6 DEF Legal
  <2> QED BY <1>6, <2>1
<1>8. \A a \in Nodes, b \in Nodes, g \in Tags : \A type :
        OfType(chan'[a][b][g], type)
          = OfType(chan[a][b][g], type)
              \cup (IF <<a, b, g>> = <<c[1], k, c[2]>> /\ msg.type = type THEN {msg} ELSE {})
  <2>1. Post(c[1], k, c[2], msg) /\ c[2] \in Tags
    BY <1>1, <1>2, <1>3, <1>4, <1>5
  <2> QED BY <1>1, <1>7, <2>1, MailSent
<1>9. \A a \in Nodes, b \in Nodes : Announcing(a, b)' = Announcing(a, b)
  <2>1. SUFFICES ASSUME NEW a \in Nodes, NEW b \in Nodes
                 PROVE  OfType(chan'[a][b][MaxNvps], "bcast") = OfType(chan[a][b][MaxNvps], "bcast")
    BY DEF Announcing
  <2>2. OfType(chan'[a][b][MaxNvps], "bcast")
          = OfType(chan[a][b][MaxNvps], "bcast")
              \cup (IF <<a, b, MaxNvps>> = <<c[1], k, c[2]>> /\ msg.type = "bcast" THEN {msg} ELSE {})
    BY <1>3, <1>8
  <2> QED BY <1>6, <2>2
<1>10. \A a \in Nodes, b \in Nodes, vp \in WorkerVps :
         Data(a, b, vp)' = Data(a, b, vp) \cup (IF <<a, b, vp>> = <<c[1], k, c[2]>> THEN {msg} ELSE {})
  <2>1. SUFFICES ASSUME NEW a \in Nodes, NEW b \in Nodes, NEW vp \in WorkerVps
                 PROVE  OfType(chan'[a][b][vp], "data")
                          = OfType(chan[a][b][vp], "data")
                              \cup (IF <<a, b, vp>> = <<c[1], k, c[2]>> THEN {msg} ELSE {})
    BY DEF Data
  <2>2. OfType(chan'[a][b][vp], "data")
          = OfType(chan[a][b][vp], "data")
              \cup (IF <<a, b, vp>> = <<c[1], k, c[2]>> /\ msg.type = "data" THEN {msg} ELSE {})
    BY <1>3, <1>8
  <2> QED BY <1>6, <2>2
<1>11. \A d \in Creators : /\ pc'[d] \in InBroadcast <=> pc[d] \in InBroadcast
                           /\ peer'[d] = peer[d]
                           /\ d # c => pc'[d] = pc[d]
  BY <1>1, <1>2, <1>3 DEF InBroadcast
<1>12. \A d \in Creators : \A m \in Nodes : NotPast(d, m) => NotPast(d, m)'
  BY <1>11 DEF NotPast
<1>13. \A d \in Creators : \A m \in Nodes : pc'[d] = "ssend" /\ peer'[d][1] = m =>
         memory[m][var[d]] = Value(d) \/ Data(d[1], m, d[2])' # {}
  <2>1. SUFFICES ASSUME NEW d \in Creators, NEW m \in Nodes, pc'[d] = "ssend", peer'[d][1] = m
                 PROVE  memory[m][var[d]] = Value(d) \/ Data(d[1], m, d[2])' # {}
    OBVIOUS
  <2>2. d[1] \in Nodes /\ d[2] \in WorkerVps
    BY WorkerFacts, TagFacts DEF ShapeInv
  <2>3. CASE d = c
    <3>1. m = k
      BY <1>0, <1>2, <2>1, <2>3
    <3>2. Data(c[1], k, c[2])'
            = Data(c[1], k, c[2]) \cup (IF <<c[1], k, c[2]>> = <<c[1], k, c[2]>> THEN {msg} ELSE {})
      BY <1>1, <1>10
    <3> QED BY <2>3, <3>1, <3>2
  <2>4. CASE d # c
    <3>1. memory[m][var[d]] = Value(d) \/ Data(d[1], m, d[2]) # {}
      BY <1>11, <2>1, <2>4 DEF SpreadInv, Spread
    <3> QED BY <1>10, <2>2, <3>1
  <2> QED BY <2>3, <2>4
<1>v. /\ Nodes' = Nodes /\ Creators' = Creators /\ Servers' = Servers /\ WorkerVps' = WorkerVps
      /\ \A d : Value(d)' = Value(d)
  BY <1>2 DEF Same, Value
<1>14. UnderWay'
  <2>1. ASSUME NEW n \in Nodes, NEW m \in Nodes, NEW vp \in WorkerVps, NEW x \in Data(n, m, vp)'
        PROVE  /\ <<n, vp>> \in Creators /\ pc'[<<n, vp>>] = "ssend" /\ peer'[<<n, vp>>][1] = m
               /\ x.body = Value(<<n, vp>>)'
    <3>1. x \in Data(n, m, vp) \/ (n = c[1] /\ m = k /\ vp = c[2] /\ x = msg)
      BY <1>10, <2>1
    <3>2. CASE x \in Data(n, m, vp)
      <4>1. /\ <<n, vp>> \in Creators /\ pc[<<n, vp>>] = "ssend" /\ peer[<<n, vp>>][1] = m
            /\ x.body = Value(<<n, vp>>)
        BY <3>2 DEF SpreadInv, UnderWay
      <4> QED BY <1>1, <1>11, <1>v, <4>1
    <3>3. CASE n = c[1] /\ m = k /\ vp = c[2] /\ x = msg
      <4>1. <<n, vp>> = c
        BY <1>1, <3>3
      <4> QED BY <1>0, <1>1, <1>2, <1>v, <1>4, <1>6, <3>3, <4>1
    <3> QED BY <3>1, <3>2, <3>3
  <2>2. ASSUME NEW n \in Nodes, NEW m \in Nodes, NEW x \in Announcing(n, m)'
        PROVE  <<n, x.vp>> \in Creators /\ x.body = var'[<<n, x.vp>>]
    BY <1>2, <1>9, <2>2 DEF SpreadInv, UnderWay
  <2>3. ASSUME NEW s \in Servers, pc'[s] = "get_data"
        PROVE  peer'[s] \in Creators /\ address'[s] = var'[peer'[s]]
    BY <1>2, <1>3, <2>3 DEF SpreadInv, UnderWay
  <2> QED BY <1>v, <2>1, <2>2, <2>3 DEF UnderWay
<1> QED BY <1>2, <1>11, <1>12, <1>13, <1>14, SpreadStays DEF SpreadInv

LEMMA ServeBroadcastSpread ==
  ASSUME ShapeInv, Same, MatchInv, SpreadInv, NEW s \in Servers, NEW n \in Nodes,
         ServeBroadcast(s, n)
  PROVE  SpreadInv'
<1>0. PICK msg : msg = Head(chan[n][s[1]][MaxNvps])
  OBVIOUS
<1>1. PICK m \in Nodes : m = s[1]
  BY ServerFacts DEF ShapeInv
<1>2. /\ Alone(s) /\ s \in Threads /\ pc[s] = "serve" /\ pc'[s] = "get_data"
      /\ UNCHANGED <<memory, var, sent>>
      /\ address' = [address EXCEPT ![s] = msg.body]
      /\ peer' = [peer EXCEPT ![s] = <<n, msg.vp>>]
      /\ Serves(s, n, "bcast")
  BY <1>0, ServeBroadcastShape DEF ServeBroadcast
<1>3. /\ msg.type = "bcast" /\ chan[n][m][MaxNvps] # <<>> /\ Take(n, m, MaxNvps) /\ MaxNvps \in Tags
  BY <1>0, <1>1, <1>2, ServesEffect
<1>4. /\ \A d \in Creators : d \in Threads /\ d # s
      /\ \A o \in Servers : o \in Threads
      /\ \A o \in Threads : o # s => pc'[o] = pc[o] /\ peer'[o] = peer[o]
      /\ \A vp \in WorkerVps : vp # MaxNvps /\ vp \in Tags
      /\ \A d \in Creators : d[1] \in Nodes /\ d[2] \in WorkerVps
  BY <1>2, AloneOthers, WorkerFacts, ServerFacts, TagFacts DEF ShapeInv
<1>5. /\ OfType(chan'[n][m][MaxNvps], "bcast") \subseteq OfType(chan[n][m][MaxNvps], "bcast")
      /\ msg \in OfType(chan[n][m][MaxNvps], "bcast")
  <2>1. \A type :
          /\ OfType(chan'[n][m][MaxNvps], type) \subseteq OfType(chan[n][m][MaxNvps], type)
          /\ OfType(chan[n][m][MaxNvps], type)
               \subseteq OfType(chan'[n][m][MaxNvps], type) \cup {Head(chan[n][m][MaxNvps])}
          /\ Head(chan[n][m][MaxNvps]).type = type =>
               Head(chan[n][m][MaxNvps]) \in OfType(chan[n][m][MaxNvps], type)
          /\ Head(chan[n][m][MaxNvps]).type # type =>
               OfType(chan'[n][m][MaxNvps], type) = OfType(chan[n][m][MaxNvps], type)
    BY <1>3, MailTaken
  <2> QED BY <1>0, <1>1, <1>3, <2>1
<1>6. \A a \in Nodes, b \in Nodes, g \in Tags : <<a, b, g>> # <<n, m, MaxNvps>> =>
        chan'[a][b][g] = chan[a][b][g]
  BY <1>3, MailTaken
<1>7. \A a \in Nodes, b \in Nodes, vp \in WorkerVps : Data(a, b, vp)' = Data(a, b, vp)
  BY <1>4, <1>6 DEF Data
<1>8. ASSUME NEW a \in Nodes, NEW b \in Nodes, NEW x \in Announcing(a, b)'
      PROVE  x \in Announcing(a, b)
  <2>1. CASE a = n /\ b = m
    <3>1. x \in OfType(chan'[n][m][MaxNvps], "bcast")
      BY <1>8, <2>1 DEF Announcing
    <3> QED BY <1>5, <2>1, <3>1 DEF Announcing
  <2>2. CASE ~(a = n /\ b = m)
    <3>1. chan'[a][b][MaxNvps] = chan[a][b][MaxNvps]
      BY <1>3, <1>6, <2>2
    <3> QED BY <1>8, <3>1 DEF Announcing
  <2> QED BY <2>1, <2>2
<1>9. \A d \in Creators : pc'[d] = pc[d] /\ peer'[d] = peer[d]
  BY <1>4
<1>10. OwnVariable' /\ Spread'
  <2>1. \A d \in Creators : pc'[d] \in InBroadcast => pc[d] \in InBroadcast
    BY <1>9
  <2>2. \A d \in Creators : \A b \in Nodes : NotPast(d, b) => NotPast(d, b)'
    BY <1>9 DEF NotPast
  <2>3. \A d \in Creators : \A b \in Nodes : pc'[d] = "ssend" /\ peer'[d][1] = b =>
          memory[b][var[d]] = Value(d) \/ Data(d[1], b, d[2])' # {}
    <3>1. SUFFICES ASSUME NEW d \in Creators, NEW b \in Nodes, pc'[d] = "ssend", peer'[d][1] = b
                   PROVE  memory[b][var[d]] = Value(d) \/ Data(d[1], b, d[2])' # {}
      OBVIOUS
    <3>2. memory[b][var[d]] = Value(d) \/ Data(d[1], b, d[2]) # {}
      BY <1>9, <3>1 DEF SpreadInv, Spread
    <3> QED BY <1>4, <1>7, <3>2
  <2> QED BY <1>2, <2>1, <2>2, <2>3, SpreadStays
<1>v. /\ Nodes' = Nodes /\ Creators' = Creators /\ Servers' = Servers /\ WorkerVps' = WorkerVps
      /\ \A d : Value(d)' = Value(d)
  BY <1>2 DEF Same, Value
<1>11. UnderWay'
  <2>1. ASSUME NEW a \in Nodes, NEW b \in Nodes, NEW vp \in WorkerVps, NEW x \in Data(a, b, vp)'
        PROVE  /\ <<a, vp>> \in Creators /\ pc'[<<a, vp>>] = "ssend" /\ peer'[<<a, vp>>][1] = b
               /\ x.body = Value(<<a, vp>>)'
    <3>1. /\ <<a, vp>> \in Creators /\ pc[<<a, vp>>] = "ssend" /\ peer[<<a, vp>>][1] = b
          /\ x.body = Value(<<a, vp>>)
      BY <1>7, <2>1 DEF SpreadInv, UnderWay
    <3> QED BY <1>9, <1>v, <3>1
  <2>2. ASSUME NEW a \in Nodes, NEW b \in Nodes, NEW x \in Announcing(a, b)'
        PROVE  <<a, x.vp>> \in Creators /\ x.body = var'[<<a, x.vp>>]
    <3>1. x \in Announcing(a, b)
      BY <1>8, <2>2
    <3> QED BY <1>2, <3>1 DEF SpreadInv, UnderWay
  <2>3. ASSUME NEW o \in Servers, pc'[o] = "get_data"
        PROVE  peer'[o] \in Creators /\ address'[o] = var'[peer'[o]]
    <3>1. CASE o = s
      <4>1. <<n, msg.vp>> \in Creators /\ msg.body = var[<<n, msg.vp>>]
        BY <1>5 DEF Announcing, SpreadInv, UnderWay
      <4>2. peer'[s] = <<n, msg.vp>> /\ address'[s] = msg.body
        BY <1>2 DEF ShapeInv, ThreadsFit, MatchInv
      <4> QED BY <1>2, <3>1, <4>1, <4>2
    <3>2. CASE o # s
      BY <1>2, <1>4, <2>3, <3>2 DEF SpreadInv, UnderWay
    <3> QED BY <3>1, <3>2
  <2> QED BY <1>v, <2>1, <2>2, <2>3 DEF UnderWay
<1> QED BY <1>10, <1>11 DEF SpreadInv

LEMMA ReceiveDataSpread ==
  ASSUME ShapeInv, Same, MatchInv, SpreadInv, NEW s \in Servers, ReceiveData(s)
  PROVE  SpreadInv'
<1>0. PICK n \in Nodes, tag \in Tags : s \in Threads /\ n = peer[s][1] /\ tag = peer[s][2]
                                       /\ peer[s] = <<n, tag>>
  BY Now, ServerFacts DEF ShapeInv
<1>1. PICK m \in Nodes : m = s[1]
  BY ServerFacts DEF ShapeInv
<1>2. PICK msg : msg = Head(chan[n][m][tag])
  OBVIOUS
<1>3. /\ Alone(s) /\ pc[s] = "get_data" /\ pc'[s] = "serve" /\ tag \in WorkerVps /\ tag \in Tags
      /\ chan[n][m][tag] # <<>> /\ Take(n, m, tag)
  BY <1>0, <1>1, ReceiveDataShape
<1>4. /\ UNCHANGED <<var, sent, address, peer>>
      /\ memory' = IF address[s] \in Variables
                   THEN [memory EXCEPT ![m][address[s]] = msg.body] ELSE memory
  BY <1>0, <1>1, <1>2 DEF ReceiveData
<1>5. /\ \A d \in Creators : d \in Threads /\ d # s /\ d[1] \in Nodes /\ d[2] \in WorkerVps
                             /\ d = <<d[1], d[2]>>
      /\ \A o \in Servers : o \in Threads
      /\ \A o \in Threads : o # s => pc'[o] = pc[o]
      /\ \A vp \in WorkerVps : vp # MaxNvps /\ vp \in Tags
  BY <1>3, AloneOthers, WorkerFacts, ServerFacts, TagFacts DEF ShapeInv
<1>6. PICK c \in Creators : c = <<n, tag>> /\ address[s] = var[c]
  BY <1>0, <1>3 DEF SpreadInv, UnderWay
<1>7. msg.type = "data"
  <2>1. Fit(Letter(s), Head(chan[n][s[1]][tag]))
    BY <1>0, <1>1, <1>3, PayloadComes DEF Expecting
  <2>2. Letter(s).type = "bcast"
    BY <1>3 DEF Letter
  <2> QED BY <1>1, <1>2, <2>1, <2>2 DEF Fit
<1>8. /\ OfType(chan'[n][m][tag], "data") \subseteq OfType(chan[n][m][tag], "data")
      /\ msg \in OfType(chan[n][m][tag], "data")
  <2>1. \A type :
          /\ OfType(chan'[n][m][tag], type) \subseteq OfType(chan[n][m][tag], type)
          /\ OfType(chan[n][m][tag], type)
               \subseteq OfType(chan'[n][m][tag], type) \cup {Head(chan[n][m][tag])}
          /\ Head(chan[n][m][tag]).type = type =>
               Head(chan[n][m][tag]) \in OfType(chan[n][m][tag], type)
          /\ Head(chan[n][m][tag]).type # type =>
               OfType(chan'[n][m][tag], type) = OfType(chan[n][m][tag], type)
    BY <1>3, MailTaken
  <2> QED BY <1>2, <1>7, <2>1
<1>9. \A a \in Nodes, b \in Nodes, g \in Tags : <<a, b, g>> # <<n, m, tag>> =>
        chan'[a][b][g] = chan[a][b][g]
  BY <1>3, MailTaken
<1>10. pc[c] = "ssend" /\ peer[c][1] = m /\ msg.body = Value(c) /\ sent[c] > 0
  BY <1>3, <1>6, <1>8 DEF Data, SpreadInv, UnderWay, OwnVariable, InBroadcast
<1>11. \A a \in Nodes, b \in Nodes : Announcing(a, b)' = Announcing(a, b)
  BY <1>5, <1>9, <1>3, OwnTagFacts DEF Announcing, OwnTags
<1>12. ASSUME NEW a \in Nodes, NEW b \in Nodes, NEW vp \in WorkerVps
       PROVE  /\ Data(a, b, vp)' \subseteq Data(a, b, vp)
              /\ <<a, b, vp>> # <<n, m, tag>> => Data(a, b, vp)' = Data(a, b, vp)
  <2>1. CASE <<a, b, vp>> = <<n, m, tag>>
    <3>1. a = n /\ b = m /\ vp = tag
      BY <2>1
    <3> QED BY <1>8, <2>1, <3>1 DEF Data
  <2>2. CASE <<a, b, vp>> # <<n, m, tag>>
    <3>1. chan'[a][b][vp] = chan[a][b][vp]
      BY <1>5, <1>9, <2>2
    <3> QED BY <2>2, <3>1 DEF Data
  <2> QED BY <2>1, <2>2
<1>13. /\ var \in [Creators -> Variables] /\ memory \in [Nodes -> [Variables -> Bodies]]
       /\ memory' = [memory EXCEPT ![m][var[c]] = Value(c)]
  BY <1>4, <1>6, <1>10 DEF ShapeInv, MemoryTypes
<1>14. memory'[m][var[c]] = Value(c) /\ \A b \in Nodes : b # m => memory'[b][var[c]] = memory[b][var[c]]
  BY <1>13
<1>15. \A d \in Creators : d # c /\ sent[d] > 0 => \A b \in Nodes : memory'[b][var[d]] = memory[b][var[d]]
  <2>1. \A d \in Creators : d # c /\ sent[d] > 0 => var[d] # var[c] /\ var[d] \in Variables
    BY <1>10, <1>13 DEF SpreadInv, OwnVariable
  <2> QED BY <1>13, <2>1
<1>16. \A d \in Creators : sent[d] > 0 => Value(d)' = Value(d)
  <2>1. Value(c)' = Value(c)
    <3>1. memory'[c[1]][var[c]] = Value(c)
      BY <1>5, <1>14 DEF Value
    <3> QED BY <1>4, <3>1 DEF Value
  <2>2. \A d \in Creators : d # c /\ sent[d] > 0 => Value(d)' = Value(d)
    BY <1>4, <1>5, <1>15 DEF Value
  <2> QED BY <2>1, <2>2
<1>17. \A d \in Creators : pc'[d] = pc[d] /\ peer'[d] = peer[d]
  BY <1>4, <1>5
<1>v. Nodes' = Nodes /\ Creators' = Creators /\ Servers' = Servers /\ WorkerVps' = WorkerVps
  BY DEF Same
<1>18. OwnVariable'
  BY <1>4, <1>17, <1>v DEF SpreadInv, OwnVariable
<1>19. Spread'
  <2>1. ASSUME NEW d \in Creators, sent'[d] > 0, NEW b \in Nodes
        PROVE  NotPast(d, b)' \/ memory'[b][var'[d]] = Value(d)'
    <3>1. sent[d] > 0 /\ (NotPast(d, b) \/ memory[b][var[d]] = Value(d))
      BY <1>4, <2>1 DEF SpreadInv, Spread
    <3>2. NotPast(d, b) => NotPast(d, b)'
      BY <1>17 DEF NotPast
    <3>3. Value(d)' = Value(d)
      BY <1>16, <3>1
    <3>4. memory[b][var[d]] = Value(d) => memory'[b][var[d]] = Value(d)
      <4>1. CASE d = c
        BY <1>14, <4>1
      <4>2. CASE d # c
        BY <1>15, <3>1, <4>2
      <4> QED BY <4>1, <4>2
    <3> QED BY <1>4, <3>1, <3>2, <3>3, <3>4
  <2>2. ASSUME NEW d \in Creators, pc'[d] = "ssend", NEW b \in Nodes, peer'[d][1] = b
        PROVE  memory'[b][var'[d]] = Value(d)' \/ Data(d[1], b, d[2])' # {}
    <3>1. pc[d] = "ssend" /\ peer[d][1] = b
      BY <1>17, <2>2
    <3>2. sent[d] > 0 /\ Value(d)' = Value(d)
      BY <1>16, <3>1 DEF SpreadInv, OwnVariable, InBroadcast
    <3>3. CASE d = c
      <4>1. b = m
        BY <1>10, <3>1, <3>3
      <4> QED BY <1>4, <1>14, <3>2, <3>3, <4>1
    <3>4. CASE d # c
      <4>1. memory[b][var[d]] = Value(d) \/ Data(d[1], b, d[2]) # {}
        BY <3>1 DEF SpreadInv, Spread
      <4>2. <<d[1], b, d[2]>> # <<n, m, tag>>
        BY <1>5, <1>6, <3>4
      <4>3. Data(d[1], b, d[2])' = Data(d[1], b, d[2])
        BY <1>5, <1>12, <4>2
      <4>4. memory'[b][var[d]] = memory[b][var[d]]
        BY <1>15, <3>2, <3>4
      <4> QED BY <1>4, <3>2, <4>1, <4>3, <4>4
    <3> QED BY <3>3, <3>4
  <2> QED BY <1>v, <2>1, <2>2 DEF Spread
<1>20. UnderWay'
  <2>1. ASSUME NEW a \in Nodes, NEW b \in Nodes, NEW vp \in WorkerVps, NEW x \in Data(a, b, vp)'
        PROVE  /\ <<a, vp>> \in Creators /\ pc'[<<a, vp>>] = "ssend" /\ peer'[<<a, vp>>][1] = b
               /\ x.body = Value(<<a, vp>>)'
    <3>1. x \in Data(a, b, vp)
      BY <1>12, <2>1
    <3>2. PICK d : d = <<a, vp>>
      OBVIOUS
    <3>3. d \in Creators /\ pc[d] = "ssend" /\ peer[d][1] = b /\ x.body = Value(d)
      BY <3>1, <3>2 DEF SpreadInv, UnderWay
    <3>4. sent[d] > 0
      BY <3>3 DEF SpreadInv, OwnVariable, InBroadcast
    <3>5. x.body = Value(d)'
      BY <1>16, <3>3, <3>4
    <3> QED BY <1>17, <3>2, <3>3, <3>5
  <2>2. ASSUME NEW a \in Nodes, NEW b \in Nodes, NEW x \in Announcing(a, b)'
        PROVE  <<a, x.vp>> \in Creators /\ x.body = var'[<<a, x.vp>>]
    BY <1>4, <1>11, <2>2 DEF SpreadInv, UnderWay
  <2>3. ASSUME NEW o \in Servers, pc'[o] = "get_data"
        PROVE  peer'[o] \in Creators /\ address'[o] = var'[peer'[o]]
    BY <1>3, <1>4, <1>5, <2>3 DEF SpreadInv, UnderWay
  <2> QED BY <1>v, <2>1, <2>2, <2>3 DEF UnderWay
<1> QED BY <1>18, <1>19, <1>20 DEF SpreadInv

LEMMA SpreadStep ==
  ASSUME ClusterInv, PayInv, SpreadInv, setup.sendsAddress, [ClusterNext]_cvars
  PROVE  (setup.sendsAddress /\ SpreadInv)'
<1>0. ShapeInv /\ MatchInv /\ LoadInv
  BY DEF ClusterInv, PayInv
<1>1. CASE UNCHANGED cvars
  <2>1. UNCHANGED <<setup, chan, pc, peer, bvars>>
    BY <1>1 DEF cvars, vars
  <2>2. Same
    BY <2>1, SetupFixed
  <2>3. BroadcastsSame
    BY <2>1 DEF BroadcastsSame, Announcing, Data
  <2> QED BY <1>0, <2>1, <2>2, <2>3, SpreadSame
<1>2. CASE ClusterNext
  <2>1. Same /\ setup' = setup
    BY <1>2, SetupKept, SetupFixed
  <2>2. CASE Next /\ UNCHANGED bvars
    <3>1. PICK th : Plain(th, Tags)
      BY <1>0, <2>1, <2>2, PlainSteps
    <3> QED BY <1>0, <2>1, <2>2, <3>1, SpreadPlain
  <2>3. ASSUME NEW c \in Creators, NEW a \in Variables, NEW v \in Values, Broadcast(c, a, v)
        PROVE  SpreadInv'
    BY <1>0, <2>1, <2>3, BroadcastCallSpread
  <2>4. ASSUME NEW th \in Threads, BroadcastStep(th) PROVE SpreadInv'
    <3>1. ASSUME th \in Creators, SkipOwn(th) \/ SendBroadcast(th) \/ Ssend(th) \/ SsendDone(th)
          PROVE  SpreadInv'
      BY <1>0, <2>1, <3>1, NextNodeSpread, SendBroadcastSpread, SsendSpread
    <3>2. ASSUME th \in Servers, ReceiveData(th) \/ \E n \in Nodes : ServeBroadcast(th, n)
          PROVE  SpreadInv'
      BY <1>0, <2>1, <3>2, ReceiveDataSpread, ServeBroadcastSpread
    <3> QED BY <2>4, <3>1, <3>2 DEF BroadcastStep
  <2> QED BY <1>2, <2>1, <2>2, <2>3, <2>4 DEF ClusterNext
<1> QED BY <1>1, <1>2

LEMMA SpreadInvariant ==
  ClusterSpec /\ PayloadsApart /\ setup.sendsAddress => [](setup.sendsAddress /\ SpreadInv)
<1>1. ClusterInit /\ PayloadsApart => SpreadInv
  BY SpreadInit
<1>2. ClusterInv /\ PayInv /\ (setup.sendsAddress /\ SpreadInv) /\ [ClusterNext]_cvars
        => (setup.sendsAddress /\ SpreadInv)'
  BY SpreadStep
<1> QED BY <1>1, <1>2, PayInvariant, PTL DEF ClusterSpec

(* Arrived in every cluster where the address is sent: whatever broadcasts,*)
(* tasks and messages overlap, when a broadcast has returned every node has*)
(* the value.  Broadcast lets no two threads broadcast the same variable:  *)
(* the last call of each thread is the last one of its variable.           *)
THEOREM ClusterArrived == ClusterSpec /\ PayloadsApart /\ setup.sendsAddress => []Arrived
<1>1. SpreadInv => Arrived
  <2>1. SUFFICES ASSUME SpreadInv, NEW c \in Creators, pc[c] = "app", sent[c] > 0, NEW m \in Nodes
                 PROVE  memory[m][var[c]] = memory[c[1]][var[c]]
    BY DEF Arrived
  <2>2. ~NotPast(c, m)
    BY <2>1 DEF NotPast, InBroadcast
  <2> QED BY <2>1, <2>2 DEF SpreadInv, Spread, Value
<1> QED BY <1>1, SpreadInvariant, PTL
=============================================================================
