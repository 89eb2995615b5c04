----------------------------- MODULE Facts ----------------------------------
(***************************************************************************)
(* Facts about numbers and sequences that the proofs share.                *)
(***************************************************************************)
EXTENDS Integers, SequenceTheorems, FiniteSetTheorems, WellFoundedInduction, TLAPS

(* A set of natural numbers has a least element.  What holds of all        *)
(* numbers by induction is proved from it: the set of the numbers of which *)
(* it does not hold has no least element.                                  *)
LEMMA Least ==
  ASSUME NEW T, T \subseteq Nat, T # {}
  PROVE  \E x \in T : \A y \in T : x <= y
<1> DEFINE R == {ss \in Nat \X Nat : ss[1] < ss[2]}
<1>1. OpToRel(<, Nat) = R
  BY DEF OpToRel
<1>2. IsWellFoundedOn(R, Nat)
  BY <1>1, NatLessThanWellFounded
<1>3. \A a, b \in Nat : a < b => <<a, b>> \in R
  OBVIOUS
<1> HIDE DEF R
<1>4. PICK x \in T : \A y \in T : ~ (<<y, x>> \in R)
  BY <1>2, WFMin
<1>5. ASSUME NEW y \in T PROVE x <= y
  <2>1. x \in Nat /\ y \in Nat /\ ~(y < x)
    BY <1>3, <1>4
  <2> QED BY <2>1
<1> QED BY <1>5

(* There are n numbers from 1 to n.                                        *)
LEMMA IntervalCount == ASSUME NEW n \in Nat PROVE Cardinality(1 .. n) = n
<1>1. Cardinality(1 .. n) = IF 1 > n THEN 0 ELSE n - 1 + 1
  BY FS_Interval
<1> QED BY <1>1

(***************************************************************************)
(* How many elements of the sequence s are in the set M.                   *)
(***************************************************************************)
Num(s, M) == Cardinality({i \in 1 .. Len(s) : s[i] \in M})

One(b) == IF b THEN 1 ELSE 0

LEMMA NumType ==
  ASSUME NEW S, NEW s \in Seq(S), NEW M
  PROVE  /\ IsFiniteSet({i \in 1 .. Len(s) : s[i] \in M})
         /\ Num(s, M) \in Nat
<1>1. Len(s) \in Nat /\ IsFiniteSet(1 .. Len(s))
  BY FS_Interval
<1>2. IsFiniteSet({i \in 1 .. Len(s) : s[i] \in M})
  BY <1>1, FS_Subset
<1> QED BY <1>2, FS_CardinalityType DEF Num

LEMMA NumEmpty == \A M : Num(<<>>, M) = 0
<1>1. \A M : {i \in 1 .. Len(<<>>) : <<>>[i] \in M} = {}
  OBVIOUS
<1> QED BY <1>1, FS_EmptySet DEF Num

LEMMA NumZero ==
  ASSUME NEW S, NEW s \in Seq(S), NEW M
  PROVE  Num(s, M) = 0 <=> \A i \in 1 .. Len(s) : s[i] \notin M
<1>1. IsFiniteSet({i \in 1 .. Len(s) : s[i] \in M})
  BY NumType
<1>2. Num(s, M) = 0 <=> {i \in 1 .. Len(s) : s[i] \in M} = {}
  BY <1>1, FS_EmptySet DEF Num
<1> QED BY <1>2

LEMMA NumOne ==
  ASSUME NEW S, NEW s \in Seq(S), NEW M, Num(s, M) = 1
  PROVE  \E i \in 1 .. Len(s) : {j \in 1 .. Len(s) : s[j] \in M} = {i}
<1> DEFINE I == {j \in 1 .. Len(s) : s[j] \in M}
<1>1. IsFiniteSet(I) /\ Cardinality(I) = 1
  BY NumType DEF Num
<1>2. PICK i : I = {i}
  BY <1>1, FS_Singleton
<1>3. i \in 1 .. Len(s)
  BY <1>2
<1> QED BY <1>2, <1>3

LEMMA NumAppend ==
  ASSUME NEW S, NEW s \in Seq(S), NEW x \in S
  PROVE  \A M : Num(Append(s, x), M) = Num(s, M) + One(x \in M)
<1> TAKE M
<1> DEFINE I == {i \in 1 .. Len(s) : s[i] \in M}
           J == {i \in 1 .. Len(Append(s, x)) : Append(s, x)[i] \in M}
           k == Len(s) + 1
<1>1. Len(s) \in Nat /\ Len(Append(s, x)) = k
      /\ (\A i \in 1 .. Len(s) : Append(s, x)[i] = s[i]) /\ Append(s, x)[k] = x
  BY AppendProperties, LenProperties
<1>2. IsFiniteSet(I) /\ Cardinality(I) \in Nat
  BY NumType DEF Num
<1>3. k \notin I
  BY <1>1
<1>4. CASE x \in M
  <2>1. J = I \cup {k}
    BY <1>1, <1>4
  <2>2. Cardinality(I \cup {k}) = Cardinality(I) + 1
    BY <1>2, <1>3, FS_AddElement
  <2> QED BY <2>1, <2>2, <1>4 DEF Num, One
<1>5. CASE x \notin M
  <2>1. J = I
    BY <1>1, <1>5
  <2>2. Num(Append(s, x), M) = Num(s, M) /\ Num(s, M) \in Nat
    BY <2>1, <1>2 DEF Num
  <2>3. One(x \in M) = 0
    BY <1>5 DEF One
  <2> QED BY <2>2, <2>3
<1> QED BY <1>4, <1>5

LEMMA NumShift ==
  ASSUME NEW S, NEW s \in Seq(S), NEW t \in Seq(S), NEW M, Len(t) = Len(s) + 1,
         \A i \in 1 .. Len(s) : t[i + 1] = s[i]
  PROVE  Num(t, M) = Num(s, M) + One(t[1] \in M)
<1> DEFINE I == {i \in 1 .. Len(s) : s[i] \in M}
           J == {i \in 1 .. Len(t) : t[i] \in M}
           K == J \ {1}
           f == [i \in I |-> i + 1]
<1>1. Len(s) \in Nat /\ Len(t) \in Nat
  OBVIOUS
<1>2. IsFiniteSet(I) /\ IsFiniteSet(J) /\ Cardinality(J) \in Nat /\ Cardinality(I) \in Nat
  BY NumType DEF Num
<1>3. f \in Bijection(I, K)
  <2>1. \A i \in I : i + 1 \in K
    BY <1>1
  <2>2. f \in [I -> K]
    BY <2>1
  <2>3. \A a, b \in I : f[a] = f[b] => a = b
    OBVIOUS
  <2>4. ASSUME NEW j \in K PROVE \E i \in I : f[i] = j
    <3>1. j \in Nat /\ j # 1 /\ j <= Len(t) /\ t[j] \in M /\ j >= 1
      BY <1>1
    <3>2. j - 1 \in 1 .. Len(s) /\ (j - 1) + 1 = j
      BY <1>1, <3>1
    <3>3. j - 1 \in I
      BY <3>1, <3>2
    <3> QED BY <3>2, <3>3
  <2> HIDE DEF f, I, K
  <2> QED BY <2>2, <2>3, <2>4 DEF Bijection, Injection, Surjection, IsInjective
<1>4. ExistsBijection(I, K)
  BY <1>3 DEF ExistsBijection
<1>5. Cardinality(I) = Cardinality(K)
  <2> HIDE DEF I, K
  <2> QED BY <1>2, <1>4, FS_Bijection
<1>6. Cardinality(K) = IF 1 \in J THEN Cardinality(J) - 1 ELSE Cardinality(J)
  BY <1>2, FS_RemoveElement
<1>7. 1 \in J <=> t[1] \in M
  BY <1>1
<1> QED BY <1>2, <1>5, <1>6, <1>7 DEF Num, One

LEMMA NumTail ==
  ASSUME NEW S, NEW s \in Seq(S), s # <<>>
  PROVE  \A M : Num(s, M) = Num(Tail(s), M) + One(Head(s) \in M)
<1> TAKE M
<1>1. /\ Tail(s) \in Seq(S) /\ Len(Tail(s)) = Len(s) - 1 /\ Len(s) \in Nat
      /\ \A i \in 1 .. Len(Tail(s)) : Tail(s)[i] = s[i + 1]
  BY HeadTailProperties, LenProperties
<1>2. Len(s) = Len(Tail(s)) + 1 /\ \A i \in 1 .. Len(Tail(s)) : s[i + 1] = Tail(s)[i]
  BY <1>1
<1>3. Num(s, M) = Num(Tail(s), M) + One(s[1] \in M)
  BY <1>1, <1>2, NumShift
<1> QED BY <1>3

LEMMA NumPush ==
  ASSUME NEW S, NEW s \in Seq(S), NEW x \in S
  PROVE  /\ <<x>> \o s \in Seq(S)
         /\ \A M : Num(<<x>> \o s, M) = Num(s, M) + One(x \in M)
<1>1. <<x>> \in Seq(S) /\ Len(<<x>>) = 1 /\ <<x>>[1] = x
  OBVIOUS
<1>2. /\ <<x>> \o s \in Seq(S) /\ Len(<<x>> \o s) = Len(s) + 1
      /\ (<<x>> \o s)[1] = x
      /\ \A i \in 1 .. Len(s) : (<<x>> \o s)[i + 1] = s[i]
  <2>1. Len(s) \in Nat
    OBVIOUS
  <2>2. /\ <<x>> \o s \in Seq(S) /\ Len(<<x>> \o s) = 1 + Len(s)
        /\ \A i \in 1 .. 1 + Len(s) : (<<x>> \o s)[i] = IF i <= 1 THEN <<x>>[i] ELSE s[i - 1]
    <3> DEFINE a == <<x>>
    <3>1. a \in Seq(S) /\ Len(a) = 1
      BY <1>1
    <3> HIDE DEF a
    <3>2. /\ a \o s \in Seq(S) /\ Len(a \o s) = Len(a) + Len(s)
          /\ \A i \in 1 .. Len(a) + Len(s) : (a \o s)[i] = IF i <= Len(a) THEN a[i] ELSE s[i - Len(a)]
      BY <3>1, ConcatProperties
    <3>3. /\ a \o s \in Seq(S) /\ Len(a \o s) = 1 + Len(s)
          /\ \A i \in 1 .. 1 + Len(s) : (a \o s)[i] = IF i <= 1 THEN a[i] ELSE s[i - 1]
      BY <3>1, <3>2
    <3> QED BY <3>3 DEF a
  <2>3. \A i \in 1 .. Len(s) : i + 1 \in 1 .. 1 + Len(s) /\ ~(i + 1 <= 1) /\ (i + 1) - 1 = i
    BY <2>1
  <2>4. \A i \in 1 .. Len(s) : (<<x>> \o s)[i + 1] = s[i]
    <3> TAKE i \in 1 .. Len(s)
    <3>1. (<<x>> \o s)[i + 1] = IF i + 1 <= 1 THEN <<x>>[i + 1] ELSE s[(i + 1) - 1]
      BY <2>2, <2>3
    <3> QED BY <3>1, <2>3
  <2>5. Len(<<x>> \o s) = Len(s) + 1 /\ (<<x>> \o s)[1] = x
    BY <2>1, <2>2, <1>1
  <2> QED BY <2>2, <2>4, <2>5
<1> DEFINE t == <<x>> \o s
<1>3. ASSUME NEW M PROVE Num(t, M) = Num(s, M) + One(t[1] \in M)
  <2>1. t \in Seq(S) /\ Len(t) = Len(s) + 1 /\ \A i \in 1 .. Len(s) : t[i + 1] = s[i]
    BY <1>2
  <2> HIDE DEF t
  <2> QED BY <2>1, NumShift
<1> QED BY <1>2, <1>3

(* A sequence that holds an element of M is not empty, and one that holds  *)
(* nothing but elements of M holds as many as it is long.                  *)
LEMMA NumHead ==
  ASSUME NEW S, NEW s \in Seq(S), s # <<>>, NEW M, Head(s) \in M
  PROVE  Num(s, M) >= 1
<1>1. Tail(s) \in Seq(S)
  BY HeadTailProperties
<1>2. Num(Tail(s), M) \in Nat /\ Num(s, M) = Num(Tail(s), M) + 1
  BY <1>1, NumType, NumTail DEF One
<1> QED BY <1>2
=============================================================================
