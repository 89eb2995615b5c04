--------------------------- MODULE ArgumentsProofs ---------------------------
(***************************************************************************)
(* Proofs about Arguments, for every number of nodes and of arguments and  *)
(* however often the task moves.                                           *)
(***************************************************************************)
EXTENDS Arguments, SequenceTheorems, TLAPS

(***************************************************************************)
(* Types.                                                                  *)
(***************************************************************************)
Transfer == {"enqueued", "stolen"}
Receiving == {"receive", "receive_stolen"}
Before == {"none", "place", "queue", "execute"} \cup Transfer \cup Receiving
After == {"executed", "answer", "results", "done"}
AtHome == {"none", "place", "answer", "results", "done"}
Contents == {"in", "out", "changed", "scratch", "zero", "freed"}

Created == at.phase # "none"
Away == at.node # Home

(* What a creating call puts in the descriptor stays there, but for temp.  *)
Fits(i, a) ==
  /\ a = [way |-> a.way, quantity |-> a.quantity, local |-> a.local, temp |-> a.temp]
  /\ a.way \in Callways \cup {"COP2"} /\ a.quantity \in Quantities
  /\ a.way = "COP2" => a.quantity = 2
  /\ a.way = "COP" => a.quantity # 2
  /\ a.local = IF a.quantity = 0 THEN Null
               ELSE IF a.way = "COP2" THEN Copy(i)
               ELSE IF a.way = "COP" THEN Val("in") ELSE Var(i)
  /\ a.quantity = 0 => a.temp = Null

(* Where an argument is on a node that has received it.                    *)
Place(i, a, h) == IF HasBuffer(a) THEN Temp(i, h) ELSE a.local

Types ==
  /\ at = [phase |-> at.phase, node |-> at.node]
  /\ at.phase \in Before \cup After /\ at.node \in Nodes
  /\ at.phase \in AtHome => ~Away
  /\ at.phase \in Receiving => Away
  /\ hops \in 0 .. MaxHops /\ (Away \/ at.phase \in Transfer => hops >= 1)
  /\ todo \in 1 .. End
  /\ out = [kind |-> out.kind, arg |-> out.arg, todo |-> out.todo, from |-> out.from]
  /\ out.kind \in {"none", "arguments", "results"} /\ out.todo \in 1 .. End /\ out.from \in Nodes
  /\ at.phase \in Transfer \cup Receiving => out.kind = "arguments"
  /\ at.phase \in {"answer", "results"} => out.kind = "results"
  /\ out.kind = "results" => at.phase \in {"answer", "results", "done"}
  /\ mem \in [Cells -> Contents] /\ frees \in [Cells -> Nat]
  /\ seen \in [Args -> Contents \cup {"none", "wild"}]
  /\ satisfied => at.phase = "done"
  /\ ~Created => out.todo = End
  /\ Created => arg = [i \in Args |-> arg[i]] /\ \A i \in Args : Fits(i, arg[i])

(***************************************************************************)
(* Memory: what the caller passed stays in its variables and copies until  *)
(* the task has been executed, and is in the buffers of the node that has  *)
(* received it.                                                            *)
(***************************************************************************)
Caller ==
  \A i \in Args :
    /\ ~Created => mem[Var(i)] = "in"
    /\ Created /\ arg[i].way \notin {"REF", "RES"} => mem[Var(i)] \in {"in", "changed"}
    /\ at.phase \in Before /\ Created =>
         /\ arg[i].way \notin {"COP", "COP2"} => mem[Var(i)] = "in"
         /\ arg[i].way = "COP2" => mem[Copy(i)] = "in"

Arrived(i) ==
  /\ arg[i].temp = Place(i, arg[i], hops)
  /\ at.phase \in Before /\ Receives(arg[i]) => mem[Temp(i, hops)] = "in"

Buffers ==
  \A i \in Args :
    /\ Away
    /\ at.phase \in {"queue", "execute", "executed"} \/ (at.phase \in Receiving /\ i < todo)
    => Arrived(i)

(* The results are in the caller's variables or on their way there.        *)
Results ==
  \A i \in Args : Created /\ IsResult(arg[i]) =>
    /\ at.phase = "executed" => mem[IF Away THEN Temp(i, hops) ELSE Var(i)] = "out"
    /\ at.phase = "results" /\ i < todo => mem[Var(i)] = "out"
    /\ at.phase = "done" => mem[Var(i)] = "out"

(* What the sender's loop has not reached is still there to be sent.       *)
SameArg(a, b) == a.way = b.way /\ a.quantity = b.quantity /\ a.local = b.local

Sender ==
  \A i \in Args : i >= out.todo =>
    /\ SameArg(out.arg[i], arg[i]) /\ out.kind # "none"
    /\ out.kind = "arguments" =>
         /\ out.from # Home => hops > 1 /\ out.arg[i].temp = Place(i, arg[i], hops - 1)
         /\ Sent(arg[i]) => mem[IF out.from = Home THEN arg[i].local ELSE Temp(i, hops - 1)] = "in"
    /\ out.kind = "results" =>
         /\ hops >= 1 /\ out.arg[i].temp = Place(i, arg[i], hops)
         /\ IsResult(arg[i]) => mem[Temp(i, hops)] = "out"

(***************************************************************************)
(* The messages under way.                                                 *)
(***************************************************************************)
Reached ==
  IF (at.phase \in Transfer /\ Away) \/ at.phase = "answer" THEN 1
  ELSE IF at.phase \in Receiving \cup {"results"} THEN todo ELSE End

Travels(i) == IF out.kind = "results" THEN IsResult(arg[i]) ELSE Sent(arg[i])
Data == IF out.kind = "results" THEN "out" ELSE "in"

Messages == [arg : Args, data : {"in", "out"}]

(* The messages in s are one for each argument in I, in their order.       *)
Lists(s, I) ==
  /\ \A k \in 1 .. Len(s) : s[k].arg \in I
  /\ \A i \in I : \E k \in 1 .. Len(s) : s[k].arg = i
  /\ \A k, l \in 1 .. Len(s) : k < l => s[k].arg < s[l].arg

UnderWay == {i \in Args : Reached <= i /\ i < out.todo /\ Travels(i)}

Mail ==
  /\ chan \in Seq(Messages)
  /\ Lists(chan, UnderWay)
  /\ \A k \in 1 .. Len(chan) : chan[k].data = Data
  /\ \A i \in Args : out.todo <= i /\ i < Reached => ~Travels(i)

Freed ==
  \A i \in Args :
    /\ frees[Var(i)] = 0
    /\ frees[Copy(i)] = IF at.phase = "done" /\ arg[i].way = "COP2" THEN 1 ELSE 0
    /\ \A h \in 1 .. MaxHops :
         /\ frees[Temp(i, h)] <= 1
         /\ h # hops \/ out.kind # "results" \/ i >= out.todo => frees[Temp(i, h)] = 0

ArgumentsInv ==
  Types /\ Caller /\ Buffers /\ Results /\ Sender /\ Mail /\ Freed /\ SeesCallerData

-----------------------------------------------------------------------------
LEMMA ArgFacts ==
  /\ NArgs \in Nat /\ NArgs >= 1 /\ End = NArgs + 1 /\ Args = 1 .. NArgs
  /\ \A i \in Args : i \in Nat /\ i >= 1 /\ i < End /\ i + 1 \in 1 .. End
  /\ \A i \in 1 .. End : i # End => i \in Args
  /\ 1 \in 1 .. End /\ End \in 1 .. End
BY ArgumentsAssumption DEF Args, End

(* The cells are different from each other and from the values.            *)
LEMMA CellFacts ==
  /\ \A i \in Args : Var(i) \in Cells /\ Copy(i) \in Cells
  /\ \A i \in Args, h \in 1 .. MaxHops : Temp(i, h) \in Cells
  /\ \A i, j : Var(i) = Var(j) => i = j
  /\ \A i, j : Copy(i) = Copy(j) => i = j
  /\ \A i, j, g, h : Temp(i, g) = Temp(j, h) => i = j /\ g = h
  /\ \A i, j : Var(i) # Copy(j)
  /\ \A i, j, h : Var(i) # Temp(j, h) /\ Copy(i) # Temp(j, h)
<1>1. \A i, j : Var(i) # Copy(j) /\ (Var(i) = Var(j) => i = j) /\ (Copy(i) = Copy(j) => i = j)
  BY DEF Var, Copy
<1>2. \A i, j, h : Var(i) # Temp(j, h) /\ Copy(i) # Temp(j, h)
  <2>1. \A i, j, h : Var(i)[1] = "var" /\ Copy(i)[1] = "copy" /\ Temp(j, h)[1] = "temp"
    BY DEF Var, Copy, Temp
  <2> QED BY <2>1
<1>3. \A i, j, g, h : Temp(i, g) = Temp(j, h) => i = j /\ g = h
  BY DEF Temp
<1>4. \A i \in Args : Var(i) \in Cells /\ Copy(i) \in Cells
  BY DEF Cells
<1>5. \A i \in Args, h \in 1 .. MaxHops : Temp(i, h) \in Cells
  BY DEF Cells
<1> QED BY <1>1, <1>2, <1>3, <1>4, <1>5

(* Every cell is one of them.                                              *)
LEMMA CellKinds ==
  ASSUME NEW c \in Cells
  PROVE  \/ \E i \in Args : c = Var(i)
         \/ \E i \in Args : c = Copy(i)
         \/ \E i \in Args, h \in 1 .. MaxHops : c = Temp(i, h)
BY DEF Cells

LEMMA Words ==
  /\ \A i : Var(i)[1] = "var" /\ Copy(i)[1] = "copy" /\ Copy(i)[2] = i
  /\ \A i, h : Temp(i, h)[1] = "temp" /\ Temp(i, h)[3] = h
  /\ \A x : Val(x)[1] = "val" /\ Val(x)[2] = x
  /\ Null[1] = "null"
BY DEF Var, Copy, Temp, Val, Null

(***************************************************************************)
(* Lists of messages.                                                      *)
(***************************************************************************)
LEMMA ListsEmpty == Lists(<<>>, {})
<1>1. PICK s : s = <<>>
  OBVIOUS
<1>2. 1 .. Len(s) = {}
  BY <1>1
<1>3. Lists(s, {})
  BY <1>2 DEF Lists
<1> QED BY <1>1, <1>3

LEMMA ListsNothing ==
  ASSUME NEW s \in Seq(Messages), Lists(s, {})
  PROVE  s = <<>>
<1>1. \A k \in 1 .. Len(s) : FALSE
  BY DEF Lists
<1>2. Len(s) \in Nat
  OBVIOUS
<1>3. Len(s) = 0
  BY <1>1, <1>2
<1> QED BY <1>3, EmptySeq

LEMMA ListsAppend ==
  ASSUME NEW s \in Seq(Messages), NEW I, Lists(s, I), NEW x \in Messages,
         \A i \in I : i < x.arg
  PROVE  Lists(Append(s, x), I \cup {x.arg})
<1> DEFINE t == Append(s, x)
<1>1. /\ Len(s) \in Nat /\ Len(t) = Len(s) + 1
      /\ (\A k \in 1 .. Len(s) : t[k] = s[k]) /\ t[Len(s) + 1] = x
  BY AppendProperties, LenProperties
<1> HIDE DEF t
<1>2. \A k \in 1 .. Len(t) : (k \in 1 .. Len(s) /\ t[k] = s[k]) \/ (k = Len(s) + 1 /\ t[k] = x)
  BY <1>1
<1>3. \A k \in 1 .. Len(t) : t[k].arg \in I \cup {x.arg}
  BY <1>2 DEF Lists
<1>4. \A i \in I \cup {x.arg} : \E k \in 1 .. Len(t) : t[k].arg = i
  <2>1. \A i \in I : \E k \in 1 .. Len(s) : s[k].arg = i
    BY DEF Lists
  <2>2. 1 .. Len(s) \subseteq 1 .. Len(t) /\ Len(s) + 1 \in 1 .. Len(t)
    BY <1>1
  <2>3. \A i \in I : \E k \in 1 .. Len(t) : t[k].arg = i
    BY <1>1, <2>1, <2>2
  <2> QED BY <1>1, <2>2, <2>3
<1>5. ASSUME NEW k \in 1 .. Len(t), NEW l \in 1 .. Len(t), k < l PROVE t[k].arg < t[l].arg
  <2>1. k \in 1 .. Len(s) /\ t[k] = s[k]
    BY <1>1, <1>5
  <2>2. CASE l \in 1 .. Len(s)
    BY <1>1, <1>5, <2>1, <2>2 DEF Lists
  <2>3. CASE l = Len(s) + 1
    <3>1. s[k].arg \in I
      BY <2>1 DEF Lists
    <3> QED BY <1>1, <2>1, <2>3, <3>1
  <2> QED BY <1>1, <2>2, <2>3
<1> QED BY <1>3, <1>4, <1>5 DEF Lists, t

LEMMA ListsTail ==
  ASSUME NEW s \in Seq(Messages), NEW I \in SUBSET Nat, Lists(s, I), s # <<>>, NEW i \in I,
         \A j \in I : i <= j
  PROVE  /\ Head(s).arg = i /\ Head(s) \in Messages /\ Tail(s) \in Seq(Messages)
         /\ Lists(Tail(s), I \ {i})
<1> DEFINE t == Tail(s)
<1>1. /\ Len(s) \in Nat /\ Len(s) >= 1 /\ Len(t) = Len(s) - 1 /\ Head(s) = s[1] /\ t \in Seq(Messages)
      /\ \A k \in 1 .. Len(t) : t[k] = s[k + 1]
  BY HeadTailProperties, LenProperties, EmptySeq
<1> HIDE DEF t
<1>2. \A k \in 1 .. Len(s) : s[k] \in Messages /\ s[k].arg \in I /\ s[k].arg \in Nat
  <2>1. \A k \in 1 .. Len(s) : s[k] \in Messages
    OBVIOUS
  <2>2. \A k \in 1 .. Len(s) : s[k].arg \in I
    BY DEF Lists
  <2> QED BY <2>1, <2>2
<1>3. s[1].arg = i
  <2>1. PICK k \in 1 .. Len(s) : s[k].arg = i
    BY DEF Lists
  <2>2. 1 \in 1 .. Len(s) /\ i <= s[1].arg
    BY <1>1, <1>2
  <2>3. CASE k = 1
    BY <2>1, <2>3
  <2>4. CASE k # 1
    <3>1. s[1].arg < s[k].arg
      BY <1>1, <2>4 DEF Lists
    <3> QED BY <1>2, <2>1, <2>2, <3>1
  <2> QED BY <2>3, <2>4
<1>4. ASSUME NEW k \in 1 .. Len(t) PROVE k + 1 \in 1 .. Len(s) /\ k + 1 > 1 /\ t[k] = s[k + 1]
  BY <1>1
<1>5. ASSUME NEW k \in 1 .. Len(t) PROVE t[k].arg \in I \ {i}
  <2>1. k + 1 \in 1 .. Len(s) /\ 1 < k + 1 /\ t[k] = s[k + 1] /\ 1 \in 1 .. Len(s)
    BY <1>1, <1>4
  <2>2. s[1].arg < s[k + 1].arg
    BY <2>1 DEF Lists
  <2> QED BY <1>2, <1>3, <2>1, <2>2
<1>6. ASSUME NEW j \in I \ {i} PROVE \E k \in 1 .. Len(t) : t[k].arg = j
  <2>1. PICK k \in 1 .. Len(s) : s[k].arg = j
    BY DEF Lists
  <2>2. k # 1
    BY <1>3, <1>6, <2>1
  <2>3. k - 1 \in 1 .. Len(t) /\ (k - 1) + 1 = k
    BY <1>1, <2>2
  <2>4. t[k - 1] = s[k]
    BY <1>1, <2>3
  <2> QED BY <2>1, <2>3, <2>4
<1>7. ASSUME NEW k \in 1 .. Len(t), NEW l \in 1 .. Len(t), k < l PROVE t[k].arg < t[l].arg
  <2>1. k + 1 \in 1 .. Len(s) /\ l + 1 \in 1 .. Len(s) /\ k + 1 < l + 1
    BY <1>1, <1>7
  <2>2. s[k + 1].arg < s[l + 1].arg
    BY <2>1 DEF Lists
  <2> QED BY <1>1, <2>2
<1>8. Lists(t, I \ {i})
  BY <1>5, <1>6, <1>7 DEF Lists
<1>9. Head(s) \in Messages
  BY <1>1, <1>2
<1> QED BY <1>1, <1>3, <1>8, <1>9 DEF t

(***************************************************************************)
(* The steps.                                                              *)
(***************************************************************************)
LEMMA ArgumentsInvInit == Init => ArgumentsInv
<1> SUFFICES ASSUME Init PROVE ArgumentsInv
  OBVIOUS
<1>1. /\ at = [phase |-> "none", node |-> Home] /\ hops = 0 /\ todo = End /\ satisfied = FALSE
      /\ out = [kind |-> "none", arg |-> <<>>, todo |-> End, from |-> Home]
  BY DEF Init, Idle
<1>2. \A i \in Args : mem[Var(i)] = "in"
  BY CellFacts, Words DEF Init
<1>3. frees = [c \in Cells |-> 0] /\ \A c \in Cells : frees[c] = 0
  BY DEF Init
<1>4. Types
  <2>1. mem \in [Cells -> Contents] /\ frees \in [Cells -> Nat]
    BY <1>3 DEF Init, Contents
  <2>2. seen \in [Args -> Contents \cup {"none", "wild"}]
    BY DEF Init
  <2> QED BY <1>1, <2>1, <2>2, ArgFacts, ArgumentsAssumption
             DEF Types, AtHome, Away, Created, Transfer, Receiving, Before
<1>5. UnderWay = {} /\ chan = <<>>
  <2>1. Reached = End
    BY <1>1 DEF Reached, Transfer, Receiving
  <2>2. \A i \in Args : i < End
    BY ArgFacts
  <2>3. \A i \in Args : ~(End <= i)
    BY ArgFacts
  <2> QED BY <2>1, <2>3 DEF UnderWay, Init
<1>6. Mail
  <2>1. Reached = End /\ \A i \in Args : ~(out.todo <= i)
    BY <1>1, ArgFacts DEF Reached, Transfer, Receiving
  <2>2. 1 .. Len(chan) = {} /\ chan \in Seq(Messages)
    BY <1>5
  <2> QED BY <1>5, <2>1, <2>2, ListsEmpty DEF Mail
<1>7. Caller /\ Buffers /\ Results /\ SeesCallerData
  BY <1>1, <1>2 DEF Caller, Buffers, Results, SeesCallerData, Created, Away
<1>8. Sender
  BY <1>1, ArgFacts DEF Sender
<1>9. Freed
  BY <1>1, <1>3, CellFacts DEF Freed
<1> QED BY <1>4, <1>6, <1>7, <1>8, <1>9 DEF ArgumentsInv

(* What the invariant says of one argument.                                *)
LEMMA Now ==
  ASSUME Types, Created
  PROVE  /\ \A i \in Args : Fits(i, arg[i])
         /\ \A i \in Args : arg[i].way \in Callways \cup {"COP2"} /\ arg[i].quantity \in Quantities
         /\ \A i \in Args : Sent(arg[i]) <=> Receives(arg[i])
         /\ \A i \in Args : Receives(arg[i]) => HasBuffer(arg[i])
         /\ \A i \in Args : IsResult(arg[i]) => HasBuffer(arg[i]) /\ arg[i].local = Var(i)
         /\ \A i \in Args : HasBuffer(arg[i]) => arg[i].quantity # 0
<1>1. \A i \in Args : Fits(i, arg[i])
  BY DEF Types
<1>2. ASSUME NEW i \in Args
      PROVE  /\ arg[i].way \in Callways \cup {"COP2"} /\ arg[i].quantity \in Quantities
             /\ Sent(arg[i]) <=> Receives(arg[i])
             /\ Receives(arg[i]) => HasBuffer(arg[i])
             /\ IsResult(arg[i]) => HasBuffer(arg[i]) /\ arg[i].local = Var(i)
             /\ HasBuffer(arg[i]) => arg[i].quantity # 0
  <2>1. PICK w, q, c : w = arg[i].way /\ q = arg[i].quantity /\ c = arg[i].local
    OBVIOUS
  <2>2. /\ w \in {"COP", "REF", "RES", "PTR", "COP2"} /\ q \in {0, 1, 2}
        /\ w = "COP2" => q = 2
        /\ w = "COP" => q # 2
        /\ c = IF q = 0 THEN Null
               ELSE IF w = "COP2" THEN Copy(i) ELSE IF w = "COP" THEN Val("in") ELSE Var(i)
    BY <1>1, <2>1 DEF Fits, Callways, Quantities
  <2>3. /\ Sent(arg[i]) <=> q # 0 /\ ((w = "COP" /\ q # 1) \/ w \in {"REF", "PTR", "COP2"})
        /\ HasBuffer(arg[i]) <=> q > 1 \/ (q = 1 /\ w # "COP")
        /\ Receives(arg[i]) <=> HasBuffer(arg[i]) /\ w # "RES"
        /\ IsResult(arg[i]) <=> q # 0 /\ w \in {"REF", "RES"}
    BY <2>1 DEF Sent, HasBuffer, Receives, IsResult
  <2> QED BY <2>1, <2>2, <2>3 DEF Callways, Quantities
<1> QED BY <1>1, <1>2

(* Steps that change neither the sender nor what travels.                  *)
LEMMA SenderStays ==
  ASSUME Sender, UNCHANGED <<out, hops>>,
         \A i \in Args : i >= out.todo =>
           /\ SameArg(arg[i], arg'[i])
           /\ out.kind = "arguments" /\ Sent(arg[i]) =>
                LET c == IF out.from = Home THEN arg[i].local ELSE Temp(i, hops - 1) IN
                mem[c] = "in" => mem'[c] = "in"
           /\ out.kind = "results" /\ IsResult(arg[i]) => mem'[Temp(i, hops)] = mem[Temp(i, hops)]
  PROVE  Sender'
<1> SUFFICES ASSUME NEW i \in Args, i >= out.todo
             PROVE  /\ SameArg(out.arg[i], arg'[i]) /\ out.kind # "none"
                    /\ out.kind = "arguments" =>
                         /\ out.from # Home => hops > 1 /\ out.arg[i].temp = Place(i, arg'[i], hops - 1)
                         /\ Sent(arg'[i]) =>
                              mem'[IF out.from = Home THEN arg'[i].local ELSE Temp(i, hops - 1)] = "in"
                    /\ out.kind = "results" =>
                         /\ hops >= 1 /\ out.arg[i].temp = Place(i, arg'[i], hops)
                         /\ IsResult(arg'[i]) => mem'[Temp(i, hops)] = "out"
  BY DEF Sender
<1>1. /\ SameArg(arg[i], arg'[i]) /\ SameArg(out.arg[i], arg[i])
      /\ Sent(arg'[i]) <=> Sent(arg[i])
      /\ IsResult(arg'[i]) <=> IsResult(arg[i])
      /\ arg'[i].local = arg[i].local
      /\ \A h : Place(i, arg'[i], h) = Place(i, arg[i], h)
  BY DEF Sender, SameArg, Sent, IsResult, Place, HasBuffer
<1>2. SameArg(out.arg[i], arg'[i])
  BY <1>1 DEF SameArg
<1> QED BY <1>1, <1>2 DEF Sender

(* Steps that change neither the messages nor which ones travel.           *)
LEMMA MailStays ==
  ASSUME Mail, UNCHANGED <<chan, out>>, Reached' = Reached,
         \A i \in Args : Reached <= i \/ (out.todo <= i /\ i < Reached) => (Travels(i)' <=> Travels(i))
  PROVE  Mail'
<1>1. Data' = Data
  BY DEF Data
<1>2. UnderWay' = UnderWay
  BY DEF UnderWay
<1>3. \A i \in Args : out.todo <= i /\ i < Reached => ~Travels(i)'
  BY DEF Mail
<1> QED BY <1>1, <1>2, <1>3 DEF Mail, Lists

(* The loops of sender and receiver are both at their end.                 *)
LEMMA NoMail ==
  ASSUME Mail, UNCHANGED <<chan, out>>, Reached = End, Reached' = End,
         \A i \in Args : out.todo <= i => ~Travels(i)'
  PROVE  Mail' /\ chan = <<>>
<1>1. \A i \in Args : ~(End <= i)
  BY ArgFacts
<1>2. UnderWay = {} /\ UnderWay' = {}
  BY <1>1 DEF UnderWay
<1>3. chan = <<>>
  BY <1>2, ListsNothing DEF Mail
<1>4. 1 .. Len(chan) = {}
  BY <1>3
<1> QED BY <1>2, <1>3, <1>4 DEF Mail, Lists

LEMMA CreateInv ==
  ASSUME ArgumentsInv, NEW how, NEW ways \in [Args -> Callways], NEW qs \in [Args -> Quantities],
         Create(how, ways, qs)
  PROVE  ArgumentsInv'
<1>0. /\ Types /\ Caller /\ Mail /\ Freed /\ ~Created /\ Created' /\ at.phase = "none"
      /\ at' = [phase |-> "place", node |-> Home]
      /\ UNCHANGED <<todo, out, chan, frees, hops, seen, satisfied>>
  BY DEF ArgumentsInv, Create, Created
<1>1. /\ \A i \in Args : arg'[i] = Marshal(i, ways[i], qs[i])
      /\ arg' = [i \in Args |-> arg'[i]]
  BY DEF Create
<1>2. ASSUME NEW i \in Args
      PROVE  /\ Fits(i, arg'[i]) /\ arg'[i].way = IF ways[i] = "COP" /\ qs[i] > 1 THEN "COP2" ELSE ways[i]
             /\ arg'[i].local = Copy(i) <=> arg'[i].way = "COP2"
  <2>1. mem[Var(i)] = "in"
    BY <1>0 DEF Caller
  <2>2. Copy(i) # Var(i) /\ Copy(i) # Val("in") /\ Copy(i) # Null
    BY CellFacts, Words
  <2>3. PICK w, q : w = ways[i] /\ q = qs[i] /\ w \in {"COP", "REF", "RES", "PTR"} /\ q \in {0, 1, 2}
    BY DEF Callways, Quantities
  <2>4. arg'[i] = [way |-> IF w = "COP" /\ q > 1 THEN "COP2" ELSE w, quantity |-> q,
                   local |-> IF q = 0 THEN Null
                             ELSE IF w # "COP" THEN Var(i)
                             ELSE IF q = 1 THEN Val("in") ELSE Copy(i),
                   temp |-> Null]
    BY <1>1, <2>1, <2>3 DEF Marshal
  <2> QED BY <2>2, <2>3, <2>4 DEF Fits, Callways, Quantities
<1>3. /\ mem' \in [Cells -> Contents]
      /\ \A i \in Args : mem'[Var(i)] = "in" /\ (arg'[i].way = "COP2" => mem'[Copy(i)] = "in")
  <2>1. mem' = [c \in Cells |-> IF c[1] = "copy" /\ arg'[c[2]].local = c THEN mem[Var(c[2])] ELSE mem[c]]
    BY DEF Create
  <2>2. ASSUME NEW c \in Cells PROVE mem'[c] \in Contents
    <3>1. CASE c[1] = "copy"
      <4>1. PICK i \in Args : c = Copy(i)
        BY <3>1, CellKinds, Words
      <4>2. c[2] = i /\ Var(i) \in Cells
        BY <4>1, Words, CellFacts
      <4> QED BY <1>0, <2>1, <4>2 DEF Types
    <3>2. CASE c[1] # "copy"
      BY <1>0, <2>1, <3>2 DEF Types
    <3> QED BY <3>1, <3>2
  <2>3. mem' \in [Cells -> Contents]
    BY <2>1, <2>2
  <2>4. ASSUME NEW i \in Args PROVE mem'[Var(i)] = "in" /\ (arg'[i].way = "COP2" => mem'[Copy(i)] = "in")
    <3>1. /\ Var(i) \in Cells /\ Copy(i) \in Cells /\ Var(i)[1] # "copy" /\ Copy(i)[1] = "copy"
          /\ Copy(i)[2] = i /\ mem[Var(i)] = "in"
      BY <1>0, CellFacts, Words DEF Caller
    <3> QED BY <1>2, <2>1, <3>1
  <2> QED BY <2>3, <2>4
<1>4. Types'
  BY <1>0, <1>1, <1>2, <1>3, ArgumentsAssumption, ArgFacts
     DEF Types, Created, Away, AtHome, Transfer, Receiving, Before, After
<1>5. Caller'
  BY <1>0, <1>2, <1>3 DEF Caller
<1>6. Buffers' /\ Results' /\ SeesCallerData'
  BY <1>0 DEF Buffers, Results, SeesCallerData, Receiving
<1>7. out.todo = End /\ \A i \in Args : ~(out.todo <= i)
  BY <1>0, ArgFacts DEF Types
<1>8. Sender'
  BY <1>0, <1>7, ArgFacts DEF Sender
<1>9. Mail'
  <2>1. Reached = End /\ Reached' = End
    BY <1>0 DEF Reached, Transfer, Receiving
  <2> QED BY <1>0, <1>7, <2>1, NoMail
<1>10. Freed'
  BY <1>0 DEF Freed
<1> QED BY <1>4, <1>5, <1>6, <1>8, <1>9, <1>10 DEF ArgumentsInv

LEMMA CallerChangesInv ==
  ASSUME ArgumentsInv, NEW j \in Args, CallerChanges(j)
  PROVE  ArgumentsInv'
<1>0. /\ Types /\ Caller /\ Buffers /\ Results /\ Sender /\ Mail /\ Freed /\ Created
      /\ UNCHANGED <<call, at, arg, todo, out, chan, frees, hops, seen, satisfied>>
      /\ arg[j].way \in {"COP", "COP2"} /\ mem' = [mem EXCEPT ![Var(j)] = "changed"]
  BY DEF ArgumentsInv, CallerChanges, Created
<1>1. /\ mem' \in [Cells -> Contents]
      /\ \A c \in Cells : mem'[c] = IF c = Var(j) THEN "changed" ELSE mem[c]
  BY <1>0, CellFacts DEF Types, Contents
<1>2. /\ \A i \in Args : i # j => mem'[Var(i)] = mem[Var(i)]
      /\ mem'[Var(j)] = "changed"
      /\ \A i \in Args : mem'[Copy(i)] = mem[Copy(i)]
      /\ \A i \in Args, h \in 1 .. MaxHops : mem'[Temp(i, h)] = mem[Temp(i, h)]
  BY <1>1, CellFacts
<1>3. Types'
  BY <1>0, <1>1 DEF Types, Created, Away
<1>4. Caller'
  BY <1>0, <1>2 DEF Caller, Created
<1>5. Buffers'
  <2>1. \A i \in Args : Away => hops \in 1 .. MaxHops
    BY <1>0 DEF Types
  <2> QED BY <1>0, <1>2, <2>1 DEF Buffers, Arrived, Away
<1>6. ~IsResult(arg[j])
  BY <1>0 DEF IsResult
<1>7. Results'
  <2>1. Away => hops \in 1 .. MaxHops
    BY <1>0 DEF Types
  <2> QED BY <1>0, <1>2, <1>6, <2>1 DEF Results, Created, Away
<1>8. Sender'
  <2>1. \A i \in Args : i >= out.todo =>
          /\ out.kind = "arguments" /\ out.from # Home => hops - 1 \in 1 .. MaxHops
          /\ out.kind = "results" => hops \in 1 .. MaxHops
    <3>1. hops \in 0 .. MaxHops
      BY <1>0 DEF Types
    <3>2. \A i \in Args : i >= out.todo =>
            /\ out.kind = "arguments" /\ out.from # Home => hops > 1
            /\ out.kind = "results" => hops >= 1
      BY <1>0 DEF Sender
    <3> QED BY <3>1, <3>2, ArgumentsAssumption
  <2>2. \A i \in Args : Sent(arg[i]) => \/ arg[i].local = Copy(i)
                                        \/ arg[i].local = Var(i) /\ i # j
    <3> TAKE i \in Args
    <3>1. Fits(i, arg[i])
      BY <1>0, Now
    <3>2. Sent(arg[i]) => arg[i].quantity # 0 /\ arg[i].way # "COP"
      BY <3>1 DEF Fits, Sent, Quantities
    <3>3. arg[i].quantity # 0 /\ arg[i].way = "COP2" => arg[i].local = Copy(i)
      BY <3>1 DEF Fits
    <3>4. arg[i].quantity # 0 /\ arg[i].way \notin {"COP", "COP2"} => arg[i].local = Var(i) /\ i # j
      BY <1>0, <3>1 DEF Fits
    <3> QED BY <3>2, <3>3, <3>4
  <2> QED BY <1>0, <1>2, <2>1, <2>2, SenderStays DEF SameArg
<1>9. Mail'
  <2>1. Reached' = Reached /\ \A i : Travels(i)' <=> Travels(i)
    BY <1>0 DEF Reached, Travels, Away
  <2> QED BY <1>0, <2>1, MailStays
<1>10. Freed' /\ SeesCallerData'
  BY <1>0 DEF Freed, ArgumentsInv, SeesCallerData
<1> QED BY <1>3, <1>4, <1>5, <1>7, <1>8, <1>9, <1>10 DEF ArgumentsInv

LEMMA PlaceHereInv ==
  ASSUME ArgumentsInv, PlaceHere
  PROVE  ArgumentsInv'
<1>0. /\ Types /\ Caller /\ Buffers /\ Results /\ Sender /\ Mail /\ Freed /\ Created /\ Created'
      /\ UNCHANGED <<call, todo, out, chan, mem, frees, hops, seen, satisfied>>
      /\ at.phase = "place" /\ at'.phase = "queue" /\ at'.node = at.node
      /\ at' = [phase |-> at'.phase, node |-> at'.node] /\ ~Away /\ ~Away'
  BY DEF ArgumentsInv, PlaceHere, Created, Away, Types, AtHome
<1>1. /\ \A i \in Args : arg'[i] = [arg[i] EXCEPT !.temp = arg[i].local]
      /\ arg' = [i \in Args |-> arg'[i]]
  BY DEF PlaceHere
<1>2. \A i \in Args : Fits(i, arg'[i]) /\ SameArg(arg[i], arg'[i])
  <2> TAKE i \in Args
  <2>1. Fits(i, arg[i])
    BY <1>0, Now
  <2>2. arg'[i] = [way |-> arg[i].way, quantity |-> arg[i].quantity, local |-> arg[i].local,
                   temp |-> arg[i].local]
    BY <1>1, <2>1 DEF Fits
  <2> QED BY <2>1, <2>2 DEF Fits, SameArg
<1>3. Types'
  BY <1>0, <1>1, <1>2 DEF Types, AtHome, Before, Transfer, Receiving, After
<1>4. Caller'
  BY <1>0, <1>2 DEF Caller, SameArg, Before
<1>5. Buffers' /\ Results' /\ SeesCallerData'
  BY <1>0 DEF Buffers, Results, SeesCallerData
<1>6. Sender'
  BY <1>0, <1>2, SenderStays
<1>7. Mail'
  <2>1. Reached = End /\ Reached' = End
    BY <1>0 DEF Reached, Transfer, Receiving
  <2>2. \A i \in Args : Travels(i)' <=> Travels(i)
    BY <1>0, <1>2 DEF Travels, SameArg, IsResult, Sent
  <2> QED BY <1>0, <2>1, <2>2, MailStays
<1>8. Freed'
  BY <1>0 DEF Freed
<1> QED BY <1>3, <1>4, <1>5, <1>6, <1>7, <1>8 DEF ArgumentsInv

(* A task that is waiting for its next node has nothing under way.         *)
LEMMA Quiet ==
  ASSUME ArgumentsInv, Reached = End
  PROVE  chan = <<>>
<1>1. \A i \in Args : ~(End <= i)
  BY ArgFacts
<1>2. UnderWay = {}
  BY <1>1 DEF UnderWay
<1> QED BY <1>2, ListsNothing DEF ArgumentsInv, Mail

LEMMA SendInv ==
  ASSUME ArgumentsInv, NEW phase \in Transfer, NEW m \in Nodes, at.phase \in {"place", "queue"},
         Send(phase, m)
  PROVE  ArgumentsInv'
<1>0. /\ Types /\ Caller /\ Buffers /\ Freed /\ Created /\ Created' /\ Mail
      /\ UNCHANGED <<call, arg, todo, chan, mem, frees, seen, satisfied>>
      /\ hops < MaxHops /\ hops' = hops + 1 /\ m # at.node /\ out.todo = End
      /\ at' = [phase |-> phase, node |-> m]
      /\ out' = [kind |-> "arguments", arg |-> arg, from |-> at.node,
                 todo |-> IF m = Home THEN End ELSE 1]
  BY DEF ArgumentsInv, Send, Created, Types, Transfer
<1>1. hops \in Nat /\ hops' \in 1 .. MaxHops /\ hops' - 1 = hops /\ MaxHops \in Nat
  BY <1>0, ArgumentsAssumption DEF Types
<1>2. Types'
  BY <1>0, <1>1, ArgFacts DEF Types, AtHome, Before, Transfer, Receiving, Away
<1>3. Caller'
  BY <1>0 DEF Caller, Before, Transfer
<1>4. Buffers' /\ Results' /\ SeesCallerData'
  BY <1>0 DEF Buffers, Results, SeesCallerData, Transfer, Receiving
<1>5. Sender'
  <2> SUFFICES ASSUME NEW i \in Args, i >= out'.todo
               PROVE  /\ SameArg(out'.arg[i], arg'[i]) /\ out'.kind # "none"
                      /\ out'.kind = "arguments" =>
                           /\ out'.from # Home => hops' > 1 /\ out'.arg[i].temp = Place(i, arg'[i], hops' - 1)
                           /\ Sent(arg'[i]) =>
                                mem'[IF out'.from = Home THEN arg'[i].local ELSE Temp(i, hops' - 1)] = "in"
                      /\ out'.kind # "results"
    BY DEF Sender
  <2>1. SameArg(out'.arg[i], arg'[i]) /\ out'.kind = "arguments" /\ out'.from = at.node /\ out'.arg = arg
    BY <1>0 DEF SameArg
  <2>2. CASE at.node = Home
    <3>1. Sent(arg[i]) => mem[arg[i].local] = "in"
      <4>1. Fits(i, arg[i])
        BY <1>0, Now
      <4>2. Sent(arg[i]) => arg[i].way \notin {"COP"} /\ arg[i].quantity # 0
        BY <4>1 DEF Sent, Fits, Quantities
      <4>3. at.phase \in Before
        BY DEF Before
      <4> QED BY <1>0, <4>1, <4>2, <4>3 DEF Caller, Fits
    <3> QED BY <1>0, <2>1, <2>2, <3>1
  <2>3. CASE at.node # Home
    <3>1. Away /\ at.phase = "queue" /\ hops >= 1
      BY <1>0, <2>3 DEF Away, Types, AtHome
    <3>2. Arrived(i)
      BY <1>0, <3>1 DEF Buffers
    <3>3. Sent(arg[i]) => mem[Temp(i, hops)] = "in"
      <4>1. Sent(arg[i]) => Receives(arg[i])
        BY <1>0, Now
      <4> QED BY <3>1, <3>2, <4>1 DEF Arrived, Before
    <3> QED BY <1>0, <1>1, <2>1, <2>3, <3>1, <3>2, <3>3 DEF Arrived
  <2> QED BY <2>1, <2>2, <2>3
<1>6. Mail'
  <2>1. Reached = End
    BY DEF Reached, Transfer, Receiving
  <2>2. chan = <<>>
    BY <2>1, Quiet
  <2>3. Reached' = out'.todo
    BY <1>0 DEF Reached, Transfer, Receiving, Away
  <2>4. \A i \in Args : ~(Reached' <= i /\ i < out'.todo) /\ ~(out'.todo <= i /\ i < Reached')
    BY <1>0, <2>3, ArgFacts
  <2>5. UnderWay' = {}
    BY <2>4 DEF UnderWay
  <2>6. chan' = <<>> /\ 1 .. Len(chan') = {} /\ chan' \in Seq(Messages)
    BY <1>0, <2>2
  <2> QED BY <2>4, <2>5, <2>6, ListsEmpty DEF Mail
<1>7. Freed'
  <2> SUFFICES ASSUME NEW i \in Args
               PROVE  /\ frees[Var(i)] = 0 /\ frees[Copy(i)] = 0
                      /\ \A h \in 1 .. MaxHops : frees[Temp(i, h)] = 0
    BY <1>0 DEF Freed, Transfer
  <2>1. out.kind # "results" /\ at.phase # "done"
    BY <1>0 DEF Types
  <2> QED BY <1>0, <2>1 DEF Freed
<1> QED BY <1>2, <1>3, <1>4, <1>5, <1>6, <1>7 DEF ArgumentsInv

(* The sender's loop takes one step: the message it sends is the last one  *)
(* under way, and no message is sent that the receiver's loop has passed.  *)
LEMMA MailGrows ==
  ASSUME Types, Mail, out.todo \in Args, UNCHANGED <<arg, todo, at>>,
         out'.kind = out.kind, out'.todo = out.todo + 1, NEW result \in BOOLEAN,
         result <=> Travels(out.todo),
         chan' = IF result THEN Append(chan, [arg |-> out.todo, data |-> Data]) ELSE chan
  PROVE  Mail'
<1> DEFINE i == out.todo
           x == [arg |-> i, data |-> Data]
<1>1. Reached' = Reached /\ Data' = Data /\ \A j : Travels(j)' <=> Travels(j)
  BY DEF Reached, Data, Travels, Away
<1>2. i \in Nat /\ Reached \in Nat /\ \A j \in Args : j \in Nat
  BY ArgFacts DEF Types, Reached
<1>3. \A j \in Args : out'.todo <= j /\ j < Reached => ~Travels(j)'
  BY <1>1, <1>2 DEF Mail
<1>4. CASE result
  <2>1. Reached <= i
    BY <1>2, <1>4 DEF Mail
  <2>2. UnderWay' = UnderWay \cup {i}
    BY <1>1, <1>2, <1>4, <2>1 DEF UnderWay
  <2>3. x \in Messages /\ x.arg = i /\ x.data = Data
    BY DEF Messages, Data
  <2>4. \A j \in UnderWay : j < x.arg
    BY DEF UnderWay
  <2> HIDE DEF x, i
  <2>5. chan \in Seq(Messages) /\ chan' = Append(chan, x)
    BY <1>4 DEF Mail, x, i
  <2>6. Lists(chan', UnderWay')
    BY <2>2, <2>3, <2>4, <2>5, ListsAppend DEF Mail
  <2>7. /\ chan' \in Seq(Messages) /\ Len(chan') = Len(chan) + 1 /\ Len(chan) \in Nat
        /\ (\A k \in 1 .. Len(chan) : chan'[k] = chan[k]) /\ chan'[Len(chan) + 1] = x
    BY <2>3, <2>5, AppendProperties, LenProperties
  <2>8. \A k \in 1 .. Len(chan') : chan'[k].data = Data
    BY <2>3, <2>7 DEF Mail
  <2> QED BY <1>1, <1>3, <2>6, <2>7, <2>8 DEF Mail, Lists
<1>5. CASE ~result
  <2>1. UnderWay' = UnderWay
    BY <1>1, <1>2, <1>5 DEF UnderWay
  <2> QED BY <1>1, <1>3, <1>5, <2>1 DEF Mail, Lists
<1> QED BY <1>4, <1>5

(* The receiver's loop takes one step: the message it takes is the one for *)
(* the argument it has reached.                                            *)
LEMMA MailShrinks ==
  ASSUME Types, Mail, todo \in Args, UNCHANGED <<out, at>>, todo' = todo + 1,
         at.phase \in Receiving \cup {"results"}, NEW receives \in BOOLEAN,
         receives <=> Travels(todo), \A j \in Args : Travels(j)' <=> Travels(j),
         receives => chan # <<>>, chan' = IF receives THEN Tail(chan) ELSE chan
  PROVE  Mail' /\ (receives => Head(chan).arg = todo /\ Head(chan).data = Data)
<1>1. PICK i \in Args, e \in 1 .. End : i = todo /\ e = out.todo
  BY DEF Types
<1>2. Reached = i /\ Reached' = i + 1 /\ Data' = Data /\ out'.todo = e
  BY <1>1 DEF Reached, Data, Transfer, Receiving
<1>3. i \in Nat /\ e \in Nat /\ \A j \in Args : j \in Nat
  BY ArgFacts
<1>4. \A j : j \in UnderWay <=> j \in Args /\ i <= j /\ j < e /\ Travels(j)
  BY <1>1, <1>2 DEF UnderWay
<1>5. \A j : j \in UnderWay' <=> j \in Args /\ i + 1 <= j /\ j < e /\ Travels(j)
  BY <1>1, <1>2 DEF UnderWay
<1>6. (\A j \in Args : e <= j /\ j < i => ~Travels(j)) /\ (receives <=> Travels(i))
  BY <1>1, <1>2 DEF Mail
<1>7. CASE receives
  <2>1. chan \in Seq(Messages) /\ chan # <<>> /\ chan' = Tail(chan)
    BY <1>7 DEF Mail
  <2>2. Len(chan) \in Nat /\ Len(chan) >= 1 /\ Head(chan) = chan[1]
    BY <2>1, HeadTailProperties, LenProperties, EmptySeq
  <2>3. 1 \in 1 .. Len(chan)
    BY <2>2
  <2>4. chan[1].arg \in UnderWay /\ chan[1].data = Data
    BY <2>3 DEF Mail, Lists
  <2>5. PICK f \in Args : f = chan[1].arg /\ i <= f /\ f < e
    BY <1>4, <2>4
  <2>6. i < e
    BY <1>3, <2>5
  <2>61. i \in UnderWay
    <3>1. Travels(i) /\ i <= i
      BY <1>3, <1>6, <1>7
    <3> QED BY <1>4, <2>6, <3>1
  <2>62. \A j \in UnderWay : i <= j
    BY <1>4
  <2>63. UnderWay \in SUBSET Nat
    BY <1>3 DEF UnderWay
  <2>7. UnderWay' = UnderWay \ {i}
    <3>1. \A j \in Args : i + 1 <= j <=> i <= j /\ j # i
      BY <1>3
    <3> QED BY <1>4, <1>5, <3>1
  <2>8. Head(chan).arg = i /\ chan' \in Seq(Messages) /\ Lists(chan', UnderWay')
    BY <2>1, <2>61, <2>62, <2>63, <2>7, ListsTail DEF Mail
  <2>9. \A k \in 1 .. Len(chan') : chan'[k].data = Data
    <3>1. Len(chan') = Len(chan) - 1 /\ \A k \in 1 .. Len(chan') : chan'[k] = chan[k + 1]
      BY <2>1, HeadTailProperties
    <3>2. \A k \in 1 .. Len(chan') : k + 1 \in 1 .. Len(chan)
      BY <2>2, <3>1
    <3> QED BY <3>1, <3>2 DEF Mail
  <2>10. \A j \in Args : ~(e <= j /\ j < i + 1)
    BY <1>3, <2>6
  <2> QED BY <1>1, <1>2, <2>2, <2>4, <2>8, <2>9, <2>10 DEF Mail, Lists
<1>8. CASE ~receives
  <2>1. UnderWay' = UnderWay
    <3>1. \A j \in Args : i <= j /\ Travels(j) <=> i + 1 <= j /\ Travels(j)
      BY <1>3, <1>6, <1>8
    <3> QED BY <1>4, <1>5, <3>1
  <2>2. \A j \in Args : e <= j /\ j < i + 1 => ~Travels(j)
    <3>1. \A j \in Args : j < i + 1 => j < i \/ j = i
      BY <1>3
    <3> QED BY <1>6, <1>8, <3>1
  <2> QED BY <1>1, <1>2, <1>8, <2>1, <2>2 DEF Mail, Lists
<1> QED BY <1>7, <1>8

LEMMA SendArgumentsInv ==
  ASSUME ArgumentsInv, SendArguments
  PROVE  ArgumentsInv'
<1>0. /\ Types /\ Caller /\ Buffers /\ Results /\ Sender /\ Mail /\ Freed /\ SeesCallerData
      /\ UNCHANGED <<call, at, arg, todo, mem, frees, hops, seen, satisfied>>
      /\ out.kind = "arguments" /\ out.todo \in Args /\ out' = [out EXCEPT !.todo = @ + 1]
  BY ArgFacts DEF ArgumentsInv, SendArguments, Types
<1>1. Created
  BY <1>0, ArgFacts DEF Types
<1>2. /\ out' = [kind |-> out.kind, arg |-> out.arg, todo |-> out.todo + 1, from |-> out.from]
      /\ out'.kind = "arguments" /\ out'.todo = out.todo + 1 /\ out'.arg = out.arg
      /\ out'.from = out.from /\ out'.todo \in 1 .. End
  BY <1>0, ArgFacts DEF Types
<1>3. Types'
  BY <1>0, <1>1, <1>2 DEF Types, Created, Away
<1>4. Caller' /\ Buffers' /\ Results' /\ SeesCallerData' /\ Freed'
  BY <1>0, <1>2 DEF Caller, Buffers, Arrived, Results, SeesCallerData, Freed, Created, Away
<1>5. \A i \in Args : i >= out'.todo => i >= out.todo
  BY <1>0, <1>2, ArgFacts
<1>6. Sender'
  BY <1>0, <1>2, <1>5 DEF Sender
<1>7. PICK i \in Args : i = out.todo
  BY <1>0
<1>8. /\ SameArg(out.arg[i], arg[i])
      /\ out.from # Home => hops > 1 /\ out.arg[i].temp = Place(i, arg[i], hops - 1)
      /\ Sent(arg[i]) => mem[IF out.from = Home THEN arg[i].local ELSE Temp(i, hops - 1)] = "in"
  <2>1. i >= out.todo
    BY <1>7, ArgFacts
  <2> QED BY <1>0, <2>1 DEF Sender
<1>9. Sent(out.arg[i]) <=> Travels(i)
  BY <1>0, <1>8 DEF Travels, SameArg, Sent
<1>10. Sent(out.arg[i]) => mem[IF out.from = Home THEN out.arg[i].local ELSE out.arg[i].temp] = Data
  <2>1. Data = "in"
    BY <1>0 DEF Data
  <2>2. Sent(out.arg[i]) => Sent(arg[i]) /\ HasBuffer(arg[i])
    BY <1>0, <1>1, <1>9, Now DEF Travels
  <2> QED BY <1>8, <2>1, <2>2 DEF SameArg, Place
<1>11. chan' = IF Sent(out.arg[i]) THEN Append(chan, [arg |-> i, data |-> Data]) ELSE chan
  <2>1. chan' = IF Sent(out.arg[i])
                THEN Append(chan, [arg |-> i,
                       data |-> mem[IF out.from = Home THEN out.arg[i].local ELSE out.arg[i].temp]])
                ELSE chan
    BY <1>7 DEF SendArguments
  <2> QED BY <1>10, <2>1
<1>12. Mail'
  <2>1. Sent(out.arg[i]) \in BOOLEAN
    BY DEF Sent
  <2>2. PICK result \in BOOLEAN : result <=> Sent(out.arg[i])
    BY <2>1
  <2> QED BY <1>0, <1>2, <1>7, <1>9, <1>11, <2>2, MailGrows
<1> QED BY <1>3, <1>4, <1>6, <1>12 DEF ArgumentsInv

LEMMA ReceiveDescriptorInv ==
  ASSUME ArgumentsInv, ReceiveDescriptor
  PROVE  ArgumentsInv'
<1>0. /\ Types /\ Caller /\ Buffers /\ Results /\ Sender /\ Mail /\ Freed /\ Created
      /\ UNCHANGED <<call, arg, out, chan, mem, frees, hops, seen, satisfied>>
      /\ at.phase \in Transfer
  BY DEF ArgumentsInv, ReceiveDescriptor, Created, Transfer
<1>1. /\ at'.node = at.node /\ at' = [phase |-> at'.phase, node |-> at'.node]
      /\ ~Away => at'.phase \in {"queue", "execute"} /\ todo' = todo
      /\ Away => at'.phase \in Receiving /\ todo' = 1
      /\ Away' <=> Away
  BY <1>0 DEF ReceiveDescriptor, Types, Away, Transfer, Receiving
<1>2. /\ at'.phase \in Before /\ Created' /\ at.phase \in Before /\ at'.phase # "done"
      /\ at'.phase \notin {"executed", "results", "answer", "none", "place"} /\ at.phase # "done"
      /\ hops >= 1 /\ out.kind = "arguments"
  BY <1>0, <1>1 DEF Before, Created, Receiving, Transfer, Types
<1>3. Types'
  <2>1. at'.phase \in Transfer \cup Receiving => out'.kind = "arguments"
    BY <1>0, <1>2
  <2>2. at'.phase \in AtHome => ~Away'
    BY <1>2 DEF AtHome
  <2>3. at'.phase \in Receiving => Away'
    BY <1>1 DEF Receiving
  <2>4. todo' \in 1 .. End
    BY <1>0, <1>1, ArgFacts DEF Types
  <2>5. ~satisfied' /\ at'.phase \notin {"answer", "results"} /\ out'.kind # "results"
    BY <1>0, <1>2 DEF Types
  <2>6. out' = out /\ arg' = arg /\ mem' = mem /\ frees' = frees /\ seen' = seen /\ hops' = hops
    BY <1>0
  <2> QED BY <1>0, <1>1, <1>2, <2>1, <2>2, <2>3, <2>4, <2>5, <2>6 DEF Types
<1>4. Caller'
  BY <1>0, <1>2 DEF Caller
<1>5. Buffers'
  <2> SUFFICES ASSUME NEW i \in Args, Away',
                      at'.phase \in {"queue", "execute", "executed"} \/ (at'.phase \in Receiving /\ i < todo')
               PROVE  FALSE
    BY DEF Buffers
  <2> QED BY <1>1, ArgFacts DEF Receiving
<1>6. Results' /\ SeesCallerData'
  BY <1>2 DEF Results, SeesCallerData
<1>7. Sender'
  BY <1>0, SenderStays DEF SameArg
<1>8. Mail'
  <2>1. Reached' = Reached
    BY <1>0, <1>1, ArgFacts DEF Reached, Transfer, Receiving
  <2> QED BY <1>0, <2>1, MailStays DEF Travels
<1>9. Freed'
  BY <1>0, <1>2 DEF Freed
<1> QED BY <1>3, <1>4, <1>5, <1>6, <1>7, <1>8, <1>9 DEF ArgumentsInv

LEMMA ReceiveArgumentsInv ==
  ASSUME ArgumentsInv, ReceiveArguments
  PROVE  ArgumentsInv'
<1>0. /\ Types /\ Caller /\ Buffers /\ Results /\ Sender /\ Mail /\ Freed /\ Created /\ Away
      /\ UNCHANGED <<call, at, out, frees, hops, seen, satisfied>>
      /\ at.phase \in Receiving /\ todo \in Args /\ todo' = todo + 1
  BY ArgFacts DEF ArgumentsInv, ReceiveArguments, Created, Receiving, Types
<1>1. PICK t \in Args : t = todo
  BY <1>0
<1>2. /\ Away' /\ Created' /\ hops \in 1 .. MaxHops /\ out.kind = "arguments"
      /\ at.phase \in Before /\ at.phase \notin {"executed", "answer", "results", "done", "queue", "execute", "none"}
  BY <1>0, ArgumentsAssumption DEF Away, Created, Types, Before, Receiving
<1>3. PICK receives \in BOOLEAN : receives <=> Receives(arg[t])
  BY DEF Receives, HasBuffer
<1>4. /\ receives => chan # <<>>
      /\ arg' = [arg EXCEPT ![t].temp = IF HasBuffer(arg[t]) THEN Temp(t, hops)
                                        ELSE IF arg[t].quantity = 0 THEN @ ELSE arg[t].local]
      /\ mem' = IF receives THEN [mem EXCEPT ![Temp(t, hops)] = Head(chan).data] ELSE mem
      /\ chan' = IF receives THEN Tail(chan) ELSE chan
  BY <1>1, <1>3 DEF ReceiveArguments
<1>5. Fits(t, arg[t]) /\ arg = [i \in Args |-> arg[i]] /\ \A i \in Args : Fits(i, arg[i])
  BY <1>0 DEF Types
<1>6. /\ arg' = [i \in Args |-> arg'[i]]
      /\ \A i \in Args : i # t => arg'[i] = arg[i]
      /\ arg'[t] = [way |-> arg[t].way, quantity |-> arg[t].quantity, local |-> arg[t].local,
                    temp |-> Place(t, arg[t], hops)]
  <2>1. HasBuffer(arg[t]) => arg[t].quantity # 0
    BY <1>0, Now
  <2>2. ~HasBuffer(arg[t]) /\ arg[t].quantity = 0 => arg[t].temp = arg[t].local
    BY <1>5 DEF Fits
  <2>3. arg'[t] = [arg[t] EXCEPT !.temp = Place(t, arg[t], hops)]
    BY <1>4, <1>5, <2>1, <2>2 DEF Place
  <2>4. arg[t] = [way |-> arg[t].way, quantity |-> arg[t].quantity, local |-> arg[t].local, temp |-> arg[t].temp]
    BY <1>5 DEF Fits
  <2>5. arg' = [i \in Args |-> arg'[i]] /\ \A i \in Args : i # t => arg'[i] = arg[i]
    BY <1>4, <1>5
  <2> QED BY <2>3, <2>4, <2>5
<1>7. \A i \in Args : SameArg(arg[i], arg'[i])
  BY <1>6 DEF SameArg
<1>8. \A i \in Args : /\ Receives(arg'[i]) <=> Receives(arg[i])
                      /\ IsResult(arg'[i]) <=> IsResult(arg[i])
                      /\ Sent(arg'[i]) <=> Sent(arg[i])
                      /\ \A h : Place(i, arg'[i], h) = Place(i, arg[i], h)
  BY <1>7 DEF SameArg, Receives, IsResult, Sent, Place, HasBuffer
<1>9. Mail' /\ (receives => Head(chan).arg = t /\ Head(chan).data = "in")
  <2>1. \A i \in Args : Travels(i)' <=> Travels(i)
    BY <1>0, <1>8 DEF Travels
  <2>2. receives <=> Travels(t)
    BY <1>0, <1>2, <1>3, Now DEF Travels
  <2>3. Data = "in"
    BY <1>2 DEF Data
  <2>4. chan' = IF receives THEN Tail(chan) ELSE chan
    BY <1>4
  <2>5. receives => chan # <<>>
    BY <1>4
  <2>6. UNCHANGED <<out, at>> /\ at.phase \in Receiving \cup {"results"} /\ (receives <=> Travels(todo))
    BY <1>0, <1>1, <2>2
  <2>7. Mail' /\ (receives => Head(chan).arg = todo /\ Head(chan).data = Data)
    BY <1>0, <2>1, <2>4, <2>5, <2>6, MailShrinks
  <2> QED BY <1>1, <2>3, <2>7
<1>10. /\ mem' \in [Cells -> Contents]
       /\ \A c \in Cells : c # Temp(t, hops) => mem'[c] = mem[c]
       /\ receives => mem'[Temp(t, hops)] = "in"
  <2>1. Temp(t, hops) \in Cells
    BY <1>2, CellFacts
  <2> QED BY <1>0, <1>4, <1>9, <2>1 DEF Types, Contents
<1>11. /\ \A i \in Args : mem'[Var(i)] = mem[Var(i)] /\ mem'[Copy(i)] = mem[Copy(i)]
       /\ \A i \in Args, h \in 1 .. MaxHops : i # t \/ h # hops => mem'[Temp(i, h)] = mem[Temp(i, h)]
  BY <1>10, CellFacts
<1>12. Types'
  <2>1. \A i \in Args : Fits(i, arg'[i])
    <3> TAKE i \in Args
    <3>1. CASE i = t
      <4>1. arg[t].quantity = 0 => Place(t, arg[t], hops) = Null
        BY <1>5, <1>0, Now DEF Fits, Place
      <4> QED BY <1>5, <1>6, <3>1, <4>1 DEF Fits
    <3>2. CASE i # t
      BY <1>5, <1>6, <3>2
    <3> QED BY <3>1, <3>2
  <2>2. todo' \in 1 .. End
    BY <1>0, ArgFacts
  <2>3. at' = at /\ out' = out /\ frees' = frees /\ seen' = seen /\ hops' = hops /\ satisfied' = satisfied
    BY <1>0
  <2> QED BY <1>0, <1>2, <1>6, <1>10, <2>1, <2>2, <2>3 DEF Types, Away, Created
<1>13. Caller'
  BY <1>0, <1>2, <1>7, <1>11 DEF Caller, SameArg
<1>14. Buffers'
  <2> SUFFICES ASSUME NEW i \in Args, i < todo'
               PROVE  Arrived(i)'
    BY <1>0, <1>2 DEF Buffers
  <2>1. i < t \/ i = t
    BY <1>0, <1>1, ArgFacts
  <2>2. CASE i = t
    BY <1>0, <1>3, <1>6, <1>8, <1>10, <2>2 DEF Arrived
  <2>3. CASE i < t /\ i # t
    <3>1. Arrived(i)
      BY <1>0, <1>1, <2>3 DEF Buffers
    <3> QED BY <1>0, <1>2, <1>6, <1>11, <2>3, <3>1 DEF Arrived
  <2> QED BY <2>1, <2>2, <2>3
<1>15. Results' /\ SeesCallerData'
  BY <1>0, <1>2 DEF Results, SeesCallerData
<1>16. Sender'
  <2>1. \A i \in Args : i >= out.todo /\ Sent(arg[i]) =>
          LET c == IF out.from = Home THEN arg[i].local ELSE Temp(i, hops - 1) IN mem'[c] = mem[c]
    <3> TAKE i \in Args
    <3> SUFFICES ASSUME i >= out.todo, Sent(arg[i])
                 PROVE  LET c == IF out.from = Home THEN arg[i].local ELSE Temp(i, hops - 1) IN mem'[c] = mem[c]
      OBVIOUS
    <3>1. CASE out.from = Home
      <4>1. Fits(i, arg[i]) /\ arg[i].quantity # 0 /\ arg[i].way # "COP"
        BY <1>5 DEF Sent, Fits, Quantities
      <4>2. arg[i].local \in {Var(i), Copy(i)}
        BY <4>1 DEF Fits
      <4> QED BY <1>11, <3>1, <4>2
    <3>2. CASE out.from # Home
      <4>1. hops > 1
        BY <1>0, <1>2, <3>2 DEF Sender
      <4>2. hops - 1 \in 1 .. MaxHops /\ hops - 1 # hops
        BY <1>2, <4>1, ArgumentsAssumption
      <4> QED BY <1>11, <3>2, <4>2
    <3> QED BY <3>1, <3>2
  <2> QED BY <1>0, <1>2, <1>7, <2>1, SenderStays
<1>17. Freed'
  BY <1>0, <1>2 DEF Freed
<1> QED BY <1>9, <1>12, <1>13, <1>14, <1>15, <1>16, <1>17 DEF ArgumentsInv

(* The loops are at their end: what the sender still holds does not travel.*)
LEMMA Settled ==
  ASSUME ArgumentsInv, Reached = End, at.phase \in Before \cup {"executed"}
  PROVE  /\ out.kind # "results"
         /\ \A i \in Args : i >= out.todo => ~Sent(arg[i])
<1>1. out.kind # "results"
  BY DEF ArgumentsInv, Types, Before, Transfer, Receiving
<1>2. Mail /\ Types
  BY DEF ArgumentsInv
<1>3. \A i \in Args : out.todo <= i /\ i < Reached => ~Travels(i)
  BY <1>2 DEF Mail
<1>4. PICK e \in 1 .. End : e = out.todo
  BY <1>2 DEF Types
<1>5. \A i \in Args : i >= e => e <= i /\ i < End
  BY ArgFacts
<1> QED BY <1>1, <1>3, <1>4, <1>5 DEF Travels

LEMMA ReceivedInv ==
  ASSUME ArgumentsInv, Received
  PROVE  ArgumentsInv'
<1>0. /\ Types /\ Caller /\ Buffers /\ Results /\ Sender /\ Mail /\ Freed /\ Created /\ Away
      /\ UNCHANGED <<call, arg, todo, out, chan, mem, frees, hops, seen, satisfied>>
      /\ at.phase \in Receiving /\ todo = End
  BY DEF ArgumentsInv, Received, Created, Receiving, Types
<1>1. at'.node = at.node /\ at' = [phase |-> at'.phase, node |-> at'.node]
      /\ at'.phase \in {"queue", "execute"} /\ Away' /\ Created'
  BY <1>0 DEF Received, Types, Away, Created
<1>2. at.phase \in Before /\ at'.phase \in Before
  BY <1>0, <1>1 DEF Before
<1>3. Types'
  BY <1>0, <1>1, <1>2 DEF Types, AtHome, Receiving, Transfer
<1>4. Caller'
  BY <1>0, <1>1, <1>2 DEF Caller
<1>5. Buffers'
  <2>1. \A i \in Args : i < todo
    BY <1>0, ArgFacts
  <2>2. \A i \in Args : Arrived(i)
    BY <1>0, <2>1 DEF Buffers
  <2>3. \A i \in Args : Arrived(i)'
    BY <1>0, <1>2, <2>2 DEF Arrived
  <2> QED BY <2>3 DEF Buffers
<1>6. Results' /\ SeesCallerData'
  BY <1>1 DEF Results, SeesCallerData
<1>7. Sender'
  BY <1>0, SenderStays DEF SameArg
<1>8. Mail'
  <2>1. Reached = End /\ Reached' = End
    BY <1>0, <1>1 DEF Reached, Transfer, Receiving
  <2>2. \A i : Travels(i)' <=> Travels(i)
    BY <1>0 DEF Travels
  <2> QED BY <1>0, <2>1, <2>2, MailStays
<1>9. Freed'
  BY <1>0, <1>1 DEF Freed, Receiving
<1> QED BY <1>3, <1>4, <1>5, <1>6, <1>7, <1>8, <1>9 DEF ArgumentsInv

LEMMA DequeueInv ==
  ASSUME ArgumentsInv, Dequeue
  PROVE  ArgumentsInv'
<1>0. /\ Types /\ Caller /\ Buffers /\ Results /\ Sender /\ Mail /\ Freed /\ Created
      /\ UNCHANGED <<call, arg, todo, out, chan, mem, frees, hops, seen, satisfied>>
      /\ at.phase = "queue" /\ at' = [at EXCEPT !.phase = "execute"]
  BY DEF ArgumentsInv, Dequeue, Created
<1>1. at'.node = at.node /\ at' = [phase |-> "execute", node |-> at.node]
      /\ Away' = Away /\ Created'
  BY <1>0 DEF Types, Away, Created
<1>2. at.phase \in Before /\ at'.phase \in Before /\ at'.phase = "execute"
  BY <1>0, <1>1 DEF Before
<1>3. Types'
  BY <1>0, <1>1, <1>2 DEF Types, AtHome, Receiving, Transfer
<1>4. Caller'
  BY <1>0, <1>1, <1>2 DEF Caller
<1>5. Buffers'
  BY <1>0, <1>1, <1>2 DEF Buffers, Arrived, Receiving
<1>6. Results' /\ SeesCallerData'
  BY <1>1 DEF Results, SeesCallerData
<1>7. Sender'
  BY <1>0, SenderStays DEF SameArg
<1>8. Mail'
  <2>1. Reached = End /\ Reached' = End
    BY <1>0, <1>1 DEF Reached, Transfer, Receiving
  <2>2. \A i : Travels(i)' <=> Travels(i)
    BY <1>0 DEF Travels
  <2> QED BY <1>0, <2>1, <2>2, MailStays
<1>9. Freed'
  BY <1>0, <1>1 DEF Freed
<1> QED BY <1>3, <1>4, <1>5, <1>6, <1>7, <1>8, <1>9 DEF ArgumentsInv

(* What core_execution finds in the words of the descriptor.               *)
LEMMA WordIs ==
  ASSUME ArgumentsInv, at.phase = "execute", NEW i \in Args
  PROVE  /\ arg[i].quantity = 0 => Word(i) = Null
         /\ arg[i].quantity # 0 /\ arg[i].way = "COP" => Word(i) = Val("in")
         /\ arg[i].quantity # 0 /\ arg[i].way # "COP" =>
              /\ OnThisNode(Word(i))
              /\ Word(i) = IF Away THEN Temp(i, hops)
                           ELSE IF arg[i].way = "COP2" THEN Copy(i) ELSE Var(i)
<1>1. Types /\ Created /\ Fits(i, arg[i])
  BY DEF ArgumentsInv, Types, Created
<1>2. CASE Away
  <2>1. arg[i].temp = Place(i, arg[i], hops)
    BY <1>2 DEF ArgumentsInv, Buffers, Arrived
  <2>2. Word(i) = Place(i, arg[i], hops)
    BY <1>2, <2>1 DEF Word, Away
  <2>3. \A h : Temp(i, h)[1] = "temp" /\ Temp(i, h)[3] = h
    BY Words
  <2>4. OnThisNode(Temp(i, hops))
    BY <1>2, <2>3 DEF OnThisNode, Away
  <2>5. PICK w, q : w = arg[i].way /\ q = arg[i].quantity
    OBVIOUS
  <2>6. q \in {0, 1, 2} /\ (w = "COP" => q # 2) /\ (q = 0 => arg[i].local = Null)
        /\ (q # 0 /\ w = "COP" => arg[i].local = Val("in"))
    BY <1>1, <2>5 DEF Fits, Quantities
  <2>7. HasBuffer(arg[i]) <=> q > 1 \/ (q = 1 /\ w # "COP")
    BY <2>5 DEF HasBuffer
  <2>8. HasBuffer(arg[i]) <=> q # 0 /\ w # "COP"
    BY <2>6, <2>7
  <2> QED BY <1>2, <2>2, <2>4, <2>5, <2>6, <2>8 DEF Place
<1>3. CASE ~Away
  <2>1. Word(i) = arg[i].local
    BY <1>3 DEF Word, Away
  <2>2. Var(i)[1] # "temp" /\ Copy(i)[1] # "temp"
    BY Words
  <2>3. OnThisNode(Var(i)) /\ OnThisNode(Copy(i))
    BY <1>3, <2>2 DEF OnThisNode, Away
  <2> QED BY <1>1, <1>3, <2>1, <2>3 DEF Fits
<1> QED BY <1>2, <1>3

(* What the task's function writes.                                        *)
LEMMA Writes ==
  ASSUME ArgumentsInv, CoreExecution
  PROVE  /\ mem' \in [Cells -> Contents]
         /\ \A i \in Args : mem'[Var(i)] = IF ~Away /\ IsResult(arg[i]) THEN "out" ELSE mem[Var(i)]
         /\ \A i \in Args : IsResult(arg[i]) /\ Away => mem'[Temp(i, hops)] = "out"
<1> DEFINE writes(i, c) == arg[i].quantity > 0 /\ Word(i) = c /\ OnThisNode(c)
<1>0. Types /\ Created /\ at.phase = "execute"
  BY DEF ArgumentsInv, CoreExecution, Created
<1>1. mem' = [c \in Cells |->
                IF \E i \in Args : writes(i, c) /\ arg[i].way \in {"REF", "RES"} THEN "out"
                ELSE IF \E i \in Args : writes(i, c) /\ arg[i].way = "COP2" THEN "scratch"
                ELSE mem[c]]
  BY DEF CoreExecution
<1>2. \A i \in Args : arg[i].quantity > 0 <=> arg[i].quantity # 0
  <2>1. \A i \in Args : arg[i].quantity \in {0, 1, 2}
    BY <1>0, Now DEF Quantities
  <2> QED BY <2>1
<1>3. ASSUME NEW i \in Args, NEW c
      PROVE  writes(i, c) => \/ arg[i].way = "COP" /\ c = Val("in")
                             \/ arg[i].way # "COP" /\ arg[i].quantity # 0
                                /\ c = IF Away THEN Temp(i, hops)
                                       ELSE IF arg[i].way = "COP2" THEN Copy(i) ELSE Var(i)
  BY <1>0, <1>2, WordIs
<1>4. ASSUME NEW i \in Args, IsResult(arg[i])
      PROVE  /\ writes(i, IF Away THEN Temp(i, hops) ELSE Var(i))
             /\ arg[i].way \in {"REF", "RES"}
  BY <1>0, <1>2, <1>4, WordIs DEF IsResult
<1> HIDE DEF writes
<1>5. mem' \in [Cells -> Contents]
  BY <1>0, <1>1 DEF Types, Contents
<1>6. ASSUME NEW i \in Args
      PROVE  mem'[Var(i)] = IF ~Away /\ IsResult(arg[i]) THEN "out" ELSE mem[Var(i)]
  <2>1. /\ Var(i) \in Cells
        /\ \A j : Var(i) # Val("in") /\ Var(i) # Copy(j) /\ (Var(i) = Var(j) => i = j)
        /\ \A j, h : Var(i) # Temp(j, h)
    <3>1. Var(i) # Val("in")
      BY Words
    <3> QED BY <3>1, CellFacts
  <2>2. ASSUME NEW j \in Args, writes(j, Var(i))
        PROVE  j = i /\ ~Away /\ arg[i].way \notin {"COP", "COP2"} /\ arg[i].quantity # 0
    BY <1>3, <2>1, <2>2
  <2>3. CASE ~Away /\ IsResult(arg[i])
    BY <1>1, <1>4, <2>1, <2>3
  <2>4. CASE ~(~Away /\ IsResult(arg[i]))
    <3>1. \A j \in Args : ~(writes(j, Var(i)) /\ arg[j].way \in {"REF", "RES", "COP2"})
      BY <2>2, <2>4 DEF IsResult
    <3> QED BY <1>1, <2>1, <2>4, <3>1
  <2> QED BY <2>3, <2>4
<1>7. ASSUME NEW i \in Args, IsResult(arg[i]), Away
      PROVE  mem'[Temp(i, hops)] = "out"
  <2>1. hops \in 1 .. MaxHops
    BY <1>0, <1>7, ArgumentsAssumption DEF Types
  <2>2. Temp(i, hops) \in Cells
    BY <2>1, CellFacts
  <2>3. writes(i, Temp(i, hops)) /\ arg[i].way \in {"REF", "RES"}
    BY <1>4, <1>7
  <2> QED BY <1>1, <2>2, <2>3
<1> QED BY <1>5, <1>6, <1>7

LEMMA CoreExecutionInv ==
  ASSUME ArgumentsInv, CoreExecution
  PROVE  ArgumentsInv'
<1>0. /\ Types /\ Caller /\ Buffers /\ Results /\ Sender /\ Mail /\ Freed /\ Created
      /\ UNCHANGED <<call, arg, todo, out, chan, frees, hops, satisfied>>
      /\ at.phase = "execute" /\ at' = [at EXCEPT !.phase = "executed"]
  BY DEF ArgumentsInv, CoreExecution, Created
<1>1. /\ at'.node = at.node /\ at' = [phase |-> "executed", node |-> at.node]
      /\ Away' = Away /\ Created' /\ at'.phase = "executed" /\ at.phase \in Before
  BY <1>0 DEF Types, Away, Created, Before
<1>2. ASSUME NEW i \in Args
      PROVE  /\ Content(Word(i)) \in Contents \cup {"none", "wild"}
             /\ arg[i].quantity > 0 /\ arg[i].way # "RES" => Content(Word(i)) = "in"
  <2>1. arg[i].quantity \in {0, 1, 2}
    BY <1>0, Now DEF Quantities
  <2>2. CASE arg[i].quantity = 0
    BY <1>0, <2>2, WordIs DEF Content
  <2>3. CASE arg[i].quantity # 0 /\ arg[i].way = "COP"
    <3>1. Val("in")[1] = "val" /\ Val("in")[2] = "in" /\ Val("in") # Null
      BY Words
    <3>2. Content(Word(i)) = "in"
      BY <1>0, <2>3, <3>1, WordIs DEF Content
    <3> QED BY <3>2 DEF Contents
  <2>4. CASE arg[i].quantity # 0 /\ arg[i].way # "COP"
    <3> DEFINE c == IF Away THEN Temp(i, hops) ELSE IF arg[i].way = "COP2" THEN Copy(i) ELSE Var(i)
    <3>1. Word(i) = c /\ OnThisNode(c)
      BY <1>0, <2>4, WordIs
    <3>2. c[1] \in {"temp", "copy", "var"} /\ c # Null
      BY Words
    <3>3. c \in Cells
      <4>1. Away => hops \in 1 .. MaxHops
        BY <1>0, ArgumentsAssumption DEF Types
      <4> QED BY <4>1, CellFacts
    <3>4. arg[i].way # "RES" => mem[c] = "in"
      <4>1. CASE Away
        <5>1. Arrived(i)
          BY <1>0, <4>1 DEF Buffers
        <5>2. arg[i].way # "RES" => Receives(arg[i])
          BY <2>1, <2>4 DEF Receives, HasBuffer
        <5> QED BY <1>1, <4>1, <5>1, <5>2 DEF Arrived
      <4>2. CASE ~Away
        BY <1>0, <1>1, <2>4, <4>2 DEF Caller
      <4> QED BY <4>1, <4>2
    <3> HIDE DEF c
    <3>5. Content(c) = mem[c]
      BY <3>1, <3>2 DEF Content
    <3> QED BY <1>0, <3>1, <3>3, <3>4, <3>5 DEF Types
  <2> QED BY <2>2, <2>3, <2>4
<1>3. seen' = [i \in Args |-> Content(Word(i))]
  BY DEF CoreExecution
<1>4. Types'
  <2>1. seen' \in [Args -> Contents \cup {"none", "wild"}]
    BY <1>2, <1>3
  <2>2. mem' \in [Cells -> Contents]
    BY Writes
  <2> QED BY <1>0, <1>1, <2>1, <2>2 DEF Types, AtHome, Receiving, Transfer, After, Before
<1>5. SeesCallerData'
  BY <1>0, <1>2, <1>3 DEF SeesCallerData
<1>6. Caller'
  <2>1. \A i \in Args : arg[i].way \notin {"REF", "RES"} => mem'[Var(i)] = mem[Var(i)]
    BY Writes DEF IsResult
  <2> QED BY <1>0, <1>1, <2>1 DEF Caller, Before, Transfer, Receiving
<1>7. Buffers'
  <2>1. \A i \in Args : Away => arg[i].temp = Place(i, arg[i], hops)
    BY <1>0 DEF Buffers, Arrived
  <2>2. at'.phase \notin Before
    BY <1>1 DEF Before, Transfer, Receiving
  <2> QED BY <1>0, <1>1, <2>1, <2>2 DEF Buffers, Arrived
<1>8. Results'
  <2>1. \A i \in Args : IsResult(arg[i]) => mem'[IF Away THEN Temp(i, hops) ELSE Var(i)] = "out"
    BY Writes
  <2> QED BY <1>0, <1>1, <2>1 DEF Results
<1>9. Reached = End /\ Reached' = End
  BY <1>0, <1>1 DEF Reached, Transfer, Receiving
<1>10. Sender'
  BY <1>0, <1>1, <1>9, Settled, SenderStays DEF SameArg
<1>11. Mail'
  <2>1. \A i : Travels(i)' <=> Travels(i)
    BY <1>0 DEF Travels
  <2> QED BY <1>0, <1>9, <2>1, MailStays
<1>12. Freed'
  BY <1>0, <1>1 DEF Freed
<1> QED BY <1>4, <1>5, <1>6, <1>7, <1>8, <1>10, <1>11, <1>12 DEF ArgumentsInv

(* The home node frees the copies, and nothing else.                       *)
LEMMA CopiesAreFreed ==
  ASSUME Types, Created, Freed, at.phase # "done", FreeAll(Copies)
  PROVE  /\ mem' \in [Cells -> Contents] /\ frees' \in [Cells -> Nat]
         /\ \A i \in Args : /\ mem'[Var(i)] = mem[Var(i)] /\ frees'[Var(i)] = 0
                            /\ frees'[Copy(i)] = IF arg[i].way = "COP2" THEN 1 ELSE 0
         /\ \A i \in Args, h \in 1 .. MaxHops :
              /\ mem'[Temp(i, h)] = mem[Temp(i, h)]
              /\ frees'[Temp(i, h)] = frees[Temp(i, h)]
<1>1. /\ frees' = [c \in Cells |-> IF c \in Copies THEN frees[c] + 1 ELSE frees[c]]
      /\ mem' = [c \in Cells |-> IF c \in Copies THEN "freed" ELSE mem[c]]
  BY DEF FreeAll
<1>2. Copies = {Copy(i) : i \in {j \in Args : arg[j].way = "COP2"}}
  <2>1. \A j \in Args : arg[j].way = "COP2" => arg[j].quantity = 2 /\ arg[j].local = Copy(j)
    <3> TAKE j \in Args
    <3>1. Fits(j, arg[j])
      BY Now
    <3> QED BY <3>1 DEF Fits
  <2>2. \A j \in Args : arg[j].way = "COP2" => arg[j].quantity > 0
    BY <2>1
  <2> QED BY <2>1, <2>2 DEF Copies
<1>3. mem' \in [Cells -> Contents] /\ frees' \in [Cells -> Nat]
  BY <1>1 DEF Types, Contents
<1>4. ASSUME NEW i \in Args
      PROVE  /\ Var(i) \notin Copies /\ (Copy(i) \in Copies <=> arg[i].way = "COP2")
             /\ \A h \in 1 .. MaxHops : Temp(i, h) \notin Copies
  BY <1>2, CellFacts
<1>5. \A i \in Args : frees[Var(i)] = 0 /\ frees[Copy(i)] = 0
  BY DEF Freed
<1> QED BY <1>1, <1>3, <1>4, <1>5, CellFacts

LEMMA CleanupHomeInv ==
  ASSUME ArgumentsInv, CleanupHome
  PROVE  ArgumentsInv'
<1>0. /\ Types /\ Caller /\ Buffers /\ Results /\ Sender /\ Mail /\ Freed /\ Created
      /\ UNCHANGED <<call, arg, todo, out, chan, hops, seen>>
      /\ at.phase = "executed" /\ ~Away /\ at' = [at EXCEPT !.phase = "done"]
      /\ FreeAll(Copies) /\ satisfied' \in BOOLEAN
  BY DEF ArgumentsInv, CleanupHome, Created, Away
<1>1. /\ at'.node = at.node /\ at' = [phase |-> "done", node |-> at.node]
      /\ ~Away' /\ Created' /\ at'.phase = "done"
  BY <1>0 DEF Types, Away, Created
<1>2. /\ mem' \in [Cells -> Contents] /\ frees' \in [Cells -> Nat]
      /\ \A i \in Args : /\ mem'[Var(i)] = mem[Var(i)] /\ frees'[Var(i)] = 0
                         /\ frees'[Copy(i)] = IF arg[i].way = "COP2" THEN 1 ELSE 0
      /\ \A i \in Args, h \in 1 .. MaxHops :
           /\ mem'[Temp(i, h)] = mem[Temp(i, h)]
           /\ frees'[Temp(i, h)] = frees[Temp(i, h)]
  BY <1>0, CopiesAreFreed
<1>3. Types'
  BY <1>0, <1>1, <1>2 DEF Types, Receiving, Transfer, After
<1>4. Caller'
  BY <1>0, <1>1, <1>2 DEF Caller, Before, Transfer, Receiving
<1>5. Buffers' /\ SeesCallerData'
  BY <1>1 DEF Buffers, SeesCallerData
<1>6. Results'
  BY <1>0, <1>1, <1>2 DEF Results
<1>7. Reached = End /\ Reached' = End
  BY <1>0, <1>1 DEF Reached, Transfer, Receiving
<1>8. Sender'
  BY <1>0, <1>7, Settled, SenderStays DEF SameArg
<1>9. Mail'
  <2>1. \A i : Travels(i)' <=> Travels(i)
    BY <1>0 DEF Travels
  <2> QED BY <1>0, <1>7, <2>1, MailStays
<1>10. Freed'
  BY <1>0, <1>1, <1>2 DEF Freed
<1> QED BY <1>3, <1>4, <1>5, <1>6, <1>8, <1>9, <1>10 DEF ArgumentsInv

LEMMA SendAnswerInv ==
  ASSUME ArgumentsInv, SendAnswer
  PROVE  ArgumentsInv'
<1>0. /\ Types /\ Caller /\ Buffers /\ Results /\ Freed /\ Created /\ Away
      /\ UNCHANGED <<call, arg, todo, chan, mem, frees, hops, seen, satisfied>>
      /\ at.phase = "executed" /\ out.todo = End
      /\ out' = [kind |-> "results", arg |-> arg, from |-> at.node, todo |-> 1]
      /\ at' = [phase |-> "answer", node |-> Home]
  BY DEF ArgumentsInv, SendAnswer, Created, Away
<1>1. ~Away' /\ Created' /\ hops \in Nat /\ hops >= 1
  BY <1>0, ArgumentsAssumption DEF Away, Created, Types
<1>2. Types'
  BY <1>0, <1>1, ArgFacts, ArgumentsAssumption DEF Types, Receiving, Transfer, After
<1>3. Caller'
  BY <1>0, <1>1 DEF Caller, Before, Transfer, Receiving
<1>4. Buffers' /\ SeesCallerData' /\ Results'
  BY <1>0, <1>1 DEF Buffers, SeesCallerData, Results
<1>5. Sender'
  <2>1. \A i \in Args : arg[i].temp = Place(i, arg[i], hops)
    BY <1>0 DEF Buffers, Arrived
  <2>2. \A i \in Args : IsResult(arg[i]) => mem[Temp(i, hops)] = "out"
    BY <1>0 DEF Results
  <2> QED BY <1>0, <1>1, <2>1, <2>2 DEF Sender, SameArg
<1>6. Mail'
  <2>1. Reached = End
    BY <1>0 DEF Reached, Transfer, Receiving
  <2>2. chan = <<>>
    BY <2>1, Quiet
  <2>3. Reached' = 1 /\ out'.todo = 1
    BY <1>0 DEF Reached, Transfer, Receiving, Away
  <2>4. \A i \in Args : ~(Reached' <= i /\ i < out'.todo) /\ ~(out'.todo <= i /\ i < Reached')
    BY <2>3, ArgFacts
  <2>5. UnderWay' = {}
    BY <2>4 DEF UnderWay
  <2>6. chan' = <<>> /\ 1 .. Len(chan') = {} /\ chan' \in Seq(Messages)
    BY <1>0, <2>2
  <2> QED BY <2>4, <2>5, <2>6, ListsEmpty DEF Mail
<1>7. Freed'
  <2>1. out.kind # "results"
    BY <1>0 DEF Types
  <2> QED BY <1>0, <2>1 DEF Freed
<1> QED BY <1>2, <1>3, <1>4, <1>5, <1>6, <1>7 DEF ArgumentsInv

LEMMA SendResultsInv ==
  ASSUME ArgumentsInv, SendResults
  PROVE  ArgumentsInv'
<1>0. /\ Types /\ Caller /\ Buffers /\ Results /\ Sender /\ Mail /\ Freed /\ SeesCallerData
      /\ UNCHANGED <<call, at, arg, todo, hops, seen, satisfied>>
      /\ out.kind = "results" /\ out.todo \in Args /\ out' = [out EXCEPT !.todo = @ + 1]
  BY ArgFacts DEF ArgumentsInv, SendResults, Types
<1>1. Created /\ ~Away /\ at.phase \in {"answer", "results", "done"}
  BY <1>0 DEF Types, Created, Away, AtHome
<1>2. /\ out' = [kind |-> out.kind, arg |-> out.arg, todo |-> out.todo + 1, from |-> out.from]
      /\ out'.kind = "results" /\ out'.todo = out.todo + 1 /\ out'.arg = out.arg
      /\ out'.from = out.from /\ out'.todo \in 1 .. End
  BY <1>0, ArgFacts DEF Types
<1>3. PICK i \in Args : i = out.todo
  BY <1>0
<1>4. \A j \in Args : j >= out'.todo => j >= out.todo /\ j # i
  BY <1>2, <1>3, ArgFacts
<1>5. /\ SameArg(out.arg[i], arg[i]) /\ hops >= 1 /\ out.arg[i].temp = Place(i, arg[i], hops)
      /\ IsResult(arg[i]) => mem[Temp(i, hops)] = "out"
  <2>1. i >= out.todo
    BY <1>3, ArgFacts
  <2> QED BY <1>0, <2>1 DEF Sender
<1>6. hops \in 1 .. MaxHops /\ Temp(i, hops) \in Cells
  <2>1. hops \in 1 .. MaxHops
    BY <1>0, <1>5, ArgumentsAssumption DEF Types
  <2> QED BY <2>1, CellFacts
<1>7. /\ IsResult(out.arg[i]) <=> Travels(i)
      /\ IsResult(out.arg[i]) => out.arg[i].temp = Temp(i, hops) /\ mem[Temp(i, hops)] = "out"
  <2>1. IsResult(out.arg[i]) <=> IsResult(arg[i])
    BY <1>5 DEF SameArg, IsResult
  <2>2. IsResult(arg[i]) => HasBuffer(arg[i])
    BY <1>0, <1>1, Now
  <2> QED BY <1>0, <1>5, <2>1, <2>2 DEF Travels, Place
<1>8. out.arg[i].quantity > 1 => out.arg[i].temp = Temp(i, hops)
  BY <1>5 DEF SameArg, Place, HasBuffer
<1>9. /\ mem' \in [Cells -> Contents] /\ frees' \in [Cells -> Nat]
      /\ \A c \in Cells : c # Temp(i, hops) => mem'[c] = mem[c] /\ frees'[c] = frees[c]
      /\ frees'[Temp(i, hops)] <= 1
  <2>1. frees[Temp(i, hops)] = 0
    BY <1>0, <1>3, <1>6, ArgFacts DEF Freed
  <2>2. CASE out.arg[i].quantity > 1 /\ out.arg[i].way \in {"COP2", "REF", "RES"}
    <3>1. Free(Temp(i, hops))
      BY <1>3, <1>8, <2>2 DEF SendResults
    <3>2. /\ frees' = [frees EXCEPT ![Temp(i, hops)] = @ + 1]
          /\ mem' = [mem EXCEPT ![Temp(i, hops)] = "freed"]
      BY <3>1 DEF Free
    <3> QED BY <1>0, <1>6, <2>1, <3>2 DEF Types, Contents
  <2>3. CASE ~(out.arg[i].quantity > 1 /\ out.arg[i].way \in {"COP2", "REF", "RES"})
    <3>1. UNCHANGED <<mem, frees>>
      BY <1>3, <2>3 DEF SendResults
    <3> QED BY <1>0, <1>6, <2>1, <3>1 DEF Types
  <2> QED BY <2>2, <2>3
<1>10. /\ \A j \in Args : /\ mem'[Var(j)] = mem[Var(j)] /\ mem'[Copy(j)] = mem[Copy(j)]
                          /\ frees'[Var(j)] = frees[Var(j)] /\ frees'[Copy(j)] = frees[Copy(j)]
       /\ \A j \in Args, h \in 1 .. MaxHops : j # i \/ h # hops =>
            mem'[Temp(j, h)] = mem[Temp(j, h)] /\ frees'[Temp(j, h)] = frees[Temp(j, h)]
  BY <1>9, CellFacts
<1>11. Types'
  BY <1>0, <1>1, <1>2, <1>9 DEF Types, Created, Away
<1>12. Caller'
  BY <1>0, <1>1, <1>10 DEF Caller, Created, Before, Transfer, Receiving
<1>13. Buffers' /\ SeesCallerData' /\ Results'
  BY <1>0, <1>1, <1>10 DEF Buffers, SeesCallerData, Results, Created, Away
<1>14. Sender'
  <2> SUFFICES ASSUME NEW j \in Args, j >= out'.todo
               PROVE  /\ SameArg(out'.arg[j], arg'[j]) /\ hops' >= 1
                      /\ out'.arg[j].temp = Place(j, arg'[j], hops')
                      /\ IsResult(arg'[j]) => mem'[Temp(j, hops')] = "out"
    BY <1>2 DEF Sender
  <2>1. j >= out.todo /\ j # i
    BY <1>4
  <2>2. /\ SameArg(out.arg[j], arg[j]) /\ hops >= 1 /\ out.arg[j].temp = Place(j, arg[j], hops)
        /\ IsResult(arg[j]) => mem[Temp(j, hops)] = "out"
    BY <1>0, <2>1 DEF Sender
  <2> QED BY <1>0, <1>2, <1>6, <1>10, <2>1, <2>2
<1>15. Mail'
  <2>1. Data = "out"
    BY <1>0 DEF Data
  <2>2. PICK result \in BOOLEAN : result <=> IsResult(out.arg[i])
    BY DEF IsResult
  <2>3. chan' = IF result THEN Append(chan, [arg |-> i, data |-> mem[out.arg[i].temp]]) ELSE chan
    BY <1>3, <2>2 DEF SendResults
  <2>4. chan' = IF result THEN Append(chan, [arg |-> out.todo, data |-> Data]) ELSE chan
    BY <1>3, <1>7, <2>1, <2>2, <2>3
  <2>5. result <=> Travels(out.todo)
    BY <1>3, <1>7, <2>2
  <2> QED BY <1>0, <1>2, <2>4, <2>5, MailGrows
<1>16. Freed'
  <2> SUFFICES ASSUME NEW j \in Args
               PROVE  /\ frees'[Var(j)] = 0
                      /\ frees'[Copy(j)] = IF at.phase = "done" /\ arg[j].way = "COP2" THEN 1 ELSE 0
                      /\ \A h \in 1 .. MaxHops :
                           /\ frees'[Temp(j, h)] <= 1
                           /\ h # hops \/ j >= out'.todo => frees'[Temp(j, h)] = 0
    BY <1>0, <1>2 DEF Freed
  <2>1. frees'[Var(j)] = 0 /\ frees'[Copy(j)] = IF at.phase = "done" /\ arg[j].way = "COP2" THEN 1 ELSE 0
    BY <1>0, <1>10 DEF Freed
  <2>2. ASSUME NEW h \in 1 .. MaxHops
        PROVE  frees'[Temp(j, h)] <= 1 /\ (h # hops \/ j >= out'.todo => frees'[Temp(j, h)] = 0)
    <3>1. CASE j = i /\ h = hops
      BY <1>4, <1>9, <3>1
    <3>2. CASE j # i \/ h # hops
      <4>1. frees[Temp(j, h)] <= 1 /\ (h # hops \/ j >= out.todo => frees[Temp(j, h)] = 0)
        BY <1>0 DEF Freed
      <4> QED BY <1>4, <1>10, <3>2, <4>1
    <3> QED BY <3>1, <3>2
  <2> QED BY <2>1, <2>2
<1> QED BY <1>11, <1>12, <1>13, <1>14, <1>15, <1>16 DEF ArgumentsInv

LEMMA ReceiveAnswerInv ==
  ASSUME ArgumentsInv, ReceiveAnswer
  PROVE  ArgumentsInv'
<1>0. /\ Types /\ Caller /\ Buffers /\ Results /\ Sender /\ Mail /\ Freed /\ Created /\ ~Away
      /\ UNCHANGED <<call, arg, out, chan, mem, frees, hops, seen, satisfied>>
      /\ at.phase = "answer" /\ at' = [at EXCEPT !.phase = "results"] /\ todo' = 1
  BY DEF ArgumentsInv, ReceiveAnswer, Created, Away, Types, AtHome
<1>1. /\ at'.node = at.node /\ at' = [phase |-> "results", node |-> at.node]
      /\ ~Away' /\ Created' /\ at'.phase = "results" /\ 1 \in 1 .. End
  BY <1>0, ArgFacts DEF Types, Away, Created
<1>2. Types'
  BY <1>0, <1>1 DEF Types, AtHome, Receiving, Transfer, After
<1>3. Caller'
  BY <1>0, <1>1 DEF Caller, Before, Transfer, Receiving
<1>4. Buffers' /\ SeesCallerData'
  BY <1>1 DEF Buffers, SeesCallerData
<1>5. Results'
  <2>1. \A i \in Args : ~(i < 1)
    BY ArgFacts
  <2> QED BY <1>0, <1>1, <2>1 DEF Results
<1>6. Sender'
  BY <1>0, SenderStays DEF SameArg
<1>7. Mail'
  <2>1. Reached' = Reached
    BY <1>0, <1>1 DEF Reached, Transfer, Receiving
  <2> QED BY <1>0, <2>1, MailStays DEF Travels
<1>8. Freed'
  BY <1>0, <1>1 DEF Freed
<1> QED BY <1>2, <1>3, <1>4, <1>5, <1>6, <1>7, <1>8 DEF ArgumentsInv

LEMMA ReceiveResultInv ==
  ASSUME ArgumentsInv, ReceiveResult
  PROVE  ArgumentsInv'
<1>0. /\ Types /\ Caller /\ Buffers /\ Results /\ Sender /\ Mail /\ Freed /\ Created /\ ~Away
      /\ UNCHANGED <<call, at, arg, out, frees, hops, seen, satisfied>>
      /\ at.phase = "results" /\ todo \in Args /\ todo' = todo + 1 /\ out.kind = "results"
  BY ArgFacts DEF ArgumentsInv, ReceiveResult, Created, Types, Away, AtHome
<1>1. PICK t \in Args : t = todo
  BY <1>0
<1>2. PICK result \in BOOLEAN : result <=> IsResult(arg[t])
  BY DEF IsResult
<1>3. /\ result => chan # <<>>
      /\ mem' = IF result THEN [mem EXCEPT ![arg[t].local] = Head(chan).data] ELSE mem
      /\ chan' = IF result THEN Tail(chan) ELSE chan
  BY <1>1, <1>2 DEF ReceiveResult
<1>4. result => arg[t].local = Var(t)
  BY <1>0, <1>2, Now
<1>5. Mail' /\ (result => Head(chan).data = "out")
  <2>1. \A i \in Args : Travels(i)' <=> Travels(i)
    BY <1>0 DEF Travels
  <2>2. Data = "out" /\ (result <=> Travels(todo))
    BY <1>0, <1>1, <1>2 DEF Data, Travels
  <2>3. UNCHANGED <<out, at>> /\ at.phase \in Receiving \cup {"results"}
    BY <1>0
  <2>4. Mail' /\ (result => Head(chan).arg = todo /\ Head(chan).data = Data)
    BY <1>0, <1>3, <2>1, <2>2, <2>3, MailShrinks
  <2> QED BY <2>2, <2>4
<1>6. /\ mem' \in [Cells -> Contents]
      /\ \A c \in Cells : c # Var(t) => mem'[c] = mem[c]
      /\ mem'[Var(t)] = IF result THEN "out" ELSE mem[Var(t)]
  <2>1. Var(t) \in Cells
    BY CellFacts
  <2> QED BY <1>0, <1>3, <1>4, <1>5, <2>1 DEF Types, Contents
<1>7. /\ \A i \in Args : (i # t => mem'[Var(i)] = mem[Var(i)]) /\ mem'[Copy(i)] = mem[Copy(i)]
      /\ \A i \in Args, h \in 1 .. MaxHops : mem'[Temp(i, h)] = mem[Temp(i, h)]
  BY <1>6, CellFacts
<1>8. todo' \in 1 .. End /\ \A i \in Args : i < todo' => i < todo \/ i = t
  BY <1>0, <1>1, ArgFacts
<1>9. Types'
  BY <1>0, <1>6, <1>8 DEF Types, Created, Away, Receiving
<1>10. Caller'
  <2>1. \A i \in Args : arg[i].way \notin {"REF", "RES"} => mem'[Var(i)] = mem[Var(i)]
    BY <1>2, <1>6, <1>7 DEF IsResult
  <2> QED BY <1>0, <2>1 DEF Caller, Created, Before, Transfer, Receiving
<1>11. Buffers' /\ SeesCallerData'
  BY <1>0 DEF Buffers, SeesCallerData, Away
<1>12. Results'
  <2>1. ASSUME NEW i \in Args, IsResult(arg[i]), i < todo'
        PROVE  mem'[Var(i)] = "out"
    <3>1. CASE i = t
      BY <1>2, <1>6, <2>1, <3>1
    <3>2. CASE i # t
      <4>1. mem[Var(i)] = "out"
        BY <1>0, <1>8, <2>1, <3>2 DEF Results
      <4> QED BY <1>7, <3>2, <4>1
    <3> QED BY <3>1, <3>2
  <2> QED BY <1>0, <2>1 DEF Results
<1>13. Sender'
  <2>1. \A i \in Args : i >= out.todo => hops \in 1 .. MaxHops
    <3>1. hops \in 0 .. MaxHops
      BY <1>0 DEF Types
    <3>2. \A i \in Args : i >= out.todo => hops >= 1
      BY <1>0 DEF Sender
    <3> QED BY <3>1, <3>2, ArgumentsAssumption
  <2>2. \A i \in Args : i >= out.todo => mem'[Temp(i, hops)] = mem[Temp(i, hops)]
    BY <1>7, <2>1
  <2> QED BY <1>0, <2>2, SenderStays DEF SameArg
<1>14. Freed'
  BY <1>0 DEF Freed
<1> QED BY <1>5, <1>9, <1>10, <1>11, <1>12, <1>13, <1>14 DEF ArgumentsInv

LEMMA AnsweredInv ==
  ASSUME ArgumentsInv, Answered
  PROVE  ArgumentsInv'
<1>0. /\ Types /\ Caller /\ Buffers /\ Results /\ Sender /\ Mail /\ Freed /\ Created /\ ~Away
      /\ UNCHANGED <<call, arg, todo, out, chan, hops, seen>>
      /\ at.phase = "results" /\ todo = End /\ at' = [at EXCEPT !.phase = "done"]
      /\ FreeAll(Copies) /\ satisfied' \in BOOLEAN /\ out.kind = "results"
  BY DEF ArgumentsInv, Answered, Created, Away, Types, AtHome
<1>1. /\ at'.node = at.node /\ at' = [phase |-> "done", node |-> at.node]
      /\ ~Away' /\ Created' /\ at'.phase = "done"
  BY <1>0 DEF Types, Away, Created
<1>2. /\ mem' \in [Cells -> Contents] /\ frees' \in [Cells -> Nat]
      /\ \A i \in Args : /\ mem'[Var(i)] = mem[Var(i)] /\ frees'[Var(i)] = 0
                         /\ frees'[Copy(i)] = IF arg[i].way = "COP2" THEN 1 ELSE 0
      /\ \A i \in Args, h \in 1 .. MaxHops :
           /\ mem'[Temp(i, h)] = mem[Temp(i, h)]
           /\ frees'[Temp(i, h)] = frees[Temp(i, h)]
  BY <1>0, CopiesAreFreed
<1>3. Types'
  BY <1>0, <1>1, <1>2 DEF Types, Receiving, Transfer, After
<1>4. Caller'
  BY <1>0, <1>1, <1>2 DEF Caller, Before, Transfer, Receiving
<1>5. Buffers' /\ SeesCallerData'
  BY <1>1 DEF Buffers, SeesCallerData
<1>6. Results'
  <2>1. \A i \in Args : i < todo
    BY <1>0, ArgFacts
  <2> QED BY <1>0, <1>1, <1>2, <2>1 DEF Results
<1>7. Sender'
  <2>1. \A i \in Args : i >= out.todo => hops \in 1 .. MaxHops
    <3>1. hops \in 0 .. MaxHops
      BY <1>0 DEF Types
    <3>2. \A i \in Args : i >= out.todo => hops >= 1
      BY <1>0 DEF Sender
    <3> QED BY <3>1, <3>2, ArgumentsAssumption
  <2>2. \A i \in Args : i >= out.todo => mem'[Temp(i, hops)] = mem[Temp(i, hops)]
    BY <1>2, <2>1
  <2> QED BY <1>0, <2>2, SenderStays DEF SameArg
<1>8. Mail'
  <2>1. Reached = End /\ Reached' = End
    BY <1>0, <1>1 DEF Reached, Transfer, Receiving
  <2>2. \A i : Travels(i)' <=> Travels(i)
    BY <1>0 DEF Travels
  <2> QED BY <1>0, <2>1, <2>2, MailStays
<1>9. Freed'
  BY <1>0, <1>1, <1>2 DEF Freed
<1> QED BY <1>3, <1>4, <1>5, <1>6, <1>7, <1>8, <1>9 DEF ArgumentsInv

LEMMA ArgumentsInvNext == ArgumentsInv /\ [Next]_vars => ArgumentsInv'
<1> SUFFICES ASSUME ArgumentsInv, [Next]_vars PROVE ArgumentsInv'
  OBVIOUS
<1>1. CASE Creation
  <2>1. PICK ways \in [Args -> Callways], qs \in [Args -> Quantities] :
          Task(ways, qs) \/ TaskEx(ways, qs) \/ TaskDirect(ways, qs) \/ TaskDetached(ways, qs)
    BY <1>1 DEF Creation
  <2>2. \E how : Create(how, ways, qs)
    BY <2>1 DEF Task, TaskEx, TaskDirect, TaskDetached
  <2> QED BY <2>2, CreateInv
<1>2. CASE \E i \in Args : CallerChanges(i)
  BY <1>2, CallerChangesInv
<1>3. CASE \E m \in Nodes : SendDescriptor(m) \/ Prefetch(m) \/ DirectSendDescriptor(m)
  <2>1. PICK m \in Nodes : SendDescriptor(m) \/ Prefetch(m) \/ DirectSendDescriptor(m)
    BY <1>3
  <2>2. \E phase \in Transfer : at.phase \in {"place", "queue"} /\ Send(phase, m)
    BY <2>1 DEF SendDescriptor, Prefetch, DirectSendDescriptor, Transfer
  <2> QED BY <2>2, SendInv
<1>4. CASE PlaceHere
  BY <1>4, PlaceHereInv
<1>5. CASE SendArguments
  BY <1>5, SendArgumentsInv
<1>6. CASE ReceiveDescriptor
  BY <1>6, ReceiveDescriptorInv
<1>7. CASE ReceiveArguments
  BY <1>7, ReceiveArgumentsInv
<1>8. CASE Received
  BY <1>8, ReceivedInv
<1>9. CASE Dequeue
  BY <1>9, DequeueInv
<1>10. CASE CoreExecution
  BY <1>10, CoreExecutionInv
<1>11. CASE CleanupHome
  BY <1>11, CleanupHomeInv
<1>12. CASE SendAnswer
  BY <1>12, SendAnswerInv
<1>13. CASE SendResults
  BY <1>13, SendResultsInv
<1>14. CASE ReceiveAnswer
  BY <1>14, ReceiveAnswerInv
<1>15. CASE ReceiveResult
  BY <1>15, ReceiveResultInv
<1>16. CASE Answered
  BY <1>16, AnsweredInv
<1>17. CASE UNCHANGED vars
  <2>1. UNCHANGED <<call, at, arg, todo, out, chan, mem, frees, hops, seen, satisfied>>
    BY <1>17 DEF vars
  <2>2. Types' /\ Caller' /\ Buffers' /\ Results'
    BY <2>1 DEF ArgumentsInv, Types, Caller, Buffers, Results, Arrived, Created, Away
  <2>3. Sender' /\ Freed' /\ SeesCallerData'
    BY <2>1 DEF ArgumentsInv, Sender, Freed, SeesCallerData
  <2>4. Reached' = Reached /\ \A i : Travels(i)' <=> Travels(i)
    BY <2>1 DEF Reached, Away, Travels
  <2>5. Mail'
    BY <2>1, <2>4, MailStays DEF ArgumentsInv
  <2> QED BY <2>2, <2>3, <2>5 DEF ArgumentsInv
<1> QED BY <1>1, <1>2, <1>3, <1>4, <1>5, <1>6, <1>7, <1>8, <1>9, <1>10, <1>11, <1>12,
           <1>13, <1>14, <1>15, <1>16, <1>17 DEF Next, Runtime

LEMMA ArgumentsInvHolds == Spec => []ArgumentsInv
BY ArgumentsInvInit, ArgumentsInvNext, PTL DEF Spec

-----------------------------------------------------------------------------
(***************************************************************************)
(* What follows from the invariant.                                        *)
(***************************************************************************)
LEMMA ResultsFollow == ArgumentsInv => ResultsBeforeJoin
<1> SUFFICES ASSUME ArgumentsInv, satisfied, NEW i \in Args, arg[i].quantity > 0
             PROVE  IF arg[i].way \in {"REF", "RES"} THEN mem[Var(i)] = "out"
                    ELSE mem[Var(i)] \in {"in", "changed"}
  BY DEF ResultsBeforeJoin
<1>1. at.phase = "done" /\ Created
  BY DEF ArgumentsInv, Types, Created
<1>2. arg[i].quantity # 0
  OBVIOUS
<1> QED BY <1>1, <1>2 DEF ArgumentsInv, Results, Caller, IsResult

LEMMA PayloadFollows == ArgumentsInv => PayloadMatches
<1> SUFFICES ASSUME ArgumentsInv PROVE PayloadMatches
  OBVIOUS
<1>1. Types /\ Mail
  BY DEF ArgumentsInv
<1>2. PICK r \in Nat, e \in Nat : r = Reached /\ e = out.todo
  BY <1>1, ArgFacts DEF Types, Reached
<1>3. \A i \in Args : i \in Nat /\ i >= 1 /\ i < End
  BY ArgFacts
<1>4. Awaited = {i \in Args : r <= i /\ Travels(i)}
  <2>1. CASE at.phase \in Transfer /\ Away
    <3>1. Created /\ r = 1 /\ out.kind = "arguments"
      BY <1>1, <1>2, <2>1 DEF Created, Transfer, Reached, Types
    <3>2. \A i \in Args : Travels(i) <=> Receives(arg[i])
      BY <1>1, <3>1, Now DEF Travels
    <3>3. Awaited = {i \in Args : Receives(arg[i])}
      BY <2>1 DEF Awaited, Transfer, Away
    <3> QED BY <1>3, <3>1, <3>2, <3>3
  <2>2. CASE at.phase \in Receiving
    <3>1. Created /\ r = todo /\ out.kind = "arguments"
      BY <1>1, <1>2, <2>2 DEF Created, Transfer, Receiving, Reached, Types
    <3>2. \A i \in Args : Travels(i) <=> Receives(arg[i])
      BY <1>1, <3>1, Now DEF Travels
    <3>3. Awaited = {i \in Args : i >= todo /\ Receives(arg[i])}
      BY <2>2 DEF Awaited, Receiving
    <3>4. \A i \in Args : i >= todo <=> r <= i
      BY <1>3, <3>1
    <3> QED BY <3>2, <3>3, <3>4
  <2>3. CASE at.phase \in {"answer", "results"}
    <3>1. out.kind = "results"
      BY <1>1, <2>3 DEF Types
    <3>2. \A i \in Args : Travels(i) <=> IsResult(arg[i])
      BY <3>1 DEF Travels
    <3>3. CASE at.phase = "answer"
      <4>1. Awaited = {i \in Args : IsResult(arg[i])} /\ r = 1
        BY <1>2, <3>3 DEF Awaited, Reached
      <4> QED BY <1>3, <3>2, <4>1
    <3>4. CASE at.phase = "results"
      <4>1. Awaited = {i \in Args : i >= todo /\ IsResult(arg[i])} /\ r = todo
        BY <1>2, <3>4 DEF Awaited, Reached, Transfer, Receiving
      <4>2. \A i \in Args : i >= todo <=> r <= i
        BY <1>3, <4>1
      <4> QED BY <3>2, <4>1, <4>2
    <3> QED BY <2>3, <3>3, <3>4
  <2>4. CASE ~(at.phase \in Transfer /\ Away) /\ at.phase \notin Receiving \cup {"answer", "results"}
    <3>1. Awaited = {} /\ r = End
      BY <1>2, <2>4 DEF Awaited, Reached, Transfer, Receiving, Away
    <3>2. \A i \in Args : ~(r <= i)
      BY <1>3, <3>1, ArgFacts
    <3> QED BY <3>1, <3>2
  <2> QED BY <2>1, <2>2, <2>3, <2>4
<1>5. UnderWay = {i \in Awaited : i < e}
  BY <1>2, <1>4 DEF UnderWay
<1>6. Len(chan) \in Nat
  BY <1>1 DEF Mail
<1> SUFFICES ASSUME NEW k \in 1 .. Len(chan)
             PROVE  chan[k].arg \in Awaited /\ {i \in Awaited : i < chan[k].arg} = {chan[l].arg : l \in 1 .. k - 1}
  BY DEF PayloadMatches
<1>7. PICK a : a = chan[k].arg
  OBVIOUS
<1>8. a \in Awaited /\ a \in Args /\ a < e
  BY <1>1, <1>4, <1>5, <1>7 DEF Mail, Lists
<1>9. ASSUME NEW i \in Awaited, i < a PROVE i \in {chan[l].arg : l \in 1 .. k - 1}
  <2>1. i \in UnderWay
    BY <1>2, <1>3, <1>4, <1>5, <1>8, <1>9
  <2>2. PICK l \in 1 .. Len(chan) : chan[l].arg = i
    BY <1>1, <2>1 DEF Mail, Lists
  <2>3. ~(k < l) /\ l # k
    <3>1. k < l => chan[k].arg < chan[l].arg
      BY <1>1 DEF Mail, Lists
    <3> QED BY <1>3, <1>4, <1>7, <1>8, <1>9, <2>2, <3>1
  <2>4. l \in 1 .. k - 1
    BY <1>6, <2>3
  <2> QED BY <2>2, <2>4
<1>10. ASSUME NEW l \in 1 .. k - 1 PROVE chan[l].arg \in Awaited /\ chan[l].arg < a
  <2>1. l \in 1 .. Len(chan) /\ l < k
    BY <1>6
  <2>2. chan[l].arg \in UnderWay /\ chan[l].arg < chan[k].arg
    BY <1>1, <2>1 DEF Mail, Lists
  <2> QED BY <1>5, <1>7, <2>2
<1> QED BY <1>7, <1>8, <1>9, <1>10

LEMMA FreesFollow == ArgumentsInv => CopiesFreedOnce
<1> SUFFICES ASSUME ArgumentsInv PROVE CopiesFreedOnce
  OBVIOUS
<1>1. Types /\ Freed
  BY DEF ArgumentsInv
<1>2. ASSUME NEW c \in Cells PROVE frees[c] <= 1 /\ (c[1] = "var" => frees[c] = 0)
  <2>1. CASE \E i \in Args : c = Var(i)
    BY <1>1, <2>1 DEF Freed
  <2>2. CASE \E i \in Args : c = Copy(i)
    BY <1>1, <2>2, Words DEF Freed
  <2>3. CASE \E i \in Args, h \in 1 .. MaxHops : c = Temp(i, h)
    BY <1>1, <2>3, Words DEF Freed
  <2> QED BY <2>1, <2>2, <2>3, CellKinds
<1>3. ASSUME at.phase = "done", NEW c \in Copies PROVE frees[c] = 1
  <2>1. PICK i \in Args : arg[i].way = "COP2" /\ arg[i].quantity > 0 /\ c = arg[i].local
    BY DEF Copies
  <2>2. Created /\ Fits(i, arg[i])
    BY <1>1, <1>3 DEF Types, Created
  <2>3. c = Copy(i)
    BY <2>1, <2>2 DEF Fits
  <2> QED BY <1>1, <1>3, <2>1, <2>3 DEF Freed
<1> QED BY <1>2, <1>3 DEF CopiesFreedOnce

(* ArgumentsReachTheFunction: however often the task moves, its function   *)
(* finds what the caller passed when it created the task.                  *)
THEOREM ArgumentsReachTheFunction == Spec => []SeesCallerData
<1>1. ArgumentsInv => SeesCallerData
  BY DEF ArgumentsInv
<1> QED BY <1>1, ArgumentsInvHolds, PTL

(* ResultsReachTheCaller: the parent is satisfied only when all results    *)
(* are in the caller's variables, and no other variable was written.       *)
THEOREM ResultsReachTheCaller == Spec => []ResultsBeforeJoin
BY ResultsFollow, ArgumentsInvHolds, PTL

(* SenderAndReceiverAgree: the messages of a transfer are the next ones    *)
(* that the receiver's loop takes, in its order, and none is left over.    *)
THEOREM SenderAndReceiverAgree == Spec => []PayloadMatches
BY PayloadFollows, ArgumentsInvHolds, PTL

(* CopiesAndBuffersFreed: no cell is freed twice, none of the caller's at  *)
(* all, and when the task is done every private copy has been freed.       *)
THEOREM CopiesAndBuffersFreed == Spec => []CopiesFreedOnce
BY FreesFollow, ArgumentsInvHolds, PTL
=============================================================================
