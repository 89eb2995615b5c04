---------------------------- MODULE ClusterProofs ---------------------------
(***************************************************************************)
(* Proofs about NodeComm and Broadcast, for every cluster: any number of   *)
(* nodes and of workers, any set of tasks, any library.  The inductive     *)
(* invariant has four parts: what is under way between the threads and     *)
(* what each of them remembers, with their types; that every task is at one*)
(* place; that every steal request is answered once; and that the counter  *)
(* of a descriptor counts what will still finish.  From them follow the    *)
(* theorems about tasks and thefts.  MessageProofs has those about what the*)
(* messages say.                                                           *)
(***************************************************************************)
EXTENDS Broadcast, Facts

(***************************************************************************)
(* Threads, tags and messages.                                             *)
(***************************************************************************)
SetupInv == setup \in Setups

(* The payloads that a server sends have the tag of its descriptors; these *)
(* are the setups in which it sends none (see "Limits" in README.md).      *)
PayloadsApart ==
  /\ ArgMsgs # 0 => "enable_prefetching" \notin setup.calls
  /\ ResMsgs # 0 => "task_direct" \notin setup.calls

WorkerVps == {w[2] : w \in Workers}
StealTags == {StealTag(vp) : vp \in WorkerVps}
Server(n) == <<n, MaxNvps>>

LEMMA Numbers ==
  ASSUME SetupInv
  PROVE  /\ NumNodes \in Nat \ {0} /\ Nodes = 0 .. NumNodes - 1 /\ 0 \in Nodes
         /\ MaxNvps \in Nat /\ MaxNvps <= 99
         /\ ArgMsgs \in {0, 1} /\ ResMsgs \in {0, 1} /\ ThreadSafe \in BOOLEAN
BY NodeCommAssumption DEF SetupInv, NumNodes, Nodes, ArgMsgs, ResMsgs, ThreadSafe

LEMMA WorkerFacts ==
  ASSUME SetupInv
  PROVE  /\ Creators \subseteq Workers /\ Workers \subseteq Threads /\ Workers \subseteq AllWorkers
         /\ \A w \in Workers : w[1] \in Nodes /\ w[2] \in 0 .. MaxNvps - 1 /\ w = <<w[1], w[2]>>
         /\ NoThread \notin Workers /\ NoTask \notin Tasks
         /\ <<0, 0>> \in Workers
         /\ \A t \in Tasks : t \notin Workers /\ t # NoThread
<1>1. setup.nodes \in Nat \ {0} /\ setup.workers \subseteq AllWorkers
      /\ setup.workers \subseteq (0 .. setup.nodes - 1) \X Nat /\ setup.creators \subseteq setup.workers
      /\ \A n \in 0 .. setup.nodes - 1 : <<n, 0>> \in setup.workers
  BY NodeCommAssumption DEF SetupInv
<1>2. \A w \in setup.workers : w \in Nat \X (0 .. MaxNvps - 1) /\ w \in (0 .. setup.nodes - 1) \X Nat
  BY <1>1, NodeCommAssumption
<1>3. \A w \in Workers : w[1] \in Nodes /\ w[2] \in 0 .. MaxNvps - 1 /\ w = <<w[1], w[2]>>
  BY <1>2 DEF Workers, Nodes, NumNodes
<1>4. 0 \in 0 .. setup.nodes - 1
  BY <1>1
<1> QED BY <1>1, <1>3, <1>4, NodeCommAssumption DEF Workers, Creators, Threads

LEMMA ServerFacts ==
  ASSUME SetupInv
  PROVE  /\ Servers \subseteq Threads
         /\ \A s \in Servers : s[1] \in Nodes /\ s[2] = MaxNvps /\ s = Server(s[1]) /\ IsServer(s)
                               /\ s \notin Workers /\ s \notin Creators
         /\ \A n \in Nodes : Server(n) \in Servers /\ Server(n)[1] = n
         /\ \A w \in Workers : ~IsServer(w) /\ w \notin Servers
         /\ \A th \in Threads : th \in Workers \/ th \in Servers
         /\ NoThread \notin Creators
<1>1. \A s \in Servers : s[1] \in Nodes /\ s[2] = MaxNvps /\ s = Server(s[1])
  BY DEF Servers, Server
<1>2. \A w \in Workers : w[2] # MaxNvps
  BY WorkerFacts, Numbers
<1> QED BY <1>1, <1>2, WorkerFacts DEF Servers, Server, Threads, IsServer

LEMMA TagFacts ==
  ASSUME SetupInv
  PROVE  /\ Vps = WorkerVps \cup {MaxNvps} /\ Vps \subseteq Tags /\ StealTags \subseteq Tags
         /\ MaxNvps \notin WorkerVps /\ MaxNvps \notin StealTags
         /\ \A vp \in WorkerVps : vp \notin StealTags /\ vp \in 0 .. MaxNvps - 1
         /\ \A w \in Workers : w[2] \in WorkerVps /\ w[2] \in Vps /\ StealTag(w[2]) \in StealTags
         /\ \A a, b \in WorkerVps : StealTag(a) = StealTag(b) => a = b
         /\ 0 \in WorkerVps
<1>1. \A vp \in WorkerVps : vp \in 0 .. MaxNvps - 1
  BY WorkerFacts DEF WorkerVps
<1>2. MaxNvps \in Nat /\ MaxNvps <= 99
  BY Numbers
<1>3. Vps = WorkerVps \cup {MaxNvps} /\ Vps \subseteq Tags /\ StealTags \subseteq Tags
  BY DEF Vps, WorkerVps, Tags, StealTags
<1>4. \A vp \in WorkerVps : vp \notin StealTags
  <2> SUFFICES ASSUME NEW vp \in WorkerVps, NEW u \in WorkerVps, vp = u + 100 PROVE FALSE
    BY DEF StealTags, StealTag
  <2> QED BY <1>1, <1>2
<1>5. MaxNvps \notin StealTags
  <2> SUFFICES ASSUME NEW u \in WorkerVps, MaxNvps = u + 100 PROVE FALSE
    BY DEF StealTags, StealTag
  <2> QED BY <1>1, <1>2
<1>6. MaxNvps \notin WorkerVps
  BY <1>1, <1>2
<1>7. \A a, b \in WorkerVps : StealTag(a) = StealTag(b) => a = b
  BY <1>1 DEF StealTag
<1>8. 0 \in WorkerVps
  <2>1. <<0, 0>> \in Workers /\ <<0, 0>>[2] = 0
    BY WorkerFacts
  <2> QED BY <2>1 DEF WorkerVps
<1>9. \A w \in Workers : w[2] \in WorkerVps /\ StealTag(w[2]) \in StealTags
  BY DEF WorkerVps, StealTags
<1> QED BY <1>1, <1>3, <1>4, <1>5, <1>6, <1>7, <1>8, <1>9

Bodies == Tasks \cup {NoTask} \cup Variables \cup Values

Descriptors == {"enqueue", "enqueue_private", "answer", "steal", "prefetch", "bcast"} \cup SwitchCalls

(* A message that can be in a channel with this tag.                       *)
Legal(tag, msg) ==
  /\ tag = MaxNvps => msg.type \in Descriptors
  /\ tag \in WorkerVps => msg.type \in {"argument", "result", "data"}
  /\ tag \in StealTags => msg.type \in {"work", "no_work", "argument"}
  /\ tag \in {MaxNvps} \cup WorkerVps \cup StealTags
  /\ msg.type \in {"enqueue", "enqueue_private", "work", "answer", "argument", "result"} =>
       msg.body \in Tasks
  /\ msg.type \in {"enqueue", "steal", "bcast"} => msg.vp \in WorkerVps
  /\ msg.type = "answer" /\ ResMsgs # 0 => msg.vp \in WorkerVps
  /\ msg.type \in {"enqueue_private", "prefetch", "enable_prefetching"} => ArgMsgs = 0

AnyMessage == [type : Types, body : Bodies, vp : Vps]
Messages(tag) == {msg \in AnyMessage : Legal(tag, msg)}

(* The messages that carry task t to where it will run, and those that say *)
(* that it has finished.                                                   *)
Movers(t) == [type : {"enqueue", "enqueue_private", "work"}, body : {t}, vp : Vps]
Answers(t) == [type : {"answer"}, body : {t}, vp : Vps]

LEMMA MessageFacts ==
  ASSUME SetupInv, NEW type \in Types, NEW body \in Bodies, NEW th \in Threads
  PROVE  LET msg == Message(type, body, th) IN
         /\ msg \in AnyMessage /\ msg.type = type /\ msg.body = body /\ msg.vp = th[2]
         /\ \A tag : Legal(tag, msg) => msg \in Messages(tag)
         /\ \A t \in Tasks : msg \in Movers(t) <=> Moves(msg, t)
         /\ \A t \in Tasks : msg \in Answers(t) <=> type = "answer" /\ body = t
<1>1. th[2] \in Vps
  BY TagFacts, ServerFacts DEF Vps
<1> QED BY <1>1 DEF Message, thread_id, AnyMessage, Messages, Movers, Moves, Answers

LEMMA HeldFacts ==
  ASSUME SetupInv, NEW tag, NEW msg \in Messages(tag)
  PROVE  /\ msg \in AnyMessage /\ Legal(tag, msg) /\ msg.type \in Types /\ msg.body \in Bodies
         /\ msg.vp \in Vps
         /\ \A t \in Tasks : msg \in Movers(t) <=> Moves(msg, t)
         /\ \A t \in Tasks : msg \in Answers(t) <=> msg.type = "answer" /\ msg.body = t
<1>1. msg \in [type : Types, body : Bodies, vp : Vps] /\ Legal(tag, msg)
  BY DEF Messages, AnyMessage
<1>2. msg = [type |-> msg.type, body |-> msg.body, vp |-> msg.vp]
  BY <1>1
<1> QED BY <1>1, <1>2 DEF Movers, Moves, Answers, AnyMessage

(* The setup does not change.                                              *)
Same ==
  /\ setup' = setup
  /\ NumNodes' = NumNodes /\ Workers' = Workers /\ Creators' = Creators
  /\ ArgMsgs' = ArgMsgs /\ ResMsgs' = ResMsgs /\ ThreadSafe' = ThreadSafe
  /\ Nodes' = Nodes /\ Servers' = Servers /\ Threads' = Threads
  /\ Vps' = Vps /\ Tags' = Tags /\ WorkerVps' = WorkerVps /\ StealTags' = StealTags
  /\ \A t : Movers(t)' = Movers(t) /\ Answers(t)' = Answers(t)
  /\ AnyMessage' = AnyMessage
  /\ \A tag, msg : Legal(tag, msg)' <=> Legal(tag, msg)
  /\ \A tag : Messages(tag)' = Messages(tag)
  /\ PayloadsApart' <=> PayloadsApart

LEMMA SetupFixed == ASSUME setup' = setup PROVE Same
BY DEF Same, NumNodes, Workers, Creators, ArgMsgs, ResMsgs, ThreadSafe, Nodes, Servers, Threads,
   Vps, Tags, WorkerVps, StealTags, Movers, Answers, AnyMessage, Legal, Messages, PayloadsApart

(***************************************************************************)
(* Channels.                                                               *)
(***************************************************************************)
Channels ==
  /\ chan \in [Nodes -> [Nodes -> [Tags -> Seq(AnyMessage)]]]
  /\ \A n \in Nodes, m \in Nodes, tag \in Tags : chan[n][m][tag] \in Seq(Messages(tag))

LEMMA PostEffect ==
  ASSUME SetupInv, Same, Channels, NEW n \in Nodes, NEW m \in Nodes, NEW tag \in Tags,
         NEW msg \in Messages(tag), Post(n, m, tag, msg)
  PROVE  /\ Channels'
         /\ chan'[n][m][tag] = Append(chan[n][m][tag], msg)
         /\ \A a \in Nodes, b \in Nodes, g \in Tags : <<a, b, g>> # <<n, m, tag>> =>
              chan'[a][b][g] = chan[a][b][g]
         /\ \A a \in Nodes, b \in Nodes, g \in Tags : \A M :
              Num(chan'[a][b][g], M)
                = Num(chan[a][b][g], M) + One(<<a, b, g>> = <<n, m, tag>> /\ msg \in M)
<1> DEFINE q == Append(chan[n][m][tag], msg)
<1>1. msg \in AnyMessage /\ chan[n][m][tag] \in Seq(AnyMessage) /\ chan[n][m][tag] \in Seq(Messages(tag))
  BY DEF Messages, Channels
<1>2. q \in Seq(AnyMessage) /\ q \in Seq(Messages(tag))
  BY <1>1, AppendProperties
<1>3. chan' = [chan EXCEPT ![n][m][tag] = q]
  BY DEF Post
<1> HIDE DEF q
<1>4. chan' \in [Nodes -> [Nodes -> [Tags -> Seq(AnyMessage)]]]
  BY <1>2, <1>3 DEF Channels
<1>5. chan'[n][m][tag] = q
      /\ \A a \in Nodes, b \in Nodes, g \in Tags : <<a, b, g>> # <<n, m, tag>> =>
           chan'[a][b][g] = chan[a][b][g]
  BY SMTT(30), <1>3 DEF Channels
<1>6. Channels'
  <2>1. \A a \in Nodes, b \in Nodes, g \in Tags : chan'[a][b][g] \in Seq(Messages(g))
    <3> SUFFICES ASSUME NEW a \in Nodes, NEW b \in Nodes, NEW g \in Tags
                 PROVE  chan'[a][b][g] \in Seq(Messages(g))
      OBVIOUS
    <3>1. CASE <<a, b, g>> = <<n, m, tag>>
      BY <1>2, <1>5, <3>1
    <3>2. CASE <<a, b, g>> # <<n, m, tag>>
      <4>1. chan[a][b][g] \in Seq(Messages(g))
        BY DEF Channels
      <4>2. chan'[a][b][g] = chan[a][b][g]
        BY <1>5, <3>2
      <4> QED BY <4>1, <4>2
    <3> QED BY <3>1, <3>2
  <2>2. Nodes' = Nodes /\ Tags' = Tags /\ AnyMessage' = AnyMessage
        /\ \A g : Messages(g)' = Messages(g)
    BY DEF Same
  <2>3. \A a \in Nodes', b \in Nodes', g \in Tags' : chan'[a][b][g] \in Seq(Messages(g)')
    BY <2>1, <2>2
  <2> QED BY <1>4, <2>2, <2>3 DEF Channels
<1>7. ASSUME NEW a \in Nodes, NEW b \in Nodes, NEW g \in Tags, NEW M
      PROVE  Num(chan'[a][b][g], M)
               = Num(chan[a][b][g], M) + One(<<a, b, g>> = <<n, m, tag>> /\ msg \in M)
  <2>1. CASE <<a, b, g>> = <<n, m, tag>>
    <3>1. Num(q, M) = Num(chan[n][m][tag], M) + One(msg \in M)
      BY <1>1, NumAppend DEF q
    <3> QED BY <3>1, <1>5, <2>1 DEF One
  <2>2. CASE <<a, b, g>> # <<n, m, tag>>
    <3>1. chan[a][b][g] \in Seq(AnyMessage)
      BY DEF Channels
    <3>2. Num(chan[a][b][g], M) \in Nat
      BY <3>1, NumType
    <3> QED BY <3>2, <1>5, <2>2 DEF One
  <2> QED BY <2>1, <2>2
<1> QED BY <1>5, <1>6, <1>7 DEF q

LEMMA TakeEffect ==
  ASSUME SetupInv, Same, Channels, NEW n \in Nodes, NEW m \in Nodes, NEW tag \in Tags,
         chan[n][m][tag] # <<>>, Take(n, m, tag)
  PROVE  /\ Channels' /\ Head(chan[n][m][tag]) \in Messages(tag)
         /\ chan'[n][m][tag] = Tail(chan[n][m][tag])
         /\ \A a \in Nodes, b \in Nodes, g \in Tags : <<a, b, g>> # <<n, m, tag>> =>
              chan'[a][b][g] = chan[a][b][g]
         /\ \A a \in Nodes, b \in Nodes, g \in Tags : \A M :
              Num(chan[a][b][g], M) = Num(chan'[a][b][g], M)
                + One(<<a, b, g>> = <<n, m, tag>> /\ Head(chan[n][m][tag]) \in M)
<1> DEFINE q == Tail(chan[n][m][tag])
<1>1. chan[n][m][tag] \in Seq(AnyMessage) /\ chan[n][m][tag] \in Seq(Messages(tag))
  BY DEF Channels
<1>2. q \in Seq(AnyMessage) /\ q \in Seq(Messages(tag)) /\ Head(chan[n][m][tag]) \in Messages(tag)
  BY <1>1, HeadTailProperties
<1>3. chan' = [chan EXCEPT ![n][m][tag] = q]
  BY DEF Take
<1> HIDE DEF q
<1>4. chan' \in [Nodes -> [Nodes -> [Tags -> Seq(AnyMessage)]]]
  BY <1>2, <1>3 DEF Channels
<1>5. chan'[n][m][tag] = q
      /\ \A a \in Nodes, b \in Nodes, g \in Tags : <<a, b, g>> # <<n, m, tag>> =>
           chan'[a][b][g] = chan[a][b][g]
  BY SMTT(30), <1>3 DEF Channels
<1>6. Channels'
  <2>1. \A a \in Nodes, b \in Nodes, g \in Tags : chan'[a][b][g] \in Seq(Messages(g))
    <3> SUFFICES ASSUME NEW a \in Nodes, NEW b \in Nodes, NEW g \in Tags
                 PROVE  chan'[a][b][g] \in Seq(Messages(g))
      OBVIOUS
    <3>1. CASE <<a, b, g>> = <<n, m, tag>>
      BY <1>2, <1>5, <3>1
    <3>2. CASE <<a, b, g>> # <<n, m, tag>>
      <4>1. chan[a][b][g] \in Seq(Messages(g))
        BY DEF Channels
      <4>2. chan'[a][b][g] = chan[a][b][g]
        BY <1>5, <3>2
      <4> QED BY <4>1, <4>2
    <3> QED BY <3>1, <3>2
  <2>2. Nodes' = Nodes /\ Tags' = Tags /\ AnyMessage' = AnyMessage
        /\ \A g : Messages(g)' = Messages(g)
    BY DEF Same
  <2>3. \A a \in Nodes', b \in Nodes', g \in Tags' : chan'[a][b][g] \in Seq(Messages(g)')
    BY <2>1, <2>2
  <2> QED BY <1>4, <2>2, <2>3 DEF Channels
<1>7. ASSUME NEW a \in Nodes, NEW b \in Nodes, NEW g \in Tags, NEW M
      PROVE  Num(chan[a][b][g], M) = Num(chan'[a][b][g], M)
               + One(<<a, b, g>> = <<n, m, tag>> /\ Head(chan[n][m][tag]) \in M)
  <2>1. CASE <<a, b, g>> = <<n, m, tag>>
    <3>1. Num(chan[n][m][tag], M) = Num(q, M) + One(Head(chan[n][m][tag]) \in M)
      BY <1>1, NumTail DEF q
    <3> QED BY <3>1, <1>5, <2>1 DEF One
  <2>2. CASE <<a, b, g>> # <<n, m, tag>>
    <3>1. chan[a][b][g] \in Seq(AnyMessage)
      BY DEF Channels
    <3>2. Num(chan[a][b][g], M) \in Nat
      BY <3>1, NumType
    <3> QED BY <3>2, <1>5, <2>2 DEF One
  <2> QED BY <2>1, <2>2
<1> QED BY <1>2, <1>5, <1>6, <1>7 DEF q

LEMMA ChannelCounts ==
  ASSUME SetupInv, Channels, NEW n \in Nodes, NEW m \in Nodes, NEW tag \in Tags
  PROVE  /\ chan[n][m][tag] \in Seq(Messages(tag))
         /\ \A M : Num(chan[n][m][tag], M) \in Nat
         /\ chan[n][m][tag] # <<>> =>
              /\ Head(chan[n][m][tag]) \in Messages(tag)
              /\ \A M : Head(chan[n][m][tag]) \in M => Num(chan[n][m][tag], M) >= 1
BY NumType, NumHead, HeadTailProperties DEF Channels

(***************************************************************************)
(* Threads: where they can be, and what they have in hand there.           *)
(***************************************************************************)
SearchPlaces == {"poll", "repoll", "ask", "reask", "await", "reawait", "held", "reheld",
                 "get_args", "held_args", "execute", "run", "send_results"}
ServerPlaces == {"serve", "push", "reply", "get_args", "held_args", "execute", "run",
                 "send_args", "get_results", "get_data"}
WithTask == {"send", "push", "get_args", "held_args", "execute", "run", "send_args",
             "send_results", "get_results"}
Inside == InFirst \cup InSecond

(* A thread at place q with task t in hand and p as its peer.              *)
WorkerFits(w, q, p) ==
  /\ q \in SearchPlaces \/ (w \in Creators /\ q \in InApplication \cup {"wait"})
  /\ q \in {"ask", "reask", "get_args", "held_args"} \cup Inside => p[2] = StealTag(w[2])
  /\ q \in InApplication \ {"app", "switch"} => p[2] = w[2]

ServerFits(q, p) ==
  /\ q \in ServerPlaces
  /\ q \in {"reply", "send_args"} => p[2] \in StealTags
  /\ q \in {"get_args", "held_args", "get_results", "get_data"} => p[2] \in WorkerVps
  /\ q = "push" => ArgMsgs = 0
  /\ q \in {"execute", "run"} => ResMsgs = 0

Fits(th, q, t, p) ==
  /\ q \in Places /\ t \in Tasks \cup {NoTask} /\ p \in Nodes \X Tags
  /\ q \in WithTask => t \in Tasks
  /\ th \in Workers => WorkerFits(th, q, p)
  /\ th \in Servers => ServerFits(q, p)

ThreadsFit ==
  /\ pc \in [Threads -> Places] /\ hand \in [Threads -> Tasks \cup {NoTask}]
  /\ peer \in [Threads -> Nodes \X Tags]
  /\ \A th \in Threads : Fits(th, pc[th], hand[th], peer[th])

(* Only this thread moves.                                                 *)
Alone(th) ==
  /\ pc' = [pc EXCEPT ![th] = pc'[th]] /\ hand' = [hand EXCEPT ![th] = hand'[th]]
  /\ peer' = [peer EXCEPT ![th] = peer'[th]]

LEMMA AloneIf ==
  ASSUME ThreadsFit, NEW th \in Threads,
         UNCHANGED pc \/ \E q : Goto(th, q),
         UNCHANGED hand \/ \E t : Holds(th, t),
         UNCHANGED peer \/ \E p : peer' = [peer EXCEPT ![th] = p]
  PROVE  Alone(th)
<1>1. pc' = [pc EXCEPT ![th] = pc'[th]]
  BY DEF ThreadsFit, Goto
<1>2. hand' = [hand EXCEPT ![th] = hand'[th]]
  BY DEF ThreadsFit, Holds
<1>3. peer' = [peer EXCEPT ![th] = peer'[th]]
  BY DEF ThreadsFit
<1> QED BY <1>1, <1>2, <1>3 DEF Alone

LEMMA AloneOthers ==
  ASSUME ThreadsFit, NEW th \in Threads, Alone(th)
  PROVE  \A o \in Threads : o # th => pc'[o] = pc[o] /\ hand'[o] = hand[o] /\ peer'[o] = peer[o]
BY DEF Alone, ThreadsFit

LEMMA ThreadStep ==
  ASSUME SetupInv, Same, ThreadsFit, NEW th \in Threads, Alone(th),
         Fits(th, pc'[th], hand'[th], peer'[th])
  PROVE  /\ ThreadsFit'
         /\ \A o \in Threads : o # th => pc'[o] = pc[o] /\ hand'[o] = hand[o] /\ peer'[o] = peer[o]
<1>1. \A o \in Threads : o # th => pc'[o] = pc[o] /\ hand'[o] = hand[o] /\ peer'[o] = peer[o]
  BY AloneOthers
<1>2. pc'[th] \in Places /\ hand'[th] \in Tasks \cup {NoTask} /\ peer'[th] \in Nodes \X Tags
  BY DEF Fits
<1>3. /\ pc' \in [Threads -> Places] /\ hand' \in [Threads -> Tasks \cup {NoTask}]
      /\ peer' \in [Threads -> Nodes \X Tags]
  BY <1>2 DEF Alone, ThreadsFit
<1>4. \A o \in Threads : Fits(o, pc'[o], hand'[o], peer'[o])
  BY <1>1 DEF ThreadsFit
<1>5. Threads' = Threads /\ Nodes' = Nodes /\ Tags' = Tags /\ Workers' = Workers
      /\ Servers' = Servers /\ Creators' = Creators /\ StealTags' = StealTags
      /\ WorkerVps' = WorkerVps /\ ArgMsgs' = ArgMsgs /\ ResMsgs' = ResMsgs
  BY DEF Same
<1>6. ThreadsFit'
  BY <1>3, <1>4, <1>5 DEF ThreadsFit, Fits, WorkerFits, ServerFits
<1> QED BY <1>1, <1>6

(***************************************************************************)
(* The other variables.                                                    *)
(***************************************************************************)
Calls == {call \in SwitchCalls \cup LocalCalls : call = "enable_prefetching" => ArgMsgs = 0}

QueueTypes == public \in [Nodes -> Seq(Tasks)] /\ private \in [Nodes -> Seq(Tasks)]

SwitchTypes ==
  /\ stealing \in [Nodes -> BOOLEAN] /\ prefetching \in [Nodes -> BOOLEAN]
  /\ made \in [Creators -> Seq(Calls)]
  /\ \A n \in Nodes : prefetching[n] => ArgMsgs = 0
  /\ \A c \in Creators : pc[c] = "switch" =>
       made[c] # <<>> /\ made[c][Len(made[c])] \in SwitchCalls

AppTypes ==
  /\ ndep \in [Creators -> Int] /\ unjoined \subseteq Creators
  /\ parent \in [Tasks -> Creators \cup {NoThread}]
  /\ stage \in [Tasks -> {"none", "spawned", "active", "returned", "done"}]
  /\ direct \subseteq Tasks /\ (direct # {} => ResMsgs = 0)

MemoryTypes ==
  /\ lock \in [Nodes -> Threads \cup {NoThread}]
  /\ memory \in [Nodes -> [Variables -> Bodies]] /\ var \in [Creators -> Variables]

ShapeInv ==
  /\ SetupInv /\ PayloadsApart /\ Channels /\ ThreadsFit
  /\ QueueTypes /\ SwitchTypes /\ AppTypes /\ MemoryTypes

(* A task that a thread takes home has one.                                *)
Housed == \A th \in Threads : pc[th] \in {"run", "send_results"} => Home(hand[th]) \in Nodes

LEMMA ShapeInit ==
  ASSUME ClusterInit, PayloadsApart
  PROVE  ShapeInv
<1>1. SetupInv
  BY DEF ClusterInit, Init, SetupInv
<1>2. Channels
  <2>1. <<>> \in Seq(AnyMessage) /\ \A tag : <<>> \in Seq(Messages(tag))
    BY EmptySeq
  <2>2. \A n \in Nodes, m \in Nodes, tag \in Tags : chan[n][m][tag] = <<>>
    BY DEF ClusterInit, Init
  <2>3. chan \in [Nodes -> [Nodes -> [Tags -> Seq(AnyMessage)]]]
    BY <2>1 DEF ClusterInit, Init
  <2> QED BY <2>1, <2>2, <2>3 DEF Channels
<1>3. ThreadsFit
  <2>1. <<0, 0>> \in Nodes \X Tags
    BY <1>1, Numbers, TagFacts
  <2>a. peer = [th \in Threads |-> <<0, 0>>]
    BY DEF ClusterInit, Init, NoPeer
  <2>b. peer \in [Threads -> Nodes \X Tags]
    BY <2>1, <2>a
  <2>2. /\ pc \in [Threads -> Places] /\ hand \in [Threads -> Tasks \cup {NoTask}]
        /\ peer \in [Threads -> Nodes \X Tags]
    <3>1. pc \in [Threads -> Places]
      <4>1. pc = [th \in Threads |-> IF IsServer(th) THEN "serve"
                                     ELSE IF th \in Creators THEN "app" ELSE "poll"]
        BY DEF ClusterInit, Init
      <4> QED BY <4>1 DEF Places
    <3>2. hand \in [Threads -> Tasks \cup {NoTask}]
      BY DEF ClusterInit, Init
    <3> QED BY <2>b, <3>1, <3>2
  <2>3. ASSUME NEW th \in Threads PROVE Fits(th, pc[th], hand[th], peer[th])
    <3>1. hand[th] = NoTask /\ pc[th] = IF IsServer(th) THEN "serve"
                              ELSE IF th \in Creators THEN "app" ELSE "poll"
      BY DEF ClusterInit, Init
    <3>2. CASE th \in Servers
      <4>1. IsServer(th) /\ th \notin Workers
        BY <1>1, <3>2, ServerFacts
      <4> QED BY <4>1, <3>1, <2>2 DEF Fits, ServerFits, ServerPlaces, WithTask
    <3>3. CASE th \in Workers
      <4>1. ~IsServer(th) /\ th \notin Servers
        BY <1>1, <3>3, ServerFacts
      <4> QED BY <4>1, <3>1, <2>2 DEF Fits, WorkerFits, SearchPlaces, InApplication, WithTask,
                  Inside, InFirst, InSecond
    <3> QED BY <1>1, <3>2, <3>3, ServerFacts
  <2> QED BY <2>2, <2>3 DEF ThreadsFit
<1>4. QueueTypes
  BY EmptySeq DEF ClusterInit, Init, QueueTypes
<1>5. SwitchTypes
  <2>1. \A c \in Creators : pc[c] # "switch"
    BY <1>1, WorkerFacts, ServerFacts DEF ClusterInit, Init
  <2>2. <<>> \in Seq(Calls)
    BY EmptySeq
  <2> QED BY <2>1, <2>2 DEF ClusterInit, Init, SwitchTypes
<1>6. AppTypes
  BY DEF ClusterInit, Init, AppTypes
<1>7. MemoryTypes
  <2>1. (CHOOSE a \in Variables : TRUE) \in Variables
    BY BroadcastAssumption
  <2>2. Initially \in Bodies
    BY BroadcastAssumption DEF Bodies
  <2> QED BY <2>1, <2>2 DEF ClusterInit, Init, BroadcastInit, MemoryTypes
<1> QED BY <1>1, <1>2, <1>3, <1>4, <1>5, <1>6, <1>7 DEF ShapeInv

LEMMA ShapeStep ==
  ASSUME ShapeInv, Same, NEW th \in Threads,
         Alone(th), Fits(th, pc'[th], hand'[th], peer'[th]),
         UNCHANGED chan \/ Channels',
         UNCHANGED Queues \/ QueueTypes',
         \/ UNCHANGED <<stealing, prefetching, made>> /\ (pc'[th] = "switch" => pc[th] = "switch")
         \/ SwitchTypes',
         UNCHANGED <<Application, stage>> \/ AppTypes',
         UNCHANGED <<lock, memory, var>> \/ MemoryTypes'
  PROVE  ShapeInv'
<1>0. /\ SetupInv /\ Channels /\ ThreadsFit /\ QueueTypes /\ SwitchTypes /\ AppTypes /\ MemoryTypes
      /\ PayloadsApart
  BY DEF ShapeInv
<1>1. SetupInv' /\ PayloadsApart'
  BY <1>0 DEF Same, SetupInv
<1>2. /\ ThreadsFit'
      /\ \A o \in Threads : o # th => pc'[o] = pc[o]
  BY <1>0, ThreadStep
<1>3. Channels'
  <2>1. CASE UNCHANGED chan
    BY <1>0, <2>1 DEF Channels, Same
  <2> QED BY <2>1
<1>4. QueueTypes'
  BY <1>0 DEF QueueTypes, Queues, Same
<1>5. SwitchTypes'
  <2>1. CASE UNCHANGED <<stealing, prefetching, made>> /\ (pc'[th] = "switch" => pc[th] = "switch")
    <3>1. \A c \in Creators : pc'[c] = "switch" => pc[c] = "switch"
      BY <1>0, <1>2, <2>1, WorkerFacts
    <3>2. Creators' = Creators /\ Nodes' = Nodes /\ ArgMsgs' = ArgMsgs /\ Calls' = Calls
      BY DEF Same, Calls
    <3> QED BY <1>0, <2>1, <3>1, <3>2 DEF SwitchTypes
  <2> QED BY <2>1
<1>6. AppTypes'
  BY <1>0 DEF AppTypes, Application, Same
<1>7. MemoryTypes'
  BY <1>0 DEF MemoryTypes, Same, Bodies
<1> QED BY <1>1, <1>2, <1>3, <1>4, <1>5, <1>6, <1>7 DEF ShapeInv

(* What the shape says of one thread.                                      *)
LEMMA Now ==
  ASSUME ShapeInv
  PROVE  /\ \A th \in Threads :
              /\ pc[th] \in Places /\ hand[th] \in Tasks \cup {NoTask}
              /\ peer[th] \in Nodes \X Tags /\ peer[th][1] \in Nodes /\ peer[th][2] \in Tags
              /\ pc[th] \in WithTask => hand[th] \in Tasks
              /\ th[1] \in Nodes /\ th[2] \in Vps
         /\ \A w \in Workers : WorkerFits(w, pc[w], peer[w]) /\ ~IsServer(w) /\ w \in Threads
         /\ \A s \in Servers : ServerFits(pc[s], peer[s]) /\ IsServer(s) /\ s \in Threads
<1>1. SetupInv /\ ThreadsFit
  BY DEF ShapeInv
<1>2. \A th \in Threads : Fits(th, pc[th], hand[th], peer[th])
  BY <1>1 DEF ThreadsFit
<1>3. \A th \in Threads : th[1] \in Nodes /\ th[2] \in Vps
  BY <1>1, WorkerFacts, ServerFacts, TagFacts
<1> QED BY <1>1, <1>2, <1>3, WorkerFacts, ServerFacts DEF Fits

(* A worker moves from place to place.                                     *)
LEMMA WorkerMoves ==
  ASSUME ShapeInv, Same, NEW w \in Workers, Alone(w),
         pc'[w] \in Places, hand'[w] \in Tasks \cup {NoTask}, peer'[w] \in Nodes \X Tags,
         pc'[w] \in WithTask => hand'[w] \in Tasks,
         WorkerFits(w, pc'[w], peer'[w])
  PROVE  Fits(w, pc'[w], hand'[w], peer'[w])
BY ServerFacts DEF Fits, ShapeInv

LEMMA ServerMoves ==
  ASSUME ShapeInv, Same, NEW s \in Servers, Alone(s),
         pc'[s] \in Places, hand'[s] \in Tasks \cup {NoTask}, peer'[s] \in Nodes \X Tags,
         pc'[s] \in WithTask => hand'[s] \in Tasks,
         ServerFits(pc'[s], peer'[s])
  PROVE  Fits(s, pc'[s], hand'[s], peer'[s])
BY ServerFacts DEF Fits, ShapeInv

LEMMA CreateShape ==
  ASSUME ShapeInv, Same, NEW c \in Creators, NEW t \in Tasks, NEW n \in Nodes,
         NEW call \in {"task", "task_direct"}, Create(c, t, n, call), UNCHANGED bvars
  PROVE  ShapeInv' /\ Alone(c) /\ c \in Threads
<1>0. SetupInv /\ ThreadsFit /\ c \in Workers /\ c \in Threads
  BY WorkerFacts DEF ShapeInv
<1>1. Alone(c)
  <2>1. UNCHANGED pc \/ \E q : Goto(c, q)
    BY DEF Create
  <2>2. UNCHANGED hand \/ \E u : Holds(c, u)
    BY DEF Create
  <2>3. UNCHANGED peer \/ \E p : peer' = [peer EXCEPT ![c] = p]
    BY DEF Create
  <2> QED BY <1>0, <2>1, <2>2, <2>3, AloneIf
<1>2. Fits(c, pc'[c], hand'[c], peer'[c])
  <2>1. CASE n = c[1]
    <3>1. pc'[c] = pc[c] /\ hand'[c] = hand[c] /\ peer'[c] = peer[c]
      BY <2>1 DEF Create
    <3> QED BY <1>0, <3>1 DEF ThreadsFit
  <2>2. CASE n # c[1]
    <3>1. pc'[c] = "send" /\ hand'[c] = t /\ peer'[c] = <<n, c[2]>>
      BY <1>0, <2>2 DEF Create, Goto, Holds, ThreadsFit, thread_id
    <3>2. c[2] \in Tags
      BY <1>0, TagFacts
    <3>3. WorkerFits(c, pc'[c], peer'[c])
      BY <3>1 DEF WorkerFits, InApplication, Inside, InFirst, InSecond
    <3>4. /\ pc'[c] \in Places /\ hand'[c] \in Tasks /\ hand'[c] \in Tasks \cup {NoTask}
          /\ peer'[c] \in Nodes \X Tags
      BY <3>1, <3>2 DEF Places
    <3> QED BY <1>0, <1>1, <3>3, <3>4, WorkerMoves
  <2> QED BY <2>1, <2>2
<1>3. QueueTypes'
  <2>1. public[n] \in Seq(Tasks) /\ Append(public[n], t) \in Seq(Tasks)
    BY AppendProperties DEF ShapeInv, QueueTypes
  <2> QED BY <2>1 DEF Create, ShapeInv, QueueTypes, Same
<1>4. AppTypes'
  <2>1. ndep' \in [Creators -> Int]
    BY DEF Create, ShapeInv, AppTypes
  <2>2. call = "task_direct" => ResMsgs = 0
    BY DEF Create, ShapeInv, PayloadsApart
  <2>3. direct' \subseteq Tasks /\ (direct' # {} => ResMsgs = 0)
    BY <2>2 DEF Create, ShapeInv, AppTypes
  <2> QED BY <2>1, <2>3 DEF Create, ShapeInv, AppTypes, Same
<1>5. pc'[c] # "switch"
  BY <1>0 DEF Create, Goto, ThreadsFit
<1> QED BY <1>0, <1>1, <1>2, <1>3, <1>4, <1>5, ShapeStep DEF Create, Switch, bvars

LEMMA ApplyTypes ==
  ASSUME ShapeInv, Same, NEW n \in Nodes, NEW call \in Calls, Apply(n, call)
  PROVE  /\ stealing' \in [Nodes -> BOOLEAN] /\ prefetching' \in [Nodes -> BOOLEAN]
         /\ \A m \in Nodes : prefetching'[m] => ArgMsgs = 0
<1>1. stealing' \in [Nodes -> BOOLEAN]
  BY DEF ShapeInv, SwitchTypes, Apply
<1>2. prefetching' \in [Nodes -> BOOLEAN]
  BY DEF ShapeInv, SwitchTypes, Apply
<1>3. ASSUME NEW m \in Nodes, prefetching'[m] PROVE ArgMsgs = 0
  <2>1. CASE m = n /\ call = "enable_prefetching"
    BY <2>1 DEF Calls
  <2>2. CASE ~(m = n /\ call = "enable_prefetching")
    <3>1. prefetching[m]
      BY <1>3, <2>2 DEF ShapeInv, SwitchTypes, Apply
    <3> QED BY <3>1 DEF ShapeInv, SwitchTypes
  <2> QED BY <2>1, <2>2
<1> QED BY <1>1, <1>2, <1>3

LEMMA SwitchCallShape ==
  ASSUME ShapeInv, Same, NEW c \in Creators, NEW call \in SwitchCalls \cup LocalCalls,
         SwitchCall(c, call), UNCHANGED bvars
  PROVE  ShapeInv' /\ Alone(c) /\ c \in Threads
<1>0. SetupInv /\ ThreadsFit /\ c \in Workers /\ c \in Threads /\ c[1] \in Nodes
  BY WorkerFacts DEF ShapeInv
<1>1. Alone(c)
  BY <1>0, AloneIf DEF SwitchCall
<1>2. call \in Calls
  <2>1. call = "enable_prefetching" => ArgMsgs = 0
    <3>1. call \in setup.calls /\ PayloadsApart
      BY DEF SwitchCall, ShapeInv
    <3> QED BY <1>0, <3>1, Numbers DEF PayloadsApart
  <2> QED BY <2>1 DEF Calls
<1>3. CASE call \in LocalCalls
  <2>1. pc'[c] = pc[c] /\ hand'[c] = hand[c] /\ peer'[c] = peer[c] /\ pc[c] = "app"
    BY <1>3 DEF SwitchCall
  <2>2. Fits(c, pc'[c], hand'[c], peer'[c])
    BY <1>0, <2>1 DEF ThreadsFit
  <2>3. \A d \in Creators : pc'[d] = pc[d]
    BY <1>3 DEF SwitchCall
  <2>4. SwitchTypes'
    <3>1. made[c] \in Seq(Calls) /\ Append(made[c], call) \in Seq(Calls)
      BY <1>2, AppendProperties DEF ShapeInv, SwitchTypes
    <3>2. made' = [made EXCEPT ![c] = Append(@, call)] /\ Apply(c[1], call)
      BY DEF SwitchCall
    <3>3. made' \in [Creators -> Seq(Calls)]
      BY <3>1, <3>2 DEF ShapeInv, SwitchTypes
    <3>4. \A d \in Creators : pc'[d] = "switch" => made'[d] # <<>> /\ made'[d][Len(made'[d])] \in SwitchCalls
      BY <2>1, <2>3, <3>2 DEF ShapeInv, SwitchTypes
    <3>5. Creators' = Creators /\ Nodes' = Nodes /\ ArgMsgs' = ArgMsgs /\ Calls' = Calls
      BY DEF Same, Calls
    <3> QED BY <1>0, <1>2, <3>2, <3>3, <3>4, <3>5, ApplyTypes DEF SwitchTypes
  <2> QED BY <1>0, <1>1, <2>2, <2>4, ShapeStep DEF SwitchCall, bvars
<1>4. CASE call \in SwitchCalls
  <2>0. call \notin LocalCalls
    BY <1>4 DEF SwitchCalls, LocalCalls
  <2>1. pc'[c] = "switch" /\ hand'[c] = hand[c] /\ peer'[c] = <<0, MaxNvps>>
    BY <1>0, <2>0, WorkerFacts DEF SwitchCall, Goto, ThreadsFit
  <2>2. Fits(c, pc'[c], hand'[c], peer'[c])
    <3>1. WorkerFits(c, pc'[c], peer'[c])
      BY <2>1 DEF WorkerFits, InApplication, Inside, InFirst, InSecond
    <3>2. /\ pc'[c] \in Places /\ pc'[c] \notin WithTask /\ hand'[c] \in Tasks \cup {NoTask}
      BY <1>0, <2>1, Now DEF Places, WithTask
    <3>3. peer'[c] \in Nodes \X Tags
      BY <1>0, <2>1, Numbers, TagFacts
    <3> QED BY <1>0, <1>1, <3>1, <3>2, <3>3, WorkerMoves
  <2>3. \A d \in Creators : d # c => pc'[d] = pc[d]
    BY <1>0, <2>0, WorkerFacts DEF SwitchCall, Goto, ThreadsFit
  <2>4. SwitchTypes'
    <3>1. /\ made[c] \in Seq(Calls) /\ Append(made[c], call) \in Seq(Calls)
          /\ Append(made[c], call) # <<>>
          /\ Append(made[c], call)[Len(Append(made[c], call))] = call
      BY <1>2, AppendProperties, LenProperties DEF ShapeInv, SwitchTypes
    <3>2. made' = [made EXCEPT ![c] = Append(@, call)] /\ Apply(c[1], call)
      BY DEF SwitchCall
    <3>3. made' \in [Creators -> Seq(Calls)]
      BY <3>1, <3>2 DEF ShapeInv, SwitchTypes
    <3>4. ASSUME NEW d \in Creators, pc'[d] = "switch"
          PROVE  made'[d] # <<>> /\ made'[d][Len(made'[d])] \in SwitchCalls
      <4>1. CASE d = c
        <5>1. made'[d] = Append(made[c], call)
          BY <3>2, <4>1 DEF ShapeInv, SwitchTypes
        <5> QED BY <3>1, <5>1, <1>4
      <4>2. CASE d # c
        <5>1. made'[d] = made[d] /\ pc[d] = "switch"
          BY <3>2, <3>4, <2>3, <4>2 DEF ShapeInv, SwitchTypes
        <5> QED BY <5>1 DEF ShapeInv, SwitchTypes
      <4> QED BY <4>1, <4>2
    <3>5. Creators' = Creators /\ Nodes' = Nodes /\ ArgMsgs' = ArgMsgs /\ Calls' = Calls
      BY DEF Same, Calls
    <3> QED BY <1>0, <1>2, <3>2, <3>3, <3>4, <3>5, ApplyTypes DEF SwitchTypes
  <2> QED BY <1>0, <1>1, <2>2, <2>4, ShapeStep DEF SwitchCall, bvars
<1> QED BY <1>3, <1>4

LEMMA SendSwitchShape ==
  ASSUME ShapeInv, Same, NEW c \in Creators, SendSwitch(c), UNCHANGED bvars
  PROVE  /\ ShapeInv' /\ Alone(c) /\ c \in Threads /\ pc'[c] \in {"switch", "app"}
         /\ \/ UNCHANGED chan
            \/ \E n \in Nodes, msg \in Messages(MaxNvps) :
                 msg.type \in SwitchCalls /\ Post(c[1], n, MaxNvps, msg)
<1>0. SetupInv /\ ThreadsFit /\ Channels /\ c \in Workers /\ c \in Threads /\ c[1] \in Nodes
  BY WorkerFacts DEF ShapeInv
<1>1. Alone(c)
  BY <1>0, AloneIf DEF SendSwitch
<1>2. PICK n \in Nodes : n = peer[c][1]
  BY <1>0, Now
<1>3. /\ Channels'
      /\ \/ UNCHANGED chan
         \/ \E msg \in Messages(MaxNvps) : msg.type \in SwitchCalls /\ Post(c[1], n, MaxNvps, msg)
  <2>1. CASE n = c[1]
    BY <1>0, <1>2, <2>1 DEF SendSwitch, Channels, Same
  <2>2. CASE n # c[1]
    <3>1. PICK call \in SwitchCalls : call = made[c][Len(made[c])]
      BY DEF SendSwitch, ShapeInv, SwitchTypes
    <3>2. call = "enable_prefetching" => ArgMsgs = 0
      <4>1. made[c] \in Seq(Calls) /\ made[c] # <<>>
        BY DEF SendSwitch, ShapeInv, SwitchTypes
      <4>2. call \in Calls
        BY <3>1, <4>1, EmptySeq, ElementOfSeq
      <4> QED BY <4>2 DEF Calls
    <3>3. PICK msg : msg = Message(call, NoTask, c)
      OBVIOUS
    <3>4. call \in Types /\ NoTask \in Bodies
      BY DEF Types, Bodies
    <3>t. msg.type = call
      BY <1>0, <3>3, <3>4, MessageFacts
    <3>5. Legal(MaxNvps, msg)
      BY <1>0, <3>2, <3>t, TagFacts DEF Legal, Descriptors, SwitchCalls
    <3>6. msg \in Messages(MaxNvps) /\ MaxNvps \in Tags
      BY <1>0, <3>3, <3>4, <3>5, MessageFacts, TagFacts
    <3>7. Post(c[1], n, MaxNvps, msg)
      BY <1>2, <2>2, <3>1, <3>3 DEF SendSwitch
    <3>8. Channels'
      BY <1>0, <3>6, <3>7, PostEffect
    <3> QED BY <3>6, <3>7, <3>8, <3>t
  <2> QED BY <2>1, <2>2
<1>4. Fits(c, pc'[c], hand'[c], peer'[c]) /\ pc'[c] \in {"switch", "app"}
  <2>1. hand'[c] = hand[c] /\ hand[c] \in Tasks \cup {NoTask} /\ peer[c] \in Nodes \X Tags
    BY <1>0, Now DEF SendSwitch
  <2>2. CASE n + 1 < NumNodes
    <3>1. pc'[c] = "switch" /\ peer'[c] = [peer[c] EXCEPT ![1] = n + 1]
      BY <1>0, <1>2, <2>2 DEF SendSwitch, ThreadsFit
    <3>2. n + 1 \in Nodes
      BY <1>0, <2>2, Numbers
    <3>3. peer'[c] \in Nodes \X Tags
      BY <2>1, <3>1, <3>2
    <3>4. WorkerFits(c, pc'[c], peer'[c])
      BY <3>1 DEF WorkerFits, InApplication, Inside, InFirst, InSecond
    <3> QED BY <1>0, <1>1, <2>1, <3>1, <3>3, <3>4, WorkerMoves DEF Places, WithTask
  <2>3. CASE ~(n + 1 < NumNodes)
    <3>1. pc'[c] = "app" /\ peer'[c] = peer[c]
      BY <1>0, <1>2, <2>3 DEF SendSwitch, ThreadsFit, Goto
    <3>4. WorkerFits(c, pc'[c], peer'[c])
      BY <3>1 DEF WorkerFits, InApplication, Inside, InFirst, InSecond
    <3> QED BY <1>0, <1>1, <2>1, <3>1, <3>4, WorkerMoves DEF Places, WithTask
  <2> QED BY <2>2, <2>3
<1>5. pc'[c] = "switch" => pc[c] = "switch"
  BY DEF SendSwitch
<1>6. ShapeInv'
  BY <1>0, <1>1, <1>3, <1>4, <1>5, ShapeStep DEF SendSwitch, bvars, Switch
<1> QED BY <1>0, <1>1, <1>3, <1>4, <1>6

(* A worker goes to place q, and nothing else about it changes.            *)
LEMMA WorkerGoes ==
  ASSUME ShapeInv, Same, NEW w \in Workers, NEW q \in Places, Goto(w, q), UNCHANGED <<hand, peer>>,
         q \in WithTask => pc[w] \in WithTask, WorkerFits(w, q, peer[w])
  PROVE  /\ Alone(w) /\ w \in Threads /\ pc'[w] = q /\ hand'[w] = hand[w] /\ peer'[w] = peer[w]
         /\ Fits(w, pc'[w], hand'[w], peer'[w])
<1>1. ThreadsFit /\ w \in Threads /\ SetupInv
  BY WorkerFacts DEF ShapeInv
<1>2. Alone(w)
  BY <1>1, AloneIf
<1>3. pc'[w] = q /\ hand'[w] = hand[w] /\ peer'[w] = peer[w]
  BY <1>1 DEF Goto, ThreadsFit
<1>4. hand[w] \in Tasks \cup {NoTask} /\ peer[w] \in Nodes \X Tags /\ (q \in WithTask => hand[w] \in Tasks)
  BY <1>1, Now
<1>5. Fits(w, pc'[w], hand'[w], peer'[w])
  BY <1>1, <1>2, <1>3, <1>4, WorkerMoves
<1> QED BY <1>1, <1>2, <1>3, <1>5

LEMMA WaitShape ==
  ASSUME ShapeInv, Same, NEW c \in Creators, UNCHANGED bvars,
         WaitAll(c) \/ Joined(c) \/ NotYet(c)
  PROVE  ShapeInv' /\ Alone(c) /\ c \in Threads
<1>0. SetupInv /\ c \in Workers
  BY WorkerFacts DEF ShapeInv
<1>1. CASE WaitAll(c)
  <2>1. WorkerFits(c, "wait", peer[c])
    BY DEF WorkerFits, InApplication, Inside, InFirst, InSecond
  <2>2. Alone(c) /\ c \in Threads /\ pc'[c] = "wait" /\ Fits(c, pc'[c], hand'[c], peer'[c])
    BY <1>0, <1>1, <2>1, WorkerGoes DEF WaitAll, Places, WithTask
  <2>3. AppTypes'
    <3>1. ndep' \in [Creators -> Int]
      BY <1>1 DEF WaitAll, ShapeInv, AppTypes
    <3> QED BY <1>1, <3>1 DEF WaitAll, ShapeInv, AppTypes, Same
  <2> QED BY <1>1, <2>2, <2>3, ShapeStep DEF WaitAll, Switch, bvars, Queues
<1>2. CASE Joined(c)
  <2>1. WorkerFits(c, "app", peer[c])
    BY DEF WorkerFits, InApplication, Inside, InFirst, InSecond
  <2>2. Alone(c) /\ c \in Threads /\ pc'[c] = "app" /\ Fits(c, pc'[c], hand'[c], peer'[c])
    BY <1>0, <1>2, <2>1, WorkerGoes DEF Joined, Places, WithTask
  <2> QED BY <1>2, <2>2, ShapeStep DEF Joined, Switch, bvars, Queues
<1>3. CASE NotYet(c)
  <2>1. WorkerFits(c, "poll", peer[c])
    BY DEF WorkerFits, InApplication, Inside, InFirst, InSecond, SearchPlaces
  <2>2. Alone(c) /\ c \in Threads /\ pc'[c] = "poll" /\ Fits(c, pc'[c], hand'[c], peer'[c])
    BY <1>0, <1>3, <2>1, WorkerGoes DEF NotYet, Places, WithTask
  <2> QED BY <1>3, <2>2, ShapeStep DEF NotYet, Switch, bvars, Queues
<1> QED BY <1>1, <1>2, <1>3

LEMMA PrefetchRequestShape ==
  ASSUME ShapeInv, Same, NEW w \in Workers, NEW n \in Nodes, PrefetchRequest(w, n), UNCHANGED bvars
  PROVE  /\ ShapeInv' /\ Alone(w) /\ w \in Threads
         /\ \E msg \in Messages(MaxNvps) : msg.type = "prefetch" /\ Post(w[1], n, MaxNvps, msg)
<1>0. SetupInv /\ ThreadsFit /\ Channels /\ w \in Threads /\ w[1] \in Nodes
  BY WorkerFacts DEF ShapeInv
<1>1. Alone(w)
  BY <1>0, AloneIf DEF PrefetchRequest
<1>2. Fits(w, pc'[w], hand'[w], peer'[w])
  BY <1>0 DEF PrefetchRequest, ThreadsFit
<1>3. PICK msg : msg = Message("prefetch", NoTask, w)
  OBVIOUS
<1>4. "prefetch" \in Types /\ NoTask \in Bodies /\ ArgMsgs = 0
  BY <1>0 DEF Types, Bodies, PrefetchRequest, ShapeInv, SwitchTypes
<1>5. msg.type = "prefetch"
  BY <1>0, <1>3, <1>4, MessageFacts
<1>6. Legal(MaxNvps, msg)
  BY <1>0, <1>4, <1>5, TagFacts DEF Legal, Descriptors
<1>7. msg \in Messages(MaxNvps) /\ MaxNvps \in Tags /\ Post(w[1], n, MaxNvps, msg)
  BY <1>0, <1>3, <1>4, <1>6, MessageFacts, TagFacts DEF PrefetchRequest
<1>8. Channels'
  BY <1>0, <1>7, PostEffect
<1> QED BY <1>0, <1>1, <1>2, <1>5, <1>7, <1>8, ShapeStep DEF PrefetchRequest, bvars, Switch

(* The task at the head of a queue is taken out.                           *)
LEMMA TakenFrom ==
  ASSUME NEW Q, Q \in [Nodes -> Seq(Tasks)], NEW n \in Nodes, Q[n] # <<>>
  PROVE  /\ Head(Q[n]) \in Tasks /\ Tail(Q[n]) \in Seq(Tasks)
         /\ [Q EXCEPT ![n] = Tail(Q[n])] \in [Nodes -> Seq(Tasks)]
<1>1. Head(Q[n]) \in Tasks /\ Tail(Q[n]) \in Seq(Tasks)
  BY HeadTailProperties
<1> QED BY <1>1

LEMMA TakeLocalShape ==
  ASSUME ShapeInv, Same, NEW w \in Workers, TakeLocal(w), UNCHANGED bvars
  PROVE  /\ ShapeInv' /\ Alone(w) /\ w \in Threads /\ pc'[w] = "execute"
<1>0. SetupInv /\ ThreadsFit /\ w \in Threads /\ w[1] \in Nodes /\ QueueTypes
  BY WorkerFacts DEF ShapeInv
<1>1. Alone(w)
  BY <1>0, AloneIf DEF TakeLocal
<1>2. hand'[w] \in Tasks /\ QueueTypes'
  <2>1. CASE /\ private[w[1]] # <<>> /\ Holds(w, Head(private[w[1]]))
             /\ private' = [private EXCEPT ![w[1]] = Tail(@)] /\ UNCHANGED public
    BY <1>0, <2>1, TakenFrom DEF QueueTypes, Same, Holds, ThreadsFit
  <2>2. CASE /\ public[w[1]] # <<>> /\ Holds(w, Head(public[w[1]]))
             /\ public' = [public EXCEPT ![w[1]] = Tail(@)] /\ UNCHANGED private
    BY <1>0, <2>2, TakenFrom DEF QueueTypes, Same, Holds, ThreadsFit
  <2> QED BY <2>1, <2>2 DEF TakeLocal
<1>3. pc'[w] = "execute" /\ peer'[w] = peer[w] /\ peer[w] \in Nodes \X Tags
  BY <1>0, Now DEF TakeLocal, Goto, ThreadsFit
<1>4. WorkerFits(w, pc'[w], peer'[w])
  BY <1>3 DEF WorkerFits, SearchPlaces, InApplication, Inside, InFirst, InSecond
<1>5. Fits(w, pc'[w], hand'[w], peer'[w])
  BY <1>1, <1>2, <1>3, <1>4, WorkerMoves DEF Places
<1> QED BY <1>0, <1>1, <1>2, <1>3, <1>5, ShapeStep DEF TakeLocal, bvars, Switch

LEMMA SearchShape ==
  ASSUME ShapeInv, Same, NEW w \in Workers, NothingHere(w) \/ HoldForReply(w), UNCHANGED bvars
  PROVE  ShapeInv' /\ Alone(w) /\ w \in Threads
<1>0. SetupInv /\ w \in Threads /\ w[1] \in Nodes /\ WorkerFits(w, pc[w], peer[w])
  BY WorkerFacts, Now DEF ShapeInv
<1>1. CASE NothingHere(w)
  <2>1. PICK q \in {"wait", "repoll"} : q = AfterSearch(w) /\ (q = "wait" => w \in Creators)
    BY DEF AfterSearch
  <2>2. WorkerFits(w, q, peer[w])
    BY <2>1 DEF WorkerFits, InApplication, Inside, InFirst, InSecond, SearchPlaces
  <2>3. Alone(w) /\ w \in Threads /\ pc'[w] = q /\ Fits(w, pc'[w], hand'[w], peer'[w])
    BY <1>0, <1>1, <2>1, <2>2, WorkerGoes DEF NothingHere, Places, WithTask
  <2> QED BY <1>1, <2>1, <2>3, ShapeStep DEF NothingHere, Switch, bvars, Queues
<1>2. CASE HoldForReply(w)
  <2>1. PICK q \in {"held", "reheld"} : Goto(w, q)
    BY <1>2 DEF HoldForReply
  <2>2. WorkerFits(w, q, peer[w])
    BY <1>0, <1>2 DEF HoldForReply, WorkerFits, InApplication, Inside, InFirst, InSecond, SearchPlaces
  <2>3. Alone(w) /\ w \in Threads /\ pc'[w] = q /\ Fits(w, pc'[w], hand'[w], peer'[w])
    BY <1>0, <1>2, <2>1, <2>2, WorkerGoes DEF HoldForReply, Places, WithTask
  <2>4. MemoryTypes'
    BY <1>0, <1>2 DEF HoldForReply, ShapeInv, MemoryTypes, Same, bvars, Bodies
  <2> QED BY <1>2, <2>1, <2>3, <2>4, ShapeStep DEF HoldForReply, Switch, bvars, Queues
<1> QED BY <1>1, <1>2

LEMMA NextVictim ==
  ASSUME SetupInv, NEW n \in Nodes
  PROVE  (n + 1) % NumNodes \in Nodes
BY Numbers

LEMMA StartRoundShape ==
  ASSUME ShapeInv, Same, NEW w \in Workers, StartRound(w), UNCHANGED bvars
  PROVE  /\ ShapeInv' /\ Alone(w) /\ w \in Threads /\ pc'[w] \in {"ask", "reask"}
         /\ hand'[w] = hand[w]
<1>0. SetupInv /\ ThreadsFit /\ w \in Threads /\ w[1] \in Nodes
  BY WorkerFacts DEF ShapeInv
<1>1. Alone(w)
  BY <1>0, AloneIf DEF StartRound
<1>2. pc'[w] \in {"ask", "reask"} /\ hand'[w] = hand[w] /\ hand[w] \in Tasks \cup {NoTask}
  BY <1>0, Now DEF StartRound, Goto, ThreadsFit
<1>3. peer'[w] = <<(w[1] + 1) % NumNodes, StealTag(w[2])>>
  BY <1>0 DEF StartRound, ThreadsFit, thread_id
<1>4. peer'[w] \in Nodes \X Tags
  BY <1>0, <1>3, NextVictim, TagFacts
<1>5. WorkerFits(w, pc'[w], peer'[w])
  BY <1>2, <1>3 DEF WorkerFits, SearchPlaces, InApplication, Inside, InFirst, InSecond
<1>6. Fits(w, pc'[w], hand'[w], peer'[w])
  BY <1>1, <1>2, <1>4, <1>5, WorkerMoves DEF Places, WithTask
<1> QED BY <1>0, <1>1, <1>2, <1>6, ShapeStep DEF StartRound, bvars, Switch

LEMMA StealRequestShape ==
  ASSUME ShapeInv, Same, NEW w \in Workers, StealRequest(w), UNCHANGED bvars
  PROVE  /\ ShapeInv' /\ Alone(w) /\ w \in Threads /\ pc'[w] \in {"await", "reawait"}
         /\ hand'[w] = hand[w] /\ peer'[w] = peer[w]
         /\ \E msg \in Messages(MaxNvps) : /\ msg.type = "steal" /\ msg.vp = w[2]
                                           /\ Post(w[1], peer[w][1], MaxNvps, msg)
<1>0. SetupInv /\ ThreadsFit /\ Channels /\ w \in Threads /\ w[1] \in Nodes /\ WorkerFits(w, pc[w], peer[w])
  BY WorkerFacts, Now DEF ShapeInv
<1>1. PICK q \in {"await", "reawait"} : Goto(w, q)
  BY DEF StealRequest
<1>2. WorkerFits(w, q, peer[w])
  BY <1>0 DEF StealRequest, WorkerFits, InApplication, Inside, InFirst, InSecond, SearchPlaces
<1>3. /\ Alone(w) /\ w \in Threads /\ pc'[w] = q /\ Fits(w, pc'[w], hand'[w], peer'[w])
      /\ hand'[w] = hand[w] /\ peer'[w] = peer[w]
  BY <1>0, <1>1, <1>2, WorkerGoes DEF StealRequest, Places, WithTask
<1>4. PICK msg : msg = Message("steal", NoTask, w)
  OBVIOUS
<1>5. "steal" \in Types /\ NoTask \in Bodies
  BY DEF Types, Bodies
<1>6. msg.type = "steal" /\ msg.vp = w[2]
  BY <1>0, <1>4, <1>5, MessageFacts
<1>7. Legal(MaxNvps, msg)
  BY <1>0, <1>6, TagFacts DEF Legal, Descriptors
<1>8. msg \in Messages(MaxNvps) /\ MaxNvps \in Tags /\ Post(w[1], peer[w][1], MaxNvps, msg)
  BY <1>0, <1>4, <1>5, <1>7, MessageFacts, TagFacts DEF StealRequest
<1>9. PICK n \in Nodes : n = peer[w][1]
  BY <1>0, Now
<1>10. Channels'
  BY SMTT(30), <1>0, <1>8, <1>9, PostEffect
<1> QED BY <1>0, <1>1, <1>3, <1>6, <1>8, <1>10, ShapeStep DEF StealRequest, bvars, Switch

LEMMA StealReplyShape ==
  ASSUME ShapeInv, Same, NEW w \in Workers, StealReply(w), UNCHANGED bvars,
         NEW k \in Nodes, k = peer[w][1]
  PROVE  /\ ShapeInv' /\ Alone(w) /\ w \in Threads
         /\ pc[w] \in Inside /\ peer[w][2] = StealTag(w[2])
         /\ chan[k][w[1]][StealTag(w[2])] # <<>> /\ Take(k, w[1], StealTag(w[2]))
         /\ LET msg == Head(chan[k][w[1]][StealTag(w[2])]) IN
            \/ /\ msg.type = "work" /\ hand'[w] = msg.body /\ peer'[w] = peer[w]
               /\ pc'[w] = IF Home(msg.body) = w[1] \/ ArgMsgs = 0 THEN "execute" ELSE "get_args"
            \/ /\ msg.type # "work" /\ hand'[w] = hand[w]
               /\ pc'[w] \in {"wait", "repoll", "reask", "ask"}
<1>0. /\ SetupInv /\ ThreadsFit /\ Channels /\ w \in Threads /\ w[1] \in Nodes
      /\ WorkerFits(w, pc[w], peer[w]) /\ peer[w] \in Nodes \X Tags
  BY SMTT(30), WorkerFacts, Now DEF ShapeInv
<1>1. Alone(w)
  <2>1. UNCHANGED peer \/ peer' = [peer EXCEPT ![w][1] = (peer[w][1] + 1) % NumNodes]
    BY ZenonT(30) DEF StealReply
  <2>2. \E p : peer' = [peer EXCEPT ![w] = p]
    BY <1>0, <2>1 DEF ThreadsFit
  <2>3. UNCHANGED hand \/ \E t : Holds(w, t)
    BY ZenonT(30) DEF StealReply
  <2>4. \E q : Goto(w, q)
    BY ZenonT(30) DEF StealReply
  <2> QED BY <1>0, <2>2, <2>3, <2>4, AloneIf
<1>2. pc[w] \in Inside
  BY ZenonT(30), <1>0, Numbers DEF StealReply, Inside, InFirst, InSecond
<1>3. peer[w][2] = StealTag(w[2])
  BY <1>0, <1>2 DEF WorkerFits
<1>4. PICK tag \in Tags : tag = StealTag(w[2]) /\ tag \in StealTags
  BY <1>0, TagFacts
<1>5. PICK msg : msg = Head(chan[k][w[1]][tag])
  BY SMTT(30)
<1>6. chan[k][w[1]][tag] # <<>> /\ Take(k, w[1], tag)
  BY <1>3, <1>4 DEF StealReply
<1>7. Channels' /\ msg \in Messages(tag)
  BY SMTT(30), <1>0, <1>5, <1>6, TakeEffect
<1>8. Legal(tag, msg)
  BY SMTT(30), <1>0, <1>7, HeldFacts
<1>9. CASE msg.type = "work"
  <2>1. msg.body \in Tasks
    BY SMTT(30), <1>8, <1>9 DEF Legal
  <2>2. /\ Holds(w, msg.body) /\ UNCHANGED <<peer, stealing>>
        /\ Goto(w, IF Home(msg.body) = w[1] \/ ArgMsgs = 0 THEN "execute" ELSE "get_args")
    BY ZenonT(30), <1>3, <1>4, <1>5, <1>9 DEF StealReply
  <2>3. /\ hand'[w] = msg.body /\ peer'[w] = peer[w]
        /\ pc'[w] = IF Home(msg.body) = w[1] \/ ArgMsgs = 0 THEN "execute" ELSE "get_args"
    BY <1>0, <2>2 DEF ThreadsFit, Holds, Goto
  <2>4. WorkerFits(w, pc'[w], peer'[w])
    BY <1>3, <2>3 DEF WorkerFits, SearchPlaces, InApplication, Inside, InFirst, InSecond
  <2>5. Fits(w, pc'[w], hand'[w], peer'[w])
    BY SMTT(30), <1>0, <1>1, <2>1, <2>3, <2>4, WorkerMoves DEF Places
  <2>6. MemoryTypes'
    BY ZenonT(30), <1>0 DEF StealReply, ShapeInv, MemoryTypes, Same, bvars, Bodies
  <2>7. SwitchTypes'
    <3>0. pc'[w] # "switch"
      BY <2>3
    <3>1. \A c \in Creators : pc'[c] = "switch" => pc[c] = "switch"
      BY <1>0, <1>1, <3>0, WorkerFacts, AloneOthers
    <3>2. Creators' = Creators /\ Nodes' = Nodes /\ ArgMsgs' = ArgMsgs /\ Calls' = Calls
      BY SMTT(30) DEF Same, Calls
    <3> QED BY ZenonT(30), <2>2, <3>1, <3>2 DEF ShapeInv, SwitchTypes, StealReply
  <2>8. ShapeInv'
    BY ZenonT(30), <1>0, <1>1, <1>7, <2>5, <2>6, <2>7, ShapeStep DEF StealReply, bvars
  <2> QED BY ZenonT(30), <1>0, <1>1, <1>2, <1>3, <1>4, <1>5, <1>6, <1>9, <2>3, <2>8
<1>10. CASE msg.type # "work"
  <2>0. PICK next : next = (k + 1) % NumNodes
    BY SMTT(30)
  <2>1. next \in Nodes
    BY SMTT(30), <1>0, <2>0, NextVictim
  <2>2. /\ UNCHANGED hand
        /\ IF next = w[1]
           THEN /\ stealing' = [stealing EXCEPT ![w[1]] = FALSE]
                /\ Goto(w, IF pc[w] \in InSecond /\ w \in Creators THEN "wait" ELSE "repoll")
                /\ UNCHANGED peer
           ELSE /\ peer' = [peer EXCEPT ![w][1] = next]
                /\ Goto(w, IF pc[w] \in InSecond THEN "reask" ELSE "ask")
                /\ UNCHANGED stealing
    BY <1>3, <1>4, <1>5, <1>10, <2>0 DEF StealReply
  <2>3. hand'[w] = hand[w] /\ hand[w] \in Tasks \cup {NoTask}
    BY <1>0, <2>2, Now
  <2>4. /\ pc'[w] \in {"wait", "repoll", "reask", "ask"} /\ (pc'[w] = "wait" => w \in Creators)
        /\ peer'[w] \in Nodes \X Tags /\ peer'[w][2] = peer[w][2]
    <3>1. CASE next = w[1]
      BY <1>0, <2>2, <3>1 DEF ThreadsFit, Goto
    <3>2. CASE next # w[1]
      <4>1. peer'[w] = [peer[w] EXCEPT ![1] = next]
        BY <1>0, <2>2, <3>2 DEF ThreadsFit
      <4>2. peer'[w] \in Nodes \X Tags /\ peer'[w][2] = peer[w][2]
        BY <1>0, <2>1, <4>1
      <4> QED BY <1>0, <2>2, <3>2, <4>2 DEF ThreadsFit, Goto
    <3> QED BY <3>1, <3>2
  <2>5. WorkerFits(w, pc'[w], peer'[w])
    BY <1>3, <2>4 DEF WorkerFits, SearchPlaces, InApplication, Inside, InFirst, InSecond
  <2>6. Fits(w, pc'[w], hand'[w], peer'[w])
    BY SMTT(30), <1>0, <1>1, <2>3, <2>4, <2>5, WorkerMoves DEF Places, WithTask
  <2>7. MemoryTypes'
    BY <1>0 DEF StealReply, ShapeInv, MemoryTypes, Same, bvars, Bodies
  <2>8. SwitchTypes'
    <3>0. pc'[w] # "switch"
      BY <2>4
    <3>1. \A c \in Creators : pc'[c] = "switch" => pc[c] = "switch"
      BY <1>0, <1>1, <3>0, WorkerFacts, AloneOthers
    <3>2. Creators' = Creators /\ Nodes' = Nodes /\ ArgMsgs' = ArgMsgs /\ Calls' = Calls
      BY DEF Same, Calls
    <3>3. stealing' \in [Nodes -> BOOLEAN]
      BY <2>2 DEF ShapeInv, SwitchTypes
    <3> QED BY ZenonT(30), <3>1, <3>2, <3>3 DEF ShapeInv, SwitchTypes, StealReply
  <2>9. ShapeInv'
    BY <1>0, <1>1, <1>7, <2>6, <2>7, <2>8, ShapeStep DEF StealReply, bvars
  <2> QED BY ZenonT(30), <1>0, <1>1, <1>2, <1>3, <1>4, <1>5, <1>6, <1>10, <2>3, <2>4, <2>9
<1> QED BY ZenonT(30), <1>9, <1>10

(***************************************************************************)
(* Descriptors and arguments.                                              *)
(***************************************************************************)
(* What a thread may do at a place that workers and servers share.         *)
LEMMA ThreadMoves ==
  ASSUME ShapeInv, Same, NEW th \in Threads, Alone(th),
         pc'[th] \in Places, hand'[th] \in Tasks \cup {NoTask}, peer'[th] \in Nodes \X Tags,
         pc'[th] \in WithTask => hand'[th] \in Tasks,
         th \in Workers => WorkerFits(th, pc'[th], peer'[th]),
         th \in Servers => ServerFits(pc'[th], peer'[th])
  PROVE  Fits(th, pc'[th], hand'[th], peer'[th])
BY DEF Fits

LEMMA SendDescriptorShape ==
  ASSUME ShapeInv, Same, NEW th \in Threads, SendDescriptor(th), UNCHANGED bvars,
         NEW n \in Nodes, n = peer[th][1], NEW t \in Tasks, t = hand[th]
  PROVE  /\ ShapeInv' /\ Alone(th) /\ pc[th] \in {"send", "push"}
         /\ \E msg \in Messages(MaxNvps) :
              /\ msg.type \in {"enqueue", "enqueue_private"} /\ msg.body = t /\ msg.vp = th[2]
              /\ msg.type = (IF pc[th] = "send" THEN "enqueue" ELSE "enqueue_private")
              /\ Post(th[1], n, MaxNvps, msg)
         /\ peer'[th] = peer[th]
         /\ \/ /\ Home(t) = n \/ ArgMsgs = 0
               /\ pc'[th] = AfterSend(th) /\ hand'[th] = NoTask
            \/ /\ Home(t) # n /\ ArgMsgs # 0
               /\ pc'[th] = "send_args" /\ hand'[th] = t /\ th \in Workers
<1>0. /\ SetupInv /\ ThreadsFit /\ Channels /\ th[1] \in Nodes /\ th[2] \in Vps
      /\ peer[th] \in Nodes \X Tags /\ pc[th] \in {"send", "push"}
  BY Now DEF ShapeInv, SendDescriptor
<1>1. Alone(th)
  BY <1>0, AloneIf DEF SendDescriptor
<1>2. \/ /\ th \in Workers /\ pc[th] = "send" /\ th \in Creators /\ peer[th][2] = th[2]
         /\ ~IsServer(th) /\ th \notin Servers
      \/ th \in Servers /\ pc[th] = "push" /\ ArgMsgs = 0 /\ IsServer(th) /\ th \notin Workers
  <2>1. CASE th \in Workers
    <3>1. WorkerFits(th, pc[th], peer[th])
      BY <2>1, Now
    <3>2. pc[th] \notin SearchPlaces
      BY <1>0 DEF SearchPlaces
    <3>3. th \in Creators /\ pc[th] \in InApplication \cup {"wait"}
      BY <3>1, <3>2 DEF WorkerFits
    <3>4. pc[th] # "push" /\ pc[th] \in InApplication \ {"app", "switch"}
      BY <1>0, <3>3 DEF InApplication
    <3>5. peer[th][2] = th[2]
      BY <3>1, <3>4 DEF WorkerFits
    <3>6. th \in Creators /\ ~IsServer(th) /\ th \notin Servers
      BY <1>0, <2>1, <3>3, ServerFacts
    <3>7. pc[th] # "push"
      BY <3>4
    <3> QED BY <1>0, <2>1, <3>5, <3>6, <3>7
  <2>2. CASE th \in Servers
    <3>1. ServerFits(pc[th], peer[th])
      BY <2>2, Now
    <3> QED BY <1>0, <2>2, <3>1, ServerFacts DEF ServerFits, ServerPlaces
  <2> QED BY <1>0, <2>1, <2>2, ServerFacts
<1>3. PICK type \in {"enqueue", "enqueue_private"} :
        type = IF pc[th] = "send" THEN "enqueue" ELSE "enqueue_private"
  OBVIOUS
<1>4. PICK msg : msg = Message(type, t, th)
  OBVIOUS
<1>5. type \in Types /\ t \in Bodies
  BY DEF Types, Bodies
<1>6. msg.type = type /\ msg.body = t /\ msg.vp = th[2]
  BY <1>0, <1>4, <1>5, MessageFacts
<1>7. Legal(MaxNvps, msg)
  BY <1>0, <1>2, <1>3, <1>6, TagFacts DEF Legal, Descriptors
<1>8. msg \in Messages(MaxNvps) /\ MaxNvps \in Tags /\ Post(th[1], n, MaxNvps, msg)
  BY <1>0, <1>3, <1>4, <1>5, <1>7, MessageFacts, TagFacts DEF SendDescriptor
<1>9. Channels'
  BY <1>0, <1>8, PostEffect
<1>10. peer'[th] = peer[th]
  BY DEF SendDescriptor
<1>11. \/ /\ Home(t) = n \/ ArgMsgs = 0
          /\ pc'[th] = AfterSend(th) /\ hand'[th] = NoTask
       \/ /\ Home(t) # n /\ ArgMsgs # 0
          /\ pc'[th] = "send_args" /\ hand'[th] = t /\ th \in Workers
  <2>1. CASE Home(t) = n \/ ArgMsgs = 0
    BY <1>0, <2>1 DEF SendDescriptor, ThreadsFit, Goto, Holds
  <2>2. CASE ~(Home(t) = n \/ ArgMsgs = 0)
    BY <1>0, <1>2, <2>2 DEF SendDescriptor, ThreadsFit, Goto
  <2> QED BY <2>1, <2>2
<1>12. Fits(th, pc'[th], hand'[th], peer'[th])
  <2>1. pc'[th] \in {"serve", "app", "send_args"} /\ (pc'[th] = "send_args" => hand'[th] \in Tasks)
        /\ hand'[th] \in Tasks \cup {NoTask}
    BY <1>11 DEF AfterSend
  <2>2. th \in Workers => WorkerFits(th, pc'[th], peer'[th])
    BY <1>2, <1>10, <1>11 DEF AfterSend, WorkerFits, InApplication, Inside, InFirst, InSecond
  <2>3. th \in Servers => ServerFits(pc'[th], peer'[th])
    BY <1>2, <1>11 DEF AfterSend, ServerFits, ServerPlaces
  <2> QED BY <1>0, <1>1, <1>10, <2>1, <2>2, <2>3, ThreadMoves DEF Places, WithTask
<1>13. pc'[th] # "switch"
  BY <1>11 DEF AfterSend
<1>14. ShapeInv'
  BY <1>0, <1>1, <1>9, <1>12, <1>13, ShapeStep DEF SendDescriptor, bvars, Switch
<1> QED BY <1>0, <1>1, <1>3, <1>6, <1>8, <1>10, <1>11, <1>14

LEMMA DirectSendShape ==
  ASSUME ShapeInv, Same, NEW th \in Threads, DirectSendDescriptor(th), UNCHANGED bvars,
         NEW n \in Nodes, n = peer[th][1], NEW t \in Tasks \cup {NoTask}, t = hand[th],
         NEW tag \in Tags, tag = peer[th][2]
  PROVE  /\ ShapeInv' /\ Alone(th) /\ pc[th] = "reply" /\ th \in Servers /\ tag \in StealTags
         /\ \E msg \in Messages(tag) :
              /\ msg.type = (IF t = NoTask THEN "no_work" ELSE "work") /\ msg.body = t
              /\ Post(th[1], n, tag, msg)
         /\ peer'[th] = peer[th]
         /\ \/ /\ t = NoTask \/ ArgMsgs = 0 \/ Home(t) = n
               /\ pc'[th] = "serve" /\ hand'[th] = NoTask
            \/ /\ t \in Tasks /\ Home(t) # n /\ ArgMsgs # 0
               /\ pc'[th] = "send_args" /\ hand'[th] = t
<1>0. /\ SetupInv /\ ThreadsFit /\ Channels /\ th[1] \in Nodes /\ th[2] \in Vps
      /\ peer[th] \in Nodes \X Tags /\ pc[th] = "reply"
  BY Now DEF ShapeInv, DirectSendDescriptor
<1>1. Alone(th)
  BY <1>0, AloneIf DEF DirectSendDescriptor
<1>2. th \in Servers /\ th \notin Workers /\ ServerFits(pc[th], peer[th])
  <2>1. CASE th \in Workers
    <3>1. WorkerFits(th, pc[th], peer[th])
      BY <2>1, Now
    <3> QED BY <1>0, <2>1, <3>1 DEF WorkerFits, SearchPlaces, InApplication
  <2> QED BY <1>0, <2>1, ServerFacts, Now
<1>3. tag \in StealTags
  BY <1>0, <1>2 DEF ServerFits
<1>4. PICK type \in {"work", "no_work"} : type = IF t = NoTask THEN "no_work" ELSE "work"
  OBVIOUS
<1>5. PICK msg : msg = Message(type, t, th)
  OBVIOUS
<1>6. type \in Types /\ t \in Bodies
  BY DEF Types, Bodies
<1>7. msg.type = type /\ msg.body = t
  BY <1>0, <1>5, <1>6, MessageFacts
<1>8. Legal(tag, msg)
  BY <1>0, <1>3, <1>4, <1>7, TagFacts DEF Legal, Descriptors
<1>9. msg \in Messages(tag) /\ Post(th[1], n, tag, msg)
  BY <1>0, <1>4, <1>5, <1>6, <1>8, MessageFacts DEF DirectSendDescriptor
<1>10. Channels'
  BY <1>0, <1>9, PostEffect
<1>11. peer'[th] = peer[th]
  BY DEF DirectSendDescriptor
<1>12. \/ /\ t = NoTask \/ ArgMsgs = 0 \/ Home(t) = n
          /\ pc'[th] = "serve" /\ hand'[th] = NoTask
       \/ /\ t \in Tasks /\ Home(t) # n /\ ArgMsgs # 0
          /\ pc'[th] = "send_args" /\ hand'[th] = t
  <2>1. CASE t = NoTask \/ ArgMsgs = 0 \/ Home(t) = n
    BY <1>0, <2>1 DEF DirectSendDescriptor, ThreadsFit, Goto, Holds
  <2>2. CASE ~(t = NoTask \/ ArgMsgs = 0 \/ Home(t) = n)
    BY <1>0, <2>2 DEF DirectSendDescriptor, ThreadsFit, Goto
  <2> QED BY <2>1, <2>2
<1>13. Fits(th, pc'[th], hand'[th], peer'[th])
  <2>1. ServerFits(pc'[th], peer'[th])
    BY <1>3, <1>11, <1>12 DEF ServerFits, ServerPlaces
  <2> QED BY <1>0, <1>1, <1>2, <1>11, <1>12, <2>1, ServerMoves DEF Places, WithTask
<1>14. ShapeInv'
  BY <1>0, <1>1, <1>10, <1>12, <1>13, ShapeStep DEF DirectSendDescriptor, bvars, Switch
<1> QED BY <1>0, <1>1, <1>2, <1>3, <1>4, <1>7, <1>9, <1>11, <1>12, <1>14

LEMMA SendArgumentsShape ==
  ASSUME ShapeInv, Same, NEW th \in Threads, SendArguments(th), UNCHANGED bvars,
         NEW n \in Nodes, n = peer[th][1], NEW tag \in Tags, tag = peer[th][2]
  PROVE  /\ ShapeInv' /\ Alone(th) /\ pc[th] = "send_args" /\ hand[th] \in Tasks
         /\ \E msg \in Messages(tag) : /\ msg.type = "argument" /\ msg.body = hand[th]
                                       /\ Post(th[1], n, tag, msg)
         /\ peer'[th] = peer[th] /\ pc'[th] = AfterSend(th) /\ hand'[th] = NoTask
         /\ th \in Servers => tag \in StealTags
         /\ th \in Workers => tag = th[2]
<1>0. /\ SetupInv /\ ThreadsFit /\ Channels /\ th[1] \in Nodes /\ th[2] \in Vps
      /\ peer[th] \in Nodes \X Tags /\ pc[th] = "send_args" /\ hand[th] \in Tasks
  BY Now DEF ShapeInv, SendArguments, WithTask
<1>1. Alone(th)
  BY <1>0, AloneIf DEF SendArguments
<1>2. \/ /\ th \in Workers /\ th \in Creators /\ peer[th][2] = th[2] /\ ~IsServer(th)
         /\ th \notin Servers
      \/ th \in Servers /\ tag \in StealTags /\ IsServer(th) /\ th \notin Workers
  <2>1. CASE th \in Workers
    <3>1. WorkerFits(th, pc[th], peer[th])
      BY <2>1, Now
    <3>2. pc[th] \notin SearchPlaces
      BY <1>0 DEF SearchPlaces
    <3>3. th \in Creators /\ pc[th] \in InApplication \cup {"wait"}
      BY <3>1, <3>2 DEF WorkerFits
    <3>4. pc[th] # "push" /\ pc[th] \in InApplication \ {"app", "switch"}
      BY <1>0, <3>3 DEF InApplication
    <3>5. peer[th][2] = th[2]
      BY <3>1, <3>4 DEF WorkerFits
    <3>6. th \in Creators /\ ~IsServer(th) /\ th \notin Servers
      BY <1>0, <2>1, <3>3, ServerFacts
    <3>7. pc[th] # "push"
      BY <3>4
    <3> QED BY <1>0, <2>1, <3>5, <3>6, <3>7
  <2>2. CASE th \in Servers
    <3>1. ServerFits(pc[th], peer[th])
      BY <2>2, Now
    <3> QED BY <1>0, <2>2, <3>1, ServerFacts DEF ServerFits, ServerPlaces
  <2> QED BY <1>0, <2>1, <2>2, ServerFacts
<1>3. PICK t \in Tasks : t = hand[th]
  BY <1>0
<1>4. PICK msg : msg = Message("argument", t, th)
  OBVIOUS
<1>5. "argument" \in Types /\ t \in Bodies
  BY DEF Types, Bodies
<1>6. msg.type = "argument" /\ msg.body = t
  BY <1>0, <1>4, <1>5, MessageFacts
<1>7. Legal(tag, msg)
  BY <1>0, <1>2, <1>6, TagFacts DEF Legal, Descriptors
<1>8. msg \in Messages(tag) /\ Post(th[1], n, tag, msg)
  BY <1>0, <1>3, <1>4, <1>5, <1>7, MessageFacts DEF SendArguments
<1>9. Channels'
  BY <1>0, <1>8, PostEffect
<1>10. pc'[th] = AfterSend(th) /\ hand'[th] = NoTask /\ peer'[th] = peer[th]
  BY <1>0 DEF SendArguments, ThreadsFit, Goto, Holds
<1>11. Fits(th, pc'[th], hand'[th], peer'[th])
  <2>1. pc'[th] \in {"serve", "app"}
    BY <1>10 DEF AfterSend
  <2>2. th \in Workers => WorkerFits(th, pc'[th], peer'[th])
    BY <1>2, <1>10 DEF AfterSend, WorkerFits, InApplication, Inside, InFirst, InSecond
  <2>3. th \in Servers => ServerFits(pc'[th], peer'[th])
    BY <1>2, <1>10 DEF AfterSend, ServerFits, ServerPlaces
  <2> QED BY <1>0, <1>1, <1>10, <2>1, <2>2, <2>3, ThreadMoves DEF Places, WithTask
<1>12. pc'[th] # "switch"
  BY <1>10 DEF AfterSend
<1>13. ShapeInv'
  BY <1>0, <1>1, <1>9, <1>11, <1>12, ShapeStep DEF SendArguments, bvars, Switch
<1> QED BY <1>0, <1>1, <1>2, <1>3, <1>6, <1>8, <1>10, <1>13

LEMMA HoldForArgumentsShape ==
  ASSUME ShapeInv, Same, NEW th \in Threads, HoldForArguments(th), UNCHANGED bvars
  PROVE  /\ ShapeInv' /\ Alone(th) /\ pc[th] = "get_args" /\ pc'[th] = "held_args"
         /\ hand'[th] = hand[th] /\ peer'[th] = peer[th]
<1>0. /\ SetupInv /\ ThreadsFit /\ th[1] \in Nodes /\ pc[th] \in {"get_args", "get_args_private"}
  BY Now DEF ShapeInv, HoldForArguments
<1>1. Alone(th)
  BY <1>0, AloneIf DEF HoldForArguments
<1>2. pc[th] = "get_args"
  <2>1. CASE th \in Workers
    <3>1. WorkerFits(th, pc[th], peer[th])
      BY <2>1, Now
    <3>2. pc[th] \in SearchPlaces \cup InApplication \cup {"wait"}
      BY <3>1 DEF WorkerFits
    <3> QED BY <1>0, <3>2 DEF SearchPlaces, InApplication
  <2>2. CASE th \in Servers
    <3>1. ServerFits(pc[th], peer[th])
      BY <2>2, Now
    <3> QED BY <1>0, <3>1 DEF ServerFits, ServerPlaces
  <2> QED BY <1>0, <2>1, <2>2, ServerFacts
<1>3. pc'[th] = "held_args" /\ hand'[th] = hand[th] /\ peer'[th] = peer[th]
  BY <1>0, <1>2 DEF HoldForArguments, Goto, ThreadsFit
<1>4. th \in Workers => WorkerFits(th, pc'[th], peer'[th])
  <2> SUFFICES ASSUME th \in Workers PROVE WorkerFits(th, pc'[th], peer'[th])
    OBVIOUS
  <2>1. WorkerFits(th, pc[th], peer[th])
    BY Now
  <2> QED BY <1>2, <1>3, <2>1 DEF WorkerFits, SearchPlaces, InApplication, Inside, InFirst, InSecond
<1>5. th \in Servers => ServerFits(pc'[th], peer'[th])
  <2> SUFFICES ASSUME th \in Servers PROVE ServerFits(pc'[th], peer'[th])
    OBVIOUS
  <2>1. ServerFits(pc[th], peer[th])
    BY Now
  <2> QED BY <1>2, <1>3, <2>1 DEF ServerFits, ServerPlaces
<1>6. /\ hand'[th] \in Tasks /\ hand'[th] \in Tasks \cup {NoTask} /\ peer'[th] \in Nodes \X Tags
  BY <1>2, <1>3, Now DEF WithTask
<1>7. Fits(th, pc'[th], hand'[th], peer'[th])
  BY <1>1, <1>3, <1>4, <1>5, <1>6, ThreadMoves DEF Places
<1>8. MemoryTypes'
  BY <1>0 DEF HoldForArguments, ShapeInv, MemoryTypes, Same, bvars, Bodies
<1>9. ShapeInv'
  BY <1>1, <1>3, <1>7, <1>8, ShapeStep DEF HoldForArguments, bvars, Switch, Queues
<1> QED BY <1>1, <1>2, <1>3, <1>9

(* What becomes of a task that a server has taken out of a message.        *)
LEMMA EnqueuedFits ==
  ASSUME ShapeInv, Same, NEW s \in Servers, NEW t \in Tasks, NEW toPrivate \in BOOLEAN,
         Enqueued(s, t, toPrivate), UNCHANGED peer
  PROVE  /\ Alone(s) /\ s \in Threads /\ Fits(s, pc'[s], hand'[s], peer'[s]) /\ QueueTypes'
         /\ pc'[s] \in {"execute", "serve"}
         /\ \/ pc'[s] = "execute" /\ hand'[s] = t /\ UNCHANGED Queues
            \/ /\ pc'[s] = "serve" /\ hand'[s] = NoTask
               /\ \/ public' = [public EXCEPT ![s[1]] = Append(@, t)] /\ UNCHANGED private
                  \/ private' = [private EXCEPT ![s[1]] = Append(@, t)] /\ UNCHANGED public
<1>0. SetupInv /\ ThreadsFit /\ s \in Threads /\ s[1] \in Nodes /\ QueueTypes
  BY ServerFacts DEF ShapeInv
<1>1. Alone(s)
  BY <1>0, AloneIf DEF Enqueued
<1>2. CASE t \in direct
  <2>1. pc'[s] = "execute" /\ hand'[s] = t /\ peer'[s] = peer[s] /\ UNCHANGED Queues
    BY <1>0, <1>2 DEF Enqueued, ThreadsFit, Goto, Holds
  <2>2. ServerFits(pc'[s], peer'[s])
    <3>1. ResMsgs = 0
      BY <1>2 DEF ShapeInv, AppTypes
    <3> QED BY <2>1, <3>1 DEF ServerFits, ServerPlaces
  <2>3. peer[s] \in Nodes \X Tags
    BY <1>0, Now
  <2>4. Fits(s, pc'[s], hand'[s], peer'[s])
    BY <1>1, <2>1, <2>2, <2>3, ServerMoves DEF Places
  <2>5. QueueTypes'
    BY <1>0, <2>1 DEF QueueTypes, Queues, Same
  <2> QED BY <1>0, <1>1, <2>1, <2>4, <2>5
<1>3. CASE t \notin direct
  <2>1. pc'[s] = "serve" /\ hand'[s] = NoTask /\ peer'[s] = peer[s]
    BY <1>0, <1>3 DEF Enqueued, ThreadsFit, Goto, Holds
  <2>2. ServerFits(pc'[s], peer'[s])
    BY <2>1 DEF ServerFits, ServerPlaces
  <2>3. peer[s] \in Nodes \X Tags
    BY <1>0, Now
  <2>4. Fits(s, pc'[s], hand'[s], peer'[s])
    BY <1>1, <2>1, <2>2, <2>3, ServerMoves DEF Places, WithTask
  <2>5. \/ public' = [public EXCEPT ![s[1]] = Append(@, t)] /\ UNCHANGED private
        \/ private' = [private EXCEPT ![s[1]] = Append(@, t)] /\ UNCHANGED public
    BY <1>3 DEF Enqueued
  <2>6. Append(public[s[1]], t) \in Seq(Tasks) /\ Append(private[s[1]], t) \in Seq(Tasks)
    BY <1>0, AppendProperties DEF QueueTypes
  <2>7. QueueTypes'
    BY <1>0, <2>5, <2>6 DEF QueueTypes, Same
  <2> QED BY <1>0, <1>1, <2>1, <2>4, <2>5, <2>7
<1> QED BY <1>2, <1>3

LEMMA ReceiveArgumentsShape ==
  ASSUME ShapeInv, Same, NEW th \in Threads, ReceiveArguments(th), UNCHANGED bvars,
         NEW n \in Nodes, n = peer[th][1], NEW tag \in Tags, tag = peer[th][2],
         NEW t \in Tasks, t = hand[th]
  PROVE  /\ ShapeInv' /\ Alone(th) /\ pc[th] = "held_args"
         /\ chan[n][th[1]][tag] # <<>> /\ Take(n, th[1], tag) /\ UNCHANGED peer
         /\ \/ /\ th \in Workers /\ tag = StealTag(th[2])
               /\ pc'[th] = "execute" /\ hand'[th] = t /\ UNCHANGED Queues
            \/ th \in Servers /\ tag \in WorkerVps /\ \E b \in BOOLEAN : Enqueued(th, t, b)
<1>0. /\ SetupInv /\ ThreadsFit /\ Channels /\ th[1] \in Nodes
      /\ peer[th] \in Nodes \X Tags /\ pc[th] \in {"held_args", "held_args_private"}
  BY Now DEF ShapeInv, ReceiveArguments
<1>1. chan[n][th[1]][tag] # <<>> /\ Take(n, th[1], tag) /\ UNCHANGED peer
  BY DEF ReceiveArguments
<1>2. Channels'
  BY <1>0, <1>1, TakeEffect
<1>3. MemoryTypes'
  BY <1>0 DEF ReceiveArguments, ShapeInv, MemoryTypes, Same, bvars, Bodies
<1>4. CASE th \in Workers
  <2>1. WorkerFits(th, pc[th], peer[th]) /\ ~IsServer(th)
    BY <1>4, Now
  <2>2. pc[th] \in SearchPlaces \cup InApplication \cup {"wait"}
    BY <2>1 DEF WorkerFits
  <2>3. pc[th] = "held_args"
    BY <1>0, <2>2 DEF SearchPlaces, InApplication
  <2>4. tag = StealTag(th[2])
    BY <2>1, <2>3 DEF WorkerFits
  <2>5. Goto(th, "execute") /\ UNCHANGED <<hand, peer, Queues>>
    BY <2>1 DEF ReceiveArguments
  <2>6. WorkerFits(th, "execute", peer[th])
    BY DEF WorkerFits, SearchPlaces, InApplication, Inside, InFirst, InSecond
  <2>7. /\ Alone(th) /\ pc'[th] = "execute" /\ hand'[th] = hand[th]
        /\ Fits(th, pc'[th], hand'[th], peer'[th])
    BY <1>4, <2>3, <2>5, <2>6, WorkerGoes DEF Places, WithTask
  <2>8. ShapeInv'
    BY <1>2, <1>3, <2>5, <2>7, ShapeStep DEF ReceiveArguments, bvars, Switch
  <2> QED BY <1>1, <1>4, <2>3, <2>4, <2>5, <2>7, <2>8
<1>5. CASE th \in Servers
  <2>1. ServerFits(pc[th], peer[th]) /\ IsServer(th)
    BY <1>5, Now
  <2>2. pc[th] = "held_args" /\ tag \in WorkerVps
    BY <1>0, <2>1 DEF ServerFits, ServerPlaces
  <2>3. PICK b \in BOOLEAN : Enqueued(th, t, b)
    <3>1. (pc[th] = "held_args_private") \in BOOLEAN
      OBVIOUS
    <3> QED BY <2>1, <3>1 DEF ReceiveArguments
  <2>4. /\ Alone(th) /\ Fits(th, pc'[th], hand'[th], peer'[th]) /\ QueueTypes'
        /\ pc'[th] \in {"execute", "serve"}
    BY <1>1, <1>5, <2>3, EnqueuedFits
  <2>5. ShapeInv'
    BY <1>2, <1>3, <2>4, ShapeStep DEF ReceiveArguments, bvars, Switch
  <2> QED BY <1>1, <1>5, <2>2, <2>3, <2>4, <2>5
<1> QED BY <1>0, <1>4, <1>5, ServerFacts

(***************************************************************************)
(* Execution.                                                              *)
(***************************************************************************)
LEMMA ExecuteShape ==
  ASSUME ShapeInv, Same, NEW th \in Threads, Execute(th), UNCHANGED bvars
  PROVE  /\ ShapeInv' /\ Alone(th) /\ pc[th] = "execute" /\ pc'[th] = "run"
         /\ hand'[th] = hand[th] /\ hand[th] \in Tasks /\ peer'[th] = peer[th]
<1>0. /\ SetupInv /\ ThreadsFit /\ pc[th] = "execute" /\ hand[th] \in Tasks
      /\ hand[th] \in Tasks \cup {NoTask} /\ peer[th] \in Nodes \X Tags
  BY Now DEF ShapeInv, Execute, WithTask
<1>1. Alone(th)
  BY <1>0, AloneIf DEF Execute
<1>2. pc'[th] = "run" /\ hand'[th] = hand[th] /\ peer'[th] = peer[th]
  BY <1>0 DEF Execute, Goto, ThreadsFit
<1>3. th \in Workers => WorkerFits(th, pc'[th], peer'[th])
  BY <1>2 DEF WorkerFits, SearchPlaces, InApplication, Inside, InFirst, InSecond
<1>4. th \in Servers => ServerFits(pc'[th], peer'[th])
  BY <1>0, <1>2, Now DEF ServerFits, ServerPlaces
<1>5. Fits(th, pc'[th], hand'[th], peer'[th])
  BY <1>0, <1>1, <1>2, <1>3, <1>4, ThreadMoves DEF Places
<1>6. AppTypes'
  BY DEF Execute, Application, ShapeInv, AppTypes, Same
<1>7. ShapeInv'
  BY <1>1, <1>2, <1>5, <1>6, ShapeStep DEF Execute, bvars, Switch, Queues
<1> QED BY <1>0, <1>1, <1>2, <1>7

(* A thread that is done with a task goes on.                              *)
LEMMA GoesOn ==
  ASSUME ShapeInv, Same, NEW th \in Threads, Goto(th, AfterTask(th)), Holds(th, NoTask),
         UNCHANGED peer
  PROVE  /\ Alone(th) /\ Fits(th, pc'[th], hand'[th], peer'[th]) /\ hand'[th] = NoTask
         /\ pc'[th] \in {"serve", "wait", "poll"}
<1>0. SetupInv /\ ThreadsFit /\ peer[th] \in Nodes \X Tags
  BY Now DEF ShapeInv
<1>1. Alone(th)
  BY <1>0, AloneIf
<1>2. pc'[th] = AfterTask(th) /\ hand'[th] = NoTask /\ peer'[th] = peer[th]
  BY <1>0 DEF Goto, Holds, ThreadsFit
<1>3. ASSUME th \in Workers PROVE WorkerFits(th, pc'[th], peer'[th])
  <2>1. pc'[th] = IF th \in Creators THEN "wait" ELSE "poll"
    BY <1>2, <1>3, Now DEF AfterTask, Again
  <2> QED BY <2>1 DEF WorkerFits, SearchPlaces, InApplication, Inside, InFirst, InSecond
<1>4. ASSUME th \in Servers PROVE ServerFits(pc'[th], peer'[th])
  <2>1. pc'[th] = "serve"
    BY <1>2, <1>4, Now DEF AfterTask
  <2> QED BY <2>1 DEF ServerFits, ServerPlaces
<1>5. pc'[th] \in {"serve", "wait", "poll"}
  BY <1>2 DEF AfterTask, Again
<1>6. Fits(th, pc'[th], hand'[th], peer'[th])
  BY <1>0, <1>1, <1>2, <1>3, <1>4, <1>5, ThreadMoves DEF Places, WithTask
<1> QED BY <1>1, <1>2, <1>5, <1>6

(* A counter is decremented and a task gets another stage.                 *)
LEMMA SatisfiedTypes ==
  ASSUME ShapeInv, Same, NEW t \in Tasks, DepSatisfy(t), UNCHANGED <<unjoined, parent, direct>>
  PROVE  AppTypes'
<1>0. ndep \in [Creators -> Int]
  BY DEF ShapeInv, AppTypes
<1>1. ndep' \in [Creators -> Int]
  <2>1. PICK c : c = parent[t]
    OBVIOUS
  <2>2. ndep' = [ndep EXCEPT ![c] = ndep[c] - 1]
    BY <2>1 DEF DepSatisfy
  <2>3. CASE c \in Creators
    BY <1>0, <2>2, <2>3
  <2>4. CASE c \notin Creators
    BY <1>0, <2>2, <2>4
  <2> QED BY <2>3, <2>4
<1> QED BY <1>1 DEF DepSatisfy, ShapeInv, AppTypes, Same

LEMMA ReturnHomeShape ==
  ASSUME ShapeInv, Same, NEW th \in Threads, ReturnHome(th), UNCHANGED bvars,
         NEW t \in Tasks, t = hand[th]
  PROVE  /\ ShapeInv' /\ Alone(th) /\ pc[th] = "run" /\ hand'[th] = NoTask
         /\ pc'[th] \in {"serve", "wait", "poll"}
<1>1. /\ Alone(th) /\ Fits(th, pc'[th], hand'[th], peer'[th]) /\ hand'[th] = NoTask
      /\ pc'[th] \in {"serve", "wait", "poll"}
  BY GoesOn DEF ReturnHome
<1>2. DepSatisfy(t)
  BY DEF ReturnHome, DepSatisfy
<1>3. AppTypes'
  BY <1>2, SatisfiedTypes DEF ReturnHome
<1>4. ShapeInv'
  BY <1>1, <1>3, ShapeStep DEF ReturnHome, bvars, Switch, Queues
<1> QED BY <1>1, <1>4 DEF ReturnHome

LEMMA SendAnswerShape ==
  ASSUME ShapeInv, Same, NEW th \in Threads, SendAnswer(th), UNCHANGED bvars,
         NEW t \in Tasks, t = hand[th], NEW h \in Nodes, h = Home(t)
  PROVE  /\ ShapeInv' /\ Alone(th) /\ pc[th] = "run" /\ UNCHANGED peer
         /\ \E msg \in Messages(MaxNvps) : /\ msg.type = "answer" /\ msg.body = t /\ msg.vp = th[2]
                                           /\ Post(th[1], h, MaxNvps, msg)
         /\ \/ ResMsgs = 0 /\ hand'[th] = NoTask /\ pc'[th] \in {"serve", "wait", "poll"}
            \/ ResMsgs # 0 /\ hand'[th] = t /\ pc'[th] = "send_results" /\ th \in Workers
<1>0. /\ SetupInv /\ ThreadsFit /\ Channels /\ th[1] \in Nodes /\ th[2] \in Vps
      /\ peer[th] \in Nodes \X Tags /\ pc[th] = "run" /\ UNCHANGED peer /\ AppTypes
  BY Now DEF ShapeInv, SendAnswer
<1>1. ResMsgs # 0 => th \in Workers /\ th \notin Servers /\ th[2] \in WorkerVps
  <2>1. th \in Servers => ResMsgs = 0
    BY <1>0, Now DEF ServerFits
  <2> QED BY <1>0, <2>1, ServerFacts, TagFacts
<1>2. PICK msg : msg = Message("answer", t, th)
  OBVIOUS
<1>3. "answer" \in Types /\ t \in Bodies
  BY DEF Types, Bodies
<1>4. msg.type = "answer" /\ msg.body = t /\ msg.vp = th[2]
  BY <1>0, <1>2, <1>3, MessageFacts
<1>5. Legal(MaxNvps, msg)
  BY <1>0, <1>1, <1>4, TagFacts DEF Legal, Descriptors
<1>6. msg \in Messages(MaxNvps) /\ MaxNvps \in Tags /\ Post(th[1], h, MaxNvps, msg)
  BY <1>0, <1>2, <1>3, <1>5, MessageFacts, TagFacts DEF SendAnswer
<1>7. Channels'
  BY <1>0, <1>6, PostEffect
<1>8. AppTypes'
  BY <1>0 DEF SendAnswer, Application, AppTypes, Same
<1>9. CASE ResMsgs = 0
  <2>1. Goto(th, AfterTask(th)) /\ Holds(th, NoTask)
    BY <1>9 DEF SendAnswer
  <2>2. /\ Alone(th) /\ Fits(th, pc'[th], hand'[th], peer'[th]) /\ hand'[th] = NoTask
        /\ pc'[th] \in {"serve", "wait", "poll"}
    BY <1>0, <2>1, GoesOn
  <2>3. ShapeInv'
    BY <1>7, <1>8, <2>2, ShapeStep DEF SendAnswer, bvars, Switch
  <2> QED BY <1>0, <1>4, <1>6, <1>9, <2>2, <2>3
<1>10. CASE ResMsgs # 0
  <2>1. Goto(th, "send_results") /\ UNCHANGED <<hand, peer>>
    BY <1>0, <1>10 DEF SendAnswer
  <2>2. WorkerFits(th, "send_results", peer[th])
    BY DEF WorkerFits, SearchPlaces, InApplication, Inside, InFirst, InSecond
  <2>3. /\ Alone(th) /\ Fits(th, pc'[th], hand'[th], peer'[th]) /\ hand'[th] = hand[th]
        /\ pc'[th] = "send_results"
    BY <1>0, <1>1, <1>10, <2>1, <2>2, WorkerGoes DEF Places, WithTask
  <2>4. ShapeInv'
    BY <1>7, <1>8, <2>3, ShapeStep DEF SendAnswer, bvars, Switch
  <2> QED BY <1>0, <1>1, <1>4, <1>6, <1>10, <2>3, <2>4
<1> QED BY <1>9, <1>10

LEMMA SendResultsShape ==
  ASSUME ShapeInv, Same, NEW th \in Threads, SendResults(th), UNCHANGED bvars,
         NEW t \in Tasks, t = hand[th], NEW h \in Nodes, h = Home(t)
  PROVE  /\ ShapeInv' /\ Alone(th) /\ pc[th] = "send_results" /\ th \in Workers /\ UNCHANGED peer
         /\ \E msg \in Messages(th[2]) : /\ msg.type = "result" /\ msg.body = t
                                         /\ Post(th[1], h, th[2], msg)
         /\ hand'[th] = NoTask /\ pc'[th] \in {"wait", "poll"}
<1>0. /\ SetupInv /\ ThreadsFit /\ Channels /\ th[1] \in Nodes /\ th[2] \in Vps
      /\ pc[th] = "send_results" /\ UNCHANGED peer
  BY Now DEF ShapeInv, SendResults
<1>1. th \in Workers
  <2>1. th \notin Servers
    BY <1>0, Now DEF ServerFits, ServerPlaces
  <2> QED BY <1>0, <2>1, ServerFacts
<1>2. th[2] \in WorkerVps /\ th[2] \in Tags
  BY <1>0, <1>1, TagFacts
<1>3. PICK msg : msg = Message("result", t, th)
  OBVIOUS
<1>4. "result" \in Types /\ t \in Bodies
  BY DEF Types, Bodies
<1>5. msg.type = "result" /\ msg.body = t
  BY <1>0, <1>3, <1>4, MessageFacts
<1>6. Legal(th[2], msg)
  BY <1>0, <1>2, <1>5, TagFacts DEF Legal, Descriptors
<1>7. msg \in Messages(th[2]) /\ Post(th[1], h, th[2], msg)
  BY <1>0, <1>3, <1>4, <1>6, MessageFacts DEF SendResults, thread_id
<1>8. Channels'
  BY <1>0, <1>2, <1>7, PostEffect
<1>9. Goto(th, AfterTask(th)) /\ Holds(th, NoTask)
  BY DEF SendResults
<1>10. /\ Alone(th) /\ Fits(th, pc'[th], hand'[th], peer'[th]) /\ hand'[th] = NoTask
       /\ pc'[th] \in {"serve", "wait", "poll"}
  BY <1>0, <1>9, GoesOn
<1>11. pc'[th] # "serve"
  <2>1. ~IsServer(th) /\ pc'[th] = AfterTask(th)
    BY <1>0, <1>1, <1>9, Now DEF Goto, ThreadsFit
  <2> QED BY <2>1 DEF AfterTask, Again
<1>12. ShapeInv'
  BY <1>8, <1>10, ShapeStep DEF SendResults, bvars, Switch
<1> QED BY <1>0, <1>1, <1>5, <1>7, <1>10, <1>11, <1>12

(***************************************************************************)
(* The server thread.                                                      *)
(***************************************************************************)
LEMMA ServesEffect ==
  ASSUME ShapeInv, Same, NEW s \in Servers, NEW n \in Nodes, NEW type, Serves(s, n, type),
         NEW msg, msg = Head(chan[n][s[1]][MaxNvps])
  PROVE  /\ SetupInv /\ ThreadsFit /\ s \in Threads /\ s[1] \in Nodes /\ pc[s] = "serve"
         /\ hand[s] \in Tasks \cup {NoTask} /\ peer[s] \in Nodes \X Tags
         /\ s \notin Workers /\ s \notin Creators /\ MaxNvps \in Tags
         /\ Channels /\ Channels' /\ msg \in Messages(MaxNvps) /\ Legal(MaxNvps, msg)
         /\ msg.type = type /\ msg.vp \in Vps
         /\ chan[n][s[1]][MaxNvps] # <<>> /\ Take(n, s[1], MaxNvps)
<1>1. /\ SetupInv /\ ThreadsFit /\ s \in Threads /\ s[1] \in Nodes /\ pc[s] = "serve" /\ Channels
      /\ hand[s] \in Tasks \cup {NoTask} /\ peer[s] \in Nodes \X Tags /\ MaxNvps \in Tags
      /\ s \notin Workers /\ s \notin Creators
  BY Now, ServerFacts, TagFacts DEF ShapeInv, Serves
<1>2. msg.type = type /\ chan[n][s[1]][MaxNvps] # <<>> /\ Take(n, s[1], MaxNvps)
  BY DEF Serves
<1>3. Channels' /\ msg \in Messages(MaxNvps)
  BY <1>1, <1>2, TakeEffect
<1>4. Legal(MaxNvps, msg) /\ msg.vp \in Vps
  BY SMTT(30), <1>1, <1>3, HeldFacts
<1> QED BY <1>1, <1>2, <1>3, <1>4

LEMMA ServeEnqueueShape ==
  ASSUME ShapeInv, Same, NEW s \in Servers, NEW n \in Nodes,
         NEW type \in {"enqueue", "enqueue_private"}, ServeEnqueue(s, n, type), UNCHANGED bvars,
         NEW msg, msg = Head(chan[n][s[1]][MaxNvps]), NEW t, t = msg.body
  PROVE  /\ ShapeInv' /\ Alone(s) /\ s \in Threads /\ t \in Tasks
         /\ \/ /\ public' = [public EXCEPT ![s[1]] = <<t>> \o @]
               /\ UNCHANGED <<pc, hand, peer, private>>
            \/ UNCHANGED peer /\ \E b \in BOOLEAN : Enqueued(s, t, b)
            \/ /\ pc'[s] = "get_args" /\ hand'[s] = t /\ peer'[s] = <<n, msg.vp>> /\ UNCHANGED Queues
               /\ type = "enqueue" /\ Home(t) # s[1] /\ ArgMsgs # 0
<1>0. /\ SetupInv /\ ThreadsFit /\ s \in Threads /\ s[1] \in Nodes /\ pc[s] = "serve"
      /\ hand[s] \in Tasks \cup {NoTask} /\ peer[s] \in Nodes \X Tags
      /\ Channels' /\ msg \in Messages(MaxNvps) /\ Legal(MaxNvps, msg)
      /\ msg.type = type /\ msg.vp \in Vps
  BY ServesEffect DEF ServeEnqueue
<1>1. t \in Tasks
  BY <1>0 DEF Legal
<1>2. CASE Home(t) = s[1]
  <2>1. /\ public' = [public EXCEPT ![s[1]] = <<t>> \o @] /\ UNCHANGED <<pc, hand, peer, private>>
    BY <1>2 DEF ServeEnqueue
  <2>2. Alone(s)
    BY SMTT(30), <1>0, <2>1, AloneIf
  <2>3. Fits(s, pc'[s], hand'[s], peer'[s])
    BY <1>0, <2>1 DEF ThreadsFit
  <2>4. public[s[1]] \in Seq(Tasks) /\ <<t>> \o public[s[1]] \in Seq(Tasks)
    BY <1>0, <1>1, NumPush DEF ShapeInv, QueueTypes
  <2>5. QueueTypes'
    BY ZenonT(30), <2>1, <2>4 DEF ShapeInv, QueueTypes, Same
  <2>6. ShapeInv'
    BY SMTT(30), <1>0, <2>1, <2>2, <2>3, <2>5, ShapeStep DEF ServeEnqueue, bvars, Switch
  <2> QED BY <1>0, <1>1, <2>1, <2>2, <2>6
<1>3. CASE Home(t) # s[1] /\ ArgMsgs = 0
  <2>1. PICK b \in BOOLEAN : Enqueued(s, t, b)
    <3>1. (type = "enqueue_private") \in BOOLEAN
      OBVIOUS
    <3> QED BY <1>3, <3>1 DEF ServeEnqueue
  <2>2. UNCHANGED peer
    BY <1>3 DEF ServeEnqueue
  <2>3. /\ Alone(s) /\ Fits(s, pc'[s], hand'[s], peer'[s]) /\ QueueTypes'
        /\ pc'[s] \in {"execute", "serve"}
    BY SMTT(30), <1>1, <2>1, <2>2, EnqueuedFits
  <2>4. ShapeInv'
    BY SMTT(30), <1>0, <2>3, ShapeStep DEF ServeEnqueue, bvars, Switch
  <2> QED BY ZenonT(30), <1>0, <1>1, <2>1, <2>2, <2>3, <2>4
<1>4. CASE Home(t) # s[1] /\ ArgMsgs # 0
  <2>1. type = "enqueue" /\ msg.vp \in WorkerVps
    BY SMTT(30), <1>0, <1>4 DEF Legal
  <2>2. /\ Holds(s, t) /\ peer' = [peer EXCEPT ![s] = <<n, msg.vp>>] /\ Goto(s, "get_args")
        /\ UNCHANGED Queues
    BY SMTT(30), <1>4, <2>1 DEF ServeEnqueue
  <2>3. Alone(s)
    BY ZenonT(30), <1>0, <2>2, AloneIf
  <2>4. pc'[s] = "get_args" /\ hand'[s] = t /\ peer'[s] = <<n, msg.vp>>
    BY <1>0, <2>2 DEF Holds, Goto, ThreadsFit
  <2>5. ServerFits(pc'[s], peer'[s])
    BY <2>1, <2>4 DEF ServerFits, ServerPlaces
  <2>6. peer'[s] \in Nodes \X Tags
    BY <1>0, <2>4, TagFacts
  <2>7. Fits(s, pc'[s], hand'[s], peer'[s])
    BY SMTT(30), <1>1, <2>3, <2>4, <2>5, <2>6, ServerMoves DEF Places
  <2>8. ShapeInv'
    BY ZenonT(30), <1>0, <2>2, <2>3, <2>4, <2>7, ShapeStep DEF ServeEnqueue, bvars, Switch
  <2> QED BY ZenonT(30), <1>0, <1>1, <1>4, <2>1, <2>2, <2>3, <2>4, <2>8
<1> QED BY <1>2, <1>3, <1>4

LEMMA ServeAnswerShape ==
  ASSUME ShapeInv, Same, NEW s \in Servers, NEW n \in Nodes, ServeAnswer(s, n), UNCHANGED bvars,
         NEW msg, msg = Head(chan[n][s[1]][MaxNvps]), NEW t, t = msg.body
  PROVE  /\ ShapeInv' /\ Alone(s) /\ s \in Threads /\ t \in Tasks
         /\ \/ ResMsgs = 0 /\ DepSatisfy(t) /\ UNCHANGED <<pc, hand, peer>>
            \/ /\ ResMsgs # 0 /\ UNCHANGED <<ndep, stage>>
               /\ pc'[s] = "get_results" /\ hand'[s] = t /\ peer'[s] = <<n, msg.vp>>
<1>0. /\ SetupInv /\ ThreadsFit /\ s \in Threads /\ s[1] \in Nodes /\ pc[s] = "serve"
      /\ hand[s] \in Tasks \cup {NoTask} /\ peer[s] \in Nodes \X Tags
      /\ Channels' /\ msg \in Messages(MaxNvps) /\ Legal(MaxNvps, msg)
      /\ msg.type = "answer" /\ msg.vp \in Vps
  BY ServesEffect DEF ServeAnswer
<1>1. t \in Tasks
  BY SMTT(30), <1>0 DEF Legal
<1>2. CASE ResMsgs = 0
  <2>1. DepSatisfy(t) /\ UNCHANGED <<pc, hand, peer>>
    BY <1>2 DEF ServeAnswer
  <2>2. Alone(s)
    BY SMTT(30), <1>0, <2>1, AloneIf
  <2>3. Fits(s, pc'[s], hand'[s], peer'[s])
    BY <1>0, <2>1 DEF ThreadsFit
  <2>4. AppTypes'
    BY SMTT(30), <1>1, <2>1, SatisfiedTypes DEF ServeAnswer
  <2>5. ShapeInv'
    BY SMTT(30), <1>0, <2>1, <2>2, <2>3, <2>4, ShapeStep DEF ServeAnswer, bvars, Switch
  <2> QED BY <1>0, <1>1, <1>2, <2>1, <2>2, <2>5
<1>3. CASE ResMsgs # 0
  <2>1. msg.vp \in WorkerVps
    BY <1>0, <1>3 DEF Legal
  <2>2. /\ Holds(s, t) /\ peer' = [peer EXCEPT ![s] = <<n, msg.vp>>] /\ Goto(s, "get_results")
        /\ UNCHANGED <<ndep, stage>>
    BY SMTT(30), <1>3 DEF ServeAnswer
  <2>3. Alone(s)
    BY ZenonT(30), <1>0, <2>2, AloneIf
  <2>4. pc'[s] = "get_results" /\ hand'[s] = t /\ peer'[s] = <<n, msg.vp>>
    BY <1>0, <2>2 DEF Holds, Goto, ThreadsFit
  <2>5. ServerFits(pc'[s], peer'[s])
    BY <2>1, <2>4 DEF ServerFits, ServerPlaces
  <2>6. peer'[s] \in Nodes \X Tags
    BY <1>0, <2>4, TagFacts
  <2>7. Fits(s, pc'[s], hand'[s], peer'[s])
    BY SMTT(30), <1>1, <2>3, <2>4, <2>5, <2>6, ServerMoves DEF Places
  <2>8. ShapeInv'
    BY ZenonT(30), <1>0, <2>2, <2>3, <2>4, <2>7, ShapeStep DEF ServeAnswer, bvars, Switch, Application
  <2> QED BY ZenonT(30), <1>0, <1>1, <1>3, <2>2, <2>3, <2>4, <2>8
<1> QED BY <1>2, <1>3

LEMMA ReceiveResultsShape ==
  ASSUME ShapeInv, Same, NEW s \in Servers, ReceiveResults(s), UNCHANGED bvars,
         NEW n \in Nodes, n = peer[s][1], NEW tag \in Tags, tag = peer[s][2],
         NEW t \in Tasks, t = hand[s]
  PROVE  /\ ShapeInv' /\ Alone(s) /\ s \in Threads /\ pc[s] = "get_results" /\ tag \in WorkerVps
         /\ chan[n][s[1]][tag] # <<>> /\ Take(n, s[1], tag) /\ DepSatisfy(t)
         /\ pc'[s] = "serve" /\ hand'[s] = NoTask /\ peer'[s] = peer[s]
<1>0. /\ SetupInv /\ ThreadsFit /\ s \in Threads /\ s[1] \in Nodes /\ Channels
      /\ pc[s] = "get_results" /\ peer[s] \in Nodes \X Tags /\ ServerFits(pc[s], peer[s])
  BY Now DEF ShapeInv, ReceiveResults
<1>1. tag \in WorkerVps
  BY <1>0 DEF ServerFits
<1>2. chan[n][s[1]][tag] # <<>> /\ Take(n, s[1], tag) /\ DepSatisfy(t)
  BY DEF ReceiveResults
<1>3. Channels'
  BY <1>0, <1>2, TakeEffect
<1>4. Alone(s)
  BY <1>0, AloneIf DEF ReceiveResults
<1>5. pc'[s] = "serve" /\ hand'[s] = NoTask /\ peer'[s] = peer[s]
  BY <1>0 DEF ReceiveResults, Goto, Holds, ThreadsFit
<1>6. ServerFits(pc'[s], peer'[s])
  BY <1>5 DEF ServerFits, ServerPlaces
<1>7. Fits(s, pc'[s], hand'[s], peer'[s])
  BY <1>0, <1>4, <1>5, <1>6, ServerMoves DEF Places, WithTask
<1>8. AppTypes'
  BY <1>2, SatisfiedTypes DEF ReceiveResults
<1>9. ShapeInv'
  BY SMTT(30), <1>0, <1>3, <1>4, <1>5, <1>7, <1>8, ShapeStep DEF ReceiveResults, bvars, Switch
<1> QED BY <1>0, <1>1, <1>2, <1>4, <1>5, <1>9

LEMMA ServeStealShape ==
  ASSUME ShapeInv, Same, NEW s \in Servers, NEW n \in Nodes, ServeSteal(s, n), UNCHANGED bvars,
         NEW msg, msg = Head(chan[n][s[1]][MaxNvps])
  PROVE  /\ ShapeInv' /\ Alone(s) /\ s \in Threads /\ pc[s] = "serve" /\ UNCHANGED private
         /\ msg \in Messages(MaxNvps) /\ msg.type = "steal" /\ msg.vp \in WorkerVps
         /\ pc'[s] = "reply" /\ peer'[s] = <<n, StealTag(msg.vp)>>
         /\ \/ public[s[1]] = <<>> /\ hand'[s] = NoTask /\ UNCHANGED public
            \/ /\ public[s[1]] # <<>> /\ hand'[s] = Head(public[s[1]]) /\ hand'[s] \in Tasks
               /\ public' = [public EXCEPT ![s[1]] = Tail(public[s[1]])]
<1>0. /\ SetupInv /\ ThreadsFit /\ s \in Threads /\ s[1] \in Nodes /\ pc[s] = "serve"
      /\ Channels' /\ msg \in Messages(MaxNvps) /\ Legal(MaxNvps, msg)
      /\ msg.type = "steal" /\ msg.vp \in Vps
  BY ServesEffect DEF ServeSteal
<1>1. msg.vp \in WorkerVps /\ StealTag(msg.vp) \in StealTags /\ StealTag(msg.vp) \in Tags
  BY SMTT(30), <1>0, TagFacts DEF Legal, StealTags
<1>2. Alone(s)
  BY <1>0, AloneIf DEF ServeSteal
<1>3. pc'[s] = "reply" /\ peer'[s] = <<n, StealTag(msg.vp)>>
      /\ hand'[s] = IF public[s[1]] = <<>> THEN NoTask ELSE Head(public[s[1]])
  BY <1>0 DEF ServeSteal, Goto, Holds, ThreadsFit
<1>4. public \in [Nodes -> Seq(Tasks)] /\ private \in [Nodes -> Seq(Tasks)]
  BY DEF ShapeInv, QueueTypes
<1>5. \/ public[s[1]] = <<>> /\ hand'[s] = NoTask /\ UNCHANGED public
      \/ /\ public[s[1]] # <<>> /\ hand'[s] = Head(public[s[1]]) /\ hand'[s] \in Tasks
         /\ public' = [public EXCEPT ![s[1]] = Tail(public[s[1]])]
  <2>1. CASE public[s[1]] = <<>>
    <3>1. public' = [public EXCEPT ![s[1]] = public[s[1]]]
      BY <2>1 DEF ServeSteal
    <3>2. public' = public
      BY <1>0, <1>4, <3>1
    <3> QED BY <1>3, <2>1, <3>2
  <2>2. CASE public[s[1]] # <<>>
    <3>1. Head(public[s[1]]) \in Tasks
      BY <1>0, <1>4, <2>2, TakenFrom
    <3> QED BY <1>3, <2>2, <3>1 DEF ServeSteal
  <2> QED BY <2>1, <2>2
<1>6. QueueTypes'
  <2>1. public' \in [Nodes -> Seq(Tasks)]
    <3>1. CASE UNCHANGED public
      BY <1>4, <3>1
    <3>2. CASE public[s[1]] # <<>> /\ public' = [public EXCEPT ![s[1]] = Tail(public[s[1]])]
      <4>1. [public EXCEPT ![s[1]] = Tail(public[s[1]])] \in [Nodes -> Seq(Tasks)]
        BY <1>0, <1>4, <3>2, TakenFrom
      <4> QED BY <3>2, <4>1
    <3> QED BY <1>5, <3>1, <3>2
  <2> QED BY <1>4, <2>1 DEF ServeSteal, QueueTypes, Same
<1>7. ServerFits(pc'[s], peer'[s])
  BY <1>1, <1>3 DEF ServerFits, ServerPlaces
<1>8. peer'[s] \in Nodes \X Tags
  BY <1>1, <1>3
<1>9. Fits(s, pc'[s], hand'[s], peer'[s])
  BY SMTT(30), <1>2, <1>3, <1>5, <1>7, <1>8, ServerMoves DEF Places, WithTask
<1>10. ShapeInv'
  BY ZenonT(30), <1>0, <1>2, <1>3, <1>6, <1>9, ShapeStep DEF ServeSteal, bvars, Switch
<1> QED BY ZenonT(30), <1>0, <1>1, <1>2, <1>3, <1>5, <1>10 DEF ServeSteal

LEMMA ServePrefetchShape ==
  ASSUME ShapeInv, Same, NEW s \in Servers, NEW n \in Nodes, ServePrefetch(s, n), UNCHANGED bvars
  PROVE  /\ ShapeInv' /\ Alone(s) /\ s \in Threads /\ pc[s] = "serve" /\ UNCHANGED private
         /\ \/ UNCHANGED <<public, pc, hand, peer>>
            \/ /\ public[s[1]] # <<>> /\ hand'[s] = Head(public[s[1]]) /\ hand'[s] \in Tasks
               /\ public' = [public EXCEPT ![s[1]] = Tail(public[s[1]])] /\ pc'[s] = "push"
<1>1. PICK msg : msg = Head(chan[n][s[1]][MaxNvps])
  OBVIOUS
<1>2. /\ SetupInv /\ ThreadsFit /\ s \in Threads /\ s[1] \in Nodes /\ pc[s] = "serve"
      /\ Channels' /\ Legal(MaxNvps, msg) /\ msg.type = "prefetch" /\ MaxNvps \in Tags
  BY <1>1, ServesEffect DEF ServePrefetch
<1>3. ArgMsgs = 0
  BY <1>2 DEF Legal
<1>4. Alone(s)
  BY <1>2, AloneIf DEF ServePrefetch
<1>5. public \in [Nodes -> Seq(Tasks)] /\ private \in [Nodes -> Seq(Tasks)]
  BY DEF ShapeInv, QueueTypes
<1>6. CASE public[s[1]] = <<>>
  <2>1. UNCHANGED <<public, pc, hand, peer>>
    BY <1>6 DEF ServePrefetch
  <2>2. Fits(s, pc'[s], hand'[s], peer'[s])
    BY <1>2, <2>1 DEF ThreadsFit
  <2>3. ShapeInv'
    BY <1>2, <1>4, <2>1, <2>2, ShapeStep DEF ServePrefetch, bvars, Switch, Queues
  <2> QED BY <1>2, <1>4, <2>1, <2>3 DEF ServePrefetch
<1>7. CASE public[s[1]] # <<>>
  <2>1. /\ hand'[s] = Head(public[s[1]]) /\ pc'[s] = "push" /\ peer'[s] = <<n, s[2]>>
        /\ public' = [public EXCEPT ![s[1]] = Tail(public[s[1]])]
    BY <1>2, <1>7 DEF ServePrefetch, Goto, Holds, ThreadsFit, thread_id
  <2>2. Head(public[s[1]]) \in Tasks /\ public' \in [Nodes -> Seq(Tasks)]
    BY <1>2, <1>5, <1>7, <2>1, TakenFrom
  <2>3. QueueTypes'
    BY <1>5, <2>2 DEF ServePrefetch, QueueTypes, Same
  <2>4. peer'[s] \in Nodes \X Tags
    <3>1. s[2] = MaxNvps
      BY <1>2, ServerFacts
    <3> QED BY <1>2, <2>1, <3>1
  <2>5. ServerFits(pc'[s], peer'[s])
    BY <1>3, <2>1 DEF ServerFits, ServerPlaces
  <2>6. Fits(s, pc'[s], hand'[s], peer'[s])
    BY <1>4, <2>1, <2>2, <2>4, <2>5, ServerMoves DEF Places
  <2>7. ShapeInv'
    BY <1>2, <1>4, <2>1, <2>3, <2>6, ShapeStep DEF ServePrefetch, bvars, Switch
  <2> QED BY <1>2, <1>4, <1>7, <2>1, <2>2, <2>7 DEF ServePrefetch
<1> QED BY <1>6, <1>7

LEMMA ServeSwitchShape ==
  ASSUME ShapeInv, Same, NEW s \in Servers, NEW n \in Nodes, NEW call \in SwitchCalls,
         ServeSwitch(s, n, call), UNCHANGED bvars
  PROVE  ShapeInv' /\ Alone(s) /\ s \in Threads
<1>1. PICK msg : msg = Head(chan[n][s[1]][MaxNvps])
  OBVIOUS
<1>2. /\ SetupInv /\ ThreadsFit /\ s \in Threads /\ s[1] \in Nodes
      /\ Channels' /\ Legal(MaxNvps, msg) /\ msg.type = call
  BY <1>1, ServesEffect DEF ServeSwitch
<1>3. call \in Calls
  BY <1>2 DEF Legal, Calls
<1>4. Alone(s)
  BY <1>2, AloneIf DEF ServeSwitch
<1>5. Fits(s, pc'[s], hand'[s], peer'[s])
  BY <1>2 DEF ServeSwitch, ThreadsFit
<1>6. SwitchTypes'
  <2>1. /\ stealing' \in [Nodes -> BOOLEAN] /\ prefetching' \in [Nodes -> BOOLEAN]
        /\ \A m \in Nodes : prefetching'[m] => ArgMsgs = 0
    BY <1>2, <1>3, ApplyTypes DEF ServeSwitch
  <2>2. Creators' = Creators /\ Nodes' = Nodes /\ ArgMsgs' = ArgMsgs /\ Calls' = Calls
    BY DEF Same, Calls
  <2> QED BY <2>1, <2>2 DEF ShapeInv, SwitchTypes, ServeSwitch
<1> QED BY <1>2, <1>4, <1>5, <1>6, ShapeStep DEF ServeSwitch, bvars

(***************************************************************************)
(* Broadcasts.                                                             *)
(***************************************************************************)
LEMMA BroadcastCallShape ==
  ASSUME ShapeInv, Same, NEW c \in Creators, NEW a \in Variables, NEW v \in Values, Broadcast(c, a, v)
  PROVE  /\ ShapeInv' /\ Alone(c) /\ c \in Threads /\ pc[c] = "app" /\ pc'[c] = "bcast"
         /\ hand'[c] = hand[c]
<1>0. /\ SetupInv /\ ThreadsFit /\ c \in Workers /\ c \in Threads /\ pc[c] = "app" /\ c[1] \in Nodes
      /\ hand[c] \in Tasks \cup {NoTask}
  BY WorkerFacts, Now DEF ShapeInv, Broadcast
<1>1. Alone(c)
  BY <1>0, AloneIf DEF Broadcast
<1>2. pc'[c] = "bcast" /\ hand'[c] = hand[c] /\ peer'[c] = <<0, c[2]>>
  BY <1>0 DEF Broadcast, Goto, ThreadsFit, thread_id
<1>3. peer'[c] \in Nodes \X Tags
  BY <1>0, <1>2, Numbers, TagFacts
<1>4. WorkerFits(c, pc'[c], peer'[c])
  BY <1>2 DEF WorkerFits, InApplication, Inside, InFirst, InSecond
<1>5. Fits(c, pc'[c], hand'[c], peer'[c])
  BY <1>0, <1>1, <1>2, <1>3, <1>4, WorkerMoves DEF Places, WithTask
<1>6. MemoryTypes'
  <2>1. v \in Bodies
    BY DEF Bodies
  <2>2. memory \in [Nodes -> [Variables -> Bodies]] /\ var \in [Creators -> Variables]
        /\ lock \in [Nodes -> Threads \cup {NoThread}]
    BY DEF ShapeInv, MemoryTypes
  <2>3. memory' \in [Nodes -> [Variables -> Bodies]]
    <3>1. memory' = [memory EXCEPT ![c[1]] = [memory[c[1]] EXCEPT ![a] = v]]
      BY DEF Broadcast
    <3>2. [memory[c[1]] EXCEPT ![a] = v] \in [Variables -> Bodies]
      BY <1>0, <2>1, <2>2
    <3> QED BY <2>2, <3>1, <3>2
  <2>4. var' \in [Creators -> Variables] /\ lock' = lock
    BY <2>2 DEF Broadcast
  <2>5. Nodes' = Nodes /\ Threads' = Threads /\ Creators' = Creators /\ Bodies' = Bodies
    BY DEF Same, Bodies
  <2> QED BY <2>2, <2>3, <2>4, <2>5 DEF MemoryTypes
<1>7. ShapeInv'
  BY <1>0, <1>1, <1>2, <1>5, <1>6, ShapeStep DEF Broadcast, bvars, Switch
<1> QED BY <1>0, <1>1, <1>2, <1>7

(* The loop over the nodes goes on, or ends.                               *)
LEMMA NextNodeFits ==
  ASSUME ShapeInv, Same, NEW c \in Creators, NextNode(c), UNCHANGED hand,
         pc[c] \in {"bcast", "ssend"}
  PROVE  /\ Alone(c) /\ c \in Threads /\ Fits(c, pc'[c], hand'[c], peer'[c])
         /\ pc'[c] \in {"bcast", "app"} /\ hand'[c] = hand[c]
<1>0. /\ SetupInv /\ ThreadsFit /\ c \in Workers /\ c \in Threads
      /\ hand[c] \in Tasks \cup {NoTask} /\ peer[c] \in Nodes \X Tags /\ WorkerFits(c, pc[c], peer[c])
  BY WorkerFacts, Now DEF ShapeInv
<1>1. PICK n \in Nodes : n = peer[c][1]
  BY <1>0
<1>2. peer[c][2] = c[2]
  BY <1>0 DEF WorkerFits, InApplication
<1>3. Alone(c)
  BY <1>0, AloneIf DEF NextNode
<1>4. CASE n + 1 < NumNodes
  <2>1. pc'[c] = "bcast" /\ peer'[c] = [peer[c] EXCEPT ![1] = n + 1]
    BY <1>0, <1>1, <1>4 DEF NextNode, ThreadsFit, Goto
  <2>2. n + 1 \in Nodes
    BY <1>0, <1>4, Numbers
  <2>3. peer'[c] \in Nodes \X Tags /\ peer'[c][2] = c[2]
    BY <1>0, <1>2, <2>1, <2>2
  <2>4. WorkerFits(c, pc'[c], peer'[c])
    BY <2>1, <2>3 DEF WorkerFits, InApplication, Inside, InFirst, InSecond
  <2> QED BY <1>0, <1>3, <2>1, <2>3, <2>4, WorkerMoves DEF Places, WithTask
<1>5. CASE ~(n + 1 < NumNodes)
  <2>1. pc'[c] = "app" /\ peer'[c] = peer[c]
    BY <1>0, <1>1, <1>5 DEF NextNode, ThreadsFit, Goto
  <2>2. WorkerFits(c, pc'[c], peer'[c])
    BY SMTT(30), <2>1 DEF WorkerFits, InApplication, Inside, InFirst, InSecond
  <2> QED BY <1>0, <1>3, <2>1, <2>2, WorkerMoves DEF Places, WithTask
<1> QED BY <1>4, <1>5

LEMMA NextNodeShape ==
  ASSUME ShapeInv, Same, NEW c \in Creators, SkipOwn(c) \/ SsendDone(c)
  PROVE  /\ ShapeInv' /\ Alone(c) /\ c \in Threads /\ pc[c] \in {"bcast", "ssend"}
         /\ pc'[c] \in {"bcast", "app"} /\ hand'[c] = hand[c]
<1>0. NextNode(c) /\ UNCHANGED hand /\ pc[c] \in {"bcast", "ssend"} /\ UNCHANGED chan
  BY ZenonT(30) DEF SkipOwn, SsendDone
<1>1. /\ Alone(c) /\ c \in Threads /\ Fits(c, pc'[c], hand'[c], peer'[c])
      /\ pc'[c] \in {"bcast", "app"} /\ hand'[c] = hand[c]
  BY <1>0, NextNodeFits
<1>2. MemoryTypes'
  <2>1. c[1] \in Nodes
    BY SMTT(30), WorkerFacts DEF ShapeInv
  <2>2. lock' \in [Nodes -> Threads \cup {NoThread}] /\ UNCHANGED <<memory, var>>
    BY ZenonT(30), <2>1 DEF SkipOwn, SsendDone, bvars, ShapeInv, MemoryTypes
  <2> QED BY <2>2 DEF ShapeInv, MemoryTypes, Same, Bodies
<1>3. UNCHANGED <<Queues, Switch, Application, stage>>
  BY ZenonT(30) DEF SkipOwn, SsendDone
<1>4. ShapeInv'
  BY <1>0, <1>1, <1>2, <1>3, ShapeStep DEF Switch
<1> QED BY SMTT(30), <1>0, <1>1, <1>4

LEMMA SendBroadcastShape ==
  ASSUME ShapeInv, Same, NEW c \in Creators, SendBroadcast(c), NEW n \in Nodes, n = peer[c][1]
  PROVE  /\ ShapeInv' /\ Alone(c) /\ c \in Threads /\ pc[c] = "bcast" /\ pc'[c] = "offer"
         /\ hand'[c] = hand[c]
         /\ \E msg \in Messages(MaxNvps) : msg.type = "bcast" /\ Post(c[1], n, MaxNvps, msg)
<1>0. /\ SetupInv /\ ThreadsFit /\ Channels /\ MemoryTypes /\ c \in Workers /\ c \in Threads
      /\ c[1] \in Nodes /\ peer[c] \in Nodes \X Tags /\ WorkerFits(c, pc[c], peer[c])
      /\ pc[c] = "bcast"
  BY WorkerFacts, Now DEF ShapeInv, SendBroadcast
<1>1. PICK va : va = IF setup.sendsAddress THEN var[c] ELSE memory[c[1]][var[c]]
  OBVIOUS
<1>2. va \in Bodies
  BY <1>0, <1>1 DEF MemoryTypes, Bodies
<1>3. PICK msg : msg = Message("bcast", va, c)
  OBVIOUS
<1>4. "bcast" \in Types
  BY DEF Types
<1>5. msg.type = "bcast" /\ msg.body = va /\ msg.vp = c[2]
  BY <1>0, <1>2, <1>3, <1>4, MessageFacts
<1>6. Legal(MaxNvps, msg)
  BY <1>0, <1>5, TagFacts DEF Legal, Descriptors
<1>7. msg \in Messages(MaxNvps) /\ MaxNvps \in Tags
  BY <1>0, <1>2, <1>3, <1>4, <1>6, MessageFacts, TagFacts
<1>8. Post(c[1], n, MaxNvps, msg)
  BY <1>1, <1>3 DEF SendBroadcast
<1>9. Channels'
  BY <1>0, <1>7, <1>8, PostEffect
<1>10. WorkerFits(c, "offer", peer[c])
  BY <1>0 DEF WorkerFits, InApplication, Inside, InFirst, InSecond
<1>11. /\ Alone(c) /\ pc'[c] = "offer" /\ Fits(c, pc'[c], hand'[c], peer'[c]) /\ hand'[c] = hand[c]
  BY <1>0, <1>10, WorkerGoes DEF SendBroadcast, Places, WithTask
<1>12. ShapeInv'
  BY <1>0, <1>9, <1>11, ShapeStep DEF SendBroadcast, bvars, Switch
<1> QED BY <1>0, <1>5, <1>7, <1>8, <1>11, <1>12

LEMMA SsendShape ==
  ASSUME ShapeInv, Same, NEW c \in Creators, Ssend(c), NEW n \in Nodes, n = peer[c][1]
  PROVE  /\ ShapeInv' /\ Alone(c) /\ c \in Threads /\ pc[c] = "offer" /\ pc'[c] = "ssend"
         /\ hand'[c] = hand[c]
         /\ \E msg \in Messages(c[2]) : msg.type = "data" /\ Post(c[1], n, c[2], msg)
<1>0. /\ SetupInv /\ ThreadsFit /\ Channels /\ MemoryTypes /\ c \in Workers /\ c \in Threads
      /\ c[1] \in Nodes /\ peer[c] \in Nodes \X Tags /\ WorkerFits(c, pc[c], peer[c])
      /\ pc[c] = "offer"
  BY WorkerFacts, Now DEF ShapeInv, Ssend
<1>1. peer[c][2] = c[2] /\ c[2] \in WorkerVps /\ c[2] \in Tags
  BY <1>0, TagFacts DEF WorkerFits, InApplication
<1>2. PICK va : va = memory[c[1]][var[c]]
  OBVIOUS
<1>3. va \in Bodies
  BY <1>0, <1>2 DEF MemoryTypes
<1>4. PICK msg : msg = Message("data", va, c)
  OBVIOUS
<1>5. "data" \in Types
  BY DEF Types
<1>6. msg.type = "data"
  BY <1>0, <1>3, <1>4, <1>5, MessageFacts
<1>7. Legal(c[2], msg)
  BY <1>0, <1>1, <1>6, TagFacts DEF Legal, Descriptors
<1>8. msg \in Messages(c[2])
  BY <1>0, <1>3, <1>4, <1>5, <1>7, MessageFacts
<1>9. Post(c[1], n, c[2], msg)
  BY <1>1, <1>2, <1>4 DEF Ssend
<1>10. Channels'
  BY <1>0, <1>1, <1>8, <1>9, PostEffect
<1>11. WorkerFits(c, "ssend", peer[c])
  BY <1>1 DEF WorkerFits, InApplication, Inside, InFirst, InSecond
<1>12. /\ Alone(c) /\ pc'[c] = "ssend" /\ Fits(c, pc'[c], hand'[c], peer'[c]) /\ hand'[c] = hand[c]
  BY <1>0, <1>11, WorkerGoes DEF Ssend, Places, WithTask
<1>13. MemoryTypes'
  BY <1>0 DEF Ssend, bvars, MemoryTypes, Same, Bodies
<1>14. ShapeInv'
  BY <1>0, <1>10, <1>12, <1>13, ShapeStep DEF Ssend, bvars, Switch
<1> QED BY <1>0, <1>6, <1>8, <1>9, <1>12, <1>14

LEMMA ServeBroadcastShape ==
  ASSUME ShapeInv, Same, NEW s \in Servers, NEW n \in Nodes, ServeBroadcast(s, n)
  PROVE  /\ ShapeInv' /\ Alone(s) /\ s \in Threads /\ pc[s] = "serve" /\ pc'[s] = "get_data"
         /\ hand'[s] = hand[s]
<1>1. PICK msg : msg = Head(chan[n][s[1]][MaxNvps])
  OBVIOUS
<1>2. /\ SetupInv /\ ThreadsFit /\ s \in Threads /\ s[1] \in Nodes /\ pc[s] = "serve"
      /\ Channels' /\ Legal(MaxNvps, msg) /\ msg.type = "bcast" /\ hand[s] \in Tasks \cup {NoTask}
  BY <1>1, ServesEffect DEF ServeBroadcast
<1>3. msg.vp \in WorkerVps /\ msg.vp \in Tags
  BY <1>2, TagFacts DEF Legal
<1>4. Alone(s)
  BY <1>2, AloneIf DEF ServeBroadcast
<1>5. pc'[s] = "get_data" /\ hand'[s] = hand[s] /\ peer'[s] = <<n, msg.vp>>
  BY <1>1, <1>2 DEF ServeBroadcast, Goto, ThreadsFit
<1>6. ServerFits(pc'[s], peer'[s])
  BY <1>3, <1>5 DEF ServerFits, ServerPlaces
<1>7. peer'[s] \in Nodes \X Tags
  BY <1>3, <1>5
<1>8. Fits(s, pc'[s], hand'[s], peer'[s])
  BY SMTT(30), <1>2, <1>4, <1>5, <1>6, <1>7, ServerMoves DEF Places, WithTask
<1>9. ShapeInv'
  BY <1>2, <1>4, <1>5, <1>8, ShapeStep DEF ServeBroadcast, Switch
<1> QED BY <1>2, <1>4, <1>5, <1>9

LEMMA ReceiveDataShape ==
  ASSUME ShapeInv, Same, NEW s \in Servers, ReceiveData(s),
         NEW n \in Nodes, n = peer[s][1], NEW tag \in Tags, tag = peer[s][2]
  PROVE  /\ ShapeInv' /\ Alone(s) /\ s \in Threads /\ pc[s] = "get_data" /\ tag \in WorkerVps
         /\ chan[n][s[1]][tag] # <<>> /\ Take(n, s[1], tag)
         /\ pc'[s] = "serve" /\ hand'[s] = hand[s] /\ peer'[s] = peer[s]
<1>0. /\ SetupInv /\ ThreadsFit /\ s \in Threads /\ s[1] \in Nodes /\ Channels /\ MemoryTypes
      /\ pc[s] = "get_data" /\ peer[s] \in Nodes \X Tags /\ ServerFits(pc[s], peer[s])
      /\ hand[s] \in Tasks \cup {NoTask}
  BY Now DEF ShapeInv, ReceiveData
<1>1. tag \in WorkerVps
  BY <1>0 DEF ServerFits
<1>2. chan[n][s[1]][tag] # <<>> /\ Take(n, s[1], tag)
  BY DEF ReceiveData
<1>3. PICK msg : msg = Head(chan[n][s[1]][tag])
  OBVIOUS
<1>4. Channels' /\ msg \in Messages(tag)
  BY <1>0, <1>2, <1>3, TakeEffect
<1>5. msg.body \in Bodies
  BY <1>0, <1>4, HeldFacts
<1>6. Alone(s)
  BY <1>0, AloneIf DEF ReceiveData
<1>7. pc'[s] = "serve" /\ hand'[s] = hand[s] /\ peer'[s] = peer[s]
  BY <1>0 DEF ReceiveData, Goto, ThreadsFit
<1>8. ServerFits(pc'[s], peer'[s])
  BY <1>7 DEF ServerFits, ServerPlaces
<1>9. Fits(s, pc'[s], hand'[s], peer'[s])
  BY <1>0, <1>6, <1>7, <1>8, ServerMoves DEF Places, WithTask
<1>10. MemoryTypes'
  <2>1. memory \in [Nodes -> [Variables -> Bodies]]
    BY <1>0 DEF MemoryTypes
  <2>2. memory' \in [Nodes -> [Variables -> Bodies]]
    <3>1. CASE address[s] \in Variables
      <4>1. memory' = [memory EXCEPT ![s[1]] = [memory[s[1]] EXCEPT ![address[s]] = msg.body]]
        BY <1>3, <3>1 DEF ReceiveData
      <4>2. [memory[s[1]] EXCEPT ![address[s]] = msg.body] \in [Variables -> Bodies]
        BY <1>0, <1>5, <2>1, <3>1
      <4> QED BY <2>1, <4>1, <4>2
    <3>2. CASE address[s] \notin Variables
      BY <2>1, <3>2 DEF ReceiveData
    <3> QED BY <3>1, <3>2
  <2>3. UNCHANGED <<var, lock>>
    BY SMTT(30) DEF ReceiveData
  <2>4. Nodes' = Nodes /\ Threads' = Threads /\ Creators' = Creators /\ Bodies' = Bodies
    BY SMTT(30) DEF Same, Bodies
  <2> QED BY <1>0, <2>2, <2>3, <2>4 DEF MemoryTypes
<1>11. ShapeInv'
  BY ZenonT(30), <1>0, <1>4, <1>6, <1>7, <1>9, <1>10, ShapeStep DEF ReceiveData, Switch
<1> QED BY <1>0, <1>1, <1>2, <1>6, <1>7, <1>11

(***************************************************************************)
(* Where a task is: nowhere (not created yet, or done), in a queue, in a   *)
(* message that carries it, in an answer, or with a thread, which has it   *)
(* in hand, executes it or receives its results.                           *)
(***************************************************************************)
Kinds == {"hand", "run", "results"}
KindOf(q) == IF q = "run" THEN "run"
             ELSE IF q = "get_results" THEN "results"
             ELSE IF q \in Carrying THEN "hand" ELSE "none"

Has(th, t, kind) == hand[th] = t /\ KindOf(pc[th]) = kind

Locations ==
  {<<"nowhere", 0>>} \cup ({"public", "private"} \X Nodes)
    \cup ({"moves"} \X (Nodes \X Nodes \X Tags)) \cup ({"answer"} \X (Nodes \X Nodes))
    \cup (Kinds \X Threads)

(* Task t is at p, once, and nowhere else.                                 *)
IsAt(t, p) ==
  /\ \A n \in Nodes : Num(public[n], {t}) = One(p = <<"public", n>>)
  /\ \A n \in Nodes : Num(private[n], {t}) = One(p = <<"private", n>>)
  /\ \A n \in Nodes, m \in Nodes, tag \in Tags :
       Num(chan[n][m][tag], Movers(t)) = One(p = <<"moves", <<n, m, tag>>>>)
  /\ \A n \in Nodes, m \in Nodes :
       Num(chan[n][m][MaxNvps], Answers(t)) = One(p = <<"answer", <<n, m>>>>)
  /\ \A th \in Threads, kind \in Kinds : Has(th, t, kind) <=> p = <<kind, th>>

Stages(kind) ==
  CASE kind = "nowhere" -> {"none", "done"}
    [] kind \in {"public", "private", "moves", "hand"} -> {"spawned"}
    [] kind = "run" -> {"active"}
    [] kind \in {"answer", "results"} -> {"returned"}

Placed(t) == \E p \in Locations : IsAt(t, p) /\ stage[t] \in Stages(p[1])

Parented(t) == IF stage[t] = "none" THEN parent[t] = NoThread ELSE parent[t] \in Creators

PlaceInv ==
  /\ \A t \in Tasks : Placed(t) /\ Parented(t)
  /\ \A th \in Threads : pc[th] = "send_results" => parent[hand[th]] \in Creators

(* Task t moves from p to q and no other task moves; when t is no task, no *)
(* task moves.                                                             *)
QueueGoes(Q, R, kind, t, p, q) ==
  \A u \in Tasks, n \in Nodes :
    Num(R[n], {u}) + One(u = t /\ p = <<kind, n>>) = Num(Q[n], {u}) + One(u = t /\ q = <<kind, n>>)

MailGoes(t, p, q) ==
  /\ \A u \in Tasks, n \in Nodes, m \in Nodes, tag \in Tags :
       Num(chan'[n][m][tag], Movers(u)) + One(u = t /\ p = <<"moves", <<n, m, tag>>>>)
         = Num(chan[n][m][tag], Movers(u)) + One(u = t /\ q = <<"moves", <<n, m, tag>>>>)
  /\ \A u \in Tasks, n \in Nodes, m \in Nodes :
       Num(chan'[n][m][MaxNvps], Answers(u)) + One(u = t /\ p = <<"answer", <<n, m>>>>)
         = Num(chan[n][m][MaxNvps], Answers(u)) + One(u = t /\ q = <<"answer", <<n, m>>>>)

HandGoes(t, p, q) ==
  \A u \in Tasks, th \in Threads, kind \in Kinds :
    Has(th, u, kind)' <=> \/ Has(th, u, kind) /\ ~(u = t /\ p = <<kind, th>>)
                          \/ u = t /\ q = <<kind, th>>

Goes(t, p, q) ==
  /\ QueueGoes(public, public', "public", t, p, q)
  /\ QueueGoes(private, private', "private", t, p, q)
  /\ MailGoes(t, p, q) /\ HandGoes(t, p, q)

LEMMA CountTypes ==
  ASSUME ShapeInv
  PROVE  /\ \A n \in Nodes, u \in Tasks : Num(public[n], {u}) \in Nat /\ Num(private[n], {u}) \in Nat
         /\ \A n \in Nodes, m \in Nodes, tag \in Tags : \A M : Num(chan[n][m][tag], M) \in Nat
         /\ MaxNvps \in Tags
<1>1. SetupInv /\ Channels /\ QueueTypes
  BY DEF ShapeInv
<1>2. \A n \in Nodes : public[n] \in Seq(Tasks) /\ private[n] \in Seq(Tasks)
  BY <1>1 DEF QueueTypes
<1>3. \A n \in Nodes, u \in Tasks : Num(public[n], {u}) \in Nat /\ Num(private[n], {u}) \in Nat
  BY <1>2, NumType
<1> QED BY <1>1, <1>3, ChannelCounts, TagFacts

LEMMA Relocate ==
  ASSUME ShapeInv, ShapeInv', Same, NEW t, NEW p, NEW q, Goes(t, p, q)
  PROVE  /\ \A u \in Tasks : \A r : u # t /\ IsAt(u, r) => IsAt(u, r)'
         /\ t \in Tasks /\ IsAt(t, p) /\ p # q => IsAt(t, q)'
<1>0. Nodes' = Nodes /\ Tags' = Tags /\ Threads' = Threads /\ \A u : Movers(u)' = Movers(u) /\ Answers(u)' = Answers(u)
  BY DEF Same
<1>t. /\ \A n \in Nodes, u \in Tasks : Num(public[n], {u}) \in Nat /\ Num(private[n], {u}) \in Nat
      /\ \A n \in Nodes, m \in Nodes, tag \in Tags : \A M : Num(chan[n][m][tag], M) \in Nat
      /\ MaxNvps \in Tags
  BY CountTypes
<1>s. /\ \A n \in Nodes, u \in Tasks : Num(public'[n], {u}) \in Nat /\ Num(private'[n], {u}) \in Nat
      /\ \A n \in Nodes, m \in Nodes, tag \in Tags : \A M : Num(chan'[n][m][tag], M) \in Nat
  <2>1. QueueTypes' /\ Channels'
    BY DEF ShapeInv
  <2>2. /\ \A n \in Nodes : public'[n] \in Seq(Tasks) /\ private'[n] \in Seq(Tasks)
        /\ \A n \in Nodes, m \in Nodes, tag \in Tags : chan'[n][m][tag] \in Seq(Messages(tag)')
    BY <1>0, <2>1 DEF QueueTypes, Channels
  <2>3. \A n \in Nodes, u \in Tasks : Num(public'[n], {u}) \in Nat /\ Num(private'[n], {u}) \in Nat
    BY <2>2, NumType
  <2>4. \A n \in Nodes, m \in Nodes, tag \in Tags : \A M : Num(chan'[n][m][tag], M) \in Nat
    BY <2>2, NumType
  <2> QED BY <2>3, <2>4
<1>1. ASSUME NEW u \in Tasks, NEW r, NEW s, IsAt(u, r),
             \/ u # t /\ s = r
             \/ u = t /\ r = p /\ s = q /\ p # q
      PROVE  IsAt(u, s)'
  <2>1. \A n \in Nodes : Num(public'[n], {u}) = One(s = <<"public", n>>)
    <3>1. QueueGoes(public, public', "public", t, p, q)
      BY DEF Goes
    <3>2. SUFFICES ASSUME NEW n \in Nodes PROVE Num(public'[n], {u}) = One(s = <<"public", n>>)
      OBVIOUS
    <3>3. Num(public'[n], {u}) + One(u = t /\ p = <<"public", n>>)
            = Num(public[n], {u}) + One(u = t /\ q = <<"public", n>>)
      BY <3>1 DEF QueueGoes
    <3>4. Num(public[n], {u}) = One(r = <<"public", n>>)
      BY <1>1 DEF IsAt
    <3>5. Num(public[n], {u}) \in Nat /\ Num(public'[n], {u}) \in Nat
      BY <1>t, <1>s
    <3>6. CASE u # t /\ s = r
      BY <3>3, <3>4, <3>5, <3>6 DEF One
    <3>7. CASE u = t /\ r = p /\ s = q /\ p # q
      BY <3>3, <3>4, <3>5, <3>7 DEF One
    <3> QED BY <1>1, <3>6, <3>7
  <2>2. \A n \in Nodes : Num(private'[n], {u}) = One(s = <<"private", n>>)
    <3>1. QueueGoes(private, private', "private", t, p, q)
      BY DEF Goes
    <3>2. SUFFICES ASSUME NEW n \in Nodes PROVE Num(private'[n], {u}) = One(s = <<"private", n>>)
      OBVIOUS
    <3>3. Num(private'[n], {u}) + One(u = t /\ p = <<"private", n>>)
            = Num(private[n], {u}) + One(u = t /\ q = <<"private", n>>)
      BY <3>1 DEF QueueGoes
    <3>4. Num(private[n], {u}) = One(r = <<"private", n>>)
      BY <1>1 DEF IsAt
    <3>5. Num(private[n], {u}) \in Nat /\ Num(private'[n], {u}) \in Nat
      BY <1>t, <1>s
    <3>6. CASE u # t /\ s = r
      BY <3>3, <3>4, <3>5, <3>6 DEF One
    <3>7. CASE u = t /\ r = p /\ s = q /\ p # q
      BY <3>3, <3>4, <3>5, <3>7 DEF One
    <3> QED BY <1>1, <3>6, <3>7
  <2>3. ASSUME NEW n \in Nodes, NEW m \in Nodes, NEW tag \in Tags
        PROVE  Num(chan'[n][m][tag], Movers(u)) = One(s = <<"moves", <<n, m, tag>>>>)
    <3>1. Num(chan'[n][m][tag], Movers(u)) + One(u = t /\ p = <<"moves", <<n, m, tag>>>>)
            = Num(chan[n][m][tag], Movers(u)) + One(u = t /\ q = <<"moves", <<n, m, tag>>>>)
      BY DEF Goes, MailGoes
    <3>2. Num(chan[n][m][tag], Movers(u)) = One(r = <<"moves", <<n, m, tag>>>>)
      BY <1>1 DEF IsAt
    <3>3. Num(chan[n][m][tag], Movers(u)) \in Nat /\ Num(chan'[n][m][tag], Movers(u)) \in Nat
      BY <1>t, <1>s
    <3>4. CASE u # t /\ s = r
      BY <3>1, <3>2, <3>3, <3>4 DEF One
    <3>5. CASE u = t /\ r = p /\ s = q /\ p # q
      BY <3>1, <3>2, <3>3, <3>5 DEF One
    <3> QED BY <1>1, <3>4, <3>5
  <2>4. ASSUME NEW n \in Nodes, NEW m \in Nodes
        PROVE  Num(chan'[n][m][MaxNvps], Answers(u)) = One(s = <<"answer", <<n, m>>>>)
    <3>1. Num(chan'[n][m][MaxNvps], Answers(u)) + One(u = t /\ p = <<"answer", <<n, m>>>>)
            = Num(chan[n][m][MaxNvps], Answers(u)) + One(u = t /\ q = <<"answer", <<n, m>>>>)
      BY DEF Goes, MailGoes
    <3>2. Num(chan[n][m][MaxNvps], Answers(u)) = One(r = <<"answer", <<n, m>>>>)
      BY <1>1 DEF IsAt
    <3>3. Num(chan[n][m][MaxNvps], Answers(u)) \in Nat /\ Num(chan'[n][m][MaxNvps], Answers(u)) \in Nat
      BY <1>t, <1>s
    <3>4. CASE u # t /\ s = r
      BY <3>1, <3>2, <3>3, <3>4 DEF One
    <3>5. CASE u = t /\ r = p /\ s = q /\ p # q
      BY <3>1, <3>2, <3>3, <3>5 DEF One
    <3> QED BY <1>1, <3>4, <3>5
  <2>5. \A th \in Threads, kind \in Kinds : Has(th, u, kind)' <=> s = <<kind, th>>
    BY <1>1 DEF Goes, HandGoes, IsAt
  <2> HIDE DEF Has
  <2> QED BY SMTT(30), <1>0, <2>1, <2>2, <2>3, <2>4, <2>5 DEF IsAt
<1> QED BY <1>1

(* The ways in which queues change.                                        *)
LEMMA QueueSame ==
  ASSUME NEW Q, NEW kind, NEW t, NEW p, NEW q, t \notin Tasks \/ (p[1] # kind /\ q[1] # kind)
  PROVE  QueueGoes(Q, Q, kind, t, p, q)
<1>1. \A u \in Tasks, n \in Nodes : ~(u = t /\ p = <<kind, n>>) /\ ~(u = t /\ q = <<kind, n>>)
  OBVIOUS
<1> QED BY <1>1 DEF QueueGoes, One

LEMMA QueueIn ==
  ASSUME NEW Q, Q \in [Nodes -> Seq(Tasks)], NEW R, NEW kind, NEW t \in Tasks, NEW p, p[1] # kind,
         NEW n \in Nodes,
         R = [Q EXCEPT ![n] = Append(@, t)] \/ R = [Q EXCEPT ![n] = <<t>> \o @]
  PROVE  QueueGoes(Q, R, kind, t, p, <<kind, n>>)
<1>1. \A u \in Tasks : Num(R[n], {u}) = Num(Q[n], {u}) + One(u = t)
  <2>1. Q[n] \in Seq(Tasks)
    OBVIOUS
  <2>2. \A u \in Tasks : One(t \in {u}) = One(u = t)
    BY DEF One
  <2>3. CASE R = [Q EXCEPT ![n] = Append(@, t)]
    BY <2>1, <2>2, <2>3, NumAppend
  <2>4. CASE R = [Q EXCEPT ![n] = <<t>> \o @]
    BY <2>1, <2>2, <2>4, NumPush
  <2> QED BY <2>3, <2>4
<1>2. \A m \in Nodes : m # n => R[m] = Q[m]
  OBVIOUS
<1>3. ASSUME NEW u \in Tasks, NEW m \in Nodes
      PROVE  Num(R[m], {u}) + One(u = t /\ p = <<kind, m>>)
               = Num(Q[m], {u}) + One(u = t /\ <<kind, n>> = <<kind, m>>)
  <2>0. Q[m] \in Seq(Tasks)
    OBVIOUS
  <2>a. Num(Q[m], {u}) \in Nat
    BY <2>0, NumType
  <2>1. Num(Q[m], {u}) \in Nat /\ p # <<kind, m>>
    BY <2>a
  <2>2. CASE m = n
    BY <1>1, <2>1, <2>2 DEF One
  <2>3. CASE m # n
    BY <1>2, <2>1, <2>3 DEF One
  <2> QED BY <2>2, <2>3
<1> QED BY <1>3 DEF QueueGoes

LEMMA QueueOut ==
  ASSUME NEW Q, Q \in [Nodes -> Seq(Tasks)], NEW R, NEW kind, NEW t \in Tasks, NEW q, q[1] # kind,
         NEW n \in Nodes, Q[n] # <<>>, t = Head(Q[n]), R = [Q EXCEPT ![n] = Tail(Q[n])]
  PROVE  QueueGoes(Q, R, kind, t, <<kind, n>>, q) /\ Num(Q[n], {t}) >= 1
<1>0. Q[n] \in Seq(Tasks) /\ Tail(Q[n]) \in Seq(Tasks)
  BY HeadTailProperties
<1>1. \A u \in Tasks : Num(Q[n], {u}) = Num(R[n], {u}) + One(u = t)
  <2>1. \A u \in Tasks : One(t \in {u}) = One(u = t)
    BY DEF One
  <2> QED BY <1>0, <2>1, NumTail
<1>2. \A m \in Nodes : m # n => R[m] = Q[m]
  OBVIOUS
<1>3. ASSUME NEW u \in Tasks, NEW m \in Nodes
      PROVE  Num(R[m], {u}) + One(u = t /\ <<kind, n>> = <<kind, m>>)
               = Num(Q[m], {u}) + One(u = t /\ q = <<kind, m>>)
  <2>0. R[m] \in Seq(Tasks)
    BY <1>0
  <2>a. Num(R[m], {u}) \in Nat
    BY <2>0, NumType
  <2>1. Num(R[m], {u}) \in Nat /\ q # <<kind, m>>
    BY <2>a
  <2>2. CASE m = n
    BY SMTT(30), <1>1, <2>1, <2>2 DEF One
  <2>3. CASE m # n
    BY <1>2, <2>1, <2>3 DEF One
  <2> QED BY <2>2, <2>3
<1>4. Num(Q[n], {t}) >= 1
  BY <1>0, NumHead
<1> QED BY <1>3, <1>4 DEF QueueGoes

(* The ways in which messages change.                                      *)
CarryTypes == {"enqueue", "enqueue_private", "work"}

LEMMA MailSame ==
  ASSUME NEW t, NEW p, NEW q, UNCHANGED chan,
         t \notin Tasks \/ (p[1] \notin {"moves", "answer"} /\ q[1] \notin {"moves", "answer"})
  PROVE  MailGoes(t, p, q)
<1>1. \A u \in Tasks : \A where : /\ ~(u = t /\ p = <<"moves", where>>)
                                  /\ ~(u = t /\ q = <<"moves", where>>)
                                  /\ ~(u = t /\ p = <<"answer", where>>)
                                  /\ ~(u = t /\ q = <<"answer", where>>)
  OBVIOUS
<1> QED BY <1>1 DEF MailGoes, One

LEMMA MailIn ==
  ASSUME ShapeInv, Same, NEW n \in Nodes, NEW m \in Nodes, NEW tag \in Tags, NEW msg \in Messages(tag),
         Post(n, m, tag, msg), NEW t, NEW p, NEW q,
         \/ /\ t \in Tasks /\ msg.type \in CarryTypes /\ msg.body = t
            /\ q = <<"moves", <<n, m, tag>>>> /\ p[1] \notin {"moves", "answer"}
         \/ /\ t \in Tasks /\ msg.type = "answer" /\ msg.body = t /\ tag = MaxNvps
            /\ q = <<"answer", <<n, m>>>> /\ p[1] \notin {"moves", "answer"}
         \/ /\ msg.type \notin CarryTypes \cup {"answer"}
            /\ t \notin Tasks \/ (p[1] \notin {"moves", "answer"} /\ q[1] \notin {"moves", "answer"})
  PROVE  MailGoes(t, p, q)
<1>1. SetupInv /\ Channels
  BY DEF ShapeInv
<1>2. \A a \in Nodes, b \in Nodes, g \in Tags : \A M :
        /\ Num(chan'[a][b][g], M) = Num(chan[a][b][g], M) + One(<<a, b, g>> = <<n, m, tag>> /\ msg \in M)
        /\ Num(chan[a][b][g], M) \in Nat
  <2>1. \A a \in Nodes, b \in Nodes, g \in Tags : \A M :
          Num(chan'[a][b][g], M) = Num(chan[a][b][g], M) + One(<<a, b, g>> = <<n, m, tag>> /\ msg \in M)
    BY <1>1, PostEffect
  <2>2. \A a \in Nodes, b \in Nodes, g \in Tags : \A M : Num(chan[a][b][g], M) \in Nat
    BY <1>1, ChannelCounts
  <2> SUFFICES ASSUME NEW a \in Nodes, NEW b \in Nodes, NEW g \in Tags, NEW M
               PROVE  /\ Num(chan'[a][b][g], M)
                           = Num(chan[a][b][g], M) + One(<<a, b, g>> = <<n, m, tag>> /\ msg \in M)
                      /\ Num(chan[a][b][g], M) \in Nat
    OBVIOUS
  <2>3. Num(chan'[a][b][g], M) = Num(chan[a][b][g], M) + One(<<a, b, g>> = <<n, m, tag>> /\ msg \in M)
    BY <2>1
  <2>4. Num(chan[a][b][g], M) \in Nat
    BY <2>2
  <2> QED BY <2>3, <2>4
<1>3. /\ \A u \in Tasks : msg \in Movers(u) <=> msg.type \in CarryTypes /\ msg.body = u
      /\ \A u \in Tasks : msg \in Answers(u) <=> msg.type = "answer" /\ msg.body = u
  BY <1>1, HeldFacts DEF Moves, CarryTypes
<1>4. MaxNvps \in Tags
  BY <1>1, TagFacts
<1>5. ASSUME NEW u \in Tasks, NEW a \in Nodes, NEW b \in Nodes, NEW g \in Tags
      PROVE  Num(chan'[a][b][g], Movers(u)) + One(u = t /\ p = <<"moves", <<a, b, g>>>>)
               = Num(chan[a][b][g], Movers(u)) + One(u = t /\ q = <<"moves", <<a, b, g>>>>)
  <2>1. /\ Num(chan'[a][b][g], Movers(u))
             = Num(chan[a][b][g], Movers(u)) + One(<<a, b, g>> = <<n, m, tag>> /\ msg \in Movers(u))
        /\ Num(chan[a][b][g], Movers(u)) \in Nat
    BY <1>2
  <2>2. ~(u = t /\ p = <<"moves", <<a, b, g>>>>)
    OBVIOUS
  <2>3. (<<a, b, g>> = <<n, m, tag>> /\ msg \in Movers(u)) <=> (u = t /\ q = <<"moves", <<a, b, g>>>>)
    BY <1>3 DEF CarryTypes
  <2> QED BY <2>1, <2>2, <2>3 DEF One
<1>6. ASSUME NEW u \in Tasks, NEW a \in Nodes, NEW b \in Nodes
      PROVE  Num(chan'[a][b][MaxNvps], Answers(u)) + One(u = t /\ p = <<"answer", <<a, b>>>>)
               = Num(chan[a][b][MaxNvps], Answers(u)) + One(u = t /\ q = <<"answer", <<a, b>>>>)
  <2>1. /\ Num(chan'[a][b][MaxNvps], Answers(u))
             = Num(chan[a][b][MaxNvps], Answers(u))
                 + One(<<a, b, MaxNvps>> = <<n, m, tag>> /\ msg \in Answers(u))
        /\ Num(chan[a][b][MaxNvps], Answers(u)) \in Nat
    BY <1>2, <1>4
  <2>2. ~(u = t /\ p = <<"answer", <<a, b>>>>)
    OBVIOUS
  <2>3. (<<a, b, MaxNvps>> = <<n, m, tag>> /\ msg \in Answers(u)) <=> (u = t /\ q = <<"answer", <<a, b>>>>)
    <3>1. CASE msg.type = "answer"
      <4>1. tag = MaxNvps
        <5>1. Legal(tag, msg)
          BY <1>1, HeldFacts
        <5> QED BY <3>1, <5>1 DEF Legal
      <4> QED BY <1>3, <3>1, <4>1 DEF CarryTypes
    <3>2. CASE msg.type # "answer"
      BY <1>3, <3>2 DEF CarryTypes
    <3> QED BY <3>1, <3>2
  <2> QED BY <2>1, <2>2, <2>3 DEF One
<1> QED BY <1>5, <1>6 DEF MailGoes

LEMMA MailOut ==
  ASSUME ShapeInv, Same, NEW n \in Nodes, NEW m \in Nodes, NEW tag \in Tags,
         chan[n][m][tag] # <<>>, NEW msg, msg = Head(chan[n][m][tag]), Take(n, m, tag),
         NEW t, NEW p, NEW q,
         \/ /\ t \in Tasks /\ msg.type \in CarryTypes /\ msg.body = t
            /\ p = <<"moves", <<n, m, tag>>>> /\ q[1] \notin {"moves", "answer"}
         \/ /\ t \in Tasks /\ msg.type = "answer" /\ msg.body = t
            /\ p = <<"answer", <<n, m>>>> /\ q[1] \notin {"moves", "answer"}
         \/ /\ msg.type \notin CarryTypes \cup {"answer"}
            /\ t \notin Tasks \/ (p[1] \notin {"moves", "answer"} /\ q[1] \notin {"moves", "answer"})
  PROVE  MailGoes(t, p, q)
<1>1. SetupInv /\ Channels
  BY SMTT(30) DEF ShapeInv
<1>2. /\ msg \in Messages(tag) /\ Legal(tag, msg)
      /\ \A a \in Nodes, b \in Nodes, g \in Tags : \A M :
           /\ Num(chan[a][b][g], M)
                = Num(chan'[a][b][g], M) + One(<<a, b, g>> = <<n, m, tag>> /\ msg \in M)
           /\ Num(chan'[a][b][g], M) \in Nat
  <2>1. /\ msg \in Messages(tag) /\ Channels'
        /\ \A a \in Nodes, b \in Nodes, g \in Tags : \A M :
             Num(chan[a][b][g], M)
               = Num(chan'[a][b][g], M) + One(<<a, b, g>> = <<n, m, tag>> /\ msg \in M)
    BY <1>1, TakeEffect
  <2>2. \A a \in Nodes, b \in Nodes, g \in Tags : chan'[a][b][g] \in Seq(AnyMessage)
    BY <2>1 DEF Channels, Same
  <2>3. \A a \in Nodes, b \in Nodes, g \in Tags : \A M : Num(chan'[a][b][g], M) \in Nat
    BY <2>2, NumType
  <2>4. Legal(tag, msg)
    BY <1>1, <2>1, HeldFacts
  <2>5. ASSUME NEW a \in Nodes, NEW b \in Nodes, NEW g \in Tags, NEW M
        PROVE  /\ Num(chan[a][b][g], M)
                    = Num(chan'[a][b][g], M) + One(<<a, b, g>> = <<n, m, tag>> /\ msg \in M)
               /\ Num(chan'[a][b][g], M) \in Nat
    <3>1. Num(chan[a][b][g], M)
            = Num(chan'[a][b][g], M) + One(<<a, b, g>> = <<n, m, tag>> /\ msg \in M)
      BY <2>1
    <3>2. Num(chan'[a][b][g], M) \in Nat
      BY SMTT(30), <2>3
    <3> QED BY <3>1, <3>2
  <2>6. \A a \in Nodes, b \in Nodes, g \in Tags : \A M :
          /\ Num(chan[a][b][g], M)
               = Num(chan'[a][b][g], M) + One(<<a, b, g>> = <<n, m, tag>> /\ msg \in M)
          /\ Num(chan'[a][b][g], M) \in Nat
    BY SMTT(30), <2>5
  <2> QED BY <2>1, <2>4, <2>6
<1>3. /\ \A u \in Tasks : msg \in Movers(u) <=> msg.type \in CarryTypes /\ msg.body = u
      /\ \A u \in Tasks : msg \in Answers(u) <=> msg.type = "answer" /\ msg.body = u
  BY <1>1, <1>2, HeldFacts DEF Moves, CarryTypes
<1>4. MaxNvps \in Tags
  BY <1>1, TagFacts
<1>5. ASSUME NEW u \in Tasks, NEW a \in Nodes, NEW b \in Nodes, NEW g \in Tags
      PROVE  Num(chan'[a][b][g], Movers(u)) + One(u = t /\ p = <<"moves", <<a, b, g>>>>)
               = Num(chan[a][b][g], Movers(u)) + One(u = t /\ q = <<"moves", <<a, b, g>>>>)
  <2>1. /\ Num(chan[a][b][g], Movers(u))
             = Num(chan'[a][b][g], Movers(u)) + One(<<a, b, g>> = <<n, m, tag>> /\ msg \in Movers(u))
        /\ Num(chan'[a][b][g], Movers(u)) \in Nat
    BY ZenonT(30), <1>2
  <2>2. ~(u = t /\ q = <<"moves", <<a, b, g>>>>)
    BY SMTT(30)
  <2>3. (<<a, b, g>> = <<n, m, tag>> /\ msg \in Movers(u)) <=> (u = t /\ p = <<"moves", <<a, b, g>>>>)
    BY <1>3 DEF CarryTypes
  <2> QED BY <2>1, <2>2, <2>3 DEF One
<1>6. ASSUME NEW u \in Tasks, NEW a \in Nodes, NEW b \in Nodes
      PROVE  Num(chan'[a][b][MaxNvps], Answers(u)) + One(u = t /\ p = <<"answer", <<a, b>>>>)
               = Num(chan[a][b][MaxNvps], Answers(u)) + One(u = t /\ q = <<"answer", <<a, b>>>>)
  <2>1. /\ Num(chan[a][b][MaxNvps], Answers(u))
             = Num(chan'[a][b][MaxNvps], Answers(u))
                 + One(<<a, b, MaxNvps>> = <<n, m, tag>> /\ msg \in Answers(u))
        /\ Num(chan'[a][b][MaxNvps], Answers(u)) \in Nat
    BY ZenonT(30), <1>2, <1>4
  <2>2. ~(u = t /\ q = <<"answer", <<a, b>>>>)
    OBVIOUS
  <2>3. (<<a, b, MaxNvps>> = <<n, m, tag>> /\ msg \in Answers(u)) <=> (u = t /\ p = <<"answer", <<a, b>>>>)
    <3>1. CASE msg.type = "answer"
      <4>1. tag = MaxNvps
        BY <1>2, <3>1 DEF Legal
      <4>2. (<<a, b, MaxNvps>> = <<n, m, tag>>) <=> (<<"answer", <<n, m>>>> = <<"answer", <<a, b>>>>)
        BY <4>1
      <4>3. t \in Tasks /\ msg.body = t /\ p = <<"answer", <<n, m>>>>
        BY <3>1 DEF CarryTypes
      <4> QED BY <1>3, <3>1, <4>2, <4>3
    <3>2. CASE msg.type # "answer"
      <4>1. msg \notin Answers(u)
        BY <1>3, <3>2
      <4>2. ~(u = t /\ p = <<"answer", <<a, b>>>>)
        BY <3>2
      <4> QED BY SMTT(30), <4>1, <4>2
    <3> QED BY SMTT(30), <3>1, <3>2
  <2> QED BY <2>1, <2>2, <2>3 DEF One
<1> QED BY <1>5, <1>6 DEF MailGoes

(* The ways in which a thread gets a task and loses it.                    *)
LEMMA HandMoves ==
  ASSUME ThreadsFit, Same, NEW th \in Threads, Alone(th), NEW t, NEW p, NEW q,
         NEW a, a = KindOf(pc[th]), NEW b, b = KindOf(pc'[th]),
         \/ a = "none" /\ b \in Kinds /\ hand'[th] = t /\ q = <<b, th>> /\ p[1] \notin Kinds
         \/ a \in Kinds /\ b = "none" /\ hand[th] = t /\ p = <<a, th>> /\ q[1] \notin Kinds
         \/ /\ a \in Kinds /\ b \in Kinds /\ a # b /\ hand[th] = t /\ hand'[th] = t
            /\ p = <<a, th>> /\ q = <<b, th>>
         \/ /\ a = b /\ (a = "none" \/ hand'[th] = hand[th])
            /\ t \notin Tasks \/ (p[1] \notin Kinds /\ q[1] \notin Kinds)
  PROVE  HandGoes(t, p, q)
<1>1. \A o \in Threads : o # th => pc'[o] = pc[o] /\ hand'[o] = hand[o]
  BY AloneOthers
<1>2. "none" \notin Kinds
  BY DEF Kinds
<1>3. ASSUME NEW u \in Tasks, NEW o \in Threads, NEW kind \in Kinds
      PROVE  Has(o, u, kind)' <=> \/ Has(o, u, kind) /\ ~(u = t /\ p = <<kind, o>>)
                                  \/ u = t /\ q = <<kind, o>>
  <2>1. CASE o # th
    <3>1. Has(o, u, kind)' <=> Has(o, u, kind)
      BY <1>1, <2>1 DEF Has
    <3>2. ~(u = t /\ p = <<kind, o>>) /\ ~(u = t /\ q = <<kind, o>>)
      BY <2>1
    <3> QED BY <3>1, <3>2
  <2>2. CASE o = th
    <3>1. Has(o, u, kind) <=> hand[th] = u /\ a = kind
      BY <2>2 DEF Has
    <3>2. Has(o, u, kind)' <=> hand'[th] = u /\ b = kind
      BY <2>2 DEF Has
    <3>3. (p = <<kind, o>> => p[1] = kind) /\ (q = <<kind, o>> => q[1] = kind)
      OBVIOUS
    <3>4. (p = <<a, th>> => (p = <<kind, o>> <=> a = kind)) /\ (q = <<b, th>> => (q = <<kind, o>> <=> b = kind))
      BY <2>2
    <3> HIDE DEF Has
    <3>5. CASE a = "none" /\ b \in Kinds /\ hand'[th] = t /\ q = <<b, th>> /\ p[1] \notin Kinds
      BY <1>2, <3>1, <3>2, <3>3, <3>4, <3>5
    <3>6. CASE a \in Kinds /\ b = "none" /\ hand[th] = t /\ p = <<a, th>> /\ q[1] \notin Kinds
      BY <1>2, <3>1, <3>2, <3>3, <3>4, <3>6
    <3>7. CASE /\ a \in Kinds /\ b \in Kinds /\ a # b /\ hand[th] = t /\ hand'[th] = t
               /\ p = <<a, th>> /\ q = <<b, th>>
      BY <1>2, <3>1, <3>2, <3>4, <3>7
    <3>8. CASE /\ a = b /\ (a = "none" \/ hand'[th] = hand[th])
               /\ t \notin Tasks \/ (p[1] \notin Kinds /\ q[1] \notin Kinds)
      BY <1>2, <3>1, <3>2, <3>3, <3>8
    <3> QED BY <3>5, <3>6, <3>7, <3>8
  <2> QED BY <2>1, <2>2
<1> QED BY <1>3 DEF HandGoes

LEMMA HandEmpty ==
  ASSUME ThreadsFit, Same, NEW th \in Threads, Alone(th),
         KindOf(pc[th]) = "none" \/ hand[th] = NoTask, KindOf(pc'[th]) = "none" \/ hand'[th] = NoTask
  PROVE  HandGoes(NoTask, 0, 0)
<1>1. \A o \in Threads : o # th => pc'[o] = pc[o] /\ hand'[o] = hand[o]
  BY AloneOthers
<1>2. "none" \notin Kinds /\ NoTask \notin Tasks
  BY NodeCommAssumption DEF Kinds
<1>3. ASSUME NEW u \in Tasks, NEW o \in Threads, NEW kind \in Kinds
      PROVE  Has(o, u, kind)' <=> Has(o, u, kind)
  <2>1. CASE o = th
    BY <1>2, <2>1 DEF Has
  <2>2. CASE o # th
    BY <1>1, <2>2 DEF Has
  <2> QED BY <2>1, <2>2
<1> QED BY <1>2, <1>3 DEF HandGoes

(* A step that moves one task, or none.                                    *)
LEMMA PlaceStep ==
  ASSUME ShapeInv, ShapeInv', Same, PlaceInv, NEW th \in Threads, Alone(th),
         NEW t, NEW p, NEW q, Goes(t, p, q),
         \A u \in Tasks : u # t => stage'[u] = stage[u] /\ parent'[u] = parent[u],
         t \in Tasks => /\ IsAt(t, p) /\ p # q /\ q \in Locations /\ stage'[t] \in Stages(q[1])
                        /\ Parented(t)'
                        /\ parent'[t] = parent[t] \/ parent[t] = NoThread,
         pc'[th] = "send_results" => hand'[th] \in Tasks /\ parent'[hand'[th]] \in Creators
  PROVE  PlaceInv'
<1>1. /\ \A u \in Tasks : \A r : u # t /\ IsAt(u, r) => IsAt(u, r)'
      /\ t \in Tasks => IsAt(t, q)'
  BY Relocate
<1>2. /\ Nodes' = Nodes /\ Threads' = Threads /\ Tags' = Tags /\ Creators' = Creators
      /\ Locations' = Locations
  BY DEF Same, Locations
<1>3. ASSUME NEW u \in Tasks PROVE Placed(u)' /\ Parented(u)'
  <2>1. CASE u = t
    BY <1>1, <1>2, <2>1 DEF Placed
  <2>2. CASE u # t
    <3>1. PICK r \in Locations : IsAt(u, r) /\ stage[u] \in Stages(r[1])
      BY DEF PlaceInv, Placed
    <3>2. IsAt(u, r)' /\ stage'[u] \in Stages(r[1])
      BY <1>1, <2>2, <3>1
    <3>3. Parented(u)
      BY DEF PlaceInv
    <3> QED BY <1>2, <2>2, <3>2, <3>3 DEF Placed, Parented
  <2> QED BY <2>1, <2>2
<1>4. ASSUME NEW o \in Threads, pc'[o] = "send_results" PROVE parent'[hand'[o]] \in Creators
  <2>1. CASE o = th
    BY <1>4, <2>1
  <2>2. CASE o # th
    <3>1. pc[o] = "send_results" /\ hand'[o] = hand[o]
      BY <1>4, <2>2, AloneOthers DEF ShapeInv
    <3>2. hand[o] \in Tasks /\ parent[hand[o]] \in Creators
      BY <3>1, Now DEF PlaceInv, WithTask
    <3>3. parent'[hand[o]] = parent[hand[o]]
      BY <3>2, ServerFacts DEF ShapeInv
    <3> QED BY <3>1, <3>2, <3>3
  <2> QED BY <2>1, <2>2
<1> QED BY <1>2, <1>3, <1>4 DEF PlaceInv

(* No task moves.                                                          *)
TasksStay(th) ==
  /\ UNCHANGED <<public, private, stage, parent>> /\ MailGoes(NoTask, 0, 0)
  /\ KindOf(pc'[th]) = KindOf(pc[th])
  /\ KindOf(pc[th]) = "none" \/ hand'[th] = hand[th]
  /\ pc'[th] # "send_results"

LEMMA QuietStep ==
  ASSUME ShapeInv, ShapeInv', Same, PlaceInv, NEW th \in Threads, Alone(th), TasksStay(th)
  PROVE  PlaceInv'
<1>1. NoTask \notin Tasks /\ ThreadsFit
  BY NodeCommAssumption DEF ShapeInv
<1>2. QueueGoes(public, public', "public", NoTask, 0, 0) /\ QueueGoes(private, private', "private", NoTask, 0, 0)
  BY <1>1, QueueSame DEF TasksStay
<1>3. HandGoes(NoTask, 0, 0)
  BY <1>1, HandMoves DEF TasksStay
<1>4. Goes(NoTask, 0, 0)
  BY <1>2, <1>3 DEF Goes, TasksStay
<1> QED BY <1>1, <1>4, PlaceStep DEF TasksStay

(* The task that a step gets hold of is where the step finds it.           *)
LEMMA FoundInQueue ==
  ASSUME ShapeInv, PlaceInv, NEW n \in Nodes, NEW t,
         NEW p, \/ public[n] # <<>> /\ t = Head(public[n]) /\ p = <<"public", n>>
                \/ private[n] # <<>> /\ t = Head(private[n]) /\ p = <<"private", n>>
  PROVE  t \in Tasks /\ IsAt(t, p) /\ stage[t] = "spawned"
<1>1. public[n] \in Seq(Tasks) /\ private[n] \in Seq(Tasks)
  BY DEF ShapeInv, QueueTypes
<1>2. t \in Tasks
  BY <1>1, HeadTailProperties
<1>3. PICK r \in Locations : IsAt(t, r) /\ stage[t] \in Stages(r[1])
  BY <1>2 DEF PlaceInv, Placed
<1>4. CASE public[n] # <<>> /\ t = Head(public[n]) /\ p = <<"public", n>>
  <2>1. Num(public[n], {t}) >= 1
    BY <1>1, <1>4, NumHead
  <2>2. Num(public[n], {t}) = One(r = p)
    BY <1>3, <1>4 DEF IsAt
  <2>3. r = p
    BY <2>1, <2>2 DEF One
  <2> QED BY <1>2, <1>3, <1>4, <2>3 DEF Stages
<1>5. CASE private[n] # <<>> /\ t = Head(private[n]) /\ p = <<"private", n>>
  <2>1. Num(private[n], {t}) >= 1
    BY <1>1, <1>5, NumHead
  <2>2. Num(private[n], {t}) = One(r = p)
    BY <1>3, <1>5 DEF IsAt
  <2>3. r = p
    BY <2>1, <2>2 DEF One
  <2> QED BY <1>2, <1>3, <1>5, <2>3 DEF Stages
<1> QED BY <1>4, <1>5

LEMMA HeadCounts ==
  ASSUME ShapeInv, NEW n \in Nodes, NEW m \in Nodes, NEW tag \in Tags, chan[n][m][tag] # <<>>,
         NEW msg, msg = Head(chan[n][m][tag])
  PROVE  /\ msg \in Messages(tag) /\ Legal(tag, msg)
         /\ \A M : msg \in M => Num(chan[n][m][tag], M) >= 1
         /\ msg.type \in CarryTypes \cup {"answer", "argument", "result"} => msg.body \in Tasks
         /\ \A t \in Tasks : msg \in Movers(t) <=> msg.type \in CarryTypes /\ msg.body = t
         /\ \A t \in Tasks : msg \in Answers(t) <=> msg.type = "answer" /\ msg.body = t
<1>1. SetupInv /\ Channels
  BY DEF ShapeInv
<1>2. msg \in Messages(tag) /\ \A M : msg \in M => Num(chan[n][m][tag], M) >= 1
  BY <1>1, ChannelCounts
<1>3. Legal(tag, msg)
  BY <1>1, <1>2, HeldFacts
<1>4. msg.type \in CarryTypes \cup {"answer", "argument", "result"} => msg.body \in Tasks
  BY <1>3 DEF Legal, CarryTypes
<1>5. /\ \A t \in Tasks : msg \in Movers(t) <=> msg.type \in CarryTypes /\ msg.body = t
      /\ \A t \in Tasks : msg \in Answers(t) <=> msg.type = "answer" /\ msg.body = t
  BY <1>1, <1>2, HeldFacts DEF Moves, CarryTypes
<1> QED BY <1>2, <1>3, <1>4, <1>5

LEMMA FoundInMail ==
  ASSUME ShapeInv, PlaceInv, NEW n \in Nodes, NEW m \in Nodes, NEW tag \in Tags,
         chan[n][m][tag] # <<>>, NEW t, t = Head(chan[n][m][tag]).body,
         Head(chan[n][m][tag]).type \in CarryTypes
  PROVE  t \in Tasks /\ IsAt(t, <<"moves", <<n, m, tag>>>>) /\ stage[t] = "spawned"
<1>1. PICK msg : msg = Head(chan[n][m][tag])
  OBVIOUS
<1>2. t \in Tasks /\ Num(chan[n][m][tag], Movers(t)) >= 1
  BY SMTT(30), <1>1, HeadCounts
<1>3. PICK r \in Locations : IsAt(t, r) /\ stage[t] \in Stages(r[1])
  BY <1>2 DEF PlaceInv, Placed
<1>4. r = <<"moves", <<n, m, tag>>>>
  BY <1>2, <1>3 DEF IsAt, One
<1> QED BY <1>2, <1>3, <1>4 DEF Stages

LEMMA FoundAnswer ==
  ASSUME ShapeInv, PlaceInv, NEW n \in Nodes, NEW m \in Nodes,
         chan[n][m][MaxNvps] # <<>>, NEW t, t = Head(chan[n][m][MaxNvps]).body,
         Head(chan[n][m][MaxNvps]).type = "answer"
  PROVE  t \in Tasks /\ IsAt(t, <<"answer", <<n, m>>>>) /\ stage[t] = "returned"
<1>1. PICK msg : msg = Head(chan[n][m][MaxNvps])
  OBVIOUS
<1>2. t \in Tasks /\ Num(chan[n][m][MaxNvps], Answers(t)) >= 1
  BY SMTT(30), <1>1, CountTypes, HeadCounts
<1>3. PICK r \in Locations : IsAt(t, r) /\ stage[t] \in Stages(r[1])
  BY <1>2 DEF PlaceInv, Placed
<1>4. r = <<"answer", <<n, m>>>>
  BY <1>2, <1>3 DEF IsAt, One
<1> QED BY <1>2, <1>3, <1>4 DEF Stages

LEMMA FoundInHand ==
  ASSUME ShapeInv, PlaceInv, NEW th \in Threads, NEW t \in Tasks, t = hand[th],
         NEW kind \in Kinds, kind = KindOf(pc[th])
  PROVE  IsAt(t, <<kind, th>>) /\ stage[t] \in Stages(kind)
<1>1. PICK r \in Locations : IsAt(t, r) /\ stage[t] \in Stages(r[1])
  BY DEF PlaceInv, Placed
<1>2. r = <<kind, th>>
  BY <1>1 DEF IsAt, Has
<1> QED BY <1>1, <1>2

LEMMA FoundNowhere ==
  ASSUME PlaceInv, NEW t \in Tasks, stage[t] = "none"
  PROVE  IsAt(t, <<"nowhere", 0>>)
<1>1. PICK r \in Locations : IsAt(t, r) /\ stage[t] \in Stages(r[1])
  BY DEF PlaceInv, Placed
<1>2. r = <<"nowhere", 0>>
  BY <1>1 DEF Locations, Stages, Kinds
<1> QED BY <1>1, <1>2

LEMMA CreatePlace ==
  ASSUME ShapeInv, Same, PlaceInv, NEW c \in Creators, NEW t \in Tasks, NEW n \in Nodes,
         NEW call \in {"task", "task_direct"}, Create(c, t, n, call), UNCHANGED bvars
  PROVE  PlaceInv'
<1> DEFINE from == <<"nowhere", 0>>
<1>0. /\ ShapeInv' /\ Alone(c) /\ c \in Threads /\ SetupInv /\ ThreadsFit /\ QueueTypes
      /\ pc[c] = "app" /\ stage[t] = "none" /\ stage \in [Tasks -> {"none", "spawned", "active", "returned", "done"}]
      /\ parent \in [Tasks -> Creators \cup {NoThread}] /\ AppTypes
  BY CreateShape DEF ShapeInv, Create, AppTypes
<1>1. IsAt(t, from)
  BY <1>0, FoundNowhere
<1>2. parent[t] = NoThread
  BY <1>0 DEF PlaceInv, Parented
<1>3. /\ stage'[t] = "spawned" /\ parent'[t] = c
      /\ \A u \in Tasks : u # t => stage'[u] = stage[u] /\ parent'[u] = parent[u]
  BY <1>0 DEF Create
<1>4. Parented(t)' /\ UNCHANGED <<private, chan>>
  BY <1>3 DEF Parented, Create, Same
<1>5. CASE n = c[1]
  <2>1. public' = [public EXCEPT ![n] = Append(@, t)] /\ UNCHANGED <<pc, hand>>
    BY <1>5 DEF Create
  <2>2. QueueGoes(public, public', "public", t, from, <<"public", n>>)
    BY <1>0, <2>1, QueueIn DEF QueueTypes
  <2>3. QueueGoes(private, private', "private", t, from, <<"public", n>>)
    BY <1>4, QueueSame
  <2>4. MailGoes(t, from, <<"public", n>>)
    BY <1>4, MailSame
  <2>5. HandGoes(t, from, <<"public", n>>)
    <3>1. KindOf(pc[c]) = "none" /\ pc'[c] = pc[c]
      BY <1>0, <2>1 DEF KindOf, Carrying
    <3> QED BY <1>0, <3>1, HandMoves DEF Kinds
  <2>6. Goes(t, from, <<"public", n>>)
    BY <2>2, <2>3, <2>4, <2>5 DEF Goes
  <2>7. /\ from # <<"public", n>> /\ <<"public", n>> \in Locations /\ "spawned" \in Stages(<<"public", n>>[1])
        /\ pc'[c] # "send_results"
    BY <1>0, <2>1 DEF Locations, Stages
  <2> QED BY <1>0, <1>1, <1>2, <1>3, <1>4, <2>6, <2>7, PlaceStep
<1>6. CASE n # c[1]
  <2>1. Goto(c, "send") /\ Holds(c, t) /\ UNCHANGED public
    BY <1>6 DEF Create
  <2>2. pc'[c] = "send" /\ hand'[c] = t
    BY <1>0, <2>1 DEF Goto, Holds, ThreadsFit
  <2>3. QueueGoes(public, public', "public", t, from, <<"hand", c>>)
    BY <2>1, QueueSame
  <2>4. QueueGoes(private, private', "private", t, from, <<"hand", c>>)
    BY <1>4, QueueSame
  <2>5. MailGoes(t, from, <<"hand", c>>)
    BY <1>4, MailSame
  <2>6. HandGoes(t, from, <<"hand", c>>)
    <3>1. KindOf(pc[c]) = "none" /\ KindOf(pc'[c]) = "hand" /\ "hand" \in Kinds /\ "nowhere" \notin Kinds
      BY <1>0, <2>2 DEF KindOf, Carrying, Kinds
    <3> QED BY <1>0, <2>2, <3>1, HandMoves
  <2>7. Goes(t, from, <<"hand", c>>)
    BY <2>3, <2>4, <2>5, <2>6 DEF Goes
  <2>8. /\ from # <<"hand", c>> /\ <<"hand", c>> \in Locations /\ "spawned" \in Stages(<<"hand", c>>[1])
    BY <1>0 DEF Locations, Stages, Kinds
  <2> QED BY <1>0, <1>1, <1>2, <1>3, <1>4, <2>2, <2>7, <2>8, PlaceStep
<1> QED BY <1>5, <1>6

(* A task moves and neither its stage nor its parent changes.              *)
LEMMA MovePlace ==
  ASSUME ShapeInv, ShapeInv', Same, PlaceInv, NEW th \in Threads, Alone(th),
         NEW t \in Tasks, NEW p, NEW q \in Locations, p # q, IsAt(t, p), Goes(t, p, q),
         stage[t] = "spawned", UNCHANGED <<stage, parent>>,
         q[1] \in {"public", "private", "moves", "hand"}, pc'[th] # "send_results"
  PROVE  PlaceInv'
<1>1. Parented(t)' /\ stage'[t] \in Stages(q[1])
  BY DEF PlaceInv, Parented, Stages, Same
<1> QED BY <1>1, PlaceStep

LEMMA TakeLocalPlace ==
  ASSUME ShapeInv, Same, PlaceInv, NEW w \in Workers, TakeLocal(w), UNCHANGED bvars
  PROVE  PlaceInv'
<1> DEFINE to == <<"hand", w>>
<1>0. /\ ShapeInv' /\ Alone(w) /\ w \in Threads /\ pc'[w] = "execute" /\ ThreadsFit /\ w[1] \in Nodes
      /\ UNCHANGED <<chan, stage, parent>> /\ pc[w] \in {"poll", "repoll"} /\ QueueTypes
  BY TakeLocalShape, Now DEF ShapeInv, TakeLocal, Application
<1>1. KindOf(pc[w]) = "none" /\ KindOf(pc'[w]) = "hand" /\ "hand" \in Kinds /\ to \in Locations
      /\ "public" \notin Kinds /\ "private" \notin Kinds
  BY <1>0 DEF KindOf, Carrying, Kinds, Locations
<1>2. PICK n \in Nodes : n = w[1]
  BY <1>0
<1>3. CASE private[n] # <<>> /\ Holds(w, Head(private[n])) /\ private' = [private EXCEPT ![n] = Tail(@)]
           /\ UNCHANGED public
  <2>1. PICK t : t = Head(private[n])
    OBVIOUS
  <2>2. t \in Tasks /\ IsAt(t, <<"private", n>>) /\ stage[t] = "spawned"
    BY <1>3, <2>1, FoundInQueue
  <2>3. hand'[w] = t
    BY <1>0, <1>3, <2>1 DEF Holds, ThreadsFit
  <2>4. QueueGoes(private, private', "private", t, <<"private", n>>, to)
    BY <1>0, <1>3, <2>1, <2>2, QueueOut DEF QueueTypes
  <2>5. QueueGoes(public, public', "public", t, <<"private", n>>, to)
    BY <1>3, QueueSame
  <2>6. MailGoes(t, <<"private", n>>, to)
    BY <1>0, MailSame
  <2>7. HandGoes(t, <<"private", n>>, to)
    BY <1>0, <1>1, <2>3, HandMoves
  <2>8. Goes(t, <<"private", n>>, to) /\ <<"private", n>> # to
    BY <2>4, <2>5, <2>6, <2>7 DEF Goes
  <2> QED BY <1>0, <1>1, <2>2, <2>8, MovePlace
<1>4. CASE public[n] # <<>> /\ Holds(w, Head(public[n])) /\ public' = [public EXCEPT ![n] = Tail(@)]
           /\ UNCHANGED private
  <2>1. PICK t : t = Head(public[n])
    OBVIOUS
  <2>2. t \in Tasks /\ IsAt(t, <<"public", n>>) /\ stage[t] = "spawned"
    BY <1>4, <2>1, FoundInQueue
  <2>3. hand'[w] = t
    BY <1>0, <1>4, <2>1 DEF Holds, ThreadsFit
  <2>4. QueueGoes(public, public', "public", t, <<"public", n>>, to)
    BY <1>0, <1>4, <2>1, <2>2, QueueOut DEF QueueTypes
  <2>5. QueueGoes(private, private', "private", t, <<"public", n>>, to)
    BY <1>4, QueueSame
  <2>6. MailGoes(t, <<"public", n>>, to)
    BY <1>0, MailSame
  <2>7. HandGoes(t, <<"public", n>>, to)
    BY <1>0, <1>1, <2>3, HandMoves
  <2>8. Goes(t, <<"public", n>>, to) /\ <<"public", n>> # to
    BY <2>4, <2>5, <2>6, <2>7 DEF Goes
  <2> QED BY <1>0, <1>1, <2>2, <2>8, MovePlace
<1> QED BY <1>2, <1>3, <1>4 DEF TakeLocal

LEMMA StealReplyPlace ==
  ASSUME ShapeInv, Same, PlaceInv, NEW w \in Workers, StealReply(w), UNCHANGED bvars
  PROVE  PlaceInv'
<1>1. PICK k \in Nodes : k = peer[w][1]
  BY SMTT(30), Now, WorkerFacts DEF ShapeInv
<1>2. PICK tag : tag = StealTag(w[2])
  BY SMTT(30)
<1>3. PICK msg : msg = Head(chan[k][w[1]][tag])
  BY SMTT(30)
<1>4. /\ ShapeInv' /\ Alone(w) /\ w \in Threads /\ pc[w] \in Inside
      /\ chan[k][w[1]][tag] # <<>> /\ Take(k, w[1], tag)
      /\ \/ /\ msg.type = "work" /\ hand'[w] = msg.body
            /\ pc'[w] \in {"execute", "get_args"}
         \/ /\ msg.type # "work" /\ hand'[w] = hand[w]
            /\ pc'[w] \in {"wait", "repoll", "reask", "ask"}
  BY SMTT(30), <1>1, <1>2, <1>3, StealReplyShape
<1>5. /\ ThreadsFit /\ SetupInv /\ Channels /\ w[1] \in Nodes /\ tag \in Tags /\ tag \in StealTags
      /\ UNCHANGED <<public, private, stage, parent>> /\ KindOf(pc[w]) = "none"
  BY ZenonT(30), <1>2, <1>4, WorkerFacts, TagFacts
     DEF ShapeInv, StealReply, Application, Queues, KindOf, Carrying,
     Inside, InFirst, InSecond
<1>6. CASE msg.type = "work"
  <2> DEFINE from == <<"moves", <<k, w[1], tag>>>>
             to == <<"hand", w>>
  <2>1. PICK t : t = msg.body
    BY SMTT(30)
  <2>2. t \in Tasks /\ IsAt(t, from) /\ stage[t] = "spawned"
    BY SMTT(30), <1>3, <1>4, <1>5, <1>6, <2>1, FoundInMail DEF CarryTypes
  <2>3. QueueGoes(public, public', "public", t, from, to) /\ QueueGoes(private, private', "private", t, from, to)
    BY SMTT(30), <1>5, QueueSame
  <2>4. MailGoes(t, from, to)
    BY <1>3, <1>4, <1>5, <1>6, <2>1, <2>2, MailOut DEF CarryTypes
  <2>5. KindOf(pc'[w]) = "hand" /\ "hand" \in Kinds /\ "moves" \notin Kinds /\ to \in Locations
    BY <1>4, <1>6 DEF KindOf, Carrying, Kinds, Locations
  <2>6. HandGoes(t, from, to)
    BY <1>4, <1>5, <1>6, <2>1, <2>5, HandMoves
  <2>7. Goes(t, from, to) /\ from # to
    BY <2>3, <2>4, <2>6 DEF Goes
  <2>8. pc'[w] # "send_results"
    BY <1>4
  <2> QED BY <1>4, <1>5, <2>2, <2>5, <2>7, <2>8, MovePlace
<1>7. CASE msg.type # "work"
  <2>1. msg.type \notin CarryTypes \cup {"answer"}
    <3>1. msg \in Messages(tag)
      BY <1>3, <1>4, <1>5, ChannelCounts
    <3>2. Legal(tag, msg)
      BY <1>5, <3>1, HeldFacts
    <3> QED BY <1>5, <1>7, <3>2 DEF Legal, CarryTypes
  <2>2. MailGoes(NoTask, 0, 0)
    BY <1>3, <1>4, <1>5, <2>1, WorkerFacts, MailOut
  <2>3. KindOf(pc'[w]) = "none"
    BY <1>4, <1>7 DEF KindOf, Carrying
  <2> QED BY <1>4, <1>5, <1>7, <2>2, <2>3, QuietStep DEF TasksStay
<1> QED BY <1>6, <1>7

LEMMA SendDescriptorPlace ==
  ASSUME ShapeInv, Same, PlaceInv, NEW th \in Threads, SendDescriptor(th), UNCHANGED bvars
  PROVE  PlaceInv'
<1>1. PICK n \in Nodes : n = peer[th][1]
  BY Now
<1>2. PICK t \in Tasks : t = hand[th]
  BY Now DEF SendDescriptor, WithTask
<1>3. /\ ShapeInv' /\ Alone(th) /\ pc[th] \in {"send", "push"}
      /\ \E m \in Messages(MaxNvps) :
           /\ m.type \in {"enqueue", "enqueue_private"} /\ m.body = t
           /\ Post(th[1], n, MaxNvps, m)
      /\ \/ pc'[th] = AfterSend(th)
         \/ pc'[th] = "send_args"
  BY <1>1, <1>2, SendDescriptorShape
<1>4. PICK msg \in Messages(MaxNvps) :
           /\ msg.type \in {"enqueue", "enqueue_private"} /\ msg.body = t
           /\ Post(th[1], n, MaxNvps, msg)
  BY <1>3
<1> DEFINE from == <<"hand", th>>
           to == <<"moves", <<th[1], n, MaxNvps>>>>
<1>5. /\ ThreadsFit /\ th[1] \in Nodes /\ MaxNvps \in Tags /\ UNCHANGED <<public, private, stage, parent>>
  BY Now, TagFacts DEF ShapeInv, SendDescriptor, Queues, Application
<1>6. KindOf(pc[th]) = "hand" /\ KindOf(pc'[th]) = "none" /\ "hand" \in Kinds /\ "moves" \notin Kinds
      /\ to \in Locations /\ pc'[th] # "send_results"
  BY <1>3, <1>5 DEF KindOf, Carrying, AfterSend, Kinds, Locations
<1>7. IsAt(t, from) /\ stage[t] = "spawned"
  BY <1>2, <1>6, FoundInHand DEF Stages
<1>8. QueueGoes(public, public', "public", t, from, to) /\ QueueGoes(private, private', "private", t, from, to)
  BY <1>5, QueueSame
<1>9. MailGoes(t, from, to)
  BY <1>4, <1>5, MailIn DEF CarryTypes
<1>10. HandGoes(t, from, to)
  BY <1>2, <1>3, <1>5, <1>6, HandMoves
<1>11. Goes(t, from, to) /\ from # to
  BY <1>8, <1>9, <1>10 DEF Goes
<1> QED BY <1>3, <1>5, <1>6, <1>7, <1>11, MovePlace

LEMMA DirectSendPlace ==
  ASSUME ShapeInv, Same, PlaceInv, NEW th \in Threads, DirectSendDescriptor(th), UNCHANGED bvars
  PROVE  PlaceInv'
<1>1. PICK n \in Nodes, tag \in Tags, t \in Tasks \cup {NoTask} :
        n = peer[th][1] /\ tag = peer[th][2] /\ t = hand[th]
  BY Now
<1>3. /\ ShapeInv' /\ Alone(th) /\ pc[th] = "reply"
      /\ \E m \in Messages(tag) :
           /\ m.type = (IF t = NoTask THEN "no_work" ELSE "work") /\ m.body = t
           /\ Post(th[1], n, tag, m)
      /\ pc'[th] \in {"serve", "send_args"}
  BY <1>1, DirectSendShape
<1>4. PICK msg \in Messages(tag) :
           /\ msg.type = (IF t = NoTask THEN "no_work" ELSE "work") /\ msg.body = t
           /\ Post(th[1], n, tag, msg)
  BY <1>3
<1> DEFINE from == <<"hand", th>>
           to == <<"moves", <<th[1], n, tag>>>>
<1>5. /\ ThreadsFit /\ th[1] \in Nodes /\ UNCHANGED <<public, private, stage, parent>> /\ NoTask \notin Tasks
  BY Now, NodeCommAssumption DEF ShapeInv, DirectSendDescriptor, Queues, Application
<1>6. KindOf(pc[th]) = "hand" /\ KindOf(pc'[th]) = "none" /\ "hand" \in Kinds /\ "moves" \notin Kinds
      /\ to \in Locations /\ pc'[th] # "send_results" /\ "none" \notin Kinds
  BY <1>3, <1>5 DEF KindOf, Carrying, Kinds, Locations
<1>a. CASE t \in Tasks
  <2>7. IsAt(t, from) /\ stage[t] = "spawned"
    BY <1>1, <1>a, <1>6, FoundInHand DEF Stages
  <2>8. QueueGoes(public, public', "public", t, from, to) /\ QueueGoes(private, private', "private", t, from, to)
    BY <1>5, QueueSame
  <2>9. MailGoes(t, from, to)
    BY <1>4, <1>a, <1>5, MailIn DEF CarryTypes
  <2>10. HandGoes(t, from, to)
    BY <1>1, <1>3, <1>5, <1>6, HandMoves
  <2>11. Goes(t, from, to) /\ from # to
    BY <2>8, <2>9, <2>10 DEF Goes
  <2> QED BY <1>a, <1>3, <1>5, <1>6, <2>7, <2>11, MovePlace
<1>b. CASE t = NoTask
  <2>1. MailGoes(NoTask, 0, 0)
    BY <1>4, <1>b, <1>5, MailIn DEF CarryTypes
  <2>2. QueueGoes(public, public', "public", NoTask, 0, 0) /\ QueueGoes(private, private', "private", NoTask, 0, 0)
    BY <1>5, QueueSame
  <2>3. HandGoes(NoTask, 0, 0)
    BY <1>1, <1>3, <1>5, <1>6, <1>b, HandEmpty
  <2>4. Goes(NoTask, 0, 0)
    BY <2>1, <2>2, <2>3 DEF Goes
  <2> QED BY <1>3, <1>5, <1>6, <2>4, PlaceStep
<1> QED BY <1>a, <1>b

(* What a server does with a task that has reached its node.               *)
LEMMA EnqueuedPlace ==
  ASSUME ShapeInv, ShapeInv', Same, PlaceInv, NEW s \in Servers, NEW t \in Tasks, NEW b \in BOOLEAN,
         Enqueued(s, t, b), UNCHANGED <<peer, stage, parent>>, NEW p, IsAt(t, p), stage[t] = "spawned",
         \A q : q[1] \in {"public", "private", "hand"} => MailGoes(t, p, q),
         \/ p[1] = "moves" /\ KindOf(pc[s]) = "none"
         \/ p = <<"hand", s>> /\ hand[s] = t /\ KindOf(pc[s]) = "hand" /\ MailGoes(NoTask, 0, 0)
  PROVE  PlaceInv'
<1>1. /\ Alone(s) /\ s \in Threads
      /\ \/ pc'[s] = "execute" /\ hand'[s] = t /\ UNCHANGED Queues
         \/ /\ pc'[s] = "serve" /\ hand'[s] = NoTask
            /\ \/ public' = [public EXCEPT ![s[1]] = Append(@, t)] /\ UNCHANGED private
               \/ private' = [private EXCEPT ![s[1]] = Append(@, t)] /\ UNCHANGED public
  BY EnqueuedFits
<1>2. ThreadsFit /\ s[1] \in Nodes /\ public \in [Nodes -> Seq(Tasks)] /\ private \in [Nodes -> Seq(Tasks)]
  BY <1>1, Now DEF ShapeInv, QueueTypes
<1>3. /\ "hand" \in Kinds /\ "moves" \notin Kinds /\ "public" \notin Kinds /\ "private" \notin Kinds
      /\ <<"hand", s>> \in Locations /\ <<"public", s[1]>> \in Locations /\ <<"private", s[1]>> \in Locations
      /\ KindOf("execute") = "hand" /\ KindOf("serve") = "none" /\ pc'[s] # "send_results"
  BY <1>1, <1>2 DEF Kinds, Locations, KindOf, Carrying
<1>4. CASE pc'[s] = "execute" /\ hand'[s] = t /\ UNCHANGED Queues
  <2>1. CASE p[1] = "moves" /\ KindOf(pc[s]) = "none"
    <3>1. QueueGoes(public, public', "public", t, p, <<"hand", s>>)
          /\ QueueGoes(private, private', "private", t, p, <<"hand", s>>)
      BY <1>4, <2>1, QueueSame DEF Queues
    <3>2. HandGoes(t, p, <<"hand", s>>)
      BY <1>1, <1>2, <1>3, <1>4, <2>1, HandMoves
    <3>3. Goes(t, p, <<"hand", s>>) /\ p # <<"hand", s>>
      BY <2>1, <3>1, <3>2 DEF Goes
    <3> QED BY <1>1, <1>3, <3>3, MovePlace
  <2>2. CASE p = <<"hand", s>> /\ hand[s] = t /\ KindOf(pc[s]) = "hand" /\ MailGoes(NoTask, 0, 0)
    BY <1>1, <1>3, <1>4, <2>2, QuietStep DEF TasksStay, Queues
  <2> QED BY <2>1, <2>2
<1>5. ASSUME pc'[s] = "serve", NEW kind \in {"public", "private"}, Goes(t, p, <<kind, s[1]>>)
      PROVE  PlaceInv'
  <2>1. p # <<kind, s[1]>> /\ <<kind, s[1]>> \in Locations /\ <<kind, s[1]>>[1] = kind
    BY <1>3
  <2> QED BY <1>1, <1>3, <1>5, <2>1, MovePlace
<1>6. ASSUME pc'[s] = "serve", NEW kind \in {"public", "private"} PROVE HandGoes(t, p, <<kind, s[1]>>)
  BY <1>1, <1>2, <1>3, <1>6, HandMoves
<1>7. CASE pc'[s] = "serve" /\ public' = [public EXCEPT ![s[1]] = Append(@, t)] /\ UNCHANGED private
  <2>1. QueueGoes(public, public', "public", t, p, <<"public", s[1]>>)
    BY <1>2, <1>7, QueueIn
  <2>2. QueueGoes(private, private', "private", t, p, <<"public", s[1]>>)
    BY <1>7, QueueSame
  <2>3. Goes(t, p, <<"public", s[1]>>)
    BY <1>6, <1>7, <2>1, <2>2 DEF Goes
  <2> QED BY <1>5, <1>7, <2>3
<1>8. CASE pc'[s] = "serve" /\ private' = [private EXCEPT ![s[1]] = Append(@, t)] /\ UNCHANGED public
  <2>1. QueueGoes(private, private', "private", t, p, <<"private", s[1]>>)
    BY <1>2, <1>8, QueueIn
  <2>2. QueueGoes(public, public', "public", t, p, <<"private", s[1]>>)
    BY <1>8, QueueSame
  <2>3. Goes(t, p, <<"private", s[1]>>)
    BY <1>6, <1>8, <2>1, <2>2 DEF Goes
  <2> QED BY <1>5, <1>8, <2>3
<1> QED BY <1>1, <1>4, <1>7, <1>8

LEMMA AtHome ==
  ASSUME ShapeInv, PlaceInv, NEW th \in Threads, pc[th] \in {"run", "send_results"}
  PROVE  /\ hand[th] \in Tasks /\ parent[hand[th]] \in Creators /\ Home(hand[th]) \in Nodes
         /\ pc[th] = "run" => IsAt(hand[th], <<"run", th>>) /\ stage[hand[th]] = "active"
<1>1. PICK t \in Tasks : t = hand[th]
  BY Now DEF WithTask
<1>2. ASSUME pc[th] = "run" PROVE IsAt(t, <<"run", th>>) /\ stage[t] = "active"
  <2>1. KindOf(pc[th]) = "run" /\ "run" \in Kinds
    BY <1>2 DEF KindOf, Kinds
  <2> QED BY <1>1, <2>1, FoundInHand DEF Stages
<1>3. parent[t] \in Creators
  <2>1. CASE pc[th] = "run"
    BY <1>2, <2>1 DEF PlaceInv, Parented
  <2>2. CASE pc[th] = "send_results"
    BY <1>1, <2>2 DEF PlaceInv
  <2> QED BY <2>1, <2>2
<1>4. Home(t) \in Nodes
  BY <1>3, WorkerFacts DEF Home, ShapeInv
<1> QED BY <1>1, <1>2, <1>3, <1>4

(* A task moves and its stage changes.                                     *)
LEMMA StagePlace ==
  ASSUME ShapeInv, ShapeInv', Same, PlaceInv, NEW th \in Threads, Alone(th),
         NEW t \in Tasks, NEW p, NEW q \in Locations, p # q, IsAt(t, p), Goes(t, p, q),
         NEW x, x \in Stages(q[1]), x # "none", stage[t] # "none",
         stage' = [stage EXCEPT ![t] = x], UNCHANGED parent,
         pc'[th] = "send_results" => hand'[th] = t
  PROVE  PlaceInv'
<1>1. stage'[t] = x /\ \A u \in Tasks : u # t => stage'[u] = stage[u]
  BY DEF ShapeInv, AppTypes
<1>2. parent[t] \in Creators
  BY DEF PlaceInv, Parented
<1>3. Parented(t)'
  BY <1>1, <1>2 DEF Parented, Same
<1> QED BY <1>1, <1>2, <1>3, PlaceStep

LEMMA ReceiveArgumentsPlace ==
  ASSUME ShapeInv, Same, PlaceInv, NEW th \in Threads, ReceiveArguments(th), UNCHANGED bvars,
         th \in Workers => Head(chan[peer[th][1]][th[1]][peer[th][2]]).type = "argument"
  PROVE  PlaceInv'
<1>1. PICK n \in Nodes, tag \in Tags : n = peer[th][1] /\ tag = peer[th][2]
  BY Now
<1>2. PICK t \in Tasks : t = hand[th]
  <2>1. pc[th] \in {"held_args", "held_args_private"}
    BY DEF ReceiveArguments
  <2>2. pc[th] = "held_args"
    <3>1. CASE th \in Workers
      BY <2>1, <3>1, Now DEF WorkerFits, SearchPlaces, InApplication
    <3>2. CASE th \in Servers
      BY <2>1, <3>2, Now DEF ServerFits, ServerPlaces
    <3> QED BY <3>1, <3>2, ServerFacts DEF ShapeInv
  <2> QED BY <2>2, Now DEF WithTask
<1>3. /\ ShapeInv' /\ Alone(th) /\ pc[th] = "held_args"
      /\ chan[n][th[1]][tag] # <<>> /\ Take(n, th[1], tag) /\ UNCHANGED peer
      /\ \/ /\ th \in Workers
            /\ pc'[th] = "execute" /\ hand'[th] = t /\ UNCHANGED Queues
         \/ th \in Servers /\ tag \in WorkerVps /\ \E b \in BOOLEAN : Enqueued(th, t, b)
  BY <1>1, <1>2, ReceiveArgumentsShape
<1>4. /\ ThreadsFit /\ SetupInv /\ th[1] \in Nodes /\ UNCHANGED <<stage, parent>>
      /\ KindOf(pc[th]) = "hand" /\ "hand" \in Kinds
  BY <1>3, Now DEF ShapeInv, ReceiveArguments, Application, KindOf, Carrying, Kinds
<1>5. IsAt(t, <<"hand", th>>) /\ stage[t] = "spawned"
  BY <1>2, <1>4, FoundInHand DEF Stages
<1>6. PICK msg : msg = Head(chan[n][th[1]][tag])
  OBVIOUS
<1>7. msg.type \notin CarryTypes \cup {"answer"}
  <2>1. CASE th \in Workers
    BY ZenonT(30), <1>1, <1>6, <2>1 DEF CarryTypes
  <2>2. CASE tag \in WorkerVps
    <3>1. Legal(tag, msg)
      BY <1>3, <1>4, <1>6, HeadCounts
    <3> QED BY <2>2, <3>1 DEF Legal, CarryTypes
  <2> QED BY SMTT(30), <1>3, <2>1, <2>2
<1>8. /\ MailGoes(NoTask, 0, 0)
      /\ \A q : q[1] \in {"public", "private", "hand"} => MailGoes(t, <<"hand", th>>, q)
  <2>1. NoTask \notin Tasks
    BY NodeCommAssumption
  <2>2. MailGoes(NoTask, 0, 0)
    BY <1>3, <1>4, <1>6, <1>7, <2>1, MailOut
  <2>3. ASSUME NEW q, q[1] \in {"public", "private", "hand"} PROVE MailGoes(t, <<"hand", th>>, q)
    BY <1>3, <1>4, <1>6, <1>7, <2>3, MailOut
  <2> QED BY <2>2, <2>3
<1>9. CASE th \in Workers /\ pc'[th] = "execute" /\ hand'[th] = t /\ UNCHANGED Queues
  <2>1. KindOf(pc'[th]) = "hand"
    BY <1>9 DEF KindOf, Carrying
  <2>2. TasksStay(th)
    BY <1>2, <1>4, <1>8, <1>9, <2>1 DEF TasksStay, Queues
  <2> QED BY <1>3, <2>2, QuietStep
<1>10. CASE th \in Servers /\ \E b \in BOOLEAN : Enqueued(th, t, b)
  <2>1. PICK b \in BOOLEAN : Enqueued(th, t, b)
    BY <1>10
  <2> QED BY <1>2, <1>3, <1>4, <1>5, <1>8, <1>10, <2>1, EnqueuedPlace
<1> QED BY <1>3, <1>9, <1>10

LEMMA ExecutePlace ==
  ASSUME ShapeInv, Same, PlaceInv, NEW th \in Threads, Execute(th), UNCHANGED bvars
  PROVE  PlaceInv'
<1> DEFINE from == <<"hand", th>>
           to == <<"run", th>>
<1>1. /\ ShapeInv' /\ Alone(th) /\ pc[th] = "execute" /\ pc'[th] = "run"
      /\ hand'[th] = hand[th] /\ hand[th] \in Tasks
  BY ExecuteShape
<1>2. PICK t \in Tasks : t = hand[th]
  BY <1>1
<1>3. /\ KindOf(pc[th]) = "hand" /\ KindOf(pc'[th]) = "run" /\ "hand" \in Kinds /\ "run" \in Kinds
      /\ "hand" # "run" /\ to \in Locations /\ "public" \notin Kinds /\ "private" \notin Kinds
      /\ "active" \in Stages(to[1])
  BY <1>1 DEF KindOf, Carrying, Kinds, Locations, Stages
<1>4. IsAt(t, from) /\ stage[t] = "spawned"
  BY <1>2, <1>3, FoundInHand DEF Stages
<1>5. UNCHANGED <<public, private, chan, parent>> /\ ThreadsFit /\ stage' = [stage EXCEPT ![t] = "active"]
  BY <1>2 DEF Execute, Queues, Application, ShapeInv
<1>6. QueueGoes(public, public', "public", t, from, to) /\ QueueGoes(private, private', "private", t, from, to)
  BY <1>5, QueueSame
<1>7. MailGoes(t, from, to)
  BY <1>5, MailSame
<1>8. HandGoes(t, from, to)
  BY <1>1, <1>2, <1>3, <1>5, HandMoves
<1>9. Goes(t, from, to) /\ from # to
  BY <1>6, <1>7, <1>8 DEF Goes
<1> QED BY <1>1, <1>3, <1>4, <1>5, <1>9, StagePlace

LEMMA ReturnHomePlace ==
  ASSUME ShapeInv, Same, PlaceInv, NEW th \in Threads, ReturnHome(th), UNCHANGED bvars
  PROVE  PlaceInv'
<1> DEFINE from == <<"run", th>>
           to == <<"nowhere", 0>>
<1>1. PICK t \in Tasks : t = hand[th]
  BY AtHome DEF ReturnHome
<1>2. /\ ShapeInv' /\ Alone(th) /\ pc[th] = "run" /\ pc'[th] \in {"serve", "wait", "poll"}
  BY <1>1, ReturnHomeShape
<1>3. /\ KindOf(pc[th]) = "run" /\ KindOf(pc'[th]) = "none" /\ "run" \in Kinds /\ "nowhere" \notin Kinds
      /\ to \in Locations /\ "done" \in Stages(to[1])
  BY <1>2 DEF KindOf, Carrying, Kinds, Locations, Stages
<1>4. IsAt(t, from) /\ stage[t] = "active"
  BY <1>1, <1>2, AtHome
<1>5. UNCHANGED <<public, private, chan, parent>> /\ ThreadsFit /\ stage' = [stage EXCEPT ![t] = "done"]
  BY <1>1 DEF ReturnHome, Queues, ShapeInv
<1>6. QueueGoes(public, public', "public", t, from, to) /\ QueueGoes(private, private', "private", t, from, to)
  BY <1>5, QueueSame
<1>7. MailGoes(t, from, to)
  BY <1>5, MailSame
<1>8. HandGoes(t, from, to)
  BY <1>1, <1>2, <1>3, <1>5, HandMoves
<1>9. Goes(t, from, to) /\ from # to
  BY <1>6, <1>7, <1>8 DEF Goes
<1> QED BY <1>2, <1>3, <1>4, <1>5, <1>9, StagePlace

LEMMA SendAnswerPlace ==
  ASSUME ShapeInv, Same, PlaceInv, NEW th \in Threads, SendAnswer(th), UNCHANGED bvars
  PROVE  PlaceInv'
<1>1. PICK t \in Tasks, h \in Nodes : t = hand[th] /\ h = Home(t)
  BY AtHome DEF SendAnswer
<1> DEFINE from == <<"run", th>>
           to == <<"answer", <<th[1], h>>>>
<1>2. /\ ShapeInv' /\ Alone(th) /\ pc[th] = "run"
      /\ \E msg \in Messages(MaxNvps) : /\ msg.type = "answer" /\ msg.body = t
                                        /\ Post(th[1], h, MaxNvps, msg)
      /\ \/ pc'[th] \in {"serve", "wait", "poll"}
         \/ hand'[th] = t /\ pc'[th] = "send_results"
  BY <1>1, SendAnswerShape
<1>3. PICK msg \in Messages(MaxNvps) : msg.type = "answer" /\ msg.body = t /\ Post(th[1], h, MaxNvps, msg)
  BY <1>2
<1>4. IsAt(t, from) /\ stage[t] = "active"
  BY <1>1, <1>2, AtHome
<1>5. /\ UNCHANGED <<public, private, parent>> /\ ThreadsFit /\ stage' = [stage EXCEPT ![t] = "returned"]
      /\ th[1] \in Nodes /\ MaxNvps \in Tags
  BY <1>1, Now, TagFacts DEF SendAnswer, Queues, ShapeInv, Application
<1>6. /\ KindOf(pc[th]) = "run" /\ KindOf(pc'[th]) = "none" /\ "run" \in Kinds /\ "answer" \notin Kinds
      /\ to \in Locations /\ "returned" \in Stages(to[1]) /\ (pc'[th] = "send_results" => hand'[th] = t)
  BY <1>2, <1>5 DEF KindOf, Carrying, Kinds, Locations, Stages
<1>7. QueueGoes(public, public', "public", t, from, to) /\ QueueGoes(private, private', "private", t, from, to)
  BY <1>5, QueueSame
<1>8. MailGoes(t, from, to)
  BY <1>3, <1>5, MailIn
<1>9. HandGoes(t, from, to)
  BY <1>1, <1>2, <1>5, <1>6, HandMoves
<1>10. Goes(t, from, to) /\ from # to
  BY <1>7, <1>8, <1>9 DEF Goes
<1> QED BY <1>2, <1>4, <1>5, <1>6, <1>10, StagePlace

LEMMA ServeEnqueuePlace ==
  ASSUME ShapeInv, Same, PlaceInv, NEW s \in Servers, NEW n \in Nodes,
         NEW type \in {"enqueue", "enqueue_private"}, ServeEnqueue(s, n, type), UNCHANGED bvars
  PROVE  PlaceInv'
<1>1. PICK msg : msg = Head(chan[n][s[1]][MaxNvps])
  OBVIOUS
<1>2. PICK t : t = msg.body
  OBVIOUS
<1>3. /\ ShapeInv' /\ Alone(s) /\ s \in Threads /\ t \in Tasks
      /\ \/ /\ public' = [public EXCEPT ![s[1]] = <<t>> \o @]
            /\ UNCHANGED <<pc, hand, peer, private>>
         \/ UNCHANGED peer /\ \E b \in BOOLEAN : Enqueued(s, t, b)
         \/ pc'[s] = "get_args" /\ hand'[s] = t /\ UNCHANGED Queues
  BY <1>1, <1>2, ServeEnqueueShape
<1>4. /\ ThreadsFit /\ s[1] \in Nodes /\ pc[s] = "serve" /\ MaxNvps \in Tags /\ QueueTypes
      /\ msg.type = type /\ chan[n][s[1]][MaxNvps] # <<>> /\ Take(n, s[1], MaxNvps)
      /\ UNCHANGED <<stage, parent>>
  BY <1>1, ServesEffect DEF ServeEnqueue, Application, ShapeInv
<1>5. msg.type \in CarryTypes
  BY <1>4 DEF CarryTypes
<1> DEFINE from == <<"moves", <<n, s[1], MaxNvps>>>>
<1>6. IsAt(t, from) /\ stage[t] = "spawned"
  BY SMTT(30), <1>1, <1>2, <1>4, <1>5, FoundInMail
<1>7. \A q : q[1] \in {"public", "private", "hand"} => MailGoes(t, from, q)
  <2> SUFFICES ASSUME NEW q, q[1] \in {"public", "private", "hand"} PROVE MailGoes(t, from, q)
    OBVIOUS
  <2>1. q[1] \notin {"moves", "answer"}
    OBVIOUS
  <2> QED BY <1>1, <1>2, <1>3, <1>4, <1>5, <2>1, MailOut
<1>8. /\ KindOf(pc[s]) = "none" /\ "hand" \in Kinds /\ "moves" \notin Kinds /\ "public" \notin Kinds
      /\ <<"hand", s>> \in Locations /\ <<"public", s[1]>> \in Locations
  BY <1>3, <1>4 DEF KindOf, Carrying, Kinds, Locations
<1>9. CASE public' = [public EXCEPT ![s[1]] = <<t>> \o @] /\ UNCHANGED <<pc, hand, peer, private>>
  <2> DEFINE to == <<"public", s[1]>>
  <2>1. QueueGoes(public, public', "public", t, from, to)
    BY <1>3, <1>4, <1>9, QueueIn DEF QueueTypes
  <2>2. QueueGoes(private, private', "private", t, from, to)
    BY <1>9, QueueSame
  <2>3. HandGoes(t, from, to)
    BY <1>3, <1>4, <1>8, <1>9, HandMoves
  <2>4. Goes(t, from, to) /\ from # to
    BY <1>7, <2>1, <2>2, <2>3 DEF Goes
  <2>5. pc'[s] # "send_results"
    BY <1>4, <1>9
  <2> QED BY <1>3, <1>4, <1>6, <1>8, <2>4, <2>5, MovePlace
<1>10. CASE UNCHANGED peer /\ \E b \in BOOLEAN : Enqueued(s, t, b)
  <2>1. PICK b \in BOOLEAN : Enqueued(s, t, b)
    BY <1>10
  <2> QED BY <1>3, <1>4, <1>6, <1>7, <1>8, <1>10, <2>1, EnqueuedPlace
<1>11. CASE pc'[s] = "get_args" /\ hand'[s] = t /\ UNCHANGED Queues
  <2> DEFINE to == <<"hand", s>>
  <2>1. QueueGoes(public, public', "public", t, from, to) /\ QueueGoes(private, private', "private", t, from, to)
    BY <1>11, QueueSame DEF Queues
  <2>2. KindOf(pc'[s]) = "hand" /\ pc'[s] # "send_results"
    BY <1>11 DEF KindOf, Carrying
  <2>3. HandGoes(t, from, to)
    BY <1>3, <1>4, <1>8, <1>11, <2>2, HandMoves
  <2>4. Goes(t, from, to) /\ from # to
    BY <1>7, <2>1, <2>3 DEF Goes
  <2> QED BY <1>3, <1>4, <1>6, <1>8, <2>2, <2>4, MovePlace
<1> QED BY <1>3, <1>9, <1>10, <1>11

LEMMA ServeAnswerPlace ==
  ASSUME ShapeInv, Same, PlaceInv, NEW s \in Servers, NEW n \in Nodes, ServeAnswer(s, n), UNCHANGED bvars
  PROVE  PlaceInv'
<1>1. PICK msg : msg = Head(chan[n][s[1]][MaxNvps])
  OBVIOUS
<1>2. PICK t : t = msg.body
  OBVIOUS
<1>3. /\ ShapeInv' /\ Alone(s) /\ s \in Threads /\ t \in Tasks
      /\ \/ ResMsgs = 0 /\ DepSatisfy(t) /\ UNCHANGED <<pc, hand, peer>>
         \/ /\ ResMsgs # 0 /\ UNCHANGED <<ndep, stage>>
            /\ pc'[s] = "get_results" /\ hand'[s] = t
  BY <1>1, <1>2, ServeAnswerShape
<1>4. /\ ThreadsFit /\ s[1] \in Nodes /\ pc[s] = "serve" /\ MaxNvps \in Tags
      /\ msg.type = "answer" /\ chan[n][s[1]][MaxNvps] # <<>> /\ Take(n, s[1], MaxNvps)
      /\ UNCHANGED <<parent, public, private>>
  BY <1>1, ServesEffect DEF ServeAnswer, Queues, ShapeInv
<1> DEFINE from == <<"answer", <<n, s[1]>>>>
<1>6. IsAt(t, from) /\ stage[t] = "returned"
  BY <1>1, <1>2, <1>4, FoundAnswer
<1>7. \A q : q[1] \notin {"moves", "answer"} => MailGoes(t, from, q)
  BY <1>1, <1>2, <1>3, <1>4, MailOut
<1>8. \A q : q[1] \notin {"public", "private"} =>
        QueueGoes(public, public', "public", t, from, q) /\ QueueGoes(private, private', "private", t, from, q)
  BY <1>4, QueueSame
<1>9. KindOf(pc[s]) = "none" /\ "results" \in Kinds /\ "answer" \notin Kinds /\ "nowhere" \notin Kinds
  BY <1>4 DEF KindOf, Carrying, Kinds
<1>10. CASE DepSatisfy(t) /\ UNCHANGED <<pc, hand, peer>>
  <2> DEFINE to == <<"nowhere", 0>>
  <2>1. HandGoes(t, from, to)
    BY <1>3, <1>4, <1>9, <1>10, HandMoves
  <2>2. Goes(t, from, to) /\ from # to
    BY <1>7, <1>8, <2>1 DEF Goes
  <2>3. to \in Locations /\ "done" \in Stages(to[1]) /\ pc'[s] # "send_results"
    BY <1>4, <1>10 DEF Locations, Stages
  <2>4. stage' = [stage EXCEPT ![t] = "done"]
    BY <1>10 DEF DepSatisfy
  <2> QED BY <1>3, <1>4, <1>6, <2>2, <2>3, <2>4, StagePlace
<1>11. CASE UNCHANGED <<ndep, stage>> /\ pc'[s] = "get_results" /\ hand'[s] = t
  <2> DEFINE to == <<"results", s>>
  <2>1. KindOf(pc'[s]) = "results"
    BY <1>11 DEF KindOf
  <2>2. HandGoes(t, from, to)
    BY <1>3, <1>4, <1>9, <1>11, <2>1, HandMoves
  <2>3. Goes(t, from, to) /\ from # to
    BY <1>7, <1>8, <2>2 DEF Goes
  <2>4. to \in Locations /\ "returned" \in Stages(to[1]) /\ pc'[s] # "send_results"
    BY <1>3, <1>11 DEF Locations, Stages, Kinds
  <2>5. stage' = [stage EXCEPT ![t] = "returned"]
    BY <1>6, <1>11 DEF ShapeInv, AppTypes
  <2> QED BY ZenonT(30), <1>3, <1>4, <1>6, <2>3, <2>4, <2>5, StagePlace
<1> QED BY <1>3, <1>10, <1>11

LEMMA ReceiveResultsPlace ==
  ASSUME ShapeInv, Same, PlaceInv, NEW s \in Servers, ReceiveResults(s), UNCHANGED bvars
  PROVE  PlaceInv' /\ hand[s] \in Tasks /\ stage[hand[s]] = "returned"
<1> DEFINE from == <<"results", s>>
           to == <<"nowhere", 0>>
<1>0. s \in Threads
  BY ServerFacts DEF ShapeInv
<1>1. PICK n \in Nodes, tag \in Tags, t \in Tasks : n = peer[s][1] /\ tag = peer[s][2] /\ t = hand[s]
  BY <1>0, Now DEF ReceiveResults, WithTask
<1>2. /\ ShapeInv' /\ Alone(s) /\ pc[s] = "get_results" /\ tag \in WorkerVps
      /\ chan[n][s[1]][tag] # <<>> /\ Take(n, s[1], tag) /\ DepSatisfy(t)
      /\ pc'[s] = "serve" /\ hand'[s] = NoTask
  BY <1>1, ReceiveResultsShape
<1>3. /\ KindOf(pc[s]) = "results" /\ KindOf(pc'[s]) = "none" /\ "results" \in Kinds /\ "nowhere" \notin Kinds
      /\ to \in Locations /\ "done" \in Stages(to[1])
  BY <1>2 DEF KindOf, Carrying, Kinds, Locations, Stages
<1>4. IsAt(t, from) /\ stage[t] = "returned"
  BY <1>0, <1>1, <1>3, FoundInHand DEF Stages
<1>5. UNCHANGED <<public, private, parent>> /\ ThreadsFit /\ stage' = [stage EXCEPT ![t] = "done"] /\ s[1] \in Nodes
  BY <1>0, <1>2, Now DEF ReceiveResults, DepSatisfy, Queues, ShapeInv
<1>6. QueueGoes(public, public', "public", t, from, to) /\ QueueGoes(private, private', "private", t, from, to)
  BY <1>5, QueueSame
<1>7. MailGoes(t, from, to)
  <2>1. PICK msg : msg = Head(chan[n][s[1]][tag])
    OBVIOUS
  <2>2. msg.type \notin CarryTypes \cup {"answer"}
    <3>1. Legal(tag, msg)
      BY <1>2, <1>5, <2>1, HeadCounts
    <3> QED BY <1>2, <3>1 DEF Legal, CarryTypes
  <2> QED BY <1>2, <1>5, <2>1, <2>2, MailOut
<1>8. HandGoes(t, from, to)
  BY <1>0, <1>1, <1>2, <1>3, <1>5, HandMoves
<1>9. Goes(t, from, to) /\ from # to
  BY <1>6, <1>7, <1>8 DEF Goes
<1>10. PlaceInv'
  BY <1>0, <1>2, <1>3, <1>4, <1>5, <1>9, StagePlace
<1> QED BY <1>1, <1>4, <1>10

LEMMA ServeStealPlace ==
  ASSUME ShapeInv, Same, PlaceInv, NEW s \in Servers, NEW n \in Nodes, ServeSteal(s, n), UNCHANGED bvars
  PROVE  PlaceInv'
<1>1. PICK msg : msg = Head(chan[n][s[1]][MaxNvps])
  OBVIOUS
<1>2. /\ ShapeInv' /\ Alone(s) /\ s \in Threads /\ pc[s] = "serve" /\ UNCHANGED private
      /\ msg.type = "steal" /\ pc'[s] = "reply"
      /\ \/ public[s[1]] = <<>> /\ hand'[s] = NoTask /\ UNCHANGED public
         \/ /\ public[s[1]] # <<>> /\ hand'[s] = Head(public[s[1]]) /\ hand'[s] \in Tasks
            /\ public' = [public EXCEPT ![s[1]] = Tail(public[s[1]])]
  BY <1>1, ServeStealShape
<1>3. /\ ThreadsFit /\ s[1] \in Nodes /\ MaxNvps \in Tags /\ QueueTypes /\ NoTask \notin Tasks
      /\ chan[n][s[1]][MaxNvps] # <<>> /\ Take(n, s[1], MaxNvps)
      /\ UNCHANGED <<stage, parent>>
  BY <1>1, ServesEffect, NodeCommAssumption DEF ServeSteal, Application, ShapeInv
<1>4. msg.type \notin CarryTypes \cup {"answer"}
  BY <1>2 DEF CarryTypes
<1>5. /\ KindOf(pc[s]) = "none" /\ KindOf(pc'[s]) = "hand" /\ "hand" \in Kinds /\ "public" \notin Kinds
      /\ <<"hand", s>> \in Locations /\ pc'[s] # "send_results"
  BY <1>2 DEF KindOf, Carrying, Kinds, Locations
<1>6. CASE hand'[s] = NoTask /\ UNCHANGED public
  <2>1. MailGoes(NoTask, 0, 0)
    BY <1>1, <1>3, <1>4, MailOut
  <2>2. QueueGoes(public, public', "public", NoTask, 0, 0) /\ QueueGoes(private, private', "private", NoTask, 0, 0)
    BY <1>2, <1>3, <1>6, QueueSame
  <2>3. HandGoes(NoTask, 0, 0)
    BY <1>2, <1>3, <1>5, <1>6, HandEmpty
  <2>4. Goes(NoTask, 0, 0)
    BY <2>1, <2>2, <2>3 DEF Goes
  <2> QED BY <1>2, <1>3, <1>5, <2>4, PlaceStep
<1>7. CASE public[s[1]] # <<>> /\ public' = [public EXCEPT ![s[1]] = Tail(public[s[1]])]
           /\ hand'[s] = Head(public[s[1]])
  <2> DEFINE from == <<"public", s[1]>>
             to == <<"hand", s>>
  <2>1. PICK t : t = Head(public[s[1]])
    OBVIOUS
  <2>2. t \in Tasks /\ IsAt(t, from) /\ stage[t] = "spawned"
    BY <1>3, <1>7, <2>1, FoundInQueue
  <2>3. QueueGoes(public, public', "public", t, from, to)
    BY <1>3, <1>7, <2>1, <2>2, QueueOut DEF QueueTypes
  <2>4. QueueGoes(private, private', "private", t, from, to)
    BY <1>2, QueueSame
  <2>5. MailGoes(t, from, to)
    BY <1>1, <1>3, <1>4, MailOut
  <2>6. HandGoes(t, from, to)
    BY <1>2, <1>3, <1>5, <1>7, <2>1, HandMoves
  <2>7. Goes(t, from, to) /\ from # to
    BY <2>3, <2>4, <2>5, <2>6 DEF Goes
  <2> QED BY <1>2, <1>3, <1>5, <2>2, <2>7, MovePlace
<1> QED BY <1>2, <1>6, <1>7

LEMMA ServePrefetchPlace ==
  ASSUME ShapeInv, Same, PlaceInv, NEW s \in Servers, NEW n \in Nodes, ServePrefetch(s, n), UNCHANGED bvars
  PROVE  PlaceInv'
<1>1. PICK msg : msg = Head(chan[n][s[1]][MaxNvps])
  OBVIOUS
<1>2. /\ ShapeInv' /\ Alone(s) /\ s \in Threads /\ pc[s] = "serve" /\ UNCHANGED private
      /\ \/ UNCHANGED <<public, pc, hand, peer>>
         \/ /\ public[s[1]] # <<>> /\ hand'[s] = Head(public[s[1]]) /\ hand'[s] \in Tasks
            /\ public' = [public EXCEPT ![s[1]] = Tail(public[s[1]])] /\ pc'[s] = "push"
  BY ServePrefetchShape
<1>3. /\ ThreadsFit /\ s[1] \in Nodes /\ MaxNvps \in Tags /\ QueueTypes /\ NoTask \notin Tasks
      /\ chan[n][s[1]][MaxNvps] # <<>> /\ Take(n, s[1], MaxNvps) /\ msg.type = "prefetch"
      /\ UNCHANGED <<stage, parent>>
  BY <1>1, ServesEffect, NodeCommAssumption DEF ServePrefetch, Application, ShapeInv
<1>4. msg.type \notin CarryTypes \cup {"answer"}
  BY <1>3 DEF CarryTypes
<1>5. /\ KindOf("serve") = "none" /\ KindOf("push") = "hand" /\ "hand" \in Kinds /\ "public" \notin Kinds
      /\ <<"hand", s>> \in Locations
  BY <1>2 DEF KindOf, Carrying, Kinds, Locations
<1>6. CASE UNCHANGED <<public, pc, hand, peer>>
  <2>1. MailGoes(NoTask, 0, 0)
    BY <1>1, <1>3, <1>4, MailOut
  <2> QED BY <1>2, <1>3, <1>6, <2>1, QuietStep DEF TasksStay
<1>7. CASE public[s[1]] # <<>> /\ public' = [public EXCEPT ![s[1]] = Tail(public[s[1]])]
           /\ hand'[s] = Head(public[s[1]]) /\ pc'[s] = "push"
  <2> DEFINE from == <<"public", s[1]>>
             to == <<"hand", s>>
  <2>1. PICK t : t = Head(public[s[1]])
    OBVIOUS
  <2>2. t \in Tasks /\ IsAt(t, from) /\ stage[t] = "spawned"
    BY <1>3, <1>7, <2>1, FoundInQueue
  <2>3. QueueGoes(public, public', "public", t, from, to)
    BY <1>3, <1>7, <2>1, <2>2, QueueOut DEF QueueTypes
  <2>4. QueueGoes(private, private', "private", t, from, to)
    BY <1>2, QueueSame
  <2>5. MailGoes(t, from, to)
    BY <1>1, <1>3, <1>4, MailOut
  <2>6. HandGoes(t, from, to)
    BY <1>2, <1>3, <1>5, <1>7, <2>1, HandMoves
  <2>7. Goes(t, from, to) /\ from # to
    BY <2>3, <2>4, <2>5, <2>6 DEF Goes
  <2>8. pc'[s] # "send_results"
    BY <1>7
  <2> QED BY <1>2, <1>3, <1>5, <2>2, <2>7, <2>8, MovePlace
<1> QED BY <1>2, <1>6, <1>7

(* A step of a thread that neither gets a task nor loses one: at most a    *)
(* message of another kind is sent or taken.                               *)
OtherMail ==
  \/ UNCHANGED chan
  \/ \E n \in Nodes, m \in Nodes, tag \in Tags : \E msg \in Messages(tag) :
       msg.type \notin CarryTypes \cup {"answer"} /\ Post(n, m, tag, msg)
  \/ \E n \in Nodes, m \in Nodes, tag \in Tags :
       /\ chan[n][m][tag] # <<>> /\ Take(n, m, tag)
       /\ Head(chan[n][m][tag]).type \notin CarryTypes \cup {"answer"}

NoHand == {"app", "send_args", "switch", "bcast", "offer", "ssend", "wait", "poll", "repoll", "ask",
           "reask", "await", "reawait", "held", "reheld", "serve", "get_data"}

LEMMA PlaceStays ==
  ASSUME ShapeInv, ShapeInv', Same, PlaceInv, NEW th \in Threads, Alone(th),
         UNCHANGED <<public, private, stage, parent>>, OtherMail,
         pc[th] \in NoHand \cup {"send_results"}, pc'[th] \in NoHand
  PROVE  PlaceInv'
<1>1. KindOf(pc[th]) = "none" /\ KindOf(pc'[th]) = "none" /\ pc'[th] # "send_results"
  BY DEF NoHand, KindOf, Carrying
<1>2. NoTask \notin Tasks
  BY NodeCommAssumption
<1>3. MailGoes(NoTask, 0, 0)
  <2>1. CASE UNCHANGED chan
    BY <1>2, <2>1, MailSame
  <2>2. ASSUME NEW n \in Nodes, NEW m \in Nodes, NEW tag \in Tags, NEW msg \in Messages(tag),
               msg.type \notin CarryTypes \cup {"answer"}, Post(n, m, tag, msg)
        PROVE  MailGoes(NoTask, 0, 0)
    BY <1>2, <2>2, MailIn
  <2>3. ASSUME NEW n \in Nodes, NEW m \in Nodes, NEW tag \in Tags,
               chan[n][m][tag] # <<>>, Take(n, m, tag),
               Head(chan[n][m][tag]).type \notin CarryTypes \cup {"answer"}
        PROVE  MailGoes(NoTask, 0, 0)
    <3>1. PICK msg : msg = Head(chan[n][m][tag])
      OBVIOUS
    <3> QED BY <1>2, <2>3, <3>1, MailOut
  <2> QED BY <2>1, <2>2, <2>3 DEF OtherMail
<1> QED BY <1>1, <1>3, QuietStep DEF TasksStay

(* A thread that is somewhere else afterwards.                             *)
LEMMA WentTo ==
  ASSUME ShapeInv, NEW th \in Threads, NEW q, Goto(th, q)
  PROVE  pc'[th] = q
BY DEF ShapeInv, ThreadsFit, Goto

LEMMA PlaceInit ==
  ASSUME ClusterInit, PayloadsApart
  PROVE  PlaceInv
<1>1. ShapeInv /\ SetupInv
  BY ShapeInit DEF ShapeInv
<1>2. /\ chan = [n \in Nodes |-> [m \in Nodes |-> [tag \in Tags |-> <<>>]]]
      /\ public = [n \in Nodes |-> <<>>] /\ private = [n \in Nodes |-> <<>>]
      /\ hand = [th \in Threads |-> NoTask] /\ parent = [t \in Tasks |-> NoThread]
      /\ stage = [t \in Tasks |-> "none"] /\ MaxNvps \in Tags /\ NoTask \notin Tasks
  BY <1>1, TagFacts, NodeCommAssumption DEF ClusterInit, Init
<1>3. ASSUME NEW t \in Tasks PROVE IsAt(t, <<"nowhere", 0>>)
  <2> DEFINE p == <<"nowhere", 0>>
  <2>0. /\ \A x : p # <<"public", x>> /\ p # <<"private", x>> /\ p # <<"moves", x>> /\ p # <<"answer", x>>
        /\ \A kind \in Kinds : \A x : p # <<kind, x>>
    BY DEF Kinds
  <2>1. /\ \A n \in Nodes : Num(public[n], {t}) = 0 /\ Num(private[n], {t}) = 0
        /\ \A n \in Nodes, m \in Nodes, tag \in Tags : \A M : Num(chan[n][m][tag], M) = 0
    BY <1>2, NumEmpty
  <2>2. \A th \in Threads, kind \in Kinds : ~Has(th, t, kind)
    BY <1>2 DEF Has
  <2> HIDE DEF p
  <2>3. IsAt(t, p)
    BY <1>2, <2>0, <2>1, <2>2 DEF IsAt, One
  <2> QED BY <2>3 DEF p
<1>4. <<"nowhere", 0>> \in Locations /\ "none" \in Stages("nowhere")
  BY DEF Locations, Stages
<1>5. \A t \in Tasks : Placed(t) /\ Parented(t)
  BY <1>2, <1>3, <1>4 DEF Placed, Parented
<1>6. \A th \in Threads : pc[th] # "send_results"
  BY <1>1 DEF ClusterInit, Init
<1> QED BY <1>5, <1>6 DEF PlaceInv

LEMMA WaitPlace ==
  ASSUME ShapeInv, Same, PlaceInv, NEW c \in Creators, UNCHANGED bvars,
         WaitAll(c) \/ Joined(c) \/ NotYet(c)
  PROVE  PlaceInv'
<1>1. ShapeInv' /\ Alone(c) /\ c \in Threads
  BY WaitShape
<1>2. UNCHANGED <<public, private, stage, parent>> /\ UNCHANGED chan
  BY DEF WaitAll, Joined, NotYet, Queues, Application
<1>3. pc[c] \in NoHand /\ \E q \in {"wait", "app", "poll"} : Goto(c, q)
  BY DEF WaitAll, Joined, NotYet, NoHand
<1>4. pc'[c] \in NoHand
  BY <1>1, <1>3, WentTo DEF NoHand
<1> QED BY <1>1, <1>2, <1>3, <1>4, PlaceStays DEF OtherMail

LEMMA SwitchCallPlace ==
  ASSUME ShapeInv, Same, PlaceInv, NEW c \in Creators, NEW call \in SwitchCalls \cup LocalCalls,
         SwitchCall(c, call), UNCHANGED bvars
  PROVE  PlaceInv'
<1>1. ShapeInv' /\ Alone(c) /\ c \in Threads
  BY SwitchCallShape
<1>2. UNCHANGED <<public, private, stage, parent>> /\ UNCHANGED chan /\ pc[c] = "app"
      /\ (UNCHANGED pc \/ Goto(c, "switch"))
  BY DEF SwitchCall, Queues, Application
<1>3. pc[c] \in NoHand /\ pc'[c] \in NoHand
  BY <1>1, <1>2, WentTo DEF NoHand
<1> QED BY <1>1, <1>2, <1>3, PlaceStays DEF OtherMail

LEMMA SendSwitchPlace ==
  ASSUME ShapeInv, Same, PlaceInv, NEW c \in Creators, SendSwitch(c), UNCHANGED bvars
  PROVE  PlaceInv'
<1>1. /\ ShapeInv' /\ Alone(c) /\ c \in Threads /\ pc'[c] \in {"switch", "app"}
      /\ \/ UNCHANGED chan
         \/ \E n \in Nodes, msg \in Messages(MaxNvps) :
              msg.type \in SwitchCalls /\ Post(c[1], n, MaxNvps, msg)
  BY SendSwitchShape
<1>2. UNCHANGED <<public, private, stage, parent>> /\ pc[c] = "switch"
  BY DEF SendSwitch, Queues, Application
<1>3. pc[c] \in NoHand /\ pc'[c] \in NoHand
  BY <1>1, <1>2 DEF NoHand
<1>4. c[1] \in Nodes /\ MaxNvps \in Tags
  BY <1>1, Now, CountTypes
<1>5. OtherMail
  BY <1>1, <1>4 DEF OtherMail, SwitchCalls, CarryTypes
<1> QED BY <1>1, <1>2, <1>3, <1>5, PlaceStays

LEMMA PrefetchRequestPlace ==
  ASSUME ShapeInv, Same, PlaceInv, NEW w \in Workers, NEW n \in Nodes, PrefetchRequest(w, n),
         UNCHANGED bvars
  PROVE  PlaceInv'
<1>1. /\ ShapeInv' /\ Alone(w) /\ w \in Threads
      /\ \E msg \in Messages(MaxNvps) : msg.type = "prefetch" /\ Post(w[1], n, MaxNvps, msg)
  BY PrefetchRequestShape
<1>2. UNCHANGED <<public, private, stage, parent>> /\ pc[w] \in {"poll", "repoll"} /\ UNCHANGED pc
  BY DEF PrefetchRequest, Queues, Application
<1>3. pc[w] \in NoHand /\ pc'[w] \in NoHand
  BY <1>2 DEF NoHand
<1>4. w[1] \in Nodes /\ MaxNvps \in Tags
  BY <1>1, Now, CountTypes
<1>5. OtherMail
  BY <1>1, <1>4 DEF OtherMail, CarryTypes
<1> QED BY <1>1, <1>2, <1>3, <1>5, PlaceStays

LEMMA SearchPlace ==
  ASSUME ShapeInv, Same, PlaceInv, NEW w \in Workers, NothingHere(w) \/ HoldForReply(w), UNCHANGED bvars
  PROVE  PlaceInv'
<1>1. ShapeInv' /\ Alone(w) /\ w \in Threads
  BY SearchShape
<1>2. UNCHANGED <<public, private, stage, parent>> /\ UNCHANGED chan
  BY DEF NothingHere, HoldForReply, Queues, Application
<1>3. pc[w] \in NoHand /\ \E q \in {"wait", "repoll", "held", "reheld"} : Goto(w, q)
  BY DEF NothingHere, HoldForReply, AfterSearch, NoHand
<1>4. pc'[w] \in NoHand
  BY <1>1, <1>3, WentTo DEF NoHand
<1> QED BY <1>1, <1>2, <1>3, <1>4, PlaceStays DEF OtherMail

LEMMA StartRoundPlace ==
  ASSUME ShapeInv, Same, PlaceInv, NEW w \in Workers, StartRound(w), UNCHANGED bvars
  PROVE  PlaceInv'
<1>1. ShapeInv' /\ Alone(w) /\ w \in Threads /\ pc'[w] \in {"ask", "reask"}
  BY StartRoundShape
<1>2. UNCHANGED <<public, private, stage, parent>> /\ UNCHANGED chan /\ pc[w] \in {"poll", "repoll"}
  BY DEF StartRound, Queues, Application
<1>3. pc[w] \in NoHand /\ pc'[w] \in NoHand
  BY <1>1, <1>2 DEF NoHand
<1> QED BY <1>1, <1>2, <1>3, PlaceStays DEF OtherMail

LEMMA StealRequestPlace ==
  ASSUME ShapeInv, Same, PlaceInv, NEW w \in Workers, StealRequest(w), UNCHANGED bvars
  PROVE  PlaceInv'
<1>0. PICK k \in Nodes : k = peer[w][1]
  BY Now, WorkerFacts DEF ShapeInv
<1>1. /\ ShapeInv' /\ Alone(w) /\ w \in Threads /\ pc'[w] \in {"await", "reawait"}
      /\ \E msg \in Messages(MaxNvps) : msg.type = "steal" /\ Post(w[1], k, MaxNvps, msg)
  BY <1>0, StealRequestShape
<1>2. UNCHANGED <<public, private, stage, parent>> /\ pc[w] \in {"ask", "reask"}
  BY DEF StealRequest, Queues, Application
<1>3. pc[w] \in NoHand /\ pc'[w] \in NoHand
  BY <1>1, <1>2 DEF NoHand
<1>4. w[1] \in Nodes /\ MaxNvps \in Tags
  BY <1>1, Now, CountTypes
<1>5. OtherMail
  BY <1>1, <1>4 DEF OtherMail, CarryTypes
<1> QED BY <1>1, <1>2, <1>3, <1>5, PlaceStays

LEMMA SendArgumentsPlace ==
  ASSUME ShapeInv, Same, PlaceInv, NEW th \in Threads, SendArguments(th), UNCHANGED bvars
  PROVE  PlaceInv'
<1>0. PICK n \in Nodes, tag \in Tags : n = peer[th][1] /\ tag = peer[th][2]
  BY Now
<1>1. /\ ShapeInv' /\ Alone(th) /\ pc[th] = "send_args" /\ pc'[th] = AfterSend(th)
      /\ \E msg \in Messages(tag) : msg.type = "argument" /\ Post(th[1], n, tag, msg)
  BY <1>0, SendArgumentsShape
<1>2. UNCHANGED <<public, private, stage, parent>>
  BY DEF SendArguments, Queues, Application
<1>3. pc[th] \in NoHand /\ pc'[th] \in NoHand
  BY <1>1 DEF NoHand, AfterSend
<1>4. th[1] \in Nodes
  BY Now
<1>5. OtherMail
  BY <1>1, <1>4 DEF OtherMail, CarryTypes
<1> QED BY <1>1, <1>2, <1>3, <1>5, PlaceStays

LEMMA HoldForArgumentsPlace ==
  ASSUME ShapeInv, Same, PlaceInv, NEW th \in Threads, HoldForArguments(th), UNCHANGED bvars
  PROVE  PlaceInv'
<1>1. /\ ShapeInv' /\ Alone(th) /\ pc[th] = "get_args" /\ pc'[th] = "held_args"
      /\ hand'[th] = hand[th]
  BY HoldForArgumentsShape
<1>2. UNCHANGED <<public, private, stage, parent>> /\ UNCHANGED chan
  BY DEF HoldForArguments, Queues, Application
<1>3. KindOf(pc[th]) = "hand" /\ KindOf(pc'[th]) = "hand" /\ pc'[th] # "send_results"
  BY <1>1 DEF KindOf, Carrying
<1>4. MailGoes(NoTask, 0, 0)
  BY <1>2, NodeCommAssumption, MailSame
<1> QED BY <1>1, <1>2, <1>3, <1>4, QuietStep DEF TasksStay

LEMMA SendResultsPlace ==
  ASSUME ShapeInv, Same, PlaceInv, NEW th \in Threads, SendResults(th), UNCHANGED bvars
  PROVE  PlaceInv'
<1>0. PICK t \in Tasks, h \in Nodes : t = hand[th] /\ h = Home(t)
  BY Now, AtHome DEF SendResults
<1>1. /\ ShapeInv' /\ Alone(th) /\ pc[th] = "send_results" /\ pc'[th] \in {"wait", "poll"}
      /\ \E msg \in Messages(th[2]) : msg.type = "result" /\ Post(th[1], h, th[2], msg)
  BY <1>0, SendResultsShape
<1>2. UNCHANGED <<public, private, stage, parent>>
  BY DEF SendResults, Queues, Application
<1>3. pc[th] \in NoHand \cup {"send_results"} /\ pc'[th] \in NoHand
  BY <1>1 DEF NoHand
<1>4. th[1] \in Nodes /\ th[2] \in Tags
  BY Now, TagFacts DEF ShapeInv
<1>5. OtherMail
  BY <1>1, <1>4 DEF OtherMail, CarryTypes
<1> QED BY <1>1, <1>2, <1>3, <1>5, PlaceStays

LEMMA ServeSwitchPlace ==
  ASSUME ShapeInv, Same, PlaceInv, NEW s \in Servers, NEW n \in Nodes, NEW call \in SwitchCalls,
         ServeSwitch(s, n, call), UNCHANGED bvars
  PROVE  PlaceInv'
<1>1. ShapeInv' /\ Alone(s) /\ s \in Threads
  BY ServeSwitchShape
<1>2. UNCHANGED <<public, private, stage, parent>> /\ UNCHANGED pc /\ Serves(s, n, call)
  BY DEF ServeSwitch, Queues, Application
<1>3. PICK msg : msg = Head(chan[n][s[1]][MaxNvps])
  OBVIOUS
<1>4. /\ s[1] \in Nodes /\ pc[s] = "serve" /\ MaxNvps \in Tags /\ msg.type = call
      /\ chan[n][s[1]][MaxNvps] # <<>> /\ Take(n, s[1], MaxNvps)
  BY <1>2, <1>3, ServesEffect
<1>5. OtherMail
  BY <1>3, <1>4 DEF OtherMail, CarryTypes, SwitchCalls
<1>6. pc[s] \in NoHand /\ pc'[s] \in NoHand
  BY <1>2, <1>4 DEF NoHand
<1> QED BY <1>1, <1>2, <1>5, <1>6, PlaceStays

LEMMA BroadcastCallPlace ==
  ASSUME ShapeInv, Same, PlaceInv, NEW c \in Creators, NEW a \in Variables, NEW v \in Values,
         Broadcast(c, a, v)
  PROVE  PlaceInv'
<1>1. ShapeInv' /\ Alone(c) /\ c \in Threads /\ pc[c] = "app" /\ pc'[c] = "bcast"
  BY BroadcastCallShape
<1>2. UNCHANGED <<public, private, stage, parent>> /\ UNCHANGED chan
  BY DEF Broadcast, Queues, Application
<1> QED BY <1>1, <1>2, PlaceStays DEF OtherMail, NoHand

LEMMA NextNodePlace ==
  ASSUME ShapeInv, Same, PlaceInv, NEW c \in Creators, SkipOwn(c) \/ SsendDone(c)
  PROVE  PlaceInv'
<1>1. /\ ShapeInv' /\ Alone(c) /\ c \in Threads /\ pc[c] \in {"bcast", "ssend"}
      /\ pc'[c] \in {"bcast", "app"}
  BY SMTT(30), NextNodeShape
<1>2. UNCHANGED <<public, private, stage, parent>> /\ UNCHANGED chan
  BY ZenonT(30) DEF SkipOwn, SsendDone, Queues, Application
<1>3. pc[c] \in NoHand /\ pc'[c] \in NoHand
  BY <1>1 DEF NoHand
<1> QED BY <1>1, <1>2, <1>3, PlaceStays DEF OtherMail

LEMMA SendBroadcastPlace ==
  ASSUME ShapeInv, Same, PlaceInv, NEW c \in Creators, SendBroadcast(c)
  PROVE  PlaceInv'
<1>0. PICK n \in Nodes : n = peer[c][1]
  BY Now, WorkerFacts DEF ShapeInv
<1>1. /\ ShapeInv' /\ Alone(c) /\ c \in Threads /\ pc[c] = "bcast" /\ pc'[c] = "offer"
      /\ \E msg \in Messages(MaxNvps) : msg.type = "bcast" /\ Post(c[1], n, MaxNvps, msg)
  BY <1>0, SendBroadcastShape
<1>2. UNCHANGED <<public, private, stage, parent>>
  BY DEF SendBroadcast, Queues, Application
<1>3. c[1] \in Nodes /\ MaxNvps \in Tags
  BY <1>1, Now, CountTypes
<1>4. OtherMail
  BY <1>1, <1>3 DEF OtherMail, CarryTypes
<1> QED BY <1>1, <1>2, <1>4, PlaceStays DEF NoHand

LEMMA SsendPlace ==
  ASSUME ShapeInv, Same, PlaceInv, NEW c \in Creators, Ssend(c)
  PROVE  PlaceInv'
<1>0. PICK n \in Nodes : n = peer[c][1]
  BY Now, WorkerFacts DEF ShapeInv
<1>1. /\ ShapeInv' /\ Alone(c) /\ c \in Threads /\ pc[c] = "offer" /\ pc'[c] = "ssend"
      /\ \E msg \in Messages(c[2]) : msg.type = "data" /\ Post(c[1], n, c[2], msg)
  BY <1>0, SsendShape
<1>2. UNCHANGED <<public, private, stage, parent>>
  BY DEF Ssend, Queues, Application
<1>3. c[1] \in Nodes /\ c[2] \in Tags
  BY <1>1, Now, TagFacts DEF ShapeInv
<1>4. OtherMail
  BY <1>1, <1>3 DEF OtherMail, CarryTypes
<1> QED BY <1>1, <1>2, <1>4, PlaceStays DEF NoHand

LEMMA ServeBroadcastPlace ==
  ASSUME ShapeInv, Same, PlaceInv, NEW s \in Servers, NEW n \in Nodes, ServeBroadcast(s, n)
  PROVE  PlaceInv'
<1>1. ShapeInv' /\ Alone(s) /\ s \in Threads /\ pc[s] = "serve" /\ pc'[s] = "get_data"
  BY ServeBroadcastShape
<1>2. UNCHANGED <<public, private, stage, parent>> /\ Serves(s, n, "bcast")
  BY DEF ServeBroadcast, Queues, Application
<1>3. PICK msg : msg = Head(chan[n][s[1]][MaxNvps])
  OBVIOUS
<1>4. /\ s[1] \in Nodes /\ MaxNvps \in Tags /\ msg.type = "bcast"
      /\ chan[n][s[1]][MaxNvps] # <<>> /\ Take(n, s[1], MaxNvps)
  BY <1>2, <1>3, ServesEffect
<1>5. OtherMail
  BY <1>3, <1>4 DEF OtherMail, CarryTypes
<1> QED BY <1>1, <1>2, <1>5, PlaceStays DEF NoHand

LEMMA ReceiveDataPlace ==
  ASSUME ShapeInv, Same, PlaceInv, NEW s \in Servers, ReceiveData(s)
  PROVE  PlaceInv'
<1>0. s \in Threads
  BY ServerFacts DEF ShapeInv
<1>1. PICK n \in Nodes, tag \in Tags : n = peer[s][1] /\ tag = peer[s][2]
  BY <1>0, Now
<1>2. /\ ShapeInv' /\ Alone(s) /\ pc[s] = "get_data" /\ tag \in WorkerVps /\ pc'[s] = "serve"
      /\ chan[n][s[1]][tag] # <<>> /\ Take(n, s[1], tag)
  BY <1>1, ReceiveDataShape
<1>3. UNCHANGED <<public, private, stage, parent>> /\ s[1] \in Nodes
  BY <1>0, Now DEF ReceiveData, Queues, Application
<1>4. PICK msg : msg = Head(chan[n][s[1]][tag])
  OBVIOUS
<1>5. Legal(tag, msg)
  BY <1>2, <1>3, <1>4, HeadCounts
<1>6. msg.type \notin CarryTypes \cup {"answer"}
  BY <1>2, <1>5 DEF Legal, CarryTypes
<1>7. OtherMail
  BY <1>2, <1>3, <1>4, <1>6 DEF OtherMail
<1> QED BY <1>0, <1>2, <1>3, <1>7, PlaceStays DEF NoHand

(***************************************************************************)
(* A thief w and its victim k: what is under way between them.             *)
(***************************************************************************)
Roles == {"waits", "due", "answers", "owes"}

(* A thief waits for the reply and then for the arguments that are due to  *)
(* it; the victim's server answers, and then it owes the arguments.        *)
RoleOf(th, q) ==
  IF IsServer(th)
  THEN IF q = "reply" THEN "answers" ELSE IF q = "send_args" THEN "owes" ELSE "none"
  ELSE IF q \in Inside THEN "waits" ELSE IF q \in {"get_args", "held_args"} THEN "due" ELSE "none"

Plays(th, role, p) == RoleOf(th, pc[th]) = role /\ peer[th] = p

Waiting(w, k) == Plays(w, "waits", <<k, StealTag(w[2])>>)
Due(w, k) == Plays(w, "due", <<k, StealTag(w[2])>>)
Answering(w, k) == Plays(Server(k), "answers", <<w[1], StealTag(w[2])>>)
Owing(w, k) == Plays(Server(k), "owes", <<w[1], StealTag(w[2])>>)

Requests(w) == {msg \in AnyMessage : msg.type = "steal" /\ msg.vp = w[2]}
Replies == {msg \in AnyMessage : msg.type \in {"work", "no_work"}}
Payloads == {msg \in AnyMessage : msg.type = "argument"}

(* The replies that arguments follow.                                      *)
Loads(w) == {msg \in Replies : msg.type = "work" /\ ArgMsgs # 0 /\ Home(msg.body) # w[1]}

ToVictim(w, k) == chan[w[1]][k][MaxNvps]
ToThief(w, k) == chan[k][w[1]][StealTag(w[2])]

(* One request or reply is under way while the thief waits, and none       *)
(* otherwise; arguments are under way, or owed, for the replies that they  *)
(* follow and those the thief has just taken; and a thief that waits does  *)
(* not get arguments.                                                      *)
StealOn(w, k) ==
  /\ Num(ToVictim(w, k), Requests(w)) + Num(ToThief(w, k), Replies) + One(Answering(w, k))
       = One(Waiting(w, k))
  /\ Num(ToThief(w, k), Payloads) + One(Owing(w, k))
       = Num(ToThief(w, k), Loads(w)) + One(Due(w, k))
  /\ Waiting(w, k) /\ ToThief(w, k) # <<>> => Head(ToThief(w, k)).type # "argument"

StealInv == \A w \in Workers, k \in Nodes : StealOn(w, k)

LEMMA StealTypes ==
  ASSUME ShapeInv, NEW w \in Workers, NEW k \in Nodes
  PROVE  /\ w[1] \in Nodes /\ w[2] \in WorkerVps /\ StealTag(w[2]) \in Tags /\ MaxNvps \in Tags
         /\ StealTag(w[2]) \in StealTags /\ w = <<w[1], w[2]>> /\ MaxNvps \notin StealTags
         /\ w \in Threads /\ Server(k) \in Threads /\ Server(k) \in Servers /\ Server(k) # w
         /\ ToThief(w, k) \in Seq(Messages(StealTag(w[2])))
         /\ \A M : Num(ToVictim(w, k), M) \in Nat /\ Num(ToThief(w, k), M) \in Nat
<1>1. SetupInv /\ Channels
  BY DEF ShapeInv
<1>2. /\ w[1] \in Nodes /\ w[2] \in WorkerVps /\ StealTag(w[2]) \in Tags /\ MaxNvps \in Tags
      /\ StealTag(w[2]) \in StealTags /\ w = <<w[1], w[2]>> /\ MaxNvps \notin StealTags
  BY <1>1, WorkerFacts, TagFacts
<1>3. w \in Threads /\ Server(k) \in Threads /\ Server(k) \in Servers /\ Server(k) # w
  BY <1>1, WorkerFacts, ServerFacts
<1>4. ToThief(w, k) \in Seq(Messages(StealTag(w[2])))
  BY <1>1, <1>2, ChannelCounts DEF ToThief
<1>5. \A M : Num(ToVictim(w, k), M) \in Nat /\ Num(ToThief(w, k), M) \in Nat
  <2>1. \A M : Num(ToVictim(w, k), M) \in Nat
    BY <1>1, <1>2, ChannelCounts DEF ToVictim
  <2>2. \A M : Num(ToThief(w, k), M) \in Nat
    BY <1>1, <1>2, ChannelCounts DEF ToThief
  <2> QED BY <2>1, <2>2
<1> QED BY <1>2, <1>3, <1>4, <1>5

LEMMA StealSets ==
  ASSUME Same
  PROVE  /\ Replies' = Replies /\ Payloads' = Payloads
         /\ \A w : Requests(w)' = Requests(w)
         /\ UNCHANGED parent => \A w : Loads(w)' = Loads(w)
BY DEF Same, Replies, Payloads, Requests, Loads, Home

(* Nothing is in the channel that is neither a reply nor arguments.        *)
LEMMA ThiefChannel ==
  ASSUME ShapeInv, NEW w \in Workers, NEW k \in Nodes
  PROVE  /\ ToThief(w, k) # <<>> =>
              /\ Head(ToThief(w, k)) \in Replies \cup Payloads
              /\ Head(ToThief(w, k)) \in Messages(StealTag(w[2]))
              /\ \A M : Head(ToThief(w, k)) \in M => Num(ToThief(w, k), M) >= 1
         /\ Num(ToThief(w, k), Loads(w)) <= Num(ToThief(w, k), Replies)
         /\ Num(ToThief(w, k), Loads(w)) >= 1 => ToThief(w, k) # <<>>
<1> DEFINE tag == StealTag(w[2])
           s == ToThief(w, k)
<1>1. SetupInv /\ Channels /\ s \in Seq(Messages(tag)) /\ tag \in StealTags /\ tag \in Tags /\ w[1] \in Nodes
  BY StealTypes DEF ShapeInv
<1>2. ASSUME s # <<>>
      PROVE  /\ Head(s) \in Replies \cup Payloads /\ Head(s) \in Messages(tag)
             /\ \A M : Head(s) \in M => Num(s, M) >= 1
  <2>1. Head(s) \in Messages(tag) /\ \A M : Head(s) \in M => Num(s, M) >= 1
    BY <1>1, <1>2, ChannelCounts DEF ToThief
  <2>2. Head(s) \in AnyMessage /\ Legal(tag, Head(s))
    BY <1>1, <2>1, HeldFacts
  <2>3. Head(s).type \in {"work", "no_work", "argument"}
    BY <1>1, <2>2 DEF Legal
  <2> QED BY <2>1, <2>2, <2>3 DEF Replies, Payloads
<1> HIDE DEF s, tag
<1>3. Num(s, Loads(w)) <= Num(s, Replies)
  <2> DEFINE A == {i \in 1 .. Len(s) : s[i] \in Loads(w)}
             B == {i \in 1 .. Len(s) : s[i] \in Replies}
  <2>1. A \subseteq B
    BY DEF Loads
  <2>2. IsFiniteSet(B)
    BY <1>1, NumType
  <2>3. Cardinality(A) <= Cardinality(B)
    BY <2>1, <2>2, FS_Subset
  <2> QED BY <2>3 DEF Num
<1>4. Num(s, Loads(w)) >= 1 => s # <<>>
  <2>1. \A M : Num(<<>>, M) = 0
    BY NumEmpty
  <2> QED BY <2>1
<1> QED BY <1>2, <1>3, <1>4 DEF s, tag

(* When no reply is under way and the thief waits for nothing, or waits and*)
(* nothing is owed to it, there is nothing in the channel.                 *)
LEMMA NothingComes ==
  ASSUME ShapeInv, NEW w \in Workers, NEW k \in Nodes, StealOn(w, k),
         Num(ToThief(w, k), Replies) = 0, ~Due(w, k)
  PROVE  ToThief(w, k) = <<>>
<1>1. /\ Num(ToThief(w, k), Replies) \in Nat /\ Num(ToThief(w, k), Loads(w)) \in Nat
      /\ Num(ToThief(w, k), Payloads) \in Nat
  BY StealTypes
<1>2. Num(ToThief(w, k), Loads(w)) = 0
  BY <1>1, ThiefChannel
<1>3. Num(ToThief(w, k), Payloads) = 0
  BY <1>1, <1>2 DEF StealOn, One
<1> QED BY <1>3, ThiefChannel

LEMMA StealInit ==
  ASSUME ClusterInit, PayloadsApart
  PROVE  StealInv
<1>1. ShapeInv /\ SetupInv
  BY ShapeInit DEF ShapeInv
<1>2. SUFFICES ASSUME NEW w \in Workers, NEW k \in Nodes PROVE StealOn(w, k)
  BY DEF StealInv
<1>3. ToThief(w, k) = <<>> /\ ToVictim(w, k) = <<>>
  BY <1>1, StealTypes DEF ClusterInit, Init, ToThief, ToVictim
<1>4. /\ \A M : Num(<<>>, M) = 0
  BY NumEmpty
<1>5. ~IsServer(w) /\ IsServer(Server(k)) /\ w \in Threads /\ Server(k) \in Threads
  BY <1>1, WorkerFacts, ServerFacts
<1>6. RoleOf(w, pc[w]) = "none" /\ RoleOf(Server(k), pc[Server(k)]) = "none"
  BY <1>5 DEF ClusterInit, Init, RoleOf, Inside, InFirst, InSecond
<1>7. ~Waiting(w, k) /\ ~Due(w, k) /\ ~Answering(w, k) /\ ~Owing(w, k)
  BY <1>6 DEF Waiting, Due, Answering, Owing, Plays
<1> QED BY <1>3, <1>4, <1>7 DEF StealOn, One

(* What a thread does about a steal is its own affair.                     *)
LEMMA OthersPlay ==
  ASSUME ShapeInv, NEW th \in Threads, Alone(th)
  PROVE  \A o \in Threads : o # th => \A role, p : Plays(o, role, p)' <=> Plays(o, role, p)
BY AloneOthers DEF ShapeInv, Plays, RoleOf

LEMMA PlaysOn ==
  ASSUME ShapeInv, NEW th \in Threads, Alone(th), RoleOf(th, pc'[th]) = RoleOf(th, pc[th]),
         RoleOf(th, pc[th]) = "none" \/ peer'[th] = peer[th]
  PROVE  \A o \in Threads, role \in Roles : \A p : Plays(o, role, p)' <=> Plays(o, role, p)
<1>1. \A role \in Roles : \A p : Plays(th, role, p)' <=> Plays(th, role, p)
  BY DEF Plays, RoleOf, Roles
<1> QED BY <1>1, OthersPlay

(* A message that has nothing to do with a steal is sent or taken.         *)
QuietMail ==
  \/ UNCHANGED chan
  \/ \E n \in Nodes, m \in Nodes, tag \in Tags \ StealTags : \E msg \in Messages(tag) :
       msg.type # "steal" /\ Post(n, m, tag, msg)
  \/ \E n \in Nodes, m \in Nodes, tag \in Tags \ StealTags :
       /\ chan[n][m][tag] # <<>> /\ Take(n, m, tag)
       /\ Head(chan[n][m][tag]).type # "steal"

LEMMA QuietChannels ==
  ASSUME ShapeInv, Same, QuietMail, NEW w \in Workers, NEW k \in Nodes
  PROVE  /\ ToThief(w, k)' = ToThief(w, k)
         /\ Num(ToVictim(w, k)', Requests(w)) = Num(ToVictim(w, k), Requests(w))
<1>1. /\ w[1] \in Nodes /\ StealTag(w[2]) \in Tags /\ StealTag(w[2]) \in StealTags /\ MaxNvps \in Tags
      /\ Num(ToVictim(w, k), Requests(w)) \in Nat
  BY StealTypes
<1>2. SetupInv /\ Channels
  BY DEF ShapeInv
<1>3. CASE UNCHANGED chan
  BY <1>3 DEF ToThief, ToVictim
<1>4. ASSUME NEW n \in Nodes, NEW m \in Nodes, NEW tag \in Tags \ StealTags, NEW msg \in Messages(tag),
             msg.type # "steal", Post(n, m, tag, msg)
      PROVE  /\ ToThief(w, k)' = ToThief(w, k)
             /\ Num(ToVictim(w, k)', Requests(w)) = Num(ToVictim(w, k), Requests(w))
  <2>1. /\ \A a \in Nodes, b \in Nodes, g \in Tags : <<a, b, g>> # <<n, m, tag>> =>
             chan'[a][b][g] = chan[a][b][g]
        /\ \A a \in Nodes, b \in Nodes, g \in Tags : \A M :
             Num(chan'[a][b][g], M)
               = Num(chan[a][b][g], M) + One(<<a, b, g>> = <<n, m, tag>> /\ msg \in M)
    BY <1>2, <1>4, PostEffect
  <2>2. <<k, w[1], StealTag(w[2])>> # <<n, m, tag>>
    BY <1>1
  <2>3. chan'[k][w[1]][StealTag(w[2])] = chan[k][w[1]][StealTag(w[2])]
    BY <1>1, <2>1, <2>2
  <2>4. msg \notin Requests(w)
    BY <1>4 DEF Requests
  <2>5. Num(chan'[w[1]][k][MaxNvps], Requests(w))
          = Num(chan[w[1]][k][MaxNvps], Requests(w))
              + One(<<w[1], k, MaxNvps>> = <<n, m, tag>> /\ msg \in Requests(w))
    BY <1>1, <2>1
  <2> QED BY <1>1, <2>3, <2>4, <2>5 DEF ToThief, ToVictim, One
<1>5. ASSUME NEW n \in Nodes, NEW m \in Nodes, NEW tag \in Tags \ StealTags,
             chan[n][m][tag] # <<>>, Take(n, m, tag), Head(chan[n][m][tag]).type # "steal"
      PROVE  /\ ToThief(w, k)' = ToThief(w, k)
             /\ Num(ToVictim(w, k)', Requests(w)) = Num(ToVictim(w, k), Requests(w))
  <2>1. /\ \A a \in Nodes, b \in Nodes, g \in Tags : <<a, b, g>> # <<n, m, tag>> =>
             chan'[a][b][g] = chan[a][b][g]
        /\ \A a \in Nodes, b \in Nodes, g \in Tags : \A M :
             Num(chan[a][b][g], M)
               = Num(chan'[a][b][g], M) + One(<<a, b, g>> = <<n, m, tag>> /\ Head(chan[n][m][tag]) \in M)
        /\ Channels'
    BY <1>2, <1>5, TakeEffect
  <2>2. <<k, w[1], StealTag(w[2])>> # <<n, m, tag>>
    BY <1>1
  <2>3. chan'[k][w[1]][StealTag(w[2])] = chan[k][w[1]][StealTag(w[2])]
    BY <1>1, <2>1, <2>2
  <2>4. Head(chan[n][m][tag]) \notin Requests(w)
    BY <1>5 DEF Requests
  <2>5. Num(chan[w[1]][k][MaxNvps], Requests(w))
          = Num(chan'[w[1]][k][MaxNvps], Requests(w))
              + One(<<w[1], k, MaxNvps>> = <<n, m, tag>> /\ Head(chan[n][m][tag]) \in Requests(w))
    BY <1>1, <2>1
  <2>c. \A a \in Nodes, b \in Nodes, g \in Tags : chan'[a][b][g] \in Seq(AnyMessage)
    BY <2>1 DEF Channels, Same
  <2>6. chan'[w[1]][k][MaxNvps] \in Seq(AnyMessage)
    BY <1>1, <2>c
  <2>7. Num(chan'[w[1]][k][MaxNvps], Requests(w)) \in Nat
    BY <2>6, NumType
  <2> QED BY <2>3, <2>4, <2>5, <2>7 DEF ToThief, ToVictim, One
<1> QED BY <1>3, <1>4, <1>5 DEF QuietMail

LEMMA StealStays ==
  ASSUME ShapeInv, Same, StealInv, NEW th \in Threads, Alone(th), QuietMail,
         RoleOf(th, pc'[th]) = RoleOf(th, pc[th]),
         RoleOf(th, pc[th]) = "none" \/ peer'[th] = peer[th],
         \A w \in Workers, k \in Nodes :
           Num(ToThief(w, k), Loads(w)') = Num(ToThief(w, k), Loads(w))
  PROVE  StealInv'
<1>1. \A o \in Threads, role \in Roles : \A p : Plays(o, role, p)' <=> Plays(o, role, p)
  BY PlaysOn
<1>2. ASSUME NEW w \in Workers, NEW k \in Nodes PROVE StealOn(w, k)'
  <2>1. w \in Threads /\ Server(k) \in Threads
    BY StealTypes
  <2>2. /\ Waiting(w, k)' <=> Waiting(w, k)
        /\ Due(w, k)' <=> Due(w, k)
        /\ Answering(w, k)' <=> Answering(w, k)
        /\ Owing(w, k)' <=> Owing(w, k)
    BY <1>1, <2>1 DEF Waiting, Due, Answering, Owing, Roles
  <2>3. /\ ToThief(w, k)' = ToThief(w, k)
        /\ Num(ToVictim(w, k)', Requests(w)) = Num(ToVictim(w, k), Requests(w))
    BY QuietChannels
  <2>4. Replies' = Replies /\ Payloads' = Payloads /\ Requests(w)' = Requests(w)
    BY StealSets
  <2>5. StealOn(w, k)
    BY DEF StealInv
  <2>6. Num(ToThief(w, k)', Loads(w)') = Num(ToThief(w, k), Loads(w))
    BY <2>3
  <2> HIDE DEF Waiting, Due, Answering, Owing, ToThief, ToVictim, Replies, Payloads, Requests, Loads, Num
  <2>7. Num(ToVictim(w, k)', Requests(w)') + Num(ToThief(w, k)', Replies') + One(Answering(w, k)')
          = One(Waiting(w, k)')
    BY <2>2, <2>3, <2>4, <2>5 DEF StealOn, One
  <2>8. Num(ToThief(w, k)', Payloads') + One(Owing(w, k)')
          = Num(ToThief(w, k)', Loads(w)') + One(Due(w, k)')
    BY <2>2, <2>3, <2>4, <2>5, <2>6 DEF StealOn, One
  <2>9. Waiting(w, k)' /\ ToThief(w, k)' # <<>> => Head(ToThief(w, k)').type # "argument"
    BY <2>2, <2>3, <2>5 DEF StealOn
  <2> QED BY <2>7, <2>8, <2>9 DEF StealOn
<1> QED BY <1>2 DEF StealInv, Same

(* The homes of the tasks stay, too.                                       *)
LEMMA StealQuiet ==
  ASSUME ShapeInv, Same, StealInv, NEW th \in Threads, Alone(th), QuietMail, UNCHANGED parent,
         RoleOf(th, pc'[th]) = RoleOf(th, pc[th]),
         RoleOf(th, pc[th]) = "none" \/ peer'[th] = peer[th]
  PROVE  StealInv'
BY StealSets, StealStays

(* A step that concerns one thief and one victim.                          *)
LEMMA StealStep ==
  ASSUME ShapeInv, Same, StealInv, UNCHANGED parent, NEW k \in Nodes, NEW n \in Nodes, NEW tag \in StealTags,
         \A w \in Workers : w[1] = n /\ StealTag(w[2]) = tag => StealOn(w, k)',
         \A w \in Workers, j \in Nodes :
           ~(w[1] = n /\ StealTag(w[2]) = tag /\ j = k) =>
             /\ Waiting(w, j)' <=> Waiting(w, j)
             /\ Due(w, j)' <=> Due(w, j)
             /\ Answering(w, j)' <=> Answering(w, j)
             /\ Owing(w, j)' <=> Owing(w, j)
             /\ ToThief(w, j)' = ToThief(w, j)
             /\ Num(ToVictim(w, j)', Requests(w)) = Num(ToVictim(w, j), Requests(w))
  PROVE  StealInv'
<1>1. ASSUME NEW w \in Workers, NEW j \in Nodes PROVE StealOn(w, j)'
  <2>1. CASE w[1] = n /\ StealTag(w[2]) = tag /\ j = k
    BY <2>1
  <2>2. CASE ~(w[1] = n /\ StealTag(w[2]) = tag /\ j = k)
    <3>1. /\ Waiting(w, j)' <=> Waiting(w, j)
          /\ Due(w, j)' <=> Due(w, j)
          /\ Answering(w, j)' <=> Answering(w, j)
          /\ Owing(w, j)' <=> Owing(w, j)
          /\ ToThief(w, j)' = ToThief(w, j)
          /\ Num(ToVictim(w, j)', Requests(w)) = Num(ToVictim(w, j), Requests(w))
      BY <2>2
    <3>2. Replies' = Replies /\ Payloads' = Payloads /\ Requests(w)' = Requests(w) /\ Loads(w)' = Loads(w)
      BY StealSets
    <3>3. StealOn(w, j)
      BY DEF StealInv
    <3> HIDE DEF Waiting, Due, Answering, Owing, ToThief, ToVictim, Replies, Payloads, Requests, Loads, Num
    <3>7. Num(ToVictim(w, j)', Requests(w)') + Num(ToThief(w, j)', Replies') + One(Answering(w, j)')
            = One(Waiting(w, j)')
      BY <3>1, <3>2, <3>3 DEF StealOn, One
    <3>8. Num(ToThief(w, j)', Payloads') + One(Owing(w, j)')
            = Num(ToThief(w, j)', Loads(w)') + One(Due(w, j)')
      BY <3>1, <3>2, <3>3 DEF StealOn, One
    <3>9. Waiting(w, j)' /\ ToThief(w, j)' # <<>> => Head(ToThief(w, j)').type # "argument"
      BY <3>1, <3>3 DEF StealOn
    <3> QED BY <3>7, <3>8, <3>9 DEF StealOn
  <2> QED BY <2>1, <2>2
<1> QED BY <1>1 DEF StealInv, Same

(* The server of k sends a thief of node n something, or the thief takes   *)
(* it.                                                                     *)
LEMMA ThiefPost ==
  ASSUME ShapeInv, Same, NEW k \in Nodes, NEW n \in Nodes, NEW tag \in StealTags,
         NEW msg \in Messages(tag), Post(k, n, tag, msg), NEW w \in Workers, NEW j \in Nodes
  PROVE  /\ Num(ToVictim(w, j)', Requests(w)) = Num(ToVictim(w, j), Requests(w))
         /\ w[1] = n /\ StealTag(w[2]) = tag /\ j = k =>
              /\ ToThief(w, j)' = Append(ToThief(w, j), msg)
              /\ \A M : Num(ToThief(w, j)', M) = Num(ToThief(w, j), M) + One(msg \in M)
         /\ ~(w[1] = n /\ StealTag(w[2]) = tag /\ j = k) => ToThief(w, j)' = ToThief(w, j)
<1>1. SetupInv /\ Channels /\ tag \in Tags
  BY TagFacts DEF ShapeInv
<1>2. /\ w[1] \in Nodes /\ StealTag(w[2]) \in Tags /\ MaxNvps \in Tags /\ MaxNvps # tag
  BY StealTypes
<1>3. /\ chan'[k][n][tag] = Append(chan[k][n][tag], msg)
      /\ \A a \in Nodes, b \in Nodes, g \in Tags : <<a, b, g>> # <<k, n, tag>> =>
           chan'[a][b][g] = chan[a][b][g]
      /\ \A a \in Nodes, b \in Nodes, g \in Tags : \A M :
           Num(chan'[a][b][g], M) = Num(chan[a][b][g], M) + One(<<a, b, g>> = <<k, n, tag>> /\ msg \in M)
  BY <1>1, PostEffect
<1>4. ToVictim(w, j)' = ToVictim(w, j)
  BY <1>2, <1>3 DEF ToVictim
<1>5. CASE w[1] = n /\ StealTag(w[2]) = tag /\ j = k
  <2>1. \A M : Num(chan'[k][n][tag], M) = Num(chan[k][n][tag], M) + One(msg \in M)
    <3> SUFFICES ASSUME NEW M PROVE Num(chan'[k][n][tag], M) = Num(chan[k][n][tag], M) + One(msg \in M)
      OBVIOUS
    <3>1. Num(chan'[k][n][tag], M)
            = Num(chan[k][n][tag], M) + One(<<k, n, tag>> = <<k, n, tag>> /\ msg \in M)
      BY ZenonT(30), <1>1, <1>3
    <3> QED BY <3>1 DEF One
  <2> QED BY ZenonT(30), <1>3, <1>4, <1>5, <2>1 DEF ToThief
<1>6. CASE ~(w[1] = n /\ StealTag(w[2]) = tag /\ j = k)
  <2>1. <<j, w[1], StealTag(w[2])>> # <<k, n, tag>>
    BY <1>6
  <2> QED BY <1>2, <1>3, <1>4, <1>6, <2>1 DEF ToThief
<1> QED BY <1>5, <1>6

LEMMA ThiefTake ==
  ASSUME ShapeInv, Same, NEW k \in Nodes, NEW n \in Nodes, NEW tag \in StealTags,
         chan[k][n][tag] # <<>>, Take(k, n, tag), NEW w \in Workers, NEW j \in Nodes,
         NEW msg, msg = Head(chan[k][n][tag])
  PROVE  /\ Num(ToVictim(w, j)', Requests(w)) = Num(ToVictim(w, j), Requests(w))
         /\ w[1] = n /\ StealTag(w[2]) = tag /\ j = k =>
              /\ ToThief(w, j) # <<>> /\ Head(ToThief(w, j)) = msg
              /\ \A M : /\ Num(ToThief(w, j), M) = Num(ToThief(w, j)', M) + One(msg \in M)
                        /\ Num(ToThief(w, j)', M) \in Nat
         /\ ~(w[1] = n /\ StealTag(w[2]) = tag /\ j = k) => ToThief(w, j)' = ToThief(w, j)
<1>1. SetupInv /\ Channels /\ tag \in Tags
  BY TagFacts DEF ShapeInv
<1>2. /\ w[1] \in Nodes /\ StealTag(w[2]) \in Tags /\ MaxNvps \in Tags /\ MaxNvps # tag
  BY StealTypes
<1>3. /\ \A a \in Nodes, b \in Nodes, g \in Tags : <<a, b, g>> # <<k, n, tag>> =>
           chan'[a][b][g] = chan[a][b][g]
      /\ \A a \in Nodes, b \in Nodes, g \in Tags : \A M :
           Num(chan[a][b][g], M) = Num(chan'[a][b][g], M) + One(<<a, b, g>> = <<k, n, tag>> /\ msg \in M)
      /\ Channels'
  BY <1>1, TakeEffect
<1>4. ToVictim(w, j)' = ToVictim(w, j)
  BY <1>2, <1>3 DEF ToVictim
<1>5. CASE w[1] = n /\ StealTag(w[2]) = tag /\ j = k
  <2>1. \A a \in Nodes, b \in Nodes, g \in Tags : chan'[a][b][g] \in Seq(AnyMessage)
    BY <1>3 DEF Channels, Same
  <2>2. chan'[k][n][tag] \in Seq(AnyMessage)
    BY <1>1, <2>1
  <2>3. \A M : Num(chan'[k][n][tag], M) \in Nat
    BY <2>2, NumType
  <2>4. \A M : Num(chan[k][n][tag], M) = Num(chan'[k][n][tag], M) + One(msg \in M)
    <3> SUFFICES ASSUME NEW M PROVE Num(chan[k][n][tag], M) = Num(chan'[k][n][tag], M) + One(msg \in M)
      OBVIOUS
    <3>1. Num(chan[k][n][tag], M)
            = Num(chan'[k][n][tag], M) + One(<<k, n, tag>> = <<k, n, tag>> /\ msg \in M)
      BY <1>1, <1>3
    <3> QED BY <3>1 DEF One
  <2>5. ASSUME NEW M PROVE /\ Num(ToThief(w, j), M) = Num(ToThief(w, j)', M) + One(msg \in M)
                           /\ Num(ToThief(w, j)', M) \in Nat
    <3>1. Num(chan[k][n][tag], M) = Num(chan'[k][n][tag], M) + One(msg \in M)
      BY <2>4
    <3>2. Num(chan'[k][n][tag], M) \in Nat
      BY <2>3
    <3> QED BY <1>5, <3>1, <3>2 DEF ToThief
  <2>6. ToThief(w, j) # <<>> /\ Head(ToThief(w, j)) = msg
    BY <1>5 DEF ToThief
  <2> QED BY <1>4, <1>5, <2>5, <2>6
<1>6. CASE ~(w[1] = n /\ StealTag(w[2]) = tag /\ j = k)
  <2>1. <<j, w[1], StealTag(w[2])>> # <<k, n, tag>>
    BY <1>6
  <2> QED BY <1>2, <1>3, <1>4, <1>6, <2>1 DEF ToThief
<1> QED BY <1>5, <1>6

(* The roles of the threads that do not take the step.                     *)
LEMMA RolesOfOthers ==
  ASSUME ShapeInv, NEW th \in Threads, Alone(th), NEW w \in Workers, NEW k \in Nodes
  PROVE  /\ th # w => (Waiting(w, k)' <=> Waiting(w, k)) /\ (Due(w, k)' <=> Due(w, k))
         /\ th # Server(k) => (Answering(w, k)' <=> Answering(w, k)) /\ (Owing(w, k)' <=> Owing(w, k))
<1>1. w \in Threads /\ Server(k) \in Threads
  BY StealTypes
<1> QED BY <1>1, OthersPlay DEF Waiting, Due, Answering, Owing

(* The roles of the thread that does.                                      *)
LEMMA WorkerRole ==
  ASSUME ShapeInv, NEW w \in Workers, NEW k \in Nodes
  PROVE  /\ Waiting(w, k) <=> pc[w] \in Inside /\ peer[w] = <<k, StealTag(w[2])>>
         /\ Due(w, k) <=> pc[w] \in {"get_args", "held_args"} /\ peer[w] = <<k, StealTag(w[2])>>
         /\ Waiting(w, k)' <=> pc'[w] \in Inside /\ peer'[w] = <<k, StealTag(w[2])>>
         /\ Due(w, k)' <=> pc'[w] \in {"get_args", "held_args"} /\ peer'[w] = <<k, StealTag(w[2])>>
<1>1. ~IsServer(w)
  BY ServerFacts DEF ShapeInv
<1> QED BY <1>1 DEF Waiting, Due, Plays, RoleOf, Inside, InFirst, InSecond

LEMMA ServerRole ==
  ASSUME ShapeInv, NEW w \in Workers, NEW k \in Nodes, NEW s, s = Server(k)
  PROVE  /\ Answering(w, k) <=> pc[s] = "reply" /\ peer[s] = <<w[1], StealTag(w[2])>>
         /\ Owing(w, k) <=> pc[s] = "send_args" /\ peer[s] = <<w[1], StealTag(w[2])>>
         /\ Answering(w, k)' <=> pc'[s] = "reply" /\ peer'[s] = <<w[1], StealTag(w[2])>>
         /\ Owing(w, k)' <=> pc'[s] = "send_args" /\ peer'[s] = <<w[1], StealTag(w[2])>>
<1>1. IsServer(s)
  BY ServerFacts DEF ShapeInv
<1> QED BY <1>1 DEF Answering, Owing, Plays, RoleOf

LEMMA WorkerPeer ==
  ASSUME ShapeInv, NEW w \in Workers, NEW k \in Nodes, k = peer[w][1], peer[w][2] = StealTag(w[2])
  PROVE  peer[w] = <<k, StealTag(w[2])>>
<1>1. peer[w] \in Nodes \X Tags
  BY Now, WorkerFacts DEF ShapeInv
<1> QED BY <1>1

LEMMA StealRequestSteal ==
  ASSUME ShapeInv, Same, StealInv, NEW w \in Workers, StealRequest(w), UNCHANGED bvars
  PROVE  StealInv'
<1>0. PICK k \in Nodes : k = peer[w][1]
  BY Now, WorkerFacts DEF ShapeInv
<1>1. /\ Alone(w) /\ w \in Threads /\ pc'[w] \in {"await", "reawait"} /\ peer'[w] = peer[w]
      /\ pc[w] \in {"ask", "reask"} /\ UNCHANGED parent
  BY StealRequestShape DEF StealRequest, Application
<1>2. PICK msg \in Messages(MaxNvps) : msg.type = "steal" /\ msg.vp = w[2] /\ Post(w[1], k, MaxNvps, msg)
  BY <1>0, StealRequestShape
<1>3. SetupInv /\ Channels /\ MaxNvps \in Tags /\ MaxNvps \notin StealTags /\ w[1] \in Nodes
  BY StealTypes DEF ShapeInv
<1>4. peer[w] = <<k, StealTag(w[2])>>
  BY <1>0, <1>1, Now, WorkerPeer DEF WorkerFits
<1>p. /\ \A a \in Nodes, b \in Nodes, g \in Tags : <<a, b, g>> # <<w[1], k, MaxNvps>> =>
           chan'[a][b][g] = chan[a][b][g]
      /\ \A a \in Nodes, b \in Nodes, g \in Tags : \A M :
           Num(chan'[a][b][g], M)
             = Num(chan[a][b][g], M) + One(<<a, b, g>> = <<w[1], k, MaxNvps>> /\ msg \in M)
  BY <1>2, <1>3, PostEffect
<1>5. \A v \in Workers, j \in Nodes : ToThief(v, j)' = ToThief(v, j)
  <2> SUFFICES ASSUME NEW v \in Workers, NEW j \in Nodes PROVE ToThief(v, j)' = ToThief(v, j)
    OBVIOUS
  <2>1. v[1] \in Nodes /\ StealTag(v[2]) \in Tags /\ StealTag(v[2]) # MaxNvps
    BY StealTypes
  <2>2. <<j, v[1], StealTag(v[2])>> # <<w[1], k, MaxNvps>>
    BY <2>1
  <2> QED BY <1>p, <2>1, <2>2 DEF ToThief
<1>6. \A v \in Workers, j \in Nodes :
        Num(ToVictim(v, j)', Requests(v)) = Num(ToVictim(v, j), Requests(v)) + One(v = w /\ j = k)
  <2> SUFFICES ASSUME NEW v \in Workers, NEW j \in Nodes
               PROVE  Num(ToVictim(v, j)', Requests(v))
                        = Num(ToVictim(v, j), Requests(v)) + One(v = w /\ j = k)
    OBVIOUS
  <2>1. v[1] \in Nodes /\ v = <<v[1], v[2]>> /\ w = <<w[1], w[2]>>
    BY StealTypes
  <2>2. msg \in Requests(v) <=> v[2] = w[2]
    BY <1>2, <1>3, HeldFacts DEF Requests
  <2>3. Num(chan'[v[1]][j][MaxNvps], Requests(v))
          = Num(chan[v[1]][j][MaxNvps], Requests(v))
              + One(<<v[1], j, MaxNvps>> = <<w[1], k, MaxNvps>> /\ msg \in Requests(v))
    <3>1. \A b \in Nodes, g \in Tags : \A M :
            Num(chan'[v[1]][b][g], M)
              = Num(chan[v[1]][b][g], M) + One(<<v[1], b, g>> = <<w[1], k, MaxNvps>> /\ msg \in M)
      BY <1>p, <2>1
    <3> QED BY <1>3, <3>1
  <2>4. (<<v[1], j, MaxNvps>> = <<w[1], k, MaxNvps>> /\ msg \in Requests(v)) <=> (v = w /\ j = k)
    BY <2>1, <2>2
  <2> QED BY <2>3, <2>4 DEF ToVictim, One
<1>7. /\ \A j \in Nodes : ~Waiting(w, j) /\ ~Due(w, j) /\ ~Due(w, j)' /\ (Waiting(w, j)' <=> j = k)
  <2> SUFFICES ASSUME NEW j \in Nodes
               PROVE  ~Waiting(w, j) /\ ~Due(w, j) /\ ~Due(w, j)' /\ (Waiting(w, j)' <=> j = k)
    OBVIOUS
  <2> QED BY <1>1, <1>4, WorkerRole DEF Inside, InFirst, InSecond
<1>8. \A v \in Workers, j \in Nodes :
        /\ v # w => (Waiting(v, j)' <=> Waiting(v, j)) /\ (Due(v, j)' <=> Due(v, j))
        /\ Answering(v, j)' <=> Answering(v, j)
        /\ Owing(v, j)' <=> Owing(v, j)
  BY <1>1, RolesOfOthers, StealTypes
<1>9. StealOn(w, k)'
  <2>1. StealOn(w, k)
    BY DEF StealInv
  <2>2. \A M : Num(ToVictim(w, k), M) \in Nat /\ Num(ToThief(w, k), M) \in Nat
    BY StealTypes
  <2>3. /\ Num(ToVictim(w, k), Requests(w)) \in Nat /\ Num(ToThief(w, k), Replies) \in Nat
        /\ Num(ToThief(w, k), Payloads) \in Nat /\ Num(ToThief(w, k), Loads(w)) \in Nat
    BY <2>2
  <2>4. Num(ToVictim(w, k), Requests(w)) = 0 /\ Num(ToThief(w, k), Replies) = 0 /\ ~Answering(w, k)
    BY <1>7, <2>1, <2>3 DEF StealOn, One
  <2>5. ToThief(w, k) = <<>>
    BY <1>7, <2>1, <2>4, NothingComes
  <2>6. ToThief(w, k)' = <<>> /\ Num(ToVictim(w, k)', Requests(w)) = 1
    BY <1>5, <1>6, <2>4, <2>5 DEF One
  <2>7. \A M : Num(<<>>, M) = 0
    BY NumEmpty
  <2>8. ~Owing(w, k)
    BY <1>7, <2>1, <2>5, <2>7 DEF StealOn, One
  <2>9. Requests(w)' = Requests(w)
    BY StealSets
  <2>10. Waiting(w, k)' /\ ~Due(w, k)' /\ ~Answering(w, k)' /\ ~Owing(w, k)'
    BY <1>7, <1>8, <2>4, <2>8
  <2> HIDE DEF Waiting, Due, Answering, Owing, ToThief, ToVictim, Replies, Payloads, Requests, Loads, Num
  <2> QED BY <2>6, <2>7, <2>9, <2>10 DEF StealOn, One
<1>10. PICK tag \in StealTags : tag = StealTag(w[2])
  BY StealTypes
<1>11. \A v \in Workers : v[1] = w[1] /\ StealTag(v[2]) = tag => v = w
  <2> SUFFICES ASSUME NEW v \in Workers, v[1] = w[1], StealTag(v[2]) = tag PROVE v = w
    OBVIOUS
  <2> QED BY <1>3, <1>10, StealTypes, TagFacts
<1>12. ASSUME NEW v \in Workers, NEW j \in Nodes, ~(v[1] = w[1] /\ StealTag(v[2]) = tag /\ j = k)
       PROVE  /\ Waiting(v, j)' <=> Waiting(v, j)
              /\ Due(v, j)' <=> Due(v, j)
              /\ Num(ToVictim(v, j)', Requests(v)) = Num(ToVictim(v, j), Requests(v))
  <2>1. ~(v = w /\ j = k)
    BY <1>10, <1>12
  <2>2. Num(ToVictim(v, j), Requests(v)) \in Nat
    BY StealTypes
  <2>3. Num(ToVictim(v, j)', Requests(v)) = Num(ToVictim(v, j), Requests(v)) + One(v = w /\ j = k)
    BY <1>6
  <2>4. Num(ToVictim(v, j)', Requests(v)) = Num(ToVictim(v, j), Requests(v))
    BY <2>1, <2>2, <2>3 DEF One
  <2>5. (Waiting(v, j)' <=> Waiting(v, j)) /\ (Due(v, j)' <=> Due(v, j))
    BY <1>7, <1>8, <2>1
  <2> QED BY <2>4, <2>5
<1>13. \A v \in Workers : v[1] = w[1] /\ StealTag(v[2]) = tag => StealOn(v, k)'
  BY <1>9, <1>11
<1>14. \A v \in Workers, j \in Nodes : ~(v[1] = w[1] /\ StealTag(v[2]) = tag /\ j = k) =>
          /\ Waiting(v, j)' <=> Waiting(v, j)
          /\ Due(v, j)' <=> Due(v, j)
          /\ Answering(v, j)' <=> Answering(v, j)
          /\ Owing(v, j)' <=> Owing(v, j)
          /\ ToThief(v, j)' = ToThief(v, j)
          /\ Num(ToVictim(v, j)', Requests(v)) = Num(ToVictim(v, j), Requests(v))
  BY <1>5, <1>8, <1>12
<1> HIDE DEF Waiting, Due, Answering, Owing, ToThief, ToVictim, Requests, Num, StealOn
<1> QED BY <1>1, <1>3, <1>13, <1>14, StealStep

LEMMA OneThief ==
  ASSUME ShapeInv, NEW w \in Workers, NEW v \in Workers, v[1] = w[1], StealTag(v[2]) = StealTag(w[2])
  PROVE  v = w
<1>1. SetupInv /\ w[2] \in WorkerVps /\ v[2] \in WorkerVps /\ w = <<w[1], w[2]>> /\ v = <<v[1], v[2]>>
  BY StealTypes, WorkerFacts, TagFacts DEF ShapeInv
<1>2. v[2] = w[2]
  BY <1>1, TagFacts
<1> QED BY <1>1, <1>2

(* A reply that arguments follow.                                          *)
LEMMA LoadFacts ==
  ASSUME ShapeInv, NEW w \in Workers, NEW tag \in StealTags, NEW msg \in Messages(tag)
  PROVE  /\ msg \in Replies <=> msg.type \in {"work", "no_work"}
         /\ msg \in Payloads <=> msg.type = "argument"
         /\ msg \in Loads(w) <=> msg.type = "work" /\ ArgMsgs # 0 /\ Home(msg.body) # w[1]
         /\ msg.type \in {"work", "no_work", "argument"}
<1>1. SetupInv
  BY DEF ShapeInv
<1>2. msg \in AnyMessage /\ Legal(tag, msg)
  BY <1>1, HeldFacts
<1> QED BY <1>2 DEF Replies, Payloads, Loads, Legal

LEMMA StealReplySteal ==
  ASSUME ShapeInv, Same, StealInv, NEW w \in Workers, StealReply(w), UNCHANGED bvars
  PROVE  StealInv'
<1>0. PICK k \in Nodes : k = peer[w][1]
  BY Now, WorkerFacts DEF ShapeInv
<1>t. PICK tag \in StealTags : tag = StealTag(w[2])
  BY SMTT(30), StealTypes
<1>m. PICK msg : msg = Head(chan[k][w[1]][tag])
  BY SMTT(30)
<1>1. /\ Alone(w) /\ w \in Threads /\ pc[w] \in Inside /\ peer[w][2] = tag
      /\ chan[k][w[1]][tag] # <<>> /\ Take(k, w[1], tag)
      /\ \/ /\ msg.type = "work" /\ peer'[w] = peer[w]
            /\ pc'[w] = IF Home(msg.body) = w[1] \/ ArgMsgs = 0 THEN "execute" ELSE "get_args"
         \/ /\ msg.type # "work"
            /\ pc'[w] \in {"wait", "repoll", "reask", "ask"}
  BY SMTT(30), <1>0, <1>t, <1>m, StealReplyShape
<1>2. UNCHANGED parent /\ w[1] \in Nodes /\ peer[w] = <<k, tag>>
  BY <1>0, <1>t, <1>1, StealTypes, WorkerPeer DEF StealReply, Application
<1>3. SetupInv /\ Channels /\ tag \in Tags
  BY TagFacts DEF ShapeInv
<1>4. msg \in Messages(tag)
  BY <1>m, <1>1, <1>2, <1>3, ChannelCounts
<1>5. \A v \in Workers, j \in Nodes : Num(ToVictim(v, j)', Requests(v)) = Num(ToVictim(v, j), Requests(v))
  BY <1>1, <1>2, <1>m, ThiefTake
<1>6. \A v \in Workers, j \in Nodes : ~(v[1] = w[1] /\ StealTag(v[2]) = tag /\ j = k) =>
        ToThief(v, j)' = ToThief(v, j)
  BY SMTT(30), <1>1, <1>2, <1>m, ThiefTake
<1>7. /\ ToThief(w, k) # <<>> /\ Head(ToThief(w, k)) = msg
      /\ \A M : /\ Num(ToThief(w, k), M) = Num(ToThief(w, k)', M) + One(msg \in M)
                /\ Num(ToThief(w, k)', M) \in Nat
  BY <1>1, <1>2, <1>m, <1>t, ThiefTake
<1>8. /\ Waiting(w, k) /\ ~Due(w, k) /\ ~Waiting(w, k)'
      /\ Due(w, k)' <=> (msg.type = "work" /\ Home(msg.body) # w[1] /\ ArgMsgs # 0)
      /\ \A j \in Nodes : j # k => ~Waiting(w, j) /\ ~Due(w, j) /\ ~Waiting(w, j)' /\ ~Due(w, j)'
  <2>1. pc'[w] \notin Inside
    BY <1>1 DEF Inside, InFirst, InSecond
  <2>2. pc[w] \notin {"get_args", "held_args"}
    BY <1>1 DEF Inside, InFirst, InSecond
  <2>3. pc'[w] \in {"get_args", "held_args"} <=> (msg.type = "work" /\ Home(msg.body) # w[1] /\ ArgMsgs # 0)
    BY <1>1
  <2>4. pc'[w] \in {"get_args", "held_args"} => peer'[w] = <<k, tag>>
    BY <1>1, <1>2
  <2>5. ASSUME NEW j \in Nodes
        PROVE  /\ Waiting(w, j) <=> j = k
               /\ ~Due(w, j) /\ ~Waiting(w, j)'
               /\ Due(w, j)' <=> (j = k /\ msg.type = "work" /\ Home(msg.body) # w[1] /\ ArgMsgs # 0)
    <3>1. <<k, tag>> = <<j, tag>> <=> j = k
      OBVIOUS
    <3> QED BY <1>1, <1>2, <1>t, <2>1, <2>2, <2>3, <2>4, <3>1, WorkerRole
  <2> QED BY <2>5
<1>9. \A v \in Workers, j \in Nodes :
        /\ v # w => (Waiting(v, j)' <=> Waiting(v, j)) /\ (Due(v, j)' <=> Due(v, j))
        /\ Answering(v, j)' <=> Answering(v, j)
        /\ Owing(v, j)' <=> Owing(v, j)
  BY <1>1, RolesOfOthers, StealTypes
<1>10. StealOn(w, k)'
  <2>1. StealOn(w, k)
    BY DEF StealInv
  <2>2. msg.type # "argument"
    BY <1>7, <1>8, <2>1 DEF StealOn
  <2>3. /\ msg \in Replies /\ msg \notin Payloads
        /\ msg \in Loads(w) <=> (msg.type = "work" /\ Home(msg.body) # w[1] /\ ArgMsgs # 0)
    BY <1>4, <2>2, LoadFacts
  <2>4. /\ Num(ToVictim(w, k), Requests(w)) \in Nat
        /\ Num(ToVictim(w, k)', Requests(w)) = Num(ToVictim(w, k), Requests(w))
    BY <1>5, StealTypes
  <2>5. /\ Num(ToThief(w, k), Replies) = Num(ToThief(w, k)', Replies) + 1
        /\ Num(ToThief(w, k)', Replies) \in Nat
    <3>1. Num(ToThief(w, k), Replies) = Num(ToThief(w, k)', Replies) + One(msg \in Replies)
          /\ Num(ToThief(w, k)', Replies) \in Nat
      BY <1>7
    <3> QED BY <3>1, <2>3 DEF One
  <2>6. /\ Num(ToThief(w, k), Payloads) = Num(ToThief(w, k)', Payloads)
        /\ Num(ToThief(w, k)', Payloads) \in Nat
    <3>1. Num(ToThief(w, k), Payloads) = Num(ToThief(w, k)', Payloads) + One(msg \in Payloads)
          /\ Num(ToThief(w, k)', Payloads) \in Nat
      BY <1>7
    <3> QED BY <3>1, <2>3 DEF One
  <2>7. /\ Num(ToThief(w, k), Loads(w)) = Num(ToThief(w, k)', Loads(w)) + One(Due(w, k)')
        /\ Num(ToThief(w, k)', Loads(w)) \in Nat
    <3>1. Num(ToThief(w, k), Loads(w)) = Num(ToThief(w, k)', Loads(w)) + One(msg \in Loads(w))
          /\ Num(ToThief(w, k)', Loads(w)) \in Nat
      BY <1>7
    <3> QED BY <3>1, <2>3, <1>8 DEF One
  <2>8. /\ Replies' = Replies /\ Payloads' = Payloads /\ Requests(w)' = Requests(w)
        /\ Loads(w)' = Loads(w)
    BY <1>2, StealSets
  <2> HIDE DEF Waiting, Due, Answering, Owing, ToThief, ToVictim, Replies, Payloads, Requests, Loads, Num
  <2>9. Num(ToVictim(w, k)', Requests(w)') + Num(ToThief(w, k)', Replies') + One(Answering(w, k)')
          = One(Waiting(w, k)')
    BY <1>8, <1>9, <2>1, <2>4, <2>5, <2>8 DEF StealOn, One
  <2>10. Num(ToThief(w, k)', Payloads') + One(Owing(w, k)')
           = Num(ToThief(w, k)', Loads(w)') + One(Due(w, k)')
    BY <1>8, <1>9, <2>1, <2>6, <2>7, <2>8 DEF StealOn, One
  <2> QED BY <1>8, <2>9, <2>10 DEF StealOn
<1>11. \A v \in Workers : v[1] = w[1] /\ StealTag(v[2]) = tag => StealOn(v, k)'
  <2> SUFFICES ASSUME NEW v \in Workers, v[1] = w[1], StealTag(v[2]) = tag PROVE StealOn(v, k)'
    OBVIOUS
  <2>1. v = w
    BY <1>t, OneThief
  <2> QED BY <1>10, <2>1
<1>12. \A v \in Workers, j \in Nodes : ~(v[1] = w[1] /\ StealTag(v[2]) = tag /\ j = k) =>
          (Waiting(v, j)' <=> Waiting(v, j)) /\ (Due(v, j)' <=> Due(v, j))
  BY <1>8, <1>9, <1>t
<1>13. \A v \in Workers, j \in Nodes : ~(v[1] = w[1] /\ StealTag(v[2]) = tag /\ j = k) =>
          /\ Waiting(v, j)' <=> Waiting(v, j)
          /\ Due(v, j)' <=> Due(v, j)
          /\ Answering(v, j)' <=> Answering(v, j)
          /\ Owing(v, j)' <=> Owing(v, j)
          /\ ToThief(v, j)' = ToThief(v, j)
          /\ Num(ToVictim(v, j)', Requests(v)) = Num(ToVictim(v, j), Requests(v))
  BY <1>5, <1>6, <1>9, <1>12
<1> HIDE DEF Waiting, Due, Answering, Owing, ToThief, ToVictim, Requests, Num, StealOn
<1> QED BY <1>2, <1>11, <1>13, StealStep

LEMMA DirectSendSteal ==
  ASSUME ShapeInv, Same, StealInv, NEW s \in Threads, DirectSendDescriptor(s), UNCHANGED bvars
  PROVE  StealInv'
<1>0. PICK n \in Nodes, tag \in Tags, t \in Tasks \cup {NoTask} : n = peer[s][1] /\ tag = peer[s][2] /\ t = hand[s]
  BY Now
<1>1. /\ Alone(s) /\ pc[s] = "reply" /\ s \in Servers /\ tag \in StealTags /\ peer'[s] = peer[s]
      /\ \/ (t = NoTask \/ ArgMsgs = 0 \/ Home(t) = n) /\ pc'[s] = "serve"
         \/ t \in Tasks /\ Home(t) # n /\ ArgMsgs # 0 /\ pc'[s] = "send_args"
  BY <1>0, DirectSendShape
<1>2. PICK msg \in Messages(tag) : /\ msg.type = (IF t = NoTask THEN "no_work" ELSE "work") /\ msg.body = t
                                   /\ Post(s[1], n, tag, msg)
  BY <1>0, DirectSendShape
<1>3. PICK k \in Nodes : k = s[1] /\ s = Server(k)
  BY <1>1, ServerFacts DEF ShapeInv
<1>4. SetupInv /\ Channels /\ UNCHANGED parent /\ peer[s] = <<n, tag>> /\ NoTask \notin Tasks
  <2>1. peer[s] \in Nodes \X Tags
    BY Now
  <2> QED BY <1>0, <2>1, NodeCommAssumption DEF ShapeInv, DirectSendDescriptor, Application
<1>5. \A v \in Workers, j \in Nodes : Num(ToVictim(v, j)', Requests(v)) = Num(ToVictim(v, j), Requests(v))
  BY <1>1, <1>2, <1>3, ThiefPost
<1>6. \A v \in Workers, j \in Nodes : ~(v[1] = n /\ StealTag(v[2]) = tag /\ j = k) =>
        ToThief(v, j)' = ToThief(v, j)
  BY <1>1, <1>2, <1>3, ThiefPost
<1>7. \A v \in Workers, j \in Nodes :
        /\ s \in Threads
        /\ Waiting(v, j)' <=> Waiting(v, j)
        /\ Due(v, j)' <=> Due(v, j)
        /\ j # k => (Answering(v, j)' <=> Answering(v, j)) /\ (Owing(v, j)' <=> Owing(v, j))
  <2> SUFFICES ASSUME NEW v \in Workers, NEW j \in Nodes
               PROVE  /\ s \in Threads
                      /\ Waiting(v, j)' <=> Waiting(v, j)
                      /\ Due(v, j)' <=> Due(v, j)
                      /\ j # k => (Answering(v, j)' <=> Answering(v, j)) /\ (Owing(v, j)' <=> Owing(v, j))
    OBVIOUS
  <2>1. s # v /\ (j # k => s # Server(j))
    BY <1>1, <1>3, <1>4, ServerFacts
  <2> QED BY <1>1, <2>1, RolesOfOthers
<1>8. \A v \in Workers :
        /\ Answering(v, k) <=> (v[1] = n /\ StealTag(v[2]) = tag)
        /\ ~Owing(v, k) /\ ~Answering(v, k)'
        /\ Owing(v, k)' <=> (v[1] = n /\ StealTag(v[2]) = tag /\ pc'[s] = "send_args")
  <2> SUFFICES ASSUME NEW v \in Workers
               PROVE  /\ Answering(v, k) <=> (v[1] = n /\ StealTag(v[2]) = tag)
                      /\ ~Owing(v, k) /\ ~Answering(v, k)'
                      /\ Owing(v, k)' <=> (v[1] = n /\ StealTag(v[2]) = tag /\ pc'[s] = "send_args")
    OBVIOUS
  <2>1. <<n, tag>> = <<v[1], StealTag(v[2])>> <=> (v[1] = n /\ StealTag(v[2]) = tag)
    OBVIOUS
  <2>2. pc'[s] # "reply" /\ peer'[s] = <<n, tag>>
    BY <1>1, <1>4
  <2> QED BY <1>1, <1>3, <1>4, <2>1, <2>2, ServerRole
<1>9. ASSUME NEW w \in Workers, w[1] = n, StealTag(w[2]) = tag PROVE StealOn(w, k)'
  <2>1. StealOn(w, k)
    BY DEF StealInv
  <2>2. /\ Answering(w, k) /\ ~Owing(w, k) /\ ~Answering(w, k)' /\ (Owing(w, k)' <=> pc'[s] = "send_args")
        /\ (Waiting(w, k)' <=> Waiting(w, k)) /\ (Due(w, k)' <=> Due(w, k))
    BY <1>7, <1>8, <1>9
  <2>3. \A M : Num(ToVictim(w, k), M) \in Nat /\ Num(ToThief(w, k), M) \in Nat
    BY StealTypes
  <2>4. /\ Num(ToVictim(w, k), Requests(w)) \in Nat /\ Num(ToThief(w, k), Replies) \in Nat
        /\ Num(ToThief(w, k), Payloads) \in Nat /\ Num(ToThief(w, k), Loads(w)) \in Nat
    BY <2>3
  <2>5. Waiting(w, k) /\ Num(ToVictim(w, k), Requests(w)) = 0 /\ Num(ToThief(w, k), Replies) = 0
    BY <2>1, <2>2, <2>4 DEF StealOn, One
  <2>6. ~Due(w, k)
    BY <2>5, WorkerRole DEF Inside, InFirst, InSecond
  <2>7. ToThief(w, k) = <<>>
    BY <2>1, <2>5, <2>6, NothingComes
  <2>8. /\ ToThief(w, k)' = Append(ToThief(w, k), msg)
        /\ \A M : Num(ToThief(w, k)', M) = Num(ToThief(w, k), M) + One(msg \in M)
    BY <1>1, <1>2, <1>3, <1>9, ThiefPost
  <2>9. \A M : Num(ToThief(w, k), M) = 0
    BY <2>7, NumEmpty
  <2>10. /\ msg \in Replies /\ msg \notin Payloads /\ msg.type # "argument"
         /\ msg \in Loads(w) <=> pc'[s] = "send_args"
    <3>1. /\ msg \in Replies <=> msg.type \in {"work", "no_work"}
          /\ msg \in Payloads <=> msg.type = "argument"
          /\ msg \in Loads(w) <=> msg.type = "work" /\ ArgMsgs # 0 /\ Home(msg.body) # w[1]
      BY <1>1, LoadFacts
    <3>2. msg.type \in {"work", "no_work"}
      BY <1>2
    <3>3. pc'[s] = "send_args" <=> msg.type = "work" /\ ArgMsgs # 0 /\ Home(msg.body) # w[1]
      BY <1>1, <1>2, <1>4, <1>9
    <3> QED BY <3>1, <3>2, <3>3
  <2>11. /\ Num(ToThief(w, k)', Replies) = 1 /\ Num(ToThief(w, k)', Payloads) = 0
         /\ Num(ToThief(w, k)', Loads(w)) = One(pc'[s] = "send_args")
    BY <2>8, <2>9, <2>10 DEF One
  <2>12. Head(ToThief(w, k)') = msg
    BY <2>7, <2>8
  <2>13. /\ Replies' = Replies /\ Payloads' = Payloads /\ Requests(w)' = Requests(w)
         /\ Loads(w)' = Loads(w)
    BY <1>4, StealSets
  <2>14. Num(ToVictim(w, k)', Requests(w)) = 0
    BY <1>5, <2>5
  <2> HIDE DEF Waiting, Due, Answering, Owing, ToThief, ToVictim, Replies, Payloads, Requests, Loads, Num
  <2>15. Num(ToVictim(w, k)', Requests(w)') + Num(ToThief(w, k)', Replies') + One(Answering(w, k)')
           = One(Waiting(w, k)')
    BY <2>2, <2>5, <2>11, <2>13, <2>14 DEF One
  <2>16. Num(ToThief(w, k)', Payloads') + One(Owing(w, k)')
           = Num(ToThief(w, k)', Loads(w)') + One(Due(w, k)')
    BY <2>2, <2>6, <2>11, <2>13 DEF One
  <2>17. Head(ToThief(w, k)').type # "argument"
    BY <2>10, <2>12
  <2> QED BY <2>15, <2>16, <2>17 DEF StealOn
<1>10. \A v \in Workers, j \in Nodes : ~(v[1] = n /\ StealTag(v[2]) = tag /\ j = k) =>
          (Answering(v, j)' <=> Answering(v, j)) /\ (Owing(v, j)' <=> Owing(v, j))
  BY <1>7, <1>8
<1>11. \A v \in Workers, j \in Nodes : ~(v[1] = n /\ StealTag(v[2]) = tag /\ j = k) =>
          /\ Waiting(v, j)' <=> Waiting(v, j)
          /\ Due(v, j)' <=> Due(v, j)
          /\ Answering(v, j)' <=> Answering(v, j)
          /\ Owing(v, j)' <=> Owing(v, j)
          /\ ToThief(v, j)' = ToThief(v, j)
          /\ Num(ToVictim(v, j)', Requests(v)) = Num(ToVictim(v, j), Requests(v))
  BY <1>5, <1>6, <1>7, <1>10
<1> HIDE DEF Waiting, Due, Answering, Owing, ToThief, ToVictim, Requests, Num, StealOn
<1> QED BY <1>1, <1>4, <1>9, <1>11, StealStep

LEMMA SendArgumentsSteal ==
  ASSUME ShapeInv, Same, StealInv, NEW s \in Threads, SendArguments(s), UNCHANGED bvars
  PROVE  StealInv'
<1>0. PICK n \in Nodes, tag \in Tags : n = peer[s][1] /\ tag = peer[s][2]
  BY Now
<1>1. /\ Alone(s) /\ pc[s] = "send_args" /\ peer'[s] = peer[s] /\ pc'[s] = AfterSend(s)
      /\ s \in Servers => tag \in StealTags
      /\ s \in Workers => tag = s[2]
  BY <1>0, SendArgumentsShape
<1>2. PICK msg \in Messages(tag) : msg.type = "argument" /\ Post(s[1], n, tag, msg)
  BY <1>0, SendArgumentsShape
<1>3. SetupInv /\ Channels /\ UNCHANGED parent /\ s[1] \in Nodes /\ peer[s] = <<n, tag>>
  <2>1. peer[s] \in Nodes \X Tags /\ s[1] \in Nodes
    BY Now
  <2> QED BY <1>0, <2>1 DEF ShapeInv, SendArguments, Application
<1>4. CASE s \in Workers
  <2>1. tag \notin StealTags
    BY <1>1, <1>3, <1>4, TagFacts
  <2>2. QuietMail
    BY <1>2, <1>3, <2>1 DEF QuietMail
  <2>3. ~IsServer(s)
    BY <1>3, <1>4, ServerFacts
  <2>4. RoleOf(s, pc[s]) = "none" /\ RoleOf(s, pc'[s]) = "none"
    BY <1>1, <2>3 DEF RoleOf, AfterSend, Inside, InFirst, InSecond
  <2> QED BY <1>1, <1>3, <2>2, <2>4, StealQuiet
<1>5. CASE s \in Servers
  <2>1. PICK k \in Nodes : k = s[1] /\ s = Server(k)
    BY <1>3, <1>5, ServerFacts
  <2>2. tag \in StealTags /\ pc'[s] = "serve"
    BY <1>1, <1>3, <1>5, ServerFacts DEF AfterSend
  <2>3. \A v \in Workers, j \in Nodes : Num(ToVictim(v, j)', Requests(v)) = Num(ToVictim(v, j), Requests(v))
    BY <1>2, <2>1, <2>2, ThiefPost
  <2>4. \A v \in Workers, j \in Nodes : ~(v[1] = n /\ StealTag(v[2]) = tag /\ j = k) =>
          ToThief(v, j)' = ToThief(v, j)
    BY <1>2, <2>1, <2>2, ThiefPost
  <2>5. \A v \in Workers, j \in Nodes :
          /\ Waiting(v, j)' <=> Waiting(v, j)
          /\ Due(v, j)' <=> Due(v, j)
          /\ j # k => (Answering(v, j)' <=> Answering(v, j)) /\ (Owing(v, j)' <=> Owing(v, j))
    <3> SUFFICES ASSUME NEW v \in Workers, NEW j \in Nodes
                 PROVE  /\ Waiting(v, j)' <=> Waiting(v, j)
                        /\ Due(v, j)' <=> Due(v, j)
                        /\ j # k => (Answering(v, j)' <=> Answering(v, j)) /\ (Owing(v, j)' <=> Owing(v, j))
      OBVIOUS
    <3>1. s # v /\ (j # k => s # Server(j))
      BY <1>3, <1>5, <2>1, ServerFacts
    <3> QED BY <1>1, <3>1, RolesOfOthers
  <2>6. \A v \in Workers :
          /\ Owing(v, k) <=> (v[1] = n /\ StealTag(v[2]) = tag)
          /\ ~Owing(v, k)' /\ ~Answering(v, k) /\ ~Answering(v, k)'
    <3> SUFFICES ASSUME NEW v \in Workers
                 PROVE  /\ Owing(v, k) <=> (v[1] = n /\ StealTag(v[2]) = tag)
                        /\ ~Owing(v, k)' /\ ~Answering(v, k) /\ ~Answering(v, k)'
      OBVIOUS
    <3>1. <<n, tag>> = <<v[1], StealTag(v[2])>> <=> (v[1] = n /\ StealTag(v[2]) = tag)
      OBVIOUS
    <3> QED BY <1>1, <1>3, <2>1, <2>2, <3>1, ServerRole
  <2>7. ASSUME NEW w \in Workers, w[1] = n, StealTag(w[2]) = tag PROVE StealOn(w, k)'
    <3>1. StealOn(w, k)
      BY DEF StealInv
    <3>2. /\ Owing(w, k) /\ ~Owing(w, k)' /\ ~Answering(w, k)' /\ ~Answering(w, k)
          /\ (Waiting(w, k)' <=> Waiting(w, k)) /\ (Due(w, k)' <=> Due(w, k))
      BY <2>5, <2>6, <2>7
    <3>3. \A M : Num(ToVictim(w, k), M) \in Nat /\ Num(ToThief(w, k), M) \in Nat
      BY StealTypes
    <3>4. /\ Num(ToVictim(w, k), Requests(w)) \in Nat /\ Num(ToThief(w, k), Replies) \in Nat
          /\ Num(ToThief(w, k), Payloads) \in Nat /\ Num(ToThief(w, k), Loads(w)) \in Nat
      BY <3>3
    <3>5. /\ ToThief(w, k)' = Append(ToThief(w, k), msg)
          /\ \A M : Num(ToThief(w, k)', M) = Num(ToThief(w, k), M) + One(msg \in M)
      BY <1>2, <2>1, <2>2, <2>7, ThiefPost
    <3>6. msg \notin Replies /\ msg \in Payloads /\ msg \notin Loads(w)
      BY <1>2, <2>2, LoadFacts
    <3>7. /\ Num(ToThief(w, k)', Replies) = Num(ToThief(w, k), Replies)
          /\ Num(ToThief(w, k)', Payloads) = Num(ToThief(w, k), Payloads) + 1
          /\ Num(ToThief(w, k)', Loads(w)) = Num(ToThief(w, k), Loads(w))
      BY <3>4, <3>5, <3>6 DEF One
    <3>8. /\ Replies' = Replies /\ Payloads' = Payloads /\ Requests(w)' = Requests(w)
          /\ Loads(w)' = Loads(w)
      BY <1>3, StealSets
    <3>9. Num(ToVictim(w, k)', Requests(w)) = Num(ToVictim(w, k), Requests(w))
      BY <2>3
    <3>10. Waiting(w, k) => ToThief(w, k) # <<>>
      <4>1. Waiting(w, k) => ~Due(w, k)
        BY WorkerRole DEF Inside, InFirst, InSecond
      <4>2. Waiting(w, k) => Num(ToThief(w, k), Loads(w)) >= 1
        BY <3>1, <3>2, <3>4, <4>1 DEF StealOn, One
      <4> QED BY <4>2, ThiefChannel
    <3>11. ToThief(w, k) # <<>> => Head(ToThief(w, k)') = Head(ToThief(w, k))
      <4>1. ToThief(w, k) \in Seq(Messages(tag))
        BY <2>7, StealTypes
      <4> QED BY <3>5, <4>1, AppendProperties
    <3> HIDE DEF Waiting, Due, Answering, Owing, ToThief, ToVictim, Replies, Payloads, Requests, Loads, Num
    <3>12. Num(ToVictim(w, k)', Requests(w)') + Num(ToThief(w, k)', Replies') + One(Answering(w, k)')
             = One(Waiting(w, k)')
      BY <3>1, <3>2, <3>7, <3>8, <3>9 DEF StealOn, One
    <3>13. Num(ToThief(w, k)', Payloads') + One(Owing(w, k)')
             = Num(ToThief(w, k)', Loads(w)') + One(Due(w, k)')
      BY <3>1, <3>2, <3>4, <3>7, <3>8 DEF StealOn, One
    <3>14. Waiting(w, k)' => Head(ToThief(w, k)').type # "argument"
      BY <3>1, <3>2, <3>10, <3>11 DEF StealOn
    <3> QED BY <3>12, <3>13, <3>14 DEF StealOn
  <2>8. \A v \in Workers, j \in Nodes : ~(v[1] = n /\ StealTag(v[2]) = tag /\ j = k) =>
            (Answering(v, j)' <=> Answering(v, j)) /\ (Owing(v, j)' <=> Owing(v, j))
    BY <2>5, <2>6
  <2>9. \A v \in Workers, j \in Nodes : ~(v[1] = n /\ StealTag(v[2]) = tag /\ j = k) =>
            /\ Waiting(v, j)' <=> Waiting(v, j)
            /\ Due(v, j)' <=> Due(v, j)
            /\ Answering(v, j)' <=> Answering(v, j)
            /\ Owing(v, j)' <=> Owing(v, j)
            /\ ToThief(v, j)' = ToThief(v, j)
            /\ Num(ToVictim(v, j)', Requests(v)) = Num(ToVictim(v, j), Requests(v))
    BY <2>3, <2>4, <2>5, <2>8
  <2> HIDE DEF Waiting, Due, Answering, Owing, ToThief, ToVictim, Requests, Num, StealOn
  <2> QED BY <1>3, <2>2, <2>7, <2>9, StealStep
<1> QED BY <1>3, <1>4, <1>5, ServerFacts

(* The message that a thief waits for when it waits for arguments.         *)
LEMMA ArgumentComes ==
  ASSUME ShapeInv, StealInv, NEW w \in Workers, NEW k \in Nodes, Due(w, k), ToThief(w, k) # <<>>
  PROVE  Head(ToThief(w, k)).type = "argument"
<1>1. StealOn(w, k) /\ ~Waiting(w, k)
  BY WorkerRole DEF StealInv, Inside, InFirst, InSecond
<1>2. /\ Num(ToVictim(w, k), Requests(w)) \in Nat /\ Num(ToThief(w, k), Replies) \in Nat
  BY StealTypes
<1>3. Num(ToThief(w, k), Replies) = 0
  BY <1>1, <1>2 DEF StealOn, One
<1>4. Head(ToThief(w, k)) \notin Replies /\ Head(ToThief(w, k)) \in Replies \cup Payloads
  <2>1. /\ Head(ToThief(w, k)) \in Replies \cup Payloads
        /\ \A M : Head(ToThief(w, k)) \in M => Num(ToThief(w, k), M) >= 1
    BY SMTT(30), ThiefChannel
  <2>2. Head(ToThief(w, k)) \in Replies => Num(ToThief(w, k), Replies) >= 1
    BY SMTT(30), <2>1
  <2> QED BY <1>3, <2>1, <2>2
<1> QED BY <1>4 DEF Payloads

LEMMA ReceiveArgumentsSteal ==
  ASSUME ShapeInv, Same, StealInv, NEW w \in Threads, ReceiveArguments(w), UNCHANGED bvars
  PROVE  /\ StealInv'
         /\ w \in Workers => Head(chan[peer[w][1]][w[1]][peer[w][2]]).type = "argument"
<1>p. pc[w] = "held_args"
  BY SMTT(30), Now DEF ReceiveArguments, WorkerFits, ServerFits, SearchPlaces, InApplication, ServerPlaces,
     ShapeInv, Threads
<1>0. PICK k \in Nodes, tag \in Tags, t \in Tasks : k = peer[w][1] /\ tag = peer[w][2] /\ t = hand[w]
  BY <1>p, Now DEF WithTask
<1>1. /\ Alone(w) /\ chan[k][w[1]][tag] # <<>> /\ Take(k, w[1], tag) /\ UNCHANGED <<peer, parent>>
      /\ \/ w \in Workers /\ tag = StealTag(w[2]) /\ pc'[w] = "execute"
         \/ w \in Servers /\ tag \in WorkerVps /\ \E b \in BOOLEAN : Enqueued(w, t, b)
  BY ZenonT(30), <1>0, ReceiveArgumentsShape DEF ReceiveArguments, Application
<1>2. PICK msg : msg = Head(chan[k][w[1]][tag])
  OBVIOUS
<1>3. SetupInv /\ Channels /\ w[1] \in Nodes /\ peer[w] = <<k, tag>>
  <2>1. peer[w] \in Nodes \X Tags /\ w[1] \in Nodes
    BY Now
  <2> QED BY <1>0, <2>1 DEF ShapeInv
<1>4. msg \in Messages(tag) /\ Legal(tag, msg)
  BY <1>1, <1>2, <1>3, HeadCounts
<1>5. CASE w \in Servers /\ tag \in WorkerVps /\ \E b \in BOOLEAN : Enqueued(w, t, b)
  <2>1. tag \in Tags \ StealTags /\ w \notin Workers /\ IsServer(w)
    BY <1>3, <1>5, TagFacts, ServerFacts
  <2>2. msg.type # "steal"
    BY <1>4, <1>5 DEF Legal
  <2>3. QuietMail
    BY <1>1, <1>2, <1>3, <2>1, <2>2 DEF QuietMail
  <2>4. pc'[w] \in {"execute", "serve"}
    BY <1>1, <1>5, EnqueuedFits
  <2>5. RoleOf(w, pc[w]) = "none" /\ RoleOf(w, pc'[w]) = "none"
    BY SMTT(30), <1>p, <2>1, <2>4 DEF RoleOf
  <2> QED BY <1>1, <2>1, <2>3, <2>5, StealQuiet
<1>6. CASE w \in Workers /\ tag = StealTag(w[2]) /\ pc'[w] = "execute"
  <2>1. tag \in StealTags
    BY <1>6, StealTypes
  <2>2. Due(w, k) /\ ToThief(w, k) # <<>> /\ Head(ToThief(w, k)) = msg
    BY <1>p, <1>1, <1>2, <1>3, <1>6, WorkerRole DEF ToThief
  <2>3. msg.type = "argument"
    BY <1>6, <2>2, ArgumentComes
  <2>4. \A v \in Workers, j \in Nodes : Num(ToVictim(v, j)', Requests(v)) = Num(ToVictim(v, j), Requests(v))
    BY <1>1, <1>2, <1>3, <2>1, ThiefTake
  <2>5. \A v \in Workers, j \in Nodes : ~(v[1] = w[1] /\ StealTag(v[2]) = tag /\ j = k) =>
          ToThief(v, j)' = ToThief(v, j)
    BY <1>1, <1>2, <1>3, <2>1, ThiefTake
  <2>6. \A M : /\ Num(ToThief(w, k), M) = Num(ToThief(w, k)', M) + One(msg \in M)
               /\ Num(ToThief(w, k)', M) \in Nat
    BY <1>1, <1>2, <1>3, <1>6, <2>1, ThiefTake
  <2>7. /\ ~Waiting(w, k) /\ ~Waiting(w, k)' /\ ~Due(w, k)'
        /\ \A j \in Nodes : j # k => ~Waiting(w, j) /\ ~Due(w, j) /\ ~Waiting(w, j)' /\ ~Due(w, j)'
    <3>1. ASSUME NEW j \in Nodes
          PROVE  ~Waiting(w, j) /\ ~Waiting(w, j)' /\ ~Due(w, j)' /\ (Due(w, j) => j = k)
      BY <1>p, <1>1, <1>3, <1>6, WorkerRole DEF Inside, InFirst, InSecond
    <3> QED BY <3>1
  <2>8. \A v \in Workers, j \in Nodes :
          /\ v # w => (Waiting(v, j)' <=> Waiting(v, j)) /\ (Due(v, j)' <=> Due(v, j))
          /\ Answering(v, j)' <=> Answering(v, j)
          /\ Owing(v, j)' <=> Owing(v, j)
    BY <1>1, <1>6, RolesOfOthers, StealTypes
  <2>9. StealOn(w, k)'
    <3>1. StealOn(w, k)
      BY <1>6 DEF StealInv
    <3>2. msg \notin Replies /\ msg \in Payloads /\ msg \notin Loads(w)
      BY <1>4, <1>6, <2>1, <2>3, LoadFacts
    <3>3. /\ Num(ToThief(w, k), Replies) = Num(ToThief(w, k)', Replies)
          /\ Num(ToThief(w, k)', Replies) \in Nat
      <4>1. Num(ToThief(w, k), Replies) = Num(ToThief(w, k)', Replies) + One(msg \in Replies)
            /\ Num(ToThief(w, k)', Replies) \in Nat
        BY <2>6
      <4> QED BY <4>1, <3>2 DEF One
    <3>4. /\ Num(ToThief(w, k), Payloads) = Num(ToThief(w, k)', Payloads) + 1
          /\ Num(ToThief(w, k)', Payloads) \in Nat
      <4>1. Num(ToThief(w, k), Payloads) = Num(ToThief(w, k)', Payloads) + One(msg \in Payloads)
            /\ Num(ToThief(w, k)', Payloads) \in Nat
        BY <2>6
      <4> QED BY <4>1, <3>2 DEF One
    <3>5. /\ Num(ToThief(w, k), Loads(w)) = Num(ToThief(w, k)', Loads(w))
          /\ Num(ToThief(w, k)', Loads(w)) \in Nat
      <4>1. Num(ToThief(w, k), Loads(w)) = Num(ToThief(w, k)', Loads(w)) + One(msg \in Loads(w))
            /\ Num(ToThief(w, k)', Loads(w)) \in Nat
        BY <2>6
      <4> QED BY <4>1, <3>2 DEF One
    <3>6. /\ Replies' = Replies /\ Payloads' = Payloads /\ Requests(w)' = Requests(w)
          /\ Loads(w)' = Loads(w)
      BY <1>1, StealSets
    <3>7. Num(ToVictim(w, k)', Requests(w)) = Num(ToVictim(w, k), Requests(w))
      BY <1>6, <2>4
    <3>8. (Answering(w, k)' <=> Answering(w, k)) /\ (Owing(w, k)' <=> Owing(w, k))
      BY <1>6, <2>8
    <3> HIDE DEF Waiting, Due, Answering, Owing, ToThief, ToVictim, Replies, Payloads, Requests, Loads, Num
    <3>9. Num(ToVictim(w, k)', Requests(w)') + Num(ToThief(w, k)', Replies') + One(Answering(w, k)')
            = One(Waiting(w, k)')
      BY <2>7, <3>1, <3>3, <3>6, <3>7, <3>8 DEF StealOn, One
    <3>10. Num(ToThief(w, k)', Payloads') + One(Owing(w, k)')
             = Num(ToThief(w, k)', Loads(w)') + One(Due(w, k)')
      BY <2>2, <2>7, <3>1, <3>4, <3>5, <3>6, <3>8 DEF StealOn, One
    <3> QED BY <2>7, <3>9, <3>10 DEF StealOn
  <2>10. \A v \in Workers : v[1] = w[1] /\ StealTag(v[2]) = tag => StealOn(v, k)'
    <3> SUFFICES ASSUME NEW v \in Workers, v[1] = w[1], StealTag(v[2]) = tag PROVE StealOn(v, k)'
      OBVIOUS
    <3>1. v = w
      BY <1>6, OneThief
    <3> QED BY <2>9, <3>1
  <2>11. \A v \in Workers, j \in Nodes : ~(v[1] = w[1] /\ StealTag(v[2]) = tag /\ j = k) =>
            (Waiting(v, j)' <=> Waiting(v, j)) /\ (Due(v, j)' <=> Due(v, j))
    BY <1>6, <2>7, <2>8
  <2>12. \A v \in Workers, j \in Nodes : ~(v[1] = w[1] /\ StealTag(v[2]) = tag /\ j = k) =>
            /\ Waiting(v, j)' <=> Waiting(v, j)
            /\ Due(v, j)' <=> Due(v, j)
            /\ Answering(v, j)' <=> Answering(v, j)
            /\ Owing(v, j)' <=> Owing(v, j)
            /\ ToThief(v, j)' = ToThief(v, j)
            /\ Num(ToVictim(v, j)', Requests(v)) = Num(ToVictim(v, j), Requests(v))
    BY <2>4, <2>5, <2>8, <2>11
  <2>13. StealInv'
    <3> HIDE DEF Waiting, Due, Answering, Owing, ToThief, ToVictim, Requests, Num, StealOn
    <3> QED BY <1>1, <1>3, <2>1, <2>10, <2>12, StealStep
  <2> QED BY <1>0, <1>2, <2>3, <2>13
<1> QED BY <1>1, <1>5, <1>6

LEMMA ServeStealSteal ==
  ASSUME ShapeInv, Same, StealInv, NEW s \in Servers, NEW n \in Nodes, ServeSteal(s, n), UNCHANGED bvars
  PROVE  StealInv'
<1>1. PICK msg : msg = Head(chan[n][s[1]][MaxNvps])
  OBVIOUS
<1>2. /\ Alone(s) /\ s \in Threads /\ pc[s] = "serve" /\ msg \in Messages(MaxNvps) /\ msg.type = "steal"
      /\ msg.vp \in WorkerVps /\ pc'[s] = "reply" /\ peer'[s] = <<n, StealTag(msg.vp)>>
  BY <1>1, ServeStealShape
<1>3. /\ SetupInv /\ Channels /\ MaxNvps \in Tags /\ MaxNvps \notin StealTags /\ UNCHANGED parent
      /\ chan[n][s[1]][MaxNvps] # <<>> /\ Take(n, s[1], MaxNvps)
  BY <1>1, ServesEffect, TagFacts DEF ServeSteal, Application, ShapeInv
<1>4. PICK k \in Nodes : k = s[1] /\ s = Server(k)
  BY <1>3, ServerFacts
<1>t. PICK tag \in StealTags : tag = StealTag(msg.vp)
  BY <1>2 DEF StealTags
<1>p. /\ \A a \in Nodes, b \in Nodes, g \in Tags : <<a, b, g>> # <<n, k, MaxNvps>> =>
           chan'[a][b][g] = chan[a][b][g]
      /\ \A a \in Nodes, b \in Nodes, g \in Tags : \A M :
           Num(chan[a][b][g], M)
             = Num(chan'[a][b][g], M) + One(<<a, b, g>> = <<n, k, MaxNvps>> /\ msg \in M)
      /\ Channels'
  <2>1. /\ k \in Nodes /\ n \in Nodes /\ MaxNvps \in Tags /\ SetupInv /\ Channels /\ Same
        /\ chan[n][k][MaxNvps] # <<>> /\ Take(n, k, MaxNvps) /\ msg = Head(chan[n][k][MaxNvps])
    BY <1>1, <1>3, <1>4
  <2> HIDE DEF Take, Channels, SetupInv, Same
  <2> QED BY <2>1, TakeEffect
<1>q. \A a \in Nodes, b \in Nodes, g \in Tags : \A M : Num(chan'[a][b][g], M) \in Nat
  <2>1. \A a \in Nodes, b \in Nodes, g \in Tags : chan'[a][b][g] \in Seq(AnyMessage)
    BY <1>p DEF Channels, Same
  <2> QED BY <2>1, NumType
<1>5. \A v \in Workers, j \in Nodes : ToThief(v, j)' = ToThief(v, j)
  <2> SUFFICES ASSUME NEW v \in Workers, NEW j \in Nodes PROVE ToThief(v, j)' = ToThief(v, j)
    OBVIOUS
  <2>1. v[1] \in Nodes /\ StealTag(v[2]) \in Tags /\ StealTag(v[2]) # MaxNvps
    BY StealTypes
  <2>2. <<j, v[1], StealTag(v[2])>> # <<n, k, MaxNvps>>
    BY <2>1
  <2> QED BY <1>p, <2>1, <2>2 DEF ToThief
<1>6. \A v \in Workers, j \in Nodes :
        /\ Num(ToVictim(v, j), Requests(v))
             = Num(ToVictim(v, j)', Requests(v)) + One(v[1] = n /\ StealTag(v[2]) = tag /\ j = k)
        /\ Num(ToVictim(v, j)', Requests(v)) \in Nat
  <2> SUFFICES ASSUME NEW v \in Workers, NEW j \in Nodes
               PROVE  /\ Num(ToVictim(v, j), Requests(v))
                           = Num(ToVictim(v, j)', Requests(v))
                               + One(v[1] = n /\ StealTag(v[2]) = tag /\ j = k)
                      /\ Num(ToVictim(v, j)', Requests(v)) \in Nat
    OBVIOUS
  <2>1. v[1] \in Nodes /\ v[2] \in WorkerVps
    BY StealTypes
  <2>2. msg \in Requests(v) <=> v[2] = msg.vp
    BY <1>2, <1>3, HeldFacts DEF Requests
  <2>s. v[2] = msg.vp <=> StealTag(v[2]) = tag
    BY <1>2, <1>3, <1>t, <2>1, TagFacts
  <2>3. /\ Num(chan[v[1]][j][MaxNvps], Requests(v))
             = Num(chan'[v[1]][j][MaxNvps], Requests(v))
                 + One(<<v[1], j, MaxNvps>> = <<n, k, MaxNvps>> /\ msg \in Requests(v))
        /\ Num(chan'[v[1]][j][MaxNvps], Requests(v)) \in Nat
    <3>1. \A b \in Nodes, g \in Tags : \A M :
            Num(chan[v[1]][b][g], M)
              = Num(chan'[v[1]][b][g], M) + One(<<v[1], b, g>> = <<n, k, MaxNvps>> /\ msg \in M)
      BY <1>p, <2>1
    <3>2. \A b \in Nodes, g \in Tags : \A M : Num(chan'[v[1]][b][g], M) \in Nat
      BY <1>q, <2>1
    <3>3. Num(chan'[v[1]][j][MaxNvps], Requests(v)) \in Nat
      BY <1>3, <3>2
    <3>4. Num(chan[v[1]][j][MaxNvps], Requests(v))
             = Num(chan'[v[1]][j][MaxNvps], Requests(v))
                 + One(<<v[1], j, MaxNvps>> = <<n, k, MaxNvps>> /\ msg \in Requests(v))
      BY <1>3, <3>1
    <3> QED BY <3>3, <3>4
  <2>4. (<<v[1], j, MaxNvps>> = <<n, k, MaxNvps>> /\ msg \in Requests(v))
          <=> (v[1] = n /\ StealTag(v[2]) = tag /\ j = k)
    BY <2>2, <2>s
  <2> QED BY <2>3, <2>4 DEF ToVictim, One
<1>7. \A v \in Workers, j \in Nodes :
        /\ Waiting(v, j)' <=> Waiting(v, j)
        /\ Due(v, j)' <=> Due(v, j)
        /\ j # k => (Answering(v, j)' <=> Answering(v, j)) /\ (Owing(v, j)' <=> Owing(v, j))
  <2> SUFFICES ASSUME NEW v \in Workers, NEW j \in Nodes
               PROVE  /\ Waiting(v, j)' <=> Waiting(v, j)
                      /\ Due(v, j)' <=> Due(v, j)
                      /\ j # k => (Answering(v, j)' <=> Answering(v, j)) /\ (Owing(v, j)' <=> Owing(v, j))
    OBVIOUS
  <2>1. s # v /\ (j # k => s # Server(j))
    BY <1>3, <1>4, ServerFacts
  <2> QED BY <1>2, <2>1, RolesOfOthers
<1>8. \A v \in Workers :
        /\ Answering(v, k)' <=> (v[1] = n /\ StealTag(v[2]) = tag)
        /\ ~Owing(v, k) /\ ~Owing(v, k)' /\ ~Answering(v, k)
  <2> SUFFICES ASSUME NEW v \in Workers
               PROVE  /\ Answering(v, k)' <=> (v[1] = n /\ StealTag(v[2]) = tag)
                      /\ ~Owing(v, k) /\ ~Owing(v, k)' /\ ~Answering(v, k)
    OBVIOUS
  <2>1. <<n, tag>> = <<v[1], StealTag(v[2])>> <=> (v[1] = n /\ StealTag(v[2]) = tag)
    OBVIOUS
  <2> QED BY <1>2, <1>4, <1>t, <2>1, ServerRole
<1>9. ASSUME NEW w \in Workers, w[1] = n, StealTag(w[2]) = tag PROVE StealOn(w, k)'
  <2>1. StealOn(w, k)
    BY DEF StealInv
  <2>2. /\ ~Answering(w, k) /\ ~Owing(w, k) /\ Answering(w, k)' /\ ~Owing(w, k)'
        /\ (Waiting(w, k)' <=> Waiting(w, k)) /\ (Due(w, k)' <=> Due(w, k))
    BY <1>7, <1>8, <1>9
  <2>3. /\ Num(ToVictim(w, k), Requests(w)) = Num(ToVictim(w, k)', Requests(w)) + 1
        /\ Num(ToVictim(w, k)', Requests(w)) \in Nat
    <3>1. /\ Num(ToVictim(w, k), Requests(w))
               = Num(ToVictim(w, k)', Requests(w)) + One(w[1] = n /\ StealTag(w[2]) = tag /\ k = k)
          /\ Num(ToVictim(w, k)', Requests(w)) \in Nat
      BY <1>6
    <3> QED BY <3>1, <1>9 DEF One
  <2>4. Num(ToThief(w, k), Replies) \in Nat
    BY StealTypes
  <2>5. ToThief(w, k)' = ToThief(w, k)
    BY <1>5
  <2>6. /\ Replies' = Replies /\ Payloads' = Payloads /\ Requests(w)' = Requests(w)
        /\ Loads(w)' = Loads(w)
    BY <1>3, StealSets
  <2> HIDE DEF Waiting, Due, Answering, Owing, ToThief, ToVictim, Replies, Payloads, Requests, Loads, Num
  <2>7. Num(ToVictim(w, k)', Requests(w)') + Num(ToThief(w, k)', Replies') + One(Answering(w, k)')
           = One(Waiting(w, k)')
    BY <2>1, <2>2, <2>3, <2>4, <2>5, <2>6 DEF StealOn, One
  <2>8. Num(ToThief(w, k)', Payloads') + One(Owing(w, k)')
           = Num(ToThief(w, k)', Loads(w)') + One(Due(w, k)')
    BY <2>1, <2>2, <2>5, <2>6 DEF StealOn, One
  <2>9. Waiting(w, k)' /\ ToThief(w, k)' # <<>> => Head(ToThief(w, k)').type # "argument"
    BY <2>1, <2>2, <2>5 DEF StealOn
  <2> QED BY <2>7, <2>8, <2>9 DEF StealOn
<1>10. ASSUME NEW v \in Workers, NEW j \in Nodes, ~(v[1] = n /\ StealTag(v[2]) = tag /\ j = k)
       PROVE  /\ (Answering(v, j)' <=> Answering(v, j)) /\ (Owing(v, j)' <=> Owing(v, j))
              /\ Num(ToVictim(v, j)', Requests(v)) = Num(ToVictim(v, j), Requests(v))
  <2>1. (Answering(v, j)' <=> Answering(v, j)) /\ (Owing(v, j)' <=> Owing(v, j))
    BY <1>7, <1>8, <1>10
  <2>2. /\ Num(ToVictim(v, j), Requests(v))
             = Num(ToVictim(v, j)', Requests(v)) + One(v[1] = n /\ StealTag(v[2]) = tag /\ j = k)
        /\ Num(ToVictim(v, j)', Requests(v)) \in Nat
    BY <1>6
  <2>3. Num(ToVictim(v, j)', Requests(v)) = Num(ToVictim(v, j), Requests(v))
    BY <1>10, <2>2 DEF One
  <2> QED BY <2>1, <2>3
<1>11. \A v \in Workers, j \in Nodes : ~(v[1] = n /\ StealTag(v[2]) = tag /\ j = k) =>
          /\ Waiting(v, j)' <=> Waiting(v, j)
          /\ Due(v, j)' <=> Due(v, j)
          /\ Answering(v, j)' <=> Answering(v, j)
          /\ Owing(v, j)' <=> Owing(v, j)
          /\ ToThief(v, j)' = ToThief(v, j)
          /\ Num(ToVictim(v, j)', Requests(v)) = Num(ToVictim(v, j), Requests(v))
  BY <1>5, <1>7, <1>10
<1> HIDE DEF Waiting, Due, Answering, Owing, ToThief, ToVictim, Requests, Num, StealOn
<1> QED BY <1>3, <1>9, <1>11, StealStep

(* A step of a thread that plays no role.                                  *)
NoRole == {"app", "send", "switch", "bcast", "offer", "ssend", "wait", "poll", "repoll", "ask", "reask",
           "execute", "run", "send_results", "serve", "push", "get_results", "get_data"}

LEMMA NoRolePlaces ==
  ASSUME NEW th, NEW q
  PROVE  /\ q \in NoRole => RoleOf(th, q) = "none"
         /\ q = "get_args" /\ IsServer(th) => RoleOf(th, q) = "none"
         /\ q = "send_args" /\ ~IsServer(th) => RoleOf(th, q) = "none"
BY DEF NoRole, RoleOf, Inside, InFirst, InSecond

LEMMA StealElsewhere ==
  ASSUME ShapeInv, Same, StealInv, NEW th \in Threads, Alone(th), QuietMail, UNCHANGED parent,
         pc[th] \in NoRole, pc'[th] \in NoRole
  PROVE  StealInv'
BY NoRolePlaces, StealQuiet

(* The messages that QuietMail allows.                                     *)
LEMMA SentQuietly ==
  ASSUME ShapeInv, NEW n \in Nodes, NEW m \in Nodes, NEW tag \in WorkerVps \cup {MaxNvps},
         \E msg \in Messages(tag) : msg.type # "steal" /\ Post(n, m, tag, msg)
  PROVE  QuietMail
<1>1. tag \in Tags \ StealTags
  BY TagFacts DEF ShapeInv
<1> QED BY <1>1 DEF QuietMail

LEMMA TakenQuietly ==
  ASSUME ShapeInv, NEW n \in Nodes, NEW m \in Nodes, NEW tag \in WorkerVps \cup {MaxNvps},
         chan[n][m][tag] # <<>>, Take(n, m, tag), tag \in WorkerVps \/ Head(chan[n][m][tag]).type # "steal"
  PROVE  QuietMail
<1>1. tag \in Tags \ StealTags
  BY TagFacts DEF ShapeInv
<1>2. PICK msg : msg = Head(chan[n][m][tag])
  OBVIOUS
<1>3. Legal(tag, msg)
  BY <1>1, <1>2, HeadCounts
<1>4. msg.type # "steal"
  BY <1>2, <1>3 DEF Legal
<1> QED BY <1>1, <1>2, <1>4 DEF QuietMail

LEMMA ServedQuietly ==
  ASSUME ShapeInv, Same, NEW s \in Servers, NEW n \in Nodes, NEW type, Serves(s, n, type), type # "steal"
  PROVE  QuietMail /\ pc[s] = "serve" /\ s \in Threads
<1>1. PICK msg : msg = Head(chan[n][s[1]][MaxNvps])
  OBVIOUS
<1>2. /\ s \in Threads /\ s[1] \in Nodes /\ pc[s] = "serve" /\ MaxNvps \in Tags /\ msg.type = type
      /\ chan[n][s[1]][MaxNvps] # <<>> /\ Take(n, s[1], MaxNvps)
  BY <1>1, ServesEffect
<1> QED BY <1>1, <1>2, TakenQuietly

(***************************************************************************)
(* The steps that are not part of a steal.                                 *)
(***************************************************************************)
LEMMA WaitSteal ==
  ASSUME ShapeInv, Same, StealInv, NEW c \in Creators, UNCHANGED bvars,
         WaitAll(c) \/ Joined(c) \/ NotYet(c)
  PROVE  StealInv'
<1>1. Alone(c) /\ c \in Threads
  BY WaitShape
<1>2. UNCHANGED <<parent, chan>>
  BY DEF WaitAll, Joined, NotYet, Application
<1>3. pc[c] \in NoRole /\ \E q \in {"wait", "app", "poll"} : Goto(c, q)
  BY DEF WaitAll, Joined, NotYet, NoRole
<1>4. pc'[c] \in NoRole
  BY <1>1, <1>3, WentTo DEF NoRole
<1> QED BY <1>1, <1>2, <1>3, <1>4, StealElsewhere DEF QuietMail

LEMMA SwitchCallSteal ==
  ASSUME ShapeInv, Same, StealInv, NEW c \in Creators, NEW call \in SwitchCalls \cup LocalCalls,
         SwitchCall(c, call), UNCHANGED bvars
  PROVE  StealInv'
<1>1. Alone(c) /\ c \in Threads
  BY SwitchCallShape
<1>2. UNCHANGED <<parent, chan>> /\ pc[c] = "app" /\ (UNCHANGED pc \/ Goto(c, "switch"))
  BY DEF SwitchCall, Application
<1>3. pc[c] \in NoRole /\ pc'[c] \in NoRole
  BY <1>1, <1>2, WentTo DEF NoRole
<1> QED BY <1>1, <1>2, <1>3, StealElsewhere DEF QuietMail

LEMMA SendSwitchSteal ==
  ASSUME ShapeInv, Same, StealInv, NEW c \in Creators, SendSwitch(c), UNCHANGED bvars
  PROVE  StealInv'
<1>1. /\ Alone(c) /\ c \in Threads /\ pc'[c] \in {"switch", "app"}
      /\ \/ UNCHANGED chan
         \/ \E n \in Nodes, msg \in Messages(MaxNvps) :
              msg.type \in SwitchCalls /\ Post(c[1], n, MaxNvps, msg)
  BY SendSwitchShape
<1>2. UNCHANGED parent /\ pc[c] \in NoRole /\ pc'[c] \in NoRole /\ c[1] \in Nodes
  BY <1>1, Now DEF SendSwitch, Application, NoRole
<1>3. QuietMail
  BY <1>1, <1>2, SentQuietly DEF QuietMail, SwitchCalls
<1> QED BY <1>1, <1>2, <1>3, StealElsewhere

LEMMA PrefetchRequestSteal ==
  ASSUME ShapeInv, Same, StealInv, NEW w \in Workers, NEW n \in Nodes, PrefetchRequest(w, n),
         UNCHANGED bvars
  PROVE  StealInv'
<1>1. /\ Alone(w) /\ w \in Threads
      /\ \E msg \in Messages(MaxNvps) : msg.type = "prefetch" /\ Post(w[1], n, MaxNvps, msg)
  BY PrefetchRequestShape
<1>2. UNCHANGED parent /\ pc[w] \in NoRole /\ pc'[w] \in NoRole /\ w[1] \in Nodes
  BY <1>1, Now DEF PrefetchRequest, Application, NoRole
<1>3. QuietMail
  BY <1>1, <1>2, SentQuietly
<1> QED BY <1>1, <1>2, <1>3, StealElsewhere

LEMMA TakeLocalSteal ==
  ASSUME ShapeInv, Same, StealInv, NEW w \in Workers, TakeLocal(w), UNCHANGED bvars
  PROVE  StealInv'
<1>1. Alone(w) /\ w \in Threads /\ pc'[w] = "execute"
  BY TakeLocalShape
<1>2. UNCHANGED <<parent, chan>> /\ pc[w] \in NoRole /\ pc'[w] \in NoRole
  BY <1>1 DEF TakeLocal, Application, NoRole
<1> QED BY <1>1, <1>2, StealElsewhere DEF QuietMail

LEMMA NothingHereSteal ==
  ASSUME ShapeInv, Same, StealInv, NEW w \in Workers, NothingHere(w), UNCHANGED bvars
  PROVE  StealInv'
<1>1. Alone(w) /\ w \in Threads
  BY SearchShape
<1>2. UNCHANGED <<parent, chan>> /\ pc[w] \in NoRole /\ \E q \in {"wait", "repoll"} : Goto(w, q)
  BY DEF NothingHere, AfterSearch, Application, NoRole
<1>3. pc'[w] \in NoRole
  BY <1>1, <1>2, WentTo DEF NoRole
<1> QED BY <1>1, <1>2, <1>3, StealElsewhere DEF QuietMail

LEMMA HoldForReplySteal ==
  ASSUME ShapeInv, Same, StealInv, NEW w \in Workers, HoldForReply(w), UNCHANGED bvars
  PROVE  StealInv'
<1>1. Alone(w) /\ w \in Threads
  BY SearchShape
<1>2. UNCHANGED <<parent, chan, peer>> /\ pc[w] \in {"await", "reawait"}
      /\ \E q \in {"held", "reheld"} : Goto(w, q)
  BY DEF HoldForReply, Application
<1>3. pc'[w] \in {"held", "reheld"}
  BY <1>1, <1>2, WentTo
<1>4. RoleOf(w, pc'[w]) = RoleOf(w, pc[w])
  BY <1>2, <1>3, Now DEF RoleOf, Inside, InFirst, InSecond
<1> QED BY <1>1, <1>2, <1>4, StealQuiet DEF QuietMail

LEMMA StartRoundSteal ==
  ASSUME ShapeInv, Same, StealInv, NEW w \in Workers, StartRound(w), UNCHANGED bvars
  PROVE  StealInv'
<1>1. Alone(w) /\ w \in Threads /\ pc'[w] \in {"ask", "reask"}
  BY StartRoundShape
<1>2. UNCHANGED <<parent, chan>> /\ pc[w] \in NoRole /\ pc'[w] \in NoRole
  BY <1>1 DEF StartRound, Application, NoRole
<1> QED BY <1>1, <1>2, StealElsewhere DEF QuietMail

LEMMA SendDescriptorSteal ==
  ASSUME ShapeInv, Same, StealInv, NEW th \in Threads, SendDescriptor(th), UNCHANGED bvars
  PROVE  StealInv'
<1>d. pc[th] \in {"send", "push"}
  BY DEF SendDescriptor
<1>0. PICK n \in Nodes, t \in Tasks : n = peer[th][1] /\ t = hand[th]
  BY <1>d, Now DEF WithTask
<1>1. /\ Alone(th) /\ pc[th] \in {"send", "push"}
      /\ \E msg \in Messages(MaxNvps) :
           msg.type \in {"enqueue", "enqueue_private"} /\ Post(th[1], n, MaxNvps, msg)
      /\ \/ pc'[th] = AfterSend(th)
         \/ pc'[th] = "send_args" /\ th \in Workers
  BY <1>0, SendDescriptorShape
<1>2. UNCHANGED parent /\ th[1] \in Nodes /\ (th \in Workers => ~IsServer(th))
  BY Now DEF SendDescriptor, Application
<1>3. QuietMail
  BY <1>1, <1>2, SentQuietly
<1>4. RoleOf(th, pc[th]) = "none" /\ RoleOf(th, pc'[th]) = "none"
  BY <1>1, <1>2 DEF RoleOf, Inside, InFirst, InSecond, AfterSend
<1> QED BY <1>1, <1>2, <1>3, <1>4, StealQuiet

LEMMA HoldForArgumentsSteal ==
  ASSUME ShapeInv, Same, StealInv, NEW th \in Threads, HoldForArguments(th), UNCHANGED bvars
  PROVE  StealInv'
<1>1. /\ Alone(th) /\ pc[th] = "get_args" /\ pc'[th] = "held_args" /\ peer'[th] = peer[th]
  BY HoldForArgumentsShape
<1>2. UNCHANGED <<parent, chan>>
  BY DEF HoldForArguments, Application
<1>3. RoleOf(th, pc'[th]) = RoleOf(th, pc[th])
  BY <1>1 DEF RoleOf, Inside, InFirst, InSecond
<1> QED BY <1>1, <1>2, <1>3, StealQuiet DEF QuietMail

LEMMA ExecuteSteal ==
  ASSUME ShapeInv, Same, StealInv, NEW th \in Threads, Execute(th), UNCHANGED bvars
  PROVE  StealInv'
<1>1. Alone(th) /\ pc[th] = "execute" /\ pc'[th] = "run"
  BY ExecuteShape
<1>2. UNCHANGED <<parent, chan>> /\ pc[th] \in NoRole /\ pc'[th] \in NoRole
  BY <1>1 DEF Execute, Application, NoRole
<1> QED BY <1>1, <1>2, StealElsewhere DEF QuietMail

LEMMA ReturnHomeSteal ==
  ASSUME ShapeInv, Same, StealInv, NEW th \in Threads, ReturnHome(th), UNCHANGED bvars
  PROVE  StealInv'
<1>0. PICK t \in Tasks : t = hand[th]
  BY Now DEF ReturnHome, WithTask
<1>1. Alone(th) /\ pc[th] = "run" /\ pc'[th] \in {"serve", "wait", "poll"}
  BY <1>0, ReturnHomeShape
<1>2. UNCHANGED <<parent, chan>> /\ pc[th] \in NoRole /\ pc'[th] \in NoRole
  BY <1>1 DEF ReturnHome, NoRole
<1> QED BY <1>1, <1>2, StealElsewhere DEF QuietMail

LEMMA SendAnswerSteal ==
  ASSUME ShapeInv, Same, StealInv, PlaceInv, NEW th \in Threads, SendAnswer(th), UNCHANGED bvars
  PROVE  StealInv'
<1>0. PICK t \in Tasks : t = hand[th]
  BY Now DEF SendAnswer, WithTask
<1>a. PICK h \in Nodes : h = Home(t)
  BY <1>0, AtHome DEF SendAnswer, Housed
<1>1. /\ Alone(th) /\ pc[th] = "run"
      /\ \E msg \in Messages(MaxNvps) : msg.type = "answer" /\ Post(th[1], h, MaxNvps, msg)
      /\ pc'[th] \in {"serve", "wait", "poll", "send_results"}
  BY <1>0, <1>a, SendAnswerShape
<1>2. UNCHANGED parent /\ pc[th] \in NoRole /\ pc'[th] \in NoRole /\ th[1] \in Nodes
  BY <1>1, Now DEF SendAnswer, Application, NoRole
<1>3. QuietMail
  BY <1>1, <1>2, SentQuietly
<1> QED BY <1>1, <1>2, <1>3, StealElsewhere

LEMMA SendResultsSteal ==
  ASSUME ShapeInv, Same, StealInv, PlaceInv, NEW th \in Threads, SendResults(th), UNCHANGED bvars
  PROVE  StealInv'
<1>0. PICK t \in Tasks : t = hand[th]
  BY Now DEF SendResults, WithTask
<1>a. PICK h \in Nodes : h = Home(t)
  BY <1>0, AtHome DEF SendResults, Housed
<1>1. /\ Alone(th) /\ pc[th] = "send_results" /\ th \in Workers
      /\ \E msg \in Messages(th[2]) : msg.type = "result" /\ Post(th[1], h, th[2], msg)
      /\ pc'[th] \in {"wait", "poll"}
  BY <1>0, <1>a, SendResultsShape
<1>2. UNCHANGED parent /\ pc[th] \in NoRole /\ pc'[th] \in NoRole /\ th[1] \in Nodes
  BY <1>1, Now DEF SendResults, Application, NoRole
<1>3. PICK tag \in WorkerVps : tag = th[2]
  BY <1>1, StealTypes DEF WorkerVps
<1>4. QuietMail
  BY <1>1, <1>2, <1>3, SentQuietly
<1> QED BY <1>1, <1>2, <1>4, StealElsewhere

LEMMA ServeEnqueueSteal ==
  ASSUME ShapeInv, Same, StealInv, NEW s \in Servers, NEW n \in Nodes,
         NEW type \in {"enqueue", "enqueue_private"}, ServeEnqueue(s, n, type), UNCHANGED bvars
  PROVE  StealInv'
<1>0. PICK msg : msg = Head(chan[n][s[1]][MaxNvps])
  OBVIOUS
<1>t. PICK t : t = msg.body
  OBVIOUS
<1>1. /\ Alone(s) /\ s \in Threads /\ t \in Tasks
      /\ \/ UNCHANGED pc
         \/ UNCHANGED peer /\ \E b \in BOOLEAN : Enqueued(s, t, b)
         \/ pc'[s] = "get_args"
  <2>1. /\ Alone(s) /\ s \in Threads /\ t \in Tasks
        /\ \/ /\ public' = [public EXCEPT ![s[1]] = <<t>> \o @]
              /\ UNCHANGED <<pc, hand, peer, private>>
           \/ UNCHANGED peer /\ \E b \in BOOLEAN : Enqueued(s, t, b)
           \/ /\ pc'[s] = "get_args" /\ hand'[s] = t /\ peer'[s] = <<n, msg.vp>> /\ UNCHANGED Queues
              /\ type = "enqueue" /\ Home(t) # s[1] /\ ArgMsgs # 0
    BY <1>0, <1>t, ServeEnqueueShape
  <2> QED BY <2>1
<1>2. QuietMail /\ pc[s] = "serve"
  BY ServedQuietly DEF ServeEnqueue
<1>3. pc'[s] \in {"serve", "execute", "get_args"}
  <2>1. CASE UNCHANGED pc
    BY <1>2, <2>1
  <2>2. CASE UNCHANGED peer /\ \E b \in BOOLEAN : Enqueued(s, t, b)
    BY <1>1, <2>2, EnqueuedFits
  <2> QED BY <1>1, <2>1, <2>2
<1>4. IsServer(s) /\ UNCHANGED parent
  BY ServerFacts DEF ShapeInv, ServeEnqueue, Application
<1>5. RoleOf(s, pc[s]) = "none" /\ RoleOf(s, pc'[s]) = "none"
  BY <1>2, <1>3, <1>4 DEF RoleOf
<1> QED BY <1>1, <1>2, <1>4, <1>5, StealQuiet

LEMMA ServeAnswerSteal ==
  ASSUME ShapeInv, Same, StealInv, NEW s \in Servers, NEW n \in Nodes, ServeAnswer(s, n), UNCHANGED bvars
  PROVE  StealInv'
<1>0. PICK msg : msg = Head(chan[n][s[1]][MaxNvps])
  OBVIOUS
<1>t. PICK t : t = msg.body
  OBVIOUS
<1>1. Alone(s) /\ (UNCHANGED pc \/ pc'[s] = "get_results")
  BY <1>0, <1>t, ServeAnswerShape
<1>2. QuietMail /\ pc[s] = "serve" /\ s \in Threads
  BY ServedQuietly DEF ServeAnswer
<1>3. UNCHANGED parent /\ pc[s] \in NoRole /\ pc'[s] \in NoRole
  BY <1>1, <1>2 DEF ServeAnswer, NoRole
<1> QED BY <1>1, <1>2, <1>3, StealElsewhere

LEMMA ReceiveResultsSteal ==
  ASSUME ShapeInv, Same, StealInv, NEW s \in Servers, ReceiveResults(s), UNCHANGED bvars
  PROVE  StealInv'
<1>a. s \in Threads /\ pc[s] = "get_results"
  BY ServerFacts DEF ShapeInv, ReceiveResults
<1>0. PICK n \in Nodes, tag \in Tags, t \in Tasks : n = peer[s][1] /\ tag = peer[s][2] /\ t = hand[s]
  BY <1>a, Now DEF WithTask
<1>1. /\ Alone(s) /\ tag \in WorkerVps /\ pc'[s] = "serve"
      /\ chan[n][s[1]][tag] # <<>> /\ Take(n, s[1], tag)
  BY <1>0, ReceiveResultsShape
<1>2. UNCHANGED parent /\ pc[s] \in NoRole /\ pc'[s] \in NoRole /\ s[1] \in Nodes
  BY <1>a, <1>1, Now DEF ReceiveResults, NoRole
<1>3. QuietMail
  BY <1>1, <1>2, TakenQuietly
<1> QED BY <1>a, <1>1, <1>2, <1>3, StealElsewhere

LEMMA ServePrefetchSteal ==
  ASSUME ShapeInv, Same, StealInv, NEW s \in Servers, NEW n \in Nodes, ServePrefetch(s, n), UNCHANGED bvars
  PROVE  StealInv'
<1>1. Alone(s) /\ (UNCHANGED pc \/ pc'[s] = "push")
  BY ServePrefetchShape
<1>2. QuietMail /\ pc[s] = "serve" /\ s \in Threads
  BY ServedQuietly DEF ServePrefetch
<1>3. UNCHANGED parent /\ pc[s] \in NoRole /\ pc'[s] \in NoRole
  BY <1>1, <1>2 DEF ServePrefetch, Application, NoRole
<1> QED BY <1>1, <1>2, <1>3, StealElsewhere

LEMMA ServeSwitchSteal ==
  ASSUME ShapeInv, Same, StealInv, NEW s \in Servers, NEW n \in Nodes, NEW call \in SwitchCalls,
         ServeSwitch(s, n, call), UNCHANGED bvars
  PROVE  StealInv'
<1>1. Alone(s)
  BY ServeSwitchShape
<1>2. Serves(s, n, call) /\ call # "steal" /\ UNCHANGED <<pc, parent>>
  BY DEF ServeSwitch, SwitchCalls, Application
<1>3. QuietMail /\ pc[s] = "serve" /\ s \in Threads
  BY <1>2, ServedQuietly
<1>4. pc[s] \in NoRole /\ pc'[s] \in NoRole
  BY <1>2, <1>3 DEF NoRole
<1> QED BY <1>1, <1>2, <1>3, <1>4, StealElsewhere

LEMMA BroadcastCallSteal ==
  ASSUME ShapeInv, Same, StealInv, NEW c \in Creators, NEW a \in Variables, NEW v \in Values,
         Broadcast(c, a, v)
  PROVE  StealInv'
<1>1. Alone(c) /\ c \in Threads /\ pc[c] = "app" /\ pc'[c] = "bcast"
  BY BroadcastCallShape
<1>2. UNCHANGED <<parent, chan>> /\ pc[c] \in NoRole /\ pc'[c] \in NoRole
  BY <1>1 DEF Broadcast, Application, NoRole
<1> QED BY <1>1, <1>2, StealElsewhere DEF QuietMail

LEMMA NextNodeSteal ==
  ASSUME ShapeInv, Same, StealInv, NEW c \in Creators, SkipOwn(c) \/ SsendDone(c)
  PROVE  StealInv'
<1>1. Alone(c) /\ c \in Threads /\ pc[c] \in {"bcast", "ssend"} /\ pc'[c] \in {"bcast", "app"}
  BY SMTT(30), NextNodeShape
<1>2. UNCHANGED <<parent, chan>> /\ pc[c] \in NoRole /\ pc'[c] \in NoRole
  BY ZenonT(30), <1>1 DEF SkipOwn, SsendDone, Application, NoRole
<1> QED BY SMTT(30), <1>1, <1>2, StealElsewhere DEF QuietMail

LEMMA SendBroadcastSteal ==
  ASSUME ShapeInv, Same, StealInv, NEW c \in Creators, SendBroadcast(c)
  PROVE  StealInv'
<1>0. PICK n \in Nodes : n = peer[c][1]
  BY Now, WorkerFacts DEF ShapeInv
<1>1. /\ Alone(c) /\ c \in Threads /\ pc[c] = "bcast" /\ pc'[c] = "offer"
      /\ \E msg \in Messages(MaxNvps) : msg.type = "bcast" /\ Post(c[1], n, MaxNvps, msg)
  BY <1>0, SendBroadcastShape
<1>2. UNCHANGED parent /\ pc[c] \in NoRole /\ pc'[c] \in NoRole /\ c[1] \in Nodes
  BY <1>1, Now DEF SendBroadcast, Application, NoRole
<1>3. QuietMail
  BY <1>1, <1>2, SentQuietly
<1> QED BY <1>1, <1>2, <1>3, StealElsewhere

LEMMA SsendSteal ==
  ASSUME ShapeInv, Same, StealInv, NEW c \in Creators, Ssend(c)
  PROVE  StealInv'
<1>0. PICK n \in Nodes : n = peer[c][1]
  BY Now, WorkerFacts DEF ShapeInv
<1>1. /\ Alone(c) /\ c \in Threads /\ pc[c] = "offer" /\ pc'[c] = "ssend"
      /\ \E msg \in Messages(c[2]) : msg.type = "data" /\ Post(c[1], n, c[2], msg)
  BY <1>0, SsendShape
<1>2. UNCHANGED parent /\ pc[c] \in NoRole /\ pc'[c] \in NoRole /\ c[1] \in Nodes
  BY <1>1, Now DEF Ssend, Application, NoRole
<1>3. PICK tag \in WorkerVps : tag = c[2]
  BY WorkerFacts, TagFacts DEF ShapeInv
<1>4. QuietMail
  BY <1>1, <1>2, <1>3, SentQuietly
<1> QED BY <1>1, <1>2, <1>4, StealElsewhere

LEMMA ServeBroadcastSteal ==
  ASSUME ShapeInv, Same, StealInv, NEW s \in Servers, NEW n \in Nodes, ServeBroadcast(s, n)
  PROVE  StealInv'
<1>1. Alone(s) /\ pc'[s] = "get_data"
  BY ServeBroadcastShape
<1>2. QuietMail /\ pc[s] = "serve" /\ s \in Threads
  BY ServedQuietly DEF ServeBroadcast
<1>3. UNCHANGED parent /\ pc[s] \in NoRole /\ pc'[s] \in NoRole
  BY <1>1, <1>2 DEF ServeBroadcast, Application, NoRole
<1> QED BY <1>1, <1>2, <1>3, StealElsewhere

LEMMA ReceiveDataSteal ==
  ASSUME ShapeInv, Same, StealInv, NEW s \in Servers, ReceiveData(s)
  PROVE  StealInv'
<1>0. s \in Threads
  BY ServerFacts DEF ShapeInv
<1>1. PICK n \in Nodes, tag \in Tags : n = peer[s][1] /\ tag = peer[s][2]
  BY <1>0, Now
<1>2. /\ Alone(s) /\ pc[s] = "get_data" /\ tag \in WorkerVps /\ pc'[s] = "serve"
      /\ chan[n][s[1]][tag] # <<>> /\ Take(n, s[1], tag)
  BY <1>1, ReceiveDataShape
<1>3. UNCHANGED parent /\ pc[s] \in NoRole /\ pc'[s] \in NoRole /\ s[1] \in Nodes
  BY <1>0, <1>2, Now DEF ReceiveData, Application, NoRole
<1>4. QuietMail
  BY <1>2, <1>3, TakenQuietly
<1> QED BY <1>0, <1>2, <1>3, <1>4, StealElsewhere

(* The replies that arguments follow are the same for the tasks that exist.*)
LEMMA CreateSteal ==
  ASSUME ShapeInv, Same, StealInv, PlaceInv, NEW c \in Creators, NEW t \in Tasks, NEW n \in Nodes,
         NEW call \in {"task", "task_direct"}, Create(c, t, n, call), UNCHANGED bvars
  PROVE  StealInv'
<1>1. Alone(c) /\ c \in Threads /\ pc[c] = "app" /\ stage[t] = "none" /\ UNCHANGED chan
  BY CreateShape DEF Create
<1>2. pc'[c] \in {"app", "send"}
  <2>1. UNCHANGED pc \/ Goto(c, "send")
    BY DEF Create
  <2> QED BY <1>1, <2>1, WentTo
<1>3. RoleOf(c, pc[c]) = "none" /\ RoleOf(c, pc'[c]) = "none"
  BY <1>1, <1>2 DEF RoleOf, Inside, InFirst, InSecond
<1>4. \A u \in Tasks : u # t => parent'[u] = parent[u]
  BY DEF Create, ShapeInv, AppTypes
<1>5. ASSUME NEW w \in Workers, NEW k \in Nodes
      PROVE  Num(ToThief(w, k), Loads(w)') = Num(ToThief(w, k), Loads(w))
  <2>1. PICK s : s = ToThief(w, k)
    OBVIOUS
  <2>2. s \in Seq(Messages(StealTag(w[2]))) /\ k \in Nodes /\ w[1] \in Nodes /\ StealTag(w[2]) \in Tags
        /\ SetupInv
    BY <2>1, StealTypes DEF ShapeInv
  <2>3. Num(s, Movers(t)) = 0
    <3>1. IsAt(t, <<"nowhere", 0>>)
      BY <1>1, FoundNowhere
    <3> QED BY <2>1, <2>2, <3>1 DEF IsAt, One, ToThief
  <2>4. \A i \in 1 .. Len(s) : s[i] \notin Movers(t)
    BY <2>2, <2>3, NumZero
  <2>5. ASSUME NEW i \in 1 .. Len(s) PROVE s[i] \in Loads(w)' <=> s[i] \in Loads(w)
    <3>1. s[i] \in Messages(StealTag(w[2]))
      BY <2>2
    <3>2. PICK msg \in Messages(StealTag(w[2])) : msg = s[i]
      BY <3>1
    <3>3. msg \in AnyMessage /\ (msg.type = "work" => msg.body \in Tasks) /\ (msg \in Movers(t) <=> Moves(msg, t))
      BY <2>2, HeldFacts DEF Legal
    <3>4. msg.type = "work" => msg.body \in Tasks \ {t}
      BY <2>4, <3>2, <3>3 DEF Moves
    <3>5. msg.type = "work" => Home(msg.body)' = Home(msg.body)
      BY <1>4, <3>4 DEF Home
    <3>6. msg \in Loads(w)' <=> msg \in Loads(w)
      BY <3>3, <3>5 DEF Loads, Replies, Same
    <3> QED BY <3>2, <3>6
  <2>6. {i \in 1 .. Len(s) : s[i] \in Loads(w)'} = {i \in 1 .. Len(s) : s[i] \in Loads(w)}
    BY <2>5
  <2> QED BY <2>1, <2>6 DEF Num
<1> QED BY <1>1, <1>3, <1>5, StealStays DEF QuietMail

(***************************************************************************)
(* A creator's counter and the tasks that it has not been told of.         *)
(***************************************************************************)
(* Besides DepCount: a creator holds the token only while it runs          *)
(* application code, and there its counter is 0 when it holds none.        *)
Counts ==
  /\ DepCount
  /\ \A c \in Creators :
       /\ pc[c] \notin InApplication => c \notin unjoined
       /\ pc[c] \in InApplication /\ c \notin unjoined => ndep[c] = 0

LEMMA OutstandingFacts ==
  ASSUME NEW c
  PROVE  IsFiniteSet(Outstanding(c)) /\ Cardinality(Outstanding(c)) \in Nat
<1>1. IsFiniteSet(Outstanding(c))
  BY NodeCommAssumption, FS_Subset DEF Outstanding
<1> QED BY <1>1, FS_CardinalityType

LEMMA CountsInit ==
  ASSUME ClusterInit, PayloadsApart
  PROVE  Counts
<1>1. ShapeInv /\ SetupInv
  BY ShapeInit DEF ShapeInv
<1>2. \A c \in Creators : Outstanding(c) = {} /\ ndep[c] = 0 /\ c \notin unjoined
  BY <1>1, WorkerFacts, ServerFacts DEF ClusterInit, Init, Outstanding
<1> QED BY <1>2, FS_EmptySet DEF Counts, DepCount

(* A step that neither creates nor finishes a task and stays in the        *)
(* application or outside it.                                              *)
LEMMA CountsStay ==
  ASSUME ShapeInv, Same, Counts, NEW th \in Threads, Alone(th), UNCHANGED <<ndep, unjoined, parent>>,
         \A t \in Tasks : stage'[t] = "done" <=> stage[t] = "done",
         th \in Servers \/ (pc'[th] \in InApplication <=> pc[th] \in InApplication)
  PROVE  Counts' /\ Joining' = Joining
<1>1. \A c : Outstanding(c)' = Outstanding(c)
  BY DEF Outstanding
<1>2. ASSUME NEW c \in Creators PROVE pc'[c] \in InApplication <=> pc[c] \in InApplication
  <2>1. CASE c = th
    BY <2>1, ServerFacts DEF ShapeInv
  <2>2. CASE c # th
    BY <2>2, AloneOthers, WorkerFacts DEF ShapeInv
  <2> QED BY <2>1, <2>2
<1>3. Creators' = Creators
  BY DEF Same
<1>4. DepCount'
  BY <1>1, <1>3 DEF Counts, DepCount
<1>5. Joining' = Joining
  BY <1>2, <1>3 DEF Joining
<1> QED BY <1>2, <1>3, <1>4, <1>5 DEF Counts

(* A task that was outstanding is done.                                    *)
LEMMA CountsFinish ==
  ASSUME ShapeInv, Same, Counts, NEW th \in Threads, Alone(th), UNCHANGED <<unjoined, parent>>,
         NEW t \in Tasks, stage[t] # "done", parent[t] \in Creators, DepSatisfy(t),
         th \in Servers \/ (pc'[th] \notin InApplication /\ pc[th] \notin InApplication)
  PROVE  Counts' /\ Joining' = Joining
<1>1. PICK p \in Creators : p = parent[t]
  OBVIOUS
<1>2. /\ ndep \in [Creators -> Int] /\ ndep' = [ndep EXCEPT ![p] = @ - 1]
      /\ stage' = [stage EXCEPT ![t] = "done"] /\ Creators' = Creators
      /\ stage \in [Tasks -> {"none", "spawned", "active", "returned", "done"}]
  BY <1>1 DEF ShapeInv, AppTypes, DepSatisfy, Same
<1>3. t \in Outstanding(p) /\ Outstanding(p)' = Outstanding(p) \ {t}
  BY <1>1, <1>2 DEF Outstanding
<1>4. Cardinality(Outstanding(p)') = Cardinality(Outstanding(p)) - 1
      /\ Cardinality(Outstanding(p)) \in Nat /\ Cardinality(Outstanding(p)') \in Nat
  <2>1. PICK S : S = Outstanding(p)
    OBVIOUS
  <2>2. IsFiniteSet(S) /\ t \in S /\ Outstanding(p)' = S \ {t}
    BY <1>3, <2>1, OutstandingFacts
  <2>3. IsFiniteSet(S \ {t}) /\ Cardinality(S \ {t}) = Cardinality(S) - 1
    BY <2>2, FS_RemoveElement
  <2>4. Cardinality(S) \in Nat /\ Cardinality(S \ {t}) \in Nat
    BY <2>2, <2>3, FS_CardinalityType
  <2> QED BY <2>1, <2>2, <2>3, <2>4
<1>5. \A c \in Creators : c # p => Outstanding(c)' = Outstanding(c)
  BY <1>1, <1>2 DEF Outstanding
<1>6. DepCount'
  <2>1. ASSUME NEW c \in Creators
        PROVE  ndep'[c] = Cardinality(Outstanding(c)') + One(c \in unjoined)
    <3>1. ndep[c] = Cardinality(Outstanding(c)) + One(c \in unjoined) /\ Cardinality(Outstanding(c)) \in Nat
      BY OutstandingFacts DEF Counts, DepCount, One
    <3> HIDE DEF Outstanding
    <3>2. CASE c = p
      BY <1>2, <1>4, <3>1, <3>2 DEF One
    <3>3. CASE c # p
      BY <1>2, <1>5, <3>1, <3>3 DEF One
    <3> QED BY <3>2, <3>3
  <2> QED BY <1>2, <2>1 DEF DepCount, One
<1>7. ASSUME NEW c \in Creators PROVE pc'[c] \in InApplication <=> pc[c] \in InApplication
  <2>1. CASE c = th
    BY <2>1, ServerFacts DEF ShapeInv
  <2>2. CASE c # th
    BY <2>2, AloneOthers, WorkerFacts DEF ShapeInv
  <2> QED BY <2>1, <2>2
<1>8. ASSUME NEW c \in Creators, pc'[c] \in InApplication, c \notin unjoined PROVE ndep'[c] = 0
  <2>1. ndep[c] = 0
    BY <1>7, <1>8 DEF Counts
  <2>2. c # p
    <3> HIDE DEF Outstanding
    <3>1. ndep[p] = Cardinality(Outstanding(p)) + One(p \in unjoined)
      BY DEF Counts, DepCount, One
    <3> QED BY <1>4, <2>1, <3>1 DEF One
  <2> QED BY <1>2, <2>1, <2>2
<1>9. Joining' = Joining
  BY <1>2, <1>7 DEF Joining
<1> QED BY <1>2, <1>6, <1>7, <1>8, <1>9 DEF Counts

LEMMA CreateCounts ==
  ASSUME ShapeInv, Same, PlaceInv, Counts, NEW c \in Creators, NEW t \in Tasks, NEW n \in Nodes,
         NEW call \in {"task", "task_direct"}, Create(c, t, n, call), UNCHANGED bvars
  PROVE  Counts' /\ Joining' = Joining
<1>1. Alone(c) /\ c \in Threads /\ pc[c] = "app" /\ stage[t] = "none"
  BY CreateShape DEF Create
<1>2. pc'[c] \in InApplication
  <2>1. UNCHANGED pc \/ Goto(c, "send")
    BY DEF Create
  <2> QED BY <1>1, <2>1, WentTo DEF InApplication
<1>3. /\ ndep \in [Creators -> Int] /\ ndep' = [ndep EXCEPT ![c] = IF @ = 0 THEN 2 ELSE @ + 1]
      /\ stage' = [stage EXCEPT ![t] = "spawned"] /\ Creators' = Creators
      /\ stage \in [Tasks -> {"none", "spawned", "active", "returned", "done"}]
      /\ parent \in [Tasks -> Creators \cup {NoThread}] /\ parent' = [parent EXCEPT ![t] = c]
      /\ unjoined' = unjoined \cup {c}
  BY DEF ShapeInv, AppTypes, Create, Same
<1>4. parent[t] = NoThread /\ NoThread \notin Creators
  BY <1>1, ServerFacts DEF PlaceInv, Parented, ShapeInv
<1>5. t \notin Outstanding(c) /\ Outstanding(c)' = Outstanding(c) \cup {t}
  BY <1>3, <1>4 DEF Outstanding
<1>6. Cardinality(Outstanding(c)') = Cardinality(Outstanding(c)) + 1
      /\ Cardinality(Outstanding(c)) \in Nat
  BY <1>5, OutstandingFacts, FS_AddElement
<1>7. \A d \in Creators : d # c => Outstanding(d)' = Outstanding(d)
  BY <1>3, <1>4 DEF Outstanding
<1>8. \A d \in Creators : d # c => pc'[d] = pc[d]
  BY <1>1, AloneOthers, WorkerFacts DEF ShapeInv
<1>9. DepCount'
  <2>1. ASSUME NEW d \in Creators
        PROVE  ndep'[d] = Cardinality(Outstanding(d)') + One(d \in unjoined')
    <3>1. ndep[d] = Cardinality(Outstanding(d)) + One(d \in unjoined)
      BY DEF Counts, DepCount, One
    <3>0. d = c /\ c \notin unjoined => ndep[c] = 0
      BY <1>1 DEF Counts, InApplication
    <3> HIDE DEF Outstanding
    <3>2. CASE d = c
      BY <1>3, <1>6, <3>0, <3>1, <3>2 DEF One
    <3>3. CASE d # c
      BY <1>3, <1>7, <3>1, <3>3 DEF One
    <3> QED BY <3>2, <3>3
  <2> QED BY <1>3, <2>1 DEF DepCount, One
<1>10. ASSUME NEW d \in Creators
       PROVE  /\ pc'[d] \notin InApplication => d \notin unjoined'
              /\ pc'[d] \in InApplication /\ d \notin unjoined' => ndep'[d] = 0
  <2>1. CASE d = c
    BY <1>2, <1>3, <2>1
  <2>2. CASE d # c
    BY <1>3, <1>8, <2>2 DEF Counts
  <2> QED BY <2>1, <2>2
<1>11. Joining' = Joining
  <2>1. \A d \in Creators : pc'[d] \in InApplication <=> pc[d] \in InApplication
    BY <1>1, <1>2, <1>8 DEF InApplication
  <2> QED BY <1>3, <2>1 DEF Joining
<1> QED BY <1>3, <1>9, <1>10, <1>11 DEF Counts

LEMMA WaitCounts ==
  ASSUME ShapeInv, Same, Counts, NEW c \in Creators, UNCHANGED bvars,
         WaitAll(c) \/ Joined(c) \/ NotYet(c)
  PROVE  Counts'
<1>1. Alone(c) /\ c \in Threads
  BY WaitShape
<1>2. /\ ndep \in [Creators -> Int] /\ Creators' = Creators /\ UNCHANGED <<parent, stage>>
  BY DEF ShapeInv, AppTypes, Same, WaitAll, Joined, NotYet, Application
<1>3. \A d : Outstanding(d)' = Outstanding(d)
  BY <1>2 DEF Outstanding
<1>4. \A d \in Creators : d # c => pc'[d] = pc[d]
  BY <1>1, AloneOthers, WorkerFacts DEF ShapeInv
<1>c. /\ ndep[c] = Cardinality(Outstanding(c)) + One(c \in unjoined) /\ Cardinality(Outstanding(c)) \in Nat
  BY OutstandingFacts DEF Counts, DepCount, One
<1>5. CASE WaitAll(c)
  <2>1. /\ pc[c] = "app" /\ pc'[c] = "wait" /\ unjoined' = unjoined \ {c}
        /\ ndep' = [ndep EXCEPT ![c] = IF @ > 0 THEN @ - 1 ELSE 0]
    BY <1>1, <1>5, WentTo DEF WaitAll
  <2>2. c \notin unjoined => ndep[c] = 0
    BY <2>1 DEF Counts, InApplication
  <2>3. ASSUME NEW d \in Creators
        PROVE  ndep'[d] = Cardinality(Outstanding(d)') + One(d \in unjoined')
    <3>1. ndep[d] = Cardinality(Outstanding(d)) + One(d \in unjoined)
      BY DEF Counts, DepCount, One
    <3> HIDE DEF Outstanding
    <3>2. CASE d = c
      BY <1>2, <1>3, <1>c, <2>1, <2>2, <3>2 DEF One
    <3>3. CASE d # c
      BY <1>2, <1>3, <2>1, <3>1, <3>3 DEF One
    <3> QED BY <3>2, <3>3
  <2>4. DepCount'
    BY <1>2, <2>3 DEF DepCount, One
  <2>5. ASSUME NEW d \in Creators
        PROVE  /\ pc'[d] \notin InApplication => d \notin unjoined'
               /\ pc'[d] \in InApplication /\ d \notin unjoined' => ndep'[d] = 0
    <3>1. CASE d = c
      BY <2>1, <3>1 DEF InApplication
    <3>2. CASE d # c
      BY <1>2, <1>4, <2>1, <3>2 DEF Counts
    <3> QED BY <3>1, <3>2
  <2> QED BY <1>2, <2>4, <2>5 DEF Counts
<1>6. CASE Joined(c)
  <2>1. pc[c] = "wait" /\ pc'[c] = "app" /\ UNCHANGED <<ndep, unjoined>> /\ ndep[c] <= 0
    BY <1>1, <1>6, WentTo DEF Joined, Application
  <2>2. ndep[c] = 0
    <3> HIDE DEF Outstanding
    <3> QED BY <1>2, <1>c, <2>1 DEF One
  <2>3. DepCount'
    BY <1>2, <1>3, <2>1 DEF Counts, DepCount
  <2>4. ASSUME NEW d \in Creators
        PROVE  /\ pc'[d] \notin InApplication => d \notin unjoined'
               /\ pc'[d] \in InApplication /\ d \notin unjoined' => ndep'[d] = 0
    <3>1. CASE d = c
      BY <2>1, <2>2, <3>1 DEF InApplication
    <3>2. CASE d # c
      BY <1>4, <2>1, <3>2 DEF Counts
    <3> QED BY <3>1, <3>2
  <2> QED BY <1>2, <2>3, <2>4 DEF Counts
<1>7. CASE NotYet(c)
  <2>1. pc[c] = "wait" /\ pc'[c] = "poll" /\ UNCHANGED <<ndep, unjoined>>
    BY <1>1, <1>7, WentTo DEF NotYet, Application
  <2> QED BY <1>1, <1>2, <2>1, CountsStay DEF InApplication
<1> QED BY <1>5, <1>6, <1>7

LEMMA ApplicationCounts ==
  ASSUME ShapeInv, Same, Counts, NEW c \in Creators, Alone(c), c \in Threads,
         pc[c] \in InApplication, pc'[c] \in InApplication, UNCHANGED <<Application, stage>>
  PROVE  Counts' /\ Joining' = Joining
BY CountsStay DEF Application

LEMMA SwitchCallCounts ==
  ASSUME ShapeInv, Same, Counts, NEW c \in Creators, NEW call \in SwitchCalls \cup LocalCalls,
         SwitchCall(c, call), UNCHANGED bvars
  PROVE  Counts' /\ Joining' = Joining
<1>1. Alone(c) /\ c \in Threads
  BY SwitchCallShape
<1>2. UNCHANGED <<Application, stage>> /\ pc[c] = "app" /\ (UNCHANGED pc \/ Goto(c, "switch"))
  BY DEF SwitchCall
<1>3. pc[c] \in InApplication /\ pc'[c] \in InApplication
  BY <1>1, <1>2, WentTo DEF InApplication
<1> QED BY <1>1, <1>2, <1>3, ApplicationCounts

LEMMA SendSwitchCounts ==
  ASSUME ShapeInv, Same, Counts, NEW c \in Creators, SendSwitch(c), UNCHANGED bvars
  PROVE  Counts' /\ Joining' = Joining
<1>1. Alone(c) /\ c \in Threads /\ pc'[c] \in {"switch", "app"}
  BY SendSwitchShape
<1>2. UNCHANGED <<Application, stage>> /\ pc[c] = "switch"
  BY DEF SendSwitch
<1> QED BY <1>1, <1>2, ApplicationCounts DEF InApplication

LEMMA BroadcastCallCounts ==
  ASSUME ShapeInv, Same, Counts, NEW c \in Creators, NEW a \in Variables, NEW v \in Values,
         Broadcast(c, a, v)
  PROVE  Counts' /\ Joining' = Joining
<1>1. Alone(c) /\ c \in Threads /\ pc[c] = "app" /\ pc'[c] = "bcast"
  BY BroadcastCallShape
<1>2. UNCHANGED <<Application, stage>>
  BY DEF Broadcast
<1> QED BY <1>1, <1>2, ApplicationCounts DEF InApplication

LEMMA NextNodeCounts ==
  ASSUME ShapeInv, Same, Counts, NEW c \in Creators, SkipOwn(c) \/ SsendDone(c)
  PROVE  Counts' /\ Joining' = Joining
<1>1. Alone(c) /\ c \in Threads /\ pc[c] \in {"bcast", "ssend"} /\ pc'[c] \in {"bcast", "app"}
  BY NextNodeShape
<1>2. UNCHANGED <<Application, stage>>
  BY ZenonT(30) DEF SkipOwn, SsendDone
<1> QED BY <1>1, <1>2, ApplicationCounts DEF InApplication

LEMMA SendBroadcastCounts ==
  ASSUME ShapeInv, Same, Counts, NEW c \in Creators, SendBroadcast(c)
  PROVE  Counts' /\ Joining' = Joining
<1>0. PICK n \in Nodes : n = peer[c][1]
  BY Now, WorkerFacts DEF ShapeInv
<1>1. Alone(c) /\ c \in Threads /\ pc[c] = "bcast" /\ pc'[c] = "offer"
  BY <1>0, SendBroadcastShape
<1>2. UNCHANGED <<Application, stage>>
  BY DEF SendBroadcast
<1> QED BY <1>1, <1>2, ApplicationCounts DEF InApplication

LEMMA SsendCounts ==
  ASSUME ShapeInv, Same, Counts, NEW c \in Creators, Ssend(c)
  PROVE  Counts' /\ Joining' = Joining
<1>0. PICK n \in Nodes : n = peer[c][1]
  BY Now, WorkerFacts DEF ShapeInv
<1>1. Alone(c) /\ c \in Threads /\ pc[c] = "offer" /\ pc'[c] = "ssend"
  BY <1>0, SsendShape
<1>2. UNCHANGED <<Application, stage>>
  BY DEF Ssend
<1> QED BY <1>1, <1>2, ApplicationCounts DEF InApplication

(* A worker that looks for a task is outside the application.              *)
LEMMA SearchCounts ==
  ASSUME ShapeInv, Same, Counts, NEW w \in Workers, UNCHANGED bvars,
         \/ TakeLocal(w) \/ NothingHere(w) \/ StartRound(w) \/ StealRequest(w) \/ HoldForReply(w)
         \/ StealReply(w) \/ \E n \in Nodes : PrefetchRequest(w, n)
  PROVE  Counts' /\ Joining' = Joining
<1>1. w \in Threads /\ pc[w] \in {"poll", "repoll", "ask", "reask"} \cup Inside /\ UNCHANGED <<Application, stage>>
  BY ZenonT(30), WorkerFacts
     DEF ShapeInv, TakeLocal, NothingHere, StartRound, StealRequest, HoldForReply, StealReply,
     PrefetchRequest, Inside, InFirst, InSecond
<1>2. pc[w] \notin InApplication
  BY <1>1 DEF InApplication, Inside, InFirst, InSecond
<1>3. Alone(w) /\ pc'[w] \notin InApplication
  <2>1. CASE TakeLocal(w)
    BY <2>1, TakeLocalShape DEF InApplication
  <2>2. CASE NothingHere(w) \/ HoldForReply(w)
    <3>1. Alone(w)
      BY <2>2, SearchShape
    <3>2. \E q \in {"wait", "repoll", "held", "reheld"} : Goto(w, q)
      BY <2>2 DEF NothingHere, HoldForReply, AfterSearch
    <3> QED BY <1>1, <3>1, <3>2, WentTo DEF InApplication
  <2>3. CASE StartRound(w)
    BY <2>3, StartRoundShape DEF InApplication
  <2>4. CASE StealRequest(w)
    BY <2>4, StealRequestShape DEF InApplication
  <2>5. CASE StealReply(w)
    <3>1. PICK k \in Nodes : k = peer[w][1]
      BY <1>1, Now
    <3>2. PICK msg : msg = Head(chan[k][w[1]][StealTag(w[2])])
      OBVIOUS
    <3>3. /\ Alone(w)
          /\ \/ pc'[w] = IF Home(msg.body) = w[1] \/ ArgMsgs = 0 THEN "execute" ELSE "get_args"
             \/ pc'[w] \in {"wait", "repoll", "reask", "ask"}
      BY SMTT(30), <2>5, <3>1, <3>2, StealReplyShape
    <3> QED BY <3>3 DEF InApplication
  <2>6. ASSUME NEW n \in Nodes, PrefetchRequest(w, n) PROVE Alone(w) /\ UNCHANGED pc
    BY <2>6, PrefetchRequestShape DEF PrefetchRequest
  <2> QED BY <1>2, <2>1, <2>2, <2>3, <2>4, <2>5, <2>6
<1> QED BY SMTT(30), <1>1, <1>2, <1>3, CountsStay DEF Application

LEMMA CommunicateCounts ==
  ASSUME ShapeInv, Same, Counts, NEW th \in Threads, Communicate(th), UNCHANGED bvars
  PROVE  Counts' /\ Joining' = Joining
<1>1. UNCHANGED <<Application, stage>>
  BY DEF Communicate, SendDescriptor, DirectSendDescriptor, SendArguments, HoldForArguments, ReceiveArguments
<1>2. /\ Alone(th)
      /\ th \in Servers \/ (pc'[th] \in InApplication <=> pc[th] \in InApplication)
  <2>0. PICK n \in Nodes, tag \in Tags, u \in Tasks \cup {NoTask} : n = peer[th][1] /\ tag = peer[th][2] /\ u = hand[th]
    BY Now
  <2>w. th \in Servers \/ (th \in Workers /\ ~IsServer(th))
    BY ServerFacts DEF ShapeInv
  <2>1. CASE SendDescriptor(th)
    <3>1. pc[th] \in {"send", "push"}
      BY <2>1 DEF SendDescriptor
    <3>2. PICK t \in Tasks : t = hand[th]
      BY <3>1, Now DEF WithTask
    <3>3. Alone(th) /\ (pc'[th] = AfterSend(th) \/ pc'[th] = "send_args")
      BY <2>0, <2>1, <3>2, SendDescriptorShape
    <3>4. th \in Workers => pc[th] = "send"
      BY <3>1, Now DEF WorkerFits, SearchPlaces, InApplication
    <3> QED BY <2>w, <3>3, <3>4 DEF AfterSend, InApplication
  <2>2. CASE DirectSendDescriptor(th)
    BY <2>0, <2>2, DirectSendShape
  <2>3. CASE SendArguments(th)
    <3>1. Alone(th) /\ pc[th] = "send_args" /\ pc'[th] = AfterSend(th)
      BY <2>0, <2>3, SendArgumentsShape
    <3> QED BY <2>w, <3>1 DEF AfterSend, InApplication
  <2>4. CASE HoldForArguments(th)
    BY <2>4, HoldForArgumentsShape DEF InApplication
  <2>5. CASE ReceiveArguments(th)
    <3>1. pc[th] \in {"held_args", "held_args_private"}
      BY <2>5 DEF ReceiveArguments
    <3>2. pc[th] = "held_args"
      BY <2>w, <3>1, Now DEF WorkerFits, SearchPlaces, InApplication, ServerFits, ServerPlaces
    <3>3. PICK t \in Tasks : t = hand[th]
      BY <3>2, Now DEF WithTask
    <3>4. Alone(th) /\ (th \in Servers \/ pc'[th] = "execute")
      BY <2>0, <2>5, <3>3, ReceiveArgumentsShape
    <3> QED BY <3>2, <3>4 DEF InApplication
  <2> QED BY <2>1, <2>2, <2>3, <2>4, <2>5 DEF Communicate
<1> QED BY <1>1, <1>2, CountsStay DEF Application

LEMMA RunTaskCounts ==
  ASSUME ShapeInv, Same, PlaceInv, Counts, NEW th \in Threads, RunTask(th), UNCHANGED bvars
  PROVE  Counts' /\ Joining' = Joining
<1>p. pc[th] \in {"execute", "run", "send_results"}
  BY DEF RunTask, Execute, ReturnHome, SendAnswer, SendResults
<1>0. PICK t \in Tasks : t = hand[th]
  BY <1>p, Now DEF WithTask
<1>s. stage \in [Tasks -> {"none", "spawned", "active", "returned", "done"}]
  BY DEF ShapeInv, AppTypes
<1>1. CASE Execute(th)
  <2>1. Alone(th) /\ pc[th] = "execute" /\ pc'[th] = "run"
    BY <1>1, ExecuteShape
  <2>2. stage[t] = "spawned"
    <3>1. KindOf(pc[th]) = "hand" /\ "hand" \in Kinds
      BY <2>1 DEF KindOf, Carrying, Kinds
    <3> QED BY <1>0, <3>1, FoundInHand DEF Stages
  <2>3. UNCHANGED Application /\ stage' = [stage EXCEPT ![t] = "active"]
    BY <1>0, <1>1 DEF Execute
  <2>4. \A u \in Tasks : stage'[u] = "done" <=> stage[u] = "done"
    BY <1>s, <2>2, <2>3
  <2> QED BY <2>1, <2>3, <2>4, CountsStay DEF Application, InApplication
<1>2. CASE ReturnHome(th)
  <2>1. Alone(th) /\ pc[th] = "run" /\ pc'[th] \in {"serve", "wait", "poll"}
    BY <1>0, <1>2, ReturnHomeShape
  <2>2. stage[t] # "done" /\ parent[t] \in Creators
    BY <1>0, <2>1, AtHome
  <2>3. UNCHANGED <<unjoined, parent>> /\ DepSatisfy(t)
    BY <1>0, <1>2 DEF ReturnHome, DepSatisfy
  <2> QED BY <2>1, <2>2, <2>3, CountsFinish DEF InApplication
<1>3. CASE SendAnswer(th)
  <2>0. PICK h \in Nodes : h = Home(t)
    BY <1>0, <1>3, AtHome DEF SendAnswer
  <2>1. Alone(th) /\ pc[th] = "run" /\ pc'[th] \in {"serve", "wait", "poll", "send_results"}
    BY <1>0, <1>3, <2>0, SendAnswerShape
  <2>2. stage[t] # "done"
    BY <1>0, <2>1, AtHome
  <2>3. UNCHANGED Application /\ stage' = [stage EXCEPT ![t] = "returned"]
    BY <1>0, <1>3 DEF SendAnswer
  <2>4. \A u \in Tasks : stage'[u] = "done" <=> stage[u] = "done"
    BY <1>s, <2>2, <2>3
  <2> QED BY <2>1, <2>3, <2>4, CountsStay DEF Application, InApplication
<1>4. CASE SendResults(th)
  <2>0. PICK h \in Nodes : h = Home(t)
    BY <1>0, <1>4, AtHome DEF SendResults
  <2>1. Alone(th) /\ pc[th] = "send_results" /\ pc'[th] \in {"wait", "poll"}
    BY <1>0, <1>4, <2>0, SendResultsShape
  <2>2. UNCHANGED <<Application, stage>>
    BY <1>4 DEF SendResults
  <2> QED BY <2>1, <2>2, CountsStay DEF Application, InApplication
<1> QED BY <1>1, <1>2, <1>3, <1>4 DEF RunTask

(* A server is not a creator: only the answers that it takes count.        *)
LEMMA ServeCounts ==
  ASSUME ShapeInv, Same, PlaceInv, Counts, NEW s \in Servers, Serve(s), UNCHANGED bvars
  PROVE  Counts' /\ Joining' = Joining
<1>0. s \in Threads /\ s[1] \in Nodes
  BY ServerFacts DEF ShapeInv
<1>1. ASSUME Alone(s), UNCHANGED <<Application, stage>> PROVE Counts' /\ Joining' = Joining
  BY <1>0, <1>1, CountsStay DEF Application
<1>2. ASSUME NEW n \in Nodes, NEW type \in {"enqueue", "enqueue_private"}, ServeEnqueue(s, n, type) PROVE Counts' /\ Joining' = Joining
  <2>1. PICK msg : msg = Head(chan[n][s[1]][MaxNvps])
    OBVIOUS
  <2>2. PICK t : t = msg.body
    OBVIOUS
  <2>3. Alone(s)
    BY ZenonT(30), <1>2, <2>1, <2>2, ServeEnqueueShape
  <2>4. UNCHANGED <<Application, stage>>
    BY <1>2 DEF ServeEnqueue
  <2> QED BY <1>1, <2>3, <2>4
<1>3. ASSUME NEW n \in Nodes, ServeAnswer(s, n) PROVE Counts' /\ Joining' = Joining
  <2>1. PICK msg : msg = Head(chan[n][s[1]][MaxNvps])
    OBVIOUS
  <2>2. PICK t : t = msg.body
    OBVIOUS
  <2>3. /\ Alone(s) /\ t \in Tasks
        /\ DepSatisfy(t) \/ UNCHANGED <<ndep, stage>>
    BY <1>3, <2>1, <2>2, ServeAnswerShape
  <2>4. UNCHANGED <<unjoined, parent>> /\ Serves(s, n, "answer")
    BY <1>3 DEF ServeAnswer
  <2>5. msg \in Messages(MaxNvps) /\ msg.type = "answer" /\ chan[n][s[1]][MaxNvps] # <<>>
    BY <2>1, <2>4, ServesEffect
  <2>6. stage[t] = "returned"
    BY <1>0, <2>1, <2>2, <2>3, <2>5, FoundAnswer DEF Stages
  <2>7. parent[t] \in Creators
    BY <2>3, <2>6 DEF PlaceInv, Parented
  <2>8. CASE DepSatisfy(t)
    BY <1>0, <2>3, <2>4, <2>6, <2>7, <2>8, CountsFinish
  <2>9. CASE UNCHANGED <<ndep, stage>>
    BY <1>0, <2>3, <2>4, <2>9, CountsStay
  <2> QED BY <2>3, <2>8, <2>9
<1>4. ASSUME NEW n \in Nodes, ServeSteal(s, n) PROVE Counts' /\ Joining' = Joining
  <2>1. PICK msg : msg = Head(chan[n][s[1]][MaxNvps])
    OBVIOUS
  <2>2. Alone(s) /\ UNCHANGED <<Application, stage>>
    BY <1>4, <2>1, ServeStealShape DEF ServeSteal
  <2> QED BY SMTT(30), <1>1, <2>2
<1>5. ASSUME NEW n \in Nodes, ServePrefetch(s, n) PROVE Counts' /\ Joining' = Joining
  BY <1>1, <1>5, ServePrefetchShape DEF ServePrefetch
<1>6. ASSUME NEW n \in Nodes, NEW call \in SwitchCalls, ServeSwitch(s, n, call) PROVE Counts' /\ Joining' = Joining
  BY <1>1, <1>6, ServeSwitchShape DEF ServeSwitch
<1>7. CASE ReceiveResults(s)
  <2>a. pc[s] = "get_results"
    BY <1>7 DEF ReceiveResults
  <2>1. PICK n \in Nodes, tag \in Tags, t \in Tasks : n = peer[s][1] /\ tag = peer[s][2] /\ t = hand[s]
    BY <1>0, <2>a, Now DEF WithTask
  <2>2. Alone(s) /\ DepSatisfy(t)
    BY <1>7, <2>1, ReceiveResultsShape
  <2>3. stage[t] = "returned"
    <3>1. KindOf(pc[s]) = "results" /\ "results" \in Kinds
      BY <2>a DEF KindOf, Kinds
    <3> QED BY <1>0, <2>1, <3>1, FoundInHand DEF Stages
  <2>4. parent[t] \in Creators /\ UNCHANGED <<unjoined, parent>>
    BY <1>7, <2>3 DEF PlaceInv, Parented, ReceiveResults
  <2> QED BY <1>0, <2>2, <2>3, <2>4, CountsFinish
<1> QED BY <1>2, <1>3, <1>4, <1>5, <1>6, <1>7 DEF Serve

LEMMA ServerBroadcastCounts ==
  ASSUME ShapeInv, Same, Counts, NEW s \in Servers, ReceiveData(s) \/ \E n \in Nodes : ServeBroadcast(s, n)
  PROVE  Counts' /\ Joining' = Joining
<1>0. s \in Threads
  BY ServerFacts DEF ShapeInv
<1>1. PICK n \in Nodes, tag \in Tags : n = peer[s][1] /\ tag = peer[s][2]
  BY <1>0, Now
<1>2. Alone(s)
  BY <1>1, ReceiveDataShape, ServeBroadcastShape
<1>3. UNCHANGED <<Application, stage>>
  BY ZenonT(30) DEF ReceiveData, ServeBroadcast
<1> QED BY <1>0, <1>2, <1>3, CountsStay DEF Application

(***************************************************************************)
(* The inductive invariant.                                                *)
(***************************************************************************)
ClusterInv == ShapeInv /\ PlaceInv /\ StealInv /\ Counts

LEMMA AppStepInv ==
  ASSUME ClusterInv, Same, NEW c \in Creators, AppStep(c), UNCHANGED bvars
  PROVE  ClusterInv'
<1>0. ShapeInv /\ PlaceInv /\ StealInv /\ Counts
  BY DEF ClusterInv
<1>1. ASSUME NEW t \in Tasks, NEW n \in Nodes, NEW call \in {"task", "task_direct"}, Create(c, t, n, call)
      PROVE  ClusterInv'
  <2>1. ShapeInv'
    BY <1>0, <1>1, CreateShape
  <2>2. PlaceInv'
    BY <1>0, <1>1, CreatePlace
  <2>3. StealInv'
    BY <1>0, <1>1, CreateSteal
  <2>4. Counts'
    BY <1>0, <1>1, CreateCounts
  <2> QED BY <2>1, <2>2, <2>3, <2>4 DEF ClusterInv
<1>2. ASSUME NEW call \in SwitchCalls \cup LocalCalls, SwitchCall(c, call) PROVE ClusterInv'
  <2>1. ShapeInv'
    BY <1>0, <1>2, SwitchCallShape
  <2>2. PlaceInv'
    BY <1>0, <1>2, SwitchCallPlace
  <2>3. StealInv'
    BY <1>0, <1>2, SwitchCallSteal
  <2>4. Counts'
    BY <1>0, <1>2, SwitchCallCounts
  <2> QED BY <2>1, <2>2, <2>3, <2>4 DEF ClusterInv
<1>3. CASE WaitAll(c)
  BY <1>0, <1>3, WaitShape, WaitPlace, WaitSteal, WaitCounts DEF ClusterInv
<1> QED BY <1>1, <1>2, <1>3 DEF AppStep

LEMMA CallStepInv ==
  ASSUME ClusterInv, Same, NEW c \in Creators, Joined(c) \/ NotYet(c) \/ SendSwitch(c), UNCHANGED bvars
  PROVE  ClusterInv'
<1>0. ShapeInv /\ PlaceInv /\ StealInv /\ Counts
  BY DEF ClusterInv
<1>1. CASE Joined(c) \/ NotYet(c)
  BY <1>0, <1>1, WaitShape, WaitPlace, WaitSteal, WaitCounts DEF ClusterInv
<1>2. CASE SendSwitch(c)
  BY <1>0, <1>2, SendSwitchShape, SendSwitchPlace, SendSwitchSteal, SendSwitchCounts DEF ClusterInv
<1> QED BY <1>1, <1>2

LEMMA SearchInv ==
  ASSUME ClusterInv, Same, NEW w \in Workers, UNCHANGED bvars,
         Search(w) \/ \E n \in Nodes : PrefetchRequest(w, n)
  PROVE  ClusterInv'
<1>0. ShapeInv /\ PlaceInv /\ StealInv /\ Counts
  BY DEF ClusterInv
<1>1. Counts'
  BY <1>0, SearchCounts DEF Search
<1>2. CASE TakeLocal(w)
  BY <1>0, <1>1, <1>2, TakeLocalShape, TakeLocalPlace, TakeLocalSteal DEF ClusterInv
<1>3. CASE NothingHere(w)
  BY <1>0, <1>1, <1>3, SearchShape, SearchPlace, NothingHereSteal DEF ClusterInv
<1>4. CASE StartRound(w)
  BY <1>0, <1>1, <1>4, StartRoundShape, StartRoundPlace, StartRoundSteal DEF ClusterInv
<1>5. CASE StealRequest(w)
  BY <1>0, <1>1, <1>5, StealRequestShape, StealRequestPlace, StealRequestSteal DEF ClusterInv
<1>6. CASE HoldForReply(w)
  BY <1>0, <1>1, <1>6, SearchShape, SearchPlace, HoldForReplySteal DEF ClusterInv
<1>7. CASE StealReply(w)
  <2>1. PICK k \in Nodes : k = peer[w][1]
    BY <1>0, Now, WorkerFacts DEF ShapeInv
  <2>2. ShapeInv'
    BY <1>0, <1>7, <2>1, StealReplyShape
  <2> QED BY <1>0, <1>1, <1>7, <2>2, StealReplyPlace, StealReplySteal DEF ClusterInv
<1>8. ASSUME NEW n \in Nodes, PrefetchRequest(w, n) PROVE ClusterInv'
  BY <1>0, <1>1, <1>8, PrefetchRequestShape, PrefetchRequestPlace, PrefetchRequestSteal DEF ClusterInv
<1> QED BY <1>2, <1>3, <1>4, <1>5, <1>6, <1>7, <1>8 DEF Search

LEMMA CommunicateInv ==
  ASSUME ClusterInv, Same, NEW th \in Threads, Communicate(th), UNCHANGED bvars
  PROVE  ClusterInv'
<1>0. ShapeInv /\ PlaceInv /\ StealInv /\ Counts
  BY DEF ClusterInv
<1>1. Counts'
  BY <1>0, CommunicateCounts
<1>p. PICK n \in Nodes, tag \in Tags, u \in Tasks \cup {NoTask} : n = peer[th][1] /\ tag = peer[th][2] /\ u = hand[th]
  BY <1>0, Now
<1>2. CASE SendDescriptor(th)
  <2>1. pc[th] \in {"send", "push"}
    BY <1>2 DEF SendDescriptor
  <2>2. PICK t \in Tasks : t = hand[th]
    BY <1>0, <2>1, Now DEF WithTask
  <2>3. ShapeInv'
    BY <1>0, <1>p, <1>2, <2>2, SendDescriptorShape
  <2> QED BY <1>0, <1>1, <1>2, <2>3, SendDescriptorPlace, SendDescriptorSteal DEF ClusterInv
<1>3. CASE DirectSendDescriptor(th)
  <2>1. ShapeInv'
    BY <1>0, <1>p, <1>3, DirectSendShape
  <2> QED BY <1>0, <1>1, <1>3, <2>1, DirectSendPlace, DirectSendSteal DEF ClusterInv
<1>4. CASE SendArguments(th)
  <2>1. ShapeInv'
    BY <1>0, <1>p, <1>4, SendArgumentsShape
  <2> QED BY <1>0, <1>1, <1>4, <2>1, SendArgumentsPlace, SendArgumentsSteal DEF ClusterInv
<1>5. CASE HoldForArguments(th)
  BY <1>0, <1>1, <1>5, HoldForArgumentsShape, HoldForArgumentsPlace, HoldForArgumentsSteal DEF ClusterInv
<1>6. CASE ReceiveArguments(th)
  <2>1. pc[th] = "held_args"
    BY <1>0, <1>6, Now, ServerFacts DEF ReceiveArguments, WorkerFits, ServerFits, SearchPlaces,
       InApplication, ServerPlaces, ShapeInv
  <2>2. PICK t \in Tasks : t = hand[th]
    BY <1>0, <2>1, Now DEF WithTask
  <2>3. ShapeInv'
    BY <1>0, <1>p, <1>6, <2>2, ReceiveArgumentsShape
  <2>4. /\ StealInv'
        /\ th \in Workers => Head(chan[peer[th][1]][th[1]][peer[th][2]]).type = "argument"
    BY <1>0, <1>6, ReceiveArgumentsSteal
  <2>5. PlaceInv'
    BY <1>0, <1>6, <2>4, ReceiveArgumentsPlace
  <2> QED BY <1>1, <2>3, <2>4, <2>5 DEF ClusterInv
<1> QED BY <1>2, <1>3, <1>4, <1>5, <1>6 DEF Communicate

LEMMA RunTaskInv ==
  ASSUME ClusterInv, Same, NEW th \in Threads, RunTask(th), UNCHANGED bvars
  PROVE  ClusterInv'
<1>0. ShapeInv /\ PlaceInv /\ StealInv /\ Counts
  BY DEF ClusterInv
<1>1. Counts'
  BY <1>0, RunTaskCounts
<1>p. pc[th] \in {"execute", "run", "send_results"}
  BY DEF RunTask, Execute, ReturnHome, SendAnswer, SendResults
<1>t. PICK t \in Tasks : t = hand[th]
  BY <1>0, <1>p, Now DEF WithTask
<1>2. CASE Execute(th)
  BY <1>0, <1>1, <1>2, ExecuteShape, ExecutePlace, ExecuteSteal DEF ClusterInv
<1>3. CASE ReturnHome(th)
  <2>1. ShapeInv'
    BY <1>0, <1>t, <1>3, ReturnHomeShape
  <2> QED BY <1>0, <1>1, <1>3, <2>1, ReturnHomePlace, ReturnHomeSteal DEF ClusterInv
<1>4. CASE SendAnswer(th)
  <2>1. PICK h \in Nodes : h = Home(t)
    BY <1>0, <1>t, <1>4, AtHome DEF SendAnswer
  <2>2. ShapeInv'
    BY <1>0, <1>t, <1>4, <2>1, SendAnswerShape
  <2> QED BY <1>0, <1>1, <1>4, <2>2, SendAnswerPlace, SendAnswerSteal DEF ClusterInv
<1>5. CASE SendResults(th)
  <2>1. PICK h \in Nodes : h = Home(t)
    BY <1>0, <1>t, <1>5, AtHome DEF SendResults
  <2>2. ShapeInv'
    BY <1>0, <1>t, <1>5, <2>1, SendResultsShape
  <2> QED BY <1>0, <1>1, <1>5, <2>2, SendResultsPlace, SendResultsSteal DEF ClusterInv
<1> QED BY <1>2, <1>3, <1>4, <1>5 DEF RunTask

LEMMA ServeInv ==
  ASSUME ClusterInv, Same, NEW s \in Servers, Serve(s), UNCHANGED bvars
  PROVE  ClusterInv'
<1>0. ShapeInv /\ PlaceInv /\ StealInv /\ Counts
  BY DEF ClusterInv
<1>1. Counts'
  BY <1>0, ServeCounts
<1>2. ASSUME NEW n \in Nodes, NEW type \in {"enqueue", "enqueue_private"}, ServeEnqueue(s, n, type)
      PROVE  ClusterInv'
  <2>1. PICK msg : msg = Head(chan[n][s[1]][MaxNvps])
    OBVIOUS
  <2>2. PICK t : t = msg.body
    OBVIOUS
  <2>3. ShapeInv'
    BY <1>0, <1>2, <2>1, <2>2, ServeEnqueueShape
  <2>4. PlaceInv'
    BY <1>0, <1>2, ServeEnqueuePlace
  <2>5. StealInv'
    BY <1>0, <1>2, ServeEnqueueSteal
  <2> QED BY <1>1, <2>3, <2>4, <2>5 DEF ClusterInv
<1>3. ASSUME NEW n \in Nodes, ServeAnswer(s, n) PROVE ClusterInv'
  <2>1. PICK msg : msg = Head(chan[n][s[1]][MaxNvps])
    OBVIOUS
  <2>2. PICK t : t = msg.body
    OBVIOUS
  <2>3. ShapeInv'
    BY <1>0, <1>3, <2>1, <2>2, ServeAnswerShape
  <2> QED BY <1>0, <1>1, <1>3, <2>3, ServeAnswerPlace, ServeAnswerSteal DEF ClusterInv
<1>4. ASSUME NEW n \in Nodes, ServeSteal(s, n) PROVE ClusterInv'
  <2>1. PICK msg : msg = Head(chan[n][s[1]][MaxNvps])
    OBVIOUS
  <2>2. ShapeInv'
    BY <1>0, <1>4, <2>1, ServeStealShape
  <2> QED BY <1>0, <1>1, <1>4, <2>2, ServeStealPlace, ServeStealSteal DEF ClusterInv
<1>5. ASSUME NEW n \in Nodes, ServePrefetch(s, n) PROVE ClusterInv'
  BY <1>0, <1>1, <1>5, ServePrefetchShape, ServePrefetchPlace, ServePrefetchSteal DEF ClusterInv
<1>6. ASSUME NEW n \in Nodes, NEW call \in SwitchCalls, ServeSwitch(s, n, call) PROVE ClusterInv'
  BY <1>0, <1>1, <1>6, ServeSwitchShape, ServeSwitchPlace, ServeSwitchSteal DEF ClusterInv
<1>7. CASE ReceiveResults(s)
  <2>a. s \in Threads /\ pc[s] = "get_results"
    BY <1>0, <1>7, ServerFacts DEF ShapeInv, ReceiveResults
  <2>1. PICK n \in Nodes, tag \in Tags, t \in Tasks : n = peer[s][1] /\ tag = peer[s][2] /\ t = hand[s]
    BY <1>0, <2>a, Now DEF WithTask
  <2>2. ShapeInv'
    BY <1>0, <1>7, <2>1, ReceiveResultsShape
  <2> QED BY <1>0, <1>1, <1>7, <2>2, ReceiveResultsPlace, ReceiveResultsSteal DEF ClusterInv
<1> QED BY <1>2, <1>3, <1>4, <1>5, <1>6, <1>7 DEF Serve

LEMMA BroadcastStepInv ==
  ASSUME ClusterInv, Same, NEW th \in Threads, BroadcastStep(th)
  PROVE  ClusterInv'
<1>0. ShapeInv /\ PlaceInv /\ StealInv /\ Counts
  BY DEF ClusterInv
<1>p. PICK n \in Nodes, tag \in Tags : n = peer[th][1] /\ tag = peer[th][2]
  BY <1>0, Now
<1>1. ASSUME th \in Creators, SkipOwn(th) \/ SsendDone(th) PROVE ClusterInv'
  BY <1>0, <1>1, NextNodeShape, NextNodePlace, NextNodeSteal, NextNodeCounts DEF ClusterInv
<1>2. ASSUME th \in Creators, SendBroadcast(th) PROVE ClusterInv'
  BY <1>0, <1>p, <1>2, SendBroadcastShape, SendBroadcastPlace, SendBroadcastSteal, SendBroadcastCounts DEF ClusterInv
<1>3. ASSUME th \in Creators, Ssend(th) PROVE ClusterInv'
  BY <1>0, <1>p, <1>3, SsendShape, SsendPlace, SsendSteal, SsendCounts DEF ClusterInv
<1>4. ASSUME th \in Servers, ReceiveData(th) PROVE ClusterInv'
  BY <1>0, <1>p, <1>4, ReceiveDataShape, ReceiveDataPlace, ReceiveDataSteal, ServerBroadcastCounts DEF ClusterInv
<1>5. ASSUME th \in Servers, NEW m \in Nodes, ServeBroadcast(th, m) PROVE ClusterInv'
  BY <1>0, <1>5, ServeBroadcastShape, ServeBroadcastPlace, ServeBroadcastSteal, ServerBroadcastCounts DEF ClusterInv
<1> QED BY <1>1, <1>2, <1>3, <1>4, <1>5 DEF BroadcastStep

LEMMA BroadcastCallInv ==
  ASSUME ClusterInv, Same, NEW c \in Creators, NEW a \in Variables, NEW v \in Values, Broadcast(c, a, v)
  PROVE  ClusterInv'
BY BroadcastCallShape, BroadcastCallPlace, BroadcastCallSteal, BroadcastCallCounts DEF ClusterInv

(* Nothing changes the setup.                                              *)
LEMMA SetupKept == ASSUME ClusterNext PROVE setup' = setup
<1>1. ASSUME NEW c, AppStep(c) PROVE setup' = setup
  BY <1>1 DEF AppStep, Create, SwitchCall, WaitAll, Switch
<1>2. ASSUME NEW w, NEW n, PrefetchRequest(w, n) PROVE setup' = setup
  BY <1>2 DEF PrefetchRequest, Switch
<1>3. ASSUME NEW th, Step(th) PROVE setup' = setup
  <2>1. CASE Joined(th) \/ NotYet(th) \/ SendSwitch(th)
    BY SMTT(30), <2>1 DEF Joined, NotYet, SendSwitch, Switch
  <2>2. CASE Search(th)
    BY ZenonT(30), <2>2
       DEF Search, TakeLocal, NothingHere, StartRound, StealRequest, HoldForReply, StealReply, Switch
  <2>3. CASE Serve(th)
    BY ZenonT(30), <2>3
       DEF Serve, ServeEnqueue, ServeAnswer, ServeSteal, ServePrefetch, ServeSwitch, ReceiveResults, Switch
  <2>4. CASE Communicate(th)
    BY <2>4 DEF Communicate, SendDescriptor, DirectSendDescriptor, SendArguments, HoldForArguments,
       ReceiveArguments, Switch
  <2>5. CASE RunTask(th)
    BY SMTT(30), <2>5 DEF RunTask, Execute, ReturnHome, SendAnswer, SendResults, Switch
  <2> QED BY <1>3, <2>1, <2>2, <2>3, <2>4, <2>5 DEF Step
<1>4. ASSUME NEW th, BroadcastStep(th) PROVE setup' = setup
  BY ZenonT(30), <1>4
     DEF BroadcastStep, SkipOwn, SendBroadcast, Ssend, SsendDone, ReceiveData, ServeBroadcast, Switch
<1>5. ASSUME NEW c, NEW a, NEW v, Broadcast(c, a, v) PROVE setup' = setup
  BY <1>5 DEF Broadcast, Switch
<1> QED BY <1>1, <1>2, <1>3, <1>4, <1>5 DEF ClusterNext, Next

LEMMA ClusterInvInit == ASSUME ClusterInit, PayloadsApart PROVE ClusterInv
BY ShapeInit, PlaceInit, StealInit, CountsInit DEF ClusterInv

LEMMA ClusterInvStep == ASSUME ClusterInv, [ClusterNext]_cvars PROVE ClusterInv'
<1>0. ShapeInv /\ PlaceInv /\ StealInv /\ Counts
  BY DEF ClusterInv
<1>1. CASE UNCHANGED cvars
  <2>1. Same
    BY <1>1, SetupFixed DEF cvars, vars
  <2>2. PICK th \in Threads : pc[th] # "send_results"
    <3>1. 0 \in Nodes /\ Server(0) \in Servers
      BY <1>0, Numbers, ServerFacts DEF ShapeInv
    <3>2. Server(0) \in Threads /\ pc[Server(0)] \in ServerPlaces
      BY <1>0, <3>1, Now DEF ServerFits
    <3> QED BY <3>2 DEF ServerPlaces
  <2>3. /\ UNCHANGED <<chan, lock, pc, hand, peer, public, private, stealing, prefetching, made>>
        /\ UNCHANGED <<ndep, unjoined, parent, direct, stage, memory, var>>
    BY <1>1 DEF cvars, vars, bvars
  <2>4. ThreadsFit
    BY <1>0 DEF ShapeInv
  <2>5. Alone(th)
    BY <2>3, <2>4, AloneIf
  <2>6. Fits(th, pc'[th], hand'[th], peer'[th])
    BY <2>3, <2>4 DEF ThreadsFit
  <2>7. ShapeInv'
    BY <1>0, <2>1, <2>3, <2>5, <2>6, ShapeStep DEF Queues, Application
  <2>8. PlaceInv'
    <3>1. MailGoes(NoTask, 0, 0)
      BY <2>3, MailSame, NodeCommAssumption
    <3>2. TasksStay(th)
      BY <2>2, <2>3, <3>1 DEF TasksStay
    <3> QED BY <1>0, <2>1, <2>5, <2>7, <3>2, QuietStep
  <2>9. StealInv'
    BY <1>0, <2>1, <2>3, <2>5, StealQuiet DEF QuietMail
  <2>10. Counts'
    BY <1>0, <2>1, <2>3, <2>5, CountsStay
  <2> QED BY <2>7, <2>8, <2>9, <2>10 DEF ClusterInv
<1>2. CASE ClusterNext
  <2>1. Same
    BY <1>2, SetupKept, SetupFixed
  <2>2. ASSUME NEW c \in Creators, AppStep(c), UNCHANGED bvars PROVE ClusterInv'
    BY <2>1, <2>2, AppStepInv
  <2>3. ASSUME NEW w \in Workers, NEW n \in Nodes, PrefetchRequest(w, n), UNCHANGED bvars PROVE ClusterInv'
    BY <2>1, <2>3, SearchInv
  <2>4. ASSUME NEW th \in Threads, Step(th), UNCHANGED bvars PROVE ClusterInv'
    BY <2>1, <2>4, CallStepInv, SearchInv, ServeInv, CommunicateInv, RunTaskInv DEF Step
  <2>5. ASSUME NEW c \in Creators, NEW a \in Variables, NEW v \in Values, Broadcast(c, a, v) PROVE ClusterInv'
    BY <2>1, <2>5, BroadcastCallInv
  <2>6. ASSUME NEW th \in Threads, BroadcastStep(th) PROVE ClusterInv'
    BY <2>1, <2>6, BroadcastStepInv
  <2> QED BY <1>2, <2>2, <2>3, <2>4, <2>5, <2>6 DEF ClusterNext, Next
<1> QED BY <1>1, <1>2

(***************************************************************************)
(* What the invariant says of the properties that TLC checks.              *)
(***************************************************************************)
LEMMA ClusterInvariant == ClusterSpec /\ PayloadsApart => []ClusterInv
<1>1. ClusterInit /\ PayloadsApart => ClusterInv
  BY ClusterInvInit
<1>2. ClusterInv /\ [ClusterNext]_cvars => ClusterInv'
  BY ClusterInvStep
<1> QED BY <1>1, <1>2, PTL DEF ClusterSpec

LEMMA TypesHold == ASSUME ClusterInv PROVE TypeOK
<1>0. ShapeInv /\ PlaceInv /\ Counts /\ SetupInv
  BY DEF ClusterInv, ShapeInv
<1>1. ASSUME NEW n \in Nodes, NEW m \in Nodes, NEW tag \in Tags, NEW i \in DOMAIN chan[n][m][tag]
      PROVE  chan[n][m][tag][i].type \in Types /\ chan[n][m][tag][i].vp \in Vps
  <2>1. chan[n][m][tag] \in Seq(AnyMessage)
    BY <1>0 DEF ShapeInv, Channels
  <2>2. chan[n][m][tag][i] \in AnyMessage
    BY <2>1
  <2> QED BY <2>2 DEF AnyMessage
<1>2. /\ lock \in [Nodes -> Threads \cup {NoThread}]
      /\ pc \in [Threads -> Places]
      /\ hand \in [Threads -> Tasks \cup {NoTask}]
      /\ peer \in [Threads -> Nodes \X Tags]
      /\ public \in [Nodes -> Seq(Tasks)] /\ private \in [Nodes -> Seq(Tasks)]
      /\ stealing \in [Nodes -> BOOLEAN] /\ prefetching \in [Nodes -> BOOLEAN]
      /\ unjoined \subseteq Creators /\ direct \subseteq Tasks
      /\ stage \in [Tasks -> {"none", "spawned", "active", "returned", "done"}]
  BY <1>0 DEF ShapeInv, ThreadsFit, QueueTypes, SwitchTypes, AppTypes, MemoryTypes
<1>3. made \in [Creators -> Seq(SwitchCalls \cup LocalCalls)]
  <2>1. made \in [Creators -> Seq(Calls)]
    BY <1>0 DEF ShapeInv, SwitchTypes
  <2>2. Calls \subseteq SwitchCalls \cup LocalCalls
    BY DEF Calls
  <2>3. \A c \in Creators : made[c] \in Seq(SwitchCalls \cup LocalCalls)
    BY <2>1, <2>2
  <2> QED BY <2>1, <2>3
<1>4. ndep \in [Creators -> Nat]
  <2>1. ndep \in [Creators -> Int]
    BY <1>0 DEF ShapeInv, AppTypes
  <2>2. ASSUME NEW c \in Creators PROVE ndep[c] \in Nat
    <3>1. Cardinality(Outstanding(c)) \in Nat /\ ndep[c] = Cardinality(Outstanding(c)) + One(c \in unjoined)
      BY <1>0, OutstandingFacts DEF Counts, DepCount, One
    <3> HIDE DEF Outstanding
    <3> QED BY <3>1 DEF One
  <2> QED BY <2>1, <2>2
<1>5. parent \in [Tasks -> Workers \cup {NoThread}]
  BY <1>0, WorkerFacts DEF ShapeInv, AppTypes
<1> QED BY <1>1, <1>2, <1>3, <1>4, <1>5 DEF TypeOK

LEMMA Singles ==
  ASSUME NEW S, NEW s \in Seq(S), NEW M
  PROVE  /\ Num(s, M) = 0 => {j \in DOMAIN s : s[j] \in M} = {}
         /\ Num(s, M) = 1 => \E i : {j \in DOMAIN s : s[j] \in M} = {i}
<1>1. DOMAIN s = 1 .. Len(s)
  OBVIOUS
<1>2. Num(s, M) = 0 => \A i \in 1 .. Len(s) : s[i] \notin M
  BY NumZero
<1>3. Num(s, M) = 1 => \E i \in 1 .. Len(s) : {j \in 1 .. Len(s) : s[j] \in M} = {i}
  BY NumOne
<1> QED BY <1>1, <1>2, <1>3

(* The places of a task in one queue and in one channel.                   *)
InQueue(Q, kind, n, t) == {<<n, kind, i>> : i \in {j \in DOMAIN Q[n] : Q[n][j] = t}}
InChannel(n, m, tag, t) ==
  {<<n, m, tag, i>> : i \in {j \in DOMAIN chan[n][m][tag] : Moves(chan[n][m][tag][j], t)}}

LEMMA PlacesInQueue ==
  ASSUME NEW Q \in [Nodes -> Seq(Tasks)], NEW kind, NEW n \in Nodes, NEW t
  PROVE  /\ Num(Q[n], {t}) = 0 => InQueue(Q, kind, n, t) = {}
         /\ Num(Q[n], {t}) = 1 => \E x : InQueue(Q, kind, n, t) = {x}
<1>1. Q[n] \in Seq(Tasks)
  OBVIOUS
<1>2. {j \in DOMAIN Q[n] : Q[n][j] = t} = {j \in DOMAIN Q[n] : Q[n][j] \in {t}}
  OBVIOUS
<1>3. /\ Num(Q[n], {t}) = 0 => {j \in DOMAIN Q[n] : Q[n][j] = t} = {}
      /\ Num(Q[n], {t}) = 1 => \E i : {j \in DOMAIN Q[n] : Q[n][j] = t} = {i}
  BY <1>1, <1>2, Singles
<1>4. PICK J : J = {j \in DOMAIN Q[n] : Q[n][j] = t}
  OBVIOUS
<1>5. InQueue(Q, kind, n, t) = {<<n, kind, i>> : i \in J}
  BY <1>4 DEF InQueue
<1>6. (Num(Q[n], {t}) = 0 => J = {}) /\ (Num(Q[n], {t}) = 1 => \E i : J = {i})
  BY <1>3, <1>4
<1>7. ASSUME NEW i, J = {i} PROVE InQueue(Q, kind, n, t) = {<<n, kind, i>>}
  BY <1>5, <1>7
<1>8. J = {} => InQueue(Q, kind, n, t) = {}
  BY <1>5
<1> QED BY <1>6, <1>7, <1>8

LEMMA PlacesInChannel ==
  ASSUME ShapeInv, NEW n \in Nodes, NEW m \in Nodes, NEW tag \in Tags, NEW t \in Tasks
  PROVE  /\ Num(chan[n][m][tag], Movers(t)) = 0 => InChannel(n, m, tag, t) = {}
         /\ Num(chan[n][m][tag], Movers(t)) = 1 => \E x : InChannel(n, m, tag, t) = {x}
<1>0. SetupInv
  BY DEF ShapeInv
<1>1. PICK q : q = chan[n][m][tag]
  OBVIOUS
<1>2. q \in Seq(Messages(tag))
  BY <1>1 DEF ShapeInv, Channels
<1>3. ASSUME NEW j \in DOMAIN q PROVE Moves(q[j], t) <=> q[j] \in Movers(t)
  <2>1. PICK msg \in Messages(tag) : msg = q[j]
    BY <1>2
  <2> QED BY <1>0, <2>1, HeldFacts
<1>4. {j \in DOMAIN q : Moves(q[j], t)} = {j \in DOMAIN q : q[j] \in Movers(t)}
  BY <1>3
<1>5. /\ Num(q, Movers(t)) = 0 => {j \in DOMAIN q : Moves(q[j], t)} = {}
      /\ Num(q, Movers(t)) = 1 => \E i : {j \in DOMAIN q : Moves(q[j], t)} = {i}
  BY <1>2, <1>4, Singles
<1>6. PICK J : J = {j \in DOMAIN q : Moves(q[j], t)}
  OBVIOUS
<1>7. InChannel(n, m, tag, t) = {<<n, m, tag, i>> : i \in J}
  BY <1>1, <1>6 DEF InChannel
<1>8. (Num(q, Movers(t)) = 0 => J = {}) /\ (Num(q, Movers(t)) = 1 => \E i : J = {i})
  BY <1>5, <1>6
<1>9. ASSUME NEW i, J = {i} PROVE InChannel(n, m, tag, t) = {<<n, m, tag, i>>}
  BY <1>7, <1>9
<1>10. J = {} => InChannel(n, m, tag, t) = {}
  BY <1>7
<1> QED BY <1>1, <1>8, <1>9, <1>10

(* The places of a task are empty but for the one where it is.             *)
LEMMA PlacesOf ==
  ASSUME ShapeInv, NEW t \in Tasks, NEW p \in Locations, IsAt(t, p)
  PROVE  /\ IF p[1] \in {"public", "private"} THEN \E x : QueuePlaces(t) = {x} ELSE QueuePlaces(t) = {}
         /\ IF p[1] = "moves" THEN \E x : MessagePlaces(t) = {x} ELSE MessagePlaces(t) = {}
         /\ IF p[1] \in {"hand", "run"} THEN \E x : HandPlaces(t) = {x} ELSE HandPlaces(t) = {}
<1>0. public \in [Nodes -> Seq(Tasks)] /\ private \in [Nodes -> Seq(Tasks)]
  BY DEF ShapeInv, QueueTypes
<1>1. QueuePlaces(t) = UNION {InQueue(public, "public", n, t) \cup InQueue(private, "private", n, t) : n \in Nodes}
  BY DEF QueuePlaces, InQueue
<1>2. MessagePlaces(t) = UNION {InChannel(n, m, tag, t) : n \in Nodes, m \in Nodes, tag \in Tags}
  BY DEF MessagePlaces, InChannel
<1>3. \A n \in Nodes : /\ p # <<"public", n>> => InQueue(public, "public", n, t) = {}
                       /\ p = <<"public", n>> => \E x : InQueue(public, "public", n, t) = {x}
                       /\ p # <<"private", n>> => InQueue(private, "private", n, t) = {}
                       /\ p = <<"private", n>> => \E x : InQueue(private, "private", n, t) = {x}
  BY <1>0, PlacesInQueue DEF IsAt, One
<1>4. \A n \in Nodes, m \in Nodes, tag \in Tags :
        /\ p # <<"moves", <<n, m, tag>>>> => InChannel(n, m, tag, t) = {}
        /\ p = <<"moves", <<n, m, tag>>>> => \E x : InChannel(n, m, tag, t) = {x}
  BY ZenonT(30), PlacesInChannel DEF IsAt, One
<1>5. IF p[1] \in {"public", "private"} THEN \E x : QueuePlaces(t) = {x} ELSE QueuePlaces(t) = {}
  <2> HIDE DEF InQueue, QueuePlaces
  <2>1. ASSUME NEW k \in Nodes, p = <<"public", k>> PROVE \E x : QueuePlaces(t) = {x}
    <3>1. PICK x : InQueue(public, "public", k, t) = {x}
      BY <1>3, <2>1
    <3>2. \A n \in Nodes : /\ n # k => InQueue(public, "public", n, t) = {}
                           /\ InQueue(private, "private", n, t) = {}
      BY <1>3, <2>1
    <3> QED BY <1>1, <3>1, <3>2
  <2>2. ASSUME NEW k \in Nodes, p = <<"private", k>> PROVE \E x : QueuePlaces(t) = {x}
    <3>1. PICK x : InQueue(private, "private", k, t) = {x}
      BY <1>3, <2>2
    <3>2. \A n \in Nodes : /\ n # k => InQueue(private, "private", n, t) = {}
                           /\ InQueue(public, "public", n, t) = {}
      BY <1>3, <2>2
    <3> QED BY <1>1, <3>1, <3>2
  <2>3. ASSUME p[1] \notin {"public", "private"} PROVE QueuePlaces(t) = {}
    BY <1>1, <1>3, <2>3
  <2>4. p[1] \in {"public", "private"} => \E k \in Nodes : p = <<"public", k>> \/ p = <<"private", k>>
    BY DEF Locations, Kinds
  <2> QED BY <2>1, <2>2, <2>3, <2>4
<1>6. IF p[1] = "moves" THEN \E x : MessagePlaces(t) = {x} ELSE MessagePlaces(t) = {}
  <2> HIDE DEF InChannel, MessagePlaces
  <2>1. ASSUME NEW n \in Nodes, NEW m \in Nodes, NEW tag \in Tags, p = <<"moves", <<n, m, tag>>>>
        PROVE  \E x : MessagePlaces(t) = {x}
    <3>1. PICK x : InChannel(n, m, tag, t) = {x}
      BY <1>4, <2>1
    <3>2. \A a \in Nodes, b \in Nodes, g \in Tags : <<a, b, g>> # <<n, m, tag>> => InChannel(a, b, g, t) = {}
      BY <1>4, <2>1
    <3> QED BY <1>2, <3>1, <3>2
  <2>2. ASSUME p[1] # "moves" PROVE MessagePlaces(t) = {}
    BY <1>2, <1>4, <2>2
  <2>3. p[1] = "moves" => \E n \in Nodes, m \in Nodes, tag \in Tags : p = <<"moves", <<n, m, tag>>>>
    BY DEF Locations, Kinds
  <2> QED BY <2>1, <2>2, <2>3
<1>7. IF p[1] \in {"hand", "run"} THEN \E x : HandPlaces(t) = {x} ELSE HandPlaces(t) = {}
  <2>1. \A th \in Threads : (hand[th] = t /\ pc[th] \in Carrying) <=> p = <<"hand", th>> \/ p = <<"run", th>>
    <3>1. SUFFICES ASSUME NEW th \in Threads
                   PROVE  (hand[th] = t /\ pc[th] \in Carrying) <=> p = <<"hand", th>> \/ p = <<"run", th>>
      OBVIOUS
    <3>2. (Has(th, t, "hand") <=> p = <<"hand", th>>) /\ (Has(th, t, "run") <=> p = <<"run", th>>)
      BY DEF IsAt, Kinds
    <3>3. pc[th] \in Carrying <=> KindOf(pc[th]) \in {"hand", "run"}
      BY DEF KindOf, Carrying
    <3> QED BY <3>2, <3>3 DEF Has
  <2>2. p[1] \in {"hand", "run"} => \E th \in Threads : p = <<"hand", th>> \/ p = <<"run", th>>
    BY DEF Locations, Kinds
  <2>3. ASSUME NEW th \in Threads, p = <<"hand", th>> \/ p = <<"run", th>> PROVE HandPlaces(t) = {th}
    <3>1. \A o \in Threads : (p = <<"hand", o>> \/ p = <<"run", o>>) <=> o = th
      BY <2>3
    <3> QED BY <2>1, <3>1 DEF HandPlaces
  <2>4. ASSUME p[1] \notin {"hand", "run"} PROVE HandPlaces(t) = {}
    BY <2>1, <2>4 DEF HandPlaces
  <2> QED BY <2>2, <2>3, <2>4
<1> QED BY <1>5, <1>6, <1>7

LEMMA PlaceHolds == ASSUME ClusterInv PROVE OnePlace
<1>0. ShapeInv /\ PlaceInv
  BY DEF ClusterInv
<1>1. SUFFICES ASSUME NEW t \in Tasks
               PROVE  Cardinality(QueuePlaces(t)) + Cardinality(MessagePlaces(t)) + Cardinality(HandPlaces(t))
                        = IF stage[t] \in {"spawned", "active"} THEN 1 ELSE 0
  BY DEF OnePlace
<1>2. PICK p \in Locations : IsAt(t, p) /\ stage[t] \in Stages(p[1])
  BY <1>0 DEF PlaceInv, Placed
<1>3. /\ IF p[1] \in {"public", "private"} THEN Cardinality(QueuePlaces(t)) = 1 ELSE Cardinality(QueuePlaces(t)) = 0
      /\ IF p[1] = "moves" THEN Cardinality(MessagePlaces(t)) = 1 ELSE Cardinality(MessagePlaces(t)) = 0
      /\ IF p[1] \in {"hand", "run"} THEN Cardinality(HandPlaces(t)) = 1 ELSE Cardinality(HandPlaces(t)) = 0
  <2>1. (\A x : Cardinality({x}) = 1) /\ Cardinality({}) = 0
    BY SMTT(30), FS_Singleton, FS_EmptySet
  <2> HIDE DEF QueuePlaces, MessagePlaces, HandPlaces
  <2> QED BY <1>0, <1>2, <2>1, PlacesOf
<1>4. p[1] \in {"nowhere", "public", "private", "moves", "answer", "hand", "run", "results"}
  BY DEF Locations, Kinds
<1>5. /\ p[1] \in {"public", "private", "moves", "hand", "run"} => stage[t] \in {"spawned", "active"}
      /\ p[1] \in {"nowhere", "answer", "results"} => stage[t] \notin {"spawned", "active"}
  BY SMTT(30), <1>2 DEF Stages
<1> HIDE DEF QueuePlaces, MessagePlaces, HandPlaces
<1> QED BY <1>3, <1>4, <1>5

LEMMA OrderHolds == ASSUME ClusterInv PROVE RepliesInOrder
<1>0. ShapeInv /\ StealInv /\ SetupInv
  BY SMTT(30) DEF ClusterInv, ShapeInv
<1> SUFFICES ASSUME NEW w \in Workers, NEW n \in Nodes
             PROVE  LET asked == {i \in 1 .. Len(chan[w[1]][n][MaxNvps]) :
                                    chan[w[1]][n][MaxNvps][i].type = "steal"
                                    /\ chan[w[1]][n][MaxNvps][i].vp = w[2]}
                        answered == {i \in 1 .. Len(chan[n][w[1]][StealTag(w[2])]) :
                                       chan[n][w[1]][StealTag(w[2])][i].type \in {"work", "no_work"}}
                        answering == {s \in Servers : s[1] = n /\ pc[s] = "reply"
                                                      /\ peer[s] = <<w[1], StealTag(w[2])>>} IN
                    Cardinality(asked) + Cardinality(answered) + Cardinality(answering)
                      = IF pc[w] \in InFirst \cup InSecond /\ peer[w][1] = n THEN 1 ELSE 0
  BY ZenonT(30) DEF RepliesInOrder
<1> DEFINE asked == {i \in 1 .. Len(chan[w[1]][n][MaxNvps]) :
                       chan[w[1]][n][MaxNvps][i].type = "steal" /\ chan[w[1]][n][MaxNvps][i].vp = w[2]}
           answered == {i \in 1 .. Len(chan[n][w[1]][StealTag(w[2])]) :
                          chan[n][w[1]][StealTag(w[2])][i].type \in {"work", "no_work"}}
           answering == {s \in Servers : s[1] = n /\ pc[s] = "reply" /\ peer[s] = <<w[1], StealTag(w[2])>>}
<1>1. w[1] \in Nodes /\ StealTag(w[2]) \in Tags /\ MaxNvps \in Tags /\ w \in Threads
  BY <1>0, StealTypes
<1>2. Cardinality(asked) = Num(ToVictim(w, n), Requests(w))
  <2>1. PICK q : q = chan[w[1]][n][MaxNvps]
    OBVIOUS
  <2>2. q \in Seq(AnyMessage)
    BY <1>0, <1>1, <2>1 DEF ShapeInv, Channels
  <2>3. \A i \in 1 .. Len(q) : q[i] \in AnyMessage
    BY SMTT(30), <2>2
  <2>4. {i \in 1 .. Len(q) : q[i].type = "steal" /\ q[i].vp = w[2]} = {i \in 1 .. Len(q) : q[i] \in Requests(w)}
    BY SMTT(30), <2>3 DEF Requests
  <2> QED BY <2>1, <2>4 DEF ToVictim, Num
<1>3. Cardinality(answered) = Num(ToThief(w, n), Replies)
  <2>1. PICK q : q = chan[n][w[1]][StealTag(w[2])]
    OBVIOUS
  <2>2. q \in Seq(AnyMessage)
    BY <1>0, <1>1, <2>1 DEF ShapeInv, Channels
  <2>3. \A i \in 1 .. Len(q) : q[i] \in AnyMessage
    BY <2>2
  <2>4. {i \in 1 .. Len(q) : q[i].type \in {"work", "no_work"}} = {i \in 1 .. Len(q) : q[i] \in Replies}
    BY <2>3 DEF Replies
  <2> QED BY ZenonT(30), <2>1, <2>4 DEF ToThief, Num
<1>4. Cardinality(answering) = One(Answering(w, n))
  <2>1. \A s \in Servers : s[1] = n <=> s = Server(n)
    BY <1>0, ServerFacts
  <2>2. Server(n) \in Servers /\ IsServer(Server(n))
    BY <1>0, ServerFacts
  <2>3. pc[Server(n)] = "reply" <=> RoleOf(Server(n), pc[Server(n)]) = "answers"
    BY <2>2 DEF RoleOf
  <2>4. answering = IF Answering(w, n) THEN {Server(n)} ELSE {}
    BY <2>1, <2>2, <2>3 DEF Answering, Plays
  <2>5. Cardinality({Server(n)}) = 1 /\ Cardinality({}) = 0
    BY FS_Singleton, FS_EmptySet
  <2> HIDE DEF answering
  <2> QED BY <2>4, <2>5 DEF One
<1>5. (pc[w] \in InFirst \cup InSecond /\ peer[w][1] = n) <=> Waiting(w, n)
  <2>1. ~IsServer(w) /\ peer[w] \in Nodes \X Tags /\ WorkerFits(w, pc[w], peer[w])
    BY <1>0, <1>1, Now
  <2>2. pc[w] \in Inside <=> RoleOf(w, pc[w]) = "waits"
    BY <2>1 DEF RoleOf
  <2>3. pc[w] \in Inside => peer[w][2] = StealTag(w[2])
    BY <2>1 DEF WorkerFits
  <2>4. peer[w] = <<peer[w][1], peer[w][2]>>
    BY <2>1
  <2> QED BY <2>2, <2>3, <2>4 DEF Waiting, Plays, Inside
<1>6. Num(ToVictim(w, n), Requests(w)) + Num(ToThief(w, n), Replies) + One(Answering(w, n)) = One(Waiting(w, n))
  BY <1>0 DEF StealInv, StealOn
<1> HIDE DEF asked, answered, answering, Waiting, Answering, Num, ToVictim, ToThief, Replies, Requests
<1>7. Cardinality(asked) + Cardinality(answered) + Cardinality(answering)
        = IF pc[w] \in InFirst \cup InSecond /\ peer[w][1] = n THEN 1 ELSE 0
  BY <1>2, <1>3, <1>4, <1>5, <1>6 DEF One
<1> QED BY ZenonT(30), <1>7 DEF asked, answered, answering

-----------------------------------------------------------------------------
(* Types: every node, thread, queue, message and counter of the cluster is *)
(* what it is meant to be; in particular no dependency counter is ever     *)
(* negative.                                                               *)
THEOREM ClusterTypes == ClusterSpec /\ PayloadsApart => []TypeOK
BY ClusterInvariant, TypesHold, PTL

(* DepCount: the counter of a creator is at all times the number of its    *)
(* tasks, wherever they are in the cluster, whose end it has not been told,*)
(* and the token of its own: no answer is lost or counted twice.           *)
THEOREM ClusterCounts == ClusterSpec /\ PayloadsApart => []DepCount
<1>1. ClusterInv => DepCount
  BY DEF ClusterInv, Counts
<1> QED BY <1>1, ClusterInvariant, PTL

(* OnePlace: stealing, prefetching, placement and coming home neither lose *)
(* nor duplicate a task.                                                   *)
THEOREM ClusterPlaces == ClusterSpec /\ PayloadsApart => []OnePlace
BY ClusterInvariant, PlaceHolds, PTL

(* RepliesInOrder: a thief takes the reply to its own request.             *)
THEOREM ClusterReplies == ClusterSpec /\ PayloadsApart => []RepliesInOrder
BY ClusterInvariant, OrderHolds, PTL

(***************************************************************************)
(* The cluster implements ForkJoin: every step is a step of it or none.    *)
(***************************************************************************)
Statuses == [t \in Tasks |-> IF stage[t] \in {"returned", "done"} THEN "finished" ELSE stage[t]]

LEMMA ForkJoinInit == ASSUME ClusterInit, PayloadsApart PROVE FJ!Init
<1>1. \A t \in Tasks : Statuses[t] = "none"
  BY DEF ClusterInit, Init, Statuses
<1>2. parent = [t \in Tasks |-> NoThread] /\ Statuses = [t \in Tasks |-> "none"]
  BY <1>1 DEF ClusterInit, Init, Statuses
<1>3. SetupInv
  BY DEF ClusterInit, Init, SetupInv
<1>4. \A c \in Creators : pc[c] = "app"
  BY <1>3, WorkerFacts, ServerFacts DEF ClusterInit, Init
<1>5. Joining = {}
  BY <1>4 DEF Joining, InApplication
<1> QED BY <1>2, <1>5 DEF FJ!Init, Statuses

LEMMA ForkJoinSame ==
  ASSUME UNCHANGED parent, Joining' = Joining, \A t \in Tasks : Statuses[t]' = Statuses[t]
  PROVE  UNCHANGED FJ!vars
<1>1. Statuses' = Statuses
  BY DEF Statuses
<1> QED BY <1>1 DEF FJ!vars, Statuses

(* The task t gets further.                                                *)
LEMMA StatusSet ==
  ASSUME ShapeInv, NEW t \in Tasks, NEW q \in {"spawned", "active", "returned", "done"},
         stage' = [stage EXCEPT ![t] = q]
  PROVE  /\ Statuses' = [Statuses EXCEPT ![t] = IF q \in {"returned", "done"} THEN "finished" ELSE q]
         /\ Statuses[t] = IF stage[t] \in {"returned", "done"} THEN "finished" ELSE stage[t]
<1>1. stage \in [Tasks -> {"none", "spawned", "active", "returned", "done"}]
  BY DEF ShapeInv, AppTypes
<1>2. \A u \in Tasks : stage'[u] = IF u = t THEN q ELSE stage[u]
  BY <1>1
<1> QED BY <1>2 DEF Statuses

LEMMA CreateForks ==
  ASSUME ClusterInv, Same, NEW c \in Creators, NEW t \in Tasks, NEW n \in Nodes,
         NEW call \in {"task", "task_direct"}, Create(c, t, n, call), UNCHANGED bvars
  PROVE  FJ!Next
<1>0. ShapeInv /\ PlaceInv /\ Counts /\ SetupInv
  BY DEF ClusterInv, ShapeInv
<1>1. Joining' = Joining
  BY <1>0, CreateCounts
<1>2. /\ c \notin Joining /\ stage[t] = "none" /\ parent' = [parent EXCEPT ![t] = c]
      /\ stage' = [stage EXCEPT ![t] = "spawned"]
  BY DEF Create, Joining, InApplication
<1>3. Statuses' = [Statuses EXCEPT ![t] = "spawned"] /\ Statuses[t] = "none"
  BY <1>0, <1>2, StatusSet
<1>4. c \in AllWorkers
  BY <1>0, WorkerFacts
<1>5. FJ!Spawn(c, t, c)
  BY <1>1, <1>2, <1>3, <1>4 DEF FJ!Spawn, FJ!Running, Statuses
<1> QED BY <1>4, <1>5 DEF FJ!Next, FJ!Activities

LEMMA WaitForks ==
  ASSUME ClusterInv, Same, NEW c \in Creators, UNCHANGED bvars,
         WaitAll(c) \/ Joined(c) \/ NotYet(c)
  PROVE  FJ!Next \/ UNCHANGED FJ!vars
<1>0. ShapeInv /\ PlaceInv /\ Counts /\ SetupInv
  BY DEF ClusterInv, ShapeInv
<1>1. Alone(c) /\ c \in Threads /\ UNCHANGED <<parent, stage>> /\ Statuses' = Statuses
  BY <1>0, WaitShape DEF WaitAll, Joined, NotYet, Application, Statuses
<1>2. \A d \in Creators : d # c => pc'[d] = pc[d]
  BY <1>0, <1>1, AloneOthers, WorkerFacts DEF ShapeInv
<1>3. Creators' = Creators /\ c \in AllWorkers
  BY <1>0, WorkerFacts DEF Same
<1>4. CASE WaitAll(c)
  <2>1. pc[c] = "app" /\ pc'[c] = "wait"
    BY <1>0, <1>1, <1>4, WentTo DEF WaitAll
  <2>2. c \notin Joining /\ Joining' = Joining \cup {c}
    BY <1>2, <1>3, <2>1 DEF Joining, InApplication
  <2>3. FJ!Join(c)
    BY <1>1, <1>3, <2>2 DEF FJ!Join, FJ!Running, Statuses
  <2> QED BY <1>3, <2>3 DEF FJ!Next, FJ!Activities
<1>5. CASE Joined(c)
  <2>1. pc[c] = "wait" /\ pc'[c] = "app" /\ ndep[c] <= 0
    BY <1>0, <1>1, <1>5, WentTo DEF Joined
  <2>2. c \in Joining /\ Joining' = Joining \ {c}
    BY <1>2, <1>3, <2>1 DEF Joining, InApplication
  <2>3. Outstanding(c) = {}
    <3>1. ndep[c] = Cardinality(Outstanding(c)) + One(c \in unjoined)
      BY <1>0 DEF Counts, DepCount, One
    <3>2. IsFiniteSet(Outstanding(c)) /\ Cardinality(Outstanding(c)) \in Nat
      BY OutstandingFacts
    <3>3. PICK S : S = Outstanding(c)
      OBVIOUS
    <3>4. Cardinality(S) = 0
      BY <2>1, <3>1, <3>2, <3>3 DEF One
    <3>5. S = {}
      BY <3>2, <3>3, <3>4, FS_EmptySet
    <3> QED BY <3>3, <3>5
  <2>4. \A t \in Tasks : parent[t] = c => Statuses[t] = "finished"
    BY <2>3 DEF Outstanding, Statuses
  <2>5. FJ!Joined(c)
    BY <1>1, <2>2, <2>4 DEF FJ!Joined, FJ!ChildrenFinished, Statuses
  <2> QED BY <1>3, <2>5 DEF FJ!Next, FJ!Activities
<1>6. CASE NotYet(c)
  <2>1. pc[c] = "wait" /\ pc'[c] = "poll"
    BY <1>0, <1>1, <1>6, WentTo DEF NotYet
  <2>2. Joining' = Joining
    BY <1>2, <1>3, <2>1 DEF Joining, InApplication
  <2> QED BY <1>1, <2>2, ForkJoinSame DEF Statuses
<1> QED BY <1>4, <1>5, <1>6

LEMMA RunTaskForks ==
  ASSUME ClusterInv, Same, NEW th \in Threads, RunTask(th), UNCHANGED bvars
  PROVE  FJ!Next \/ UNCHANGED FJ!vars
<1>0. ShapeInv /\ PlaceInv /\ Counts /\ SetupInv
  BY DEF ClusterInv, ShapeInv
<1>1. Joining' = Joining
  BY <1>0, RunTaskCounts
<1>2. UNCHANGED parent
  BY DEF RunTask, Execute, ReturnHome, SendAnswer, SendResults, Application
<1>p. pc[th] \in {"execute", "run", "send_results"}
  BY DEF RunTask, Execute, ReturnHome, SendAnswer, SendResults
<1>t. PICK t \in Tasks : t = hand[th]
  BY <1>0, <1>p, Now DEF WithTask
<1>3. CASE Execute(th)
  <2>1. stage[t] = "spawned"
    <3>1. KindOf(pc[th]) = "hand" /\ "hand" \in Kinds
      BY <1>3 DEF Execute, KindOf, Carrying, Kinds
    <3> QED BY <1>0, <1>t, <3>1, FoundInHand DEF Stages
  <2>2. stage' = [stage EXCEPT ![t] = "active"]
    BY <1>t, <1>3 DEF Execute
  <2>3. Statuses' = [Statuses EXCEPT ![t] = "active"] /\ Statuses[t] = "spawned"
    BY <1>0, <2>1, <2>2, StatusSet
  <2>4. FJ!Start(t)
    BY <1>1, <1>2, <2>3 DEF FJ!Start, Statuses
  <2> QED BY <2>4 DEF FJ!Next
<1>4. CASE ReturnHome(th) \/ SendAnswer(th)
  <2>1. pc[th] = "run" /\ \E q \in {"returned", "done"} : stage' = [stage EXCEPT ![t] = q]
    BY <1>t, <1>4 DEF ReturnHome, SendAnswer
  <2>2. stage[t] = "active"
    BY <1>0, <1>t, <2>1, AtHome
  <2>3. Statuses' = [Statuses EXCEPT ![t] = "finished"] /\ Statuses[t] = "active"
    BY <1>0, <2>1, <2>2, StatusSet
  <2>4. t \notin Joining /\ \A u \in Tasks : parent[u] # t
    BY <1>0, WorkerFacts DEF ShapeInv, AppTypes, Joining
  <2>5. FJ!Finish(t)
    BY <1>1, <1>2, <2>3, <2>4 DEF FJ!Finish, FJ!ChildrenFinished, Statuses
  <2> QED BY <2>5 DEF FJ!Next
<1>5. CASE SendResults(th)
  <2>1. \A u \in Tasks : Statuses[u]' = Statuses[u]
    BY <1>5 DEF SendResults, Statuses
  <2> QED BY <1>1, <1>2, <2>1, ForkJoinSame
<1> QED BY <1>3, <1>4, <1>5 DEF RunTask

(* The answer concerns a task that had finished when it was sent.          *)
LEMMA ServeForks ==
  ASSUME ClusterInv, Same, NEW s \in Servers, Serve(s), UNCHANGED bvars
  PROVE  UNCHANGED FJ!vars
<1>0. ShapeInv /\ PlaceInv /\ Counts /\ SetupInv
  BY DEF ClusterInv, ShapeInv
<1>1. Joining' = Joining
  BY <1>0, ServeCounts
<1>2. UNCHANGED parent
  BY ZenonT(30)
     DEF Serve, ServeEnqueue, ServeAnswer, ServeSteal, ServePrefetch, ServeSwitch, ReceiveResults, Application
<1>3. s \in Threads /\ s[1] \in Nodes
  BY <1>0, ServerFacts
<1>4. ASSUME NEW t \in Tasks, stage[t] = "returned", DepSatisfy(t)
      PROVE  \A u \in Tasks : Statuses[u]' = Statuses[u]
  <2>1. Statuses' = [Statuses EXCEPT ![t] = "finished"] /\ Statuses[t] = "finished"
    BY <1>0, <1>4, StatusSet DEF DepSatisfy
  <2> QED BY <2>1 DEF Statuses
<1>5. CASE UNCHANGED stage
  BY <1>1, <1>2, <1>5, ForkJoinSame DEF Statuses
<1>6. ASSUME NEW n \in Nodes, ServeAnswer(s, n) PROVE UNCHANGED FJ!vars
  <2>1. PICK msg : msg = Head(chan[n][s[1]][MaxNvps])
    OBVIOUS
  <2>2. PICK t : t = msg.body
    OBVIOUS
  <2>3. t \in Tasks /\ (DepSatisfy(t) \/ UNCHANGED stage)
    BY <1>0, <1>6, <2>1, <2>2, ServeAnswerShape
  <2>4. Serves(s, n, "answer")
    BY <1>6 DEF ServeAnswer
  <2>5. msg.type = "answer" /\ chan[n][s[1]][MaxNvps] # <<>>
    BY <1>0, <2>1, <2>4, ServesEffect
  <2>6. stage[t] = "returned"
    BY <1>0, <1>3, <2>1, <2>2, <2>5, FoundAnswer
  <2> QED BY <1>1, <1>2, <1>4, <1>5, <2>3, <2>6, ForkJoinSame
<1>7. CASE ReceiveResults(s)
  <2>1. hand[s] \in Tasks /\ stage[hand[s]] = "returned"
    BY <1>0, <1>7, ReceiveResultsPlace
  <2>2. DepSatisfy(hand[s])
    BY SMTT(30), <1>7 DEF ReceiveResults
  <2> QED BY <1>1, <1>2, <1>4, <2>1, <2>2, ForkJoinSame
<1>8. UNCHANGED stage \/ (\E n \in Nodes : ServeAnswer(s, n)) \/ ReceiveResults(s)
  BY ZenonT(30) DEF Serve, ServeEnqueue, ServeSteal, ServePrefetch, ServeSwitch
<1> QED BY <1>5, <1>6, <1>7, <1>8

LEMMA OtherForks ==
  ASSUME ClusterInv, Same,
         \/ \E c \in Creators, call \in SwitchCalls \cup LocalCalls : SwitchCall(c, call) /\ UNCHANGED bvars
         \/ \E c \in Creators : SendSwitch(c) /\ UNCHANGED bvars
         \/ \E w \in Workers : /\ Search(w) \/ \E n \in Nodes : PrefetchRequest(w, n)
                               /\ UNCHANGED bvars
         \/ \E th \in Threads : Communicate(th) /\ UNCHANGED bvars
         \/ \E c \in Creators, a \in Variables, v \in Values : Broadcast(c, a, v)
         \/ \E th \in Threads : BroadcastStep(th)
  PROVE  UNCHANGED FJ!vars
<1>0. ShapeInv /\ PlaceInv /\ Counts
  BY SMTT(30) DEF ClusterInv
<1>1. UNCHANGED <<parent, stage>>
  BY ZenonT(30)
     DEF SwitchCall, SendSwitch, Search, TakeLocal, NothingHere, StartRound, StealRequest, HoldForReply,
     StealReply, PrefetchRequest, Communicate, SendDescriptor, DirectSendDescriptor, SendArguments,
     HoldForArguments, ReceiveArguments, Broadcast, BroadcastStep, SkipOwn, SendBroadcast, Ssend,
     SsendDone, ReceiveData, ServeBroadcast, Application
<1>2. Joining' = Joining
  <2>1. ASSUME NEW th, BroadcastStep(th) PROVE Joining' = Joining
    BY <1>0, <2>1, NextNodeCounts, SendBroadcastCounts, SsendCounts, ServerBroadcastCounts DEF BroadcastStep
  <2>2. ASSUME NEW w \in Workers, Search(w) \/ \E n \in Nodes : PrefetchRequest(w, n), UNCHANGED bvars
        PROVE  Joining' = Joining
    BY <1>0, <2>2, SearchCounts DEF Search
  <2>3. ASSUME NEW c \in Creators, NEW call \in SwitchCalls \cup LocalCalls, SwitchCall(c, call), UNCHANGED bvars
        PROVE  Joining' = Joining
    BY <1>0, <2>3, SwitchCallCounts
  <2> QED BY <1>0, <2>1, <2>2, <2>3, SendSwitchCounts, CommunicateCounts, BroadcastCallCounts
<1> QED BY <1>1, <1>2, ForkJoinSame DEF Statuses

LEMMA ForkJoinStep == ASSUME ClusterInv, [ClusterNext]_cvars PROVE FJ!Next \/ UNCHANGED FJ!vars
<1>1. CASE UNCHANGED cvars
  BY <1>1 DEF cvars, vars, FJ!vars, Joining, Creators
<1>2. CASE ClusterNext
  <2>1. Same
    BY <1>2, SetupKept, SetupFixed
  <2>2. ASSUME NEW c \in Creators, AppStep(c), UNCHANGED bvars PROVE FJ!Next \/ UNCHANGED FJ!vars
    <3>1. ASSUME NEW t \in Tasks, NEW n \in Nodes, NEW call \in {"task", "task_direct"}, Create(c, t, n, call)
          PROVE  FJ!Next
      BY <2>1, <2>2, <3>1, CreateForks
    <3>2. CASE WaitAll(c)
      BY <2>1, <2>2, <3>2, WaitForks
    <3>3. ASSUME NEW call \in SwitchCalls \cup LocalCalls, SwitchCall(c, call) PROVE UNCHANGED FJ!vars
      BY <2>1, <2>2, <3>3, OtherForks
    <3> QED BY <2>2, <3>1, <3>2, <3>3 DEF AppStep
  <2>3. ASSUME NEW w \in Workers, NEW n \in Nodes, PrefetchRequest(w, n), UNCHANGED bvars PROVE UNCHANGED FJ!vars
    BY <2>1, <2>3, OtherForks
  <2>4. ASSUME NEW th \in Threads, Step(th), UNCHANGED bvars PROVE FJ!Next \/ UNCHANGED FJ!vars
    <3>1. CASE th \in Creators /\ (Joined(th) \/ NotYet(th))
      BY <2>1, <2>4, <3>1, WaitForks
    <3>2. CASE th \in Creators /\ SendSwitch(th)
      BY <2>1, <2>4, <3>2, OtherForks
    <3>3. CASE th \in Workers /\ Search(th)
      BY <2>1, <2>4, <3>3, OtherForks
    <3>4. CASE th \in Servers /\ Serve(th)
      BY <2>1, <2>4, <3>4, ServeForks
    <3>5. CASE Communicate(th)
      BY <2>1, <2>4, <3>5, OtherForks
    <3>6. CASE RunTask(th)
      BY <2>1, <2>4, <3>6, RunTaskForks
    <3> QED BY <2>4, <3>1, <3>2, <3>3, <3>4, <3>5, <3>6 DEF Step
  <2>5. ASSUME NEW c \in Creators, NEW a \in Variables, NEW v \in Values, Broadcast(c, a, v)
        PROVE  UNCHANGED FJ!vars
    BY <2>1, <2>5, OtherForks
  <2>6. ASSUME NEW th \in Threads, BroadcastStep(th) PROVE UNCHANGED FJ!vars
    BY <2>1, <2>6, OtherForks
  <2> QED BY <1>2, <2>2, <2>3, <2>4, <2>5, <2>6 DEF ClusterNext, Next
<1> QED BY <1>1, <1>2

(* RefinesForkJoin: a cluster of nodes promises the application what one   *)
(* node does: a task is started and finishes once, and a wait comes back   *)
(* when all the tasks created so far have finished, wherever they ran.     *)
THEOREM ClusterForksAndJoins == ClusterSpec /\ PayloadsApart => RefinesForkJoin
<1>1. ClusterInit /\ PayloadsApart => FJ!Init
  BY ForkJoinInit
<1>2. ClusterInv /\ [ClusterNext]_cvars => [FJ!Next]_FJ!vars
  BY ForkJoinStep
<1> QED BY <1>1, <1>2, ClusterInvariant, PTL DEF ClusterSpec, RefinesForkJoin, FJ!Spec

=============================================================================
