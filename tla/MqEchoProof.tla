----------------------------- MODULE MqEchoProof -----------------------------
(***************************************************************************)
(* posix_mq_server.c and posix_mq_client.c for every number of clients, of *)
(* messages, of starts and of kills: no client waits in the queues that    *)
(* have the two names without a message or an answer for it, and a client  *)
(* that runs alone gets the answers to its own messages.                   *)
(***************************************************************************)
EXTENDS MqEcho, FiniteSetTheorems, SequenceTheorems, TLAPS

(* The types of TypeOK with what each step relies on.                      *)
QueueTypes ==
  /\ queue \in [QueueIds -> Seq(Messages)]
  /\ \A q \in QueueIds : Len(queue[q]) <= MQ_MAXMSG
  /\ created \in 0 .. Cardinality(QueueIds)
  /\ serverName \in 0 .. created /\ clientName \in 0 .. created
  /\ \A q \in QueueIds : q > created => queue[q] = << >>

ServerTypes ==
  /\ pcS \in {"down", "unlink", "create", "receive", "open", "send"}
  /\ sq \in 0 .. created /\ cq \in 0 .. created
  /\ held \in Messages \cup {NoMessage}
  /\ pcS \in {"open", "send"} <=> held # NoMessage
  /\ pcS \in {"receive", "open", "send"} => sq # NoQueue
  /\ pcS \in {"down", "unlink", "create"} => sq = NoQueue
  /\ pcS = "send" => cq # NoQueue
  /\ starts \in 0 .. MaxStarts

HasReply(c) == pcC[c] \in {"send", "receive", "received", "unlink"}

ClientTypes ==
  /\ pcC \in [Clients -> {"new", "failed", "open_reply", "send", "receive", "received",
                          "unlink", "done", "killed"}]
  /\ i \in [Clients -> 1 .. Last]
  /\ toServer \in [Clients -> 0 .. created]
  /\ fromServer \in [Clients -> 0 .. created]
  /\ got \in [Clients -> Messages \cup {NoMessage}]
  /\ \A c \in Clients : Active(c) <=> toServer[c] # NoQueue
  /\ \A c \in Clients : HasReply(c) <=> fromServer[c] # NoQueue
  /\ kills \in 0 .. MaxKills /\ disturbed \in BOOLEAN

(* Each queue has been created by a start of the server or by a client;    *)
(* those that may still create theirs are counted too.                     *)
Future == {c \in Clients : pcC[c] \in {"new", "open_reply"}}
Pending == IF pcS \in {"unlink", "create"} THEN 1 ELSE 0
Budget == created + Pending + Cardinality(Future) <= starts + Cardinality(Clients)

Types == QueueTypes /\ ServerTypes /\ ClientTypes /\ Budget

(* A queue of the server never is a queue of the clients.                  *)
ServerQueues == {serverName, sq} \cup {toServer[c] : c \in Clients}
ClientQueues == {clientName, cq} \cup {fromServer[c] : c \in Clients}
Apart == \A q \in ServerQueues \cap ClientQueues : q = NoQueue

(* During the first run of the server all clients send to its queue. Its   *)
(* answer counts unless it goes to a reply queue that has lost its name.   *)
FirstRun == starts <= 1 =>
  /\ starts = 0 => pcS = "down" /\ serverName = NoQueue
  /\ pcS \in {"unlink", "create"} => serverName = NoQueue
  /\ sq \in {NoQueue, serverName}
  /\ \A c \in Clients : toServer[c] \in {NoQueue, serverName}

Coming == IF pcS = "open" \/ (pcS = "send" /\ cq = clientName) THEN 1 ELSE 0

Supply == Len(queue[sq]) + Coming + Len(queue[clientName])
Served == starts = 1 /\ Waiting # {} => Cardinality(Waiting) <= Supply

BondInv == Apart /\ FirstRun /\ Served

-----------------------------------------------------------------------------
(* What the queues hold while a single client runs, undisturbed.           *)
Own(c) == Message(c, i[c])
Idle == pcS = "receive" /\ queue[sq] = << >> /\ serverName = sq
Quiet == Idle /\ queue[clientName] = << >>

Exchange(c) ==
  \/ pcS = "receive" /\ queue[sq] = <<Own(c)>> /\ queue[clientName] = << >>
  \/ pcS = "open" /\ queue[sq] = << >> /\ queue[clientName] = << >> /\ held = ToUpper(Own(c))
  \/ /\ pcS = "send" /\ queue[sq] = << >> /\ queue[clientName] = << >>
     /\ held = ToUpper(Own(c)) /\ cq = clientName
  \/ pcS = "receive" /\ queue[sq] = << >> /\ queue[clientName] = <<ToUpper(Own(c))>>

Attended(c) ==
  /\ serverName = sq /\ toServer[c] = sq
  /\ pcC[c] = "open_reply" => Idle /\ clientName = NoQueue
  /\ pcC[c] # "open_reply" => clientName = fromServer[c]
  /\ pcC[c] \in {"send", "received", "unlink"} => Quiet
  /\ pcC[c] = "receive" => Exchange(c)
  /\ pcC[c] = "received" => got[c] = ToUpper(Own(c))

Deserted == clientName = NoQueue /\ (pcS \in {"receive", "open", "send"} => Idle)

AloneInv == Undisturbed =>
  /\ \A c, d \in Clients : Active(c) /\ Active(d) => c = d
  /\ ~SomeActive => Deserted
  /\ \A c \in Clients : Active(c) => Attended(c)

-----------------------------------------------------------------------------
LEMMA MessageTypes ==
  /\ \A c \in Clients : \A n \in 1 .. Last : Message(c, n) \in Messages
  /\ \A m \in Messages : ToUpper(m) \in Messages
  /\ NoMessage \notin Messages
<1>1. \A c \in Clients : \A n \in 1 .. Last : Message(c, n) \in Messages
  <2>1. FALSE \in BOOLEAN
    OBVIOUS
  <2> QED
    BY <2>1 DEF Message, Messages
<1>2. \A m \in Messages : ToUpper(m) \in Messages
  <2>1. ASSUME NEW F, NEW N, NEW B, NEW b \in B, NEW m \in [from : F, n : N, upper : B]
        PROVE  [m EXCEPT !.upper = b] \in [from : F, n : N, upper : B]
    OBVIOUS
  <2>2. TRUE \in BOOLEAN
    OBVIOUS
  <2> QED
    BY <2>1, <2>2 DEF Messages, ToUpper
<1>3. NoMessage \notin Messages
  <2>1. \A m \in Messages : m.n \in 1 .. Last
    BY DEF Messages
  <2>2. NoMessage.n = 0 /\ 0 \notin 1 .. Last
    BY MqEchoAssumption DEF NoMessage
  <2> QED
    BY <2>1, <2>2
<1> QED
  BY <1>1, <1>2, <1>3

LEMMA IdFacts ==
  /\ Cardinality(Clients) \in Nat
  /\ Cardinality(QueueIds) = MaxStarts + Cardinality(Clients)
<1>1. Cardinality(Clients) \in Nat
  BY MqEchoAssumption, FS_CardinalityType
<1>2. Cardinality(1 .. MaxStarts + Cardinality(Clients)) = MaxStarts + Cardinality(Clients)
  BY <1>1, MqEchoAssumption, FS_Interval
<1> QED
  BY <1>1, <1>2 DEF QueueIds

(* A message that is sent is added to the queue, whatever its place.       *)
LEMMA InsertType ==
  ASSUME NEW q \in Seq(Messages), NEW m \in Messages
  PROVE  /\ Insert(q, m) \in Seq(Messages)
         /\ Len(Insert(q, m)) = Len(q) + 1
         /\ q = << >> => Insert(q, m) = <<m>>
<1> DEFINE A == {n \in 1 .. Len(q) : Priority(q[n]) >= Priority(m)}
           p == Cardinality(A)
           s == SubSeq(q, 1, p)
           t == SubSeq(q, p + 1, Len(q))
<1>1. Len(q) \in Nat /\ \A n \in 1 .. Len(q) : q[n] \in Messages
  BY LenProperties, ElementOfSeq
<1>2. p \in 0 .. Len(q)
  <2>1. IsFiniteSet(1 .. Len(q)) /\ Cardinality(1 .. Len(q)) = Len(q)
    <3>1. \A n \in Nat : IsFiniteSet(1 .. n) /\ Cardinality(1 .. n) = n
      BY FS_Interval
    <3> QED
      BY <1>1, <3>1, Zenon
  <2>2. A \in SUBSET (1 .. Len(q))
    OBVIOUS
  <2>3. IsFiniteSet(A) /\ Cardinality(A) <= Len(q)
    BY <2>1, <2>2, FS_Subset
  <2> QED
    BY <1>1, <2>3, FS_CardinalityType
<1> HIDE DEF p
<1>3. s \in Seq(Messages) /\ Len(s) = p
  BY <1>1, <1>2, SubSeqProperties
<1>4. t \in Seq(Messages) /\ Len(t) = Len(q) - p
  BY <1>1, <1>2, SubSeqProperties
<1>5. <<m>> \in Seq(Messages) /\ Len(<<m>>) = 1
  OBVIOUS
<1>6. Insert(q, m) = s \o <<m>> \o t
  BY DEF Insert, p
<1> HIDE DEF s, t
<1>7. s \o <<m>> \in Seq(Messages) /\ Len(s \o <<m>>) = p + 1
  BY <1>3, <1>5, ConcatProperties
<1>8. (s \o <<m>>) \o t \in Seq(Messages) /\ Len((s \o <<m>>) \o t) = Len(q) + 1
  <2> DEFINE u == s \o <<m>>
  <2>1. u \in Seq(Messages) /\ Len(u) = p + 1
    BY <1>7
  <2> HIDE DEF u
  <2>2. u \o t \in Seq(Messages) /\ Len(u \o t) = Len(u) + Len(t)
    BY <1>4, <2>1, ConcatProperties
  <2>3. Len(u) + Len(t) = Len(q) + 1
    BY <1>1, <1>2, <1>4, <2>1
  <2> QED
    BY <2>2, <2>3 DEF u
<1>9. ASSUME q = << >> PROVE Insert(q, m) = <<m>>
  <2>1. Len(q) = 0
    BY <1>9
  <2>2. p = 0
    BY <1>2, <2>1
  <2>3. Len(s) = 0 /\ Len(t) = 0
    BY <1>3, <1>4, <2>1, <2>2
  <2>4. s = << >> /\ t = << >>
    BY <1>3, <1>4, <2>3, EmptySeq
  <2>5. << >> \o <<m>> = <<m>> /\ <<m>> \o << >> = <<m>>
    BY <1>5, ConcatEmptySeq
  <2> QED
    BY <1>6, <2>4, <2>5
<1> QED
  BY <1>1, <1>2, <1>6, <1>8, <1>9

-----------------------------------------------------------------------------
LEMMA TypesInit == Init => Types
<1> SUFFICES ASSUME Init PROVE Types
  OBVIOUS
<1> USE MqEchoAssumption, IdFacts DEF Init
<1>1. << >> \in Seq(Messages) /\ Len(<< >>) = 0
  BY EmptySeq
<1>2. QueueTypes
  BY <1>1 DEF QueueTypes, NoQueue
<1>3. ServerTypes
  BY DEF ServerTypes, NoQueue
<1>4. ClientTypes
  <2>1. disturbed \in BOOLEAN
    OBVIOUS
  <2>2. /\ i \in [Clients -> 1 .. Last] /\ toServer \in [Clients -> 0 .. created]
        /\ fromServer \in [Clients -> 0 .. created]
    BY DEF NoQueue
  <2>3. got \in [Clients -> Messages \cup {NoMessage}]
    OBVIOUS
  <2>4. pcC \in [Clients -> {"new", "failed", "open_reply", "send", "receive", "received",
                             "unlink", "done", "killed"}]
    OBVIOUS
  <2>5. \A c \in Clients : /\ ~Active(c) /\ toServer[c] = NoQueue
                           /\ ~HasReply(c) /\ fromServer[c] = NoQueue
    BY DEF Active, HasReply
  <2> QED
    BY <2>1, <2>2, <2>3, <2>4, <2>5 DEF ClientTypes
<1>5. Budget
  <2>1. Future = Clients /\ Pending = 0
    BY DEF Future, Pending
  <2> QED
    BY <2>1 DEF Budget
<1> QED
  BY <1>2, <1>3, <1>4, <1>5 DEF Types

LEMMA FutureShrinks ==
  ASSUME Future' \subseteq Future
  PROVE  /\ Cardinality(Future) \in Nat /\ Cardinality(Future') \in Nat
         /\ Cardinality(Future') <= Cardinality(Future)
         /\ \A c \in Future : c \notin Future' => Cardinality(Future') < Cardinality(Future)
<1>1. IsFiniteSet(Future)
  BY FS_Subset, MqEchoAssumption DEF Future
<1>2. /\ IsFiniteSet(Future') /\ Cardinality(Future') <= Cardinality(Future)
      /\ Cardinality(Future) = Cardinality(Future') => Future = Future'
  BY <1>1, FS_Subset
<1>3. Cardinality(Future) \in Nat /\ Cardinality(Future') \in Nat
  BY <1>1, <1>2, FS_CardinalityType
<1> QED
  BY <1>2, <1>3

LEMMA BudgetFrame ==
  ASSUME Types, created' = created, starts' = starts, Pending' = Pending \/ Pending' = 0,
         Future' \subseteq Future
  PROVE  Budget'
<1>1. created \in Nat /\ starts \in Nat /\ Pending \in {0, 1}
  BY IdFacts, MqEchoAssumption DEF Types, QueueTypes, ServerTypes, Pending
<1> QED
  BY <1>1, FutureShrinks, IdFacts DEF Types, Budget

(* The steps of the server.                                                *)
LEMMA TypesServer ==
  ASSUME Types, ServerStart \/ ServerStep \/ ServerKilled
  PROVE  Types'
<1> USE MqEchoAssumption, IdFacts DEF Types
<1>1. ClientTypes'
  <2>1. disturbed' \in BOOLEAN
    BY DEF ServerStart, ServerStep, ServerKilled, ServerUnlink, ServerCreate, ServerReceive,
           ServerOpen, ServerSend, Disturbs, SomeActive, ClientTypes
  <2>2. UNCHANGED <<client, kills>> /\ (created' = created \/ created' = created + 1)
    BY DEF ServerStart, ServerStep, ServerKilled, ServerUnlink, ServerCreate, ServerReceive,
           ServerOpen, ServerSend
  <2>3. created \in Nat
    BY DEF QueueTypes
  <2> QED
    BY <2>1, <2>2, <2>3 DEF ClientTypes, client, Active, HasReply
<1>2. Future' = Future
  BY DEF ServerStart, ServerStep, ServerKilled, ServerUnlink, ServerCreate, ServerReceive,
         ServerOpen, ServerSend, client, Future
<1>3. CASE ServerStart
  <2>1. QueueTypes' /\ ServerTypes'
    BY <1>3 DEF ServerStart, QueueTypes, ServerTypes, NoQueue
  <2>2. Budget'
    <3>1. Pending = 0 /\ Pending' = 1 /\ starts' = starts + 1 /\ created' = created
      BY <1>3 DEF ServerStart, Pending
    <3>2. created \in Nat /\ starts \in Nat
      BY DEF QueueTypes, ServerTypes
    <3> QED
      BY <1>2, <3>1, <3>2, FutureShrinks DEF Budget
  <2> QED
    BY <1>1, <2>1, <2>2
<1>4. CASE ServerUnlink
  <2>1. QueueTypes' /\ ServerTypes'
    BY <1>4 DEF ServerUnlink, names, QueueTypes, ServerTypes, NoQueue
  <2>2. Pending' = Pending
    BY <1>4 DEF ServerUnlink, Pending
  <2>3. Budget'
    BY <1>2, <1>4, <2>2, BudgetFrame DEF ServerUnlink
  <2> QED
    BY <1>1, <2>1, <2>3
<1>5. CASE ServerCreate
  <2>1. Pending = 1 /\ Pending' = 0 /\ starts' = starts /\ created' = created + 1
    BY <1>5 DEF ServerCreate, Pending
  <2>2. created \in Nat /\ starts \in Nat /\ starts <= MaxStarts
    BY DEF QueueTypes, ServerTypes
  <2>3. Cardinality(Future) \in Nat
    BY <1>2, FutureShrinks
  <2>4. Budget' /\ created + 1 <= Cardinality(QueueIds)
    BY <1>2, <2>1, <2>2, <2>3 DEF Budget
  <2>5. QueueTypes'
    <3>1. queue' = queue /\ serverName' = created + 1 /\ clientName' = clientName
      BY <1>5 DEF ServerCreate
    <3>2. /\ created' \in 0 .. Cardinality(QueueIds)
          /\ serverName' \in 0 .. created' /\ clientName' \in 0 .. created'
      BY <2>1, <2>2, <2>4, <3>1 DEF QueueTypes
    <3> QED
      BY <2>1, <3>1, <3>2 DEF QueueTypes, QueueIds
  <2>6. ServerTypes'
    BY <1>5, <2>2 DEF ServerCreate, ServerTypes, NoQueue
  <2> QED
    BY <1>1, <2>4, <2>5, <2>6
<1>6. CASE ServerReceive
  <2>1. sq \in QueueIds /\ queue[sq] \in Seq(Messages) /\ queue[sq] # << >>
    BY <1>6 DEF ServerReceive, ServerTypes, QueueTypes, QueueIds, NoQueue
  <2>2. /\ Head(queue[sq]) \in Messages /\ Tail(queue[sq]) \in Seq(Messages)
        /\ Len(Tail(queue[sq])) = Len(queue[sq]) - 1 /\ Len(queue[sq]) \in Nat
    BY <2>1, HeadTailProperties, LenProperties
  <2>3. ToUpper(Head(queue[sq])) \in Messages /\ NoMessage \notin Messages
    BY <2>2, MessageTypes
  <2>4. QueueTypes'
    BY <1>6, <2>1, <2>2 DEF ServerReceive, QueueTypes, names
  <2>5. ServerTypes'
    BY <1>6, <2>3 DEF ServerReceive, ServerTypes
  <2>6. Budget'
    BY <1>2, <1>6, BudgetFrame DEF ServerReceive, Pending
  <2> QED
    BY <1>1, <2>4, <2>5, <2>6
<1>7. CASE ServerOpen
  <2>1. QueueTypes'
    BY <1>7 DEF ServerOpen, QueueTypes, names
  <2>2. ServerTypes'
    BY <1>7 DEF ServerOpen, ServerTypes, QueueTypes
  <2>3. Budget'
    BY <1>2, <1>7, BudgetFrame DEF ServerOpen, Pending
  <2> QED
    BY <1>1, <2>1, <2>2, <2>3
<1>8. CASE ServerSend
  <2>1. cq \in QueueIds /\ queue[cq] \in Seq(Messages) /\ held \in Messages
    <3>1. pcS = "send" /\ cq # 0 /\ held \in Messages
      BY <1>8 DEF ServerSend, ServerTypes, NoQueue
    <3>2. cq \in QueueIds
      BY <3>1 DEF ServerTypes, QueueTypes, QueueIds
    <3> QED
      BY <3>1, <3>2 DEF QueueTypes
  <2>2. /\ Append(queue[cq], held) \in Seq(Messages)
        /\ Len(Append(queue[cq], held)) = Len(queue[cq]) + 1 /\ Len(queue[cq]) \in Nat
    BY <2>1, AppendProperties, LenProperties
  <2>3. QueueTypes'
    BY <1>8, <2>1, <2>2 DEF ServerSend, QueueTypes, ServerTypes, names
  <2>4. ServerTypes'
    BY <1>8 DEF ServerSend, ServerTypes
  <2>5. Budget'
    BY <1>2, <1>8, BudgetFrame DEF ServerSend, Pending
  <2> QED
    BY <1>1, <2>3, <2>4, <2>5
<1>9. CASE ServerKilled
  <2>1. QueueTypes' /\ ServerTypes'
    BY <1>9 DEF ServerKilled, QueueTypes, ServerTypes, names, NoQueue
  <2>2. Budget'
    BY <1>2, <1>9, BudgetFrame DEF ServerKilled, Pending
  <2> QED
    BY <1>1, <2>1, <2>2
<1> QED
  BY <1>3, <1>4, <1>5, <1>6, <1>7, <1>8, <1>9 DEF ServerStep
(* The steps of a client.                                                  *)
LEMMA TypesClient ==
  ASSUME Types, NEW c \in Clients, ClientOpen(c) \/ ClientStep(c) \/ ClientKilled(c)
  PROVE  Types'
<1> USE MqEchoAssumption, IdFacts DEF Types
<1>1. created \in Nat /\ starts \in Nat /\ starts <= MaxStarts
  BY DEF QueueTypes, ServerTypes
<1>2. Active(c) => toServer[c] \in QueueIds
  BY <1>1 DEF QueueTypes, ClientTypes, QueueIds, NoQueue
<1>3. HasReply(c) => fromServer[c] \in QueueIds
  BY <1>1 DEF QueueTypes, ClientTypes, QueueIds, NoQueue
<1>4. NoMessage \in Messages \cup {NoMessage} /\ 1 \in 1 .. Last
  OBVIOUS
<1>5. CASE ClientOpen(c)
  <2>1. disturbed' \in BOOLEAN
    BY <1>5 DEF ClientOpen, Disturbs, SomeActive, ClientTypes
  <2>2. QueueTypes' /\ ServerTypes'
    BY <1>5 DEF ClientOpen, QueueTypes, ServerTypes, names, server
  <2>3. /\ UNCHANGED <<created, i, fromServer, got, kills>> /\ pcC[c] = "new"
        /\ toServer' = [toServer EXCEPT ![c] = serverName]
        /\ \/ serverName = NoQueue /\ pcC' = [pcC EXCEPT ![c] = "failed"]
           \/ serverName # NoQueue /\ pcC' = [pcC EXCEPT ![c] = "open_reply"]
    BY <1>5 DEF ClientOpen, names
  <2>4. ClientTypes'
    BY <2>1, <2>3 DEF ClientTypes, QueueTypes, Active, HasReply
  <2>5. Future' \subseteq Future
    BY <2>3 DEF Future, ClientTypes
  <2>6. Budget'
    BY <1>5, <2>5, BudgetFrame DEF ClientOpen, Pending, names, server
  <2> QED
    BY <2>2, <2>4, <2>6
<1>6. CASE ClientOpenReply(c)
  <2>1. /\ UNCHANGED <<i, toServer, got, kills, disturbed, queue, serverName, starts>>
        /\ UNCHANGED <<pcS, sq, cq, held>>
        /\ pcC[c] = "open_reply" /\ pcC' = [pcC EXCEPT ![c] = "send"]
    BY <1>6 DEF ClientOpenReply, server
  <2>2. \/ /\ clientName # NoQueue /\ fromServer' = [fromServer EXCEPT ![c] = clientName]
           /\ clientName' = clientName /\ created' = created
        \/ /\ created' = created + 1 /\ clientName' = created + 1
           /\ fromServer' = [fromServer EXCEPT ![c] = created + 1]
    BY <1>6 DEF ClientOpenReply
  <2>3. Future' \subseteq Future /\ c \in Future /\ c \notin Future'
    BY <2>1 DEF Future, ClientTypes
  <2>4. Pending' = Pending /\ Pending \in {0, 1}
    BY <2>1 DEF Pending
  <2>5. Budget' /\ (created' = created + 1 => created + 1 <= Cardinality(QueueIds))
    BY <1>1, <2>1, <2>2, <2>3, <2>4, FutureShrinks DEF Budget
  <2>6. /\ created' \in 0 .. Cardinality(QueueIds) /\ created <= created'
        /\ clientName' \in 0 .. created' /\ clientName' # NoQueue
    BY <1>1, <2>2, <2>5 DEF QueueTypes, NoQueue
  <2>7. QueueTypes'
    BY <1>1, <2>1, <2>6 DEF QueueTypes, QueueIds
  <2>8. ServerTypes'
    BY <1>1, <2>1, <2>2 DEF ServerTypes
  <2>9. fromServer' = [fromServer EXCEPT ![c] = clientName']
    BY <2>2
  <2>10. /\ fromServer' \in [Clients -> 0 .. created']
         /\ toServer' \in [Clients -> 0 .. created']
    BY <1>1, <2>1, <2>6, <2>9 DEF ClientTypes
  <2>11. /\ \A d \in Clients : Active(d)' <=> toServer'[d] # NoQueue
         /\ \A d \in Clients : HasReply(d)' <=> fromServer'[d] # NoQueue
    BY <2>1, <2>6, <2>9 DEF ClientTypes, Active, HasReply
  <2>12. ClientTypes'
    BY <2>1, <2>10, <2>11 DEF ClientTypes
  <2> QED
    BY <2>5, <2>7, <2>8, <2>12
<1>7. CASE ClientSend(c)
  <2>1. pcC[c] = "send" /\ toServer[c] \in QueueIds /\ queue[toServer[c]] \in Seq(Messages)
    BY <1>2, <1>7 DEF ClientSend, Active, QueueTypes
  <2>2. Message(c, i[c]) \in Messages
    BY MessageTypes DEF ClientTypes
  <2> DEFINE m == Message(c, i[c])
             q == queue[toServer[c]]
  <2>3. /\ Insert(q, m) \in Seq(Messages)
        /\ Len(Insert(q, m)) = Len(q) + 1 /\ Len(q) \in Nat
    BY <2>1, <2>2, InsertType, LenProperties
  <2>4. Len(q) < MQ_MAXMSG /\ queue' = [queue EXCEPT ![toServer[c]] = Insert(q, m)]
    BY <1>7 DEF ClientSend
  <2>5. /\ UNCHANGED <<serverName, clientName, created, starts, pcS, sq, cq, held>>
        /\ UNCHANGED <<i, toServer, fromServer, got, kills, disturbed>>
        /\ pcC' = [pcC EXCEPT ![c] = "receive"]
    BY <1>7 DEF ClientSend, names, server
  <2> HIDE DEF m
  <2>6. toServer[c] <= created
    BY DEF ClientTypes
  <2>7. QueueTypes'
    BY <1>1, <2>1, <2>3, <2>4, <2>5, <2>6 DEF QueueTypes, ClientTypes
  <2>8. ServerTypes'
    BY <2>5 DEF ServerTypes
  <2>9. ClientTypes'
    BY <2>1, <2>5 DEF ClientTypes, Active, HasReply
  <2>10. Budget'
    <3>1. Future' \subseteq Future
      BY <2>1, <2>5 DEF Future, ClientTypes
    <3> QED
      BY <2>5, <3>1, BudgetFrame DEF Pending
  <2> QED
    BY <2>7, <2>8, <2>9, <2>10
<1>8. CASE ClientReceive(c)
  <2> DEFINE q == queue[fromServer[c]]
  <2>1. pcC[c] = "receive" /\ fromServer[c] \in QueueIds /\ q \in Seq(Messages) /\ q # << >>
    BY <1>3, <1>8 DEF ClientReceive, HasReply, QueueTypes
  <2>2. /\ Head(q) \in Messages /\ Tail(q) \in Seq(Messages)
        /\ Len(Tail(q)) = Len(q) - 1 /\ Len(q) \in Nat
    BY <2>1, HeadTailProperties, LenProperties
  <2>3. /\ got' = [got EXCEPT ![c] = Head(q)]
        /\ queue' = [queue EXCEPT ![fromServer[c]] = Tail(q)]
    BY <1>8 DEF ClientReceive
  <2>4. /\ UNCHANGED <<serverName, clientName, created, starts, pcS, sq, cq, held>>
        /\ UNCHANGED <<i, toServer, fromServer, kills, disturbed>>
        /\ pcC' = [pcC EXCEPT ![c] = "received"]
    BY <1>8 DEF ClientReceive, names, server
  <2>5. QueueTypes'
    BY <1>1, <2>1, <2>2, <2>3, <2>4 DEF QueueTypes
  <2>6. ServerTypes'
    BY <2>4 DEF ServerTypes
  <2>7. ClientTypes'
    BY <2>1, <2>2, <2>3, <2>4 DEF ClientTypes, Active, HasReply
  <2>8. Budget'
    <3>1. Future' \subseteq Future
      BY <2>1, <2>4 DEF Future, ClientTypes
    <3> QED
      BY <2>4, <3>1, BudgetFrame DEF Pending
  <2> QED
    BY <2>5, <2>6, <2>7, <2>8
<1>9. CASE ClientNext(c)
  <2>1. /\ UNCHANGED <<queue, serverName, clientName, created, starts, pcS, sq, cq, held>>
        /\ UNCHANGED <<toServer, fromServer, kills, disturbed>>
        /\ pcC[c] = "received" /\ got' = [got EXCEPT ![c] = NoMessage]
        /\ \/ i[c] < Last /\ i' = [i EXCEPT ![c] = @ + 1] /\ pcC' = [pcC EXCEPT ![c] = "send"]
           \/ i' = i /\ pcC' = [pcC EXCEPT ![c] = "unlink"]
    BY <1>9 DEF ClientNext, names, server
  <2>2. QueueTypes' /\ ServerTypes'
    BY <2>1 DEF QueueTypes, ServerTypes
  <2>3. i' \in [Clients -> 1 .. Last]
    BY <2>1 DEF ClientTypes
  <2>4. ClientTypes'
    BY <2>1, <2>3 DEF ClientTypes, Active, HasReply
  <2>5. Future' \subseteq Future
    BY <2>1 DEF Future, ClientTypes
  <2>6. Budget'
    BY <2>1, <2>5, BudgetFrame DEF Pending
  <2> QED
    BY <2>2, <2>4, <2>6
<1>10. ASSUME End(c, "done") \/ End(c, "killed"),
              clientName' \in {clientName, NoQueue},
              UNCHANGED <<queue, serverName, created, starts, pcS, sq, cq, held>>,
              kills' \in 0 .. MaxKills, disturbed' \in BOOLEAN, Active(c)
       PROVE  Types'
  <2>1. QueueTypes'
    BY <1>1, <1>10 DEF QueueTypes, NoQueue
  <2>2. ServerTypes'
    BY <1>10 DEF ServerTypes
  <2>3. ClientTypes'
    BY <1>1, <1>4, <1>10 DEF ClientTypes, End, Active, HasReply, NoQueue
  <2>4. Future' \subseteq Future
    BY <1>10 DEF Future, End, ClientTypes
  <2>5. Budget'
    BY <1>10, <2>4, BudgetFrame DEF Pending
  <2> QED
    BY <2>1, <2>2, <2>3, <2>5
<1>11. CASE ClientUnlink(c)
  BY <1>10, <1>11 DEF ClientUnlink, server, ClientTypes, Active
<1>12. CASE ClientKilled(c)
  <2>1. kills' \in 0 .. MaxKills /\ TRUE \in BOOLEAN
    BY <1>12 DEF ClientKilled, ClientTypes
  <2> QED
    BY <1>10, <1>12, <2>1 DEF ClientKilled, names, server
<1> QED
  BY <1>5, <1>6, <1>7, <1>8, <1>9, <1>11, <1>12 DEF ClientStep

LEMMA TypesFrame == Types /\ UNCHANGED vars => Types'
BY DEF vars, names, server, client, Types, QueueTypes, ServerTypes, ClientTypes, Budget,
       Pending, Future, Active, HasReply

LEMMA TypesHold == Spec => []Types
<1>1. Types /\ [Next]_vars => Types'
  BY TypesServer, TypesClient, TypesFrame DEF Next
<1> QED
  BY <1>1, TypesInit, PTL DEF Spec

(* The type invariant.                                                     *)
THEOREM TypeCorrect == Spec => []TypeOK
<1>1. Types => TypeOK
  <2> SUFFICES ASSUME Types PROVE TypeOK
    OBVIOUS
  <2>1. 0 .. created \subseteq QueueIds \cup {NoQueue}
    BY IdFacts, MqEchoAssumption DEF Types, QueueTypes, QueueIds, NoQueue
  <2>2. /\ {serverName, clientName, sq, cq} \subseteq QueueIds \cup {NoQueue}
        /\ toServer \in [Clients -> QueueIds \cup {NoQueue}]
        /\ fromServer \in [Clients -> QueueIds \cup {NoQueue}]
    BY <2>1 DEF Types, QueueTypes, ServerTypes, ClientTypes
  <2> QED
    BY <2>2 DEF Types, QueueTypes, ServerTypes, ClientTypes, TypeOK
<1> QED
  BY <1>1, TypesHold, PTL
-----------------------------------------------------------------------------
LEMMA OpenIsQueue ==
  ASSUME Types, NEW q \in 0 .. created, q # NoQueue
  PROVE  q \in QueueIds
<1> DEFINE N == MaxStarts + Cardinality(Clients)
<1>1. N \in Nat /\ created \in 0 .. N
  BY IdFacts, MqEchoAssumption DEF Types, QueueTypes
<1>2. QueueIds = 1 .. N
  BY DEF QueueIds
<1> HIDE DEF N
<1> QED
  BY <1>1, <1>2 DEF NoQueue

(* What is known of the queues of a client that may wait.                  *)
LEMMA PairFacts ==
  ASSUME Types, Apart, NEW c \in Clients, HasReply(c),
         toServer[c] = sq, fromServer[c] = clientName
  PROVE  /\ sq \in QueueIds /\ clientName \in QueueIds /\ sq # clientName
         /\ Len(queue[sq]) \in Nat /\ Len(queue[clientName]) \in Nat
         /\ Coming \in {0, 1} /\ Supply \in Nat
<1>1. sq # NoQueue /\ clientName # NoQueue
  BY DEF Types, ClientTypes, Active, HasReply
<1>2. sq \in QueueIds /\ clientName \in QueueIds
  BY <1>1, OpenIsQueue DEF Types, ServerTypes, QueueTypes
<1>3. sq # clientName
  BY <1>1 DEF Apart, ServerQueues, ClientQueues
<1>4. Len(queue[sq]) \in Nat /\ Len(queue[clientName]) \in Nat
  BY <1>2, LenProperties DEF Types, QueueTypes
<1>5. Coming \in {0, 1}
  BY DEF Coming
<1>6. Supply \in Nat
  <2>1. \A k, l \in Nat : \A n \in {0, 1} : k + n + l \in Nat
    OBVIOUS
  <2> QED
    BY <1>4, <1>5, <2>1 DEF Supply
<1> QED
  BY <1>2, <1>3, <1>4, <1>5, <1>6

LEMMA WaitFacts ==
  ASSUME Types, Apart
  PROVE  /\ IsFiniteSet(Waiting) /\ Cardinality(Waiting) \in Nat
         /\ Waiting # {} => /\ sq \in QueueIds /\ clientName \in QueueIds /\ sq # clientName
                            /\ Len(queue[sq]) \in Nat /\ Len(queue[clientName]) \in Nat
                            /\ Coming \in {0, 1} /\ Supply \in Nat
<1>1. IsFiniteSet(Waiting) /\ Cardinality(Waiting) \in Nat
  BY FS_Subset, FS_CardinalityType, MqEchoAssumption DEF Waiting
<1>2. \A c \in Waiting :
        c \in Clients /\ HasReply(c) /\ toServer[c] = sq /\ fromServer[c] = clientName
  BY DEF Waiting, HasReply
<1> QED
  BY <1>1, <1>2, PairFacts

LEMMA ApartFrame ==
  ASSUME Types, Apart, NEW S, NEW T,
         ServerQueues' \subseteq ServerQueues \cup S, ClientQueues' \subseteq ClientQueues \cup T,
         \/ S = {NoQueue} /\ T = {NoQueue}
         \/ S = {created + 1} /\ T = {}
         \/ S = {} /\ T = {created + 1}
  PROVE  Apart'
<1>1. created \in Nat
  BY DEF Types, QueueTypes
<1>2. ServerQueues \cup ClientQueues \subseteq 0 .. created
  BY DEF Types, QueueTypes, ServerTypes, ClientTypes, ServerQueues, ClientQueues
<1>3. created + 1 \notin ServerQueues \cup ClientQueues
  BY <1>1, <1>2
<1> QED
  BY <1>3 DEF Apart

LEMMA ApartStep == Types /\ Apart /\ [Next]_vars => Apart'
<1> SUFFICES ASSUME Types, Apart, [Next]_vars PROVE Apart'
  OBVIOUS
<1>1. CASE ServerStart
  <2>1. ServerQueues' \subseteq ServerQueues \cup {NoQueue} /\ ClientQueues' = ClientQueues
    BY <1>1 DEF ServerStart, client, ServerQueues, ClientQueues
  <2> QED
    BY <2>1, ApartFrame
<1>2. CASE ServerUnlink
  <2>1. ServerQueues' = ServerQueues /\ ClientQueues' \subseteq ClientQueues \cup {NoQueue}
    BY <1>2 DEF ServerUnlink, client, ServerQueues, ClientQueues
  <2> QED
    BY <2>1, ApartFrame
<1>3. CASE ServerCreate
  <2>1. ServerQueues' \subseteq ServerQueues \cup {created + 1} /\ ClientQueues' = ClientQueues
    BY <1>3 DEF ServerCreate, client, ServerQueues, ClientQueues
  <2> QED
    BY <2>1, ApartFrame
<1>4. CASE ServerReceive \/ ServerSend
  <2>1. ServerQueues' = ServerQueues /\ ClientQueues' = ClientQueues
    BY <1>4 DEF ServerReceive, ServerSend, names, client, ServerQueues, ClientQueues
  <2> QED
    BY <2>1, ApartFrame
<1>5. CASE ServerOpen
  <2>1. ServerQueues' = ServerQueues /\ ClientQueues' \subseteq ClientQueues
    BY <1>5 DEF ServerOpen, names, client, ServerQueues, ClientQueues
  <2> QED
    BY <2>1, ApartFrame
<1>6. CASE ServerKilled
  <2>1. /\ ServerQueues' \subseteq ServerQueues \cup {NoQueue}
        /\ ClientQueues' \subseteq ClientQueues \cup {NoQueue}
    BY <1>6 DEF ServerKilled, names, client, ServerQueues, ClientQueues
  <2> QED
    BY <2>1, ApartFrame
<1>7. ASSUME NEW c \in Clients, ClientOpen(c) PROVE Apart'
  <2>1. ServerQueues' \subseteq ServerQueues /\ ClientQueues' = ClientQueues
    BY <1>7 DEF ClientOpen, names, server, ServerQueues, ClientQueues, Types, ClientTypes
  <2> QED
    BY <2>1, ApartFrame
<1>8. ASSUME NEW c \in Clients, ClientOpenReply(c) PROVE Apart'
  <2>1. ServerQueues' = ServerQueues
    BY <1>8 DEF ClientOpenReply, server, ServerQueues
  <2>2. \/ ClientQueues' \subseteq ClientQueues
        \/ ClientQueues' \subseteq ClientQueues \cup {created + 1}
    BY <1>8 DEF ClientOpenReply, server, ClientQueues, Types, ClientTypes
  <2> QED
    BY <2>1, <2>2, ApartFrame
<1>9. ASSUME NEW c \in Clients, ClientSend(c) \/ ClientReceive(c) \/ ClientNext(c)
      PROVE  Apart'
  <2>1. ServerQueues' = ServerQueues /\ ClientQueues' = ClientQueues
    BY <1>9 DEF ClientSend, ClientReceive, ClientNext, names, server, ServerQueues, ClientQueues
  <2> QED
    BY <2>1, ApartFrame
<1>10. ASSUME NEW c \in Clients, ClientUnlink(c) \/ ClientKilled(c) PROVE Apart'
  <2>1. /\ ServerQueues' \subseteq ServerQueues \cup {NoQueue}
        /\ ClientQueues' \subseteq ClientQueues \cup {NoQueue}
    BY <1>10 DEF ClientUnlink, ClientKilled, End, names, server, ServerQueues, ClientQueues,
                 Types, ClientTypes
  <2> QED
    BY <2>1, ApartFrame
<1>11. CASE UNCHANGED vars
  BY <1>11 DEF vars, names, server, client, Apart, ServerQueues, ClientQueues
<1> QED
  BY <1>1, <1>2, <1>3, <1>4, <1>5, <1>6, <1>7, <1>8, <1>9, <1>10, <1>11
  DEF Next, ServerStep, ClientStep

LEMMA FirstRunStep == Types /\ FirstRun /\ [Next]_vars => FirstRun'
<1> SUFFICES ASSUME Types, FirstRun, [Next]_vars PROVE FirstRun'
  OBVIOUS
<1>1. starts \in Nat
  BY MqEchoAssumption DEF Types, ServerTypes
<1>2. CASE ServerStart
  BY <1>1, <1>2 DEF ServerStart, client, FirstRun, Types, ServerTypes
<1>3. CASE ServerUnlink \/ ServerCreate \/ ServerKilled
  BY <1>1, <1>3 DEF ServerUnlink, ServerCreate, ServerKilled, names, client, FirstRun, Types,
                    ServerTypes
<1>4. CASE ServerReceive \/ ServerOpen \/ ServerSend
  BY <1>4 DEF ServerReceive, ServerOpen, ServerSend, names, client, FirstRun
<1>5. ASSUME NEW c \in Clients, ClientOpen(c) \/ ClientUnlink(c) \/ ClientKilled(c)
      PROVE  FirstRun'
  <2>1. UNCHANGED <<serverName, pcS, sq, starts>>
    BY <1>5 DEF ClientOpen, ClientUnlink, ClientKilled, names, server
  <2>2. \E q \in {serverName, NoQueue} : toServer' = [toServer EXCEPT ![c] = q]
    BY <1>5 DEF ClientOpen, ClientUnlink, ClientKilled, End
  <2> QED
    BY <2>1, <2>2 DEF FirstRun, Types, ClientTypes
<1>6. ASSUME NEW c \in Clients,
             ClientOpenReply(c) \/ ClientSend(c) \/ ClientReceive(c) \/ ClientNext(c)
      PROVE  FirstRun'
  BY <1>6 DEF ClientOpenReply, ClientSend, ClientReceive, ClientNext, names, server, FirstRun
<1>7. CASE UNCHANGED vars
  BY <1>7 DEF vars, names, server, client, FirstRun
<1> QED
  BY <1>2, <1>3, <1>4, <1>5, <1>6, <1>7 DEF Next, ServerStep, ClientStep
(* The bond outlasts a step that makes no client wait, or that adds to the *)
(* messages and answers what it adds to the clients.                       *)
LEMMA ServedFrame ==
  ASSUME Types, Apart, Served, starts' = starts, Waiting' \subseteq Waiting,
         starts = 1 /\ Waiting' # {} => Supply' \in Nat /\ Supply <= Supply'
  PROVE  Served'
<1>1. IsFiniteSet(Waiting) /\ Cardinality(Waiting) \in Nat
  BY WaitFacts
<1>2. IsFiniteSet(Waiting') /\ Cardinality(Waiting') <= Cardinality(Waiting)
  BY <1>1, FS_Subset
<1>3. Cardinality(Waiting') \in Nat
  BY <1>2, FS_CardinalityType
<1> SUFFICES ASSUME starts' = 1, Waiting' # {} PROVE Cardinality(Waiting') <= Supply'
  BY DEF Served
<1>4. Waiting # {} /\ Supply \in Nat /\ Cardinality(Waiting) <= Supply
  BY WaitFacts DEF Served
<1> QED
  BY <1>1, <1>2, <1>3, <1>4

LEMMA ServedServer ==
  ASSUME Types, Types', BondInv, ServerStart \/ ServerStep \/ ServerKilled
  PROVE  Served'
<1> USE DEF BondInv
<1>1. starts \in Nat /\ created \in Nat
  BY MqEchoAssumption DEF Types, ServerTypes, QueueTypes
<1>2. CASE ServerStart
  <2>1. starts' = 1 => Waiting' = {}
    BY <1>1, <1>2 DEF ServerStart, client, FirstRun, Waiting, Types, ClientTypes, Active
  <2> QED
    BY <2>1 DEF Served
<1>3. CASE ServerUnlink \/ ServerCreate \/ ServerKilled
  <2>1. \A c \in Clients : toServer'[c] = sq' => toServer[c] = NoQueue
    BY <1>1, <1>3 DEF ServerUnlink, ServerCreate, ServerKilled, client, Types, ServerTypes,
                      ClientTypes, NoQueue
  <2>2. pcC' = pcC /\ toServer' = toServer
    BY <1>3 DEF ServerUnlink, ServerCreate, ServerKilled, client
  <2>3. Waiting' = {}
    BY <2>1, <2>2 DEF Waiting, Types, ClientTypes, Active
  <2> QED
    BY <2>3 DEF Served
<1>4. CASE ServerReceive
  <2>1. Waiting' = Waiting /\ starts' = starts
    BY <1>4 DEF ServerReceive, names, client, Waiting
  <2>2. ASSUME Waiting # {} PROVE Supply' \in Nat /\ Supply <= Supply'
    <3>1. /\ sq \in QueueIds /\ sq # clientName
          /\ Len(queue[sq]) \in Nat /\ Len(queue[clientName]) \in Nat
      BY <2>2, WaitFacts
    <3>2. queue[sq] \in Seq(Messages) /\ queue[sq] # << >>
      BY <1>4, <3>1 DEF ServerReceive, Types, QueueTypes
    <3>3. Len(Tail(queue[sq])) = Len(queue[sq]) - 1 /\ Len(queue[sq]) # 0
      BY <3>2, HeadTailProperties, EmptySeq
    <3>4. queue'[sq'] = Tail(queue[sq]) /\ queue'[clientName'] = queue[clientName]
      BY <1>4, <3>1 DEF ServerReceive, names, Types, QueueTypes
    <3>5. Coming = 0 /\ Coming' = 1
      BY <1>4 DEF ServerReceive, Coming
    <3> DEFINE k == Len(queue[sq])
               l == Len(queue[clientName])
    <3>6. Supply = k + 0 + l /\ Supply' = (k - 1) + 1 + l
      BY <3>3, <3>4, <3>5 DEF Supply
    <3>7. k \in Nat /\ l \in Nat
      BY <3>1
    <3> HIDE DEF k, l
    <3> QED
      BY <3>6, <3>7
  <2> QED
    BY <2>1, <2>2, ServedFrame
<1>5. CASE ServerOpen
  <2>1. Waiting' = Waiting /\ starts' = starts
    BY <1>5 DEF ServerOpen, names, client, Waiting
  <2>2. ASSUME Waiting # {} PROVE Supply' \in Nat /\ Supply <= Supply'
    <3>1. clientName # NoQueue /\ Supply \in Nat
      BY <2>2, WaitFacts DEF QueueIds, NoQueue
    <3>2. Coming' = Coming
      BY <1>5, <3>1 DEF ServerOpen, names, Coming
    <3>3. Supply' = Supply
      BY <1>5, <3>2 DEF ServerOpen, names, Supply
    <3> QED
      BY <3>1, <3>3
  <2> QED
    BY <2>1, <2>2, ServedFrame
<1>6. CASE ServerSend
  <2>1. Waiting' = Waiting /\ starts' = starts
    BY <1>6 DEF ServerSend, names, client, Waiting
  <2>2. ASSUME Waiting # {} PROVE Supply' \in Nat /\ Supply <= Supply'
    <3>1. /\ sq \in QueueIds /\ clientName \in QueueIds /\ sq # clientName
          /\ Len(queue[sq]) \in Nat /\ Len(queue[clientName]) \in Nat
      BY <2>2, WaitFacts
    <3>2. cq \in QueueIds /\ cq # sq
      <4>1. cq # NoQueue
        BY <1>6 DEF ServerSend, Types, ServerTypes
      <4>2. cq \in QueueIds
        BY <4>1, OpenIsQueue DEF Types, ServerTypes
      <4> QED
        BY <4>1, <4>2 DEF Apart, ServerQueues, ClientQueues
    <3>3. queue[cq] \in Seq(Messages) /\ held \in Messages
      BY <1>6, <3>2 DEF ServerSend, Types, QueueTypes, ServerTypes
    <3>4. Len(Append(queue[cq], held)) = Len(queue[cq]) + 1
      BY <3>3, AppendProperties
    <3>5. queue' = [queue EXCEPT ![cq] = Append(queue[cq], held)]
      BY <1>6 DEF ServerSend
    <3>6. queue'[sq'] = queue[sq]
      BY <1>6, <3>1, <3>2, <3>5 DEF ServerSend, Types, QueueTypes
    <3> DEFINE k == Len(queue[sq])
               l == Len(queue[clientName])
    <3>7. k \in Nat /\ l \in Nat
      BY <3>1
    <3>8. CASE cq = clientName
      <4>1. queue'[clientName'] = Append(queue[cq], held) /\ Coming = 1 /\ Coming' = 0
        BY <1>6, <3>1, <3>5, <3>8 DEF ServerSend, names, Types, QueueTypes, Coming
      <4>2. Supply = k + 1 + l /\ Supply' = k + 0 + (l + 1)
        BY <3>4, <3>6, <3>8, <4>1 DEF Supply
      <4> HIDE DEF k, l
      <4> QED
        BY <3>7, <4>2
    <3>9. CASE cq # clientName
      <4>1. queue'[clientName'] = queue[clientName] /\ Coming = 0 /\ Coming' = 0
        BY <1>6, <3>1, <3>2, <3>5, <3>9 DEF ServerSend, names, Types, QueueTypes, Coming
      <4>2. Supply = k + 0 + l /\ Supply' = k + 0 + l
        BY <3>6, <4>1 DEF Supply
      <4> HIDE DEF k, l
      <4> QED
        BY <3>7, <4>2
    <3> QED
      BY <3>8, <3>9
  <2> QED
    BY <2>1, <2>2, ServedFrame
<1> QED
  BY <1>2, <1>3, <1>4, <1>5, <1>6 DEF ServerStep

LEMMA ServedClient ==
  ASSUME Types, Types', BondInv, NEW c \in Clients,
         ClientOpen(c) \/ ClientStep(c) \/ ClientKilled(c)
  PROVE  Served'
<1> USE DEF BondInv
<1>1. ASSUME Supply' = Supply, Waiting' \subseteq Waiting, starts' = starts PROVE Served'
  BY <1>1, WaitFacts, ServedFrame
<1>2. CASE ClientOpen(c) \/ ClientNext(c) \/ ClientKilled(c)
  <2>1. /\ UNCHANGED <<queue, serverName, clientName, created, pcS, sq, cq, held, starts>>
        /\ \E p : p # "receive" /\ pcC' = [pcC EXCEPT ![c] = p]
        /\ \E q : toServer' = [toServer EXCEPT ![c] = q]
        /\ \E q : fromServer' = [fromServer EXCEPT ![c] = q]
    <3>1. toServer = [toServer EXCEPT ![c] = @] /\ fromServer = [fromServer EXCEPT ![c] = @]
      BY DEF Types, ClientTypes
    <3> QED
      BY <1>2, <3>1 DEF ClientOpen, ClientNext, ClientKilled, End, names, server
  <2>2. Waiting' \subseteq Waiting
    BY <2>1 DEF Waiting, Types, ClientTypes
  <2>3. Supply' = Supply
    BY <2>1 DEF Supply, Coming
  <2> QED
    BY <1>1, <2>1, <2>2, <2>3
<1>3. CASE ClientOpenReply(c)
  <2>1. CASE clientName # NoQueue
    <3>1. Supply' = Supply /\ starts' = starts
      BY <1>3, <2>1 DEF ClientOpenReply, server, Supply, Coming
    <3>2. Waiting' \subseteq Waiting
      BY <1>3, <2>1 DEF ClientOpenReply, server, Waiting, Types, ClientTypes
    <3> QED
      BY <1>1, <3>1, <3>2
  <2>2. CASE clientName = NoQueue
    <3>1. /\ clientName' = created + 1 /\ pcC' = [pcC EXCEPT ![c] = "send"]
          /\ fromServer' = [fromServer EXCEPT ![c] = created + 1]
      BY <1>3, <2>2 DEF ClientOpenReply
    <3>2. created \in Nat /\ \A d \in Clients : fromServer[d] \in 0 .. created
      BY DEF Types, QueueTypes, ClientTypes
    <3>3. \A d \in Clients : fromServer[d] # created + 1
      BY <3>2
    <3>4. Waiting' = {}
      BY <3>1, <3>3 DEF Waiting, Types, ClientTypes
    <3> QED
      BY <3>4 DEF Served
  <2> QED
    BY <2>1, <2>2
<1>4. CASE ClientUnlink(c)
  <2>1. /\ clientName' = NoQueue /\ pcC' = [pcC EXCEPT ![c] = "done"]
        /\ fromServer' = [fromServer EXCEPT ![c] = NoQueue]
    BY <1>4 DEF ClientUnlink, End
  <2>2. Waiting' = {}
    BY <2>1 DEF Waiting, Types, ClientTypes, HasReply
  <2> QED
    BY <2>2 DEF Served
<1>5. CASE ClientSend(c)
  <2>1. /\ UNCHANGED <<clientName, sq, cq, pcS, starts, toServer, fromServer>>
        /\ pcC[c] = "send" /\ pcC' = [pcC EXCEPT ![c] = "receive"]
        /\ queue' = [queue EXCEPT ![toServer[c]] = Insert(queue[toServer[c]], Message(c, i[c]))]
    BY <1>5 DEF ClientSend, names, server
  <2>2. toServer[c] \in QueueIds /\ toServer[c] # clientName
    <3>1. toServer[c] # NoQueue /\ toServer[c] \in 0 .. created
      BY <2>1 DEF Types, ClientTypes, Active
    <3> QED
      BY <3>1, OpenIsQueue DEF Apart, ServerQueues, ClientQueues
  <2>3. queue[toServer[c]] \in Seq(Messages) /\ Message(c, i[c]) \in Messages
    BY <2>2, MessageTypes DEF Types, QueueTypes, ClientTypes
  <2>4. Len(Insert(queue[toServer[c]], Message(c, i[c]))) = Len(queue[toServer[c]]) + 1
    BY <2>3, InsertType
  <2>5. Coming' = Coming
    BY <2>1 DEF Coming
  <2>6. ASSUME sq \in QueueIds, clientName \in QueueIds
        PROVE  /\ queue'[clientName'] = queue[clientName]
               /\ toServer[c] = sq => Len(queue'[sq']) = Len(queue[sq]) + 1
               /\ toServer[c] # sq => queue'[sq'] = queue[sq]
    BY <2>1, <2>2, <2>4, <2>6 DEF Types, QueueTypes
  <2>7. CASE toServer[c] = sq /\ fromServer[c] = clientName
    <3>1. HasReply(c)
      BY <2>1 DEF HasReply
    <3>2. /\ sq \in QueueIds /\ clientName \in QueueIds /\ Supply \in Nat
          /\ Len(queue[sq]) \in Nat /\ Len(queue[clientName]) \in Nat /\ Coming \in {0, 1}
      BY <2>7, <3>1, PairFacts
    <3> DEFINE k == Len(queue[sq])
               l == Len(queue[clientName])
               n == Coming
    <3>3. Supply = k + n + l /\ Supply' = k + 1 + n + l
      BY <2>5, <2>6, <2>7, <3>2 DEF Supply
    <3>4. k \in Nat /\ l \in Nat /\ n \in {0, 1}
      BY <3>2
    <3> HIDE DEF k, l, n
    <3>5. Supply' = Supply + 1
      BY <3>3, <3>4
    <3>6. Waiting' = Waiting \cup {c} /\ c \notin Waiting
      BY <2>1, <2>7 DEF Waiting, Types, ClientTypes
    <3>7. Cardinality(Waiting') = Cardinality(Waiting) + 1
      BY <3>6, WaitFacts, FS_AddElement
    <3>8. starts = 1 => Cardinality(Waiting) <= Supply
      BY <3>2, FS_EmptySet DEF Served
    <3>9. Cardinality(Waiting) \in Nat
      BY WaitFacts
    <3> QED
      BY <2>1, <3>2, <3>5, <3>7, <3>8, <3>9 DEF Served
  <2>8. CASE ~(toServer[c] = sq /\ fromServer[c] = clientName)
    <3>1. Waiting' \subseteq Waiting
      BY <2>1, <2>8 DEF Waiting, Types, ClientTypes
    <3>2. ASSUME Waiting' # {} PROVE Supply' \in Nat /\ Supply <= Supply'
      <4>1. /\ sq \in QueueIds /\ clientName \in QueueIds /\ Coming \in {0, 1}
            /\ Len(queue[sq]) \in Nat /\ Len(queue[clientName]) \in Nat
        BY <3>1, <3>2, WaitFacts
      <4> DEFINE k == Len(queue[sq])
                 l == Len(queue[clientName])
                 n == Coming
      <4>2. Supply = k + n + l /\ (Supply' = k + 1 + n + l \/ Supply' = k + n + l)
        BY <2>5, <2>6, <4>1 DEF Supply
      <4>3. k \in Nat /\ l \in Nat /\ n \in {0, 1}
        BY <4>1
      <4> HIDE DEF k, l, n
      <4> QED
        BY <4>2, <4>3
    <3> QED
      BY <2>1, <3>1, <3>2, ServedFrame
  <2> QED
    BY <2>7, <2>8
<1>6. CASE ClientReceive(c)
  <2>1. /\ UNCHANGED <<clientName, sq, cq, pcS, starts, toServer, fromServer>>
        /\ pcC[c] = "receive" /\ pcC' = [pcC EXCEPT ![c] = "received"]
        /\ queue[fromServer[c]] # << >>
        /\ queue' = [queue EXCEPT ![fromServer[c]] = Tail(queue[fromServer[c]])]
    BY <1>6 DEF ClientReceive, names, server
  <2>2. Waiting' = Waiting \ {c} /\ Coming' = Coming
    BY <2>1 DEF Waiting, Coming, Types, ClientTypes
  <2>3. ASSUME starts = 1, Waiting # {} PROVE Served'
    <3>1. /\ sq \in QueueIds /\ clientName \in QueueIds /\ sq # clientName
          /\ Coming \in {0, 1} /\ Supply \in Nat
          /\ Len(queue[sq]) \in Nat /\ Len(queue[clientName]) \in Nat
      BY <2>3, WaitFacts
    <3>2. toServer[c] = sq
      <4>1. toServer[c] # NoQueue /\ sq # NoQueue
        BY <2>1, <3>1 DEF Types, ClientTypes, Active, QueueIds, NoQueue
      <4> QED
        BY <2>3, <4>1 DEF FirstRun
    <3>3. fromServer[c] # sq
      <4>1. sq # NoQueue
        BY <3>1 DEF QueueIds, NoQueue
      <4> QED
        BY <4>1 DEF Apart, ServerQueues, ClientQueues
    <3>4. queue'[sq'] = queue[sq]
      BY <2>1, <3>1, <3>3 DEF Types, QueueTypes
    <3>5. CASE fromServer[c] = clientName
      <4> DEFINE k == Len(queue[sq])
                 l == Len(queue[clientName])
                 n == Coming
      <4>1. Len(Tail(queue[clientName])) = l - 1
        BY <2>1, <3>1, <3>5, HeadTailProperties DEF Types, QueueTypes
      <4>2. queue'[clientName'] = Tail(queue[clientName])
        BY <2>1, <3>1, <3>5 DEF Types, QueueTypes
      <4>3. Supply = k + n + l /\ Supply' = k + n + (l - 1)
        BY <2>2, <3>4, <4>1, <4>2 DEF Supply
      <4>4. k \in Nat /\ l \in Nat /\ n \in {0, 1}
        BY <3>1
      <4> HIDE DEF k, l, n
      <4>5. Supply' = Supply - 1
        BY <4>3, <4>4
      <4>6. c \in Waiting
        BY <2>1, <3>2, <3>5 DEF Waiting
      <4>7. Cardinality(Waiting') = Cardinality(Waiting) - 1 /\ Cardinality(Waiting) \in Nat
        BY <2>2, <4>6, WaitFacts, FS_RemoveElement
      <4>8. Cardinality(Waiting) <= Supply
        BY <2>3 DEF Served
      <4> QED
        BY <3>1, <4>5, <4>7, <4>8 DEF Served
    <3>6. CASE fromServer[c] # clientName
      <4>1. queue'[clientName'] = queue[clientName]
        BY <2>1, <3>1, <3>6 DEF Types, QueueTypes
      <4>2. Supply' = Supply
        BY <2>2, <3>4, <4>1 DEF Supply
      <4> QED
        BY <1>1, <2>1, <2>2, <4>2
    <3> QED
      BY <3>5, <3>6
  <2> QED
    BY <2>1, <2>2, <2>3 DEF Served
<1> QED
  BY <1>2, <1>3, <1>4, <1>5, <1>6 DEF ClientStep

LEMMA BondHolds == Spec => [](Types /\ BondInv)
<1>1. Init => BondInv
  BY DEF Init, BondInv, Apart, ServerQueues, ClientQueues, FirstRun, Served, Waiting, NoQueue
<1>2. Types /\ Types' /\ BondInv /\ [Next]_vars => BondInv'
  <2> SUFFICES ASSUME Types, Types', BondInv, [Next]_vars PROVE BondInv'
    OBVIOUS
  <2>1. Served'
    <3>1. CASE UNCHANGED vars
      BY <3>1 DEF vars, names, server, client, BondInv, Served, Waiting, Supply, Coming
    <3> QED
      BY <3>1, ServedServer, ServedClient DEF Next
  <2> QED
    BY <2>1, ApartStep, FirstRunStep DEF BondInv
<1> QED
  BY <1>1, <1>2, TypesHold, PTL DEF Spec

(* For every number of clients, of messages and of kills: while the first  *)
(* run of the server lasts, the clients that wait in the queues of the two *)
(* names are no more than the messages and answers on their way.           *)
THEOREM AllRemembered == Spec => []NobodyForgotten
<1>1. Types /\ BondInv => NobodyForgotten
  <2> SUFFICES ASSUME Types, BondInv, starts = 1, Waiting # {}
               PROVE  Cardinality(Waiting) <= Len(queue[sq])
                        + (IF held = NoMessage THEN 0 ELSE 1) + Len(queue[clientName])
    BY DEF NobodyForgotten
  <2> DEFINE k == Len(queue[sq])
             l == Len(queue[clientName])
             n == Coming
             h == IF held = NoMessage THEN 0 ELSE 1
             w == Cardinality(Waiting)
  <2>1. k \in Nat /\ l \in Nat /\ n \in {0, 1} /\ w \in Nat
    BY WaitFacts DEF BondInv
  <2>2. n <= h /\ h \in {0, 1}
    BY DEF Coming, Types, ServerTypes
  <2>3. w <= k + n + l
    BY DEF BondInv, Served, Supply
  <2> HIDE DEF k, l, n, h, w
  <2>4. w <= k + h + l
    BY <2>1, <2>2, <2>3
  <2> QED
    BY <2>4 DEF k, l, h, w
<1> QED
  BY <1>1, BondHolds, PTL
-----------------------------------------------------------------------------
LEMMA AttendedQueues ==
  ASSUME Types, Apart, NEW c \in Clients, Active(c), Attended(c)
  PROVE  /\ sq \in QueueIds
         /\ HasReply(c) => clientName \in QueueIds /\ sq # clientName
         /\ pcC[c] \in {"open_reply", "send", "receive", "received", "unlink"}
         /\ pcS \in {"receive", "open", "send"}
<1>1. sq # NoQueue
  BY DEF Attended, Types, ClientTypes
<1>2. sq \in QueueIds /\ pcS \in {"receive", "open", "send"}
  BY <1>1, OpenIsQueue DEF Types, ServerTypes
<1>3. HasReply(c) => clientName \in QueueIds /\ sq # clientName
  BY PairFacts DEF Attended, HasReply
<1> QED
  BY <1>2, <1>3 DEF Active

(* A step of the server keeps AloneInv when it keeps what the one client   *)
(* that is active, or none, relies on.                                     *)
LEMMA AloneServer ==
  ASSUME Types, BondInv, AloneInv, ServerStart \/ ServerStep \/ ServerKilled
  PROVE  AloneInv'
<1> SUFFICES ASSUME Undisturbed' PROVE AloneInv'
  BY DEF AloneInv
<1>1. /\ Undisturbed /\ UNCHANGED client
      /\ ServerStart \/ ServerKilled => ~SomeActive
  <2>1. CASE ServerStart \/ ServerKilled
    BY <2>1 DEF ServerStart, ServerKilled, Disturbs, Undisturbed
  <2>2. CASE ServerStep
    BY <2>2 DEF ServerStep, ServerUnlink, ServerCreate, ServerReceive, ServerOpen, ServerSend,
                ServerStart, ServerKilled, Undisturbed
  <2> QED
    BY <2>1, <2>2
<1>2. \A c \in Clients : Active(c)' <=> Active(c)
  BY <1>1 DEF client, Active
<1>3. /\ \A c, d \in Clients : Active(c) /\ Active(d) => c = d
      /\ ~SomeActive => Deserted
      /\ \A c \in Clients : Active(c) => Attended(c)
  BY <1>1 DEF AloneInv
<1>4. ASSUME ~SomeActive PROVE Deserted'
  <2>1. Deserted
    BY <1>3, <1>4
  <2>2. CASE ServerStart \/ ServerUnlink \/ ServerKilled
    BY <2>1, <2>2 DEF ServerStart, ServerUnlink, ServerKilled, names, Deserted
  <2>3. CASE ServerCreate
    <3>1. created + 1 \in QueueIds => queue[created + 1] = << >>
      BY MqEchoAssumption, IdFacts DEF Types, QueueTypes, QueueIds
    <3>2. created + 1 \in QueueIds
      <4>1. Pending = 1 /\ starts <= MaxStarts /\ starts \in Nat
        BY <2>3, MqEchoAssumption DEF ServerCreate, Pending, Types, ServerTypes
      <4>2. Cardinality(Future) \in Nat
        BY FS_Subset, FS_CardinalityType, MqEchoAssumption DEF Future
      <4>3. created \in Nat
        BY DEF Types, QueueTypes
      <4> QED
        BY <4>1, <4>2, <4>3, MqEchoAssumption, IdFacts DEF Types, Budget, QueueIds
    <3> QED
      BY <2>1, <2>3, <3>1, <3>2 DEF ServerCreate, Deserted, Idle
  <2>4. CASE ServerReceive \/ ServerOpen \/ ServerSend
    BY <2>1, <2>4 DEF ServerReceive, ServerOpen, ServerSend, Deserted, Idle
  <2> QED
    BY <2>2, <2>3, <2>4 DEF ServerStep
<1>5. ASSUME NEW c \in Clients, Active(c) PROVE Attended(c)'
  <2>1. Attended(c) /\ Apart
    BY <1>3, <1>5 DEF BondInv
  <2>2. /\ sq \in QueueIds /\ pcS \in {"receive", "open", "send"}
        /\ HasReply(c) => clientName \in QueueIds /\ sq # clientName
        /\ pcC[c] \in {"open_reply", "send", "receive", "received", "unlink"}
    BY <1>5, <2>1, AttendedQueues
  <2>3. ServerReceive \/ ServerOpen \/ ServerSend
    BY <1>1, <1>5, <2>2 DEF ServerStep, ServerUnlink, ServerCreate, SomeActive
  <2>4. pcC[c] = "receive" /\ Exchange(c) /\ clientName = fromServer[c]
    BY <2>1, <2>2, <2>3 DEF Attended, Quiet, Idle, ServerReceive, ServerOpen, ServerSend
  <2>5. sq # clientName /\ clientName \in QueueIds /\ clientName # NoQueue
    BY <2>2, <2>4 DEF HasReply, QueueIds, NoQueue
  <2>6. UNCHANGED <<serverName, clientName, sq>>
    BY <2>3 DEF ServerReceive, ServerOpen, ServerSend, names
  <2>7. Exchange(c)'
    <3>1. Own(c)' = Own(c)
      BY <1>1 DEF Own, client
    <3>2. CASE ServerReceive
      <4>1. queue[sq] = <<Own(c)>> /\ queue[clientName] = << >>
        BY <2>4, <3>2 DEF Exchange, ServerReceive
      <4>2. Head(queue[sq]) = Own(c) /\ Tail(queue[sq]) = << >>
        BY <4>1
      <4>3. /\ queue'[sq] = << >> /\ queue'[clientName] = << >>
            /\ held' = ToUpper(Own(c)) /\ pcS' = "open"
        BY <2>2, <2>5, <3>2, <4>1, <4>2 DEF ServerReceive, Types, QueueTypes
      <4> QED
        BY <2>6, <3>1, <4>3 DEF Exchange
    <3>3. CASE ServerOpen
      <4>1. queue[sq] = << >> /\ queue[clientName] = << >> /\ held = ToUpper(Own(c))
        BY <2>4, <3>3 DEF Exchange, ServerOpen
      <4>2. pcS' = "send" /\ cq' = clientName /\ held' = held /\ queue' = queue
        BY <2>5, <3>3 DEF ServerOpen
      <4> QED
        BY <2>6, <3>1, <4>1, <4>2 DEF Exchange
    <3>4. CASE ServerSend
      <4>1. /\ queue[sq] = << >> /\ queue[clientName] = << >>
            /\ held = ToUpper(Own(c)) /\ cq = clientName
        BY <2>4, <3>4 DEF Exchange, ServerSend
      <4>2. Append(queue[clientName], held) = <<held>>
        BY <4>1
      <4>3. queue'[sq] = << >> /\ queue'[clientName] = <<held>> /\ pcS' = "receive"
        BY <2>2, <2>5, <3>4, <4>1, <4>2 DEF ServerSend, Types, QueueTypes
      <4> QED
        BY <2>6, <3>1, <4>1, <4>3 DEF Exchange
    <3> QED
      BY <2>3, <3>2, <3>3, <3>4
  <2> QED
    BY <1>1, <2>1, <2>4, <2>6, <2>7 DEF Attended, client
<1> QED
  BY <1>2, <1>3, <1>4, <1>5 DEF AloneInv, SomeActive
LEMMA AloneClient ==
  ASSUME Types, BondInv, AloneInv, NEW c \in Clients,
         ClientOpen(c) \/ ClientStep(c) \/ ClientKilled(c)
  PROVE  AloneInv'
<1> SUFFICES ASSUME Undisturbed' PROVE AloneInv'
  BY DEF AloneInv
<1>1. Undisturbed /\ ~ClientKilled(c)
  <2>1. ~ClientKilled(c)
    BY DEF ClientKilled, Undisturbed
  <2>2. ClientStep(c) => disturbed' = disturbed
    BY DEF ClientStep, ClientOpenReply, ClientSend, ClientReceive, ClientNext, ClientUnlink
  <2>3. ClientOpen(c) => Undisturbed
    BY DEF ClientOpen, Disturbs, Undisturbed
  <2> QED
    BY <2>1, <2>2, <2>3 DEF Undisturbed
<1>2. /\ \A d, e \in Clients : Active(d) /\ Active(e) => d = e
      /\ ~SomeActive => Deserted
      /\ \A d \in Clients : Active(d) => Attended(d)
  BY <1>1 DEF AloneInv
<1>3. UNCHANGED <<serverName, pcS, sq, cq, held>>
  BY <1>1 DEF ClientOpen, ClientStep, ClientOpenReply, ClientSend, ClientReceive, ClientNext,
              ClientUnlink, names, server
<1>4. ASSUME Active(c), Active(c)', Attended(c)', \A d \in Clients \ {c} : pcC'[d] = pcC[d]
      PROVE  AloneInv'
  <2>1. \A d \in Clients : Active(d)' => d = c
    BY <1>2, <1>4 DEF Active
  <2> QED
    BY <1>4, <2>1 DEF AloneInv, SomeActive
<1>5. CASE ClientOpen(c)
  <2>1. CASE serverName = NoQueue
    <3>1. pcC' = [pcC EXCEPT ![c] = "failed"] /\ pcC[c] = "new"
      BY <1>5, <2>1 DEF ClientOpen
    <3>2. \A d \in Clients : Active(d)' <=> Active(d)
      BY <3>1 DEF Active, Types, ClientTypes
    <3>3. UNCHANGED <<queue, clientName, i, fromServer, got>>
      BY <1>5 DEF ClientOpen, names
    <3>4. Deserted => Deserted'
      BY <1>3, <3>3 DEF Deserted, Idle
    <3>5. ASSUME NEW d \in Clients, Active(d) PROVE Attended(d)'
      <4>1. d # c /\ pcC'[d] = pcC[d] /\ toServer'[d] = toServer[d]
        BY <1>5, <3>1, <3>5 DEF ClientOpen, Active, Types, ClientTypes
      <4> QED
        BY <1>2, <1>3, <3>3, <3>5, <4>1 DEF Attended, Quiet, Idle, Exchange, Own
    <3> QED
      BY <1>2, <3>2, <3>4, <3>5 DEF AloneInv, SomeActive
  <2>2. CASE serverName # NoQueue
    <3>1. /\ pcC' = [pcC EXCEPT ![c] = "open_reply"] /\ pcC[c] = "new"
          /\ toServer' = [toServer EXCEPT ![c] = serverName]
          /\ ~SomeActive /\ pcS \notin {"down", "unlink", "create"}
      BY <1>5, <2>2 DEF ClientOpen, Disturbs, Undisturbed
    <3>2. Idle /\ clientName = NoQueue
      BY <1>2, <3>1 DEF Deserted, Types, ServerTypes
    <3>3. UNCHANGED <<queue, clientName>>
      BY <1>5 DEF ClientOpen, names
    <3>4. pcC'[c] = "open_reply" /\ toServer'[c] = serverName
      BY <3>1 DEF Types, ClientTypes
    <3>5. Attended(c)'
      BY <1>3, <3>2, <3>3, <3>4 DEF Attended, Idle
    <3>6. \A d \in Clients : Active(d)' => d = c
      BY <3>1 DEF Active, SomeActive, Types, ClientTypes
    <3>7. Active(c)'
      BY <3>4 DEF Active
    <3> QED
      BY <3>5, <3>6, <3>7 DEF AloneInv, SomeActive
  <2> QED
    BY <2>1, <2>2
<1>6. ASSUME ClientStep(c)
      PROVE  /\ Active(c) /\ Attended(c) /\ sq \in QueueIds
             /\ HasReply(c) => clientName \in QueueIds /\ sq # clientName
  <2>1. Active(c)
    BY <1>6 DEF ClientStep, ClientOpenReply, ClientSend, ClientReceive, ClientNext,
                ClientUnlink, Active
  <2> QED
    BY <1>2, <2>1, AttendedQueues DEF BondInv
<1>7. CASE ClientOpenReply(c)
  <2>1. Active(c) /\ Attended(c) /\ sq \in QueueIds /\ pcC[c] = "open_reply"
    BY <1>6, <1>7 DEF ClientStep, ClientOpenReply
  <2>2. Idle /\ clientName = NoQueue
    BY <2>1 DEF Attended
  <2>3. /\ clientName' = created + 1 /\ fromServer' = [fromServer EXCEPT ![c] = created + 1]
        /\ pcC' = [pcC EXCEPT ![c] = "send"] /\ UNCHANGED <<queue, toServer>>
    BY <1>7, <2>2 DEF ClientOpenReply
  <2>4. queue[created + 1] = << >>
    <3>1. c \in Future
      BY <2>1 DEF Future
    <3>2. IsFiniteSet(Future) /\ Cardinality(Future) \in Nat
      BY FS_Subset, FS_CardinalityType, MqEchoAssumption DEF Future
    <3>3. Cardinality(Future) # 0
      BY <3>1, <3>2, FS_EmptySet
    <3>4. created \in Nat /\ starts \in Nat /\ starts <= MaxStarts /\ Pending \in {0, 1}
      BY MqEchoAssumption DEF Types, QueueTypes, ServerTypes, Pending
    <3>5. created + 1 \in QueueIds
      BY <3>2, <3>3, <3>4, MqEchoAssumption, IdFacts DEF Types, Budget, QueueIds
    <3> QED
      BY <3>4, <3>5 DEF Types, QueueTypes
  <2>5. /\ pcC'[c] = "send" /\ fromServer'[c] = clientName'
        /\ \A d \in Clients \ {c} : pcC'[d] = pcC[d]
    BY <2>3 DEF Types, ClientTypes
  <2>6. Quiet'
    BY <1>3, <2>2, <2>3, <2>4 DEF Quiet, Idle
  <2>7. Attended(c)' /\ Active(c)'
    BY <1>3, <2>1, <2>3, <2>5, <2>6 DEF Attended, Active
  <2> QED
    BY <1>4, <2>1, <2>5, <2>7
<1>8. CASE ClientSend(c)
  <2>1. /\ pcC[c] = "send" /\ pcC' = [pcC EXCEPT ![c] = "receive"]
        /\ UNCHANGED <<clientName, i, toServer, fromServer>>
        /\ queue' = [queue EXCEPT ![toServer[c]] = Insert(queue[toServer[c]], Own(c))]
    BY <1>8 DEF ClientSend, names, Own
  <2>2. Active(c) /\ Attended(c) /\ sq \in QueueIds /\ clientName \in QueueIds /\ sq # clientName
    BY <1>6, <1>8, <2>1 DEF ClientStep, HasReply
  <2>3. Quiet /\ toServer[c] = sq
    BY <2>1, <2>2 DEF Attended
  <2>4. Insert(<< >>, Own(c)) = <<Own(c)>>
    <3>1. << >> \in Seq(Messages) /\ Own(c) \in Messages
      BY MessageTypes DEF Own, Types, ClientTypes
    <3> QED
      BY <3>1, InsertType
  <2>5. queue'[sq] = <<Own(c)>> /\ queue'[clientName] = << >>
    BY <2>1, <2>2, <2>3, <2>4 DEF Quiet, Idle, Types, QueueTypes
  <2>6. pcC'[c] = "receive" /\ \A d \in Clients \ {c} : pcC'[d] = pcC[d]
    BY <2>1 DEF Types, ClientTypes
  <2>7. Exchange(c)'
    <3>1. Own(c)' = Own(c)
      BY <2>1 DEF Own
    <3> QED
      BY <1>3, <2>1, <2>3, <2>5, <3>1 DEF Exchange, Quiet, Idle
  <2>8. Attended(c)' /\ Active(c)'
    BY <1>3, <2>1, <2>2, <2>6, <2>7 DEF Attended, Active
  <2> QED
    BY <1>4, <2>2, <2>6, <2>8
<1>9. CASE ClientReceive(c)
  <2>1. /\ pcC[c] = "receive" /\ pcC' = [pcC EXCEPT ![c] = "received"]
        /\ UNCHANGED <<clientName, i, toServer, fromServer>>
        /\ queue[fromServer[c]] # << >>
        /\ got' = [got EXCEPT ![c] = Head(queue[fromServer[c]])]
        /\ queue' = [queue EXCEPT ![fromServer[c]] = Tail(queue[fromServer[c]])]
    BY <1>9 DEF ClientReceive, names
  <2>2. Active(c) /\ Attended(c) /\ sq \in QueueIds /\ clientName \in QueueIds /\ sq # clientName
    BY <1>6, <1>9, <2>1 DEF ClientStep, HasReply
  <2>3. /\ Exchange(c) /\ clientName = fromServer[c] /\ serverName = sq
    BY <2>1, <2>2 DEF Attended
  <2>4. pcS = "receive" /\ queue[sq] = << >> /\ queue[clientName] = <<ToUpper(Own(c))>>
    BY <2>1, <2>3 DEF Exchange
  <2>5. /\ Head(queue[clientName]) = ToUpper(Own(c)) /\ Tail(queue[clientName]) = << >>
    BY <2>4
  <2>6. queue'[sq] = << >> /\ queue'[clientName] = << >>
    BY <2>1, <2>2, <2>3, <2>4, <2>5 DEF Types, QueueTypes
  <2>7. /\ pcC'[c] = "received" /\ got'[c] = ToUpper(Own(c))
        /\ \A d \in Clients \ {c} : pcC'[d] = pcC[d]
    BY <2>1, <2>3, <2>5 DEF Types, ClientTypes
  <2>8. Quiet'
    BY <1>3, <2>1, <2>3, <2>4, <2>6 DEF Quiet, Idle
  <2>9. Attended(c)' /\ Active(c)'
    BY <1>3, <2>1, <2>2, <2>7, <2>8 DEF Attended, Active, Own
  <2> QED
    BY <1>4, <2>2, <2>7, <2>9
<1>10. CASE ClientNext(c)
  <2>1. /\ pcC[c] = "received" /\ UNCHANGED <<queue, clientName, toServer, fromServer>>
        /\ \E p \in {"send", "unlink"} : pcC' = [pcC EXCEPT ![c] = p]
    BY <1>10 DEF ClientNext, names
  <2>2. Active(c) /\ Attended(c)
    BY <1>6, <1>10 DEF ClientStep
  <2>3. pcC'[c] \in {"send", "unlink"} /\ \A d \in Clients \ {c} : pcC'[d] = pcC[d]
    BY <2>1 DEF Types, ClientTypes
  <2>4. Quiet'
    BY <1>3, <2>1, <2>2 DEF Attended, Quiet, Idle
  <2>5. Attended(c)' /\ Active(c)'
    BY <1>3, <2>1, <2>2, <2>3, <2>4 DEF Attended, Active
  <2> QED
    BY <1>4, <2>2, <2>3, <2>5
<1>11. CASE ClientUnlink(c)
  <2>1. /\ pcC[c] = "unlink" /\ pcC' = [pcC EXCEPT ![c] = "done"] /\ clientName' = NoQueue
        /\ queue' = queue
    BY <1>11 DEF ClientUnlink, End
  <2>2. Active(c) /\ Attended(c)
    BY <1>6, <1>11 DEF ClientStep
  <2>3. \A d \in Clients : ~Active(d)'
    BY <1>2, <2>1, <2>2 DEF Active, Types, ClientTypes
  <2>4. Deserted'
    BY <1>3, <2>1, <2>2 DEF Attended, Quiet, Idle, Deserted
  <2> QED
    BY <2>3, <2>4 DEF AloneInv, SomeActive
<1> QED
  BY <1>1, <1>5, <1>7, <1>8, <1>9, <1>10, <1>11 DEF ClientStep

LEMMA AloneHolds == Spec => [](Types /\ BondInv /\ AloneInv)
<1>1. Init => AloneInv
  BY DEF Init, AloneInv, Active, SomeActive, Deserted, NoQueue
<1>2. Types /\ BondInv /\ AloneInv /\ [Next]_vars => AloneInv'
  <2>1. UNCHANGED vars /\ AloneInv => AloneInv'
    BY DEF vars, names, server, client, AloneInv, Undisturbed, Active, SomeActive, Deserted,
           Attended, Quiet, Idle, Exchange, Own
  <2> QED
    BY <2>1, AloneServer, AloneClient DEF Next
<1> QED
  BY <1>1, <1>2, BondHolds, PTL DEF Spec

(* A client that runs alone, within the life of one run of the server and  *)
(* with no client killed before it, prints the answers to its own messages.*)
THEOREM AnswersAreOwn == Spec => []OwnAnswer
<1>1. Types /\ AloneInv => OwnAnswer
  BY DEF AloneInv, OwnAnswer, Attended, Own, Active
<1> QED
  BY <1>1, AloneHolds, PTL
=============================================================================
