------------------------------- MODULE MqEcho -------------------------------
(***************************************************************************)
(* The POSIX message queues of task3: posix_mq_server answers each message *)
(* of its queue in upper case, through the one reply queue that all runs   *)
(* of posix_mq_client share by its name.                                   *)
(*                                                                         *)
(* A queue is a kernel object: mq_unlink takes its name away, and whoever  *)
(* has it open goes on using it. A client is one run of the program.       *)
(***************************************************************************)
EXTENDS Naturals, Sequences, FiniteSets

CONSTANTS
  Clients,       (* the runs of posix_mq_client                            *)
  Last,          (* messages that a client sends, 3 in the code            *)
  MQ_MAXMSG,     (* attr.mq_maxmsg, 10 in the code                         *)
  MaxStarts,     (* bound: starts of the server                            *)
  MaxKills       (* bound: clients that are killed                         *)

ASSUME MqEchoAssumption ==
  /\ IsFiniteSet(Clients)
  /\ Last \in Nat \ {0} /\ MQ_MAXMSG \in Nat \ {0} /\ MaxStarts \in Nat /\ MaxKills \in Nat

VARIABLES
  queue,                  (* the messages in each queue, first to leave first *)
  serverName, clientName, (* the queues that have the two names, or NoQueue   *)
  created,                (* the number of queues created                     *)
  pcS, sq, cq, held,      (* server: next step, open queues, message at hand  *)
  pcC, i, toServer, fromServer, got, (* each client: next step, message       *)
                                     (*   number, open queues, last answer    *)
  starts, kills,          (* used up parts of the two bounds                  *)
  disturbed               (* history: see Undisturbed                         *)

names == <<serverName, clientName>>
server == <<pcS, sq, cq, held>>
client == <<pcC, i, toServer, fromServer, got>>
vars == <<queue, names, created, server, client, starts, kills, disturbed>>

(* Every start of the server and every client creates one queue at most. *)
QueueIds == 1 .. MaxStarts + Cardinality(Clients)
NoQueue == 0
NoMessage == [from |-> "nobody", n |-> 0, upper |-> FALSE]

(* The second message of a client is the urgent one. *)
Priority(m) == IF m.n = 2 THEN 10 ELSE 1
Message(c, n) == [from |-> c, n |-> n, upper |-> FALSE]
ToUpper(m) == [m EXCEPT !.upper = TRUE]
Messages == [from : Clients, n : 1 .. Last, upper : BOOLEAN]

(* mq_send: behind all messages of the same or a higher priority, which    *)
(* are the first ones of the queue.                                        *)
Insert(q, m) ==
  LET p == Cardinality({n \in 1 .. Len(q) : Priority(q[n]) >= Priority(m)})
  IN  SubSeq(q, 1, p) \o <<m>> \o SubSeq(q, p + 1, Len(q))

Active(c) == pcC[c] \in {"open_reply", "send", "receive", "received", "unlink"}
SomeActive == \E c \in Clients : Active(c)
Disturbs(cond) == disturbed' = (disturbed \/ cond)

(* The end of a client process: what it knew and had open is gone. *)
End(c, how) ==
  /\ pcC' = [pcC EXCEPT ![c] = how]
  /\ i' = [i EXCEPT ![c] = 1]
  /\ toServer' = [toServer EXCEPT ![c] = NoQueue]
  /\ fromServer' = [fromServer EXCEPT ![c] = NoQueue]
  /\ got' = [got EXCEPT ![c] = NoMessage]

Init ==
  /\ queue = [q \in QueueIds |-> << >>]
  /\ serverName = NoQueue /\ clientName = NoQueue /\ created = 0
  /\ pcS = "down" /\ sq = NoQueue /\ cq = NoQueue /\ held = NoMessage
  /\ pcC = [c \in Clients |-> "new"] /\ i = [c \in Clients |-> 1]
  /\ toServer = [c \in Clients |-> NoQueue]
  /\ fromServer = [c \in Clients |-> NoQueue]
  /\ got = [c \in Clients |-> NoMessage]
  /\ starts = 0 /\ kills = 0 /\ disturbed = FALSE

-----------------------------------------------------------------------------
(* The server removes both names, whoever uses the queues, and creates its *)
(* own queue anew.                                                         *)
ServerStart ==
  /\ pcS = "down" /\ starts < MaxStarts
  /\ starts' = starts + 1
  /\ serverName' = NoQueue
  /\ pcS' = "unlink"
  /\ Disturbs(SomeActive)
  /\ UNCHANGED <<queue, clientName, created, sq, cq, held, client, kills>>

ServerUnlink ==
  /\ pcS = "unlink"
  /\ clientName' = NoQueue
  /\ pcS' = "create"
  /\ UNCHANGED <<queue, serverName, created, sq, cq, held, client, starts, kills,
                 disturbed>>

ServerCreate ==
  /\ pcS = "create"
  /\ created' = created + 1
  /\ serverName' = created + 1 /\ sq' = created + 1
  /\ pcS' = "receive"
  /\ UNCHANGED <<queue, clientName, cq, held, client, starts, kills, disturbed>>

ServerReceive ==
  /\ pcS = "receive" /\ queue[sq] # << >>
  /\ held' = ToUpper(Head(queue[sq]))
  /\ queue' = [queue EXCEPT ![sq] = Tail(@)]
  /\ pcS' = "open"
  /\ UNCHANGED <<names, created, sq, cq, client, starts, kills, disturbed>>

(* Mutant: the reply queue is opened for the first answer only. *)
ServerOpenOnce ==
  /\ pcS = "open"
  /\ IF cq = NoQueue /\ clientName = NoQueue
       THEN pcS' = "receive" /\ held' = NoMessage /\ UNCHANGED cq
       ELSE /\ pcS' = "send" /\ UNCHANGED held
            /\ cq' = IF cq = NoQueue THEN clientName ELSE cq
  /\ UNCHANGED <<queue, names, created, sq, client, starts, kills, disturbed>>

(* The reply queue is looked up by its name for each answer; without one   *)
(* the message is dropped (`continue').                                    *)
ServerOpen ==
  /\ pcS = "open"
  /\ IF clientName = NoQueue
       THEN pcS' = "receive" /\ held' = NoMessage /\ UNCHANGED cq
       ELSE pcS' = "send" /\ cq' = clientName /\ UNCHANGED held
  /\ UNCHANGED <<queue, names, created, sq, client, starts, kills, disturbed>>

(* Mutant: a send that succeeded is repeated. *)
ServerSendTwice ==
  /\ pcS = "send" /\ Len(queue[cq]) < MQ_MAXMSG
  /\ queue' = [queue EXCEPT ![cq] = IF Len(@) + 1 < MQ_MAXMSG
                                      THEN @ \o <<held, held>> ELSE Append(@, held)]
  /\ pcS' = "receive" /\ held' = NoMessage
  /\ UNCHANGED <<names, created, sq, cq, client, starts, kills, disturbed>>

(* Answers all have priority 0. The send waits while the queue is full. *)
ServerSend ==
  /\ pcS = "send" /\ Len(queue[cq]) < MQ_MAXMSG
  /\ queue' = [queue EXCEPT ![cq] = Append(@, held)]
  /\ pcS' = "receive" /\ held' = NoMessage
  /\ UNCHANGED <<names, created, sq, cq, client, starts, kills, disturbed>>

(* The server ends by a signal only; the names remain. *)
ServerKilled ==
  /\ pcS # "down"
  /\ pcS' = "down" /\ sq' = NoQueue /\ cq' = NoQueue /\ held' = NoMessage
  /\ Disturbs(SomeActive)
  /\ UNCHANGED <<queue, names, created, client, starts, kills>>

-----------------------------------------------------------------------------
ClientOpen(c) ==
  /\ pcC[c] = "new"
  /\ toServer' = [toServer EXCEPT ![c] = serverName]
  /\ IF serverName = NoQueue
       THEN pcC' = [pcC EXCEPT ![c] = "failed"] /\ UNCHANGED disturbed
       ELSE /\ pcC' = [pcC EXCEPT ![c] = "open_reply"]
            /\ Disturbs(SomeActive \/ pcS \in {"down", "unlink", "create"})
  /\ UNCHANGED <<queue, names, created, server, i, fromServer, got, starts, kills>>

(* mq_open with O_CREAT: the queue of that name, or a new one. *)
ClientOpenReply(c) ==
  /\ pcC[c] = "open_reply"
  /\ pcC' = [pcC EXCEPT ![c] = "send"]
  /\ IF clientName # NoQueue
       THEN /\ fromServer' = [fromServer EXCEPT ![c] = clientName]
            /\ UNCHANGED <<clientName, created>>
       ELSE /\ created' = created + 1
            /\ clientName' = created + 1
            /\ fromServer' = [fromServer EXCEPT ![c] = created + 1]
  /\ UNCHANGED <<queue, serverName, server, i, toServer, got, starts, kills, disturbed>>

ClientSend(c) ==
  /\ pcC[c] = "send" /\ Len(queue[toServer[c]]) < MQ_MAXMSG
  /\ queue' = [queue EXCEPT ![toServer[c]] = Insert(@, Message(c, i[c]))]
  /\ pcC' = [pcC EXCEPT ![c] = "receive"]
  /\ UNCHANGED <<names, created, server, i, toServer, fromServer, got, starts, kills,
                 disturbed>>

ClientReceive(c) ==
  /\ pcC[c] = "receive" /\ queue[fromServer[c]] # << >>
  /\ got' = [got EXCEPT ![c] = Head(queue[fromServer[c]])]
  /\ queue' = [queue EXCEPT ![fromServer[c]] = Tail(@)]
  /\ pcC' = [pcC EXCEPT ![c] = "received"]
  /\ UNCHANGED <<names, created, server, i, toServer, fromServer, starts, kills,
                 disturbed>>

(* Mutant: the loop makes one pass too many. *)
ClientNextOneMore(c) ==
  /\ pcC[c] = "received"
  /\ got' = [got EXCEPT ![c] = NoMessage]
  /\ IF i[c] <= Last
       THEN i' = [i EXCEPT ![c] = @ + 1] /\ pcC' = [pcC EXCEPT ![c] = "send"]
       ELSE pcC' = [pcC EXCEPT ![c] = "unlink"] /\ UNCHANGED i
  /\ UNCHANGED <<queue, names, created, server, toServer, fromServer, starts, kills,
                 disturbed>>

(* sleep(1), and the next pass of the loop with a new buffer. *)
ClientNext(c) ==
  /\ pcC[c] = "received"
  /\ got' = [got EXCEPT ![c] = NoMessage]
  /\ IF i[c] < Last
       THEN i' = [i EXCEPT ![c] = @ + 1] /\ pcC' = [pcC EXCEPT ![c] = "send"]
       ELSE pcC' = [pcC EXCEPT ![c] = "unlink"] /\ UNCHANGED i
  /\ UNCHANGED <<queue, names, created, server, toServer, fromServer, starts, kills,
                 disturbed>>

(* The first client to end takes the name from all others. *)
ClientUnlink(c) ==
  /\ pcC[c] = "unlink"
  /\ clientName' = NoQueue
  /\ End(c, "done")
  /\ UNCHANGED <<queue, serverName, created, server, starts, kills, disturbed>>

ClientKilled(c) ==
  /\ Active(c) /\ kills < MaxKills
  /\ kills' = kills + 1
  /\ End(c, "killed")
  /\ disturbed' = TRUE
  /\ UNCHANGED <<queue, names, created, server, starts>>

-----------------------------------------------------------------------------
ServerStep ==
  \/ ServerUnlink \/ ServerCreate \/ ServerReceive \/ ServerOpen \/ ServerSend

ClientStep(c) ==
  \/ ClientOpenReply(c) \/ ClientSend(c) \/ ClientReceive(c) \/ ClientNext(c)
  \/ ClientUnlink(c)

Next ==
  \/ ServerStart \/ ServerStep \/ ServerKilled
  \/ \E c \in Clients : ClientOpen(c) \/ ClientStep(c) \/ ClientKilled(c)

Spec == Init /\ [][Next]_vars

(* Processes that have been started and can run do so; nobody has to start *)
(* a process.                                                              *)
FairSpec ==
  /\ Spec /\ WF_vars(ServerStep)
  /\ \A c \in Clients : WF_vars(ClientStep(c))
-----------------------------------------------------------------------------
(* One client at a time, each within the life of one run of the server,    *)
(* and none of them killed.                                                *)
Undisturbed == ~disturbed

(* Type correctness of the queues, the server and the clients. *)
TypeOK ==
  /\ queue \in [QueueIds -> Seq(Messages)]
  /\ \A q \in QueueIds : Len(queue[q]) <= MQ_MAXMSG
  /\ serverName \in QueueIds \cup {NoQueue} /\ clientName \in QueueIds \cup {NoQueue}
  /\ created \in 0 .. Cardinality(QueueIds)
  /\ pcS \in {"down", "unlink", "create", "receive", "open", "send"}
  /\ sq \in QueueIds \cup {NoQueue} /\ cq \in QueueIds \cup {NoQueue}
  /\ held \in Messages \cup {NoMessage}
  /\ pcC \in [Clients -> {"new", "failed", "open_reply", "send", "receive", "received",
                          "unlink", "done", "killed"}]
  /\ i \in [Clients -> 1 .. Last]
  /\ toServer \in [Clients -> QueueIds \cup {NoQueue}]
  /\ fromServer \in [Clients -> QueueIds \cup {NoQueue}]
  /\ got \in [Clients -> Messages \cup {NoMessage}]
  /\ starts \in 0 .. MaxStarts /\ kills \in 0 .. MaxKills /\ disturbed \in BOOLEAN

(* The answer that a client prints is its own message in upper case: no    *)
(* answer of an earlier run is left in the reply queue, and the two names  *)
(* lead server and client to the same queues (posix_mq_server.c:46-64,     *)
(* posix_mq_client.c:39-51).                                               *)
OwnAnswer ==
  \A c \in Clients :
    Undisturbed /\ pcC[c] = "received" => got[c] = ToUpper(Message(c, i[c]))

(* The clients that wait for an answer in the queues that still have their *)
(* names.                                                                  *)
Waiting ==
  {c \in Clients : /\ pcC[c] = "receive"
                   /\ toServer[c] = sq /\ fromServer[c] = clientName}

(* Clients that run at the same time may take each other's answers, killed *)
(* ones may leave theirs behind, but no one is left without: for each      *)
(* waiting client there is a message to be answered or an answer. Only     *)
(* mq_unlink breaks the bond (posix_mq_client.c:56), and a restart of the  *)
(* server: a client that opened its queue before it and the reply queue    *)
(* after it takes answers that it never asked for.                         *)
NobodyForgotten ==
  starts = 1 /\ Waiting # {} =>
    Cardinality(Waiting) <= Len(queue[sq]) + (IF held = NoMessage THEN 0 ELSE 1)
                              + Len(queue[clientName])

(* A client that runs alone gets all its answers and ends. *)
ClientsFinish ==
  []Undisturbed
    => \A c \in Clients : pcC[c] # "new" ~> pcC[c] \in {"done", "failed"}
=============================================================================
