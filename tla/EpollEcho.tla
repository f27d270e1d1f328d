----------------------------- MODULE EpollEcho -----------------------------
(***************************************************************************)
(* task3/src/epoll_server.c: one thread that accepts connections, echoes   *)
(* what they send and reads an eventfd, all from one epoll_wait loop. The  *)
(* connections are watched edge-triggered and read once for each event.    *)
(*                                                                         *)
(* A client sends the units 1, 2, 3, ... A patient one sends a message     *)
(* that fits in the server's buffer, waits for its echo, and then sends    *)
(* the next or leaves; the others send and leave as they like.             *)
(***************************************************************************)
EXTENDS Naturals, Sequences, FiniteSets

CONSTANTS
  Connections,     (* the clients, one connection each                     *)
  BUFFER,          (* READ_BUFFER_SIZE, 256 in the code, in units          *)
  SOCKET,          (* units a socket holds on their way                    *)
  MAX_EVENTS,      (* events returned by one epoll_wait, 10 in the code    *)
  MaxUnits,        (* bound: units a client sends                          *)
  MaxNotes         (* bound: writes to the eventfd                         *)

VARIABLES
  running,         (* FALSE once the server process has ended              *)
  patient,         (* the patient clients                                  *)
  user,            (* each client: "new", "connected" or "gone"            *)
  backlog,         (* connections not accepted yet, oldest first           *)
  conn,            (* the server's end: "none", "open" or "closed"         *)
  inbox, outbox,   (* units on their way to and from the server            *)
  edge,            (* the connections in epoll's list of ready descriptors *)
  batch,           (* events returned by epoll_wait and not handled yet    *)
  reading, chunk,  (* the connection at hand and what was read from it     *)
  counter, notes,  (* the eventfd, and the writes to it so far             *)
  sent, echoed     (* each client: last unit sent, last unit received      *)

epoll == <<edge, batch, reading, chunk>>
world == <<user, inbox, outbox, sent, echoed>>
vars == <<running, patient, backlog, conn, epoll, world, counter, notes>>

Listen == "listen"       (* the events of server_fd and event_fd *)
Event == "event"
Nobody == "nobody"

Least(m, n) == IF m < n THEN m ELSE n

Init ==
  /\ running = TRUE /\ patient \in SUBSET Connections
  /\ user = [k \in Connections |-> "new"] /\ backlog = << >>
  /\ conn = [k \in Connections |-> "none"]
  /\ inbox = [k \in Connections |-> << >>] /\ outbox = [k \in Connections |-> << >>]
  /\ edge = {} /\ batch = {} /\ reading = Nobody /\ chunk = << >>
  /\ counter = 0 /\ notes = 0
  /\ sent = [k \in Connections |-> 0] /\ echoed = [k \in Connections |-> 0]

-----------------------------------------------------------------------------
(* Whatever happens to a registered connection puts it on the ready list. *)
Announce(k) == edge' = IF conn[k] = "open" THEN edge \cup {k} ELSE edge

Connect(k) ==
  /\ running /\ user[k] = "new"
  /\ user' = [user EXCEPT ![k] = "connected"]
  /\ backlog' = Append(backlog, k)
  /\ UNCHANGED <<running, patient, conn, epoll, inbox, outbox, sent, echoed, counter,
                 notes>>

Send(k, n) ==
  /\ running /\ user[k] = "connected"
  /\ sent[k] + n <= MaxUnits /\ Len(inbox[k]) + n <= SOCKET
  /\ k \in patient => n <= BUFFER /\ echoed[k] = sent[k]
  /\ inbox' = [inbox EXCEPT ![k] = @ \o [j \in 1 .. n |-> sent[k] + j]]
  /\ sent' = [sent EXCEPT ![k] = @ + n]
  /\ Announce(k)
  /\ UNCHANGED <<running, patient, user, backlog, conn, batch, reading, chunk, outbox,
                 echoed, counter, notes>>

Receive(k) ==
  /\ user[k] = "connected" /\ outbox[k] # << >>
  /\ echoed' = [echoed EXCEPT ![k] = Head(outbox[k])]
  /\ outbox' = [outbox EXCEPT ![k] = Tail(@)]
  /\ UNCHANGED <<running, patient, user, backlog, conn, epoll, inbox, sent, counter,
                 notes>>

Leave(k) ==
  /\ user[k] = "connected"
  /\ k \in patient /\ running => echoed[k] = sent[k]
  /\ user' = [user EXCEPT ![k] = "gone"]
  /\ outbox' = [outbox EXCEPT ![k] = << >>]
  /\ Announce(k)
  /\ UNCHANGED <<running, patient, backlog, conn, batch, reading, chunk, inbox, sent,
                 echoed, counter, notes>>

(* Another process or thread writes to the eventfd. *)
Notify ==
  /\ running /\ notes < MaxNotes
  /\ notes' = notes + 1 /\ counter' = counter + 1
  /\ UNCHANGED <<running, patient, backlog, conn, epoll, world>>

-----------------------------------------------------------------------------
(* epoll_wait. The listening socket and the eventfd are level-triggered.   *)
(* The order of the events is not modelled: any of them may come first.    *)
Wait ==
  /\ running /\ batch = {} /\ reading = Nobody
  /\ LET ready == edge \cup (IF backlog # << >> THEN {Listen} ELSE {})
                       \cup (IF counter > 0 THEN {Event} ELSE {})
     IN  /\ ready # {}
         /\ batch' \in {S \in SUBSET ready :
                          Cardinality(S) = Least(MAX_EVENTS, Cardinality(ready))}
  /\ edge' = edge \ batch'
  /\ UNCHANGED <<running, patient, backlog, conn, reading, chunk, world, counter, notes>>

(* Mutant: `break' where the code goes on with the next event. *)
AcceptAndBreak ==
  /\ Listen \in batch /\ reading = Nobody
  /\ LET k == Head(backlog)
     IN  /\ conn' = [conn EXCEPT ![k] = "open"]
         /\ edge' = IF inbox[k] # << >> \/ user[k] = "gone" THEN edge \cup {k} ELSE edge
  /\ backlog' = Tail(backlog)
  /\ batch' = {}
  /\ UNCHANGED <<running, patient, reading, chunk, world, counter, notes>>

(* One connection is accepted for an event; registering it announces at    *)
(* once what has come before.                                              *)
Accept ==
  /\ Listen \in batch /\ reading = Nobody
  /\ LET k == Head(backlog)
     IN  /\ conn' = [conn EXCEPT ![k] = "open"]
         /\ edge' = IF inbox[k] # << >> \/ user[k] = "gone" THEN edge \cup {k} ELSE edge
  /\ backlog' = Tail(backlog)
  /\ batch' = batch \ {Listen}
  /\ UNCHANGED <<running, patient, reading, chunk, world, counter, notes>>

ReadEvent ==
  /\ Event \in batch /\ reading = Nobody
  /\ counter' = 0
  /\ batch' = batch \ {Event}
  /\ UNCHANGED <<running, patient, backlog, conn, edge, reading, chunk, world, notes>>

(* Mutant: the size of the buffer is not given to read. *)
ReadWhole(k) ==
  /\ k \in batch /\ reading = Nobody
  /\ inbox[k] # << >> \/ user[k] # "gone"
  /\ chunk' = inbox[k]
  /\ inbox' = [inbox EXCEPT ![k] = << >>]
  /\ reading' = IF inbox[k] = << >> THEN Nobody ELSE k
  /\ batch' = batch \ {k}
  /\ UNCHANGED <<running, patient, backlog, conn, edge, user, outbox, sent, echoed,
                 counter, notes>>

(* One read for each event, whatever remains; EAGAIN when there is nothing. *)
Read(k) ==
  /\ k \in batch /\ reading = Nobody
  /\ inbox[k] # << >> \/ user[k] # "gone"
  /\ LET n == Least(BUFFER, Len(inbox[k]))
     IN  /\ chunk' = SubSeq(inbox[k], 1, n)
         /\ inbox' = [inbox EXCEPT ![k] = SubSeq(@, n + 1, Len(@))]
         /\ reading' = IF n = 0 THEN Nobody ELSE k
  /\ batch' = batch \ {k}
  /\ UNCHANGED <<running, patient, backlog, conn, edge, user, outbox, sent, echoed,
                 counter, notes>>

(* Mutant: a read of nothing is not taken for the end of the connection. *)
ReadEndIgnored(k) ==
  /\ k \in batch /\ reading = Nobody
  /\ inbox[k] = << >> /\ user[k] = "gone"
  /\ batch' = batch \ {k}
  /\ UNCHANGED <<running, patient, backlog, conn, edge, reading, chunk, world, counter,
                 notes>>

(* The read that finds the client gone: nothing was read, or, when it left *)
(* without reading all of its echo, the read failed with ECONNRESET. What  *)
(* came before is read first, and the connection is closed in both cases.  *)
ReadEnd(k) ==
  /\ k \in batch /\ reading = Nobody
  /\ inbox[k] = << >> /\ user[k] = "gone"
  /\ conn' = [conn EXCEPT ![k] = "closed"]
  /\ edge' = edge \ {k}
  /\ batch' = batch \ {k}
  /\ UNCHANGED <<running, patient, backlog, reading, chunk, world, counter, notes>>

(* Mutant: the echo is built from the end of the buffer. *)
EchoReversed ==
  /\ reading # Nobody /\ user[reading] # "gone"
  /\ LET room == SOCKET - Len(outbox[reading])
         n == Least(room, Len(chunk))
     IN  outbox' = [outbox EXCEPT ![reading] =
                      @ \o [j \in 1 .. n |-> chunk[Len(chunk) + 1 - j]]]
  /\ reading' = Nobody /\ chunk' = << >>
  /\ UNCHANGED <<running, patient, backlog, conn, edge, batch, user, inbox, sent, echoed,
                 counter, notes>>

(* The socket does not block: what does not fit is lost. *)
Echo ==
  /\ reading # Nobody /\ user[reading] # "gone"
  /\ LET room == SOCKET - Len(outbox[reading])
     IN  outbox' = [outbox EXCEPT ![reading] =
                      @ \o SubSeq(chunk, 1, Least(room, Len(chunk)))]
  /\ reading' = Nobody /\ chunk' = << >>
  /\ UNCHANGED <<running, patient, backlog, conn, edge, batch, user, inbox, sent, echoed,
                 counter, notes>>

(* The echo to a client that is gone raises SIGPIPE: the server ends. *)
EchoBroken ==
  /\ reading # Nobody /\ user[reading] = "gone"
  /\ running' = FALSE
  /\ conn' = [k \in Connections |-> "closed"] /\ backlog' = << >>
  /\ edge' = {} /\ batch' = {} /\ reading' = Nobody /\ chunk' = << >>
  /\ counter' = 0
  /\ inbox' = [k \in Connections |-> << >>]
  /\ UNCHANGED <<patient, user, outbox, sent, echoed, notes>>

-----------------------------------------------------------------------------
ServerStep ==
  \/ Wait \/ Accept \/ ReadEvent \/ Echo \/ EchoBroken
  \/ \E k \in Connections : Read(k) \/ ReadEnd(k)

ClientStep(k) ==
  \/ Connect(k) \/ (\E n \in 1 .. MaxUnits : Send(k, n)) \/ Receive(k) \/ Leave(k)

Next == ServerStep \/ Notify \/ \E k \in Connections : ClientStep(k)

Spec == Init /\ [][Next]_vars

(* The server's thread runs, and a connected client reads what is there. *)
FairSpec ==
  /\ Spec /\ WF_vars(ServerStep)
  /\ \A k \in Connections : WF_vars(Receive(k))
-----------------------------------------------------------------------------
(* Type correctness of the connections and of epoll's lists. *)
TypeOK ==
  /\ running \in BOOLEAN /\ patient \subseteq Connections
  /\ user \in [Connections -> {"new", "connected", "gone"}]
  /\ backlog \in Seq(Connections)
  /\ conn \in [Connections -> {"none", "open", "closed"}]
  /\ \A k \in Connections : Len(inbox[k]) <= SOCKET /\ Len(outbox[k]) <= SOCKET
  /\ edge \subseteq {k \in Connections : conn[k] = "open"}
  /\ batch \subseteq edge \cup Connections \cup {Listen, Event}
  /\ reading \in Connections \cup {Nobody}
  /\ Len(chunk) <= BUFFER /\ (chunk = << >> <=> reading = Nobody)
  /\ counter \in 0 .. MaxNotes /\ notes \in 0 .. MaxNotes
  /\ sent \in [Connections -> 0 .. MaxUnits]
  /\ echoed \in [Connections -> 0 .. MaxUnits]

(* An edge is reported once: whenever a patient client has sent something  *)
(* or left, its event is still to come or in the batch at hand, never lost *)
(* between the two (epoll_server.c:78-124).                                *)
NothingStranded ==
  \A k \in patient :
    conn[k] = "open" /\ (inbox[k] # << >> \/ user[k] = "gone") => k \in edge \cup batch

(* A client gets back its own units in the order in which it sent them,    *)
(* though a part may be lost at a full socket (epoll_server.c:123).        *)
EchoedInOrder ==
  [][\A k \in Connections : echoed'[k] # echoed[k] =>
       echoed'[k] > echoed[k] /\ echoed'[k] <= sent[k]]_vars

AllPatient == patient = Connections

(* "The server must return it" (epoll_server.c:141): among patient clients *)
(* every unit comes back, again and again.                                 *)
EverythingEchoed ==
  \A k \in Connections : []<>(AllPatient => echoed[k] = sent[k])

(* "The server must report the disconnection" (epoll_server.c:142): among  *)
(* patient clients every connection that is left gets closed.              *)
DisconnectNoticed ==
  \A k \in Connections : []<>(AllPatient /\ user[k] = "gone" => conn[k] = "closed")
=============================================================================
