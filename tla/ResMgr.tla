------------------------------- MODULE ResMgr -------------------------------
(***************************************************************************)
(* The resource manager of task1: resmgr.c, a server on a UNIX stream      *)
(* socket with a thread for each connection and one device `dev' shared by *)
(* the threads under dev.lock, and its clients.                            *)
(*                                                                         *)
(* A stream carries units: a command word, an argument, a piece of data.   *)
(* recv returns what has arrived, up to the size of its buffer, whatever   *)
(* messages it came in; handle_command takes one such portion for exactly  *)
(* one command. The commands that touch `dev' briefly are one step, taken  *)
(* while the mutex is free; READ holds it during its write to the socket,  *)
(* WRITE between memcpy and the new size.                                  *)
(***************************************************************************)
EXTENDS Integers, Sequences, FiniteSets

CONSTANTS
  Clients,      (* the connections, at most 8: the backlog of listen       *)
  Data,         (* the units of data a client writes                       *)
  Messages,     (* the messages the clients send                           *)
  BUF_SIZE,     (* DEVICE_BUF_SIZE, 4096 in the code, in units             *)
  RECV_SIZE,    (* sizeof(buf) - 1 in client_thread, in units              *)
  SOCK_SIZE,    (* replies that fit in the socket before write blocks      *)
  Pipelined,    (* FALSE: every client is client.c, one message each;      *)
                (* TRUE: clients as `nc', that send while they wait for a  *)
                (* reply and may leave at any time                         *)
  MaxSessions,  (* bound: connections made, all clients together           *)
  MaxSends,     (* bound: messages sent, all clients together              *)
  Nobody        (* the owner of the free mutex                             *)

Rights == {"rw", "ro", "wo"}
Units == Data \cup Rights \cup {"READ", "WRITE", "INFO", "CLEAR", "SETPERM", "other"}

ASSUME ResMgrAssumption ==
  /\ IsFiniteSet(Clients) /\ Nobody \notin Clients
  /\ Messages \subseteq Seq(Units) /\ << >> \notin Messages
  /\ BUF_SIZE \in Nat \ {0} /\ RECV_SIZE \in Nat \ {0, 1} /\ SOCK_SIZE \in Nat \ {0}
  /\ Pipelined \in BOOLEAN /\ MaxSessions \in Nat /\ MaxSends \in Nat

VARIABLES
  server,                         (* "up" or "down"                        *)
  path,                           (* TRUE while the socket file exists     *)
  mem, size, busy, opened, perm,  (* dev: buffer, size, flags, permissions *)
  lock,                           (* dev.lock: its owner, or Nobody        *)
  client,                         (* what each client is doing             *)
  up, down,                       (* the two directions of each connection *)
  pc, cmd, reply,                 (* the thread of each connection         *)
  asked, answer,                  (* message and response of the latest    *)
                                  (* client.c of each connection           *)
  sessions, sends                 (* used up parts of the two bounds       *)

dev == <<mem, size, busy, opened, perm, lock>>
thread == <<pc, cmd, reply>>
bounds == <<sessions, sends>>
view == <<asked, answer>>
vars == <<server, path, dev, client, up, down, thread, view, bounds>>

Blank == "blank"
None == "none"

FreshDevice ==
  /\ mem' = [i \in 1 .. BUF_SIZE |-> Blank]
  /\ size' = 0 /\ busy' = FALSE /\ opened' = FALSE
  /\ perm' = "rw" /\ lock' = Nobody

Init ==
  /\ server = "up" /\ path = TRUE
  /\ mem = [i \in 1 .. BUF_SIZE |-> Blank]
  /\ size = 0 /\ busy = FALSE /\ opened = FALSE
  /\ perm = "rw" /\ lock = Nobody
  /\ client = [c \in Clients |-> "out"]
  /\ up = [c \in Clients |-> << >>] /\ down = [c \in Clients |-> << >>]
  /\ pc = [c \in Clients |-> None]
  /\ cmd = [c \in Clients |-> << >>] /\ reply = [c \in Clients |-> None]
  /\ asked = [c \in Clients |-> << >>] /\ answer = [c \in Clients |-> None]
  /\ sessions = 0 /\ sends = 0

Smaller(m, n) == IF m < n THEN m ELSE n

-----------------------------------------------------------------------------
(* The clients. A connection waits in the backlog until it is accepted.    *)
Connect(c) ==
  /\ client[c] = "out" /\ pc[c] = None
  /\ sessions < MaxSessions
  /\ server = "up" /\ path
  /\ client' = [client EXCEPT ![c] = "connected"]
  /\ pc' = [pc EXCEPT ![c] = "backlog"]
  /\ asked' = [asked EXCEPT ![c] = << >>]
  /\ sessions' = sessions + 1
  /\ UNCHANGED <<server, path, dev, up, down, cmd, reply, answer, sends>>

(* The client closes its end; what it has not read is lost. What it asked  *)
(* is remembered, because the server may still be working on it.           *)
Hangup(c) ==
  /\ client' = [client EXCEPT ![c] = "out"]
  /\ down' = [down EXCEPT ![c] = << >>]
  /\ answer' = [answer EXCEPT ![c] = None]
  /\ UNCHANGED asked

(* A send to a connection that the server has closed ends the client. *)
Send(c, m) ==
  /\ \/ client[c] = "connected"
     \/ client[c] = "waiting" /\ Pipelined
  /\ sends < MaxSends
  /\ sends' = sends + 1
  /\ IF pc[c] = None
       THEN Hangup(c) /\ UNCHANGED up
       ELSE /\ client' = [client EXCEPT ![c] = "waiting"]
            /\ up' = [up EXCEPT ![c] = @ \o m]
            /\ asked' = [asked EXCEPT ![c] = IF Pipelined THEN @ ELSE m]
            /\ UNCHANGED <<down, answer>>
  /\ UNCHANGED <<server, path, dev, thread, sessions>>

(* client.c receives once; it does not come back for more. *)
Receive(c) ==
  /\ client[c] = "waiting"
  /\ down[c] # << >>
  /\ answer' = [answer EXCEPT ![c] = IF Pipelined THEN @ ELSE Head(down[c])]
  /\ down' = [down EXCEPT ![c] = Tail(@)]
  /\ client' = [client EXCEPT ![c] = IF Pipelined THEN "waiting" ELSE "answered"]
  /\ UNCHANGED <<server, path, dev, up, thread, asked, bounds>>

ReceiveEof(c) ==
  /\ client[c] = "waiting"
  /\ down[c] = << >> /\ pc[c] = None
  /\ Hangup(c)
  /\ UNCHANGED <<server, path, dev, up, thread, bounds>>

Close(c) ==
  /\ \/ client[c] = "answered"
     \/ client[c] \in {"connected", "waiting"} /\ Pipelined
  /\ Hangup(c)
  /\ UNCHANGED <<server, path, dev, up, thread, bounds>>

-----------------------------------------------------------------------------
(* The accept loop of main. Without a thread the connection is closed. An  *)
(* accept that fails with anything but EINTR is AcceptBreaks, below.       *)
Accept(c) ==
  /\ pc[c] = "backlog"
  /\ pc' = [pc EXCEPT ![c] = "enter"]
  /\ UNCHANGED <<server, path, dev, client, up, down, cmd, reply, view, bounds>>

AcceptFails(c) ==
  /\ pc[c] = "backlog"
  /\ pc' = [pc EXCEPT ![c] = None]
  /\ up' = [up EXCEPT ![c] = << >>]
  /\ UNCHANGED <<server, path, dev, client, down, cmd, reply, view, bounds>>

(* dev.flags |= DEV_OPEN | DEV_BUSY *)
Enter(c) ==
  /\ pc[c] = "enter" /\ lock = Nobody
  /\ busy' = TRUE /\ opened' = TRUE
  /\ pc' = [pc EXCEPT ![c] = "recv"]
  /\ UNCHANGED <<server, path, mem, size, perm, lock, client, up, down, cmd,
                 reply, view, bounds>>

(* The comparisons of handle_command, in their order: READ, WRITE and      *)
(* SETPERM are recognised by their first word, INFO and CLEAR only when    *)
(* nothing follows.                                                        *)
Command(portion) ==
  CASE portion[1] = "READ" -> "read"
    [] portion[1] = "WRITE" -> "write"
    [] portion = <<"INFO">> -> "info"
    [] portion = <<"CLEAR">> -> "clear"
    [] portion[1] = "SETPERM" -> "setperm"
    [] OTHER -> "unknown"

Recv(c) ==
  /\ pc[c] = "recv" /\ up[c] # << >>
  /\ LET n == Smaller(Len(up[c]), RECV_SIZE)
         portion == SubSeq(up[c], 1, n)
     IN  /\ up' = [up EXCEPT ![c] = SubSeq(@, n + 1, Len(@))]
         /\ cmd' = [cmd EXCEPT ![c] = portion]
         /\ pc' = [pc EXCEPT ![c] = Command(portion)]
  /\ UNCHANGED <<server, path, dev, client, down, reply, view, bounds>>

RecvEof(c) ==
  /\ pc[c] = "recv" /\ up[c] = << >> /\ client[c] = "out"
  /\ pc' = [pc EXCEPT ![c] = "leave"]
  /\ UNCHANGED <<server, path, dev, client, up, down, cmd, reply, view, bounds>>

(* dev.flags &= ~DEV_BUSY, whoever else is connected; then close. *)
Leave(c) ==
  /\ pc[c] = "leave" /\ lock = Nobody
  /\ busy' = FALSE
  /\ pc' = [pc EXCEPT ![c] = None]
  /\ UNCHANGED <<server, path, mem, size, opened, perm, lock, client, up, down,
                 cmd, reply, view, bounds>>

-----------------------------------------------------------------------------
(* handle_command. Respond: the mutex is free again, a reply is to be sent. *)
Respond(c, text) ==
  /\ reply' = [reply EXCEPT ![c] = text]
  /\ pc' = [pc EXCEPT ![c] = "respond"]

(* Mutant: the refusal returns without unlocking. *)
ReadDeniedLocked(c) ==
  /\ pc[c] = "read" /\ lock = Nobody
  /\ IF perm = "wo"
       THEN Respond(c, "denied") /\ lock' = c
       ELSE /\ lock' = c
            /\ reply' = [reply EXCEPT ![c] = IF size > 0 THEN "data" ELSE "empty"]
            /\ pc' = [pc EXCEPT ![c] = "read_respond"]
  /\ UNCHANGED <<server, path, mem, size, busy, opened, perm, client, up, down,
                 cmd, view, bounds>>

(* Mutant: the mutex is given back before the write to the socket. *)
ReadUnlocked(c) ==
  /\ pc[c] = "read" /\ lock = Nobody
  /\ IF perm = "wo"
       THEN Respond(c, "denied") /\ UNCHANGED lock
       ELSE /\ UNCHANGED lock
            /\ reply' = [reply EXCEPT ![c] = IF size > 0 THEN "data" ELSE "empty"]
            /\ pc' = [pc EXCEPT ![c] = "read_respond"]
  /\ UNCHANGED <<server, path, mem, size, busy, opened, perm, client, up, down,
                 cmd, view, bounds>>

Read(c) ==
  /\ pc[c] = "read" /\ lock = Nobody
  /\ IF perm = "wo"
       THEN Respond(c, "denied") /\ UNCHANGED lock
       ELSE /\ lock' = c
            /\ reply' = [reply EXCEPT ![c] = IF size > 0 THEN "data" ELSE "empty"]
            /\ pc' = [pc EXCEPT ![c] = "read_respond"]
  /\ UNCHANGED <<server, path, mem, size, busy, opened, perm, client, up, down,
                 cmd, view, bounds>>

(* Mutant: the access right is not looked at. *)
WriteBeginUnchecked(c) ==
  /\ pc[c] = "write" /\ lock = Nobody
  /\ IF FALSE
       THEN Respond(c, "denied") /\ UNCHANGED lock
       ELSE /\ lock' = c
            /\ pc' = [pc EXCEPT ![c] = "copy"]
            /\ UNCHANGED reply
  /\ UNCHANGED <<server, path, mem, size, busy, opened, perm, client, up, down,
                 cmd, view, bounds>>

(* Mutant: the mutex is not taken. *)
WriteBeginUnlocked(c) ==
  /\ pc[c] = "write" /\ lock = Nobody
  /\ IF perm = "ro"
       THEN Respond(c, "denied") /\ UNCHANGED lock
       ELSE /\ UNCHANGED lock
            /\ pc' = [pc EXCEPT ![c] = "copy"]
            /\ UNCHANGED reply
  /\ UNCHANGED <<server, path, mem, size, busy, opened, perm, client, up, down,
                 cmd, view, bounds>>

WriteBegin(c) ==
  /\ pc[c] = "write" /\ lock = Nobody
  /\ IF perm = "ro"
       THEN Respond(c, "denied") /\ UNCHANGED lock
       ELSE /\ lock' = c
            /\ pc' = [pc EXCEPT ![c] = "copy"]
            /\ UNCHANGED reply
  /\ UNCHANGED <<server, path, mem, size, busy, opened, perm, client, up, down,
                 cmd, view, bounds>>

(* Mutant: the data is not cut to what is free. *)
AcceptedUncut(c) == Len(cmd[c]) - 1

(* The number of units that WRITE stores: its data, cut to what is free. *)
Accepted(c) == Smaller(Len(cmd[c]) - 1, BUF_SIZE - size)

WriteCopy(c) ==
  /\ pc[c] = "copy"
  /\ mem' = [i \in 1 .. BUF_SIZE |->
               IF i \in size + 1 .. size + Accepted(c) THEN cmd[c][1 + i - size]
                                                       ELSE mem[i]]
  /\ pc' = [pc EXCEPT ![c] = "grow"]
  /\ UNCHANGED <<server, path, size, busy, opened, perm, lock, client, up, down,
                 cmd, reply, view, bounds>>

WriteGrow(c) ==
  /\ pc[c] = "grow"
  /\ size' = size + Accepted(c)
  /\ lock' = Nobody
  /\ Respond(c, "written")
  /\ UNCHANGED <<server, path, mem, busy, opened, perm, client, up, down, cmd,
                 view, bounds>>

Info(c) ==
  /\ pc[c] = "info" /\ lock = Nobody
  /\ Respond(c, "info")
  /\ UNCHANGED <<server, path, dev, client, up, down, cmd, view, bounds>>

(* Mutant: the refusal goes on to the next comparisons. *)
ClearFallsThrough(c) ==
  /\ pc[c] = "clear" /\ lock = Nobody
  /\ IF perm = "ro"
       THEN pc' = [pc EXCEPT ![c] = "unknown"] /\ UNCHANGED <<size, reply>>
       ELSE size' = 0 /\ Respond(c, "cleared")
  /\ UNCHANGED <<server, path, mem, busy, opened, perm, lock, client, up, down,
                 cmd, view, bounds>>

Clear(c) ==
  /\ pc[c] = "clear" /\ lock = Nobody
  /\ IF perm = "ro"
       THEN Respond(c, "denied") /\ UNCHANGED size
       ELSE size' = 0 /\ Respond(c, "cleared")
  /\ UNCHANGED <<server, path, mem, busy, opened, perm, lock, client, up, down,
                 cmd, view, bounds>>

SetPerm(c) ==
  /\ pc[c] = "setperm" /\ lock = Nobody
  /\ IF Len(cmd[c]) > 1 /\ cmd[c][2] \in Rights
       THEN perm' = cmd[c][2] /\ Respond(c, "set")
       ELSE Respond(c, "bad permission") /\ UNCHANGED perm
  /\ UNCHANGED <<server, path, mem, size, busy, opened, lock, client, up, down,
                 cmd, view, bounds>>

Unknown(c) ==
  /\ pc[c] = "unknown"
  /\ Respond(c, "unknown")
  /\ UNCHANGED <<server, path, dev, client, up, down, cmd, view, bounds>>

-----------------------------------------------------------------------------
(* The end of the server process closes every connection. *)
Down ==
  /\ server' = "down"
  /\ pc' = [c \in Clients |-> None]
  /\ cmd' = [c \in Clients |-> << >>] /\ reply' = [c \in Clients |-> None]
  /\ up' = [c \in Clients |-> << >>]
  /\ lock' = Nobody
  /\ UNCHANGED <<mem, size, busy, opened, perm, client, down, view, bounds>>

(* Mutant: a missing return, the last line of handle_command is reached. *)
WriteThenUnknown(c) ==
  /\ pc[c] \in {"respond", "read_respond"}
  /\ client[c] # "out"
  /\ Len(down[c]) < SOCK_SIZE
  /\ down' = [down EXCEPT ![c] = Append(@, reply[c])]
  /\ pc' = [pc EXCEPT ![c] = IF reply[c] = "unknown" THEN "recv" ELSE "unknown"]
  /\ cmd' = [cmd EXCEPT ![c] = << >>] /\ reply' = [reply EXCEPT ![c] = None]
  /\ lock' = IF pc[c] = "read_respond" THEN Nobody ELSE lock
  /\ UNCHANGED <<server, path, mem, size, busy, opened, perm, client, up, view,
                 bounds>>

(* write(fd, ...) of the reply, under the mutex in READ. It blocks while   *)
(* the socket is full; to a client that is gone it raises SIGPIPE, which   *)
(* is not ignored: the process ends and leaves its socket file behind.     *)
Write(c) ==
  /\ pc[c] \in {"respond", "read_respond"}
  /\ client[c] # "out"
  /\ Len(down[c]) < SOCK_SIZE
  /\ down' = [down EXCEPT ![c] = Append(@, reply[c])]
  /\ pc' = [pc EXCEPT ![c] = "recv"]
  /\ cmd' = [cmd EXCEPT ![c] = << >>] /\ reply' = [reply EXCEPT ![c] = None]
  /\ lock' = IF pc[c] = "read_respond" THEN Nobody ELSE lock
  /\ UNCHANGED <<server, path, mem, size, busy, opened, perm, client, up, view,
                 bounds>>

WriteBroken(c) ==
  /\ pc[c] \in {"respond", "read_respond"}
  /\ client[c] = "out"
  /\ Down
  /\ UNCHANGED path

(* SIGINT or SIGTERM: on_signal removes the socket file and ends. *)
Shutdown ==
  /\ server = "up"
  /\ Down
  /\ path' = FALSE

(* accept fails with anything but EINTR: main leaves its loop, removes the *)
(* socket file and returns, whatever its threads are doing.                *)
AcceptBreaks ==
  /\ server = "up"
  /\ Down
  /\ path' = FALSE

(* main: the socket file of an earlier run is removed and made anew. *)
Start ==
  /\ server = "down"
  /\ server' = "up" /\ path' = TRUE
  /\ FreshDevice
  /\ UNCHANGED <<client, up, down, thread, view, bounds>>

-----------------------------------------------------------------------------
ClientStep(c) ==
  \/ Connect(c) \/ (\E m \in Messages : Send(c, m))
  \/ Receive(c) \/ ReceiveEof(c) \/ Close(c)

ThreadStep(c) ==
  \/ Enter(c) \/ Recv(c) \/ RecvEof(c) \/ Leave(c)
  \/ Read(c) \/ WriteBegin(c) \/ WriteCopy(c) \/ WriteGrow(c)
  \/ Info(c) \/ Clear(c) \/ SetPerm(c) \/ Unknown(c)
  \/ Write(c) \/ WriteBroken(c)

Next ==
  \/ \E c \in Clients :
       ClientStep(c) \/ Accept(c) \/ AcceptFails(c) \/ ThreadStep(c)
  \/ Shutdown \/ AcceptBreaks \/ Start

Spec == Init /\ [][Next]_vars

(* Threads that can run do so, and main accepts. The mutex is not assumed  *)
(* to be fair. A client of the kind of client.c waits in recv for nothing  *)
(* but its reply; one of the kind of nc need not read at all.              *)
FairSpec ==
  /\ Spec
  /\ \A c \in Clients :
       /\ WF_vars(ThreadStep(c)) /\ WF_vars(Accept(c) \/ AcceptFails(c))
       /\ (Pipelined \/ WF_vars(Receive(c) \/ ReceiveEof(c) \/ Close(c)))
-----------------------------------------------------------------------------
Served == {"recv", "leave", "read", "write", "info", "clear", "setperm", "unknown",
           "read_respond", "copy", "grow", "respond"}

(* Type correctness of the server, its device, the threads and the clients. *)
TypeOK ==
  /\ server \in {"up", "down"} /\ path \in BOOLEAN
  /\ mem \in [1 .. BUF_SIZE -> Units \cup {Blank}] /\ size \in 0 .. BUF_SIZE
  /\ busy \in BOOLEAN /\ opened \in BOOLEAN /\ perm \in Rights
  /\ lock \in Clients \cup {Nobody}
  /\ client \in [Clients -> {"out", "connected", "waiting", "answered"}]
  /\ pc \in [Clients -> Served \cup {None, "backlog", "enter"}]
  /\ \A c \in Clients :
       /\ up[c] \in Seq(Units) /\ cmd[c] \in Seq(Units) /\ Len(cmd[c]) <= RECV_SIZE
       /\ Len(down[c]) <= SOCK_SIZE
  /\ sessions \in 0 .. MaxSessions /\ sends \in 0 .. MaxSends

(* Interleaved commands of several clients act on the device like whole    *)
(* commands one after the other, each checked against the access right of  *)
(* its own moment: no client sees or leaves half a WRITE (resmgr.c:174-190 *)
(* with its two steps), nothing is stored beyond DEVICE_BUF_SIZE, and a    *)
(* read-only device keeps its content.                                     *)
DeviceView == INSTANCE Device WITH
  Capacity <- BUF_SIZE, content <- SubSeq(mem, 1, size), right <- perm
DeviceImplemented == DeviceView!DeviceSpec

(* What READ found is still so when the answer goes out, however long the  *)
(* write to the socket takes: the device has not become write-only, and it *)
(* has not been emptied or filled (resmgr.c:159-170).                      *)
ReadStillTrue ==
  \A c \in Clients : pc[c] = "read_respond" =>
    /\ perm # "wo"
    /\ reply[c] = IF size > 0 THEN "data" ELSE "empty"

(* "Mark the device as busy" (resmgr.c:128): it is, while a client is      *)
(* being served.                                                           *)
BusyWhileServed == \A c \in Clients : pc[c] \in Served \ {"leave"} => busy

AnswersTo(m) ==
  CASE m[1] = "READ" -> {"data", "empty", "denied"}
    [] m[1] = "WRITE" -> {"written", "denied"}
    [] m = <<"INFO">> -> {"info"}
    [] m = <<"CLEAR">> -> {"cleared", "denied"}
    [] m[1] = "SETPERM" -> {"set", "bad permission"}
    [] OTHER -> {"unknown"}

(* What client.c prints as the response is an answer to its own message.   *)
OwnAnswer ==
  \A c \in Clients : client[c] = "answered" => answer[c] \in AnswersTo(asked[c])

(* client.c with a message that is not empty never hangs in recv: it is    *)
(* answered, or the server closes.                                         *)
ClientServed ==
  \A c \in Clients : client[c] = "waiting" ~> client[c] # "waiting"

(* The server ends by on_signal or when its accept loop does, and removes  *)
(* the socket file in both cases (resmgr.c:117-120, 257-265): no client    *)
(* ends it, whatever it sends and whenever it disconnects (README.md:23    *)
(* asks for tests of disconnections).                                      *)
NoClientEndsServer == [][server = "up" /\ server' = "down" => path' = FALSE]_vars

(* A client.c that runs to its end takes the server along only if its      *)
(* message was longer than one recv of the server: then the server answers *)
(* the next portion to a client that has left after the first reply. Every *)
(* other client.c leaves nothing unanswered and nothing to answer, and a   *)
(* reply is never written to a connection that such a client has closed    *)
(* (resmgr.c:133-141, client.c:35-50).                                     *)
OnlyCutMessagesEndServer ==
  [][server = "up" /\ server' = "down" /\ path' =>
       \E c \in Clients : /\ client[c] = "out"
                          /\ pc[c] \in {"respond", "read_respond"}
                          /\ Len(asked[c]) > RECV_SIZE]_vars
=============================================================================
