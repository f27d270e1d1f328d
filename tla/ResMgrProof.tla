----------------------------- MODULE ResMgrProof -----------------------------
(***************************************************************************)
(* The resource manager for every number of clients, every message and     *)
(* every size of the buffers: dev.lock makes the commands of the threads   *)
(* whole commands of the abstract Device, and what client.c is told is the *)
(* answer to its own message.                                              *)
(***************************************************************************)
EXTENDS ResMgr, SequenceTheorems, TLAPS

Commands == {"read", "write", "info", "clear", "setperm", "unknown"}
Responses == {"data", "empty", "denied", "written", "info", "cleared", "set",
              "bad permission", "unknown"}

(* TypeOK as functions, with the types of all variables: the commands are  *)
(* not empty, and the threads of a server that is down are gone.           *)
DeviceTypes ==
  /\ server \in {"up", "down"} /\ path \in BOOLEAN
  /\ mem \in [1 .. BUF_SIZE -> Units \cup {Blank}] /\ size \in 0 .. BUF_SIZE
  /\ busy \in BOOLEAN /\ opened \in BOOLEAN /\ perm \in Rights
  /\ lock \in Clients \cup {Nobody}

ThreadTypes ==
  /\ pc \in [Clients -> Served \cup {None, "backlog", "enter"}]
  /\ up \in [Clients -> Seq(Units)]
  /\ cmd \in [Clients -> Seq(Units)]
  /\ reply \in [Clients -> Responses \cup {None}]
  /\ \A c \in Clients :
       /\ Len(cmd[c]) <= RECV_SIZE
       /\ pc[c] \in Commands \cup {"copy", "grow"} => cmd[c] # << >>
       /\ pc[c] \in {"respond", "read_respond"} => reply[c] \in Responses
       /\ server = "down" => pc[c] = None

ClientTypes ==
  /\ client \in [Clients -> {"out", "connected", "waiting", "answered"}]
  /\ down \in [Clients -> Seq(Responses)]
  /\ asked \in [Clients -> Seq(Units)]
  /\ answer \in [Clients -> Responses \cup {None}]
  /\ \A c \in Clients : Len(down[c]) <= SOCK_SIZE
  /\ sessions \in 0 .. MaxSessions /\ sends \in 0 .. MaxSends

Types == DeviceTypes /\ ThreadTypes /\ ClientTypes

(* A thread holds dev.lock at exactly these steps, and knows what only a   *)
(* holder of the lock can change.                                          *)
Inside == {"read_respond", "copy", "grow"}

DeviceInv ==
  /\ \A c \in Clients : pc[c] \in Inside <=> lock = c
  /\ \A c \in Clients : pc[c] \in {"copy", "grow"} => perm # "ro"
  /\ \A c \in Clients : pc[c] = "grow" =>
       \A k \in 1 .. Accepted(c) : mem[size + k] = cmd[c][1 + k]
  /\ ReadStillTrue

-----------------------------------------------------------------------------
(* What handle_command makes of a portion of the stream.                   *)
LEMMA CommandType == \A portion : Command(portion) \in Commands
BY DEF Command, Commands

(* The number of units that WRITE stores fits in the device.               *)
LEMMA AcceptedFits ==
  ASSUME Types, NEW c \in Clients, cmd[c] # << >>
  PROVE  /\ Accepted(c) \in Nat
         /\ Accepted(c) <= BUF_SIZE - size
         /\ Accepted(c) <= Len(cmd[c]) - 1
<1>1. cmd[c] \in Seq(Units) /\ size \in 0 .. BUF_SIZE
  BY DEF Types, ThreadTypes, DeviceTypes
<1>2. Len(cmd[c]) \in Nat \ {0}
  BY <1>1, EmptySeq
<1> QED
  BY <1>1, <1>2, ResMgrAssumption DEF Accepted, Smaller

(* The portion that recv returns and what it leaves.                       *)
LEMMA Portion ==
  ASSUME NEW s \in Seq(Units), s # << >>, NEW n \in Nat, n = Smaller(Len(s), RECV_SIZE)
  PROVE  /\ SubSeq(s, 1, n) \in Seq(Units) /\ SubSeq(s, n + 1, Len(s)) \in Seq(Units)
         /\ SubSeq(s, 1, n) # << >> /\ Len(SubSeq(s, 1, n)) = n
         /\ n \in 1 .. RECV_SIZE /\ n <= Len(s)
         /\ \A i \in 1 .. n : SubSeq(s, 1, n)[i] = s[i]
<1>1. Len(s) \in Nat \ {0}
  BY EmptySeq
<1>2. n \in 1 .. RECV_SIZE /\ n <= Len(s)
  BY <1>1, ResMgrAssumption DEF Smaller
<1>3. \A i \in 1 .. Len(s) : s[i] \in Units
  BY ElementOfSeq
<1>4. /\ SubSeq(s, 1, n) \in Seq(Units) /\ Len(SubSeq(s, 1, n)) = n
      /\ \A i \in 1 .. n : SubSeq(s, 1, n)[i] = s[i]
  BY <1>1, <1>2, <1>3, SubSeqProperties
<1>5. SubSeq(s, n + 1, Len(s)) \in Seq(Units)
  BY <1>1, <1>2, <1>3, SubSeqProperties
<1> QED
  BY <1>2, <1>4, <1>5, EmptySeq

-----------------------------------------------------------------------------
LEMMA BlankMemory ==
  [i \in 1 .. BUF_SIZE |-> Blank] \in [1 .. BUF_SIZE -> Units \cup {Blank}]
OBVIOUS

LEMMA TypesInit == Init => Types
<1> SUFFICES ASSUME Init PROVE Types
  OBVIOUS
<1>1. << >> \in Seq(Units) /\ << >> \in Seq(Responses) /\ Len(<< >>) = 0
  BY EmptySeq
<1>2. DeviceTypes
  <2>1. path \in BOOLEAN /\ busy \in BOOLEAN /\ opened \in BOOLEAN
    BY DEF Init
  <2>2. mem \in [1 .. BUF_SIZE -> Units \cup {Blank}]
    BY BlankMemory DEF Init
  <2> QED
    BY <2>1, <2>2, ResMgrAssumption DEF Init, DeviceTypes, Rights
<1>3. ThreadTypes
  BY <1>1, ResMgrAssumption DEF Init, ThreadTypes, Commands, None
<1>4. ClientTypes
  BY <1>1, ResMgrAssumption DEF Init, ClientTypes
<1> QED
  BY <1>2, <1>3, <1>4 DEF Types

(* The steps of the clients leave the device alone.                        *)
LEMMA TypesClient ==
  ASSUME Types, NEW c \in Clients,
         ClientStep(c) \/ Accept(c) \/ AcceptFails(c)
  PROVE  Types'
<1> USE ResMgrAssumption
<1>1. << >> \in Seq(Units) /\ << >> \in Seq(Responses) /\ Len(<< >>) = 0
  BY EmptySeq
<1>2. DeviceTypes'
  BY DEF Types, DeviceTypes, ClientStep, Accept, AcceptFails, Connect, Send, Receive,
         ReceiveEof, Close, Hangup, dev, thread, bounds, view
<1>3. CASE Connect(c)
  BY <1>2, <1>3 DEF Types, ThreadTypes, ClientTypes, Connect, dev, view, None, Commands
<1>4. ASSUME NEW m \in Messages, Send(c, m) PROVE Types'
  <2>1. m \in Seq(Units)
    OBVIOUS
  <2>2. up[c] \o m \in Seq(Units)
    BY <2>1, ConcatProperties DEF Types, ThreadTypes
  <2>3. ThreadTypes'
    BY <1>4, <2>2 DEF Types, ThreadTypes, Send, Hangup, thread
  <2>4. ClientTypes'
    <3>1. sends' \in 0 .. MaxSends /\ sessions' = sessions
      BY <1>4 DEF Types, ClientTypes, Send
    <3>2. CASE pc[c] = None
      <4>1. Hangup(c)
        BY <1>4, <3>2 DEF Send
      <4> QED
        BY <1>1, <3>1, <4>1 DEF Types, ClientTypes, Hangup
    <3>3. CASE pc[c] # None
      <4>1. (IF Pipelined THEN asked[c] ELSE m) \in Seq(Units)
        BY <2>1 DEF Types, ClientTypes
      <4>2. asked' \in [Clients -> Seq(Units)]
        BY <1>4, <3>3, <4>1 DEF Types, ClientTypes, Send
      <4> QED
        BY <1>4, <3>1, <3>3, <4>2 DEF Types, ClientTypes, Send
    <3> QED
      BY <3>2, <3>3
  <2> QED
    BY <1>2, <2>3, <2>4 DEF Types
<1>5. CASE Receive(c)
  <2>1. /\ Head(down[c]) \in Responses /\ Tail(down[c]) \in Seq(Responses)
        /\ Len(Tail(down[c])) <= SOCK_SIZE
    <3>1. down[c] \in Seq(Responses) /\ down[c] # << >> /\ Len(down[c]) <= SOCK_SIZE
      BY <1>5 DEF Types, ClientTypes, Receive
    <3> QED
      BY <3>1, HeadTailProperties, LenProperties
  <2>2. ThreadTypes'
    BY <1>5 DEF Types, ThreadTypes, Receive, thread
  <2>3. ClientTypes'
    BY <1>5, <2>1 DEF Types, ClientTypes, Receive, bounds
  <2> QED
    BY <1>2, <2>2, <2>3 DEF Types
<1>6. CASE ReceiveEof(c) \/ Close(c)
  <2>1. ThreadTypes'
    BY <1>6 DEF Types, ThreadTypes, ReceiveEof, Close, thread
  <2>2. Hangup(c) /\ UNCHANGED bounds
    BY <1>6 DEF ReceiveEof, Close
  <2>3. ClientTypes'
    BY <1>1, <2>2 DEF Types, ClientTypes, Hangup, bounds
  <2> QED
    BY <1>2, <2>1, <2>3 DEF Types
<1>7. CASE Accept(c) \/ AcceptFails(c)
  <2>1. ThreadTypes'
    <3>1. CASE Accept(c)
      BY <1>1, <3>1 DEF Types, ThreadTypes, Accept, None, Commands
    <3>2. CASE AcceptFails(c)
      BY <1>1, <3>2 DEF Types, ThreadTypes, AcceptFails, None, Commands
    <3> QED
      BY <1>7, <3>1, <3>2
  <2>2. ClientTypes'
    BY <1>7 DEF Types, ClientTypes, Accept, AcceptFails, bounds, view
  <2> QED
    BY <1>2, <2>1, <2>2 DEF Types
<1> QED
  BY <1>3, <1>4, <1>5, <1>6, <1>7 DEF ClientStep

(* The steps of a thread that take a command or change the device.         *)
LEMMA TypesThread ==
  ASSUME Types, NEW c \in Clients, ThreadStep(c)
  PROVE  Types'
<1> USE ResMgrAssumption
<1>1. << >> \in Seq(Units) /\ << >> \in Seq(Responses) /\ Len(<< >>) = 0
  BY EmptySeq
<1>2. CASE Recv(c)
  <2> DEFINE n == Smaller(Len(up[c]), RECV_SIZE)
             portion == SubSeq(up[c], 1, n)
             rest == SubSeq(up[c], n + 1, Len(up[c]))
             next == Command(portion)
  <2>1. up[c] \in Seq(Units) /\ up[c] # << >>
    BY <1>2 DEF Recv, Types, ThreadTypes
  <2>2. n \in Nat
    BY <2>1, LenProperties DEF Smaller
  <2>3. /\ portion \in Seq(Units) /\ rest \in Seq(Units)
        /\ portion # << >> /\ Len(portion) <= RECV_SIZE
    BY <2>1, <2>2, Portion
  <2>4. next \in Commands
    BY CommandType
  <2>5. /\ pc[c] = "recv"
        /\ up' = [up EXCEPT ![c] = rest]
        /\ cmd' = [cmd EXCEPT ![c] = portion]
        /\ pc' = [pc EXCEPT ![c] = next]
        /\ UNCHANGED <<server, path, dev, client, down, reply, view, bounds>>
    BY <1>2 DEF Recv
  <2> HIDE DEF n, portion, rest, next
  <2>6. ThreadTypes'
    BY <2>3, <2>4, <2>5 DEF Types, ThreadTypes, Commands, Served, None
  <2> QED
    BY <2>5, <2>6 DEF Types, DeviceTypes, ClientTypes, dev, view, bounds
<1>3. CASE Enter(c) \/ RecvEof(c) \/ Leave(c)
  <2>1. ThreadTypes'
    BY <1>3 DEF Types, ThreadTypes, Enter, RecvEof, Leave, Commands, Served, None
  <2> QED
    BY <1>3, <2>1 DEF Types, DeviceTypes, ClientTypes, Enter, RecvEof, Leave, dev, view, bounds
<1>4. CASE Read(c) \/ WriteBegin(c) \/ Info(c) \/ Unknown(c)
  <2> USE DEF Types, ThreadTypes, Respond, Commands, Responses, Served, None
  <2>1. ASSUME Read(c) PROVE ThreadTypes'
    BY <2>1 DEF Read
  <2>2. ASSUME WriteBegin(c) PROVE ThreadTypes'
    BY <2>2 DEF WriteBegin
  <2>3. ASSUME Info(c) \/ Unknown(c) PROVE ThreadTypes'
    BY <2>3 DEF Info, Unknown
  <2>4. ThreadTypes'
    BY <1>4, <2>1, <2>2, <2>3
  <2>5. UNCHANGED <<server, path, mem, size, busy, opened, perm, client, down, asked,
                    answer, bounds>> /\ lock' \in {lock, c}
    BY <1>4 DEF Read, WriteBegin, Info, Unknown, dev, view
  <2>6. DeviceTypes'
    BY <2>5 DEF Types, DeviceTypes
  <2>7. ClientTypes'
    BY <2>5 DEF Types, ClientTypes, bounds
  <2> QED
    BY <2>4, <2>6, <2>7 DEF Types
<1>5. CASE WriteCopy(c)
  <2>1. \A i \in 1 .. BUF_SIZE : i \in size + 1 .. size + Accepted(c)
          => cmd[c][1 + i - size] \in Units
    <3>1. cmd[c] \in Seq(Units) /\ cmd[c] # << >> /\ size \in Nat
      BY <1>5 DEF WriteCopy, Types, ThreadTypes, DeviceTypes
    <3>2. Len(cmd[c]) \in Nat
      BY <3>1, LenProperties
    <3>3. Accepted(c) \in Nat /\ Accepted(c) <= Len(cmd[c]) - 1
      BY <3>1, AcceptedFits
    <3> QED
      BY <3>1, <3>2, <3>3, ElementOfSeq
  <2>2. mem' \in [1 .. BUF_SIZE -> Units \cup {Blank}]
    BY <1>5, <2>1 DEF WriteCopy, Types, DeviceTypes
  <2>3. DeviceTypes'
    BY <1>5, <2>2 DEF WriteCopy, Types, DeviceTypes
  <2>4. ThreadTypes'
    BY <1>5 DEF WriteCopy, Types, ThreadTypes, Served, Commands, None
  <2> QED
    BY <1>5, <2>3, <2>4 DEF WriteCopy, Types, ClientTypes, view, bounds
<1>6. CASE WriteGrow(c)
  <2>1. size + Accepted(c) \in 0 .. BUF_SIZE
    <3>1. cmd[c] # << >> /\ size \in 0 .. BUF_SIZE
      BY <1>6 DEF WriteGrow, Types, ThreadTypes, DeviceTypes
    <3> QED
      BY <3>1, AcceptedFits
  <2>2. DeviceTypes'
    BY <1>6, <2>1 DEF WriteGrow, Types, DeviceTypes
  <2>3. ThreadTypes'
    BY <1>6 DEF WriteGrow, Respond, Types, ThreadTypes, Served, Commands, Responses, None
  <2> QED
    BY <1>6, <2>2, <2>3 DEF WriteGrow, Types, ClientTypes, view, bounds
<1>7. CASE Clear(c) \/ SetPerm(c)
  <2>1. DeviceTypes'
    <3>1. CASE Clear(c)
      BY <3>1 DEF Clear, Types, DeviceTypes
    <3>2. CASE SetPerm(c)
      <4>1. perm' \in Rights
        BY <3>2 DEF SetPerm, Types, DeviceTypes
      <4> QED
        BY <3>2, <4>1 DEF SetPerm, Types, DeviceTypes
    <3> QED
      BY <1>7, <3>1, <3>2
  <2>2. ThreadTypes'
    <3>1. CASE Clear(c)
      BY <3>1 DEF Clear, Respond, Types, ThreadTypes, Served, Commands, Responses, None
    <3>2. CASE SetPerm(c)
      BY <3>2 DEF SetPerm, Respond, Types, ThreadTypes, Served, Commands, Responses, None
    <3> QED
      BY <1>7, <3>1, <3>2
  <2> QED
    BY <1>7, <2>1, <2>2 DEF Clear, SetPerm, Types, ClientTypes, view, bounds
<1>8. CASE Write(c)
  <2>1. Append(down[c], reply[c]) \in Seq(Responses) /\ Len(Append(down[c], reply[c])) <= SOCK_SIZE
    <3>1. down[c] \in Seq(Responses) /\ reply[c] \in Responses /\ Len(down[c]) < SOCK_SIZE
      BY <1>8 DEF Write, Types, ThreadTypes, ClientTypes
    <3> QED
      BY <3>1, AppendProperties, LenProperties
  <2>2. ClientTypes'
    BY <1>8, <2>1 DEF Write, Types, ClientTypes, view, bounds
  <2>3. ThreadTypes'
    BY <1>1, <1>8 DEF Write, Types, ThreadTypes, Served, Commands, None
  <2> QED
    BY <1>8, <2>2, <2>3 DEF Write, Types, DeviceTypes
<1>9. CASE WriteBroken(c)
  <2>1. ThreadTypes'
    BY <1>1, <1>9 DEF WriteBroken, Down, Types, ThreadTypes, Commands, None
  <2> QED
    BY <1>9, <2>1 DEF WriteBroken, Down, Types, DeviceTypes, ClientTypes, view, bounds
<1> QED
  BY <1>2, <1>3, <1>4, <1>5, <1>6, <1>7, <1>8, <1>9 DEF ThreadStep

LEMMA TypesServer ==
  ASSUME Types, Shutdown \/ AcceptBreaks \/ Start
  PROVE  Types'
<1>1. << >> \in Seq(Units)
  BY EmptySeq
<1>2. CASE Shutdown \/ AcceptBreaks
  <2>1. Down /\ path' = FALSE
    BY <1>2 DEF Shutdown, AcceptBreaks
  <2>2. ThreadTypes'
    BY <1>1, <2>1, ResMgrAssumption DEF Down, Types, ThreadTypes, Commands, None
  <2> QED
    BY <2>1, <2>2 DEF Down, Types, DeviceTypes, ClientTypes, view, bounds
<1>3. CASE Start
  <2>1. DeviceTypes'
    <3>1. path' \in BOOLEAN /\ busy' \in BOOLEAN /\ opened' \in BOOLEAN
      BY <1>3 DEF Start, FreshDevice
    <3>2. mem' \in [1 .. BUF_SIZE -> Units \cup {Blank}]
      BY <1>3, BlankMemory DEF Start, FreshDevice
    <3> QED
      BY <1>3, <3>1, <3>2, ResMgrAssumption DEF Start, FreshDevice, DeviceTypes, Rights
  <2> QED
    BY <1>3, <2>1 DEF Start, Types, ThreadTypes, ClientTypes, thread, view, bounds
<1> QED
  BY <1>2, <1>3

LEMMA TypesStep == Types /\ [Next]_vars => Types'
<1>1. Types /\ UNCHANGED vars => Types'
  BY DEF vars, dev, thread, view, bounds, Types, DeviceTypes, ThreadTypes, ClientTypes
<1> QED
  BY <1>1, TypesClient, TypesThread, TypesServer DEF Next

LEMMA TypesHold == Spec => []Types
BY TypesInit, TypesStep, PTL DEF Spec

(* The server, its device, the threads and the clients keep their types.   *)
THEOREM TypeCorrect == Spec => []TypeOK
<1>1. Types => TypeOK
  BY DEF Types, DeviceTypes, ThreadTypes, ClientTypes, TypeOK
<1> QED
  BY <1>1, TypesHold, PTL

-----------------------------------------------------------------------------
LEMMA DeviceInvInit == Init => DeviceInv
<1> SUFFICES ASSUME Init PROVE DeviceInv
  OBVIOUS
<1>1. \A c \in Clients : pc[c] = None /\ lock # c
  BY ResMgrAssumption DEF Init
<1> QED
  BY <1>1 DEF DeviceInv, ReadStillTrue, Inside, None

(* A step that leaves the device alone, and the threads that hold its lock. *)
LEMMA DeviceInvFrame ==
  ASSUME DeviceInv, UNCHANGED dev,
         \A c \in Clients : pc[c] \in Inside \/ pc'[c] \in Inside
           => pc'[c] = pc[c] /\ cmd'[c] = cmd[c] /\ reply'[c] = reply[c]
  PROVE  DeviceInv'
BY DEF DeviceInv, ReadStillTrue, Inside, Accepted, Smaller, dev

(* When no thread has the lock nothing is asked of the device.             *)
LEMMA DeviceInvFree ==
  ASSUME lock' = Nobody, \A c \in Clients : pc'[c] \notin Inside
  PROVE  DeviceInv'
BY ResMgrAssumption DEF DeviceInv, ReadStillTrue, Inside

LEMMA DeviceInvThread ==
  ASSUME Types, Types', DeviceInv, NEW c \in Clients, ThreadStep(c)
  PROVE  DeviceInv'
<1> USE DEF Inside
<1>1. pc \in [Clients -> Served \cup {None, "backlog", "enter"}]
  BY DEF Types, ThreadTypes
<1>2. lock = Nobody => \A t \in Clients : pc[t] \notin Inside
  BY ResMgrAssumption DEF DeviceInv
<1>3. CASE Recv(c)
  <2>1. pc[c] = "recv" /\ UNCHANGED <<dev, reply>>
    BY <1>3 DEF Recv
  <2>2. pc' = [pc EXCEPT ![c] = pc'[c]] /\ cmd' = [cmd EXCEPT ![c] = cmd'[c]]
    BY <1>1, <1>3 DEF Recv, Types, ThreadTypes
  <2>3. pc'[c] \notin Inside
    <3> DEFINE portion == SubSeq(up[c], 1, Smaller(Len(up[c]), RECV_SIZE))
    <3>1. pc'[c] = Command(portion)
      BY <1>1, <1>3 DEF Recv
    <3> QED
      BY <3>1, CommandType DEF Commands
  <2> QED
    BY <1>1, <2>1, <2>2, <2>3, DeviceInvFrame DEF Types, ThreadTypes
<1>4. CASE RecvEof(c) \/ Info(c) \/ Unknown(c)
  <2>1. UNCHANGED <<dev, cmd>>
    BY <1>4 DEF RecvEof, Info, Unknown
  <2>2. \A t \in Clients : pc[t] \in Inside \/ pc'[t] \in Inside
          => pc'[t] = pc[t] /\ reply'[t] = reply[t]
    BY <1>1, <1>4 DEF RecvEof, Info, Unknown, Respond, Types, ThreadTypes
  <2> QED
    BY <2>1, <2>2, DeviceInvFrame
<1>5. CASE Enter(c) \/ Leave(c) \/ Clear(c) \/ SetPerm(c)
  <2>1. lock' = Nobody /\ lock = Nobody
    BY <1>5 DEF Enter, Leave, Clear, SetPerm
  <2>2. \A t \in Clients : pc'[t] \notin Inside
    BY <1>1, <1>2, <1>5, <2>1 DEF Enter, Leave, Clear, SetPerm, Respond, None
  <2> QED
    BY <2>1, <2>2, DeviceInvFree
<1>6. CASE Read(c)
  <2>1. \A t \in Clients : pc[t] \notin Inside
    BY <1>2, <1>6 DEF Read
  <2>2. CASE perm = "wo"
    <3>1. \A t \in Clients : pc'[t] \notin Inside
      BY <1>1, <1>6, <2>1, <2>2 DEF Read, Respond
    <3> QED
      BY <1>6, <2>2, <3>1, DeviceInvFree DEF Read
  <2>3. CASE perm # "wo"
    <3>1. /\ pc' = [pc EXCEPT ![c] = "read_respond"] /\ lock' = c
          /\ reply' = [reply EXCEPT ![c] = IF size > 0 THEN "data" ELSE "empty"]
          /\ size' = size /\ perm' = perm
      BY <1>6, <2>3 DEF Read
    <3> QED
      BY <1>1, <2>1, <2>3, <3>1 DEF DeviceInv, ReadStillTrue, Types, ThreadTypes
  <2> QED
    BY <2>2, <2>3
<1>7. CASE WriteBegin(c)
  <2>1. \A t \in Clients : pc[t] \notin Inside
    BY <1>2, <1>7 DEF WriteBegin
  <2>2. CASE perm = "ro"
    <3>1. \A t \in Clients : pc'[t] \notin Inside
      BY <1>1, <1>7, <2>1, <2>2 DEF WriteBegin, Respond
    <3> QED
      BY <1>7, <2>2, <3>1, DeviceInvFree DEF WriteBegin
  <2>3. CASE perm # "ro"
    <3>1. pc' = [pc EXCEPT ![c] = "copy"] /\ lock' = c /\ perm' = perm
      BY <1>7, <2>3 DEF WriteBegin
    <3> QED
      BY <1>1, <2>1, <2>3, <3>1 DEF DeviceInv, ReadStillTrue
  <2> QED
    BY <2>2, <2>3
<1>8. CASE WriteCopy(c)
  <2>1. lock = c /\ perm # "ro" /\ cmd[c] # << >>
    BY <1>8 DEF WriteCopy, DeviceInv, Types, ThreadTypes
  <2>2. \A t \in Clients \ {c} : pc[t] \notin Inside
    BY <2>1 DEF DeviceInv
  <2>3. pc' = [pc EXCEPT ![c] = "grow"] /\ UNCHANGED <<size, perm, lock, cmd>>
    BY <1>8 DEF WriteCopy
  <2>4. \A k \in 1 .. Accepted(c) : mem'[size + k] = cmd[c][1 + k]
    <3> TAKE k \in 1 .. Accepted(c)
    <3>1. size \in 0 .. BUF_SIZE /\ Accepted(c) \in Nat /\ Accepted(c) <= BUF_SIZE - size
      BY <2>1, AcceptedFits DEF Types, DeviceTypes
    <3>2. /\ size + k \in 1 .. BUF_SIZE /\ size + k \in size + 1 .. size + Accepted(c)
          /\ 1 + (size + k) - size = 1 + k
      BY <3>1, ResMgrAssumption
    <3> QED
      BY <1>8, <3>2 DEF WriteCopy
  <2>5. Accepted(c)' = Accepted(c)
    BY <2>3 DEF Accepted
  <2> QED
    BY <1>1, <2>1, <2>2, <2>3, <2>4, <2>5 DEF DeviceInv, ReadStillTrue
<1>9. CASE WriteGrow(c)
  <2>1. pc[c] = "grow" /\ lock' = Nobody /\ pc' = [pc EXCEPT ![c] = "respond"]
    BY <1>9 DEF WriteGrow, Respond
  <2>2. \A t \in Clients : pc'[t] \notin Inside
    BY <1>1, <2>1 DEF DeviceInv
  <2> QED
    BY <2>1, <2>2, DeviceInvFree
<1>10. CASE Write(c)
  <2>1. pc' = [pc EXCEPT ![c] = "recv"]
    BY <1>10 DEF Write
  <2>2. CASE pc[c] = "read_respond"
    <3>1. lock' = Nobody
      BY <1>10, <2>2 DEF Write
    <3>2. \A t \in Clients : pc'[t] \notin Inside
      BY <1>1, <2>1, <2>2 DEF DeviceInv
    <3> QED
      BY <3>1, <3>2, DeviceInvFree
  <2>3. CASE pc[c] = "respond"
    <3>1. UNCHANGED dev
      BY <1>10, <2>3 DEF Write, dev
    <3>2. \A t \in Clients : pc[t] \in Inside \/ pc'[t] \in Inside
            => pc'[t] = pc[t] /\ cmd'[t] = cmd[t] /\ reply'[t] = reply[t]
      BY <1>1, <1>10, <2>1, <2>3 DEF Write, Types, ThreadTypes
    <3> QED
      BY <3>1, <3>2, DeviceInvFrame
  <2> QED
    BY <1>10, <2>2, <2>3 DEF Write
<1>11. CASE WriteBroken(c)
  <2>1. lock' = Nobody /\ \A t \in Clients : pc'[t] \notin Inside
    BY <1>11 DEF WriteBroken, Down, None
  <2> QED
    BY <2>1, DeviceInvFree
<1> QED
  BY <1>3, <1>4, <1>5, <1>6, <1>7, <1>8, <1>9, <1>10, <1>11 DEF ThreadStep

LEMMA DeviceInvStep == Types /\ Types' /\ DeviceInv /\ [Next]_vars => DeviceInv'
<1> SUFFICES ASSUME Types, Types', DeviceInv, [Next]_vars PROVE DeviceInv'
  OBVIOUS
<1>1. ASSUME NEW c \in Clients, ClientStep(c) \/ Accept(c) \/ AcceptFails(c)
      PROVE  DeviceInv'
  <2>1. UNCHANGED <<dev, cmd, reply>>
    BY <1>1 DEF ClientStep, Accept, AcceptFails, Connect, Send, Receive, ReceiveEof, Close,
                thread
  <2>2. \A t \in Clients : pc[t] \in Inside \/ pc'[t] \in Inside => pc'[t] = pc[t]
    BY <1>1 DEF ClientStep, Accept, AcceptFails, Connect, Send, Receive, ReceiveEof, Close,
                thread, Inside, None, Types, ThreadTypes
  <2> QED
    BY <2>1, <2>2, DeviceInvFrame
<1>2. CASE Shutdown \/ AcceptBreaks
  <2>1. lock' = Nobody /\ \A t \in Clients : pc'[t] \notin Inside
    BY <1>2 DEF Shutdown, AcceptBreaks, Down, Inside, None
  <2> QED
    BY <2>1, DeviceInvFree
<1>3. CASE Start
  <2>1. lock' = Nobody /\ \A t \in Clients : pc'[t] \notin Inside
    BY <1>3 DEF Start, FreshDevice, thread, Inside, None, Types, ThreadTypes
  <2> QED
    BY <2>1, DeviceInvFree
<1>4. CASE UNCHANGED vars
  BY <1>4, DeviceInvFrame DEF vars, thread
<1> QED
  BY <1>1, <1>2, <1>3, <1>4, DeviceInvThread DEF Next

LEMMA DeviceInvHolds == Spec => []DeviceInv
BY DeviceInvInit, DeviceInvStep, TypesHold, PTL DEF Spec

(* What READ found under the lock is still so when its answer goes out.    *)
THEOREM ReadsStayTrue == Spec => []ReadStillTrue
<1>1. DeviceInv => ReadStillTrue
  BY DEF DeviceInv
<1> QED
  BY <1>1, DeviceInvHolds, PTL

-----------------------------------------------------------------------------
(* The first n elements of an array, as a sequence.                        *)
LEMMA Prefix ==
  ASSUME NEW S, NEW m \in Nat, NEW f \in [1 .. m -> S], NEW n \in 0 .. m
  PROVE  /\ SubSeq(f, 1, n) \in Seq(S) /\ Len(SubSeq(f, 1, n)) = n
         /\ \A i \in 1 .. n : SubSeq(f, 1, n)[i] = f[i]
<1>1. \A i \in 1 .. n : f[i] \in S
  OBVIOUS
<1> QED
  BY <1>1, SubSeqProperties

LEMMA PrefixSame ==
  ASSUME NEW S, NEW m \in Nat, NEW f \in [1 .. m -> S], NEW g \in [1 .. m -> S],
         NEW n \in 0 .. m, \A i \in 1 .. n : g[i] = f[i]
  PROVE  SubSeq(g, 1, n) = SubSeq(f, 1, n)
<1>1. /\ SubSeq(f, 1, n) \in Seq(S) /\ Len(SubSeq(f, 1, n)) = n
      /\ \A i \in 1 .. n : SubSeq(f, 1, n)[i] = f[i]
  BY Prefix
<1>2. /\ SubSeq(g, 1, n) \in Seq(S) /\ Len(SubSeq(g, 1, n)) = n
      /\ \A i \in 1 .. n : SubSeq(g, 1, n)[i] = g[i]
  BY Prefix
<1> QED
  BY <1>1, <1>2, SeqEqual

(* What is stored behind the first n elements is appended to them.         *)
LEMMA PrefixGrows ==
  ASSUME NEW S, NEW m \in Nat, NEW f \in [1 .. m -> S], NEW n \in 0 .. m,
         NEW d \in 0 .. m - n, NEW w \in [1 .. d -> S],
         \A k \in 1 .. d : f[n + k] = w[k]
  PROVE  SubSeq(f, 1, n + d) = SubSeq(f, 1, n) \o w
<1> DEFINE s == SubSeq(f, 1, n)
           t == SubSeq(f, 1, n + d)
<1>1. s \in Seq(S) /\ Len(s) = n /\ \A i \in 1 .. n : s[i] = f[i]
  BY Prefix
<1>2. t \in Seq(S) /\ Len(t) = n + d /\ \A i \in 1 .. n + d : t[i] = f[i]
  <2>1. n + d \in 0 .. m
    OBVIOUS
  <2> QED
    BY <2>1, Prefix
<1>3. w \in Seq(S) /\ Len(w) = d
  BY SeqDef
<1> HIDE DEF s, t
<1>4. /\ s \o w \in Seq(S) /\ Len(s \o w) = n + d
      /\ \A i \in 1 .. n + d : (s \o w)[i] = IF i <= n THEN s[i] ELSE w[i - n]
  <2>1. /\ s \o w \in Seq(S) /\ Len(s \o w) = Len(s) + Len(w)
        /\ \A i \in 1 .. Len(s) + Len(w) :
             (s \o w)[i] = IF i <= Len(s) THEN s[i] ELSE w[i - Len(s)]
    <3>1. s \in Seq(S) /\ w \in Seq(S)
      BY <1>1, <1>3
    <3> QED
      BY ONLY <3>1, ConcatProperties
  <2> QED
    BY <1>1, <1>3, <2>1
<1>5. \A i \in 1 .. n + d : (s \o w)[i] = t[i]
  <2> TAKE i \in 1 .. n + d
  <2>1. CASE i <= n
    BY <1>1, <1>2, <1>4, <2>1
  <2>2. CASE ~(i <= n)
    <3>1. i - n \in 1 .. d /\ n + (i - n) = i
      BY <2>2
    <3>2. w[i - n] = f[i]
      BY <3>1
    <3> QED
      BY <1>2, <1>4, <2>2, <3>2
  <2> QED
    BY <2>1, <2>2
<1>6. s \o w = t
  BY <1>2, <1>4, <1>5, SeqEqual
<1> QED
  BY <1>6 DEF s, t

Content == SubSeq(mem, 1, size)

LEMMA ContentKept ==
  ASSUME DeviceTypes, DeviceTypes', size' = size,
         \A i \in 1 .. size : mem'[i] = mem[i]
  PROVE  Content' = Content
<1>1. /\ mem \in [1 .. BUF_SIZE -> Units \cup {Blank}]
      /\ mem' \in [1 .. BUF_SIZE -> Units \cup {Blank}]
      /\ size \in 0 .. BUF_SIZE
  BY DEF DeviceTypes
<1> QED
  BY <1>1, PrefixSame, ResMgrAssumption DEF Content

(* The end of a WRITE: the data that the thread has copied becomes content. *)
LEMMA GrowWrites ==
  ASSUME Types, DeviceInv, NEW c \in Clients, WriteGrow(c)
  PROVE  DeviceView!Write
<1> DEFINE d == Accepted(c)
           w == [k \in 1 .. d |-> cmd[c][1 + k]]
<1>1. /\ mem \in [1 .. BUF_SIZE -> Units \cup {Blank}] /\ size \in 0 .. BUF_SIZE
      /\ cmd[c] \in Seq(Units) /\ cmd[c] # << >>
  BY DEF WriteGrow, Types, DeviceTypes, ThreadTypes
<1>2. d \in 0 .. BUF_SIZE - size /\ d <= Len(cmd[c]) - 1
  BY <1>1, AcceptedFits, ResMgrAssumption
<1>3. perm # "ro" /\ \A k \in 1 .. d : mem[size + k] = cmd[c][1 + k]
  BY DEF WriteGrow, DeviceInv
<1>4. size' = size + d /\ mem' = mem /\ perm' = perm
  BY DEF WriteGrow
<1> HIDE DEF d
<1>5. w \in [1 .. d -> Units]
  <2>1. \A k \in 1 .. d : cmd[c][1 + k] \in Units
    <3> TAKE k \in 1 .. d
    <3>1. Len(cmd[c]) \in Nat
      BY <1>1, LenProperties
    <3>2. 1 + k \in 1 .. Len(cmd[c])
      BY <1>2, <3>1
    <3> QED
      BY <1>1, <3>2, ElementOfSeq
  <2> QED
    BY <2>1
<1>6. \A k \in 1 .. d : mem[size + k] = w[k]
  BY <1>3
<1>7. w \in [1 .. d -> Units \cup {Blank}]
  BY <1>5
<1> HIDE DEF w
<1>8. SubSeq(mem, 1, size + d) = Content \o w
  <2>1. BUF_SIZE \in Nat
    BY ResMgrAssumption
  <2>2. SubSeq(mem, 1, size + d) = SubSeq(mem, 1, size) \o w
    <3> DEFINE U == Units \cup {Blank}
    <3>1. mem \in [1 .. BUF_SIZE -> U] /\ w \in [1 .. d -> U]
      BY <1>1, <1>7
    <3>2. size \in 0 .. BUF_SIZE /\ d \in 0 .. BUF_SIZE - size
      BY <1>1, <1>2
    <3> HIDE DEF U
    <3> QED
      BY ONLY <1>6, <2>1, <3>1, <3>2, PrefixGrows, Z3
  <2> QED
    BY <2>2 DEF Content
<1>9. Len(Content) = size
  BY <1>1, Prefix, ResMgrAssumption DEF Content
<1>10. Content' = Content \o w
  BY <1>4, <1>8 DEF Content
<1>11. perm # "ro" /\ perm' = perm /\ d \in 0 .. BUF_SIZE - Len(Content)
  BY <1>2, <1>3, <1>4, <1>9
<1> QED
  BY <1>5, <1>10, <1>11 DEF DeviceView!Write, Content

LEMMA ImplementsStep ==
  ASSUME Types, Types', DeviceInv, [Next]_vars
  PROVE  [DeviceView!DeviceNext]_(DeviceView!deviceVars)
<1> DEFINE Same == Content' = Content /\ perm' = perm
<1>1. DeviceTypes /\ DeviceTypes'
  BY DEF Types
<1>2. ASSUME UNCHANGED <<mem, size, perm>> PROVE Same
  BY <1>2 DEF Content
<1>3. ASSUME NEW c \in Clients, ClientStep(c) \/ Accept(c) \/ AcceptFails(c) PROVE Same
  BY <1>2, <1>3 DEF ClientStep, Accept, AcceptFails, Connect, Send, Receive, ReceiveEof,
                    Close, dev
<1>4. ASSUME NEW c \in Clients, ThreadStep(c)
      PROVE  Same \/ DeviceView!DeviceNext
  <2>1. CASE \/ Enter(c) \/ Recv(c) \/ RecvEof(c) \/ Leave(c) \/ Read(c) \/ WriteBegin(c)
             \/ Info(c) \/ Unknown(c) \/ Write(c) \/ WriteBroken(c)
    BY <1>2, <2>1 DEF Enter, Recv, RecvEof, Leave, Read, WriteBegin, Info, Unknown, Write,
                      WriteBroken, Down, dev
  <2>2. CASE WriteCopy(c)
    <3>1. size' = size /\ perm' = perm /\ size \in 0 .. BUF_SIZE
      BY <1>1, <2>2 DEF WriteCopy, DeviceTypes
    <3>2. \A i \in 1 .. size : mem'[i] = mem[i]
      <4> TAKE i \in 1 .. size
      <4>1. i \in 1 .. BUF_SIZE /\ i \notin size + 1 .. size + Accepted(c)
        BY <3>1, ResMgrAssumption
      <4> QED
        BY <2>2, <4>1 DEF WriteCopy
    <3> QED
      BY <1>1, <3>1, <3>2, ContentKept
  <2>3. CASE WriteGrow(c)
    BY <2>3, GrowWrites DEF DeviceView!DeviceNext
  <2>4. CASE Clear(c)
    <3>1. CASE perm = "ro"
      BY <1>2, <2>4, <3>1 DEF Clear
    <3>2. CASE perm # "ro"
      <4>1. size' = 0 /\ perm' = perm
        BY <2>4, <3>2 DEF Clear
      <4>2. SubSeq(mem', 1, size') = << >>
        BY <4>1, SubSeqEmpty
      <4> QED
        BY <3>2, <4>1, <4>2 DEF DeviceView!DeviceNext, DeviceView!Erase
    <3> QED
      BY <3>1, <3>2
  <2>5. CASE SetPerm(c)
    <3>1. Content' = Content /\ perm' \in {"rw", "ro", "wo"}
      BY <1>1, <2>5 DEF SetPerm, Content, DeviceTypes, Rights
    <3> QED
      BY <3>1 DEF DeviceView!DeviceNext, DeviceView!SetRight, Content
  <2> QED
    BY <1>4, <2>1, <2>2, <2>3, <2>4, <2>5 DEF ThreadStep
<1>5. ASSUME Shutdown \/ AcceptBreaks PROVE Same
  BY <1>2, <1>5 DEF Shutdown, AcceptBreaks, Down
<1>6. ASSUME Start PROVE DeviceView!DeviceNext
  <2>1. size' = 0 /\ perm' = "rw"
    BY <1>6 DEF Start, FreshDevice
  <2>2. SubSeq(mem', 1, size') = << >>
    BY <2>1, SubSeqEmpty
  <2> QED
    BY <2>1, <2>2 DEF DeviceView!DeviceNext, DeviceView!Restart
<1>7. CASE UNCHANGED vars
  BY <1>2, <1>7 DEF vars, dev, DeviceView!deviceVars, Content
<1> QED
  BY <1>3, <1>4, <1>5, <1>6, <1>7 DEF Next, DeviceView!deviceVars, Content

(* Interleaved commands act on the device like whole commands one after    *)
(* the other, each under the access right of its own moment.               *)
THEOREM ImplementsDevice == Spec => DeviceImplemented
<1>1. Init => DeviceView!DeviceInit
  <2> SUFFICES ASSUME Init PROVE DeviceView!DeviceInit
    OBVIOUS
  <2>1. size = 0 /\ perm = "rw"
    BY DEF Init
  <2>2. SubSeq(mem, 1, size) = << >>
    BY <2>1, SubSeqEmpty
  <2> QED
    BY <2>1, <2>2 DEF DeviceView!DeviceInit
<1> QED
  BY <1>1, ImplementsStep, TypesHold, DeviceInvHolds, PTL
  DEF Spec, DeviceImplemented, DeviceView!DeviceSpec
=============================================================================
