-------------------------- MODULE ResMgrClientProof --------------------------
(***************************************************************************)
(* The conversations of client.c, which sends one message and receives     *)
(* once, for every number of clients and every set of messages: the first  *)
(* reply on a connection answers the message that was sent on it; and the  *)
(* server writes to a client that is gone only if that client's message    *)
(* was longer than one recv of the server.                                 *)
(***************************************************************************)
EXTENDS ResMgrProof

(* What a connection holds, from the state of its client.                  *)
Waiting(c) ==
  /\ asked[c] # << >>
  /\ down[c] # << >> => Head(down[c]) \in AnswersTo(asked[c])
  /\ down[c] = << >> =>
       /\ pc[c] \in {"backlog", "enter", "recv"} => up[c] = asked[c]
       /\ pc[c] \in Commands => pc[c] = Command(asked[c])
       /\ pc[c] \in {"copy", "grow"} => Command(asked[c]) = "write"
       /\ pc[c] = "read_respond" => Command(asked[c]) = "read"
       /\ pc[c] \in {"respond", "read_respond"} => reply[c] \in AnswersTo(asked[c])

Talk(c) ==
  /\ pc[c] = None => up[c] = << >>
  /\ pc[c] = "leave" => client[c] = "out" /\ up[c] = << >>
  /\ client[c] = "out" => down[c] = << >>
  /\ client[c] = "connected" =>
       pc[c] \in {None, "backlog", "enter", "recv"} /\ up[c] = << >> /\ down[c] = << >>
  /\ client[c] = "waiting" => Waiting(c)
  /\ client[c] = "answered" => answer[c] \in AnswersTo(asked[c])

TalkInv == ~Pipelined => \A c \in Clients : Talk(c)

-----------------------------------------------------------------------------
LEMMA AnswersByCommand ==
  ASSUME NEW m
  PROVE  /\ Command(m) = "read" => {"data", "empty", "denied"} \subseteq AnswersTo(m)
         /\ Command(m) = "write" => {"written", "denied"} \subseteq AnswersTo(m)
         /\ Command(m) = "info" => "info" \in AnswersTo(m)
         /\ Command(m) = "clear" => {"cleared", "denied"} \subseteq AnswersTo(m)
         /\ Command(m) = "setperm" => {"set", "bad permission"} \subseteq AnswersTo(m)
         /\ Command(m) = "unknown" => "unknown" \in AnswersTo(m)
BY DEF Command, AnswersTo

(* A portion that is not the whole message is taken for the same command:  *)
(* the first word is there, and so is a second one if there is any.        *)
LEMMA PortionCommand ==
  ASSUME NEW s \in Seq(Units), s # << >>
  PROVE  Command(SubSeq(s, 1, Smaller(Len(s), RECV_SIZE))) = Command(s)
<1> DEFINE n == Smaller(Len(s), RECV_SIZE)
           p == SubSeq(s, 1, n)
<1>1. Len(s) \in Nat \ {0}
  BY EmptySeq
<1>2. n \in Nat
  BY <1>1, ResMgrAssumption DEF Smaller
<1>3. /\ p # << >> /\ p \in Seq(Units) /\ Len(p) = n /\ n \in 1 .. RECV_SIZE
      /\ \A i \in 1 .. n : p[i] = s[i]
  BY <1>2, Portion
<1>4. p[1] = s[1]
  BY <1>3
<1>5. CASE Len(s) = 1
  <2>1. n = Len(s)
    BY <1>5, ResMgrAssumption DEF Smaller
  <2> QED
    BY <2>1, SubSeqFull
<1>6. CASE Len(s) # 1
  <2>1. Len(p) # 1
    BY <1>1, <1>3, <1>6, ResMgrAssumption DEF Smaller
  <2>2. \A x : Len(<<x>>) = 1
    OBVIOUS
  <2>3. /\ p # <<"INFO">> /\ p # <<"CLEAR">>
        /\ s # <<"INFO">> /\ s # <<"CLEAR">>
    BY <1>6, <2>1, <2>2
  <2> HIDE DEF p
  <2>4. Command(p) = Command(s)
    BY <1>4, <2>3 DEF Command
  <2> QED
    BY <2>4 DEF p
<1> QED
  BY <1>5, <1>6

LEMMA TalkInit == Init => TalkInv
BY DEF Init, TalkInv, Talk, None

LEMMA TalkFrame ==
  ASSUME NEW t \in Clients, Talk(t),
         client'[t] = client[t], up'[t] = up[t], down'[t] = down[t],
         pc'[t] = pc[t], reply'[t] = reply[t], asked'[t] = asked[t], answer'[t] = answer[t]
  PROVE  Talk(t)'
BY DEF Talk, Waiting

LEMMA TalkClient ==
  ASSUME Types, ~Pipelined, TalkInv, NEW c \in Clients,
         ClientStep(c) \/ Accept(c) \/ AcceptFails(c)
  PROVE  TalkInv'
<1> USE DEF Types, ThreadTypes, ClientTypes
<1>1. Talk(c)
  BY DEF TalkInv
<1>2. \A t \in Clients \ {c} : Talk(t)'
  <2> SUFFICES ASSUME NEW t \in Clients \ {c} PROVE Talk(t)'
    OBVIOUS
  <2>1. Talk(t)
    BY DEF TalkInv
  <2>2. /\ client'[t] = client[t] /\ up'[t] = up[t] /\ down'[t] = down[t]
        /\ pc'[t] = pc[t] /\ reply'[t] = reply[t] /\ asked'[t] = asked[t]
        /\ answer'[t] = answer[t]
    BY DEF ClientStep, Accept, AcceptFails, Connect, Send, Receive, ReceiveEof, Close,
           Hangup, thread, view
  <2> QED
    BY <2>1, <2>2, TalkFrame
<1>3. ASSUME Hangup(c), pc'[c] = pc[c], up'[c] = up[c] PROVE Talk(c)'
  BY <1>1, <1>3 DEF Talk, Hangup
<1>4. ASSUME Connect(c) PROVE Talk(c)'
  BY <1>1, <1>4 DEF Connect, Talk, None
<1>5. ASSUME NEW m \in Messages, Send(c, m) PROVE Talk(c)'
  <2>1. m \in Seq(Units) /\ m # << >> /\ client[c] = "connected"
    BY <1>5, ResMgrAssumption DEF Send
  <2>2. CASE pc[c] = None
    BY <1>3, <1>5, <2>2 DEF Send, thread
  <2>3. CASE pc[c] # None
    <3>1. up[c] = << >> /\ down[c] = << >> /\ pc[c] \in {"backlog", "enter", "recv"}
      BY <1>1, <2>1, <2>3 DEF Talk
    <3>2. up'[c] = m
      BY <1>5, <2>1, <2>3, <3>1, ConcatEmptySeq DEF Send
    <3>3. asked'[c] = m
      BY <1>5, <2>3 DEF Send
    <3>4. pc'[c] = pc[c] /\ client'[c] = "waiting" /\ down'[c] = << >>
      BY <1>5, <2>3, <3>1 DEF Send, thread
    <3> QED
      BY <2>1, <3>1, <3>2, <3>3, <3>4 DEF Talk, Waiting, Commands, None
  <2> QED
    BY <2>2, <2>3
<1>6. ASSUME Receive(c) PROVE Talk(c)'
  <2>1. /\ client[c] = "waiting" /\ client'[c] = "answered" /\ down[c] # << >>
        /\ answer'[c] = Head(down[c]) /\ asked'[c] = asked[c]
        /\ pc'[c] = pc[c] /\ up'[c] = up[c]
    BY <1>6 DEF Receive, thread
  <2> QED
    BY <1>1, <2>1 DEF Talk, Waiting
<1>7. ASSUME ReceiveEof(c) \/ Close(c) PROVE Talk(c)'
  BY <1>3, <1>7 DEF ReceiveEof, Close, thread
<1>8. ASSUME Accept(c) PROVE Talk(c)'
  BY <1>1, <1>8 DEF Accept, Talk, Waiting, Commands, None, view
<1>9. ASSUME AcceptFails(c) PROVE Talk(c)'
  BY <1>1, <1>9 DEF AcceptFails, Talk, Waiting, Commands, None, view
<1>10. Talk(c)'
  BY <1>4, <1>5, <1>6, <1>7, <1>8, <1>9 DEF ClientStep
<1> QED
  BY <1>2, <1>10 DEF TalkInv

(* Down clears the sides of the threads; the clients keep what they have.  *)
LEMMA TalkDown ==
  ASSUME Types, TalkInv, ~Pipelined, Down
  PROVE  TalkInv'
<1> SUFFICES ASSUME NEW t \in Clients PROVE Talk(t)'
  BY DEF TalkInv
<1>1. Talk(t)
  BY DEF TalkInv
<1>2. /\ client' = client /\ down' = down /\ asked' = asked /\ answer' = answer
      /\ pc'[t] = None /\ up'[t] = << >>
  BY DEF Down, view
<1> QED
  BY <1>1, <1>2 DEF Talk, Waiting, Commands, None

LEMMA TalkThread ==
  ASSUME Types, ~Pipelined, TalkInv, NEW c \in Clients, ThreadStep(c)
  PROVE  TalkInv'
<1> USE DEF Types, ThreadTypes, ClientTypes
<1>1. Talk(c)
  BY DEF TalkInv
<1>2. CASE WriteBroken(c)
  BY <1>2, TalkDown DEF WriteBroken
<1>3. CASE ~WriteBroken(c)
  <2>1. \A t \in Clients \ {c} : Talk(t)'
    <3> SUFFICES ASSUME NEW t \in Clients \ {c} PROVE Talk(t)'
      OBVIOUS
    <3>1. Talk(t)
      BY DEF TalkInv
    <3>2. /\ client'[t] = client[t] /\ up'[t] = up[t] /\ down'[t] = down[t]
          /\ pc'[t] = pc[t] /\ reply'[t] = reply[t] /\ asked'[t] = asked[t]
          /\ answer'[t] = answer[t]
      <4>1. CASE Recv(c)
        BY <4>1 DEF Recv, view
      <4>2. CASE ~Recv(c)
        BY <1>3, <4>2 DEF ThreadStep, Enter, RecvEof, Leave, Read, WriteBegin, WriteCopy,
          WriteGrow, Info, Clear, SetPerm, Unknown, Write, Respond, view
      <4> QED
        BY <4>1, <4>2
    <3> QED
      BY <3>1, <3>2, TalkFrame
  <2>2. ASSUME Enter(c) \/ RecvEof(c) \/ Leave(c) PROVE Talk(c)'
    BY <1>1, <2>2 DEF Enter, RecvEof, Leave, Talk, Waiting, Commands, None, view
  <2>3. ASSUME Recv(c) PROVE Talk(c)'
    <3>1. /\ pc[c] = "recv" /\ up[c] # << >> /\ up[c] \in Seq(Units)
          /\ client' = client /\ down' = down /\ asked' = asked /\ answer' = answer
      BY <2>3 DEF Recv, view
    <3>2. pc'[c] = Command(up[c])
      <4> DEFINE p == SubSeq(up[c], 1, Smaller(Len(up[c]), RECV_SIZE))
      <4>1. pc'[c] = Command(p)
        BY <2>3 DEF Recv
      <4> QED
        BY <3>1, <4>1, PortionCommand
    <3>3. pc'[c] \in Commands
      BY <3>2, CommandType
    <3>4. client[c] = "waiting" /\ down[c] = << >> => up[c] = asked[c]
      BY <1>1, <3>1 DEF Talk, Waiting
    <3> QED
      BY <1>1, <3>1, <3>2, <3>3, <3>4 DEF Talk, Waiting, Commands, None
  <2>4. ASSUME \/ Read(c) \/ WriteBegin(c) \/ WriteGrow(c) \/ Info(c) \/ Clear(c)
               \/ SetPerm(c) \/ Unknown(c) \/ WriteCopy(c)
        PROVE  Talk(c)'
    <3>1. client' = client /\ up' = up /\ down' = down /\ asked' = asked /\ answer' = answer
      BY <2>4 DEF Read, WriteBegin, WriteGrow, Info, Clear, SetPerm, Unknown, WriteCopy, view
    <3>2. pc[c] \in Commands \cup {"copy", "grow"}
      BY <2>4 DEF Read, WriteBegin, WriteGrow, Info, Clear, SetPerm, Unknown, WriteCopy,
                  Commands
    <3>3. pc'[c] \in {"read_respond", "copy", "grow", "respond"}
      BY <2>4 DEF Read, WriteBegin, WriteGrow, Info, Clear, SetPerm, Unknown, WriteCopy,
                  Respond
    <3>4. CASE client[c] = "waiting" /\ down[c] = << >>
      <4> DEFINE C == Command(asked[c])
      <4>1. /\ pc[c] \in Commands => pc[c] = C
            /\ pc[c] \in {"copy", "grow"} => C = "write"
        BY <1>1, <3>4 DEF Talk, Waiting
      <4>2. /\ pc'[c] \in {"copy", "grow"} => C = "write"
            /\ pc'[c] = "read_respond" => C = "read"
        BY <2>4, <4>1 DEF Read, WriteBegin, WriteGrow, Info, Clear, SetPerm, Unknown,
             WriteCopy, Respond, Commands
      <4>3. pc'[c] \in {"respond", "read_respond"} => reply'[c] \in AnswersTo(asked[c])
        <5> DEFINE A == AnswersTo(asked[c])
        <5>0. /\ C = "read" => {"data", "empty", "denied"} \subseteq A
              /\ C = "write" => {"written", "denied"} \subseteq A
              /\ C = "info" => "info" \in A
              /\ C = "clear" => {"cleared", "denied"} \subseteq A
              /\ C = "setperm" => {"set", "bad permission"} \subseteq A
              /\ C = "unknown" => "unknown" \in A
          BY AnswersByCommand
        <5> SUFFICES pc'[c] \in {"respond", "read_respond"} => reply'[c] \in A
          OBVIOUS
        <5> HIDE DEF A, C
        <5>1. CASE Read(c)
          BY <4>1, <5>0, <5>1 DEF Read, Respond, Commands
        <5>2. CASE WriteBegin(c) \/ WriteCopy(c)
          BY <4>1, <5>0, <5>2 DEF WriteBegin, WriteCopy, Respond, Commands
        <5>3. CASE WriteGrow(c) \/ Info(c) \/ Clear(c) \/ Unknown(c)
          BY <4>1, <5>0, <5>3 DEF WriteGrow, Info, Clear, Unknown, Respond, Commands
        <5>4. CASE SetPerm(c)
          BY <4>1, <5>0, <5>4 DEF SetPerm, Respond, Commands
        <5> QED
          BY <2>4, <5>1, <5>2, <5>3, <5>4
      <4> QED
        BY <1>1, <3>1, <3>3, <3>4, <4>2, <4>3 DEF Talk, Waiting, Commands, None
    <3>5. CASE ~(client[c] = "waiting" /\ down[c] = << >>)
      BY <1>1, <3>1, <3>2, <3>3, <3>5 DEF Talk, Waiting, Commands, None
    <3> QED
      BY <3>4, <3>5
  <2>5. ASSUME Write(c) PROVE Talk(c)'
    <3>1. /\ pc[c] \in {"respond", "read_respond"} /\ pc'[c] = "recv"
          /\ client[c] # "out" /\ down'[c] = Append(down[c], reply[c])
          /\ client' = client /\ up' = up /\ asked' = asked /\ answer' = answer
      BY <2>5 DEF Write, view
    <3>2. down[c] \in Seq(Responses) /\ reply[c] \in Responses
      BY <3>1
    <3>3. /\ down'[c] # << >>
          /\ Head(down'[c]) = IF down[c] = << >> THEN reply[c] ELSE Head(down[c])
      <4> DEFINE s == down[c]
                 r == reply[c]
      <4>1. s \in Seq(Responses) /\ r \in Responses
        BY <3>2
      <4> HIDE DEF s, r
      <4>2. Append(s, r) # << >>
        <5>1. Len(Append(s, r)) = Len(s) + 1 /\ Len(s) \in Nat
          BY <4>1, AppendProperties, LenProperties
        <5>2. Len(Append(s, r)) # 0
          BY <5>1
        <5>3. Len(<< >>) = 0
          OBVIOUS
        <5> QED
          BY <5>2, <5>3, Zenon
      <4>3. Head(Append(s, r)) = IF s = << >> THEN r ELSE Head(s)
        BY <4>1, HeadTailAppend
      <4> QED
        BY <3>1, <4>2, <4>3 DEF s, r
    <3>4. client[c] = "waiting" => Head(down'[c]) \in AnswersTo(asked[c])
      BY <1>1, <3>1, <3>3 DEF Talk, Waiting
    <3> QED
      BY <1>1, <3>1, <3>3, <3>4 DEF Talk, Waiting, None
  <2>6. Talk(c)'
    BY <1>3, <2>2, <2>3, <2>4, <2>5 DEF ThreadStep
  <2> QED
    BY <2>1, <2>6 DEF TalkInv
<1> QED
  BY <1>2, <1>3

LEMMA TalkStep == Types /\ TalkInv /\ [Next]_vars => TalkInv'
<1> SUFFICES ASSUME Types, TalkInv, [Next]_vars, ~Pipelined PROVE TalkInv'
  BY DEF TalkInv
<1>1. CASE Start
  BY <1>1, TalkFrame DEF Start, thread, view, TalkInv
<1>2. CASE UNCHANGED vars
  BY <1>2, TalkFrame DEF vars, thread, view, TalkInv
<1>3. CASE Shutdown \/ AcceptBreaks
  BY <1>3, TalkDown DEF Shutdown, AcceptBreaks
<1> QED
  BY <1>1, <1>2, <1>3, TalkClient, TalkThread DEF Next

LEMMA TalkHolds == Spec => []TalkInv
BY TalkInit, TalkStep, TypesHold, PTL DEF Spec

(* What client.c prints as the response is an answer to its own message.   *)
THEOREM AnswersAreOwn ==
  ASSUME ~Pipelined
  PROVE  Spec => []OwnAnswer
<1>1. TalkInv => OwnAnswer
  BY DEF TalkInv, Talk, OwnAnswer
<1> QED
  BY <1>1, TalkHolds, PTL

-----------------------------------------------------------------------------
(* The message of this client is taken whole by one recv of the server.    *)
Fits(c) == Len(asked[c]) <= RECV_SIZE

(* Then its connection carries one portion and one reply: once the reply   *)
(* is written nothing is left to be read, and no thread works for a client *)
(* that is gone.                                                           *)
Once(c) ==
  /\ client[c] = "waiting" =>
       /\ pc[c] \in Commands \cup Inside \cup {"respond"} =>
            up[c] = << >> /\ down[c] = << >>
       /\ down[c] # << >> =>
            pc[c] \in {None, "recv"} /\ up[c] = << >> /\ Tail(down[c]) = << >>
  /\ client[c] = "answered" =>
       pc[c] \in {None, "recv"} /\ up[c] = << >> /\ down[c] = << >>
  /\ client[c] = "out" => pc[c] \in {None, "recv", "leave"} /\ up[c] = << >>

OnceInv == ~Pipelined => \A c \in Clients : Fits(c) => Once(c)

LEMMA OnceInit == Init => OnceInv
BY DEF Init, OnceInv, Once, None

LEMMA OnceFrame ==
  ASSUME NEW t \in Clients, Fits(t) => Once(t),
         client'[t] = client[t], up'[t] = up[t], down'[t] = down[t],
         pc'[t] = pc[t], asked'[t] = asked[t]
  PROVE  Fits(t)' => Once(t)'
BY DEF Once, Fits

LEMMA OnceClient ==
  ASSUME Types, ~Pipelined, TalkInv, OnceInv, NEW c \in Clients,
         ClientStep(c) \/ Accept(c) \/ AcceptFails(c)
  PROVE  OnceInv'
<1> USE DEF Types, ThreadTypes, ClientTypes
<1>1. Talk(c) /\ (Fits(c) => Once(c))
  BY DEF TalkInv, OnceInv
<1>2. \A t \in Clients \ {c} : Fits(t)' => Once(t)'
  <2> SUFFICES ASSUME NEW t \in Clients \ {c} PROVE Fits(t)' => Once(t)'
    OBVIOUS
  <2>1. Fits(t) => Once(t)
    BY DEF OnceInv
  <2>2. /\ client'[t] = client[t] /\ up'[t] = up[t] /\ down'[t] = down[t]
        /\ pc'[t] = pc[t] /\ asked'[t] = asked[t]
    BY DEF ClientStep, Accept, AcceptFails, Connect, Send, Receive, ReceiveEof, Close,
           Hangup, thread, view
  <2> QED
    BY <2>1, <2>2, OnceFrame
<1>3. ASSUME Hangup(c), pc'[c] = pc[c], up'[c] = up[c],
             pc[c] = None \/ client[c] = "answered"
      PROVE  Fits(c)' => Once(c)'
  BY <1>1, <1>3 DEF Talk, Once, Hangup, Fits
<1>4. ASSUME Connect(c) PROVE Once(c)'
  BY <1>4 DEF Connect, Once
<1>5. ASSUME NEW m \in Messages, Send(c, m) PROVE Fits(c)' => Once(c)'
  <2>1. client[c] = "connected"
    BY <1>5 DEF Send
  <2>2. CASE pc[c] = None
    BY <1>3, <1>5, <2>2 DEF Send, thread
  <2>3. CASE pc[c] # None
    <3>1. down[c] = << >> /\ pc[c] \in {"backlog", "enter", "recv"}
      BY <1>1, <2>1, <2>3 DEF Talk
    <3>2. pc'[c] = pc[c] /\ client'[c] = "waiting" /\ down'[c] = << >>
      BY <1>5, <2>3, <3>1 DEF Send, thread
    <3> QED
      BY <3>1, <3>2 DEF Once, Commands, Inside
  <2> QED
    BY <2>2, <2>3
<1>6. ASSUME Receive(c) PROVE Fits(c)' => Once(c)'
  <2>1. /\ client[c] = "waiting" /\ client'[c] = "answered" /\ down[c] # << >>
        /\ down'[c] = Tail(down[c]) /\ pc'[c] = pc[c] /\ up'[c] = up[c]
        /\ asked'[c] = asked[c]
    BY <1>6 DEF Receive, thread
  <2> QED
    BY <1>1, <2>1 DEF Once, Fits
<1>7. ASSUME ReceiveEof(c) \/ Close(c) PROVE Fits(c)' => Once(c)'
  BY <1>3, <1>7 DEF ReceiveEof, Close, thread
<1>8. ASSUME Accept(c) \/ AcceptFails(c) PROVE Fits(c)' => Once(c)'
  BY <1>1, <1>8 DEF Accept, AcceptFails, Once, Fits, Commands, Inside, None, view
<1>9. Fits(c)' => Once(c)'
  BY <1>4, <1>5, <1>6, <1>7, <1>8 DEF ClientStep
<1> QED
  BY <1>2, <1>9 DEF OnceInv

LEMMA OnceThread ==
  ASSUME Types, ~Pipelined, TalkInv, OnceInv, NEW c \in Clients, ThreadStep(c),
         ~WriteBroken(c)
  PROVE  OnceInv'
<1> USE DEF Types, ThreadTypes, ClientTypes
<1>1. Talk(c) /\ (Fits(c) => Once(c))
  BY DEF TalkInv, OnceInv
<1>2. client' = client /\ asked' = asked
  BY DEF ThreadStep, Enter, Recv, RecvEof, Leave, Read, WriteBegin, WriteCopy, WriteGrow,
     Info, Clear, SetPerm, Unknown, Write, view
<1>3. \A t \in Clients \ {c} : Fits(t)' => Once(t)'
  <2> SUFFICES ASSUME NEW t \in Clients \ {c} PROVE Fits(t)' => Once(t)'
    OBVIOUS
  <2>1. Fits(t) => Once(t)
    BY DEF OnceInv
  <2>2. /\ client'[t] = client[t] /\ up'[t] = up[t] /\ down'[t] = down[t]
        /\ pc'[t] = pc[t] /\ asked'[t] = asked[t]
    <3>1. CASE Recv(c)
      BY <3>1 DEF Recv, view
    <3>2. CASE ~Recv(c)
      BY <3>2 DEF ThreadStep, Enter, RecvEof, Leave, Read, WriteBegin, WriteCopy,
        WriteGrow, Info, Clear, SetPerm, Unknown, Write, Respond, view
    <3> QED
      BY <3>1, <3>2
  <2> QED
    BY <2>1, <2>2, OnceFrame
<1>4. ASSUME Fits(c) PROVE Once(c)'
  <2>1. Talk(c) /\ Once(c)
    BY <1>1, <1>4
  <2>2. ASSUME Enter(c) \/ RecvEof(c) \/ Leave(c) PROVE Once(c)'
    BY <2>1, <2>2 DEF Enter, RecvEof, Leave, Talk, Once, Commands, Inside, None, view
  <2>3. ASSUME Recv(c) PROVE Once(c)'
    <3>1. /\ pc[c] = "recv" /\ up[c] # << >> /\ up[c] \in Seq(Units)
          /\ client' = client /\ down' = down /\ asked' = asked
      BY <2>3 DEF Recv, view
    <3>2. client[c] = "waiting" /\ down[c] = << >> /\ Len(up[c]) <= RECV_SIZE
      BY <1>4, <2>1, <3>1 DEF Talk, Waiting, Once, Fits
    <3>3. Smaller(Len(up[c]), RECV_SIZE) = Len(up[c]) /\ Len(up[c]) \in Nat
      BY <3>1, <3>2, LenProperties, ResMgrAssumption DEF Smaller
    <3>4. SubSeq(up[c], Len(up[c]) + 1, Len(up[c])) = << >>
      BY <3>3, SubSeqEmpty
    <3>5. up'[c] = << >>
      BY <2>3, <3>3, <3>4 DEF Recv
    <3> QED
      BY <2>1, <3>1, <3>2, <3>5 DEF Once
  <2>4. ASSUME \/ Read(c) \/ WriteBegin(c) \/ WriteGrow(c) \/ Info(c) \/ Clear(c)
               \/ SetPerm(c) \/ Unknown(c) \/ WriteCopy(c)
        PROVE  Once(c)'
    <3>1. client' = client /\ up' = up /\ down' = down /\ asked' = asked
      BY <2>4 DEF Read, WriteBegin, WriteGrow, Info, Clear, SetPerm, Unknown, WriteCopy, view
    <3>2. pc[c] \in Commands \cup {"copy", "grow"}
      BY <2>4 DEF Read, WriteBegin, WriteGrow, Info, Clear, SetPerm, Unknown, WriteCopy,
                  Commands
    <3>3. client[c] \in {"connected", "waiting"}
      BY <2>1, <3>2 DEF Once, Commands, None
    <3> QED
      BY <2>1, <3>1, <3>2, <3>3 DEF Once, Commands, Inside
  <2>5. ASSUME Write(c) PROVE Once(c)'
    <3>1. /\ pc[c] \in {"respond", "read_respond"} /\ pc'[c] = "recv"
          /\ client[c] # "out" /\ down'[c] = Append(down[c], reply[c])
          /\ client' = client /\ up' = up /\ asked' = asked
      BY <2>5 DEF Write, view
    <3>2. client[c] = "waiting" /\ up[c] = << >> /\ down[c] = << >>
      BY <2>1, <3>1 DEF Talk, Once, Inside, None
    <3>3. Tail(down'[c]) = << >>
      BY <3>1, <3>2
    <3> QED
      BY <2>1, <3>1, <3>2, <3>3 DEF Once, Commands, Inside
  <2> QED
    BY <2>2, <2>3, <2>4, <2>5 DEF ThreadStep
<1>5. Fits(c)' => Once(c)'
  BY <1>2, <1>4 DEF Fits
<1> QED
  BY <1>3, <1>5 DEF OnceInv

(* Down leaves nothing to be read and nobody to write.                     *)
LEMMA OnceDown ==
  ASSUME Types, OnceInv, Down
  PROVE  OnceInv'
BY DEF Down, view, OnceInv, Once, Fits, Commands, Inside, None, Types, ThreadTypes

LEMMA OnceStep == Types /\ TalkInv /\ OnceInv /\ [Next]_vars => OnceInv'
<1> SUFFICES ASSUME Types, TalkInv, OnceInv, [Next]_vars, ~Pipelined PROVE OnceInv'
  BY DEF OnceInv
<1>1. CASE Start
  BY <1>1, OnceFrame DEF Start, thread, view, OnceInv
<1>2. CASE UNCHANGED vars
  BY <1>2, OnceFrame DEF vars, thread, view, OnceInv
<1>3. CASE Shutdown \/ AcceptBreaks \/ \E c \in Clients : WriteBroken(c)
  BY <1>3, OnceDown DEF Shutdown, AcceptBreaks, WriteBroken
<1> QED
  BY <1>1, <1>2, <1>3, OnceClient, OnceThread DEF Next

(* A client.c takes the server along only if its message was longer than   *)
(* one recv of the server: the thread was about to answer a further        *)
(* portion of it, and the client had left with the first reply.            *)
THEOREM CutMessagesEndServer ==
  ASSUME ~Pipelined
  PROVE  Spec => OnlyCutMessagesEndServer
<1> DEFINE Cut(c) == /\ client[c] = "out"
                     /\ pc[c] \in {"respond", "read_respond"}
                     /\ Len(asked[c]) > RECV_SIZE
<1>1. Types /\ OnceInv /\ [Next]_vars
        => [server = "up" /\ server' = "down" /\ path' => \E c \in Clients : Cut(c)]_vars
  <2> SUFFICES ASSUME Types, OnceInv, Next, server = "up", server' = "down", path'
               PROVE  \E c \in Clients : Cut(c)
    OBVIOUS
  <2>1. PICK c \in Clients : WriteBroken(c)
    <3>1. \A c \in Clients : ~(ClientStep(c) \/ Accept(c) \/ AcceptFails(c))
      BY DEF ClientStep, Accept, AcceptFails, Connect, Send, Receive, ReceiveEof, Close
    <3>2. ~(Shutdown \/ AcceptBreaks \/ Start)
      BY DEF Shutdown, AcceptBreaks, Start
    <3>3. \A c \in Clients : ThreadStep(c) => WriteBroken(c)
      BY DEF ThreadStep, Enter, Recv, RecvEof, Leave, Read, WriteBegin, WriteCopy,
        WriteGrow, Info, Clear, SetPerm, Unknown, Write
    <3> QED
      BY <3>1, <3>2, <3>3 DEF Next
  <2>2. client[c] = "out" /\ pc[c] \in {"respond", "read_respond"}
    BY <2>1 DEF WriteBroken
  <2>3. ~Fits(c)
    BY <2>2 DEF OnceInv, Once, None
  <2>4. Len(asked[c]) \in Nat /\ RECV_SIZE \in Nat
    BY LenProperties, ResMgrAssumption DEF Types, ClientTypes
  <2> QED
    BY <2>2, <2>3, <2>4 DEF Fits
<1> QED
  BY <1>1, OnceInit, OnceStep, TypesHold, TalkHolds, PTL DEF Spec, OnlyCutMessagesEndServer
=============================================================================
