----------------------------- MODULE CaptureProofs -----------------------------
(***************************************************************************)
(* Proofs about Capture, for every set of addresses, ports, payloads,      *)
(* options and frames, and every bound: the script a capture stands for;   *)
(* where each conversation is filed, who opened it, whose data its actions *)
(* hold, and that this data is the whole payload; which conversations are  *)
(* recorded; and the server each is replayed against, from the option on   *)
(* the command line to the port.                                           *)
(***************************************************************************)
EXTENDS CaptureScript, FiniteSetTheorems, SequenceTheorems,
        WellFoundedInduction, TLAPS

-----------------------------------------------------------------------------
(* The operators the recording is built from.                              *)

LEMMA HtonsType ==
  ASSUME NEW n \in Int
  PROVE  Htons(n) \in Word
<1> DEFINE w == n % 65536
           low == w % 256
           high == w \div 256
<1>1. w \in Int /\ w >= 0 /\ w < 65536
  OBVIOUS
<1>2. low \in Int /\ low >= 0 /\ low < 256
  <2> HIDE DEF w
  <2> QED BY <1>1
<1>3. high \in Int /\ high >= 0 /\ high < 256
  <2> HIDE DEF w
  <2> QED BY <1>1
<1>4. low * 256 + high \in Int /\ low * 256 + high >= 0 /\ low * 256 + high <= 65535
  <2> HIDE DEF low, high
  <2> QED BY <1>2, <1>3
<1>5. Htons(n) = low * 256 + high
  BY DEF Htons
<1>6. Htons(n) \in Int /\ Htons(n) >= 0 /\ Htons(n) <= MaxWord
  BY <1>4, <1>5 DEF MaxWord
<1>7. MaxWord \in Int
  BY DEF MaxWord
<1> QED
  BY <1>6, <1>7 DEF Word

LEMMA KeyType ==
  ASSUME NEW p \in Packet
  PROVE  TcpIpGetKey(p) \in Key
BY DEF Packet, Key, TcpIpGetKey, GenerateKey, Sender, Receiver

LEMMA NewConversationType ==
  ASSUME NEW state \in TcpState, NEW p \in Packet,
         NEW server \in TargetTestServer,
         server = NoServer \/ server.test_addr \in Addr
  PROVE  /\ NewConversation(state, p, server) \in Conversation
         /\ NewConversation(state, p, server).cap_tcp_state = state
         /\ NewConversation(state, p, server).action_queue = <<>>
<1>1. p.dport \in Word
  BY PortAssumption DEF Packet
<1>2. server.test_port \in Int
  <2> server.test_port \in Word \cup {NO_PORT}
    BY DEF TargetTestServer
  <2> MaxWord \in Int
    BY DEF MaxWord
  <2> QED BY DEF Word, NO_PORT
<1>3. Htons(server.test_port) \in Word
  BY <1>2, HtonsType
<1> QED
  BY <1>1, <1>3 DEF NewConversation, Conversation, Packet

LEMMA PushType ==
  ASSUME NEW c \in Conversation, NEW a \in Action
  PROVE  /\ Push(c, a) \in Conversation
         /\ Push(c, a).action_queue = Append(c.action_queue, a)
         /\ Push(c, a).cap_tcp_state = c.cap_tcp_state
BY DEF Push, Conversation

LEMMA EnterType ==
  ASSUME NEW c \in Conversation, NEW state \in TcpState
  PROVE  /\ Enter(c, state) \in Conversation
         /\ Enter(c, state).action_queue = c.action_queue
         /\ Enter(c, state).cap_tcp_state = state
BY DEF Enter, Conversation

LEMMA EnterAndPush ==
  ASSUME NEW c \in Conversation, NEW state \in TcpState, NEW a \in Action
  PROVE  LET d == Push(Enter(c, state), a)
         IN  /\ d \in Conversation
             /\ d.action_queue = Append(c.action_queue, a)
             /\ d.cap_tcp_state = state
<1> DEFINE e == Enter(c, state)
<1>1. e \in Conversation /\ e.action_queue = c.action_queue /\ e.cap_tcp_state = state
  BY EnterType
<1> HIDE DEF e
<1>2. /\ Push(e, a) \in Conversation
      /\ Push(e, a).action_queue = Append(e.action_queue, a)
      /\ Push(e, a).cap_tcp_state = e.cap_tcp_state
  BY <1>1, PushType
<1> QED
  BY <1>1, <1>2 DEF e

LEMMA ActionTypes ==
  ASSUME NEW c \in Conversation, NEW p \in Packet
  PROVE  /\ DataAction(c, p) \in Action
         /\ DataAction(c, p).type \in {"SEND", "RECV"}
         /\ DataAction(c, p).data = p.data
         /\ Plain("CONNECT") \in Action
         /\ Plain("CLOSE") \in Action
BY DEF DataAction, Plain, Action, Packet

\* What one packet can do to a recorded TCP conversation.
Quiet(c, d) ==
  /\ d.action_queue = c.action_queue
  /\ d.cap_tcp_state = "ESTABLISHED" <=> c.cap_tcp_state = "ESTABLISHED"

Reset(c, d) ==
  /\ d.action_queue = c.action_queue
  /\ c.cap_tcp_state = "ESTABLISHED" /\ d.cap_tcp_state = "CLOSED"

Connects(c, d) ==
  /\ c.cap_tcp_state # "ESTABLISHED" /\ d.cap_tcp_state = "ESTABLISHED"
  /\ d.action_queue = Append(c.action_queue, Plain("CONNECT"))

Transfers(c, d, a) ==
  /\ c.cap_tcp_state = "ESTABLISHED" /\ d.cap_tcp_state = "ESTABLISHED"
  /\ d.action_queue = Append(c.action_queue, a)

Closes(c, d) ==
  /\ c.cap_tcp_state = "ESTABLISHED" /\ d.cap_tcp_state = "CLOSED"
  /\ d.action_queue = Append(c.action_queue, Plain("CLOSE"))

TransfersAndCloses(c, d, a) ==
  /\ c.cap_tcp_state = "ESTABLISHED" /\ d.cap_tcp_state = "CLOSED"
  /\ d.action_queue = Append(Append(c.action_queue, a), Plain("CLOSE"))

LEMMA TcpStep ==
  ASSUME NEW c \in Conversation, c.cap_tcp_state # "NONE", NEW p \in Packet
  PROVE  LET d == TcpProcessCapturePacket(c, p)
             a == DataAction(c, p)
         IN  /\ d \in Conversation
             /\ d.cap_tcp_state # "NONE"
             /\ WasReset(c, p) => Reset(c, d)
             /\ ~WasReset(c, p) =>
                  \/ Quiet(c, d)
                  \/ Connects(c, d)
                  \/ HasData(p) /\ Transfers(c, d, a)
                  \/ Closes(c, d)
                  \/ HasData(p) /\ TransfersAndCloses(c, d, a)
<1> DEFINE d == TcpProcessCapturePacket(c, p)
           a == DataAction(c, p)
<1> USE ActionTypes
<1>1. CASE p.proto # "TCP"
  BY <1>1 DEF TcpProcessCapturePacket, WasReset, Quiet
<1>2. CASE p.proto = "TCP" /\ HasRst(p)
  <2>1. d = Enter(c, "CLOSED")
    BY <1>2 DEF TcpProcessCapturePacket
  <2> QED
    BY <1>2, <2>1, EnterType DEF WasReset, Quiet, Reset, TcpState
<1>3. CASE p.proto = "TCP" /\ ~HasRst(p)
  <2>0. c.cap_tcp_state \in TcpState
    BY DEF Conversation
  <2>1. CASE c.cap_tcp_state = "CLOSED"
    <3>1. d = CloseProcessCapturePacket(c, p)
      BY <1>3, <2>1 DEF TcpProcessCapturePacket
    <3> QED
      BY <1>3, <2>1, <3>1, EnterType DEF CloseProcessCapturePacket, WasReset, Quiet, TcpState
  <2>2. CASE c.cap_tcp_state = "SYN_SENT"
    <3>1. d = SynSentProcessCapturePacket(c, p)
      BY <1>3, <2>2 DEF TcpProcessCapturePacket
    <3> QED
      BY <1>3, <2>2, <3>1, EnterType DEF SynSentProcessCapturePacket, WasReset, Quiet, TcpState
  <2>3. CASE c.cap_tcp_state = "SYN_RECEIVED"
    <3>1. d = SynRecvProcessCapturePacket(c, p)
      BY <1>3, <2>3 DEF TcpProcessCapturePacket
    <3>2. CASE d = c
      BY <1>3, <2>3, <3>2 DEF WasReset, Quiet
    <3>3. CASE d = Push(Enter(c, "ESTABLISHED"), Plain("CONNECT"))
      <4>1. "ESTABLISHED" \in TcpState
        BY DEF TcpState
      <4>2. /\ d \in Conversation
            /\ d.action_queue = Append(c.action_queue, Plain("CONNECT"))
            /\ d.cap_tcp_state = "ESTABLISHED"
        <5> HIDE DEF d
        <5> QED
          BY <3>3, <4>1, ActionTypes, EnterAndPush, Zenon
      <4> QED
        BY <1>3, <2>3, <4>2 DEF WasReset, Connects
    <3> QED
      BY <3>1, <3>2, <3>3 DEF SynRecvProcessCapturePacket
  <2>4. CASE c.cap_tcp_state = "ESTABLISHED"
    <3> DEFINE e == IF HasData(p) THEN Push(c, a) ELSE c
    <3>1. d = IF HasFin(p) THEN Push(Enter(e, "CLOSED"), Plain("CLOSE")) ELSE e
      BY <1>3, <2>4 DEF TcpProcessCapturePacket, EstProcessCapturePacket
    <3>2. /\ e \in Conversation
          /\ e.cap_tcp_state = "ESTABLISHED"
          /\ e.action_queue = IF HasData(p) THEN Append(c.action_queue, a)
                                            ELSE c.action_queue
      BY <2>4, PushType
    <3> HIDE DEF e
    <3>3. CASE HasFin(p)
      <4>0. "CLOSED" \in TcpState
        BY DEF TcpState
      <4>1. /\ d \in Conversation
            /\ d.cap_tcp_state = "CLOSED"
            /\ d.action_queue = Append(e.action_queue, Plain("CLOSE"))
        <5>1. d = Push(Enter(e, "CLOSED"), Plain("CLOSE"))
          BY <3>1, <3>3
        <5> HIDE DEF d
        <5> QED
          BY <3>2, <4>0, <5>1, ActionTypes, EnterAndPush, Zenon
      <4> QED
        BY <1>3, <2>4, <3>2, <4>1 DEF WasReset, Closes, TransfersAndCloses
    <3>4. CASE ~HasFin(p)
      BY <1>3, <2>4, <3>1, <3>2, <3>4 DEF WasReset, Quiet, Transfers
    <3> QED
      BY <3>3, <3>4
  <2> QED
    BY <2>0, <2>1, <2>2, <2>3, <2>4 DEF TcpState
<1> QED
  BY <1>1, <1>2, <1>3

LEMMA UdpStep ==
  ASSUME NEW c \in Conversation, NEW p \in Packet
  PROVE  /\ UdpProcessCapturePacket(c, p) \in Conversation
         /\ UdpProcessCapturePacket(c, p).cap_tcp_state = c.cap_tcp_state
BY PushType, ActionTypes DEF UdpProcessCapturePacket

-----------------------------------------------------------------------------
(* Scripts.                                                                *)

\* Nothing before position i depends on what is appended.
LEMMA ConnectedBeforeAppend ==
  ASSUME NEW s \in Seq(Action), NEW a \in Action, NEW i \in 1 .. Len(s) + 1
  PROVE  ConnectedBefore(Append(s, a), i) <=> ConnectedBefore(s, i)
<1>1. \A j \in 1 .. i - 1 : j \in 1 .. Len(s) /\ Append(s, a)[j] = s[j]
  OBVIOUS
<1>2. \A j \in 1 .. i - 1 : \A k \in j + 1 .. i - 1 : k \in 1 .. i - 1
  OBVIOUS
<1> QED
  BY <1>1, <1>2 DEF ConnectedBefore

LEMMA EndsConnectedAppend ==
  ASSUME NEW s \in Seq(Action), NEW a \in Action
  PROVE  /\ a.type = "CONNECT" => EndsConnected(Append(s, a))
         /\ a.type # "CLOSE" /\ EndsConnected(s) => EndsConnected(Append(s, a))
<1> DEFINE t == Append(s, a)
           n == Len(s)
<1>0. n \in Nat /\ Len(t) = n + 1 /\ t[n + 1] = a /\ \A k \in 1 .. n : t[k] = s[k]
  OBVIOUS
<1> HIDE DEF t, n
<1>1. ASSUME a.type = "CONNECT" PROVE EndsConnected(t)
  BY <1>0, <1>1 DEF EndsConnected, ConnectedBefore
<1>2. ASSUME a.type # "CLOSE", EndsConnected(s) PROVE EndsConnected(t)
  <2>1. PICK j \in 1 .. n : /\ s[j].type = "CONNECT"
                            /\ \A k \in j + 1 .. n : s[k].type # "CLOSE"
    BY <1>0, <1>2 DEF EndsConnected, ConnectedBefore, n
  <2>2. t[j].type = "CONNECT"
    BY <1>0, <2>1
  <2>3. \A k \in j + 1 .. n + 1 : t[k].type # "CLOSE"
    BY <1>0, <1>2, <2>1
  <2> QED
    BY <1>0, <2>2, <2>3 DEF EndsConnected, ConnectedBefore
<1> QED
  BY <1>1, <1>2 DEF t

LEMMA WellFormedAppend ==
  ASSUME NEW s \in Seq(Action), NEW a \in Action, WellFormed(s),
         a.type = "CONNECT" \/ EndsConnected(s)
  PROVE  WellFormed(Append(s, a))
<1> DEFINE t == Append(s, a)
<1> SUFFICES ASSUME NEW i \in 1 .. Len(t), t[i].type # "CONNECT"
             PROVE  ConnectedBefore(t, i)
  BY DEF WellFormed
<1>1. CASE i \in 1 .. Len(s)
  <2>1. t[i] = s[i] /\ i \in 1 .. Len(s) + 1
    BY <1>1
  <2> QED
    BY <1>1, <2>1, ConnectedBeforeAppend DEF WellFormed
<1>2. CASE i = Len(s) + 1
  <2>1. t[i] = a /\ i \in 1 .. Len(s) + 1
    BY <1>2
  <2> QED
    BY <1>2, <2>1, ConnectedBeforeAppend DEF EndsConnected
<1> QED
  BY <1>1, <1>2

LEMMA PositionsAppend ==
  ASSUME NEW s \in Seq(Action), NEW a \in Action, NEW type
  PROVE  /\ Cardinality(Positions(s, type)) \in Nat
         /\ Cardinality(Positions(Append(s, a), type)) =
              Cardinality(Positions(s, type)) + (IF a.type = type THEN 1 ELSE 0)
<1> DEFINE t == Append(s, a)
           n == Len(s)
           P == Positions(s, type)
<1>1. n \in Nat /\ Len(t) = n + 1 /\ t[n + 1] = a /\ \A k \in 1 .. n : t[k] = s[k]
  OBVIOUS
<1>2. IsFiniteSet(P) /\ Cardinality(P) \in Nat
  <2>1. IsFiniteSet(1 .. n)
    <3>1. n \in Int /\ 1 \in Int
      BY <1>1
    <3> HIDE DEF n
    <3> QED
      BY <3>1, FS_Interval, Zenon
  <2>2. P \subseteq 1 .. n
    BY DEF Positions
  <2> QED
    BY <2>1, <2>2, FS_Subset, FS_CardinalityType
<1>3. n + 1 \notin P
  BY <1>1 DEF Positions
<1>4. Positions(t, type) = IF a.type = type THEN P \cup {n + 1} ELSE P
  <2> HIDE DEF t, n
  <2>1. \A i : i \in 1 .. n + 1 <=> i \in 1 .. n \/ i = n + 1
    BY <1>1
  <2> QED
    BY <1>1, <2>1 DEF Positions, n
<1> HIDE DEF P, t
<1>5. CASE a.type = type
  BY <1>2, <1>3, <1>4, <1>5, FS_AddElement DEF P, t
<1>6. CASE a.type # type
  BY <1>2, <1>4, <1>6 DEF P, t
<1> QED
  BY <1>5, <1>6

-----------------------------------------------------------------------------
(* Types.                                                                  *)

LEMMA PutType ==
  ASSUME NEW S, NEW m, m \in [DOMAIN m -> S], NEW k, NEW v \in S
  PROVE  /\ Put(m, k, v) \in [DOMAIN m \cup {k} -> S]
         /\ DOMAIN Put(m, k, v) = DOMAIN m \cup {k}
         /\ Put(m, k, v)[k] = v
         /\ \A x \in DOMAIN m : x # k => Put(m, k, v)[x] = m[x]
BY DEF Put

LEMMA TestServerType ==
  ASSUME TypeOK, NEW p \in Packet
  PROVE  /\ TestServer(p) \in TargetTestServer
         /\ TestServer(p) = NoServer \/ TestServer(p).test_addr \in Addr
<1>1. NoServer \in TargetTestServer
  BY DEF NoServer, TargetTestServer
<1> QED
  BY <1>1 DEF TestServer, TypeOK

LEMMA FramePacket ==
  ASSUME NEW f \in Frames
  PROVE  f.packet \in Packet
BY FramesAssumption DEF Frame

\* The conversation a packet is filed with, before and after.
LEMMA RecordedConversation ==
  ASSUME TypeOK, NEW f, f.packet \in Packet
  PROVE  LET p == f.packet
             k == TcpIpGetKey(p)
             c == GetConversation(p)
             d == ProcessCapturePacket(c, p)
         IN  /\ p \in Packet /\ k \in Key
             /\ c \in Conversation /\ d \in Conversation
             /\ c.cap_tcp_state = "NONE" <=> Protocol = "UDP"
             /\ d.cap_tcp_state = "NONE" <=> Protocol = "UDP"
             /\ k \notin Recorded => /\ c.action_queue = <<>>
                                     /\ c.cap_tcp_state # "ESTABLISHED"
             /\ Protocol = "TCP" => d = TcpProcessCapturePacket(c, p)
<1> DEFINE p == f.packet
           k == TcpIpGetKey(p)
           c == GetConversation(p)
           d == ProcessCapturePacket(c, p)
<1>1. p \in Packet
  OBVIOUS
<1>2. k \in Key
  BY <1>1, KeyType
<1>3. /\ c \in Conversation
      /\ c.cap_tcp_state = "NONE" <=> Protocol = "UDP"
      /\ k \notin Recorded => /\ c.action_queue = <<>>
                              /\ c.cap_tcp_state # "ESTABLISHED"
  <2>1. CASE k \in Recorded
    BY <2>1 DEF GetConversation, TypeOK, Recorded
  <2>2. CASE k \notin Recorded
    <3> DEFINE state == IF Protocol = "TCP" THEN "CLOSED" ELSE "NONE"
    <3>1. c = NewConversation(state, p, TestServer(p))
      BY <2>2 DEF GetConversation, CreateConversation, Recorded
    <3>2. /\ state \in TcpState
          /\ state = "NONE" <=> Protocol = "UDP"
          /\ state # "ESTABLISHED"
      BY ProtocolAssumption DEF TcpState
    <3>3. /\ TestServer(p) \in TargetTestServer
          /\ TestServer(p) = NoServer \/ TestServer(p).test_addr \in Addr
      BY <1>1, TestServerType
    <3> HIDE DEF state, p, c
    <3>4. c \in Conversation /\ c.cap_tcp_state = state /\ c.action_queue = <<>>
      BY <1>1, <3>1, <3>2, <3>3, NewConversationType
    <3> QED
      BY <3>2, <3>4
  <2> QED
    BY <2>1, <2>2
<1>4. /\ d \in Conversation
      /\ d.cap_tcp_state = "NONE" <=> Protocol = "UDP"
      /\ Protocol = "TCP" => d = TcpProcessCapturePacket(c, p)
  <2> HIDE DEF p, c
  <2>1. CASE Protocol = "TCP"
    <3>1. d = TcpProcessCapturePacket(c, p)
      BY <2>1 DEF ProcessCapturePacket
    <3>2. d \in Conversation /\ d.cap_tcp_state # "NONE"
      <4> HIDE DEF d
      <4> QED BY <1>1, <1>3, <2>1, <3>1, TcpStep
    <3> QED
      BY <2>1, <3>1, <3>2
  <2>2. CASE Protocol = "UDP"
    <3>1. d = UdpProcessCapturePacket(c, p)
      BY <2>2 DEF ProcessCapturePacket
    <3> QED
      BY <1>1, <1>3, <2>2, <3>1, UdpStep
  <2> QED
    BY <2>1, <2>2, ProtocolAssumption
<1> QED
  BY <1>1, <1>2, <1>3, <1>4

LEMMA TypeInit == Init => TypeOK
BY DEF Init, TypeOK, NoEntries, Recorded

LEMMA SymbolType ==
  ASSUME NEW t \in Symbol
  PROVE  /\ t.num \in Int
         /\ t.addr \in Addr \cup {NoAddr}
BY DEF Symbol, Token, OpenMark, ShutMark, ColonMark, Mark, NoNumber, NoAddr

\* parseIpV4Spec: an accepted specification names a test server, or none.
LEMMA IpV4ServerType ==
  ASSUME NEW tokens \in Seq(Symbol), ValidIpV4Spec(tokens),
         NEW server, server = IpV4SpecServer(tokens)
  PROVE  /\ server \in TargetTestServer
         /\ server = NoServer \/ server.test_addr \in Addr
<1>1. NoServer \in TargetTestServer
  BY DEF NoServer, TargetTestServer
<1>2. CASE Len(tokens) < 3
  BY <1>1, <1>2 DEF IpV4SpecServer
<1>3. CASE Len(tokens) >= 3
  <2>0. 3 \in 1 .. Len(tokens)
    BY <1>3
  <2>1. tokens[3].addr \in Addr
    <3>1. tokens[3] \in Symbol
      BY <2>0, ElementOfSeq
    <3> QED
      BY <1>3, <3>1, SymbolType DEF ValidIpV4Spec, IsAddr
  <2> DEFINE port == IF Len(tokens) = 4 THEN Htons(tokens[4].num) ELSE NO_PORT
  <2>2. port \in Int
    <3>1. CASE Len(tokens) = 4
      <4>0. 4 \in 1 .. Len(tokens)
        BY <3>1
      <4>1. tokens[4] \in Symbol
        BY <4>0, ElementOfSeq
      <4>2. Htons(tokens[4].num) \in Word
        BY <4>1, SymbolType, HtonsType
      <4>3. MaxWord \in Int
        BY DEF MaxWord
      <4> QED
        BY <3>1, <4>2, <4>3 DEF Word
    <3>2. CASE Len(tokens) # 4
      BY <3>2 DEF NO_PORT
    <3> QED
      BY <3>1, <3>2
  <2>3. server = [test_addr |-> tokens[3].addr, test_port |-> Htons(port)]
    BY <1>3, <2>1 DEF IpV4SpecServer
  <2> HIDE DEF port
  <2>4. Htons(port) \in Word
    BY <2>2, HtonsType
  <2> QED
    BY <2>1, <2>3, <2>4 DEF TargetTestServer
<1>4. Len(tokens) \in Nat
  OBVIOUS
<1> QED
  BY <1>2, <1>3, <1>4

LEMMA MinimumExists ==
  ASSUME NEW T \in SUBSET Nat, T # {}
  PROVE  \E x \in T : \A y \in T : x <= y
<1>1. PICK x \in T : \A y \in T : <<y, x>> \notin OpToRel(<, Nat)
  BY WFMin, NatLessThanWellFounded, Zenon
<1>2. \A y \in T : ~(y < x)
  BY <1>1, Zenon DEF OpToRel
<1> QED
  BY <1>2

\* token(): the mark it finds lies in the text, not before where it looks.
LEMMA FindType ==
  ASSUME NEW s \in Seq(Symbol), NEW i \in Nat \ {0}, NEW mark
  PROVE  /\ Find(s, i, mark) \in Nat
         /\ Find(s, i, mark) <= Len(s)
<1> DEFINE found == {j \in i .. Len(s) : s[j] = mark}
<1>0. Len(s) \in Nat /\ found \subseteq Nat
  OBVIOUS
<1>1. CASE found = {}
  BY <1>0, <1>1 DEF Find
<1>2. CASE found # {}
  <2>1. \E j \in found : \A k \in found : j <= k
    BY <1>0, <1>2, MinimumExists
  <2>2. Find(s, i, mark) = CHOOSE j \in found : \A k \in found : j <= k
    BY <1>2 DEF Find
  <2>3. Find(s, i, mark) \in found
    <3> HIDE DEF found
    <3> QED BY <2>1, <2>2, Zenon
  <2> QED
    BY <1>0, <2>3
<1> QED
  BY <1>1, <1>2

\* A part of a text is a text.
LEMMA TextType ==
  ASSUME NEW s \in Seq(Symbol), NEW i \in Nat \ {0}, NEW j \in Nat, j <= Len(s)
  PROVE  Text(s, i, j) \in Seq(Symbol)
<1> DEFINE last == IF j = 0 THEN Len(s) ELSE j - 1
<1>1. last \in Int /\ last <= Len(s) /\ Len(s) \in Nat
  OBVIOUS
<1> HIDE DEF last
<1>2. \A k \in i .. last : k \in 1 .. Len(s)
  BY <1>1
<1>3. \A k \in i .. last : s[k] \in Symbol
  BY <1>2, ElementOfSeq
<1>4. SubSeq(s, i, last) \in Seq(Symbol)
  BY <1>1, <1>3, SubSeqProperties
<1> QED
  BY <1>4 DEF Text, last

LEMMA PartsType ==
  ASSUME NEW s \in Seq(Symbol)
  PROVE  /\ Parts(s).test \in Seq(Symbol)
         /\ Parts(s).test_port \in Seq(Symbol)
<1> DEFINE i == Find(s, 1, ShutMark)
           j == IF MarkAt(s, i + 1, ColonMark) THEN Find(s, i + 2, ColonMark) ELSE i
           k == IF j = 0 THEN 0 ELSE Find(s, j + 1, ShutMark)
<1>1. i \in Nat /\ i <= Len(s)
  BY FindType
<1>2. j \in Nat /\ j <= Len(s)
  <2> HIDE DEF i
  <2>1. i + 2 \in Nat \ {0}
    BY <1>1
  <2> QED BY <1>1, <2>1, FindType
<1>3. k \in Nat /\ k <= Len(s)
  <2> HIDE DEF j
  <2>1. j + 1 \in Nat \ {0} /\ Len(s) \in Nat
    BY <1>2
  <2> QED BY <1>2, <2>1, FindType
<1>4. /\ Parts(s).test = IF j = 0 THEN <<>> ELSE Text(s, j + 1, k)
      /\ Parts(s).test_port = IF k = 0 THEN <<>> ELSE Text(s, k + 2, 0)
  BY DEF Parts
<1> HIDE DEF i, j, k
<1>5. j + 1 \in Nat \ {0} /\ k + 2 \in Nat \ {0} /\ 0 <= Len(s)
  BY <1>2, <1>3
<1>6. Text(s, j + 1, k) \in Seq(Symbol) /\ Text(s, k + 2, 0) \in Seq(Symbol)
  BY <1>3, <1>5, TextType
<1>7. <<>> \in Seq(Symbol)
  OBVIOUS
<1> QED
  BY <1>4, <1>6, <1>7

\* parseIpV6Spec: the same.
LEMMA IpV6ServerType ==
  ASSUME NEW s \in Seq(Symbol), ValidIpV6Spec(s),
         NEW server, server = IpV6SpecServer(s)
  PROVE  /\ server \in TargetTestServer
         /\ server = NoServer \/ server.test_addr \in Addr
<1> DEFINE t == Parts(s).test
           q == Parts(s).test_port
           bare == Parts(s).shut = 0 \/ q = <<>>
<1>1. t \in Seq(Symbol) /\ q \in Seq(Symbol)
  BY PartsType
<1>2. CASE t = <<>>
  <2>1. NoServer \in TargetTestServer
    BY DEF NoServer, TargetTestServer
  <2> QED
    BY <1>2, <2>1 DEF IpV6SpecServer
<1>3. CASE t # <<>>
  <2> DEFINE port == IF bare THEN NO_PORT ELSE Htons(q[1].num)
  <2>1. server = [test_addr |-> t[Len(t)].addr, test_port |-> Htons(port)]
    BY <1>3 DEF IpV6SpecServer
  <2>2. \/ IsV6Text(t)
        \/ IsV6Text(Tail(t))
    BY <1>3 DEF ValidIpV6Spec
  <2>3. t[Len(t)].addr \in Addr
    <3> HIDE DEF t
    <3>1. CASE IsV6Text(t)
      BY <3>1, AddrAssumption DEF IsV6Text, IsAddrV6
    <3>2. CASE IsV6Text(Tail(t))
      <4>1. Len(Tail(t)) = Len(t) - 1 /\ \A i \in 1 .. Len(Tail(t)) : Tail(t)[i] = t[i + 1]
        BY <1>1, <1>3, HeadTailProperties
      <4>2. Len(Tail(t)) = 1 /\ Tail(t)[1].addr \in AddrV6
        BY <3>2 DEF IsV6Text, IsAddrV6
      <4>3. Len(t) = 2 /\ Tail(t)[1] = t[2]
        BY <1>1, <4>1, <4>2
      <4> QED
        BY <4>2, <4>3, AddrAssumption
    <3> QED
      BY <2>2, <3>1, <3>2
  <2>4. port \in Int
    <3>1. CASE bare
      BY <3>1 DEF NO_PORT
    <3>2. CASE ~bare
      <4> HIDE DEF q
      <4>1. 1 \in 1 .. Len(q)
        BY <1>1, <3>2
      <4>2. q[1] \in Symbol
        BY <1>1, <4>1, ElementOfSeq
      <4>3. Htons(q[1].num) \in Word
        BY <4>2, SymbolType, HtonsType
      <4>4. MaxWord \in Int
        BY DEF MaxWord
      <4> QED
        BY <3>2, <4>3, <4>4 DEF Word
    <3> QED
      BY <3>1, <3>2
  <2> HIDE DEF port, t
  <2>5. Htons(port) \in Word
    BY <2>4, HtonsType
  <2> QED
    BY <2>1, <2>3, <2>5 DEF TargetTestServer
<1> QED
  BY <1>2, <1>3

\* tcpIpCreateTargetTestServer.
LEMMA ServerType ==
  ASSUME NEW s \in Seq(Symbol), ValidSpec(s)
  PROVE  /\ SpecServer(s) \in TargetTestServer
         /\ SpecServer(s) = NoServer \/ SpecServer(s).test_addr \in Addr
<1>1. CASE IsIpV6Spec(s)
  BY <1>1, IpV6ServerType DEF ValidSpec, SpecServer
<1>2. CASE ~IsIpV6Spec(s)
  BY <1>2, IpV4ServerType DEF ValidSpec, SpecServer
<1> QED
  BY <1>1, <1>2

LEMMA TypeOptions ==
  ASSUME TypeOK, NEW tokens \in Specs, AddTargetTestServer(tokens)
  PROVE  TypeOK'
<1> DEFINE key == SpecKey(tokens)
           server == SpecServer(tokens)
<1>1. ValidSpec(tokens) /\ tokens \in Seq(Symbol) /\ key \in ServerKey
  BY SpecsAssumption DEF AddTargetTestServer
<1>2. /\ server \in TargetTestServer
      /\ server = NoServer \/ server.test_addr \in Addr
  BY <1>1, ServerType
<1> HIDE DEF key, server
<1>3. /\ test_servers' = Put(test_servers, key, server)
      /\ given' = Put(given, key, tokens)
      /\ UNCHANGED <<phase, conversations, first_packet, first_request,
                     initiator, resets>>
  BY DEF AddTargetTestServer, key, server
<1>4. /\ test_servers' \in [DOMAIN test_servers' -> TargetTestServer]
      /\ DOMAIN test_servers' = DOMAIN test_servers \cup {key}
      /\ test_servers'[key] = server
      /\ \A x \in DOMAIN test_servers : x # key => test_servers'[x] = test_servers[x]
  <2>1. test_servers \in [DOMAIN test_servers -> TargetTestServer]
    BY DEF TypeOK
  <2>2. /\ Put(test_servers, key, server)
             \in [DOMAIN test_servers \cup {key} -> TargetTestServer]
        /\ DOMAIN Put(test_servers, key, server) = DOMAIN test_servers \cup {key}
        /\ Put(test_servers, key, server)[key] = server
        /\ \A x \in DOMAIN test_servers :
              x # key => Put(test_servers, key, server)[x] = test_servers[x]
    BY <1>2, <2>1 DEF Put
  <2> QED
    BY <1>3, <2>2
<1>5. /\ given' \in [DOMAIN given \cup {key} -> Specs]
      /\ DOMAIN given = DOMAIN test_servers
  <2>1. given \in [DOMAIN given -> Specs] /\ DOMAIN given = DOMAIN test_servers
    BY DEF TypeOK
  <2> QED
    BY <1>3, <2>1, PutType
<1> QED
  BY <1>1, <1>2, <1>3, <1>4, <1>5 DEF TypeOK, Recorded

LEMMA TypeRecord ==
  ASSUME TypeOK, NEW f, f.packet \in Packet, RecordPacket(f)
  PROVE  TypeOK'
<1> DEFINE p == f.packet
           k == TcpIpGetKey(p)
           c == GetConversation(p)
           d == ProcessCapturePacket(c, p)
           n == IF k \in Recorded THEN resets[k] ELSE 0
           r == IF WasReset(c, p) THEN n + 1 ELSE n
<1>1. /\ p \in Packet /\ k \in Key
      /\ d \in Conversation
      /\ d.cap_tcp_state = "NONE" <=> Protocol = "UDP"
  BY RecordedConversation
<1>2. r \in Nat
  BY DEF TypeOK
<1>3. Sender(p) \in Endpoint
  BY <1>1 DEF Sender, Packet, Endpoint
<1>4. /\ conversations' = Put(conversations, k, d)
      /\ resets' = Put(resets, k, r)
      /\ initiator' = Put(initiator, k, Sender(p)) \/ UNCHANGED initiator
      /\ first_packet' \in {first_packet, k}
      /\ first_request' \in {first_request, k}
      /\ UNCHANGED <<phase, test_servers, given>>
  BY DEF RecordPacket, NoteFirsts, Recorded
<1> HIDE DEF p, k, c, d, n, r
<1>5. /\ conversations' \in [Recorded' -> Conversation]
      /\ Recorded' = Recorded \cup {k}
      /\ conversations'[k] = d
      /\ \A x \in Recorded : x # k => conversations'[x] = conversations[x]
  <2>1. conversations \in [DOMAIN conversations -> Conversation]
    BY DEF TypeOK, Recorded
  <2>2. /\ Put(conversations, k, d) \in [DOMAIN conversations \cup {k} -> Conversation]
        /\ DOMAIN Put(conversations, k, d) = DOMAIN conversations \cup {k}
        /\ Put(conversations, k, d)[k] = d
        /\ \A x \in DOMAIN conversations :
              x # k => Put(conversations, k, d)[x] = conversations[x]
    BY <1>1, <2>1 DEF Put
  <2> QED
    BY <1>4, <2>2 DEF Recorded
<1>6. resets' \in [Recorded \cup {k} -> Nat]
  <2>1. resets \in [DOMAIN resets -> Nat] /\ DOMAIN resets = Recorded
    BY DEF TypeOK
  <2> QED
    BY <1>2, <1>4, <2>1, PutType
<1>7. /\ initiator' \in [DOMAIN initiator' -> Endpoint]
      /\ DOMAIN initiator' \subseteq Recorded \cup {k}
  <2>1. /\ initiator \in [DOMAIN initiator -> Endpoint]
        /\ DOMAIN initiator \subseteq Recorded
    BY DEF TypeOK
  <2>2. CASE initiator' = Put(initiator, k, Sender(p))
    <3>1. Put(initiator, k, Sender(p)) \in [DOMAIN initiator \cup {k} -> Endpoint]
      BY <1>3, <2>1, PutType, Zenon
    <3> QED
      BY <2>1, <2>2, <3>1
  <2>3. CASE UNCHANGED initiator
    BY <2>1, <2>3
  <2> QED
    BY <1>4, <2>2, <2>3
<1> QED
  BY <1>1, <1>4, <1>5, <1>6, <1>7 DEF TypeOK

LEMMA TypeNext ==
  ASSUME TypeOK, [Next]_vars
  PROVE  TypeOK'
<1>1. ASSUME NEW tokens \in Specs, AddTargetTestServer(tokens) PROVE TypeOK'
  BY <1>1, TypeOptions
<1>2. ASSUME NEW tokens \in Specs, RejectSpec(tokens) PROVE TypeOK'
  BY <1>2 DEF RejectSpec, store, history, TypeOK, Recorded
<1>11. ASSUME NEW tokens \in Specs, CrashOnSpec(tokens) PROVE TypeOK'
  BY <1>11 DEF CrashOnSpec, store, history, TypeOK, Recorded
<1>3. CASE OpenCapture
  BY <1>3 DEF OpenCapture, store, history, TypeOK, Recorded
<1>4. ASSUME NEW f \in Frames, RecordPacket(f) PROVE TypeOK'
  BY <1>4, FramePacket, TypeRecord
<1>5. ASSUME NEW f \in Frames, SkipPacket(f) PROVE TypeOK'
  <2>1. TcpIpGetKey(f.packet) \in Key
    BY FramesAssumption, KeyType DEF Frame
  <2> QED
    BY <1>5, <2>1 DEF SkipPacket, NoteFirsts, store, TypeOK, Recorded
<1>6. ASSUME NEW f \in Frames, IgnoreFrame(f) PROVE TypeOK'
  BY <1>6 DEF IgnoreFrame, vars, TypeOK, Recorded
<1>7. ASSUME NEW f \in Frames, CutFrame(f) PROVE TypeOK'
  BY <1>7 DEF CutFrame, store, history, TypeOK, Recorded
<1>8. CASE EndOfCapture
  BY <1>8 DEF EndOfCapture, store, history, TypeOK, Recorded
<1>9. CASE LoadFails
  BY <1>9 DEF LoadFails, store, history, TypeOK, Recorded
<1>10. CASE UNCHANGED vars
  BY <1>10 DEF vars, TypeOK, Recorded
<1> QED
  BY <1>1, <1>2, <1>3, <1>4, <1>5, <1>6, <1>7, <1>8, <1>9, <1>10, <1>11
  DEF Next, PacketHandler

\* The maps of the store, and the history kept beside them, have the types
\* TypeOK states, in every behaviour of the loader.
THEOREM TypeCorrect == Spec => []TypeOK
BY TypeInit, TypeNext, PTL DEF Spec

-----------------------------------------------------------------------------
(* Scripts are well formed and connections are accounted for.              *)

\* WellFormed alone is not inductive: that a message may be added to the queue
\* of an established conversation has to be known beforehand.
Sound(c) ==
  /\ WellFormed(c.action_queue)
  /\ c.cap_tcp_state = "ESTABLISHED" => EndsConnected(c.action_queue)

Count(c, type) == Cardinality(Positions(c.action_queue, type))

Balanced(c, r) ==
  Count(c, "CONNECT") =
    Count(c, "CLOSE") + r + (IF c.cap_tcp_state = "ESTABLISHED" THEN 1 ELSE 0)

RecordingInv ==
  /\ TypeOK
  /\ Protocol = "TCP" =>
       \A k \in Recorded : Sound(conversations[k]) /\ Balanced(conversations[k], resets[k])

LEMMA EmptyQueue ==
  ASSUME NEW c, c.action_queue = <<>>, c.cap_tcp_state # "ESTABLISHED"
  PROVE  Sound(c) /\ Balanced(c, 0)
<1>1. \A type : Positions(c.action_queue, type) = {}
  BY DEF Positions
<1>2. Cardinality({}) = 0
  BY FS_EmptySet
<1>3. Count(c, "CONNECT") = 0 /\ Count(c, "CLOSE") = 0
  BY <1>1, <1>2 DEF Count
<1>4. Balanced(c, 0)
  BY <1>3 DEF Balanced
<1>5. Sound(c)
  BY DEF Sound, WellFormed
<1> QED
  BY <1>4, <1>5

\* What TcpStep lists, for scripts.
LEMMA SoundStep ==
  ASSUME NEW c \in Conversation, c.cap_tcp_state # "NONE", NEW p \in Packet, Sound(c)
  PROVE  Sound(TcpProcessCapturePacket(c, p))
<1> DEFINE d == TcpProcessCapturePacket(c, p)
           a == DataAction(c, p)
           s == c.action_queue
<1> SUFFICES Sound(d)
  OBVIOUS
<1>1. /\ WasReset(c, p) => Reset(c, d)
      /\ ~WasReset(c, p) => \/ Quiet(c, d) \/ Connects(c, d) \/ Closes(c, d)
                            \/ Transfers(c, d, a) \/ TransfersAndCloses(c, d, a)
  BY TcpStep
<1>2. s \in Seq(Action) /\ WellFormed(s)
  BY DEF Conversation, Sound
<1>3. /\ a \in Action /\ a.type # "CLOSE" /\ a.type # "CONNECT"
      /\ Plain("CONNECT") \in Action /\ Plain("CONNECT").type = "CONNECT"
      /\ Plain("CLOSE") \in Action
  BY ActionTypes DEF Plain
<1>4. c.cap_tcp_state = "ESTABLISHED" => EndsConnected(s)
  BY DEF Sound
<1> HIDE DEF d, a, s
<1>5. CASE Quiet(c, d) \/ Reset(c, d)
  BY <1>2, <1>4, <1>5 DEF Quiet, Reset, Sound, s
<1>6. CASE Connects(c, d)
  <2>1. WellFormed(Append(s, Plain("CONNECT"))) /\ EndsConnected(Append(s, Plain("CONNECT")))
    BY <1>2, <1>3, WellFormedAppend, EndsConnectedAppend
  <2>2. d.action_queue = Append(s, Plain("CONNECT"))
    BY <1>6 DEF Connects, s
  <2> QED
    BY <2>1, <2>2, Zenon DEF Sound
<1>7. CASE Closes(c, d)
  <2>1. WellFormed(Append(s, Plain("CLOSE")))
    BY <1>2, <1>3, <1>4, <1>7, WellFormedAppend DEF Closes
  <2>2. d.action_queue = Append(s, Plain("CLOSE")) /\ d.cap_tcp_state # "ESTABLISHED"
    BY <1>7 DEF Closes, s
  <2> QED
    BY <2>1, <2>2, Zenon DEF Sound
<1>8. ASSUME EndsConnected(s)
      PROVE  WellFormed(Append(s, a)) /\ EndsConnected(Append(s, a))
  BY <1>2, <1>3, <1>8, WellFormedAppend, EndsConnectedAppend
<1>9. CASE Transfers(c, d, a)
  <2>1. d.action_queue = Append(s, a) /\ EndsConnected(s)
    BY <1>4, <1>9 DEF Transfers, s
  <2> QED
    BY <1>8, <2>1, Zenon DEF Sound
<1>10. CASE TransfersAndCloses(c, d, a)
  <2> DEFINE t == Append(s, a)
  <2>1. /\ d.action_queue = Append(t, Plain("CLOSE"))
        /\ d.cap_tcp_state # "ESTABLISHED"
        /\ EndsConnected(s)
    BY <1>4, <1>10 DEF TransfersAndCloses, s
  <2>2. t \in Seq(Action) /\ WellFormed(t) /\ EndsConnected(t)
    BY <1>2, <1>3, <1>8, <2>1
  <2> HIDE DEF t
  <2>3. WellFormed(Append(t, Plain("CLOSE")))
    BY <1>3, <2>2, WellFormedAppend
  <2> QED
    BY <2>1, <2>3, Zenon DEF Sound
<1> QED
  BY <1>1, <1>5, <1>6, <1>7, <1>9, <1>10

LEMMA CountAppend ==
  ASSUME NEW s \in Seq(Action), NEW a \in Action, NEW c, NEW type,
         c.action_queue = Append(s, a)
  PROVE  /\ Cardinality(Positions(s, type)) \in Nat
         /\ a.type = type => Count(c, type) = Cardinality(Positions(s, type)) + 1
         /\ a.type # type => Count(c, type) = Cardinality(Positions(s, type))
<1>1. Count(c, type) = Cardinality(Positions(Append(s, a), type))
  BY Zenon DEF Count
<1>2. /\ Cardinality(Positions(s, type)) \in Nat
      /\ Cardinality(Positions(Append(s, a), type)) =
           Cardinality(Positions(s, type)) + (IF a.type = type THEN 1 ELSE 0)
  BY PositionsAppend
<1> QED
  BY <1>1, <1>2

\* What TcpStep lists, for the count of connections.
LEMMA BalancedStep ==
  ASSUME NEW c \in Conversation, c.cap_tcp_state # "NONE", NEW p \in Packet,
         NEW r \in Nat, Balanced(c, r)
  PROVE  Balanced(TcpProcessCapturePacket(c, p), IF WasReset(c, p) THEN r + 1 ELSE r)
<1> DEFINE d == TcpProcessCapturePacket(c, p)
           a == DataAction(c, p)
           s == c.action_queue
           n == IF WasReset(c, p) THEN r + 1 ELSE r
           opened == Cardinality(Positions(s, "CONNECT"))
           closed == Cardinality(Positions(s, "CLOSE"))
<1> SUFFICES Balanced(d, n)
  OBVIOUS
<1>1. /\ WasReset(c, p) => Reset(c, d) /\ n = r + 1
      /\ ~WasReset(c, p) => n = r
      /\ ~WasReset(c, p) => \/ Quiet(c, d) \/ Connects(c, d) \/ Closes(c, d)
                            \/ Transfers(c, d, a) \/ TransfersAndCloses(c, d, a)
  BY TcpStep
<1>2. s \in Seq(Action)
  BY DEF Conversation
<1>3. /\ a \in Action /\ a.type # "CLOSE" /\ a.type # "CONNECT"
      /\ Plain("CONNECT") \in Action /\ Plain("CONNECT").type = "CONNECT"
      /\ Plain("CLOSE") \in Action /\ Plain("CLOSE").type = "CLOSE"
  BY ActionTypes DEF Plain
<1>4. opened \in Nat /\ closed \in Nat
  BY <1>2, <1>3, PositionsAppend
<1>5. opened = closed + r + (IF c.cap_tcp_state = "ESTABLISHED" THEN 1 ELSE 0)
  BY DEF Balanced, Count
<1> HIDE DEF d, a, n, s, opened, closed
<1>6. CASE Quiet(c, d) \/ Reset(c, d)
  <2>1. d.action_queue = s
    BY <1>6 DEF Quiet, Reset, s
  <2>2. Count(d, "CONNECT") = opened /\ Count(d, "CLOSE") = closed
    BY <2>1, Zenon DEF Count, opened, closed
  <2>3. ~WasReset(c, p) \/ Reset(c, d)
    BY <1>1
  <2>4. Reset(c, d) => WasReset(c, p)
    BY <1>1 DEF Reset, Quiet, Connects, Closes, Transfers, TransfersAndCloses
  <2> QED
    BY <1>1, <1>4, <1>5, <1>6, <2>2, <2>3, <2>4 DEF Balanced, Quiet, Reset
<1>7. CASE Connects(c, d) /\ n = r
  <2>1. d.action_queue = Append(s, Plain("CONNECT"))
    BY <1>7 DEF Connects, s
  <2>2. Count(d, "CONNECT") = opened + 1 /\ Count(d, "CLOSE") = closed
    BY <1>2, <1>3, <2>1, CountAppend DEF opened, closed
  <2> QED
    BY <1>4, <1>5, <1>7, <2>2 DEF Balanced, Connects
<1>8. CASE Closes(c, d) /\ n = r
  <2>1. d.action_queue = Append(s, Plain("CLOSE"))
    BY <1>8 DEF Closes, s
  <2>2. Count(d, "CONNECT") = opened /\ Count(d, "CLOSE") = closed + 1
    BY <1>2, <1>3, <2>1, CountAppend DEF opened, closed
  <2> QED
    BY <1>4, <1>5, <1>8, <2>2 DEF Balanced, Closes
<1>9. CASE Transfers(c, d, a) /\ n = r
  <2>1. d.action_queue = Append(s, a)
    BY <1>9 DEF Transfers, s
  <2>2. Count(d, "CONNECT") = opened /\ Count(d, "CLOSE") = closed
    BY <1>2, <1>3, <2>1, CountAppend DEF opened, closed
  <2> QED
    BY <1>4, <1>5, <1>9, <2>2 DEF Balanced, Transfers
<1>10. CASE TransfersAndCloses(c, d, a) /\ n = r
  <2> DEFINE t == Append(s, a)
             e == [action_queue |-> t]
  <2>1. d.action_queue = Append(t, Plain("CLOSE")) /\ t \in Seq(Action)
    BY <1>2, <1>3, <1>10 DEF TransfersAndCloses, s
  <2>2. /\ Cardinality(Positions(t, "CONNECT")) = opened
        /\ Cardinality(Positions(t, "CLOSE")) = closed
    <3>1. e.action_queue = Append(s, a)
      OBVIOUS
    <3>2. /\ Count(e, "CONNECT") = Cardinality(Positions(t, "CONNECT"))
          /\ Count(e, "CLOSE") = Cardinality(Positions(t, "CLOSE"))
      BY <3>1, Zenon DEF Count
    <3> HIDE DEF e, t
    <3> QED
      BY <1>2, <1>3, <3>1, <3>2, CountAppend DEF opened, closed
  <2> HIDE DEF t
  <2>3. Count(d, "CONNECT") = opened /\ Count(d, "CLOSE") = closed + 1
    BY <1>3, <2>1, <2>2, CountAppend
  <2> QED
    BY <1>4, <1>5, <1>10, <2>3 DEF Balanced, TransfersAndCloses
<1>11. WasReset(c, p) \/ n = r
  BY <1>1
<1> QED
  BY <1>1, <1>6, <1>7, <1>8, <1>9, <1>10, <1>11

LEMMA RecordingInit == Init => RecordingInv
BY TypeInit DEF Init, RecordingInv, NoEntries, Recorded

LEMMA RecordingRecord ==
  ASSUME RecordingInv, Protocol = "TCP", NEW f \in Frames, RecordPacket(f),
         NEW x \in Recorded'
  PROVE  Sound(conversations'[x]) /\ Balanced(conversations'[x], resets'[x])
<1> DEFINE p == f.packet
           k == TcpIpGetKey(p)
           c == GetConversation(p)
           d == ProcessCapturePacket(c, p)
           n == IF k \in Recorded THEN resets[k] ELSE 0
           r == IF WasReset(c, p) THEN n + 1 ELSE n
<1>0. TypeOK
  BY DEF RecordingInv
<1>1. /\ p \in Packet /\ c \in Conversation /\ d = TcpProcessCapturePacket(c, p)
      /\ c.cap_tcp_state # "NONE"
      /\ k \notin Recorded => /\ c.action_queue = <<>>
                              /\ c.cap_tcp_state # "ESTABLISHED"
  BY <1>0, FramePacket, RecordedConversation
<1>2. n \in Nat
  BY <1>0 DEF TypeOK
<1>3. /\ conversations' = Put(conversations, k, d)
      /\ resets' = Put(resets, k, r)
      /\ DOMAIN resets = Recorded
  BY <1>0 DEF RecordPacket, Recorded, TypeOK
<1>4. k \in Recorded => c = conversations[k]
  BY DEF GetConversation, Recorded
<1>5. Sound(c) /\ Balanced(c, n)
  <2>1. CASE k \in Recorded
    BY <1>4, <2>1 DEF RecordingInv
  <2>2. CASE k \notin Recorded
    <3>1. n = 0
      BY <2>2
    <3> HIDE DEF c, n
    <3> QED
      BY <1>1, <2>2, <3>1, EmptyQueue
  <2> QED
    BY <2>1, <2>2
<1> HIDE DEF p, k, c, d, n
<1>6. Sound(d) /\ Balanced(d, r)
  <2>1. Sound(d)
    BY <1>1, <1>5, SoundStep
  <2>2. Balanced(d, r)
    BY <1>1, <1>2, <1>5, BalancedStep
  <2> QED
    BY <2>1, <2>2
<1> HIDE DEF r
<1>7. CASE x = k
  BY <1>3, <1>6, <1>7 DEF Put
<1>8. CASE x # k
  <2>1. x \in Recorded
    BY <1>3, <1>8 DEF Put, Recorded
  <2>2. conversations'[x] = conversations[x] /\ resets'[x] = resets[x]
    BY <1>3, <1>8, <2>1 DEF Put, Recorded
  <2> QED
    BY <2>1, <2>2 DEF RecordingInv
<1> QED
  BY <1>7, <1>8

LEMMA RecordingNext ==
  ASSUME RecordingInv, [Next]_vars
  PROVE  RecordingInv'
<1>1. TypeOK'
  BY TypeNext DEF RecordingInv
<1>2. ASSUME Protocol = "TCP", UNCHANGED <<conversations, resets>>
      PROVE  \A k \in Recorded' : Sound(conversations'[k]) /\ Balanced(conversations'[k], resets'[k])
  BY <1>2 DEF RecordingInv, Recorded
<1>3. ASSUME Protocol = "TCP", NEW f \in Frames, RecordPacket(f)
      PROVE  \A k \in Recorded' : Sound(conversations'[k]) /\ Balanced(conversations'[k], resets'[k])
  BY <1>3, RecordingRecord
<1>4. \/ UNCHANGED <<conversations, resets>>
      \/ \E f \in Frames : RecordPacket(f)
  BY DEF Next, PacketHandler, vars, store, history, AddTargetTestServer, RejectSpec, CrashOnSpec,
         OpenCapture, LoadFails, EndOfCapture, SkipPacket, IgnoreFrame, CutFrame
<1> QED
  BY <1>1, <1>2, <1>3, <1>4 DEF RecordingInv

LEMMA RecordingInvariant == Spec => []RecordingInv
BY RecordingInit, RecordingNext, PTL DEF Spec

\* Whatever the capture holds, no action of a recorded TCP conversation finds
\* its connection missing when the queue is replayed.
THEOREM WellFormedScripts == Spec => []ScriptsAreWellFormed
<1>1. RecordingInv => ScriptsAreWellFormed
  BY DEF RecordingInv, ScriptsAreWellFormed, Sound
<1> QED
  BY <1>1, RecordingInvariant, PTL

\* The connections a queue opens and does not close are the ones that were
\* reset, and the one still open.
THEOREM AccountedConnections == Spec => []ConnectionsAreAccountedFor
<1>1. RecordingInv => ConnectionsAreAccountedFor
  BY DEF RecordingInv, ConnectionsAreAccountedFor, Balanced, Count
<1> QED
  BY <1>1, RecordingInvariant, PTL

-----------------------------------------------------------------------------
(* Refinement.                                                             *)

\* One frame, seen through the script of TheKey.
LEMMA ScriptRecord ==
  ASSUME TypeOK, Protocol = "TCP", NEW f \in Frames, RecordPacket(f)
  PROVE  [Script!Next]_(Script!vars)
<1> DEFINE p == f.packet
           k == TcpIpGetKey(p)
           c == GetConversation(p)
           d == ProcessCapturePacket(c, p)
           a == DataAction(c, p)
<1>1. /\ p \in Packet /\ c \in Conversation /\ d = TcpProcessCapturePacket(c, p)
      /\ c.cap_tcp_state # "NONE"
      /\ k \notin Recorded => /\ c.action_queue = <<>>
                              /\ c.cap_tcp_state # "ESTABLISHED"
  BY FramePacket, RecordedConversation
<1>2. conversations' = Put(conversations, k, d)
  BY DEF RecordPacket
<1>3. k \in Recorded => c = conversations[k]
  BY DEF GetConversation, Recorded
<1>4. HasData(p) => a \in Script!Transfer
  BY <1>1, ActionTypes DEF DataAction, Script!Transfer, HasData, Packet
<1>5. /\ Plain("CONNECT") = Script!Step("CONNECT")
      /\ Plain("CLOSE") = Script!Step("CLOSE")
  BY DEF Plain, Script!Step
<1>6. \/ Reset(c, d) \/ Quiet(c, d) \/ Connects(c, d) \/ Closes(c, d)
      \/ a \in Script!Transfer /\ (Transfers(c, d, a) \/ TransfersAndCloses(c, d, a))
  <2> HIDE DEF p, c, d, a
  <2>1. LET e == TcpProcessCapturePacket(c, p)
        IN  \/ Reset(c, e) \/ Quiet(c, e) \/ Connects(c, e) \/ Closes(c, e)
            \/ HasData(p) /\ (\/ Transfers(c, e, DataAction(c, p))
                              \/ TransfersAndCloses(c, e, DataAction(c, p)))
    BY <1>1, TcpStep
  <2> QED
    BY <1>1, <1>4, <2>1 DEF a
<1> HIDE DEF p, k, c, d, a
<1>7. CASE k # TheKey
  <2>1. UNCHANGED <<ScriptOpen, ScriptSoFar>>
    BY <1>2, <1>7 DEF ScriptOpen, ScriptSoFar, Put, Recorded
  <2> QED
    BY <2>1 DEF Script!vars
<1>8. CASE k = TheKey
  <2>1. /\ ScriptOpen <=> c.cap_tcp_state = "ESTABLISHED"
        /\ ScriptSoFar = c.action_queue
    BY <1>1, <1>3, <1>8 DEF ScriptOpen, ScriptSoFar
  <2>2. /\ ScriptOpen' <=> d.cap_tcp_state = "ESTABLISHED"
        /\ ScriptSoFar' = d.action_queue
    BY <1>2, <1>8 DEF ScriptOpen, ScriptSoFar, Put, Recorded
  <2>3. ScriptOpen \in BOOLEAN /\ ScriptOpen' \in BOOLEAN
    BY DEF ScriptOpen
  <2>4. CASE Reset(c, d)
    <3>1. Script!Abort
      BY <2>1, <2>2, <2>3, <2>4 DEF Reset, Script!Abort
    <3> QED
      BY <3>1 DEF Script!Next
  <2>5. CASE Quiet(c, d)
    <3>1. UNCHANGED <<ScriptOpen, ScriptSoFar>>
      BY <2>1, <2>2, <2>3, <2>5 DEF Quiet
    <3> QED
      BY <3>1 DEF Script!vars
  <2>6. CASE Connects(c, d)
    <3>1. Script!Connect
      BY <1>5, <2>1, <2>2, <2>3, <2>6, Zenon DEF Connects, Script!Connect
    <3> QED
      BY <3>1 DEF Script!Next
  <2>7. CASE Closes(c, d)
    <3>1. Script!Close
      BY <1>5, <2>1, <2>2, <2>3, <2>7, Zenon DEF Closes, Script!Close
    <3> QED
      BY <3>1 DEF Script!Next
  <2>8. CASE a \in Script!Transfer /\ Transfers(c, d, a)
    <3>1. Script!Exchange(a)
      BY <2>1, <2>2, <2>3, <2>8, Zenon DEF Transfers, Script!Exchange
    <3> QED
      BY <2>8, <3>1 DEF Script!Next
  <2>9. CASE a \in Script!Transfer /\ TransfersAndCloses(c, d, a)
    <3>1. Script!ExchangeAndClose(a)
      BY <1>5, <2>1, <2>2, <2>3, <2>9, Zenon DEF TransfersAndCloses, Script!ExchangeAndClose
    <3> QED
      BY <2>9, <3>1 DEF Script!Next
  <2> QED
    BY <1>6, <2>4, <2>5, <2>6, <2>7, <2>8, <2>9
<1> QED
  BY <1>7, <1>8

\* Every recorded TCP conversation implements ConversationScript.
THEOREM CaptureRefinesScript ==
  ASSUME Protocol = "TCP"
  PROVE  Spec => ImplementsScript
<1>1. Init => Script!Init
  BY DEF Init, NoEntries, Script!Init, ScriptOpen, ScriptSoFar, Recorded
<1>2. TypeOK /\ [Next]_vars => [Script!Next]_(Script!vars)
  <2> SUFFICES ASSUME TypeOK, [Next]_vars PROVE [Script!Next]_(Script!vars)
    OBVIOUS
  <2>1. CASE UNCHANGED conversations
    <3>1. UNCHANGED <<ScriptOpen, ScriptSoFar>>
      BY <2>1 DEF ScriptOpen, ScriptSoFar, Recorded
    <3> QED
      BY <3>1 DEF Script!vars
  <2>2. \/ UNCHANGED conversations
        \/ \E f \in Frames : RecordPacket(f)
    BY DEF Next, PacketHandler, vars, store, history, AddTargetTestServer, RejectSpec, CrashOnSpec,
           OpenCapture, LoadFails, EndOfCapture, SkipPacket, IgnoreFrame, CutFrame
  <2> QED
    BY <2>1, <2>2, ScriptRecord
<1> QED
  BY <1>1, <1>2, TypeCorrect, PTL DEF Spec, ImplementsScript, Script!Spec

-----------------------------------------------------------------------------
(* Keys.                                                                   *)

PairKey(e, f) ==
  IF e[1] < f[1] \/ (e[1] = f[1] /\ e[2] < f[2])
  THEN GenerateKey(e, f) ELSE GenerateKey(f, e)

LEMMA EndpointIsPair ==
  ASSUME NEW e \in Endpoint
  PROVE  e = <<e[1], e[2]>> /\ e[1] \in Int /\ e[2] \in Int
<1>1. e = <<e[1], e[2]>> /\ e[1] \in Addr /\ e[2] \in Port
  BY DEF Endpoint
<1>2. e[1] \in Nat
  BY <1>1, AddrAssumption
<1>3. e[2] \in Word
  BY <1>1, PortAssumption
<1>4. MaxWord \in Int
  BY DEF MaxWord
<1> QED
  BY <1>1, <1>2, <1>3, <1>4 DEF Word

\* The key does not tell the directions apart.
LEMMA KeyIsSymmetric ==
  ASSUME NEW e \in Endpoint, NEW f \in Endpoint
  PROVE  PairKey(e, f) = PairKey(f, e)
<1>1. /\ e = <<e[1], e[2]>> /\ e[1] \in Int /\ e[2] \in Int
      /\ f = <<f[1], f[2]>> /\ f[1] \in Int /\ f[2] \in Int
  BY EndpointIsPair
<1>2. CASE e[1] < f[1] \/ (e[1] = f[1] /\ e[2] < f[2])
  BY <1>1, <1>2 DEF PairKey
<1>3. CASE f[1] < e[1] \/ (f[1] = e[1] /\ f[2] < e[2])
  BY <1>1, <1>3 DEF PairKey
<1>4. CASE e[1] = f[1] /\ e[2] = f[2]
  <2>1. e = f
    BY <1>1, <1>4, Zenon
  <2> QED
    BY <2>1
<1> QED
  BY <1>1, <1>2, <1>3, <1>4

\* The key tells everything else: the endpoints can be read back.
LEMMA KeyNamesBoth ==
  ASSUME NEW e \in Endpoint, NEW f \in Endpoint, NEW g \in Endpoint, NEW h \in Endpoint,
         PairKey(e, f) = PairKey(g, h)
  PROVE  (e = g /\ f = h) \/ (e = h /\ f = g)
<1>1. /\ e = <<e[1], e[2]>> /\ f = <<f[1], f[2]>>
      /\ g = <<g[1], g[2]>> /\ h = <<h[1], h[2]>>
  BY EndpointIsPair
<1>2. /\ PairKey(e, f) = GenerateKey(e, f) \/ PairKey(e, f) = GenerateKey(f, e)
      /\ PairKey(g, h) = GenerateKey(g, h) \/ PairKey(g, h) = GenerateKey(h, g)
  BY DEF PairKey
<1>3. ASSUME NEW x \in Endpoint, NEW y \in Endpoint, NEW u \in Endpoint, NEW v \in Endpoint,
             GenerateKey(x, y) = GenerateKey(u, v)
      PROVE  x = u /\ y = v
  <2>1. /\ x = <<x[1], x[2]>> /\ y = <<y[1], y[2]>>
        /\ u = <<u[1], u[2]>> /\ v = <<v[1], v[2]>>
    BY EndpointIsPair
  <2>2. x[1] = u[1] /\ x[2] = u[2] /\ y[1] = v[1] /\ y[2] = v[2]
    BY <1>3 DEF GenerateKey
  <2> QED
    BY <2>1, <2>2, Zenon
<1> QED
  BY <1>2, <1>3, Zenon

LEMMA PacketEnds ==
  ASSUME NEW p \in Packet
  PROVE  /\ Sender(p) \in Endpoint /\ Receiver(p) \in Endpoint
         /\ TcpIpGetKey(p) = PairKey(Sender(p), Receiver(p))
BY DEF Packet, Sender, Receiver, Endpoint, TcpIpGetKey, PairKey

LEMMA ConversationEnds ==
  ASSUME NEW c \in Conversation
  PROVE  CapSource(c) \in Endpoint /\ CapDest(c) \in Endpoint
BY DEF Conversation, CapSource, CapDest, Endpoint

-----------------------------------------------------------------------------
(* What one packet does to a conversation, beyond TcpStep and UdpStep.     *)

SameSides(c, d) ==
  /\ d.cap_src_addr = c.cap_src_addr /\ d.cap_src_port = c.cap_src_port
  /\ d.cap_dest_addr = c.cap_dest_addr /\ d.cap_dest_port = c.cap_dest_port
  /\ d.test_addr = c.test_addr /\ d.test_port = c.test_port

Opening == {"SYN_SENT", "SYN_RECEIVED", "ESTABLISHED"}

\* An action of d is one of c, or holds no data, or what p carries.
OnlyNew(c, d, p) ==
  \A i \in 1 .. Len(d.action_queue) :
     \/ i \in 1 .. Len(c.action_queue) /\ d.action_queue[i] = c.action_queue[i]
     \/ d.action_queue[i].data = NoData
     \/ HasData(p) /\ d.action_queue[i] = DataAction(c, p)

LEMMA EnterKeepsSides ==
  ASSUME NEW c \in Conversation, NEW state
  PROVE  SameSides(c, Enter(c, state))
BY DEF Enter, Conversation, SameSides

LEMMA PushKeepsSides ==
  ASSUME NEW c \in Conversation, NEW a
  PROVE  SameSides(c, Push(c, a))
BY DEF Push, Conversation, SameSides

LEMMA SidesCompose ==
  ASSUME NEW c, NEW d, NEW e, SameSides(c, d), SameSides(d, e)
  PROVE  SameSides(c, e)
BY DEF SameSides

LEMMA EnterAndPushKeepsSides ==
  ASSUME NEW c \in Conversation, NEW state \in TcpState, NEW a
  PROVE  SameSides(c, Push(Enter(c, state), a))
BY EnterType, EnterKeepsSides, PushKeepsSides, SidesCompose, Zenon

LEMMA TcpSides ==
  ASSUME NEW c \in Conversation, c.cap_tcp_state # "NONE", NEW p \in Packet
  PROVE  LET d == TcpProcessCapturePacket(c, p)
         IN  /\ SameSides(c, d)
             /\ d.cap_tcp_state \in Opening =>
                  \/ c.cap_tcp_state \in Opening
                  \/ /\ c.cap_tcp_state = "CLOSED" /\ d.cap_tcp_state = "SYN_SENT"
                     /\ p.src = c.cap_src_addr
<1> DEFINE d == TcpProcessCapturePacket(c, p)
           a == DataAction(c, p)
<1> SUFFICES /\ SameSides(c, d)
             /\ d.cap_tcp_state \in Opening =>
                  \/ c.cap_tcp_state \in Opening
                  \/ /\ c.cap_tcp_state = "CLOSED" /\ d.cap_tcp_state = "SYN_SENT"
                     /\ p.src = c.cap_src_addr
  OBVIOUS
<1>0. /\ c.cap_tcp_state \in {"CLOSED", "SYN_SENT", "SYN_RECEIVED", "ESTABLISHED"}
      /\ {"CLOSED", "SYN_SENT", "SYN_RECEIVED", "ESTABLISHED"} \subseteq TcpState
  BY DEF Conversation, TcpState
<1>1. SameSides(c, c)
  BY DEF SameSides
<1>2. CASE p.proto # "TCP"
  <2>1. d = c
    BY <1>2 DEF TcpProcessCapturePacket
  <2> QED
    BY <1>1, <2>1
<1>3. CASE p.proto = "TCP" /\ HasRst(p)
  <2>1. d = Enter(c, "CLOSED")
    BY <1>3 DEF TcpProcessCapturePacket
  <2>a. "CLOSED" \in TcpState
    BY <1>0
  <2>2. SameSides(c, d) /\ d.cap_tcp_state = "CLOSED"
    BY <2>1, <2>a, EnterKeepsSides, EnterType
  <2> QED
    BY <2>2 DEF Opening
<1>4. CASE p.proto = "TCP" /\ ~HasRst(p)
  <2>1. CASE c.cap_tcp_state = "CLOSED"
    <3>1. d = IF p.src = c.cap_src_addr /\ p.flags = {"SYN"} THEN Enter(c, "SYN_SENT") ELSE c
      BY <1>4, <2>1 DEF TcpProcessCapturePacket, CloseProcessCapturePacket
    <3>2. SameSides(c, Enter(c, "SYN_SENT")) /\ Enter(c, "SYN_SENT").cap_tcp_state = "SYN_SENT"
      BY <1>0, EnterKeepsSides, EnterType
    <3> HIDE DEF d
    <3> QED
      BY <1>1, <2>1, <3>1, <3>2
  <2>2. CASE c.cap_tcp_state = "SYN_SENT"
    <3>1. d = c \/ d = Enter(c, "SYN_RECEIVED")
      BY <1>4, <2>2 DEF TcpProcessCapturePacket, SynSentProcessCapturePacket
    <3> QED
      BY <1>1, <2>2, <3>1, EnterKeepsSides DEF Opening
  <2>3. CASE c.cap_tcp_state = "SYN_RECEIVED"
    <3>1. d = c \/ d = Push(Enter(c, "ESTABLISHED"), Plain("CONNECT"))
      BY <1>4, <2>3 DEF TcpProcessCapturePacket, SynRecvProcessCapturePacket
    <3>2. SameSides(c, d)
      BY <1>0, <1>1, <3>1, EnterAndPushKeepsSides
    <3> QED
      BY <2>3, <3>2 DEF Opening
  <2>4. CASE c.cap_tcp_state = "ESTABLISHED"
    <3> DEFINE e == IF HasData(p) THEN Push(c, a) ELSE c
    <3>1. d = e \/ d = Push(Enter(e, "CLOSED"), Plain("CLOSE"))
      BY <1>4, <2>4 DEF TcpProcessCapturePacket, EstProcessCapturePacket
    <3>2. e \in Conversation /\ SameSides(c, e)
      BY <1>1, ActionTypes, PushType, PushKeepsSides
    <3> HIDE DEF e
    <3>3. SameSides(e, d)
      <4>1. SameSides(e, e)
        BY DEF SameSides
      <4> QED
        BY <1>0, <3>1, <3>2, <4>1, EnterAndPushKeepsSides
    <3>4. SameSides(c, d)
      BY <3>2, <3>3, SidesCompose
    <3> QED
      BY <2>4, <3>4 DEF Opening
  <2> QED
    BY <1>0, <2>1, <2>2, <2>3, <2>4
<1> QED
  BY <1>2, <1>3, <1>4

LEMMA AppendElements ==
  ASSUME NEW S, NEW s \in Seq(S), NEW a
  PROVE  /\ Len(Append(s, a)) = Len(s) + 1
         /\ Len(s) \in Nat
         /\ Append(s, a)[Len(s) + 1] = a
         /\ \A i \in 1 .. Len(s) : Append(s, a)[i] = s[i]
OBVIOUS

\* One action appended: it is new, the others are those that were there.
LEMMA OnlyNewAppend ==
  ASSUME NEW c, c.action_queue \in Seq(Action), NEW d, NEW p, NEW a,
         d.action_queue = Append(c.action_queue, a),
         a.data = NoData \/ (HasData(p) /\ a = DataAction(c, p))
  PROVE  OnlyNew(c, d, p)
<1> DEFINE s == c.action_queue
           t == d.action_queue
<1>1. /\ Len(t) = Len(s) + 1 /\ Len(s) \in Nat /\ t[Len(s) + 1] = a
      /\ \A i \in 1 .. Len(s) : t[i] = s[i]
  BY AppendElements
<1> HIDE DEF s, t
<1>2. ASSUME NEW i \in 1 .. Len(t)
      PROVE  i \in 1 .. Len(s) \/ i = Len(s) + 1
  BY <1>1
<1>3. ASSUME NEW i \in 1 .. Len(t)
      PROVE  \/ i \in 1 .. Len(s) /\ t[i] = s[i]
             \/ t[i].data = NoData
             \/ HasData(p) /\ t[i] = DataAction(c, p)
  BY <1>1, <1>2, Zenon
<1> QED
  BY <1>3, Zenon DEF OnlyNew, s, t

LEMMA OnlyNewAppendTwo ==
  ASSUME NEW c, c.action_queue \in Seq(Action), NEW d, NEW p, NEW a \in Action, NEW b,
         d.action_queue = Append(Append(c.action_queue, a), b),
         HasData(p) /\ a = DataAction(c, p), b.data = NoData
  PROVE  OnlyNew(c, d, p)
<1> DEFINE s == c.action_queue
           t == Append(s, a)
           u == d.action_queue
<1>0. t \in Seq(Action) /\ u = Append(t, b)
  OBVIOUS
<1>1. /\ Len(t) = Len(s) + 1 /\ Len(s) \in Nat /\ t[Len(s) + 1] = a
      /\ \A i \in 1 .. Len(s) : t[i] = s[i]
  BY AppendElements
<1> HIDE DEF s, t, u
<1>2. /\ Len(u) = Len(t) + 1 /\ u[Len(t) + 1] = b
      /\ \A i \in 1 .. Len(t) : u[i] = t[i]
  BY <1>0, AppendElements
<1>3. ASSUME NEW i \in 1 .. Len(u)
      PROVE  \/ i \in 1 .. Len(s) /\ i \in 1 .. Len(t)
             \/ i = Len(s) + 1 /\ i \in 1 .. Len(t)
             \/ i = Len(t) + 1
  BY <1>1, <1>2
<1>4. ASSUME NEW i \in 1 .. Len(u)
      PROVE  \/ i \in 1 .. Len(s) /\ u[i] = s[i]
             \/ u[i].data = NoData
             \/ HasData(p) /\ u[i] = DataAction(c, p)
  BY <1>1, <1>2, <1>3, Zenon
<1> QED
  BY <1>4, Zenon DEF OnlyNew, s, u

LEMMA TcpNewActions ==
  ASSUME NEW c \in Conversation, c.cap_tcp_state # "NONE", NEW p \in Packet
  PROVE  OnlyNew(c, TcpProcessCapturePacket(c, p), p)
<1> DEFINE d == TcpProcessCapturePacket(c, p)
           a == DataAction(c, p)
<1> SUFFICES OnlyNew(c, d, p)
  OBVIOUS
<1>1. /\ WasReset(c, p) => Reset(c, d)
      /\ ~WasReset(c, p) =>
           \/ Quiet(c, d)
           \/ Connects(c, d)
           \/ HasData(p) /\ Transfers(c, d, a)
           \/ Closes(c, d)
           \/ HasData(p) /\ TransfersAndCloses(c, d, a)
  BY TcpStep
<1>2. c.action_queue \in Seq(Action) /\ a \in Action
  BY ActionTypes DEF Conversation
<1>3. Plain("CONNECT").data = NoData /\ Plain("CLOSE").data = NoData
  BY DEF Plain
<1> HIDE DEF d
<1>4. CASE d.action_queue = c.action_queue
  BY <1>4 DEF OnlyNew
<1>5. CASE Connects(c, d)
  BY <1>2, <1>3, <1>5, OnlyNewAppend DEF Connects
<1>6. CASE Closes(c, d)
  BY <1>2, <1>3, <1>6, OnlyNewAppend DEF Closes
<1>7. CASE HasData(p) /\ Transfers(c, d, a)
  BY <1>2, <1>7, OnlyNewAppend DEF Transfers
<1>8. CASE HasData(p) /\ TransfersAndCloses(c, d, a)
  BY <1>2, <1>3, <1>8, OnlyNewAppendTwo DEF TransfersAndCloses
<1> QED
  BY <1>1, <1>4, <1>5, <1>6, <1>7, <1>8 DEF Quiet, Reset

LEMMA UdpSides ==
  ASSUME NEW c \in Conversation, NEW p \in Packet
  PROVE  /\ SameSides(c, UdpProcessCapturePacket(c, p))
         /\ OnlyNew(c, UdpProcessCapturePacket(c, p), p)
<1> DEFINE d == UdpProcessCapturePacket(c, p)
           a == DataAction(c, p)
<1> SUFFICES SameSides(c, d) /\ OnlyNew(c, d, p)
  OBVIOUS
<1>1. CASE p.proto = "UDP"
  <2>1. d = Push(c, a)
    BY <1>1 DEF UdpProcessCapturePacket
  <2>2. /\ c.action_queue \in Seq(Action)
        /\ a \in Action /\ a.data = p.data
    BY ActionTypes DEF Conversation
  <2>3. d.action_queue = Append(c.action_queue, a) /\ SameSides(c, d)
    BY <2>1, <2>2, PushType, PushKeepsSides
  <2>4. a.data = NoData \/ HasData(p)
    BY <2>2 DEF HasData
  <2> HIDE DEF d
  <2> QED
    BY <2>2, <2>3, <2>4, OnlyNewAppend
<1>2. CASE p.proto # "UDP"
  <2>1. d = c
    BY <1>2 DEF UdpProcessCapturePacket
  <2> QED
    BY <2>1 DEF SameSides, OnlyNew
<1> QED
  BY <1>1, <1>2

-----------------------------------------------------------------------------
(* The inductive invariant.                                                *)

\* A conversation is filed under the key of its two sides.
FiledByPair(k, c) == k = PairKey(CapSource(c), CapDest(c))

\* What is sent comes from its source, what is received from its destination.
DataOfSides(c) ==
  \A i \in 1 .. Len(c.action_queue) :
     LET a == c.action_queue[i]
     IN  a.data # NoData =>
           a.data.by = IF a.type = "SEND" THEN CapSource(c) ELSE CapDest(c)

\* Its connection is being opened by its source.
OpenedBySource(k, c) ==
  c.cap_tcp_state \in Opening /\ c.cap_src_addr # c.cap_dest_addr =>
    k \in DOMAIN initiator /\ initiator[k] = CapSource(c)

SidesInv ==
  /\ TypeOK
  /\ \A k \in Recorded :
        /\ FiledByPair(k, conversations[k])
        /\ DataOfSides(conversations[k])
        /\ OpenedBySource(k, conversations[k])

LEMMA SameSidesEnds ==
  ASSUME NEW c, NEW d, SameSides(c, d)
  PROVE  CapSource(d) = CapSource(c) /\ CapDest(d) = CapDest(c)
BY DEF SameSides, CapSource, CapDest

\* A conversation as its first packet makes it.
LEMMA NewSides ==
  ASSUME NEW state, NEW p, NEW server, NEW c, c = NewConversation(state, p, server)
  PROVE  /\ CapSource(c) = Sender(p) /\ CapDest(c) = Receiver(p)
         /\ c.action_queue = <<>> /\ c.cap_tcp_state = state
BY DEF NewConversation, CapSource, CapDest, Sender, Receiver

\* A packet of the conversation comes from one of its sides.
LEMMA DataActionOfSides ==
  ASSUME NEW c \in Conversation, NEW p \in Packet, FiledByPair(TcpIpGetKey(p), c),
         HasData(p), Signed(p)
  PROVE  LET a == DataAction(c, p)
         IN  a.data.by = IF a.type = "SEND" THEN CapSource(c) ELSE CapDest(c)
<1> DEFINE a == DataAction(c, p)
<1>1. /\ Sender(p) \in Endpoint /\ Receiver(p) \in Endpoint
      /\ CapSource(c) \in Endpoint /\ CapDest(c) \in Endpoint
      /\ PairKey(Sender(p), Receiver(p)) = PairKey(CapSource(c), CapDest(c))
  BY PacketEnds, ConversationEnds DEF FiledByPair
<1>2. Sender(p) = CapSource(c) \/ Sender(p) = CapDest(c)
  BY <1>1, KeyNamesBoth
<1>3. a.data = p.data /\ p.data.by = Sender(p)
  BY DEF DataAction, Signed
<1>4. a.type = IF Sender(p) = CapSource(c) THEN "SEND" ELSE "RECV"
  <2>1. Sender(p) = CapSource(c) <=> p.src = c.cap_src_addr /\ p.sport = c.cap_src_port
    BY DEF Sender, CapSource
  <2> QED
    BY <2>1 DEF DataAction
<1> HIDE DEF a
<1>5. a.data.by = IF a.type = "SEND" THEN CapSource(c) ELSE CapDest(c)
  BY <1>2, <1>3, <1>4
<1> QED
  BY <1>5 DEF a

LEMMA DataOfSidesStep ==
  ASSUME NEW c \in Conversation, NEW d \in Conversation, NEW p \in Packet,
         FiledByPair(TcpIpGetKey(p), c), Signed(p), DataOfSides(c),
         SameSides(c, d), OnlyNew(c, d, p)
  PROVE  DataOfSides(d)
<1>1. CapSource(d) = CapSource(c) /\ CapDest(d) = CapDest(c)
  BY SameSidesEnds
<1> DEFINE b == DataAction(c, p)
<1>2. HasData(p) => b.data.by = IF b.type = "SEND" THEN CapSource(c) ELSE CapDest(c)
  BY DataActionOfSides
<1> HIDE DEF b
<1> SUFFICES ASSUME NEW i \in 1 .. Len(d.action_queue),
                    NEW a, a = d.action_queue[i], a.data # NoData
             PROVE  a.data.by = IF a.type = "SEND" THEN CapSource(c) ELSE CapDest(c)
  BY <1>1 DEF DataOfSides
<1>3. CASE i \in 1 .. Len(c.action_queue) /\ a = c.action_queue[i]
  BY <1>3 DEF DataOfSides
<1>4. CASE HasData(p) /\ a = b
  BY <1>2, <1>4
<1> QED
  BY <1>3, <1>4 DEF OnlyNew, b

LEMMA SidesInit == Init => SidesInv
BY TypeInit DEF Init, SidesInv, NoEntries, Recorded

\* The conversation a packet is filed with, seen from its sides.
LEMMA RecordedSides ==
  ASSUME SidesInv, NEW f \in Frames
  PROVE  LET p == f.packet
             k == TcpIpGetKey(p)
             c == GetConversation(p)
             d == ProcessCapturePacket(c, p)
         IN  /\ FiledByPair(k, c) /\ DataOfSides(c) /\ OpenedBySource(k, c)
             /\ SameSides(c, d) /\ OnlyNew(c, d, p)
             /\ d.cap_tcp_state \in Opening =>
                  \/ c.cap_tcp_state \in Opening
                  \/ /\ c.cap_tcp_state = "CLOSED" /\ d.cap_tcp_state = "SYN_SENT"
                     /\ p.src = c.cap_src_addr
<1> DEFINE p == f.packet
           k == TcpIpGetKey(p)
           c == GetConversation(p)
           d == ProcessCapturePacket(c, p)
<1>0. TypeOK
  BY DEF SidesInv
<1>1. /\ p \in Packet /\ c \in Conversation
      /\ c.cap_tcp_state = "NONE" <=> Protocol = "UDP"
      /\ d.cap_tcp_state = "NONE" <=> Protocol = "UDP"
      /\ Protocol = "TCP" => d = TcpProcessCapturePacket(c, p)
  BY <1>0, FramePacket, RecordedConversation
<1>2. FiledByPair(k, c) /\ DataOfSides(c) /\ OpenedBySource(k, c)
  <2>1. CASE k \in Recorded
    <3>1. c = conversations[k]
      BY <2>1 DEF GetConversation, Recorded
    <3> HIDE DEF c, k
    <3> QED
      BY <2>1, <3>1, Zenon DEF SidesInv
  <2>2. CASE k \notin Recorded
    <3> DEFINE state == IF Protocol = "TCP" THEN "CLOSED" ELSE "NONE"
    <3>1. c = NewConversation(state, p, TestServer(p))
      BY <2>2 DEF GetConversation, CreateConversation, Recorded
    <3>2. state \notin Opening
      BY DEF Opening
    <3> HIDE DEF state, p, c
    <3>3. /\ CapSource(c) = Sender(p) /\ CapDest(c) = Receiver(p)
          /\ c.action_queue = <<>> /\ c.cap_tcp_state = state
      BY <3>1, NewSides
    <3>4. k = PairKey(Sender(p), Receiver(p))
      BY <1>1, PacketEnds, Zenon
    <3> HIDE DEF k
    <3>5. FiledByPair(k, c)
      BY <3>3, <3>4, Zenon DEF FiledByPair
    <3>6. DataOfSides(c)
      BY <3>3 DEF DataOfSides
    <3>7. OpenedBySource(k, c)
      BY <3>2, <3>3, Zenon DEF OpenedBySource
    <3> QED
      BY <3>5, <3>6, <3>7
  <2> QED
    BY <2>1, <2>2
<1>3. /\ SameSides(c, d) /\ OnlyNew(c, d, p)
      /\ d.cap_tcp_state \in Opening =>
                  \/ c.cap_tcp_state \in Opening
                  \/ /\ c.cap_tcp_state = "CLOSED" /\ d.cap_tcp_state = "SYN_SENT"
                     /\ p.src = c.cap_src_addr
  <2> HIDE DEF p, c
  <2>1. CASE Protocol = "TCP"
    <3>1. d = TcpProcessCapturePacket(c, p) /\ c.cap_tcp_state # "NONE"
      BY <1>1, <2>1
    <3> HIDE DEF d
    <3> QED
      BY <1>1, <3>1, TcpSides, TcpNewActions
  <2>2. CASE Protocol = "UDP"
    <3>1. d = UdpProcessCapturePacket(c, p)
      BY <2>2 DEF ProcessCapturePacket
    <3>2. d.cap_tcp_state \notin Opening
      BY <1>1, <2>2 DEF Opening
    <3> HIDE DEF d
    <3> QED
      BY <1>1, <3>1, <3>2, UdpSides
  <2> QED
    BY <2>1, <2>2, ProtocolAssumption
<1> QED
  BY <1>2, <1>3

LEMMA SidesRecord ==
  ASSUME SidesInv, NEW f \in Frames, RecordPacket(f), NEW x \in Recorded'
  PROVE  /\ FiledByPair(x, conversations'[x])
         /\ DataOfSides(conversations'[x])
         /\ OpenedBySource(x, conversations[x])'
<1> DEFINE p == f.packet
           k == TcpIpGetKey(p)
           c == GetConversation(p)
           d == ProcessCapturePacket(c, p)
<1>0. TypeOK
  BY DEF SidesInv
<1>1. p \in Packet /\ c \in Conversation /\ d \in Conversation
  BY <1>0, FramePacket, RecordedConversation
<1>2. Signed(p)
  BY FramesAssumption
<1>3. /\ FiledByPair(k, c) /\ DataOfSides(c) /\ OpenedBySource(k, c)
      /\ SameSides(c, d) /\ OnlyNew(c, d, p)
      /\ d.cap_tcp_state \in Opening =>
                  \/ c.cap_tcp_state \in Opening
                  \/ /\ c.cap_tcp_state = "CLOSED" /\ d.cap_tcp_state = "SYN_SENT"
                     /\ p.src = c.cap_src_addr
  BY RecordedSides
<1>4. /\ conversations' = Put(conversations, k, d)
      /\ initiator' = IF c.cap_tcp_state = "CLOSED" /\ d.cap_tcp_state = "SYN_SENT"
                      THEN Put(initiator, k, Sender(p)) ELSE initiator
  BY DEF RecordPacket
<1> HIDE DEF p, k, c, d
<1>5. CASE x = k
  <2>1. conversations'[x] = d
    BY <1>4, <1>5 DEF Put
  <2>2. CapSource(d) = CapSource(c) /\ CapDest(d) = CapDest(c)
    BY <1>3, SameSidesEnds
  <2>3. FiledByPair(x, d)
    BY <1>3, <1>5, <2>2, Zenon DEF FiledByPair
  <2>4. DataOfSides(d)
    <3>1. FiledByPair(TcpIpGetKey(p), c)
      BY <1>3 DEF k
    <3> QED
      BY <1>1, <1>2, <1>3, <3>1, DataOfSidesStep
  <2>5. ASSUME d.cap_tcp_state \in Opening, d.cap_src_addr # d.cap_dest_addr
        PROVE  x \in DOMAIN initiator' /\ initiator'[x] = CapSource(d)
    <3>1. c.cap_src_addr # c.cap_dest_addr
      BY <1>3, <2>5 DEF SameSides
    <3>2. CASE c.cap_tcp_state \in Opening
      <4>1. initiator' = initiator
        BY <1>4, <3>2 DEF Opening
      <4> QED
        BY <1>3, <1>5, <2>2, <3>1, <3>2, <4>1, Zenon DEF OpenedBySource
    <3>3. CASE c.cap_tcp_state \notin Opening
      <4>1. initiator' = Put(initiator, k, Sender(p)) /\ p.src = c.cap_src_addr
        BY <1>3, <1>4, <2>5, <3>3
      <4>2. Sender(p) = CapSource(c)
        <5>1. /\ Sender(p) \in Endpoint /\ Receiver(p) \in Endpoint
              /\ CapSource(c) \in Endpoint /\ CapDest(c) \in Endpoint
              /\ PairKey(Sender(p), Receiver(p)) = PairKey(CapSource(c), CapDest(c))
          BY <1>1, <1>3, PacketEnds, ConversationEnds DEF FiledByPair, k
        <5>2. Sender(p) = CapSource(c) \/ Sender(p) = CapDest(c)
          BY <5>1, KeyNamesBoth
        <5>3. Sender(p) # CapDest(c)
          BY <3>1, <4>1 DEF Sender, CapDest
        <5> QED
          BY <5>2, <5>3
      <4> QED
        BY <1>5, <2>2, <4>1, <4>2 DEF Put
    <3> QED
      BY <3>2, <3>3
  <2> QED
    BY <2>1, <2>3, <2>4, <2>5, Zenon DEF OpenedBySource
<1>6. CASE x # k
  <2>1. x \in Recorded /\ conversations'[x] = conversations[x]
    BY <1>4, <1>6 DEF Put, Recorded
  <2>2. /\ x \in DOMAIN initiator => x \in DOMAIN initiator' /\ initiator'[x] = initiator[x]
    BY <1>4, <1>6 DEF Put
  <2>3. /\ FiledByPair(x, conversations[x]) /\ DataOfSides(conversations[x])
        /\ OpenedBySource(x, conversations[x])
    BY <2>1 DEF SidesInv
  <2> QED
    BY <2>1, <2>2, <2>3, Zenon DEF OpenedBySource
<1> QED
  BY <1>5, <1>6

\* Only RecordPacket changes what is recorded.
LEMMA RecordedOnlyByPackets ==
  ASSUME [Next]_vars
  PROVE  \/ UNCHANGED <<conversations, resets, initiator>>
         \/ \E f \in Frames : RecordPacket(f)
BY DEF Next, PacketHandler, vars, store, history, AddTargetTestServer, RejectSpec, CrashOnSpec,
       OpenCapture, LoadFails, EndOfCapture, SkipPacket, IgnoreFrame, CutFrame

LEMMA SidesNext ==
  ASSUME SidesInv, [Next]_vars
  PROVE  SidesInv'
<1>1. TypeOK'
  BY TypeNext DEF SidesInv
<1>2. CASE UNCHANGED <<conversations, resets, initiator>>
  BY <1>1, <1>2 DEF SidesInv, Recorded, OpenedBySource
<1>3. CASE \E f \in Frames : RecordPacket(f)
  <2>1. \A x \in Recorded' : /\ FiledByPair(x, conversations'[x])
                             /\ DataOfSides(conversations'[x])
                             /\ OpenedBySource(x, conversations[x])'
    BY <1>3, SidesRecord
  <2> QED
    BY <1>1, <2>1 DEF SidesInv
<1> QED
  BY <1>2, <1>3, RecordedOnlyByPackets

LEMMA SidesInvariant == Spec => []SidesInv
BY SidesInit, SidesNext, PTL DEF Spec

\* tcpIpGetKey: no pair of endpoints has two conversations, whichever of the
\* two was seen first and whatever arrives when.
THEOREM OneConversation == Spec => []OneConversationPerPair
<1>1. ASSUME SidesInv, NEW k \in Recorded, NEW l \in Recorded,
             LET c == conversations[k]
                 d == conversations[l]
             IN  {CapSource(c), CapDest(c)} = {CapSource(d), CapDest(d)}
      PROVE  k = l
  <2> DEFINE c == conversations[k]
             d == conversations[l]
  <2>1. k = PairKey(CapSource(c), CapDest(c)) /\ l = PairKey(CapSource(d), CapDest(d))
    BY <1>1 DEF SidesInv, FiledByPair
  <2>2. c \in Conversation /\ d \in Conversation
    BY <1>1 DEF SidesInv, TypeOK
  <2>3. /\ CapSource(c) \in Endpoint /\ CapDest(c) \in Endpoint
        /\ CapSource(d) \in Endpoint /\ CapDest(d) \in Endpoint
    BY <2>2, ConversationEnds
  <2>4. \/ CapSource(c) = CapSource(d) /\ CapDest(c) = CapDest(d)
        \/ CapSource(c) = CapDest(d) /\ CapDest(c) = CapSource(d)
    <3>1. {CapSource(c), CapDest(c)} = {CapSource(d), CapDest(d)}
      BY <1>1
    <3> HIDE DEF c, d
    <3> QED
      BY <3>1, Zenon
  <2>5. PairKey(CapSource(d), CapDest(d)) = PairKey(CapDest(d), CapSource(d))
    BY <2>3, KeyIsSymmetric
  <2> HIDE DEF c, d
  <2> QED
    BY <2>1, <2>4, <2>5, Zenon
<1>2. SidesInv => OneConversationPerPair
  BY <1>1 DEF OneConversationPerPair
<1> QED
  BY <1>2, SidesInvariant, PTL

\* estProcessCapturePacket and UdpConversation::processCapturePacket: what will
\* be sent was sent by the captured client, what will be expected came from the
\* captured server.
THEOREM DataOnItsSide == Spec => []DataComesFromItsSide
<1>1. SidesInv => DataComesFromItsSide
  <2> SUFFICES ASSUME SidesInv, NEW k \in Recorded
               PROVE  LET c == conversations[k]
                      IN  \A i \in DOMAIN c.action_queue :
                            LET a == c.action_queue[i]
                            IN  a.data # NoData =>
                                  a.data.by = IF a.type = "SEND" THEN CapSource(c) ELSE CapDest(c)
    BY DEF DataComesFromItsSide
  <2>1. conversations[k].action_queue \in Seq(Action)
    BY DEF SidesInv, TypeOK, Conversation
  <2>2. DOMAIN conversations[k].action_queue = 1 .. Len(conversations[k].action_queue)
    BY <2>1
  <2> QED
    BY <2>2, Zenon DEF SidesInv, DataOfSides
<1> QED
  BY <1>1, SidesInvariant, PTL

\* The handshake handlers look at addresses only; between two hosts the side
\* that is replayed is nevertheless the one that opened the connection.
THEOREM ClientOpened == Spec => []ClientIsInitiator
<1>1. SidesInv => ClientIsInitiator
  BY DEF SidesInv, ClientIsInitiator, OpenedBySource, Opening
<1> QED
  BY <1>1, SidesInvariant, PTL

-----------------------------------------------------------------------------
(* Payloads.                                                               *)

\* Where the accessors of the layers arrive, from the link layer on.
LEMMA PayloadIsFound ==
  ASSUME NEW p \in Packet, NEW family \in {"IP", "IPV6"}, NEW ip_hl \in Int,
         NEW link, NEW options \in Int, NEW size \in Int, NEW padded \in BOOLEAN
  PROVE  LET w == Framed(p, family, ip_hl, link, options, size, padded)
         IN  Payload(w, link) = w.payload /\ w.payload.size = size
<1> DEFINE w == Framed(p, family, ip_hl, link, options, size, padded)
           header  == IF link = "NULL" THEN 4 ELSE 14
           network == IF family = "IPV6" THEN 40 ELSE 4 * ip_hl
           fixed   == IF p.proto = "UDP" THEN 8 ELSE 4 * (5 + options)
           at      == header + network + fixed
<1>1. /\ w.type = family /\ w.ip_hl = ip_hl /\ w.proto = p.proto
      /\ w.th_off = 5 + options /\ w.udp_len = 8 + size
      /\ w.ip_len = IF family = "IPV6" THEN fixed + size ELSE network + (fixed + size)
      /\ w.payload = View(header + network + (fixed + size) - size, size)
  BY DEF Framed
<1>2. header \in Int /\ network \in Int /\ fixed \in Int /\ at \in Int
  OBVIOUS
<1>3. w.payload = View(at, size)
  <2>1. header + network + (fixed + size) - size = at
    <3> HIDE DEF header, network, fixed
    <3> QED BY <1>2
  <2> QED
    BY <1>1, <2>1, Zenon
<1> DEFINE transport == IF w.type = "IPV6" THEN IpV6Data(w, LinkData(w, link))
                                           ELSE IpData(w, LinkData(w, link))
<1>4. LinkData(w, link).at = header
  BY DEF LinkData, View
<1> HIDE DEF w
<1>5. transport.at = header + network /\ transport.size = fixed + size
  <2>1. CASE family = "IPV6"
    BY <1>1, <1>4, <2>1 DEF IpV6Data, View
  <2>2. CASE family = "IP"
    <3>1. /\ transport.at = header + 4 * ip_hl
          /\ transport.size = network + (fixed + size) - 4 * ip_hl
      BY <1>1, <1>4, <2>2 DEF IpData, View
    <3>2. network = 4 * ip_hl
      BY <2>2
    <3> HIDE DEF header, network, fixed, transport
    <3> QED
      BY <1>2, <3>1, <3>2
  <2> QED
    BY <2>1, <2>2
<1>6. Payload(w, link) = IF w.proto = "UDP" THEN UdpData(w, transport)
                                            ELSE TcpData(w, transport)
  BY DEF Payload
<1> HIDE DEF transport, header, network
<1>7. Payload(w, link) = View(at, size)
  <2>1. CASE p.proto = "UDP"
    <3>1. Payload(w, link) = View(transport.at + 8, 8 + size - 8)
      BY <1>1, <1>6, <2>1 DEF UdpData
    <3>2. transport.at + 8 = at /\ 8 + size - 8 = size
      BY <1>2, <1>5, <2>1
    <3> QED
      BY <3>1, <3>2, Zenon
  <2>2. CASE p.proto # "UDP"
    <3>1. Payload(w, link) = View(transport.at + 4 * (5 + options),
                                  transport.size - 4 * (5 + options))
      BY <1>1, <1>6, <2>2 DEF TcpData
    <3>2. /\ transport.at + 4 * (5 + options) = at
          /\ transport.size - 4 * (5 + options) = size
      BY <1>2, <1>5, <2>2
    <3> QED
      BY <3>1, <3>2, Zenon
  <2> QED
    BY <2>1, <2>2
<1>8. w.payload.size = size
  BY <1>3 DEF View
<1> QED
  BY <1>3, <1>7, <1>8 DEF w

\* A frame around the packet p as a host's network stack builds it.
Carries(f, p) ==
  \E family \in {"IP", "IPV6"}, ip_hl \in 5 .. 15, options \in 0 .. 10,
     size \in Nat, padded \in BOOLEAN :
     /\ size = 0 <=> ~HasData(p)
     /\ f = Seen(Framed(p, family, ip_hl, DataLink, options, size, padded), DataLink)

LEMMA FrameIsRead ==
  ASSUME NEW f, NEW p \in Packet, Carries(f, p)
  PROVE  f.packet.data = p.data
<1>1. PICK family \in {"IP", "IPV6"}, ip_hl \in 5 .. 15, options \in 0 .. 10,
           size \in Nat, padded \in BOOLEAN :
        /\ size = 0 <=> ~HasData(p)
        /\ f = Seen(Framed(p, family, ip_hl, DataLink, options, size, padded), DataLink)
  BY DEF Carries
<1> DEFINE w == Framed(p, family, ip_hl, DataLink, options, size, padded)
<1>2. ip_hl \in Int /\ options \in Int /\ size \in Int
  OBVIOUS
<1>3. Payload(w, DataLink) = w.payload /\ w.payload.size = size
  BY <1>2, PayloadIsFound
<1>4. f.packet.data = BytesAt(w, Payload(w, DataLink))
  BY <1>1 DEF Seen
<1>5. w.data = p.data
  BY DEF Framed
<1> HIDE DEF w
<1> QED
  BY <1>1, <1>3, <1>4, <1>5 DEF BytesAt, HasData

Intact(d) == d # NoData => d.body # Garbled

IntactInv ==
  /\ TypeOK
  /\ \A k \in Recorded : \A i \in 1 .. Len(conversations[k].action_queue) :
        Intact(conversations[k].action_queue[i].data)

LEMMA IntactRecord ==
  ASSUME IntactInv, NEW f \in Frames, Intact(f.packet.data), RecordPacket(f),
         NEW x \in Recorded', NEW i \in 1 .. Len(conversations'[x].action_queue)
  PROVE  Intact(conversations'[x].action_queue[i].data)
<1> DEFINE p == f.packet
           k == TcpIpGetKey(p)
           c == GetConversation(p)
           d == ProcessCapturePacket(c, p)
<1>0. TypeOK
  BY DEF IntactInv
<1>1. /\ p \in Packet /\ c \in Conversation
      /\ c.cap_tcp_state = "NONE" <=> Protocol = "UDP"
      /\ k \notin Recorded => c.action_queue = <<>>
      /\ Protocol = "TCP" => d = TcpProcessCapturePacket(c, p)
  BY <1>0, FramePacket, RecordedConversation
<1>2. OnlyNew(c, d, p)
  <2> HIDE DEF p, c
  <2>1. CASE Protocol = "TCP"
    BY <1>1, <2>1, TcpNewActions
  <2>2. CASE Protocol = "UDP"
    <3>1. d = UdpProcessCapturePacket(c, p)
      BY <2>2 DEF ProcessCapturePacket
    <3> QED
      BY <1>1, <3>1, UdpSides
  <2> QED
    BY <2>1, <2>2, ProtocolAssumption
<1>3. conversations' = Put(conversations, k, d)
  BY DEF RecordPacket
<1>4. k \in Recorded => c = conversations[k]
  BY DEF GetConversation, Recorded
<1>5. \A j \in 1 .. Len(c.action_queue) : Intact(c.action_queue[j].data)
  <2> HIDE DEF k, c
  <2>1. CASE k \in Recorded
    BY <1>4, <2>1, Zenon DEF IntactInv
  <2>2. CASE k \notin Recorded
    BY <1>1, <2>2
  <2> QED
    BY <2>1, <2>2
<1>6. DataAction(c, p).data = p.data
  BY DEF DataAction
<1> HIDE DEF k, c, d
<1>7. CASE x = k
  <2>1. conversations'[x] = d
    BY <1>3, <1>7 DEF Put
  <2>2. i \in 1 .. Len(d.action_queue)
    BY <2>1
  <2>3. Intact(d.action_queue[i].data)
    <3> DEFINE a == d.action_queue[i]
    <3>1. \/ i \in 1 .. Len(c.action_queue) /\ a = c.action_queue[i]
          \/ a.data = NoData
          \/ HasData(p) /\ a = DataAction(c, p)
      BY <1>2, <2>2 DEF OnlyNew
    <3>2. Intact(p.data)
      OBVIOUS
    <3> HIDE DEF a, p
    <3>3. Intact(a.data)
      <4>1. CASE i \in 1 .. Len(c.action_queue) /\ a = c.action_queue[i]
        BY <1>5, <4>1, Zenon
      <4>2. CASE a.data = NoData
        BY <4>2 DEF Intact
      <4>3. CASE a = DataAction(c, p)
        BY <1>6, <3>2, <4>3, Zenon
      <4> QED
        BY <3>1, <4>1, <4>2, <4>3
    <3> QED
      BY <3>3 DEF a
  <2> QED
    BY <2>1, <2>3, Zenon
<1>8. CASE x # k
  <2>1. x \in Recorded /\ conversations'[x] = conversations[x]
    BY <1>3, <1>8 DEF Put, Recorded
  <2> QED
    BY <2>1, Zenon DEF IntactInv
<1> QED
  BY <1>7, <1>8

LEMMA IntactNext ==
  ASSUME IntactInv, [Next]_vars,
         \A f \in Frames : f.whole /\ Dissected(f) => Intact(f.packet.data)
  PROVE  IntactInv'
<1>1. TypeOK'
  BY TypeNext DEF IntactInv
<1>2. CASE UNCHANGED <<conversations, resets, initiator>>
  BY <1>1, <1>2 DEF IntactInv, Recorded
<1>3. CASE \E f \in Frames : RecordPacket(f)
  <2>1. PICK f \in Frames : RecordPacket(f)
    BY <1>3
  <2>2. Intact(f.packet.data)
    BY <2>1 DEF RecordPacket
  <2>3. \A x \in Recorded' : \A i \in 1 .. Len(conversations'[x].action_queue) :
           Intact(conversations'[x].action_queue[i].data)
    BY <2>1, <2>2, IntactRecord
  <2> QED
    BY <1>1, <2>3 DEF IntactInv
<1> QED
  BY <1>2, <1>3, RecordedOnlyByPackets

\* network_layers.h: from frames as hosts build them - IP headers and TCP
\* options of any length, IPv6, padding, either link layer - every recorded
\* action holds the payload of its packet, all of it and nothing else.  Frames
\* that packetHandler does not look into may hold anything.
THEOREM WholePayloads ==
  ASSUME \A f \in Frames : f.whole /\ Dissected(f) =>
            \E p \in Packet : Carries(f, p) /\ Intact(p.data)
  PROVE  Spec => []PayloadsAreWhole
<1>1. \A f \in Frames : f.whole /\ Dissected(f) => Intact(f.packet.data)
  BY FrameIsRead
<1>2. Init => IntactInv
  BY TypeInit DEF Init, IntactInv, NoEntries, Recorded
<1>3. IntactInv /\ [Next]_vars => IntactInv'
  BY <1>1, IntactNext
<1>4. IntactInv => PayloadsAreWhole
  <2> SUFFICES ASSUME IntactInv, NEW k \in Recorded
               PROVE  \A i \in DOMAIN conversations[k].action_queue :
                        Intact(conversations[k].action_queue[i].data)
    BY DEF PayloadsAreWhole, Intact
  <2>1. conversations[k].action_queue \in Seq(Action)
    BY DEF IntactInv, TypeOK, Conversation
  <2>2. DOMAIN conversations[k].action_queue = 1 .. Len(conversations[k].action_queue)
    BY <2>1
  <2> QED
    BY <2>2, Zenon DEF IntactInv
<1> QED
  BY <1>2, <1>3, <1>4, PTL DEF Spec

-----------------------------------------------------------------------------
(* Which conversations are recorded.                                       *)

\* Without options: none before the first TCP or UDP packet, then its own.
FirstInv ==
  /\ TypeOK
  /\ DOMAIN test_servers = {} =>
       /\ Recorded \subseteq {first_packet}
       /\ Recorded = {} => first_packet = NoKey

LEMMA FirstNext ==
  ASSUME FirstInv, [Next]_vars
  PROVE  FirstInv'
<1>1. TypeOK'
  BY TypeNext DEF FirstInv
<1>2. CASE UNCHANGED <<test_servers, conversations, first_packet>>
  BY <1>1, <1>2 DEF FirstInv, Recorded
<1>3. ASSUME NEW tokens \in Specs, AddTargetTestServer(tokens)
      PROVE  FirstInv'
  <2>1. DOMAIN test_servers' # {}
    BY <1>3 DEF AddTargetTestServer, Put
  <2> QED
    BY <1>1, <2>1 DEF FirstInv
<1>4. ASSUME NEW f \in Frames, RecordPacket(f) \/ SkipPacket(f), DOMAIN test_servers' = {}
      PROVE  /\ Recorded' \subseteq {first_packet'}
             /\ Recorded' # {}
  <2> DEFINE k == TcpIpGetKey(f.packet)
  <2>1. k # NoKey
    <3>1. f.packet \in Packet
      BY FramesAssumption DEF Frame
    <3> QED
      BY <3>1, KeyType, NoKeyAssumption
  <2>2. DOMAIN test_servers = {}
    BY <1>4 DEF RecordPacket, SkipPacket, store
  <2>3. ~IsConfigured(f.packet)
    BY <2>2 DEF IsConfigured
  <2>4. first_packet' = IF first_packet = NoKey THEN k ELSE first_packet
    BY <1>4 DEF RecordPacket, SkipPacket, NoteFirsts
  <2>5. /\ Recorded \subseteq {first_packet}
        /\ Recorded = {} => first_packet = NoKey
    BY <2>2 DEF FirstInv
  <2>6. NoKey \notin Recorded
    BY NoKeyAssumption DEF FirstInv, TypeOK
  <2> HIDE DEF k
  <2>7. CASE RecordPacket(f)
    <3>1. k \in Recorded \/ Recorded = {}
      BY <2>3, <2>7 DEF RecordPacket, Admits, Recorded, k
    <3>2. Recorded' = Recorded \cup {k}
      BY <2>7 DEF RecordPacket, Recorded, Put, k
    <3> QED
      BY <2>1, <2>4, <2>5, <2>6, <3>1, <3>2
  <2>8. CASE SkipPacket(f)
    <3>1. Recorded # {} /\ Recorded' = Recorded
      BY <2>2, <2>8 DEF SkipPacket, Admits, Recorded, store
    <3> QED
      BY <2>4, <2>5, <2>6, <3>1
  <2> QED
    BY <1>4, <2>7, <2>8
<1>5. \/ UNCHANGED <<test_servers, conversations, first_packet>>
      \/ \E tokens \in Specs : AddTargetTestServer(tokens)
      \/ \E f \in Frames : RecordPacket(f) \/ SkipPacket(f)
  BY DEF Next, PacketHandler, vars, store, history, RejectSpec, CrashOnSpec,
         OpenCapture, LoadFails, EndOfCapture, IgnoreFrame, CutFrame
<1> QED
  BY <1>1, <1>2, <1>3, <1>4, <1>5 DEF FirstInv

\* TypedConversationStore::getConversation: without options one conversation is
\* recorded at most, that of the first TCP or UDP packet.
THEOREM OnlyTheFirst == Spec => []OnlyTheFirstUnlessConfigured
<1>1. Init => FirstInv
  BY TypeInit DEF Init, FirstInv, NoEntries, Recorded
<1>2. FirstInv => OnlyTheFirstUnlessConfigured
  BY DEF FirstInv, OnlyTheFirstUnlessConfigured
<1> QED
  BY <1>1, <1>2, FirstNext, PTL DEF Spec

-----------------------------------------------------------------------------
(* Byte order.                                                             *)

\* Of a 16-bit word, htons is undone by htons.
LEMMA HtonsTwice ==
  ASSUME NEW n \in Word
  PROVE  Htons(Htons(n)) = n
<1> DEFINE low == n % 256
           high == n \div 256
           m == low * 256 + high
<1>a. MaxWord \in Int
  BY DEF MaxWord
<1>b. n \in Int /\ n >= 0 /\ n <= MaxWord
  BY <1>a DEF Word
<1>1. n \in Int /\ n >= 0 /\ n < 65536
  BY <1>b DEF MaxWord
<1>2. /\ low \in Int /\ low >= 0 /\ low < 256
      /\ high \in Int /\ high >= 0 /\ high < 256
      /\ n = high * 256 + low
  BY <1>1
<1>3. n % 65536 = n
  BY <1>1
<1>4. Htons(n) = m
  BY <1>3 DEF Htons
<1> HIDE DEF low, high
<1>5. m \in Int /\ m >= 0 /\ m < 65536
  BY <1>2
<1>6. m % 256 = high /\ m \div 256 = low
  <2>1. low \in Int /\ high \in Int /\ high >= 0 /\ high < 256
    BY <1>2
  <2> QED
    BY <2>1
<1> HIDE DEF m
<1>7. m % 65536 = m
  BY <1>5
<1>8. Htons(m) = (m % 256) * 256 + (m \div 256)
  <2>1. Htons(m) = LET w == m IN (w % 256) * 256 + (w \div 256)
    BY <1>7 DEF Htons
  <2> QED
    BY <2>1
<1>9. Htons(m) = high * 256 + low
  BY <1>6, <1>8
<1> QED
  BY <1>2, <1>4, <1>9

-----------------------------------------------------------------------------
(* From the option to the conversation.                                    *)

\* The server key a client is looked up by: its own, or its address alone.
Asked(c) ==
  IF CapSource(c) \in DOMAIN test_servers THEN CapSource(c)
                                          ELSE <<c.cap_src_addr, NO_PORT>>

\* Where the constructor points a conversation.
AimedAt(c, server) ==
  IF server = NoServer
  THEN c.test_addr = c.cap_dest_addr /\ c.test_port = c.cap_dest_port
  ELSE c.test_addr = server.test_addr /\ c.test_port = Htons(server.test_port)

ServersAsGiven ==
  \A key \in DOMAIN test_servers :
     ValidSpec(given[key]) /\ test_servers[key] = SpecServer(given[key])

Aimed(c) == Asked(c) \in DOMAIN test_servers /\ AimedAt(c, test_servers[Asked(c)])

\* Options come before the capture, so what a conversation was aimed at when it
\* was created is still what the store holds for its client.
TargetInv ==
  /\ TypeOK
  /\ phase = "options" => Recorded = {}
  /\ ServersAsGiven
  /\ DOMAIN test_servers # {} => \A k \in Recorded : Aimed(conversations[k])

LEMMA SameSidesAimed ==
  ASSUME NEW c, NEW d, SameSides(c, d), Aimed(c)
  PROVE  Aimed(d)
BY DEF SameSides, Aimed, AimedAt, Asked, CapSource

\* The client of a new conversation is the sender of its first packet.
LEMMA NewIsAimed ==
  ASSUME NEW state, NEW p, IsConfigured(p),
         NEW c, c = NewConversation(state, p, TestServer(p))
  PROVE  Aimed(c)
<1> DEFINE keys == TcpIpGetTargetTestServerKeys(p)
           server == TestServer(p)
<1>1. /\ c.cap_src_addr = p.src /\ CapSource(c) = Sender(p)
      /\ c.cap_dest_addr = p.dst /\ c.cap_dest_port = p.dport
      /\ c.test_addr = IF server = NoServer THEN p.dst ELSE server.test_addr
      /\ c.test_port = IF server = NoServer THEN p.dport ELSE Htons(server.test_port)
  BY DEF NewConversation, CapSource, Sender
<1>2. keys[1] = Sender(p) /\ keys[2] = <<p.src, NO_PORT>>
  BY DEF TcpIpGetTargetTestServerKeys
<1>3. keys[1] \in DOMAIN test_servers \/ keys[2] \in DOMAIN test_servers
  <2>1. PICK i \in 1 .. 2 : keys[i] \in DOMAIN test_servers
    BY DEF IsConfigured
  <2>2. i = 1 \/ i = 2
    BY <2>1
  <2> QED
    BY <2>1, <2>2
<1>4. server = IF keys[1] \in DOMAIN test_servers THEN test_servers[keys[1]]
               ELSE IF keys[2] \in DOMAIN test_servers THEN test_servers[keys[2]]
               ELSE NoServer
  BY DEF TestServer
<1> HIDE DEF keys, server
<1>5. Asked(c) = IF keys[1] \in DOMAIN test_servers THEN keys[1] ELSE keys[2]
  BY <1>1, <1>2, Zenon DEF Asked
<1>6. Asked(c) \in DOMAIN test_servers /\ server = test_servers[Asked(c)]
  BY <1>3, <1>4, <1>5, Zenon
<1> QED
  BY <1>1, <1>6 DEF Aimed, AimedAt

LEMMA AimedRecord ==
  ASSUME TargetInv, NEW f \in Frames, RecordPacket(f), DOMAIN test_servers # {},
         NEW x \in Recorded'
  PROVE  Aimed(conversations'[x])
<1> DEFINE p == f.packet
           k == TcpIpGetKey(p)
           c == GetConversation(p)
           d == ProcessCapturePacket(c, p)
<1>0. TypeOK
  BY DEF TargetInv
<1>1. /\ p \in Packet /\ c \in Conversation
      /\ c.cap_tcp_state = "NONE" <=> Protocol = "UDP"
      /\ Protocol = "TCP" => d = TcpProcessCapturePacket(c, p)
  BY <1>0, FramePacket, RecordedConversation
<1>2. SameSides(c, d)
  <2> HIDE DEF p, c
  <2>1. CASE Protocol = "TCP"
    <3> HIDE DEF d
    <3> QED
      BY <1>1, <2>1, TcpSides
  <2>2. CASE Protocol = "UDP"
    <3>1. d = UdpProcessCapturePacket(c, p)
      BY <2>2 DEF ProcessCapturePacket
    <3> HIDE DEF d
    <3> QED
      BY <1>1, <3>1, UdpSides
  <2> QED
    BY <2>1, <2>2, ProtocolAssumption
<1>3. Aimed(c)
  <2>1. CASE k \in Recorded
    <3>1. c = conversations[k]
      BY <2>1 DEF GetConversation, Recorded
    <3> HIDE DEF c, k
    <3> QED
      BY <2>1, <3>1 DEF TargetInv
  <2>2. CASE k \notin Recorded
    <3> DEFINE state == IF Protocol = "TCP" THEN "CLOSED" ELSE "NONE"
    <3>1. c = NewConversation(state, p, TestServer(p))
      BY <2>2 DEF GetConversation, CreateConversation, Recorded
    <3>2. IsConfigured(p)
      BY <2>2 DEF RecordPacket, Admits, Recorded
    <3> HIDE DEF state, p, c
    <3> QED
      BY <3>1, <3>2, NewIsAimed
  <2> QED
    BY <2>1, <2>2
<1>4. conversations' = Put(conversations, k, d)
  BY DEF RecordPacket
<1> HIDE DEF p, k, c, d
<1>5. CASE x = k
  <2>1. conversations'[x] = d
    BY <1>4, <1>5 DEF Put
  <2> QED
    BY <1>2, <1>3, <2>1, SameSidesAimed
<1>6. CASE x # k
  <2>1. x \in Recorded /\ conversations'[x] = conversations[x]
    BY <1>4, <1>6 DEF Put, Recorded
  <2> QED
    BY <2>1 DEF TargetInv
<1> QED
  BY <1>5, <1>6

LEMMA TargetNext ==
  ASSUME TargetInv, [Next]_vars
  PROVE  TargetInv'
<1>1. TypeOK'
  BY TypeNext DEF TargetInv
<1>2. CASE UNCHANGED <<test_servers, given, conversations>> /\ phase' # "options"
  BY <1>1, <1>2 DEF TargetInv, ServersAsGiven, Aimed, AimedAt, Asked, Recorded
<1>3. CASE UNCHANGED vars
  BY <1>1, <1>3 DEF TargetInv, ServersAsGiven, Aimed, AimedAt, Asked, Recorded, vars
<1>4. ASSUME NEW tokens \in Specs, AddTargetTestServer(tokens)
      PROVE  TargetInv'
  <2>1. Recorded' = {}
    BY <1>4 DEF AddTargetTestServer, TargetInv, Recorded
  <2>2. ServersAsGiven'
    <3> DEFINE key == SpecKey(tokens)
    <3>1. /\ test_servers' = Put(test_servers, key, SpecServer(tokens))
          /\ given' = Put(given, key, tokens)
          /\ ValidSpec(tokens)
      BY <1>4 DEF AddTargetTestServer
    <3>2. DOMAIN given = DOMAIN test_servers
      BY DEF TargetInv, TypeOK
    <3> HIDE DEF key
    <3>3. ASSUME NEW x \in DOMAIN test_servers'
          PROVE  ValidSpec(given'[x]) /\ test_servers'[x] = SpecServer(given'[x])
      <4>1. CASE x = key
        <5>1. test_servers'[x] = SpecServer(tokens) /\ given'[x] = tokens
          BY <3>1, <4>1 DEF Put
        <5> QED
          BY <3>1, <5>1, Zenon
      <4>2. CASE x # key
        <5>1. /\ x \in DOMAIN test_servers
              /\ test_servers'[x] = test_servers[x] /\ given'[x] = given[x]
          BY <3>1, <3>2, <3>3, <4>2 DEF Put
        <5> QED
          BY <5>1, Zenon DEF TargetInv, ServersAsGiven
      <4> QED
        BY <4>1, <4>2
    <3> QED
      BY <3>3, Zenon DEF ServersAsGiven
  <2> QED
    BY <1>1, <2>1, <2>2 DEF TargetInv
<1>5. ASSUME NEW f \in Frames, RecordPacket(f)
      PROVE  TargetInv'
  <2>1. UNCHANGED <<test_servers, given, phase>> /\ phase = "loading"
    BY <1>5 DEF RecordPacket
  <2>2. ServersAsGiven'
    BY <2>1 DEF TargetInv, ServersAsGiven
  <2>3. ASSUME NEW x \in Recorded', DOMAIN test_servers # {}
        PROVE  Aimed(conversations[x])'
    <3>1. Aimed(conversations'[x])
      BY <1>5, <2>3, AimedRecord
    <3> QED
      BY <2>1, <3>1 DEF Aimed, AimedAt, Asked
  <2> QED
    BY <1>1, <2>1, <2>2, <2>3 DEF TargetInv
<1>6. \/ UNCHANGED <<test_servers, given, conversations>> /\ phase' # "options"
      \/ UNCHANGED vars
      \/ \E tokens \in Specs : AddTargetTestServer(tokens)
      \/ \E f \in Frames : RecordPacket(f)
  BY DEF Next, PacketHandler, store, history, RejectSpec, CrashOnSpec,
         OpenCapture, LoadFails, EndOfCapture, SkipPacket, IgnoreFrame, CutFrame
<1> QED
  BY <1>2, <1>3, <1>4, <1>5, <1>6

LEMMA TargetInvariant == Spec => []TargetInv
<1>1. Init => TargetInv
  BY TypeInit DEF Init, TargetInv, ServersAsGiven, NoEntries, Recorded
<1> QED
  BY <1>1, TargetNext, PTL DEF Spec

-----------------------------------------------------------------------------
(* What the option says.                                                   *)

\* In the IPv4 form every symbol is a parameter.
LEMMA IpV4Parameters ==
  ASSUME NEW s \in Seq(Symbol), ValidIpV4Spec(s)
  PROVE  /\ Parameters(s) = 1 .. Len(s)
         /\ Cardinality(Parameters(s)) = Len(s)
         /\ \A n \in 1 .. Len(s) : Parameter(s, n) = s[n]
<1> DEFINE N == Len(s)
<1>1. N \in Int /\ N >= 1 /\ N <= 4
  <2>1. N \in 1 .. 4
    BY Zenon DEF ValidIpV4Spec
  <2> HIDE DEF N
  <2> QED
    BY <2>1
<1>2. \A i \in 1 .. N : IsAddr(s[i]) \/ IsNumber(s[i])
  <2> SUFFICES ASSUME NEW i \in 1 .. N
               PROVE  IsAddr(s[i]) \/ IsNumber(s[i])
    OBVIOUS
  <2>1. i = 1 \/ i = 2 \/ i = 3 \/ i = 4
    BY <1>1
  <2> QED
    BY <1>1, <2>1 DEF ValidIpV4Spec
<1>3. \A i \in 1 .. N : s[i] \notin {OpenMark, ShutMark, ColonMark}
  BY <1>2 DEF IsAddr, IsNumber, OpenMark, ShutMark, ColonMark, Mark, NoAddr
<1>4. Parameters(s) = 1 .. N
  BY <1>3 DEF Parameters
<1> HIDE DEF N
<1>5. \A i \in Int : i >= 0 => Cardinality(1 .. i) = i
  <2> SUFFICES ASSUME NEW i \in Int, i >= 0
               PROVE  Cardinality(1 .. i) = i
    OBVIOUS
  <2>1. 1 \in Int
    OBVIOUS
  <2>2. Cardinality(1 .. i) = IF 1 > i THEN 0 ELSE i - 1 + 1
    BY <2>1, FS_Interval, Zenon
  <2> QED
    BY <2>2
<1>6. ASSUME NEW n \in 1 .. N
      PROVE  Parameter(s, n) = s[n]
  <2> DEFINE Rank(i) == Cardinality({j \in Parameters(s) : j <= i})
  <2>1. ASSUME NEW i \in 1 .. N PROVE Rank(i) = i
    <3>1. {j \in Parameters(s) : j <= i} = 1 .. i
      BY <1>1, <1>4
    <3>2. i \in Int /\ i >= 0
      BY <1>1
    <3> QED
      BY <1>5, <3>1, <3>2, Zenon
  <2>2. Parameter(s, n) = s[CHOOSE i \in 1 .. N : Rank(i) = n]
    BY <1>4, Zenon DEF Parameter
  <2> HIDE DEF Rank
  <2>3. (CHOOSE i \in 1 .. N : Rank(i) = n) = n
    BY <2>1, Zenon
  <2> QED
    BY <2>2, <2>3, Zenon
<1> QED
  BY <1>1, <1>4, <1>5, <1>6 DEF N

\* The port of a test server is swapped three times on its way from the option
\* into the conversation.
LEMMA IpV4Target ==
  ASSUME NEW s \in Seq(Symbol), ValidIpV4Spec(s), NEW c, AimedAt(c, IpV4SpecServer(s))
  PROVE  /\ Len(s) < 3 => c.test_addr = c.cap_dest_addr /\ c.test_port = c.cap_dest_port
         /\ Len(s) = 4 => c.test_addr = s[3].addr /\ c.test_port = Htons(s[4].num)
<1>1. ASSUME Len(s) < 3
      PROVE  c.test_addr = c.cap_dest_addr /\ c.test_port = c.cap_dest_port
  BY <1>1 DEF AimedAt, IpV4SpecServer
<1>2. ASSUME Len(s) = 4
      PROVE  c.test_addr = s[3].addr /\ c.test_port = Htons(s[4].num)
  <2> DEFINE server == IpV4SpecServer(s)
  <2>1. /\ server.test_addr = s[3].addr
        /\ server.test_port = Htons(Htons(s[4].num))
    BY <1>2 DEF IpV4SpecServer
  <2>2. s[3].addr # NoAddr
    BY <1>2 DEF ValidIpV4Spec, IsAddr
  <2>3. server # NoServer
    <3> HIDE DEF server
    <3> QED
      BY <2>1, <2>2 DEF NoServer
  <2>4. s[4] \in Symbol
    BY <1>2
  <2>5. Htons(s[4].num) \in Word
    BY <2>4, SymbolType, HtonsType
  <2> HIDE DEF server
  <2>6. c.test_addr = server.test_addr /\ c.test_port = Htons(server.test_port)
    BY <2>3 DEF AimedAt, server
  <2>7. Htons(Htons(Htons(s[4].num))) = Htons(s[4].num)
    BY <2>5, HtonsTwice
  <2> QED
    BY <2>1, <2>6, <2>7, Zenon
<1> QED
  BY <1>1, <1>2

-----------------------------------------------------------------------------
(* What an option in the IPv6 form says.                                   *)

\* The forms of README.md with the addresses in brackets: [src], [src]:port and
\* [src]:port:[test]:test_port.  parseIpV6Spec accepts others, as "[src]test",
\* whose parts are not where the marks put them.
Bracketed(s, i) == s[i] = OpenMark /\ IsAddrV6(s[i + 1]) /\ s[i + 2] = ShutMark

AsDocumented(s) ==
  /\ Len(s) = 3 \/ Len(s) = 5 \/ Len(s) = 11
  /\ Bracketed(s, 1)
  /\ Len(s) >= 5 => s[4] = ColonMark /\ IsNumber(s[5])
  /\ Len(s) = 11 => /\ s[6] = ColonMark /\ Bracketed(s, 7)
                    /\ s[10] = ColonMark /\ IsNumber(s[11])

LEMMA MarksDiffer ==
  /\ OpenMark # ShutMark /\ OpenMark # ColonMark /\ ShutMark # ColonMark
  /\ \A t : IsAddrV6(t) \/ IsNumber(t) =>
       t # OpenMark /\ t # ShutMark /\ t # ColonMark
BY DEF IsAddrV6, IsNumber, OpenMark, ShutMark, ColonMark, Mark, NoAddr

LEMMA FindFirst ==
  ASSUME NEW s \in Seq(Symbol), NEW i \in Nat \ {0}, NEW j \in i .. Len(s), NEW mark,
         s[j] = mark, \A k \in i .. j - 1 : s[k] # mark
  PROVE  Find(s, i, mark) = j
<1> DEFINE found == {k \in i .. Len(s) : s[k] = mark}
<1>1. j \in found
  OBVIOUS
<1>2. \A k \in found : j <= k
  OBVIOUS
<1>3. \A k \in found : (\A l \in found : k <= l) => k = j
  BY <1>1, <1>2
<1>4. Find(s, i, mark) = CHOOSE k \in found : \A l \in found : k <= l
  BY <1>1, Zenon DEF Find
<1> HIDE DEF found
<1> QED
  BY <1>1, <1>2, <1>3, <1>4, Zenon

LEMMA FindNothing ==
  ASSUME NEW s \in Seq(Symbol), NEW i \in Nat \ {0}, NEW mark,
         \A k \in i .. Len(s) : s[k] # mark
  PROVE  Find(s, i, mark) = 0
BY DEF Find

\* The marks of an option, one by one.
LEMMA Marks ==
  ASSUME NEW s \in Seq(Symbol), AsDocumented(s)
  PROVE  /\ Find(s, 1, ShutMark) = 3
         /\ Len(s) = 3 => ~MarkAt(s, 4, ColonMark) /\ Find(s, 4, ShutMark) = 0
         /\ Len(s) # 3 => MarkAt(s, 4, ColonMark)
         /\ Len(s) = 5 => Find(s, 5, ColonMark) = 0
         /\ Len(s) = 11 => Find(s, 5, ColonMark) = 6 /\ Find(s, 7, ShutMark) = 9
<1> DEFINE N == Len(s)
<1>0. N = 3 \/ N = 5 \/ N = 11
  BY DEF AsDocumented
<1>1. s[1] = OpenMark /\ IsAddrV6(s[2]) /\ s[3] = ShutMark
  BY DEF AsDocumented, Bracketed
<1>2. N # 3 => s[4] = ColonMark /\ IsNumber(s[5])
  BY <1>0 DEF AsDocumented
<1>3. N = 11 => /\ s[6] = ColonMark /\ s[7] = OpenMark /\ IsAddrV6(s[8])
                /\ s[9] = ShutMark
  BY DEF AsDocumented, Bracketed
<1>4. s[1] # ShutMark /\ s[2] # ShutMark
  BY <1>1, MarksDiffer
<1>5. Find(s, 1, ShutMark) = 3
  <2>1. \A k \in 1 .. 3 - 1 : k = 1 \/ k = 2
    OBVIOUS
  <2>2. \A k \in 1 .. 3 - 1 : s[k] # ShutMark
    BY <1>4, <2>1, Zenon
  <2>3. 3 \in 1 .. 3 /\ 3 \in 1 .. 5 /\ 3 \in 1 .. 11 /\ 1 \in Nat \ {0}
    OBVIOUS
  <2>4. 1 \in Nat \ {0} /\ s[3] = ShutMark
    BY <1>1, <2>3, Zenon
  <2>5. 3 \in 1 .. Len(s)
    BY <1>0, <2>3, Zenon
  <2>6. \A i \in Nat \ {0} : \A j \in i .. Len(s) :
           s[j] = ShutMark /\ (\A k \in i .. j - 1 : s[k] # ShutMark) =>
             Find(s, i, ShutMark) = j
    BY FindFirst
  <2> QED
    BY <2>2, <2>4, <2>5, <2>6
<1>6. N = 3 => Find(s, 4, ShutMark) = 0
  <2>1. N = 3 => \A k \in 4 .. Len(s) : s[k] # ShutMark
    OBVIOUS
  <2> QED
    BY <2>1, FindNothing
<1>7. N = 5 => Find(s, 5, ColonMark) = 0
  <2>1. ASSUME N = 5 PROVE \A k \in 5 .. Len(s) : s[k] # ColonMark
    <3>1. s[5] # ColonMark
      BY <1>2, <2>1, MarksDiffer
    <3>2. \A k \in 5 .. Len(s) : k = 5
      BY <2>1
    <3> QED
      BY <3>1, <3>2, Zenon
  <2> QED
    BY <2>1, FindNothing
<1>8. N = 11 => Find(s, 5, ColonMark) = 6
  <2>1. ASSUME N = 11 PROVE Find(s, 5, ColonMark) = 6
    <3>1. s[5] # ColonMark
      BY <1>2, <2>1, MarksDiffer
    <3>2. \A k \in 5 .. 6 - 1 : k = 5
      OBVIOUS
    <3>3. \A k \in 5 .. 6 - 1 : s[k] # ColonMark
      BY <3>1, <3>2, Zenon
    <3>4. 6 \in 5 .. Len(s)
      BY <2>1
    <3> QED
      BY <1>3, <2>1, <3>3, <3>4, FindFirst
  <2> QED
    BY <2>1
<1>9. N = 11 => Find(s, 7, ShutMark) = 9
  <2>1. ASSUME N = 11 PROVE Find(s, 7, ShutMark) = 9
    <3>1. s[7] # ShutMark /\ s[8] # ShutMark
      BY <1>3, <2>1, MarksDiffer
    <3>2. \A k \in 7 .. 9 - 1 : k = 7 \/ k = 8
      OBVIOUS
    <3>3. \A k \in 7 .. 9 - 1 : s[k] # ShutMark
      BY <3>1, <3>2, Zenon
    <3>4. 9 \in 7 .. Len(s) /\ 7 \in Nat \ {0}
      BY <2>1
    <3> QED
      BY <1>3, <2>1, <3>3, <3>4, FindFirst, Zenon
  <2> QED
    BY <2>1
<1> QED
  BY <1>0, <1>2, <1>5, <1>6, <1>7, <1>8, <1>9 DEF MarkAt

LEMMA PartOfText ==
  ASSUME NEW s \in Seq(Symbol), NEW i \in 1 .. Len(s), NEW j \in i .. Len(s)
  PROVE  /\ Len(SubSeq(s, i, j)) = j - i + 1
         /\ \A k \in 1 .. j - i + 1 : SubSeq(s, i, j)[k] = s[i + k - 1]
         /\ SubSeq(s, i, j) # <<>>
OBVIOUS

\* What parseIpV6Spec makes of it.
LEMMA IpV6Server ==
  ASSUME NEW s \in Seq(Symbol), AsDocumented(s)
  PROVE  /\ Len(s) # 11 => IpV6SpecServer(s) = NoServer
         /\ Len(s) = 11 => IpV6SpecServer(s) =
              [test_addr |-> s[8].addr, test_port |-> Htons(Htons(s[11].num))]
<1>0. Len(s) = 3 \/ Len(s) = 5 \/ Len(s) = 11
  BY DEF AsDocumented
<1>a. 3 + 1 = 4 /\ 3 + 2 = 5 /\ 6 + 1 = 7 /\ 9 + 2 = 11
  OBVIOUS
<1>1. CASE Len(s) = 3
  <2>1. Parts(s).test = Text(s, 4, 0)
    BY <1>1, <1>a, Marks DEF Parts
  <2>2. Text(s, 4, 0) = <<>>
    BY <1>1 DEF Text
  <2> QED
    BY <1>1, <2>1, <2>2 DEF IpV6SpecServer
<1>2. CASE Len(s) = 5
  <2>a. 5 # 3
    OBVIOUS
  <2>b. /\ Find(s, 1, ShutMark) = 3 /\ MarkAt(s, 4, ColonMark)
        /\ Find(s, 5, ColonMark) = 0
    BY <1>2, <2>a, Marks, Zenon
  <2>1. /\ Find(s, 1, ShutMark) = 3 /\ MarkAt(s, 3 + 1, ColonMark)
        /\ Find(s, 3 + 2, ColonMark) = 0
    BY <1>a, <2>b, Zenon
  <2>2. Parts(s).test = <<>>
    BY <2>1 DEF Parts
  <2> QED
    BY <1>2, <2>2 DEF IpV6SpecServer
<1>3. CASE Len(s) = 11
  <2>a. 11 # 3
    OBVIOUS
  <2>b. /\ Find(s, 1, ShutMark) = 3 /\ MarkAt(s, 4, ColonMark)
        /\ Find(s, 5, ColonMark) = 6 /\ Find(s, 7, ShutMark) = 9
    BY <1>3, <2>a, Marks, Zenon
  <2>0. /\ Find(s, 1, ShutMark) = 3 /\ MarkAt(s, 3 + 1, ColonMark)
        /\ Find(s, 3 + 2, ColonMark) = 6 /\ Find(s, 6 + 1, ShutMark) = 9
    BY <1>a, <2>b, Zenon
  <2>1. /\ Parts(s).test = Text(s, 7, 9) /\ Parts(s).shut = 9
        /\ Parts(s).test_port = Text(s, 11, 0)
    BY <1>a, <2>0 DEF Parts
  <2>2. Text(s, 7, 9) = SubSeq(s, 7, 8) /\ Text(s, 11, 0) = SubSeq(s, 11, 11)
    BY <1>3 DEF Text
  <2> DEFINE t == SubSeq(s, 7, 8)
             q == SubSeq(s, 11, 11)
  <2>3. Len(t) = 2 /\ t[2] = s[8] /\ t # <<>>
    <3>1. 7 \in 1 .. Len(s) /\ 8 \in 7 .. Len(s)
      BY <1>3
    <3>2. /\ Len(t) = 8 - 7 + 1 /\ t # <<>>
          /\ \A k \in 1 .. 8 - 7 + 1 : t[k] = s[7 + k - 1]
      BY <3>1, PartOfText
    <3>3. 8 - 7 + 1 = 2 /\ 2 \in 1 .. 8 - 7 + 1 /\ 7 + 2 - 1 = 8
      OBVIOUS
    <3> QED
      BY <3>2, <3>3, Zenon
  <2>4. Len(q) = 1 /\ q[1] = s[11] /\ q # <<>>
    <3>1. 11 \in 1 .. Len(s) /\ 11 \in 11 .. Len(s)
      BY <1>3
    <3>2. /\ Len(q) = 11 - 11 + 1 /\ q # <<>>
          /\ \A k \in 1 .. 11 - 11 + 1 : q[k] = s[11 + k - 1]
      BY <3>1, PartOfText
    <3>3. 11 - 11 + 1 = 1 /\ 1 \in 1 .. 11 - 11 + 1 /\ 11 + 1 - 1 = 11
      OBVIOUS
    <3> QED
      BY <3>2, <3>3, Zenon
  <2>5. IpV6SpecServer(s) =
          [test_addr |-> t[Len(t)].addr, test_port |-> Htons(Htons(q[1].num))]
    <3> HIDE DEF t, q
    <3>1. Parts(s).test = t /\ Parts(s).test_port = q /\ Parts(s).shut # 0
      BY <2>1, <2>2 DEF t, q
    <3>2. t # <<>> /\ q # <<>>
      BY <2>3, <2>4 DEF t, q
    <3> QED
      BY <3>1, <3>2 DEF IpV6SpecServer
  <2> QED
    BY <1>3, <2>3, <2>4, <2>5, Zenon
<1> QED
  BY <1>0, <1>1, <1>2, <1>3

LEMMA SmallSets ==
  /\ Cardinality({2}) = 1
  /\ Cardinality({2, 5}) = 2
  /\ Cardinality({2, 5, 8}) = 3
  /\ Cardinality({2, 5, 8, 11}) = 4
<1> DEFINE A == {2}
           B == {2, 5}
           C == {2, 5, 8}
           D == {2, 5, 8, 11}
<1>1. IsFiniteSet(A) /\ Cardinality(A) = 1
  BY FS_Singleton, Zenon
<1>2. /\ B = A \cup {5} /\ 5 \notin A
      /\ C = B \cup {8} /\ 8 \notin B
      /\ D = C \cup {11} /\ 11 \notin C
  OBVIOUS
<1> HIDE DEF A, B, C, D
<1>3. 1 + 1 = 2 /\ 2 + 1 = 3 /\ 3 + 1 = 4
  OBVIOUS
<1>4. \A S, x : IsFiniteSet(S) /\ x \notin S =>
        /\ IsFiniteSet(S \cup {x})
        /\ Cardinality(S \cup {x}) = Cardinality(S) + 1
  BY FS_AddElement, Zenon
<1>5. IsFiniteSet(B) /\ Cardinality(B) = 2
  BY <1>1, <1>2, <1>3, <1>4
<1>6. IsFiniteSet(C) /\ Cardinality(C) = 3
  BY <1>2, <1>3, <1>4, <1>5
<1>7. Cardinality(D) = 4
  BY <1>2, <1>3, <1>4, <1>6
<1> QED
  BY <1>1, <1>5, <1>6, <1>7 DEF A, B, C, D

\* Where its parameters are.
LEMMA IpV6Parameters ==
  ASSUME NEW s \in Seq(Symbol), AsDocumented(s)
  PROVE  /\ Len(s) = 3 => Cardinality(Parameters(s)) = 1
         /\ Len(s) = 5 => Cardinality(Parameters(s)) = 2
         /\ Len(s) = 11 => /\ Cardinality(Parameters(s)) = 4
                           /\ Parameter(s, 3) = s[8] /\ Parameter(s, 4) = s[11]
<1> DEFINE marks == {OpenMark, ShutMark, ColonMark}
<1>1. s[1] \in marks /\ IsAddrV6(s[2]) /\ s[3] \in marks
  BY DEF AsDocumented, Bracketed
<1>2. s[2] \notin marks
  BY <1>1, MarksDiffer
<1>3. CASE Len(s) = 3
  <2>1. \A i \in 1 .. Len(s) : i = 1 \/ i = 2 \/ i = 3
    BY <1>3
  <2>2. 2 \in 1 .. Len(s)
    BY <1>3
  <2> HIDE DEF marks
  <2>3. {i \in 1 .. Len(s) : s[i] \notin marks} = {2}
    BY <1>1, <1>2, <2>1, <2>2, Zenon
  <2>4. Parameters(s) = {2}
    BY <2>3 DEF Parameters, marks
  <2> QED
    BY <1>3, <2>4, SmallSets
<1>4. CASE Len(s) = 5
  <2>0. s[4] \in marks /\ IsNumber(s[5])
    BY <1>4 DEF AsDocumented
  <2>1. s[5] \notin marks
    BY <2>0, MarksDiffer
  <2>2. \A i \in 1 .. Len(s) : i = 1 \/ i = 2 \/ i = 3 \/ i = 4 \/ i = 5
    BY <1>4
  <2>3. 2 \in 1 .. Len(s) /\ 5 \in 1 .. Len(s)
    BY <1>4
  <2> HIDE DEF marks
  <2>4. {i \in 1 .. Len(s) : s[i] \notin marks} = {2, 5}
    BY <1>1, <1>2, <2>0, <2>1, <2>2, <2>3, Zenon
  <2>5. Parameters(s) = {2, 5}
    BY <2>4 DEF Parameters, marks
  <2> QED
    BY <1>4, <2>5, SmallSets
<1>5. CASE Len(s) = 11
  <2>0. /\ s[4] \in marks /\ IsNumber(s[5]) /\ s[6] \in marks
        /\ s[7] \in marks /\ IsAddrV6(s[8]) /\ s[9] \in marks
        /\ s[10] \in marks /\ IsNumber(s[11])
    BY <1>5 DEF AsDocumented, Bracketed
  <2>1. s[5] \notin marks /\ s[8] \notin marks /\ s[11] \notin marks
    BY <2>0, MarksDiffer
  <2>2. \A i \in 1 .. Len(s) :
           \/ i = 1 \/ i = 2 \/ i = 3 \/ i = 4 \/ i = 5 \/ i = 6
           \/ i = 7 \/ i = 8 \/ i = 9 \/ i = 10 \/ i = 11
    BY <1>5
  <2>3. 2 \in 1 .. Len(s) /\ 5 \in 1 .. Len(s) /\ 8 \in 1 .. Len(s) /\ 11 \in 1 .. Len(s)
    BY <1>5
  <2> HIDE DEF marks
  <2>4. {i \in 1 .. Len(s) : s[i] \notin marks} = {2, 5, 8, 11}
    BY <1>1, <1>2, <2>0, <2>1, <2>2, <2>3, Zenon
  <2>5. Parameters(s) = {2, 5, 8, 11}
    BY <2>4 DEF Parameters, marks
  <2> DEFINE P == {2, 5, 8, 11}
             Rank(i) == Cardinality({j \in P : j <= i})
  <2>6. /\ {j \in P : j <= 2} = {2} /\ {j \in P : j <= 5} = {2, 5}
        /\ {j \in P : j <= 8} = {2, 5, 8} /\ {j \in P : j <= 11} = {2, 5, 8, 11}
    OBVIOUS
  <2>7. Rank(2) = 1 /\ Rank(5) = 2 /\ Rank(8) = 3 /\ Rank(11) = 4
    BY <2>6, SmallSets, Zenon
  <2>8. /\ Parameter(s, 3) = s[CHOOSE i \in P : Rank(i) = 3]
        /\ Parameter(s, 4) = s[CHOOSE i \in P : Rank(i) = 4]
    BY <2>5, Zenon DEF Parameter
  <2> HIDE DEF Rank
  <2>9. (CHOOSE i \in P : Rank(i) = 3) = 8 /\ (CHOOSE i \in P : Rank(i) = 4) = 11
    <3>1. 1 # 3 /\ 2 # 3 /\ 4 # 3 /\ 1 # 4 /\ 2 # 4
      OBVIOUS
    <3>2. \A i \in P : (Rank(i) = 3 <=> i = 8) /\ (Rank(i) = 4 <=> i = 11)
      BY <2>7, <3>1, Zenon
    <3>3. 8 \in P /\ 11 \in P
      OBVIOUS
    <3> HIDE DEF P
    <3> QED
      BY <3>2, <3>3, Zenon
  <2>10. Cardinality(Parameters(s)) = 4
    BY <2>5, SmallSets
  <2>11. Parameter(s, 3) = s[8] /\ Parameter(s, 4) = s[11]
    BY <2>8, <2>9, Zenon
  <2>12. 11 # 3 /\ 11 # 5
    OBVIOUS
  <2> HIDE DEF P
  <2> QED
    BY <1>5, <2>10, <2>11, <2>12, Zenon
<1>6. Len(s) = 3 \/ Len(s) = 5 \/ Len(s) = 11
  BY DEF AsDocumented
<1> QED
  BY <1>3, <1>4, <1>5, <1>6

LEMMA IpV6Target ==
  ASSUME NEW s \in Seq(Symbol), AsDocumented(s), NEW c, AimedAt(c, IpV6SpecServer(s))
  PROVE  LET said == Cardinality(Parameters(s))
         IN  /\ said < 3 => c.test_addr = c.cap_dest_addr /\ c.test_port = c.cap_dest_port
             /\ said = 4 => /\ c.test_addr = Parameter(s, 3).addr
                            /\ c.test_port = Htons(Parameter(s, 4).num)
<1> DEFINE said == Cardinality(Parameters(s))
<1>1. CASE Len(s) # 11
  <2>1. IpV6SpecServer(s) = NoServer
    BY <1>1, IpV6Server
  <2>2. said < 4
    BY <1>1, IpV6Parameters DEF AsDocumented
  <2> HIDE DEF said
  <2>3. c.test_addr = c.cap_dest_addr /\ c.test_port = c.cap_dest_port /\ said # 4
    BY <2>1, <2>2 DEF AimedAt
  <2> QED
    BY <2>3, Zenon DEF said
<1>2. CASE Len(s) = 11
  <2> DEFINE server == IpV6SpecServer(s)
  <2>1. /\ server.test_addr = s[8].addr
        /\ server.test_port = Htons(Htons(s[11].num))
    BY <1>2, IpV6Server
  <2>2. s[8].addr # NoAddr
    BY <1>2 DEF AsDocumented, Bracketed, IsAddrV6
  <2>3. server # NoServer
    <3> HIDE DEF server
    <3> QED
      BY <2>1, <2>2 DEF NoServer
  <2>4. s[11] \in Symbol
    BY <1>2
  <2>5. Htons(s[11].num) \in Word
    BY <2>4, SymbolType, HtonsType
  <2> HIDE DEF server
  <2>6. c.test_addr = server.test_addr /\ c.test_port = Htons(server.test_port)
    BY <2>3 DEF AimedAt, server
  <2>7. Htons(Htons(Htons(s[11].num))) = Htons(s[11].num)
    BY <2>5, HtonsTwice
  <2>8. said = 4 /\ ~(4 < 3) /\ Parameter(s, 3) = s[8] /\ Parameter(s, 4) = s[11]
    BY <1>2, IpV6Parameters
  <2> HIDE DEF said
  <2>9. c.test_addr = s[8].addr /\ c.test_port = Htons(s[11].num)
    BY <2>1, <2>6, <2>7, Zenon
  <2> QED
    BY <2>8, <2>9, Zenon DEF said
<1> QED
  BY <1>1, <1>2

LEMMA OptionTarget ==
  ASSUME NEW s \in Seq(Symbol), ValidSpec(s), IsIpV6Spec(s) => AsDocumented(s),
         NEW c, AimedAt(c, SpecServer(s))
  PROVE  LET said == Cardinality(Parameters(s))
         IN  /\ said < 3 => c.test_addr = c.cap_dest_addr /\ c.test_port = c.cap_dest_port
             /\ said = 4 => /\ c.test_addr = Parameter(s, 3).addr
                            /\ c.test_port = Htons(Parameter(s, 4).num)
<1> DEFINE said == Cardinality(Parameters(s))
<1>1. CASE IsIpV6Spec(s)
  <2>1. AimedAt(c, IpV6SpecServer(s))
    BY <1>1 DEF SpecServer
  <2> QED
    BY <1>1, <2>1, IpV6Target
<1>2. CASE ~IsIpV6Spec(s)
  <2>1. ValidIpV4Spec(s) /\ AimedAt(c, IpV4SpecServer(s))
    BY <1>2 DEF SpecServer, ValidSpec
  <2>2. said = Len(s)
    BY <2>1, IpV4Parameters
  <2>3. said = 4 => Parameter(s, 3) = s[3] /\ Parameter(s, 4) = s[4]
    BY <2>1, <2>2, IpV4Parameters
  <2>4. /\ said < 3 => c.test_addr = c.cap_dest_addr /\ c.test_port = c.cap_dest_port
        /\ said = 4 => c.test_addr = s[3].addr /\ c.test_port = Htons(s[4].num)
    BY <2>1, <2>2, IpV4Target
  <2> HIDE DEF said
  <2> QED
    BY <2>3, <2>4, Zenon DEF said
<1> QED
  BY <1>1, <1>2

\* From the "-c" options to the server a conversation is replayed against: the
\* last option for its client decides, or the last for the client's address
\* alone, and the port arrives in network order.  Options in the IPv6 form are
\* written as documented, or refused.
THEOREM TargetAsGiven ==
  ASSUME \A s \in Specs : IsIpV6Spec(s) /\ ValidSpec(s) => AsDocumented(s)
  PROVE  Spec => []TargetIsAsGiven
<1>1. ASSUME TargetInv, DOMAIN test_servers # {}, NEW k \in Recorded
      PROVE  LET c == conversations[k]
                 asked == IF CapSource(c) \in DOMAIN given THEN CapSource(c)
                                                    ELSE <<c.cap_src_addr, NO_PORT>>
                 option == given[asked]
                 said == Cardinality(Parameters(option))
             IN  /\ asked \in DOMAIN given
                 /\ said < 3 =>
                      c.test_addr = c.cap_dest_addr /\ c.test_port = c.cap_dest_port
                 /\ said = 4 =>
                      /\ c.test_addr = Parameter(option, 3).addr
                      /\ c.test_port = Htons(Parameter(option, 4).num)
  <2> DEFINE c == conversations[k]
             asked == IF CapSource(c) \in DOMAIN given THEN CapSource(c)
                                                    ELSE <<c.cap_src_addr, NO_PORT>>
             option == given[asked]
  <2>1. DOMAIN given = DOMAIN test_servers
    BY <1>1 DEF TargetInv, TypeOK
  <2>2. asked = Asked(c)
    BY <2>1 DEF Asked
  <2>3. Aimed(c)
    BY <1>1 DEF TargetInv
  <2> HIDE DEF c, asked
  <2>4. asked \in DOMAIN given /\ AimedAt(c, test_servers[asked])
    BY <2>1, <2>2, <2>3 DEF Aimed
  <2>5. option \in Specs
    BY <1>1, <2>4 DEF TargetInv, TypeOK
  <2>6. ValidSpec(option) /\ test_servers[asked] = SpecServer(option)
    BY <1>1, <2>1, <2>4, Zenon DEF TargetInv, ServersAsGiven
  <2> HIDE DEF option
  <2>7. option \in Seq(Symbol) /\ (IsIpV6Spec(option) => AsDocumented(option))
    BY <2>5, <2>6, SpecsAssumption
  <2>8. AimedAt(c, SpecServer(option))
    BY <2>4, <2>6
  <2>9. LET said == Cardinality(Parameters(option))
        IN  /\ said < 3 => c.test_addr = c.cap_dest_addr /\ c.test_port = c.cap_dest_port
            /\ said = 4 => /\ c.test_addr = Parameter(option, 3).addr
                           /\ c.test_port = Htons(Parameter(option, 4).num)
    BY <2>6, <2>7, <2>8, OptionTarget
  <2> QED
    BY <2>4, <2>9, Zenon DEF option, asked, c
<1>2. TargetInv => TargetIsAsGiven
  BY <1>1, Zenon DEF TargetIsAsGiven
<1> QED
  BY <1>2, TargetInvariant, PTL

=============================================================================
