-------------------------- MODULE PacketConversation --------------------------
(***************************************************************************)
(* A recorded conversation and what one captured packet does to it:        *)
(* PacketConversation with its two subclasses TcpConversation and          *)
(* UdpConversation.  The object is a record; a handler is an operator from *)
(* the object and a packet to the object afterwards.                       *)
(*                                                                         *)
(* TcpConversation::socket_ and UdpConversation::socket_ are left out: no  *)
(* code assigns them after construction, so the close() calls under        *)
(* "socket_ != -1" never run.                                              *)
(***************************************************************************)
EXTENDS ConversationFactory

\* "NONE" is a UDP conversation, which keeps no protocol state.
TcpState == {"CLOSED", "SYN_SENT", "SYN_RECEIVED", "ESTABLISHED", "NONE"}

Action == [type : {"CONNECT", "SEND", "RECV", "CLOSE"}, data : Data \cup {NoData}]

Plain(type) == [type |-> type, data |-> NoData]

Conversation ==
  [cap_src_addr  : Addr, cap_src_port  : Port,
   cap_dest_addr : Addr, cap_dest_port : Port,
   test_addr     : Addr, test_port     : Word,
   cap_tcp_state : TcpState,
   action_queue  : Seq(Action)]

CapSource(c) == <<c.cap_src_addr, c.cap_src_port>>
CapDest(c)   == <<c.cap_dest_addr, c.cap_dest_port>>

\* Mutant: the branch without a test server forgets the port.
NewConversationNoPort(state, p, server) ==
  [cap_src_addr  |-> p.src, cap_src_port  |-> p.sport,
   cap_dest_addr |-> p.dst, cap_dest_port |-> p.dport,
   test_addr     |-> IF server = NoServer THEN p.dst ELSE server.test_addr,
   test_port     |-> IF server = NoServer THEN NO_PORT ELSE Htons(server.test_port),
   cap_tcp_state |-> state,
   action_queue  |-> <<>>]

\* The constructor: the first packet fixes which side is the client.
NewConversation(state, p, server) ==
  [cap_src_addr  |-> p.src, cap_src_port  |-> p.sport,
   cap_dest_addr |-> p.dst, cap_dest_port |-> p.dport,
   test_addr     |-> IF server = NoServer THEN p.dst ELSE server.test_addr,
   test_port     |-> IF server = NoServer THEN p.dport ELSE Htons(server.test_port),
   cap_tcp_state |-> state,
   action_queue  |-> <<>>]

Enter(c, state) == [c EXCEPT !.cap_tcp_state = state]
Push(c, action) == [c EXCEPT !.action_queue = Append(@, action)]

\* Mutant: the port of the sender is not compared.
DataActionByAddress(c, p) ==
  [type |-> IF p.src = c.cap_src_addr THEN "SEND" ELSE "RECV", data |-> p.data]

\* Mutant: the address of the sender is not compared.
DataActionByPort(c, p) ==
  [type |-> IF p.sport # c.cap_dest_port THEN "RECV" ELSE "SEND", data |-> p.data]

DataAction(c, p) ==
  [type |-> IF p.src = c.cap_src_addr /\ p.sport = c.cap_src_port
            THEN "SEND" ELSE "RECV",
   data |-> p.data]

-----------------------------------------------------------------------------
(* TcpConversation: one operator per state.  The handshake handlers look   *)
(* at addresses only, never at ports.                                      *)

\* Mutant: a SYN from either side starts a handshake.
CloseAcceptsAnySyn(c, p) ==
  IF p.flags = {"SYN"} THEN Enter(c, "SYN_SENT") ELSE c

CloseProcessCapturePacket(c, p) ==
  IF p.src = c.cap_src_addr /\ p.flags = {"SYN"} THEN Enter(c, "SYN_SENT") ELSE c

SynSentProcessCapturePacket(c, p) ==
  IF p.src = c.cap_dest_addr /\ HasAck(p) /\ HasSyn(p)
  THEN Enter(c, "SYN_RECEIVED") ELSE c

\* Mutant: the state is left alone, so each ACK connects again.
SynRecvStays(c, p) ==
  IF p.src = c.cap_src_addr /\ HasAck(p) THEN Push(c, Plain("CONNECT")) ELSE c

\* Mutant: the server's packet completes the handshake.
SynRecvFromServer(c, p) ==
  IF p.src = c.cap_dest_addr /\ HasAck(p)
  THEN Push(Enter(c, "ESTABLISHED"), Plain("CONNECT")) ELSE c

\* The payload of the packet that completes the handshake is not recorded.
SynRecvProcessCapturePacket(c, p) ==
  IF p.src = c.cap_src_addr /\ HasAck(p)
  THEN Push(Enter(c, "ESTABLISHED"), Plain("CONNECT")) ELSE c

\* Mutant: FIN is recorded but the state is left alone.
EstStaysOnFin(c, p) ==
  LET d == IF HasData(p) THEN Push(c, DataAction(c, p)) ELSE c
  IN  IF HasFin(p) THEN Push(d, Plain("CLOSE")) ELSE d

\* Mutant: data that comes with a FIN is dropped.
EstFinWithoutData(c, p) ==
  IF HasFin(p) THEN Push(Enter(c, "CLOSED"), Plain("CLOSE"))
  ELSE IF HasData(p) THEN Push(c, DataAction(c, p)) ELSE c

\* Mutant: FIN is handled before the data that comes with it.
EstFinFirst(c, p) ==
  LET d == IF HasFin(p) THEN Push(Enter(c, "CLOSED"), Plain("CLOSE")) ELSE c
  IN  IF HasData(p) THEN Push(d, DataAction(c, p)) ELSE d

EstProcessCapturePacket(c, p) ==
  LET d == IF HasData(p) THEN Push(c, DataAction(c, p)) ELSE c
  IN  IF HasFin(p) THEN Push(Enter(d, "CLOSED"), Plain("CLOSE")) ELSE d

\* A reset closes the recording without a CLOSE action.
TcpProcessCapturePacket(c, p) ==
  IF p.proto # "TCP" THEN c
  ELSE IF HasRst(p) THEN Enter(c, "CLOSED")
  ELSE CASE c.cap_tcp_state = "CLOSED"       -> CloseProcessCapturePacket(c, p)
         [] c.cap_tcp_state = "SYN_SENT"     -> SynSentProcessCapturePacket(c, p)
         [] c.cap_tcp_state = "SYN_RECEIVED" -> SynRecvProcessCapturePacket(c, p)
         [] c.cap_tcp_state = "ESTABLISHED"  -> EstProcessCapturePacket(c, p)

-----------------------------------------------------------------------------
(* UdpConversation: every datagram of the conversation is an action.       *)

UdpProcessCapturePacket(c, p) ==
  IF p.proto = "UDP" THEN Push(c, DataAction(c, p)) ELSE c

=============================================================================
