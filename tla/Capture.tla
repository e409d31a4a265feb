------------------------------- MODULE Capture -------------------------------
(***************************************************************************)
(* Recording: main() reads the "-c" options into the conversation store,   *)
(* Capture::load feeds the frames of a capture file to packetHandler, and  *)
(* packetHandler files each packet with the conversation the store finds   *)
(* or creates for it.  One instance is one run of http_replay (Protocol =  *)
(* "TCP") or udp_replay (Protocol = "UDP") up to the point where replaying *)
(* starts.                                                                 *)
(*                                                                         *)
(* The file is any sequence of frames out of Frames: a capture may start   *)
(* and stop anywhere, miss packets and hold retransmissions.               *)
(***************************************************************************)
EXTENDS PacketConversation, FrameLayers, ActionScript

CONSTANTS
  Protocol,    \* which factory the store was built with
  DataLink,    \* pcap_datalink of the file
  Frames,      \* the frames a capture file may hold
  Specs,       \* the "-c" options that may be given, as token sequences
  MaxActions,  \* bound: no packet is fed to a longer queue
  MaxResets,   \* bound: how many resets one conversation may see
  NoKey        \* "none seen yet", for the history variables

ASSUME ProtocolAssumption == Protocol \in {"TCP", "UDP"}
ASSUME DataLinkAssumption == DataLink \in {"NULL", "EN10MB", "OTHER"}
ASSUME FramesAssumption ==
  Frames \subseteq Frame /\ \A f \in Frames : Signed(f.packet)
ASSUME SpecsAssumption ==
  \A s \in Specs :
     /\ s \in Seq(Symbol)
     /\ ValidSpec(s) => SpecKey(s) \in ServerKey
ASSUME BoundsAssumption == MaxActions \in Nat /\ MaxResets \in Nat
ASSUME NoKeyAssumption == NoKey \notin Key

VARIABLES
  phase,          \* "options", "loading", then "loaded", "failed" or "crashed"
  test_servers,   \* ConversationStore::test_servers_, by server key
  conversations   \* TypedConversationStore::conversations_, by key

\* History: read by properties, never by the code.
VARIABLES
  given,          \* the last option accepted for each server key
  first_packet,   \* key of the first TCP or UDP packet of the file
  first_request,  \* key of the first TCP connection request of the file
  initiator,      \* for each conversation, who sent the last SYN it followed
  resets          \* for each conversation, resets that hit it when established

store   == <<test_servers, conversations>>
history == <<given, first_packet, first_request, initiator, resets>>
vars    == <<phase, test_servers, conversations,
             given, first_packet, first_request, initiator, resets>>

NoEntries == [x \in {} |-> NoKey]

\* The map m with k bound to v, as operator[] on std::map leaves it.
Put(m, k, v) == [x \in DOMAIN m \cup {k} |-> IF x = k THEN v ELSE m[x]]

-----------------------------------------------------------------------------
(* Options.                                                                *)

Init ==
  /\ phase = "options"
  /\ test_servers = NoEntries /\ conversations = NoEntries
  /\ given = NoEntries /\ initiator = NoEntries /\ resets = NoEntries
  /\ first_packet = NoKey /\ first_request = NoKey

AddTargetTestServer(tokens) ==
  /\ phase = "options"
  /\ ValidSpec(tokens)
  /\ test_servers' = Put(test_servers, SpecKey(tokens), SpecServer(tokens))
  /\ given' = Put(given, SpecKey(tokens), tokens)
  /\ UNCHANGED <<phase, conversations, first_packet, first_request,
                 initiator, resets>>

\* invalid_argument reaches main's handler and the program ends.
RejectSpec(tokens) ==
  /\ phase = "options"
  /\ ~ValidSpec(tokens) /\ ~(IsIpV6Spec(tokens) /\ CrashesIpV6Spec(tokens))
  /\ phase' = "failed"
  /\ UNCHANGED <<store, history>>

\* A null pointer is read.
CrashOnSpec(tokens) ==
  /\ phase = "options"
  /\ IsIpV6Spec(tokens) /\ CrashesIpV6Spec(tokens)
  /\ phase' = "crashed"
  /\ UNCHANGED <<store, history>>

OpenCapture ==
  /\ phase = "options"
  /\ phase' = "loading"
  /\ UNCHANGED <<store, history>>

\* pcap_open_offline or pcap_loop reports an error; a frame was cut short.
LoadFails ==
  /\ \/ phase = "options"
     \/ phase = "loading"
  /\ phase' = "failed"
  /\ UNCHANGED <<store, history>>

EndOfCapture ==
  /\ phase = "loading"
  /\ phase' = "loaded"
  /\ UNCHANGED <<store, history>>

-----------------------------------------------------------------------------
(* One frame: dissection, lookup in the store, recording.                  *)

Dissected(f) ==
  /\ \/ DataLink = "NULL" /\ f.family = "IP"
     \/ DataLink = "EN10MB" /\ f.family \in {"IP", "IPV6"}
  /\ f.packet.proto \in {"TCP", "UDP"}

IsConfigured(p) ==
  \E i \in 1 .. 2 : TcpIpGetTargetTestServerKeys(p)[i] \in DOMAIN test_servers

\* Mutant: the address alone is tried before the address with the port.
TestServerByAddressFirst(p) ==
  LET keys == TcpIpGetTargetTestServerKeys(p)
  IN  IF keys[2] \in DOMAIN test_servers THEN test_servers[keys[2]]
      ELSE IF keys[1] \in DOMAIN test_servers THEN test_servers[keys[1]]
      ELSE NoServer

\* The first of the packet's keys that is configured decides.
TestServer(p) ==
  LET keys == TcpIpGetTargetTestServerKeys(p)
  IN  IF keys[1] \in DOMAIN test_servers THEN test_servers[keys[1]]
      ELSE IF keys[2] \in DOMAIN test_servers THEN test_servers[keys[2]]
      ELSE NoServer

CreateConversation(p, server) ==
  NewConversation(IF Protocol = "TCP" THEN "CLOSED" ELSE "NONE", p, server)

\* Mutant: without options every conversation is recorded.
AdmitsAll(p) ==
  \/ TcpIpGetKey(p) \in DOMAIN conversations
  \/ IsConfigured(p)
  \/ DOMAIN test_servers = {}

\* getConversation returns nullptr for the packets this leaves out.
Admits(p) ==
  \/ TcpIpGetKey(p) \in DOMAIN conversations
  \/ IsConfigured(p)
  \/ DOMAIN test_servers = {} /\ DOMAIN conversations = {}

GetConversation(p) ==
  IF TcpIpGetKey(p) \in DOMAIN conversations
  THEN conversations[TcpIpGetKey(p)]
  ELSE CreateConversation(p, TestServer(p))

ProcessCapturePacket(c, p) ==
  IF Protocol = "TCP" THEN TcpProcessCapturePacket(c, p)
                      ELSE UdpProcessCapturePacket(c, p)

IsConnectionRequest(p) == p.proto = "TCP" /\ HasSyn(p) /\ ~HasAck(p) /\ ~HasRst(p)

NoteFirsts(p) ==
  /\ first_packet' = IF first_packet = NoKey THEN TcpIpGetKey(p) ELSE first_packet
  /\ first_request' = IF first_request = NoKey /\ IsConnectionRequest(p)
                      THEN TcpIpGetKey(p) ELSE first_request

WasReset(c, p) == p.proto = "TCP" /\ HasRst(p) /\ c.cap_tcp_state = "ESTABLISHED"

\* packetHandler for a packet that belongs to a conversation.
RecordPacket(f) ==
  LET p == f.packet
      k == TcpIpGetKey(p)
      c == GetConversation(p)
      d == ProcessCapturePacket(c, p)
      r == IF k \in DOMAIN conversations THEN resets[k] ELSE 0
  IN  /\ phase = "loading"
      /\ f.whole /\ Dissected(f) /\ Admits(p)
      /\ Len(c.action_queue) < MaxActions
      /\ WasReset(c, p) => r < MaxResets
      /\ conversations' = Put(conversations, k, d)
      /\ initiator' =
           IF c.cap_tcp_state = "CLOSED" /\ d.cap_tcp_state = "SYN_SENT"
           THEN Put(initiator, k, Sender(p)) ELSE initiator
      /\ resets' = Put(resets, k, IF WasReset(c, p) THEN r + 1 ELSE r)
      /\ NoteFirsts(p)
      /\ UNCHANGED <<phase, test_servers, given>>

\* packetHandler for a packet that belongs to none.
SkipPacket(f) ==
  /\ phase = "loading"
  /\ f.whole /\ Dissected(f) /\ ~Admits(f.packet)
  /\ NoteFirsts(f.packet)
  /\ UNCHANGED <<phase, store, given, initiator, resets>>

\* packetHandler returns early.
IgnoreFrame(f) ==
  /\ phase = "loading"
  /\ f.whole /\ ~Dissected(f)
  /\ UNCHANGED vars

\* The first frame that is not whole ends the program with nothing replayed.
CutFrame(f) ==
  /\ phase = "loading"
  /\ ~f.whole
  /\ phase' = "failed"
  /\ UNCHANGED <<store, history>>

PacketHandler(f) == RecordPacket(f) \/ SkipPacket(f) \/ IgnoreFrame(f) \/ CutFrame(f)

Next ==
  \/ \E tokens \in Specs :
        AddTargetTestServer(tokens) \/ RejectSpec(tokens) \/ CrashOnSpec(tokens)
  \/ OpenCapture
  \/ \E f \in Frames : PacketHandler(f)
  \/ EndOfCapture
  \/ LoadFails

Spec == Init /\ [][Next]_vars

-----------------------------------------------------------------------------
(* Properties.                                                             *)

Recorded == DOMAIN conversations

\* The types of the store's maps and of the history, and which of the maps
\* have the same keys.
TypeOK ==
  /\ phase \in {"options", "loading", "loaded", "failed", "crashed"}
  /\ test_servers \in [DOMAIN test_servers -> TargetTestServer]
  /\ DOMAIN test_servers \subseteq ServerKey
  /\ \A k \in DOMAIN test_servers :
        test_servers[k] = NoServer \/ test_servers[k].test_addr \in Addr
  /\ conversations \in [Recorded -> Conversation]
  /\ \A k \in Recorded :
        conversations[k].cap_tcp_state = "NONE" <=> Protocol = "UDP"
  /\ Recorded \subseteq Key
  /\ given \in [DOMAIN test_servers -> Specs]
  /\ first_packet \in Key \cup {NoKey}
  /\ first_request \in Key \cup {NoKey}
  /\ initiator \in [DOMAIN initiator -> Endpoint]
  /\ DOMAIN initiator \subseteq Recorded
  /\ resets \in [Recorded -> Nat]

\* tcp_conversation.cc: whatever the capture holds - a stream joined halfway,
\* retransmitted, reset, closed by either side, opened again - the queue that
\* HttpReplayClient::replay will run never sends, receives or closes without
\* a connection.
ScriptsAreWellFormed ==
  Protocol = "TCP" => \A k \in Recorded : WellFormed(conversations[k].action_queue)

\* tcp_conversation.cc: every CONNECT of the queue is matched by a CLOSE or by
\* a reset seen while established (which adds no action), or is the connection
\* that is still open.  The connections left to the replay without a CLOSE are
\* those that were reset, plus at most one.
ConnectionsAreAccountedFor ==
  Protocol = "TCP" =>
    \A k \in Recorded :
       LET c == conversations[k]
       IN  Cardinality(Positions(c.action_queue, "CONNECT"))
             = Cardinality(Positions(c.action_queue, "CLOSE")) + resets[k]
                 + (IF c.cap_tcp_state = "ESTABLISHED" THEN 1 ELSE 0)

\* tcp_conversation.cc compares only the address of the sender during the
\* handshake, and the constructor takes the first packet's sender for the
\* client: between two hosts, the side whose requests are replayed is
\* nevertheless the one that opened the connection.
ClientIsInitiator ==
  \A k \in Recorded :
    LET c == conversations[k]
    IN  /\ c.cap_tcp_state \in {"SYN_SENT", "SYN_RECEIVED", "ESTABLISHED"}
        /\ c.cap_src_addr # c.cap_dest_addr
        => k \in DOMAIN initiator /\ initiator[k] = CapSource(c)

\* estProcessCapturePacket and UdpConversation::processCapturePacket call RECV
\* whatever does not come from the client: what is sent was sent by the
\* captured client, what is expected came from the captured server, and no
\* third party's data is filed with them.
DataComesFromItsSide ==
  \A k \in Recorded :
    LET c == conversations[k]
    IN  \A i \in DOMAIN c.action_queue :
          LET a == c.action_queue[i]
          IN  a.data # NoData =>
                a.data.by = IF a.type = "SEND" THEN CapSource(c) ELSE CapDest(c)

\* network_layers.h: whatever lies around the payload of a frame - options,
\* padding, an IPv6 header - an action holds the payload, all of it and nothing
\* else.
PayloadsAreWhole ==
  \A k \in Recorded :
    LET c == conversations[k]
    IN  \A i \in DOMAIN c.action_queue :
          LET a == c.action_queue[i]
          IN  a.data # NoData => a.data.body # Garbled

\* tcpIpGetKey: the two directions of a stream, and a stream joined in either
\* direction, never end up as two conversations.
OneConversationPerPair ==
  \A k, l \in Recorded :
    LET c == conversations[k]
        d == conversations[l]
    IN  {CapSource(c), CapDest(c)} = {CapSource(d), CapDest(d)} => k = l

\* TypedConversationStore::getConversation: with no "-c" option at most one
\* conversation is recorded, that of the first TCP or UDP packet of the file.
OnlyTheFirstUnlessConfigured ==
  DOMAIN test_servers = {} => Recorded \subseteq {first_packet}

\* Where the parameters of an option stand, between the marks, and the n-th.
Parameters(s) == {i \in 1 .. Len(s) : s[i] \notin {OpenMark, ShutMark, ColonMark}}

Parameter(s, n) ==
  s[CHOOSE i \in Parameters(s) : Cardinality({j \in Parameters(s) : j <= i}) = n]

\* getTargetTestServerKeys, the two parsers of options and the
\* PacketConversation constructor together, through three byte swaps of the port: a recorded
\* client was asked for, by the last option given for its address and port or
\* else for its address alone, and it is replayed against the server that
\* option names, or the captured one when the option names none.  An option
\* without a test port is TestPortDefaultsToCapture's business.
TargetIsAsGiven ==
  DOMAIN test_servers # {} =>
    \A k \in Recorded :
      LET c == conversations[k]
          asked == IF CapSource(c) \in DOMAIN given THEN CapSource(c)
                                                    ELSE <<c.cap_src_addr, NO_PORT>>
          option == given[asked]
          said == Cardinality(Parameters(option))
      IN  /\ asked \in DOMAIN given
          /\ said < 3 =>
               c.test_addr = c.cap_dest_addr /\ c.test_port = c.cap_dest_port
          /\ said = 4 =>
               /\ c.test_addr = Parameter(option, 3).addr
               /\ c.test_port = Htons(Parameter(option, 4).num)

\* src/README.md:41, "test port - [...] Defaults to the port in the capture
\* file".
TestPortDefaultsToCapture ==
  \A k \in Recorded :
    LET c == conversations[k]
    IN  CapSource(c) \in DOMAIN given /\ Cardinality(Parameters(given[CapSource(c)])) = 3
          => c.test_port = c.cap_dest_port

\* src/README.md:43, "If no "client spec" is specified, the TCP stream with the
\* first connection request is recreated."
FirstConnectionRequestIsRecorded ==
  DOMAIN test_servers = {} /\ first_request # NoKey => first_request \in Recorded

=============================================================================
