---------------------------- MODULE NetworkLayers ----------------------------
(***************************************************************************)
(* Captured packets as the layer classes of network_layers.h show them to  *)
(* the rest of the program.  A packet is what is left of the bytes once    *)
(* the accessors of Layer3, TcpLayer and UdpLayer have been applied:       *)
(* protocol, addresses, ports, flags and payload.                          *)
(***************************************************************************)
EXTENDS ByteOrder, Sequences

CONSTANTS
  Addr,    \* addresses; memcmp orders them, so they are numbers
  AddrV6,  \* those of them that are IPv6 addresses
  Port,    \* ports as the header stores them (network byte order, not swapped)
  Body,    \* what a payload may say
  NoData   \* an empty payload

ASSUME AddrAssumption == Addr \subseteq Nat /\ AddrV6 \subseteq Addr
ASSUME PortAssumption == Port \subseteq Word
ASSUME NoDataAssumption == NoData \notin [by : Addr \X Port, body : Body]

\* The TCP flags the code can tell apart; "ECN" stands for ECE and CWR, which
\* getFlags returns with the others.
Flag == {"SYN", "ACK", "FIN", "RST", "ECN"}

Endpoint == Addr \X Port

\* A payload carries its sender, so that properties can say where recorded
\* data comes from; the code never looks at it.
Data == [by : Endpoint, body : Body]

Packet ==
  [proto : {"TCP", "UDP", "OTHER"},
   src   : Addr, sport : Port, dst : Addr, dport : Port,
   flags : SUBSET Flag,
   data  : Data \cup {NoData}]

\* What pcap hands to Capture::packetHandler: is the frame whole (caplen =
\* len), what does the link layer say it holds, and the packet inside.
Frame ==
  [whole : BOOLEAN, family : {"IP", "IPV6", "OTHER"}, packet : Packet]

Sender(p)   == <<p.src, p.sport>>
Receiver(p) == <<p.dst, p.dport>>

HasSyn(p)  == "SYN" \in p.flags
HasAck(p)  == "ACK" \in p.flags
HasFin(p)  == "FIN" \in p.flags
HasRst(p)  == "RST" \in p.flags
HasData(p) == p.data # NoData

\* A payload names the endpoint that sent it.
Signed(p) == HasData(p) => p.data.by = Sender(p)

=============================================================================
