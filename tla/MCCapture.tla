------------------------------ MODULE MCCapture ------------------------------
(***************************************************************************)
(* Instances of Capture for TLC.  Two clients A and C of one server B; the *)
(* third address is only ever the target of a "-c" option.  The fifth,     *)
(* sixth and seventh are an IPv6 client, its server and another target.    *)
(***************************************************************************)
EXTENDS Capture

MCAddr == 1 .. 7
MCAddrV6 == 5 .. 7

\* Raw header values: 20480 is port 80 in network byte order.
WebPort == 20480
MCPort  == {10, 11, WebPort}

A == <<1, 10>>
B == <<2, WebPort>>
C == <<3, 11>>
D == <<5, 10>>
E == <<6, WebPort>>

Packets(proto, from, to, flagSets, payloads) ==
  {[proto |-> proto, src |-> from[1], sport |-> from[2],
    dst |-> to[1], dport |-> to[2], flags |-> fl, data |-> d] :
     fl \in flagSets, d \in payloads}

Says(e) == {[by |-> e, body |-> m] : m \in Body \ {Garbled}}

Whole(ps) == [whole : {TRUE}, family : {"IP"}, packet : ps]

\* What a client sends, retransmissions and resets included.
FromClient(e) ==
  Packets("TCP", e, B, {{"SYN"}, {"SYN", "ECN"}, {"ACK"}, {"RST"}}, {NoData})
    \cup Packets("TCP", e, B, {{"ACK"}, {"ACK", "FIN"}}, Says(e))

FromServer(e) ==
  Packets("TCP", B, e, {{"SYN", "ACK"}, {"ACK"}, {"ACK", "FIN"}}, {NoData})
    \cup Packets("TCP", B, e, {{"ACK"}}, Says(B))

\* Frames the program does not look into, or cannot.
OddFrames ==
  LET p == CHOOSE q \in Packets("TCP", A, B, {{"SYN"}}, {NoData}) : TRUE
  IN  {[whole |-> FALSE, family |-> "IP", packet |-> p],
       [whole |-> TRUE, family |-> "OTHER", packet |-> p],
       [whole |-> TRUE, family |-> "IPV6", packet |-> [p EXCEPT !.flags = {"RST"}]],
       [whole |-> TRUE, family |-> "IP", packet |-> [p EXCEPT !.proto = "OTHER"]]}

\* A stream between two ports of one host.
Loop == <<2, 11>>
Loopback ==
  Packets("TCP", Loop, B, {{"SYN"}, {"ACK"}}, {NoData})
    \cup Packets("TCP", B, Loop, {{"SYN", "ACK"}}, {NoData})
    \cup Packets("TCP", B, Loop, {{"ACK", "FIN"}}, Says(B))

OneHost == Whole(Loopback)

\* Datagrams in the frames of a capture: from A, the host the capture was taken
\* on, as they were sent; from the others padded, and with IP options.
InFrames(ps, family, padded) ==
  {Seen(Framed(p, family, IF padded THEN 6 ELSE 5, DataLink, 0,
               IF HasData(p) THEN 1 ELSE 0, padded), DataLink) : p \in ps}

Datagrams ==
  InFrames(Packets("UDP", A, B, {{}}, Says(A) \cup {NoData}), "IP", FALSE)
    \cup InFrames(Packets("UDP", B, A, {{}}, Says(B))
                    \cup Packets("UDP", C, B, {{}}, Says(C)), "IP", TRUE)
    \cup InFrames(Packets("UDP", D, E, {{}}, Says(D)), "IPV6", FALSE)

\* The same between two ports of one host.
LoopDatagrams ==
  InFrames(Packets("UDP", Loop, B, {{}}, Says(Loop))
             \cup Packets("UDP", B, Loop, {{}}, Says(B)), "IP", FALSE)

TwoStreams ==
  Whole(FromClient(A) \cup FromServer(A) \cup Packets("TCP", C, B, {{"SYN"}}, {NoData})
          \cup Packets("TCP", B, C, {{"ACK"}}, Says(B))
          \cup Packets("UDP", A, B, {{}}, Says(A)))
    \cup OddFrames

Streams == TwoStreams \cup OneHost

TwoClients ==
  Whole(Packets("TCP", A, B, {{"SYN"}, {"ACK"}}, {NoData})
          \cup Packets("TCP", A, B, {{"ACK"}}, Says(A))
          \cup Packets("TCP", B, A, {{"SYN", "ACK"}}, {NoData})
          \cup Packets("TCP", B, A, {{"ACK", "FIN"}}, Says(B))
          \cup Packets("TCP", C, B, {{"SYN"}, {"ACK"}, {"RST"}}, {NoData})
          \cup Packets("TCP", B, C, {{"SYN", "ACK"}}, {NoData}))
    \cup OneHost

UdpFrames ==
  Datagrams \cup LoopDatagrams \cup OddFrames
    \cup Whole(Packets("TCP", A, B, {{"SYN"}}, {NoData}))

-----------------------------------------------------------------------------
(* Options.  Ports are given in host byte order: 2560 is the raw port 10.  *)

IpOf(a) == [addr |-> a, num |-> a]
PortOf(raw) == [addr |-> NoAddr, num |-> Htons(raw)]
Junk == [addr |-> NoAddr, num |-> NoNumber]

NoOptions == {}

SomeOptions ==
  {<<IpOf(1)>>,
   <<IpOf(2)>>,
   <<IpOf(1), PortOf(10)>>,
   <<IpOf(1), PortOf(10), IpOf(4), PortOf(11)>>,
   <<IpOf(3), PortOf(11), IpOf(4), PortOf(WebPort)>>,
   <<IpOf(2), Junk>>,
   <<Junk>>,
   <<OpenMark, IpOf(5), ShutMark>>,
   <<OpenMark, IpOf(5), ShutMark, ColonMark, PortOf(10), ColonMark,
     OpenMark, IpOf(7), ShutMark, ColonMark, PortOf(11)>>,
   <<OpenMark, IpOf(5), ShutMark, ColonMark, PortOf(10), ColonMark, OpenMark, IpOf(7), ShutMark>>,
   <<OpenMark, IpOf(5)>>}

ThreeTokens == {<<IpOf(1), PortOf(10), IpOf(4)>>}

=============================================================================
