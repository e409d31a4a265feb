------------------------------ MODULE FrameLayers ------------------------------
(***************************************************************************)
(* From the bytes of a captured frame to the packet of NetworkLayers: the  *)
(* layer classes hold a pointer and a size, and each finds the next one    *)
(* from the header it stands on.  A layer is a view [at, size] on the      *)
(* frame; what its bytes are is told apart only as far as "the payload the *)
(* sender put there", "nothing" and Garbled, any other slice.              *)
(***************************************************************************)
EXTENDS NetworkLayers

CONSTANT Garbled

ASSUME GarbledAssumption == Garbled \in Body

\* The header fields the accessors use.  ip_len is ip_plen in an IPv6 header;
\* payload and data are where the sender's payload is and what it says.
Wire ==
  [caplen : Nat, len : Nat, type : {"IP", "IPV6", "OTHER"},
   ip_hl : 5 .. 15, ip_len : Nat, proto : {"TCP", "UDP", "OTHER"},
   th_off : 5 .. 15, udp_len : Nat,
   src : Addr, sport : Port, dst : Addr, dport : Port, flags : SUBSET Flag,
   payload : [at : Nat, size : Nat], data : Data \cup {NoData}]

View(at, size) == [at |-> at, size |-> size]

-----------------------------------------------------------------------------
(* getData and getDataSize of each layer class.                            *)

\* The frame as packetHandler hands it to the network layer.
LinkData(w, link) ==
  LET header == IF link = "NULL" THEN 4 ELSE 14
  IN  View(header, w.caplen - header)

\* Mutant: the size is that of the frame, not the one the IP header states.
IpDataToFrameEnd(w, v) == View(v.at + 4 * w.ip_hl, v.size - 4 * w.ip_hl)

\* Mutant: every IP header is taken to be 20 bytes long.
IpDataNoOptions(w, v) == View(v.at + 20, w.ip_len - 20)

IpData(w, v) == View(v.at + 4 * w.ip_hl, w.ip_len - 4 * w.ip_hl)

IpV6Data(w, v) == View(v.at + 40, w.ip_len)

TcpData(w, v) == View(v.at + 4 * w.th_off, v.size - 4 * w.th_off)

UdpData(w, v) == View(v.at + 8, w.udp_len - 8)

-----------------------------------------------------------------------------

Payload(w, link) ==
  LET network   == LinkData(w, link)
      transport == IF w.type = "IPV6" THEN IpV6Data(w, network)
                                      ELSE IpData(w, network)
  IN  IF w.proto = "UDP" THEN UdpData(w, transport) ELSE TcpData(w, transport)

BytesAt(w, v) ==
  IF v.size = 0 THEN NoData
  ELSE IF v = w.payload THEN w.data
  ELSE [by |-> <<w.src, w.sport>>, body |-> Garbled]

\* The frame as Capture sees it.
Seen(w, link) ==
  [whole |-> w.caplen = w.len, family |-> w.type,
   packet |->
     [proto |-> w.proto, src |-> w.src, sport |-> w.sport,
      dst |-> w.dst, dport |-> w.dport, flags |-> w.flags,
      data |-> BytesAt(w, Payload(w, link))]]

-----------------------------------------------------------------------------
(* A frame as a host's network stack builds it around the packet p: an IP  *)
(* header of ip_hl words, 4 * options bytes of TCP options, a payload of   *)
(* size bytes, and the padding an Ethernet interface adds to a short frame.*)

Framed(p, family, ip_hl, link, options, size, padded) ==
  LET header  == IF link = "NULL" THEN 4 ELSE 14
      network == IF family = "IPV6" THEN 40 ELSE 4 * ip_hl
      above   == (IF p.proto = "UDP" THEN 8 ELSE 4 * (5 + options)) + size
      used    == header + network + above
      frame   == IF padded /\ used < 60 THEN 60 ELSE used
  IN  [caplen |-> frame, len |-> frame, type |-> family, ip_hl |-> ip_hl,
       ip_len |-> IF family = "IPV6" THEN above ELSE network + above,
       proto |-> p.proto, th_off |-> 5 + options, udp_len |-> 8 + size,
       src |-> p.src, sport |-> p.sport, dst |-> p.dst, dport |-> p.dport,
       flags |-> p.flags,
       payload |-> View(used - size, size), data |-> p.data]

=============================================================================
