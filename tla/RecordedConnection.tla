-------------------------- MODULE RecordedConnection --------------------------
(***************************************************************************)
(* The recorder beside the connection it records.  A client and a server   *)
(* talk TCP over channels that lose and reorder segments and retransmit    *)
(* what is not acknowledged; the client asks, the server answers, either   *)
(* side may close or reset.  A tap next to one of them writes the capture: *)
(* a host's segments when they leave it, the other side's when they reach  *)
(* it.  Every frame of it goes through the frame layers into RecordPacket  *)
(* of Capture, as it will when the file is read.                           *)
(*                                                                         *)
(* The hosts, the channels and the tap are not in the repository.          *)
(***************************************************************************)
EXTENDS Capture

CONSTANTS
  MaxRequests,   \* bound: messages of the client
  MaxResponses,  \* bound: messages of the server
  MaxInFlight,   \* bound: segments under way to the tap
  MaxBeyond,     \* bound: segments under way from it, which it has seen
  MaxRetries,    \* bound: retransmissions
  MaxFaults,     \* bound: segments lost or overtaken, and resets
  Sites          \* where the tap may be: [at : Side, family, ip_hl]

Side == {"client", "server"}

ASSUME ConnectionAssumption ==
  /\ {MaxRequests, MaxResponses, MaxInFlight, MaxBeyond,
      MaxRetries, MaxFaults} \subseteq Nat
  /\ Sites \subseteq [at : Side, family : {"IP", "IPV6"}, ip_hl : 5 .. 15]
  /\ 1 .. MaxRequests \cup 1 .. MaxResponses \subseteq Body \ {Garbled}
  /\ {1, 2} \subseteq Addr /\ {1, 2} \subseteq Port
  /\ Protocol = "TCP"

VARIABLES
  site,      \* the tap
  host,      \* the TCP state of each side
  channel    \* the segments under way to each side

\* History: read by properties and by the bounds.
VARIABLES
  stage,     \* what the tap has seen: "quiet", "opened", then "over"
  opener,    \* the message that came with the end of the handshake, or 0
  heard,     \* the data the tap saw from then on, up to the first FIN
  faults, retries

network == <<host, channel>>
seen    == <<stage, opener, heard>>
connvars == <<vars, site, network, seen, faults, retries>>

Peer(h) == IF h = "client" THEN "server" ELSE "client"

At(h) == IF h = "client" THEN <<1, 1>> ELSE <<2, 2>>

Says(h, m) == [by |-> At(h), body |-> m]

-----------------------------------------------------------------------------
(* Segments.  The stream of a side is numbered: unit 1 is its SYN, unit    *)
(* m + 1 its message m, and the unit after the last message its FIN.       *)

Segment ==
  [from : Side, seq : Nat, ack : Nat, syn : BOOLEAN, msg : Nat,
   fin : BOOLEAN, rst : BOOLEAN]

Length(s) == (IF s.syn THEN 1 ELSE 0) + (IF s.msg > 0 THEN 1 ELSE 0)
                                      + (IF s.fin THEN 1 ELSE 0)

\* The segment of h that starts at unit n, with the acknowledgement of now.
SegmentAt(h, n, fin) ==
  LET said == host[h].said
  IN  [from |-> h, seq |-> n, ack |-> host[h].got, syn |-> n = 1,
       msg |-> IF n \in 2 .. said + 1 THEN n - 1 ELSE 0,
       fin |-> fin /\ n + 1 >= said + 2, rst |-> FALSE]

PacketOf(s) ==
  LET from == At(s.from)
      to   == At(Peer(s.from))
  IN  [proto |-> "TCP", src |-> from[1], sport |-> from[2],
       dst |-> to[1], dport |-> to[2],
       flags |-> {f \in Flag : \/ f = "SYN" /\ s.syn
                               \/ f = "ACK" /\ s.ack > 0
                               \/ f = "FIN" /\ s.fin
                               \/ f = "RST" /\ s.rst},
       data |-> IF s.msg = 0 THEN NoData ELSE Says(s.from, s.msg)]

\* SYN segments carry options; a message is one byte.
FrameOf(s, padded) ==
  Framed(PacketOf(s), site.family, site.ip_hl, DataLink,
         IF s.syn THEN 5 ELSE 0, IF s.msg = 0 THEN 0 ELSE 1, padded)

-----------------------------------------------------------------------------
(* The tap.                                                                *)

Opens(s) == stage = "quiet" /\ s.from = "client" /\ ~s.syn /\ ~s.rst

Note(s) ==
  /\ stage' = IF s.rst \/ (s.fin /\ stage = "opened") THEN "over"
              ELSE IF Opens(s) THEN "opened" ELSE stage
  /\ opener' = IF Opens(s) THEN s.msg ELSE opener
  /\ heard' = IF stage = "opened" /\ s.msg > 0
              THEN Append(heard, Says(s.from, s.msg)) ELSE heard

\* Frames that come off the wire are padded, frames that go out are not yet.
Observe(h, s) ==
  IF site.at = h
  THEN RecordPacket(Seen(FrameOf(s, s.from # h), DataLink)) /\ Note(s)
  ELSE UNCHANGED <<vars, seen>>

-----------------------------------------------------------------------------
(* The two hosts.                                                          *)

IdleHost ==
  [sent |-> 0, said |-> 0, fin |-> FALSE, acked |-> 0,
   got |-> 0, answered |-> 0, owes |-> FALSE, dead |-> FALSE]

ConnectionInit ==
  /\ phase = "loading"
  /\ test_servers = NoEntries /\ conversations = NoEntries
  /\ given = NoEntries /\ initiator = NoEntries /\ resets = NoEntries
  /\ first_packet = NoKey /\ first_request = NoKey
  /\ site \in Sites
  /\ host = [h \in Side |-> IdleHost]
  /\ channel = [h \in Side |-> <<>>]
  /\ stage = "quiet" /\ opener = 0 /\ heard = <<>>
  /\ faults = 0 /\ retries = 0

Established(h) ==
  host[h].acked >= 1 /\ host[h].got >= 1 /\ ~host[h].dead

MaxMessages(h) == IF h = "client" THEN MaxRequests ELSE MaxResponses

\* s leaves h, past the tap if it is there.
Send(h, s) ==
  /\ Len(channel[Peer(h)]) < IF site.at = h THEN MaxBeyond ELSE MaxInFlight
  /\ channel' = [channel EXCEPT ![Peer(h)] = Append(@, s)]
  /\ Observe(h, s)
  /\ UNCHANGED site

\* The client's SYN, or the server's SYN with the acknowledgement of it.
Open(h) ==
  /\ host[h].sent = 0 /\ ~host[h].dead
  /\ h = "server" => host[h].got >= 1
  /\ Send(h, SegmentAt(h, 1, FALSE))
  /\ host' = [host EXCEPT ![h].sent = 1, ![h].owes = FALSE]
  /\ UNCHANGED <<faults, retries>>

\* Requests may be sent before the last one is answered; a response answers
\* a request that has arrived.  FIN may come with the message.
Say(h, fin) ==
  LET m == host[h].said + 1
  IN  /\ Established(h) /\ ~host[h].fin
      /\ m <= MaxMessages(h)
      /\ h = "server" => m <= host[h].answered
      /\ Send(h, [SegmentAt(h, m + 1, fin) EXCEPT !.msg = m])
      /\ host' = [host EXCEPT ![h].said = m, ![h].fin = fin, ![h].owes = FALSE,
                              ![h].sent = @ + (IF fin THEN 2 ELSE 1)]
      /\ UNCHANGED <<faults, retries>>

Finish(h) ==
  /\ Established(h) /\ ~host[h].fin
  /\ Send(h, SegmentAt(h, host[h].sent + 1, TRUE))
  /\ host' = [host EXCEPT ![h].fin = TRUE, ![h].owes = FALSE, ![h].sent = @ + 1]
  /\ UNCHANGED <<faults, retries>>

Acknowledge(h) ==
  /\ host[h].owes /\ host[h].sent >= 1 /\ ~host[h].dead
  /\ Send(h, SegmentAt(h, host[h].sent + 1, FALSE))
  /\ host' = [host EXCEPT ![h].owes = FALSE]
  /\ UNCHANGED <<faults, retries>>

\* The oldest unit that is not acknowledged goes out again.
Retransmit(h) ==
  /\ host[h].acked < host[h].sent /\ ~host[h].dead
  /\ retries < MaxRetries /\ retries' = retries + 1
  /\ Send(h, SegmentAt(h, host[h].acked + 1, host[h].fin))
  /\ host' = [host EXCEPT ![h].owes = FALSE]
  /\ UNCHANGED faults

ResetConnection(h) ==
  LET s == [SegmentAt(h, host[h].sent + 1, FALSE) EXCEPT !.rst = TRUE]
  IN  /\ Established(h)
      /\ faults < MaxFaults /\ faults' = faults + 1
      /\ Send(h, s)
      /\ host' = [host EXCEPT ![h].dead = TRUE]
      /\ UNCHANGED retries

\* The next segment arrives: past the tap if it is there, then at the host,
\* which takes what continues the stream and acknowledges everything.
Deliver(h) ==
  /\ channel[h] # <<>>
  /\ LET s    == Head(channel[h])
         last == s.seq + Length(s) - 1
         me   == host[h]
         new  == s.seq <= me.got + 1 /\ last > me.got
     IN  /\ Observe(h, s)
         /\ channel' = [channel EXCEPT ![h] = Tail(@)]
         /\ host' = [host EXCEPT ![h] =
              IF me.dead \/ s.rst THEN [me EXCEPT !.dead = TRUE]
              ELSE [me EXCEPT
                !.acked = IF s.ack > @ THEN s.ack ELSE @,
                !.got = IF new THEN last ELSE @,
                !.answered = IF new /\ s.msg > @ THEN s.msg ELSE @,
                !.owes = @ \/ Length(s) > 0]]
  /\ UNCHANGED <<site, faults, retries>>

-----------------------------------------------------------------------------
(* The channels.                                                           *)

Fault ==
  /\ faults < MaxFaults /\ faults' = faults + 1
  /\ UNCHANGED <<vars, site, host, seen, retries>>

Lose(h) ==
  /\ channel[h] # <<>>
  /\ channel' = [channel EXCEPT ![h] = Tail(@)]
  /\ Fault

Overtake(h) ==
  /\ Len(channel[h]) >= 2
  /\ channel' = [channel EXCEPT ![h] = <<@[2], @[1]>> \o SubSeq(@, 3, Len(@))]
  /\ Fault

ConnectionNext ==
  \E h \in Side :
     \/ Open(h)
     \/ \E fin \in BOOLEAN : Say(h, fin)
     \/ Finish(h)
     \/ Acknowledge(h)
     \/ Retransmit(h)
     \/ ResetConnection(h)
     \/ Deliver(h)
     \/ Lose(h)
     \/ Overtake(h)

ConnectionSpec == ConnectionInit /\ [][ConnectionNext]_connvars

-----------------------------------------------------------------------------
(* Properties.                                                             *)

ConnectionKey == GenerateKey(At("client"), At("server"))

Queue ==
  IF ConnectionKey \in Recorded THEN conversations[ConnectionKey].action_queue ELSE <<>>

\* The positions in the script that carry data.
Carriers == {i \in 1 .. Len(Queue) : Queue[i].data # NoData}

\* The positions of message m of side h in the script.
PositionsOf(h, m) == {i \in 1 .. Len(Queue) : Queue[i].data = Says(h, m)}

\* The SEND actions without what they repeat: where each request is first sent.
FirstSends ==
  {i \in Positions(Queue, "SEND") :
     \A j \in 1 .. i - 1 : Queue[j].data # Queue[i].data}

\* network_layers.h: however headers, options and padding lie in the frames,
\* an action is something its side has said.
OnlyWhatWasSaid ==
  \A i \in 1 .. Len(Queue) :
     LET a == Queue[i]
     IN  a.data # NoData =>
           \E m \in 1 .. host[IF a.type = "SEND" THEN "client" ELSE "server"].said :
              a.data = Says(IF a.type = "SEND" THEN "client" ELSE "server", m)

\* tcp_conversation.cc: the recorder keeps the data of both directions in the
\* order it passed, once for each time it passed: all of it from the segment
\* after the one that completes the handshake up to the first FIN or reset.
ScriptIsWhatTheTapHeard ==
  /\ Cardinality(Carriers) = Len(heard)
  /\ \A i \in Carriers :
        Queue[i].data = heard[Cardinality({j \in Carriers : j <= i})]

\* estProcessCapturePacket, beside the client: whatever is lost or overtaken on
\* the way, the requests are sent for the first time in the order in which the
\* client made them, none is skipped, unless the first one came with the end of
\* the handshake.
RequestsAreInOrder ==
  site.at = "client" /\ opener = 0 =>
    /\ \A i, j \in FirstSends : i < j => Queue[i].data.body < Queue[j].data.body
    /\ stage = "opened" =>
         Cardinality(FirstSends) = host["client"].said

\* tcp_conversation.cc, at either end: a response that the replay will wait for
\* is preceded by the request it answers, over any losses and retransmissions.
ResponsesFollowRequests ==
  opener = 0 =>
    \A m \in 1 .. MaxResponses : \A i \in PositionsOf("server", m) :
       \E j \in PositionsOf("client", m) : j < i

=============================================================================
