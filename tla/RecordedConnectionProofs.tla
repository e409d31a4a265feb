----------------------- MODULE RecordedConnectionProofs ------------------------
(***************************************************************************)
(* Proofs about a script recorded beside a connection: what it holds of    *)
(* what the two hosts said, for any number of messages, retransmissions    *)
(* and faults, any number of segments under way, and a tap at either end;  *)
(* that the requests are in it in the order in which the client made them; *)
(* and that no response comes before its request.                          *)
(***************************************************************************)
EXTENDS RecordedConnection, CaptureProofs, WellFoundedInduction

-----------------------------------------------------------------------------
(* Hosts and segments.                                                     *)

HostState ==
  [sent : Nat, said : Nat, fin : BOOLEAN, acked : Nat,
   got : Nat, answered : Nat, owes : BOOLEAN, dead : BOOLEAN]

NetworkType ==
  /\ site \in Sites
  /\ host \in [Side -> HostState]
  /\ channel \in [Side -> Seq(Segment)]

\* A segment as one of the hosts sends it.  Before the client has the server's
\* SYN it sends nothing but its own, without an acknowledgement; the server
\* acknowledges from the first segment on, and its stream goes no further
\* before its SYN is acknowledged.
Formed(s) ==
  /\ s \in Segment
  /\ s.seq >= 1 /\ (s.syn <=> s.seq = 1)
  /\ s.syn => s.msg = 0 /\ ~s.fin /\ ~s.rst
  /\ s.rst => s.msg = 0
  /\ s.msg <= host[s.from].said /\ host[s.from].sent >= 1
  /\ s.from = "client" /\ s.syn => s.ack = 0
  /\ s.from = "client" /\ ~s.syn => s.ack >= 1 /\ host["client"].got >= 1
  /\ s.from = "server" => s.ack >= 1
  /\ s.from = "server" /\ ~s.syn /\ (s.rst \/ Length(s) > 0) => host["server"].acked >= 1

\* What is under way was sent by the other side.
UnderWay ==
  \A h \in Side : \A i \in 1 .. Len(channel[h]) :
     channel[h][i].from = Peer(h) /\ Formed(channel[h][i])

\* A side says nothing, and ends nothing, before its SYN is acknowledged.
Streams ==
  \A h \in Side :
     /\ host[h].said <= MaxMessages(h)
     /\ host[h].said >= 1 \/ host[h].fin \/ host[h].sent >= 2 => host[h].acked >= 1
     /\ host[h].sent >= 1 => host[h].sent >= host[h].said + 1

\* The handshake, from its end to its beginning.
Handshake ==
  /\ host["client"].owes \/ host["client"].sent >= 2 => host["client"].got >= 1
  /\ host["server"].acked >= 1 => host["client"].got >= 1
  /\ host["client"].got >= 1 => host["client"].acked >= 1
  /\ host["client"].got >= 1 => host["server"].sent >= 1
  /\ host["server"].sent >= 1 => host["server"].got >= 1
  /\ host["server"].got >= 1 => host["client"].sent >= 1
  /\ host["client"].acked >= 1 => host["client"].sent >= 1

HandshakeInv == NetworkType /\ UnderWay /\ Streams /\ Handshake

\* Of what a host has sent, said, received and seen acknowledged nothing is
\* taken back.
Grown ==
  \A h \in Side :
     /\ host'[h].said >= host[h].said /\ host'[h].sent >= host[h].sent
     /\ host'[h].acked >= host[h].acked /\ host'[h].got >= host[h].got

LEMMA Sides ==
  /\ "client" \in Side /\ "server" \in Side
  /\ Peer("client") = "server" /\ Peer("server") = "client"
  /\ \A h \in Side : Peer(h) \in Side /\ Peer(Peer(h)) = h /\ Peer(h) # h
  /\ \A h \in Side : h = "client" \/ h = "server"
BY DEF Side, Peer

LEMMA FormedStays ==
  ASSUME NetworkType, NetworkType', Grown, NEW s, Formed(s)
  PROVE  Formed(s)'
<1>1. s \in Segment /\ s.from \in Side
  BY DEF Formed, Segment
<1>2. \A h \in Side : /\ host[h].said \in Nat /\ host'[h].said \in Nat
                      /\ host[h].sent \in Nat /\ host'[h].sent \in Nat
                      /\ host[h].acked \in Nat /\ host'[h].acked \in Nat
                      /\ host[h].got \in Nat /\ host'[h].got \in Nat
  BY DEF NetworkType, HostState
<1>3. s.msg \in Nat
  BY <1>1 DEF Segment
<1>4. s.msg <= host'[s.from].said /\ host'[s.from].sent >= 1
  BY <1>1, <1>2, <1>3 DEF Formed, Grown
<1>5. host["client"].got >= 1 => host'["client"].got >= 1
  BY <1>2, Sides DEF Grown
<1>6. host["server"].acked >= 1 => host'["server"].acked >= 1
  BY <1>2, Sides DEF Grown
<1> QED
  BY <1>4, <1>5, <1>6 DEF Formed

LEMMA SegmentFacts ==
  ASSUME NetworkType, NEW h \in Side, NEW n \in Nat, n >= 1, NEW fin,
         NEW s, s = SegmentAt(h, n, fin)
  PROVE  /\ s \in Segment
         /\ s.from = h /\ s.seq = n /\ s.ack = host[h].got
         /\ s.syn <=> n = 1
         /\ ~s.rst
         /\ s.fin => fin
         /\ s.msg <= host[h].said
         /\ n = 1 \/ n > host[h].said + 1 => s.msg = 0
<1>1. host[h].said \in Nat /\ host[h].got \in Nat
  BY DEF NetworkType, HostState
<1>2. (IF n \in 2 .. host[h].said + 1 THEN n - 1 ELSE 0) \in Nat
  BY <1>1
<1>3. /\ s.syn = (n = 1) /\ s.rst = FALSE
      /\ s.from = h /\ s.seq = n /\ s.ack = host[h].got
      /\ s.fin => fin
      /\ s.msg = IF n \in 2 .. host[h].said + 1 THEN n - 1 ELSE 0
  BY DEF SegmentAt
<1>4. s \in Segment
  BY <1>1, <1>2 DEF SegmentAt, Segment
<1>5. (s.syn <=> n = 1) /\ ~s.rst
  BY <1>3, Zenon
<1>6. s.msg <= host[h].said /\ (n = 1 \/ n > host[h].said + 1 => s.msg = 0)
  BY <1>1, <1>3
<1> QED
  BY <1>3, <1>4, <1>5, <1>6

\* One without FIN.
Bare(h, n) == SegmentAt(h, n, FALSE)

LEMMA BareFacts ==
  ASSUME NetworkType, NEW h \in Side, NEW n \in Nat, n >= 1, NEW s, s = Bare(h, n)
  PROVE  /\ s \in Segment
         /\ s.from = h /\ s.seq = n /\ s.ack = host[h].got
         /\ s.syn <=> n = 1
         /\ ~s.rst
         /\ ~s.fin
         /\ n = 1 \/ n > host[h].said + 1 => s.msg = 0
<1>1. host[h].said \in Nat /\ host[h].got \in Nat
  BY DEF NetworkType, HostState
<1>2. (IF n \in 2 .. host[h].said + 1 THEN n - 1 ELSE 0) \in Nat
  BY <1>1
<1>3. /\ s.syn = (n = 1) /\ s.rst = FALSE /\ s.fin = FALSE
      /\ s.from = h /\ s.seq = n /\ s.ack = host[h].got
      /\ s.msg = IF n \in 2 .. host[h].said + 1 THEN n - 1 ELSE 0
  BY DEF Bare, SegmentAt
<1>4. s \in Segment
  BY <1>1, <1>2 DEF Bare, SegmentAt, Segment
<1>5. (s.syn <=> n = 1) /\ ~s.rst /\ ~s.fin
  BY <1>3, Zenon
<1>6. n = 1 \/ n > host[h].said + 1 => s.msg = 0
  BY <1>1, <1>3
<1> QED
  BY <1>3, <1>4, <1>5, <1>6

-----------------------------------------------------------------------------
(* What the hosts send.                                                    *)

\* h sends s and goes on as g.
Proper(h, s, g) ==
  /\ s \in Segment /\ g \in HostState
  /\ s.from = h /\ s.ack = host[h].got
  /\ s.seq >= 1 /\ (s.syn <=> s.seq = 1)
  /\ s.syn => s.msg = 0 /\ ~s.fin /\ ~s.rst
  /\ s.syn => host[h].acked = 0
  /\ ~host[h].dead
  /\ s.syn \/ host[h].sent >= 1
  /\ s.rst => s.msg = 0
  /\ s.msg <= g.said
  /\ g.got = host[h].got /\ g.acked = host[h].acked
  /\ g.said >= host[h].said /\ g.said <= MaxMessages(h)
  /\ g.sent >= host[h].sent /\ g.sent >= g.said + 1
  /\ g.said >= 1 \/ g.fin \/ g.sent >= 2 => g.acked >= 1
  /\ g.owes => host[h].owes
  /\ g.dead => host[h].dead \/ s.rst
  /\ h = "client" /\ s.syn => host[h].got = 0
  /\ h = "client" /\ (~s.syn \/ g.sent >= 2) => host[h].got >= 1
  /\ h = "server" => host[h].got >= 1
  /\ h = "server" /\ ~s.syn /\ (s.rst \/ Length(s) > 0) => host[h].acked >= 1

\* What this comes to.
Emission(h, s) ==
  /\ Send(h, s) /\ s.from = h /\ Formed(s)'
  /\ s.syn => host[h].acked = 0
  /\ ~host[h].dead
  /\ s.syn \/ host[h].sent >= 1
  /\ host' \in [Side -> HostState] /\ Grown
  /\ host'[h].got = host[h].got /\ host'[h].acked = host[h].acked
  /\ host'[h].dead => host[h].dead \/ s.rst
  /\ host'[Peer(h)] = host[Peer(h)]
  /\ Streams' /\ Handshake'

LEMMA HostFields ==
  ASSUME NetworkType, NEW h \in Side
  PROVE  /\ host[h].sent \in Nat /\ host[h].said \in Nat /\ host[h].fin \in BOOLEAN
         /\ host[h].acked \in Nat /\ host[h].got \in Nat /\ host[h].answered \in Nat
         /\ host[h].owes \in BOOLEAN /\ host[h].dead \in BOOLEAN
BY DEF NetworkType, HostState

\* The state of one side replaced.
LEMMA HostStep ==
  ASSUME NetworkType, NEW h \in Side, NEW g \in HostState, host' = [host EXCEPT ![h] = g],
         g.said >= host[h].said, g.sent >= host[h].sent,
         g.acked >= host[h].acked, g.got >= host[h].got
  PROVE  /\ host'[h] = g /\ host'[Peer(h)] = host[Peer(h)]
         /\ host' \in [Side -> HostState] /\ Grown
<1>1. /\ host'[h] = g /\ host' \in [Side -> HostState]
      /\ \A k \in Side : k # h => host'[k] = host[k]
  BY DEF NetworkType
<1>2. Grown
  <2> SUFFICES ASSUME NEW k \in Side
               PROVE  /\ host'[k].said >= host[k].said /\ host'[k].sent >= host[k].sent
                      /\ host'[k].acked >= host[k].acked /\ host'[k].got >= host[k].got
    BY DEF Grown
  <2>1. CASE k = h
    BY <1>1, <2>1
  <2>2. CASE k # h
    BY <1>1, <2>2, HostFields
  <2> QED
    BY <2>1, <2>2
<1> QED
  BY <1>1, <1>2, Sides

LEMMA ProperEmission ==
  ASSUME HandshakeInv, NEW h \in Side, NEW s, NEW g, Proper(h, s, g), Send(h, s),
         host' = [host EXCEPT ![h] = g]
  PROVE  Emission(h, s)
<1>0. NetworkType /\ Streams /\ Handshake
  BY DEF HandshakeInv
<1>1. g \in HostState
  BY DEF Proper
<1>2. /\ g.sent \in Nat /\ g.said \in Nat /\ g.acked \in Nat /\ g.got \in Nat
      /\ g.fin \in BOOLEAN /\ g.owes \in BOOLEAN /\ g.dead \in BOOLEAN
  BY <1>1 DEF HostState
<1>3. /\ g.said >= host[h].said /\ g.sent >= host[h].sent
      /\ g.acked >= host[h].acked /\ g.got >= host[h].got
  BY <1>0, <1>2, HostFields DEF Proper
<1>4. /\ host'[h] = g /\ host'[Peer(h)] = host[Peer(h)]
      /\ host' \in [Side -> HostState] /\ Grown
  BY <1>0, <1>1, <1>3, HostStep, Zenon
<1>5. Streams'
  <2>1. \A k \in Side : k = h \/ k = Peer(h)
    BY Sides
  <2> QED
    BY <1>0, <1>4, <2>1 DEF Streams, Proper
<1>6. Handshake'
  <2>1. CASE h = "client"
    BY <1>0, <1>2, <1>4, <2>1, HostFields, Sides DEF Handshake, Proper
  <2>2. CASE h = "server"
    BY <1>0, <1>2, <1>4, <2>2, HostFields, Sides DEF Handshake, Proper
  <2> QED
    BY <2>1, <2>2, Sides
<1>7. Formed(s)'
  <2>1. s.msg <= host'[s.from].said /\ host'[s.from].sent >= 1
    BY <1>2, <1>4 DEF Proper
  <2> QED
    BY <1>4, <2>1 DEF Formed, Proper
<1> QED
  BY <1>4, <1>5, <1>6, <1>7 DEF Emission, Proper

LEMMA OpenEmits ==
  ASSUME HandshakeInv, NEW h \in Side, Open(h)
  PROVE  \E s : Emission(h, s)
<1>a. PICK s : s = Bare(h, 1)
  OBVIOUS
<1>b. PICK g : g = [host[h] EXCEPT !.sent = 1, !.owes = FALSE]
  OBVIOUS
<1>0. NetworkType /\ Streams /\ Handshake
  BY DEF HandshakeInv
<1>1. /\ s \in Segment /\ s.from = h /\ s.seq = 1 /\ s.ack = host[h].got
      /\ s.syn /\ ~s.rst /\ ~s.fin /\ s.msg = 0
  BY <1>a, <1>0, BareFacts
<1>2. /\ Send(h, s) /\ host[h].sent = 0 /\ ~host[h].dead
      /\ h = "server" => host["server"].got >= 1
      /\ host' = [host EXCEPT ![h] = g]
  BY <1>a, <1>b DEF Open, Bare
<1>3. /\ g \in HostState /\ g.sent = 1 /\ ~g.owes
      /\ g.said = host[h].said /\ g.fin = host[h].fin /\ g.dead = host[h].dead
      /\ g.acked = host[h].acked /\ g.got = host[h].got
  BY <1>0, <1>b DEF NetworkType, HostState
<1>4. host[h].acked = 0 /\ (h = "client" => host[h].got = 0)
  BY <1>0, <1>2, HostFields, Sides DEF Handshake
<1>5. host[h].said = 0 /\ ~host[h].fin /\ MaxMessages(h) >= 0
  BY <1>0, <1>2, <1>4, HostFields DEF Streams
<1>6. Proper(h, s, g)
  BY <1>0, <1>1, <1>2, <1>3, <1>4, <1>5, HostFields DEF Proper
<1> QED
  BY <1>2, <1>6, ProperEmission

LEMMA EstablishedSide ==
  ASSUME HandshakeInv, NEW h \in Side, Established(h)
  PROVE  host[h].acked >= 1 /\ host[h].got >= 1 /\ host[h].sent >= 1 /\ ~host[h].dead
<1>0. NetworkType /\ Handshake
  BY DEF HandshakeInv
<1>1. host[h].sent >= 1
  BY <1>0, Sides DEF Handshake, Established
<1> QED
  BY <1>1 DEF Established

LEMMA SayEmits ==
  ASSUME HandshakeInv, NEW h \in Side, NEW fin \in BOOLEAN, Say(h, fin)
  PROVE  \E s : Emission(h, s)
<1>m. PICK m : m = host[h].said + 1
  OBVIOUS
<1>a. PICK t : t = SegmentAt(h, m + 1, fin)
  OBVIOUS
<1>b. PICK s : s = [t EXCEPT !.msg = m]
  OBVIOUS
<1>n. PICK n : n = IF fin THEN 2 ELSE 1
  OBVIOUS
<1>c. PICK g : g = [host[h] EXCEPT !.said = m, !.fin = fin, !.owes = FALSE, !.sent = @ + n]
  OBVIOUS
<1>0. NetworkType /\ Streams
  BY DEF HandshakeInv
<1>1. /\ host[h].said \in Nat /\ host[h].sent \in Nat /\ host[h].acked \in Nat
      /\ m \in Nat /\ m >= 1 /\ m = host[h].said + 1
  BY <1>0, <1>m, HostFields
<1>2. /\ t \in Segment /\ t.from = h /\ t.seq = m + 1 /\ t.ack = host[h].got
      /\ ~t.syn /\ ~t.rst
  <2>1. m + 1 \in Nat /\ m + 1 >= 1 /\ m + 1 # 1
    BY <1>1
  <2> QED
    BY <1>0, <1>a, <2>1, SegmentFacts
<1>3. /\ s \in Segment /\ s.from = h /\ s.seq = m + 1 /\ s.ack = host[h].got
      /\ ~s.syn /\ ~s.rst /\ s.msg = m
  BY <1>1, <1>2, <1>b DEF Segment
<1>4. /\ Send(h, s) /\ Established(h) /\ m <= MaxMessages(h)
      /\ host' = [host EXCEPT ![h] = g]
  BY <1>m, <1>n, <1>a, <1>b, <1>c, Zenon DEF Say
<1>5. /\ g \in HostState /\ ~g.owes /\ g.said = m
      /\ g.sent >= host[h].sent + 1 /\ g.dead = host[h].dead
      /\ g.acked = host[h].acked /\ g.got = host[h].got
  <2>1. n \in {1, 2}
    BY <1>n
  <2>2. host[h] \in HostState
    BY <1>0 DEF NetworkType
  <2>3. /\ g.said = m /\ g.fin = fin /\ g.owes = FALSE /\ g.sent = host[h].sent + n
        /\ g.dead = host[h].dead /\ g.acked = host[h].acked /\ g.got = host[h].got
    BY <2>2, <1>c DEF HostState
  <2>4. host[h].sent + n \in Nat /\ host[h].sent + n >= host[h].sent + 1
    BY <1>1, <2>1
  <2>5. g \in HostState
    BY <1>1, <2>2, <2>4, <1>c DEF HostState
  <2> QED
    BY <2>3, <2>4, <2>5
<1>6. host[h].acked >= 1 /\ host[h].got >= 1 /\ host[h].sent >= 1 /\ ~host[h].dead
  BY <1>4, EstablishedSide
<1>7. host[h].sent >= host[h].said + 1
  BY <1>0, <1>6 DEF Streams
<1>8. g.sent \in Nat
  BY <1>5 DEF HostState
<1>9. Proper(h, s, g)
  BY <1>1, <1>3, <1>4, <1>5, <1>6, <1>7, <1>8 DEF Proper
<1> QED
  BY <1>4, <1>9, ProperEmission

LEMMA AcknowledgeEmits ==
  ASSUME HandshakeInv, NEW h \in Side, Acknowledge(h)
  PROVE  \E s : Emission(h, s)
<1>a. PICK s : s = Bare(h, host[h].sent + 1)
  OBVIOUS
<1>b. PICK g : g = [host[h] EXCEPT !.owes = FALSE]
  OBVIOUS
<1>0. NetworkType /\ Streams /\ Handshake
  BY DEF HandshakeInv
<1>1. /\ Send(h, s) /\ host[h].owes /\ host[h].sent >= 1 /\ ~host[h].dead
      /\ host' = [host EXCEPT ![h] = g]
  BY <1>a, <1>b DEF Acknowledge, Bare
<1>2. host[h].sent >= host[h].said + 1 /\ host[h].said <= MaxMessages(h)
  BY <1>0, <1>1 DEF Streams
<1>3. /\ s \in Segment /\ s.from = h /\ s.seq >= 1 /\ s.seq # 1 /\ s.ack = host[h].got
      /\ ~s.syn /\ ~s.rst /\ ~s.fin /\ s.msg = 0
  <2> DEFINE n == host[h].sent + 1
  <2>1. n \in Nat /\ n >= 1 /\ n # 1 /\ n > host[h].said + 1
    BY <1>0, <1>1, <1>2, HostFields
  <2> HIDE DEF n
  <2> QED
    BY <1>0, <1>a, <2>1, BareFacts DEF n
<1>4. Length(s) = 0
  BY <1>3 DEF Length
<1>5. /\ g \in HostState /\ g.sent = host[h].sent /\ ~g.owes
      /\ g.said = host[h].said /\ g.fin = host[h].fin /\ g.dead = host[h].dead
      /\ g.acked = host[h].acked /\ g.got = host[h].got
  BY <1>0, <1>b DEF NetworkType, HostState
<1>6. (h = "client" => host[h].got >= 1) /\ (h = "server" => host[h].got >= 1)
  BY <1>0, <1>1 DEF Handshake
<1>7. Proper(h, s, g)
  <2>1. g.said >= 1 \/ g.fin \/ g.sent >= 2 => g.acked >= 1
    BY <1>0, <1>5 DEF Streams
  <2> QED
    BY <1>0, <1>1, <1>2, <1>3, <1>4, <1>5, <1>6, <2>1, HostFields DEF Proper
<1> QED
  BY <1>1, <1>7, ProperEmission

\* One that ends the stream.
Ending(h, n) == SegmentAt(h, n, TRUE)

LEMMA FinishEmits ==
  ASSUME HandshakeInv, NEW h \in Side, Finish(h)
  PROVE  \E s : Emission(h, s)
<1>a. PICK s : s = Ending(h, host[h].sent + 1)
  OBVIOUS
<1>b. PICK g : g = [host[h] EXCEPT !.fin = TRUE, !.owes = FALSE, !.sent = @ + 1]
  OBVIOUS
<1>0. NetworkType /\ Streams
  BY DEF HandshakeInv
<1>1. /\ Send(h, s) /\ Established(h)
      /\ host' = [host EXCEPT ![h] = g]
  BY <1>a, <1>b DEF Finish, Ending
<1>2. host[h].acked >= 1 /\ host[h].got >= 1 /\ host[h].sent >= 1 /\ ~host[h].dead
  BY <1>1, EstablishedSide
<1>3. host[h].sent >= host[h].said + 1 /\ host[h].said <= MaxMessages(h)
  BY <1>0, <1>2 DEF Streams
<1>4. /\ s \in Segment /\ s.from = h /\ s.seq >= 1 /\ s.seq # 1 /\ s.ack = host[h].got
      /\ ~s.syn /\ ~s.rst /\ s.msg = 0
  <2>1. PICK n, fin : n = host[h].sent + 1 /\ fin = TRUE
    OBVIOUS
  <2>2. n \in Nat /\ n >= 1 /\ n # 1 /\ n > host[h].said + 1
    BY <1>0, <1>2, <1>3, <2>1, HostFields
  <2>3. s = SegmentAt(h, n, fin)
    BY <1>a, <2>1, Zenon DEF Ending
  <2> QED
    BY <1>0, <2>2, <2>3, SegmentFacts
<1>5. /\ g \in HostState /\ g.sent = host[h].sent + 1 /\ ~g.owes
      /\ g.said = host[h].said /\ g.dead = host[h].dead
      /\ g.acked = host[h].acked /\ g.got = host[h].got
  <2>1. host[h] \in HostState
    BY <1>0 DEF NetworkType
  <2>2. PICK fin : fin = TRUE
    OBVIOUS
  <2>3. fin \in BOOLEAN
    BY <2>2
  <2>4. g = [host[h] EXCEPT !.fin = fin, !.owes = FALSE, !.sent = @ + 1]
    BY <1>b, <2>2, Zenon
  <2>5. host[h].sent + 1 \in Nat
    BY <1>0, HostFields
  <2> QED
    BY <2>1, <2>3, <2>4, <2>5 DEF HostState
<1>6. Proper(h, s, g)
  BY <1>0, <1>2, <1>3, <1>4, <1>5, HostFields DEF Proper
<1> QED
  BY <1>1, <1>6, ProperEmission

LEMMA ResetEmits ==
  ASSUME HandshakeInv, NEW h \in Side, ResetConnection(h)
  PROVE  \E s : Emission(h, s)
<1>a. PICK t : t = Bare(h, host[h].sent + 1)
  OBVIOUS
<1>b. PICK s : s = [t EXCEPT !.rst = TRUE]
  OBVIOUS
<1>c. PICK g : g = [host[h] EXCEPT !.dead = TRUE]
  OBVIOUS
<1>0. NetworkType /\ Streams /\ Handshake
  BY DEF HandshakeInv
<1>1. /\ Send(h, s) /\ Established(h)
      /\ host' = [host EXCEPT ![h] = g]
  BY <1>a, <1>b, <1>c DEF ResetConnection, Bare
<1>2. host[h].acked >= 1 /\ host[h].got >= 1 /\ host[h].sent >= 1 /\ ~host[h].dead
  BY <1>1, EstablishedSide
<1>3. host[h].sent >= host[h].said + 1 /\ host[h].said <= MaxMessages(h)
  BY <1>0, <1>2 DEF Streams
<1>4. /\ t \in Segment /\ t.from = h /\ t.seq >= 1 /\ t.seq # 1 /\ t.ack = host[h].got
      /\ ~t.syn /\ t.msg = 0
  <2> DEFINE n == host[h].sent + 1
  <2>1. n \in Nat /\ n >= 1 /\ n # 1 /\ n > host[h].said + 1
    BY <1>0, <1>2, <1>3, HostFields
  <2> HIDE DEF n
  <2> QED
    BY <1>0, <1>a, <2>1, BareFacts DEF n
<1>5. /\ s \in Segment /\ s.from = h /\ s.seq >= 1 /\ s.seq # 1 /\ s.ack = host[h].got
      /\ ~s.syn /\ s.rst /\ s.msg = 0
  BY <1>4, <1>b DEF Segment
<1>6. /\ g \in HostState /\ g.sent = host[h].sent /\ g.owes = host[h].owes
      /\ g.said = host[h].said /\ g.fin = host[h].fin
      /\ g.acked = host[h].acked /\ g.got = host[h].got
  BY <1>0, <1>c DEF NetworkType, HostState
<1>7. Proper(h, s, g)
  BY <1>0, <1>2, <1>3, <1>5, <1>6, HostFields DEF Proper
<1> QED
  BY <1>1, <1>7, ProperEmission

\* What is retransmitted is the SYN before its acknowledgement, and then no SYN.
LEMMA RetransmitEmits ==
  ASSUME HandshakeInv, NEW h \in Side, Retransmit(h)
  PROVE  \E s : Emission(h, s)
<1>a. PICK s : s = SegmentAt(h, host[h].acked + 1, host[h].fin)
  OBVIOUS
<1>b. PICK g : g = [host[h] EXCEPT !.owes = FALSE]
  OBVIOUS
<1>0. NetworkType /\ Streams /\ Handshake
  BY DEF HandshakeInv
<1>1. /\ Send(h, s) /\ host[h].acked < host[h].sent /\ ~host[h].dead
      /\ host' = [host EXCEPT ![h] = g]
  BY <1>a, <1>b DEF Retransmit
<1>2. host[h].sent >= 1 /\ host[h].acked + 1 \in Nat /\ host[h].acked + 1 >= 1
  BY <1>0, <1>1, HostFields
<1>3. host[h].sent >= host[h].said + 1 /\ host[h].said <= MaxMessages(h)
  BY <1>0, <1>2 DEF Streams
<1>4. /\ s \in Segment /\ s.from = h /\ s.seq = host[h].acked + 1 /\ s.ack = host[h].got
      /\ (s.syn <=> host[h].acked + 1 = 1) /\ ~s.rst
      /\ s.fin => host[h].fin
      /\ s.msg <= host[h].said
      /\ host[h].acked + 1 = 1 => s.msg = 0
  BY <1>0, <1>2, <1>a, SegmentFacts
<1>5. /\ g \in HostState /\ g.sent = host[h].sent /\ ~g.owes
      /\ g.said = host[h].said /\ g.fin = host[h].fin /\ g.dead = host[h].dead
      /\ g.acked = host[h].acked /\ g.got = host[h].got
  BY <1>0, <1>b DEF NetworkType, HostState
<1>6. host[h].said >= 1 \/ host[h].fin \/ host[h].sent >= 2 => host[h].acked >= 1
  BY <1>0 DEF Streams
<1>7. /\ s.syn => s.msg = 0 /\ ~s.fin /\ host[h].acked = 0
      /\ ~s.syn => host[h].acked >= 1 /\ host[h].sent >= 2
  BY <1>0, <1>1, <1>4, <1>6, HostFields
<1>8. /\ h = "client" => /\ s.syn => host[h].got = 0
                         /\ ~s.syn \/ host[h].sent >= 2 => host[h].got >= 1
      /\ h = "server" => host[h].got >= 1
  BY <1>0, <1>2, <1>7, HostFields, Sides DEF Handshake
<1>9. Proper(h, s, g)
  BY <1>0, <1>1, <1>2, <1>3, <1>4, <1>5, <1>6, <1>7, <1>8, HostFields DEF Proper
<1> QED
  BY <1>1, <1>9, ProperEmission

-----------------------------------------------------------------------------
(* What arrives.                                                           *)

\* h takes the segment s.
Arrival(h, s) ==
  /\ channel[h] # <<>> /\ s = Head(channel[h]) /\ s.from = Peer(h) /\ Formed(s)
  /\ Observe(h, s) /\ channel' = [channel EXCEPT ![h] = Tail(@)] /\ UNCHANGED site
  /\ host' \in [Side -> HostState] /\ Grown
  /\ host'[Peer(h)] = host[Peer(h)] /\ host'[h].sent = host[h].sent
  /\ host'[h].dead <=> host[h].dead \/ s.rst
  /\ host[h].got = 0 /\ host'[h].got >= 1 => s.syn
  /\ ~host'[h].dead /\ s.syn => host'[h].got >= 1
  /\ ~host'[h].dead /\ s.ack >= 1 => host'[h].acked >= 1
  /\ Streams' /\ Handshake'

LEMMA DeliverArrives ==
  ASSUME HandshakeInv, NEW h \in Side, Deliver(h)
  PROVE  \E s : Arrival(h, s)
<1>a. PICK s : s = Head(channel[h])
  OBVIOUS
<1>0. NetworkType /\ UnderWay /\ Streams /\ Handshake
  BY DEF HandshakeInv
<1>b. PICK last : last = s.seq + Length(s) - 1
  OBVIOUS
<1>c. PICK me : me = host[h]
  OBVIOUS
<1>d. PICK acked : acked = IF s.ack > me.acked THEN s.ack ELSE me.acked
  OBVIOUS
<1>e. PICK got : got = IF s.seq <= me.got + 1 /\ last > me.got THEN last ELSE me.got
  OBVIOUS
<1>f. PICK answered : answered = IF /\ s.seq <= me.got + 1 /\ last > me.got
                                    /\ s.msg > me.answered
                                 THEN s.msg ELSE me.answered
  OBVIOUS
<1>g. PICK g : g = IF me.dead \/ s.rst THEN [me EXCEPT !.dead = TRUE]
                   ELSE [me EXCEPT !.acked = acked, !.got = got, !.answered = answered,
                                   !.owes = @ \/ Length(s) > 0]
  OBVIOUS
<1>1. /\ channel[h] # <<>> /\ Observe(h, s)
      /\ channel' = [channel EXCEPT ![h] = Tail(@)] /\ UNCHANGED site
      /\ host' = [host EXCEPT ![h] = g]
  <2>1. host' = [host EXCEPT ![h] =
                   IF me.dead \/ s.rst THEN [me EXCEPT !.dead = TRUE]
                   ELSE [me EXCEPT !.acked = acked, !.got = got, !.answered = answered,
                                   !.owes = @ \/ Length(s) > 0]]
    BY <1>a, <1>b, <1>c, <1>d, <1>e, <1>f DEF Deliver
  <2>2. host' = [host EXCEPT ![h] = g]
    BY <1>g, <2>1, Zenon
  <2> QED
    BY <1>a, <2>2 DEF Deliver
<1>2. s.from = Peer(h) /\ Formed(s)
  <2>1. channel[h] \in Seq(Segment)
    BY <1>0 DEF NetworkType
  <2>2. 1 \in 1 .. Len(channel[h]) /\ s = channel[h][1]
    BY <1>1, <1>a, <2>1
  <2> QED
    BY <1>0, <2>2, Zenon DEF UnderWay
<1>3. s \in Segment /\ me \in HostState
  BY <1>0, <1>2, <1>c DEF Formed, NetworkType
<1>4. /\ s.seq \in Nat /\ s.seq >= 1 /\ s.ack \in Nat /\ s.msg \in Nat
      /\ Length(s) \in Nat /\ last \in Int
      /\ me.acked \in Nat /\ me.got \in Nat /\ me.answered \in Nat
      /\ s.syn => s.seq = 1 /\ Length(s) >= 1
      /\ s.seq = 1 => s.syn
  BY <1>2, <1>3, <1>b DEF Formed, Segment, HostState, Length
<1>5. /\ acked \in Nat /\ acked >= me.acked /\ (s.ack >= 1 => acked >= 1)
      /\ acked >= 1 => me.acked >= 1 \/ s.ack >= 1
  BY <1>4, <1>d
<1>6. /\ got \in Nat /\ got >= me.got
      /\ s.syn => got >= 1
      /\ got >= 1 => me.got >= 1 \/ s.syn
  BY <1>4, <1>b, <1>e
<1>7. answered \in Nat
  BY <1>4, <1>f
<1>8. /\ g \in HostState
      /\ g.sent = me.sent /\ g.said = me.said /\ g.fin = me.fin
      /\ g.dead <=> me.dead \/ s.rst
      /\ g.acked \in {me.acked, acked} /\ g.got \in {me.got, got}
      /\ ~g.dead => g.acked = acked /\ g.got = got
      /\ g.dead => g.acked = me.acked /\ g.got = me.got
      /\ g.owes => me.owes \/ (Length(s) > 0 /\ ~g.dead)
  <2>1. CASE me.dead \/ s.rst
    BY <1>3, <1>g, <2>1 DEF HostState
  <2>2. CASE ~(me.dead \/ s.rst)
    <3>1. g = [me EXCEPT !.acked = acked, !.got = got, !.answered = answered,
                         !.owes = @ \/ Length(s) > 0]
      BY <1>g, <2>2, Zenon
    <3>2. (me.owes \/ Length(s) > 0) \in BOOLEAN
      OBVIOUS
    <3> QED
      BY <1>3, <1>5, <1>6, <1>7, <2>2, <3>1, <3>2 DEF HostState
  <2> QED
    BY <2>1, <2>2
<1>9. /\ g.acked \in Nat /\ g.acked >= me.acked /\ g.got \in Nat /\ g.got >= me.got
      /\ g.acked >= 1 => me.acked >= 1 \/ (~g.dead /\ s.ack >= 1)
      /\ g.got >= 1 => me.got >= 1 \/ (~g.dead /\ s.syn)
      /\ ~g.dead /\ s.syn => g.got >= 1
      /\ ~g.dead /\ s.ack >= 1 => g.acked >= 1
      /\ g.owes => me.owes \/ (~g.dead /\ Length(s) > 0)
  BY <1>4, <1>5, <1>6, <1>8
<1>10. /\ host'[h] = g /\ host'[Peer(h)] = host[Peer(h)]
       /\ host' \in [Side -> HostState] /\ Grown
  <2>1. /\ g.said >= host[h].said /\ g.sent >= host[h].sent
        /\ g.acked >= host[h].acked /\ g.got >= host[h].got
    BY <1>0, <1>8, <1>9, <1>c, HostFields
  <2> QED
    BY <1>0, <1>1, <1>8, <2>1, HostStep, Zenon
<1>11. Streams'
  <2>1. \A k \in Side : k = h \/ k = Peer(h)
    BY Sides
  <2>2. me.said >= 1 \/ me.fin \/ me.sent >= 2 => g.acked >= 1
    BY <1>0, <1>4, <1>9, <1>c DEF Streams
  <2> QED
    BY <1>0, <1>8, <1>10, <1>c, <2>1, <2>2 DEF Streams
<1>12. Handshake'
  <2>1. CASE h = "client"
    <3>1. /\ me.got >= 1 => me.acked >= 1
          /\ me.owes \/ me.sent >= 2 => me.got >= 1
          /\ host["server"].sent >= 1 /\ host["server"].got >= 1 /\ me.sent >= 1
          /\ s.ack >= 1
          /\ ~s.syn /\ Length(s) > 0 => me.got >= 1
      BY <1>0, <1>2, <1>c, <2>1, Sides DEF Handshake, Formed
    <3> QED
      BY <1>0, <1>4, <1>8, <1>9, <1>10, <1>c, <2>1, <3>1, Sides DEF Handshake
  <2>2. CASE h = "server"
    <3>1. /\ host["client"].sent >= 1
          /\ s.ack >= 1 => host["client"].got >= 1
      BY <1>2, <1>4, <2>2, Sides DEF Formed
    <3> QED
      BY <1>0, <1>4, <1>8, <1>9, <1>10, <1>c, <2>2, <3>1, Sides DEF Handshake
  <2> QED
    BY <2>1, <2>2, Sides
<1>13. /\ host[h].got = 0 /\ host'[h].got >= 1 => s.syn
       /\ ~host'[h].dead /\ s.syn => host'[h].got >= 1
       /\ ~host'[h].dead /\ s.ack >= 1 => host'[h].acked >= 1
       /\ host'[h].dead <=> host[h].dead \/ s.rst
       /\ host'[h].sent = host[h].sent
  BY <1>8, <1>9, <1>10, <1>c
<1> QED
  BY <1>a, <1>1, <1>2, <1>10, <1>11, <1>12, <1>13, Zenon DEF Arrival

-----------------------------------------------------------------------------
(* What is under way.                                                      *)

\* Every element of r is one of q, or is s.
FromOr(r, q, s) ==
  \A i \in 1 .. Len(r) : r[i] = s \/ \E j \in 1 .. Len(q) : r[i] = q[j]

LEMMA TailElements ==
  ASSUME NEW S, NEW q \in Seq(S), q # <<>>, NEW s
  PROVE  Tail(q) \in Seq(S) /\ FromOr(Tail(q), q, s)
<1>1. /\ Tail(q) \in Seq(S) /\ Len(Tail(q)) = Len(q) - 1 /\ Len(q) \in Nat
      /\ \A i \in 1 .. Len(Tail(q)) : Tail(q)[i] = q[i + 1]
  OBVIOUS
<1>2. \A i \in 1 .. Len(Tail(q)) : i + 1 \in 1 .. Len(q)
  BY <1>1
<1> QED
  BY <1>1, <1>2 DEF FromOr

LEMMA AppendedElements ==
  ASSUME NEW S, NEW q \in Seq(S), NEW s \in S
  PROVE  Append(q, s) \in Seq(S) /\ FromOr(Append(q, s), q, s)
<1>1. /\ Append(q, s) \in Seq(S)
      /\ Len(Append(q, s)) = Len(q) + 1 /\ Len(q) \in Nat
      /\ Append(q, s)[Len(q) + 1] = s
      /\ \A i \in 1 .. Len(q) : Append(q, s)[i] = q[i]
  BY AppendElements
<1>2. \A i \in 1 .. Len(Append(q, s)) : i \in 1 .. Len(q) \/ i = Len(q) + 1
  BY <1>1
<1> QED
  BY <1>1, <1>2 DEF FromOr

\* The first two elements exchanged.
LEMMA OvertakenElements ==
  ASSUME NEW S, NEW q \in Seq(S), Len(q) >= 2, NEW s
  PROVE  LET r == <<q[2], q[1]>> \o SubSeq(q, 3, Len(q))
         IN  r \in Seq(S) /\ FromOr(r, q, s)
<1> DEFINE front == <<q[2], q[1]>>
           rest  == SubSeq(q, 3, Len(q))
           r     == front \o rest
<1>1. Len(q) \in Nat /\ q[1] \in S /\ q[2] \in S
  OBVIOUS
<1>2. front \in Seq(S) /\ Len(front) = 2 /\ front[1] = q[2] /\ front[2] = q[1]
  BY <1>1
<1>3. /\ rest \in Seq(S) /\ Len(rest) = Len(q) - 2
      /\ \A i \in 1 .. Len(q) - 2 : rest[i] = q[i + 2]
  <2>1. 3 \in Int /\ Len(q) \in Int /\ \A i \in 3 .. Len(q) : q[i] \in S
    BY <1>1
  <2>2. /\ rest \in Seq(S)
        /\ Len(rest) = IF 3 <= Len(q) THEN Len(q) - 3 + 1 ELSE 0
        /\ \A i \in 1 .. Len(q) - 3 + 1 : rest[i] = q[3 + i - 1]
    BY <2>1, SubSeqProperties
  <2>3. /\ Len(q) - 3 + 1 = Len(q) - 2
        /\ \A i \in 1 .. Len(q) - 2 : 3 + i - 1 = i + 2
    BY <1>1
  <2>4. Len(rest) = Len(q) - 2
    <3>1. CASE 3 <= Len(q)
      BY <2>2, <2>3, <3>1
    <3>2. CASE ~(3 <= Len(q))
      <4> HIDE DEF front, rest, r
      <4>1. Len(q) = 2
        <5>1. Len(q) \in Nat /\ Len(q) >= 2
          BY <1>1
        <5>2. \A n \in Nat : n >= 2 /\ n # 2 => 3 <= n
          OBVIOUS
        <5> QED
          BY <3>2, <5>1, <5>2, Zenon
      <4>2. Len(rest) = 0
        BY <2>2, <3>2, Zenon
      <4> QED
        BY <4>1, <4>2
    <3> QED
      BY <3>1, <3>2
  <2> QED
    BY <2>2, <2>3, <2>4
<1> HIDE DEF front, rest
<1>4. /\ r \in Seq(S) /\ Len(r) = Len(q)
      /\ r[1] = q[2] /\ r[2] = q[1]
      /\ \A i \in 3 .. Len(q) : r[i] = rest[i - 2]
  <2>1. /\ r \in Seq(S) /\ Len(r) = Len(front) + Len(rest)
        /\ \A i \in 1 .. Len(front) + Len(rest) :
              r[i] = IF i <= Len(front) THEN front[i] ELSE rest[i - Len(front)]
    <3> HIDE DEF r
    <3>1. r = front \o rest
      BY DEF r
    <3>2. front \in Seq(S) /\ rest \in Seq(S)
      BY <1>2, <1>3
    <3>3. \A A, B \in Seq(S) :
             /\ A \o B \in Seq(S) /\ Len(A \o B) = Len(A) + Len(B)
             /\ \A i \in 1 .. Len(A) + Len(B) :
                   (A \o B)[i] = IF i <= Len(A) THEN A[i] ELSE B[i - Len(A)]
      BY ConcatProperties, Zenon
    <3> QED
      BY <3>1, <3>2, <3>3, Zenon
  <2>2. Len(front) + Len(rest) = Len(q)
    BY <1>1, <1>2, <1>3
  <2>3. \A i \in 3 .. Len(q) : i \in 1 .. Len(q) /\ ~(i <= 2)
    BY <1>1
  <2>4. 1 \in 1 .. Len(q) /\ 2 \in 1 .. Len(q) /\ 1 <= 2 /\ 2 <= 2
    BY <1>1
  <2> HIDE DEF r
  <2> QED
    BY <1>2, <2>1, <2>2, <2>3, <2>4
<1>5. ASSUME NEW i \in 1 .. Len(q)
      PROVE  \E j \in 1 .. Len(q) : r[i] = q[j]
  <2>1. 1 \in 1 .. Len(q) /\ 2 \in 1 .. Len(q)
    BY <1>1
  <2>2. i = 1 \/ i = 2 \/ i \in 3 .. Len(q)
    BY <1>1
  <2>3. CASE i \in 3 .. Len(q)
    <3>1. i - 2 \in 1 .. Len(q) - 2 /\ i - 2 + 2 = i
      BY <1>1, <2>3
    <3> QED
      BY <1>3, <1>4, <2>3, <3>1
  <2> QED
    BY <1>4, <2>1, <2>2, <2>3
<1> QED
  BY <1>4, <1>5 DEF FromOr, front, rest

\* One channel changes, by at most one new segment.
LEMMA ChannelStep ==
  ASSUME HandshakeInv, NEW h \in Side, NEW r \in Seq(Segment),
         channel' = [channel EXCEPT ![h] = r], UNCHANGED site,
         NEW s, s.from = Peer(h), Formed(s)', FromOr(r, channel[h], s),
         host' \in [Side -> HostState], Grown
  PROVE  NetworkType' /\ UnderWay'
<1>0. NetworkType /\ UnderWay
  BY DEF HandshakeInv
<1>1. /\ channel' \in [Side -> Seq(Segment)] /\ channel'[h] = r
      /\ \A k \in Side : k # h => channel'[k] = channel[k]
  BY <1>0 DEF NetworkType
<1>2. NetworkType'
  BY <1>0, <1>1 DEF NetworkType
<1>3. ASSUME NEW k \in Side, NEW i \in 1 .. Len(channel[k]), NEW t, t = channel[k][i]
      PROVE  t.from = Peer(k) /\ Formed(t)'
  BY <1>0, <1>2, <1>3, FormedStays DEF UnderWay
<1>4. ASSUME NEW k \in Side, NEW i \in 1 .. Len(channel'[k]), NEW t, t = channel'[k][i]
      PROVE  t.from = Peer(k) /\ Formed(t)'
  <2>1. CASE k = h
    <3>1. t = s \/ \E j \in 1 .. Len(channel[h]) : t = channel[h][j]
      BY <1>1, <1>4, <2>1 DEF FromOr
    <3> QED
      BY <1>3, <2>1, <3>1
  <2>2. CASE k # h
    BY <1>1, <1>3, <1>4, <2>2
  <2> QED
    BY <2>1, <2>2
<1>5. UnderWay'
  BY <1>4 DEF UnderWay
<1> QED
  BY <1>2, <1>5

LEMMA EmissionKeeps ==
  ASSUME HandshakeInv, NEW h \in Side, NEW s, Emission(h, s)
  PROVE  HandshakeInv'
<1>1. NetworkType /\ Peer(h) \in Side /\ Peer(Peer(h)) = h
  BY Sides DEF HandshakeInv
<1>2. /\ channel' = [channel EXCEPT ![Peer(h)] = Append(channel[Peer(h)], s)]
      /\ UNCHANGED site
      /\ s.from = h /\ Formed(s)' /\ s \in Segment
      /\ host' \in [Side -> HostState] /\ Grown /\ Streams' /\ Handshake'
  BY DEF Emission, Send, Formed
<1>3. channel[Peer(h)] \in Seq(Segment)
  BY <1>1 DEF NetworkType
<1>a. PICK r : r = Append(channel[Peer(h)], s)
  OBVIOUS
<1>4. r \in Seq(Segment) /\ FromOr(r, channel[Peer(h)], s)
  BY <1>2, <1>3, <1>a, AppendedElements, Zenon
<1>5. channel' = [channel EXCEPT ![Peer(h)] = r]
  BY <1>2, <1>a, Zenon
<1>6. NetworkType' /\ UnderWay'
  BY <1>1, <1>2, <1>4, <1>5, ChannelStep, Zenon
<1> QED
  BY <1>2, <1>6 DEF HandshakeInv

LEMMA ArrivalKeeps ==
  ASSUME HandshakeInv, NEW h \in Side, NEW s, Arrival(h, s)
  PROVE  HandshakeInv' /\ Formed(s)'
<1>1. NetworkType
  BY DEF HandshakeInv
<1>2. /\ channel' = [channel EXCEPT ![h] = Tail(channel[h])]
      /\ channel[h] # <<>> /\ UNCHANGED site
      /\ s.from = Peer(h) /\ Formed(s)
      /\ host' \in [Side -> HostState] /\ Grown /\ Streams' /\ Handshake'
  BY DEF Arrival
<1>3. channel[h] \in Seq(Segment)
  BY <1>1 DEF NetworkType
<1>a. PICK r : r = Tail(channel[h])
  OBVIOUS
<1>4. r \in Seq(Segment) /\ FromOr(r, channel[h], s)
  BY <1>2, <1>3, <1>a, TailElements, Zenon
<1>5. channel' = [channel EXCEPT ![h] = r]
  BY <1>2, <1>a, Zenon
<1>6. NetworkType'
  BY <1>1, <1>2, <1>4, <1>5 DEF NetworkType
<1>7. Formed(s)'
  BY <1>1, <1>2, <1>6, FormedStays
<1>8. NetworkType' /\ UnderWay'
  BY <1>2, <1>4, <1>5, <1>7, ChannelStep, Zenon
<1> QED
  BY <1>2, <1>7, <1>8 DEF HandshakeInv

LEMMA HostStays ==
  ASSUME NetworkType, UNCHANGED host
  PROVE  host' \in [Side -> HostState] /\ Grown
<1>1. \A h \in Side : /\ host[h].said \in Nat /\ host[h].sent \in Nat
                      /\ host[h].acked \in Nat /\ host[h].got \in Nat
  BY HostFields
<1> QED
  BY <1>1 DEF NetworkType, Grown

\* A segment is lost or overtaken: what is under way was under way.
LEMMA FaultChannel ==
  ASSUME NetworkType, NEW h \in Side, Lose(h) \/ Overtake(h),
         NEW s, s = channel[h][1]
  PROVE  /\ 1 \in 1 .. Len(channel[h])
         /\ \E r : /\ channel' = [channel EXCEPT ![h] = r]
                  /\ r \in Seq(Segment) /\ FromOr(r, channel[h], s)
<1>1. channel[h] \in Seq(Segment)
  BY DEF NetworkType
<1>2. 1 \in 1 .. Len(channel[h])
  BY <1>1 DEF Lose, Overtake
<1>3. CASE Lose(h)
  <2>1. channel[h] # <<>> /\ channel' = [channel EXCEPT ![h] = Tail(channel[h])]
    BY <1>3 DEF Lose
  <2> QED
    BY <1>1, <1>2, <2>1, TailElements, Zenon
<1>4. CASE Overtake(h)
  <2>b. PICK q : q = channel[h]
    OBVIOUS
  <2>c. PICK r : r = <<q[2], q[1]>> \o SubSeq(q, 3, Len(q))
    OBVIOUS
  <2>1. Len(q) >= 2 /\ channel' = [channel EXCEPT ![h] = r] /\ q \in Seq(Segment)
    BY <1>1, <1>4, <2>b, <2>c DEF Overtake
  <2>2. r \in Seq(Segment) /\ FromOr(r, q, s)
    BY <2>1, <2>c, OvertakenElements, Zenon
  <2> QED
    BY <1>2, <2>b, <2>1, <2>2
<1> QED
  BY <1>3, <1>4

LEMMA FaultKeeps ==
  ASSUME HandshakeInv, NEW h \in Side, Lose(h) \/ Overtake(h)
  PROVE  HandshakeInv' /\ UNCHANGED <<vars, site, host, seen>>
<1>1. NetworkType /\ UnderWay /\ Streams /\ Handshake
  BY DEF HandshakeInv
<1>2. UNCHANGED <<vars, site, host, seen>>
  BY DEF Lose, Overtake, Fault
<1>a. PICK s : s = channel[h][1]
  OBVIOUS
<1>3. /\ 1 \in 1 .. Len(channel[h])
      /\ \E r : /\ channel' = [channel EXCEPT ![h] = r]
               /\ r \in Seq(Segment) /\ FromOr(r, channel[h], s)
  BY <1>1, <1>a, FaultChannel, Zenon
<1>4. s.from = Peer(h) /\ Formed(s)
  BY <1>1, <1>3, <1>a, Zenon DEF UnderWay
<1>5. host' \in [Side -> HostState] /\ Grown
  BY <1>1, <1>2, HostStays
<1>6. Formed(s)' /\ Streams' /\ Handshake'
  BY <1>1, <1>2, <1>4 DEF Formed, Streams, Handshake
<1>7. NetworkType' /\ UnderWay'
  BY <1>2, <1>3, <1>4, <1>5, <1>6, ChannelStep
<1> QED
  BY <1>2, <1>6, <1>7 DEF HandshakeInv

\* What a step does, as far as a tap beside one of the hosts can tell.
LEMMA StepOfConnection ==
  ASSUME HandshakeInv, [ConnectionNext]_connvars
  PROVE  \/ HandshakeInv' /\ UNCHANGED <<vars, site, host, seen>>
         \/ \E h \in Side : \E s : Emission(h, s) \/ Arrival(h, s)
<1>1. ASSUME UNCHANGED connvars
      PROVE  HandshakeInv' /\ UNCHANGED <<vars, site, host, seen>>
  BY <1>1 DEF connvars, network, HandshakeInv, NetworkType, UnderWay, Streams, Handshake,
              Formed
<1>2. ASSUME NEW h \in Side,
             \/ Open(h)
             \/ \E fin \in BOOLEAN : Say(h, fin)
             \/ Finish(h) \/ Acknowledge(h) \/ Retransmit(h) \/ ResetConnection(h)
      PROVE  \E s : Emission(h, s)
  BY <1>2, OpenEmits, SayEmits, FinishEmits, AcknowledgeEmits, RetransmitEmits, ResetEmits
<1>3. ASSUME NEW h \in Side, Deliver(h)
      PROVE  \E s : Arrival(h, s)
  BY <1>3, DeliverArrives
<1>4. ASSUME NEW h \in Side, Lose(h) \/ Overtake(h)
      PROVE  HandshakeInv' /\ UNCHANGED <<vars, site, host, seen>>
  BY <1>4, FaultKeeps
<1> QED
  BY <1>1, <1>2, <1>3, <1>4 DEF ConnectionNext

LEMMA HandshakeInit == ConnectionInit => HandshakeInv
<1> SUFFICES ASSUME ConnectionInit PROVE HandshakeInv
  OBVIOUS
<1>1. IdleHost \in HostState
  BY DEF IdleHost, HostState
<1>2. /\ host \in [Side -> HostState] /\ channel \in [Side -> Seq(Segment)]
      /\ site \in Sites
      /\ \A h \in Side : host[h] = IdleHost /\ channel[h] = <<>>
  BY <1>1 DEF ConnectionInit
<1>3. UnderWay
  BY <1>2 DEF UnderWay
<1>4. /\ IdleHost.said = 0 /\ IdleHost.sent = 0 /\ ~IdleHost.fin
      /\ IdleHost.got = 0 /\ IdleHost.acked = 0 /\ ~IdleHost.owes
  BY DEF IdleHost
<1>5. \A h \in Side : MaxMessages(h) >= 0
  BY ConnectionAssumption DEF MaxMessages
<1>6. Streams
  BY <1>2, <1>4, <1>5 DEF Streams
<1>7. Handshake
  BY <1>2, <1>4, Sides DEF Handshake
<1> QED
  BY <1>2, <1>3, <1>6, <1>7 DEF HandshakeInv, NetworkType

LEMMA HandshakeNext ==
  ASSUME HandshakeInv, [ConnectionNext]_connvars
  PROVE  HandshakeInv'
BY StepOfConnection, EmissionKeeps, ArrivalKeeps

-----------------------------------------------------------------------------
(* What the tap makes of a segment.                                        *)

LEMMA Words ==
  /\ \A h \in Side : At(h) \in Endpoint
  /\ At("client")[1] = 1 /\ At("client")[2] = 1
  /\ At("server")[1] = 2 /\ At("server")[2] = 2
  /\ \A h \in Side : \A m \in 1 .. MaxMessages(h) :
        Says(h, m) \in Data /\ Says(h, m) # NoData
<1>1. \A h \in Side : At(h) \in Endpoint
  BY ConnectionAssumption DEF At, Endpoint
<1>2. \A h \in Side : \A m \in 1 .. MaxMessages(h) : m \in Body
  BY ConnectionAssumption DEF MaxMessages
<1>3. \A h \in Side : \A m \in 1 .. MaxMessages(h) : Says(h, m) \in Data
  BY <1>1, <1>2 DEF Says, Data
<1>4. NoData \notin Data
  BY NoDataAssumption DEF Data, Endpoint
<1> QED
  BY <1>1, <1>3, <1>4 DEF At

\* A segment as the program reads it.
LEMMA PacketFacts ==
  ASSUME NEW s \in Segment, s.msg <= MaxMessages(s.from), NEW p, p = PacketOf(s)
  PROVE  /\ p \in Packet /\ p.proto = "TCP" /\ TcpIpGetKey(p) = ConnectionKey
         /\ Sender(p) = At(s.from) /\ Receiver(p) = At(Peer(s.from))
         /\ HasSyn(p) <=> s.syn
         /\ HasAck(p) <=> s.ack > 0
         /\ HasFin(p) <=> s.fin
         /\ HasRst(p) <=> s.rst
         /\ p.flags = {"SYN"} <=> s.syn /\ ~(s.ack > 0) /\ ~s.fin /\ ~s.rst
         /\ HasData(p) <=> s.msg > 0
         /\ s.msg > 0 => p.data = Says(s.from, s.msg)
<1>1. s.from \in Side /\ s.msg \in Nat /\ s.ack \in Nat
  BY DEF Segment
<1>2. /\ p.proto = "TCP"
      /\ p.src = At(s.from)[1] /\ p.sport = At(s.from)[2]
      /\ p.dst = At(Peer(s.from))[1] /\ p.dport = At(Peer(s.from))[2]
      /\ p.data = IF s.msg = 0 THEN NoData ELSE Says(s.from, s.msg)
      /\ p.flags = {f \in Flag : \/ f = "SYN" /\ s.syn
                                 \/ f = "ACK" /\ s.ack > 0
                                 \/ f = "FIN" /\ s.fin
                                 \/ f = "RST" /\ s.rst}
  BY DEF PacketOf
<1>3. /\ HasSyn(p) <=> s.syn
      /\ HasAck(p) <=> s.ack > 0
      /\ HasFin(p) <=> s.fin
      /\ HasRst(p) <=> s.rst
      /\ p.flags = {"SYN"} <=> s.syn /\ ~(s.ack > 0) /\ ~s.fin /\ ~s.rst
  BY <1>2 DEF HasSyn, HasAck, HasFin, HasRst, Flag
<1>4. s.msg > 0 => Says(s.from, s.msg) \in Data /\ Says(s.from, s.msg) # NoData
  <2>1. s.msg > 0 => s.msg \in 1 .. MaxMessages(s.from)
    BY <1>1, ConnectionAssumption DEF MaxMessages
  <2> QED
    BY <1>1, <2>1, Words
<1>5. /\ p.data \in Data \cup {NoData}
      /\ HasData(p) <=> s.msg > 0
      /\ s.msg > 0 => p.data = Says(s.from, s.msg)
  BY <1>1, <1>2, <1>4 DEF HasData
<1>6. /\ At(s.from) \in Endpoint /\ At(Peer(s.from)) \in Endpoint
  BY <1>1, Words, Sides
<1>7. p \in Packet
  <2>1. /\ p = [proto |-> p.proto, src |-> p.src, sport |-> p.sport,
                dst |-> p.dst, dport |-> p.dport, flags |-> p.flags, data |-> p.data]
    BY DEF PacketOf
  <2>2. p.flags \in SUBSET Flag
    BY <1>2
  <2>3. p.src \in Addr /\ p.sport \in Port /\ p.dst \in Addr /\ p.dport \in Port
    BY <1>2, <1>6 DEF Endpoint
  <2> QED
    BY <1>2, <1>5, <2>1, <2>2, <2>3 DEF Packet
<1>8. Sender(p) = At(s.from) /\ Receiver(p) = At(Peer(s.from))
  BY <1>1, <1>2, Sides DEF At, Sender, Receiver
<1>9. TcpIpGetKey(p) = ConnectionKey
  <2>1. CASE s.from = "client"
    <3>1. p.src = 1 /\ p.dst = 2
      BY <1>2, <2>1, Words, Sides
    <3> QED
      BY <1>8, <2>1, <3>1, Sides DEF TcpIpGetKey, ConnectionKey
  <2>2. CASE s.from = "server"
    <3>1. p.src = 2 /\ p.dst = 1
      BY <1>2, <2>2, Words, Sides
    <3> QED
      BY <1>8, <2>2, <3>1, Sides DEF TcpIpGetKey, ConnectionKey
  <2> QED
    BY <1>1, <2>1, <2>2, Sides
<1> QED
  BY <1>2, <1>3, <1>5, <1>7, <1>8, <1>9

\* The layers give back the packet that was framed.
LEMMA FrameFacts ==
  ASSUME NetworkType, NEW s \in Segment, s.msg <= MaxMessages(s.from),
         NEW padded \in BOOLEAN, NEW f, f = Seen(FrameOf(s, padded), DataLink)
  PROVE  f.packet = PacketOf(s)
<1>a. PICK p : p = PacketOf(s)
  OBVIOUS
<1>b. PICK options : options = IF s.syn THEN 5 ELSE 0
  OBVIOUS
<1>c. PICK size : size = IF s.msg = 0 THEN 0 ELSE 1
  OBVIOUS
<1>1. p \in Packet /\ (HasData(p) <=> s.msg > 0)
  BY <1>a, PacketFacts
<1>2. site.family \in {"IP", "IPV6"} /\ site.ip_hl \in 5 .. 15
  BY ConnectionAssumption DEF NetworkType
<1>d. PICK w : w = Framed(p, site.family, site.ip_hl, DataLink, options, size, padded)
  OBVIOUS
<1>3. f = Seen(w, DataLink)
  BY <1>a, <1>b, <1>c, <1>d, Zenon DEF FrameOf
<1>4. Carries(f, p)
  <2>1. options \in 0 .. 10
    BY <1>b
  <2>2. size \in Nat /\ (size = 0 <=> ~HasData(p))
    <3>1. s.msg \in Nat
      BY DEF Segment
    <3> QED
      BY <1>1, <1>c, <3>1
  <2> QED
    BY <1>2, <1>3, <1>d, <2>1, <2>2, Zenon DEF Carries
<1>5. f.packet.data = p.data
  BY <1>1, <1>4, FrameIsRead
<1>6. /\ w.proto = p.proto /\ w.src = p.src /\ w.sport = p.sport
      /\ w.dst = p.dst /\ w.dport = p.dport /\ w.flags = p.flags
  BY <1>d DEF Framed
<1>7. f.packet = [proto |-> w.proto, src |-> w.src, sport |-> w.sport,
                  dst |-> w.dst, dport |-> w.dport, flags |-> w.flags,
                  data |-> f.packet.data]
  BY <1>3 DEF Seen
<1>8. p = [proto |-> p.proto, src |-> p.src, sport |-> p.sport,
           dst |-> p.dst, dport |-> p.dport, flags |-> p.flags, data |-> p.data]
  BY <1>a DEF PacketOf
<1> QED
  BY <1>5, <1>6, <1>7, <1>8, <1>a, Zenon

-----------------------------------------------------------------------------
(* The inductive invariant of the recording.                               *)

\* The conversation has the client for its source.
OfConnection(c) == CapSource(c) = At("client") /\ CapDest(c) = At("server")

Teller(a) == IF a.type = "SEND" THEN "client" ELSE "server"

\* The data of its actions has been said by the side it is filed under.
WasSaid(c) ==
  \A i \in 1 .. Len(c.action_queue) :
     LET a == c.action_queue[i]
     IN  a.data # NoData =>
           \E m \in 1 .. host[Teller(a)].said : a.data = Says(Teller(a), m)

\* The tap records from the SYN of the client on: without it the source of the
\* conversation might be the server.
FromTheStart ==
  ConnectionKey \notin Recorded =>
    IF site.at = "client" THEN host["client"].sent = 0 ELSE host["server"].got = 0

BesideInv ==
  /\ TypeOK
  /\ Recorded \subseteq {ConnectionKey}
  /\ \A k \in Recorded : OfConnection(conversations[k]) /\ WasSaid(conversations[k])
  /\ FromTheStart

\* c is the conversation the packet p belongs to, and d what p makes of it.
Follows(c, d, p) ==
  /\ c \in Conversation /\ d \in Conversation
  /\ c.cap_tcp_state # "NONE" /\ d = TcpProcessCapturePacket(c, p)
  /\ IF ConnectionKey \in Recorded THEN c = conversations[ConnectionKey]
     ELSE c.action_queue = <<>> /\ c.cap_tcp_state = "CLOSED"
  /\ OfConnection(c) /\ SameSides(c, d)
  /\ Recorded' = {ConnectionKey} /\ conversations'[ConnectionKey] = d
  /\ TypeOK'

LEMMA Recording ==
  ASSUME BesideInv, NetworkType, NEW s \in Segment, s.msg <= MaxMessages(s.from),
         ConnectionKey \notin Recorded => s.from = "client",
         NEW padded \in BOOLEAN, RecordPacket(Seen(FrameOf(s, padded), DataLink))
  PROVE  \E c, d : Follows(c, d, PacketOf(s))
<1>a. PICK p : p = PacketOf(s)
  OBVIOUS
<1>b. PICK f : f = Seen(FrameOf(s, padded), DataLink)
  OBVIOUS
<1>1. f.packet = p
  BY <1>a, <1>b, FrameFacts
<1>2. /\ p \in Packet /\ TcpIpGetKey(p) = ConnectionKey
      /\ Sender(p) = At(s.from) /\ Receiver(p) = At(Peer(s.from))
  BY <1>a, PacketFacts
<1>3. TypeOK /\ Recorded \subseteq {ConnectionKey} /\ Protocol = "TCP"
  BY ConnectionAssumption DEF BesideInv
<1>c. PICK c : c = GetConversation(p)
  OBVIOUS
<1>d. PICK d : d = ProcessCapturePacket(c, p)
  OBVIOUS
<1>4. /\ c \in Conversation /\ d \in Conversation
      /\ c.cap_tcp_state # "NONE" /\ d = TcpProcessCapturePacket(c, p)
  BY <1>1, <1>2, <1>3, <1>c, <1>d, RecordedConversation
<1>5. conversations' = Put(conversations, ConnectionKey, d)
  <2>1. conversations' = Put(conversations, TcpIpGetKey(f.packet),
                             ProcessCapturePacket(GetConversation(f.packet), f.packet))
    BY <1>b, Zenon DEF RecordPacket
  <2> QED
    BY <1>1, <1>2, <1>c, <1>d, <2>1, Zenon
<1>6. Recorded' = {ConnectionKey} /\ conversations'[ConnectionKey] = d
  BY <1>3, <1>5 DEF Put, Recorded
<1>7. TypeOK'
  BY <1>1, <1>2, <1>3, <1>b, TypeRecord, Zenon
<1>8. CASE ConnectionKey \in Recorded
  <2>1. c = conversations[ConnectionKey]
    BY <1>2, <1>8, <1>c, Zenon DEF GetConversation, Recorded
  <2>2. OfConnection(c)
    BY <1>8, <2>1, Zenon DEF BesideInv
  <2>3. SameSides(c, d)
    BY <1>2, <1>4, TcpSides
  <2> QED
    BY <1>4, <1>6, <1>7, <1>8, <1>a, <2>1, <2>2, <2>3, Zenon DEF Follows
<1>9. CASE ConnectionKey \notin Recorded
  <2>1. c = NewConversation("CLOSED", p, TestServer(p))
    BY <1>2, <1>3, <1>9, <1>c, Zenon DEF GetConversation, CreateConversation, Recorded
  <2>2. /\ CapSource(c) = Sender(p) /\ CapDest(c) = Receiver(p)
        /\ c.action_queue = <<>> /\ c.cap_tcp_state = "CLOSED"
    BY <2>1, NewSides
  <2>3. OfConnection(c)
    BY <1>2, <1>9, <2>2, Sides, Zenon DEF OfConnection
  <2>4. SameSides(c, d)
    BY <1>2, <1>4, TcpSides
  <2> QED
    BY <1>4, <1>6, <1>7, <1>9, <1>a, <2>2, <2>3, <2>4, Zenon DEF Follows
<1> QED
  BY <1>8, <1>9

\* What is recorded of a segment is what its side says in it.
LEMMA SaidInIt ==
  ASSUME NEW s \in Segment, s.msg <= MaxMessages(s.from), s.msg > 0,
         NEW c, OfConnection(c), NEW a, a = DataAction(c, PacketOf(s))
  PROVE  a.data = Says(s.from, s.msg) /\ Teller(a) = s.from /\ a.data # NoData
<1>a. PICK p : p = PacketOf(s)
  OBVIOUS
<1>1. /\ HasData(p) /\ p.data = Says(s.from, s.msg)
      /\ Sender(p) = At(s.from) /\ s.from \in Side
  BY <1>a, PacketFacts DEF Segment
<1>2. /\ a.data = p.data
      /\ a.type = IF p.src = c.cap_src_addr /\ p.sport = c.cap_src_port
                  THEN "SEND" ELSE "RECV"
  BY <1>a DEF DataAction
<1>3. Sender(p) = CapSource(c) <=> p.src = c.cap_src_addr /\ p.sport = c.cap_src_port
  BY DEF Sender, CapSource
<1>4. CapSource(c) = At("client") /\ At("client") # At("server")
  BY DEF OfConnection, At
<1>5. Teller(a) = s.from
  <2>1. CASE s.from = "client"
    BY <1>1, <1>2, <1>3, <1>4, <2>1 DEF Teller
  <2>2. CASE s.from = "server"
    BY <1>1, <1>2, <1>3, <1>4, <2>2 DEF Teller
  <2> QED
    BY <1>1, <2>1, <2>2, Sides
<1> QED
  BY <1>1, <1>2, <1>5 DEF HasData

LEMMA SaidStays ==
  ASSUME NetworkType, NetworkType', Grown, NEW a, a.data # NoData,
         \E m \in 1 .. host[Teller(a)].said : a.data = Says(Teller(a), m)
  PROVE  \E m \in 1 .. host'[Teller(a)].said : a.data = Says(Teller(a), m)
<1>1. Teller(a) \in Side
  BY Sides DEF Teller
<1>2. /\ host[Teller(a)].said \in Nat /\ host'[Teller(a)].said \in Nat
      /\ host'[Teller(a)].said >= host[Teller(a)].said
  BY <1>1 DEF NetworkType, HostState, Grown
<1>3. \A m \in 1 .. host[Teller(a)].said : m \in 1 .. host'[Teller(a)].said
  BY <1>2
<1> QED
  BY <1>3

\* The tap sees s.
LEMMA BesideObserved ==
  ASSUME BesideInv, NetworkType, NetworkType', Grown, Streams', NEW s, Formed(s)',
         ConnectionKey \notin Recorded => s.from = "client",
         NEW padded \in BOOLEAN, RecordPacket(Seen(FrameOf(s, padded), DataLink))
  PROVE  BesideInv'
<1>1. /\ s \in Segment /\ s.from \in Side /\ s.msg \in Nat
      /\ s.msg <= host'[s.from].said /\ host'[s.from].said \in Nat
      /\ host'[s.from].said <= MaxMessages(s.from)
  BY DEF Formed, Segment, Streams, NetworkType, HostState
<1>2. s.msg <= MaxMessages(s.from) /\ MaxMessages(s.from) \in Nat
  BY <1>1, ConnectionAssumption DEF MaxMessages
<1>a. PICK p : p = PacketOf(s)
  OBVIOUS
<1>b. PICK c, d : Follows(c, d, p)
  BY <1>1, <1>2, <1>a, Recording
<1>3. /\ p \in Packet /\ (HasData(p) <=> s.msg > 0)
  BY <1>1, <1>2, <1>a, PacketFacts
<1>4. OnlyNew(c, d, p)
  BY <1>3, <1>b, TcpNewActions DEF Follows
<1>5. OfConnection(d)
  BY <1>b, SameSidesEnds DEF Follows, OfConnection
<1>6. ASSUME NEW i \in 1 .. Len(d.action_queue), NEW a, a = d.action_queue[i],
             a.data # NoData
      PROVE  \E m \in 1 .. host'[Teller(a)].said : a.data = Says(Teller(a), m)
  <2>1. CASE i \in 1 .. Len(c.action_queue) /\ a = c.action_queue[i]
    <3>1. ConnectionKey \in Recorded /\ c = conversations[ConnectionKey]
      BY <2>1, <1>b DEF Follows
    <3>2. WasSaid(c)
      BY <3>1, Zenon DEF BesideInv
    <3>3. \E m \in 1 .. host[Teller(a)].said : a.data = Says(Teller(a), m)
      BY <1>6, <2>1, <3>2, Zenon DEF WasSaid
    <3> QED
      BY <1>6, <3>3, SaidStays
  <2>2. CASE HasData(p) /\ a = DataAction(c, p)
    <3>1. s.msg > 0 /\ OfConnection(c)
      BY <1>3, <1>b, <2>2 DEF Follows
    <3>2. a.data = Says(s.from, s.msg) /\ Teller(a) = s.from
      BY <1>1, <1>2, <1>a, <2>2, <3>1, SaidInIt
    <3>3. s.msg \in 1 .. host'[s.from].said
      BY <1>1, <3>1
    <3> QED
      BY <3>2, <3>3, Zenon
  <2> QED
    BY <1>4, <1>6, <2>1, <2>2, Zenon DEF OnlyNew
<1>7. WasSaid(d)'
  BY <1>6, Zenon DEF WasSaid
<1>8. /\ TypeOK' /\ Recorded' = {ConnectionKey}
      /\ conversations'[ConnectionKey] = d
  BY <1>b, Zenon DEF Follows
<1>9. ASSUME NEW k \in Recorded'
      PROVE  OfConnection(conversations'[k]) /\ WasSaid(conversations[k])'
  <2>1. conversations'[k] = d
    BY <1>8, Zenon
  <2>2. WasSaid(conversations[k])'
    BY <1>7, <2>1, Zenon DEF WasSaid
  <2> QED
    BY <1>5, <2>1, <2>2, Zenon
<1>10. FromTheStart'
  BY <1>8 DEF FromTheStart
<1> QED
  BY <1>8, <1>9, <1>10 DEF BesideInv

\* The tap sees nothing, and nothing happens where it is.
LEMMA BesideElsewhere ==
  ASSUME BesideInv, NetworkType, NetworkType', Grown, UNCHANGED <<vars, site>>,
         host'[site.at] = host[site.at]
  PROVE  BesideInv'
<1>1. TypeOK /\ TypeOK' /\ Recorded' = Recorded /\ UNCHANGED conversations
  BY TypeNext DEF BesideInv, vars, Recorded
<1>2. ASSUME NEW k \in Recorded
      PROVE  WasSaid(conversations[k])'
  <2>a. PICK q : q = conversations[k].action_queue
    OBVIOUS
  <2>1. \A i \in 1 .. Len(q) : q[i].data # NoData =>
           \E m \in 1 .. host[Teller(q[i])].said : q[i].data = Says(Teller(q[i]), m)
    BY <2>a, Zenon DEF BesideInv, WasSaid
  <2>2. \A i \in 1 .. Len(q) : q[i].data # NoData =>
           \E m \in 1 .. host'[Teller(q[i])].said : q[i].data = Says(Teller(q[i]), m)
    BY <2>1, SaidStays
  <2>3. q = conversations'[k].action_queue
    BY <1>1, <2>a
  <2> QED
    BY <2>2, <2>3, Zenon DEF WasSaid
<1>3. FromTheStart'
  <2>1. site.at \in Side
    BY ConnectionAssumption DEF NetworkType
  <2>2. site.at = "client" \/ site.at = "server"
    BY <2>1, Sides
  <2>3. FromTheStart
    BY DEF BesideInv
  <2> QED
    BY <1>1, <2>2, <2>3 DEF FromTheStart
<1> QED
  BY <1>1, <1>2, <1>3 DEF BesideInv

\* The first segment the tap sees is the client's.
LEMMA FirstSeen ==
  ASSUME BesideInv, HandshakeInv, NEW h \in Side, h = site.at, NEW s,
         Emission(h, s) \/ Arrival(h, s), ConnectionKey \notin Recorded
  PROVE  s.from = "client"
<1>0. NetworkType /\ Handshake
  BY DEF HandshakeInv
<1>1. IF h = "client" THEN host["client"].sent = 0 ELSE host["server"].got = 0
  BY DEF BesideInv, FromTheStart
<1>2. /\ host["client"].sent \in Nat /\ host["server"].sent \in Nat
      /\ host["server"].got \in Nat
  BY <1>0, HostFields, Sides
<1>3. CASE Emission(h, s)
  <2>1. s.from = h
    BY <1>3 DEF Emission
  <2>2. ASSUME h = "server"
        PROVE  FALSE
    <3>1. host'["server"].sent >= 1
      BY <1>3, <2>1, <2>2 DEF Emission, Formed
    <3>2. host'["server"].got >= 1 /\ host'["server"].got = host["server"].got
      BY <1>3, <2>2, <3>1 DEF Emission, Handshake
    <3> QED
      BY <1>1, <2>2, <3>2
  <2> QED
    BY <2>1, <2>2, Sides
<1>4. CASE Arrival(h, s)
  <2>1. s.from = Peer(h)
    BY <1>4 DEF Arrival
  <2>2. ASSUME h = "client"
        PROVE  FALSE
    <3>1. host["server"].sent >= 1
      BY <1>4, <2>1, <2>2, Sides DEF Arrival, Formed
    <3> QED
      BY <1>0, <1>1, <1>2, <2>2, <3>1 DEF Handshake
  <2> QED
    BY <2>1, <2>2, Sides
<1> QED
  BY <1>3, <1>4

LEMMA BesideNext ==
  ASSUME BesideInv, HandshakeInv, [ConnectionNext]_connvars
  PROVE  BesideInv'
<1>0. NetworkType /\ HandshakeInv' /\ NetworkType' /\ Streams'
  BY HandshakeNext DEF HandshakeInv
<1>1. CASE UNCHANGED <<vars, site, host, seen>>
  BY <1>0, <1>1, HostStays, BesideElsewhere
<1>2. ASSUME NEW h \in Side, NEW s, Emission(h, s) \/ Arrival(h, s)
      PROVE  BesideInv'
  <2>1. /\ Grown /\ UNCHANGED site /\ Formed(s)' /\ Observe(h, s)
        /\ host'[Peer(h)] = host[Peer(h)]
    BY <1>2, ArrivalKeeps DEF Emission, Send, Arrival
  <2>2. CASE site.at = h
    <3>a. PICK padded \in BOOLEAN : padded = (s.from # h)
      OBVIOUS
    <3>1. RecordPacket(Seen(FrameOf(s, padded), DataLink))
      BY <2>1, <2>2, <3>a, Zenon DEF Observe
    <3> QED
      BY <1>0, <1>2, <2>1, <2>2, <3>1, FirstSeen, BesideObserved
  <2>3. CASE site.at # h
    <3>1. site.at = Peer(h)
      BY <1>0, <2>3, ConnectionAssumption, Sides DEF NetworkType
    <3>2. UNCHANGED vars
      BY <2>1, <2>3, Zenon DEF Observe
    <3> QED
      BY <1>0, <2>1, <3>1, <3>2, BesideElsewhere
  <2> QED
    BY <2>2, <2>3
<1> QED
  BY <1>1, <1>2, StepOfConnection

LEMMA BesideInit == ConnectionInit => BesideInv
<1> SUFFICES ASSUME ConnectionInit PROVE BesideInv
  OBVIOUS
<1>1. /\ phase = "loading"
      /\ test_servers = NoEntries /\ conversations = NoEntries
      /\ given = NoEntries /\ initiator = NoEntries /\ resets = NoEntries
      /\ first_packet = NoKey /\ first_request = NoKey
      /\ host = [h \in Side |-> IdleHost]
  BY DEF ConnectionInit
<1>2. DOMAIN NoEntries = {} /\ Recorded = {}
  BY <1>1 DEF NoEntries, Recorded
<1>3. TypeOK
  BY <1>1, <1>2 DEF TypeOK, NoEntries, Recorded
<1>4. host["client"].sent = 0 /\ host["server"].got = 0
  BY <1>1, Sides DEF IdleHost
<1> QED
  BY <1>2, <1>3, <1>4 DEF BesideInv, FromTheStart

LEMMA BesideInvariant == ConnectionSpec => [](HandshakeInv /\ BesideInv)
<1>1. ConnectionInit => HandshakeInv /\ BesideInv
  BY HandshakeInit, BesideInit
<1>2. HandshakeInv /\ BesideInv /\ [ConnectionNext]_connvars
        => (HandshakeInv /\ BesideInv)'
  BY HandshakeNext, BesideNext
<1> QED
  BY <1>1, <1>2, PTL DEF ConnectionSpec

\* network_layers.h and tcp_conversation.cc, beside either host: whatever is
\* lost, overtaken or sent again, an action of the script is something that its
\* side of the connection has said.
THEOREM OnlySaid == ConnectionSpec => []OnlyWhatWasSaid
<1>1. ASSUME BesideInv
      PROVE  OnlyWhatWasSaid
  <2>1. ASSUME NEW i \in 1 .. Len(Queue), NEW a, a = Queue[i], a.data # NoData
        PROVE  \E m \in 1 .. host[Teller(a)].said : a.data = Says(Teller(a), m)
    <3>1. ConnectionKey \in Recorded
      BY <2>1 DEF Queue
    <3>2. Queue = conversations[ConnectionKey].action_queue
      BY <3>1 DEF Queue
    <3>3. WasSaid(conversations[ConnectionKey])
      BY <1>1, <3>1, Zenon DEF BesideInv
    <3> QED
      BY <2>1, <3>2, <3>3, Zenon DEF WasSaid
  <2> QED
    BY <2>1, Zenon DEF OnlyWhatWasSaid, Teller
<1> QED
  BY <1>1, BesideInvariant, PTL

-----------------------------------------------------------------------------
(* What a script tells: the data of its actions, in their order.           *)

Carried(q) == {i \in 1 .. Len(q) : q[i].data # NoData}

UpTo(q, i) == {j \in Carried(q) : j <= i}

Tells(q, data) ==
  /\ Cardinality(Carried(q)) = Len(data)
  /\ \A i \in Carried(q) : q[i].data = data[Cardinality(UpTo(q, i))]

LEMMA CarriedFinite ==
  ASSUME NEW q \in Seq(Action)
  PROVE  /\ IsFiniteSet(Carried(q)) /\ Cardinality(Carried(q)) \in Nat
         /\ \A i \in Carried(q) : Cardinality(UpTo(q, i)) \in 1 .. Cardinality(Carried(q))
<1>a. PICK n : n = Len(q)
  OBVIOUS
<1>1. n \in Nat /\ Carried(q) \subseteq 1 .. n
  BY <1>a DEF Carried
<1>2. IsFiniteSet(1 .. n)
  <2>1. n \in Int /\ 1 \in Int
    BY <1>1
  <2> QED
    BY <2>1, FS_Interval, Zenon
<1>3. IsFiniteSet(Carried(q)) /\ Cardinality(Carried(q)) \in Nat
  BY <1>1, <1>2, FS_Subset, FS_CardinalityType
<1>4. ASSUME NEW i \in Carried(q)
      PROVE  Cardinality(UpTo(q, i)) \in 1 .. Cardinality(Carried(q))
  <2>1. UpTo(q, i) \subseteq Carried(q) /\ i \in UpTo(q, i)
    BY <1>1, <1>4 DEF UpTo
  <2>2. /\ IsFiniteSet(UpTo(q, i)) /\ Cardinality(UpTo(q, i)) \in Nat
        /\ Cardinality(UpTo(q, i)) <= Cardinality(Carried(q))
    BY <1>3, <2>1, FS_Subset, FS_CardinalityType
  <2>3. Cardinality(UpTo(q, i)) # 0
    BY <2>1, <2>2, FS_EmptySet
  <2> QED
    BY <1>3, <2>2, <2>3
<1> QED
  BY <1>3, <1>4

\* An action without data adds nothing.
LEMMA TellsNoMore ==
  ASSUME NEW q \in Seq(Action), NEW a \in Action, a.data = NoData,
         NEW t, t = Append(q, a), NEW data, Tells(q, data)
  PROVE  Tells(t, data)
<1>1. /\ Len(t) = Len(q) + 1 /\ Len(q) \in Nat /\ t[Len(q) + 1] = a
      /\ \A i \in 1 .. Len(q) : t[i] = q[i]
  BY AppendElements
<1>2. \A i : i \in 1 .. Len(t) <=> i \in 1 .. Len(q) \/ i = Len(q) + 1
  BY <1>1
<1>3. Carried(t) = Carried(q)
  BY <1>1, <1>2 DEF Carried
<1>4. \A i \in Carried(q) : t[i] = q[i] /\ UpTo(t, i) = UpTo(q, i)
  BY <1>1, <1>3 DEF Carried, UpTo
<1> QED
  BY <1>3, <1>4 DEF Tells

\* One with data adds what it holds.
LEMMA TellsMore ==
  ASSUME NEW q \in Seq(Action), NEW a \in Action, a.data # NoData,
         NEW t, t = Append(q, a), NEW data \in Seq(Data),
         NEW more, more = Append(data, a.data), Tells(q, data)
  PROVE  Tells(t, more)
<1>1. /\ Len(t) = Len(q) + 1 /\ Len(q) \in Nat /\ t[Len(q) + 1] = a
      /\ \A i \in 1 .. Len(q) : t[i] = q[i]
  BY AppendElements
<1>2. /\ Len(more) = Len(data) + 1 /\ Len(data) \in Nat
      /\ more[Len(data) + 1] = a.data
      /\ \A i \in 1 .. Len(data) : more[i] = data[i]
  BY AppendElements
<1>3. \A i : i \in 1 .. Len(t) <=> i \in 1 .. Len(q) \/ i = Len(q) + 1
  BY <1>1
<1>a. PICK n : n = Len(q) + 1
  OBVIOUS
<1>4. Carried(t) = Carried(q) \cup {n} /\ n \notin Carried(q)
  BY <1>1, <1>3, <1>a DEF Carried
<1>5. \A i \in Carried(q) : i \in Int /\ ~(n <= i) /\ i <= n
  BY <1>1, <1>a DEF Carried
<1>6. /\ Cardinality(Carried(q)) = Len(data)
      /\ Cardinality(Carried(t)) = Len(more)
  <2>1. /\ Cardinality(Carried(q)) = Len(data)
        /\ IsFiniteSet(Carried(q)) /\ Cardinality(Carried(q)) \in Nat
    BY CarriedFinite DEF Tells
  <2>2. Cardinality(Carried(t)) = Cardinality(Carried(q)) + 1
    BY <1>4, <2>1, FS_AddElement
  <2> QED
    BY <1>2, <2>1, <2>2
<1>7. ASSUME NEW i \in Carried(q)
      PROVE  t[i].data = more[Cardinality(UpTo(t, i))]
  <2>1. UpTo(t, i) = UpTo(q, i)
    BY <1>4, <1>5 DEF UpTo
  <2>2. t[i] = q[i]
    BY <1>1 DEF Carried
  <2>3. Cardinality(UpTo(q, i)) \in 1 .. Len(data)
    BY <1>6, CarriedFinite
  <2>4. q[i].data = data[Cardinality(UpTo(q, i))]
    BY DEF Tells
  <2> QED
    BY <1>2, <2>1, <2>2, <2>3, <2>4
<1>8. t[n].data = more[Cardinality(UpTo(t, n))]
  <2>1. n \in Int
    BY <1>1, <1>a
  <2>2. UpTo(t, n) = Carried(t)
    BY <1>4, <1>5, <2>1 DEF UpTo
  <2>3. Cardinality(UpTo(t, n)) = Len(data) + 1
    BY <1>2, <1>6, <2>2
  <2> QED
    BY <1>1, <1>2, <1>a, <2>3
<1> QED
  BY <1>4, <1>6, <1>7, <1>8 DEF Tells

-----------------------------------------------------------------------------
(* The tap and the state of the recording.                                 *)

\* What TcpConversation makes of a segment, state by state.
LEMMA TapStep ==
  ASSUME NEW c \in Conversation, c.cap_tcp_state # "NONE", OfConnection(c),
         NEW s \in Segment, s.msg <= MaxMessages(s.from), NEW p, p = PacketOf(s),
         NEW d, d = TcpProcessCapturePacket(c, p), NEW a, a = DataAction(c, p)
  PROVE  /\ s.rst => d.cap_tcp_state = "CLOSED" /\ d.action_queue = c.action_queue
         /\ ~s.rst /\ c.cap_tcp_state = "CLOSED" =>
              /\ d.action_queue = c.action_queue
              /\ IF s.from = "client" /\ s.syn /\ ~(s.ack > 0) /\ ~s.fin
                 THEN d.cap_tcp_state = "SYN_SENT" ELSE d.cap_tcp_state = "CLOSED"
         /\ ~s.rst /\ c.cap_tcp_state = "SYN_SENT" =>
              /\ d.action_queue = c.action_queue
              /\ IF s.from = "server" /\ s.syn /\ s.ack > 0
                 THEN d.cap_tcp_state = "SYN_RECEIVED" ELSE d.cap_tcp_state = "SYN_SENT"
         /\ ~s.rst /\ c.cap_tcp_state = "SYN_RECEIVED" =>
              IF s.from = "client" /\ s.ack > 0
              THEN /\ d.cap_tcp_state = "ESTABLISHED"
                   /\ d.action_queue = Append(c.action_queue, Plain("CONNECT"))
              ELSE /\ d.cap_tcp_state = "SYN_RECEIVED"
                   /\ d.action_queue = c.action_queue
         /\ ~s.rst /\ c.cap_tcp_state = "ESTABLISHED" =>
              \E q : /\ q = IF s.msg > 0 THEN Append(c.action_queue, a) ELSE c.action_queue
                     /\ IF s.fin
                        THEN /\ d.cap_tcp_state = "CLOSED"
                             /\ d.action_queue = Append(q, Plain("CLOSE"))
                        ELSE d.cap_tcp_state = "ESTABLISHED" /\ d.action_queue = q
<1>1. /\ p \in Packet /\ p.proto = "TCP" /\ Sender(p) = At(s.from)
      /\ HasSyn(p) <=> s.syn
      /\ HasAck(p) <=> s.ack > 0
      /\ HasFin(p) <=> s.fin
      /\ HasRst(p) <=> s.rst
      /\ p.flags = {"SYN"} <=> s.syn /\ ~(s.ack > 0) /\ ~s.fin /\ ~s.rst
      /\ HasData(p) <=> s.msg > 0
  BY PacketFacts
<1>2. /\ p.src = c.cap_src_addr <=> s.from = "client"
      /\ p.src = c.cap_dest_addr <=> s.from = "server"
  <2>1. s.from \in Side
    BY DEF Segment
  <2>2. p.src = At(s.from)[1] /\ c.cap_src_addr = 1 /\ c.cap_dest_addr = 2
    BY <1>1, Words DEF Sender, OfConnection, CapSource, CapDest
  <2>3. CASE s.from = "client"
    BY <2>2, <2>3, Words
  <2>4. CASE s.from = "server"
    BY <2>2, <2>4, Words
  <2> QED
    BY <2>1, <2>3, <2>4, Sides
<1>3. /\ {"CLOSED", "SYN_SENT", "SYN_RECEIVED", "ESTABLISHED"} \subseteq TcpState
      /\ a \in Action /\ Plain("CONNECT") \in Action /\ Plain("CLOSE") \in Action
  BY <1>1, ActionTypes DEF TcpState
<1>b. ASSUME NEW e \in Conversation, NEW state \in TcpState, NEW b \in Action,
             d = Push(Enter(e, state), b)
      PROVE  d.cap_tcp_state = state /\ d.action_queue = Append(e.action_queue, b)
  <2>1. /\ Push(Enter(e, state), b).action_queue = Append(e.action_queue, b)
        /\ Push(Enter(e, state), b).cap_tcp_state = state
    BY EnterAndPush
  <2> QED
    BY <1>b, <2>1, Zenon
<1>4. ASSUME s.rst
      PROVE  d.cap_tcp_state = "CLOSED" /\ d.action_queue = c.action_queue
  <2>1. d = Enter(c, "CLOSED")
    BY <1>1, <1>4 DEF TcpProcessCapturePacket
  <2>2. c \in Conversation /\ "CLOSED" \in TcpState
    BY <1>1, <1>3
  <2> QED
    BY <2>1, <2>2, EnterType
<1>5. ASSUME ~s.rst, c.cap_tcp_state = "CLOSED"
      PROVE  /\ d.action_queue = c.action_queue
             /\ IF s.from = "client" /\ s.syn /\ ~(s.ack > 0) /\ ~s.fin
                THEN d.cap_tcp_state = "SYN_SENT" ELSE d.cap_tcp_state = "CLOSED"
  <2>1. d = CloseProcessCapturePacket(c, p)
    BY <1>1, <1>5 DEF TcpProcessCapturePacket
  <2>2. d = IF s.from = "client" /\ s.syn /\ ~(s.ack > 0) /\ ~s.fin
            THEN Enter(c, "SYN_SENT") ELSE c
    BY <1>1, <1>2, <1>5, <2>1 DEF CloseProcessCapturePacket
  <2> QED
    BY <1>3, <1>5, <2>2, EnterType
<1>6. ASSUME ~s.rst, c.cap_tcp_state = "SYN_SENT"
      PROVE  /\ d.action_queue = c.action_queue
             /\ IF s.from = "server" /\ s.syn /\ s.ack > 0
                THEN d.cap_tcp_state = "SYN_RECEIVED" ELSE d.cap_tcp_state = "SYN_SENT"
  <2>1. d = SynSentProcessCapturePacket(c, p)
    BY <1>1, <1>6 DEF TcpProcessCapturePacket
  <2>2. d = IF s.from = "server" /\ s.syn /\ s.ack > 0
            THEN Enter(c, "SYN_RECEIVED") ELSE c
    BY <1>1, <1>2, <2>1 DEF SynSentProcessCapturePacket
  <2> QED
    BY <1>3, <1>6, <2>2, EnterType
<1>7. ASSUME ~s.rst, c.cap_tcp_state = "SYN_RECEIVED"
      PROVE  IF s.from = "client" /\ s.ack > 0
             THEN /\ d.cap_tcp_state = "ESTABLISHED"
                  /\ d.action_queue = Append(c.action_queue, Plain("CONNECT"))
             ELSE /\ d.cap_tcp_state = "SYN_RECEIVED"
                  /\ d.action_queue = c.action_queue
  <2>1. d = SynRecvProcessCapturePacket(c, p)
    BY <1>1, <1>7 DEF TcpProcessCapturePacket
  <2>2. d = IF s.from = "client" /\ s.ack > 0
            THEN Push(Enter(c, "ESTABLISHED"), Plain("CONNECT")) ELSE c
    BY <1>1, <1>2, <2>1 DEF SynRecvProcessCapturePacket
  <2>3. d = Push(Enter(c, "ESTABLISHED"), Plain("CONNECT")) =>
          /\ d.cap_tcp_state = "ESTABLISHED"
          /\ d.action_queue = Append(c.action_queue, Plain("CONNECT"))
    BY <1>3, <1>b
  <2> QED
    BY <1>7, <2>2, <2>3
<1>8. ASSUME ~s.rst, c.cap_tcp_state = "ESTABLISHED"
      PROVE  \E q : /\ q = IF s.msg > 0 THEN Append(c.action_queue, a) ELSE c.action_queue
                    /\ IF s.fin
                       THEN /\ d.cap_tcp_state = "CLOSED"
                            /\ d.action_queue = Append(q, Plain("CLOSE"))
                       ELSE d.cap_tcp_state = "ESTABLISHED" /\ d.action_queue = q
  <2>a. PICK e : e = IF s.msg > 0 THEN Push(c, a) ELSE c
    OBVIOUS
  <2>1. d = EstProcessCapturePacket(c, p)
    BY <1>1, <1>8 DEF TcpProcessCapturePacket
  <2>2. d = IF s.fin THEN Push(Enter(e, "CLOSED"), Plain("CLOSE")) ELSE e
    BY <1>1, <2>1, <2>a DEF EstProcessCapturePacket
  <2>3. /\ e \in Conversation /\ e.cap_tcp_state = "ESTABLISHED"
        /\ e.action_queue = IF s.msg > 0 THEN Append(c.action_queue, a) ELSE c.action_queue
    BY <1>3, <1>8, <2>a, PushType
  <2>4. IF s.fin
        THEN d.cap_tcp_state = "CLOSED" /\ d.action_queue = Append(e.action_queue, Plain("CLOSE"))
        ELSE d.cap_tcp_state = "ESTABLISHED" /\ d.action_queue = e.action_queue
    <3>1. d = Push(Enter(e, "CLOSED"), Plain("CLOSE")) =>
            /\ d.cap_tcp_state = "CLOSED"
            /\ d.action_queue = Append(e.action_queue, Plain("CLOSE"))
      BY <1>3, <1>b, <2>3
    <3> QED
      BY <2>2, <2>3, <3>1
  <2> QED
    BY <2>3, <2>4
<1> QED
  BY <1>4, <1>5, <1>6, <1>7, <1>8, Zenon

State ==
  IF ConnectionKey \in Recorded THEN conversations[ConnectionKey].cap_tcp_state
                                ELSE "CLOSED"

\* The server's SYN has passed the tap.
SynAnswered ==
  IF site.at = "client" THEN host["client"].got >= 1 ELSE host["server"].sent >= 1

\* The end of the handshake has passed it: no host will send a SYN past it.
Past ==
  /\ host["client"].acked >= 1
  /\ site.at = "server" => host["server"].acked >= 1 \/ host["server"].dead

TapInv ==
  /\ heard \in Seq(Data) /\ Tells(Queue, heard)
  /\ stage \in {"quiet", "opened", "over"}
  /\ ConnectionKey \notin Recorded => stage = "quiet"
  /\ stage = "quiet" =>
       State = IF ConnectionKey \notin Recorded THEN "CLOSED"
               ELSE IF SynAnswered THEN "SYN_RECEIVED" ELSE "SYN_SENT"
  /\ stage = "opened" => State = "ESTABLISHED"
  /\ stage = "over" => State = "CLOSED" \/ (State = "SYN_SENT" /\ site.at = "server")
  /\ stage # "quiet" => Past
  /\ host[site.at].dead => stage = "over"

\* What can be said of a segment that passes the tap.
Passing(s) ==
  /\ s.syn => ~s.fin /\ ~s.rst
  /\ s.from = "client" /\ s.syn <=> ~(s.ack > 0)
  /\ ConnectionKey \notin Recorded => s.from = "client" /\ s.syn /\ ~SynAnswered'
  /\ s.from = "client" /\ ~s.syn => SynAnswered /\ SynAnswered' /\ Past'
  /\ s.from = "client" /\ s.syn => (SynAnswered' <=> SynAnswered)
  /\ s.from = "server" /\ s.syn /\ ~host[site.at].dead => SynAnswered'
  /\ s.from = "server" /\ ~s.syn => (SynAnswered' <=> SynAnswered)
  /\ s.rst => Past'
  /\ Past => Past'
  /\ Past /\ s.from = site.at => ~s.syn
  /\ host'[site.at].dead => host[site.at].dead \/ s.rst

LEMMA HostNumbers ==
  ASSUME NetworkType
  PROVE  /\ host["client"].sent \in Nat /\ host["server"].sent \in Nat
         /\ host["client"].got \in Nat /\ host["server"].got \in Nat
         /\ host["client"].acked \in Nat /\ host["server"].acked \in Nat
BY HostFields, Sides

LEMMA PastStays ==
  ASSUME NetworkType, NetworkType', Grown, UNCHANGED site, Past,
         site.at = "server" /\ host["server"].dead => host'["server"].dead
  PROVE  Past'
<1>1. /\ host["client"].acked \in Nat /\ host'["client"].acked \in Nat
      /\ host["server"].acked \in Nat /\ host'["server"].acked \in Nat
  BY Sides DEF NetworkType, HostState
<1>2. /\ host'["client"].acked >= host["client"].acked
      /\ host'["server"].acked >= host["server"].acked
  BY Sides DEF Grown
<1> QED
  BY <1>1, <1>2 DEF Past

\* Beside the host that sends it.
LEMMA EmissionPasses ==
  ASSUME BesideInv, HandshakeInv, HandshakeInv', NEW h \in Side, h = site.at,
         NEW s, Emission(h, s)
  PROVE  Passing(s)
<1>0. /\ NetworkType /\ NetworkType' /\ Handshake /\ Handshake'
      /\ UNCHANGED site /\ Formed(s)' /\ s.from = h
      /\ host'[h].got = host[h].got /\ host'[h].acked = host[h].acked
      /\ Grown /\ ~host[h].dead
  BY DEF HandshakeInv, Emission, Send
<1>1. /\ s \in Segment /\ s.ack \in Nat
      /\ s.syn => ~s.fin /\ ~s.rst
      /\ s.from = "client" /\ s.syn => s.ack = 0
      /\ s.from = "client" /\ ~s.syn => s.ack >= 1 /\ host'["client"].got >= 1
      /\ s.from = "server" => s.ack >= 1
      /\ s.from = "server" /\ ~s.syn /\ s.rst => host'["server"].acked >= 1
      /\ host'[s.from].sent >= 1
  BY <1>0 DEF Formed, Segment
<1>2. /\ s.syn => host[h].acked = 0
      /\ s.syn \/ host[h].sent >= 1
      /\ host'[h].dead => host[h].dead \/ s.rst
  BY DEF Emission
<1>3. Past => Past'
  BY <1>0, PastStays
<1>4. CASE h = "client"
  <2>1. s.syn => ~SynAnswered /\ ~SynAnswered' /\ ~Past
    BY <1>0, <1>2, <1>4, HostNumbers DEF Handshake, SynAnswered, Past
  <2>2. ~s.syn => SynAnswered /\ SynAnswered' /\ Past'
    BY <1>0, <1>1, <1>4 DEF Handshake, SynAnswered, Past
  <2>3. ConnectionKey \notin Recorded => s.syn
    BY <1>2, <1>4 DEF BesideInv, FromTheStart
  <2>4. s.from = "client" /\ s.from = site.at
    BY <1>0, <1>4
  <2> QED
    BY <1>0, <1>1, <1>2, <1>3, <1>4, <2>1, <2>2, <2>3, <2>4 DEF Passing
<1>5. CASE h = "server"
  <2>1. SynAnswered' /\ (~s.syn => SynAnswered)
    BY <1>0, <1>1, <1>2, <1>5 DEF SynAnswered
  <2>2. Past => ~s.syn
    BY <1>0, <1>2, <1>5 DEF Past
  <2>3. s.rst => Past'
    BY <1>0, <1>1, <1>5 DEF Past, Handshake
  <2>4. s.from = "server" /\ s.from = site.at
    BY <1>0, <1>5
  <2>5. ConnectionKey \in Recorded
    BY <2>4, FirstSeen
  <2> QED
    BY <1>0, <1>1, <1>2, <1>3, <1>5, <2>1, <2>2, <2>3, <2>4, <2>5 DEF Passing
<1> QED
  BY <1>4, <1>5, Sides

\* Beside the host that it reaches.
LEMMA ArrivalPasses ==
  ASSUME BesideInv, HandshakeInv, HandshakeInv', NEW h \in Side, h = site.at,
         NEW s, Arrival(h, s)
  PROVE  Passing(s)
<1>0. /\ NetworkType /\ NetworkType' /\ Handshake /\ Handshake'
      /\ UNCHANGED site /\ Formed(s) /\ s.from = Peer(h)
      /\ host'[Peer(h)] = host[Peer(h)] /\ host'[h].sent = host[h].sent
      /\ Grown
  BY DEF HandshakeInv, Arrival
<1>1. /\ s \in Segment /\ s.ack \in Nat
      /\ s.syn => ~s.fin /\ ~s.rst
      /\ s.from = "client" /\ s.syn => s.ack = 0
      /\ s.from = "client" /\ ~s.syn => s.ack >= 1 /\ host["client"].got >= 1
      /\ s.from = "server" => s.ack >= 1
      /\ s.from = "server" /\ ~s.syn /\ s.rst => host["server"].acked >= 1
      /\ host[s.from].sent >= 1
  BY <1>0 DEF Formed, Segment
<1>2. /\ host'[h].dead <=> host[h].dead \/ s.rst
      /\ host[h].got = 0 /\ host'[h].got >= 1 => s.syn
      /\ ~host'[h].dead /\ s.syn => host'[h].got >= 1
      /\ ~host'[h].dead /\ s.ack >= 1 => host'[h].acked >= 1
  BY DEF Arrival
<1>3. Past => Past'
  BY <1>0, <1>2, PastStays
<1>n. /\ host["client"].got \in Nat /\ host'["client"].got \in Nat
      /\ host["server"].got \in Nat /\ host'["client"].got >= host["client"].got
      /\ host["server"].sent \in Nat /\ host["client"].acked \in Nat
  BY <1>0, Sides DEF NetworkType, HostState, Grown
<1>4. CASE h = "client"
  <2>1. s.from = "server" /\ s.from # site.at
    BY <1>0, <1>4, Sides
  <2>2. ~s.syn => (SynAnswered' <=> SynAnswered)
    BY <1>0, <1>2, <1>n, <1>4 DEF SynAnswered
  <2>3. s.syn /\ ~host[site.at].dead => SynAnswered'
    BY <1>0, <1>1, <1>2, <1>4 DEF SynAnswered
  <2>4. s.rst => Past'
    <3>1. s.rst => host'["server"].acked >= 1
      BY <1>0, <1>1, <1>4, <2>1, Sides
    <3> QED
      BY <1>0, <1>4, <3>1 DEF Past, Handshake
  <2>5. ConnectionKey \in Recorded
    BY <2>1, FirstSeen
  <2> QED
    BY <1>0, <1>1, <1>2, <1>3, <1>4, <2>1, <2>2, <2>3, <2>4, <2>5 DEF Passing
<1>5. CASE h = "server"
  <2>1. s.from = "client" /\ s.from # site.at
    BY <1>0, <1>5, Sides
  <2>2. SynAnswered' <=> SynAnswered
    BY <1>0, <1>5 DEF SynAnswered
  <2>3. ~s.syn => SynAnswered
    BY <1>0, <1>1, <1>5, <2>1 DEF SynAnswered, Handshake
  <2>4. ~s.syn => Past'
    <3>1. ~s.syn => host'["client"].acked >= 1
      BY <1>0, <1>1, <1>n, <2>1, Sides DEF Handshake
    <3> QED
      BY <1>0, <1>1, <1>2, <1>5, <2>1, <3>1 DEF Past
  <2>5. ConnectionKey \notin Recorded => s.syn /\ ~SynAnswered'
    <3>1. ConnectionKey \notin Recorded => host["server"].got = 0
      BY <1>5 DEF BesideInv, FromTheStart
    <3>2. host["server"].got = 0 => ~SynAnswered
      BY <1>0, <1>n, <1>5 DEF SynAnswered, Handshake
    <3> QED
      BY <2>2, <2>3, <3>1, <3>2
  <2> QED
    BY <1>0, <1>1, <1>2, <1>3, <1>5, <2>1, <2>2, <2>3, <2>4, <2>5 DEF Passing
<1> QED
  BY <1>4, <1>5, Sides

\* The conversation the tap adds to, as the invariant knows it.
LEMMA FollowedFrom ==
  ASSUME TapInv, NEW c, NEW d, NEW p, Follows(c, d, p)
  PROVE  /\ c.cap_tcp_state = State /\ c.action_queue = Queue
         /\ d.cap_tcp_state = State' /\ d.action_queue = Queue'
         /\ ConnectionKey \in Recorded'
         /\ stage = "opened" <=> c.cap_tcp_state = "ESTABLISHED"
<1>1. c.cap_tcp_state = State /\ c.action_queue = Queue
  BY DEF Follows, State, Queue
<1>2. /\ d.cap_tcp_state = State' /\ d.action_queue = Queue'
      /\ ConnectionKey \in Recorded'
  BY DEF Follows, State, Queue
<1>3. stage = "opened" <=> State = "ESTABLISHED"
  BY DEF TapInv
<1> QED
  BY <1>1, <1>2, <1>3

\* The script and what the tap heard grow together.
LEMMA TellsStep ==
  ASSUME TapInv, NEW s \in Segment, s.msg <= MaxMessages(s.from), s.rst => s.msg = 0,
         NEW p, p = PacketOf(s), NEW c, NEW d, Follows(c, d, p), Note(s)
  PROVE  (heard \in Seq(Data) /\ Tells(Queue, heard))'
<1>a. PICK a : a = DataAction(c, p)
  OBVIOUS
<1>b. PICK connect, close : connect = Plain("CONNECT") /\ close = Plain("CLOSE")
  OBVIOUS
<1>1. /\ c \in Conversation /\ d \in Conversation /\ OfConnection(c)
      /\ c.cap_tcp_state # "NONE" /\ d = TcpProcessCapturePacket(c, p)
  BY DEF Follows
<1>2. /\ c.action_queue = Queue /\ d.action_queue = Queue'
      /\ stage = "opened" <=> c.cap_tcp_state = "ESTABLISHED"
  BY FollowedFrom, Zenon
<1>3. /\ Tells(c.action_queue, heard) /\ heard \in Seq(Data)
      /\ c.action_queue \in Seq(Action)
  BY <1>1, <1>2 DEF TapInv, Conversation
<1>4. p \in Packet /\ s.msg \in Nat
  BY PacketFacts DEF Segment
<1>5. /\ a \in Action /\ connect \in Action /\ close \in Action
      /\ connect.data = NoData /\ close.data = NoData
  BY <1>1, <1>4, <1>a, <1>b, ActionTypes DEF Plain
<1>6. s.msg > 0 => a.data = Says(s.from, s.msg) /\ a.data # NoData
  BY <1>1, <1>a, SaidInIt
<1>7. heard' = IF stage = "opened" /\ s.msg > 0
               THEN Append(heard, Says(s.from, s.msg)) ELSE heard
  BY DEF Note
<1>8. CASE s.rst \/ c.cap_tcp_state # "ESTABLISHED"
  <2>1. heard' = heard
    BY <1>2, <1>4, <1>7, <1>8
  <2>2. \/ d.action_queue = c.action_queue
        \/ d.action_queue = Append(c.action_queue, connect)
    <3>1. c.cap_tcp_state \in TcpState
      BY <1>1 DEF Conversation
    <3> QED
      BY <1>1, <1>8, <1>a, <1>b, <3>1, TapStep DEF TcpState
  <2>3. Tells(d.action_queue, heard)
    BY <1>3, <1>5, <2>2, TellsNoMore
  <2> QED
    BY <1>2, <1>3, <2>1, <2>3
<1>9. CASE ~s.rst /\ c.cap_tcp_state = "ESTABLISHED"
  <2>q. PICK q : /\ q = IF s.msg > 0 THEN Append(c.action_queue, a) ELSE c.action_queue
                 /\ IF s.fin
                    THEN d.action_queue = Append(q, close)
                    ELSE d.action_queue = q
    BY <1>1, <1>9, <1>a, <1>b, TapStep
  <2>1. heard' = IF s.msg > 0 THEN Append(heard, a.data) ELSE heard
    BY <1>2, <1>6, <1>7, <1>9
  <2>2. q \in Seq(Action) /\ heard' \in Seq(Data) /\ Tells(q, heard')
    <3>1. CASE s.msg > 0
      <4>1. a.data \in Data
        BY <1>5, <1>6, <3>1 DEF Action
      <4>2. q = Append(c.action_queue, a) /\ heard' = Append(heard, a.data)
        BY <2>1, <2>q, <3>1
      <4>3. a.data # NoData
        BY <1>6, <3>1
      <4>4. Tells(q, heard')
        <5>1. \A u \in Seq(Action), b \in Action, data \in Seq(Data) :
                 b.data # NoData /\ Tells(u, data) =>
                   Tells(Append(u, b), Append(data, b.data))
          BY TellsMore
        <5>2. Tells(Append(c.action_queue, a), Append(heard, a.data))
          BY <1>3, <1>5, <4>3, <5>1, Zenon
        <5> QED
          BY <4>2, <5>2, Zenon
      <4> QED
        BY <1>3, <1>5, <4>1, <4>2, <4>4
    <3>2. CASE ~(s.msg > 0)
      BY <1>3, <2>1, <2>q, <3>2
    <3> QED
      BY <3>1, <3>2
  <2>3. Tells(d.action_queue, heard')
    BY <1>5, <2>2, <2>q, TellsNoMore
  <2> QED
    BY <1>2, <2>2, <2>3
<1> QED
  BY <1>8, <1>9

\* So do the state of the recording and what the tap has seen.
LEMMA StageStep ==
  ASSUME TapInv, NEW s \in Segment, s.msg <= MaxMessages(s.from), Passing(s),
         site.at \in Side, UNCHANGED site, NEW p, p = PacketOf(s), NEW c, NEW d, Follows(c, d, p), Note(s)
  PROVE  /\ stage' \in {"quiet", "opened", "over"}
         /\ stage' = "quiet" =>
              State' = IF SynAnswered' THEN "SYN_RECEIVED" ELSE "SYN_SENT"
         /\ stage' = "opened" => State' = "ESTABLISHED"
         /\ stage' = "over" =>
              State' = "CLOSED" \/ (State' = "SYN_SENT" /\ site.at = "server")
         /\ stage' # "quiet" => Past'
         /\ host'[site.at].dead => stage' = "over"
<1>a. PICK a : a = DataAction(c, p)
  OBVIOUS
<1>1. /\ c \in Conversation /\ d \in Conversation /\ OfConnection(c)
      /\ c.cap_tcp_state # "NONE" /\ d = TcpProcessCapturePacket(c, p)
  BY DEF Follows
<1>2. c.cap_tcp_state = State /\ d.cap_tcp_state = State'
  BY FollowedFrom, Zenon
<1>3. /\ s.rst => State' = "CLOSED"
      /\ ~s.rst /\ State = "CLOSED" =>
           IF s.from = "client" /\ s.syn /\ ~(s.ack > 0) /\ ~s.fin
           THEN State' = "SYN_SENT" ELSE State' = "CLOSED"
      /\ ~s.rst /\ State = "SYN_SENT" =>
           IF s.from = "server" /\ s.syn /\ s.ack > 0
           THEN State' = "SYN_RECEIVED" ELSE State' = "SYN_SENT"
      /\ ~s.rst /\ State = "SYN_RECEIVED" =>
           IF s.from = "client" /\ s.ack > 0
           THEN State' = "ESTABLISHED" ELSE State' = "SYN_RECEIVED"
      /\ ~s.rst /\ State = "ESTABLISHED" =>
           IF s.fin THEN State' = "CLOSED" ELSE State' = "ESTABLISHED"
  BY <1>1, <1>2, <1>a, TapStep
<1>4. stage' = IF s.rst \/ (s.fin /\ stage = "opened") THEN "over"
               ELSE IF stage = "quiet" /\ s.from = "client" /\ ~s.syn /\ ~s.rst
               THEN "opened" ELSE stage
  BY Zenon DEF Note, Opens
<1>5. s.from = "client" \/ s.from = "server"
  BY Sides DEF Segment
<1>6. /\ stage \in {"quiet", "opened", "over"}
      /\ ConnectionKey \notin Recorded => stage = "quiet"
      /\ stage = "quiet" =>
           State = IF ConnectionKey \notin Recorded THEN "CLOSED"
                   ELSE IF SynAnswered THEN "SYN_RECEIVED" ELSE "SYN_SENT"
      /\ stage = "opened" => State = "ESTABLISHED"
      /\ stage = "over" => State = "CLOSED" \/ (State = "SYN_SENT" /\ site.at = "server")
      /\ stage # "quiet" => Past
      /\ host[site.at].dead => stage = "over"
  BY DEF TapInv
<1>7. CASE s.rst
  BY <1>3, <1>4, <1>7 DEF Passing
<1>8. CASE ~s.rst /\ stage = "quiet"
  <2>1. CASE ConnectionKey \notin Recorded
    BY <1>3, <1>4, <1>6, <1>8, <2>1 DEF Passing
  <2>2. CASE ConnectionKey \in Recorded /\ ~SynAnswered
    BY <1>3, <1>4, <1>5, <1>6, <1>8, <2>2 DEF Passing
  <2>3. CASE ConnectionKey \in Recorded /\ SynAnswered
    BY <1>3, <1>4, <1>5, <1>6, <1>8, <2>3 DEF Passing
  <2> QED
    BY <2>1, <2>2, <2>3
<1>9. CASE ~s.rst /\ stage = "opened"
  BY <1>3, <1>4, <1>6, <1>9 DEF Passing
<1>10. CASE ~s.rst /\ stage = "over"
  <2>1. site.at = "client" \/ site.at = "server"
    BY Sides
  <2> QED
    BY <1>3, <1>4, <1>5, <1>6, <1>10, <2>1 DEF Passing
<1> QED
  BY <1>6, <1>7, <1>8, <1>9, <1>10

\* The tap sees s.
LEMMA TapObserved ==
  ASSUME TapInv, BesideInv, NetworkType, NetworkType', Streams', NEW s, Formed(s)',
         Passing(s), UNCHANGED site,
         NEW padded \in BOOLEAN, RecordPacket(Seen(FrameOf(s, padded), DataLink)), Note(s)
  PROVE  TapInv'
<1>1. /\ s \in Segment /\ s.from \in Side /\ s.msg \in Nat
      /\ s.msg <= host'[s.from].said /\ host'[s.from].said \in Nat
      /\ host'[s.from].said <= MaxMessages(s.from)
      /\ s.rst => s.msg = 0
  BY DEF Formed, Segment, Streams, NetworkType, HostState
<1>2. s.msg <= MaxMessages(s.from)
  BY <1>1, ConnectionAssumption DEF MaxMessages
<1>3. site.at \in Side
  BY ConnectionAssumption DEF NetworkType
<1>a. PICK p : p = PacketOf(s)
  OBVIOUS
<1>b. PICK c, d : Follows(c, d, p)
  BY <1>1, <1>2, <1>a, Recording DEF Passing
<1>4. (heard \in Seq(Data) /\ Tells(Queue, heard))'
  BY <1>1, <1>2, <1>a, <1>b, TellsStep
<1>5. /\ stage' \in {"quiet", "opened", "over"}
      /\ stage' = "quiet" =>
           State' = IF SynAnswered' THEN "SYN_RECEIVED" ELSE "SYN_SENT"
      /\ stage' = "opened" => State' = "ESTABLISHED"
      /\ stage' = "over" =>
           State' = "CLOSED" \/ (State' = "SYN_SENT" /\ site.at = "server")
      /\ stage' # "quiet" => Past'
      /\ host'[site.at].dead => stage' = "over"
  BY <1>1, <1>2, <1>3, <1>a, <1>b, StageStep
<1>6. ConnectionKey \in Recorded'
  BY <1>b, FollowedFrom
<1> QED
  BY <1>4, <1>5, <1>6 DEF TapInv

\* The tap sees nothing, and nothing happens where it is.
LEMMA TapElsewhere ==
  ASSUME TapInv, NetworkType, NetworkType', Grown, UNCHANGED <<vars, site, seen>>,
         host'[site.at] = host[site.at]
  PROVE  TapInv'
<1>1. /\ UNCHANGED <<site, stage, heard, conversations>>
      /\ Recorded' = Recorded
  BY DEF vars, seen, Recorded
<1>2. Queue' = Queue /\ State' = State
  BY <1>1 DEF Queue, State
<1>3. site.at = "client" \/ site.at = "server"
  BY ConnectionAssumption, Sides DEF NetworkType
<1>4. SynAnswered' <=> SynAnswered
  BY <1>1, <1>3 DEF SynAnswered
<1>5. Past => Past'
  BY <1>1, <1>3, PastStays
<1>6. (heard \in Seq(Data) /\ Tells(Queue, heard))'
  BY <1>1, <1>2 DEF TapInv
<1> QED
  BY <1>1, <1>2, <1>4, <1>5, <1>6 DEF TapInv

LEMMA TapInit == ConnectionInit => TapInv
<1> SUFFICES ASSUME ConnectionInit PROVE TapInv
  OBVIOUS
<1>1. /\ conversations = NoEntries /\ host = [h \in Side |-> IdleHost]
      /\ stage = "quiet" /\ heard = <<>> /\ site.at \in Side
  BY ConnectionAssumption DEF ConnectionInit
<1>2. ConnectionKey \notin Recorded
  BY <1>1 DEF Recorded, NoEntries
<1>3. State = "CLOSED" /\ Queue = <<>>
  BY <1>2 DEF State, Queue
<1>4. Tells(<<>>, <<>>)
  <2>1. Carried(<<>>) = {}
    BY DEF Carried
  <2> QED
    BY <2>1, FS_EmptySet DEF Tells
<1>5. ~host[site.at].dead
  BY <1>1 DEF IdleHost
<1> QED
  BY <1>1, <1>2, <1>3, <1>4, <1>5 DEF TapInv

LEMMA TapNext ==
  ASSUME TapInv, BesideInv, HandshakeInv, [ConnectionNext]_connvars
  PROVE  TapInv'
<1>0. NetworkType /\ HandshakeInv' /\ NetworkType' /\ Streams'
  BY HandshakeNext DEF HandshakeInv
<1>1. CASE UNCHANGED <<vars, site, host, seen>>
  BY <1>0, <1>1, HostStays, TapElsewhere
<1>2. ASSUME NEW h \in Side, NEW s, Emission(h, s) \/ Arrival(h, s)
      PROVE  TapInv'
  <2>1. /\ Grown /\ UNCHANGED site /\ Formed(s)' /\ Observe(h, s)
        /\ host'[Peer(h)] = host[Peer(h)]
    BY <1>2, ArrivalKeeps DEF Emission, Send, Arrival
  <2>2. CASE site.at = h
    <3>a. PICK padded \in BOOLEAN : padded = (s.from # h)
      OBVIOUS
    <3>1. RecordPacket(Seen(FrameOf(s, padded), DataLink)) /\ Note(s)
      BY <2>1, <2>2, <3>a, Zenon DEF Observe
    <3>2. Passing(s)
      BY <1>0, <1>2, <2>2, EmissionPasses, ArrivalPasses
    <3> QED
      BY <1>0, <2>1, <3>1, <3>2, TapObserved
  <2>3. CASE site.at # h
    <3>1. site.at = Peer(h)
      BY <1>0, <2>3, ConnectionAssumption, Sides DEF NetworkType
    <3>2. UNCHANGED <<vars, seen>>
      BY <2>1, <2>3, Zenon DEF Observe
    <3> QED
      BY <1>0, <2>1, <3>1, <3>2, TapElsewhere
  <2> QED
    BY <2>2, <2>3
<1> QED
  BY <1>1, <1>2, StepOfConnection

\* tcp_conversation.cc, beside either host and over any losses, reorderings,
\* retransmissions and resets: the script holds the data of both directions in
\* the order it passed the tap, once for each time it passed, from the segment
\* after the one that completes the handshake up to the first FIN or reset.
THEOREM ScriptAsHeard == ConnectionSpec => []ScriptIsWhatTheTapHeard
<1>1. ConnectionInit => TapInv
  BY TapInit
<1>2. TapInv /\ HandshakeInv /\ BesideInv /\ [ConnectionNext]_connvars => TapInv'
  BY TapNext
<1>3. TapInv => ScriptIsWhatTheTapHeard
  BY DEF TapInv, Tells, Carried, UpTo, ScriptIsWhatTheTapHeard, Carriers
<1> QED
  BY <1>1, <1>2, <1>3, BesideInvariant, PTL DEF ConnectionSpec

-----------------------------------------------------------------------------
(* The inductive invariant of the streams.                                 *)

\* A segment lies in the stream of its sender where the numbering has it, and
\* a FIN is the last unit of a stream that has ended.
Numbered(s) ==
  /\ s.msg > 0 => s.seq = s.msg + 1
  /\ s.fin => /\ host[s.from].fin
              /\ s.seq + Length(s) = host[s.from].said + 3

Numbering ==
  \A h \in Side :
     /\ host[h].sent <= host[h].said + (IF host[h].fin THEN 2 ELSE 1)
     /\ \A i \in 1 .. Len(channel[h]) : Numbered(channel[h][i])

\* The server answers what has arrived, and nothing arrives that was not said.
Answering ==
  /\ host["server"].said <= host["server"].answered
  /\ host["server"].answered <= host["client"].said

\* The server takes the messages of the client without a gap.
NoGap ==
  \/ host["server"].got <= host["server"].answered + 1
  \/ host["client"].fin /\ host["server"].got = host["client"].said + 2

StreamInv == Numbering /\ Answering /\ NoGap

-----------------------------------------------------------------------------
(* The inductive invariant of what the tap heard.                          *)

\* Message m of the client comes in q before the place i.
Before(q, m, i) == \E j \in 1 .. i - 1 : q[j] = Says("client", m)

\* The first n messages of the client are in q.
Holds(q, n) == \A m \in 1 .. n : Before(q, m, Len(q) + 1)

\* The responses come after their requests.
AnswersFollow(q) ==
  \A i \in 1 .. Len(q) : \A m \in Nat : q[i] = Says("server", m) => Before(q, m, i)

\* The requests, n at most, come one after another.
RequestsFollow(q, n) ==
  \A i \in 1 .. Len(q) : \A m \in Nat :
     q[i] = Says("client", m) => m <= n /\ \A k \in 1 .. m - 1 : Before(q, k, i)

\* The messages of the client that have passed the tap for certain: beside the
\* client what it said, beside the server what the server took.
Passed ==
  IF site.at = "client" THEN host["client"].said ELSE host["server"].answered

OrderInv ==
  /\ stage = "quiet" => heard = <<>> /\ Passed = 0
  /\ opener = 0 =>
       /\ stage = "opened" => Holds(heard, Passed)
       /\ AnswersFollow(heard)
       /\ site.at = "client" => RequestsFollow(heard, Passed)

-----------------------------------------------------------------------------
(* What a host sends, in its stream.                                       *)

\* h sends s and goes on as g: it repeats what it has said, or says the next
\* message, the server no more than it has been asked.
Speech(h, s, g) ==
  /\ s \in Segment /\ g \in HostState /\ s.from = h
  /\ g.got = host[h].got /\ g.answered = host[h].answered
  /\ s.msg <= g.said
  /\ s.msg > 0 => ~s.syn /\ ~s.rst /\ s.seq = s.msg + 1
  /\ \/ g.said = host[h].said
     \/ /\ g.said = host[h].said + 1 /\ s.msg = g.said /\ ~host[h].fin
        /\ h = "server" => g.said <= host[h].answered
  /\ host[h].fin => g.fin
  /\ g.sent <= g.said + (IF g.fin THEN 2 ELSE 1)
  /\ s.fin => g.fin /\ s.seq + Length(s) = g.said + 3

Speaks(h, s, g) == Speech(h, s, g) /\ Send(h, s) /\ host' = [host EXCEPT ![h] = g]

LEMMA PlaceInStream ==
  ASSUME NetworkType, NEW h \in Side, NEW n \in Nat, n >= 1, NEW fin \in BOOLEAN,
         NEW s, s = SegmentAt(h, n, fin)
  PROVE  /\ s.msg > 0 => s.seq = s.msg + 1 /\ ~s.syn
         /\ n = host[h].said + 1 => s.msg = host[h].said
         /\ s.fin <=> fin /\ n + 1 >= host[h].said + 2
<1>1. host[h].said \in Nat
  BY HostFields
<1>2. /\ s.syn = (n = 1) /\ s.seq = n
      /\ s.fin = (fin /\ n + 1 >= host[h].said + 2)
      /\ s.msg = IF n \in 2 .. host[h].said + 1 THEN n - 1 ELSE 0
  BY DEF SegmentAt
<1>3. s.fin <=> fin /\ n + 1 >= host[h].said + 2
  BY <1>2, Zenon
<1>4. s.syn <=> n = 1
  BY <1>2, Zenon
<1>5. s.msg > 0 => s.seq = s.msg + 1 /\ n # 1
  BY <1>1, <1>2
<1>6. n = host[h].said + 1 => s.msg = host[h].said
  BY <1>1, <1>2
<1> QED
  BY <1>3, <1>4, <1>5, <1>6

LEMMA OpenSpeaks ==
  ASSUME HandshakeInv, NEW h \in Side, Open(h)
  PROVE  \E s, g : Speaks(h, s, g)
<1>a. PICK s : s = Bare(h, 1)
  OBVIOUS
<1>b. PICK g : g = [host[h] EXCEPT !.sent = 1, !.owes = FALSE]
  OBVIOUS
<1>0. NetworkType
  BY DEF HandshakeInv
<1>1. s \in Segment /\ s.from = h /\ ~s.fin /\ s.msg = 0
  BY <1>a, <1>0, BareFacts
<1>2. Send(h, s) /\ host' = [host EXCEPT ![h] = g]
  BY <1>a, <1>b DEF Open, Bare
<1>3. /\ g \in HostState /\ g.sent = 1 /\ g.said = host[h].said /\ g.fin = host[h].fin
      /\ g.got = host[h].got /\ g.answered = host[h].answered
  BY <1>0, <1>b DEF NetworkType, HostState
<1>4. Speech(h, s, g)
  BY <1>0, <1>1, <1>3, HostFields DEF Speech
<1> QED
  BY <1>2, <1>4 DEF Speaks

LEMMA SaySpeaks ==
  ASSUME HandshakeInv, Numbering, NEW h \in Side, NEW fin \in BOOLEAN, Say(h, fin)
  PROVE  \E s, g : Speaks(h, s, g)
<1>m. PICK m : m = host[h].said + 1
  OBVIOUS
<1>a. PICK t : t = SegmentAt(h, m + 1, fin)
  OBVIOUS
<1>b. PICK s : s = [t EXCEPT !.msg = m]
  OBVIOUS
<1>n. PICK n : n = IF fin THEN 2 ELSE 1
  OBVIOUS
<1>c. PICK g : g = [host[h] EXCEPT !.said = m, !.fin = fin, !.owes = FALSE, !.sent = @ + n]
  OBVIOUS
<1>0. NetworkType
  BY DEF HandshakeInv
<1>1. /\ host[h].said \in Nat /\ host[h].sent \in Nat
      /\ m \in Nat /\ m >= 1 /\ m = host[h].said + 1
      /\ m + 1 \in Nat /\ m + 1 >= 1 /\ m + 1 # 1
  BY <1>0, <1>m, HostFields
<1>2. t \in Segment /\ t.from = h /\ t.seq = m + 1 /\ ~t.syn /\ ~t.rst
  BY <1>0, <1>1, <1>a, SegmentFacts
<1>3. t.fin <=> fin
  <2>1. t.fin <=> fin /\ m + 1 + 1 >= host[h].said + 2
    BY <1>0, <1>1, <1>a, PlaceInStream
  <2>2. m + 1 + 1 >= host[h].said + 2
    BY <1>1
  <2> QED
    BY <2>1, <2>2
<1>4. /\ s \in Segment /\ s.from = h /\ s.seq = m + 1
      /\ ~s.syn /\ ~s.rst /\ s.msg = m /\ (s.fin <=> fin)
  BY <1>1, <1>2, <1>3, <1>b DEF Segment
<1>5. /\ Send(h, s) /\ ~host[h].fin
      /\ h = "server" => m <= host[h].answered
      /\ host' = [host EXCEPT ![h] = g]
  BY <1>m, <1>n, <1>a, <1>b, <1>c, Zenon DEF Say
<1>6. /\ g \in HostState /\ g.said = m /\ g.fin = fin /\ g.sent = host[h].sent + n
      /\ g.got = host[h].got /\ g.answered = host[h].answered
  <2>1. host[h] \in HostState
    BY <1>0 DEF NetworkType
  <2>2. host[h].sent + n \in Nat
    BY <1>1, <1>n
  <2> QED
    BY <1>1, <2>1, <2>2, <1>c DEF HostState
<1>7. host[h].sent <= host[h].said + 1
  BY <1>5 DEF Numbering
<1>8. g.sent <= g.said + (IF g.fin THEN 2 ELSE 1)
  BY <1>1, <1>6, <1>7, <1>n
<1>9. s.fin => g.fin /\ s.seq + Length(s) = g.said + 3
  <2>1. s.fin => Length(s) = 2
    BY <1>1, <1>4 DEF Length
  <2> QED
    BY <1>1, <1>4, <1>6, <2>1
<1>10. Speech(h, s, g)
  BY <1>1, <1>4, <1>5, <1>6, <1>8, <1>9 DEF Speech
<1> QED
  BY <1>5, <1>10 DEF Speaks

LEMMA AcknowledgeSpeaks ==
  ASSUME HandshakeInv, Numbering, NEW h \in Side, Acknowledge(h)
  PROVE  \E s, g : Speaks(h, s, g)
<1>a. PICK s : s = Bare(h, host[h].sent + 1)
  OBVIOUS
<1>b. PICK g : g = [host[h] EXCEPT !.owes = FALSE]
  OBVIOUS
<1>0. NetworkType /\ Streams
  BY DEF HandshakeInv
<1>1. Send(h, s) /\ host[h].sent >= 1 /\ host' = [host EXCEPT ![h] = g]
  BY <1>a, <1>b DEF Acknowledge, Bare
<1>2. host[h].sent >= host[h].said + 1
  BY <1>0, <1>1 DEF Streams
<1>3. s \in Segment /\ s.from = h /\ ~s.fin /\ s.msg = 0
  <2> DEFINE n == host[h].sent + 1
  <2>1. n \in Nat /\ n >= 1 /\ n > host[h].said + 1
    BY <1>0, <1>1, <1>2, HostFields
  <2> HIDE DEF n
  <2> QED
    BY <1>0, <1>a, <2>1, BareFacts DEF n
<1>4. /\ g \in HostState /\ g.sent = host[h].sent /\ g.said = host[h].said
      /\ g.fin = host[h].fin /\ g.got = host[h].got /\ g.answered = host[h].answered
  BY <1>0, <1>b DEF NetworkType, HostState
<1>5. Speech(h, s, g)
  BY <1>0, <1>3, <1>4, HostFields DEF Speech, Numbering
<1> QED
  BY <1>1, <1>5 DEF Speaks

LEMMA ResetSpeaks ==
  ASSUME HandshakeInv, Numbering, NEW h \in Side, ResetConnection(h)
  PROVE  \E s, g : Speaks(h, s, g)
<1>a. PICK t : t = Bare(h, host[h].sent + 1)
  OBVIOUS
<1>b. PICK s : s = [t EXCEPT !.rst = TRUE]
  OBVIOUS
<1>c. PICK g : g = [host[h] EXCEPT !.dead = TRUE]
  OBVIOUS
<1>0. NetworkType /\ Streams
  BY DEF HandshakeInv
<1>1. Send(h, s) /\ Established(h) /\ host' = [host EXCEPT ![h] = g]
  BY <1>a, <1>b, <1>c DEF ResetConnection, Bare
<1>2. host[h].sent >= host[h].said + 1
  BY <1>0, <1>1, EstablishedSide DEF Streams
<1>3. t \in Segment /\ t.from = h /\ ~t.fin /\ t.msg = 0
  <2> DEFINE n == host[h].sent + 1
  <2>1. n \in Nat /\ n >= 1 /\ n > host[h].said + 1
    BY <1>0, <1>2, HostFields
  <2> HIDE DEF n
  <2> QED
    BY <1>0, <1>a, <2>1, BareFacts DEF n
<1>4. s \in Segment /\ s.from = h /\ ~s.fin /\ s.msg = 0
  BY <1>3, <1>b DEF Segment
<1>5. /\ g \in HostState /\ g.sent = host[h].sent /\ g.said = host[h].said
      /\ g.fin = host[h].fin /\ g.got = host[h].got /\ g.answered = host[h].answered
  BY <1>0, <1>c DEF NetworkType, HostState
<1>6. Speech(h, s, g)
  BY <1>0, <1>4, <1>5, HostFields DEF Speech, Numbering
<1> QED
  BY <1>1, <1>6 DEF Speaks

LEMMA FinishSpeaks ==
  ASSUME HandshakeInv, Numbering, NEW h \in Side, Finish(h)
  PROVE  \E s, g : Speaks(h, s, g)
<1>f. PICK fin \in BOOLEAN : fin = TRUE
  OBVIOUS
<1>n. PICK n : n = host[h].sent + 1
  OBVIOUS
<1>a. PICK s : s = SegmentAt(h, n, fin)
  OBVIOUS
<1>b. PICK g : g = [host[h] EXCEPT !.fin = fin, !.owes = FALSE, !.sent = @ + 1]
  OBVIOUS
<1>0. NetworkType /\ Streams
  BY DEF HandshakeInv
<1>1. /\ Send(h, s) /\ Established(h) /\ ~host[h].fin
      /\ host' = [host EXCEPT ![h] = g]
  BY <1>f, <1>n, <1>a, <1>b, Zenon DEF Finish
<1>2. host[h].sent >= 1 /\ host[h].sent >= host[h].said + 1
  BY <1>0, <1>1, EstablishedSide DEF Streams
<1>3. host[h].sent <= host[h].said + 1
  BY <1>1 DEF Numbering
<1>4. /\ n \in Nat /\ n >= 1 /\ n # 1 /\ n = host[h].said + 2
      /\ host[h].said \in Nat /\ host[h].sent \in Nat
  BY <1>0, <1>2, <1>3, <1>n, HostFields
<1>5. s \in Segment /\ s.from = h /\ s.seq = n /\ ~s.syn /\ s.msg = 0
  BY <1>0, <1>4, <1>a, SegmentFacts
<1>6. Length(s) = IF s.fin THEN 1 ELSE 0
  BY <1>5 DEF Length
<1>7. g \in HostState /\ g.fin /\ g.sent = host[h].sent + 1 /\ g.said = host[h].said
      /\ g.got = host[h].got /\ g.answered = host[h].answered
  <2>1. host[h] \in HostState /\ host[h].sent + 1 \in Nat
    BY <1>0, <1>4 DEF NetworkType
  <2>2. g \in HostState /\ g.fin = fin /\ g.sent = host[h].sent + 1
        /\ g.said = host[h].said /\ g.got = host[h].got /\ g.answered = host[h].answered
    BY <1>b, <2>1 DEF HostState
  <2> QED
    BY <1>f, <2>2
<1>8. g.sent <= g.said + (IF g.fin THEN 2 ELSE 1)
  BY <1>3, <1>4, <1>7
<1>9. s.fin => g.fin /\ s.seq + Length(s) = g.said + 3
  BY <1>4, <1>5, <1>6, <1>7
<1>10. Speech(h, s, g)
  BY <1>4, <1>5, <1>7, <1>8, <1>9 DEF Speech
<1> QED
  BY <1>1, <1>10 DEF Speaks

LEMMA RetransmitSpeaks ==
  ASSUME HandshakeInv, Numbering, NEW h \in Side, Retransmit(h)
  PROVE  \E s, g : Speaks(h, s, g)
<1>n. PICK n : n = host[h].acked + 1
  OBVIOUS
<1>f. PICK fin : fin = host[h].fin
  OBVIOUS
<1>a. PICK s : s = SegmentAt(h, n, fin)
  OBVIOUS
<1>b. PICK g : g = [host[h] EXCEPT !.owes = FALSE]
  OBVIOUS
<1>0. NetworkType /\ Streams
  BY DEF HandshakeInv
<1>1. Send(h, s) /\ host[h].acked < host[h].sent /\ host' = [host EXCEPT ![h] = g]
  BY <1>n, <1>f, <1>a, <1>b DEF Retransmit
<1>2. /\ host[h].said \in Nat /\ host[h].acked \in Nat /\ host[h].sent \in Nat
      /\ fin \in BOOLEAN /\ n \in Nat /\ n >= 1 /\ n <= host[h].sent
  BY <1>0, <1>1, <1>n, <1>f, HostFields
<1>3. /\ s \in Segment /\ s.from = h /\ s.seq = n /\ (s.syn <=> n = 1) /\ ~s.rst
      /\ s.msg <= host[h].said
      /\ n > host[h].said + 1 => s.msg = 0
  BY <1>0, <1>2, <1>a, SegmentFacts
<1>4. /\ s.msg > 0 => s.seq = s.msg + 1 /\ ~s.syn
      /\ n = host[h].said + 1 => s.msg = host[h].said
      /\ s.fin <=> fin /\ n + 1 >= host[h].said + 2
  BY <1>0, <1>2, <1>a, PlaceInStream
<1>5. /\ g \in HostState /\ g.sent = host[h].sent /\ g.said = host[h].said
      /\ g.fin = host[h].fin /\ g.got = host[h].got /\ g.answered = host[h].answered
  BY <1>0, <1>b DEF NetworkType, HostState
<1>6. host[h].sent <= host[h].said + (IF host[h].fin THEN 2 ELSE 1)
  BY DEF Numbering
<1>7. ASSUME s.fin
      PROVE  g.fin /\ s.seq + Length(s) = g.said + 3
  <2>1. host[h].fin /\ n >= 2
    BY <1>0, <1>2, <1>4, <1>7, <1>f, <1>n DEF Streams
  <2>2. n = host[h].said + 1 \/ n = host[h].said + 2
    BY <1>2, <1>4, <1>6, <1>7, <2>1
  <2>3. CASE n = host[h].said + 1
    <3>1. s.msg > 0 /\ ~s.syn
      BY <1>2, <1>3, <1>4, <2>1, <2>3
    <3>2. Length(s) = 2
      BY <1>7, <3>1 DEF Length
    <3> QED
      BY <1>2, <1>3, <1>5, <2>1, <2>3, <3>2
  <2>4. CASE n = host[h].said + 2
    <3>1. s.msg = 0 /\ ~s.syn
      BY <1>2, <1>3, <2>1, <2>4
    <3>2. Length(s) = 1
      BY <1>7, <3>1 DEF Length
    <3> QED
      BY <1>2, <1>3, <1>5, <2>1, <2>4, <3>2
  <2> QED
    BY <2>2, <2>3, <2>4
<1>8. Speech(h, s, g)
  BY <1>2, <1>3, <1>4, <1>5, <1>6, <1>7 DEF Speech
<1> QED
  BY <1>1, <1>8 DEF Speaks

-----------------------------------------------------------------------------
(* What a host takes from the stream of the other.                         *)

\* h takes s and goes on as g: nothing new, or the units that come next.
Taking(h, s, g) ==
  /\ g \in HostState
  /\ g.sent = host[h].sent /\ g.said = host[h].said /\ g.fin = host[h].fin
  /\ \/ g.got = host[h].got /\ g.answered = host[h].answered
     \/ /\ s.seq <= host[h].got + 1 /\ g.got = s.seq + Length(s) - 1
        /\ g.got > host[h].got
        /\ g.answered = IF s.msg > host[h].answered THEN s.msg ELSE host[h].answered

Takes(h, s, g) ==
  /\ Taking(h, s, g) /\ host' = [host EXCEPT ![h] = g]
  /\ channel[h] # <<>> /\ s = channel[h][1] /\ s.from = Peer(h) /\ Formed(s)
  /\ channel' = [channel EXCEPT ![h] = Tail(channel[h])]
  /\ Observe(h, s) /\ UNCHANGED site

LEMMA DeliverTakes ==
  ASSUME HandshakeInv, NEW h \in Side, Deliver(h)
  PROVE  \E s, g : Takes(h, s, g)
<1>a. PICK s : s = Head(channel[h])
  OBVIOUS
<1>0. NetworkType /\ UnderWay
  BY DEF HandshakeInv
<1>b. PICK last : last = s.seq + Length(s) - 1
  OBVIOUS
<1>c. PICK me : me = host[h]
  OBVIOUS
<1>d. PICK acked : acked = IF s.ack > me.acked THEN s.ack ELSE me.acked
  OBVIOUS
<1>e. PICK got : got = IF s.seq <= me.got + 1 /\ last > me.got THEN last ELSE me.got
  OBVIOUS
<1>f. PICK answered : answered = IF /\ s.seq <= me.got + 1 /\ last > me.got
                                    /\ s.msg > me.answered
                                 THEN s.msg ELSE me.answered
  OBVIOUS
<1>g. PICK g : g = IF me.dead \/ s.rst THEN [me EXCEPT !.dead = TRUE]
                   ELSE [me EXCEPT !.acked = acked, !.got = got, !.answered = answered,
                                   !.owes = @ \/ Length(s) > 0]
  OBVIOUS
<1>1. /\ channel[h] # <<>> /\ Observe(h, s)
      /\ channel' = [channel EXCEPT ![h] = Tail(channel[h])] /\ UNCHANGED site
      /\ host' = [host EXCEPT ![h] = g]
  <2>1. host' = [host EXCEPT ![h] =
                   IF me.dead \/ s.rst THEN [me EXCEPT !.dead = TRUE]
                   ELSE [me EXCEPT !.acked = acked, !.got = got, !.answered = answered,
                                   !.owes = @ \/ Length(s) > 0]]
    BY <1>a, <1>b, <1>c, <1>d, <1>e, <1>f DEF Deliver
  <2>2. host' = [host EXCEPT ![h] = g]
    BY <1>g, <2>1, Zenon
  <2> QED
    BY <1>a, <2>2 DEF Deliver
<1>2. s = channel[h][1] /\ s.from = Peer(h) /\ Formed(s)
  <2>1. channel[h] \in Seq(Segment)
    BY <1>0 DEF NetworkType
  <2>2. 1 \in 1 .. Len(channel[h]) /\ s = channel[h][1]
    BY <1>1, <1>a, <2>1
  <2> QED
    BY <1>0, <2>2, Zenon DEF UnderWay
<1>3. /\ me \in HostState
      /\ s.seq \in Nat /\ s.seq >= 1 /\ s.ack \in Nat /\ s.msg \in Nat
      /\ Length(s) \in Nat /\ last \in Int
      /\ me.acked \in Nat /\ me.got \in Nat /\ me.answered \in Nat
  <2>1. s.seq \in Nat /\ s.seq >= 1 /\ s.ack \in Nat /\ s.msg \in Nat
    BY <1>2 DEF Formed, Segment
  <2>2. Length(s) \in Nat
    BY DEF Length
  <2>3. me \in HostState
    BY <1>0, <1>c DEF NetworkType
  <2> QED
    BY <1>b, <2>1, <2>2, <2>3 DEF HostState
<1>4. acked \in Nat /\ got \in Nat /\ answered \in Nat
  BY <1>3, <1>b, <1>d, <1>e, <1>f
<1>5. \/ got = me.got /\ answered = me.answered
      \/ /\ s.seq <= me.got + 1 /\ got = last /\ got > me.got
         /\ answered = IF s.msg > me.answered THEN s.msg ELSE me.answered
  BY <1>3, <1>e, <1>f
<1>6. /\ g \in HostState
      /\ g.sent = me.sent /\ g.said = me.said /\ g.fin = me.fin
      /\ \/ g.got = me.got /\ g.answered = me.answered
         \/ g.got = got /\ g.answered = answered
  <2>1. CASE me.dead \/ s.rst
    BY <1>3, <1>g, <2>1 DEF HostState
  <2>2. CASE ~(me.dead \/ s.rst)
    <3>1. g = [me EXCEPT !.acked = acked, !.got = got, !.answered = answered,
                         !.owes = @ \/ Length(s) > 0]
      BY <1>g, <2>2, Zenon
    <3>2. (me.owes \/ Length(s) > 0) \in BOOLEAN
      OBVIOUS
    <3> QED
      BY <1>3, <1>4, <3>1, <3>2 DEF HostState
  <2> QED
    BY <2>1, <2>2
<1>7. Taking(h, s, g)
  BY <1>5, <1>6, <1>b, <1>c, Zenon DEF Taking
<1> QED
  BY <1>1, <1>2, <1>7, Zenon DEF Takes

-----------------------------------------------------------------------------
(* The invariant of the streams is kept.                                   *)

\* A stream that has ended stays as it is.
Ended ==
  \A h \in Side : host[h].fin => host'[h].fin /\ host'[h].said = host[h].said

LEMMA NumberedStays ==
  ASSUME Ended, NEW s \in Segment, Numbered(s)
  PROVE  Numbered(s)'
<1>1. s.from \in Side
  BY DEF Segment
<1> QED
  BY <1>1 DEF Ended, Numbered

LEMMA NumberingStep ==
  ASSUME NetworkType, Numbering, NEW h \in Side, NEW r \in Seq(Segment),
         channel' = [channel EXCEPT ![h] = r], NEW s, Numbered(s)',
         FromOr(r, channel[h], s), Ended,
         \A k \in Side :
            host'[k].sent <= host'[k].said + (IF host'[k].fin THEN 2 ELSE 1)
  PROVE  Numbering'
<1>1. channel'[h] = r /\ \A k \in Side : k # h => channel'[k] = channel[k]
  BY DEF NetworkType
<1>2. ASSUME NEW k \in Side, NEW i \in 1 .. Len(channel[k]), NEW t, t = channel[k][i]
      PROVE  Numbered(t)'
  <2>1. t \in Segment
    BY <1>2 DEF NetworkType
  <2>2. Numbered(t)
    BY <1>2, Zenon DEF Numbering
  <2> QED
    BY <2>1, <2>2, NumberedStays
<1>3. ASSUME NEW k \in Side, NEW i \in 1 .. Len(channel'[k]), NEW t, t = channel'[k][i]
      PROVE  Numbered(t)'
  <2>1. CASE k = h
    <3>1. t = s \/ \E j \in 1 .. Len(channel[h]) : t = channel[h][j]
      BY <1>1, <1>3, <2>1 DEF FromOr
    <3> QED
      BY <1>2, <2>1, <3>1
  <2>2. CASE k # h
    BY <1>1, <1>2, <1>3, <2>2
  <2> QED
    BY <2>1, <2>2
<1> QED
  BY <1>3, Zenon DEF Numbering

\* The state of one side replaced.
LEMMA Replaced ==
  ASSUME NetworkType, NEW h \in Side, NEW g, host' = [host EXCEPT ![h] = g]
  PROVE  host'[h] = g /\ \A k \in Side : k # h => host'[k] = host[k]
BY DEF NetworkType

LEMMA SpeechKeepsStreams ==
  ASSUME HandshakeInv, StreamInv, NEW h \in Side, NEW s, NEW g, Speaks(h, s, g)
  PROVE  StreamInv'
<1>0. NetworkType /\ Numbering /\ Answering /\ NoGap
  BY DEF HandshakeInv, StreamInv
<1>1. Speech(h, s, g) /\ host' = [host EXCEPT ![h] = g]
  BY DEF Speaks
<1>2. /\ host'[h] = g /\ s \in Segment /\ g \in HostState /\ s.from = h
      /\ \A k \in Side : k # h => host'[k] = host[k]
  BY <1>0, <1>1, Replaced DEF Speech
<1>3. /\ g.said \in Nat /\ g.sent \in Nat /\ s.msg \in Nat /\ s.seq \in Nat
      /\ host[h].said \in Nat
  BY <1>0, <1>2, HostFields DEF HostState, Segment
<1>4. Numbering'
  <2>a. PICK r : r = Append(channel[Peer(h)], s)
    OBVIOUS
  <2>1. channel' = [channel EXCEPT ![Peer(h)] = r]
    BY <2>a, Zenon DEF Speaks, Send
  <2>2. Peer(h) \in Side /\ channel[Peer(h)] \in Seq(Segment)
    BY <1>0, Sides DEF NetworkType
  <2>3. r \in Seq(Segment) /\ FromOr(r, channel[Peer(h)], s)
    BY <1>2, <2>2, <2>a, AppendedElements, Zenon
  <2>4. Ended
    <3> SUFFICES ASSUME NEW k \in Side, host[k].fin
                 PROVE  host'[k].fin /\ host'[k].said = host[k].said
      BY DEF Ended
    <3>1. CASE k = h
      BY <1>1, <1>2, <3>1 DEF Speech
    <3>2. CASE k # h
      BY <1>2, <3>2
    <3> QED
      BY <3>1, <3>2
  <2>5. Numbered(s)'
    BY <1>1, <1>2 DEF Speech, Numbered
  <2>6. ASSUME NEW k \in Side
        PROVE  host'[k].sent <= host'[k].said + (IF host'[k].fin THEN 2 ELSE 1)
    <3>1. CASE k = h
      BY <1>1, <1>2, <3>1 DEF Speech
    <3>2. CASE k # h
      BY <1>0, <1>2, <3>2 DEF Numbering
    <3> QED
      BY <3>1, <3>2
  <2> QED
    BY <1>0, <2>1, <2>2, <2>3, <2>4, <2>5, <2>6, NumberingStep, Zenon
<1>n. /\ host["client"].said \in Nat /\ host["server"].said \in Nat
      /\ host["server"].answered \in Nat /\ host["server"].got \in Nat
  BY <1>0, HostFields, Sides
<1>5. CASE h = "client"
  <2>1. host'["client"] = g /\ host'["server"] = host["server"]
    BY <1>2, <1>5, Sides
  <2>2. /\ g.said >= host["client"].said
        /\ host["client"].fin => g.fin /\ g.said = host["client"].said
    BY <1>1, <1>3, <1>5 DEF Speech
  <2>3. Answering' /\ NoGap'
    BY <1>0, <1>3, <1>n, <2>1, <2>2 DEF Answering, NoGap
  <2> QED
    BY <1>4, <2>3 DEF StreamInv
<1>6. CASE h = "server"
  <2>1. host'["server"] = g /\ host'["client"] = host["client"]
    BY <1>2, <1>6, Sides
  <2>2. /\ g.said = host["server"].said \/ g.said <= host["server"].answered
        /\ g.got = host["server"].got /\ g.answered = host["server"].answered
    BY <1>1, <1>6 DEF Speech
  <2>3. Answering' /\ NoGap'
    BY <1>0, <2>1, <2>2 DEF Answering, NoGap
  <2> QED
    BY <1>4, <2>3 DEF StreamInv
<1> QED
  BY <1>5, <1>6, Sides

\* What the server takes of the client's stream follows what it has.
LEMMA ServerTakes ==
  ASSUME HandshakeInv, StreamInv, NEW s, NEW g, Takes("server", s, g)
  PROVE  /\ g.answered >= host["server"].answered
         /\ g.answered <= host["client"].said
         /\ \/ g.answered = host["server"].answered
            \/ g.answered = host["server"].answered + 1 /\ g.answered = s.msg
         /\ \/ g.got <= g.answered + 1
            \/ host["client"].fin /\ g.got = host["client"].said + 2
<1>0. NetworkType /\ Numbering /\ Answering /\ NoGap
  BY DEF HandshakeInv, StreamInv
<1>a. PICK got : got = host["server"].got
  OBVIOUS
<1>b. PICK answered : answered = host["server"].answered
  OBVIOUS
<1>c. PICK said : said = host["client"].said
  OBVIOUS
<1>1. Taking("server", s, g) /\ s.from = "client" /\ Formed(s)
  BY Sides DEF Takes
<1>2. /\ got \in Nat /\ answered \in Nat /\ said \in Nat
      /\ answered <= said
      /\ got <= answered + 1 \/ (host["client"].fin /\ got = said + 2)
  BY <1>0, <1>a, <1>b, <1>c, HostFields, Sides DEF Answering, NoGap
<1>3. /\ s.msg \in Nat /\ s.seq \in Nat /\ s.seq >= 1 /\ s.msg <= said
      /\ s.syn <=> s.seq = 1
      /\ s.syn => s.msg = 0 /\ ~s.fin
  BY <1>1, <1>c DEF Formed, Segment
<1>4. Numbered(s)
  <2>1. channel["server"] \in Seq(Segment) /\ channel["server"] # <<>>
    BY <1>0, Sides DEF NetworkType, Takes
  <2>2. 1 \in 1 .. Len(channel["server"]) /\ s = channel["server"][1]
    BY <2>1 DEF Takes
  <2> QED
    BY <1>0, <2>2, Sides, Zenon DEF Numbering
<1>5. /\ s.msg > 0 => s.seq = s.msg + 1
      /\ s.fin => host["client"].fin /\ s.seq + Length(s) = said + 3
  BY <1>1, <1>4, <1>c DEF Numbered
<1>6. /\ Length(s) \in Nat
      /\ Length(s) = (IF s.syn THEN 1 ELSE 0) + (IF s.msg > 0 THEN 1 ELSE 0)
                                              + (IF s.fin THEN 1 ELSE 0)
  BY DEF Length
<1>7. \/ g.got = got /\ g.answered = answered
      \/ /\ s.seq <= got + 1 /\ g.got = s.seq + Length(s) - 1 /\ g.got > got
         /\ g.answered = IF s.msg > answered THEN s.msg ELSE answered
  BY <1>1, <1>a, <1>b DEF Taking
<1>8. CASE g.got = got /\ g.answered = answered
  BY <1>2, <1>8, <1>a, <1>b, <1>c
<1>9. CASE /\ s.seq <= got + 1 /\ g.got = s.seq + Length(s) - 1 /\ g.got > got
           /\ g.answered = IF s.msg > answered THEN s.msg ELSE answered
  <2>1. CASE s.fin
    <3>1. g.got = said + 2 /\ host["client"].fin
      BY <1>2, <1>3, <1>5, <1>6, <1>9, <2>1
    <3>2. got <= answered + 1
      BY <1>2, <1>9, <3>1
    <3>3. s.msg > 0 => s.msg <= answered + 1
      BY <1>2, <1>3, <1>5, <1>9, <3>2
    <3> QED
      BY <1>2, <1>3, <1>9, <1>a, <1>b, <1>c, <3>1, <3>3
  <2>2. CASE ~s.fin /\ s.msg > 0
    <3>1. ~s.syn /\ Length(s) = 1
      BY <1>3, <1>6, <2>2
    <3>2. g.got = s.msg + 1 /\ s.msg <= got
      BY <1>2, <1>3, <1>5, <1>9, <2>2, <3>1
    <3>3. got <= answered + 1
      BY <1>2, <1>3, <1>9, <3>2
    <3>4. s.msg <= answered + 1
      BY <1>2, <1>3, <3>2, <3>3
    <3> QED
      BY <1>2, <1>3, <1>9, <1>a, <1>b, <1>c, <2>2, <3>2, <3>4
  <2>3. CASE ~s.fin /\ s.msg = 0
    <3>1. s.syn
      BY <1>2, <1>3, <1>6, <1>9, <2>3
    <3>2. g.got = 1
      BY <1>3, <1>6, <1>9, <2>3, <3>1
    <3> QED
      BY <1>2, <1>3, <1>9, <1>a, <1>b, <1>c, <2>3, <3>2
  <2> QED
    BY <1>3, <2>1, <2>2, <2>3
<1> QED
  BY <1>7, <1>8, <1>9

LEMMA TakingKeepsStreams ==
  ASSUME HandshakeInv, StreamInv, NEW h \in Side, NEW s, NEW g, Takes(h, s, g)
  PROVE  StreamInv'
<1>0. NetworkType /\ Numbering /\ Answering /\ NoGap
  BY DEF HandshakeInv, StreamInv
<1>1. Taking(h, s, g) /\ host' = [host EXCEPT ![h] = g]
  BY DEF Takes
<1>2. /\ host'[h] = g
      /\ g.sent = host[h].sent /\ g.said = host[h].said /\ g.fin = host[h].fin
      /\ \A k \in Side : k # h => host'[k] = host[k]
  BY <1>0, <1>1, Replaced DEF Taking
<1>3. Numbering'
  <2>a. PICK r : r = Tail(channel[h])
    OBVIOUS
  <2>1. /\ channel' = [channel EXCEPT ![h] = r]
        /\ channel[h] # <<>> /\ s = channel[h][1] /\ channel[h] \in Seq(Segment)
    BY <1>0, <2>a, Zenon DEF Takes, NetworkType
  <2>2. r \in Seq(Segment) /\ FromOr(r, channel[h], s)
    BY <2>1, <2>a, TailElements, Zenon
  <2>3. \A k \in Side : /\ host'[k].said = host[k].said /\ host'[k].fin = host[k].fin
                        /\ host'[k].sent = host[k].sent
    BY <1>2
  <2>4. Ended
    BY <2>3 DEF Ended
  <2>5. Numbered(s)'
    <3>1. 1 \in 1 .. Len(channel[h])
      BY <2>1
    <3>2. Numbered(s)
      BY <1>0, <2>1, <3>1, Zenon DEF Numbering
    <3>3. s \in Segment
      BY <2>1, <3>1
    <3> QED
      BY <2>4, <3>2, <3>3, NumberedStays
  <2>6. \A k \in Side :
           host'[k].sent <= host'[k].said + (IF host'[k].fin THEN 2 ELSE 1)
    BY <1>0, <2>3 DEF Numbering
  <2> QED
    BY <1>0, <2>1, <2>2, <2>4, <2>5, <2>6, NumberingStep, Zenon
<1>n. /\ host["client"].said \in Nat /\ host["server"].said \in Nat
      /\ host["server"].answered \in Nat /\ host["server"].got \in Nat
  BY <1>0, HostFields, Sides
<1>4. CASE h = "client"
  <2>1. /\ host'["server"] = host["server"] /\ host'["client"] = g
        /\ g.said = host["client"].said /\ g.fin = host["client"].fin
    BY <1>2, <1>4, Sides
  <2>2. Answering' /\ NoGap'
    BY <1>0, <2>1 DEF Answering, NoGap
  <2> QED
    BY <1>3, <2>2 DEF StreamInv
<1>5. CASE h = "server"
  <2>1. /\ host'["client"] = host["client"] /\ host'["server"] = g
        /\ g.said = host["server"].said /\ g.answered \in Nat
    BY <1>1, <1>2, <1>5, Sides DEF Taking, HostState
  <2>2. /\ g.answered >= host["server"].answered
        /\ g.answered <= host["client"].said
        /\ \/ g.got <= g.answered + 1
           \/ host["client"].fin /\ g.got = host["client"].said + 2
    BY <1>5, ServerTakes
  <2>3. Answering' /\ NoGap'
    BY <1>0, <1>n, <2>1, <2>2 DEF Answering, NoGap
  <2> QED
    BY <1>3, <2>3 DEF StreamInv
<1> QED
  BY <1>4, <1>5, Sides

\* What a step does to the streams.
LEMMA StepOfStreams ==
  ASSUME HandshakeInv, StreamInv, [ConnectionNext]_connvars
  PROVE  /\ StreamInv'
         /\ \/ UNCHANGED <<vars, site, host, seen>>
            \/ \E h \in Side : \E s, g : Speaks(h, s, g) \/ Takes(h, s, g)
<1>0. NetworkType /\ Numbering /\ Answering /\ NoGap
  BY DEF HandshakeInv, StreamInv
<1>1. CASE UNCHANGED connvars
  <2>1. UNCHANGED <<vars, site, host, seen, channel>>
    BY <1>1 DEF connvars, network
  <2>2. Numbering'
    BY <1>0, <2>1 DEF StreamInv, Numbering, Numbered
  <2>3. Answering' /\ NoGap'
    BY <1>0, <2>1 DEF StreamInv, Answering, NoGap
  <2> QED
    BY <2>1, <2>2, <2>3 DEF StreamInv
<1>2. ASSUME NEW h \in Side,
             \/ Open(h)
             \/ \E fin \in BOOLEAN : Say(h, fin)
             \/ Finish(h) \/ Acknowledge(h) \/ Retransmit(h) \/ ResetConnection(h)
      PROVE  \E s, g : Speaks(h, s, g)
  BY <1>0, <1>2, OpenSpeaks, SaySpeaks, FinishSpeaks, AcknowledgeSpeaks, RetransmitSpeaks,
     ResetSpeaks
<1>3. ASSUME NEW h \in Side, Lose(h) \/ Overtake(h)
      PROVE  StreamInv' /\ UNCHANGED <<vars, site, host, seen>>
  <2>1. UNCHANGED <<vars, site, host, seen>>
    BY <1>3, FaultKeeps
  <2>a. PICK s : s = channel[h][1]
    OBVIOUS
  <2>2. 1 \in 1 .. Len(channel[h])
    BY <1>0, <1>3, <2>a, FaultChannel
  <2>3. PICK r : /\ channel' = [channel EXCEPT ![h] = r]
                 /\ r \in Seq(Segment) /\ FromOr(r, channel[h], s)
    BY <1>0, <1>3, <2>a, FaultChannel
  <2>4. Ended
    BY <2>1 DEF Ended
  <2>5. Numbered(s)'
    <3>1. Numbered(s)
      BY <1>0, <2>2, <2>a, Zenon DEF Numbering
    <3> QED
      BY <2>1, <3>1 DEF Numbered
  <2>6. \A k \in Side :
           host'[k].sent <= host'[k].said + (IF host'[k].fin THEN 2 ELSE 1)
    BY <1>0, <2>1 DEF Numbering
  <2>7. Numbering'
    BY <1>0, <2>3, <2>4, <2>5, <2>6, NumberingStep, Zenon
  <2>8. Answering' /\ NoGap'
    BY <1>0, <2>1 DEF Answering, NoGap
  <2> QED
    BY <2>1, <2>7, <2>8 DEF StreamInv
<1>4. ASSUME NEW h \in Side, NEW s, NEW g, Speaks(h, s, g) \/ Takes(h, s, g)
      PROVE  StreamInv'
  BY <1>4, SpeechKeepsStreams, TakingKeepsStreams
<1> QED
  BY <1>1, <1>2, <1>3, <1>4, DeliverTakes DEF ConnectionNext

LEMMA StreamInit == ConnectionInit => StreamInv
<1> SUFFICES ASSUME ConnectionInit PROVE StreamInv
  OBVIOUS
<1>1. \A h \in Side : host[h] = IdleHost /\ channel[h] = <<>>
  BY DEF ConnectionInit
<1>2. /\ IdleHost.said = 0 /\ IdleHost.sent = 0 /\ ~IdleHost.fin
      /\ IdleHost.got = 0 /\ IdleHost.answered = 0
  BY DEF IdleHost
<1>3. Numbering
  BY <1>1, <1>2 DEF Numbering
<1>4. Answering /\ NoGap
  BY <1>1, <1>2, Sides DEF Answering, NoGap
<1> QED
  BY <1>3, <1>4 DEF StreamInv

-----------------------------------------------------------------------------
(* The invariant of what the tap heard is kept.                            *)

LEMMA SaysOnce ==
  ASSUME NEW h \in Side, NEW k \in Side, NEW m, NEW n, Says(h, m) = Says(k, n)
  PROVE  h = k /\ m = n
<1>1. At(h) = At(k) /\ m = n
  BY DEF Says
<1>2. h = k
  BY <1>1, Words, Sides
<1> QED
  BY <1>1, <1>2

\* The tap hears message m of h after q; k messages of the client have passed
\* it then, and n before.
Hearing(q, h, m, n, k) ==
  /\ q \in Seq(Data) /\ h \in Side /\ m \in Nat \ {0} /\ Says(h, m) \in Data
  /\ n \in Nat /\ k \in Nat
  /\ k = n \/ (k = n + 1 /\ h = "client" /\ m = k)
  /\ h = "server" => m <= n
  /\ Holds(q, n) /\ AnswersFollow(q)

LEMMA HeardMore ==
  ASSUME NEW q, NEW h, NEW m, NEW n, NEW k, Hearing(q, h, m, n, k),
         NEW r, r = Append(q, Says(h, m))
  PROVE  /\ Holds(r, k) /\ AnswersFollow(r)
         /\ (RequestsFollow(q, n) /\ m <= k) => RequestsFollow(r, k)
<1>   /\ q \in Seq(Data) /\ h \in Side /\ m \in Nat /\ Says(h, m) \in Data
      /\ n \in Nat /\ k \in Nat
      /\ k = n \/ (k = n + 1 /\ h = "client" /\ m = k)
      /\ h = "server" => 1 <= m /\ m <= n
      /\ Holds(q, n) /\ AnswersFollow(q)
  BY DEF Hearing
<1>a. PICK x : x = Says(h, m)
  OBVIOUS
<1>1. /\ Len(r) = Len(q) + 1 /\ Len(q) \in Nat /\ r[Len(q) + 1] = x
      /\ \A i \in 1 .. Len(q) : r[i] = q[i]
  BY <1>a, AppendElements
<1>2. \A i \in 1 .. Len(r) : i \in 1 .. Len(q) \/ i = Len(q) + 1
  BY <1>1
<1>3. ASSUME NEW i \in 1 .. Len(q) + 1, NEW l, Before(q, l, i)
      PROVE  Before(r, l, i)
  <2>1. PICK j \in 1 .. i - 1 : q[j] = Says("client", l)
    BY <1>3 DEF Before
  <2>2. j \in 1 .. Len(q)
    BY <1>1, <1>3
  <2>3. r[j] = Says("client", l)
    BY <1>1, <2>1, <2>2
  <2> QED
    BY <2>3 DEF Before
<1>4. Len(q) + 1 \in 1 .. Len(q) + 1 /\ \A i \in 1 .. Len(q) : i \in 1 .. Len(q) + 1
  BY <1>1
<1>5. Holds(r, k)
  <2> SUFFICES ASSUME NEW l \in 1 .. k PROVE Before(r, l, Len(r) + 1)
    BY DEF Holds
  <2>1. l \in 1 .. n \/ (l = m /\ h = "client")
    OBVIOUS
  <2>2. ASSUME NEW j \in 1 .. Len(r), r[j] = Says("client", l)
        PROVE  Before(r, l, Len(r) + 1)
    <3>1. j \in 1 .. Len(r) + 1 - 1
      BY <1>1, <2>2
    <3> QED
      BY <2>2, <3>1 DEF Before
  <2>3. CASE l \in 1 .. n
    <3>1. Before(q, l, Len(q) + 1)
      BY <2>3 DEF Holds
    <3>2. PICK j \in 1 .. Len(q) + 1 - 1 : q[j] = Says("client", l)
      BY <3>1 DEF Before
    <3>3. j \in 1 .. Len(q) /\ j \in 1 .. Len(r)
      BY <1>1
    <3> QED
      BY <1>1, <2>2, <3>2, <3>3
  <2>4. CASE l = m /\ h = "client"
    <3>1. Len(q) + 1 \in 1 .. Len(r) /\ r[Len(q) + 1] = Says("client", l)
      BY <1>1, <1>a, <2>4
    <3> QED
      BY <2>2, <3>1
  <2> QED
    BY <2>1, <2>3, <2>4
<1>6. AnswersFollow(r)
  <2> SUFFICES ASSUME NEW i \in 1 .. Len(r), NEW l \in Nat, r[i] = Says("server", l)
               PROVE  Before(r, l, i)
    BY DEF AnswersFollow
  <2>1. CASE i \in 1 .. Len(q)
    <3>1. Before(q, l, i)
      BY <1>1, <2>1 DEF AnswersFollow
    <3> QED
      BY <1>3, <1>4, <2>1, <3>1
  <2>2. CASE i = Len(q) + 1
    <3>1. h = "server" /\ m = l
      BY <1>1, <1>a, <2>2, SaysOnce, Sides
    <3>2. l \in 1 .. n
      BY <3>1
    <3>3. Before(q, l, i)
      BY <2>2, <3>2 DEF Holds
    <3> QED
      BY <1>3, <1>4, <2>2, <3>3
  <2> QED
    BY <1>2, <2>1, <2>2
<1>7. ASSUME RequestsFollow(q, n), m <= k
      PROVE  RequestsFollow(r, k)
  <2> SUFFICES ASSUME NEW i \in 1 .. Len(r), NEW l \in Nat, r[i] = Says("client", l)
               PROVE  l <= k /\ \A b \in 1 .. l - 1 : Before(r, b, i)
    BY DEF RequestsFollow
  <2>1. CASE i \in 1 .. Len(q)
    <3>1. l <= n /\ \A b \in 1 .. l - 1 : Before(q, b, i)
      BY <1>1, <1>7, <2>1 DEF RequestsFollow
    <3>2. l <= k
      BY <3>1
    <3> QED
      BY <1>3, <1>4, <2>1, <3>1, <3>2
  <2>2. CASE i = Len(q) + 1
    <3>1. h = "client" /\ m = l
      BY <1>1, <1>a, <2>2, SaysOnce, Sides
    <3>2. \A b \in 1 .. l - 1 : b \in 1 .. n
      BY <1>7, <3>1
    <3>3. \A b \in 1 .. l - 1 : Before(q, b, i)
      BY <2>2, <3>2 DEF Holds
    <3> QED
      BY <1>3, <1>4, <1>7, <2>2, <3>1, <3>3
  <2> QED
    BY <1>2, <2>1, <2>2
<1> QED
  BY <1>5, <1>6, <1>7

LEMMA HeardAny ==
  \A q, h, m, n, k : Hearing(q, h, m, n, k) =>
     /\ Holds(Append(q, Says(h, m)), k)
     /\ AnswersFollow(Append(q, Says(h, m)))
     /\ (RequestsFollow(q, n) /\ m <= k) => RequestsFollow(Append(q, Says(h, m)), k)
BY HeardMore

\* The tap sees s.
LEMMA OrderObserved ==
  ASSUME OrderInv, heard \in Seq(Data), stage \in {"quiet", "opened", "over"},
         NEW s \in Segment, s.msg <= MaxMessages(s.from), Note(s), UNCHANGED site,
         s.msg > 0 => ~s.syn /\ ~s.rst,
         Passed \in Nat, Passed' \in Nat,
         \/ Passed' = Passed
         \/ Passed' = Passed + 1 /\ s.from = "client" /\ s.msg = Passed',
         s.from = "server" => s.msg <= Passed,
         site.at = "client" => s.msg <= Passed'
  PROVE  OrderInv'
<1>a. PICK n, k : n = Passed /\ k = Passed'
  OBVIOUS
<1>b. PICK x : x = Says(s.from, s.msg)
  OBVIOUS
<1>1. /\ s.from \in Side /\ s.msg \in Nat
      /\ n \in Nat /\ k \in Nat
      /\ k = n \/ (k = n + 1 /\ s.from = "client" /\ s.msg = k)
      /\ s.from = "server" => s.msg <= n
      /\ site.at = "client" => s.msg <= k
  BY <1>a DEF Segment
<1>2. /\ stage = "quiet" => heard = <<>> /\ n = 0
      /\ opener = 0 =>
           /\ stage = "opened" => Holds(heard, n)
           /\ AnswersFollow(heard)
           /\ site.at = "client" => RequestsFollow(heard, n)
  BY <1>a DEF OrderInv
<1>3. /\ stage' = IF s.rst \/ (s.fin /\ stage = "opened") THEN "over"
                  ELSE IF Opens(s) THEN "opened" ELSE stage
      /\ opener' = IF Opens(s) THEN s.msg ELSE opener
      /\ heard' = IF stage = "opened" /\ s.msg > 0 THEN Append(heard, x) ELSE heard
  BY <1>b, Zenon DEF Note
<1>4. Opens(s) <=> stage = "quiet" /\ s.from = "client" /\ ~s.syn /\ ~s.rst
  BY DEF Opens
<1>5. SUFFICES /\ stage' = "quiet" => heard' = <<>> /\ k = 0
               /\ opener' = 0 =>
                    /\ stage' = "opened" => Holds(heard', k)
                    /\ AnswersFollow(heard')
                    /\ site.at = "client" => RequestsFollow(heard', k)
  <2>1. RequestsFollow(heard, Passed)' = RequestsFollow(heard', k)
    BY <1>a DEF RequestsFollow, Before
  <2>2. AnswersFollow(heard)' = AnswersFollow(heard')
    BY DEF AnswersFollow, Before
  <2>3. Holds(heard, Passed)' = Holds(heard', k)
    BY <1>a DEF Holds, Before
  <2> QED
    BY <1>5, <1>a, <2>1, <2>2, <2>3, Zenon DEF OrderInv
<1>6. CASE stage = "quiet"
  <2>1. heard' = <<>> /\ n = 0
    BY <1>2, <1>3, <1>6
  <2>2. AnswersFollow(heard') /\ RequestsFollow(heard', k)
    <3>1. \A i : i \notin 1 .. Len(<<>>)
      OBVIOUS
    <3> QED
      BY <2>1, <3>1 DEF AnswersFollow, RequestsFollow
  <2>3. stage' = "quiet" => k = 0
    BY <1>1, <1>3, <1>4, <1>6, <2>1
  <2>4. stage' = "opened" /\ opener' = 0 => Holds(heard', k)
    <3>1. stage' = "opened" /\ opener' = 0 => k = 0
      BY <1>1, <1>3, <1>4, <1>6, <2>1
    <3>2. \A l : l \notin 1 .. 0
      OBVIOUS
    <3>3. k = 0 => Holds(heard', k)
      BY <3>2 DEF Holds
    <3> QED
      BY <3>1, <3>3
  <2> QED
    BY <2>1, <2>2, <2>3, <2>4
<1>7. CASE stage # "quiet" /\ opener' = 0
  <2>1. opener = 0 /\ stage' # "quiet"
    BY <1>3, <1>4, <1>7
  <2>2. CASE stage = "opened" /\ s.msg > 0
    <3>1. x \in Data
      <4>1. s.msg \in 1 .. MaxMessages(s.from)
        BY <1>1, <2>2, ConnectionAssumption DEF MaxMessages
      <4> QED
        BY <1>1, <1>b, <4>1, Words
    <3>2. /\ s.msg >= 1 /\ heard' = Append(heard, Says(s.from, s.msg))
          /\ Says(s.from, s.msg) \in Data
      BY <1>1, <1>3, <1>b, <2>2, <3>1
    <3>3. Holds(heard, n) /\ AnswersFollow(heard)
      BY <1>2, <2>1, <2>2
    <3>4. /\ Holds(heard', k) /\ AnswersFollow(heard')
          /\ (RequestsFollow(heard, n) /\ s.msg <= k) => RequestsFollow(heard', k)
      <4>1. PICK h, m : h = s.from /\ m = s.msg
        OBVIOUS
      <4>2. PICK q, r : q = heard /\ r = heard'
        OBVIOUS
      <4>3. Hearing(q, h, m, n, k) /\ r = Append(q, Says(h, m))
        <5>1. /\ h \in Side /\ m \in Nat \ {0} /\ Says(h, m) \in Data
              /\ q \in Seq(Data) /\ r = Append(q, Says(h, m))
              /\ k = n \/ (k = n + 1 /\ h = "client" /\ m = k)
              /\ h = "server" => m <= n
              /\ Holds(q, n) /\ AnswersFollow(q)
          BY <1>1, <2>2, <3>2, <3>3, <4>1, <4>2
        <5> QED
          BY <1>1, <5>1, Zenon DEF Hearing
      <4>5. /\ Holds(r, k) /\ AnswersFollow(r)
            /\ (RequestsFollow(q, n) /\ m <= k) => RequestsFollow(r, k)
        BY <4>3, HeardAny, Zenon
      <4> QED
        BY <4>1, <4>2, <4>5, Zenon
    <3> QED
      BY <1>1, <1>2, <2>1, <3>4
  <2>3. CASE ~(stage = "opened" /\ s.msg > 0)
    <3>1. heard' = heard
      BY <1>3, <2>3
    <3>2. stage' = "opened" => stage = "opened" /\ k = n
      BY <1>1, <1>3, <1>4, <1>7, <2>3
    <3>3. RequestsFollow(heard, n) => RequestsFollow(heard, k)
      <4>1. \A m \in Nat : m <= n => m <= k
        BY <1>1
      <4> QED
        BY <4>1 DEF RequestsFollow
    <3> QED
      BY <1>2, <2>1, <3>1, <3>2, <3>3
  <2> QED
    BY <2>1, <2>2, <2>3
<1>8. stage # "quiet" => stage' # "quiet"
  BY <1>3
<1> QED
  BY <1>6, <1>7, <1>8

\* What passes the tap, and what has passed it.
LEMMA PassedNumbers ==
  ASSUME NetworkType, NetworkType'
  PROVE  Passed \in Nat /\ Passed' \in Nat
BY Sides DEF NetworkType, HostState, Passed

LEMMA SpeechPasses ==
  ASSUME HandshakeInv, StreamInv, NEW h \in Side, h = site.at, NEW s, NEW g,
         Speaks(h, s, g), UNCHANGED site
  PROVE  /\ s \in Segment /\ (s.msg > 0 => ~s.syn /\ ~s.rst)
         /\ \/ Passed' = Passed
            \/ Passed' = Passed + 1 /\ s.from = "client" /\ s.msg = Passed'
         /\ s.from = "server" => s.msg <= Passed
         /\ site.at = "client" => s.msg <= Passed'
<1>0. NetworkType /\ Answering
  BY DEF HandshakeInv, StreamInv
<1>1. Speech(h, s, g) /\ host' = [host EXCEPT ![h] = g]
  BY DEF Speaks
<1>2. host'[h] = g
  BY <1>0, <1>1, Replaced
<1>3. CASE h = "client"
  BY <1>1, <1>2, <1>3, Sides DEF Speech, Passed
<1>4. CASE h = "server"
  <2>1. Passed = host["server"].answered /\ Passed' = g.answered
    BY <1>2, <1>4, Sides DEF Passed
  <2>2. /\ host["server"].said \in Nat /\ host["server"].answered \in Nat
        /\ host["server"].said <= host["server"].answered
    BY <1>0, HostFields, Sides DEF Answering
  <2>3. /\ s \in Segment /\ s.from = "server" /\ (s.msg > 0 => ~s.syn /\ ~s.rst)
        /\ s.msg \in Nat /\ g.said \in Nat /\ s.msg <= g.said
        /\ g.answered = host["server"].answered
        /\ g.said = host["server"].said \/ g.said <= host["server"].answered
    BY <1>1, <1>4 DEF Speech, Segment, HostState
  <2>4. s.msg <= host["server"].answered
    BY <2>2, <2>3
  <2> QED
    BY <1>4, <2>1, <2>3, <2>4
<1> QED
  BY <1>3, <1>4, Sides

LEMMA TakingPasses ==
  ASSUME HandshakeInv, StreamInv, NEW h \in Side, h = site.at, NEW s, NEW g,
         Takes(h, s, g), UNCHANGED site
  PROVE  /\ s \in Segment /\ (s.msg > 0 => ~s.syn /\ ~s.rst)
         /\ \/ Passed' = Passed
            \/ Passed' = Passed + 1 /\ s.from = "client" /\ s.msg = Passed'
         /\ s.from = "server" => s.msg <= Passed
         /\ site.at = "client" => s.msg <= Passed'
<1>0. NetworkType /\ Answering
  BY DEF HandshakeInv, StreamInv
<1>1. /\ Taking(h, s, g) /\ host' = [host EXCEPT ![h] = g]
      /\ s.from = Peer(h) /\ Formed(s)
  BY DEF Takes
<1>2. host'[h] = g
  BY <1>0, <1>1, Replaced
<1>3. s \in Segment /\ s.msg \in Nat /\ (s.msg > 0 => ~s.syn /\ ~s.rst)
  BY <1>1 DEF Formed, Segment
<1>4. CASE h = "client"
  <2>1. Passed = host["client"].said /\ Passed' = Passed /\ s.from = "server"
    BY <1>1, <1>2, <1>4, Sides DEF Passed, Taking
  <2>2. /\ host["server"].said \in Nat /\ host["server"].answered \in Nat
        /\ host["client"].said \in Nat
        /\ s.msg <= host["server"].said
        /\ host["server"].said <= host["server"].answered
        /\ host["server"].answered <= host["client"].said
    BY <1>0, <1>1, <2>1, HostFields, Sides DEF Answering, Formed
  <2>3. s.msg <= Passed
    BY <1>3, <2>1, <2>2
  <2> QED
    BY <1>3, <2>1, <2>3
<1>5. CASE h = "server"
  <2>1. /\ Passed = host["server"].answered /\ Passed' = g.answered
        /\ s.from = "client" /\ site.at # "client"
    BY <1>1, <1>2, <1>5, Sides DEF Passed
  <2>2. \/ g.answered = host["server"].answered
        \/ g.answered = host["server"].answered + 1 /\ g.answered = s.msg
    BY <1>5, ServerTakes
  <2> QED
    BY <1>3, <2>1, <2>2
<1> QED
  BY <1>4, <1>5, Sides

LEMMA OrderNext ==
  ASSUME HandshakeInv, BesideInv, TapInv, StreamInv, OrderInv, [ConnectionNext]_connvars
  PROVE  OrderInv'
<1>0. /\ NetworkType /\ HandshakeInv' /\ NetworkType' /\ Streams'
      /\ heard \in Seq(Data) /\ stage \in {"quiet", "opened", "over"}
  BY HandshakeNext DEF HandshakeInv, TapInv
<1>1. ASSUME UNCHANGED <<site, seen>>, Passed' = Passed
      PROVE  OrderInv'
  BY <1>1 DEF seen, OrderInv, Holds, AnswersFollow, RequestsFollow, Before
<1>2. CASE UNCHANGED <<vars, site, host, seen>>
  BY <1>1, <1>2 DEF Passed
<1>3. ASSUME NEW h \in Side, NEW s, NEW g, Speaks(h, s, g) \/ Takes(h, s, g)
      PROVE  OrderInv'
  <2>1. /\ UNCHANGED site /\ Observe(h, s)
        /\ host' = [host EXCEPT ![h] = g]
    BY <1>3 DEF Speaks, Send, Takes
  <2>2. CASE site.at = h
    <3>1. Note(s)
      BY <2>1, <2>2, Zenon DEF Observe
    <3>2. /\ s \in Segment /\ (s.msg > 0 => ~s.syn /\ ~s.rst)
          /\ \/ Passed' = Passed
             \/ Passed' = Passed + 1 /\ s.from = "client" /\ s.msg = Passed'
          /\ s.from = "server" => s.msg <= Passed
          /\ site.at = "client" => s.msg <= Passed'
      BY <1>3, <2>1, <2>2, SpeechPasses, TakingPasses
    <3>3. s.msg <= MaxMessages(s.from)
      <4>1. s.from \in Side /\ s.msg \in Nat
        BY <3>2 DEF Segment
      <4>2. s.msg <= host'[s.from].said
        <5>1. CASE Speaks(h, s, g)
          BY <1>0, <2>1, <5>1, Replaced DEF Speaks, Speech
        <5>2. CASE Takes(h, s, g)
          <6>1. s.from = Peer(h) /\ s.msg <= host[s.from].said
            BY <5>2 DEF Takes, Formed
          <6>2. host'[s.from] = host[s.from]
            BY <1>0, <2>1, <4>1, <6>1, Replaced, Sides
          <6> QED
            BY <6>1, <6>2
        <5> QED
          BY <1>3, <5>1, <5>2
      <4>3. host'[s.from].said \in Nat /\ host'[s.from].said <= MaxMessages(s.from)
        BY <1>0, <4>1 DEF Streams, NetworkType, HostState
      <4> QED
        BY <4>1, <4>2, <4>3, ConnectionAssumption DEF MaxMessages
    <3> QED
      BY <1>0, <2>1, <3>1, <3>2, <3>3, PassedNumbers, OrderObserved
  <2>3. CASE site.at # h
    <3>1. UNCHANGED seen
      BY <2>1, <2>3, Zenon DEF Observe
    <3>2. \A k \in Side : k # h => host'[k] = host[k]
      BY <1>0, <2>1, Replaced
    <3>3. site.at = "client" \/ site.at = "server"
      BY <1>0, ConnectionAssumption, Sides DEF NetworkType
    <3>4. Passed' = Passed
      BY <2>1, <2>3, <3>2, <3>3, Sides DEF Passed
    <3> QED
      BY <1>1, <2>1, <3>1, <3>4
  <2> QED
    BY <2>2, <2>3
<1> QED
  BY <1>2, <1>3, StepOfStreams

LEMMA OrderInit == ConnectionInit => OrderInv
<1> SUFFICES ASSUME ConnectionInit PROVE OrderInv
  OBVIOUS
<1>1. /\ host = [h \in Side |-> IdleHost] /\ stage = "quiet" /\ heard = <<>>
  BY DEF ConnectionInit
<1>2. Passed = 0
  BY <1>1, Sides DEF Passed, IdleHost
<1>3. \A i : i \notin 1 .. Len(<<>>)
  OBVIOUS
<1>4. AnswersFollow(heard) /\ RequestsFollow(heard, Passed)
  BY <1>1, <1>3 DEF AnswersFollow, RequestsFollow
<1> QED
  BY <1>1, <1>2, <1>4 DEF OrderInv

-----------------------------------------------------------------------------
(* Only data makes a SEND action.                                          *)

Sends(q) == \A i \in 1 .. Len(q) : q[i].type = "SEND" => q[i].data # NoData

LEMMA SendsMore ==
  \A q \in Seq(Action), a \in Action :
     Sends(q) /\ (a.type = "SEND" => a.data # NoData) => Sends(Append(q, a))
<1> SUFFICES ASSUME NEW q \in Seq(Action), NEW a \in Action,
                    Sends(q), a.type = "SEND" => a.data # NoData
             PROVE  Sends(Append(q, a))
  OBVIOUS
<1>a. PICK t : t = Append(q, a)
  OBVIOUS
<1>1. /\ Len(t) = Len(q) + 1 /\ Len(q) \in Nat /\ t[Len(q) + 1] = a
      /\ \A i \in 1 .. Len(q) : t[i] = q[i]
  BY <1>a, AppendElements
<1>2. \A i \in 1 .. Len(t) : i \in 1 .. Len(q) \/ i = Len(q) + 1
  BY <1>1
<1> QED
  BY <1>1, <1>2, <1>a DEF Sends

LEMMA SendsStep ==
  ASSUME TapInv, NEW s \in Segment, s.msg <= MaxMessages(s.from),
         NEW p, p = PacketOf(s), NEW c, NEW d, Follows(c, d, p), Sends(Queue)
  PROVE  Sends(Queue)'
<1>a. PICK a : a = DataAction(c, p)
  OBVIOUS
<1>b. PICK connect, close : connect = Plain("CONNECT") /\ close = Plain("CLOSE")
  OBVIOUS
<1>1. /\ c \in Conversation /\ OfConnection(c)
      /\ c.cap_tcp_state # "NONE" /\ d = TcpProcessCapturePacket(c, p)
  BY DEF Follows
<1>2. c.action_queue = Queue /\ d.action_queue = Queue'
  BY FollowedFrom, Zenon
<1>3. Sends(c.action_queue) /\ c.action_queue \in Seq(Action)
  BY <1>1, <1>2 DEF Conversation
<1>4. p \in Packet /\ s.msg \in Nat
  BY PacketFacts DEF Segment
<1>5. /\ a \in Action /\ connect \in Action /\ close \in Action
      /\ connect.type # "SEND" /\ close.type # "SEND"
  BY <1>1, <1>4, <1>a, <1>b, ActionTypes DEF Plain
<1>6. s.msg > 0 => a.data # NoData
  BY <1>1, <1>a, SaidInIt
<1>7. \/ d.action_queue = c.action_queue
      \/ d.action_queue = Append(c.action_queue, connect)
      \/ \E q : /\ q = IF s.msg > 0 THEN Append(c.action_queue, a) ELSE c.action_queue
                /\ d.action_queue = q \/ d.action_queue = Append(q, close)
  <2>1. c.cap_tcp_state \in TcpState
    BY <1>1 DEF Conversation
  <2>2. CASE s.rst \/ c.cap_tcp_state # "ESTABLISHED"
    BY <1>1, <1>a, <1>b, <2>1, <2>2, TapStep DEF TcpState
  <2>3. CASE ~s.rst /\ c.cap_tcp_state = "ESTABLISHED"
    <3>1. PICK q : /\ q = IF s.msg > 0 THEN Append(c.action_queue, a) ELSE c.action_queue
                   /\ IF s.fin
                      THEN d.action_queue = Append(q, close)
                      ELSE d.action_queue = q
      BY <1>1, <1>a, <1>b, <2>3, TapStep
    <3> QED
      BY <3>1
  <2> QED
    BY <2>2, <2>3
<1>8. ASSUME NEW q, q = IF s.msg > 0 THEN Append(c.action_queue, a) ELSE c.action_queue
      PROVE  q \in Seq(Action) /\ Sends(q) /\ Sends(Append(q, close))
  <2>1. q \in Seq(Action) /\ Sends(q)
    BY <1>3, <1>5, <1>6, <1>8, SendsMore
  <2> QED
    BY <1>5, <2>1, SendsMore
<1>9. Sends(d.action_queue)
  <2>1. Sends(Append(c.action_queue, connect))
    BY <1>3, <1>5, SendsMore
  <2> QED
    BY <1>3, <1>7, <1>8, <2>1
<1> QED
  BY <1>2, <1>9 DEF Sends

LEMMA SendsNext ==
  ASSUME TapInv, BesideInv, HandshakeInv, Sends(Queue), [ConnectionNext]_connvars
  PROVE  Sends(Queue)'
<1>0. NetworkType /\ HandshakeInv' /\ NetworkType' /\ Streams'
  BY HandshakeNext DEF HandshakeInv
<1>1. ASSUME UNCHANGED vars
      PROVE  Sends(Queue)'
  <2>1. Queue' = Queue
    BY <1>1 DEF vars, Queue, Recorded
  <2> QED
    BY <2>1 DEF Sends
<1>2. ASSUME NEW h \in Side, NEW s, Emission(h, s) \/ Arrival(h, s)
      PROVE  Sends(Queue)'
  <2>1. /\ Formed(s)' /\ Observe(h, s)
    BY <1>2, ArrivalKeeps DEF Emission, Send, Arrival
  <2>2. CASE site.at = h
    <3>a. PICK padded \in BOOLEAN : padded = (s.from # h)
      OBVIOUS
    <3>1. RecordPacket(Seen(FrameOf(s, padded), DataLink))
      BY <2>1, <2>2, <3>a, Zenon DEF Observe
    <3>2. Passing(s)
      BY <1>0, <1>2, <2>2, EmissionPasses, ArrivalPasses
    <3>3. /\ s \in Segment /\ s.from \in Side /\ s.msg \in Nat
          /\ s.msg <= host'[s.from].said /\ host'[s.from].said \in Nat
          /\ host'[s.from].said <= MaxMessages(s.from)
      BY <1>0, <2>1 DEF Formed, Segment, Streams, NetworkType, HostState
    <3>4. s.msg <= MaxMessages(s.from)
      BY <3>3, ConnectionAssumption DEF MaxMessages
    <3>b. PICK p : p = PacketOf(s)
      OBVIOUS
    <3>5. PICK c, d : Follows(c, d, p)
      BY <1>0, <3>1, <3>2, <3>3, <3>4, <3>b, Recording DEF Passing
    <3> QED
      BY <3>3, <3>4, <3>b, <3>5, SendsStep
  <2>3. CASE site.at # h
    <3>1. UNCHANGED vars
      BY <2>1, <2>3, Zenon DEF Observe
    <3> QED
      BY <1>1, <3>1
  <2> QED
    BY <2>2, <2>3
<1> QED
  BY <1>1, <1>2, StepOfConnection

LEMMA SendsInit == ConnectionInit => Sends(Queue)
<1> SUFFICES ASSUME ConnectionInit PROVE Sends(Queue)
  OBVIOUS
<1>1. ConnectionKey \notin Recorded
  BY DEF ConnectionInit, Recorded, NoEntries
<1>2. Queue = <<>>
  BY <1>1 DEF Queue
<1> QED
  BY <1>2 DEF Sends

LEMMA QueueType ==
  ASSUME BesideInv
  PROVE  Queue \in Seq(Action)
<1>1. CASE ConnectionKey \in Recorded
  <2>1. conversations[ConnectionKey] \in Conversation
    BY <1>1 DEF BesideInv, TypeOK, Recorded
  <2> QED
    BY <1>1, <2>1 DEF Queue, Conversation
<1>2. CASE ConnectionKey \notin Recorded
  BY <1>2 DEF Queue
<1> QED
  BY <1>1, <1>2

LEMMA QueueSaid ==
  ASSUME BesideInv, NEW i \in 1 .. Len(Queue), Queue[i].data # NoData
  PROVE  \E m \in 1 .. host[Teller(Queue[i])].said :
            Queue[i].data = Says(Teller(Queue[i]), m)
<1>1. CASE ConnectionKey \in Recorded
  <2>1. WasSaid(conversations[ConnectionKey])
    BY <1>1 DEF BesideInv
  <2>2. Queue = conversations[ConnectionKey].action_queue
    BY <1>1 DEF Queue
  <2> QED
    BY <2>1, <2>2, Zenon DEF WasSaid
<1>2. CASE ConnectionKey \notin Recorded
  <2>1. Queue = <<>>
    BY <1>2 DEF Queue
  <2> QED
    BY <2>1
<1> QED
  BY <1>1, <1>2

LEMMA OrderInvariant ==
  ConnectionSpec => [](HandshakeInv /\ BesideInv /\ TapInv /\ Sends(Queue) /\ OrderInv)
<1>1. ConnectionInit => TapInv /\ StreamInv /\ OrderInv /\ Sends(Queue)
  BY TapInit, StreamInit, OrderInit, SendsInit
<1>2. /\ TapInv /\ StreamInv /\ OrderInv /\ Sends(Queue)
      /\ HandshakeInv /\ BesideInv /\ [ConnectionNext]_connvars
      => TapInv' /\ StreamInv' /\ OrderInv' /\ Sends(Queue)'
  BY TapNext, StepOfStreams, OrderNext, SendsNext
<1> QED
  BY <1>1, <1>2, BesideInvariant, PTL DEF ConnectionSpec

-----------------------------------------------------------------------------
(* The places of what an action carries in what the tap heard.             *)

Rank(q, i) == Cardinality(UpTo(q, i))

\* The actions that carry data, in their order, are numbered one by one.
LEMMA RankGrows ==
  ASSUME NEW q \in Seq(Action), NEW i \in Carried(q), NEW j \in Carried(q), i < j
  PROVE  Rank(q, i) < Rank(q, j)
<1>1. i \in Nat /\ j \in Nat
  BY DEF Carried
<1>2. UpTo(q, i) \subseteq UpTo(q, j)
  BY <1>1 DEF UpTo, Carried
<1>3. j \in UpTo(q, j) /\ j \notin UpTo(q, i)
  BY <1>1 DEF UpTo
<1>4. IsFiniteSet(UpTo(q, j))
  <2>1. UpTo(q, j) \subseteq Carried(q)
    BY DEF UpTo
  <2> QED
    BY <2>1, CarriedFinite, FS_Subset
<1>5. /\ Rank(q, i) \in Nat /\ Rank(q, j) \in Nat
      /\ Rank(q, i) <= Rank(q, j) /\ Rank(q, j) # Rank(q, i)
  BY <1>2, <1>3, <1>4, FS_Subset, FS_CardinalityType DEF Rank
<1> QED
  BY <1>5

LEMMA RankReaches ==
  ASSUME NEW q \in Seq(Action), NEW n \in 1 .. Cardinality(Carried(q))
  PROVE  \E i \in Carried(q) : Rank(q, i) = n
<1>a. PICK S, T : S = Carried(q) /\ T = 1 .. Cardinality(Carried(q))
  OBVIOUS
<1>b. PICK f : f = [i \in S |-> Rank(q, i)]
  OBVIOUS
<1>1. IsFiniteSet(S) /\ Cardinality(S) \in Nat /\ f \in [S -> T]
  BY <1>a, <1>b, CarriedFinite DEF Rank
<1>2. ASSUME NEW i \in S, NEW j \in S, f[i] = f[j]
      PROVE  i = j
  <2>1. i \in Nat /\ j \in Nat /\ Rank(q, i) = Rank(q, j)
    BY <1>2, <1>a, <1>b DEF Carried
  <2>2. Rank(q, i) \in Nat
    BY <1>2, <1>a, CarriedFinite DEF Rank
  <2>3. ~(i < j) /\ ~(j < i)
    BY <1>a, <2>1, <2>2, RankGrows
  <2> QED
    BY <2>1, <2>3
<1>3. f \in Injection(S, T)
  BY <1>1, <1>2 DEF Injection, IsInjective
<1>4. IsFiniteSet(T) /\ Cardinality(T) = Cardinality(S)
  <2>1. Cardinality(S) \in Int /\ 1 \in Int
    BY <1>1
  <2>2. /\ IsFiniteSet(1 .. Cardinality(S))
        /\ Cardinality(1 .. Cardinality(S))
             = IF 1 > Cardinality(S) THEN 0 ELSE Cardinality(S) - 1 + 1
    BY <2>1, FS_Interval
  <2> QED
    BY <1>1, <1>a, <2>2
<1>5. f \in Surjection(S, T)
  BY <1>3, <1>4, FS_Injection
<1>6. PICK i \in S : f[i] = n
  BY <1>5, <1>a DEF Surjection
<1> QED
  BY <1>6, <1>a, <1>b

\* A set of numbers has a least one.
LEMMA Least ==
  ASSUME NEW T, T \subseteq Nat, T # {}
  PROVE  \E x \in T : \A y \in T : x <= y
<1>a. PICK R : R = OpToRel(<, Nat)
  OBVIOUS
<1>1. PICK x \in T : \A y \in T : <<y, x>> \notin R
  BY <1>a, NatLessThanWellFounded, WFMin
<1>2. \A y \in T : ~(y < x)
  BY <1>1, <1>a DEF OpToRel
<1> QED
  BY <1>1, <1>2

\* Where an action tells what the tap heard at the place n, and what comes
\* before in the one comes before in the other.
LEMMA ToldBefore ==
  ASSUME NEW q \in Seq(Action), NEW data, Tells(q, data),
         NEW i \in Carried(q), NEW n \in 1 .. Rank(q, i) - 1
  PROVE  \E j \in 1 .. i - 1 : q[j].data = data[n]
<1>1. Rank(q, i) \in 1 .. Cardinality(Carried(q)) /\ Cardinality(Carried(q)) \in Nat
  BY CarriedFinite DEF Rank
<1>2. n \in 1 .. Cardinality(Carried(q)) /\ n < Rank(q, i)
  BY <1>1
<1>3. PICK j \in Carried(q) : Rank(q, j) = n
  BY <1>2, RankReaches
<1>4. i \in Nat /\ j \in Nat /\ 1 <= j
  BY DEF Carried
<1>5. j < i
  <2>1. ~(i < j)
    BY <1>1, <1>2, <1>3, RankGrows
  <2>2. i # j
    BY <1>1, <1>2, <1>3
  <2> QED
    BY <1>4, <2>1, <2>2
<1>6. q[j].data = data[n]
  BY <1>3 DEF Tells, Rank
<1> QED
  BY <1>4, <1>5, <1>6

-----------------------------------------------------------------------------
(* The order of the script.                                                *)

\* tcp_conversation.cc, at either end: a response that the replay will wait for
\* is preceded by the request it answers, whatever was lost, overtaken or sent
\* again, unless the first request came with the end of the handshake.
THEOREM ResponsesFollow == ConnectionSpec => []ResponsesFollowRequests
<1>1. ASSUME BesideInv, TapInv, OrderInv
      PROVE  ResponsesFollowRequests
  <2> SUFFICES ASSUME opener = 0, NEW m \in 1 .. MaxResponses,
                      NEW i \in PositionsOf("server", m)
               PROVE  \E j \in PositionsOf("client", m) : j < i
    BY DEF ResponsesFollowRequests
  <2>a. PICK q, data : q = Queue /\ data = heard
    OBVIOUS
  <2>1. /\ q \in Seq(Action) /\ Tells(q, data) /\ AnswersFollow(data)
    BY <1>1, <2>a, QueueType DEF TapInv, OrderInv
  <2>2. i \in 1 .. Len(q) /\ q[i].data = Says("server", m) /\ m \in Nat
    BY <2>a DEF PositionsOf
  <2>3. i \in Carried(q)
    <3>1. MaxMessages("server") = MaxResponses
      BY DEF MaxMessages
    <3> QED
      BY <2>2, <3>1, Words, Sides DEF Carried
  <2>b. PICK n : n = Rank(q, i)
    OBVIOUS
  <2>4. n \in 1 .. Len(data) /\ data[n] = Says("server", m)
    BY <2>1, <2>2, <2>3, <2>b, CarriedFinite DEF Tells, Rank
  <2>5. PICK k \in 1 .. n - 1 : data[k] = Says("client", m)
    BY <2>1, <2>2, <2>4 DEF AnswersFollow, Before
  <2>6. PICK j \in 1 .. i - 1 : q[j].data = data[k]
    BY <2>1, <2>3, <2>5, <2>b, ToldBefore
  <2>7. j \in 1 .. Len(q) /\ j < i
    BY <2>1, <2>2
  <2> QED
    BY <2>5, <2>6, <2>7, <2>a DEF PositionsOf
<1> QED
  BY <1>1, OrderInvariant, PTL

\* A SEND action holds a message of the client, and nothing else does.
LEMMA SendsAreRequests ==
  ASSUME BesideInv, Sends(Queue), HandshakeInv, NEW i \in 1 .. Len(Queue)
  PROVE  /\ Queue[i].type = "SEND" =>
              \E m \in 1 .. host["client"].said : Queue[i].data = Says("client", m)
         /\ \A m \in 1 .. host["client"].said :
              Queue[i].data = Says("client", m) =>
                Queue[i].type = "SEND" /\ i \in Carried(Queue)
<1>a. PICK q : q = Queue
  OBVIOUS
<1>1. /\ host["client"].said \in Nat /\ host["client"].said <= MaxMessages("client")
      /\ MaxMessages("client") \in Nat
  BY Sides, ConnectionAssumption
     DEF HandshakeInv, Streams, NetworkType, HostState, MaxMessages
<1>2. q[i].data # NoData =>
        \E m \in 1 .. host[Teller(q[i])].said : q[i].data = Says(Teller(q[i]), m)
  BY <1>a, QueueSaid
<1>3. Teller(q[i]) \in Side /\ (Teller(q[i]) = "client" <=> q[i].type = "SEND")
  BY Sides DEF Teller
<1>4. ASSUME q[i].type = "SEND"
      PROVE  \E m \in 1 .. host["client"].said : q[i].data = Says("client", m)
  BY <1>2, <1>3, <1>4, <1>a DEF Sends
<1>5. ASSUME NEW m \in 1 .. host["client"].said, q[i].data = Says("client", m)
      PROVE  q[i].type = "SEND" /\ i \in Carried(q)
  <2>1. m \in 1 .. MaxMessages("client")
    BY <1>1
  <2>2. q[i].data # NoData
    BY <1>5, <2>1, Words, Sides
  <2>3. PICK n : q[i].data = Says(Teller(q[i]), n)
    BY <1>2, <2>2
  <2>4. Teller(q[i]) = "client"
    BY <1>3, <1>5, <2>3, SaysOnce, Sides
  <2> QED
    BY <1>3, <1>a, <2>2, <2>4 DEF Carried
<1> QED
  BY <1>4, <1>5, <1>a

\* What is first sent is first in the script.
LEMMA FirstSend ==
  ASSUME BesideInv, Sends(Queue), HandshakeInv, NEW i \in FirstSends
  PROVE  /\ i \in Carried(Queue) /\ i \in Nat
         /\ \E m \in 1 .. host["client"].said : Queue[i].data = Says("client", m)
         /\ \A j \in 1 .. i - 1 : Queue[j].data # Queue[i].data
<1>1. /\ i \in 1 .. Len(Queue) /\ Queue[i].type = "SEND"
      /\ \A j \in 1 .. i - 1 : Queue[j].data # Queue[i].data
  BY DEF FirstSends, Positions
<1>2. PICK m \in 1 .. host["client"].said : Queue[i].data = Says("client", m)
  BY <1>1, SendsAreRequests
<1>3. i \in Carried(Queue)
  BY <1>1, <1>2, SendsAreRequests
<1> QED
  BY <1>1, <1>2, <1>3

LEMMA SendsInOrder ==
  ASSUME BesideInv, Sends(Queue), HandshakeInv, Tells(Queue, heard),
         RequestsFollow(heard, host["client"].said),
         NEW i \in FirstSends, NEW j \in FirstSends, i < j
  PROVE  Queue[i].data.body < Queue[j].data.body
<1>a. PICK q, data : q = Queue /\ data = heard
  OBVIOUS
<1>1. /\ i \in Carried(q) /\ j \in Carried(q) /\ i \in Nat /\ j \in Nat
      /\ \A k \in 1 .. i - 1 : q[k].data # q[i].data
      /\ \A k \in 1 .. j - 1 : q[k].data # q[j].data
  BY <1>a, FirstSend
<1>2. PICK m \in 1 .. host["client"].said : q[i].data = Says("client", m)
  BY <1>a, FirstSend
<1>3. PICK n \in 1 .. host["client"].said : q[j].data = Says("client", n)
  BY <1>a, FirstSend
<1>4. q[i].data.body = m /\ q[j].data.body = n /\ m \in Nat /\ n \in Nat /\ 1 <= n
  BY <1>2, <1>3 DEF Says
<1>5. m # n
  <2>1. i \in 1 .. j - 1
    BY <1>1 DEF Carried
  <2> QED
    BY <1>1, <1>2, <1>3, <2>1
<1>6. ~(n < m)
  <2> SUFFICES ASSUME n < m PROVE FALSE
    OBVIOUS
  <2>b. PICK r : r = Rank(q, i)
    OBVIOUS
  <2>0. q \in Seq(Action) /\ Tells(q, data)
    BY <1>a, QueueType
  <2>1. r \in 1 .. Len(data) /\ data[r] = Says("client", m)
    BY <1>1, <1>2, <2>0, <2>b, CarriedFinite DEF Tells, Rank
  <2>2. n \in 1 .. m - 1
    BY <1>4
  <2>3. Before(data, n, r)
    BY <1>4, <1>a, <2>1, <2>2 DEF RequestsFollow
  <2>4. PICK k \in 1 .. r - 1 : data[k] = Says("client", n)
    BY <2>3 DEF Before
  <2>5. PICK l \in 1 .. i - 1 : q[l].data = data[k]
    BY <1>1, <2>0, <2>4, <2>b, ToldBefore
  <2>6. l \in 1 .. j - 1
    BY <1>1, <2>5
  <2> QED
    BY <1>1, <1>3, <2>4, <2>5, <2>6
<1> QED
  BY <1>4, <1>5, <1>6, <1>a

\* Every message that passed is first sent somewhere.
LEMMA FirstSentSomewhere ==
  ASSUME BesideInv, Sends(Queue), HandshakeInv, Tells(Queue, heard),
         NEW m \in 1 .. host["client"].said, Before(heard, m, Len(heard) + 1),
         heard \in Seq(Data)
  PROVE  \E i \in FirstSends : Queue[i].data = Says("client", m)
<1>a. PICK q, data : q = Queue /\ data = heard
  OBVIOUS
<1>0. q \in Seq(Action) /\ Tells(q, data) /\ Len(data) \in Nat
  BY <1>a, QueueType
<1>b. PICK T : T = {i \in 1 .. Len(q) : q[i].data = Says("client", m)}
  OBVIOUS
<1>1. T # {}
  <2>1. PICK n \in 1 .. Len(data) + 1 - 1 : data[n] = Says("client", m)
    BY <1>a DEF Before
  <2>2. n \in 1 .. Cardinality(Carried(q))
    BY <1>0, <2>1 DEF Tells
  <2>3. PICK i \in Carried(q) : Rank(q, i) = n
    BY <1>0, <2>2, RankReaches
  <2>4. q[i].data = data[n] /\ i \in 1 .. Len(q)
    BY <1>0, <2>3 DEF Tells, Rank, Carried
  <2> QED
    BY <1>b, <2>1, <2>4
<1>2. T \subseteq Nat
  BY <1>b
<1>3. PICK i \in T : \A j \in T : i <= j
  BY <1>1, <1>2, Least
<1>4. i \in 1 .. Len(q) /\ q[i].data = Says("client", m)
  BY <1>3, <1>b
<1>5. \A j \in 1 .. i - 1 : q[j].data # q[i].data
  <2>1. \A j \in 1 .. i - 1 : j \in 1 .. Len(q) /\ ~(i <= j)
    BY <1>0, <1>4
  <2> QED
    BY <1>3, <1>4, <1>b, <2>1
<1>6. q[i].type = "SEND"
  BY <1>4, <1>a, SendsAreRequests
<1> QED
  BY <1>4, <1>5, <1>6, <1>a DEF FirstSends, Positions

LEMMA SendsCounted ==
  ASSUME BesideInv, Sends(Queue), HandshakeInv, Tells(Queue, heard),
         heard \in Seq(Data), Holds(heard, host["client"].said)
  PROVE  Cardinality(FirstSends) = host["client"].said
<1>a. PICK q, S, n : q = Queue /\ S = FirstSends /\ n = host["client"].said
  OBVIOUS
<1>b. PICK f : f = [i \in S |-> q[i].data.body]
  OBVIOUS
<1>1. n \in Nat
  BY <1>a, Sides DEF HandshakeInv, NetworkType, HostState
<1>2. \A i \in S : /\ i \in Nat /\ 1 <= i /\ f[i] \in 1 .. n
                   /\ q[i].data = Says("client", f[i])
                   /\ \A j \in 1 .. i - 1 : q[j].data # q[i].data
  <2> SUFFICES ASSUME NEW i \in S
               PROVE  /\ i \in Nat /\ 1 <= i /\ f[i] \in 1 .. n
                      /\ q[i].data = Says("client", f[i])
                      /\ \A j \in 1 .. i - 1 : q[j].data # q[i].data
    OBVIOUS
  <2>1. i \in Carried(q) /\ i \in Nat /\ \A j \in 1 .. i - 1 : q[j].data # q[i].data
    BY <1>a, FirstSend
  <2>2. PICK m \in 1 .. n : q[i].data = Says("client", m)
    BY <1>a, FirstSend
  <2>3. f[i] = m
    BY <1>b, <2>2 DEF Says
  <2> QED
    BY <2>1, <2>2, <2>3 DEF Carried
<1>3. f \in [S -> 1 .. n]
  BY <1>2, <1>b
<1>4. ASSUME NEW i \in S, NEW j \in S, f[i] = f[j]
      PROVE  i = j
  <2>1. i \in Nat /\ j \in Nat /\ 1 <= i /\ 1 <= j /\ q[i].data = q[j].data
    BY <1>2, <1>4
  <2>2. ~(i < j)
    BY <1>2, <2>1
  <2>3. ~(j < i)
    BY <1>2, <2>1
  <2> QED
    BY <2>1, <2>2, <2>3
<1>5. ASSUME NEW m \in 1 .. n
      PROVE  \E i \in S : f[i] = m
  <2>1. Before(heard, m, Len(heard) + 1)
    BY <1>a DEF Holds
  <2>2. PICK i \in S : q[i].data = Says("client", m)
    BY <1>a, <2>1, FirstSentSomewhere
  <2>3. f[i] = m
    BY <1>b, <2>2 DEF Says
  <2> QED
    BY <2>3
<1>6. f \in Injection(S, 1 .. n) /\ f \in Surjection(S, 1 .. n)
  BY <1>3, <1>4, <1>5 DEF Injection, IsInjective, Surjection
<1>7. IsFiniteSet(1 .. n) /\ Cardinality(1 .. n) = n
  <2>1. n \in Int /\ 1 \in Int
    BY <1>1
  <2>2. /\ IsFiniteSet(1 .. n)
        /\ Cardinality(1 .. n) = IF 1 > n THEN 0 ELSE n - 1 + 1
    BY <2>1, FS_Interval
  <2> QED
    BY <1>1, <2>2
<1>8. Cardinality(S) = Cardinality(1 .. n)
  BY <1>6, <1>7, FS_Injection
<1> QED
  BY <1>7, <1>8, <1>a

\* estProcessCapturePacket, beside the client: the requests are sent for the
\* first time in the order in which the client made them, and while the
\* connection is open none is skipped, whatever was lost, overtaken or sent
\* again on the way, unless the first one came with the end of the handshake.
THEOREM RequestsInOrder == ConnectionSpec => []RequestsAreInOrder
<1>1. ASSUME HandshakeInv, BesideInv, TapInv, Sends(Queue), OrderInv
      PROVE  RequestsAreInOrder
  <2> SUFFICES ASSUME site.at = "client", opener = 0
               PROVE  /\ \A i, j \in FirstSends :
                            i < j => Queue[i].data.body < Queue[j].data.body
                      /\ stage = "opened" =>
                           Cardinality(FirstSends) = host["client"].said
    BY DEF RequestsAreInOrder
  <2>1. /\ RequestsFollow(heard, host["client"].said)
        /\ stage = "opened" => Holds(heard, host["client"].said)
    <3>1. Passed = host["client"].said
      BY DEF Passed
    <3> QED
      BY <1>1, <3>1 DEF OrderInv
  <2>2. Tells(Queue, heard) /\ heard \in Seq(Data)
    BY <1>1 DEF TapInv
  <2>3. ASSUME NEW i \in FirstSends, NEW j \in FirstSends, i < j
        PROVE  Queue[i].data.body < Queue[j].data.body
    BY <1>1, <2>1, <2>2, <2>3, SendsInOrder
  <2>4. stage = "opened" => Cardinality(FirstSends) = host["client"].said
    BY <1>1, <2>1, <2>2, SendsCounted
  <2> QED
    BY <2>3, <2>4
<1> QED
  BY <1>1, OrderInvariant, PTL

================================================================================
