------------------------------ MODULE MCUdpReplay ------------------------------
(* Instances of UdpReplay for TLC.                                         *)
EXTENDS UdpReplay

Ask   == [size |-> 1, body |-> "ask"]
Ping  == [size |-> 0, body |-> "none"]
Yes   == [size |-> 2, body |-> "yes"]
No    == [size |-> 2, body |-> "no"]
Long  == [size |-> 3, body |-> "long"]

MCMessage == {Ask, Ping, Yes, No, Long}

\* A question has two answers, an empty datagram one.
MCReplies ==
  [m \in MCMessage |->
     IF m = Ask THEN <<Yes, Long>> ELSE IF m = Ping THEN <<No>> ELSE <<>>]

SEND(m) == [type |-> "SEND", data |-> m]
RECV(m) == [type |-> "RECV", data |-> m]

\* Answered as in the capture; otherwise; asked ahead of the answers; less
\* recorded than is answered.
Faithful  == <<SEND(Ask), RECV(Yes), RECV(Long), SEND(Ping), RECV(No)>>
Otherwise == <<SEND(Ask), RECV(No), RECV(Yes)>>
Ahead     == <<SEND(Ask), SEND(Ping), RECV(Yes), RECV(Yes), RECV(No)>>
Short     == <<SEND(Ping), SEND(Ask), RECV(No)>>

Python == [parts |-> 3, type |-> "python", module |-> "imported", function |-> TRUE]

\* One that works; no function of that name, no such module, another type, a
\* part missing.
MCSpecs ==
  {Python, [Python EXCEPT !.function = FALSE], [Python EXCEPT !.module = "not imported"],
   [Python EXCEPT !.type = "other"], [Python EXCEPT !.parts = 2]}

MCCaptures ==
  {<<Faithful>>, <<Otherwise>>, <<Ahead>>, <<Short>>, <<Faithful, Short>>, <<>>}

TwoConversations == {<<Faithful, Otherwise>>}

\* What WaitsInVainOnlyAfterLoss says of them is said of such captures.
ASSUME MCCapturesAreAnswered == EveryRecvIsAnswered

=============================================================================
