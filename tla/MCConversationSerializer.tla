---------------------- MODULE MCConversationSerializer ----------------------
(* Instances of ConversationSerializer for TLC.                            *)
EXTENDS ConversationSerializer

UpTo(S, n) == UNION {[1 .. k -> S] : k \in 0 .. n}

\* "<D>" for "<#DATA_END#>".
MCEndTag == <<60, 68, 62>>

SEND(d) == [type |-> "SEND", data |-> d]
RECV(d) == [type |-> "RECV", data |-> d]
CONNECT == [type |-> "CONNECT", data |-> <<>>]
CLOSE   == [type |-> "CLOSE", data |-> <<>>]

TCP(actions) == [protocol |-> "TCP", test_port |-> 20480, actions |-> actions]

\* All short data of letters, end tags and parts of them.
Tagged == UpTo({97} \cup {60, 68, 62}, 4)

\* Longer than the buffer, with tags and '>' in every place of it.
Long ==
  {<<97, 98, 99, 100>> \o d \o <<101>> : d \in UpTo({97, 60, 62}, 3)}
    \cup {<<97, 98, 99, 100, 101, 102, 103, 104>> \o d : d \in UpTo({60, 68, 62}, 3)}

\* Bytes that are not printable at the end of the data, and in front of it.
Binary == {<<97, 97>> \o d : d \in UpTo({97, 1, 255, 62}, 3)} \cup {<<1, 97, 97>>}

\* Data that goes on with what reads like an action.
Spurious == {<<97, 98, 60, 68, 62, NL, TypeLine("SEND"), NL>>,
             <<97, 98, 60, 68, 62, NL, TypeLine("SEND"), NL, StartLine, NL, 97, 98, 62>>,
             <<97, NL, NL, 35, 98>>}

Placeholders ==
  UpTo({97, 36, 123, 125}, 4)
    \cup {<<36, 123, 97, 125>> \o d \o <<36, 123, 125>> : d \in UpTo({36, 123, 125}, 3)}

MCConversations ==
  {TCP(<<SEND(d)>>) : d \in Tagged \cup Long \cup Binary \cup Spurious \cup Placeholders}
    \cup {TCP(<<RECV(d), SEND(e)>>) :
            d \in {<<97>>, <<97, 98, 99, 62>>, <<97, 98, 97, 97, 1>>} \cup Spurious,
            e \in {<<62, 97>>, <<98, 62, 97>>, <<98, 99>>, <<97, 98, 99, 62, 62>>}}
    \cup {TCP(<<CONNECT, SEND(<<97, 98>>), RECV(<<255, 254, 253, 252>>), CLOSE>>), TCP(<<>>),
          [protocol |-> "UDP", test_port |-> 13568, actions |-> <<SEND(<<97, 98>>)>>]}

=============================================================================
