------------------------- MODULE ConversationFactory -------------------------
(***************************************************************************)
(* The pure functions of conversation_factory.cc: the key a conversation   *)
(* is filed under, the keys a test server is looked up with, and what a    *)
(* "-c" client specification (IPv4 form) means.                            *)
(***************************************************************************)
EXTENDS NetworkLayers

NO_PORT   == -1
NoAddr    == -1
NoNumber  == -1

-----------------------------------------------------------------------------
(* Keys.  The code prints addresses in hexadecimal at a fixed width and    *)
(* ports in decimal between ':' separators, which loses nothing: a key is  *)
(* the tuple of what is printed.                                           *)

Key == Addr \X Port \X Addr \X Port

GenerateKey(e, f) == <<e[1], e[2], f[1], f[2]>>

\* Mutant: ports do not order endpoints that share an address.
KeyByAddressOnly(p) ==
  IF p.src <= p.dst THEN GenerateKey(Sender(p), Receiver(p))
                    ELSE GenerateKey(Receiver(p), Sender(p))

\* The lower endpoint comes first, so both directions share one key.
TcpIpGetKey(p) ==
  IF p.src < p.dst \/ (p.src = p.dst /\ p.sport < p.dport)
  THEN GenerateKey(Sender(p), Receiver(p))
  ELSE GenerateKey(Receiver(p), Sender(p))

ServerKey == Addr \X (Port \cup {NO_PORT})

\* In the order they are tried.
TcpIpGetTargetTestServerKeys(p) == <<Sender(p), <<p.src, NO_PORT>>>>

-----------------------------------------------------------------------------
(* Client specifications.  A token is known by what the two library calls  *)
(* applied to it answer: inet_pton (an address, whose family is known, or  *)
(* NoAddr) and stoul (the number its leading digits spell, or NoNumber     *)
(* when there are none).  A dotted address has both: stoul stops at the    *)
(* first dot.                                                              *)

Token == [addr : Addr \cup {NoAddr}, num : Nat \cup {NoNumber}]

IsAddr(t)     == t.addr # NoAddr /\ t.addr \notin AddrV6
IsAddrV6(t)   == t.addr # NoAddr /\ t.addr \in AddrV6
IsNumber(t)   == t.num >= 0

\* The marks of the IPv6 form, "[<addr>]:<port>:[<addr>]:<port>", which is
\* searched for them; the IPv4 form is split at every ':' beforehand.
Mark(n) == [addr |-> NoAddr, num |-> n]
OpenMark    == Mark(-2)
ShutMark    == Mark(-3)
ColonMark   == Mark(-4)
Symbol  == Token \cup {OpenMark, ShutMark, ColonMark}

IsIpV6Spec(s) == s # <<>> /\ s[1] = OpenMark

\* The switch over the number of tokens falls through, so every token that is
\* there is validated; anything else throws invalid_argument.
ValidIpV4Spec(tokens) ==
  /\ Len(tokens) \in 1 .. 4
  /\ IsAddr(tokens[1])
  /\ Len(tokens) >= 2 => IsNumber(tokens[2])
  /\ Len(tokens) >= 3 => IsAddr(tokens[3])
  /\ Len(tokens) >= 4 => IsNumber(tokens[4])

NoServer == [test_addr |-> NoAddr, test_port |-> NO_PORT]   \* nullptr

TargetTestServer ==
  [test_addr : Addr \cup {NoAddr}, test_port : Word \cup {NO_PORT}]

IpV4SpecKey(tokens) ==
  <<tokens[1].addr,
    IF Len(tokens) >= 2 THEN Htons(tokens[2].num) ELSE NO_PORT>>

\* With a test address and no test port, NO_PORT goes through htons.
IpV4SpecServer(tokens) ==
  IF Len(tokens) < 3
  THEN NoServer
  ELSE [test_addr |-> tokens[3].addr,
        test_port |-> Htons(IF Len(tokens) = 4 THEN Htons(tokens[4].num)
                                               ELSE NO_PORT)]

-----------------------------------------------------------------------------
(* The IPv6 form.                                                          *)

\* token(): where the first mark from position i on is, 0 for nullptr, and
\* the text in front of it.
Find(s, i, mark) ==
  LET found == {j \in i .. Len(s) : s[j] = mark}
  IN  IF found = {} THEN 0 ELSE CHOOSE j \in found : \A k \in found : j <= k

Text(s, i, j) == SubSeq(s, i, IF j = 0 THEN Len(s) ELSE j - 1)

MarkAt(s, i, mark) == i \in 1 .. Len(s) /\ s[i] = mark

IsV6Text(t)     == Len(t) = 1 /\ IsAddrV6(t[1])
IsNumberText(t) == t # <<>> /\ IsNumber(t[1])

\* The four parts, and where the test address is closed; a part that is not
\* there is empty.
Parts(s) ==
  LET i == Find(s, 1, ShutMark)
      j == IF MarkAt(s, i + 1, ColonMark) THEN Find(s, i + 2, ColonMark) ELSE i
      k == IF j = 0 THEN 0 ELSE Find(s, j + 1, ShutMark)
  IN  [src |-> Text(s, 2, i),
       port |-> IF MarkAt(s, i + 1, ColonMark) THEN Text(s, i + 2, j) ELSE <<>>,
       test |-> IF j = 0 THEN <<>> ELSE Text(s, j + 1, k),
       shut |-> k,
       test_port |-> IF k = 0 THEN <<>> ELSE Text(s, k + 2, 0)]

\* Without a closing bracket the null pointer of token() is read through.
CrashesIpV6Spec(s) == Find(s, 1, ShutMark) = 0

\* A test address in brackets must be followed by ':'; one without is taken
\* as it is.
ValidIpV6Spec(s) ==
  LET p == Parts(s)
  IN  /\ ~CrashesIpV6Spec(s)
      /\ IsV6Text(p.src)
      /\ p.port = <<>> \/ IsNumberText(p.port)
      /\ \/ p.test = <<>>
         \/ p.shut = 0 /\ IsV6Text(p.test)
         \/ /\ p.shut # 0
            /\ p.test[1] = OpenMark /\ IsV6Text(Tail(p.test))
            /\ MarkAt(s, p.shut + 1, ColonMark) /\ Find(s, p.shut + 2, ColonMark) = 0
            /\ p.test_port = <<>> \/ IsNumberText(p.test_port)

IpV6SpecKey(s) ==
  LET p == Parts(s)
  IN  <<p.src[1].addr, IF p.port = <<>> THEN NO_PORT ELSE Htons(p.port[1].num)>>

IpV6SpecServer(s) ==
  LET p == Parts(s)
  IN  IF p.test = <<>>
      THEN NoServer
      ELSE [test_addr |-> p.test[Len(p.test)].addr,
            test_port |-> Htons(IF p.shut = 0 \/ p.test_port = <<>> THEN NO_PORT
                                ELSE Htons(p.test_port[1].num))]

-----------------------------------------------------------------------------
(* tcpIpCreateTargetTestServer.                                            *)

ValidSpec(s)  == IF IsIpV6Spec(s) THEN ValidIpV6Spec(s) ELSE ValidIpV4Spec(s)
SpecKey(s)    == IF IsIpV6Spec(s) THEN IpV6SpecKey(s) ELSE IpV4SpecKey(s)
SpecServer(s) == IF IsIpV6Spec(s) THEN IpV6SpecServer(s) ELSE IpV4SpecServer(s)

=============================================================================
