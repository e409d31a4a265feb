--------------------------- MODULE HttpReplayProofs ---------------------------
(***************************************************************************)
(* Proofs about HttpReplay, for every capture whose queues are well        *)
(* formed, every server and every way in which reading and writing is cut  *)
(* up: the socket and the descriptors; the parser, which never loops and   *)
(* takes apart just what Encode has put together; and the types of it all. *)
(***************************************************************************)
EXTENDS HttpReplay, SequenceLemmas, FiniteSetTheorems

-----------------------------------------------------------------------------
(* Scripts.                                                                *)

\* Nothing is connected before a CLOSE has been followed by a CONNECT, and an
\* action that is no CONNECT connects nothing.
LEMMA ConnectedByConnect ==
  ASSUME NEW s, NEW i \in Nat \ {0}, ConnectedBefore(s, i + 1)
  PROVE  /\ s[i].type # "CLOSE"
         /\ s[i].type # "CONNECT" => ConnectedBefore(s, i)
<1>1. PICK j \in 1 .. i : /\ s[j].type = "CONNECT"
                          /\ \A k \in j + 1 .. i : s[k].type # "CLOSE"
  BY DEF ConnectedBefore
<1>2. CASE j = i
  BY <1>1, <1>2
<1>3. CASE j # i
  <2>1. i \in j + 1 .. i /\ j \in 1 .. i - 1
    BY <1>3
  <2>2. \A k \in j + 1 .. i - 1 : k \in j + 1 .. i
    OBVIOUS
  <2> QED
    BY <1>1, <2>1, <2>2 DEF ConnectedBefore
<1> QED
  BY <1>2, <1>3

LEMMA NotConnectedAtStart ==
  ASSUME NEW s
  PROVE  ~ConnectedBefore(s, 1)
BY DEF ConnectedBefore

-----------------------------------------------------------------------------
(* The place in the script, and the socket.                                *)

Script == convs[current].queue

Position == Len(Script) - Len(queue)

\* What is left to carry out is the end of the script.
AtPosition ==
  /\ Len(queue) <= Len(Script)
  /\ \A i \in 1 .. Len(queue) : queue[i] = Script[Position + i]

\* While a conversation is replayed: where the script has got to, and that the
\* socket is open whenever the script has connected it so far.
SocketInv ==
  /\ convs \in Captures
  /\ pc \in Running \cup Ended
  /\ pc \in Running =>
       /\ current \in DOMAIN convs
       /\ queue \in Seq([type : {"CONNECT", "SEND", "RECV", "CLOSE"}, data : Seq(Symbol)])
       /\ AtPosition
       /\ ConnectedBefore(Script, Position + 1) => socket \in fds
  /\ pc = "recv" => queue # <<>> /\ Action.type = "RECV"

LEMMA ScriptType ==
  ASSUME NEW capture \in Captures, NEW i \in DOMAIN capture
  PROVE  /\ capture[i].queue \in
              Seq([type : {"CONNECT", "SEND", "RECV", "CLOSE"}, data : Seq(Symbol)])
         /\ WellFormed(capture[i].queue)
         /\ DOMAIN capture = 1 .. Len(capture)
         /\ Len(capture) \in Nat
<1>1. capture \in Seq(Conversation)
  BY CapturesAssumption
<1>2. capture[i] \in Conversation
  BY <1>1
<1>3. WellFormed(capture[i].queue)
  BY CapturesAssumption
<1> QED
  BY <1>1, <1>2, <1>3 DEF Conversation

\* The socket is open for whatever needs it.
LEMMA SocketIsReady ==
  ASSUME SocketInv, pc \in Running, queue # <<>>, Action.type # "CONNECT"
  PROVE  socket \in fds
<1>1. /\ Script \in Seq([type : {"CONNECT", "SEND", "RECV", "CLOSE"}, data : Seq(Symbol)])
      /\ WellFormed(Script)
  BY ScriptType DEF SocketInv, Script
<1>2. Len(Script) \in Nat /\ Len(queue) \in Nat /\ Len(queue) # 0
  BY <1>1 DEF SocketInv
<1>3. Position + 1 \in 1 .. Len(Script)
  BY <1>2 DEF SocketInv, AtPosition, Position
<1>4. queue[1] = Script[Position + 1]
  BY <1>2 DEF SocketInv, AtPosition
<1>5. ConnectedBefore(Script, Position + 1)
  BY <1>1, <1>3, <1>4 DEF WellFormed, Action
<1> QED
  BY <1>5 DEF SocketInv

\* Carrying out an action moves on by one.
LEMMA PopMovesOn ==
  ASSUME SocketInv, pc \in Running, queue # <<>>, ActionPop, UNCHANGED <<convs, current>>
  PROVE  /\ queue' \in Seq([type : {"CONNECT", "SEND", "RECV", "CLOSE"}, data : Seq(Symbol)])
         /\ AtPosition'
         /\ Position \in Nat /\ Position' = Position + 1
         /\ Position + 1 \in 1 .. Len(Script)
         /\ Script' = Script /\ Script[Position + 1] = Action
<1> DEFINE S == [type : {"CONNECT", "SEND", "RECV", "CLOSE"}, data : Seq(Symbol)]
<1>1. Script \in Seq(S)
  BY ScriptType DEF SocketInv, Script
<1>2. queue \in Seq(S)
  BY DEF SocketInv
<1> HIDE DEF S
<1>3. Len(Script) \in Nat /\ Len(queue) \in Nat /\ Len(queue) # 0
  BY <1>1, <1>2
<1>4. /\ queue' \in Seq(S)
      /\ Len(queue') = Len(queue) - 1
      /\ \A i \in 1 .. Len(queue') : queue'[i] = queue[i + 1]
  BY <1>2 DEF ActionPop
<1>5. Script' = Script
  BY DEF Script
<1>6. /\ Len(queue) <= Len(Script)
      /\ \A i \in 1 .. Len(queue) : queue[i] = Script[Position + i]
  BY DEF SocketInv, AtPosition
<1>7. /\ Position \in Nat /\ Position' = Position + 1
      /\ Position + 1 \in 1 .. Len(Script)
  BY <1>3, <1>4, <1>5, <1>6 DEF Position
<1>8. AtPosition'
  <2>1. ASSUME NEW i \in 1 .. Len(queue')
        PROVE  queue'[i] = Script[Position' + i]
    <3>1. i + 1 \in 1 .. Len(queue) /\ Position' + i = Position + (i + 1)
      BY <1>3, <1>4, <1>7
    <3> QED
      BY <1>4, <1>6, <3>1
  <2> QED
    BY <1>3, <1>4, <1>5, <1>6, <2>1 DEF AtPosition
<1>9. Script[Position + 1] = Action
  BY <1>3, <1>6 DEF Action
<1> QED
  BY <1>4, <1>5, <1>7, <1>8, <1>9 DEF S

\* An action that connects nothing leaves the socket as open as it was.
LEMMA PopKeepsSocket ==
  ASSUME SocketInv, pc \in Running, queue # <<>>, Action.type # "CONNECT",
         ActionPop, UNCHANGED <<convs, current, socket, fds>>, pc' = "next"
  PROVE  SocketInv'
<1>1. /\ queue' \in Seq([type : {"CONNECT", "SEND", "RECV", "CLOSE"}, data : Seq(Symbol)])
      /\ AtPosition'
      /\ Position \in Nat /\ Position' = Position + 1
      /\ Script' = Script /\ Script[Position + 1] = Action
  BY PopMovesOn
<1>2. socket \in fds
  BY SocketIsReady
<1> QED
  BY <1>1, <1>2 DEF SocketInv, Running

\* A step that leaves the script where it is.
LEMMA StayKeepsSocket ==
  ASSUME SocketInv, UNCHANGED <<convs, current, queue, socket, fds>>,
         \/ pc' \in Ended
         \/ pc' = pc
         \/ pc \in Running /\ pc' = "recv" /\ queue # <<>> /\ Action.type = "RECV"
  PROVE  SocketInv'
<1>1. Script' = Script /\ Position' = Position /\ (AtPosition <=> AtPosition')
  BY DEF Script, Position, AtPosition
<1> QED
  BY <1>1 DEF SocketInv, Action, Running, Ended

LEMMA FatesType ==
  ASSUME NEW r
  PROVE  Fates(r) \subseteq {"recv"} \cup Ended
BY DEF Fates, FateOf, Ended

LEMMA SocketNextConversation ==
  ASSUME SocketInv, NextConversation
  PROVE  SocketInv'
<1>1. pc \in Running /\ current \in DOMAIN convs
  BY DEF NextConversation, SocketInv, Running
<1>2. DOMAIN convs = 1 .. Len(convs) /\ Len(convs) \in Nat
  BY <1>1, ScriptType DEF SocketInv
<1>3. CASE current < Len(convs)
  <2>1. /\ current' = current + 1 /\ queue' = convs[current + 1].queue
        /\ convs' = convs /\ pc' = "next"
    BY <1>3 DEF NextConversation
  <2>2. current' \in DOMAIN convs
    BY <1>1, <1>2, <1>3, <2>1
  <2>3. /\ queue' \in Seq([type : {"CONNECT", "SEND", "RECV", "CLOSE"}, data : Seq(Symbol)])
        /\ Script' = queue'
    BY <2>1, <2>2, ScriptType DEF SocketInv, Script
  <2>4. Position' = 0
    BY <2>3 DEF Position
  <2>5. AtPosition'
    BY <2>3, <2>4 DEF AtPosition
  <2>6. ~ConnectedBefore(Script', Position' + 1)
    BY <2>4, NotConnectedAtStart
  <2> QED
    BY <2>1, <2>2, <2>3, <2>5, <2>6 DEF SocketInv, Running
<1>4. CASE ~(current < Len(convs))
  BY <1>4 DEF NextConversation, SocketInv, Running, Ended
<1> QED
  BY <1>3, <1>4

LEMMA SocketConnect ==
  ASSUME SocketInv, Connect
  PROVE  SocketInv'
<1>1. /\ queue # <<>> /\ pc \in Running /\ pc' = "next" /\ convs' = convs
      /\ ActionPop /\ UNCHANGED <<convs, current>>
      /\ socket' \in fds'
  BY DEF Connect, AtAction, Running
<1>2. /\ queue' \in Seq([type : {"CONNECT", "SEND", "RECV", "CLOSE"}, data : Seq(Symbol)])
      /\ AtPosition'
  BY <1>1, PopMovesOn
<1> QED
  BY <1>1, <1>2 DEF SocketInv, Running

LEMMA SocketClose ==
  ASSUME SocketInv, Close
  PROVE  SocketInv'
<1>1. /\ queue # <<>> /\ pc \in Running /\ pc' = "next" /\ convs' = convs
      /\ Action.type = "CLOSE"
      /\ ActionPop /\ UNCHANGED <<convs, current>>
  BY DEF Close, AtAction, Running, Action
<1>2. /\ queue' \in Seq([type : {"CONNECT", "SEND", "RECV", "CLOSE"}, data : Seq(Symbol)])
      /\ AtPosition'
      /\ Position \in Nat /\ Position' = Position + 1
      /\ Script' = Script /\ Script[Position + 1] = Action
  BY <1>1, PopMovesOn
<1>3. ~ConnectedBefore(Script', Position' + 1)
  <2>1. Position + 1 \in Nat \ {0}
    BY <1>2
  <2> QED
    BY <1>1, <1>2, <2>1, ConnectedByConnect
<1> QED
  BY <1>1, <1>2, <1>3 DEF SocketInv, Running

LEMMA SocketWrite ==
  ASSUME SocketInv, NEW n, Write(n)
  PROVE  SocketInv'
<1>1. /\ queue # <<>> /\ pc \in Running /\ pc = "next" /\ Action.type = "SEND"
      /\ UNCHANGED <<convs, current, pc, socket, fds>>
      /\ ActionPop \/ UNCHANGED queue
  BY DEF Write, AtAction, Running, Action
<1>2. CASE ActionPop
  BY <1>1, <1>2, PopKeepsSocket
<1>3. CASE UNCHANGED queue
  BY <1>1, <1>3, StayKeepsSocket
<1> QED
  BY <1>1, <1>2, <1>3

LEMMA SocketReceived ==
  ASSUME SocketInv, Received
  PROVE  SocketInv'
<1>1. /\ pc = "recv" /\ UNCHANGED <<convs, current, socket, fds>>
      /\ \/ pc' = "failed" /\ UNCHANGED queue
         \/ pc' = "next" /\ ActionPop
  BY DEF Received
<1>2. pc \in Running /\ queue # <<>> /\ Action.type = "RECV"
  BY <1>1 DEF SocketInv, Running
<1>3. CASE pc' = "failed" /\ UNCHANGED queue
  BY <1>1, <1>3, StayKeepsSocket DEF Ended
<1>4. CASE pc' = "next" /\ ActionPop
  BY <1>1, <1>2, <1>4, PopKeepsSocket
<1> QED
  BY <1>1, <1>3, <1>4

LEMMA SocketNext ==
  ASSUME SocketInv, [Next]_vars
  PROVE  SocketInv'
<1>1. CASE ConnectFails
  <2>1. pc' = "failed" /\ UNCHANGED <<convs, current, queue>>
    BY <1>1 DEF ConnectFails
  <2> QED
    BY <2>1 DEF SocketInv, Running, Ended
<1>2. CASE Expect
  <2>1. /\ pc \in Running /\ queue # <<>> /\ Action.type = "RECV"
        /\ UNCHANGED <<convs, current, queue, socket, fds>>
        /\ pc' \in Fates(expected')
    BY <1>2 DEF Expect, AtAction, Action, Running
  <2>2. pc' = "recv" \/ pc' \in Ended
    BY <2>1, FatesType
  <2> QED
    BY <2>1, <2>2, StayKeepsSocket
<1>3. ASSUME NEW n, Read(n)
      PROVE  SocketInv'
  <2>1. /\ pc = "recv"
        /\ UNCHANGED <<convs, current, queue, socket, fds>>
        /\ pc' \in Fates(test')
    BY <1>3 DEF Read
  <2>2. pc' = "recv" \/ pc' \in Ended
    BY <2>1, FatesType
  <2> QED
    BY <2>1, <2>2, StayKeepsSocket
<1>4. CASE EndOfStream \/ IoFails
  <2>1. pc' \in Ended /\ UNCHANGED <<convs, current, queue, socket, fds>>
    BY <1>4 DEF EndOfStream, IoFails, Ended
  <2> QED
    BY <2>1, StayKeepsSocket
<1>5. CASE Answering \/ HangUp \/ UNCHANGED vars
  <2>1. UNCHANGED <<convs, current, queue, pc, socket, fds>>
    BY <1>5 DEF Answering, Answer, HangUp, client, vars
  <2> QED
    BY <2>1, StayKeepsSocket
<1> QED
  BY <1>1, <1>2, <1>3, <1>4, <1>5, SocketNextConversation, SocketConnect, SocketClose,
     SocketWrite, SocketReceived
  DEF Next, ClientStep, ClientFails

LEMMA SocketInit == Init => SocketInv
<1> SUFFICES ASSUME Init
             PROVE  SocketInv
  OBVIOUS
<1>1. CASE convs = <<>>
  BY <1>1 DEF Init, SocketInv, Running, Ended
<1>2. CASE convs # <<>>
  <2>1. /\ convs \in Captures /\ current = 1 /\ pc = "next"
        /\ queue = convs[1].queue
    BY <1>2 DEF Init
  <2>2. 1 \in DOMAIN convs
    <3>1. convs \in Seq(Conversation)
      BY <2>1, CapturesAssumption
    <3> QED
      BY <1>2, <3>1
  <2>3. /\ queue \in Seq([type : {"CONNECT", "SEND", "RECV", "CLOSE"}, data : Seq(Symbol)])
        /\ Script = queue
    BY <2>1, <2>2, ScriptType DEF Script
  <2>4. Position = 0
    BY <2>3 DEF Position
  <2>5. AtPosition
    BY <2>3, <2>4 DEF AtPosition
  <2>6. ~ConnectedBefore(Script, Position + 1)
    BY <2>4, NotConnectedAtStart
  <2> QED
    BY <2>1, <2>2, <2>3, <2>5, <2>6 DEF SocketInv, Running
<1> QED
  BY <1>1, <1>2

LEMMA SocketInvariant == Spec => []SocketInv
BY SocketInit, SocketNext, PTL DEF Spec

\* HttpReplayClient::replay checks socket_ nowhere: it never writes to, reads
\* from or closes a socket that is not open, whatever was recorded and however
\* often the server hangs up.
THEOREM SocketOpen == Spec => []SocketIsOpen
<1>1. SocketInv => SocketIsOpen
  <2>1. ASSUME SocketInv, pc = "next", queue # <<>>, Action.type # "CONNECT"
        PROVE  socket \in fds
    BY <2>1, SocketIsReady DEF Running
  <2>2. ASSUME SocketInv, pc = "recv"
        PROVE  socket \in fds
    <3>1. pc \in Running /\ queue # <<>> /\ Action.type # "CONNECT"
      BY <2>2 DEF SocketInv, Running
    <3> QED
      BY <2>2, <3>1, SocketIsReady
  <2> QED
    BY <2>1, <2>2 DEF SocketIsOpen
<1> QED
  BY <1>1, SocketInvariant, PTL

-----------------------------------------------------------------------------
(* Descriptors.                                                            *)

LEMMA LeastNatural ==
  ASSUME NEW T \in SUBSET Nat, T # {}
  PROVE  \E x \in T : \A y \in T : x <= y
<1>1. PICK x \in T : \A y \in T : <<y, x>> \notin OpToRel(<, Nat)
  BY WFMin, NatLessThanWellFounded, Zenon
<1>2. \A y \in T : ~(y < x)
  BY <1>1, Zenon DEF OpToRel
<1> QED
  BY <1>2

\* socket() returns a descriptor that is not in use.
LEMMA LowestUnusedIsNew ==
  ASSUME fds \subseteq Nat, IsFiniteSet(fds)
  PROVE  LowestUnused \in Nat /\ LowestUnused \notin fds
<1> DEFINE n == Cardinality(fds)
           T == (0 .. n) \ fds
<1>1. n \in Nat
  BY FS_CardinalityType
<1> HIDE DEF n
<1>2. T # {}
  <2>1. IsFiniteSet(0 .. n) /\ Cardinality(0 .. n) = n + 1
    <3>1. 0 \in Int /\ n \in Int
      BY <1>1
    <3>2. IsFiniteSet(0 .. n) /\ Cardinality(0 .. n) = IF 0 > n THEN 0 ELSE n - 0 + 1
      BY <3>1, FS_Interval, Zenon
    <3> QED
      BY <1>1, <3>2
  <2>2. ASSUME 0 .. n \subseteq fds PROVE FALSE
    <3>1. Cardinality(0 .. n) <= Cardinality(fds)
      BY <2>2, FS_Subset
    <3> QED
      BY <1>1, <2>1, <3>1 DEF n
  <2> QED
    BY <2>2
<1>3. PICK x \in T : \A y \in T : x <= y
  <2>1. T \in SUBSET Nat
    BY <1>1
  <2> HIDE DEF T
  <2> QED
    BY <1>2, <2>1, LeastNatural
<1>4. x \in 0 .. n /\ x \notin fds /\ \A m \in 0 .. x - 1 : m \in fds
  BY <1>1, <1>3
<1>5. LowestUnused = CHOOSE z \in 0 .. n : z \notin fds /\ \A m \in 0 .. z - 1 : m \in fds
  BY Zenon DEF LowestUnused, n
<1>6. LowestUnused \in 0 .. n /\ LowestUnused \notin fds
  BY <1>4, <1>5, Zenon
<1> QED
  BY <1>1, <1>6

LEMMA CarriedOutMember ==
  ASSUME NEW type, NEW x
  PROVE  x \in CarriedOut(type) <=>
           \E c \in 1 .. Least(current, Len(convs)) :
              \E i \in Positions(convs[c].queue, type) : i <= Done(c) /\ x = <<c, i>>
BY DEF CarriedOut, DoneIn

LEMMA CarriedOutMemberNext ==
  ASSUME NEW type, NEW x
  PROVE  x \in CarriedOut(type)' <=>
           \E c \in 1 .. Least(current', Len(convs')) :
              \E i \in Positions(convs'[c].queue, type) : i <= Done(c)' /\ x = <<c, i>>
BY DEF CarriedOut, DoneIn

\* The conversations begun are those up to current.
LEMMA Begun ==
  ASSUME SocketInv, pc \in Running
  PROVE  /\ current \in Nat /\ current >= 1 /\ current <= Len(convs)
         /\ Len(convs) \in Nat
         /\ Least(current, Len(convs)) = current
         /\ Done(current) = Position
         /\ \A c \in 1 .. current : c # current => Done(c) = Len(convs[c].queue)
<1>1. current \in 1 .. Len(convs) /\ Len(convs) \in Nat
  BY ScriptType DEF SocketInv
<1> QED
  BY <1>1 DEF Least, Done, Position, Script

LEMMA CarriedOutPop ==
  ASSUME SocketInv, pc \in Running, queue # <<>>, ActionPop, UNCHANGED <<convs, current>>,
         NEW type
  PROVE  /\ <<current, Position + 1>> \notin CarriedOut(type)
         /\ CarriedOut(type)' =
              IF Action.type = type THEN CarriedOut(type) \cup {<<current, Position + 1>>}
                                    ELSE CarriedOut(type)
<1> DEFINE new == <<current, Position + 1>>
           I == 1 .. current
<1>1. /\ Position \in Nat /\ Position' = Position + 1
      /\ Position + 1 \in 1 .. Len(Script)
      /\ Script[Position + 1] = Action
  BY PopMovesOn
<1>2. /\ current \in Nat /\ current >= 1
      /\ Least(current, Len(convs)) = current
      /\ Done(current) = Position
      /\ \A c \in I : c # current => Done(c) = Len(convs[c].queue)
  BY Begun
<1>3. \A c \in I : Done(c)' = IF c = current THEN Position + 1 ELSE Done(c)
  <2>1. \A c \in I : c # current => c < current
    BY <1>2
  <2> QED
    BY <1>1, <1>2, <2>1 DEF Done, Position, Script
<1>4. \A i : i \in Positions(Script, type) <=> i \in 1 .. Len(Script) /\ Script[i].type = type
  BY Zenon DEF Positions
<1>5. \A i \in Positions(Script, type) :
         i <= Position + 1 <=> i <= Position \/ i = Position + 1
  BY <1>1, <1>4
<1>6. Position + 1 \in Positions(Script, type) <=> Action.type = type
  BY <1>1, <1>4
<1>7. ~(Position + 1 <= Position)
  BY <1>1
<1>8. current \in I
  BY <1>2
<1> HIDE DEF I
<1>9. new \notin CarriedOut(type)
  <2> SUFFICES ASSUME NEW c, NEW i, i <= Done(c), new = <<c, i>>
               PROVE  FALSE
    BY CarriedOutMember, Zenon
  <2>1. c = current /\ i = Position + 1
    OBVIOUS
  <2> QED
    BY <1>2, <1>7, <2>1, Zenon
<1>10. \A x : x \in CarriedOut(type) <=>
          \E c \in I : \E i \in Positions(convs[c].queue, type) : i <= Done(c) /\ x = <<c, i>>
  <2>1. I = 1 .. Least(current, Len(convs))
    BY <1>2 DEF I
  <2> QED
    BY <2>1, CarriedOutMember
<1>11. \A x : x \in CarriedOut(type)' <=>
          \E c \in I : \E i \in Positions(convs[c].queue, type) : i <= Done(c)' /\ x = <<c, i>>
  <2>1. I = 1 .. Least(current', Len(convs'))
    BY <1>2 DEF I
  <2>2. convs' = convs
    OBVIOUS
  <2> QED
    BY <2>1, <2>2, CarriedOutMemberNext
<1>12. ASSUME NEW x, x \in CarriedOut(type)'
       PROVE  x \in CarriedOut(type) \/ (Action.type = type /\ x = new)
  <2>0. PICK c \in I : \E i \in Positions(convs[c].queue, type) : i <= Done(c)' /\ x = <<c, i>>
    BY <1>11, <1>12, Zenon
  <2>1. PICK i \in Positions(convs[c].queue, type) : i <= Done(c)' /\ x = <<c, i>>
    BY <2>0, Zenon
  <2>2. CASE c # current
    <3>1. i <= Done(c)
      BY <1>3, <2>1, <2>2, Zenon
    <3> QED
      BY <1>10, <2>1, <3>1, Zenon
  <2>3. CASE c = current
    <3>1. i \in Positions(Script, type) /\ i <= Position + 1
      BY <1>3, <2>1, <2>3, Zenon DEF Script
    <3>2. CASE i <= Position
      BY <1>2, <1>10, <2>1, <2>3, <3>2, Zenon
    <3>3. CASE i = Position + 1
      BY <1>6, <2>1, <2>3, <3>1, <3>3, Zenon
    <3> QED
      BY <1>5, <3>1, <3>2, <3>3, Zenon
  <2> QED
    BY <2>2, <2>3
<1>13. ASSUME NEW x, x \in CarriedOut(type)
       PROVE  x \in CarriedOut(type)'
  <2>0. PICK c \in I : \E i \in Positions(convs[c].queue, type) : i <= Done(c) /\ x = <<c, i>>
    BY <1>10, <1>13, Zenon
  <2>1. PICK i \in Positions(convs[c].queue, type) : i <= Done(c) /\ x = <<c, i>>
    BY <2>0, Zenon
  <2>2. i <= Done(c)'
    <3>1. CASE c # current
      BY <1>3, <2>1, <3>1, Zenon
    <3>2. CASE c = current
      BY <1>2, <1>3, <1>5, <2>1, <3>2, Zenon DEF Script
    <3> QED
      BY <3>1, <3>2
  <2> QED
    BY <1>11, <2>1, <2>2, Zenon
<1>14. ASSUME Action.type = type
       PROVE  new \in CarriedOut(type)'
  <2>1. Position + 1 <= Done(current)'
    BY <1>1, <1>3, <1>8
  <2>2. Position + 1 \in Positions(convs[current].queue, type)
    BY <1>6, <1>14 DEF Script
  <2> QED
    BY <1>8, <1>11, <2>1, <2>2, Zenon
<1> HIDE DEF new
<1>15. CarriedOut(type)' = IF Action.type = type THEN CarriedOut(type) \cup {new}
                                                ELSE CarriedOut(type)
  BY <1>12, <1>13, <1>14
<1> QED
  BY <1>9, <1>15 DEF new

LEMMA CarriedOutSame ==
  ASSUME UNCHANGED <<convs, current, queue>>, NEW type
  PROVE  CarriedOut(type)' = CarriedOut(type)
BY DEF CarriedOut, DoneIn, Done

\* Of the next conversation nothing has been carried out, of this one all.
LEMMA CarriedOutNextConversation ==
  ASSUME SocketInv, NextConversation, NEW type
  PROVE  CarriedOut(type)' = CarriedOut(type)
<1>1. pc \in Running /\ queue = <<>> /\ convs' = convs
  BY DEF NextConversation, Running
<1>2. /\ current \in Nat /\ current >= 1 /\ current <= Len(convs)
      /\ Len(convs) \in Nat
      /\ Least(current, Len(convs)) = current
      /\ \A c \in 1 .. current : c # current => Done(c) = Len(convs[c].queue)
  BY <1>1, Begun
<1>3. CASE ~(current < Len(convs))
  BY <1>3, CarriedOutSame DEF NextConversation
<1>4. CASE current < Len(convs)
  <2>1. /\ current' = current + 1 /\ queue' = convs[current + 1].queue
    BY <1>4 DEF NextConversation
  <2>2. Least(current', Len(convs')) = current + 1
    BY <1>1, <1>2, <1>4, <2>1 DEF Least
  <2>3. Len(convs[current].queue) \in Nat /\ Len(convs[current + 1].queue) \in Nat
    <3>1. current \in DOMAIN convs /\ current + 1 \in DOMAIN convs
      BY <1>2, <1>4, ScriptType, <1>1 DEF SocketInv
    <3> QED
      BY <3>1, ScriptType DEF SocketInv
  <2>4. Done(current) = Len(convs[current].queue)
    BY <1>1, <1>2, <2>3 DEF Done
  <2>5. Done(current)' = 0
    BY <1>1, <1>2, <2>1, <2>3 DEF Done
  <2>6. \A c \in 1 .. current : Done(c)' = Done(c)
    <3>1. \A c \in 1 .. current : c < current + 1
      BY <1>2
    <3>2. \A c \in 1 .. current : Done(c)' = Len(convs[c].queue)
      BY <1>1, <2>1, <3>1 DEF Done
    <3> QED
      BY <1>2, <2>4, <3>2
  <2>7. \A c : c \in 1 .. current + 1 <=> c \in 1 .. current \/ c = current + 1
    BY <1>2
  <2> DEFINE I == 1 .. current
             J == 1 .. current + 1
  <2>8. ASSUME NEW x
        PROVE  x \in CarriedOut(type) <=>
                 \E c \in I : \E i \in Positions(convs[c].queue, type) :
                    i <= Done(c) /\ x = <<c, i>>
    BY <1>2, CarriedOutMember
  <2>9. ASSUME NEW x
        PROVE  x \in CarriedOut(type)' <=>
                 \E c \in J : \E i \in Positions(convs[c].queue, type) :
                    i <= Done(c)' /\ x = <<c, i>>
    BY <1>1, <2>2, CarriedOutMemberNext
  <2>10. \A c : c \in J <=> c \in I \/ c = current + 1
    BY <2>7
  <2>11. \A c \in I : Done(c)' = Done(c)
    BY <2>6
  <2> HIDE DEF I, J
  <2>12. \A i \in Positions(convs[current + 1].queue, type) : ~(i <= Done(current)')
    <3>1. \A i \in Positions(convs[current + 1].queue, type) :
             i \in 1 .. Len(convs[current + 1].queue)
      BY DEF Positions
    <3> QED
      BY <2>3, <2>5, <3>1
  <2>13. ASSUME NEW x, x \in CarriedOut(type)'
         PROVE  x \in CarriedOut(type)
    <3>1. PICK c \in J : \E i \in Positions(convs[c].queue, type) :
                            i <= Done(c)' /\ x = <<c, i>>
      BY <2>9, <2>13, Zenon
    <3>2. c \in I
      <4>1. CASE c = current + 1
        <5>1. c = current'
          BY <2>1, <4>1
        <5> QED
          BY <2>12, <3>1, <4>1, <5>1, Zenon
      <4> QED
        BY <2>10, <4>1
    <3> QED
      BY <2>8, <2>11, <3>1, <3>2, Zenon
  <2>14. ASSUME NEW x, x \in CarriedOut(type)
         PROVE  x \in CarriedOut(type)'
    <3>1. PICK c \in I : \E i \in Positions(convs[c].queue, type) :
                            i <= Done(c) /\ x = <<c, i>>
      BY <2>8, <2>14, Zenon
    <3> QED
      BY <2>9, <2>10, <2>11, <3>1, Zenon
  <2> QED
    BY <2>13, <2>14
<1> QED
  BY <1>3, <1>4

\* Once a call has failed, a descriptor may be left that no action accounts for.
DescriptorInv ==
  /\ SocketInv
  /\ pc # "failed" =>
       /\ fds \subseteq Nat /\ IsFiniteSet(fds)
       /\ IsFiniteSet(CarriedOut("CONNECT"))
       /\ IsFiniteSet(CarriedOut("CLOSE"))
       /\ DescriptorsAreAccountedFor

LEMMA DescriptorConnect ==
  ASSUME DescriptorInv, Connect
  PROVE  DescriptorInv'
<1>1. /\ SocketInv /\ SocketInv' /\ pc \in Running /\ pc # "failed" /\ pc' = pc /\ queue # <<>>
      /\ ActionPop /\ UNCHANGED <<convs, current>> /\ Action.type = "CONNECT"
      /\ fds' = fds \cup {LowestUnused}
  BY SocketConnect DEF Connect, AtAction, Running, Action, DescriptorInv
<1> DEFINE new == <<current, Position + 1>>
<1>2. /\ new \notin CarriedOut("CONNECT")
      /\ CarriedOut("CONNECT")' = CarriedOut("CONNECT") \cup {new}
      /\ CarriedOut("CLOSE")' = CarriedOut("CLOSE")
  BY <1>1, CarriedOutPop
<1>3. /\ fds \subseteq Nat /\ IsFiniteSet(fds)
      /\ IsFiniteSet(CarriedOut("CONNECT")) /\ IsFiniteSet(CarriedOut("CLOSE"))
      /\ Cardinality(fds) + Cardinality(CarriedOut("CLOSE")) = Cardinality(CarriedOut("CONNECT"))
  BY <1>1 DEF DescriptorInv, DescriptorsAreAccountedFor
<1>4. LowestUnused \in Nat /\ LowestUnused \notin fds
  BY <1>3, LowestUnusedIsNew
<1> HIDE DEF new
<1>5. /\ IsFiniteSet(fds') /\ Cardinality(fds') = Cardinality(fds) + 1
      /\ IsFiniteSet(CarriedOut("CONNECT")')
      /\ Cardinality(CarriedOut("CONNECT")') = Cardinality(CarriedOut("CONNECT")) + 1
  BY <1>1, <1>2, <1>3, <1>4, FS_AddElement
<1>6. Cardinality(fds) \in Nat /\ Cardinality(CarriedOut("CLOSE")) \in Nat
  BY <1>3, FS_CardinalityType
<1>7. Cardinality(fds') + Cardinality(CarriedOut("CLOSE")') = Cardinality(CarriedOut("CONNECT")')
  BY <1>2, <1>3, <1>5, <1>6
<1> QED
  BY <1>1, <1>2, <1>3, <1>4, <1>5, <1>7 DEF DescriptorInv, DescriptorsAreAccountedFor

LEMMA DescriptorClose ==
  ASSUME DescriptorInv, Close
  PROVE  DescriptorInv'
<1>1. /\ SocketInv /\ SocketInv' /\ pc \in Running /\ pc # "failed" /\ pc' = pc /\ queue # <<>>
      /\ ActionPop /\ UNCHANGED <<convs, current>> /\ Action.type = "CLOSE"
      /\ fds' = fds \ {socket}
  BY SocketClose DEF Close, AtAction, Running, Action, DescriptorInv
<1> DEFINE new == <<current, Position + 1>>
<1>2. /\ new \notin CarriedOut("CLOSE")
      /\ CarriedOut("CLOSE")' = CarriedOut("CLOSE") \cup {new}
      /\ CarriedOut("CONNECT")' = CarriedOut("CONNECT")
  BY <1>1, CarriedOutPop
<1>3. /\ fds \subseteq Nat /\ IsFiniteSet(fds)
      /\ IsFiniteSet(CarriedOut("CONNECT")) /\ IsFiniteSet(CarriedOut("CLOSE"))
      /\ Cardinality(fds) + Cardinality(CarriedOut("CLOSE")) = Cardinality(CarriedOut("CONNECT"))
  BY <1>1 DEF DescriptorInv, DescriptorsAreAccountedFor
<1>4. socket \in fds
  BY <1>1, SocketIsReady
<1> HIDE DEF new
<1>5. /\ IsFiniteSet(fds') /\ Cardinality(fds') = Cardinality(fds) - 1
      /\ IsFiniteSet(CarriedOut("CLOSE")')
      /\ Cardinality(CarriedOut("CLOSE")') = Cardinality(CarriedOut("CLOSE")) + 1
  BY <1>1, <1>2, <1>3, <1>4, FS_AddElement, FS_RemoveElement
<1>6. Cardinality(fds) \in Nat /\ Cardinality(CarriedOut("CLOSE")) \in Nat
  BY <1>3, FS_CardinalityType
<1>7. Cardinality(fds') + Cardinality(CarriedOut("CLOSE")') = Cardinality(CarriedOut("CONNECT")')
  BY <1>2, <1>3, <1>5, <1>6
<1> QED
  BY <1>1, <1>2, <1>3, <1>5, <1>7 DEF DescriptorInv, DescriptorsAreAccountedFor

\* No other step opens or closes a descriptor, or carries out one of the two
\* actions.
LEMMA DescriptorOthers ==
  ASSUME DescriptorInv, SocketInv', pc' # "failed", pc # "failed", UNCHANGED fds,
         CarriedOut("CONNECT")' = CarriedOut("CONNECT"),
         CarriedOut("CLOSE")' = CarriedOut("CLOSE")
  PROVE  DescriptorInv'
BY DEF DescriptorInv, DescriptorsAreAccountedFor

LEMMA DescriptorNext ==
  ASSUME DescriptorInv, [Next]_vars
  PROVE  DescriptorInv'
<1>1. SocketInv /\ SocketInv'
  BY SocketNext DEF DescriptorInv
<1>2. CASE pc' = "failed"
  BY <1>1, <1>2 DEF DescriptorInv
<1>3. CASE UNCHANGED vars
  BY <1>1, <1>3, CarriedOutSame DEF vars, client, DescriptorInv, DescriptorsAreAccountedFor
<1>4. ASSUME Next, pc' # "failed"
      PROVE  DescriptorInv'
  <2>1. pc # "failed"
    BY <1>4 DEF Next, ClientStep, ClientFails, NextConversation, Connect, Close, Read, Write,
                Expect, EndOfStream, Received, ConnectFails, IoFails, AtAction, Answering,
                Answer, HangUp, Running
  <2>2. CASE NextConversation
    <3>1. UNCHANGED fds
      BY <2>2 DEF NextConversation
    <3> QED
      BY <1>1, <1>4, <2>1, <2>2, <3>1, CarriedOutNextConversation, DescriptorOthers
  <2>3. CASE /\ ActionPop /\ pc \in Running /\ queue # <<>>
             /\ Action.type \in {"SEND", "RECV"} /\ UNCHANGED <<convs, current, fds>>
    <3>1. /\ CarriedOut("CONNECT")' = CarriedOut("CONNECT")
          /\ CarriedOut("CLOSE")' = CarriedOut("CLOSE")
      BY <1>1, <2>3, CarriedOutPop
    <3> QED
      BY <1>1, <1>4, <2>1, <2>3, <3>1, DescriptorOthers
  <2>4. CASE UNCHANGED <<convs, current, queue, fds>>
    BY <1>1, <1>4, <2>1, <2>4, CarriedOutSame, DescriptorOthers
  <2>5. ASSUME NEW n, Write(n)
        PROVE  DescriptorInv'
    <3>1. /\ pc \in Running /\ queue # <<>> /\ Action.type = "SEND"
          /\ UNCHANGED <<convs, current, fds>>
          /\ ActionPop \/ UNCHANGED queue
      BY <2>5 DEF Write, AtAction, Running, Action
    <3> QED
      BY <2>3, <2>4, <3>1
  <2>6. CASE Received
    <3>1. /\ pc = "recv" /\ pc \in Running
          /\ UNCHANGED <<convs, current, fds>>
          /\ ActionPop \/ UNCHANGED queue
      BY <2>6 DEF Received, Running
    <3>2. queue # <<>> /\ Action.type = "RECV"
      BY <1>1, <3>1 DEF SocketInv
    <3> QED
      BY <2>3, <2>4, <3>1, <3>2
  <2>7. ASSUME NEW n, Read(n)
        PROVE  DescriptorInv'
    BY <2>4, <2>7 DEF Read
  <2>8. CASE ConnectFails
    BY <1>4, <2>8 DEF ConnectFails
  <2>9. CASE Expect \/ EndOfStream \/ IoFails
    BY <2>4, <2>9 DEF Expect, EndOfStream, IoFails
  <2>10. CASE Answering \/ HangUp
    BY <2>4, <2>10 DEF Answering, Answer, HangUp, client
  <2> QED
    BY <1>4, <2>2, <2>5, <2>6, <2>7, <2>8, <2>9, <2>10, DescriptorConnect, DescriptorClose
    DEF Next, ClientStep, ClientFails
<1> QED
  BY <1>2, <1>3, <1>4

LEMMA DescriptorInit == Init => DescriptorInv
<1> SUFFICES ASSUME Init
             PROVE  DescriptorInv
  OBVIOUS
<1>1. SocketInv /\ fds = {}
  BY SocketInit DEF Init
<1>2. ASSUME NEW type
      PROVE  CarriedOut(type) = {}
  <2> SUFFICES ASSUME NEW c \in 1 .. Least(current, Len(convs)),
                      NEW i \in Positions(convs[c].queue, type), i <= Done(c)
               PROVE  FALSE
    BY CarriedOutMember
  <2>1. Len(convs) \in Nat
    <3>1. convs \in Seq(Conversation)
      BY CapturesAssumption DEF Init
    <3> QED
      BY <3>1
  <2>2. current = 1
    BY DEF Init
  <2>3. c = 1 /\ convs # <<>>
    BY <2>1, <2>2 DEF Least
  <2>4. Done(c) = 0
    <3>1. queue = convs[1].queue /\ 1 \in DOMAIN convs /\ convs \in Captures
      <4>1. convs \in Seq(Conversation)
        BY CapturesAssumption DEF Init
      <4> QED
        BY <2>3, <4>1 DEF Init
    <3>2. Len(queue) \in Nat
      BY <3>1, ScriptType
    <3> QED
      BY <2>2, <2>3, <3>1, <3>2 DEF Done
  <2>5. i \in 1 .. Len(convs[c].queue)
    BY DEF Positions
  <2> QED
    BY <2>4, <2>5
<1>3. Cardinality({}) = 0 /\ IsFiniteSet({})
  BY FS_EmptySet
<1> QED
  BY <1>1, <1>2, <1>3 DEF DescriptorInv, DescriptorsAreAccountedFor

\* http_replay.cc: the program holds exactly one descriptor for each CONNECT
\* that no CLOSE has followed, over all conversations, and closes none of
\* another connection; what is left open is what was recorded without a CLOSE.
THEOREM DescriptorsAccounted == Spec => []DescriptorsAreAccountedFor
<1>1. DescriptorInv => DescriptorsAreAccountedFor
  BY DEF DescriptorInv, DescriptorsAreAccountedFor
<1> QED
  BY <1>1, DescriptorInit, DescriptorNext, PTL DEF Spec

-----------------------------------------------------------------------------
(* Cutting sequences.                                                      *)

LEMMA LeastFacts ==
  \A m, n \in Int :
    /\ Least(m, n) \in Int /\ Least(m, n) <= m /\ Least(m, n) <= n
    /\ Least(m, n) = m \/ Least(m, n) = n
BY DEF Least

LEMMA TakeFacts ==
  ASSUME NEW S, NEW s \in Seq(S), NEW n \in Int, n <= Len(s)
  PROVE  /\ SubSeq(s, 1, n) \in Seq(S)
         /\ Len(SubSeq(s, 1, n)) = IF n < 0 THEN 0 ELSE n
         /\ \A i \in 1 .. n : SubSeq(s, 1, n)[i] = s[i]
<1>1. \A i \in 1 .. n : i \in 1 .. Len(s)
  OBVIOUS
<1>2. \A i \in 1 .. n : s[i] \in S
  BY <1>1, ElementOfSeq
<1> QED
  BY <1>2, SubSeqProperties

LEMMA DropFacts ==
  ASSUME NEW S, NEW s \in Seq(S), NEW n \in Nat
  PROVE  /\ Drop(s, n) \in Seq(S)
         /\ Len(Drop(s, n)) = IF n > Len(s) THEN 0 ELSE Len(s) - n
         /\ \A i \in 1 .. Len(s) - n : Drop(s, n)[i] = s[i + n]
<1>1. Len(s) \in Nat
  OBVIOUS
<1>2. \A i \in n + 1 .. Len(s) : s[i] \in S
  BY <1>1, ElementOfSeq
<1>3. /\ SubSeq(s, n + 1, Len(s)) \in Seq(S)
      /\ Len(SubSeq(s, n + 1, Len(s))) = IF n + 1 <= Len(s) THEN Len(s) - (n + 1) + 1 ELSE 0
      /\ \A i \in 1 .. Len(s) - (n + 1) + 1 : SubSeq(s, n + 1, Len(s))[i] = s[n + 1 + i - 1]
  BY <1>1, <1>2, SubSeqProperties
<1>4. Len(s) - (n + 1) + 1 = Len(s) - n /\ \A i \in Int : n + 1 + i - 1 = i + n
  BY <1>1
<1> QED
  BY <1>1, <1>3, <1>4 DEF Drop


LEMMA TakeThenDrop ==
  ASSUME NEW S, NEW s \in Seq(S), NEW n \in Nat, n <= Len(s)
  PROVE  s = SubSeq(s, 1, n) \o Drop(s, n)
<1>a. PICK x, y, z : x = SubSeq(s, 1, n) /\ y = Drop(s, n) /\ z = x \o y
  OBVIOUS
<1>1. /\ x \in Seq(S) /\ Len(x) = n /\ \A i \in 1 .. n : x[i] = s[i]
  BY <1>a, TakeFacts
<1>2. /\ y \in Seq(S) /\ Len(y) = Len(s) - n
      /\ \A i \in 1 .. Len(s) - n : y[i] = s[i + n]
  <2>1. Len(s) \in Nat /\ ~(n > Len(s)) /\ y = Drop(s, n)
    BY <1>a
  <2>2. /\ Drop(s, n) \in Seq(S)
        /\ Len(Drop(s, n)) = IF n > Len(s) THEN 0 ELSE Len(s) - n
        /\ \A i \in 1 .. Len(s) - n : Drop(s, n)[i] = s[i + n]
    BY DropFacts
  <2> QED
    BY <2>1, <2>2
<1>3. IsConcat(S, x, y, z)
  BY <1>1, <1>2, <1>a, IsConcatFacts, Zenon
<1>4. Len(s) \in Nat
  OBVIOUS
<1>5. z \in Seq(S) /\ Len(z) = Len(s)
  BY <1>1, <1>2, <1>3, <1>4 DEF IsConcat
<1>6. ASSUME NEW i \in 1 .. Len(s)
      PROVE  z[i] = s[i]
  <2>1. z[i] = IF i <= n THEN x[i] ELSE y[i - n]
    BY <1>1, <1>2, <1>3, <1>4 DEF IsConcat
  <2>2. CASE i <= n
    BY <1>1, <2>1, <2>2
  <2>3. CASE ~(i <= n)
    <3>1. i - n \in 1 .. Len(s) - n /\ (i - n) + n = i
      BY <1>4, <2>3
    <3> QED
      BY <1>2, <2>1, <2>3, <3>1
  <2> QED
    BY <2>2, <2>3
<1>7. s = z
  BY <1>4, <1>5, <1>6, SeqEqual
<1> QED
  BY <1>7, <1>a

\* The beginning of a concatenation, and the rest.
LEMMA DropConcat ==
  ASSUME NEW S, NEW s \in Seq(S), NEW t \in Seq(S), NEW n \in Nat, n <= Len(s)
  PROVE  Drop(s \o t, n) = Drop(s, n) \o t
<1>a. PICK x, y, z, w : x = s \o t /\ y = Drop(x, n) /\ z = Drop(s, n) /\ w = z \o t
  OBVIOUS
<1>1. IsConcat(S, s, t, x)
  BY <1>a, IsConcatFacts, Zenon
<1>2. Len(s) \in Nat /\ Len(t) \in Nat /\ x \in Seq(S) /\ Len(x) = Len(s) + Len(t)
  BY <1>1 DEF IsConcat
<1>3. /\ y \in Seq(S) /\ Len(y) = Len(s) + Len(t) - n
      /\ \A i \in 1 .. Len(s) + Len(t) - n : y[i] = x[i + n]
  <2>1. y = Drop(x, n) /\ ~(n > Len(x))
    BY <1>2, <1>a
  <2>2. /\ Drop(x, n) \in Seq(S)
        /\ Len(Drop(x, n)) = IF n > Len(x) THEN 0 ELSE Len(x) - n
        /\ \A i \in 1 .. Len(x) - n : Drop(x, n)[i] = x[i + n]
    BY <1>2, DropFacts
  <2> QED
    BY <1>2, <2>1, <2>2
<1>4. /\ z \in Seq(S) /\ Len(z) = Len(s) - n
      /\ \A i \in 1 .. Len(s) - n : z[i] = s[i + n]
  <2>1. z = Drop(s, n) /\ ~(n > Len(s))
    BY <1>2, <1>a
  <2> QED
    BY <1>2, <2>1, DropFacts
<1>5. IsConcat(S, z, t, w)
  BY <1>4, <1>a, IsConcatFacts, Zenon
<1>6. w \in Seq(S) /\ Len(w) = Len(s) + Len(t) - n
  BY <1>2, <1>4, <1>5 DEF IsConcat
<1>7. ASSUME NEW i \in 1 .. Len(s) + Len(t) - n
      PROVE  y[i] = w[i]
  <2>1. y[i] = x[i + n]
    BY <1>3
  <2>2. x[i + n] = IF i + n <= Len(s) THEN s[i + n] ELSE t[(i + n) - Len(s)]
    <3>1. i + n \in 1 .. Len(s) + Len(t)
      BY <1>2
    <3> QED
      BY <1>1, <3>1 DEF IsConcat
  <2>3. w[i] = IF i <= Len(s) - n THEN z[i] ELSE t[i - (Len(s) - n)]
    <3>1. i \in 1 .. Len(z) + Len(t)
      BY <1>2, <1>4
    <3> QED
      BY <1>4, <1>5, <3>1 DEF IsConcat
  <2>4. (i + n) - Len(s) = i - (Len(s) - n) /\ (i + n <= Len(s) <=> i <= Len(s) - n)
    BY <1>2
  <2>5. CASE i <= Len(s) - n
    <3>1. i \in 1 .. Len(s) - n
      BY <1>2, <2>5
    <3> QED
      BY <1>4, <2>1, <2>2, <2>3, <2>4, <2>5, <3>1
  <2>6. CASE ~(i <= Len(s) - n)
    BY <2>1, <2>2, <2>3, <2>4, <2>6
  <2> QED
    BY <2>5, <2>6
<1>8. y = w
  BY <1>2, <1>3, <1>6, <1>7, SeqEqual
<1> QED
  BY <1>8, <1>a

\* What Find returns.
Occurs(s, t, i) == SubSeq(s, i + 1, i + Len(t)) = t

LEMMA FindFacts ==
  ASSUME NEW s, Len(s) \in Nat, NEW t, Len(t) \in Nat, NEW start \in Nat
  PROVE  \/ /\ Find(s, t, start) \in start .. Len(s) - Len(t)
            /\ Occurs(s, t, Find(s, t, start))
            /\ \A i \in start .. Len(s) - Len(t) : Occurs(s, t, i) => Find(s, t, start) <= i
         \/ /\ Find(s, t, start) = NotFound
            /\ \A i \in start .. Len(s) - Len(t) : ~Occurs(s, t, i)
<1>a. PICK at : at = {i \in start .. Len(s) - Len(t) : Occurs(s, t, i)}
  OBVIOUS
<1>1. Find(s, t, start) = IF at = {} THEN NotFound
                          ELSE CHOOSE i \in at : \A j \in at : i <= j
  BY <1>a DEF Find, Occurs
<1>2. CASE at = {}
  BY <1>1, <1>2, <1>a
<1>3. CASE at # {}
  <2>1. at \subseteq Nat
    BY <1>a
  <2>3. \E x \in at : \A y \in at : x <= y
    BY <1>3, <2>1, LeastNatural
  <2>c. PICK f : f = Find(s, t, start)
    OBVIOUS
  <2>4. f = CHOOSE i \in at : \A j \in at : i <= j
    BY <1>1, <1>3, <2>c
  <2>5. f \in at /\ \A j \in at : f <= j
    BY <2>3, <2>4, Zenon
  <2> QED
    BY <2>5, <2>c, <1>a
<1> QED
  BY <1>2, <1>3

-----------------------------------------------------------------------------
(* The payload processors: types, and that the loop ends.                  *)

LEMMA ReadSizeType ==
  ASSUME NEW d \in ChunkedProcessor, d.chunk_size < 0,
         NEW data \in Seq(Symbol), data # <<>>,
         NEW step, step = ReadSize(d, data)
  PROVE  /\ step[1] \in ChunkedProcessor /\ step[2] \in Seq(Symbol) /\ step[3] \in BOOLEAN
         /\ step[3] => Len(step[2]) < Len(data)
<1>0. d \in PayloadProcessor /\ d.type = "chunked" /\ d.chunk_read = 0
  BY DEF ChunkedProcessor, PayloadProcessor
<1>1. /\ Len(data) \in Nat /\ Len(data) # 0
      /\ d.tmp_buf \in Seq(Symbol) /\ Len(d.tmp_buf) \in Nat /\ TMPSIZ \in Nat
  BY <1>0, EmptySeq, TmpSizAssumption DEF PayloadProcessor
<1>a. PICK n, buf : /\ n = Least(Len(data), TMPSIZ - Len(d.tmp_buf))
                    /\ buf = d.tmp_buf \o SubSeq(data, 1, n)
  OBVIOUS
<1>2. n \in Int /\ n <= Len(data)
  <2>a. PICK x, y : x = Len(data) /\ y = TMPSIZ - Len(d.tmp_buf)
    OBVIOUS
  <2>1. x \in Int /\ y \in Int
    BY <1>1, <2>a
  <2> QED
    BY <1>a, <2>1, <2>a, LeastFacts
<1>3. buf \in Seq(Symbol)
  <2>1. SubSeq(data, 1, n) \in Seq(Symbol)
    BY <1>2, TakeFacts
  <2> QED
    BY <1>1, <1>a, <2>1, ConcatProperties
<1>4. Drop(data, 3) \in Seq(Symbol) /\ Len(Drop(data, 3)) < Len(data)
  <2>1. /\ Drop(data, 3) \in Seq(Symbol)
        /\ Len(Drop(data, 3)) = IF 3 > Len(data) THEN 0 ELSE Len(data) - 3
    <3>1. 3 \in Nat
      OBVIOUS
    <3> QED
      BY <3>1, DropFacts
  <2> QED
    BY <1>1, <2>1
<1>5. step = IF Find(buf, <<CR, LF>>, 0) # NotFound
             THEN IF buf[1].kind = "size"
                  THEN <<[d EXCEPT !.tmp_buf = buf, !.chunk_size = buf[1].val],
                         Drop(data, 3), TRUE>>
                  ELSE <<[d EXCEPT !.fate = "throw"], data, FALSE>>
             ELSE IF Len(buf) = TMPSIZ
             THEN <<[d EXCEPT !.fate = "throw"], data, FALSE>>
             ELSE <<[d EXCEPT !.tmp_buf = buf], data, FALSE>>
  BY <1>a DEF ReadSize
<1>6. [d EXCEPT !.fate = "throw"] \in ChunkedProcessor
  BY <1>0 DEF ChunkedProcessor, PayloadProcessor
<1>7. [d EXCEPT !.tmp_buf = buf] \in ChunkedProcessor
  BY <1>0, <1>3 DEF ChunkedProcessor, PayloadProcessor
<1>8. CASE Find(buf, <<CR, LF>>, 0) # NotFound /\ buf[1].kind = "size"
  <2>1. buf[1] \in Symbol
    <3>a. PICK t : t = <<CR, LF>>
      OBVIOUS
    <3>1. Len(buf) \in Nat /\ Len(t) = 2
      BY <1>3, <3>a
    <3>2. Find(buf, t, 0) \in 0 .. Len(buf) - Len(t)
      BY <1>8, <3>1, <3>a, FindFacts
    <3>3. 1 \in 1 .. Len(buf)
      BY <3>1, <3>2
    <3> QED
      BY <1>3, <3>3, ElementOfSeq
  <2>2. buf[1].val \in Nat
    BY <1>8, <2>1 DEF Symbol
  <2>3. [d EXCEPT !.tmp_buf = buf, !.chunk_size = buf[1].val] \in ChunkedProcessor
    <3>a. PICK v, e : v = buf[1].val /\ e = [d EXCEPT !.tmp_buf = buf, !.chunk_size = v]
      OBVIOUS
    <3>1. e \in PayloadProcessor
      BY <1>0, <1>3, <2>2, <3>a DEF PayloadProcessor
    <3>2. e.type = "chunked" /\ e.chunk_read = 0 /\ e.chunk_size = v
      BY <1>0, <3>a DEF PayloadProcessor
    <3>3. v \in Nat
      BY <2>2, <3>a
    <3>4. e \in ChunkedProcessor
      BY <3>1, <3>2, <3>3 DEF ChunkedProcessor
    <3> QED
      BY <3>4, <3>a
  <2> QED
    BY <1>4, <1>5, <1>8, <2>3
<1>9. CASE ~(Find(buf, <<CR, LF>>, 0) # NotFound /\ buf[1].kind = "size")
  BY <1>5, <1>6, <1>7, <1>9
<1> QED
  BY <1>8, <1>9

LEMMA ReadEndType ==
  ASSUME NEW d \in ChunkedProcessor, d.chunk_size = d.chunk_read,
         NEW data \in Seq(Symbol), data # <<>>,
         NEW step, step = ReadEnd(d, data)
  PROVE  /\ step[1] \in ChunkedProcessor /\ step[2] \in Seq(Symbol) /\ step[3] \in BOOLEAN
         /\ step[3] => Len(step[2]) < Len(data)
<1>0. /\ d \in PayloadProcessor /\ d.type = "chunked" /\ d.chunk_size \in Nat
      /\ d.chunk_read \in Nat
  BY DEF ChunkedProcessor, PayloadProcessor
<1>1. Len(data) \in Nat /\ Len(data) # 0
  BY EmptySeq
<1>2. Drop(data, 1) \in Seq(Symbol) /\ Len(Drop(data, 1)) < Len(data)
  BY <1>1, DropFacts
<1>3. /\ [d EXCEPT !.fate = "throw"] \in ChunkedProcessor
      /\ [d EXCEPT !.end_chars = 1] \in ChunkedProcessor
      /\ [d EXCEPT !.complete = TRUE] \in ChunkedProcessor
  BY <1>0 DEF ChunkedProcessor, PayloadProcessor
<1>4. [d EXCEPT !.chunk_size = -1, !.chunk_read = 0, !.tmp_buf = <<>>,
                !.end_chars = 0] \in ChunkedProcessor
  <2>a. PICK b, e : /\ b = <<>>
                    /\ e = [d EXCEPT !.chunk_size = -1, !.chunk_read = 0, !.tmp_buf = b,
                                      !.end_chars = 0]
    OBVIOUS
  <2>1. b \in Seq(Symbol)
    BY <2>a
  <2>2. e \in PayloadProcessor
    BY <1>0, <2>1, <2>a DEF PayloadProcessor
  <2>3. e.type = "chunked" /\ e.chunk_read = 0 /\ e.chunk_size = -1
    BY <1>0, <2>a DEF PayloadProcessor
  <2>4. e \in ChunkedProcessor
    BY <2>2, <2>3 DEF ChunkedProcessor
  <2> QED
    BY <2>4, <2>a
<1> QED
  BY <1>2, <1>3, <1>4 DEF ReadEnd

LEMMA ReadChunkType ==
  ASSUME NEW d \in ChunkedProcessor, ~(d.chunk_size < 0), d.chunk_size # d.chunk_read,
         NEW data \in Seq(Symbol), data # <<>>,
         NEW step, step = ReadChunk(d, data)
  PROVE  /\ step[1] \in ChunkedProcessor /\ step[2] \in Seq(Symbol) /\ step[3] \in BOOLEAN
         /\ step[3] => Len(step[2]) < Len(data)
<1>0. /\ d \in PayloadProcessor /\ d.type = "chunked" /\ d.chunk_size \in Nat
      /\ d.chunk_read \in Nat /\ d.chunk_read < d.chunk_size
      /\ d.payload \in Seq(Symbol)
  BY DEF ChunkedProcessor, PayloadProcessor
<1>1. Len(data) \in Nat /\ Len(data) # 0
  BY EmptySeq
<1>a. PICK n : n = Least(Len(data), d.chunk_size - d.chunk_read)
  OBVIOUS
<1>2. n \in Nat /\ n # 0 /\ n <= Len(data) /\ n <= d.chunk_size - d.chunk_read
  <2>a. PICK x, y : x = Len(data) /\ y = d.chunk_size - d.chunk_read
    OBVIOUS
  <2>1. x \in Int /\ y \in Int /\ x > 0 /\ y > 0
    BY <1>0, <1>1, <2>a
  <2>2. n \in Int /\ n <= x /\ n <= y /\ (n = x \/ n = y)
    BY <1>a, <2>1, <2>a, LeastFacts
  <2> QED
    BY <2>1, <2>2, <2>a
<1>3. Drop(data, n) \in Seq(Symbol) /\ Len(Drop(data, n)) < Len(data)
  BY <1>1, <1>2, DropFacts
<1>4. d.payload \o SubSeq(data, 1, n) \in Seq(Symbol)
  <2>1. SubSeq(data, 1, n) \in Seq(Symbol)
    BY <1>2, TakeFacts
  <2> QED
    BY <1>0, <2>1, ConcatProperties
<1>5. /\ d.chunk_read + n \in Nat /\ d.chunk_read + n <= d.chunk_size
  BY <1>0, <1>2
<1>6. [d EXCEPT !.payload = d.payload \o SubSeq(data, 1, n),
                !.chunk_read = d.chunk_read + n] \in ChunkedProcessor
  BY <1>0, <1>4, <1>5 DEF ChunkedProcessor, PayloadProcessor
<1>7. step = <<[d EXCEPT !.payload = d.payload \o SubSeq(data, 1, n),
                         !.chunk_read = d.chunk_read + n], Drop(data, n), TRUE>>
  BY <1>0, <1>a DEF ReadChunk
<1> QED
  BY <1>3, <1>6, <1>7

LEMMA ChunkStepType ==
  ASSUME NEW d \in ChunkedProcessor, NEW data \in Seq(Symbol), data # <<>>,
         NEW step, step = ChunkStep(d, data)
  PROVE  /\ step[1] \in ChunkedProcessor /\ step[2] \in Seq(Symbol) /\ step[3] \in BOOLEAN
         /\ step[3] => Len(step[2]) < Len(data)
<1>0. d.chunk_size \in Int /\ d.chunk_read \in Nat
  BY DEF ChunkedProcessor, PayloadProcessor
<1>1. CASE d.chunk_size < 0
  <2>1. step = ReadSize(d, data)
    BY <1>0, <1>1 DEF ChunkStep
  <2> QED
    BY <1>1, <2>1, ReadSizeType
<1>2. CASE ~(d.chunk_size < 0) /\ d.chunk_size = d.chunk_read
  <2>1. step = ReadEnd(d, data)
    BY <1>2 DEF ChunkStep
  <2> QED
    BY <1>2, <2>1, ReadEndType
<1>3. CASE ~(d.chunk_size < 0) /\ d.chunk_size # d.chunk_read
  <2>1. step = ReadChunk(d, data)
    BY <1>3 DEF ChunkStep
  <2> QED
    BY <1>3, <2>1, ReadChunkType
<1> QED
  BY <1>1, <1>2, <1>3


-----------------------------------------------------------------------------
(* The loop of ChunkedProcessor::process is a function of what it is       *)
(* called with.                                                            *)

Calls == ChunkedProcessor \X Seq(Symbol)

GoesOn    == [call \in Calls |-> call[2] # <<>> /\ ChunkStep(call[1], call[2])[3]]
NextCall  == [call \in Calls |-> <<ChunkStep(call[1], call[2])[1], ChunkStep(call[1], call[2])[2]>>]
EndOfLoop == [call \in Calls |-> IF call[2] = <<>> THEN call[1] ELSE ChunkStep(call[1], call[2])[1]]
DataLeft  == [call \in Calls |-> Len(call[2])]

LEMMA EachStepUsesData == UsesUp(Calls, GoesOn, NextCall, DataLeft)
<1>1. DataLeft \in [Calls -> Nat]
  BY DEF DataLeft, Calls
<1>2. ASSUME NEW call \in Calls, GoesOn[call]
      PROVE  NextCall[call] \in Calls /\ DataLeft[NextCall[call]] < DataLeft[call]
  <2>a. PICK d, data, step : d = call[1] /\ data = call[2] /\ step = ChunkStep(d, data)
    OBVIOUS
  <2>1. d \in ChunkedProcessor /\ data \in Seq(Symbol) /\ data # <<>> /\ step[3]
    BY <1>2, <2>a DEF GoesOn, Calls
  <2>2. step[1] \in ChunkedProcessor /\ step[2] \in Seq(Symbol) /\ Len(step[2]) < Len(data)
    BY <2>1, <2>a, ChunkStepType
  <2>3. NextCall[call] = <<step[1], step[2]>>
    BY <2>a DEF NextCall
  <2> QED
    BY <2>2, <2>3, <2>a DEF DataLeft, Calls
<1> QED
  BY <1>1, <1>2 DEF UsesUp

Processing(f) ==
  f = [call \in ChunkedProcessor \X Seq(Symbol) |->
         IF call[2] = <<>> THEN call[1]
         ELSE LET step == ChunkStep(call[1], call[2])
              IN  IF step[3] THEN f[<<step[1], step[2]>>] ELSE step[1]]

LEMMA ProcessingIsLoop ==
  \A f : Processing(f) <=> Loop(Calls, GoesOn, NextCall, EndOfLoop, f)
<1> SUFFICES ASSUME NEW f
             PROVE  Processing(f) <=> Loop(Calls, GoesOn, NextCall, EndOfLoop, f)
  OBVIOUS
<1>a. PICK g, h :
        /\ g = [call \in Calls |->
                  IF GoesOn[call] THEN f[NextCall[call]] ELSE EndOfLoop[call]]
        /\ h = [call \in Calls |->
                  IF call[2] = <<>> THEN call[1]
                  ELSE IF ChunkStep(call[1], call[2])[3]
                  THEN f[<<ChunkStep(call[1], call[2])[1], ChunkStep(call[1], call[2])[2]>>]
                  ELSE ChunkStep(call[1], call[2])[1]]
  OBVIOUS
<1>1. ASSUME NEW call \in Calls
      PROVE  g[call] = h[call]
  <2>1. /\ GoesOn[call] = (call[2] # <<>> /\ ChunkStep(call[1], call[2])[3])
        /\ NextCall[call] = <<ChunkStep(call[1], call[2])[1], ChunkStep(call[1], call[2])[2]>>
        /\ EndOfLoop[call] = IF call[2] = <<>> THEN call[1] ELSE ChunkStep(call[1], call[2])[1]
    BY DEF GoesOn, NextCall, EndOfLoop
  <2> QED
    BY <1>a, <2>1
<1>2. g = h
  BY <1>1, <1>a
<1>3. Processing(f) <=> f = h
  BY <1>a, Zenon DEF Processing, Calls
<1>4. Loop(Calls, GoesOn, NextCall, EndOfLoop, f) <=> f = g
  BY <1>a, Zenon DEF Loop
<1> QED
  BY <1>2, <1>3, <1>4

LEMMA ChunkedProcessIsLoop == Loop(Calls, GoesOn, NextCall, EndOfLoop, ChunkedProcess)
<1>1. \E f : Processing(f)
  BY EachStepUsesData, LoopExists, ProcessingIsLoop, Zenon
<1>2. ChunkedProcess = CHOOSE f : Processing(f)
  BY Zenon DEF ChunkedProcess, Processing
<1> QED
  BY <1>1, <1>2, ProcessingIsLoop, Zenon

\* What holds of each call of the loop holds of the one at which it ends.
LEMMA ChunkedProcessEnds ==
  ASSUME NEW G \in SUBSET Calls,
         \A call \in G : GoesOn[call] => NextCall[call] \in G,
         NEW call \in G
  PROVE  \E last \in G : ~GoesOn[last] /\ ChunkedProcess[call] = EndOfLoop[last]
BY EachStepUsesData, ChunkedProcessIsLoop, LoopEnds

LEMMA ChunkedProcessType ==
  ASSUME NEW d \in ChunkedProcessor, NEW data \in Seq(Symbol)
  PROVE  ChunkedProcess[<<d, data>>] \in ChunkedProcessor
<1>1. \A call \in Calls : GoesOn[call] => NextCall[call] \in Calls
  BY EachStepUsesData DEF UsesUp
<1>2. <<d, data>> \in Calls
  BY DEF Calls
<1>3. PICK last \in Calls :
        ~GoesOn[last] /\ ChunkedProcess[<<d, data>>] = EndOfLoop[last]
  BY <1>1, <1>2, ChunkedProcessEnds
<1>4. EndOfLoop[last] = IF last[2] = <<>> THEN last[1] ELSE ChunkStep(last[1], last[2])[1]
  BY DEF EndOfLoop
<1>5. last[1] \in ChunkedProcessor /\ last[2] \in Seq(Symbol)
  BY DEF Calls
<1>6. last[2] # <<>> => ChunkStep(last[1], last[2])[1] \in ChunkedProcessor
  BY <1>5, ChunkStepType
<1> QED
  BY <1>3, <1>4, <1>5, <1>6


-----------------------------------------------------------------------------
(* Chunked responses.                                                      *)

Bytes == Seq(Symbol)

LEMMA Symbols ==
  /\ CR \in Symbol /\ LF \in Symbol /\ \A n \in Nat : Size(n) \in Symbol
  /\ CR.kind = "cr" /\ LF.kind = "lf" /\ CR # LF
  /\ \A n : Size(n).kind = "size" /\ Size(n).val = n
BY DEF CR, LF, Size, Symbol

LEMMA Concats ==
  /\ <<>> \in Bytes
  /\ \A s, t \in Bytes : s \o t \in Bytes /\ Len(s \o t) = Len(s) + Len(t)
  /\ \A s, t, u \in Bytes : (s \o t) \o u = s \o (t \o u)
  /\ \A s \in Bytes : Len(s) \in Nat /\ s \o <<>> = s /\ <<>> \o s = s
<1>1. ASSUME NEW s \in Bytes, NEW t \in Bytes
      PROVE  s \o t \in Bytes /\ Len(s \o t) = Len(s) + Len(t)
  <2>a. PICK z : z = s \o t
    OBVIOUS
  <2>1. IsConcat(Symbol, s, t, z)
    BY <2>a, IsConcatFacts, Zenon DEF Bytes
  <2>2. z \in Bytes /\ Len(z) = Len(s) + Len(t)
    BY <2>1 DEF IsConcat, Bytes
  <2> QED
    BY <2>2, <2>a
<1>2. \A s, t, u \in Bytes : (s \o t) \o u = s \o (t \o u)
  <2>1. AssociatesIn(Symbol)
    BY AllAssociate, Zenon
  <2> QED
    BY <2>1, Zenon DEF AssociatesIn, Bytes
<1>3. \A s \in Bytes : Len(s) \in Nat /\ s \o <<>> = s /\ <<>> \o s = s
  BY ConcatEmptySeq DEF Bytes
<1> QED
  BY <1>1, <1>2, <1>3 DEF Bytes

\* What comes first in what is left, and the rest of it.
SplitAt(data, w, z) ==
  /\ \A i \in 1 .. Len(data) : z[i] = data[i]
  /\ \A n \in Nat : n <= Len(data) =>
       /\ SubSeq(z, 1, n) = SubSeq(data, 1, n)
       /\ Drop(z, n) = Drop(data, n) \o w
  /\ Drop(z, Len(data)) = w

LEMMA Splits ==
  \A data, w \in Bytes : \A z : z = data \o w => SplitAt(data, w, z)
<1> SUFFICES ASSUME NEW data \in Bytes, NEW w \in Bytes, NEW z, z = data \o w
             PROVE  SplitAt(data, w, z)
  OBVIOUS
<1>1. IsConcat(Symbol, data, w, z)
  BY IsConcatFacts, Zenon DEF Bytes
<1>2. Len(data) \in Nat /\ Len(w) \in Nat /\ z \in Bytes /\ Len(z) = Len(data) + Len(w)
  BY <1>1 DEF IsConcat, Bytes
<1>3. ASSUME NEW i \in 1 .. Len(data)
      PROVE  z[i] = data[i]
  <2>1. i \in 1 .. Len(data) + Len(w) /\ i <= Len(data)
    BY <1>2
  <2> QED
    BY <1>1, <2>1 DEF IsConcat
<1>4. ASSUME NEW n \in Nat, n <= Len(data)
      PROVE  SubSeq(z, 1, n) = SubSeq(data, 1, n)
  <2>a. PICK x, y : x = SubSeq(z, 1, n) /\ y = SubSeq(data, 1, n)
    OBVIOUS
  <2>1. /\ x \in Bytes /\ Len(x) = n /\ \A i \in 1 .. n : x[i] = z[i]
        /\ y \in Bytes /\ Len(y) = n /\ \A i \in 1 .. n : y[i] = data[i]
    BY <1>2, <1>4, <2>a, TakeFacts DEF Bytes
  <2>2. \A i \in 1 .. n : x[i] = y[i]
    BY <1>2, <1>3, <1>4, <2>1
  <2>3. x = y
    BY <2>1, <2>2, SeqEqual DEF Bytes
  <2> QED
    BY <2>3, <2>a
<1>5. \A n \in Nat : n <= Len(data) => Drop(z, n) = Drop(data, n) \o w
  BY DropConcat DEF Bytes
<1>6. Drop(z, Len(data)) = w
  <2>1. Drop(data, Len(data)) = <<>>
    <3>1. Drop(data, Len(data)) \in Bytes /\ Len(Drop(data, Len(data))) = 0
      BY <1>2, DropFacts DEF Bytes
    <3> QED
      BY <3>1, EmptySeq DEF Bytes
  <2>2. Drop(z, Len(data)) = Drop(data, Len(data)) \o w
    BY <1>2, <1>5
  <2>3. <<>> \o w = w
    BY Concats, Zenon
  <2> QED
    BY <2>1, <2>2, <2>3
<1> QED
  BY <1>3, <1>4, <1>5, <1>6 DEF SplitAt

ChunkFun == [c \in Bytes |-> ChunkOf(c)]

\* Chunks that hold something: one that does not would end the response.
Chunks == Seq(Bytes \ {<<>>})

Frames(cs) == FlatMap(ChunkFun, cs) \o ChunkOf(<<>>)

LEMMA ChunkOfShape ==
  ASSUME NEW c \in Bytes, NEW more \in Bytes
  PROVE  /\ ChunkOf(c) \in Bytes
         /\ ChunkOf(c) \o more
               = <<Size(Len(c)), CR, LF>> \o (c \o (<<CR, LF>> \o more))
<1>a. PICK x, y : x = <<Size(Len(c)), CR, LF>> /\ y = <<CR, LF>>
  OBVIOUS
<1>1. Len(c) \in Nat
  BY Concats
<1>2. x \in Bytes /\ y \in Bytes
  <2>1. Size(Len(c)) \in Symbol /\ CR \in Symbol /\ LF \in Symbol
    BY <1>1, Symbols
  <2> QED
    BY <2>1, <1>a DEF Bytes
<1>3. ChunkOf(c) = (x \o c) \o y
  BY <1>a DEF ChunkOf
<1>4. x \o c \in Bytes /\ (x \o c) \o y \in Bytes /\ y \o more \in Bytes
  BY <1>2, Concats
<1>5. ((x \o c) \o y) \o more = (x \o c) \o (y \o more)
  BY <1>2, <1>4, Concats
<1>6. (x \o c) \o (y \o more) = x \o (c \o (y \o more))
  BY <1>2, <1>4, Concats
<1> QED
  BY <1>3, <1>4, <1>5, <1>6, <1>a

\* What follows a chunk of n symbols.
After(n, cs) == IF n = 0 THEN <<>> ELSE Frames(cs)

LEMMA ChunksFacts ==
  /\ <<>> \in Chunks /\ FlattenSeq(<<>>) = <<>> /\ Frames(<<>>) = ChunkOf(<<>>)
  /\ \A cs \in Chunks : FlattenSeq(cs) \in Bytes /\ Frames(cs) \in Bytes
  /\ \A cs \in Chunks : cs # <<>> =>
       /\ cs[1] \in Bytes /\ cs[1] # <<>> /\ Tail(cs) \in Chunks
       /\ FlattenSeq(cs) = cs[1] \o FlattenSeq(Tail(cs))
       /\ Frames(cs) = ChunkOf(cs[1]) \o Frames(Tail(cs))
<1>1. ChunkFun \in [Bytes -> Bytes] /\ ChunkOf(<<>>) \in Bytes
  <2>1. \A c \in Bytes : ChunkOf(c) \in Bytes
    BY Concats, ChunkOfShape
  <2> QED
    BY <2>1, Concats DEF ChunkFun
<1>2. \A cs \in Chunks : cs \in Seq(Bytes)
  BY DEF Chunks
<1>3. \A cs \in Chunks : FlattenSeq(cs) \in Bytes
  BY <1>2, FlattenType DEF Bytes
<1>4. \A cs \in Chunks : FlatMap(ChunkFun, cs) \in Bytes
  <2> SUFFICES ASSUME NEW cs \in Chunks
               PROVE  FlatMap(ChunkFun, cs) \in Bytes
    OBVIOUS
  <2>1. ChunkFun \in [Bytes -> Seq(Symbol)] /\ cs \in Seq(Bytes)
    BY <1>1, <1>2 DEF Bytes
  <2> QED
    BY <2>1, FlatMapType, Zenon DEF Bytes
<1>5. \A cs \in Chunks : Frames(cs) \in Bytes
  BY <1>1, <1>4, Concats DEF Frames
<1>6. Frames(<<>>) = ChunkOf(<<>>)
  BY <1>1, FlatMapEmpty, Concats DEF Frames
<1>7. ASSUME NEW cs \in Chunks, cs # <<>>
      PROVE  /\ cs[1] \in Bytes /\ cs[1] # <<>> /\ Tail(cs) \in Chunks
             /\ FlattenSeq(cs) = cs[1] \o FlattenSeq(Tail(cs))
             /\ Frames(cs) = ChunkOf(cs[1]) \o Frames(Tail(cs))
  <2>a. PICK c, ds, one : c = cs[1] /\ ds = Tail(cs) /\ one = <<c>>
    OBVIOUS
  <2>1. /\ c \in Bytes \ {<<>>} /\ ds \in Chunks /\ one \in Chunks
        /\ cs = one \o ds
    <3>a. PICK A : A = Bytes \ {<<>>}
      OBVIOUS
    <3>1. cs \in Seq(A) /\ cs # <<>>
      BY <1>7, <3>a DEF Chunks
    <3>0. cs[1] \in A /\ Tail(cs) \in Seq(A) /\ cs = <<cs[1]>> \o Tail(cs)
      BY <3>1, FirstAndRest
    <3>2. c \in A /\ ds \in Seq(A) /\ cs = one \o ds
      BY <3>0, <2>a, Zenon
    <3>3. one \in Seq(A)
      <4>1. c \in A /\ one = <<c>>
        BY <3>2, <2>a
      <4> QED
        BY <4>1
    <3>4. c \in Bytes \ {<<>>} /\ Seq(A) = Chunks
      BY <3>2, <3>a DEF Chunks
    <3> QED
      BY <3>2, <3>3, <3>4
  <2>2. one \in Seq(Bytes) /\ ds \in Seq(Bytes)
    BY <2>1, <1>2
  <2>3. FlattenSeq(cs) = FlattenSeq(one) \o FlattenSeq(ds)
    BY <2>1, <2>2, FlattenConcat DEF Bytes
  <2>4. FlatMap(ChunkFun, cs) = FlatMap(ChunkFun, one) \o FlatMap(ChunkFun, ds)
    <3>1. Maps(ChunkFun, Bytes, Seq(Symbol))
      BY <1>1 DEF Maps, Bytes
    <3> QED
      BY <2>1, <2>2, <3>1, FlatMapConcat
  <2>5. FlattenSeq(one) = c
    <3>0. c \in Seq(Symbol)
      BY <2>1 DEF Bytes
    <3>1. one = Append(<<>>, c) /\ <<>> \in Seq(Seq(Symbol))
      BY <2>a
    <3>2. FlattenSeq(one) = FlattenSeq(<<>>) \o c
      BY <3>0, <3>1, FlattenAppend
    <3> QED
      BY <3>2, FlattenEmpty, Concats, <2>1
  <2>6. FlatMap(ChunkFun, one) = ChunkOf(c)
    <3>1. ChunkFun \in [Bytes -> Seq(Symbol)] /\ c \in Bytes
      BY <1>1, <2>1 DEF Bytes
    <3>2. FlatMap(ChunkFun, one) = ChunkFun[c]
      BY <3>1, <2>a, FlatMapOne
    <3> QED
      BY <2>1, <3>2 DEF ChunkFun
  <2>7. Frames(cs) = ChunkOf(c) \o Frames(ds)
    <3>1. /\ ChunkOf(c) \in Bytes /\ FlatMap(ChunkFun, ds) \in Bytes
          /\ ChunkOf(<<>>) \in Bytes
      BY <1>1, <1>4, <2>1, Concats, ChunkOfShape
    <3> QED
      BY <2>4, <2>6, <3>1, Concats DEF Frames
  <2> QED
    BY <2>1, <2>3, <2>5, <2>7, <2>a
<1>8. <<>> \in Chunks
  BY DEF Chunks
<1> QED
  BY <1>3, <1>5, <1>6, <1>7, <1>8, FlattenEmpty

\* A size line, the chunk of that size, and a line end.
LEMMA FramesShape ==
  ASSUME NEW cs \in Chunks
  PROVE  \E c \in Bytes, ds \in Chunks :
           /\ c = <<>> => ds = <<>>
           /\ FlattenSeq(cs) = c \o FlattenSeq(ds)
           /\ Frames(cs) = <<Size(Len(c)), CR, LF>> \o
                             (c \o (<<CR, LF>> \o After(Len(c), ds)))
<1>1. CASE cs = <<>>
  <2>1. /\ <<>> \in Bytes /\ <<>> \in Chunks /\ After(Len(<<>>), <<>>) = <<>>
    BY ChunksFacts, Concats DEF After
  <2>2. ChunkOf(<<>>) \o <<>> = ChunkOf(<<>>)
    BY <2>1, ChunkOfShape, Concats
  <2>3. ChunkOf(<<>>) \o <<>>
          = <<Size(Len(<<>>)), CR, LF>> \o (<<>> \o (<<CR, LF>> \o <<>>))
    BY <2>1, ChunkOfShape
  <2>4. <<>> \o <<>> = <<>>
    BY <2>1, Concats
  <2>5. FlattenSeq(cs) = <<>> \o FlattenSeq(<<>>)
    BY <1>1, <2>4, ChunksFacts
  <2>6. Frames(cs) = ChunkOf(<<>>)
    BY <1>1, ChunksFacts
  <2> QED
    BY <2>1, <2>2, <2>3, <2>5, <2>6
<1>2. CASE cs # <<>>
  <2>a. PICK c, ds : c = cs[1] /\ ds = Tail(cs)
    OBVIOUS
  <2>1. /\ c \in Bytes /\ c # <<>> /\ ds \in Chunks /\ Frames(ds) \in Bytes
        /\ FlattenSeq(cs) = c \o FlattenSeq(ds)
        /\ Frames(cs) = ChunkOf(c) \o Frames(ds)
    BY <1>2, <2>a, ChunksFacts
  <2>2. After(Len(c), ds) = Frames(ds)
    <3>1. Len(c) # 0
      BY <2>1, EmptySeq DEF Bytes
    <3> QED
      BY <3>1 DEF After
  <2>3. ChunkOf(c) \o Frames(ds)
          = <<Size(Len(c)), CR, LF>> \o (c \o (<<CR, LF>> \o Frames(ds)))
    BY <2>1, ChunkOfShape
  <2> QED
    BY <2>1, <2>2, <2>3
<1> QED
  BY <1>1, <1>2


\* Two ways to cut the same sequence up.
CutAlike(data, w, x, rest) ==
  /\ \A i \in 1 .. Len(data) : i <= Len(x) => data[i] = x[i]
  /\ \A n \in Nat : n <= Len(data) /\ n <= Len(x) =>
       /\ SubSeq(data, 1, n) = SubSeq(x, 1, n)
       /\ Drop(data, n) \o w = Drop(x, n) \o rest
  /\ Len(data) + Len(w) = Len(x) + Len(rest)
  /\ Len(x) <= Len(data) => Drop(data, Len(x)) \o w = rest

LEMMA SameCut ==
  \A data, w, x, rest \in Bytes : data \o w = x \o rest => CutAlike(data, w, x, rest)
<1> SUFFICES ASSUME NEW data \in Bytes, NEW w \in Bytes, NEW x \in Bytes, NEW rest \in Bytes,
                    data \o w = x \o rest
             PROVE  CutAlike(data, w, x, rest)
  OBVIOUS
<1>a. PICK z : z = data \o w /\ z = x \o rest
  OBVIOUS
<1>1. Len(data) \in Nat /\ Len(x) \in Nat
  BY Concats
<1>2. SplitAt(data, w, z)
  BY <1>a, Splits, Zenon DEF SplitAt
<1>3. SplitAt(x, rest, z)
  BY <1>a, Splits, Zenon DEF SplitAt
<1>4. Len(z) = Len(data) + Len(w) /\ Len(z) = Len(x) + Len(rest)
  BY <1>a, Concats
<1>5. ASSUME NEW n \in Nat, n <= Len(data), n <= Len(x)
      PROVE  /\ SubSeq(data, 1, n) = SubSeq(x, 1, n)
             /\ Drop(data, n) \o w = Drop(x, n) \o rest
  <2>1. SubSeq(z, 1, n) = SubSeq(data, 1, n) /\ Drop(z, n) = Drop(data, n) \o w
    BY <1>2, <1>5 DEF SplitAt
  <2>2. SubSeq(z, 1, n) = SubSeq(x, 1, n) /\ Drop(z, n) = Drop(x, n) \o rest
    BY <1>3, <1>5 DEF SplitAt
  <2> QED
    BY <2>1, <2>2
<1>6. ASSUME Len(x) <= Len(data)
      PROVE  Drop(data, Len(x)) \o w = rest
  <2>1. Drop(z, Len(x)) = Drop(data, Len(x)) \o w
    BY <1>1, <1>2, <1>6 DEF SplitAt
  <2> QED
    BY <1>3, <2>1 DEF SplitAt
<1>7. ASSUME NEW i \in 1 .. Len(data), i <= Len(x)
      PROVE  data[i] = x[i]
  BY <1>1, <1>2, <1>3, <1>7 DEF SplitAt
<1> QED
  BY <1>4, <1>5, <1>6, <1>7 DEF CutAlike

\* The line end, cut in two.
LEMMA LineEnd ==
  ASSUME NEW more \in Bytes
  PROVE  /\ <<CR, LF>> \in Bytes /\ <<CR>> \in Bytes /\ <<LF>> \in Bytes
         /\ <<CR, LF>> \o more = <<CR>> \o (<<LF>> \o more)
<1>1. CR \in Symbol /\ LF \in Symbol
  BY Symbols
<1>2. <<CR, LF>> \in Bytes /\ <<CR>> \in Bytes /\ <<LF>> \in Bytes
  BY <1>1 DEF Bytes
<1>3. <<CR, LF>> = <<CR>> \o <<LF>>
  <2>a. PICK c, l, x, y, z, u :
          /\ c = CR /\ l = LF /\ x = <<c>> /\ y = <<l>> /\ z = x \o y /\ u = <<c, l>>
    OBVIOUS
  <2>1. c \in Symbol /\ l \in Symbol
    BY <1>1, <2>a
  <2>2. /\ x \in Bytes /\ Len(x) = 1 /\ x[1] = c
        /\ y \in Bytes /\ Len(y) = 1 /\ y[1] = l
        /\ u \in Bytes /\ Len(u) = 2 /\ u[1] = c /\ u[2] = l
    BY <2>1, <2>a DEF Bytes
  <2>3. IsConcat(Symbol, x, y, z)
    BY <2>2, <2>a, IsConcatFacts, Zenon DEF Bytes
  <2>4. /\ z \in Bytes /\ Len(z) = 2
        /\ \A i \in 1 .. 2 : z[i] = IF i <= 1 THEN x[i] ELSE y[i - 1]
    BY <2>2, <2>3 DEF IsConcat, Bytes
  <2>5. z[1] = c /\ z[2] = l
    BY <2>2, <2>4
  <2>6. \A i \in 1 .. Len(z) : z[i] = u[i]
    BY <2>2, <2>4, <2>5
  <2>7. z = u
    BY <2>2, <2>4, <2>6, SeqEqual DEF Bytes
  <2> QED
    BY <2>7, <2>a
<1>4. (<<CR>> \o <<LF>>) \o more = <<CR>> \o (<<LF>> \o more)
  BY <1>2, Concats
<1> QED
  BY <1>2, <1>3, <1>4

-----------------------------------------------------------------------------
(* Where ChunkedProcessor is in a chunked response: left is what it has    *)
(* not been given, due the part of it that is payload.                     *)

AtSize(d, left, due) ==
  /\ d.chunk_size = -1 /\ d.chunk_read = 0 /\ d.tmp_buf = <<>> /\ d.end_chars = 0
  /\ ~d.complete
  /\ \E cs \in Chunks : left = Frames(cs) /\ due = FlattenSeq(cs)

InChunk(d, left, due) ==
  /\ d.chunk_size \in Nat /\ d.end_chars = 0 /\ ~d.complete
  /\ \E tail \in Bytes, cs \in Chunks :
       /\ Len(tail) = d.chunk_size - d.chunk_read
       /\ d.chunk_size = 0 => cs = <<>>
       /\ left = tail \o (<<CR, LF>> \o After(d.chunk_size, cs))
       /\ due = tail \o FlattenSeq(cs)

AtLineEnd(d, left, due) ==
  /\ d.chunk_size \in Nat /\ d.chunk_size = d.chunk_read /\ d.end_chars = 1 /\ ~d.complete
  /\ \E cs \in Chunks :
       /\ d.chunk_size = 0 => cs = <<>>
       /\ left = <<LF>> \o After(d.chunk_size, cs)
       /\ due = FlattenSeq(cs)

AtFinish(d, left, due) == d.complete /\ left = <<>> /\ due = <<>>

Parsing(d, left, due) ==
  AtSize(d, left, due) \/ InChunk(d, left, due) \/ AtLineEnd(d, left, due)
    \/ AtFinish(d, left, due)

\* What is collected and what is due make up the payload P.
Parsed(d, left, P) ==
  /\ d \in ChunkedProcessor /\ d.fate = "ok"
  /\ \E due \in Bytes : Parsing(d, left, due) /\ d.payload \o due = P

LEMMA LinesStayWhole ==
  ASSUME NEW data \in Bytes, LinesWhole(data), NEW n \in Nat, n <= Len(data)
  PROVE  Drop(data, n) \in Bytes /\ LinesWhole(Drop(data, n))
<1>a. PICK y : y = Drop(data, n)
  OBVIOUS
<1>0. Len(data) \in Nat /\ ~(n > Len(data))
  BY Concats
<1>1. y \in Bytes /\ Len(y) = Len(data) - n /\ \A i \in 1 .. Len(data) - n : y[i] = data[i + n]
  BY <1>0, <1>a, DropFacts DEF Bytes
<1>2. ASSUME NEW i \in 1 .. Len(y)
      PROVE  /\ y[i].kind = "head" => i + 4 <= Len(y)
             /\ y[i].kind = "size" => i + 2 <= Len(y)
  <2>1. i + n \in 1 .. Len(data) /\ y[i] = data[i + n]
    BY <1>0, <1>1
  <2>2. /\ y[i].kind = "head" => i + n + 4 <= Len(data)
        /\ y[i].kind = "size" => i + n + 2 <= Len(data)
    BY <2>1 DEF LinesWhole
  <2> QED
    BY <1>0, <1>1, <2>2
<1>3. LinesWhole(y)
  BY <1>2 DEF LinesWhole
<1> QED
  BY <1>1, <1>3, <1>a

\* What a step of the loop comes to: an exception, more of the response to
\* read, or the end of what was given.
Proceeds(step, w, P) ==
  \/ ~step[3] /\ step[1].fate = "throw"
  \/ ~step[3] /\ Parsed(step[1], w, P)
  \/ step[3] /\ Parsed(step[1], step[2] \o w, P) /\ LinesWhole(step[2])

LEMMA ReadsSize ==
  ASSUME NEW d \in ChunkedProcessor, d.fate = "ok", d.chunk_size < 0,
         NEW data \in Bytes, data # <<>>, LinesWhole(data), NEW w \in Bytes,
         NEW P, Parsed(d, data \o w, P), ~d.complete,
         NEW step, step = ReadSize(d, data)
  PROVE  Proceeds(step, w, P)
<1>1. PICK due \in Bytes, cs \in Chunks :
        /\ d.payload \o due = P /\ due = FlattenSeq(cs) /\ data \o w = Frames(cs)
        /\ d.tmp_buf = <<>> /\ d.chunk_read = 0 /\ d.end_chars = 0
  <2>1. PICK due \in Bytes : Parsing(d, data \o w, due) /\ d.payload \o due = P
    BY DEF Parsed
  <2>2. ~(d.chunk_size \in Nat)
    OBVIOUS
  <2>3. AtSize(d, data \o w, due)
    BY <2>1, <2>2 DEF Parsing, InChunk, AtLineEnd, AtFinish
  <2> QED
    BY <2>1, <2>3 DEF AtSize
<1>2. PICK c \in Bytes, ds \in Chunks :
        /\ c = <<>> => ds = <<>>
        /\ due = c \o FlattenSeq(ds)
        /\ data \o w = <<Size(Len(c)), CR, LF>> \o (c \o (<<CR, LF>> \o After(Len(c), ds)))
  BY <1>1, FramesShape
<1>a. PICK m, x, rest :
        /\ m = Len(c) /\ x = <<Size(Len(c)), CR, LF>>
        /\ rest = c \o (<<CR, LF>> \o After(Len(c), ds))
  OBVIOUS
<1>3. /\ m \in Nat /\ x \in Bytes /\ Len(x) = 3 /\ x[1] = Size(m) /\ x[2] = CR /\ x[3] = LF
  <2>1. m \in Nat /\ Size(m) \in Symbol /\ CR \in Symbol /\ LF \in Symbol
    BY <1>a, Symbols, Concats
  <2>2. x = <<Size(m), CR, LF>>
    BY <1>a
  <2> QED
    BY <2>1, <2>2 DEF Bytes
<1>4. rest \in Bytes
  <2>1. After(Len(c), ds) \in Bytes
    BY Concats, ChunksFacts DEF After
  <2> QED
    BY <1>a, <2>1, Concats, LineEnd
<1>5. data \o w = x \o rest
  BY <1>2, <1>a
<1>c. CutAlike(data, w, x, rest)
  BY <1>3, <1>4, <1>5, SameCut, Zenon
<1>6. Len(data) \in Nat /\ Len(data) >= 1 /\ data[1] = Size(m)
  <2>1. Len(data) \in Nat /\ Len(data) # 0
    BY Concats, EmptySeq DEF Bytes
  <2>2. 1 \in 1 .. Len(data) /\ 1 <= Len(x)
    BY <1>3, <2>1
  <2>3. data[1] = x[1]
    BY <1>c, <2>2 DEF CutAlike
  <2> QED
    BY <1>3, <2>1, <2>3
<1>7. Len(data) >= 3
  <2>1. data[1].kind = "size" /\ 1 \in 1 .. Len(data)
    BY <1>6, Symbols
  <2>2. 1 + 2 <= Len(data)
    BY <2>1 DEF LinesWhole
  <2> QED
    BY <1>6, <2>2
<1>8. data[2] = CR /\ data[3] = LF
  <2>1. 2 \in 1 .. Len(data) /\ 3 \in 1 .. Len(data) /\ 2 <= Len(x) /\ 3 <= Len(x)
    BY <1>3, <1>6, <1>7
  <2>2. data[2] = x[2] /\ data[3] = x[3]
    BY <1>c, <2>1 DEF CutAlike
  <2> QED
    BY <1>3, <2>2
<1>9. Drop(data, 3) \o w = rest
  BY <1>3, <1>6, <1>7, <1>c DEF CutAlike
<1>b. PICK n, buf : n = Least(Len(data), TMPSIZ) /\ buf = SubSeq(data, 1, n)
  OBVIOUS
<1>10. n \in Nat /\ n >= 1 /\ n <= Len(data) /\ (n = Len(data) \/ n = TMPSIZ)
  <2>1. TMPSIZ \in Nat /\ TMPSIZ # 0
    BY TmpSizAssumption
  <2> QED
    BY <1>6, <1>b, <2>1 DEF Least
<1>11. buf \in Bytes /\ Len(buf) = n /\ \A i \in 1 .. n : buf[i] = data[i]
  BY <1>10, <1>b, TakeFacts DEF Bytes
<1>12. buf[1].kind = "size" /\ buf[1].val = m
  <2>1. buf[1] = Size(m)
    BY <1>6, <1>10, <1>11
  <2> QED
    BY <2>1, Symbols
<1>13. step = IF Find(buf, <<CR, LF>>, 0) # NotFound
              THEN <<[d EXCEPT !.tmp_buf = buf, !.chunk_size = m], Drop(data, 3), TRUE>>
              ELSE IF Len(buf) = TMPSIZ
              THEN <<[d EXCEPT !.fate = "throw"], data, FALSE>>
              ELSE <<[d EXCEPT !.tmp_buf = buf], data, FALSE>>
  <2>1. TMPSIZ - Len(d.tmp_buf) = TMPSIZ
    <3>1. Len(d.tmp_buf) = 0
      BY <1>1
    <3> QED
      BY <3>1, TmpSizAssumption
  <2>2. d.tmp_buf \o buf = buf
    BY <1>1, <1>11, Concats
  <2>3. d.tmp_buf \o SubSeq(data, 1, Least(Len(data), TMPSIZ - Len(d.tmp_buf))) = buf
    BY <1>b, <2>1, <2>2
  <2> QED
    BY <1>12, <2>3 DEF ReadSize
<1>14. CASE Find(buf, <<CR, LF>>, 0) # NotFound
  <2>a. PICK e, left : /\ e = [d EXCEPT !.tmp_buf = buf, !.chunk_size = m]
                       /\ left = Drop(data, 3)
    OBVIOUS
  <2>1. step[1] = e /\ step[2] = left /\ step[3]
    BY <1>13, <1>14, <2>a
  <2>2. e \in ChunkedProcessor
    BY <2>1, ReadSizeType DEF Bytes
  <2>3. /\ e.fate = "ok" /\ e.payload = d.payload /\ e.chunk_size = m /\ e.chunk_read = 0
        /\ e.end_chars = 0 /\ ~e.complete
    BY <1>1, <2>a DEF ChunkedProcessor, PayloadProcessor
  <2>4. InChunk(e, rest, due)
    <3>1. m = 0 => ds = <<>>
      BY <1>2, <1>a, EmptySeq DEF Bytes
    <3>2. Len(c) = m - 0
      BY <1>3, <1>a
    <3> QED
      BY <1>2, <1>3, <1>a, <2>3, <3>1, <3>2 DEF InChunk
  <2>5. Parsed(e, left \o w, P)
    BY <1>1, <1>9, <2>2, <2>3, <2>4, <2>a DEF Parsed, Parsing
  <2>6. LinesWhole(left)
    BY <1>7, <2>a, LinesStayWhole
  <2> QED
    BY <2>1, <2>5, <2>6 DEF Proceeds
<1>15. CASE Find(buf, <<CR, LF>>, 0) = NotFound
  <2>1. Len(buf) = TMPSIZ
    <3>1. SUFFICES ASSUME n = Len(data), n # TMPSIZ
                   PROVE  FALSE
      BY <1>10, <1>11
    <3>a. PICK t : t = <<CR, LF>>
      OBVIOUS
    <3>2. Len(t) = 2 /\ t \in Bytes /\ t[1] = CR /\ t[2] = LF
      BY <3>a, LineEnd, Concats
    <3>3. \A i \in 0 .. Len(buf) - Len(t) : ~Occurs(buf, t, i)
      <4>1. Len(buf) \in Nat /\ 0 \in Nat
        BY <1>10, <1>11
      <4>2. \A i : i \in 0 .. Len(buf) - Len(t) => i # NotFound
        BY DEF NotFound
      <4> QED
        BY <1>15, <3>2, <3>a, <4>1, <4>2, FindFacts
    <3>4. 1 \in 0 .. Len(buf) - Len(t)
      BY <1>7, <1>10, <1>11, <3>1, <3>2
    <3>5. SubSeq(buf, 2, 3) = t
      <4>a. PICK y : y = SubSeq(buf, 2, 3)
        OBVIOUS
      <4>1. \A i \in 2 .. 3 : buf[i] \in Symbol
        <5>1. \A i \in 2 .. 3 : i \in 1 .. Len(buf)
          BY <1>7, <1>11, <3>1
        <5> QED
          BY <1>11, <5>1, ElementOfSeq DEF Bytes
      <4>2. /\ y \in Bytes /\ Len(y) = 2
            /\ \A i \in 1 .. 2 : y[i] = buf[2 + i - 1]
        BY <4>1, <4>a, SubSeqProperties DEF Bytes
      <4>3. y[1] = buf[2] /\ y[2] = buf[3]
        BY <4>2
      <4>4. buf[2] = CR /\ buf[3] = LF
        <5>1. 2 \in 1 .. n /\ 3 \in 1 .. n
          BY <1>7, <1>10, <3>1
        <5> QED
          BY <1>8, <1>11, <5>1
      <4>5. \A i \in 1 .. Len(y) : y[i] = t[i]
        BY <3>2, <4>2, <4>3, <4>4
      <4> QED
        BY <3>2, <4>2, <4>5, <4>a, SeqEqual DEF Bytes
    <3>6. Occurs(buf, t, 1)
      BY <3>2, <3>5 DEF Occurs
    <3> QED
      BY <3>3, <3>4, <3>6
  <2>2. step = <<[d EXCEPT !.fate = "throw"], data, FALSE>>
    BY <1>13, <1>15, <2>1
  <2>3. step[1].fate = "throw" /\ ~step[3]
    BY <2>2 DEF ChunkedProcessor, PayloadProcessor
  <2> QED
    BY <2>3 DEF Proceeds
<1> QED
  BY <1>14, <1>15


LEMMA AfterType ==
  ASSUME NEW n, NEW ds \in Chunks
  PROVE  After(n, ds) \in Bytes
BY Concats, ChunksFacts DEF After

\* The first character of the line end after a chunk.
LEMMA ReadsCR ==
  ASSUME NEW d \in ChunkedProcessor, d.fate = "ok", d.chunk_size = d.chunk_read,
         NEW data \in Bytes, data # <<>>, LinesWhole(data), NEW w \in Bytes,
         NEW P, NEW due \in Bytes, InChunk(d, data \o w, due), d.payload \o due = P,
         NEW step, step = ReadEnd(d, data)
  PROVE  Proceeds(step, w, P)
<1>1. PICK tail \in Bytes, cs \in Chunks :
        /\ Len(tail) = d.chunk_size - d.chunk_read
        /\ d.chunk_size = 0 => cs = <<>>
        /\ data \o w = tail \o (<<CR, LF>> \o After(d.chunk_size, cs))
        /\ due = tail \o FlattenSeq(cs)
  BY DEF InChunk
<1>2. d.chunk_size \in Nat /\ d.end_chars = 0 /\ ~d.complete
  BY DEF InChunk
<1>3. tail = <<>>
  <2>1. Len(tail) = 0
    BY <1>1, <1>2
  <2> QED
    BY <2>1, EmptySeq DEF Bytes
<1>a. PICK more, x, rest, left, e :
        /\ more = After(d.chunk_size, cs) /\ x = <<CR>> /\ rest = <<LF>> \o more
        /\ left = Drop(data, 1) /\ e = [d EXCEPT !.end_chars = 1]
  OBVIOUS
<1>4. more \in Bytes /\ FlattenSeq(cs) \in Bytes /\ x \in Bytes /\ rest \in Bytes
  BY <1>a, AfterType, ChunksFacts, LineEnd, Concats
<1>5. Len(x) = 1 /\ x[1] = CR
  BY <1>a
<1>6. data \o w = x \o rest /\ due = FlattenSeq(cs)
  <2>1. <<CR, LF>> \o more \in Bytes /\ <<CR, LF>> \o more = x \o rest
    BY <1>4, <1>a, LineEnd, Concats
  <2>2. <<>> \o (<<CR, LF>> \o more) = <<CR, LF>> \o more
    BY <2>1, Concats
  <2>3. <<>> \o FlattenSeq(cs) = FlattenSeq(cs)
    BY <1>4, Concats
  <2> QED
    BY <1>1, <1>3, <1>a, <2>1, <2>2, <2>3
<1>c. CutAlike(data, w, x, rest)
  BY <1>4, <1>6, SameCut, Zenon
<1>7. Len(data) \in Nat /\ Len(data) >= 1
  BY Concats, EmptySeq DEF Bytes
<1>8. data[1] = CR
  <2>1. 1 \in 1 .. Len(data) /\ 1 <= Len(x)
    BY <1>5, <1>7
  <2> QED
    BY <1>5, <1>c, <2>1 DEF CutAlike
<1>9. left \o w = rest
  BY <1>5, <1>7, <1>a, <1>c DEF CutAlike
<1>10. step = <<e, left, TRUE>>
  BY <1>2, <1>8, <1>a DEF ReadEnd
<1>11. e \in ChunkedProcessor
  <2>1. step[1] = e /\ data \in Seq(Symbol)
    BY <1>10 DEF Bytes
  <2>2. step[1] \in ChunkedProcessor
    BY <2>1, ReadEndType
  <2> QED
    BY <2>1, <2>2
<1>12. /\ e.fate = "ok" /\ e.payload = d.payload /\ e.chunk_size = d.chunk_size
       /\ e.chunk_read = d.chunk_read /\ e.end_chars = 1 /\ ~e.complete
  BY <1>2, <1>a DEF ChunkedProcessor, PayloadProcessor
<1>13. AtLineEnd(e, rest, due)
  BY <1>1, <1>2, <1>6, <1>12, <1>a DEF AtLineEnd
<1>14. Parsed(e, left \o w, P)
  BY <1>9, <1>11, <1>12, <1>13 DEF Parsed, Parsing
<1>15. LinesWhole(left)
  BY <1>7, <1>a, LinesStayWhole
<1> QED
  BY <1>10, <1>14, <1>15 DEF Proceeds

\* The second: the next chunk size, or the end.
LEMMA ReadsLF ==
  ASSUME NEW d \in ChunkedProcessor, d.fate = "ok",
         NEW data \in Bytes, data # <<>>, LinesWhole(data), NEW w \in Bytes,
         NEW P, NEW due \in Bytes, AtLineEnd(d, data \o w, due), d.payload \o due = P,
         NEW step, step = ReadEnd(d, data)
  PROVE  Proceeds(step, w, P)
<1>1. PICK cs \in Chunks :
        /\ d.chunk_size = 0 => cs = <<>>
        /\ data \o w = <<LF>> \o After(d.chunk_size, cs)
        /\ due = FlattenSeq(cs)
  BY DEF AtLineEnd
<1>2. d.chunk_size \in Nat /\ d.chunk_size = d.chunk_read /\ d.end_chars = 1 /\ ~d.complete
  BY DEF AtLineEnd
<1>a. PICK more, x, left :
        more = After(d.chunk_size, cs) /\ x = <<LF>> /\ left = Drop(data, 1)
  OBVIOUS
<1>4. more \in Bytes /\ x \in Bytes
  BY <1>a, AfterType, LineEnd
<1>5. Len(x) = 1 /\ x[1] = LF
  BY <1>a
<1>6. data \o w = x \o more
  BY <1>1, <1>a
<1>c. CutAlike(data, w, x, more)
  BY <1>4, <1>6, SameCut, Zenon
<1>7. Len(data) \in Nat /\ Len(data) >= 1
  BY Concats, EmptySeq DEF Bytes
<1>8. data[1] = LF
  <2>1. 1 \in 1 .. Len(data) /\ 1 <= Len(x)
    BY <1>5, <1>7
  <2> QED
    BY <1>5, <1>c, <2>1 DEF CutAlike
<1>9. left \o w = more
  BY <1>5, <1>7, <1>a, <1>c DEF CutAlike
<1>10. CASE d.chunk_size = 0
  <2>a. PICK e : e = [d EXCEPT !.complete = TRUE]
    OBVIOUS
  <2>1. step = <<e, data, FALSE>>
    BY <1>2, <1>8, <1>10, <2>a DEF ReadEnd
  <2>2. e \in ChunkedProcessor
    <3>1. step[1] = e /\ data \in Seq(Symbol)
      BY <2>1 DEF Bytes
    <3>2. step[1] \in ChunkedProcessor
      BY <1>2, <3>1, ReadEndType
    <3> QED
      BY <3>1, <3>2
  <2>3. e.fate = "ok" /\ e.payload = d.payload /\ e.complete
    BY <2>a DEF ChunkedProcessor, PayloadProcessor
  <2>4. w = <<>>
    <3>1. Len(more) = 0
      BY <1>10, <1>a DEF After
    <3>2. Len(data) + Len(w) = 1 + 0
      BY <1>5, <1>c, <3>1 DEF CutAlike
    <3>3. Len(w) = 0
      BY <1>7, <3>2, Concats
    <3> QED
      BY <3>3, EmptySeq DEF Bytes
  <2>5. due = <<>>
    BY <1>1, <1>10, ChunksFacts
  <2>6. Parsed(e, w, P)
    BY <2>2, <2>3, <2>4, <2>5 DEF Parsed, Parsing, AtFinish
  <2> QED
    BY <2>1, <2>6 DEF Proceeds
<1>11. CASE d.chunk_size # 0
  <2>a. PICK e : e = [d EXCEPT !.chunk_size = -1, !.chunk_read = 0, !.tmp_buf = <<>>,
                               !.end_chars = 0]
    OBVIOUS
  <2>1. step = <<e, left, TRUE>>
    <3>1. LF = data[1] /\ d.end_chars # 0
      BY <1>2, <1>8
    <3> QED
      BY <1>11, <1>a, <2>a, <3>1 DEF ReadEnd
  <2>2. e \in ChunkedProcessor
    <3>1. step[1] = e /\ data \in Seq(Symbol)
      BY <2>1 DEF Bytes
    <3>2. step[1] \in ChunkedProcessor
      BY <1>2, <3>1, ReadEndType
    <3> QED
      BY <3>1, <3>2
  <2>3. /\ e.fate = "ok" /\ e.payload = d.payload /\ e.chunk_size = -1 /\ e.chunk_read = 0
        /\ e.tmp_buf = <<>> /\ e.end_chars = 0 /\ ~e.complete
    BY <1>2, <2>a DEF ChunkedProcessor, PayloadProcessor
  <2>4. more = Frames(cs)
    BY <1>11, <1>a DEF After
  <2>5. AtSize(e, left \o w, due)
    BY <1>1, <1>9, <2>3, <2>4 DEF AtSize
  <2>6. Parsed(e, left \o w, P)
    BY <2>2, <2>3, <2>5 DEF Parsed, Parsing
  <2>7. LinesWhole(left)
    BY <1>7, <1>a, LinesStayWhole
  <2> QED
    BY <2>1, <2>6, <2>7 DEF Proceeds
<1> QED
  BY <1>10, <1>11

LEMMA ReadsChunk ==
  ASSUME NEW d \in ChunkedProcessor, d.fate = "ok", ~(d.chunk_size < 0),
         d.chunk_size # d.chunk_read,
         NEW data \in Bytes, data # <<>>, LinesWhole(data), NEW w \in Bytes,
         NEW P, NEW due \in Bytes, InChunk(d, data \o w, due), d.payload \o due = P,
         NEW step, step = ReadChunk(d, data)
  PROVE  Proceeds(step, w, P)
<1>1. PICK tail \in Bytes, cs \in Chunks :
        /\ Len(tail) = d.chunk_size - d.chunk_read
        /\ d.chunk_size = 0 => cs = <<>>
        /\ data \o w = tail \o (<<CR, LF>> \o After(d.chunk_size, cs))
        /\ due = tail \o FlattenSeq(cs)
  BY DEF InChunk
<1>2. /\ d.chunk_size \in Nat /\ d.end_chars = 0 /\ ~d.complete
      /\ d.chunk_read \in Nat /\ d.chunk_read < d.chunk_size
      /\ d.payload \in Bytes /\ d \in PayloadProcessor
  BY DEF InChunk, ChunkedProcessor, PayloadProcessor, Bytes
<1>a. PICK rest, flat, n, take, tail2, left, e :
        /\ rest = <<CR, LF>> \o After(d.chunk_size, cs) /\ flat = FlattenSeq(cs)
        /\ n = Least(Len(data), d.chunk_size - d.chunk_read)
        /\ take = SubSeq(data, 1, n) /\ tail2 = Drop(tail, n) /\ left = Drop(data, n)
        /\ e = [d EXCEPT !.payload = d.payload \o take, !.chunk_read = d.chunk_read + n]
  OBVIOUS
<1>3. Len(data) \in Nat /\ Len(data) >= 1 /\ Len(tail) \in Nat /\ Len(tail) >= 1
  BY <1>1, <1>2, Concats, EmptySeq DEF Bytes
<1>4. n \in Nat /\ n <= Len(data) /\ n <= Len(tail)
  BY <1>1, <1>3, <1>a DEF Least
<1>5. rest \in Bytes /\ flat \in Bytes
  BY <1>a, AfterType, ChunksFacts, LineEnd, Concats
<1>c. CutAlike(data, w, tail, rest)
  BY <1>1, <1>5, <1>a, SameCut, Zenon
<1>6. take = SubSeq(tail, 1, n) /\ left \o w = tail2 \o rest
  BY <1>4, <1>a, <1>c DEF CutAlike
<1>7. /\ take \in Bytes /\ tail2 \in Bytes /\ Len(tail2) = Len(tail) - n
      /\ tail = take \o tail2
  <2>1. take \in Bytes
    BY <1>4, <1>a, TakeFacts DEF Bytes
  <2>2. tail2 \in Bytes /\ Len(tail2) = Len(tail) - n
    <3>1. ~(n > Len(tail))
      BY <1>3, <1>4
    <3> QED
      BY <1>4, <1>a, <3>1, DropFacts DEF Bytes
  <2>3. tail = SubSeq(tail, 1, n) \o Drop(tail, n)
    BY <1>4, TakeThenDrop DEF Bytes
  <2> QED
    BY <1>6, <1>a, <2>1, <2>2, <2>3
<1>8. step = <<e, left, TRUE>>
  BY <1>a DEF ReadChunk
<1>9. e \in ChunkedProcessor
  <2>1. step[1] = e /\ data \in Seq(Symbol)
    BY <1>8 DEF Bytes
  <2>2. step[1] \in ChunkedProcessor
    BY <2>1, ReadChunkType
  <2> QED
    BY <2>1, <2>2
<1>10. /\ e.fate = "ok" /\ e.payload = d.payload \o take /\ e.chunk_size = d.chunk_size
       /\ e.chunk_read = d.chunk_read + n /\ e.end_chars = 0 /\ ~e.complete
  BY <1>2, <1>a DEF PayloadProcessor
<1>11. InChunk(e, tail2 \o rest, tail2 \o flat)
  <2>1. Len(tail2) = d.chunk_size - (d.chunk_read + n)
    BY <1>1, <1>2, <1>3, <1>4, <1>7
  <2> QED
    BY <1>1, <1>2, <1>7, <1>10, <1>a, <2>1 DEF InChunk
<1>12. (d.payload \o take) \o (tail2 \o flat) = P
  <2>1. (d.payload \o take) \o (tail2 \o flat) = d.payload \o (take \o (tail2 \o flat))
    <3>a. PICK p, u : p = d.payload /\ u = tail2 \o flat
      OBVIOUS
    <3>1. p \in Bytes /\ u \in Bytes
      BY <1>2, <1>5, <1>7, <3>a, Concats
    <3>2. (p \o take) \o u = p \o (take \o u)
      BY <1>7, <3>1, Concats
    <3> QED
      BY <3>2, <3>a
  <2>2. take \o (tail2 \o flat) = (take \o tail2) \o flat
    BY <1>5, <1>7, Concats
  <2>3. (take \o tail2) \o flat = due
    BY <1>1, <1>7, <1>a
  <2> QED
    BY <2>1, <2>2, <2>3
<1>13. Parsed(e, left \o w, P)
  <2>1. tail2 \o flat \in Bytes
    BY <1>5, <1>7, Concats
  <2> QED
    BY <1>6, <1>9, <1>10, <1>11, <1>12, <2>1 DEF Parsed, Parsing
<1>14. LinesWhole(left)
  BY <1>4, <1>a, LinesStayWhole
<1> QED
  BY <1>8, <1>13, <1>14 DEF Proceeds

LEMMA StepProceeds ==
  ASSUME NEW d \in ChunkedProcessor,
         NEW data \in Bytes, data # <<>>, LinesWhole(data), NEW w \in Bytes,
         NEW P, Parsed(d, data \o w, P), ~d.complete,
         NEW step, step = ChunkStep(d, data)
  PROVE  Proceeds(step, w, P)
<1>0. d.chunk_size \in Nat \cup {-1} /\ d.chunk_read \in Nat
  BY DEF ChunkedProcessor, PayloadProcessor
<1>1. CASE d.chunk_size < 0
  <2>1. step = ReadSize(d, data)
    BY <1>0, <1>1 DEF ChunkStep
  <2>2. d.fate = "ok"
    BY DEF Parsed
  <2> QED
    BY <1>1, <2>1, <2>2, ReadsSize
<1>2. CASE ~(d.chunk_size < 0)
  <2>1. PICK due \in Bytes : Parsing(d, data \o w, due) /\ d.payload \o due = P
    BY DEF Parsed
  <2>2. d.fate = "ok" /\ d.chunk_size # -1
    BY <1>2 DEF Parsed
  <2>3. InChunk(d, data \o w, due) \/ AtLineEnd(d, data \o w, due)
    BY <2>1, <2>2 DEF Parsing, AtSize, AtFinish
  <2>4. CASE AtLineEnd(d, data \o w, due)
    <3>1. step = ReadEnd(d, data)
      BY <1>2, <2>4 DEF ChunkStep, AtLineEnd
    <3> QED
      BY <2>1, <2>2, <2>4, <3>1, ReadsLF
  <2>5. CASE InChunk(d, data \o w, due) /\ d.chunk_size = d.chunk_read
    <3>1. step = ReadEnd(d, data)
      BY <1>2, <2>5 DEF ChunkStep
    <3> QED
      BY <2>1, <2>2, <2>5, <3>1, ReadsCR
  <2>6. CASE InChunk(d, data \o w, due) /\ d.chunk_size # d.chunk_read
    <3>1. step = ReadChunk(d, data)
      BY <1>2, <2>6 DEF ChunkStep
    <3> QED
      BY <1>2, <2>1, <2>2, <2>6, <3>1, ReadsChunk
  <2> QED
    BY <2>3, <2>4, <2>5, <2>6
<1> QED
  BY <1>1, <1>2


LEMMA NotEmptyConcat ==
  \A s, t \in Bytes : s \o t = <<>> => s = <<>> /\ t = <<>>
<1> SUFFICES ASSUME NEW s \in Bytes, NEW t \in Bytes, s \o t = <<>>
             PROVE  s = <<>> /\ t = <<>>
  OBVIOUS
<1>1. Len(s) + Len(t) = 0
  <2>1. Len(s \o t) = Len(s) + Len(t)
    BY Concats
  <2> QED
    BY <2>1
<1>2. Len(s) = 0 /\ Len(t) = 0
  BY <1>1, Concats
<1> QED
  BY <1>2, EmptySeq DEF Bytes

\* ChunkedProcessor is complete exactly when it has been given everything.
LEMMA CompleteIsAll ==
  ASSUME NEW d, NEW left \in Bytes, NEW P, Parsed(d, left, P)
  PROVE  /\ d.complete <=> left = <<>>
         /\ d.complete => d.payload = P
<1>1. PICK due \in Bytes : Parsing(d, left, due) /\ d.payload \o due = P
  BY DEF Parsed
<1>0. d.payload \in Bytes
  BY DEF Parsed, ChunkedProcessor, PayloadProcessor, Bytes
<1>2. CASE AtSize(d, left, due)
  <2>1. PICK cs \in Chunks : left = Frames(cs)
    BY <1>2 DEF AtSize
  <2>2. PICK c \in Bytes, ds \in Chunks :
          left = <<Size(Len(c)), CR, LF>> \o (c \o (<<CR, LF>> \o After(Len(c), ds)))
    BY <2>1, FramesShape
  <2>a. PICK x, y : /\ x = <<Size(Len(c)), CR, LF>>
                    /\ y = c \o (<<CR, LF>> \o After(Len(c), ds))
    OBVIOUS
  <2>3. y \in Bytes
    <3>1. After(Len(c), ds) \in Bytes
      BY AfterType
    <3>2. <<CR, LF>> \o After(Len(c), ds) \in Bytes
      BY <3>1, LineEnd, Concats
    <3> QED
      BY <2>a, <3>2, Concats
  <2>4. x \in Bytes /\ x # <<>>
    <3>1. Size(Len(c)) \in Symbol /\ CR \in Symbol /\ LF \in Symbol
      BY Symbols, Concats
    <3> QED
      BY <2>a, <3>1 DEF Bytes
  <2>5. left = x \o y
    BY <2>2, <2>a
  <2>6. left # <<>>
    BY <2>3, <2>4, <2>5, NotEmptyConcat
  <2> QED
    BY <1>2, <2>6 DEF AtSize
<1>3. CASE InChunk(d, left, due)
  <2>1. PICK tail \in Bytes, cs \in Chunks :
          left = tail \o (<<CR, LF>> \o After(d.chunk_size, cs))
    BY <1>3 DEF InChunk
  <2>a. PICK x, y, z : x = <<CR, LF>> /\ y = After(d.chunk_size, cs) /\ z = x \o y
    OBVIOUS
  <2>2. x \in Bytes /\ x # <<>> /\ y \in Bytes /\ z \in Bytes
    BY <2>a, AfterType, LineEnd, Concats
  <2>3. z # <<>>
    BY <2>2, <2>a, NotEmptyConcat
  <2>4. left # <<>>
    BY <2>1, <2>2, <2>3, <2>a, NotEmptyConcat
  <2> QED
    BY <1>3, <2>4 DEF InChunk
<1>4. CASE AtLineEnd(d, left, due)
  <2>1. PICK cs \in Chunks : left = <<LF>> \o After(d.chunk_size, cs)
    BY <1>4 DEF AtLineEnd
  <2>a. PICK x, y : x = <<LF>> /\ y = After(d.chunk_size, cs)
    OBVIOUS
  <2>2. x \in Bytes /\ x # <<>> /\ y \in Bytes
    BY <2>a, AfterType, LineEnd
  <2>3. left # <<>>
    BY <2>1, <2>2, <2>a, NotEmptyConcat
  <2> QED
    BY <1>4, <2>3 DEF AtLineEnd
<1>5. CASE AtFinish(d, left, due)
  <2>1. d.payload = P
    BY <1>0, <1>1, <1>5, Concats DEF AtFinish
  <2> QED
    BY <1>5, <2>1 DEF AtFinish
<1> QED
  BY <1>1, <1>2, <1>3, <1>4, <1>5 DEF Parsing

\* ChunkedProcessor::process, given any part of what is left.
LEMMA ChunksProceed ==
  ASSUME NEW d \in ChunkedProcessor, NEW data \in Bytes, LinesWhole(data), NEW w \in Bytes,
         NEW P, Parsed(d, data \o w, P),
         NEW e, e = ChunkedProcess[<<d, data>>]
  PROVE  e \in ChunkedProcessor /\ (e.fate = "throw" \/ Parsed(e, w, P))
<1> DEFINE G == {call \in Calls : Parsed(call[1], call[2] \o w, P) /\ LinesWhole(call[2])}
<1>1. ASSUME NEW call \in Calls, Parsed(call[1], call[2] \o w, P), LinesWhole(call[2]),
             call[2] # <<>>
      PROVE  Proceeds(ChunkStep(call[1], call[2]), w, P)
  <2>a. PICK f, more, step : f = call[1] /\ more = call[2] /\ step = ChunkStep(f, more)
    OBVIOUS
  <2>1. f \in ChunkedProcessor /\ more \in Bytes
    BY <2>a DEF Calls, Bytes
  <2>2. Parsed(f, more \o w, P) /\ LinesWhole(more) /\ more # <<>>
    BY <1>1, <2>a
  <2>3. ~f.complete
    <3>1. more \o w \in Bytes /\ more \o w # <<>>
      BY <2>1, <2>2, Concats, NotEmptyConcat
    <3> QED
      BY <2>2, <3>1, CompleteIsAll
  <2>4. Proceeds(step, w, P)
    BY <2>1, <2>2, <2>3, <2>a, StepProceeds
  <2> QED
    BY <2>4, <2>a
<1>2. \A call \in G : GoesOn[call] => NextCall[call] \in G
  <2> SUFFICES ASSUME NEW call \in G, GoesOn[call]
               PROVE  NextCall[call] \in G
    OBVIOUS
  <2>a. PICK step, next : step = ChunkStep(call[1], call[2]) /\ next = NextCall[call]
    OBVIOUS
  <2>1. call \in Calls /\ call[2] # <<>> /\ step[3]
    BY <2>a DEF GoesOn
  <2>2. Proceeds(step, w, P)
    BY <1>1, <2>1, <2>a
  <2>3. next \in Calls
    BY <2>1, <2>a, EachStepUsesData DEF UsesUp
  <2>4. next = <<step[1], step[2]>>
    BY <2>1, <2>a DEF NextCall
  <2>5. Parsed(step[1], step[2] \o w, P) /\ LinesWhole(step[2])
    BY <2>1, <2>2 DEF Proceeds
  <2>6. next[1] = step[1] /\ next[2] = step[2]
    BY <2>4
  <2> QED
    BY <2>3, <2>5, <2>6, <2>a
<1>3. <<d, data>> \in G
  <2>1. <<d, data>> \in Calls
    BY DEF Calls, Bytes
  <2> QED
    BY <2>1
<1>4. G \in SUBSET Calls
  OBVIOUS
<1>5. \A call \in G : call \in Calls /\ Parsed(call[1], call[2] \o w, P) /\ LinesWhole(call[2])
  OBVIOUS
<1> HIDE DEF G
<1>6. PICK last \in G : ~GoesOn[last] /\ ChunkedProcess[<<d, data>>] = EndOfLoop[last]
  BY <1>2, <1>3, <1>4, ChunkedProcessEnds
<1>7. last \in Calls
  BY <1>5
<1>8. CASE last[2] = <<>>
  <2>1. e = last[1]
    BY <1>6, <1>7, <1>8 DEF EndOfLoop
  <2>2. <<>> \o w = w
    BY Concats
  <2>3. Parsed(e, w, P)
    BY <1>5, <1>8, <2>1, <2>2
  <2> QED
    BY <2>3 DEF Parsed
<1>9. CASE last[2] # <<>>
  <2>a. PICK step : step = ChunkStep(last[1], last[2])
    OBVIOUS
  <2>1. e = step[1] /\ ~step[3]
    BY <1>6, <1>7, <1>9, <2>a DEF EndOfLoop, GoesOn
  <2>2. Proceeds(step, w, P)
    BY <1>1, <1>5, <1>9, <2>a
  <2>3. e \in ChunkedProcessor
    BY ChunkedProcessType DEF Bytes
  <2> QED
    BY <2>1, <2>2, <2>3 DEF Proceeds
<1> QED
  BY <1>8, <1>9


-----------------------------------------------------------------------------
(* Types.                                                                  *)

\* A processor that has read a header has something to pass the body on to.
Sane(r) ==
  /\ r \in ResponseProcessor
  /\ r.data.type = "chunked" => r.data \in ChunkedProcessor
  /\ r.status_code # NoStatus /\ r.fate = "ok" => r.data.type # "null"

LEMMA NewPayloadProcessors ==
  /\ NoProcessor \in PayloadProcessor /\ NoProcessor.type = "null"
  /\ NewChunkedProcessor \in ChunkedProcessor /\ NewChunkedProcessor.type = "chunked"
  /\ \A n \in Nat : /\ NewContentLenProcessor(n) \in PayloadProcessor
                    /\ NewContentLenProcessor(n).type = "length"
<1>1. NoProcessor \in PayloadProcessor /\ NoProcessor.type = "null"
  BY DEF NoProcessor, PayloadProcessor
<1>2. NoProcessor.chunk_size = -1 /\ NoProcessor.chunk_read = 0
  BY DEF NoProcessor
<1>a. PICK d : d = NoProcessor
  OBVIOUS
<1>3. d \in PayloadProcessor /\ d.chunk_size = -1 /\ d.chunk_read = 0
  BY <1>1, <1>2, <1>a
<1>4. [d EXCEPT !.type = "chunked"] \in ChunkedProcessor
  BY <1>3 DEF ChunkedProcessor, PayloadProcessor
<1>5. [d EXCEPT !.type = "chunked"].type = "chunked"
  BY <1>3 DEF PayloadProcessor
<1>6. ASSUME NEW n \in Nat
      PROVE  /\ [d EXCEPT !.type = "length", !.payload_size = n] \in PayloadProcessor
             /\ [d EXCEPT !.type = "length", !.payload_size = n].type = "length"
  BY <1>3 DEF PayloadProcessor
<1> QED
  BY <1>1, <1>4, <1>5, <1>6, <1>a DEF NewChunkedProcessor, NewContentLenProcessor

LEMMA SaneNew ==
  /\ Sane(NewProcessor) /\ NewProcessor.fate = "ok" /\ NewProcessor.status_code = NoStatus
  /\ \A r : Sane(r) => Sane(Reset(r)) /\ Reset(r).fate = r.fate
<1>1. Sane(NewProcessor) /\ NewProcessor.fate = "ok" /\ NewProcessor.status_code = NoStatus
  <2>a. PICK d : d = NoProcessor
    OBVIOUS
  <2>1. d \in PayloadProcessor /\ d.type = "null"
    BY <2>a, NewPayloadProcessors
  <2>2. NewProcessor = [status_code |-> NoStatus, header_str |-> <<>>, headers |-> NoHeaders,
                        data |-> d, fate |-> "ok"]
    BY <2>a DEF NewProcessor
  <2>3. NoHeaders \in [length : Nat \cup {NoLength}, chunked : BOOLEAN]
    BY DEF NoHeaders, NoLength
  <2> QED
    BY <2>1, <2>2, <2>3 DEF Sane, ResponseProcessor
<1>2. ASSUME NEW r, Sane(r)
      PROVE  Sane(Reset(r)) /\ Reset(r).fate = r.fate
  <2>a. PICK d, s, b : d = NoProcessor /\ s = Reset(r) /\ b = <<>>
    OBVIOUS
  <2>0. b \in Seq(Symbol) /\ NoStatus \in Nat \cup {NoStatus}
    BY <2>a
  <2>1. d \in PayloadProcessor /\ d.type = "null"
    BY <2>a, NewPayloadProcessors
  <2>2. s = [r EXCEPT !.status_code = NoStatus, !.header_str = b, !.data = d]
    BY <2>a DEF Reset
  <2>3. s \in ResponseProcessor /\ s.data = d /\ s.status_code = NoStatus /\ s.fate = r.fate
    BY <1>2, <2>0, <2>1, <2>2 DEF Sane, ResponseProcessor
  <2> QED
    BY <2>1, <2>3, <2>a DEF Sane
<1> QED
  BY <1>1, <1>2

LEMMA SanePassOn ==
  ASSUME NEW r, Sane(r), r.data.type # "null", NEW data \in Bytes,
         NEW s, s = PassOn(r, data)
  PROVE  /\ Sane(s) /\ s.data = Process(r.data, data) /\ s.fate = s.data.fate
         /\ s.status_code = r.status_code /\ s.headers = r.headers
<1>a. PICK d, e : d = r.data /\ e = Process(d, data)
  OBVIOUS
<1>0. r \in ResponseProcessor /\ d \in PayloadProcessor
  BY <1>a DEF Sane, ResponseProcessor
<1>1. e \in PayloadProcessor /\ e.type = d.type /\ (e.type = "chunked" => e \in ChunkedProcessor)
  <2>1. CASE d.type = "length"
    <3>1. e = [d EXCEPT !.payload = d.payload \o data]
      BY <1>a, <2>1 DEF Process, ContentLenProcess
    <3>2. d.payload \o data \in Seq(Symbol)
      <4>1. d.payload \in Bytes
        BY <1>0 DEF PayloadProcessor, Bytes
      <4>2. d.payload \o data \in Bytes
        BY <4>1, Concats
      <4> QED
        BY <4>2 DEF Bytes
    <3> QED
      BY <1>0, <2>1, <3>1, <3>2 DEF PayloadProcessor
  <2>2. CASE d.type = "chunked"
    <3>1. e = ChunkedProcess[<<d, data>>]
      BY <1>a, <2>2 DEF Process
    <3>2. d \in ChunkedProcessor
      BY <1>a, <2>2 DEF Sane
    <3>3. e \in ChunkedProcessor
      BY <3>1, <3>2, ChunkedProcessType DEF Bytes
    <3> QED
      BY <2>2, <3>3 DEF ChunkedProcessor
  <2>3. d.type # "null"
    BY <1>a
  <2> QED
    BY <1>0, <2>1, <2>2, <2>3 DEF PayloadProcessor
<1>2. s = [r EXCEPT !.data = e, !.fate = e.fate]
  BY <1>a DEF PassOn
<1>3. /\ s \in ResponseProcessor /\ s.data = e /\ s.fate = e.fate
      /\ s.status_code = r.status_code /\ s.headers = r.headers
  <2>1. e.fate \in {"ok", "throw", "crash"}
    BY <1>1 DEF PayloadProcessor
  <2> QED
    BY <1>0, <1>1, <1>2, <2>1 DEF ResponseProcessor
<1>4. s.data.type # "null"
  BY <1>1, <1>3, <1>a
<1> QED
  BY <1>1, <1>3, <1>4, <1>a DEF Sane

LEMMA ParsedHeader ==
  ASSUME NEW r \in ResponseProcessor, NEW first \in Symbol,
         NEW s, s = ParseHeader(r, first)
  PROVE  s \in ResponseProcessor /\ s.fate = r.fate /\ s.data = r.data
<1>1. CASE first.kind # "head"
  BY <1>1 DEF ParseHeader
<1>2. CASE first.kind = "head"
  <2>a. PICK h, len, chunked :
          /\ h = Headers[first.val]
          /\ len = IF h.length # NoLength THEN h.length ELSE r.headers.length
          /\ chunked = (h.chunked \/ r.headers.chunked)
    OBVIOUS
  <2>1. h \in Header
    <3>1. first.val \in DOMAIN Headers
      BY <1>2 DEF Symbol
    <3> QED
      BY <2>a, <3>1, HeadersAssumption
  <2>2. len \in Nat \cup {NoLength} /\ chunked \in BOOLEAN /\ h.status \in Nat
    BY <2>1, <2>a DEF Header, ResponseProcessor
  <2>b. PICK hs : hs = [length |-> len, chunked |-> chunked]
    OBVIOUS
  <2>3. s = [r EXCEPT !.status_code = h.status, !.headers = hs]
    BY <1>2, <2>a, <2>b DEF ParseHeader
  <2>4. hs \in [length : Nat \cup {NoLength}, chunked : BOOLEAN]
    BY <2>2, <2>b
  <2> QED
    BY <2>2, <2>3, <2>4 DEF ResponseProcessor
<1> QED
  BY <1>1, <1>2

LEMMA SelectedProcessor ==
  ASSUME NEW r \in ResponseProcessor, r.data.type = "chunked" => r.data \in ChunkedProcessor,
         r.fate = "ok", NEW s, s = SelectProcessor(r)
  PROVE  /\ Sane(s) /\ s.status_code = r.status_code /\ s.headers = r.headers
         /\ s.fate = "ok" => s.data.type # "null"
<1>1. CASE r.headers.length # NoLength
  <2>a. PICK d : d = NewContentLenProcessor(r.headers.length)
    OBVIOUS
  <2>1. d \in PayloadProcessor /\ d.type = "length"
    <3>1. r.headers.length \in Nat
      BY <1>1 DEF ResponseProcessor
    <3> QED
      BY <2>a, <3>1, NewPayloadProcessors
  <2>2. s = [r EXCEPT !.data = d]
    BY <1>1, <2>a DEF SelectProcessor
  <2>3. /\ s \in ResponseProcessor /\ s.data = d /\ s.fate = r.fate
        /\ s.status_code = r.status_code /\ s.headers = r.headers
    BY <2>1, <2>2 DEF ResponseProcessor
  <2> QED
    BY <2>1, <2>3 DEF Sane
<1>2. CASE r.headers.length = NoLength /\ r.headers.chunked
  <2>a. PICK d : d = NewChunkedProcessor
    OBVIOUS
  <2>1. d \in ChunkedProcessor /\ d \in PayloadProcessor /\ d.type = "chunked"
    BY <2>a, NewPayloadProcessors DEF ChunkedProcessor
  <2>2. s = [r EXCEPT !.data = d]
    BY <1>2, <2>a DEF SelectProcessor
  <2>3. /\ s \in ResponseProcessor /\ s.data = d /\ s.fate = r.fate
        /\ s.status_code = r.status_code /\ s.headers = r.headers
    BY <2>1, <2>2 DEF ResponseProcessor
  <2> QED
    BY <2>1, <2>3 DEF Sane
<1>3. CASE r.headers.length = NoLength /\ ~r.headers.chunked
  <2>2. s = [r EXCEPT !.fate = "throw"]
    BY <1>3 DEF SelectProcessor
  <2>3. /\ s \in ResponseProcessor /\ s.data = r.data /\ s.fate = "throw"
        /\ s.status_code = r.status_code /\ s.headers = r.headers
    BY <2>2 DEF ResponseProcessor
  <2> QED
    BY <2>3 DEF Sane
<1> QED
  BY <1>1, <1>2, <1>3


\* Where ProcessHeader looks for the blank line.
BlankLineFrom(str, start) ==
  IF Len(str) > 3 THEN Find(str, <<CR, LF, CR, LF>>, start) ELSE NotFound

StartOf(n) == IF n < 3 THEN 0 ELSE n - 3

BlankLine(r, data) == BlankLineFrom(r.header_str \o data, StartOf(Len(r.header_str)))

\* What there is of the response has room for the blank line that was found.
HasRoom(str, pos) ==
  /\ str \in Bytes
  /\ pos # NotFound => pos \in Nat /\ Len(str) \in Nat /\ pos + 4 <= Len(str)

LEMMA BlankLineFacts ==
  \A r \in ResponseProcessor : \A data \in Bytes :
    HasRoom(r.header_str \o data, BlankLine(r, data))
<1> SUFFICES ASSUME NEW r \in ResponseProcessor, NEW data \in Bytes
             PROVE  HasRoom(r.header_str \o data, BlankLine(r, data))
  OBVIOUS
<1>a. PICK str, pos : str = r.header_str \o data /\ pos = BlankLine(r, data)
  OBVIOUS
<1>1. r.header_str \in Bytes /\ str \in Bytes /\ Len(r.header_str) \in Nat /\ Len(str) \in Nat
  <2>1. r.header_str \in Bytes
    BY DEF ResponseProcessor, Bytes
  <2> QED
    BY <2>1, <1>a, Concats
<1>2. ASSUME pos # NotFound
      PROVE  pos \in Nat /\ pos + 4 <= Len(str)
  <2>a. PICK t, start : t = <<CR, LF, CR, LF>> /\ start = StartOf(Len(r.header_str))
    OBVIOUS
  <2>1. start \in Nat /\ Len(t) = 4
    BY <1>1, <2>a DEF StartOf
  <2>2. pos = Find(str, t, start)
    <3>1. pos = BlankLineFrom(str, start)
      BY <1>a, <2>a, Zenon DEF BlankLine
    <3> QED
      BY <1>2, <2>a, <3>1 DEF BlankLineFrom
  <2>3. pos \in start .. Len(str) - Len(t)
    <3>0. Len(str) \in Nat /\ Len(t) \in Nat
      BY <1>1, <2>1
    <3>1. \/ Find(str, t, start) \in start .. Len(str) - Len(t)
          \/ Find(str, t, start) = NotFound
      BY <2>1, <3>0, FindFacts, Zenon
    <3> QED
      BY <1>2, <2>2, <3>1
  <2> QED
    BY <1>1, <2>1, <2>3
<1>3. HasRoom(str, pos)
  BY <1>1, <1>2 DEF HasRoom
<1> QED
  BY <1>3, <1>a

LEMMA HeaderNotFound ==
  ASSUME NEW r, NEW data, BlankLine(r, data) = NotFound
  PROVE  ProcessHeader(r, data)
           = [r EXCEPT !.header_str = r.header_str \o data,
                       !.fate = IF r.data.type = "null" THEN "crash" ELSE "ok"]
BY DEF ProcessHeader, BlankLine, BlankLineFrom, StartOf

LEMMA HeaderFound ==
  ASSUME NEW r, NEW data, BlankLine(r, data) # NotFound,
         NEW str, str = r.header_str \o data, NEW pos, pos = BlankLine(r, data),
         NEW q, q = [SelectProcessor(ParseHeader(r, str[1])) EXCEPT
                       !.header_str = SubSeq(str, 1, pos + 4)]
  PROVE  ProcessHeader(r, data)
           = IF q.fate = "ok" /\ Len(str) > pos + 4
             THEN PassOn(q, Drop(str, pos + 4)) ELSE q
BY DEF ProcessHeader, BlankLine, BlankLineFrom, StartOf

LEMMA SaneHeader ==
  ASSUME NEW r, Sane(r), r.fate = "ok", NEW data \in Bytes,
         NEW s, s = ProcessHeader(r, data)
  PROVE  Sane(s)
<1>0. r \in ResponseProcessor
  BY DEF Sane
<1>a. PICK str, pos, more :
        /\ str = r.header_str \o data /\ pos = BlankLine(r, data)
        /\ more = Drop(str, pos + 4)
  OBVIOUS
<1>1. /\ str \in Bytes
      /\ pos # NotFound => pos \in Nat /\ Len(str) \in Nat /\ pos + 4 <= Len(str)
  <2>1. HasRoom(r.header_str \o data, BlankLine(r, data))
    BY <1>0, BlankLineFacts, Zenon
  <2>2. HasRoom(str, pos)
    BY <1>a, <2>1
  <2> QED
    BY <2>2 DEF HasRoom
<1>2. CASE pos = NotFound
  <2>a. PICK f : f = IF r.data.type = "null" THEN "crash" ELSE "ok"
    OBVIOUS
  <2>1. s = [r EXCEPT !.header_str = str, !.fate = f]
    BY <1>2, <1>a, <2>a, HeaderNotFound
  <2>2. /\ s \in ResponseProcessor /\ s.data = r.data /\ s.fate = f
        /\ s.status_code = r.status_code
    BY <1>0, <1>1, <2>1, <2>a DEF ResponseProcessor, Bytes
  <2> QED
    BY <2>2, <2>a DEF Sane
<1>3. CASE pos # NotFound
  <2>a. PICK p, sel, h, q :
          /\ p = ParseHeader(r, str[1]) /\ sel = SelectProcessor(p)
          /\ h = SubSeq(str, 1, pos + 4) /\ q = [sel EXCEPT !.header_str = h]
    OBVIOUS
  <2>1. str[1] \in Symbol
    <3>1. 1 \in 1 .. Len(str)
      BY <1>1, <1>3
    <3> QED
      BY <1>1, <3>1, ElementOfSeq DEF Bytes
  <2>2. p \in ResponseProcessor /\ p.fate = r.fate /\ p.data = r.data
    BY <1>0, <2>1, <2>a, ParsedHeader
  <2>3. Sane(sel) /\ (sel.fate = "ok" => sel.data.type # "null")
    BY <2>2, <2>a, SelectedProcessor DEF Sane
  <2>4. h \in Seq(Symbol)
    <3>1. pos + 4 \in Int
      BY <1>1, <1>3
    <3> QED
      BY <1>1, <1>3, <2>a, <3>1, TakeFacts DEF Bytes
  <2>5. /\ q \in ResponseProcessor /\ q.data = sel.data /\ q.fate = sel.fate
        /\ q.status_code = sel.status_code
    BY <2>3, <2>4, <2>a DEF Sane, ResponseProcessor
  <2>6. Sane(q) /\ (q.fate = "ok" => q.data.type # "null")
    BY <2>3, <2>5 DEF Sane
  <2>7. s = IF q.fate = "ok" /\ Len(str) > pos + 4 THEN PassOn(q, more) ELSE q
    <3>1. q = [SelectProcessor(ParseHeader(r, str[1])) EXCEPT
                 !.header_str = SubSeq(str, 1, pos + 4)]
      BY <2>a
    <3> QED
      BY <1>3, <1>a, <3>1, HeaderFound
  <2>8. more \in Bytes
    <3>1. pos + 4 \in Nat
      BY <1>1, <1>3
    <3> QED
      BY <1>1, <1>a, <3>1, DropFacts DEF Bytes
  <2> QED
    BY <2>6, <2>7, <2>8, SanePassOn
<1> QED
  BY <1>2, <1>3

LEMMA SaneData ==
  ASSUME NEW r, Sane(r), r.fate = "ok", NEW data \in Bytes,
         NEW s, s = ProcessData(r, data)
  PROVE  Sane(s)
<1>1. CASE r.status_code = NoStatus
  BY <1>1, SaneHeader DEF ProcessData
<1>2. CASE r.status_code # NoStatus
  <2>1. r.data.type # "null"
    BY <1>2 DEF Sane
  <2> QED
    BY <1>2, <2>1, SanePassOn DEF ProcessData
<1> QED
  BY <1>1, <1>2

\* What the server sends.
LEMMA FramesOfChunks ==
  ASSUME NEW cs \in Seq(Bytes)
  PROVE  /\ FlattenSeq(cs) \in Bytes
         /\ FlattenSeq([i \in DOMAIN cs |-> ChunkOf(cs[i])]) = FlatMap(ChunkFun, cs)
         /\ FlatMap(ChunkFun, cs) \o ChunkOf(<<>>) = Frames(cs)
         /\ Frames(cs) \in Bytes
<1>1. ChunkFun \in [Bytes -> Bytes] /\ ChunkOf(<<>>) \in Bytes
  <2>1. \A c \in Bytes : ChunkOf(c) \in Bytes
    BY Concats, ChunkOfShape
  <2> QED
    BY <2>1, Concats DEF ChunkFun
<1>2. [i \in DOMAIN cs |-> ChunkOf(cs[i])] = Mapped(ChunkFun, cs)
  <2>1. ASSUME NEW i \in DOMAIN cs
        PROVE  ChunkOf(cs[i]) = ChunkFun[cs[i]]
    <3>1. cs[i] \in Bytes
      BY ElementOfSeq
    <3> QED
      BY <3>1 DEF ChunkFun
  <2> QED
    BY <2>1 DEF Mapped
<1>3. FlatMap(ChunkFun, cs) \in Bytes
  <2>1. ChunkFun \in [Bytes -> Seq(Symbol)]
    BY <1>1 DEF Bytes
  <2> QED
    BY <2>1, FlatMapType, Zenon DEF Bytes
<1>4. FlatMap(ChunkFun, cs) \o ChunkOf(<<>>) \in Bytes
  BY <1>1, <1>3, Concats
<1>5. FlattenSeq(cs) \in Bytes
  BY FlattenType DEF Bytes
<1> QED
  BY <1>2, <1>4, <1>5 DEF Frames, FlatMap

HeadSymbols(r) == <<Head1(r.head), CR, LF, CR, LF>>

Body(r) == IF Headers[r.head].chunked THEN Frames(r.chunks) ELSE Payload(r)

LEMMA EncodeShape ==
  ASSUME NEW r \in Response
  PROVE  /\ HeadSymbols(r) \in Bytes /\ Body(r) \in Bytes /\ Payload(r) \in Bytes
         /\ Headers[r.head] \in Header
         /\ Encode(r) = HeadSymbols(r) \o Body(r) /\ Encode(r) \in Bytes
<1>1. r.head \in DOMAIN Headers /\ r.chunks \in Seq(Bytes)
  BY DEF Response, Bytes
<1>2. HeadSymbols(r) \in Bytes
  <2>1. Head1(r.head) \in Symbol /\ CR \in Symbol /\ LF \in Symbol
    BY <1>1, Symbols DEF Head1, Symbol
  <2> QED
    BY <2>1 DEF HeadSymbols, Bytes
<1>3. Body(r) \in Bytes /\ Payload(r) \in Bytes
  BY <1>1, FramesOfChunks DEF Body, Payload
<1>4. Encode(r) = HeadSymbols(r) \o Body(r)
  <2>1. FlattenSeq([i \in DOMAIN r.chunks |-> ChunkOf(r.chunks[i])]) \o ChunkOf(<<>>)
           = Frames(r.chunks)
    BY <1>1, FramesOfChunks
  <2> QED
    BY <2>1 DEF Encode, HeadSymbols, Body
<1>5. Headers[r.head] \in Header
  BY <1>1, HeadersAssumption
<1> QED
  BY <1>2, <1>3, <1>4, <1>5, Concats


ProcessorTypes ==
  /\ Sane(expected) /\ Sane(test)
  /\ pc \in Running => expected.fate = "ok" /\ test.fate = "ok"

NetworkTypes == inbox \in Bytes /\ wire \in Bytes

WriteTypes ==
  /\ nwrite \in Nat
  /\ nwrite > 0 => queue # <<>> /\ Action.type = "SEND" /\ nwrite < Len(Action.data)

DescriptorTypes ==
  /\ current \in Nat \ {0} /\ socket \in fds \cup {-1}
  /\ fds \subseteq Nat /\ IsFiniteSet(fds)

TypeInv ==
  SocketInv /\ ProcessorTypes /\ NetworkTypes /\ WriteTypes /\ DescriptorTypes

LEMMA ActionData ==
  ASSUME SocketInv, pc \in Running, queue # <<>>
  PROVE  Action.data \in Bytes
<1>a. PICK S, q : /\ S = [type : {"CONNECT", "SEND", "RECV", "CLOSE"}, data : Seq(Symbol)]
                  /\ q = queue
  OBVIOUS
<1>1. q \in Seq(S) /\ Len(q) \in Nat /\ q # <<>>
  BY <1>a DEF SocketInv
<1>2. 1 \in 1 .. Len(q)
  BY <1>1, EmptySeq
<1>3. q[1] \in S
  BY <1>1, <1>2, ElementOfSeq
<1> QED
  BY <1>3, <1>a DEF Action, Bytes

\* The program goes on only with a processor that threw and crashed at nothing.
LEMMA FatesRunning ==
  ASSUME NEW r, Sane(r), NEW p \in Fates(r), p \in Running
  PROVE  p = "recv" /\ r.fate = "ok"
BY DEF Sane, ResponseProcessor, Fates, FateOf, Running

LEMMA ProcessorTypesNext ==
  ASSUME TypeInv, [Next]_vars
  PROVE  ProcessorTypes'
<1>0. Sane(expected) /\ Sane(test) /\ SocketInv
  BY DEF TypeInv, ProcessorTypes
<1>1. CASE NextConversation
  <2>1. expected' = NewProcessor /\ test' = NewProcessor
    BY <1>1 DEF NextConversation, NewClient
  <2> QED
    BY <2>1, SaneNew DEF ProcessorTypes
<1>2. CASE /\ UNCHANGED <<expected, test>>
           /\ pc' \in Ended \/ pc \in Running
  BY <1>2 DEF TypeInv, ProcessorTypes, Running, Ended
<1>3. ASSUME NEW n, Write(n)
      PROVE  ProcessorTypes'
  <2>1. /\ pc \in Running /\ pc' = pc
        /\ \/ expected' = Reset(expected) /\ test' = Reset(test)
           \/ UNCHANGED <<expected, test>>
    BY <1>3 DEF Write, AtAction, Running
  <2>2. expected.fate = "ok" /\ test.fate = "ok"
    BY <2>1 DEF TypeInv, ProcessorTypes
  <2>3. CASE expected' = Reset(expected) /\ test' = Reset(test)
    BY <1>0, <2>2, <2>3, SaneNew DEF ProcessorTypes
  <2>4. CASE UNCHANGED <<expected, test>>
    BY <1>0, <2>2, <2>4 DEF ProcessorTypes
  <2> QED
    BY <2>1, <2>3, <2>4
<1>4. CASE Expect
  <2>1. /\ pc \in Running /\ queue # <<>> /\ pc' \in Fates(expected') /\ test' = test
        /\ expected' = expected \/ expected' = ProcessData(expected, Action.data)
    BY <1>4 DEF Expect, AtAction, Running
  <2>2. expected.fate = "ok" /\ test.fate = "ok" /\ Action.data \in Bytes
    BY <1>0, <2>1, ActionData DEF TypeInv, ProcessorTypes
  <2>3. Sane(expected')
    BY <1>0, <2>1, <2>2, SaneData
  <2>4. pc' \in Running => expected'.fate = "ok"
    BY <2>1, <2>3, FatesRunning
  <2> QED
    BY <1>0, <2>1, <2>2, <2>3, <2>4 DEF ProcessorTypes
<1>5. ASSUME NEW n \in 1 .. BUFSIZ, Read(n)
      PROVE  ProcessorTypes'
  <2>1. /\ pc \in Running /\ pc' \in Fates(test') /\ expected' = expected
        /\ test' = ProcessData(test, SubSeq(wire, 1, n)) /\ n <= Len(wire)
    BY <1>5 DEF Read, Running
  <2>2. expected.fate = "ok" /\ test.fate = "ok" /\ wire \in Bytes
    BY <2>1 DEF TypeInv, ProcessorTypes, NetworkTypes
  <2>3. SubSeq(wire, 1, n) \in Bytes
    BY <2>1, <2>2, TakeFacts, BufsizAssumption DEF Bytes
  <2>4. Sane(test')
    BY <1>0, <2>1, <2>2, <2>3, SaneData
  <2>5. pc' \in Running => test'.fate = "ok"
    BY <2>1, <2>4, FatesRunning
  <2> QED
    BY <1>0, <2>1, <2>2, <2>4, <2>5 DEF ProcessorTypes
<1>6. CASE Connect \/ Close \/ Received
  BY <1>2, <1>6 DEF Connect, Close, Received, AtAction, Running
<1>7. CASE ConnectFails \/ IoFails \/ EndOfStream
  BY <1>2, <1>7 DEF ConnectFails, IoFails, EndOfStream, Ended
<1>8. CASE Answering \/ HangUp
  BY <1>2, <1>8 DEF Answering, Answer, HangUp, client
<1>9. CASE UNCHANGED vars
  BY <1>9 DEF TypeInv, ProcessorTypes, vars, client
<1> QED
  BY <1>1, <1>3, <1>4, <1>5, <1>6, <1>7, <1>8, <1>9 DEF Next, ClientStep, ClientFails

LEMMA RequestEndType ==
  ASSUME inbox \in Bytes, \E i \in DOMAIN inbox : inbox[i] = EndOfRequest
  PROVE  /\ RequestEnd \in 1 .. Len(inbox) /\ inbox[RequestEnd] = EndOfRequest
         /\ \A j \in 1 .. RequestEnd - 1 : inbox[j] # EndOfRequest
<1>a. PICK T : T = {i \in DOMAIN inbox : inbox[i] = EndOfRequest}
  OBVIOUS
<1>0. DOMAIN inbox = 1 .. Len(inbox) /\ Len(inbox) \in Nat
  BY DEF Bytes
<1>1. T \subseteq Nat /\ T # {}
  BY <1>0, <1>a
<1>2. PICK x \in T : \A y \in T : x <= y
  BY <1>1, LeastNatural
<1>3. ASSUME NEW j \in 1 .. x - 1
      PROVE  inbox[j] # EndOfRequest
  <2>1. j \in DOMAIN inbox /\ ~(x <= j)
    BY <1>0, <1>2, <1>a
  <2> QED
    BY <1>2, <1>a, <2>1
<1>4. \E i \in DOMAIN inbox :
        inbox[i] = EndOfRequest /\ \A j \in 1 .. i - 1 : inbox[j] # EndOfRequest
  BY <1>2, <1>3, <1>a
<1>5. /\ RequestEnd \in DOMAIN inbox /\ inbox[RequestEnd] = EndOfRequest
      /\ \A j \in 1 .. RequestEnd - 1 : inbox[j] # EndOfRequest
  BY <1>4, Zenon DEF RequestEnd
<1> QED
  BY <1>0, <1>5

LEMMA NetworkTypesNext ==
  ASSUME TypeInv, [Next]_vars
  PROVE  NetworkTypes'
<1>0. inbox \in Bytes /\ wire \in Bytes /\ SocketInv
  BY DEF TypeInv, NetworkTypes
<1>1. CASE QuietNetwork
  BY <1>1, Concats DEF QuietNetwork, NetworkTypes
<1>2. CASE UNCHANGED <<inbox, wire>>
  BY <1>0, <1>2 DEF NetworkTypes
<1>3. ASSUME NEW n \in 1 .. MaxWrite, Write(n)
      PROVE  NetworkTypes'
  <2>a. PICK data, part : /\ data = Action.data
                          /\ part = SubSeq(data, nwrite + 1, nwrite + n)
    OBVIOUS
  <2>1. /\ pc \in Running /\ queue # <<>> /\ AtAction("SEND") /\ nwrite + n <= Len(data)
        /\ inbox' = inbox \/ inbox' = inbox \o part
        /\ wire' = wire
    BY <1>3, <2>a DEF Write, AtAction, Running
  <2>2. data \in Bytes /\ nwrite \in Nat
    BY <1>0, <2>1, <2>a, ActionData DEF TypeInv, WriteTypes
  <2>3. n \in Nat
    <3>1. Len(data) \in Nat /\ MaxWrite = Len(data) - nwrite
      BY <2>1, <2>2, <2>a, Concats DEF MaxWrite
    <3> QED
      BY <2>2, <3>1
  <2>4. part \in Bytes
    <3>1. \A i \in nwrite + 1 .. nwrite + n : data[i] \in Symbol
      <4>1. Len(data) \in Nat
        BY <2>2, Concats
      <4>2. \A i \in nwrite + 1 .. nwrite + n : i \in 1 .. Len(data)
        BY <2>1, <2>2, <2>3, <4>1
      <4> QED
        BY <2>2, <4>2, ElementOfSeq DEF Bytes
    <3> QED
      BY <2>2, <2>3, <2>a, <3>1, SubSeqProperties DEF Bytes
  <2>5. inbox' \in Bytes
    BY <1>0, <2>1, <2>4, Concats
  <2> QED
    BY <1>0, <2>1, <2>5 DEF NetworkTypes
<1>4. ASSUME NEW n \in 1 .. BUFSIZ, Read(n)
      PROVE  NetworkTypes'
  <2>1. wire' = Drop(wire, n) /\ inbox' = inbox /\ n \in Nat
    BY <1>4, BufsizAssumption DEF Read
  <2>2. Drop(wire, n) \in Bytes
    BY <1>0, <2>1, DropFacts DEF Bytes
  <2> QED
    BY <1>0, <2>1, <2>2 DEF NetworkTypes
<1>5. CASE Answering
  <2>1. PICK r \in Answers : Answer(r)
    BY <1>5 DEF Answering
  <2>2. /\ \E i \in DOMAIN inbox : inbox[i] = EndOfRequest
        /\ inbox' = Drop(inbox, RequestEnd) /\ wire' = wire \o Encode(r)
    BY <2>1 DEF Answer
  <2>3. RequestEnd \in Nat
    <3>1. RequestEnd \in 1 .. Len(inbox) /\ Len(inbox) \in Nat
      BY <1>0, <2>2, RequestEndType, Concats
    <3> QED
      BY <3>1
  <2>4. Drop(inbox, RequestEnd) \in Bytes
    BY <1>0, <2>3, DropFacts DEF Bytes
  <2>5. Encode(r) \in Bytes
    BY AnswersAssumption, EncodeShape
  <2>6. wire \o Encode(r) \in Bytes
    BY <1>0, <2>5, Concats
  <2> QED
    BY <2>2, <2>4, <2>6 DEF NetworkTypes
<1> QED
  BY <1>1, <1>2, <1>3, <1>4, <1>5
  DEF Next, ClientStep, ClientFails, NextConversation, Connect, Close, Expect, EndOfStream,
      Received, ConnectFails, IoFails, HangUp, network, vars

LEMMA WriteTypesNext ==
  ASSUME TypeInv, [Next]_vars
  PROVE  WriteTypes'
<1>0. SocketInv /\ WriteTypes /\ nwrite \in Nat
  BY DEF TypeInv, WriteTypes
<1>1. CASE UNCHANGED <<queue, nwrite>>
  BY <1>0, <1>1 DEF WriteTypes, Action
<1>2. CASE nwrite' = 0
  BY <1>2 DEF WriteTypes
<1>3. ASSUME NEW n \in 1 .. MaxWrite, Write(n)
      PROVE  WriteTypes'
  <2>a. PICK data : data = Action.data
    OBVIOUS
  <2>1. /\ pc \in Running /\ queue # <<>> /\ Action.type = "SEND" /\ nwrite + n <= Len(data)
        /\ \/ nwrite' = 0
           \/ nwrite + n # Len(data) /\ nwrite' = nwrite + n /\ UNCHANGED queue
        /\ MaxWrite = Len(data) - nwrite
    BY <1>3, <2>a DEF Write, AtAction, Action, Running, MaxWrite
  <2>2. Len(data) \in Nat
    BY <1>0, <2>1, <2>a, ActionData, Concats
  <2>3. n \in Nat
    BY <1>0, <2>1, <2>2
  <2>4. CASE nwrite' = 0
    BY <2>4, <1>2
  <2>5. CASE nwrite + n # Len(data) /\ nwrite' = nwrite + n /\ UNCHANGED queue
    <3>1. nwrite' \in Nat /\ nwrite' < Len(data)
      BY <1>0, <2>1, <2>2, <2>3, <2>5
    <3>2. Action' = Action
      BY <2>5 DEF Action
    <3> QED
      BY <2>1, <2>5, <2>a, <3>1, <3>2 DEF WriteTypes
  <2> QED
    BY <2>1, <2>4, <2>5
<1>4. CASE Connect \/ Close
  <2>1. queue # <<>> /\ Action.type # "SEND" /\ nwrite' = nwrite
    BY <1>4 DEF Connect, Close, AtAction, Action
  <2>2. nwrite' = 0
    BY <1>0, <2>1 DEF WriteTypes
  <2> QED
    BY <1>2, <2>2
<1>5. CASE Received
  <2>1. pc = "recv" /\ nwrite' = nwrite
    BY <1>5 DEF Received
  <2>2. queue # <<>> /\ Action.type = "RECV"
    BY <1>0, <2>1 DEF SocketInv
  <2>3. nwrite' = 0
    BY <1>0, <2>1, <2>2 DEF WriteTypes
  <2> QED
    BY <1>2, <2>3
<1> QED
  BY <1>1, <1>2, <1>3, <1>4, <1>5
  DEF Next, ClientStep, ClientFails, NextConversation, NewClient, Expect, Read, EndOfStream,
      ConnectFails, IoFails, Answering, Answer, HangUp, client, vars

LEMMA DescriptorTypesNext ==
  ASSUME TypeInv, [Next]_vars
  PROVE  DescriptorTypes'
<1>0. DescriptorTypes
  BY DEF TypeInv
<1>1. CASE UNCHANGED <<current, socket, fds>>
  BY <1>0, <1>1 DEF DescriptorTypes
<1>2. CASE NextConversation
  <2>1. current' \in {current, current + 1} /\ socket' = -1 /\ fds' = fds
    BY <1>2 DEF NextConversation, NewClient
  <2> QED
    BY <1>0, <2>1 DEF DescriptorTypes
<1>3. CASE Connect \/ ConnectFails
  <2>1. /\ current' = current
        /\ \/ UNCHANGED <<socket, fds>>
           \/ socket' = LowestUnused /\ fds' = fds \cup {LowestUnused}
    BY <1>3 DEF Connect, ConnectFails
  <2>2. LowestUnused \in Nat
    BY <1>0, LowestUnusedIsNew DEF DescriptorTypes
  <2>3. IsFiniteSet(fds \cup {LowestUnused})
    BY <1>0, FS_AddElement DEF DescriptorTypes
  <2> QED
    BY <1>0, <2>1, <2>2, <2>3 DEF DescriptorTypes
<1>4. CASE Close
  <2>1. current' = current /\ socket' = -1 /\ fds' = fds \ {socket}
    BY <1>4 DEF Close
  <2>2. IsFiniteSet(fds \ {socket})
    BY <1>0, FS_Subset DEF DescriptorTypes
  <2> QED
    BY <1>0, <2>1, <2>2 DEF DescriptorTypes
<1> QED
  BY <1>1, <1>2, <1>3, <1>4
  DEF Next, ClientStep, ClientFails, Write, Expect, Read, EndOfStream, Received, IoFails,
      Answering, Answer, HangUp, client, vars

LEMMA TypeNext == TypeInv /\ [Next]_vars => TypeInv'
<1> SUFFICES ASSUME TypeInv, [Next]_vars
             PROVE  TypeInv'
  OBVIOUS
<1> QED
  BY SocketNext, ProcessorTypesNext, NetworkTypesNext, WriteTypesNext, DescriptorTypesNext
  DEF TypeInv

LEMMA TypeInit == Init => TypeInv
<1> SUFFICES ASSUME Init
             PROVE  TypeInv
  OBVIOUS
<1>1. SocketInv
  BY SocketInit
<1>2. ProcessorTypes
  BY SaneNew DEF Init, ProcessorTypes
<1>3. NetworkTypes
  BY Concats DEF Init, NetworkTypes
<1>4. WriteTypes
  BY DEF Init, WriteTypes
<1>5. DescriptorTypes
  BY FS_EmptySet DEF Init, DescriptorTypes
<1> QED
  BY <1>1, <1>2, <1>3, <1>4, <1>5 DEF TypeInv

\* The types of the client's state: a write in progress leaves something to
\* write, and both processors are ones the parser's operations are defined on,
\* whatever was recorded and however the answers are framed and cut up.
THEOREM ReplayTypeCorrect == Spec => []TypeOK
<1>1. TypeInv => TypeOK
  BY DEF TypeInv, SocketInv, ProcessorTypes, NetworkTypes, WriteTypes, DescriptorTypes, Sane,
         Bytes, TypeOK
<1> QED
  BY <1>1, TypeInit, TypeNext, PTL DEF Spec

=============================================================================
