---------------------------- MODULE UdpReplayProofs ----------------------------
(***************************************************************************)
(* Proofs about UdpReplay: sockets, the differences reported, and waiting  *)
(* in recvfrom(), for every capture, every option, every server and every  *)
(* network.                                                                *)
(***************************************************************************)
EXTENDS UdpReplay, SequenceLemmas

\* A client lives exactly as long as pc is at its replay; its destructor is the
\* only way out, and a crash is the end.
ClientInv ==
  /\ pc \in {"options", "between", "replay"} \cup Ended
  /\ NoSocketIsLeft

\* Leaving replay(), in whichever way.
LEMMA DestroyCloses ==
  ASSUME ClientInv, pc = "replay", NEW next \in {"between", "failed"}, Destroy(next),
         UNCHANGED current
  PROVE  ClientInv'
<1>1. fds = {current} /\ fds' = fds \ {current}
  BY DEF ClientInv, NoSocketIsLeft, Destroy
<1>2. pc' = next \/ pc' = "crashed"
  BY DEF Destroy
<1> QED
  BY <1>1, <1>2 DEF ClientInv, NoSocketIsLeft, Ended

LEMMA ClientNext ==
  ASSUME ClientInv, [Next]_vars
  PROVE  ClientInv'
<1>1. CASE Options \/ SocketFails \/ StartReplaying \/ MainReturns
  BY <1>1 DEF Options, ParseValidator, RejectValidator, SocketFails, StartReplaying,
              MainReturns, ClientInv, NoSocketIsLeft, Ended
<1>2. CASE NewClient
  <2>1. fds = {} /\ current' = current + 1 /\ fds' = fds \cup {current + 1} /\ pc' = "replay"
    BY <1>2 DEF NewClient, ClientInv, NoSocketIsLeft
  <2> QED
    BY <2>1 DEF ClientInv, NoSocketIsLeft
<1>3. CASE Send \/ Network \/ Answer \/ UNCHANGED vars
  BY <1>3 DEF Send, Network, Lose, Duplicate, Overtake, Intrude, Answer, MayFail, vars,
              program, ClientInv, NoSocketIsLeft
<1>4. CASE Receive
  <2>1. pc = "replay" /\ pc' \in {"replay", "crashed"} /\ UNCHANGED <<current, fds>>
    BY <1>4 DEF Receive, AtAction
  <2> QED
    BY <2>1 DEF ClientInv, NoSocketIsLeft, Ended
<1>5. CASE ReplayReturns \/ ReplayThrows \/ ValidateThrows
  <2>1. /\ pc = "replay" /\ UNCHANGED current
        /\ Destroy("between") \/ Destroy("failed")
    BY <1>5 DEF ReplayReturns, ReplayThrows, ValidateThrows, AtAction
  <2> QED
    BY <2>1, DestroyCloses
<1> QED
  BY <1>1, <1>2, <1>3, <1>4, <1>5 DEF Next, ClientStep, ClientFails

\* udp_replay.h, ~UdpReplayClient: whatever the network does, whichever call
\* fails and whatever the validator throws, one client has one socket, and none
\* is left when there is no client.
THEOREM NoSocketLeft == Spec => []NoSocketIsLeft
<1>1. Init => ClientInv
  BY DEF Init, ClientInv, NoSocketIsLeft
<1>2. ClientInv => NoSocketIsLeft
  BY DEF ClientInv
<1> QED
  BY <1>1, <1>2, ClientNext, PTL DEF Spec

-----------------------------------------------------------------------------
(* What a conversation sends, holds, and has sent back.                    *)

DataFun(type) == [a \in Action |-> IF a.type = type THEN <<a.data>> ELSE <<>>]
ReplyFun      == [a \in Action |-> IF a.type = "SEND" THEN Replies[a.data] ELSE <<>>]

\* What the datagrams of u will bring.
Coming(u) == FlatMap(Replies, u)

LEMMA DataOfIsFlatMap ==
  ASSUME NEW type, NEW s \in Seq(Action)
  PROVE  DataOf(s, type) = FlatMap(DataFun(type), s)
<1>1. \A i \in DOMAIN s : s[i] \in Action
  BY ElementOfSeq
<1>2. \A i \in DOMAIN s : DataFun(type)[s[i]]
                            = IF s[i].type = type THEN <<s[i].data>> ELSE <<>>
  BY <1>1, Zenon DEF DataFun
<1>3. [i \in DOMAIN s |-> IF s[i].type = type THEN <<s[i].data>> ELSE <<>>]
        = [i \in DOMAIN s |-> DataFun(type)[s[i]]]
  BY <1>2, Zenon
<1> QED
  BY <1>3, Zenon DEF DataOf, FlatMap, Mapped

LEMMA RepliesToIsFlatMap ==
  ASSUME NEW s \in Seq(Action)
  PROVE  RepliesTo(s) = FlatMap(ReplyFun, s)
<1>1. \A i \in DOMAIN s : s[i] \in Action
  BY ElementOfSeq
<1>2. \A i \in DOMAIN s : ReplyFun[s[i]]
                            = IF s[i].type = "SEND" THEN Replies[s[i].data] ELSE <<>>
  BY <1>1, Zenon DEF ReplyFun
<1>3. [i \in DOMAIN s |-> IF s[i].type = "SEND" THEN Replies[s[i].data] ELSE <<>>]
        = [i \in DOMAIN s |-> ReplyFun[s[i]]]
  BY <1>2, Zenon
<1> QED
  BY <1>3, Zenon DEF RepliesTo, FlatMap, Mapped

LEMMA FunTypes ==
  /\ \A type : DataFun(type) \in [Action -> Seq(Message)]
  /\ ReplyFun \in [Action -> Seq(Message)]
  /\ Replies \in [Message -> Seq(Message)]
<1>1. \A a \in Action : a.data \in Message
  BY DEF Action
<1>2. \A a \in Action : <<a.data>> \in Seq(Message) /\ Replies[a.data] \in Seq(Message)
  BY <1>1, RepliesAssumption
<1>3. ASSUME NEW type, NEW a \in Action
      PROVE  (IF a.type = type THEN <<a.data>> ELSE <<>>) \in Seq(Message)
  BY <1>2
<1>4. ASSUME NEW a \in Action
      PROVE  (IF a.type = "SEND" THEN Replies[a.data] ELSE <<>>) \in Seq(Message)
  BY <1>2
<1> QED
  BY <1>3, <1>4, RepliesAssumption DEF DataFun, ReplyFun

LEMMA DataOfFacts ==
  ASSUME NEW s \in Seq(Action), NEW a \in Action, NEW type
  PROVE  /\ DataOf(s, type) \in Seq(Message)
         /\ a.type = type => DataOf(s \o <<a>>, type) = DataOf(s, type) \o <<a.data>>
         /\ a.type # type => DataOf(s \o <<a>>, type) = DataOf(s, type)
<1>a. PICK f, e : f = DataFun(type) /\ e = <<a>>
  OBVIOUS
<1>1. f \in [Action -> Seq(Message)]
  BY <1>a, FunTypes, Zenon
<1>m. Maps(f, Action, Seq(Message))
  BY <1>1 DEF Maps
<1>2. e \in Seq(Action) /\ s \o e \in Seq(Action)
  <2>1. e \in Seq(Action)
    BY <1>a
  <2> QED
    BY <2>1, ConcatProperties
<1>3. DataOf(s, type) = FlatMap(f, s) /\ DataOf(s \o e, type) = FlatMap(f, s \o e)
  BY <1>2, <1>a, DataOfIsFlatMap, Zenon
<1>4. FlatMap(f, s) \in Seq(Message)
  BY <1>1, FlatMapType
<1>5. FlatMap(f, s \o e) = FlatMap(f, s) \o FlatMap(f, e)
  BY <1>m, <1>2, FlatMapConcat
<1>6. FlatMap(f, e) = f[a]
  BY <1>1, <1>a, FlatMapOne
<1>7. f[a] = IF a.type = type THEN <<a.data>> ELSE <<>>
  BY <1>a, Zenon DEF DataFun
<1>8. FlatMap(f, s) \o <<>> = FlatMap(f, s)
  BY <1>4, ConcatEmptySeq
<1> QED
  BY <1>3, <1>4, <1>5, <1>6, <1>7, <1>8, <1>a, Zenon

LEMMA RepliesToFacts ==
  ASSUME NEW s \in Seq(Action), NEW a \in Action
  PROVE  /\ RepliesTo(s) \in Seq(Message)
         /\ a.type = "SEND" => RepliesTo(s \o <<a>>) = RepliesTo(s) \o Replies[a.data]
         /\ a.type # "SEND" => RepliesTo(s \o <<a>>) = RepliesTo(s)
<1>a. PICK f, e : f = ReplyFun /\ e = <<a>>
  OBVIOUS
<1>1. f \in [Action -> Seq(Message)]
  BY <1>a, FunTypes, Zenon
<1>m. Maps(f, Action, Seq(Message))
  BY <1>1 DEF Maps
<1>2. e \in Seq(Action) /\ s \o e \in Seq(Action)
  <2>1. e \in Seq(Action)
    BY <1>a
  <2> QED
    BY <2>1, ConcatProperties
<1>3. RepliesTo(s) = FlatMap(f, s) /\ RepliesTo(s \o e) = FlatMap(f, s \o e)
  BY <1>2, <1>a, RepliesToIsFlatMap, Zenon
<1>4. FlatMap(f, s) \in Seq(Message)
  BY <1>1, FlatMapType
<1>5. FlatMap(f, s \o e) = FlatMap(f, s) \o FlatMap(f, e)
  BY <1>m, <1>2, FlatMapConcat
<1>6. FlatMap(f, e) = f[a]
  BY <1>1, <1>a, FlatMapOne
<1>7. f[a] = IF a.type = "SEND" THEN Replies[a.data] ELSE <<>>
  BY <1>a, Zenon DEF ReplyFun
<1>8. FlatMap(f, s) \o <<>> = FlatMap(f, s)
  BY <1>4, ConcatEmptySeq
<1> QED
  BY <1>3, <1>4, <1>5, <1>6, <1>7, <1>8, <1>a, Zenon

\* A whole conversation begins with what has been carried out of it.
LEMMA PrefixFacts ==
  ASSUME NEW s \in Seq(Action), NEW t \in Seq(Action)
  PROVE  /\ DataOf(t, "RECV") \in Seq(Message) /\ RepliesTo(t) \in Seq(Message)
         /\ DataOf(s \o t, "RECV") = DataOf(s, "RECV") \o DataOf(t, "RECV")
         /\ RepliesTo(s \o t) = RepliesTo(s) \o RepliesTo(t)
<1>a. PICK f, g : f = DataFun("RECV") /\ g = ReplyFun
  OBVIOUS
<1>1. f \in [Action -> Seq(Message)] /\ g \in [Action -> Seq(Message)]
  BY <1>a, FunTypes, Zenon
<1>m. Maps(f, Action, Seq(Message)) /\ Maps(g, Action, Seq(Message))
  BY <1>1 DEF Maps
<1>2. s \o t \in Seq(Action)
  BY ConcatProperties
<1>3. /\ DataOf(s, "RECV") = FlatMap(f, s) /\ DataOf(t, "RECV") = FlatMap(f, t)
      /\ DataOf(s \o t, "RECV") = FlatMap(f, s \o t)
  BY <1>2, <1>a, DataOfIsFlatMap, Zenon
<1>4. /\ RepliesTo(s) = FlatMap(g, s) /\ RepliesTo(t) = FlatMap(g, t)
      /\ RepliesTo(s \o t) = FlatMap(g, s \o t)
  BY <1>2, <1>a, RepliesToIsFlatMap, Zenon
<1>5. FlatMap(f, t) \in Seq(Message) /\ FlatMap(g, t) \in Seq(Message)
  BY <1>1, FlatMapType
<1>6. FlatMap(f, s \o t) = FlatMap(f, s) \o FlatMap(f, t)
  BY <1>m, FlatMapConcat
<1>7. FlatMap(g, s \o t) = FlatMap(g, s) \o FlatMap(g, t)
  BY <1>m, FlatMapConcat
<1> QED
  BY <1>3, <1>4, <1>5, <1>6, <1>7, Zenon

LEMMA ComingFacts ==
  ASSUME NEW u \in Seq(Message), NEW m \in Message
  PROVE  /\ Coming(u) \in Seq(Message) /\ Replies[m] \in Seq(Message)
         /\ Coming(u \o <<m>>) = Coming(u) \o Replies[m]
         /\ Coming(<<m>> \o u) = Replies[m] \o Coming(u)
<1>a. PICK e : e = <<m>>
  OBVIOUS
<1>1. e \in Seq(Message) /\ Replies \in [Message -> Seq(Message)]
  BY <1>a, FunTypes
<1>m. Maps(Replies, Message, Seq(Message))
  BY <1>1 DEF Maps
<1>2. FlatMap(Replies, u) \in Seq(Message)
  BY <1>1, FlatMapType
<1>3. FlatMap(Replies, e) = Replies[m]
  BY <1>1, <1>a, FlatMapOne
<1>4. FlatMap(Replies, u \o e) = FlatMap(Replies, u) \o FlatMap(Replies, e)
  BY <1>m, <1>1, FlatMapConcat
<1>5. FlatMap(Replies, e \o u) = FlatMap(Replies, e) \o FlatMap(Replies, u)
  BY <1>m, <1>1, FlatMapConcat
<1> QED
  BY <1>1, <1>2, <1>3, <1>4, <1>5, <1>a DEF Coming

-----------------------------------------------------------------------------
(* How far a conversation is: done has been carried out, n RECVs of it, u  *)
(* and d are under way.                                                    *)

Carried(conv, done, q, n) ==
  /\ done \in Seq(Action) /\ q \in Seq(Action) /\ conv = done \o q
  /\ Len(DataOf(done, "RECV")) = n

\* Nothing was lost: what was not received is still to come.
Enough(done, n, u, d) == Len(RepliesTo(done)) <= n + Len(d) + Len(Coming(u))

\* Nothing failed: the replies are what was taken and what is to come.
Taken(done, n, u, d, taken) ==
  /\ taken \in Seq(Message) /\ Len(taken) = n
  /\ RepliesTo(done) = taken \o (d \o Coming(u))

Told(done, n, R, taken) ==
  \A i \in 1 .. n : i \in R <=> DataOf(done, "RECV")[i] # taken[i]

LEMMA Singletons ==
  \A m \in Message : <<m>> \in Seq(Message) /\ Len(<<m>>) = 1
OBVIOUS

LEMMA Concats ==
  \A s, t \in Seq(Message) :
     s \o t \in Seq(Message) /\ Len(s \o t) = Len(s) + Len(t)
BY ConcatProperties

LEMMA Associates ==
  \A s, t, u \in Seq(Message) : (s \o t) \o u = s \o (t \o u)
<1>1. AssociatesIn(Message)
  BY AllAssociate, Zenon
<1> QED
  BY <1>1, Zenon DEF AssociatesIn

\* a is taken from the front of q; w is s and then t.
Pops(q, a, rest) == q # <<>> /\ a = q[1] /\ rest = Tail(q)
Joins(s, t, w)   == w = s \o t
Adds(s, a, w)    == w = s \o <<a>>

LEMMA CarriedMore ==
  \A conv, done, q, n, a, more, rest :
     n \in Nat /\ Carried(conv, done, q, n) /\ Pops(q, a, rest) /\ Adds(done, a, more)
     => /\ a \in Action /\ done \in Seq(Action)
        /\ a.type = "SEND" => Carried(conv, more, rest, n)
        /\ a.type = "RECV" => Carried(conv, more, rest, n + 1)
<1> SUFFICES
      ASSUME NEW conv, NEW done, NEW q, NEW n, NEW a, NEW more, NEW rest,
             n \in Nat /\ Carried(conv, done, q, n) /\ Pops(q, a, rest) /\ Adds(done, a, more)
      PROVE  /\ a \in Action /\ done \in Seq(Action)
             /\ a.type = "SEND" => Carried(conv, more, rest, n)
             /\ a.type = "RECV" => Carried(conv, more, rest, n + 1)
  OBVIOUS
<1>h. /\ n \in Nat /\ Carried(conv, done, q, n)
      /\ q # <<>> /\ a = q[1] /\ rest = Tail(q) /\ more = done \o <<a>>
  BY DEF Pops, Adds
<1> USE <1>h
<1>1. done \in Seq(Action) /\ q \in Seq(Action) /\ conv = done \o q
  BY DEF Carried
<1>a. PICK e : e = <<a>>
  OBVIOUS
<1>2. a \in Action /\ rest \in Seq(Action) /\ q = e \o rest
  BY <1>1, <1>a, FirstAndRest
<1>3. e \in Seq(Action)
  BY <1>2, <1>a
<1>4. conv = more \o rest /\ more \in Seq(Action)
  BY <1>1, <1>2, <1>3, <1>a, ConcatAssociative, ConcatProperties
<1>5. /\ DataOf(done, "RECV") \in Seq(Message)
      /\ a.type = "RECV" => DataOf(more, "RECV") = DataOf(done, "RECV") \o <<a.data>>
      /\ a.type # "RECV" => DataOf(more, "RECV") = DataOf(done, "RECV")
  <2>1. DataOf(done, "RECV") \in Seq(Message)
    BY <1>1, <1>2, DataOfFacts, Zenon
  <2>2. a.type = "RECV" => DataOf(more, "RECV") = DataOf(done, "RECV") \o <<a.data>>
    BY <1>1, <1>2, DataOfFacts, Zenon
  <2>3. a.type # "RECV" => DataOf(more, "RECV") = DataOf(done, "RECV")
    BY <1>1, <1>2, DataOfFacts, Zenon
  <2> QED
    BY <2>1, <2>2, <2>3
<1>6. Len(DataOf(done, "RECV")) = n
  BY DEF Carried
<1>b. PICK b : b = <<a.data>>
  OBVIOUS
<1>7. b \in Seq(Message) /\ Len(b) = 1
  <2>1. a.data \in Message
    BY <1>2 DEF Action
  <2> QED
    BY <2>1, <1>b
<1>8. a.type = "RECV" => Len(DataOf(more, "RECV")) = n + 1
  <2>1. Len(DataOf(done, "RECV") \o b) = Len(DataOf(done, "RECV")) + Len(b)
    BY <1>5, <1>7, Concats, Zenon
  <2> QED
    BY <1>5, <1>6, <1>7, <1>b, <2>1
<1>9. a.type = "SEND" => Len(DataOf(more, "RECV")) = n
  BY <1>5, <1>6
<1> QED
  BY <1>1, <1>2, <1>4, <1>8, <1>9 DEF Carried

LEMMA SentMore ==
  \A done \in Seq(Action), a \in Action, n \in Nat, u, d \in Seq(Message) : \A more, v :
     a.type = "SEND" /\ Adds(done, a, more) /\ Adds(u, a.data, v)
     => /\ v \in Seq(Message)
        /\ Enough(done, n, u, d) => Enough(more, n, v, d)
        /\ \A taken : Taken(done, n, u, d, taken) => Taken(more, n, v, d, taken)
<1> SUFFICES
      ASSUME NEW done \in Seq(Action), NEW a \in Action, NEW n \in Nat,
             NEW u \in Seq(Message), NEW d \in Seq(Message), NEW more, NEW v,
             a.type = "SEND" /\ Adds(done, a, more) /\ Adds(u, a.data, v)
      PROVE  /\ v \in Seq(Message)
             /\ Enough(done, n, u, d) => Enough(more, n, v, d)
             /\ \A taken : Taken(done, n, u, d, taken) => Taken(more, n, v, d, taken)
  OBVIOUS
<1>h. a.type = "SEND" /\ more = done \o <<a>> /\ v = u \o <<a.data>>
  BY DEF Adds
<1> USE <1>h
<1>a. PICK r, x, c : r = RepliesTo(done) /\ x = Replies[a.data] /\ c = Coming(u)
  OBVIOUS
<1>1. a.data \in Message /\ v = u \o <<a.data>> /\ v \in Seq(Message)
  <2>1. a.data \in Message
    BY DEF Action
  <2> QED
    BY <2>1, Singletons, Concats, Zenon
<1>2. r \in Seq(Message) /\ RepliesTo(more) = r \o x
  BY <1>a, RepliesToFacts
<1>3. c \in Seq(Message) /\ x \in Seq(Message) /\ Coming(v) = c \o x
  BY <1>1, <1>a, ComingFacts
<1>4. Len(r \o x) = Len(r) + Len(x) /\ Len(c \o x) = Len(c) + Len(x)
  BY <1>2, <1>3, ConcatProperties
<1>5. Enough(done, n, u, d) => Enough(more, n, v, d)
  <2> SUFFICES ASSUME Len(r) <= n + Len(d) + Len(c)
               PROVE  Len(r \o x) <= n + Len(d) + Len(c \o x)
    BY <1>2, <1>3, <1>a DEF Enough
  <2>1. Len(r) \in Nat /\ Len(x) \in Nat /\ Len(c) \in Nat /\ Len(d) \in Nat
    BY <1>2, <1>3
  <2> QED
    BY <1>4, <2>1
<1>6. ASSUME NEW taken, Taken(done, n, u, d, taken)
      PROVE  Taken(more, n, v, d, taken)
  <2>1. taken \in Seq(Message) /\ Len(taken) = n /\ r = taken \o (d \o c)
    BY <1>6, <1>a DEF Taken
  <2>a. d \in Seq(Message)
    OBVIOUS
  <2>2. (d \o c) \o x = d \o (c \o x) /\ d \o c \in Seq(Message)
    BY <1>3, <2>a, Associates, Concats, Zenon
  <2>3. (taken \o (d \o c)) \o x = taken \o ((d \o c) \o x)
    BY <1>3, <2>1, <2>2, Associates, Zenon
  <2>4. RepliesTo(more) = taken \o (d \o Coming(v))
    BY <1>2, <1>3, <2>1, <2>2, <2>3, Zenon
  <2> QED
    BY <2>1, <2>4 DEF Taken
<1> QED
  BY <1>1, <1>5, <1>6

LEMMA ReceivedMore ==
  \A done \in Seq(Action), a \in Action, n \in Nat, u, d \in Seq(Message) : \A more, m, rest :
     a.type = "RECV" /\ Adds(done, a, more) /\ Pops(d, m, rest)
     => /\ m \in Message /\ rest \in Seq(Message)
        /\ Enough(done, n, u, d) => Enough(more, n + 1, u, rest)
        /\ \A taken : Taken(done, n, u, d, taken)
             => Taken(more, n + 1, u, rest, taken \o <<m>>)
<1> SUFFICES
      ASSUME NEW done \in Seq(Action), NEW a \in Action, NEW n \in Nat,
             NEW u \in Seq(Message), NEW d \in Seq(Message), NEW more, NEW m, NEW rest,
             a.type = "RECV" /\ Adds(done, a, more) /\ Pops(d, m, rest)
      PROVE  /\ m \in Message /\ rest \in Seq(Message)
             /\ Enough(done, n, u, d) => Enough(more, n + 1, u, rest)
             /\ \A taken : Taken(done, n, u, d, taken)
                  => Taken(more, n + 1, u, rest, taken \o <<m>>)
  OBVIOUS
<1>h. /\ a.type = "RECV" /\ more = done \o <<a>>
      /\ d # <<>> /\ m = d[1] /\ rest = Tail(d)
  BY DEF Adds, Pops
<1>a. PICK e, c : e = <<m>> /\ c = Coming(u)
  OBVIOUS
<1>0. m \in Message /\ rest \in Seq(Message) /\ Len(rest) = Len(d) - 1 /\ d = e \o rest
  BY <1>h, <1>a, FirstAndRest
<1>1. m \in Message /\ rest \in Seq(Message)
  BY <1>0
<1>2. e \in Seq(Message) /\ Len(e) = 1 /\ c \in Seq(Message)
  <2>1. Coming(u) \in Seq(Message)
    BY <1>1, ComingFacts
  <2>2. e \in Seq(Message) /\ Len(e) = 1
    BY <1>1, <1>a, Singletons, Zenon
  <2> QED
    BY <2>1, <2>2, <1>a
<1>g. (e \o rest) \o c = e \o (rest \o c)
  <2>1. AssociatesIn(Message)
    BY AllAssociate, Zenon
  <2>2. \A t \in Seq(Message) : (e \o rest) \o t = e \o (rest \o t)
    BY <1>1, <1>2, <2>1, Zenon DEF AssociatesIn
  <2> QED
    BY <1>2, <2>2, Zenon
<1>3. RepliesTo(more) = RepliesTo(done)
  <2>1. a.type # "SEND"
    BY <1>h
  <2>2. RepliesTo(done \o <<a>>) = RepliesTo(done)
    BY <2>1, RepliesToFacts, Zenon
  <2> QED
    BY <1>h, <2>2
<1>4. Enough(done, n, u, d) => Enough(more, n + 1, u, rest)
  <2>a. PICK k, l : k = Len(d) /\ l = Len(c)
    OBVIOUS
  <2>b. k \in Nat /\ l \in Nat
    BY <1>2, <2>a
  <2>c. Len(rest) = k - 1
    BY <1>0, <2>a, Zenon
  <2>1. n + Len(d) + Len(c) = (n + 1) + Len(rest) + Len(c)
    BY <2>a, <2>b, <2>c
  <2> QED
    BY <1>3, <1>a, <2>1 DEF Enough
<1>5. ASSUME NEW taken, Taken(done, n, u, d, taken)
      PROVE  Taken(more, n + 1, u, rest, taken \o e)
  <2>1. taken \in Seq(Message) /\ Len(taken) = n /\ RepliesTo(done) = taken \o (d \o c)
    BY <1>5, <1>a DEF Taken
  <2>2. rest \o c \in Seq(Message)
    BY <1>1, <1>2, Concats, Zenon
  <2>3. (taken \o e) \o (rest \o c) = taken \o (e \o (rest \o c))
    BY <1>2, <2>1, <2>2, Associates, Zenon
  <2>4. taken \o e \in Seq(Message) /\ Len(taken \o e) = n + 1
    <3>1. taken \o e \in Seq(Message) /\ Len(taken \o e) = Len(taken) + Len(e)
      BY <1>2, <2>1, Concats, Zenon
    <3> QED
      BY <1>2, <2>1, <3>1
  <2>5. RepliesTo(more) = (taken \o e) \o (rest \o c)
    BY <1>0, <1>3, <1>g, <2>1, <2>3, Zenon
  <2> QED
    BY <2>4, <2>5, <1>a DEF Taken
<1> QED
  BY <1>1, <1>4, <1>5, <1>a

LEMMA AnsweredMore ==
  \A done \in Seq(Action), n \in Nat, u, d \in Seq(Message) : \A m, rest, more :
     Pops(u, m, rest) /\ Joins(d, Replies[m], more)
     => /\ rest \in Seq(Message) /\ more \in Seq(Message)
        /\ Enough(done, n, u, d) => Enough(done, n, rest, more)
        /\ \A taken : Taken(done, n, u, d, taken) => Taken(done, n, rest, more, taken)
<1> SUFFICES
      ASSUME NEW done \in Seq(Action), NEW n \in Nat,
             NEW u \in Seq(Message), NEW d \in Seq(Message), NEW m, NEW rest, NEW more,
             Pops(u, m, rest) /\ Joins(d, Replies[m], more)
      PROVE  /\ rest \in Seq(Message) /\ more \in Seq(Message)
             /\ Enough(done, n, u, d) => Enough(done, n, rest, more)
             /\ \A taken : Taken(done, n, u, d, taken) => Taken(done, n, rest, more, taken)
  OBVIOUS
<1>h. u # <<>> /\ m = u[1] /\ rest = Tail(u) /\ more = d \o Replies[m]
  BY DEF Joins, Pops
<1> USE <1>h
<1>a. PICK x, c : x = Replies[m] /\ c = Coming(rest)
  OBVIOUS
<1>1. m \in Message /\ rest \in Seq(Message) /\ u = <<m>> \o rest
  BY <1>a, FirstAndRest
<1>2. x \in Seq(Message) /\ c \in Seq(Message) /\ Coming(u) = x \o c
  BY <1>1, <1>a, ComingFacts
<1>3. more = d \o x
  BY <1>a
<1>d. d \in Seq(Message)
  OBVIOUS
<1>4. more \in Seq(Message) /\ Len(more) = Len(d) + Len(x)
  BY <1>2, <1>3, <1>d, Concats, Zenon
<1>5. Len(x \o c) = Len(x) + Len(c)
  BY <1>2, Concats, Zenon
<1>6. (d \o x) \o c = d \o (x \o c)
  BY <1>2, <1>d, Associates, Zenon
<1>7. Enough(done, n, u, d) => Enough(done, n, rest, more)
  <2>a. PICK k, l, p : k = Len(d) /\ l = Len(c) /\ p = Len(x)
    OBVIOUS
  <2>b. k \in Nat /\ l \in Nat /\ p \in Nat
    BY <1>2, <2>a
  <2>1. n + Len(d) + Len(Coming(u)) = n + Len(more) + Len(c)
    BY <1>2, <1>4, <1>5, <2>a, <2>b
  <2> QED
    BY <2>1, <1>a DEF Enough
<1>8. ASSUME NEW taken, Taken(done, n, u, d, taken)
      PROVE  Taken(done, n, rest, more, taken)
  <2>1. taken \in Seq(Message) /\ Len(taken) = n /\ RepliesTo(done) = taken \o (d \o (x \o c))
    BY <1>8, <1>2 DEF Taken
  <2>2. RepliesTo(done) = taken \o (more \o c)
    BY <1>3, <1>6, <2>1, Zenon
  <2> QED
    BY <2>1, <2>2, <1>a DEF Taken
<1> QED
  BY <1>1, <1>4, <1>7, <1>8

\* What was reported is still right after one datagram more, held against
\* the capture.
LEMMA ToldMore ==
  ASSUME NEW done \in Seq(Action), NEW a \in Action, a.type = "RECV", NEW n \in Nat,
         Len(DataOf(done, "RECV")) = n,
         NEW m \in Message, NEW taken \in Seq(Message), Len(taken) = n,
         NEW R, R \subseteq 1 .. n, Told(done, n, R, taken),
         NEW R2, R2 = IF a.data.size = m.size /\ a.data.body = m.body THEN R ELSE R \cup {n + 1}
  PROVE  Told(done \o <<a>>, n + 1, R2, taken \o <<m>>)
<1>a. PICK x, b, s, e, t, y : /\ x = DataOf(done, "RECV") /\ b = <<a.data>> /\ s = x \o b
                              /\ e = <<m>> /\ t = taken \o e
                              /\ y = DataOf(done \o <<a>>, "RECV")
  OBVIOUS
<1>1. x \in Seq(Message) /\ y = s /\ Len(x) = n
  BY <1>a, DataOfFacts
<1>2. a.data \in Message
  BY DEF Action
<1>3. b \in Seq(Message) /\ Len(b) = 1 /\ b[1] = a.data
  BY <1>2, <1>a
<1>4. e \in Seq(Message) /\ Len(e) = 1 /\ e[1] = m
  BY <1>a
<1>5. \A i \in 1 .. n + 1 : s[i] = IF i <= n THEN x[i] ELSE b[i - n]
  <2>1. IsConcat(Message, x, b, s)
    BY <1>1, <1>3, <1>a, IsConcatFacts, Zenon
  <2> QED
    BY <2>1, <1>1, <1>3 DEF IsConcat
<1>6. \A i \in 1 .. n + 1 : t[i] = IF i <= n THEN taken[i] ELSE e[i - n]
  <2>1. IsConcat(Message, taken, e, t)
    BY <1>4, <1>a, IsConcatFacts, Zenon
  <2> QED
    BY <2>1, <1>4 DEF IsConcat
<1>7. R2 = IF a.data = m THEN R ELSE R \cup {n + 1}
  BY <1>2, MessageAssumption
<1>8. ASSUME NEW i \in 1 .. n + 1
      PROVE  i \in R2 <=> s[i] # t[i]
  <2>1. CASE i <= n
    <3>1. i \in 1 .. n /\ i # n + 1
      BY <2>1
    <3>2. i \in R <=> x[i] # taken[i]
      BY <3>1, <1>a DEF Told
    <3> QED
      BY <1>5, <1>6, <1>7, <2>1, <3>1, <3>2
  <2>2. CASE ~(i <= n)
    <3>1. i = n + 1 /\ i - n = 1 /\ i \notin R
      BY <2>2
    <3>2. s[i] = a.data /\ t[i] = m
      BY <1>3, <1>4, <1>5, <1>6, <2>2, <3>1
    <3> QED
      BY <1>7, <3>1, <3>2
  <2> QED
    BY <2>1, <2>2
<1> QED
  BY <1>1, <1>8, <1>a DEF Told

-----------------------------------------------------------------------------
(* One conversation: conv, of which q is left, n RECVs carried out and R   *)
(* reported, u and d under way, f failures of the network, a loss if l,    *)
(* and a validator of kind k in state v.                                   *)

Answers(done, n, u, d, R, f, l, k, v) ==
  /\ ~l => Enough(done, n, u, d)
  /\ f = 0 => \E taken : /\ Taken(done, n, u, d, taken)
                         /\ k = "exact" /\ v = "live" => Told(done, n, R, taken)

Replaying(conv, q, n, u, d, R, f, l, k, v) ==
  /\ n \in Nat /\ f \in Nat /\ R \subseteq 1 .. n
  /\ u \in Seq(Message) /\ d \in Seq(Message)
  /\ \E done : Carried(conv, done, q, n) /\ Answers(done, n, u, d, R, f, l, k, v)

LEMMA ReplayingStarts ==
  ASSUME NEW q \in Seq(Action), NEW l, NEW k, NEW v
  PROVE  Replaying(q, q, 0, <<>>, <<>>, {}, 0, l, k, v)
<1>a. PICK e : e = <<>>
  OBVIOUS
<1>1. FlatMap(Replies, e) = <<>> /\ FlatMap(ReplyFun, e) = <<>> /\ FlatMap(DataFun("RECV"), e) = <<>>
  BY <1>a, FlatMapEmpty
<1>2. e \in Seq(Action) /\ e \in Seq(Message) /\ Len(e) = 0
  BY <1>a
<1>3. DataOf(e, "RECV") = e /\ RepliesTo(e) = e /\ Coming(e) = e
  BY <1>1, <1>2, <1>a, DataOfIsFlatMap, RepliesToIsFlatMap DEF Coming
<1>4. q = e \o q /\ e \o e = e
  BY <1>2, <1>a, ConcatEmptySeq
<1>5. Carried(q, e, q, 0)
  BY <1>2, <1>3, <1>4 DEF Carried
<1>6. Enough(e, 0, e, e)
  BY <1>2, <1>3 DEF Enough
<1>7. Taken(e, 0, e, e, e)
  BY <1>2, <1>3, <1>4 DEF Taken
<1>8. Told(e, 0, {}, e)
  BY DEF Told
<1>9. Answers(e, 0, e, e, {}, 0, l, k, v)
  BY <1>6, <1>7, <1>8, Zenon DEF Answers
<1> QED
  BY <1>2, <1>5, <1>9, <1>a DEF Replaying

LEMMA ReplayingSend ==
  ASSUME NEW conv, NEW q, NEW n, NEW u, NEW d, NEW R, NEW f, NEW l, NEW k, NEW v,
         Replaying(conv, q, n, u, d, R, f, l, k, v),
         NEW a, a.type = "SEND", NEW rest, Pops(q, a, rest), NEW w, Adds(u, a.data, w)
  PROVE  Replaying(conv, rest, n, w, d, R, f, l, k, v)
<1>1. /\ n \in Nat /\ f \in Nat /\ R \subseteq 1 .. n
      /\ u \in Seq(Message) /\ d \in Seq(Message)
  BY DEF Replaying
<1>2. PICK done : Carried(conv, done, q, n) /\ Answers(done, n, u, d, R, f, l, k, v)
  BY DEF Replaying
<1>3. PICK more : Adds(done, a, more)
  BY DEF Adds
<1>4. a \in Action /\ done \in Seq(Action) /\ Carried(conv, more, rest, n)
  BY <1>1, <1>2, <1>3, CarriedMore, Zenon
<1>5. /\ w \in Seq(Message)
      /\ Enough(done, n, u, d) => Enough(more, n, w, d)
      /\ \A taken : Taken(done, n, u, d, taken) => Taken(more, n, w, d, taken)
  BY <1>1, <1>3, <1>4, SentMore, Zenon
<1>6. ASSUME NEW taken, Told(done, n, R, taken)
      PROVE  Told(more, n, R, taken)
  <2>1. DataOf(more, "RECV") = DataOf(done, "RECV")
    BY <1>3, <1>4, DataOfFacts DEF Adds
  <2> QED
    BY <1>6, <2>1 DEF Told
<1>7. Answers(more, n, w, d, R, f, l, k, v)
  BY <1>2, <1>5, <1>6, Zenon DEF Answers
<1> QED
  BY <1>1, <1>4, <1>5, <1>7, Zenon DEF Replaying

\* The verdict on datagram m, the n+1st, for what was captured with a.
Judged(R, R2, n, a, m, k, v) ==
  /\ R2 \in {R, R \cup {n + 1}}
  /\ k = "exact" /\ v = "live" =>
       R2 = IF a.data.size = m.size /\ a.data.body = m.body THEN R ELSE R \cup {n + 1}

LEMMA ReplayingReceive ==
  ASSUME NEW conv, NEW q, NEW n, NEW u, NEW d, NEW R, NEW f, NEW l, NEW k, NEW v,
         Replaying(conv, q, n, u, d, R, f, l, k, v),
         NEW a, a.type = "RECV", NEW rest, Pops(q, a, rest),
         NEW m, NEW e, Pops(d, m, e),
         NEW R2, Judged(R, R2, n, a, m, k, v)
  PROVE  Replaying(conv, rest, n + 1, u, e, R2, f, l, k, v)
<1>1. /\ n \in Nat /\ f \in Nat /\ R \subseteq 1 .. n
      /\ u \in Seq(Message) /\ d \in Seq(Message)
  BY DEF Replaying
<1>2. PICK done : Carried(conv, done, q, n) /\ Answers(done, n, u, d, R, f, l, k, v)
  BY DEF Replaying
<1>3. PICK more : Adds(done, a, more)
  BY DEF Adds
<1>4. a \in Action /\ done \in Seq(Action) /\ Carried(conv, more, rest, n + 1)
  BY <1>1, <1>2, <1>3, CarriedMore, Zenon
<1>5. /\ m \in Message /\ e \in Seq(Message)
      /\ Enough(done, n, u, d) => Enough(more, n + 1, u, e)
      /\ \A taken : Taken(done, n, u, d, taken) => Taken(more, n + 1, u, e, taken \o <<m>>)
  BY <1>1, <1>3, <1>4, ReceivedMore, Zenon
<1>6. ASSUME NEW taken, Taken(done, n, u, d, taken), Told(done, n, R, taken),
             k = "exact" /\ v = "live"
      PROVE  Told(more, n + 1, R2, taken \o <<m>>)
  <2>1. taken \in Seq(Message) /\ Len(taken) = n
    BY <1>6 DEF Taken
  <2>2. Len(DataOf(done, "RECV")) = n
    BY <1>2 DEF Carried
  <2>3. R2 = IF a.data.size = m.size /\ a.data.body = m.body THEN R ELSE R \cup {n + 1}
    BY <1>6 DEF Judged
  <2>4. Told(done \o <<a>>, n + 1, R2, taken \o <<m>>)
    BY <1>1, <1>4, <1>5, <1>6, <2>1, <2>2, <2>3, ToldMore
  <2> QED
    BY <1>3, <2>4 DEF Adds
<1>7. Answers(more, n + 1, u, e, R2, f, l, k, v)
  BY <1>2, <1>5, <1>6, Zenon DEF Answers
<1>8. n + 1 \in Nat /\ R2 \subseteq 1 .. n + 1
  BY <1>1 DEF Judged
<1> QED
  BY <1>1, <1>4, <1>5, <1>7, <1>8, Zenon DEF Replaying

LEMMA ReplayingAnswer ==
  ASSUME NEW conv, NEW q, NEW n, NEW u, NEW d, NEW R, NEW f, NEW l, NEW k, NEW v,
         Replaying(conv, q, n, u, d, R, f, l, k, v),
         NEW m, NEW rest, Pops(u, m, rest), NEW more, Joins(d, Replies[m], more)
  PROVE  Replaying(conv, q, n, rest, more, R, f, l, k, v)
<1>1. /\ n \in Nat /\ f \in Nat /\ R \subseteq 1 .. n
      /\ u \in Seq(Message) /\ d \in Seq(Message)
  BY DEF Replaying
<1>2. PICK done : Carried(conv, done, q, n) /\ Answers(done, n, u, d, R, f, l, k, v)
  BY DEF Replaying
<1>3. done \in Seq(Action)
  BY <1>2 DEF Carried
<1>4. /\ rest \in Seq(Message) /\ more \in Seq(Message)
      /\ Enough(done, n, u, d) => Enough(done, n, rest, more)
      /\ \A taken : Taken(done, n, u, d, taken) => Taken(done, n, rest, more, taken)
  BY <1>1, <1>3, AnsweredMore, Zenon
<1>5. Answers(done, n, rest, more, R, f, l, k, v)
  BY <1>2, <1>4, Zenon DEF Answers
<1> QED
  BY <1>1, <1>2, <1>4, <1>5, Zenon DEF Replaying

\* After a failure, only whether there is enough to come matters.
LEMMA ReplayingFault ==
  ASSUME NEW conv, NEW q, NEW n, NEW u, NEW d, NEW R, NEW f, NEW l, NEW k, NEW v,
         Replaying(conv, q, n, u, d, R, f, l, k, v),
         NEW w \in Seq(Message), NEW e \in Seq(Message), NEW l2,
         l2 \/ (w = u /\ Len(d) <= Len(e) /\ l2 = l)
  PROVE  Replaying(conv, q, n, w, e, R, f + 1, l2, k, v)
<1>1. /\ n \in Nat /\ f \in Nat /\ R \subseteq 1 .. n
      /\ u \in Seq(Message) /\ d \in Seq(Message)
  BY DEF Replaying
<1>2. PICK done : Carried(conv, done, q, n) /\ Answers(done, n, u, d, R, f, l, k, v)
  BY DEF Replaying
<1>3. f + 1 \in Nat /\ f + 1 # 0
  BY <1>1
<1>4. ~l2 => Enough(done, n, w, e)
  <2> SUFFICES ASSUME ~l2 PROVE Enough(done, n, w, e)
    OBVIOUS
  <2>1. w = u /\ Len(d) <= Len(e) /\ Enough(done, n, u, d)
    BY <1>2 DEF Answers
  <2>2. done \in Seq(Action)
    BY <1>2 DEF Carried
  <2>3. RepliesTo(done) \in Seq(Message) /\ Coming(u) \in Seq(Message)
    <3>1. FlatMap(ReplyFun, done) \in Seq(Message) /\ FlatMap(Replies, u) \in Seq(Message)
      BY <1>1, <2>2, FunTypes, FlatMapType
    <3> QED
      BY <3>1, <2>2, RepliesToIsFlatMap DEF Coming
  <2>a. PICK x, c, i, j : x = Len(RepliesTo(done)) /\ c = Len(Coming(u)) /\ i = Len(d) /\ j = Len(e)
    OBVIOUS
  <2>4. x \in Nat /\ c \in Nat /\ i \in Nat /\ j \in Nat
    BY <1>1, <2>3, <2>a
  <2>5. x <= n + i + c /\ i <= j
    BY <2>1, <2>a DEF Enough
  <2>6. x <= n + j + c
    BY <1>1, <2>4, <2>5
  <2> QED
    BY <2>1, <2>6, <2>a DEF Enough
<1>5. Answers(done, n, w, e, R, f + 1, l2, k, v)
  BY <1>3, <1>4, Zenon DEF Answers
<1> QED
  BY <1>1, <1>2, <1>3, <1>5, Zenon DEF Replaying

-----------------------------------------------------------------------------
(* The program.                                                            *)

AnswersInv ==
  /\ convs \in Captures /\ current \in Nat
  /\ pc = "replay" =>
       /\ current \in DOMAIN convs
       /\ Replaying(convs[current], queue, received, up, down, reports, faults, lost,
                    kind, validator)

LEMMA AppendAdds ==
  \A u \in Seq(Message), m \in Message : Adds(u, m, Append(u, m))
BY AppendIsConcat DEF Adds

LEMMA ReplayingTypes ==
  ASSUME NEW conv, NEW q, NEW n, NEW u, NEW d, NEW R, NEW f, NEW l, NEW k, NEW v,
         Replaying(conv, q, n, u, d, R, f, l, k, v)
  PROVE  q \in Seq(Action) /\ u \in Seq(Message) /\ d \in Seq(Message)
BY DEF Replaying, Carried

LEMMA ConversationsAreActions ==
  ASSUME convs \in Captures
  PROVE  convs \in Seq(Seq(Action))
BY CapturesAssumption

\* Outside a replay there is nothing to show but that main() stays among the
\* conversations of the capture.
LEMMA AnswersOutside ==
  ASSUME AnswersInv, UNCHANGED <<convs, current>>, pc' # "replay"
  PROVE  AnswersInv'
BY DEF AnswersInv

LEMMA AnswersNewClient ==
  ASSUME AnswersInv, NewClient
  PROVE  AnswersInv'
<1>1. /\ convs \in Seq(Seq(Action)) /\ current \in Nat /\ current < Len(convs)
      /\ convs' = convs /\ convs \in Captures
  BY ConversationsAreActions DEF AnswersInv, NewClient
<1>2. PICK c, q : c = current + 1 /\ q = convs[c]
  OBVIOUS
<1>3. c \in DOMAIN convs /\ c \in Nat /\ q \in Seq(Action)
  <2>1. c \in Nat /\ c \in 1 .. Len(convs)
    BY <1>1, <1>2
  <2>2. convs[c] \in Seq(Action)
    BY <1>1, <2>1, ElementOfSeq
  <2> QED
    BY <1>1, <1>2, <2>1, <2>2
<1>4. /\ current' = c /\ queue' = q /\ up' = <<>> /\ down' = <<>> /\ received' = 0
      /\ reports' = {} /\ faults' = 0
  BY <1>2 DEF NewClient
<1>5. PICK l, k, v : l = lost' /\ k = kind' /\ v = validator'
  OBVIOUS
<1>6. Replaying(q, q, 0, <<>>, <<>>, {}, 0, l, k, v)
  BY <1>3, ReplayingStarts
<1>7. Replaying(convs[current], queue, received, up, down, reports, faults, lost,
                kind, validator)'
  BY <1>1, <1>2, <1>4, <1>5, <1>6, Zenon
<1> QED
  BY <1>1, <1>3, <1>4, <1>7 DEF AnswersInv

LEMMA AnswersSend ==
  ASSUME AnswersInv, Send
  PROVE  AnswersInv'
<1>1. /\ pc = "replay" /\ queue # <<>> /\ queue[1].type = "SEND"
      /\ queue' = Tail(queue) /\ up' = Append(up, queue[1].data)
      /\ UNCHANGED <<convs, current, pc, kind, validator, down, received, reports, faults, lost>>
  BY DEF Send, AtAction, ActionPop, history
<1>2. Replaying(convs[current], queue, received, up, down, reports, faults, lost,
                kind, validator)
  BY <1>1 DEF AnswersInv
<1>3. PICK conv, q, n, u, d, R, f, l, k, v, a, rest, w :
        /\ conv = convs[current] /\ q = queue /\ n = received /\ u = up /\ d = down
        /\ R = reports /\ f = faults /\ l = lost /\ k = kind /\ v = validator
        /\ a = queue[1] /\ rest = Tail(queue) /\ w = Append(up, queue[1].data)
  OBVIOUS
<1>4. Replaying(conv, q, n, u, d, R, f, l, k, v)
  BY <1>2, <1>3
<1>5. Pops(q, a, rest) /\ a.type = "SEND"
  BY <1>1, <1>3 DEF Pops
<1>6. Adds(u, a.data, w)
  <2>1. q \in Seq(Action) /\ u \in Seq(Message) /\ q # <<>>
    BY <1>1, <1>3, <1>4, ReplayingTypes
  <2>2. a \in Action
    BY <1>3, <2>1, FirstAndRest
  <2>3. a.data \in Message
    BY <2>2 DEF Action
  <2>4. w = Append(u, a.data)
    BY <1>3
  <2> QED
    BY <2>1, <2>3, <2>4, AppendAdds
<1>7. Replaying(conv, rest, n, w, d, R, f, l, k, v)
  BY <1>4, <1>5, <1>6, ReplayingSend
<1>8. Replaying(convs[current], queue, received, up, down, reports, faults, lost,
                kind, validator)'
  BY <1>1, <1>3, <1>7, Zenon
<1> QED
  BY <1>1, <1>8 DEF AnswersInv

LEMMA AnswersReceive ==
  ASSUME AnswersInv, Receive
  PROVE  AnswersInv'
<1>1. /\ pc = "replay" /\ queue # <<>> /\ queue[1].type = "RECV"
      /\ queue' = Tail(queue) /\ down # <<>> /\ down' = Tail(down)
      /\ received' = received + 1
      /\ UNCHANGED <<convs, current, kind, validator, up, faults, lost>>
  BY DEF Receive, AtAction, ActionPop
<1>2. Replaying(convs[current], queue, received, up, down, reports, faults, lost,
                kind, validator)
  BY <1>1 DEF AnswersInv
<1>3. PICK conv, q, n, u, d, R, f, l, k, v, a, rest, m, e :
        /\ conv = convs[current] /\ q = queue /\ n = received /\ u = up /\ d = down
        /\ R = reports /\ f = faults /\ l = lost /\ k = kind /\ v = validator
        /\ a = queue[1] /\ rest = Tail(queue) /\ m = down[1] /\ e = Tail(down)
  OBVIOUS
<1>4. Replaying(conv, q, n, u, d, R, f, l, k, v)
  BY <1>2, <1>3
<1>5. Pops(q, a, rest) /\ a.type = "RECV" /\ Pops(d, m, e)
  BY <1>1, <1>3 DEF Pops
<1>6. PICK R2 : R2 = reports'
  OBVIOUS
<1>7. PICK same \in Verdicts(a.data, m) : R2 = IF same THEN R ELSE R \cup {n + 1}
  BY <1>3, <1>6 DEF Receive
<1>8. R2 \in {R, R \cup {n + 1}}
  BY <1>7
<1>9. k = "exact" /\ v = "live" =>
        R2 = IF a.data.size = m.size /\ a.data.body = m.body THEN R ELSE R \cup {n + 1}
  <2> SUFFICES ASSUME kind = "exact", validator = "live"
               PROVE  R2 = IF a.data.size = m.size /\ a.data.body = m.body THEN R
                           ELSE R \cup {n + 1}
    BY <1>3
  <2>1. Verdicts(a.data, m) = {a.data.size = m.size /\ a.data.body = m.body}
    BY DEF Verdicts, Validate
  <2>2. same = (a.data.size = m.size /\ a.data.body = m.body)
    BY <1>7, <2>1
  <2> QED
    BY <1>7, <2>2
<1>10. Replaying(conv, rest, n + 1, u, e, R2, f, l, k, v)
  <2>1. Judged(R, R2, n, a, m, k, v)
    BY <1>8, <1>9 DEF Judged
  <2> QED
    BY <1>4, <1>5, <2>1, ReplayingReceive, Zenon
<1>11. Replaying(convs[current], queue, received, up, down, reports, faults, lost,
                 kind, validator)'
  BY <1>1, <1>3, <1>6, <1>10, Zenon
<1> QED
  BY <1>1, <1>11 DEF AnswersInv

LEMMA AnswersAnswer ==
  ASSUME AnswersInv, Answer
  PROVE  AnswersInv'
<1>1. /\ pc = "replay" /\ up # <<>> /\ up' = Tail(up) /\ down' = down \o Replies[up[1]]
      /\ UNCHANGED <<convs, current, queue, pc, kind, validator, received, reports, faults, lost>>
  BY DEF Answer, program, history
<1>2. Replaying(convs[current], queue, received, up, down, reports, faults, lost,
                kind, validator)
  BY <1>1 DEF AnswersInv
<1>3. PICK conv, q, n, u, d, R, f, l, k, v, m, rest, more :
        /\ conv = convs[current] /\ q = queue /\ n = received /\ u = up /\ d = down
        /\ R = reports /\ f = faults /\ l = lost /\ k = kind /\ v = validator
        /\ m = up[1] /\ rest = Tail(up) /\ more = down \o Replies[m]
  OBVIOUS
<1>4. Replaying(conv, q, n, u, d, R, f, l, k, v)
  BY <1>2, <1>3
<1>5. Pops(u, m, rest) /\ Joins(d, Replies[m], more)
  BY <1>1, <1>3 DEF Pops, Joins
<1>6. Replaying(conv, q, n, rest, more, R, f, l, k, v)
  BY <1>4, <1>5, ReplayingAnswer, Zenon
<1>7. Replaying(convs[current], queue, received, up, down, reports, faults, lost,
                kind, validator)'
  BY <1>1, <1>3, <1>6, Zenon
<1> QED
  BY <1>1, <1>7 DEF AnswersInv

LEMMA OvertakeKeepsLength ==
  ASSUME NEW d \in Seq(Message), NEW i \in 2 .. Len(d), NEW e, e = <<d[i]>> \o Without(d, i)
  PROVE  e \in Seq(Message) /\ Len(e) = Len(d)
<1>a. PICK x, y, z, w, n : /\ x = SubSeq(d, 1, i - 1) /\ y = SubSeq(d, i + 1, Len(d)) /\ z = <<d[i]>>
                           /\ w = x \o y /\ n = Len(d)
  OBVIOUS
<1>1. n \in Nat /\ i \in Nat /\ 2 <= i /\ i <= n
  BY <1>a
<1>2. \A j \in 1 .. n : d[j] \in Message
  BY <1>a, ElementOfSeq
<1>3. x \in Seq(Message) /\ Len(x) = i - 1
  <2>1. \A j \in 1 .. i - 1 : d[j] \in Message
    BY <1>1, <1>2
  <2>2. i - 1 \in Int /\ 1 <= i - 1 /\ (i - 1) - 1 + 1 = i - 1
    BY <1>1
  <2> QED
    BY <2>1, <2>2, <1>a, SubSeqProperties
<1>4. y \in Seq(Message) /\ Len(y) = n - i
  <2>1. \A j \in i + 1 .. n : d[j] \in Message
    BY <1>1, <1>2
  <2>2. /\ i + 1 \in Int /\ n \in Int /\ y = SubSeq(d, i + 1, n)
        /\ n - (i + 1) + 1 = n - i /\ (~(i + 1 <= n) => n - i = 0)
    BY <1>1, <1>a
  <2> QED
    BY <2>1, <2>2, SubSeqProperties
<1>5. z \in Seq(Message) /\ Len(z) = 1
  BY <1>1, <1>2, <1>a, Singletons
<1>6. w \in Seq(Message) /\ Len(w) = Len(x) + Len(y)
  BY <1>3, <1>4, <1>a, Concats, Zenon
<1>7. e = z \o w
  BY <1>a DEF Without
<1>8. e \in Seq(Message) /\ Len(e) = Len(z) + Len(w)
  BY <1>5, <1>6, <1>7, Concats, Zenon
<1> QED
  BY <1>1, <1>3, <1>4, <1>5, <1>6, <1>8, <1>a

LEMMA AnswersNetwork ==
  ASSUME AnswersInv, Network
  PROVE  AnswersInv'
<1>1. /\ pc = "replay" /\ faults' = faults + 1
      /\ UNCHANGED <<convs, current, queue, pc, kind, validator, received, reports>>
  BY DEF Network, Lose, Duplicate, Overtake, Intrude, MayFail, program
<1>2. Replaying(convs[current], queue, received, up, down, reports, faults, lost,
                kind, validator)
  BY <1>1 DEF AnswersInv
<1>3. PICK conv, q, n, u, d, R, f, l, k, v, w, e, l2 :
        /\ conv = convs[current] /\ q = queue /\ n = received /\ u = up /\ d = down
        /\ R = reports /\ f = faults /\ l = lost /\ k = kind /\ v = validator
        /\ w = up' /\ e = down' /\ l2 = lost'
  OBVIOUS
<1>4. Replaying(conv, q, n, u, d, R, f, l, k, v)
  BY <1>2, <1>3
<1>5. u \in Seq(Message) /\ d \in Seq(Message)
  BY <1>4, ReplayingTypes
<1>6. w \in Seq(Message) /\ e \in Seq(Message) /\ (l2 \/ (w = u /\ Len(d) <= Len(e) /\ l2 = l))
  <2>1. CASE Lose
    <3>1. l2 = TRUE /\ \/ u # <<>> /\ w = Tail(u) /\ e = d
                       \/ d # <<>> /\ e = Tail(d) /\ w = u
      BY <2>1, <1>3 DEF Lose
    <3>2. w \in Seq(Message) /\ e \in Seq(Message)
      BY <3>1, <1>5, HeadTailProperties
    <3> QED
      BY <3>1, <3>2
  <2>2. CASE Duplicate
    <3>1. d # <<>> /\ e = Append(d, d[1]) /\ w = u /\ l2 = l
      BY <2>2, <1>3 DEF Duplicate
    <3>2. d[1] \in Message
      BY <3>1, <1>5, FirstAndRest
    <3>3. e \in Seq(Message) /\ Len(e) = Len(d) + 1 /\ Len(d) \in Nat
      BY <3>1, <3>2, <1>5, AppendProperties
    <3> QED
      BY <3>1, <3>3, <1>5
  <2>3. CASE Overtake
    <3>1. w = u /\ l2 = l /\ \E i \in 2 .. Len(d) : e = <<d[i]>> \o Without(d, i)
      BY <2>3, <1>3 DEF Overtake
    <3>2. PICK i \in 2 .. Len(d) : e = <<d[i]>> \o Without(d, i)
      BY <3>1
    <3>3. e \in Seq(Message) /\ Len(e) = Len(d)
      BY <3>2, <1>5, OvertakeKeepsLength
    <3> QED
      BY <3>1, <3>3, <1>5
  <2>4. CASE \E m \in Message : Intrude(m)
    <3>1. PICK m \in Message : e = Append(d, m) /\ w = u /\ l2 = l
      BY <2>4, <1>3 DEF Intrude
    <3>2. e \in Seq(Message) /\ Len(e) = Len(d) + 1 /\ Len(d) \in Nat
      BY <3>1, <1>5, AppendProperties
    <3> QED
      BY <3>1, <3>2, <1>5
  <2> QED
    BY <2>1, <2>2, <2>3, <2>4 DEF Network
<1>7. Replaying(conv, q, n, w, e, R, f + 1, l2, k, v)
  BY <1>4, <1>6, ReplayingFault, Zenon
<1>8. Replaying(convs[current], queue, received, up, down, reports, faults, lost,
                kind, validator)'
  BY <1>1, <1>3, <1>7, Zenon
<1> QED
  BY <1>1, <1>8 DEF AnswersInv

LEMMA AnswersNext ==
  ASSUME AnswersInv, ClientInv, [Next]_vars
  PROVE  AnswersInv'
<1>1. CASE Options \/ ClientFails \/ StartReplaying \/ MainReturns \/ ReplayReturns \/ ValidateThrows
  <2>1. UNCHANGED <<convs, current>> /\ pc' # "replay"
    BY <1>1 DEF Options, ParseValidator, RejectValidator, ClientFails, SocketFails,
                ReplayThrows, StartReplaying, MainReturns, ReplayReturns, ValidateThrows,
                Destroy
  <2> QED
    BY <2>1, AnswersOutside
<1>2. CASE UNCHANGED vars
  <2>1. /\ UNCHANGED <<convs, current, queue, pc, kind, validator, up, down, received, reports,
                       faults, lost>>
    BY <1>2 DEF vars, program, history
  <2> QED
    BY <2>1, Zenon DEF AnswersInv
<1> QED
  BY <1>1, <1>2, AnswersNewClient, AnswersSend, AnswersReceive, AnswersAnswer, AnswersNetwork
  DEF Next, ClientStep

LEMMA AnswersInvariant == Spec => [](AnswersInv /\ ClientInv)
<1>1. Init => AnswersInv /\ ClientInv
  BY DEF Init, AnswersInv, ClientInv, NoSocketIsLeft
<1>2. AnswersInv /\ ClientInv /\ [Next]_vars => (AnswersInv /\ ClientInv)'
  BY AnswersNext, ClientNext
<1> QED
  BY <1>1, <1>2, PTL DEF Spec

-----------------------------------------------------------------------------
(* What follows.                                                           *)

LEMMA BeginsWith ==
  \A x, y \in Seq(Message) : \A i \in 1 .. Len(x) : (x \o y)[i] = x[i]
<1> SUFFICES ASSUME NEW x \in Seq(Message), NEW y \in Seq(Message), NEW i \in 1 .. Len(x)
             PROVE  (x \o y)[i] = x[i]
  OBVIOUS
<1>1. Len(x) \in Nat /\ Len(y) \in Nat
  OBVIOUS
<1>2. i \in 1 .. Len(x) + Len(y) /\ i <= Len(x)
  BY <1>1
<1> QED
  BY <1>2, ConcatProperties

LEMMA ToldOfConversation ==
  ASSUME NEW conv, NEW q, NEW n, NEW u, NEW d, NEW R, NEW l, NEW k, NEW v,
         Replaying(conv, q, n, u, d, R, 0, l, k, v), k = "exact", v = "live",
         NEW i \in 1 .. n
  PROVE  i \in R <=> DataOf(conv, "RECV")[i] # RepliesTo(conv)[i]
<1>1. n \in Nat /\ u \in Seq(Message) /\ d \in Seq(Message)
  BY DEF Replaying
<1>2. PICK done : Carried(conv, done, q, n) /\ Answers(done, n, u, d, R, 0, l, k, v)
  BY DEF Replaying
<1>3. PICK taken : Taken(done, n, u, d, taken) /\ Told(done, n, R, taken)
  BY <1>2 DEF Answers
<1>4. /\ done \in Seq(Action) /\ q \in Seq(Action) /\ conv = done \o q
      /\ Len(DataOf(done, "RECV")) = n
  BY <1>2 DEF Carried
<1>a. PICK x, y, c, p, r : /\ x = DataOf(done, "RECV") /\ y = DataOf(q, "RECV")
                           /\ c = Coming(u) /\ p = d \o c /\ r = RepliesTo(q)
  OBVIOUS
<1>5. /\ y \in Seq(Message) /\ r \in Seq(Message)
      /\ DataOf(conv, "RECV") = x \o y /\ RepliesTo(conv) = RepliesTo(done) \o r
  BY <1>4, <1>a, PrefixFacts
<1>6. x \in Seq(Message) /\ Len(x) = n
  <2>1. FlatMap(DataFun("RECV"), done) \in Seq(Message)
    BY <1>4, FunTypes, FlatMapType
  <2> QED
    BY <2>1, <1>4, <1>a, DataOfIsFlatMap
<1>7. c \in Seq(Message)
  BY <1>1, <1>a, FunTypes, FlatMapType DEF Coming
<1>8. taken \in Seq(Message) /\ Len(taken) = n /\ RepliesTo(done) = taken \o p
  BY <1>3, <1>a DEF Taken
<1>9. p \in Seq(Message)
  BY <1>1, <1>7, <1>a, Concats, Zenon
<1>10. RepliesTo(conv) = taken \o (p \o r) /\ p \o r \in Seq(Message)
  <2>1. p \o r \in Seq(Message)
    BY <1>5, <1>9, Concats, Zenon
  <2>2. (taken \o p) \o r = taken \o (p \o r)
    BY <1>5, <1>8, <1>9, Associates, Zenon
  <2> QED
    BY <1>5, <1>8, <2>1, <2>2, Zenon
<1>11. (x \o y)[i] = x[i]
  BY <1>5, <1>6, BeginsWith
<1>12. (taken \o (p \o r))[i] = taken[i]
  BY <1>8, <1>10, BeginsWith
<1>13. i \in R <=> x[i] # taken[i]
  BY <1>3, <1>a DEF Told
<1> QED
  BY <1>5, <1>10, <1>11, <1>12, <1>13, Zenon

LEMMA NothingIsMissing ==
  ASSUME EveryRecvIsAnswered, NEW capture \in Captures, NEW c \in DOMAIN capture,
         NEW q, NEW n, NEW u, NEW d, NEW R, NEW f, NEW l, NEW k, NEW v,
         Replaying(capture[c], q, n, u, d, R, f, l, k, v),
         q # <<>>, q[1].type = "RECV", u = <<>>, d = <<>>
  PROVE  l
<1> SUFFICES ASSUME ~l PROVE FALSE
  OBVIOUS
<1>0. PICK conv : conv = capture[c]
  OBVIOUS
<1>1. n \in Nat
  BY DEF Replaying
<1>2. PICK done : Carried(conv, done, q, n) /\ Answers(done, n, u, d, R, f, l, k, v)
  BY <1>0 DEF Replaying
<1>3. Enough(done, n, u, d)
  BY <1>2 DEF Answers
<1>4. Len(RepliesTo(done)) <= n
  <2>1. Coming(u) = <<>>
    BY FlatMapEmpty DEF Coming
  <2>2. Len(<<>>) = 0
    OBVIOUS
  <2>3. Len(RepliesTo(done)) <= n + 0 + 0
    BY <1>3, <2>1, <2>2 DEF Enough
  <2> QED
    BY <1>1, <2>3
<1>5. PICK a, rest, more : a = q[1] /\ rest = Tail(q) /\ Adds(done, a, more)
  BY DEF Adds
<1>6. Pops(q, a, rest) /\ a.type = "RECV"
  BY <1>5 DEF Pops
<1>7. a \in Action /\ done \in Seq(Action) /\ Carried(conv, more, rest, n + 1)
  BY <1>1, <1>2, <1>5, <1>6, CarriedMore, Zenon
<1>8. RepliesTo(more) = RepliesTo(done)
  <2>1. a.type # "SEND"
    BY <1>6
  <2>2. RepliesTo(done \o <<a>>) = RepliesTo(done)
    BY <1>7, <2>1, RepliesToFacts, Zenon
  <2> QED
    BY <1>5, <2>2 DEF Adds
<1>9. /\ more \in Seq(Action) /\ rest \in Seq(Action) /\ conv = more \o rest
      /\ Len(DataOf(more, "RECV")) = n + 1
  BY <1>7 DEF Carried
<1>10. PICK i : i = Len(more)
  OBVIOUS
<1>11. i \in DOMAIN conv /\ conv[i] = a /\ SubSeq(conv, 1, i) = more
  <2>1. i \in Nat /\ i # 0 /\ i <= Len(more) /\ more[i] = a
    <3>1. PICK e : e = <<a>>
      OBVIOUS
    <3>2. e \in Seq(Action) /\ Len(e) = 1 /\ e[1] = a
      BY <1>7, <3>1
    <3>3. IsConcat(Action, done, e, more)
      <4>1. more = done \o e
        BY <1>5, <3>1 DEF Adds
      <4> QED
        BY <1>7, <3>2, <4>1, IsConcatFacts
    <3>4. Len(done) \in Nat /\ i = Len(done) + 1
      BY <1>7, <1>10, <3>2, <3>3 DEF IsConcat
    <3>5. more[Len(done) + 1] = e[1]
      BY <3>2, <3>3, <3>4 DEF IsConcat
    <3> QED
      BY <1>10, <3>2, <3>4, <3>5
  <2>2. conv \in Seq(Action) /\ Len(conv) = Len(more) + Len(rest)
    BY <1>9, ConcatProperties
  <2>3. i \in 1 .. Len(conv) /\ conv[i] = more[i]
    BY <1>9, <1>10, <2>1, <2>2, ConcatProperties
  <2>4. SubSeq(conv, 1, i) = SubSeq(more, 1, i)
    <3>1. 1 \in 1 .. Len(more) /\ i \in 1 .. Len(more)
      BY <1>10, <2>1
    <3> QED
      BY <1>9, <3>1, SubSeqOfConcat1
  <2>5. SubSeq(more, 1, i) = more
    BY <1>9, <1>10, SubSeqFull
  <2> QED
    BY <2>1, <2>2, <2>3, <2>4, <2>5
<1>12. Len(DataOf(more, "RECV")) <= Len(RepliesTo(more))
  <2>1. \A j \in DOMAIN conv :
          conv[j].type = "RECV" =>
            Len(DataOf(SubSeq(conv, 1, j), "RECV")) <= Len(RepliesTo(SubSeq(conv, 1, j)))
    BY <1>0, Zenon DEF EveryRecvIsAnswered
  <2> QED
    BY <1>6, <1>11, <2>1, Zenon
<1>13. Len(RepliesTo(more)) \in Nat
  BY <1>7, <1>8, RepliesToFacts
<1> QED
  BY <1>1, <1>4, <1>8, <1>9, <1>12, <1>13

\* udp_replay.cc, RECV: for every capture and every server, whatever is sent
\* ahead of being answered, the exact validator reports precisely the
\* datagrams that differ from the capture, as long as the network keeps
\* datagrams and their order.
THEOREM ReportsRight == Spec => []ReportsAreRight
<1>1. AnswersInv => ReportsAreRight
  <2> SUFFICES ASSUME AnswersInv, pc = "replay", faults = 0, kind = "exact", validator = "live",
                      NEW i \in 1 .. received
               PROVE  i \in reports <=>
                        DataOf(convs[current], "RECV")[i] # RepliesTo(convs[current])[i]
    BY DEF ReportsAreRight
  <2>1. Replaying(convs[current], queue, received, up, down, reports, 0, lost, kind, validator)
    BY DEF AnswersInv
  <2> QED
    BY <2>1, ToldOfConversation
<1> QED
  BY <1>1, AnswersInvariant, PTL

\* udp_replay.cc:48, recvfrom() without a timeout: for every capture whose RECVs
\* the server has answers for, replay() waits with nothing under way only when
\* the network lost a datagram; duplicates, strangers and a validator that
\* reports every datagram do not make it wait.
THEOREM WaitsOnlyAfterLoss ==
  ASSUME EveryRecvIsAnswered
  PROVE  Spec => []WaitsInVainOnlyAfterLoss
<1>1. AnswersInv => WaitsInVainOnlyAfterLoss
  <2> SUFFICES ASSUME AnswersInv, AtAction("RECV"), up = <<>>, down = <<>>
               PROVE  lost
    BY DEF WaitsInVainOnlyAfterLoss
  <2>1. /\ convs \in Captures /\ current \in DOMAIN convs
        /\ queue # <<>> /\ queue[1].type = "RECV"
        /\ Replaying(convs[current], queue, received, up, down, reports, faults, lost, kind,
                     validator)
    BY DEF AnswersInv, AtAction
  <2> QED
    BY <2>1, NothingIsMissing
<1> QED
  BY <1>1, AnswersInvariant, PTL

=============================================================================
