------------------------------ MODULE HttpReplay ------------------------------
(***************************************************************************)
(* Replaying: main()'s loop over the recorded conversations, the script    *)
(* interpreter HttpReplayClient::replay, and around it what the code does  *)
(* not control - the socket, and a server that answers whole requests and  *)
(* may hang up.  The two HttpResponseProcessors are those of the code, so  *)
(* every way in which read() may cut up a response is followed.            *)
(*                                                                         *)
(* A recorded conversation comes with the responses its RECV actions were  *)
(* cut from; only properties look at those.                                *)
(***************************************************************************)
EXTENDS HttpResponseProcessor, ActionScript, SequencesExt

CONSTANTS
  Captures,   \* what may have been recorded: sequences of conversations
  Answers,    \* the responses the server may give
  Cuts,       \* where read() may cut: "anywhere", or only "between lines"
  Framing,    \* of the answers: "as captured", or "any"
  BUFSIZ,     \* the most one read() returns
  EndOfRequest  \* the byte by which the server knows a request is whole

Response == [head : DOMAIN Headers, chunks : Seq(Seq(Symbol))]

\* A conversation as the replay sees it.
Conversation ==
  [queue : Seq([type : {"CONNECT", "SEND", "RECV", "CLOSE"}, data : Seq(Symbol)]),
   responses : Seq(Response)]

\* That recorded queues are well formed is proved of Capture.
ASSUME CapturesAssumption ==
  \A capture \in Captures :
     /\ capture \in Seq(Conversation)
     /\ \A i \in DOMAIN capture :
          /\ WellFormed(capture[i].queue)
          /\ \A j \in DOMAIN capture[i].queue :
                capture[i].queue[j].type = "SEND" => capture[i].queue[j].data # <<>>
ASSUME AnswersAssumption == Answers \subseteq Response
ASSUME CutsAssumption == Cuts \in {"anywhere", "between lines"}
ASSUME FramingAssumption == Framing \in {"as captured", "any"}
ASSUME BufsizAssumption == BUFSIZ \in Nat \ {0}

VARIABLES
  convs,     \* the store's conversations: what was recorded
  current,   \* which of them main() is at
  queue,     \* its actions not yet carried out
  pc,        \* "next" action, in the "recv" loop, or how the program ended
  socket,    \* HttpReplayClient::socket_
  nwrite,    \* how much of a SEND is written
  expected,  \* expected_processor, fed from the capture
  test       \* test_processor, fed from the socket

\* The operating system and the server.
VARIABLES
  fds,       \* descriptors the program has open
  inbox,     \* what the server has not read, on the connection of socket
  wire,      \* what the program has not read
  hung_up    \* has the server closed the connection?

\* History, for properties.
VARIABLES
  requests,  \* whole requests sent in this conversation
  answers,   \* the responses given to them
  verdicts   \* what compare() said, and what it was asked about

client  == <<convs, current, queue, pc, socket, nwrite, expected, test>>
network == <<inbox, wire, hung_up>>
history == <<requests, answers, verdicts>>
vars    == <<client, fds, network, history>>

Running == {"next", "recv"}
Ended   == {"done", "failed", "crashed", "killed"}

Action == queue[1]
AtAction(type) == pc = "next" /\ queue # <<>> /\ queue[1].type = type

ActionPop == queue' = Tail(queue)

QuietNetwork == inbox' = <<>> /\ wire' = <<>> /\ hung_up' = FALSE

-----------------------------------------------------------------------------
(* main(): one HttpReplayClient for each conversation, one after another.  *)

NewClient ==
  /\ socket' = -1 /\ nwrite' = 0
  /\ expected' = NewProcessor /\ test' = NewProcessor

Init ==
  /\ convs \in Captures
  /\ current = 1
  /\ queue = IF convs = <<>> THEN <<>> ELSE convs[1].queue
  /\ pc = IF convs = <<>> THEN "done" ELSE "next"
  /\ socket = -1 /\ nwrite = 0
  /\ expected = NewProcessor /\ test = NewProcessor
  /\ fds = {}
  /\ inbox = <<>> /\ wire = <<>> /\ hung_up = FALSE
  /\ requests = 0 /\ answers = <<>> /\ verdicts = <<>>

\* Mutant: the last conversation is not replayed.
StopsBeforeLast ==
  /\ pc = "next" /\ queue = <<>>
  /\ IF current + 1 < Len(convs)
     THEN /\ current' = current + 1
          /\ queue' = convs[current + 1].queue
          /\ UNCHANGED pc
     ELSE /\ pc' = "done"
          /\ UNCHANGED <<current, queue>>
  /\ NewClient /\ QuietNetwork
  /\ requests' = 0 /\ answers' = <<>>
  /\ UNCHANGED <<convs, fds, verdicts>>

\* replay() returns.  HttpReplayClient has no destructor: a socket it still
\* has stays open until the program ends.
NextConversation ==
  /\ pc = "next" /\ queue = <<>>
  /\ IF current < Len(convs)
     THEN /\ current' = current + 1
          /\ queue' = convs[current + 1].queue
          /\ UNCHANGED pc
     ELSE /\ pc' = "done"
          /\ UNCHANGED <<current, queue>>
  /\ NewClient /\ QuietNetwork
  /\ requests' = 0 /\ answers' = <<>>
  /\ UNCHANGED <<convs, fds, verdicts>>

-----------------------------------------------------------------------------
(* CONNECT and CLOSE.                                                      *)

LowestUnused == CHOOSE n \in 0 .. Cardinality(fds) :
                  n \notin fds /\ \A m \in 0 .. n - 1 : m \in fds

Connect ==
  /\ AtAction("CONNECT")
  /\ socket' = LowestUnused
  /\ fds' = fds \cup {LowestUnused}
  /\ QuietNetwork /\ ActionPop
  /\ UNCHANGED <<convs, current, pc, nwrite, expected, test, history>>

\* socket() or connect() reports an error; connect()'s leaves a descriptor.
ConnectFails ==
  /\ AtAction("CONNECT")
  /\ \/ UNCHANGED <<socket, fds>>
     \/ socket' = LowestUnused /\ fds' = fds \cup {LowestUnused}
  /\ pc' = "failed"
  /\ UNCHANGED <<convs, current, queue, nwrite, expected, test, network, history>>

\* Mutant: socket_ keeps the number of the closed descriptor.
CloseKeepsNumber ==
  /\ AtAction("CLOSE")
  /\ fds' = fds \ {socket}
  /\ QuietNetwork /\ ActionPop
  /\ UNCHANGED <<convs, current, pc, socket, nwrite, expected, test, history>>

\* Mutant: the descriptor is forgotten, not closed.
CloseForgets ==
  /\ AtAction("CLOSE")
  /\ socket' = -1
  /\ QuietNetwork /\ ActionPop
  /\ UNCHANGED <<convs, current, pc, nwrite, expected, test, fds, history>>

Close ==
  /\ AtAction("CLOSE")
  /\ fds' = fds \ {socket}
  /\ socket' = -1
  /\ QuietNetwork /\ ActionPop
  /\ UNCHANGED <<convs, current, pc, nwrite, expected, test, history>>

-----------------------------------------------------------------------------
(* SEND.                                                                   *)

Min2(m, n) == IF m < n THEN m ELSE n

CountRequests(data) == Cardinality({i \in DOMAIN data : data[i] = EndOfRequest})

\* Mutant: a partial write is taken for all of it.
WriteOnce(n) ==
  LET part == SubSeq(Action.data, 1, n)
  IN  /\ AtAction("SEND")
      /\ socket \in fds
      /\ n <= Len(Action.data)
      /\ inbox' = IF hung_up THEN inbox ELSE inbox \o part
      /\ requests' = requests + CountRequests(part)
      /\ nwrite' = 0
      /\ expected' = Reset(expected) /\ test' = Reset(test)
      /\ ActionPop
      /\ UNCHANGED <<convs, current, pc, socket, fds, wire, hung_up,
                     answers, verdicts>>

\* Mutant: the processors keep the response before.
WriteNoReset(n) ==
  LET part == SubSeq(Action.data, nwrite + 1, nwrite + n)
  IN  /\ AtAction("SEND")
      /\ socket \in fds
      /\ nwrite + n <= Len(Action.data)
      /\ inbox' = IF hung_up THEN inbox ELSE inbox \o part
      /\ requests' = requests + CountRequests(part)
      /\ IF nwrite + n = Len(Action.data)
         THEN nwrite' = 0 /\ ActionPop
         ELSE nwrite' = nwrite + n /\ UNCHANGED queue
      /\ UNCHANGED <<convs, current, pc, socket, expected, test, fds, wire,
                     hung_up, answers, verdicts>>

\* write() takes n bytes.  The last of them ends the action: both processors
\* are made ready for the response.
Write(n) ==
  LET part == SubSeq(Action.data, nwrite + 1, nwrite + n)
  IN  /\ AtAction("SEND")
      /\ socket \in fds
      /\ nwrite + n <= Len(Action.data)
      /\ inbox' = IF hung_up THEN inbox ELSE inbox \o part
      /\ requests' = requests + CountRequests(part)
      /\ IF nwrite + n = Len(Action.data)
         THEN /\ nwrite' = 0
              /\ expected' = Reset(expected) /\ test' = Reset(test)
              /\ ActionPop
         ELSE /\ nwrite' = nwrite + n
              /\ UNCHANGED <<queue, expected, test>>
      /\ UNCHANGED <<convs, current, pc, socket, fds, wire, hung_up,
                     answers, verdicts>>

\* The most there is to write.
MaxWrite == IF AtAction("SEND") THEN Len(Action.data) - nwrite ELSE 0

\* An error of write() or read(), which ends the program by an exception; a
\* server that hung up makes write() raise SIGPIPE, which nothing handles.
IoFails ==
  /\ AtAction("SEND") \/ (pc = "recv" /\ ~Complete(test))
  /\ \/ pc' = "failed"
     \/ AtAction("SEND") /\ hung_up /\ pc' = "killed"
  /\ UNCHANGED <<convs, current, queue, socket, nwrite, expected, test,
                 fds, network, history>>

-----------------------------------------------------------------------------
(* RECV.                                                                   *)

FateOf(r) == CASE r.fate = "throw" -> "failed"
               [] r.fate = "crash" -> "crashed"
               [] OTHER            -> "recv"

\* Bytes written behind the payload buffer: the program may go on or not.
Fates(r) == {FateOf(r)} \cup (IF Overruns(r.data) THEN {"crashed"} ELSE {})

\* Mutant: packets are passed on after the captured response is whole, too.
ExpectMore ==
  /\ AtAction("RECV")
  /\ expected' = ProcessData(expected, Action.data)
  /\ pc' \in Fates(expected')
  /\ UNCHANGED <<convs, current, queue, socket, nwrite, test, fds, network, history>>

Expect ==
  /\ AtAction("RECV")
  /\ expected' = IF Complete(expected) THEN expected
                                       ELSE ProcessData(expected, Action.data)
  /\ pc' \in Fates(expected')
  /\ UNCHANGED <<convs, current, queue, socket, nwrite, test, fds, network, history>>

\* A header, and a chunk size, comes with its line end.
LinesWhole(data) ==
  \A i \in 1 .. Len(data) :
    /\ data[i].kind = "head" => i + 4 <= Len(data)
    /\ data[i].kind = "size" => i + 2 <= Len(data)

CutAllowed(n) == Cuts = "between lines" => LinesWhole(SubSeq(wire, 1, n))

Read(n) ==
  /\ pc = "recv" /\ ~Complete(test)
  /\ socket \in fds
  /\ n <= Len(wire) /\ CutAllowed(n)
  /\ wire' = Drop(wire, n)
  /\ test' = ProcessData(test, SubSeq(wire, 1, n))
  /\ pc' \in Fates(test')
  /\ UNCHANGED <<convs, current, queue, socket, nwrite, expected, fds,
                 inbox, hung_up, history>>

\* read() returns 0.
EndOfStream ==
  /\ pc = "recv" /\ ~Complete(test)
  /\ wire = <<>> /\ hung_up
  /\ pc' = "failed"
  /\ UNCHANGED <<convs, current, queue, socket, nwrite, expected, test,
                 fds, network, history>>

NoResponse == [head |-> 0, chunks |-> <<>>]

ResponseAt(responses, i) ==
  IF i \in DOMAIN responses THEN responses[i] ELSE NoResponse

Verdict ==
  [conversation |-> current,
   exchange     |-> requests,
   captured     |-> ResponseAt(convs[current].responses, requests),
   answered     |-> ResponseAt(answers, requests),
   said         |-> Compare(expected, test)]

\* Mutant: the connection is given up with the first response.
ReceivedAndClosed ==
  /\ pc = "recv" /\ Complete(test)
  /\ fds' = fds \ {socket} /\ socket' = -1
  /\ verdicts' = IF Complete(expected) THEN Append(verdicts, Verdict) ELSE verdicts
  /\ IF Complete(expected) /\ Compare(expected, test) = "throw"
     THEN pc' = "failed" /\ UNCHANGED queue
     ELSE pc' = "next" /\ ActionPop
  /\ UNCHANGED <<convs, current, nwrite, expected, test, network,
                 requests, answers>>

\* Mutant: one read() is taken for the whole response.
ReceivedSome ==
  /\ pc = "recv" /\ test.status_code # NoStatus
  /\ pc' = "next" /\ ActionPop
  /\ UNCHANGED <<convs, current, socket, nwrite, expected, test, fds, network,
                 history>>

\* The response from the server is whole.  The captured one may need further
\* RECV actions; once it is whole too, the two are compared.
Received ==
  /\ pc = "recv" /\ Complete(test)
  /\ verdicts' = IF Complete(expected) THEN Append(verdicts, Verdict) ELSE verdicts
  /\ IF Complete(expected) /\ Compare(expected, test) = "throw"
     THEN pc' = "failed" /\ UNCHANGED queue
     ELSE pc' = "next" /\ ActionPop
  /\ UNCHANGED <<convs, current, socket, nwrite, expected, test, fds, network,
                 requests, answers>>

-----------------------------------------------------------------------------
(* The server (external), and how HTTP frames a response.                  *)

Payload(r) == FlattenSeq(r.chunks)

ChunkOf(c) == <<Size(Len(c)), CR, LF>> \o c \o <<CR, LF>>

Encode(r) ==
  <<Head1(r.head), CR, LF, CR, LF>> \o
  (IF Headers[r.head].chunked
   THEN FlattenSeq([i \in DOMAIN r.chunks |-> ChunkOf(r.chunks[i])]) \o ChunkOf(<<>>)
   ELSE Payload(r))

RequestEnd == CHOOSE i \in DOMAIN inbox :
                inbox[i] = EndOfRequest /\ \A j \in 1 .. i - 1 : inbox[j] # EndOfRequest

Answer(r) ==
  /\ pc \in Running /\ ~hung_up
  /\ \E i \in DOMAIN inbox : inbox[i] = EndOfRequest
  /\ inbox' = Drop(inbox, RequestEnd)
  /\ wire' = wire \o Encode(r)
  /\ answers' = Append(answers, r)
  /\ UNCHANGED <<client, fds, hung_up, requests, verdicts>>

HangUp ==
  /\ pc \in Running /\ socket \in fds /\ ~hung_up
  /\ hung_up' = TRUE
  /\ UNCHANGED <<client, fds, inbox, wire, history>>

-----------------------------------------------------------------------------

ClientStep ==
  \/ NextConversation
  \/ Connect \/ Close
  \/ \E n \in 1 .. BUFSIZ : Read(n)
  \/ \E n \in 1 .. MaxWrite : Write(n)
  \/ Expect \/ EndOfStream \/ Received

ClientFails == ConnectFails \/ IoFails

\* A server that frames its answers as the captured one did uses chunks or a
\* content-length in the whole of a conversation.
FramedAsCaptured(r) ==
  \A i \in DOMAIN convs[current].responses :
     Headers[r.head].chunked = Headers[convs[current].responses[i].head].chunked

Answering ==
  \E r \in Answers : Answer(r) /\ (Framing = "as captured" => FramedAsCaptured(r))

Next == ClientStep \/ ClientFails \/ Answering \/ HangUp

Spec == Init /\ [][Next]_vars

\* The client is one thread that waits for nothing but the server; the server
\* is taken to answer what it is asked.  Nothing needs to fail or hang up.
FairSpec == Spec /\ WF_vars(ClientStep) /\ WF_vars(Answering)

-----------------------------------------------------------------------------
(* The traffic the code is written for.                                    *)

\* A message that says where it ends: in chunks, none of which is empty, or
\* with the length it has.
Framed(r) ==
  LET header == Headers[r.head]
  IN  IF header.chunked
      THEN header.length = NoLength /\ \A i \in DOMAIN r.chunks : r.chunks[i] # <<>>
      ELSE header.length = Len(Payload(r))

Asks(action) == action.type = "SEND" /\ Last(action.data) = EndOfRequest

\* One request at a time: what is received follows it, and what follows it is
\* received.
TakesTurns(conversation) ==
  LET actions == conversation.queue
  IN  \A i \in DOMAIN actions :
        /\ actions[i].type = "SEND" =>
             \A j \in 1 .. Len(actions[i].data) - 1 : actions[i].data[j] # EndOfRequest
        /\ actions[i].type = "RECV" =>
             i > 1 /\ (actions[i - 1].type = "RECV" \/ Asks(actions[i - 1]))
        /\ i > 1 /\ Asks(actions[i - 1]) => actions[i].type = "RECV"
        /\ Asks(actions[i]) => conversation.responses # <<>>

\* What was recorded after one position of a script up to another.
Packets(actions, i, j) == FlattenSeq([k \in 1 .. j - i |-> actions[i + k].data])

\* The requests made at a position or before.
Requested(actions, i) == Cardinality({j \in 1 .. i : Asks(actions[j])})

\* The packets of a response come first, each once and in order.
HeardAsSent(c, e) ==
  LET actions == convs[c].queue
  IN  \E i \in DOMAIN actions : \E j \in i .. Len(actions) :
        /\ Asks(actions[i]) /\ Requested(actions, i) = e
        /\ \A k \in i + 1 .. j : actions[k].type = "RECV"
        /\ Packets(actions, i, j) = Encode(convs[c].responses[e])

\* So do those of all responses, or of as much of one as was recorded.
InOrder(conversation) ==
  LET actions   == conversation.queue
      responses == conversation.responses
  IN  /\ \A i \in DOMAIN actions : Asks(actions[i]) =>
           LET e == Requested(actions, i)
           IN  /\ e \in DOMAIN responses
               /\ \E j \in i .. Len(actions) :
                    /\ \A k \in i + 1 .. j :
                         /\ actions[k].type = "RECV"
                         /\ actions[k].data # <<>> /\ LinesWhole(actions[k].data)
                    /\ IsPrefix(Packets(actions, i, j), Encode(responses[e]))
                    /\ \/ Packets(actions, i, j) = Encode(responses[e])
                       \/ j + 1 \in DOMAIN actions => actions[j + 1].type # "RECV"
      /\ \A e \in DOMAIN responses :
           /\ Framed(responses[e])
           /\ Headers[responses[e].head].chunked = Headers[responses[1].head].chunked

RecordedInOrder == \A c \in DOMAIN convs : InOrder(convs[c])

\* Nothing that strncmp() takes for an end.
NoNul == \A c \in DOMAIN convs : \A e \in DOMAIN convs[c].responses :
           LET r == convs[c].responses[e]
           IN  Headers[r.head].chunked => NUL \notin Range(Payload(r))

\* http_replay.cc:58, "this assumes that response for the current request
\* arrives before the another request starts"; and header and chunk size lines
\* arrive in one piece.
OneAtATime ==
  /\ \A capture \in Captures : \A i \in DOMAIN capture : TakesTurns(capture[i])
  /\ \A r \in Answers : Framed(r)
  /\ Cuts = "between lines" /\ Framing = "as captured"

-----------------------------------------------------------------------------
(* Properties.                                                             *)

\* The types of the client's state; socket_ is -1 or a descriptor in use, and a
\* write in progress leaves something to write.
TypeOK ==
  /\ pc \in Running \cup Ended
  /\ current \in Nat \ {0}
  /\ socket \in fds \cup {-1}
  /\ fds \subseteq Nat
  /\ nwrite > 0 => nwrite < Len(Action.data)
  /\ {expected, test} \subseteq ResponseProcessor
  /\ inbox \in Seq(Symbol) /\ wire \in Seq(Symbol)

\* HttpReplayClient::replay checks socket_ nowhere: whatever conversation was
\* recorded, it never writes to, reads from or closes a socket that is not
\* open.
SocketIsOpen ==
  /\ pc = "next" /\ queue # <<>> /\ Action.type # "CONNECT" => socket \in fds
  /\ pc = "recv" => socket \in fds

Done(c) == IF c < current THEN Len(convs[c].queue)
                          ELSE Len(convs[c].queue) - Len(queue)

DoneIn(c, type) == {<<c, i>> : i \in {j \in Positions(convs[c].queue, type) : j <= Done(c)}}

\* The actions of a type that have been carried out: conversation and position.
CarriedOut(type) == UNION {DoneIn(c, type) : c \in 1 .. Least(current, Len(convs))}

\* http_replay.cc: descriptors are closed by CLOSE actions and by nothing else.
\* The program holds exactly one for each CONNECT without its CLOSE, and never
\* closes one of another connection.
DescriptorsAreAccountedFor ==
  pc # "failed" =>
    Cardinality(fds) + Cardinality(CarriedOut("CLOSE")) = Cardinality(CarriedOut("CONNECT"))

\* http_replay.cc, the RECV loop with processData: however read() cuts the
\* response up, the loop ends exactly when all of it has been read, and what
\* has been collected then is its payload without the framing.
CompleteWhenWhole ==
  pc = "recv" /\ Len(answers) = requests =>
    /\ Complete(test) <=> wire = <<>>
    /\ Complete(test) =>
         /\ test.status_code = Headers[Last(answers).head].status
         /\ test.data.payload = Payload(Last(answers))

Differs(r, s) ==
  \/ NoResponse \in {r, s}
  \/ Headers[r.head].status # Headers[s.head].status
  \/ Payload(r) # Payload(s)

\* http_replay.cc:83: a difference is reported for exactly those exchanges in
\* which the server answered otherwise than it did in the capture - not one
\* late, not against the response before, and not because the two were cut up
\* differently.
ReportsAreRight ==
  \A i \in DOMAIN verdicts :
    LET v == verdicts[i]
    IN  v.said # "throw" =>
          (v.said = "different" <=> Differs(v.captured, v.answered))

\* main() and replay(): a run that ends well has compared every response, in
\* every conversation, unless one of its packets was recorded again before it
\* was whole.
EveryResponseIsCompared ==
  pc = "done" =>
    \A c \in DOMAIN convs : \A e \in DOMAIN convs[c].responses :
      HeardAsSent(c, e) =>
        \E i \in DOMAIN verdicts :
          verdicts[i].conversation = c /\ verdicts[i].exchange = e

\* http_response_processor.h:59 copies what it is given, without looking at the
\* size of the buffer: nothing is written behind it by a server that answers
\* what it is asked, nor by a capture unless a packet was recorded again before
\* the response was whole.
BuffersHold ==
  /\ ~Overruns(test.data)
  /\ Overruns(expected.data) => ~HeardAsSent(current, requests)

\* http_replay.cc:58 assumes that a response arrives before another request
\* starts; for a conversation recorded that way, replaying keeps it so.
AnsweredBeforeNextRequest ==
  [][requests' > requests => Len(answers) = requests /\ wire = <<>>]_vars

\* http_replay.cc: against a server that answers, and whatever fails, a replay
\* ends: no partial write, and no way the response arrives, makes it wait for
\* something that does not come.
ReplayEnds == <>(pc \in Ended)

\* http_response_processor.h:105, "Consume the response data.": a piece of a
\* response is consumed, or refused by an exception.
DataIsConsumed == pc # "crashed"

\* http_response_processor.h:111, "Reset this class to consume a new HTTP
\* response": the response read is understood by its own header.
ReadByItsOwnHeader ==
  pc = "recv" /\ test.status_code # NoStatus /\ answers # <<>> =>
    (test.data.type = "chunked" <=> Headers[Last(answers).head].chunked)

\* http_response_processor.h:23, "Compare if the specified datga processor
\* contains the same data".
SameMeansSameData ==
  \A i \in DOMAIN verdicts :
    verdicts[i].said = "same" =>
      Payload(verdicts[i].captured) = Payload(verdicts[i].answered)

=============================================================================
