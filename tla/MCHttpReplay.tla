----------------------------- MODULE MCHttpReplay -----------------------------
(***************************************************************************)
(* Instances of HttpReplay for TLC: what was recorded, and what the server *)
(* may answer.                                                             *)
(***************************************************************************)
EXTENDS HttpReplay

EndOfRequestByte == Byte(9)
X == Byte(1)
Y == Byte(2)

Header3(status, length, chunked) ==
  [status |-> status, length |-> length, chunked |-> chunked]

MCHeaders ==
  <<Header3(200, 2, FALSE), Header3(404, 2, FALSE), Header3(200, 0, FALSE),
    Header3(200, NoLength, TRUE), Header3(500, NoLength, TRUE)>>

\* Responses with a content-length: two bodies, another status, no body.
PlainXY == [head |-> 1, chunks |-> <<<<X, Y>>>>]
PlainYY == [head |-> 1, chunks |-> <<<<Y, Y>>>>]
MissXY  == [head |-> 2, chunks |-> <<<<X, Y>>>>]
Empty   == [head |-> 3, chunks |-> <<>>]

\* Chunked ones: one chunk, the same data in two, a line end as data, another
\* status, no data.
OneChunk  == [head |-> 4, chunks |-> <<<<X, Y>>>>]
TwoChunks == [head |-> 4, chunks |-> <<<<X>>, <<Y>>>>]
LineEnds  == [head |-> 4, chunks |-> <<<<CR, LF>>, <<X>>>>]
ErrChunk  == [head |-> 5, chunks |-> <<<<X, Y>>>>]
NoChunk   == [head |-> 4, chunks |-> <<>>]

\* Chunked responses that differ after a NUL.
NulX == [head |-> 4, chunks |-> <<<<NUL, X>>>>]
NulY == [head |-> 4, chunks |-> <<<<NUL, Y>>>>]

-----------------------------------------------------------------------------
(* Recorded actions.                                                       *)

CONNECT == [type |-> "CONNECT", data |-> <<>>]
CLOSE   == [type |-> "CLOSE", data |-> <<>>]
SEND(data) == [type |-> "SEND", data |-> data]
RECV(data) == [type |-> "RECV", data |-> data]

Request == SEND(<<X, EndOfRequestByte>>)

\* The response to a request as one packet, or as two cut after n symbols.
InOne(r) == <<RECV(Encode(r))>>
InTwo(r, n) == <<RECV(SubSeq(Encode(r), 1, n)), RECV(Drop(Encode(r), n))>>

Recorded(actions, responses) == [queue |-> actions, responses |-> responses]

\* One exchange; one exchange whose response packets are cut, and the last of
\* them retransmitted, or the first; the request in two packets; two exchanges;
\* two connections, the first reset by the peer so that no CLOSE was recorded.
Once(r) == Recorded(<<CONNECT, Request>> \o InOne(r) \o <<CLOSE>>, <<r>>)
Cut(r, n) ==
  Recorded(<<CONNECT, Request>> \o InTwo(r, n)
             \o <<RECV(Drop(Encode(r), n)), CLOSE>>, <<r>>)
Again(r, n) ==
  Recorded(<<CONNECT, Request, RECV(SubSeq(Encode(r), 1, n))>> \o InTwo(r, n)
             \o <<CLOSE>>, <<r>>)
TwoPackets(r) ==
  Recorded(<<CONNECT, SEND(<<X>>), SEND(<<X, EndOfRequestByte>>)>> \o InOne(r)
             \o <<CLOSE>>, <<r>>)
Twice(r, s) ==
  Recorded(<<CONNECT, Request>> \o InOne(r) \o <<Request>> \o InOne(s) \o <<CLOSE>>,
           <<r, s>>)
ResetBetween(r, s) ==
  Recorded(<<CONNECT, Request>> \o InOne(r) \o <<CONNECT, Request>> \o InOne(s)
             \o <<CLOSE>>, <<r, s>>)

PlainAnswers == {PlainXY, PlainYY, MissXY, Empty}

RecordedTwice == {<<Again(PlainXY, n)>> : n \in {5, 6}}

PlainCaptures ==
  {<<>>, <<Recorded(<<>>, <<>>), Once(Empty)>>, <<TwoPackets(MissXY)>>,
   <<ResetBetween(PlainXY, Empty), Once(PlainYY)>>}
    \cup {<<Twice(r, s)>> : r \in PlainAnswers, s \in PlainAnswers}
    \cup {<<Cut(PlainXY, n), Once(PlainXY)>> : n \in {5, 6}}
    \cup RecordedTwice

ChunkedAnswers == {OneChunk, TwoChunks, LineEnds, ErrChunk, NoChunk}

\* A chunk size line is in one packet.
ChunkedCaptures ==
  {<<Once(ErrChunk)>>}
    \cup {<<Twice(r, s)>> : r \in ChunkedAnswers \ {ErrChunk}, s \in {LineEnds, NoChunk}}
    \cup {<<Cut(TwoChunks, n)>> : n \in {5, 8, 9, 10, 11, 14, 15, 16, 17, 20, 21}}

AllCaptures == PlainCaptures \cup ChunkedCaptures
AllAnswers == PlainAnswers \cup ChunkedAnswers

SplitAnswers == {PlainXY}
SplitCaptures == {<<Once(PlainXY)>>}

MixedCaptures == {<<Twice(Empty, OneChunk)>>}
MixedAnswers == {Empty, OneChunk}

NulCaptures == {<<Once(NulX)>>}
NulAnswers == {NulX, NulY}

\* What is proved of one request at a time is proved of such captures.
ASSUME MCTurnsAreTaken == Captures = AllCaptures => OneAtATime
ASSUME MCMostAreInOrder ==
  \A capture \in AllCaptures \ RecordedTwice : \A i \in DOMAIN capture : InOrder(capture[i])

=============================================================================
