------------------------ MODULE HttpResponseProcessor ------------------------
(***************************************************************************)
(* HttpResponseProcessor and its two payload processors: the incremental   *)
(* parser that both the captured and the live response go through.  The    *)
(* object is a record; a method is an operator from the object and the     *)
(* data to the object afterwards.                                          *)
(*                                                                         *)
(* A response is a sequence of symbols: the status line and header lines   *)
(* are one symbol, as is a hexadecimal chunk size; every other symbol is a *)
(* byte.  Data arrives cut between any two symbols.                        *)
(***************************************************************************)
EXTENDS Integers, Sequences

CONSTANTS
  Headers,   \* the header blocks there are: a sequence of Header records
  TMPSIZ     \* room for a chunk size and what arrives with it

NoLength == -1

Header == [status : Nat, length : Nat \cup {NoLength}, chunked : BOOLEAN]

ASSUME HeadersAssumption == Headers \in Seq(Header)
ASSUME TmpSizAssumption == TMPSIZ \in Nat \ {0}

Head1(i) == [kind |-> "head", val |-> i]
Size(n)  == [kind |-> "size", val |-> n]
Byte(n)  == [kind |-> "byte", val |-> n]
CR == [kind |-> "cr", val |-> 0]
LF == [kind |-> "lf", val |-> 0]
NUL == Byte(0)

Symbol ==
  [kind : {"head"}, val : DOMAIN Headers] \cup
  [kind : {"size", "byte", "cr", "lf"}, val : Nat]

\* The position before which t starts in s, looking from the one after
\* start; NotFound is npos.
NotFound == -1
Find(s, t, start) ==
  LET at == {i \in start .. Len(s) - Len(t) : SubSeq(s, i + 1, i + Len(t)) = t}
  IN  IF at = {} THEN NotFound ELSE CHOOSE i \in at : \A j \in at : i <= j

Drop(s, n) == SubSeq(s, n + 1, Len(s))
Least(m, n) == IF m < n THEN m ELSE n

-----------------------------------------------------------------------------
(* Payload processors.  fate is what became of the call: "throw" is an     *)
(* exception, which ends the program; "crash" stands for the outcome of    *)
(* using the null pointer.                                                 *)

NoProcessor ==
  [type |-> "null", payload_size |-> 0, payload |-> <<>>, complete |-> FALSE,
   chunk_size |-> -1, chunk_read |-> 0, tmp_buf |-> <<>>, end_chars |-> 0,
   fate |-> "ok"]

NewContentLenProcessor(size) ==
  [NoProcessor EXCEPT !.type = "length", !.payload_size = size]

NewChunkedProcessor == [NoProcessor EXCEPT !.type = "chunked"]

IsComplete(d) ==
  IF d.type = "length" THEN Len(d.payload) = d.payload_size ELSE d.complete

\* memcpy without a bound: data beyond payload_size lands behind the buffer,
\* and the count of what was read passes the size and stays past it.
ContentLenProcess(d, data) == [d EXCEPT !.payload = @ \o data]
Overruns(d) == d.type = "length" /\ Len(d.payload) > d.payload_size

\* One iteration of the loop of ChunkedProcessor::process: <<object, what is
\* left of data, go on?>>.
ReadSize(d, data) ==
  LET buf == d.tmp_buf \o SubSeq(data, 1, Least(Len(data), TMPSIZ - Len(d.tmp_buf)))
  IN  IF Find(buf, <<CR, LF>>, 0) # NotFound
      THEN IF buf[1].kind = "size"
           THEN <<[d EXCEPT !.tmp_buf = buf, !.chunk_size = buf[1].val],
                  Drop(data, 3), TRUE>>
           ELSE <<[d EXCEPT !.fate = "throw"], data, FALSE>>
      ELSE IF Len(buf) = TMPSIZ
      THEN <<[d EXCEPT !.fate = "throw"], data, FALSE>>
      ELSE <<[d EXCEPT !.tmp_buf = buf], data, FALSE>>

\* Mutant: the response ends with the first character of the last line end.
ReadEndEarly(d, data) ==
  IF data[1] # (IF d.end_chars = 0 THEN CR ELSE LF)
  THEN <<[d EXCEPT !.fate = "throw"], data, FALSE>>
  ELSE IF d.chunk_size = 0
  THEN <<[d EXCEPT !.complete = TRUE], data, FALSE>>
  ELSE IF d.end_chars = 0
  THEN <<[d EXCEPT !.end_chars = 1], Drop(data, 1), TRUE>>
  ELSE <<[d EXCEPT !.chunk_size = -1, !.chunk_read = 0, !.tmp_buf = <<>>,
                   !.end_chars = 0],
         Drop(data, 1), TRUE>>

\* The line end after a chunk; after the last chunk it ends the response, and
\* what follows in data is not looked at.
ReadEnd(d, data) ==
  IF data[1] # (IF d.end_chars = 0 THEN CR ELSE LF)
  THEN <<[d EXCEPT !.fate = "throw"], data, FALSE>>
  ELSE IF d.end_chars = 0
  THEN <<[d EXCEPT !.end_chars = 1], Drop(data, 1), TRUE>>
  ELSE IF d.chunk_size = 0
  THEN <<[d EXCEPT !.complete = TRUE], data, FALSE>>
  ELSE <<[d EXCEPT !.chunk_size = -1, !.chunk_read = 0, !.tmp_buf = <<>>,
                   !.end_chars = 0],
         Drop(data, 1), TRUE>>

ReadChunk(d, data) ==
  LET n == Least(Len(data), d.chunk_size - d.chunk_read)
  IN  <<[d EXCEPT !.payload = @ \o SubSeq(data, 1, n), !.chunk_read = @ + n],
        Drop(data, n), TRUE>>

ChunkStep(d, data) ==
  CASE d.chunk_size < 0             -> ReadSize(d, data)
    [] d.chunk_size = d.chunk_read  -> ReadEnd(d, data)
    [] OTHER                        -> ReadChunk(d, data)

PayloadProcessor ==
  [type : {"null", "length", "chunked"}, payload_size : Nat, payload : Seq(Symbol),
   complete : BOOLEAN, chunk_size : Nat \cup {-1}, chunk_read : Nat,
   tmp_buf : Seq(Symbol), end_chars : {0, 1}, fate : {"ok", "throw"}]

\* No more of a chunk is read than there is of it.
ChunkedProcessor ==
  {d \in PayloadProcessor :
     /\ d.type = "chunked"
     /\ d.chunk_read <= IF d.chunk_size < 0 THEN 0 ELSE d.chunk_size}

\* The loop, of an object and the data passed to it; every step that goes on
\* uses up data.
ChunkedProcess[call \in ChunkedProcessor \X Seq(Symbol)] ==
  IF call[2] = <<>> THEN call[1]
  ELSE LET step == ChunkStep(call[1], call[2])
       IN  IF step[3] THEN ChunkedProcess[<<step[1], step[2]>>] ELSE step[1]

Process(d, data) ==
  IF d.type = "length" THEN ContentLenProcess(d, data)
                       ELSE ChunkedProcess[<<d, data>>]

-----------------------------------------------------------------------------
(* HttpResponseProcessor.                                                  *)

NoStatus  == -1
NoHeaders == [length |-> NoLength, chunked |-> FALSE]

ResponseProcessor ==
  [status_code : Nat \cup {NoStatus}, header_str : Seq(Symbol),
   headers : [length : Nat \cup {NoLength}, chunked : BOOLEAN],
   data : PayloadProcessor, fate : {"ok", "throw", "crash"}]

NewProcessor ==
  [status_code |-> NoStatus, header_str |-> <<>>, headers |-> NoHeaders,
   data |-> NoProcessor, fate |-> "ok"]

\* headers_ is left as it is.
Reset(r) ==
  [r EXCEPT !.status_code = NoStatus, !.header_str = <<>>, !.data = NoProcessor]

Complete(r) == r.status_code # NoStatus /\ IsComplete(r.data)

\* headers_[key] = value for each line: what the header does not name keeps
\* the value it had.  A first line of one word has no status code.
ParseHeader(r, first) ==
  IF first.kind # "head" THEN r
  ELSE LET header == Headers[first.val]
       IN  [r EXCEPT
              !.status_code = header.status,
              !.headers =
                [length  |-> IF header.length # NoLength THEN header.length ELSE @.length,
                 chunked |-> header.chunked \/ @.chunked]]

\* A payload length decides before the transfer encoding does.
SelectProcessor(r) ==
  IF r.headers.length # NoLength
  THEN [r EXCEPT !.data = NewContentLenProcessor(r.headers.length)]
  ELSE IF r.headers.chunked
  THEN [r EXCEPT !.data = NewChunkedProcessor]
  ELSE [r EXCEPT !.fate = "throw"]

PassOn(r, data) ==
  LET d == Process(r.data, data) IN [r EXCEPT !.data = d, !.fate = d.fate]

\* Until the blank line has been found; data_processor_ is dereferenced at the
\* end even when it was not, and is null unless a header without a status code
\* was there before.
ProcessHeader(r, data) ==
  LET orig_len == Len(r.header_str)
      str == r.header_str \o data
      pos == IF Len(str) > 3
             THEN Find(str, <<CR, LF, CR, LF>>, IF orig_len < 3 THEN 0 ELSE orig_len - 3)
             ELSE NotFound
  IN  IF pos = NotFound
      THEN [r EXCEPT !.header_str = str,
                     !.fate = IF r.data.type = "null" THEN "crash" ELSE "ok"]
      ELSE LET parsed == SelectProcessor(ParseHeader(r, str[1]))
               q == [parsed EXCEPT !.header_str = SubSeq(str, 1, pos + 4)]
           IN  IF q.fate = "ok" /\ Len(str) > pos + 4
               THEN PassOn(q, Drop(str, pos + 4)) ELSE q

ProcessData(r, data) ==
  IF r.status_code = NoStatus THEN ProcessHeader(r, data) ELSE PassOn(r, data)

\* strncmp: equal as far as the first NUL that both have.
SameText(s, t) ==
  \A i \in DOMAIN s :
     s[i] = t[i] \/ \E j \in 1 .. i - 1 : s[j] = NUL

SamePayload(d, e) ==
  /\ Len(d.payload) = Len(e.payload)
  /\ IF d.type = "chunked" THEN SameText(d.payload, e.payload)
                           ELSE d.payload = e.payload

\* compare: "same", "different", or "throw".
Compare(r, s) ==
  IF ~Complete(r) \/ ~Complete(s) THEN "throw"
  ELSE IF r.status_code # s.status_code THEN "different"
  ELSE IF r.data.type # s.data.type THEN "throw"
  ELSE IF SamePayload(r.data, s.data) THEN "same" ELSE "different"

=============================================================================
